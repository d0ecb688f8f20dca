--------------------------------- MODULE Tunnel ---------------------------------
(***************************************************************************)
(* One connection through a tunnel of secure mode.  An application         *)
(* connects to the near end, which dials the far end, which connects to    *)
(* the target; for a forward the host is near, for a reverse the device.   *)
(* After the Noise handshake both run copy_noise_tunnel: two loops each,   *)
(* upload and download, until both are done or one fails.                  *)
(*                                                                         *)
(* Data is counted in chunks.  A record is "data", or "end": the reading   *)
(* half of the application's connection is over.                           *)
(***************************************************************************)
EXTENDS Integers, Sequences

CONSTANTS
    MaxData,     \* chunks each application writes
    TunnelRoom   \* records in flight one way

Sides == {"near", "far"}
Across(e) == IF e = "near" THEN "far" ELSE "near"

VARIABLES
    stageOf,   \* an end: "none", "dial", "hello", "run", "ok", "failed"
    app,       \* its application: "open", "ended" (writes no more), "gone"
    wrote,     \* chunks it wrote
    taken,     \* chunks the upload read
    up, down,  \* the loops: "read", "send", "end" or "write", "done"
    tunnel,    \* records on their way to an end
    given,     \* chunks written to the application
    shut,      \* has its connection been shut down for writing?
    cut        \* is the encrypted connection broken?

tunnelVars == <<stageOf, app, wrote, taken, up, down, tunnel, given, shut, cut>>

TunnelInit ==
    /\ stageOf = [e \in Sides |-> IF e = "near" THEN "dial" ELSE "none"]
    /\ app = [e \in Sides |-> "open"]
    /\ wrote = [e \in Sides |-> 0] /\ taken = [e \in Sides |-> 0]
    /\ up = [e \in Sides |-> "read"] /\ down = [e \in Sides |-> "read"]
    /\ tunnel = [e \in Sides |-> <<>>]
    /\ given = [e \in Sides |-> 0] /\ shut = [e \in Sides |-> FALSE] /\ cut = FALSE

Over(e) == stageOf[e] \in {"ok", "failed"}
Runs(e) == stageOf[e] = "run"
Stage(e, s) == stageOf' = [stageOf EXCEPT ![e] = s]

-----------------------------------------------------------------------------
(***************************************************************************)
(* The applications.                                                       *)
(***************************************************************************)
AppWrites(e) ==
    /\ app[e] = "open" /\ wrote[e] < MaxData /\ wrote' = [wrote EXCEPT ![e] = @ + 1]
    /\ UNCHANGED <<stageOf, app, taken, up, down, tunnel, given, shut, cut>>
AppChanges(e) ==
    /\ \/ app[e] = "open" /\ app' = [app EXCEPT ![e] = "ended"]
       \/ app[e] # "gone" /\ app' = [app EXCEPT ![e] = "gone"]
    /\ UNCHANGED <<stageOf, wrote, taken, up, down, tunnel, given, shut, cut>>

-----------------------------------------------------------------------------
(***************************************************************************)
(* The handshake: the far end connects to its target before it answers.    *)
(***************************************************************************)
Dial ==
    /\ stageOf["near"] = "dial" /\ stageOf["far"] = "none"
    /\ \/ ~cut /\ stageOf' = [near |-> "hello", far |-> "dial"]
       \/ Stage("near", "failed")
    /\ UNCHANGED <<app, wrote, taken, up, down, tunnel, given, shut, cut>>
ReachTarget ==
    /\ stageOf["far"] = "dial" /\ \E s \in {"hello", "failed"} : Stage("far", s)
    /\ UNCHANGED <<app, wrote, taken, up, down, tunnel, given, shut, cut>>
\* noise_initiator and noise_responder.
Agree ==
    /\ stageOf = [e \in Sides |-> "hello"] /\ ~cut
    /\ stageOf' = [e \in Sides |-> "run"]
    /\ UNCHANGED <<app, wrote, taken, up, down, tunnel, given, shut, cut>>
HelloFails(e) ==
    /\ stageOf[e] = "hello" /\ (cut \/ Over(Across(e))) /\ Stage(e, "failed")
    /\ UNCHANGED <<app, wrote, taken, up, down, tunnel, given, shut, cut>>

-----------------------------------------------------------------------------
(***************************************************************************)
(* upload.                                                                 *)
(***************************************************************************)
Fails(e) == Stage(e, "failed") /\ UNCHANGED <<taken, up, down, tunnel, given, shut>>

\* What the application wrote; then the end of it.  A connection that is gone
\* may be seen as its end or as an error.
UploadReads(e) ==
    /\ Runs(e) /\ up[e] = "read"
    /\ \/ /\ taken[e] < wrote[e]
          /\ taken' = [taken EXCEPT ![e] = @ + 1] /\ up' = [up EXCEPT ![e] = "send"]
          /\ UNCHANGED <<stageOf, down, tunnel, given, shut>>
       \/ /\ taken[e] = wrote[e] /\ app[e] # "open"
          /\ up' = [up EXCEPT ![e] = "end"]
          /\ UNCHANGED <<stageOf, taken, down, tunnel, given, shut>>
       \/ app[e] = "gone" /\ Fails(e)
    /\ UNCHANGED <<app, wrote, cut>>

\* Ending at the application's end without a word to the other side.
UploadSendsDataOnly(e) ==
    /\ Runs(e) /\ up[e] \in {"send", "end"}
    /\ up[e] = "end" \/ Len(tunnel[Across(e)]) < TunnelRoom
    /\ up' = [up EXCEPT ![e] = IF @ = "end" THEN "done" ELSE "read"]
    /\ tunnel' = IF up[e] = "end" THEN tunnel ELSE [tunnel EXCEPT ![Across(e)] = Append(@, "data")]
    /\ UNCHANGED <<stageOf, taken, down, given, shut, app, wrote, cut>>

\* The connection has room, or the other end has closed it.
UploadSends(e) ==
    /\ Runs(e) /\ up[e] \in {"send", "end"}
    /\ IF cut \/ Over(Across(e))
         THEN \/ Fails(e)
              \/ /\ up' = [up EXCEPT ![e] = IF @ = "end" THEN "done" ELSE "read"]
                 /\ UNCHANGED <<stageOf, taken, down, tunnel, given, shut>>
         ELSE /\ Len(tunnel[Across(e)]) < TunnelRoom
              /\ tunnel' = [tunnel EXCEPT ![Across(e)] =
                              Append(@, IF up[e] = "end" THEN "end" ELSE "data")]
              /\ up' = [up EXCEPT ![e] = IF @ = "end" THEN "done" ELSE "read"]
              /\ UNCHANGED <<stageOf, taken, down, given, shut>>
    /\ UNCHANGED <<app, wrote, cut>>

-----------------------------------------------------------------------------
(***************************************************************************)
(* download.                                                               *)
(***************************************************************************)
DownloadReads(e) ==
    /\ Runs(e) /\ down[e] = "read"
    /\ \/ /\ tunnel[e] # <<>> /\ tunnel' = [tunnel EXCEPT ![e] = Tail(@)]
          /\ down' = [down EXCEPT ![e] = IF Head(tunnel[e]) = "data" THEN "write" ELSE "done"]
          /\ shut' = [shut EXCEPT ![e] = Head(tunnel[e]) = "end"]
          /\ UNCHANGED <<stageOf, taken, up, given>>
       \/ tunnel[e] = <<>> /\ (cut \/ Over(Across(e))) /\ Fails(e)
    /\ UNCHANGED <<app, wrote, cut>>

\* To an application that has gone the write may fail, at the latest in the end.
DownloadWrites(e) ==
    /\ Runs(e) /\ down[e] = "write"
    /\ \/ /\ down' = [down EXCEPT ![e] = "read"]
          /\ given' = [given EXCEPT ![e] = IF app[e] = "gone" THEN @ ELSE @ + 1]
          /\ UNCHANGED <<stageOf, taken, up, tunnel, shut>>
       \/ app[e] = "gone" /\ Fails(e)
    /\ UNCHANGED <<app, wrote, cut>>

-----------------------------------------------------------------------------
\* Ending with the first loop that is done.
FirstDone(e) ==
    /\ Runs(e) /\ "done" \in {up[e], down[e]} /\ Stage(e, "ok")
    /\ UNCHANGED <<app, wrote, taken, up, down, tunnel, given, shut, cut>>

\* try_join! waits for both loops.
BothDone(e) ==
    /\ Runs(e) /\ up[e] = "done" /\ down[e] = "done" /\ Stage(e, "ok")
    /\ UNCHANGED <<app, wrote, taken, up, down, tunnel, given, shut, cut>>

TunnelBreaks ==
    /\ ~cut /\ cut' = TRUE /\ tunnel' = [e \in Sides |-> <<>>]
    /\ UNCHANGED <<stageOf, app, wrote, taken, up, down, given, shut>>

Handshakes == Dial \/ ReachTarget \/ Agree \/ \E e \in Sides : HelloFails(e)
Upload(e)   == UploadReads(e) \/ UploadSends(e)
Download(e) == DownloadReads(e) \/ DownloadWrites(e)
TunnelNext ==
    \/ Handshakes \/ TunnelBreaks
    \/ \E e \in Sides : Upload(e) \/ Download(e) \/ BothDone(e) \/ AppWrites(e) \/ AppChanges(e)
-----------------------------------------------------------------------------
(***************************************************************************)
(* Correctness.                                                            *)
(***************************************************************************)
\* A connection that ended well at both ends has passed on all that either
\* application wrote, to the other if it was still there, and the end of it.
TunnelOkMeansAll ==
    (\A e \in Sides : stageOf[e] = "ok") =>
        \A e \in Sides : /\ taken[e] = wrote[e] /\ shut[e]
                         /\ app[e] # "gone" => given[e] = wrote[Across(e)]

\* The end of one direction does not end the other: while no application has
\* gone and the connection holds, neither end of a tunnel that runs fails.
HalfCloseKept ==
    (~cut /\ (\A e \in Sides : app[e] # "gone") /\ \E e \in Sides : stageOf[e] \in {"run", "ok"})
    => \A e \in Sides : stageOf[e] \in {"run", "ok"}

\* When both applications have ended, or the connection or one end has, both
\* ends do; but an end that has passed on the other's end waits for its own
\* application, and notices nothing until that writes or ends.
TunnelEnds ==
    (cut \/ (\E e \in Sides : Over(e)) \/ (\A e \in Sides : app[e] # "open"))
    ~> \A e \in Sides : Over(e) \/ stageOf[e] = "none" \/ (down[e] = "done" /\ app[e] = "open")
=============================================================================
