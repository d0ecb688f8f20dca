------------------------------- MODULE Transfer -------------------------------
(***************************************************************************)
(* sidewire push, push-all and pull of a directory: one CLI command that    *)
(* asks the server for many things, each over a control connection of its   *)
(* own.  The server looks the device up anew for every one of them.         *)
(*                                                                          *)
(* A push first makes its directories, in batches, and a pull asks for what *)
(* there is; then the files follow, at most Jobs at a time.                 *)
(***************************************************************************)
EXTENDS Integers, FiniteSets, FiniteSetsExt

CONSTANTS
    Devices,
    DirCount,     \* directories to make
    LongPaths,    \* those of them with a path longer than any batch
    MaxPaths,     \* MAX_MKDIR_BATCH_PATHS
    MaxBytes,     \* MAX_MKDIR_BATCH_BYTES, in units of an ordinary path
    FileCount, Jobs,
    MaxChanges    \* how often a device connects or leaves

Any == "any"      \* no selector: the one device there is
Targets == Devices \union {Any}

VARIABLES
    mode,         \* "push", "pull" or "all"
    command,      \* "start", "run", "ok", "failed"
    targets,      \* the devices it transfers to or from, as it names them
    connected,    \* the server's device map
    changes,      \* how often that changed while the command ran
    phase,        \* a target's transfer: "none", "prepare", "files", "ok", "failed"
    prepared,     \* directories made, or questions answered
    spawned, counted,   \* files begun, files joined
    requests,     \* control requests: [target, items, state, device]
    served        \* what was done for a target, and by which device

transferVars == <<mode, command, targets, connected, changes,
                  phase, prepared, spawned, counted, requests, served>>

TransferInit ==
    /\ mode \in {"push", "pull", "all"} /\ command = "start" /\ targets = {}
    /\ connected \in SUBSET Devices /\ changes = 0
    /\ phase = [t \in Targets |-> "none"] /\ prepared = [t \in Targets |-> 0]
    /\ spawned = [t \in Targets |-> 0] /\ counted = [t \in Targets |-> 0]
    /\ requests = {} /\ served = [t \in Targets |-> {}]

Prep(i) == <<"prepare", i>>
File(i) == <<"file", i>>
\* A pull asks whether it is a directory, for its directories and for its files.
Preparations == IF mode = "pull" THEN 3 ELSE DirCount
Own(t) == {r \in requests : r.target = t}
Ask(t, items) == requests \union {[target |-> t, items |-> items, state |-> "asked", device |-> Any]}
Ended(t) == phase[t] \in {"ok", "failed"}

-----------------------------------------------------------------------------
(***************************************************************************)
(* ensure_remote_dirs.                                                     *)
(***************************************************************************)
Bytes(paths) == Cardinality(paths) + MaxBytes * Cardinality(paths \intersect LongPaths)
\* Does the batch that starts after directory `start` end with directory `end`?
Fits(start, end) == end - start <= MaxPaths /\ Bytes(start + 1..end) <= MaxBytes
\* A path that is too long for any batch stops it all.
BatchStalling(start) == {start} \union {end \in start + 1..DirCount : Fits(start, end)}
\* A path that is too long for any batch goes alone.
Batch(start) == {start + 1} \union {end \in start + 1..DirCount : Fits(start, end)}
BatchEnd(start) == IF mode = "pull" THEN start + 1 ELSE Max(Batch(start))

Prepare(t) ==
    /\ phase[t] = "prepare" /\ Own(t) = {} /\ prepared[t] < Preparations
    /\ requests' = Ask(t, {Prep(i) : i \in prepared[t] + 1..BatchEnd(prepared[t])})
    /\ UNCHANGED <<mode, command, targets, connected, changes, phase, prepared, spawned, counted, served>>

Prepared(t) ==
    /\ phase[t] = "prepare"
    /\ \E r \in Own(t) :
        /\ r.state \in {"done", "error"} /\ requests' = requests \ {r}
        /\ IF r.state = "done"
             THEN /\ prepared' = [prepared EXCEPT ![t] = BatchEnd(@)]
                  /\ phase' = IF prepared'[t] = Preparations
                                THEN [phase EXCEPT ![t] = "files"] ELSE phase
             ELSE phase' = [phase EXCEPT ![t] = "failed"] /\ UNCHANGED prepared
    /\ UNCHANGED <<mode, command, targets, connected, changes, spawned, counted, served>>

-----------------------------------------------------------------------------
(***************************************************************************)
(* The files of one target.                                                *)
(***************************************************************************)
SpawnFile(t) ==
    /\ phase[t] = "files" /\ spawned[t] < FileCount /\ Cardinality(Own(t)) < Jobs
    /\ spawned' = [spawned EXCEPT ![t] = @ + 1]
    /\ requests' = Ask(t, {File(spawned[t] + 1)})
    /\ UNCHANGED <<mode, command, targets, connected, changes, phase, prepared, counted, served>>

\* Going on when a file could not be transferred.
JoinUnchecked(t) ==
    /\ phase[t] = "files" /\ (Cardinality(Own(t)) >= Jobs \/ spawned[t] = FileCount)
    /\ \E r \in Own(t) :
        /\ r.state \in {"done", "error"} /\ requests' = requests \ {r}
        /\ counted' = [counted EXCEPT ![t] = @ + 1]
    /\ UNCHANGED <<mode, command, targets, connected, changes, phase, prepared, spawned, served>>

\* join_transfer: a result is looked at when there is no room for another file
\* or no other file.  The first error ends the transfer: the set is dropped and
\* its tasks with it, and the server goes on with what they had asked for.
Join(t) ==
    /\ phase[t] = "files" /\ (Cardinality(Own(t)) >= Jobs \/ spawned[t] = FileCount)
    /\ \E r \in Own(t) :
        /\ r.state \in {"done", "error"} /\ requests' = requests \ {r}
        /\ IF r.state = "done"
             THEN counted' = [counted EXCEPT ![t] = @ + 1] /\ UNCHANGED phase
             ELSE phase' = [phase EXCEPT ![t] = "failed"] /\ UNCHANGED counted
    /\ UNCHANGED <<mode, command, targets, connected, changes, prepared, spawned, served>>

\* A pull makes the file's directory, before it waits for a place.
LocalFails(t) ==
    /\ mode = "pull" /\ phase[t] = "files" /\ spawned[t] < FileCount
    /\ phase' = [phase EXCEPT ![t] = "failed"]
    /\ UNCHANGED <<mode, command, targets, connected, changes, prepared, spawned, counted, requests, served>>

\* drain_transfers is over.
Finish(t) ==
    /\ phase[t] = "files" /\ spawned[t] = FileCount /\ Own(t) = {}
    /\ phase' = [phase EXCEPT ![t] = "ok"]
    /\ UNCHANGED <<mode, command, targets, connected, changes, prepared, spawned, counted, requests, served>>

-----------------------------------------------------------------------------
(***************************************************************************)
(* The command.                                                            *)
(***************************************************************************)
\* push-all asks for the devices, and fails if there are none; the others are
\* given a selector or none.  The local tree may turn out to be unusable.
Start ==
    /\ command = "start"
    /\ \E ts \in IF mode = "all" THEN {connected} ELSE {{t} : t \in Targets} :
        /\ targets' = ts
        /\ command' = IF ts = {} THEN "failed" ELSE "run"
        /\ \E s \in {"prepare", "failed"} :
            phase' = [t \in Targets |-> IF t \in ts THEN s ELSE "none"]
    /\ UNCHANGED <<mode, connected, changes, prepared, spawned, counted, requests, served>>

\* A device that fails does not stop the others, but the command fails.
End ==
    /\ command = "run" /\ \A t \in targets : Ended(t)
    /\ command' = IF \E t \in targets : phase[t] = "failed" THEN "failed" ELSE "ok"
    /\ UNCHANGED <<mode, targets, connected, changes, phase, prepared, spawned, counted, requests, served>>

-----------------------------------------------------------------------------
(***************************************************************************)
(* The server: resolve_device, and then the request itself.                *)
(***************************************************************************)
\* A name, too, is looked up every time; a full ID denotes one device for good.
Resolved(t) == IF t = Any THEN connected ELSE {t} \intersect connected
Becomes(r, state, d) == (requests \ {r}) \union {[r EXCEPT !.state = state, !.device = d]}

Resolve(r) ==
    /\ r.state = "asked"
    /\ requests' = IF Cardinality(Resolved(r.target)) = 1
                     THEN Becomes(r, "serving", CHOOSE d \in Resolved(r.target) : TRUE)
                     ELSE Becomes(r, "error", Any)
    /\ UNCHANGED <<mode, command, targets, connected, changes, phase, prepared, spawned, counted, served>>

Serve(r) ==
    /\ r.state = "serving"
    /\ \/ /\ requests' = Becomes(r, "done", r.device)
          /\ served' = [served EXCEPT ![r.target] = @ \union (r.items \X {r.device})]
       \/ requests' = Becomes(r, "error", r.device) /\ UNCHANGED served
    /\ UNCHANGED <<mode, command, targets, connected, changes, phase, prepared, spawned, counted>>

\* What is served by a device that leaves fails: its session is closed.
Changes(d) ==
    /\ changes < MaxChanges /\ command = "run" /\ changes' = changes + 1
    /\ \/ d \notin connected /\ connected' = connected \union {d} /\ UNCHANGED requests
       \/ /\ d \in connected /\ connected' = connected \ {d}
          /\ requests' = {IF r.state = "serving" /\ r.device = d
                            THEN [r EXCEPT !.state = "error"] ELSE r : r \in requests}
    /\ UNCHANGED <<mode, command, targets, phase, prepared, spawned, counted, served>>

Client(t) == Prepare(t) \/ Prepared(t) \/ SpawnFile(t) \/ Join(t) \/ Finish(t)
Command == Start \/ End
Server == \E r \in requests : Resolve(r) \/ Serve(r)
TransferNext ==
    \/ Command \/ Server
    \/ (\E t \in Targets : Client(t) \/ LocalFails(t)) \/ (\E d \in Devices : Changes(d))

-----------------------------------------------------------------------------
(***************************************************************************)
(* Correctness.                                                            *)
(***************************************************************************)
Everything == {Prep(i) : i \in 1..Preparations} \union {File(i) : i \in 1..FileCount}

\* A command that ended well has had everything done that each of its targets
\* needed, and has counted every file; by one device, if it was named by its ID
\* or none has come or gone.
TransferWhole ==
    command = "ok" => \A t \in targets :
        /\ counted[t] = FileCount
        /\ \A x \in Everything : \E d \in Devices : <<x, d>> \in served[t]
        /\ (t \in Devices \/ changes = 0) =>
              \E d \in Devices : (t = Any \/ t = d) /\ served[t] = Everything \X {d}

\* Once a transfer has failed, fewer than Jobs of its requests go on; a pull may
\* fail with all of them under way.
FewGoOn ==
    \A t \in Targets : phase[t] = "failed" =>
        Cardinality(Own(t)) < Jobs \/ (mode = "pull" /\ Cardinality(Own(t)) = Jobs)

=============================================================================
