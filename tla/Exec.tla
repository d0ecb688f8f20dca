--------------------------------- MODULE Exec ---------------------------------
(***************************************************************************)
(* One command run on the device by `sidewire exec`: the process with its  *)
(* two pipes, handle_exec, the connection, the host's stream route, the    *)
(* control task that passes frames on, and the client that prints them.    *)
(*                                                                         *)
(* Output is counted in chunks.  A pipe stays open until the last process  *)
(* that has it closes it, which may be before or after the command exits.  *)
(***************************************************************************)
EXTENDS Integers, Sequences

CONSTANTS
    MaxChunks,   \* output of each pipe
    WireRoom,    \* frames in the device's writer and the socket
    InboxRoom    \* STREAM_ROUTE_CAPACITY of the host

Pipes == {"stdout", "stderr"}

VARIABLES
    child,    \* "running", "exited", "killed"
    pipe,     \* each pipe: chunks written and read, and is its write end open?
    handler,  \* handle_exec: "read", a pipe whose chunk it sends, "wait",
              \* "exit", "error", "done"
    wire,     \* frames on their way to the host
    cancel,   \* StreamCancel: "no", "sent", "set" once the device has it
    online,   \* is the connection up?
    route,    \* does the host have a route for the stream?
    inbox,    \* ... and its queue
    control,  \* handle_control_exec_stream: "recv", "done"
    client,   \* "on", "gone", or how it ended: "exit", "error"
    printed   \* chunks of each pipe it has printed

deviceVars == <<child, pipe, handler>>
hostVars   == <<route, inbox, control, client, printed>>
vars == <<deviceVars, wire, cancel, online, hostVars>>

Init ==
    /\ child = "running" /\ handler = "read" /\ wire = <<>> /\ cancel = "no"
    /\ pipe = [p \in Pipes |-> [written |-> 0, read |-> 0, open |-> TRUE]]
    /\ online = TRUE /\ route = TRUE /\ inbox = <<>>
    /\ control = "recv" /\ client = "on" /\ printed = [p \in Pipes |-> 0]

-----------------------------------------------------------------------------
(***************************************************************************)
(* The command.                                                            *)
(***************************************************************************)
Writes(p) ==
    /\ pipe[p].open /\ pipe[p].written < MaxChunks
    /\ pipe' = [pipe EXCEPT ![p].written = @ + 1]
    /\ UNCHANGED <<child, handler, wire, cancel, online, hostVars>>

Closes(p) ==
    /\ pipe[p].open /\ pipe' = [pipe EXCEPT ![p].open = FALSE]
    /\ UNCHANGED <<child, handler, wire, cancel, online, hostVars>>

Exits ==
    /\ child = "running" /\ child' = "exited"
    /\ UNCHANGED <<pipe, handler, wire, cancel, online, hostVars>>

-----------------------------------------------------------------------------
(***************************************************************************)
(* handle_exec.  The select is biased: the cancellation, stdout, stderr.   *)
(***************************************************************************)
Killed == IF child = "running" THEN "killed" ELSE child
AtEof(p)    == pipe[p].read = pipe[p].written /\ ~pipe[p].open
Readable(p) == pipe[p].read < pipe[p].written
Ready(p)    == /\ handler = "read" /\ cancel # "set"
               /\ p = "stderr" => AtEof("stdout") \/ (~Readable("stdout") /\ pipe["stdout"].open)

\* A cancellation that forgets start_kill and waits for the command.
CanceledNoKill ==
    /\ handler = "read" /\ cancel = "set"
    /\ child # "running" /\ handler' = "error"
    /\ UNCHANGED <<child, pipe, wire, cancel, online, hostVars>>

\* The command is killed and waited for.
Canceled ==
    /\ handler = "read" /\ cancel = "set"
    /\ child' = Killed /\ handler' = "error"
    /\ UNCHANGED <<pipe, wire, cancel, online, hostVars>>

ReadChunk(p) ==
    /\ Ready(p) /\ Readable(p)
    /\ pipe' = [pipe EXCEPT ![p].read = @ + 1] /\ handler' = p
    /\ UNCHANGED <<child, wire, cancel, online, hostVars>>

\* Going on to the exit code when one pipe is at its end.
EitherAtEof ==
    /\ handler = "read" /\ cancel # "set" /\ \E p \in Pipes : AtEof(p)
    /\ handler' = "wait"
    /\ UNCHANGED <<child, pipe, wire, cancel, online, hostVars>>

\* Both pipes are at their end.  From here on the cancellation is not watched.
BothAtEof ==
    /\ handler = "read" /\ cancel # "set" /\ \A p \in Pipes : AtEof(p)
    /\ handler' = "wait"
    /\ UNCHANGED <<child, pipe, wire, cancel, online, hostVars>>

Waited ==
    /\ handler = "wait" /\ child # "running" /\ handler' = "exit"
    /\ UNCHANGED <<child, pipe, wire, cancel, online, hostVars>>

HasRoom == online /\ Len(wire) < WireRoom

\* A frame is queued and written; send looks at the cancellation before and
\* after.  An error returns from handle_exec and drops the child, killing it.
Sends(frame, next) ==
    \/ HasRoom /\ cancel # "set" /\ wire' = Append(wire, frame) /\ handler' = next /\ UNCHANGED child
    \/ /\ cancel = "set" \/ ~online
       /\ \/ wire' = wire
          \/ HasRoom /\ wire' = Append(wire, frame)
       /\ handler' = "error" /\ child' = Killed

SendChunk(p) ==
    /\ handler = p /\ Sends(p, "read")
    /\ UNCHANGED <<pipe, cancel, online, hostVars>>

SendExit ==
    /\ handler = "exit" /\ Sends("exit", "done")
    /\ UNCHANGED <<pipe, cancel, online, hostVars>>

\* send_error says nothing on a canceled stream.
SendError ==
    /\ handler = "error" /\ handler' = "done"
    /\ IF cancel = "set" \/ ~online THEN UNCHANGED wire
                                    ELSE HasRoom /\ wire' = Append(wire, "error")
    /\ UNCHANGED <<child, pipe, cancel, online, hostVars>>

-----------------------------------------------------------------------------
(***************************************************************************)
(* The connection.                                                         *)
(***************************************************************************)
\* The device's reader takes StreamCancel, or its teardown cancels every stream.
CancelArrives ==
    /\ handler # "done" /\ cancel # "set" /\ (cancel = "sent" \/ ~online)
    /\ cancel' = "set"
    /\ UNCHANGED <<deviceVars, wire, online, hostVars>>

GiveUp == route' = FALSE /\ cancel' = (IF cancel = "no" /\ route THEN "sent" ELSE cancel)

\* The host's reader passes a frame to the route; a full queue costs the stream.
Deliver ==
    /\ online /\ wire # <<>> /\ wire' = Tail(wire)
    /\ IF ~route \/ Len(inbox) < InboxRoom
         THEN /\ inbox' = IF route THEN Append(inbox, Head(wire)) ELSE inbox
              /\ route' = (route /\ Head(wire) \notin {"exit", "error"})
              /\ UNCHANGED cancel
         ELSE GiveUp /\ UNCHANGED inbox
    /\ UNCHANGED <<deviceVars, online, control, client, printed>>

Breaks ==
    /\ online /\ online' = FALSE /\ wire' = <<>> /\ route' = FALSE
    /\ UNCHANGED <<deviceVars, cancel, inbox, control, client, printed>>

-----------------------------------------------------------------------------
(***************************************************************************)
(* handle_control_exec_stream and run_exec_client.                         *)
(***************************************************************************)
Passes ==
    /\ control = "recv" /\ inbox # <<>> /\ inbox' = Tail(inbox)
    /\ LET frame == Head(inbox)
       IN  /\ client' = IF client = "on" /\ frame \notin Pipes THEN frame ELSE client
           /\ printed' = IF client = "on" /\ frame \in Pipes
                           THEN [printed EXCEPT ![frame] = @ + 1] ELSE printed
           /\ control' = IF client = "gone" \/ frame \notin Pipes THEN "done" ELSE "recv"
    /\ IF client = "gone" THEN GiveUp ELSE UNCHANGED <<route, cancel>>
    /\ UNCHANGED <<deviceVars, wire, online>>

\* recv fails: the stream is closed or canceled.
NothingComes ==
    /\ control = "recv" /\ inbox = <<>> /\ ~route
    /\ control' = "done" /\ client' = IF client = "on" THEN "error" ELSE client
    /\ UNCHANGED <<deviceVars, wire, cancel, online, route, inbox, printed>>

\* Ctrl-C.  The control task notices when it next has a frame to write.
ClientLeaves ==
    /\ client = "on" /\ client' = "gone"
    /\ UNCHANGED <<deviceVars, wire, cancel, online, route, inbox, control, printed>>

-----------------------------------------------------------------------------
Handler == Canceled \/ BothAtEof \/ Waited \/ SendExit \/ SendError
             \/ \E p \in Pipes : ReadChunk(p) \/ SendChunk(p)
Control == Passes \/ NothingComes
Command == Exits \/ \E p \in Pipes : Writes(p) \/ Closes(p)

Next == Handler \/ Control \/ Command \/ CancelArrives \/ Deliver \/ Breaks \/ ClientLeaves
-----------------------------------------------------------------------------
(***************************************************************************)
(* Correctness.                                                            *)
(***************************************************************************)
\* A client that is given an exit code has printed everything the command and
\* what it left behind ever wrote, through two pipes read in turns, a queue
\* that may overflow and a stream that may be canceled.
ExitMeansAll ==
    client = "exit" => \A p \in Pipes : printed[p] = pipe[p].written /\ ~pipe[p].open

\* A canceled command is killed, also when the cancellation finds its handler
\* waiting for room on the connection, as long as one of its pipes is open.
CancelKills == (cancel = "set" /\ handler \in {"read"} \union Pipes) ~> child # "running"
=============================================================================
