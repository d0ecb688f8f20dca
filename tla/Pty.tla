---------------------------------- MODULE Pty ----------------------------------
(***************************************************************************)
(* An interactive shell: handle_pty on the device with its input and       *)
(* output loops, the terminal between them and the shell, the stream, the  *)
(* host's handle_control_pty with its two directions, and the client at    *)
(* the user's terminal.  The shell has been opened and acknowledged.       *)
(***************************************************************************)
EXTENDS Integers, Sequences

CONSTANTS
    MaxOutput,   \* chunks the shell writes
    MaxInput,    \* frames the client sends
    RouteRoom    \* STREAM_ROUTE_CAPACITY, of either end

VARIABLES
    shell,      \* "reads", "deaf" (does not read, and its terminal is full), "dead"
    written, readOut,  \* output written by the shell and read by output_loop
    input,      \* input_loop: "recv", "write", "ended", "failed"
    output,     \* output_loop: "read", "send", "ended", "failed"
    pty,        \* handle_pty after the loops: "run", "wait", "exit", "error", "done"
    mailbox,    \* frames routed to the device's handler
    devRoute,   \* is there such a route?
    canceled,   \* the device's canceled set has the stream
    toDevice, toHost,  \* frames on the connection
    linked,     \* is the connection up?
    ptyRoute, ptyInbox,  \* the host's route and its queue
    upward,     \* local_to_device: "read", or "left" once it has sent PtyClose
    ptyControl, \* handle_control_pty: "on", "grace" (the last three seconds), "done"
    ptyClient,  \* "on", "gone", "exit", "error"
    shown, typed  \* output the client has printed, frames it has sent

terminal == <<shell, written, readOut>>
device   == <<terminal, input, output, pty>>
stream   == <<mailbox, devRoute, canceled, linked>>
host     == <<ptyRoute, ptyInbox, upward, ptyControl>>
user     == <<ptyClient, shown, typed>>
vars == <<device, stream, toDevice, toHost, host, user>>

Init ==
    /\ shell = "reads" /\ written = 0 /\ readOut = 0
    /\ input = "recv" /\ output = "read" /\ pty = "run"
    /\ mailbox = <<>> /\ devRoute = TRUE /\ canceled = FALSE
    /\ toDevice = <<>> /\ toHost = <<>> /\ linked = TRUE
    /\ ptyRoute = TRUE /\ ptyInbox = <<>> /\ upward = "read" /\ ptyControl = "on"
    /\ ptyClient = "on" /\ shown = 0 /\ typed = 0

-----------------------------------------------------------------------------
(***************************************************************************)
(* The shell.                                                              *)
(***************************************************************************)
ShellWrites ==
    /\ shell # "dead" /\ written < MaxOutput /\ written' = written + 1
    /\ UNCHANGED <<shell, readOut, input, output, pty, stream, toDevice, toHost, host, user>>
ShellChanges ==
    /\ shell # "dead" /\ shell' \in {"reads", "deaf", "dead"} \ {shell}
    /\ UNCHANGED <<written, readOut, input, output, pty, stream, toDevice, toHost, host, user>>

-----------------------------------------------------------------------------
(***************************************************************************)
(* input_loop: one frame at a time.  terminate_pty_group kills the shell.  *)
(***************************************************************************)
Receives(frame) == input = "recv" /\ mailbox # <<>> /\ Head(mailbox) = frame /\ mailbox' = Tail(mailbox)
InputRest == <<written, readOut, output, pty, devRoute, canceled, linked,
               toDevice, toHost, host, user>>

TakesInput ==
    /\ Receives("input") /\ input' = "write" /\ UNCHANGED <<shell, InputRest>>

\* write_all waits for room in the terminal, and for nothing else.
WritesInput ==
    /\ input = "write"
    /\ \/ shell = "reads" /\ input' = "recv"
       \/ shell = "dead" /\ input' \in {"recv", "failed"}
    /\ UNCHANGED <<shell, written, readOut, output, pty, stream, toDevice, toHost, host, user>>

\* A resize or a completion; its error ends the loop, and leaves the shell.
TakesOther ==
    /\ Receives("other") /\ input' \in {"recv", "failed"} /\ UNCHANGED <<shell, InputRest>>

\* PtyClose only stops the loop.
TakesCloseOnly ==
    /\ Receives("close") /\ input' = "ended" /\ UNCHANGED <<shell, InputRest>>

TakesClose ==
    /\ Receives("close") /\ input' = "ended" /\ shell' = "dead" /\ UNCHANGED InputRest

\* The route is gone: canceled, overflowed, or the connection lost.
TakesNothing ==
    /\ input = "recv" /\ mailbox = <<>> /\ ~devRoute
    /\ input' = "failed" /\ shell' = "dead"
    /\ UNCHANGED <<mailbox, InputRest>>

\* output_loop has signalled that it is done.
SeesDone ==
    /\ input = "recv" /\ output = "ended" /\ input' = "ended"
    /\ UNCHANGED <<shell, mailbox, InputRest>>

-----------------------------------------------------------------------------
(***************************************************************************)
(* output_loop and the end of handle_pty.                                  *)
(***************************************************************************)
OutputRest == <<written, stream, toDevice, host, user>>

ReadsOutput ==
    /\ output = "read" /\ readOut < written /\ readOut' = readOut + 1 /\ output' = "send"
    /\ UNCHANGED <<shell, input, pty, toHost, OutputRest>>

\* The shell and its group are dead: EOF, or EIO.
ReadsEnd ==
    /\ output = "read" /\ readOut = written /\ shell = "dead" /\ output' = "ended"
    /\ UNCHANGED <<shell, input, pty, toHost, readOut, OutputRest>>

SendsOutput ==
    /\ output = "send"
    /\ IF canceled \/ ~linked
         THEN output' = "failed" /\ shell' = "dead" /\ UNCHANGED toHost
         ELSE output' = "read" /\ toHost' = Append(toHost, "output") /\ UNCHANGED shell
    /\ UNCHANGED <<input, pty, readOut, OutputRest>>

\* join! waits for both loops.
JoinsBoth ==
    /\ pty = "run" /\ input \in {"ended", "failed"} /\ output \in {"ended", "failed"}
    /\ pty' = IF "failed" \in {input, output} THEN "error" ELSE "wait"
    /\ UNCHANGED <<shell, input, output, toHost, readOut, OutputRest>>

\* PtyExit with the shell's status, or the error; the stream is unregistered.
Reports ==
    /\ \/ pty = "wait" /\ shell = "dead"
       \/ pty = "error"
    /\ pty' = "done" /\ devRoute' = FALSE
    /\ toHost' = IF canceled \/ ~linked THEN toHost
                 ELSE Append(toHost, IF pty = "wait" THEN "exit" ELSE "error")
    /\ UNCHANGED <<terminal, input, output, mailbox, canceled, linked, toDevice, host, user>>

-----------------------------------------------------------------------------
(***************************************************************************)
(* The connection.                                                         *)
(***************************************************************************)
\* The device's reader.  A full mailbox costs the stream; a StreamCancel takes
\* the route away.  (A frame without a route is answered by an error, which finds
\* no route at the host either: what took the first away was told before it.)
DeviceReads ==
    /\ linked /\ toDevice # <<>> /\ toDevice' = Tail(toDevice)
    /\ LET frame == Head(toDevice)
           full  == devRoute /\ frame # "cancel" /\ Len(mailbox) >= RouteRoom
       IN  /\ devRoute' = (devRoute /\ frame # "cancel" /\ ~full)
           /\ canceled' = (canceled \/ (frame = "cancel" /\ pty # "done") \/ full)
           /\ mailbox' = IF devRoute' THEN Append(mailbox, frame) ELSE mailbox
           /\ toHost' = IF full THEN Append(toHost, "cancel") ELSE toHost
    /\ UNCHANGED <<device, linked, host, user>>

\* serve ends with the connection and clears its routes.
Teardown ==
    /\ ~linked /\ devRoute /\ devRoute' = FALSE /\ canceled' = TRUE
    /\ UNCHANGED <<device, mailbox, linked, toDevice, toHost, host, user>>

Cancels == ptyRoute' = FALSE /\ toDevice' = IF ptyRoute /\ linked THEN Append(toDevice, "cancel") ELSE toDevice

\* The host's reader.
HostReads ==
    /\ linked /\ toHost # <<>> /\ toHost' = Tail(toHost)
    /\ LET frame == Head(toHost)
       IN  CASE ptyRoute /\ frame # "cancel" /\ Len(ptyInbox) >= RouteRoom ->
                  Cancels /\ UNCHANGED ptyInbox
             [] ptyRoute /\ frame # "cancel" /\ Len(ptyInbox) < RouteRoom ->
                  /\ ptyInbox' = Append(ptyInbox, frame)
                  /\ ptyRoute' = (frame = "output") /\ UNCHANGED toDevice
             [] OTHER -> ptyRoute' = FALSE /\ UNCHANGED <<ptyInbox, toDevice>>
    /\ UNCHANGED <<device, stream, upward, ptyControl, user>>

LinkBreaks ==
    /\ linked /\ linked' = FALSE /\ ptyRoute' = FALSE /\ toDevice' = <<>> /\ toHost' = <<>>
    /\ UNCHANGED <<device, mailbox, devRoute, canceled, ptyInbox, upward, ptyControl, user>>

-----------------------------------------------------------------------------
(***************************************************************************)
(* handle_control_pty and run_pty_client.                                  *)
(***************************************************************************)
Sent(frame) == toDevice' = IF linked THEN Append(toDevice, frame) ELSE toDevice

\* local_to_device passes a frame of the client on; on a dead connection its
\* error ends the task.
Types ==
    /\ ptyClient = "on" /\ ptyControl = "on" /\ upward = "read" /\ typed < MaxInput
    /\ typed' = typed + 1
    /\ \E frame \in {"input", "other"} : Sent(frame)
    /\ UNCHANGED <<device, stream, toHost, host, ptyClient, shown>>

ClientQuits ==
    /\ ptyClient = "on" /\ ptyClient' = "gone"
    /\ UNCHANGED <<device, stream, toDevice, toHost, host, shown, typed>>

\* It reads the end of the client and sends PtyClose; three seconds are left.
SeesClientGone ==
    /\ ptyControl = "on" /\ upward = "read" /\ ptyClient = "gone"
    /\ upward' = "left" /\ ptyControl' = "grace" /\ Sent("close")
    /\ UNCHANGED <<device, stream, toHost, ptyRoute, ptyInbox, user>>

\* device_to_local.
PassesOn ==
    /\ ptyControl # "done" /\ ptyInbox # <<>> /\ ptyInbox' = Tail(ptyInbox)
    /\ LET frame == Head(ptyInbox)
       IN  IF frame = "output"
             THEN /\ shown' = IF ptyClient = "on" THEN shown + 1 ELSE shown
                  /\ UNCHANGED <<ptyControl, ptyClient>>
             ELSE /\ ptyControl' = "done" /\ UNCHANGED shown
                  /\ ptyClient' = IF ptyClient = "on" THEN frame ELSE ptyClient
    /\ UNCHANGED <<device, stream, toDevice, toHost, ptyRoute, upward, typed>>

StreamEnds ==
    /\ ptyControl # "done" /\ ptyInbox = <<>> /\ ~ptyRoute
    /\ ptyControl' = "done" /\ ptyClient' = IF ptyClient = "on" THEN "error" ELSE ptyClient
    /\ UNCHANGED <<device, stream, toDevice, toHost, ptyRoute, ptyInbox, upward, shown, typed>>

\* "PTY did not terminate after client disconnect": the stream is dropped, which
\* cancels it.
GraceOver ==
    /\ ptyControl = "grace" /\ ptyControl' = "done" /\ Cancels
    /\ UNCHANGED <<device, stream, toHost, ptyInbox, upward, user>>

-----------------------------------------------------------------------------
Input   == TakesInput \/ WritesInput \/ TakesOther \/ TakesClose \/ TakesNothing \/ SeesDone
Output  == ReadsOutput \/ ReadsEnd \/ SendsOutput
Finish  == JoinsBoth \/ Reports
HostPty == SeesClientGone \/ PassesOn \/ StreamEnds \/ GraceOver
Network == DeviceReads \/ HostReads \/ Teardown

Next == Input \/ Output \/ Finish \/ HostPty \/ Network \/ Types \/ ClientQuits
          \/ ShellWrites \/ ShellChanges \/ LinkBreaks
-----------------------------------------------------------------------------
(***************************************************************************)
(* Correctness.                                                            *)
(***************************************************************************)
\* A client that is told its shell has exited has shown all the shell wrote.
PtyExitMeansAll == ptyClient = "exit" => shown = written /\ shell = "dead"

\* When the client has gone, or its stream, the shell is killed, unless the
\* input loop cannot see it: it is stuck in a write to a shell that does not
\* read, or has ended with an error of a resize or a completion.
ClientGoneEndsShell ==
    (ptyClient # "on" /\ pty = "run")
    ~> (shell = "dead" \/ (shell = "deaf" /\ input = "write") \/ input = "failed")

\* The control task does not outlive its client, whatever the shell does.
ClientGoneEndsControl == ptyClient = "gone" ~> ptyControl = "done"
=============================================================================
