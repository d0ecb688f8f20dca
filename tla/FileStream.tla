----------------------------- MODULE FileStream -----------------------------
(***************************************************************************)
(* One file stream on a connection that negotiated protocol 1.2: what      *)
(* `push' (Push.tla) and `pull' (Pull.tla) share.                          *)
(*                                                                         *)
(* Host side: the stream's route, receive queue and cancellation in        *)
(* DeviceTransport, the transport's reader, and the tasks spawned to send  *)
(* StreamCancel.  Device side: the reader loop of `serve', the stream's    *)
(* entries in its tables, the stray-frame answer, the teardown and the     *)
(* spawned send_cancel.  Between them, the two directions of the           *)
(* connection, each FIFO and bounded (writer queue and TCP buffers).       *)
(*                                                                         *)
(* Push and Pull add the two transfer tasks.  A step is what a task does   *)
(* between two awaits, so that tasks interleave as they do on the          *)
(* multi-threaded runtime.  A definition that precedes another and only    *)
(* bends it (DroppedSilently before Dropped) is a slip a change could make;*)
(* README.md names the property that tells it from the code.               *)
(***************************************************************************)
EXTENDS Integers, Sequences

CONSTANTS
    FileUnits,     \* length of the file
    Chunk,         \* FILE_BUFFER_SIZE
    Window,        \* FILE_FLOW_WINDOW
    Threshold,     \* FILE_FLOW_UPDATE_THRESHOLD
    MaxCredit,     \* MAX_FLOW_CREDIT
    RouteCap,      \* ROUTE_CAPACITY and STREAM_ROUTE_CAPACITY
    WireCap,       \* frames a direction of the connection buffers
    ShortReads,    \* may reading the file return less than a full buffer?
    HostFaults,    \* may an operation on the host's file fail?
    DeviceFaults,  \* may an operation on the device's file fail?
    LinkFaults,    \* may the connection break?
    Truncates      \* may a pulled file turn out shorter than its announced size?

VARIABLES
    host,   \* the host's task, its DeviceStream and its route
    dev,    \* the device's task and the stream's entries in its tables
    xfer,   \* the sender's file position and credit, the receiver's accounts
    h2d,    \* frames written by the host and not yet read by the device
    d2h,    \* frames written by the device and not yet read by the host
    up      \* is the connection up?

vars == <<host, dev, xfer, h2d, d2h, up>>

-----------------------------------------------------------------------------
\* Frames of one stream: a kind, and the units a FileChunk or a grant carries.
Frame(kind)     == [kind |-> kind, n |-> 0]
FileChunk(n)    == [kind |-> "FileChunk", n |-> n]
WindowUpdate(n) == [kind |-> "StreamWindowUpdate", n |-> n]

Requests == {"PushRequest", "PullRequest"}
Kinds    == Requests \union {"FileMeta", "FileEnd", "Error", "StreamCancel"}
Frames   == {Frame(k) : k \in Kinds} \union {FileChunk(n) : n \in 1..Chunk}
            \union {WindowUpdate(n) : n \in 1..MaxCredit}

Completes(frame) == frame.kind \in {"FileEnd", "Error"}   \* frame_completes_stream

HasRoom(wire) == up /\ Len(wire) < WireCap

Ended    == host.pc \in {"ok", "err"}
DevEnded == dev.pc \in {"none", "gone"}

Init ==
    /\ host = [pc |-> "open", written |-> FALSE, chunk |-> 0, route |-> FALSE,
               queue |-> <<>>, cancel |-> FALSE, cancelTasks |-> 0, closed |-> FALSE]
    /\ dev = [pc |-> "none", written |-> FALSE, chunk |-> 0, route |-> FALSE,
              inbox |-> <<>>, flow |-> FALSE, cancels |-> FALSE, watch |-> FALSE,
              canceled |-> FALSE, reader |-> "read", overflow |-> "none"]
    /\ xfer = [left |-> FileUnits, credit |-> 0, file |-> 0, unreturned |-> 0, granted |-> 0]
    /\ h2d = <<>>
    /\ d2h = <<>>
    /\ up = TRUE

-----------------------------------------------------------------------------
(***************************************************************************)
(* The accounts of a transfer.  granted is a history variable (the sum of  *)
(* the window updates written): no guard reads it.                         *)
(***************************************************************************)
\* read(&mut buffer): what one read of the file may return before its end.
ReadSizes == IF ShortReads THEN {n \in 1..Chunk : n <= xfer.left}
             ELSE {IF xfer.left < Chunk THEN xfer.left ELSE Chunk}

CanAfford(n) == xfer.credit >= n                 \* FlowCredit::try_take
PaidWithout(n) == [xfer EXCEPT !.left = @ - n]
Paid(n) == [xfer EXCEPT !.credit = @ - n, !.left = @ - n]

DueAfterWindow(consumed) == consumed > Window
GrantDue(consumed) == consumed >= Threshold      \* account_file_window

Written(n) == [xfer EXCEPT !.file = @ + n, !.unreturned = @ + n]

\* The window once the file is open, the bytes consumed since then.
GrantSize(opening) == IF opening THEN Window ELSE xfer.unreturned

GrantedForgetting(n) == [xfer EXCEPT !.unreturned = 0, !.granted = @ + Threshold]
Granted(n) == [xfer EXCEPT !.unreturned = 0, !.granted = @ + n]

-----------------------------------------------------------------------------
(***************************************************************************)
(* Host: a DeviceStream and its transport.                                 *)
(***************************************************************************)
Active == ~host.cancel /\ ~host.closed           \* ensure_active

DroppedSilently(h, pc, completed) ==
    [h EXCEPT !.pc = pc, !.route = FALSE, !.queue = <<>>, !.written = FALSE, !.chunk = 0]

(***************************************************************************)
(* The host's task returns and drops its DeviceStream: the route goes, and *)
(* unless the stream completed a task is spawned to send StreamCancel.     *)
(***************************************************************************)
Dropped(h, pc, completed) ==
    [h EXCEPT !.pc = pc, !.route = FALSE, !.queue = <<>>, !.written = FALSE, !.chunk = 0,
              !.cancelTasks = IF completed THEN @ ELSE @ + 1]

Failed == Dropped(host, "err", FALSE)

\* open_stream.
HostOpen ==
    /\ host.pc = "open"
    /\ host' = IF host.closed THEN [host EXCEPT !.pc = "err"]
               ELSE [host EXCEPT !.pc = "request", !.route = TRUE]
    /\ UNCHANGED <<dev, xfer, h2d, d2h, up>>

(***************************************************************************)
(* send: once active, the frame is handed to the writer task and its       *)
(* completion awaited; then the stream is checked again.                   *)
(***************************************************************************)
HostWrite(pc, frame) ==
    /\ host.pc = pc /\ ~host.written
    /\ IF host.closed THEN host' = Failed /\ UNCHANGED h2d
       ELSE /\ HasRoom(h2d)
            /\ h2d' = Append(h2d, frame)
            /\ host' = [host EXCEPT !.written = TRUE]
    /\ UNCHANGED <<dev, xfer, d2h, up>>

HostWritten(pc, next) ==
    /\ host.pc = pc /\ host.written
    /\ host' = IF Active THEN [host EXCEPT !.pc = next, !.written = FALSE, !.chunk = 0]
               ELSE Failed
    /\ UNCHANGED <<dev, xfer, h2d, d2h, up>>

(***************************************************************************)
(* recv: a cancellation wins over queued frames, and None (the connection  *)
(* closed) comes once the route and the queue are empty.                   *)
(***************************************************************************)
CanRecv == host.cancel \/ host.queue # <<>> \/ ~host.route

Received == Head(host.queue)
AfterReceiving == [host EXCEPT !.queue = Tail(@)]

HostRecv(pc, withFrame) ==                        \* withFrame: what the task does with it
    /\ host.pc = pc
    /\ CanRecv
    /\ host' = IF host.cancel THEN Dropped(host, "err", TRUE)
               ELSE IF host.queue = <<>> THEN Failed
               ELSE withFrame
    /\ UNCHANGED <<dev, xfer, h2d, d2h, up>>

ClosedKeepingRoutes(h) == [h EXCEPT !.closed = TRUE]

\* signal_closed, and the reader's routes.clear() on its way out.
Closed(h) == [h EXCEPT !.closed = TRUE, !.route = FALSE]

HostDeliverDropping(frame) ==
    IF Len(host.queue) < RouteCap THEN [host EXCEPT !.queue = Append(@, frame)] ELSE host

\* try_send into the stream's queue; a full queue cancels the stream.
HostDeliver(frame) ==
    IF Len(host.queue) < RouteCap THEN [host EXCEPT !.queue = Append(@, frame)]
    ELSE [host EXCEPT !.route = FALSE, !.cancel = TRUE, !.cancelTasks = @ + 1]

HostReader ==
    /\ ~host.closed
    /\ d2h # <<>>
    /\ d2h' = Tail(d2h)
    /\ LET frame == Head(d2h) IN
       \/ /\ ~host.route                          \* dropped: inactive stream
          /\ UNCHANGED <<host, xfer, up>>
       \/ /\ host.route /\ frame.kind = "StreamWindowUpdate"
          /\ IF xfer.credit + frame.n <= MaxCredit
             THEN xfer' = [xfer EXCEPT !.credit = @ + frame.n] /\ UNCHANGED <<host, up>>
             ELSE host' = Closed(host) /\ up' = FALSE /\ UNCHANGED xfer
       \/ /\ host.route /\ frame.kind = "StreamCancel"
          /\ host' = [host EXCEPT !.route = FALSE, !.cancel = TRUE]
          /\ UNCHANGED <<xfer, up>>
       \/ /\ host.route /\ frame.kind \notin {"StreamWindowUpdate", "StreamCancel"}
          /\ host' = HostDeliver(frame)
          /\ UNCHANGED <<xfer, up>>
    /\ UNCHANGED <<dev, h2d>>

HostReaderEnds ==                                 \* a read or write error
    /\ ~up /\ ~host.closed
    /\ host' = Closed(host)
    /\ UNCHANGED <<dev, xfer, h2d, d2h, up>>

HostCancelTask ==                                 \* send_stream_cancel
    /\ host.cancelTasks > 0
    /\ IF host.closed THEN UNCHANGED h2d
       ELSE HasRoom(h2d) /\ h2d' = Append(h2d, Frame("StreamCancel"))
    /\ host' = [host EXCEPT !.cancelTasks = @ - 1]
    /\ UNCHANGED <<dev, xfer, d2h, up>>

-----------------------------------------------------------------------------
(***************************************************************************)
(* Device: the reader loop of `serve'.                                     *)
(***************************************************************************)
DevDeliverDropping(frame) ==
    IF Len(dev.inbox) < RouteCap THEN [dev EXCEPT !.inbox = Append(@, frame)] ELSE dev

\* try_send into the stream's inbox; a full inbox cancels the stream.
DevDeliver(frame) ==
    IF Len(dev.inbox) < RouteCap THEN [dev EXCEPT !.inbox = Append(@, frame)]
    ELSE [dev EXCEPT !.route = FALSE, !.overflow = "mark"]

\* StreamCancel from the host: cancel_local, the route, the cancellation watch.
CanceledByHost ==
    [dev EXCEPT !.canceled = TRUE, !.route = FALSE, !.cancels = FALSE,
                !.watch = @ \/ dev.cancels]

\* A request registers what its handler needs and spawns it.
Opened(kind) ==
    [dev EXCEPT !.pc = "create", !.cancels = TRUE,
                !.route = (kind = "PushRequest"), !.flow = (kind = "PullRequest")]

DevReader ==
    /\ dev.reader = "read"
    /\ h2d # <<>>
    /\ h2d' = Tail(h2d)
    /\ LET frame == Head(h2d) IN
       \/ /\ frame.kind = "StreamWindowUpdate"
          /\ IF ~dev.flow THEN UNCHANGED <<dev, xfer>>
             ELSE IF xfer.credit + frame.n <= MaxCredit
             THEN xfer' = [xfer EXCEPT !.credit = @ + frame.n] /\ UNCHANGED dev
             ELSE dev' = [dev EXCEPT !.reader = "failed"] /\ UNCHANGED xfer
       \/ /\ frame.kind = "StreamCancel"
          /\ dev' = CanceledByHost
          /\ UNCHANGED xfer
       \/ /\ frame.kind \notin {"StreamWindowUpdate", "StreamCancel"}
          /\ dev' = IF dev.route THEN DevDeliver(frame)
                    ELSE IF frame.kind \in Requests THEN Opened(frame.kind)
                    ELSE [dev EXCEPT !.reader = "stray"]
          /\ UNCHANGED xfer
    /\ UNCHANGED <<host, d2h, up>>

(***************************************************************************)
(* A frame for no stream is answered inline, and finish_stream then forgets*)
(* the id although its handler may still be running.                       *)
(***************************************************************************)
DevStray ==
    /\ dev.reader = "stray"
    /\ IF dev.canceled THEN UNCHANGED d2h
       ELSE HasRoom(d2h) /\ d2h' = Append(d2h, Frame("Error"))
    /\ dev' = [dev EXCEPT !.reader = "read", !.canceled = FALSE, !.flow = FALSE]
    /\ UNCHANGED <<host, xfer, h2d, up>>

\* `serve' returns: every registered stream is canceled, the writer closed.
DevTeardown ==
    /\ dev.reader = "failed" \/ (~up /\ dev.reader # "ended")
    /\ up' = FALSE
    /\ dev' = [dev EXCEPT !.reader = "ended",
                          !.canceled = @ \/ dev.route \/ dev.cancels,
                          !.watch = @ \/ dev.cancels,
                          !.route = FALSE, !.cancels = FALSE]
    /\ UNCHANGED <<host, xfer, h2d, d2h>>

DevCancelTaskMute ==
    /\ dev.overflow = "mark"
    /\ dev' = [dev EXCEPT !.overflow = "sent", !.canceled = TRUE]
    /\ UNCHANGED <<host, xfer, h2d, d2h, up>>

\* The spawned send_cancel after an overflow: cancel_local, then the frame.
DevCancelTask ==
    /\ \/ /\ dev.overflow = "mark"
          /\ dev' = [dev EXCEPT !.overflow = "send", !.canceled = TRUE]
          /\ UNCHANGED d2h
       \/ /\ dev.overflow = "send"
          /\ dev' = [dev EXCEPT !.overflow = "sent"]
          /\ IF dev.reader = "ended" THEN UNCHANGED d2h
             ELSE HasRoom(d2h) /\ d2h' = Append(d2h, Frame("StreamCancel"))
    /\ UNCHANGED <<host, xfer, h2d, up>>

-----------------------------------------------------------------------------
(***************************************************************************)
(* Device: what a handler does on its MuxWriter, and how it ends.          *)
(***************************************************************************)
DevFail == [dev EXCEPT !.pc = "unroute_err", !.written = FALSE, !.chunk = 0]

\* Canceled, or the connection's writer has stopped.
DevInactive == dev.canceled \/ dev.reader = "ended"

DevWrite(pc, frame) ==
    /\ dev.pc = pc /\ ~dev.written
    /\ IF DevInactive THEN dev' = DevFail /\ UNCHANGED d2h
       ELSE /\ HasRoom(d2h)
            /\ d2h' = Append(d2h, frame)
            /\ dev' = [dev EXCEPT !.written = TRUE]
    /\ UNCHANGED <<host, xfer, h2d, up>>

DevWritten(pc, next) ==
    /\ dev.pc = pc /\ dev.written
    /\ dev' = IF dev.canceled THEN DevFail
              ELSE [dev EXCEPT !.pc = next, !.written = FALSE, !.chunk = 0]
    /\ UNCHANGED <<host, xfer, h2d, d2h, up>>

DevUnregisterOnSuccess ==
    /\ dev.pc \in {"unroute_ok", "unroute_err"}
    /\ dev' = IF dev.pc = "unroute_err" THEN [dev EXCEPT !.pc = "report"]
              ELSE [dev EXCEPT !.pc = "finish", !.route = FALSE, !.cancels = FALSE]
    /\ UNCHANGED <<host, xfer, h2d, d2h, up>>

\* unregister_stream and unregister_cancel, whatever the result.
DevUnregister ==
    /\ dev.pc \in {"unroute_ok", "unroute_err"}
    /\ dev' = [dev EXCEPT !.pc = IF @ = "unroute_ok" THEN "finish" ELSE "report",
                          !.route = FALSE, !.cancels = FALSE]
    /\ UNCHANGED <<host, xfer, h2d, d2h, up>>

\* send_error, which says nothing about a canceled stream.
DevReport ==
    /\ dev.pc = "report"
    /\ IF DevInactive THEN UNCHANGED d2h
       ELSE HasRoom(d2h) /\ d2h' = Append(d2h, Frame("Error"))
    /\ dev' = [dev EXCEPT !.pc = "finish"]
    /\ UNCHANGED <<host, xfer, h2d, up>>

DevFinish ==                                      \* finish_stream
    /\ dev.pc = "finish"
    /\ dev' = [dev EXCEPT !.pc = "gone", !.canceled = FALSE, !.flow = FALSE, !.inbox = <<>>]
    /\ UNCHANGED <<host, xfer, h2d, d2h, up>>

DevEnding == DevUnregister \/ DevReport \/ DevFinish

-----------------------------------------------------------------------------
LinkBreaks ==
    /\ LinkFaults /\ up
    /\ up' = FALSE
    /\ UNCHANGED <<host, dev, xfer, h2d, d2h>>

Connection == \/ HostReader \/ HostReaderEnds \/ HostCancelTask
              \/ DevReader \/ DevStray \/ DevTeardown \/ DevCancelTask
              \/ LinkBreaks

(***************************************************************************)
(* tokio polls every task that is ready; nothing makes the connection      *)
(* break.                                                                  *)
(***************************************************************************)
ConnectionFairness ==
    /\ WF_vars(HostReader) /\ WF_vars(HostReaderEnds) /\ WF_vars(HostCancelTask)
    /\ WF_vars(DevReader) /\ WF_vars(DevStray)
    /\ WF_vars(DevTeardown) /\ WF_vars(DevCancelTask)

-----------------------------------------------------------------------------
(***************************************************************************)
(* The receive window keeps a transfer out of the overflow of either       *)
(* receive queue, although the window counts bytes and a queue frames.     *)
(***************************************************************************)
NoOverflow == dev.overflow = "none" /\ ~host.cancel

(***************************************************************************)
(* The host reports success only when the receiver has written the whole   *)
(* file: no interleaving of overflow, cancellation, stray frames and errors*)
(* lets a truncated transfer look complete, and a file that shrank on the  *)
(* device ends with the same FileEnd.                                      *)
(***************************************************************************)
OkMeansWhole == host.pc = "ok" => xfer.file = FileUnits

(***************************************************************************)
(* The device keeps no route, no cancellation entry and no credit for a    *)
(* stream whose handler is gone: a leftover entry would swallow the frames *)
(* of a later stream with that id, or make its registration fail and close *)
(* the connection.                                                         *)
(***************************************************************************)
NothingLeftBehind == DevEnded => ~dev.route /\ ~dev.cancels /\ ~dev.flow

(***************************************************************************)
(* The transfer follows the receive-window protocol of CreditWindow.       *)
(***************************************************************************)
Charged == FileUnits - xfer.left

CW == INSTANCE CreditWindow WITH
        Total <- FileUnits, sent <- Charged, consumed <- xfer.file,
        granted <- xfer.granted, credited <- xfer.credit + Charged

FollowsCreditWindow == CW!Spec

\* Once the host's side is over the device's handler ends too, and stays ended.
DeviceReleased == Ended ~> []DevEnded

(***************************************************************************)
(* A device whose queue overflowed gets rid of the host's side too, so that*)
(* a sender waiting for credit is not left behind.                         *)
(***************************************************************************)
OverflowEnds == dev.overflow # "none" ~> Ended

\* A broken connection ends the transfer on both sides.
BreakEndsBoth == ~up ~> (Ended /\ DevEnded)
=============================================================================
