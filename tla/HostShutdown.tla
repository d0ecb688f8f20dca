---------------------------- MODULE HostShutdown ----------------------------
(***************************************************************************)
(* How a DeviceTransport shuts down: its reader and writer tasks, the      *)
(* callers that wait for the writer or for credit, the monitor that waits  *)
(* for the end, and close().                                               *)
(*                                                                         *)
(* tokio's Notify is explicit: notified() arms a task, notify_waiters()    *)
(* wakes the tasks armed at that moment and no other, so that a task which *)
(* looked at its condition before it armed itself could miss the wake-up.  *)
(* The table of routes is in HostRoutes; here a caller is one stream.      *)
(***************************************************************************)
EXTENDS Integers, Sequences

CONSTANTS
    Callers,      \* tasks that each send on a stream of their own
    WriterCap,    \* WRITER_QUEUE_CAPACITY
    Nobody,       \* owner of a frame whose sender has given up
    Reader, Writer, Closer, Monitor

Closing == {Reader, Writer, Closer}
Tasks   == Callers \union {Reader, Writer, Monitor}

ASSUME ShutdownAssumption ==
    /\ WriterCap \in Nat \ {0}
    /\ {Nobody, Reader, Writer, Closer, Monitor} \intersect Callers = {}

VARIABLES
    closed,       \* the closed flag
    ending,       \* how far the reader, the writer and close() are in closing
    armed, woken, \* tasks that hold a Notified, and those whose Notified fired
    caller,       \* what each caller is doing
    credit,       \* its stream has FlowCredit (a unit of it)
    cancel,       \* its stream was canceled by the peer
    done,         \* the writer's answer to its frame
    reader,       \* what the reader does, and whose credit it has added
    writer,       \* what the writer does, and whose frame it holds
    writerQueue,  \* whose frames wait for the writer
    monitor       \* what wait_closed does

closeVars  == <<closed, ending>>
wakeVars   == <<armed, woken>>
callerVars == <<caller, credit, cancel, done>>
taskVars   == <<reader, writer, writerQueue, monitor>>
vars == <<closeVars, wakeVars, callerVars, taskVars>>

Init ==
    /\ closed = FALSE
    /\ ending = [a \in Closing |-> "no"]
    /\ armed = {} /\ woken = {}
    /\ caller = [c \in Callers |-> "idle"]
    /\ credit = [c \in Callers |-> FALSE]
    /\ cancel = [c \in Callers |-> FALSE]
    /\ done = [c \in Callers |-> "none"]
    /\ reader = [at |-> "arm", route |-> Nobody]
    /\ writer = [at |-> "arm", frame |-> Nobody]
    /\ writerQueue = <<>>
    /\ monitor = "arm"

Arm(t)   == armed' = armed \union {t} /\ woken' = woken \ {t}
Disarm(t) == armed' = armed \ {t} /\ woken' = woken \ {t}
NotifyWaiters(ts) == woken' = woken \union (ts \intersect armed) /\ UNCHANGED armed

-----------------------------------------------------------------------------
(***************************************************************************)
(* A caller: send or send_raw.  Chunks wait for credit before they are     *)
(* enqueued; every frame then waits for the writer's answer.               *)
(***************************************************************************)
Goto(c, l) == caller' = [caller EXCEPT ![c] = l]

Unusable(c) == cancel[c] \/ closed               \* ensure_active fails

Begin(c) ==
    /\ caller[c] = "idle"
    /\ ~Unusable(c)
    /\ \/ Goto(c, "arm")                         \* a FileChunk
       \/ Goto(c, "enqueue")                     \* any other frame
    /\ UNCHANGED <<closeVars, wakeVars, credit, cancel, done, taskVars>>

\* acquire_flow_credit: arm, check, wait, and round again.
CreditArm(c) ==
    /\ caller[c] = "arm"
    /\ Arm(c)
    /\ Goto(c, "check")
    /\ UNCHANGED <<closeVars, credit, cancel, done, taskVars>>

CreditCheck(c) ==
    /\ caller[c] = "check"
    /\ \/ Unusable(c) /\ Goto(c, "idle") /\ Disarm(c) /\ UNCHANGED credit
       \/ /\ ~Unusable(c) /\ credit[c]
          /\ credit' = [credit EXCEPT ![c] = FALSE]
          /\ Goto(c, "enqueue") /\ Disarm(c)
       \/ /\ ~Unusable(c) /\ ~credit[c]
          /\ Goto(c, "select")
          /\ UNCHANGED <<wakeVars, credit>>
    /\ UNCHANGED <<closeVars, cancel, done, taskVars>>

\* Credit, closing, or the cancel channel: a new reason, or its sender gone.
CreditWait(c) ==
    /\ caller[c] = "select"
    /\ c \in woken \/ cancel[c] \/ \E a \in {Reader, Closer} : ending[a] = "done"
    /\ Goto(c, "arm")
    /\ Disarm(c)
    /\ UNCHANGED <<closeVars, credit, cancel, done, taskVars>>

\* enqueue_write, its closed check and its send on the bounded channel.
EnqueueCheck(c) ==
    /\ caller[c] = "enqueue"
    /\ Goto(c, IF Unusable(c) THEN "idle" ELSE "push")
    /\ UNCHANGED <<closeVars, wakeVars, credit, cancel, done, taskVars>>

Enqueue(c) ==
    /\ caller[c] = "push"
    /\ \/ /\ writer.at = "stopped"
          /\ Goto(c, "idle")
          /\ UNCHANGED writerQueue
       \/ /\ writer.at # "stopped" /\ Len(writerQueue) < WriterCap
          /\ writerQueue' = Append(writerQueue, c)
          /\ Goto(c, "await")
    /\ UNCHANGED <<closeVars, wakeVars, credit, cancel, done, reader, writer, monitor>>

\* queued_write: the writer answered, or dropped its end of the answer.
AwaitDone(c) ==
    /\ caller[c] = "await"
    /\ done[c] # "none"
    /\ Goto(c, "idle")
    /\ done' = [done EXCEPT ![c] = "none"]
    /\ UNCHANGED <<closeVars, wakeVars, credit, cancel, taskVars>>

(***************************************************************************)
(* A timeout drops the caller's future where it waits (remote_ping): its   *)
(* frame stays in the queue, and the answer goes nowhere.                  *)
(***************************************************************************)
Abandon(c) ==
    /\ caller[c] \in {"select", "push", "await"}
    /\ Goto(c, "idle")
    /\ Disarm(c)
    /\ done' = [done EXCEPT ![c] = "none"]
    /\ writerQueue' = [i \in DOMAIN writerQueue |->
                          IF writerQueue[i] = c THEN Nobody ELSE writerQueue[i]]
    /\ writer' = IF writer.frame = c THEN [writer EXCEPT !.frame = Nobody] ELSE writer
    /\ UNCHANGED <<closeVars, credit, cancel, reader, monitor>>

CallerStep(c) == \/ CreditArm(c) \/ CreditCheck(c) \/ CreditWait(c)
                 \/ EnqueueCheck(c) \/ Enqueue(c) \/ AwaitDone(c)

-----------------------------------------------------------------------------
(***************************************************************************)
(* signal_closed.  Whoever swaps the flag first then notifies the two      *)
(* tasks and after them the callers; the others go straight on.  The reader*)
(* and close() then clear the routes ("clear"), which no task waits for.   *)
(***************************************************************************)
EndingAt(a, l) == ending' = [ending EXCEPT ![a] = l]

Notifying(a) ==
    \/ /\ ending[a] = "notify_tasks"
       /\ NotifyWaiters({Reader, Writer})
       /\ EndingAt(a, "notify_callers")
    \/ /\ ending[a] = "notify_callers"
       /\ NotifyWaiters(Callers \union {Monitor})
       /\ EndingAt(a, "clear")
    \/ /\ ending[a] = "clear"
       /\ EndingAt(a, "done")
       /\ UNCHANGED wakeVars

SignalAfterNotify(a) ==
    /\ \/ ending[a] = "signal" /\ EndingAt(a, "notify_tasks") /\ UNCHANGED <<closed, wakeVars>>
       \/ ending[a] # "clear" /\ Notifying(a) /\ UNCHANGED closed
       \/ ending[a] = "clear" /\ Notifying(a) /\ closed' = TRUE
    /\ UNCHANGED <<callerVars, taskVars>>

Signal(a) ==
    /\ \/ /\ ending[a] = "signal"
          /\ EndingAt(a, IF closed THEN "clear" ELSE "notify_tasks")
          /\ closed' = TRUE
          /\ UNCHANGED wakeVars
       \/ Notifying(a) /\ UNCHANGED closed
    /\ UNCHANGED <<callerVars, taskVars>>

\* close(), by a heartbeat that gave up or by the session that replaces this.
Close ==
    /\ ending[Closer] = "no"
    /\ EndingAt(Closer, "signal")
    /\ UNCHANGED <<closed, wakeVars, callerVars, taskVars>>

-----------------------------------------------------------------------------
(***************************************************************************)
(* The reader task.                                                        *)
(***************************************************************************)
ReaderGoto(l) == reader' = [at |-> l, route |-> Nobody]

ReaderArm ==
    /\ reader.at = "arm"
    /\ Arm(Reader)
    /\ ReaderGoto("check")
    /\ UNCHANGED <<closeVars, callerVars, writer, writerQueue, monitor>>

ReaderCheck ==
    /\ reader.at = "check"
    /\ IF closed THEN ReaderGoto("stopped") /\ EndingAt(Reader, "signal")
       ELSE ReaderGoto("read") /\ UNCHANGED ending
    /\ UNCHANGED <<closed, wakeVars, callerVars, writer, writerQueue, monitor>>

\* The loop is left on shutdown, on a read error or on an invalid update.
ReaderStops(shutdown) ==
    /\ reader.at = "read"
    /\ shutdown => Reader \in woken
    /\ ReaderGoto("stopped") /\ EndingAt(Reader, "signal")
    /\ UNCHANGED <<closed, wakeVars, callerVars, writer, writerQueue, monitor>>

\* Any frame arrives; only these two mean anything to a sending caller.
ReaderFrame(c) ==
    /\ reader.at = "read"
    /\ \/ /\ ~cancel[c]                           \* StreamWindowUpdate
          /\ credit' = [credit EXCEPT ![c] = TRUE]
          /\ reader' = [at |-> "wake", route |-> c]
          /\ UNCHANGED cancel
       \/ /\ cancel' = [cancel EXCEPT ![c] = TRUE] \* StreamCancel
          /\ ReaderGoto("arm")
          /\ UNCHANGED credit
       \/ ReaderGoto("arm") /\ UNCHANGED <<credit, cancel>>
    /\ UNCHANGED <<closeVars, wakeVars, caller, done, writer, writerQueue, monitor>>

ReaderWakeNobody ==
    /\ reader.at = "wake"
    /\ ReaderGoto("arm")
    /\ UNCHANGED <<closeVars, wakeVars, callerVars, writer, writerQueue, monitor>>

\* FlowCredit::add: the amount was added first, now the waiter is woken.
ReaderWake ==
    /\ reader.at = "wake"
    /\ NotifyWaiters({reader.route})
    /\ ReaderGoto("arm")
    /\ UNCHANGED <<closeVars, callerVars, writer, writerQueue, monitor>>

ReaderStep == ReaderArm \/ ReaderCheck \/ ReaderStops(TRUE) \/ ReaderWake

-----------------------------------------------------------------------------
(***************************************************************************)
(* The writer task: it arms itself and looks at closed before it waits for *)
(* a command, and again before it writes the command's frame.              *)
(***************************************************************************)
WriterGoto(l) == writer' = [writer EXCEPT !.at = l]

Answer(result) ==
    done' = IF writer.frame \in Callers THEN [done EXCEPT ![writer.frame] = result] ELSE done

WriterArm ==
    /\ writer.at \in {"arm", "arm_write"}
    /\ Arm(Writer)
    /\ WriterGoto(IF writer.at = "arm" THEN "check" ELSE "check_write")
    /\ UNCHANGED <<closeVars, callerVars, reader, writerQueue, monitor>>

WriterCheck ==
    /\ \/ writer.at = "check" /\ WriterGoto(IF closed THEN "stop" ELSE "select")
       \/ writer.at = "check_write" /\ WriterGoto(IF closed THEN "refuse" ELSE "write")
    /\ UNCHANGED <<closeVars, wakeVars, callerVars, reader, writerQueue, monitor>>

WriterSelect ==
    /\ writer.at = "select"
    /\ \/ Writer \in woken /\ WriterGoto("stop") /\ UNCHANGED writerQueue
       \/ /\ writerQueue # <<>>
          /\ writer' = [at |-> "arm_write", frame |-> Head(writerQueue)]
          /\ writerQueue' = Tail(writerQueue)
    /\ UNCHANGED <<closeVars, wakeVars, callerVars, reader, monitor>>

\* The frame is on the wire, or writing it failed: the network decides.
WriterWrote ==
    /\ writer.at = "write"
    /\ \/ Answer("ok") /\ writer' = [at |-> "arm", frame |-> Nobody]
       \/ WriterGoto("refuse") /\ UNCHANGED done
    /\ UNCHANGED <<closeVars, wakeVars, caller, credit, cancel, reader, writerQueue, monitor>>

WriterShutdown ==
    /\ writer.at = "write" /\ Writer \in woken
    /\ WriterGoto("refuse")
    /\ UNCHANGED <<closeVars, wakeVars, callerVars, reader, writerQueue, monitor>>

WriterRefuse ==
    /\ writer.at = "refuse"
    /\ Answer("err")
    /\ writer' = [at |-> "stop", frame |-> Nobody]
    /\ UNCHANGED <<closeVars, wakeVars, caller, credit, cancel, reader, writerQueue, monitor>>

WriterStop ==
    /\ writer.at = "stop" /\ ending[Writer] = "no"
    /\ EndingAt(Writer, "signal")
    /\ UNCHANGED <<closed, wakeVars, callerVars, taskVars>>

\* The task ends: the channel and the commands in it are dropped.
WriterGone ==
    /\ writer.at = "stop" /\ ending[Writer] = "done"
    /\ WriterGoto("stopped")
    /\ writerQueue' = <<>>
    /\ done' = [c \in Callers |->
                   IF \E i \in DOMAIN writerQueue : writerQueue[i] = c THEN "err" ELSE done[c]]
    /\ UNCHANGED <<closeVars, wakeVars, caller, credit, cancel, reader, monitor>>

WriterStep == \/ WriterArm \/ WriterCheck \/ WriterSelect \/ WriterShutdown
              \/ WriterRefuse \/ WriterStop \/ WriterGone

-----------------------------------------------------------------------------
(***************************************************************************)
(* wait_closed, by register_device's monitor and by the connectors.        *)
(***************************************************************************)
MonitorCheckFirst ==
    /\ \/ /\ monitor = "arm"
          /\ monitor' = IF closed THEN "gone" ELSE "wait"
          /\ UNCHANGED wakeVars
       \/ /\ monitor = "wait" /\ Monitor \notin armed
          /\ Arm(Monitor)
          /\ UNCHANGED monitor
       \/ /\ monitor = "wait" /\ Monitor \in woken
          /\ monitor' = "arm"
          /\ Disarm(Monitor)
    /\ UNCHANGED <<closeVars, callerVars, reader, writer, writerQueue>>

MonitorStep ==
    /\ \/ /\ monitor = "arm"
          /\ Arm(Monitor)
          /\ monitor' = "check"
       \/ /\ monitor = "check"
          /\ monitor' = IF closed THEN "gone" ELSE "wait"
          /\ UNCHANGED wakeVars
       \/ /\ monitor = "wait" /\ Monitor \in woken
          /\ monitor' = "arm"
          /\ Disarm(Monitor)
    /\ UNCHANGED <<closeVars, callerVars, reader, writer, writerQueue>>

-----------------------------------------------------------------------------
Next == \/ \E c \in Callers : Begin(c) \/ CallerStep(c) \/ Abandon(c) \/ ReaderFrame(c)
        \/ ReaderStep \/ ReaderStops(FALSE)
        \/ WriterStep \/ WriterWrote
        \/ MonitorStep
        \/ Close
        \/ \E a \in Closing : Signal(a)

Spec == Init /\ [][Next]_vars

(***************************************************************************)
(* Tasks that are ready are polled.  Nothing is assumed of the peer, of the*)
(* network or of the callers: no frame need arrive, no write need end, and *)
(* no caller need begin or abandon anything.                               *)
(***************************************************************************)
Fairness == /\ \A c \in Callers : WF_vars(CallerStep(c))
            /\ WF_vars(ReaderStep) /\ WF_vars(WriterStep) /\ WF_vars(MonitorStep)
            /\ \A a \in Closing : WF_vars(Signal(a))

FairSpec == Spec /\ Fairness

-----------------------------------------------------------------------------
(***************************************************************************)
(* Closing releases every caller in the middle of a send, although no      *)
(* write need end and the wake-ups race with callers arming themselves.    *)
(***************************************************************************)
Released == \A c \in Callers : closed ~> caller[c] = "idle"

(***************************************************************************)
(* A transport never stays half alive: when it is closed, or its reader or *)
(* its writer leaves its loop, both tasks end, be they stuck in a read or a*)
(* write, and every wait_closed returns.                                   *)
(***************************************************************************)
Ending == closed \/ reader.at = "stopped" \/ writer.at = "stop"

TasksEnd == Ending ~> (reader.at = "stopped" /\ writer.at = "stopped" /\ monitor = "gone")

(***************************************************************************)
(* Credit that arrives wakes the sender that waits for it.                 *)
(***************************************************************************)
CreditWakes ==
    \A c \in Callers : (caller[c] = "select" /\ credit[c]) ~> caller[c] # "select"
=============================================================================
