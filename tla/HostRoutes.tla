----------------------------- MODULE HostRoutes -----------------------------
(***************************************************************************)
(* DeviceTransport's route table: opening, using and dropping the streams  *)
(* of one device connection while its reader routes frames and the         *)
(* connection is closed from any side.                                     *)
(*                                                                         *)
(* A slot opens, uses and drops a DeviceStream again and again, each time  *)
(* under the next id of a counter that wraps.  The peer is not modelled:   *)
(* any frame may arrive for any id at any time.  The table's mutex makes   *)
(* each access one step; between two accesses every other task may run.    *)
(***************************************************************************)
EXTENDS Integers

CONSTANTS
    Streams,      \* slots for DeviceStreams
    IdSpace,      \* number of stream ids: 2^32, the counter is an AtomicU32
    RouteCap,     \* ROUTE_CAPACITY
    NoStream, Reader, Writer, Closer

Closing == {Reader, Writer, Closer}

ASSUME RoutesAssumption ==
    /\ IdSpace \in Nat /\ RouteCap \in Nat
    /\ IdSpace > 1 /\ RouteCap > 0
    /\ NoStream \notin Streams
    /\ Reader # Writer /\ Reader # Closer /\ Writer # Closer

Ids == 1..(IdSpace - 1)

VARIABLES
    nextId,       \* next_stream_id
    routes,       \* id -> the slot whose stream the route leads to, or NoStream
    closed,       \* the closed flag
    ending,       \* how far the reader, the writer and close() are in closing
    pc,           \* what each slot is doing
    id,           \* the id of its stream
    queue,        \* frames in its receive queue
    cancel,       \* its cancellation reason is set
    reader        \* the reader: what it does, the id and the route it holds

slotVars == <<pc, id, queue, cancel>>
vars == <<nextId, routes, closed, ending, slotVars, reader>>

Init ==
    /\ nextId = 1
    /\ routes = [i \in Ids |-> NoStream]
    /\ closed = FALSE
    /\ ending = [a \in Closing |-> "no"]
    /\ pc = [s \in Streams |-> "idle"]
    /\ id = [s \in Streams |-> 0]
    /\ queue = [s \in Streams |-> 0]
    /\ cancel = [s \in Streams |-> FALSE]
    /\ reader = [at |-> "top", id |-> 0, route |-> NoStream]

Goto(s, l) == pc' = [pc EXCEPT ![s] = l]

\* A DeviceStream exists in slot s.
Live(s) == pc[s] \in {"active", "recv", "drop"}

\* The reader holds the route it cloned from, or took out of, the table for s.
InReadersHands(s) == reader.route = s /\ reader.id = id[s]

-----------------------------------------------------------------------------
(***************************************************************************)
(* open_stream: closed is checked first, and again with the table locked.  *)
(***************************************************************************)
OpenStart(s) ==
    /\ pc[s] = "idle"
    /\ ~closed
    /\ Goto(s, "fetch")
    /\ UNCHANGED <<nextId, routes, closed, ending, id, queue, cancel, reader>>

OpenFetchZero(s) ==
    /\ pc[s] = "fetch"
    /\ nextId' = (nextId + 1) % IdSpace
    /\ Goto(s, "insert")
    /\ id' = [id EXCEPT ![s] = nextId]
    /\ UNCHANGED <<routes, closed, ending, queue, cancel, reader>>

\* fetch_add wraps; id 0 belongs to the connection and is skipped.
OpenFetch(s) ==
    /\ pc[s] = "fetch"
    /\ nextId' = (nextId + 1) % IdSpace
    /\ \/ nextId = 0 /\ UNCHANGED <<pc, id>>
       \/ nextId # 0 /\ Goto(s, "insert") /\ id' = [id EXCEPT ![s] = nextId]
    /\ UNCHANGED <<routes, closed, ending, queue, cancel, reader>>

(***************************************************************************)
(* Assumption on the environment, bounding the wrap: the counter does not  *)
(* come round to an id while a stream that had it and lost its route is    *)
(* still to be dropped, nor while the reader holds a route of that id.     *)
(* With 2^32 ids that would take four thousand million opens meanwhile.    *)
(***************************************************************************)
NotLapped(s) ==
    /\ \A t \in Streams \ {s} : Live(t) /\ id[t] = id[s] => routes[id[s]] = t
    /\ reader.id # id[s]

Insert(s) == Goto(s, "active") /\ routes' = [routes EXCEPT ![id[s]] = s]
Retry(s) == Goto(s, "fetch") /\ UNCHANGED routes

OpenInsertUnchecked(s) ==
    /\ pc[s] = "insert"
    /\ NotLapped(s)
    /\ IF routes[id[s]] # NoStream THEN Retry(s) ELSE Insert(s)
    /\ UNCHANGED <<nextId, closed, ending, id, queue, cancel, reader>>

OpenInsertReplacing(s) ==
    /\ pc[s] = "insert"
    /\ NotLapped(s)
    /\ IF closed THEN Goto(s, "idle") /\ UNCHANGED routes ELSE Insert(s)
    /\ UNCHANGED <<nextId, closed, ending, id, queue, cancel, reader>>

OpenInsert(s) ==
    /\ pc[s] = "insert"
    /\ NotLapped(s)
    /\ \/ closed /\ Goto(s, "idle") /\ UNCHANGED routes
       \/ ~closed /\ routes[id[s]] # NoStream /\ Retry(s)
       \/ ~closed /\ routes[id[s]] = NoStream /\ Insert(s)
    /\ UNCHANGED <<nextId, closed, ending, id, queue, cancel, reader>>

-----------------------------------------------------------------------------
(***************************************************************************)
(* Using a stream: receive or drop.  What is sent has no part in routing.  *)
(***************************************************************************)
Choose(s) ==
    /\ pc[s] = "active"
    /\ \/ Goto(s, "recv")
       \/ Goto(s, "drop")
    /\ UNCHANGED <<nextId, routes, closed, ending, id, queue, cancel, reader>>

\* recv: cancellation first, then the queue, then the end of the route.
Recv(s) ==
    /\ pc[s] = "recv"
    /\ \/ /\ cancel[s]
          /\ Goto(s, "drop")
          /\ UNCHANGED queue
       \/ /\ ~cancel[s] /\ queue[s] > 0
          /\ queue' = [queue EXCEPT ![s] = @ - 1]
          /\ Goto(s, "active")
       \/ /\ ~cancel[s] /\ queue[s] = 0
          /\ routes[id[s]] # s /\ ~InReadersHands(s)
          /\ Goto(s, "drop")
          /\ UNCHANGED queue
    /\ UNCHANGED <<nextId, routes, closed, ending, id, cancel, reader>>

\* A timeout drops the caller's future, and the stream with it, in mid recv.
Abandon(s) ==
    /\ pc[s] = "recv"
    /\ Goto(s, "drop")
    /\ UNCHANGED <<nextId, routes, closed, ending, id, queue, cancel, reader>>

\* Drop for DeviceStream removes whatever route its id has.
Drop(s) ==
    /\ pc[s] = "drop"
    /\ routes' = [routes EXCEPT ![id[s]] = NoStream]
    /\ Goto(s, "idle")
    /\ id' = [id EXCEPT ![s] = 0]
    /\ queue' = [queue EXCEPT ![s] = 0]
    /\ cancel' = [cancel EXCEPT ![s] = FALSE]
    /\ UNCHANGED <<nextId, closed, ending, reader>>

SlotStep(s) == OpenFetch(s) \/ OpenInsert(s) \/ Choose(s) \/ Recv(s) \/ Drop(s)

-----------------------------------------------------------------------------
(***************************************************************************)
(* The reader task.                                                        *)
(***************************************************************************)
ReaderGoto(l) == reader' = [at |-> l, id |-> 0, route |-> NoStream]
ReaderHolds(l, i) == reader' = [at |-> l, id |-> i, route |-> routes[i]]

\* The stream whose route the reader holds is still there to receive.
Receiving == LET s == reader.route IN Live(s) /\ id[s] = reader.id

\* The top of the loop: closed is read before the select is polled.
ReaderTop ==
    /\ reader.at = "top"
    /\ ~closed
    /\ ReaderGoto("read")
    /\ UNCHANGED <<nextId, routes, closed, ending, slotVars>>

(***************************************************************************)
(* A frame arrives for a routed id (others are dropped, and window updates *)
(* change no route): a StreamCancel takes the route out of the table, any  *)
(* other frame clones it.                                                  *)
(***************************************************************************)
ReaderFrame(i) ==
    /\ reader.at = "read"
    /\ routes[i] # NoStream
    /\ \/ /\ ReaderHolds("cancel", i)
          /\ routes' = [routes EXCEPT ![i] = NoStream]
       \/ /\ ReaderHolds("deliver", i)
          /\ UNCHANGED routes
    /\ UNCHANGED <<nextId, closed, ending, slotVars>>

ReaderCancel ==
    /\ reader.at = "cancel"
    /\ ReaderGoto("top")
    /\ cancel' = IF Receiving THEN [cancel EXCEPT ![reader.route] = TRUE] ELSE cancel
    /\ UNCHANGED <<nextId, routes, closed, ending, pc, id, queue>>

ReaderDeliver ==
    /\ reader.at = "deliver"
    /\ \/ /\ Receiving /\ queue[reader.route] < RouteCap
          /\ queue' = [queue EXCEPT ![reader.route] = @ + 1]
          /\ ReaderGoto("top")
       \/ /\ Receiving /\ queue[reader.route] >= RouteCap
          /\ reader' = [reader EXCEPT !.at = "overflow"]
          /\ UNCHANGED queue
       \/ /\ ~Receiving
          /\ reader' = [reader EXCEPT !.at = "gone"]
          /\ UNCHANGED queue
    /\ UNCHANGED <<nextId, routes, closed, ending, pc, id, cancel>>

UnrouteSilently ==
    /\ reader.at \in {"overflow", "gone"}
    /\ routes' = [routes EXCEPT ![reader.id] = NoStream]
    /\ ReaderGoto("top")
    /\ UNCHANGED <<nextId, closed, ending, slotVars>>

\* The queue was full, or its receiver dropped: the route of that id goes.
ReaderUnroute ==
    /\ reader.at \in {"overflow", "gone"}
    /\ routes' = [routes EXCEPT ![reader.id] = NoStream]
    /\ IF reader.at = "overflow" THEN reader' = [reader EXCEPT !.at = "cancel"]
       ELSE ReaderGoto("top")
    /\ UNCHANGED <<nextId, closed, ending, slotVars>>

ReaderStep == ReaderTop \/ ReaderCancel \/ ReaderDeliver \/ ReaderUnroute

-----------------------------------------------------------------------------
(***************************************************************************)
(* Closing.  The reader leaves its loop on a read error or once closed; the*)
(* writer on a write error; close() comes from a heartbeat that gave up or *)
(* from the session that replaced this one.  All signal_closed; the reader *)
(* and close() then clear the table.                                       *)
(***************************************************************************)
Begin(a) ==
    /\ ending[a] = "no"
    /\ a = Reader => reader.at = "read" \/ (reader.at = "top" /\ closed)
    /\ ending' = [ending EXCEPT ![a] = "signal"]
    /\ IF a = Reader THEN ReaderGoto("stopped") ELSE UNCHANGED reader
    /\ UNCHANGED <<nextId, routes, closed, slotVars>>

Signal(a) ==
    /\ ending[a] = "signal"
    /\ closed' = TRUE
    /\ ending' = [ending EXCEPT ![a] = "clear"]
    /\ UNCHANGED <<nextId, routes, slotVars, reader>>

ClearNothing(a) ==
    /\ ending[a] = "clear"
    /\ ending' = [ending EXCEPT ![a] = "done"]
    /\ UNCHANGED <<nextId, routes, closed, slotVars, reader>>

Clear(a) ==
    /\ ending[a] = "clear"
    /\ routes' = IF a = Writer THEN routes ELSE [i \in Ids |-> NoStream]
    /\ ending' = [ending EXCEPT ![a] = "done"]
    /\ UNCHANGED <<nextId, closed, slotVars, reader>>

ReaderSeesClosed == closed /\ Begin(Reader)

Next == \/ \E s \in Streams : OpenStart(s) \/ SlotStep(s) \/ Abandon(s)
        \/ \E i \in Ids : ReaderFrame(i)
        \/ ReaderStep
        \/ \E a \in Closing : Begin(a) \/ Signal(a) \/ Clear(a)

Spec == Init /\ [][Next]_vars

(***************************************************************************)
(* Tasks that are ready are polled, and the reader notices closed (shown   *)
(* in HostShutdown).  Nothing is assumed of the peer or of the callers.    *)
(***************************************************************************)
Fairness == /\ \A s \in Streams : WF_vars(SlotStep(s))
            /\ WF_vars(ReaderStep) /\ WF_vars(ReaderSeesClosed)
            /\ \A a \in Closing : WF_vars(Signal(a)) /\ WF_vars(Clear(a))

FairSpec == Spec /\ Fairness

-----------------------------------------------------------------------------
TableTypes ==
    /\ nextId \in 0..(IdSpace - 1)
    /\ routes \in [Ids -> Streams \union {NoStream}]
    /\ closed \in BOOLEAN
    /\ ending \in [Closing -> {"no", "signal", "clear", "done"}]

StreamTypes ==
    /\ pc \in [Streams -> {"idle", "fetch", "insert", "active", "recv", "drop"}]
    /\ id \in [Streams -> 0..(IdSpace - 1)]
    /\ queue \in [Streams -> 0..RouteCap]
    /\ cancel \in [Streams -> BOOLEAN]

ReaderTypes ==
    reader \in [at : {"top", "read", "cancel", "deliver", "overflow", "gone", "stopped"},
                id : 0..(IdSpace - 1), route : Streams \union {NoStream}]

\* A stream never has id 0, which is the connection's own.
StreamIds == \A s \in Streams : Live(s) \/ pc[s] = "insert" => id[s] \in Ids

(***************************************************************************)
(* Types, and the range of the ids that the wrapping counter hands out.    *)
(***************************************************************************)
TypeOK == TableTypes /\ StreamTypes /\ ReaderTypes /\ StreamIds

(***************************************************************************)
(* Once the reader has gone no stream is routed, and none can be: a call of*)
(* open_stream that passed the first closed check while the connection was *)
(* closing does not slip a route in after the table was cleared.  Nobody   *)
(* would remove such a route, and its recv would never return.             *)
(***************************************************************************)
SweptClean == ending[Reader] = "done" => closed /\ \A i \in Ids : routes[i] = NoStream

(***************************************************************************)
(* On an open connection a stream that is in use and not canceled owns the *)
(* route of its id, except while the reader is about to cancel it: the     *)
(* counter's wrap never hands its id to another stream, and no other       *)
(* stream's drop, no overflow and no late frame takes its route away.      *)
(***************************************************************************)
AboutToCancel(s) == reader.at = "cancel" /\ InReadersHands(s)

OwnsRoute ==
    \A s \in Streams :
        Live(s) /\ ~cancel[s] /\ ~closed => routes[id[s]] = s \/ AboutToCancel(s)

(***************************************************************************)
(* Closing ends every recv, whatever the peer does.                        *)
(***************************************************************************)
RecvReleased == \A s \in Streams : (closed /\ pc[s] = "recv") ~> pc[s] # "recv"
=============================================================================
