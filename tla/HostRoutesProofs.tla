-------------------------- MODULE HostRoutesProofs --------------------------
(***************************************************************************)
(* HostRoutes, for any number of slots, ids and queue places: types, the   *)
(* swept table of a closed connection, and the ownership of a route by the *)
(* stream it was opened for.                                               *)
(*                                                                         *)
(* OwnsRoute is not inductive: Drop and the reader's removals go by id,    *)
(* not by stream.  What makes them safe is that no two streams have the    *)
(* same id (UniqueIds), that a route leads to the stream of its id         *)
(* (RoutesLead), and that the reader's copy of a route is the one still in *)
(* the table, or that none is (ReaderTruth).                               *)
(***************************************************************************)
EXTENDS HostRoutes, TLAPS

RoutesLead == \A i \in Ids : LET s == routes[i] IN
                 s # NoStream => Live(s) /\ id[s] = i

UniqueIds == \A s, t \in Streams : Live(s) /\ Live(t) /\ id[s] = id[t] => s = t

ReaderTruth ==
    /\ reader.at \in {"cancel", "deliver", "overflow", "gone"} => reader.id \in Ids
    /\ reader.at \in {"deliver", "overflow"}
          => routes[reader.id] \in {reader.route, NoStream}
    /\ reader.at \in {"cancel", "gone"} => routes[reader.id] = NoStream

ClosingClosed == \A a \in Closing : ending[a] \in {"clear", "done"} => closed

Swept == SweptClean /\ ClosingClosed
Owned == RoutesLead /\ UniqueIds /\ ReaderTruth /\ OwnsRoute

USE RoutesAssumption DEF RoutesAssumption

-----------------------------------------------------------------------------
\* The initial state has the types.
LEMMA InitType == Init => TypeOK
  <1> SUFFICES ASSUME Init PROVE TypeOK
    OBVIOUS
  <1>1. TableTypes
    <2>1. nextId \in 0..(IdSpace - 1)
      BY DEF Init
    <2>2. closed \in BOOLEAN
      BY DEF Init
    <2>3. routes \in [Ids -> Streams \union {NoStream}]
      BY DEF Init
    <2>4. ending \in [Closing -> {"no", "signal", "clear", "done"}]
      BY DEF Init
    <2> QED
      BY <2>1, <2>2, <2>3, <2>4 DEF TableTypes
  <1>2. StreamTypes
    BY DEF Init, StreamTypes
  <1>3. ReaderTypes
    BY DEF Init, ReaderTypes
  <1>4. StreamIds
    BY DEF Init, StreamIds, Live
  <1> QED
    BY <1>1, <1>2, <1>3, <1>4 DEF TypeOK

\* Every step keeps the types of the counter, the table and the closing tasks.
LEMMA NextTable == TypeOK /\ [Next]_vars => TableTypes'
  <1> SUFFICES ASSUME TypeOK, [Next]_vars PROVE TableTypes'
    OBVIOUS
  <1> USE DEF TypeOK, TableTypes, Ids
  <1>1. ASSUME NEW s \in Streams, OpenStart(s) PROVE TableTypes'
    BY <1>1 DEF OpenStart, Goto
  <1>2. ASSUME NEW s \in Streams, OpenFetch(s) PROVE TableTypes'
    BY <1>2 DEF OpenFetch, Goto
  <1>3. ASSUME NEW s \in Streams, OpenInsert(s) PROVE TableTypes'
    BY <1>3 DEF OpenInsert, Insert, Retry, Goto
  <1>4. ASSUME NEW s \in Streams, Choose(s) PROVE TableTypes'
    BY <1>4 DEF Choose, Goto
  <1>5. ASSUME NEW s \in Streams, Recv(s) PROVE TableTypes'
    BY <1>5 DEF Recv, Goto
  <1>6. ASSUME NEW s \in Streams, Abandon(s) PROVE TableTypes'
    BY <1>6 DEF Abandon, Goto
  <1>7. ASSUME NEW s \in Streams, Drop(s) PROVE TableTypes'
    BY <1>7 DEF Drop, Goto
  <1>8. ASSUME NEW i \in Ids, ReaderFrame(i) PROVE TableTypes'
    BY <1>8 DEF ReaderFrame, ReaderHolds, slotVars
  <1>9. CASE ReaderTop
    BY <1>9 DEF ReaderTop, ReaderGoto, slotVars
  <1>10. CASE ReaderCancel
    BY <1>10 DEF ReaderCancel, ReaderGoto
  <1>11. CASE ReaderDeliver
    BY <1>11 DEF ReaderDeliver, ReaderGoto
  <1>12. CASE ReaderUnroute
    BY <1>12 DEF ReaderUnroute, ReaderGoto, slotVars
  <1>13. ASSUME NEW a \in Closing, Begin(a) PROVE TableTypes'
    BY <1>13 DEF Begin, ReaderGoto, slotVars
  <1>14. ASSUME NEW a \in Closing, Signal(a) PROVE TableTypes'
    BY <1>14 DEF Signal, slotVars
  <1>15. ASSUME NEW a \in Closing, Clear(a) PROVE TableTypes'
    BY <1>15 DEF Clear, slotVars
  <1>16. CASE UNCHANGED vars
    BY <1>16 DEF vars, slotVars
  <1> QED
    BY <1>1, <1>2, <1>3, <1>4, <1>5, <1>6, <1>7, <1>8,
       <1>9, <1>10, <1>11, <1>12, <1>13, <1>14, <1>15, <1>16 DEF Next, SlotStep, ReaderStep

\* Every step keeps the types of the slots.
LEMMA NextStream == TypeOK /\ [Next]_vars => StreamTypes'
  <1> SUFFICES ASSUME TypeOK, [Next]_vars PROVE StreamTypes'
    OBVIOUS
  <1> USE DEF TypeOK, StreamTypes, ReaderTypes
  <1>1. ASSUME NEW s \in Streams, OpenStart(s) PROVE StreamTypes'
    BY <1>1 DEF OpenStart, Goto
  <1>2. ASSUME NEW s \in Streams, OpenFetch(s) PROVE StreamTypes'
    BY <1>2 DEF OpenFetch, Goto, TableTypes
  <1>3. ASSUME NEW s \in Streams, OpenInsert(s) PROVE StreamTypes'
    BY <1>3 DEF OpenInsert, Insert, Retry, Goto
  <1>4. ASSUME NEW s \in Streams, Choose(s) PROVE StreamTypes'
    BY <1>4 DEF Choose, Goto
  <1>5. ASSUME NEW s \in Streams, Recv(s) PROVE StreamTypes'
    BY <1>5 DEF Recv, Goto
  <1>6. ASSUME NEW s \in Streams, Abandon(s) PROVE StreamTypes'
    BY <1>6 DEF Abandon, Goto
  <1>7. ASSUME NEW s \in Streams, Drop(s) PROVE StreamTypes'
    BY <1>7 DEF Drop, Goto
  <1>8. ASSUME NEW i \in Ids, ReaderFrame(i) PROVE StreamTypes'
    BY <1>8 DEF ReaderFrame, ReaderHolds, slotVars
  <1>9. CASE ReaderTop
    BY <1>9 DEF ReaderTop, ReaderGoto, slotVars
  <1>10. CASE ReaderCancel
    BY <1>10 DEF ReaderCancel, ReaderGoto
  <1>11. CASE ReaderDeliver
    BY <1>11 DEF ReaderDeliver, ReaderGoto
  <1>12. CASE ReaderUnroute
    BY <1>12 DEF ReaderUnroute, ReaderGoto, slotVars
  <1>13. ASSUME NEW a \in Closing, Begin(a) PROVE StreamTypes'
    BY <1>13 DEF Begin, ReaderGoto, slotVars
  <1>14. ASSUME NEW a \in Closing, Signal(a) PROVE StreamTypes'
    BY <1>14 DEF Signal, slotVars
  <1>15. ASSUME NEW a \in Closing, Clear(a) PROVE StreamTypes'
    BY <1>15 DEF Clear, slotVars
  <1>16. CASE UNCHANGED vars
    BY <1>16 DEF vars, slotVars
  <1> QED
    BY <1>1, <1>2, <1>3, <1>4, <1>5, <1>6, <1>7, <1>8,
       <1>9, <1>10, <1>11, <1>12, <1>13, <1>14, <1>15, <1>16 DEF Next, SlotStep, ReaderStep

\* Every step keeps the type of the reader.
LEMMA NextReader == TypeOK /\ [Next]_vars => ReaderTypes'
  <1> SUFFICES ASSUME TypeOK, [Next]_vars PROVE ReaderTypes'
    OBVIOUS
  <1> USE DEF TypeOK, ReaderTypes, Ids
  <1>1. ASSUME NEW s \in Streams, OpenStart(s) PROVE ReaderTypes'
    BY <1>1 DEF OpenStart, Goto
  <1>2. ASSUME NEW s \in Streams, OpenFetch(s) PROVE ReaderTypes'
    BY <1>2 DEF OpenFetch, Goto
  <1>3. ASSUME NEW s \in Streams, OpenInsert(s) PROVE ReaderTypes'
    BY <1>3 DEF OpenInsert, Insert, Retry, Goto
  <1>4. ASSUME NEW s \in Streams, Choose(s) PROVE ReaderTypes'
    BY <1>4 DEF Choose, Goto
  <1>5. ASSUME NEW s \in Streams, Recv(s) PROVE ReaderTypes'
    BY <1>5 DEF Recv, Goto
  <1>6. ASSUME NEW s \in Streams, Abandon(s) PROVE ReaderTypes'
    BY <1>6 DEF Abandon, Goto
  <1>7. ASSUME NEW s \in Streams, Drop(s) PROVE ReaderTypes'
    BY <1>7 DEF Drop, Goto
  <1>8. ASSUME NEW i \in Ids, ReaderFrame(i) PROVE ReaderTypes'
    BY <1>8 DEF ReaderFrame, ReaderHolds, slotVars, TableTypes
  <1>9. CASE ReaderTop
    BY <1>9 DEF ReaderTop, ReaderGoto, slotVars
  <1>10. CASE ReaderCancel
    BY <1>10 DEF ReaderCancel, ReaderGoto
  <1>11. CASE ReaderDeliver
    BY <1>11 DEF ReaderDeliver, ReaderGoto
  <1>12. CASE ReaderUnroute
    BY <1>12 DEF ReaderUnroute, ReaderGoto, slotVars
  <1>13. ASSUME NEW a \in Closing, Begin(a) PROVE ReaderTypes'
    BY <1>13 DEF Begin, ReaderGoto, slotVars
  <1>14. ASSUME NEW a \in Closing, Signal(a) PROVE ReaderTypes'
    BY <1>14 DEF Signal, slotVars
  <1>15. ASSUME NEW a \in Closing, Clear(a) PROVE ReaderTypes'
    BY <1>15 DEF Clear, slotVars
  <1>16. CASE UNCHANGED vars
    BY <1>16 DEF vars, slotVars
  <1> QED
    BY <1>1, <1>2, <1>3, <1>4, <1>5, <1>6, <1>7, <1>8,
       <1>9, <1>10, <1>11, <1>12, <1>13, <1>14, <1>15, <1>16 DEF Next, SlotStep, ReaderStep

\* No step gives a stream id 0.
LEMMA NextIds == TypeOK /\ [Next]_vars => StreamIds'
  <1> SUFFICES ASSUME TypeOK, [Next]_vars PROVE StreamIds'
    OBVIOUS
  <1> USE DEF TypeOK, StreamTypes, StreamIds, Live, Ids
  <1>1. ASSUME NEW s \in Streams, OpenStart(s) PROVE StreamIds'
    BY <1>1 DEF OpenStart, Goto
  <1>2. ASSUME NEW s \in Streams, OpenFetch(s) PROVE StreamIds'
    BY <1>2 DEF OpenFetch, Goto, TableTypes
  <1>3. ASSUME NEW s \in Streams, OpenInsert(s) PROVE StreamIds'
    BY <1>3 DEF OpenInsert, Insert, Retry, Goto
  <1>4. ASSUME NEW s \in Streams, Choose(s) PROVE StreamIds'
    BY <1>4 DEF Choose, Goto
  <1>5. ASSUME NEW s \in Streams, Recv(s) PROVE StreamIds'
    BY <1>5 DEF Recv, Goto
  <1>6. ASSUME NEW s \in Streams, Abandon(s) PROVE StreamIds'
    BY <1>6 DEF Abandon, Goto
  <1>7. ASSUME NEW s \in Streams, Drop(s) PROVE StreamIds'
    BY <1>7 DEF Drop, Goto
  <1>8. ASSUME NEW i \in Ids, ReaderFrame(i) PROVE StreamIds'
    BY <1>8 DEF ReaderFrame, ReaderHolds, slotVars
  <1>9. CASE ReaderTop
    BY <1>9 DEF ReaderTop, ReaderGoto, slotVars
  <1>10. CASE ReaderCancel
    BY <1>10 DEF ReaderCancel, ReaderGoto
  <1>11. CASE ReaderDeliver
    BY <1>11 DEF ReaderDeliver, ReaderGoto
  <1>12. CASE ReaderUnroute
    BY <1>12 DEF ReaderUnroute, ReaderGoto, slotVars
  <1>13. ASSUME NEW a \in Closing, Begin(a) PROVE StreamIds'
    BY <1>13 DEF Begin, ReaderGoto, slotVars
  <1>14. ASSUME NEW a \in Closing, Signal(a) PROVE StreamIds'
    BY <1>14 DEF Signal, slotVars
  <1>15. ASSUME NEW a \in Closing, Clear(a) PROVE StreamIds'
    BY <1>15 DEF Clear, slotVars
  <1>16. CASE UNCHANGED vars
    BY <1>16 DEF vars, slotVars
  <1> QED
    BY <1>1, <1>2, <1>3, <1>4, <1>5, <1>6, <1>7, <1>8,
       <1>9, <1>10, <1>11, <1>12, <1>13, <1>14, <1>15, <1>16 DEF Next, SlotStep, ReaderStep

\* The types are inductive.
LEMMA NextType == TypeOK /\ [Next]_vars => TypeOK'
  <1> SUFFICES ASSUME TypeOK, [Next]_vars PROVE TypeOK'
    OBVIOUS
  <1> QED
    BY NextTable, NextStream, NextReader, NextIds DEF TypeOK

(***************************************************************************)
(* The table, the slots and the reader keep their types, and no stream is  *)
(* given the connection's id 0.                                            *)
(***************************************************************************)
THEOREM TypeCorrect == Spec => []TypeOK
  BY InitType, NextType, PTL DEF Spec

-----------------------------------------------------------------------------
\* A closing task has set the closed flag before it clears the table, and closed stays set.
LEMMA NextClosing == TypeOK /\ ClosingClosed /\ [Next]_vars => ClosingClosed'
  <1> SUFFICES ASSUME TypeOK, ClosingClosed, [Next]_vars PROVE ClosingClosed'
    OBVIOUS
  <1> USE DEF ClosingClosed, TypeOK, TableTypes
  <1>1. ASSUME NEW s \in Streams, OpenStart(s) PROVE ClosingClosed'
    BY <1>1 DEF OpenStart, Goto
  <1>2. ASSUME NEW s \in Streams, OpenFetch(s) PROVE ClosingClosed'
    BY <1>2 DEF OpenFetch, Goto
  <1>3. ASSUME NEW s \in Streams, OpenInsert(s) PROVE ClosingClosed'
    BY <1>3 DEF OpenInsert, Insert, Retry, Goto
  <1>4. ASSUME NEW s \in Streams, Choose(s) PROVE ClosingClosed'
    BY <1>4 DEF Choose, Goto
  <1>5. ASSUME NEW s \in Streams, Recv(s) PROVE ClosingClosed'
    BY <1>5 DEF Recv, Goto
  <1>6. ASSUME NEW s \in Streams, Abandon(s) PROVE ClosingClosed'
    BY <1>6 DEF Abandon, Goto
  <1>7. ASSUME NEW s \in Streams, Drop(s) PROVE ClosingClosed'
    BY <1>7 DEF Drop, Goto
  <1>8. ASSUME NEW i \in Ids, ReaderFrame(i) PROVE ClosingClosed'
    BY <1>8 DEF ReaderFrame, ReaderHolds, slotVars
  <1>9. CASE ReaderTop
    BY <1>9 DEF ReaderTop, ReaderGoto, slotVars
  <1>10. CASE ReaderCancel
    BY <1>10 DEF ReaderCancel, ReaderGoto
  <1>11. CASE ReaderDeliver
    BY <1>11 DEF ReaderDeliver, ReaderGoto
  <1>12. CASE ReaderUnroute
    BY <1>12 DEF ReaderUnroute, ReaderGoto, slotVars
  <1>13. ASSUME NEW a \in Closing, Begin(a) PROVE ClosingClosed'
    BY <1>13 DEF Begin, ReaderGoto, slotVars
  <1>14. ASSUME NEW a \in Closing, Signal(a) PROVE ClosingClosed'
    BY <1>14 DEF Signal, slotVars
  <1>15. ASSUME NEW a \in Closing, Clear(a) PROVE ClosingClosed'
    BY <1>15 DEF Clear, slotVars
  <1>16. CASE UNCHANGED vars
    BY <1>16 DEF vars, slotVars
  <1> QED
    BY <1>1, <1>2, <1>3, <1>4, <1>5, <1>6, <1>7, <1>8,
       <1>9, <1>10, <1>11, <1>12, <1>13, <1>14, <1>15, <1>16 DEF Next, SlotStep, ReaderStep

\* Once the reader is done no step routes a stream: only an insertion does, and not once closed.
LEMMA NextSwept == TypeOK /\ ClosingClosed /\ SweptClean /\ [Next]_vars => SweptClean'
  <1> SUFFICES ASSUME TypeOK, ClosingClosed, SweptClean, [Next]_vars PROVE SweptClean'
    OBVIOUS
  <1> USE DEF SweptClean, ClosingClosed, TypeOK, TableTypes, Closing, Ids
  <1>1. ASSUME NEW s \in Streams, OpenStart(s) PROVE SweptClean'
    BY <1>1 DEF OpenStart, Goto
  <1>2. ASSUME NEW s \in Streams, OpenFetch(s) PROVE SweptClean'
    BY <1>2 DEF OpenFetch, Goto
  <1>3. ASSUME NEW s \in Streams, OpenInsert(s) PROVE SweptClean'
    BY <1>3 DEF OpenInsert, Insert, Retry, Goto
  <1>4. ASSUME NEW s \in Streams, Choose(s) PROVE SweptClean'
    BY <1>4 DEF Choose, Goto
  <1>5. ASSUME NEW s \in Streams, Recv(s) PROVE SweptClean'
    BY <1>5 DEF Recv, Goto
  <1>6. ASSUME NEW s \in Streams, Abandon(s) PROVE SweptClean'
    BY <1>6 DEF Abandon, Goto
  <1>7. ASSUME NEW s \in Streams, Drop(s) PROVE SweptClean'
    BY <1>7 DEF Drop, Goto
  <1>8. ASSUME NEW i \in Ids, ReaderFrame(i) PROVE SweptClean'
    BY <1>8 DEF ReaderFrame, ReaderHolds, slotVars
  <1>9. CASE ReaderTop
    BY <1>9 DEF ReaderTop, ReaderGoto, slotVars
  <1>10. CASE ReaderCancel
    BY <1>10 DEF ReaderCancel, ReaderGoto
  <1>11. CASE ReaderDeliver
    BY <1>11 DEF ReaderDeliver, ReaderGoto
  <1>12. CASE ReaderUnroute
    BY <1>12 DEF ReaderUnroute, ReaderGoto, slotVars
  <1>13. ASSUME NEW a \in Closing, Begin(a) PROVE SweptClean'
    BY <1>13 DEF Begin, ReaderGoto, slotVars
  <1>14. ASSUME NEW a \in Closing, Signal(a) PROVE SweptClean'
    BY <1>14 DEF Signal, slotVars
  <1>15. ASSUME NEW a \in Closing, Clear(a) PROVE SweptClean'
    BY <1>15 DEF Clear, slotVars
  <1>16. CASE UNCHANGED vars
    BY <1>16 DEF vars, slotVars
  <1> QED
    BY <1>1, <1>2, <1>3, <1>4, <1>5, <1>6, <1>7, <1>8,
       <1>9, <1>10, <1>11, <1>12, <1>13, <1>14, <1>15, <1>16 DEF Next, SlotStep, ReaderStep

\* The swept table, with the flag that keeps it so.
LEMMA SweptAlways == Spec => []Swept
  <1>1. Init => Swept
    BY DEF Init, Swept, SweptClean, ClosingClosed, Closing
  <1>2. TypeOK /\ Swept /\ [Next]_vars => Swept'
    BY NextClosing, NextSwept DEF Swept
  <1> QED
    BY <1>1, <1>2, TypeCorrect, PTL DEF Spec

(***************************************************************************)
(* A connection whose reader has gone routes no stream and never will.     *)
(***************************************************************************)
THEOREM ClosedSweptClean == Spec => []SweptClean
  <1>1. Swept => SweptClean
    BY DEF Swept
  <1> QED
    BY <1>1, SweptAlways, PTL

-----------------------------------------------------------------------------
\* Routes keep leading to live streams of their id: a stream that goes takes its route along.
LEMMA NextLead == TypeOK /\ RoutesLead /\ [Next]_vars => RoutesLead'
  <1> SUFFICES ASSUME TypeOK, RoutesLead, [Next]_vars PROVE RoutesLead'
    OBVIOUS
  <1> USE DEF TypeOK, TableTypes, StreamTypes, ReaderTypes, StreamIds, RoutesLead, Live
  <1>1. ASSUME NEW s \in Streams, OpenStart(s) PROVE RoutesLead'
    BY <1>1 DEF OpenStart, Goto
  <1>2. ASSUME NEW s \in Streams, OpenFetch(s) PROVE RoutesLead'
    BY <1>2 DEF OpenFetch, Goto
  <1>3. ASSUME NEW s \in Streams, OpenInsert(s) PROVE RoutesLead'
    BY <1>3 DEF OpenInsert, Insert, Retry, Goto
  <1>4. ASSUME NEW s \in Streams, Choose(s) PROVE RoutesLead'
    BY <1>4 DEF Choose, Goto
  <1>5. ASSUME NEW s \in Streams, Recv(s) PROVE RoutesLead'
    BY <1>5 DEF Recv, Goto
  <1>6. ASSUME NEW s \in Streams, Abandon(s) PROVE RoutesLead'
    BY <1>6 DEF Abandon, Goto
  <1>7. ASSUME NEW s \in Streams, Drop(s) PROVE RoutesLead'
    BY <1>7 DEF Drop, Goto
  <1>8. ASSUME NEW i \in Ids, ReaderFrame(i) PROVE RoutesLead'
    BY <1>8 DEF ReaderFrame, ReaderHolds, slotVars
  <1>9. CASE ReaderTop
    BY <1>9 DEF ReaderTop, ReaderGoto, slotVars
  <1>10. CASE ReaderCancel
    BY <1>10 DEF ReaderCancel, ReaderGoto
  <1>11. CASE ReaderDeliver
    BY <1>11 DEF ReaderDeliver, ReaderGoto
  <1>12. CASE ReaderUnroute
    BY <1>12 DEF ReaderUnroute, ReaderGoto, slotVars
  <1>13. ASSUME NEW a \in Closing, Begin(a) PROVE RoutesLead'
    BY <1>13 DEF Begin, ReaderGoto, slotVars
  <1>14. ASSUME NEW a \in Closing, Signal(a) PROVE RoutesLead'
    BY <1>14 DEF Signal, slotVars
  <1>15. ASSUME NEW a \in Closing, Clear(a) PROVE RoutesLead'
    BY <1>15 DEF Clear, slotVars
  <1>16. CASE UNCHANGED vars
    BY <1>16 DEF vars, slotVars
  <1> QED
    BY <1>1, <1>2, <1>3, <1>4, <1>5, <1>6, <1>7, <1>8,
       <1>9, <1>10, <1>11, <1>12, <1>13, <1>14, <1>15, <1>16 DEF Next, SlotStep, ReaderStep

\* An insertion gives no stream the id of another.
LEMMA NextUnique == TypeOK /\ UniqueIds /\ [Next]_vars => UniqueIds'
  <1> SUFFICES ASSUME TypeOK, UniqueIds, [Next]_vars PROVE UniqueIds'
    OBVIOUS
  <1> USE DEF TypeOK, TableTypes, StreamTypes, ReaderTypes, StreamIds, UniqueIds, Live
  <1>1. ASSUME NEW s \in Streams, OpenStart(s) PROVE UniqueIds'
    BY <1>1 DEF OpenStart, Goto
  <1>2. ASSUME NEW s \in Streams, OpenFetch(s) PROVE UniqueIds'
    BY <1>2 DEF OpenFetch, Goto
  <1>3. ASSUME NEW s \in Streams, OpenInsert(s) PROVE UniqueIds'
    BY <1>3 DEF OpenInsert, Insert, Retry, Goto, NotLapped
  <1>4. ASSUME NEW s \in Streams, Choose(s) PROVE UniqueIds'
    BY <1>4 DEF Choose, Goto
  <1>5. ASSUME NEW s \in Streams, Recv(s) PROVE UniqueIds'
    BY <1>5 DEF Recv, Goto
  <1>6. ASSUME NEW s \in Streams, Abandon(s) PROVE UniqueIds'
    BY <1>6 DEF Abandon, Goto
  <1>7. ASSUME NEW s \in Streams, Drop(s) PROVE UniqueIds'
    BY <1>7 DEF Drop, Goto
  <1>8. ASSUME NEW i \in Ids, ReaderFrame(i) PROVE UniqueIds'
    BY <1>8 DEF ReaderFrame, ReaderHolds, slotVars
  <1>9. CASE ReaderTop
    BY <1>9 DEF ReaderTop, ReaderGoto, slotVars
  <1>10. CASE ReaderCancel
    BY <1>10 DEF ReaderCancel, ReaderGoto
  <1>11. CASE ReaderDeliver
    BY <1>11 DEF ReaderDeliver, ReaderGoto
  <1>12. CASE ReaderUnroute
    BY <1>12 DEF ReaderUnroute, ReaderGoto, slotVars
  <1>13. ASSUME NEW a \in Closing, Begin(a) PROVE UniqueIds'
    BY <1>13 DEF Begin, ReaderGoto, slotVars
  <1>14. ASSUME NEW a \in Closing, Signal(a) PROVE UniqueIds'
    BY <1>14 DEF Signal, slotVars
  <1>15. ASSUME NEW a \in Closing, Clear(a) PROVE UniqueIds'
    BY <1>15 DEF Clear, slotVars
  <1>16. CASE UNCHANGED vars
    BY <1>16 DEF vars, slotVars
  <1> QED
    BY <1>1, <1>2, <1>3, <1>4, <1>5, <1>6, <1>7, <1>8,
       <1>9, <1>10, <1>11, <1>12, <1>13, <1>14, <1>15, <1>16 DEF Next, SlotStep, ReaderStep

\* The reader's copy of a route stays true while it acts on it.
LEMMA NextReaderTruth == TypeOK /\ RoutesLead /\ ReaderTruth /\ [Next]_vars => ReaderTruth'
  <1> SUFFICES ASSUME TypeOK, RoutesLead, ReaderTruth, [Next]_vars PROVE ReaderTruth'
    OBVIOUS
  <1> USE DEF TypeOK, TableTypes, StreamTypes, ReaderTypes, StreamIds, ReaderTruth, Live, Ids
  <1>1. ASSUME NEW s \in Streams, OpenStart(s) PROVE ReaderTruth'
    BY <1>1 DEF OpenStart, Goto
  <1>2. ASSUME NEW s \in Streams, OpenFetch(s) PROVE ReaderTruth'
    BY <1>2 DEF OpenFetch, Goto
  <1>3. ASSUME NEW s \in Streams, OpenInsert(s) PROVE ReaderTruth'
    BY <1>3 DEF OpenInsert, Insert, Retry, Goto, NotLapped
  <1>4. ASSUME NEW s \in Streams, Choose(s) PROVE ReaderTruth'
    BY <1>4 DEF Choose, Goto
  <1>5. ASSUME NEW s \in Streams, Recv(s) PROVE ReaderTruth'
    BY <1>5 DEF Recv, Goto
  <1>6. ASSUME NEW s \in Streams, Abandon(s) PROVE ReaderTruth'
    BY <1>6 DEF Abandon, Goto
  <1>7. ASSUME NEW s \in Streams, Drop(s) PROVE ReaderTruth'
    BY <1>7 DEF Drop, Goto
  <1>8. ASSUME NEW i \in Ids, ReaderFrame(i) PROVE ReaderTruth'
    BY <1>8 DEF ReaderFrame, ReaderHolds, slotVars
  <1>9. CASE ReaderTop
    BY <1>9 DEF ReaderTop, ReaderGoto, slotVars
  <1>10. CASE ReaderCancel
    BY <1>10 DEF ReaderCancel, ReaderGoto
  <1>11. CASE ReaderDeliver
    BY <1>11 DEF ReaderDeliver, ReaderGoto, Receiving, RoutesLead
  <1>12. CASE ReaderUnroute
    <2>1. reader.id \in Ids /\ routes'[reader.id] = NoStream
      BY <1>12 DEF ReaderUnroute
    <2>2. CASE reader.at = "overflow"
      BY <1>12, <2>1, <2>2 DEF ReaderUnroute
    <2>3. CASE reader.at = "gone"
      BY <1>12, <2>3 DEF ReaderUnroute, ReaderGoto
    <2> QED
      BY <1>12, <2>2, <2>3 DEF ReaderUnroute
  <1>13. ASSUME NEW a \in Closing, Begin(a) PROVE ReaderTruth'
    BY <1>13 DEF Begin, ReaderGoto, slotVars
  <1>14. ASSUME NEW a \in Closing, Signal(a) PROVE ReaderTruth'
    BY <1>14 DEF Signal, slotVars
  <1>15. ASSUME NEW a \in Closing, Clear(a) PROVE ReaderTruth'
    BY <1>15 DEF Clear, slotVars
  <1>16. CASE UNCHANGED vars
    BY <1>16 DEF vars, slotVars
  <1> QED
    BY <1>1, <1>2, <1>3, <1>4, <1>5, <1>6, <1>7, <1>8,
       <1>9, <1>10, <1>11, <1>12, <1>13, <1>14, <1>15, <1>16 DEF Next, SlotStep, ReaderStep

\* No step takes the route of a stream in use, except to cancel it.
LEMMA NextOwns == TypeOK /\ Swept /\ Owned /\ [Next]_vars => OwnsRoute'
  <1> SUFFICES ASSUME TypeOK, Swept, Owned, [Next]_vars PROVE OwnsRoute'
    OBVIOUS
  <1> USE DEF TypeOK, TableTypes, StreamTypes, ReaderTypes, StreamIds, Owned, OwnsRoute, AboutToCancel, InReadersHands, Live
  <1>1. ASSUME NEW s \in Streams, OpenStart(s) PROVE OwnsRoute'
    BY <1>1 DEF OpenStart, Goto
  <1>2. ASSUME NEW s \in Streams, OpenFetch(s) PROVE OwnsRoute'
    BY <1>2 DEF OpenFetch, Goto
  <1>3. ASSUME NEW s \in Streams, OpenInsert(s) PROVE OwnsRoute'
    BY <1>3 DEF OpenInsert, Insert, Retry, Goto, NotLapped
  <1>4. ASSUME NEW s \in Streams, Choose(s) PROVE OwnsRoute'
    BY <1>4 DEF Choose, Goto
  <1>5. ASSUME NEW s \in Streams, Recv(s) PROVE OwnsRoute'
    BY <1>5 DEF Recv, Goto
  <1>6. ASSUME NEW s \in Streams, Abandon(s) PROVE OwnsRoute'
    BY <1>6 DEF Abandon, Goto
  <1>7. ASSUME NEW s \in Streams, Drop(s) PROVE OwnsRoute'
    BY <1>7 DEF Drop, Goto, UniqueIds
  <1>8. ASSUME NEW i \in Ids, ReaderFrame(i) PROVE OwnsRoute'
    BY <1>8 DEF ReaderFrame, ReaderHolds, slotVars, RoutesLead
  <1>9. CASE ReaderTop
    BY <1>9 DEF ReaderTop, ReaderGoto, slotVars
  <1>10. CASE ReaderCancel
    BY <1>10 DEF ReaderCancel, ReaderGoto, Receiving
  <1>11. CASE ReaderDeliver
    BY <1>11 DEF ReaderDeliver, ReaderGoto
  <1>12. CASE ReaderUnroute
    BY <1>12 DEF ReaderUnroute, ReaderGoto, slotVars, ReaderTruth
  <1>13. ASSUME NEW a \in Closing, Begin(a) PROVE OwnsRoute'
    BY <1>13 DEF Begin, ReaderGoto, slotVars
  <1>14. ASSUME NEW a \in Closing, Signal(a) PROVE OwnsRoute'
    BY <1>14 DEF Signal, slotVars
  <1>15. ASSUME NEW a \in Closing, Clear(a) PROVE OwnsRoute'
    BY <1>15 DEF Clear, slotVars, Swept, ClosingClosed
  <1>16. CASE UNCHANGED vars
    BY <1>16 DEF vars, slotVars
  <1> QED
    BY <1>1, <1>2, <1>3, <1>4, <1>5, <1>6, <1>7, <1>8,
       <1>9, <1>10, <1>11, <1>12, <1>13, <1>14, <1>15, <1>16 DEF Next, SlotStep, ReaderStep

(***************************************************************************)
(* A stream in use on an open connection owns its route, or is being       *)
(* canceled.                                                               *)
(***************************************************************************)
THEOREM StreamOwnsRoute == Spec => []OwnsRoute
  <1>1. Init => Owned
    BY DEF Init, Owned, RoutesLead, UniqueIds, ReaderTruth, OwnsRoute, Live
  <1>2. TypeOK /\ Owned /\ Swept /\ [Next]_vars => Owned'
    BY NextLead, NextUnique, NextReaderTruth, NextOwns DEF Owned, Swept
  <1>3. Owned => OwnsRoute
    BY DEF Owned
  <1> QED
    BY <1>1, <1>2, <1>3, SweptAlways, TypeCorrect, PTL DEF Spec
=============================================================================
