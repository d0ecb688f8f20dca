--------------------------- MODULE RegistryProofs ---------------------------
(***************************************************************************)
(* Proofs about Registry, for any number of sessions and connectors, with  *)
(* and without heartbeats, whoever dials.                                  *)
(***************************************************************************)
EXTENDS Registry, TLAPS

\* A heartbeat that goes on has seen fewer misses than end it.
BeatsOn == \A s \in Sessions : beat[s] # "done" => misses[s] < MaxMisses

\* register_device starts the heartbeat last.
BeatLater == \A s \in Sessions : stage[s] # "live" => beat[s] = "none"

TypeInv == TypeOK /\ BeatsOn /\ BeatLater

LEMMA InitType == Init => TypeInv
  BY RegistryAssumption DEF Init, TypeInv, TypeOK, BeatsOn, BeatLater, Start

\* A miss ends the heartbeat exactly when it closes the transport.
LEMMA MissedType ==
  ASSUME TypeInv, NEW s \in Sessions, beat[s] # "done", Missed(s)
  PROVE  /\ misses' \in [Sessions -> 0..MaxMisses]
         /\ beat' \in [Sessions -> {"none", "sleep", "ping", "done"}]
         /\ closed' \in [Sessions -> BOOLEAN]
         /\ BeatsOn'
  <1>1. misses[s] \in Nat /\ misses[s] < MaxMisses
    BY DEF TypeInv, TypeOK, BeatsOn
  <1>2. misses' \in [Sessions -> 0..MaxMisses]
    BY <1>1, RegistryAssumption DEF Missed, TypeInv, TypeOK
  <1>3. (closed[s] \/ misses'[s] >= MaxMisses) \in BOOLEAN
    OBVIOUS
  <1>4. closed' \in [Sessions -> BOOLEAN]
    BY <1>3, Zenon DEF Missed, TypeInv, TypeOK
  <1>5. beat' \in [Sessions -> {"none", "sleep", "ping", "done"}]
    BY DEF Missed, TypeInv, TypeOK
  <1>6. BeatsOn'
    BY <1>1, <1>2, RegistryAssumption DEF BeatsOn, Missed, TypeInv, TypeOK
  <1>7. QED
    BY <1>2, <1>4, <1>5, <1>6

LEMMA NextType == TypeInv /\ [Next]_vars => TypeInv'
  <1>0. SUFFICES ASSUME TypeInv, [Next]_vars PROVE TypeInv'
    OBVIOUS
  <1>1. ASSUME NEW c \in Connectors, ConnectorCheck(c) PROVE TypeInv'
    BY <1>0, <1>1 DEF TypeInv, TypeOK, BeatsOn, BeatLater, ConnectorCheck, recordVars, taskVars, deviceVars
  <1>2. ASSUME NEW c \in Connectors, ConnectorDial(c) PROVE TypeInv'
    BY <1>0, <1>2 DEF TypeInv, TypeOK, BeatsOn, BeatLater, ConnectorDial, Begin, taskVars, deviceVars
  <1>3. ASSUME NEW c \in Connectors, ConnectorRefused(c) PROVE TypeInv'
    BY <1>0, <1>3, RegistryAssumption DEF TypeInv, TypeOK, BeatsOn, BeatLater, ConnectorRefused, Start, recordVars, taskVars
  <1>4. CASE DeviceDials
    BY <1>0, <1>4 DEF TypeInv, TypeOK, BeatsOn, BeatLater, DeviceDials, Begin, taskVars
  <1>5. CASE DeviceNotices
    BY <1>0, <1>5 DEF TypeInv, TypeOK, BeatsOn, BeatLater, DeviceNotices, recordVars, taskVars
  <1>6. ASSUME NEW s \in Sessions, HandshakeDone(s) PROVE TypeInv'
    BY <1>0, <1>6 DEF TypeInv, TypeOK, BeatsOn, BeatLater, HandshakeDone, taskVars, deviceVars
  <1>7. ASSUME NEW s \in Sessions, HandshakeFails(s) PROVE TypeInv'
    BY <1>0, <1>7, RegistryAssumption DEF TypeInv, TypeOK, BeatsOn, BeatLater, HandshakeFails, Released, Start, taskVars
  <1>8. ASSUME NEW s \in Sessions, Insert(s) PROVE TypeInv'
    BY <1>0, <1>8 DEF TypeInv, TypeOK, BeatsOn, BeatLater, Insert, taskVars, deviceVars
  <1>9. ASSUME NEW s \in Sessions, Spawn(s) PROVE TypeInv'
    <2>1. closer' \in [Sessions -> BOOLEAN]
      BY <1>9, Zenon DEF Spawn
    <2>2. /\ stage' = [stage EXCEPT ![s] = "live"]
          /\ prev' = [prev EXCEPT ![s] = NoSession]
          /\ monitor' = [monitor EXCEPT ![s] = "wait"]
          /\ beat' = [beat EXCEPT ![s] = IF Heartbeat THEN "sleep" ELSE "done"]
          /\ by' = [by EXCEPT ![s] = IF @ = Listener THEN Nobody ELSE @]
          /\ UNCHANGED <<entry, closed, misses, connector, deviceVars>>
      BY <1>9, Zenon DEF Spawn
    <2>3. TypeOK'
      BY <1>0, <2>1, <2>2 DEF TypeInv, TypeOK, deviceVars
    <2>4. QED
      BY <1>0, <1>9, <2>2, <2>3 DEF TypeInv, TypeOK, BeatsOn, BeatLater, Spawn
  <1>10. ASSUME NEW s \in Sessions, CloseReplaced(s) PROVE TypeInv'
    BY <1>0, <1>10 DEF TypeInv, TypeOK, BeatsOn, BeatLater, CloseReplaced, taskVars, deviceVars
  <1>11. ASSUME NEW s \in Sessions, MonitorRemoves(s) PROVE TypeInv'
    BY <1>0, <1>11 DEF TypeInv, TypeOK, BeatsOn, BeatLater, MonitorRemoves, recordVars, deviceVars
  <1>12. ASSUME NEW s \in Sessions, ConnectorReturns(s) PROVE TypeInv'
    BY <1>0, <1>12 DEF TypeInv, TypeOK, BeatsOn, BeatLater, ConnectorReturns, Released, Start, taskVars, deviceVars
  <1>13. ASSUME NEW s \in Sessions, BeatWakes(s) PROVE TypeInv'
    BY <1>0, <1>13 DEF TypeInv, TypeOK, BeatsOn, BeatLater, BeatWakes, recordVars, deviceVars
  <1>14. ASSUME NEW s \in Sessions, BeatAnswered(s) PROVE TypeInv'
    BY <1>0, <1>14, RegistryAssumption DEF TypeInv, TypeOK, BeatsOn, BeatLater, BeatAnswered, recordVars
  <1>15. ASSUME NEW s \in Sessions, BeatFails(s) PROVE TypeInv'
    <2>0. beat[s] = "ping" /\ UNCHANGED <<entry, recordVars, monitor, connector, dialed, faults, dials>>
      BY <1>15 DEF BeatFails
    <2>1. CASE beat' = [beat EXCEPT ![s] = "done"] /\ UNCHANGED <<misses, closed, lag>>
      BY <1>0, <2>0, <2>1 DEF TypeInv, TypeOK, BeatsOn, BeatLater, recordVars
    <2>2. CASE Missed(s) /\ lag' \in [Sessions -> 0..MaxMisses]
      <3>1. BeatLater'
        BY <1>0, <2>0, <2>2 DEF Missed, TypeInv, BeatLater, recordVars
      <3>2. TypeOK' /\ BeatsOn'
        BY <1>0, <2>0, <2>2, MissedType DEF TypeInv, TypeOK, recordVars
      <3>3. QED
        BY <3>1, <3>2 DEF TypeInv
    <2>3. (lag' = lag \/ (lag[s] + 1 < MaxMisses /\ lag' = [lag EXCEPT ![s] = @ + 1]))
             => lag' \in [Sessions -> 0..MaxMisses]
      BY <1>0, RegistryAssumption DEF TypeInv, TypeOK
    <2>4. \/ beat' = [beat EXCEPT ![s] = "done"] /\ UNCHANGED <<misses, closed, lag>>
          \/ Missed(s) /\ lag' = lag
          \/ Missed(s) /\ lag[s] + 1 < MaxMisses /\ lag' = [lag EXCEPT ![s] = @ + 1]
      BY <1>15, Zenon DEF BeatFails
    <2>5. QED
      BY <2>1, <2>2, <2>3, <2>4
  <1>16. ASSUME NEW s \in Sessions, DeviceLost(s) PROVE TypeInv'
    <2>1. closed' \in [Sessions -> BOOLEAN]
      <3>1. (stage[s] # "handshake") \in BOOLEAN
        OBVIOUS
      <3>2. [closed EXCEPT ![s] = (stage[s] # "handshake")] \in [Sessions -> BOOLEAN]
        BY <1>0, <3>1, Zenon DEF TypeInv, TypeOK
      <3>3. QED
        BY <1>0, <1>16, <3>2 DEF TypeInv, TypeOK, DeviceLost
    <2>2. /\ faults < MaxFaults /\ faults' = faults + 1
          /\ lag' = [lag EXCEPT ![s] = MaxMisses]
          /\ UNCHANGED <<entry, recordVars, taskVars, connector, dialed, dials>>
      BY <1>16, Zenon DEF DeviceLost
    <2>3. QED
      BY <1>0, <2>1, <2>2, RegistryAssumption
         DEF TypeInv, TypeOK, BeatsOn, BeatLater, recordVars, taskVars
  <1>17. ASSUME NEW s \in Sessions, Forget(s) PROVE TypeInv'
    BY <1>0, <1>17, RegistryAssumption DEF TypeInv, TypeOK, BeatsOn, BeatLater, Forget
  <1>18. CASE UNCHANGED vars
    BY <1>18, <1>0 DEF TypeInv, TypeOK, BeatsOn, BeatLater, vars, recordVars, taskVars, deviceVars
  <1>19. ASSUME NEW c \in Connectors, Discover(c) PROVE TypeInv'
    BY <1>0, <1>19 DEF TypeInv, TypeOK, BeatsOn, BeatLater, Discover, recordVars, taskVars, deviceVars
  <1>20. QED
    BY <1>0, <1>1, <1>2, <1>3, <1>4, <1>5, <1>6, <1>7, <1>8, <1>9, <1>10, <1>11, <1>12, <1>13,
       <1>14, <1>15, <1>16, <1>17, <1>18, <1>19
         DEF Next, ConnectorStep, Handshake, Register, BeatStep

(***************************************************************************)
(* Types of the registry and of every task around it.                      *)
(***************************************************************************)
THEOREM TypeCorrect == Spec => []TypeOK
  <1>1. TypeInv => TypeOK
    BY DEF TypeInv
  <1>2. QED
    BY InitType, NextType, <1>1, PTL DEF Spec

LEMMA NextWatched == TypeInv /\ EntryWatched /\ [Next]_vars => EntryWatched'
  <1>0. SUFFICES ASSUME TypeInv, EntryWatched, [Next]_vars PROVE EntryWatched'
    OBVIOUS
  <1>1. ASSUME NEW c \in Connectors, ConnectorCheck(c) PROVE EntryWatched'
    BY <1>0, <1>1 DEF EntryWatched, ConnectorCheck, recordVars, taskVars
  <1>2. ASSUME NEW c \in Connectors, ConnectorDial(c) PROVE EntryWatched'
    BY <1>0, <1>2 DEF EntryWatched, ConnectorDial, Begin, taskVars
  <1>3. ASSUME NEW c \in Connectors, ConnectorRefused(c) PROVE EntryWatched'
    BY <1>0, <1>3 DEF EntryWatched, ConnectorRefused, recordVars, taskVars
  <1>4. CASE DeviceDials
    BY <1>0, <1>4 DEF EntryWatched, DeviceDials, Begin, taskVars
  <1>5. CASE DeviceNotices
    BY <1>0, <1>5 DEF EntryWatched, DeviceNotices, recordVars, taskVars
  <1>6. ASSUME NEW s \in Sessions, HandshakeDone(s) PROVE EntryWatched'
    BY <1>0, <1>6 DEF EntryWatched, HandshakeDone, taskVars
  <1>7. ASSUME NEW s \in Sessions, HandshakeFails(s) PROVE EntryWatched'
    BY <1>0, <1>7 DEF EntryWatched, HandshakeFails, taskVars
  <1>8. ASSUME NEW s \in Sessions, Insert(s) PROVE EntryWatched'
    BY <1>0, <1>8 DEF TypeInv, TypeOK, EntryWatched, Insert
  <1>9. ASSUME NEW s \in Sessions, Spawn(s) PROVE EntryWatched'
    BY <1>0, <1>9 DEF TypeInv, TypeOK, EntryWatched, Spawn
  <1>10. ASSUME NEW s \in Sessions, CloseReplaced(s) PROVE EntryWatched'
    BY <1>0, <1>10 DEF EntryWatched, CloseReplaced, taskVars
  <1>11. ASSUME NEW s \in Sessions, MonitorRemoves(s) PROVE EntryWatched'
    BY <1>0, <1>11, RegistryAssumption DEF EntryWatched, MonitorRemoves, recordVars
  <1>12. ASSUME NEW s \in Sessions, ConnectorReturns(s) PROVE EntryWatched'
    BY <1>0, <1>12 DEF EntryWatched, ConnectorReturns, taskVars
  <1>13. ASSUME NEW s \in Sessions, BeatWakes(s) PROVE EntryWatched'
    BY <1>0, <1>13 DEF EntryWatched, BeatWakes, recordVars
  <1>14. ASSUME NEW s \in Sessions, BeatAnswered(s) PROVE EntryWatched'
    BY <1>0, <1>14 DEF EntryWatched, BeatAnswered, recordVars
  <1>15. ASSUME NEW s \in Sessions, BeatFails(s) PROVE EntryWatched'
    BY <1>0, <1>15 DEF EntryWatched, BeatFails, recordVars
  <1>16. ASSUME NEW s \in Sessions, DeviceLost(s) PROVE EntryWatched'
    BY <1>0, <1>16 DEF EntryWatched, DeviceLost, recordVars, taskVars
  <1>17. ASSUME NEW s \in Sessions, Forget(s) PROVE EntryWatched'
    BY <1>0, <1>17 DEF EntryWatched, Forget
  <1>18. CASE UNCHANGED vars
    BY <1>0, <1>18 DEF EntryWatched, vars, recordVars, taskVars
  <1>19. ASSUME NEW c \in Connectors, Discover(c) PROVE EntryWatched'
    BY <1>0, <1>19 DEF EntryWatched, Discover, recordVars, taskVars
  <1>20. QED
    BY <1>0, <1>1, <1>2, <1>3, <1>4, <1>5, <1>6, <1>7, <1>8, <1>9, <1>10, <1>11, <1>12, <1>13,
       <1>14, <1>15, <1>16, <1>17, <1>18, <1>19
         DEF Next, ConnectorStep, Handshake, Register, BeatStep

LEMMA NextOrphan == TypeInv /\ NoOrphan /\ [Next]_vars => NoOrphan'
  <1>0. SUFFICES ASSUME TypeInv, NoOrphan, [Next]_vars PROVE NoOrphan'
    OBVIOUS
  <1>1. ASSUME NEW c \in Connectors, ConnectorCheck(c) PROVE NoOrphan'
    BY <1>0, <1>1 DEF NoOrphan, Closing, ConnectorCheck, recordVars
  <1>2. ASSUME NEW c \in Connectors, ConnectorDial(c) PROVE NoOrphan'
    BY <1>0, <1>2 DEF NoOrphan, Closing, ConnectorDial, Begin
  <1>3. ASSUME NEW c \in Connectors, ConnectorRefused(c) PROVE NoOrphan'
    BY <1>0, <1>3 DEF NoOrphan, Closing, ConnectorRefused, recordVars
  <1>4. CASE DeviceDials
    BY <1>0, <1>4 DEF NoOrphan, Closing, DeviceDials, Begin
  <1>5. CASE DeviceNotices
    BY <1>0, <1>5 DEF NoOrphan, Closing, DeviceNotices, recordVars
  <1>6. ASSUME NEW s \in Sessions, HandshakeDone(s) PROVE NoOrphan'
    BY <1>0, <1>6 DEF NoOrphan, Closing, HandshakeDone
  <1>7. ASSUME NEW s \in Sessions, HandshakeFails(s) PROVE NoOrphan'
    BY <1>0, <1>7 DEF NoOrphan, Closing, HandshakeFails
  <1>8. ASSUME NEW s \in Sessions, Insert(s) PROVE NoOrphan'
    BY <1>0, <1>8 DEF TypeInv, TypeOK, NoOrphan, Closing, Insert
  <1>9. ASSUME NEW s \in Sessions, Spawn(s) PROVE NoOrphan'
    BY <1>0, <1>9 DEF TypeInv, TypeOK, NoOrphan, Closing, Spawn, Replaced
  <1>10. ASSUME NEW s \in Sessions, CloseReplaced(s) PROVE NoOrphan'
    BY <1>0, <1>10 DEF TypeInv, TypeOK, NoOrphan, Closing, CloseReplaced
  <1>11. ASSUME NEW s \in Sessions, MonitorRemoves(s) PROVE NoOrphan'
    BY <1>0, <1>11 DEF NoOrphan, Closing, MonitorRemoves, recordVars
  <1>12. ASSUME NEW s \in Sessions, ConnectorReturns(s) PROVE NoOrphan'
    BY <1>0, <1>12 DEF NoOrphan, Closing, ConnectorReturns
  <1>13. ASSUME NEW s \in Sessions, BeatWakes(s) PROVE NoOrphan'
    BY <1>0, <1>13 DEF NoOrphan, Closing, BeatWakes, recordVars
  <1>14. ASSUME NEW s \in Sessions, BeatAnswered(s) PROVE NoOrphan'
    BY <1>0, <1>14 DEF NoOrphan, Closing, BeatAnswered, recordVars
  <1>15. ASSUME NEW s \in Sessions, BeatFails(s) PROVE NoOrphan'
    BY <1>0, <1>15 DEF TypeInv, TypeOK, NoOrphan, Closing, BeatFails, Missed, recordVars
  <1>16. ASSUME NEW s \in Sessions, DeviceLost(s) PROVE NoOrphan'
    BY <1>0, <1>16 DEF TypeInv, TypeOK, NoOrphan, Closing, DeviceLost, recordVars
  <1>17. ASSUME NEW s \in Sessions, Forget(s) PROVE NoOrphan'
    BY <1>0, <1>17 DEF TypeInv, TypeOK, NoOrphan, Closing, Forget
  <1>18. CASE UNCHANGED vars
    BY <1>0, <1>18 DEF NoOrphan, Closing, vars, recordVars
  <1>19. ASSUME NEW c \in Connectors, Discover(c) PROVE NoOrphan'
    BY <1>0, <1>19 DEF NoOrphan, Closing, Discover, recordVars
  <1>20. QED
    BY <1>0, <1>1, <1>2, <1>3, <1>4, <1>5, <1>6, <1>7, <1>8, <1>9, <1>10, <1>11, <1>12, <1>13,
       <1>14, <1>15, <1>16, <1>17, <1>18, <1>19
         DEF Next, ConnectorStep, Handshake, Register, BeatStep

(***************************************************************************)
(* A dead session never stays in the registry unwatched.                   *)
(***************************************************************************)
THEOREM EntryAlwaysWatched == Spec => []EntryWatched
  <1>1. Init => EntryWatched
    BY RegistryAssumption DEF Init, EntryWatched
  <1>2. QED
    BY <1>1, InitType, NextType, NextWatched, PTL DEF Spec

(***************************************************************************)
(* A session that was replaced is closed or about to be.                   *)
(***************************************************************************)
THEOREM ReplacedIsClosed == Spec => []NoOrphan
  <1>1. Init => NoOrphan
    BY DEF Init, NoOrphan
  <1>2. QED
    BY <1>1, InitType, NextType, NextOrphan, PTL DEF Spec

(***************************************************************************)
(* A device with an open session is never taken out of the registry.       *)
(***************************************************************************)
THEOREM OpenStaysRegistered == Spec => LiveKept
  <1>1. TypeInv /\ [Next]_vars => [Connected => entry' # NoSession]_vars
    <2>1. SUFFICES ASSUME TypeInv, Next, Connected PROVE entry' # NoSession
      BY DEF vars
    <2>2. CASE \E s \in Sessions : Insert(s)
      BY <2>2, RegistryAssumption DEF Insert
    <2>3. CASE \E s \in Sessions : MonitorRemoves(s)
      BY <2>1, <2>3 DEF MonitorRemoves, Connected
    <2>4. CASE UNCHANGED entry
      BY <2>1, <2>4 DEF Connected
    <2>5. QED
      BY <2>1, <2>2, <2>3, <2>4
         DEF Next, Discover, ConnectorStep, ConnectorCheck, ConnectorDial, ConnectorRefused, DeviceDials,
             DeviceNotices, Handshake, HandshakeDone, HandshakeFails, Register, Spawn,
             CloseReplaced, ConnectorReturns, BeatStep, BeatWakes, BeatAnswered, BeatFails,
             DeviceLost, Forget
  <1>2. QED
    BY <1>1, InitType, NextType, PTL DEF Spec, LiveKept

-----------------------------------------------------------------------------
(***************************************************************************)
(* A session that is being closed because it was replaced, or is about to  *)
(* be, was registered once and does not come back into the registry.       *)
(***************************************************************************)
ReplacedInv ==
    \A s \in Sessions :
        /\ closer[s] => stage[s] \in {"inserted", "live"} /\ entry # s
        /\ \A t \in Sessions : prev[t] = s =>
              stage[t] = "inserted" /\ stage[s] \in {"inserted", "live"} /\ entry # s

LEMMA NextReplaced == TypeInv /\ EntryWatched /\ ReplacedInv /\ [Next]_vars => ReplacedInv'
  <1>0. SUFFICES ASSUME TypeInv, EntryWatched, ReplacedInv, [Next]_vars PROVE ReplacedInv'
    OBVIOUS
  <1>1. CASE UNCHANGED <<entry, stage, prev, closer>>
    BY <1>0, <1>1 DEF ReplacedInv
  <1>2. ASSUME NEW s \in Sessions, NEW pc \in {"handshake", "made", "free"},
               stage[s] \in {"free", "handshake"}, stage' = [stage EXCEPT ![s] = pc],
               UNCHANGED <<entry, prev, closer>>
        PROVE  ReplacedInv'
    BY <1>0, <1>2 DEF TypeInv, TypeOK, ReplacedInv
  <1>3. ASSUME NEW s \in Sessions, Insert(s) PROVE ReplacedInv'
    BY <1>0, <1>3, RegistryAssumption DEF TypeInv, TypeOK, EntryWatched, ReplacedInv, Insert
  <1>4. ASSUME NEW s \in Sessions, Spawn(s) PROVE ReplacedInv'
    <2>1. \A p \in Sessions : closer'[p] = (closer[p] \/ p \in Replaced(s))
      BY <1>4 DEF Spawn
    <2>2. \A p \in Replaced(s) : p \in Sessions /\ stage[p] \in {"inserted", "live"} /\ entry # p
      BY <1>0 DEF Replaced, ReplacedInv
    <2>3. /\ stage' = [stage EXCEPT ![s] = "live"] /\ prev' = [prev EXCEPT ![s] = NoSession]
          /\ entry' = entry /\ stage[s] = "inserted"
      BY <1>4 DEF Spawn
    <2>4. QED
      BY <1>0, <2>1, <2>2, <2>3, RegistryAssumption DEF TypeInv, TypeOK, ReplacedInv
  <1>5. ASSUME NEW s \in Sessions, CloseReplaced(s) PROVE ReplacedInv'
    BY <1>0, <1>5 DEF TypeInv, TypeOK, ReplacedInv, CloseReplaced
  <1>6. ASSUME NEW s \in Sessions, MonitorRemoves(s) PROVE ReplacedInv'
    BY <1>0, <1>6, RegistryAssumption DEF TypeInv, TypeOK, ReplacedInv, MonitorRemoves, recordVars
  <1>7. ASSUME NEW s \in Sessions, Forget(s) PROVE ReplacedInv'
    BY <1>0, <1>7 DEF TypeInv, TypeOK, ReplacedInv, Forget
  <1>8. QED
    BY <1>0, <1>1, <1>2, <1>3, <1>4, <1>5, <1>6, <1>7
       DEF Next, ConnectorStep, Handshake, Register, BeatStep, Discover, ConnectorCheck,
           ConnectorDial, ConnectorRefused, DeviceDials, DeviceNotices, Begin, HandshakeDone,
           HandshakeFails, ConnectorReturns, BeatWakes, BeatAnswered, BeatFails, DeviceLost,
           vars, recordVars

(***************************************************************************)
(* As long as a session is open its heartbeat has not counted more misses  *)
(* than its device left out answers.                                       *)
(***************************************************************************)
DelayInv ==
    \A s \in Sessions :
        /\ stage[s] \in {"free", "handshake"} => ~closed[s]
        /\ stage[s] = "made" /\ closed[s] => Silent(s)
        /\ stage[s] # "live" => misses[s] = 0
        /\ ~closed[s] => misses[s] <= lag[s]

LEMMA NextTolerated ==
  TypeInv /\ ReplacedInv /\ DelayInv /\ DelaysTolerated /\ [Next]_vars
      => DelayInv' /\ DelaysTolerated'
  <1>0. SUFFICES ASSUME TypeInv, ReplacedInv, DelayInv, DelaysTolerated, [Next]_vars
                 PROVE  DelayInv' /\ DelaysTolerated'
    OBVIOUS
  <1> USE DEF DelayInv, DelaysTolerated, Silent
  <1>1. CASE UNCHANGED <<entry, stage, closed, misses, lag>>
    BY <1>0, <1>1
  <1>2. ASSUME NEW s \in Sessions, NEW pc \in {"handshake", "made"},
               stage[s] \in {"free", "handshake"}, stage' = [stage EXCEPT ![s] = pc],
               UNCHANGED <<entry, closed, misses, lag>>
        PROVE  DelayInv' /\ DelaysTolerated'
    BY <1>0, <1>2 DEF TypeInv, TypeOK
  <1>3. ASSUME NEW s \in Sessions, HandshakeFails(s) PROVE DelayInv' /\ DelaysTolerated'
    BY <1>0, <1>3, RegistryAssumption DEF TypeInv, TypeOK, HandshakeFails, taskVars
  <1>4. ASSUME NEW s \in Sessions, Insert(s) PROVE DelayInv' /\ DelaysTolerated'
    BY <1>0, <1>4 DEF TypeInv, TypeOK, Insert, taskVars, deviceVars
  <1>5. ASSUME NEW s \in Sessions, Spawn(s) PROVE DelayInv' /\ DelaysTolerated'
    <2>1. /\ stage' = [stage EXCEPT ![s] = "live"]
          /\ UNCHANGED <<entry, closed, misses, lag>> /\ stage[s] = "inserted"
      BY <1>5 DEF Spawn, deviceVars
    <2>2. QED
      BY <1>0, <2>1 DEF TypeInv, TypeOK
  <1>6. ASSUME NEW s \in Sessions, CloseReplaced(s) PROVE DelayInv' /\ DelaysTolerated'
    BY <1>0, <1>6 DEF TypeInv, TypeOK, ReplacedInv, CloseReplaced, taskVars, deviceVars
  <1>7. ASSUME NEW s \in Sessions, MonitorRemoves(s) PROVE DelayInv' /\ DelaysTolerated'
    BY <1>0, <1>7, RegistryAssumption DEF TypeInv, TypeOK, MonitorRemoves, recordVars, deviceVars
  <1>8. ASSUME NEW s \in Sessions, BeatAnswered(s) PROVE DelayInv' /\ DelaysTolerated'
    BY <1>0, <1>8, RegistryAssumption DEF TypeInv, TypeOK, BeatAnswered, Up, recordVars
  <1>9. ASSUME NEW s \in Sessions, BeatFails(s) PROVE DelayInv' /\ DelaysTolerated'
    <2>1. /\ beat[s] = "ping" /\ UNCHANGED <<entry, stage>> /\ stage[s] = "live"
      BY <1>0, <1>9 DEF BeatFails, recordVars, TypeInv, BeatLater
    <2>2. CASE UNCHANGED <<misses, closed, lag>>
      BY <1>0, <2>1, <2>2
    <2>3. CASE (closed[s] \/ Silent(s)) /\ Missed(s) /\ UNCHANGED lag
      <3>1. misses[s] \in Nat /\ misses[s] < MaxMisses
        BY <1>0, <2>1 DEF TypeInv, TypeOK, BeatsOn
      <3>2. /\ misses' = [misses EXCEPT ![s] = misses[s] + 1]
            /\ \A t \in Sessions : t # s => closed'[t] = closed[t]
            /\ closed[s] => closed'[s]
        BY <1>0, <2>3 DEF Missed, TypeInv, TypeOK
      <3>3. QED
        BY <1>0, <2>1, <2>3, <3>1, <3>2, RegistryAssumption DEF TypeInv, TypeOK
    <2>4. CASE /\ ~closed[s] /\ lag[s] + 1 < MaxMisses /\ Missed(s)
               /\ lag' = [lag EXCEPT ![s] = @ + 1]
      <3>1. misses[s] \in Nat /\ lag[s] \in Nat /\ misses[s] <= lag[s]
        BY <1>0, <2>4 DEF TypeInv, TypeOK
      <3>2. misses' = [misses EXCEPT ![s] = misses[s] + 1] /\ misses'[s] = misses[s] + 1
        BY <1>0, <2>4 DEF Missed, TypeInv, TypeOK
      <3>3. ~(misses'[s] >= MaxMisses)
        BY <2>4, <3>1, <3>2, RegistryAssumption
      <3>4. \A t \in Sessions : closed'[t] = closed[t]
        BY <1>0, <2>4, <3>3 DEF Missed, TypeInv, TypeOK
      <3>5. QED
        BY <1>0, <2>1, <2>4, <3>1, <3>2, <3>4, RegistryAssumption DEF TypeInv, TypeOK
    <2>5. QED
      BY <1>9, <2>2, <2>3, <2>4 DEF BeatFails
  <1>10. ASSUME NEW s \in Sessions, DeviceLost(s) PROVE DelayInv' /\ DelaysTolerated'
    <2>1. /\ lag' = [lag EXCEPT ![s] = MaxMisses] /\ UNCHANGED <<entry, stage, misses>>
          /\ stage[s] # "free" /\ \A t \in Sessions : t # s => closed'[t] = closed[t]
          /\ stage[s] = "handshake" => ~closed'[s]
      BY <1>0, <1>10 DEF DeviceLost, recordVars, taskVars, TypeInv, TypeOK
    <2>2. QED
      BY <1>0, <2>1, RegistryAssumption DEF TypeInv, TypeOK
  <1>11. ASSUME NEW s \in Sessions, Forget(s) PROVE DelayInv' /\ DelaysTolerated'
    BY <1>0, <1>11, RegistryAssumption DEF TypeInv, TypeOK, Forget
  <1>12. QED
    BY <1>0, <1>1, <1>2, <1>3, <1>4, <1>5, <1>6, <1>7, <1>8, <1>9, <1>10, <1>11
       DEF Next, ConnectorStep, Handshake, Register, BeatStep, Discover, ConnectorCheck,
           ConnectorDial, ConnectorRefused, DeviceDials, DeviceNotices, Begin, HandshakeDone,
           ConnectorReturns, BeatWakes, vars, recordVars, taskVars, deviceVars

(***************************************************************************)
(* A device that answers often enough is never taken for dead, for every   *)
(* HEARTBEAT_MAX_MISSES: the count of misses never runs ahead of the       *)
(* answers left out, and starts over with each answer (device_heartbeat).  *)
(***************************************************************************)
THEOREM DelaysAreTolerated == Spec => []DelaysTolerated
  <1>1. Init => EntryWatched /\ ReplacedInv /\ DelayInv /\ DelaysTolerated
    BY RegistryAssumption DEF Init, EntryWatched, ReplacedInv, DelayInv, DelaysTolerated
  <1>2. QED
    BY <1>1, InitType, NextType, NextWatched, NextReplaced, NextTolerated, PTL DEF Spec
=============================================================================
