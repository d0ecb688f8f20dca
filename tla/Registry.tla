------------------------------ MODULE Registry ------------------------------
(***************************************************************************)
(* The host's registry entry for one device, and every task that reads or  *)
(* changes it: the connectors and the listener that make sessions,         *)
(* register_device with the closing of a replaced session, the monitor     *)
(* that removes a closed one, and the heartbeat.                           *)
(*                                                                         *)
(* A session stands for a DeviceSession and its transport, from the TCP    *)
(* connection to the drop of its last clone.  Entries of different devices *)
(* share nothing but the listener's permits, so one device is modelled.    *)
(* The device is either dialled (inbound mode) or dials (outbound mode).   *)
(***************************************************************************)
EXTENDS Integers, FiniteSets

CONSTANTS
    Sessions,     \* connections of the device that may exist at a time
    Static,       \* device_connector tasks, one per --connect endpoint
    Discovered,   \* discovered_device_connector tasks: at most one per device
    Modes,        \* may the device be one that connects to the host? (Booleans)
    Permits,      \* MAX_PENDING_HANDSHAKES
    MaxMisses,    \* HEARTBEAT_MAX_MISSES
    Heartbeat,    \* does the device have the heartbeat capability?
    MaxFaults,    \* connections lost and handshakes failed in a behaviour
    NoSession, Listener, Nobody

Connectors == Static \union Discovered

ASSUME RegistryAssumption ==
    /\ NoSession \notin Sessions
    /\ Listener # Nobody /\ {Listener, Nobody} \intersect Connectors = {}
    /\ Static \intersect Discovered = {} /\ Cardinality(Discovered) <= 1
    /\ Permits \in Nat \ {0} /\ MaxMisses \in Nat \ {0} /\ MaxFaults \in Nat
    /\ Modes \subseteq BOOLEAN /\ Heartbeat \in BOOLEAN

VARIABLES
    entry,      \* the device's session in DeviceMap, or NoSession
    stage,      \* how far each session is in being made and registered
    prev,       \* the session it replaced, until register_device looked at it
    by,         \* the task that made it and still waits for it
    closed,     \* its transport's closed flag
    closer,     \* a task is spawned to close it
    monitor,    \* its monitor
    beat,       \* its heartbeat task
    misses,     \* that task's count of misses
    connector,  \* what each connector does
    lag,        \* answers in a row the device left out; MaxMisses: it is silent
    dialed,     \* the session the device's run_outbound is serving
    faults,
    dials       \* does the device connect to the host?  (never changes)

recordVars == <<stage, prev, by, closer>>
taskVars   == <<monitor, beat, misses>>
deviceVars == <<lag, dialed, faults, dials>>
vars == <<entry, recordVars, closed, taskVars, connector, deviceVars>>

Silent(s) == lag[s] = MaxMisses
Up(s)     == stage[s] \in {"made", "inserted", "live"} /\ ~closed[s]
Connected == entry # NoSession /\ ~closed[entry]
Start(c)  == IF c \in Discovered THEN "check" ELSE "connect"

Init ==
    /\ entry = NoSession
    /\ stage = [s \in Sessions |-> "free"]
    /\ prev = [s \in Sessions |-> NoSession]
    /\ by = [s \in Sessions |-> Nobody]
    /\ closed = [s \in Sessions |-> FALSE]
    /\ closer = [s \in Sessions |-> FALSE]
    /\ monitor = [s \in Sessions |-> "none"]
    /\ beat = [s \in Sessions |-> "none"]
    /\ misses = [s \in Sessions |-> 0]
    /\ connector = [c \in Connectors |-> IF c \in Discovered THEN "none" ELSE "connect"]
    /\ lag = [s \in Sessions |-> 0]
    /\ dialed = NoSession
    /\ faults = 0
    /\ dials \in Modes

-----------------------------------------------------------------------------
(***************************************************************************)
(* Making a session.                                                       *)
(***************************************************************************)
Begin(s, owner) ==
    /\ stage[s] = "free"
    /\ stage' = [stage EXCEPT ![s] = "handshake"]
    /\ by' = [by EXCEPT ![s] = owner]

\* discovered_device_manager: the first answer of the device to a discovery
\* starts its connector; a later one only changes the address.
Discover(c) ==
    /\ connector[c] = "none"
    /\ connector' = [connector EXCEPT ![c] = "check"]
    /\ UNCHANGED <<entry, recordVars, closed, taskVars, deviceVars>>

\* Without its look at the registry.
ConnectorCheckNothing(c) ==
    /\ connector[c] = "check"
    /\ connector' = [connector EXCEPT ![c] = "connect"]
    /\ UNCHANGED <<entry, recordVars, closed, taskVars, deviceVars>>

\* discovered_device_connector: is there an open session already?
ConnectorCheck(c) ==
    /\ connector[c] = "check"
    /\ ~Connected
    /\ connector' = [connector EXCEPT ![c] = "connect"]
    /\ UNCHANGED <<entry, recordVars, closed, taskVars, deviceVars>>

\* connect_endpoint_once, up to the TCP connection.
ConnectorDial(c) ==
    /\ connector[c] = "connect"
    /\ ~dials
    /\ \E s \in Sessions : Begin(s, c)
    /\ connector' = [connector EXCEPT ![c] = "wait"]
    /\ UNCHANGED <<entry, prev, closer, closed, taskVars, deviceVars>>

\* The connection is refused or times out: an error ends the attempt.
ConnectorRefused(c) ==
    /\ connector[c] = "connect"
    /\ faults < MaxFaults /\ faults' = faults + 1
    /\ connector' = [connector EXCEPT ![c] = Start(c)]
    /\ UNCHANGED <<entry, recordVars, closed, taskVars, lag, dialed, dials>>

Pending == {s \in Sessions : by[s] = Listener}

\* run_outbound connects; device_listener accepts if it has a permit.
DeviceDials ==
    /\ dials /\ dialed = NoSession
    /\ Cardinality(Pending) < Permits
    /\ \E s \in Sessions : Begin(s, Listener) /\ dialed' = s
    /\ UNCHANGED <<entry, prev, closer, closed, taskVars, connector, lag, faults, dials>>

\* The task that made s has its result: a connector starts over.
Released(s) ==
    /\ by' = [by EXCEPT ![s] = Nobody]
    /\ connector' = [c \in Connectors |-> IF c = by[s] THEN Start(c) ELSE connector[c]]

HandshakeDone(s) ==
    /\ stage[s] = "handshake" /\ ~Silent(s)
    /\ stage' = [stage EXCEPT ![s] = "made"]
    /\ UNCHANGED <<entry, prev, by, closer, closed, taskVars, connector, deviceVars>>

\* An error, a timeout, or an identity that is not the expected one.
HandshakeFails(s) ==
    /\ stage[s] = "handshake"
    /\ IF Silent(s) THEN UNCHANGED faults
       ELSE faults < MaxFaults /\ faults' = faults + 1
    /\ stage' = [stage EXCEPT ![s] = "free"]
    /\ lag' = [lag EXCEPT ![s] = 0]
    /\ dialed' = IF dialed = s THEN NoSession ELSE dialed
    /\ Released(s)
    /\ UNCHANGED <<entry, prev, closer, closed, taskVars, dials>>

-----------------------------------------------------------------------------
(***************************************************************************)
(* register_device: the insertion under the write lock, then the look at   *)
(* the session it replaced and the spawning of the tasks.                  *)
(***************************************************************************)
Insert(s) ==
    /\ stage[s] = "made"
    /\ stage' = [stage EXCEPT ![s] = "inserted"]
    /\ prev' = [prev EXCEPT ![s] = entry]
    /\ entry' = s
    /\ UNCHANGED <<by, closer, closed, taskVars, connector, deviceVars>>

NobodyReplaced(s) == {}
Replaced(s) == {p \in Sessions : p = prev[s] /\ ~closed[p]}

Spawn(s) ==
    /\ stage[s] = "inserted"
    /\ stage' = [stage EXCEPT ![s] = "live"]
    /\ closer' = [p \in Sessions |-> closer[p] \/ p \in Replaced(s)]
    /\ prev' = [prev EXCEPT ![s] = NoSession]
    /\ monitor' = [monitor EXCEPT ![s] = "wait"]
    /\ beat' = [beat EXCEPT ![s] = IF Heartbeat THEN "sleep" ELSE "done"]
    /\ by' = [by EXCEPT ![s] = IF @ = Listener THEN Nobody ELSE @]
    /\ UNCHANGED <<entry, closed, misses, connector, deviceVars>>

\* The task spawned for a replaced session.
CloseReplaced(s) ==
    /\ closer[s]
    /\ closer' = [closer EXCEPT ![s] = FALSE]
    /\ closed' = [closed EXCEPT ![s] = TRUE]
    /\ UNCHANGED <<entry, stage, prev, by, taskVars, connector, deviceVars>>

MonitorRemovesAny(s) ==
    /\ monitor[s] = "wait" /\ closed[s]
    /\ monitor' = [monitor EXCEPT ![s] = "done"]
    /\ entry' = NoSession
    /\ UNCHANGED <<recordVars, closed, beat, misses, connector, deviceVars>>

MonitorLeaves(s) ==
    /\ monitor[s] = "wait" /\ closed[s]
    /\ monitor' = [monitor EXCEPT ![s] = "done"]
    /\ UNCHANGED <<entry, recordVars, closed, beat, misses, connector, deviceVars>>

\* wait_closed, then remove_device_if_same.
MonitorRemoves(s) ==
    /\ monitor[s] = "wait" /\ closed[s]
    /\ monitor' = [monitor EXCEPT ![s] = "done"]
    /\ entry' = IF entry = s THEN NoSession ELSE entry
    /\ UNCHANGED <<recordVars, closed, beat, misses, connector, deviceVars>>

\* A connector's wait_closed returns.
ConnectorReturns(s) ==
    /\ stage[s] = "live" /\ by[s] \in Connectors /\ closed[s]
    /\ Released(s)
    /\ UNCHANGED <<entry, stage, prev, closer, closed, taskVars, deviceVars>>

-----------------------------------------------------------------------------
(***************************************************************************)
(* device_heartbeat.                                                       *)
(***************************************************************************)
BeatWakes(s) ==
    /\ beat[s] = "sleep"
    /\ beat' = [beat EXCEPT ![s] = IF closed[s] THEN "done" ELSE "ping"]
    /\ UNCHANGED <<entry, recordVars, closed, monitor, misses, connector, deviceVars>>

BeatAnsweredKeeping(s) ==
    /\ beat[s] = "ping" /\ Up(s) /\ ~Silent(s)
    /\ beat' = [beat EXCEPT ![s] = "sleep"]
    /\ lag' = [lag EXCEPT ![s] = 0]
    /\ UNCHANGED <<entry, recordVars, closed, monitor, misses, connector, dialed, faults, dials>>

BeatAnswered(s) ==
    /\ beat[s] = "ping" /\ Up(s) /\ ~Silent(s)
    /\ beat' = [beat EXCEPT ![s] = "sleep"]
    /\ misses' = [misses EXCEPT ![s] = 0]
    /\ lag' = [lag EXCEPT ![s] = 0]
    /\ UNCHANGED <<entry, recordVars, closed, monitor, connector, dialed, faults, dials>>

MissedForgetting(s) ==
    /\ misses' = [misses EXCEPT ![s] = 1]
    /\ beat' = [beat EXCEPT ![s] = IF misses'[s] >= MaxMisses THEN "done" ELSE "sleep"]
    /\ closed' = [closed EXCEPT ![s] = @ \/ misses'[s] >= MaxMisses]

\* A miss: the third in a row closes the transport.
Missed(s) ==
    /\ misses' = [misses EXCEPT ![s] = @ + 1]
    /\ beat' = [beat EXCEPT ![s] = IF misses'[s] >= MaxMisses THEN "done" ELSE "sleep"]
    /\ closed' = [closed EXCEPT ![s] = @ \/ misses'[s] >= MaxMisses]

\* remote_ping fails or times out; only a failure looks at the closed flag.
BeatFails(s) ==
    /\ beat[s] = "ping"
    /\ \/ /\ closed[s]
          /\ beat' = [beat EXCEPT ![s] = "done"]
          /\ UNCHANGED <<misses, closed, lag>>
       \/ /\ closed[s] \/ Silent(s)
          /\ Missed(s)
          /\ UNCHANGED lag
       \/ /\ ~closed[s] /\ lag[s] + 1 < MaxMisses     \* a delayed answer
          /\ Missed(s)
          /\ lag' = [lag EXCEPT ![s] = @ + 1]
    /\ UNCHANGED <<entry, recordVars, monitor, connector, dialed, faults, dials>>

-----------------------------------------------------------------------------
(***************************************************************************)
(* The connection and the device.                                          *)
(***************************************************************************)
\* The device dies, or the network loses it: the host may notice, or not.
DeviceLost(s) ==
    /\ faults < MaxFaults
    /\ stage[s] # "free" /\ ~Silent(s)
    /\ faults' = faults + 1
    /\ lag' = [lag EXCEPT ![s] = MaxMisses]
    /\ closed' \in {closed, [closed EXCEPT ![s] = (stage[s] # "handshake")]}
    /\ UNCHANGED <<entry, recordVars, taskVars, connector, dialed, dials>>

\* serve returns: end of the stream, or HOST_SILENCE_TIMEOUT_SECS of silence.
DeviceNotices ==
    /\ dialed # NoSession
    /\ closed[dialed] \/ Silent(dialed)
    /\ dialed' = NoSession
    /\ UNCHANGED <<entry, recordVars, closed, taskVars, connector, lag, faults, dials>>

\* The last clone of a session is dropped.
Forget(s) ==
    /\ stage[s] = "live" /\ closed[s] /\ ~closer[s]
    /\ monitor[s] = "done" /\ beat[s] = "done"
    /\ by[s] = Nobody /\ dialed # s
    /\ \A t \in Sessions : prev[t] # s
    /\ stage' = [stage EXCEPT ![s] = "free"]
    /\ closed' = [closed EXCEPT ![s] = FALSE]
    /\ monitor' = [monitor EXCEPT ![s] = "none"]
    /\ beat' = [beat EXCEPT ![s] = "none"]
    /\ misses' = [misses EXCEPT ![s] = 0]
    /\ lag' = [lag EXCEPT ![s] = 0]
    /\ UNCHANGED <<entry, prev, by, closer, connector, dialed, faults, dials>>

-----------------------------------------------------------------------------
ConnectorStep(c) == ConnectorCheck(c) \/ ConnectorDial(c)
Handshake(s)     == HandshakeDone(s) \/ HandshakeFails(s)
Register(s)      == Insert(s) \/ Spawn(s)
BeatStep(s)      == BeatWakes(s) \/ BeatAnswered(s) \/ BeatFails(s)

Next == \/ \E c \in Connectors : ConnectorStep(c) \/ Discover(c)
        \/ \E c \in Connectors : ConnectorRefused(c)
        \/ DeviceDials \/ DeviceNotices
        \/ \E s \in Sessions : \/ Handshake(s) \/ Register(s) \/ CloseReplaced(s)
                               \/ MonitorRemoves(s) \/ ConnectorReturns(s)
                               \/ BeatStep(s) \/ DeviceLost(s) \/ Forget(s)

Spec == Init /\ [][Next]_vars

(***************************************************************************)
(* Every spawned task runs, sleeps end, handshakes time out, a lost device *)
(* comes back and is dialled or dials again.                               *)
(***************************************************************************)
Fairness ==
    /\ \A c \in Connectors : WF_vars(ConnectorStep(c))
    /\ WF_vars(DeviceDials) /\ WF_vars(DeviceNotices)
    /\ \A s \in Sessions :
          /\ WF_vars(Handshake(s)) /\ WF_vars(Register(s))
          /\ WF_vars(CloseReplaced(s)) /\ WF_vars(MonitorRemoves(s))
          /\ WF_vars(ConnectorReturns(s)) /\ WF_vars(BeatStep(s)) /\ WF_vars(Forget(s))

FairSpec == Spec /\ Fairness

-----------------------------------------------------------------------------
TypeOK ==
    /\ entry \in Sessions \union {NoSession}
    /\ stage \in [Sessions -> {"free", "handshake", "made", "inserted", "live"}]
    /\ prev \in [Sessions -> Sessions \union {NoSession}]
    /\ by \in [Sessions -> Connectors \union {Listener, Nobody}]
    /\ closed \in [Sessions -> BOOLEAN]
    /\ closer \in [Sessions -> BOOLEAN]
    /\ monitor \in [Sessions -> {"none", "wait", "done"}]
    /\ beat \in [Sessions -> {"none", "sleep", "ping", "done"}]
    /\ misses \in [Sessions -> 0..MaxMisses]
    /\ connector \in [Connectors -> {"none", "check", "connect", "wait"}]
    /\ lag \in [Sessions -> 0..MaxMisses]
    /\ dialed \in Sessions \union {NoSession}
    /\ faults \in 0..MaxFaults
    /\ dials \in BOOLEAN

(***************************************************************************)
(* An open session that lost its place in the registry is being closed, or *)
(* the one that took its place is about to see to it: no connection stays  *)
(* open that no command can reach any more.                                *)
(***************************************************************************)
Closing(s) == closer[s] \/ \E t \in Sessions : stage[t] = "inserted" /\ prev[t] = s

NoOrphan ==
    \A s \in Sessions :
        stage[s] \in {"inserted", "live"} /\ entry # s /\ ~closed[s] => Closing(s)

(***************************************************************************)
(* The session in the registry has a monitor, or register_device is about  *)
(* to spawn it: an entry never stays behind its connection.                *)
(***************************************************************************)
EntryWatched ==
    \A s \in Sessions :
        entry = s => \/ stage[s] = "inserted"
                     \/ stage[s] = "live" /\ monitor[s] = "wait"

(***************************************************************************)
(* Once the device has an open session it stays reachable: whatever other  *)
(* sessions' monitors do, the entry is replaced but not removed.           *)
(***************************************************************************)
LiveKept == [][Connected => entry' # NoSession]_vars

(***************************************************************************)
(* Heartbeats tolerate delays: the session of a device that never leaves   *)
(* HEARTBEAT_MAX_MISSES pings in a row unanswered is closed only once it   *)
(* has been replaced.                                                      *)
(***************************************************************************)
DelaysTolerated ==
    \A s \in Sessions : closed[s] /\ ~Silent(s) => entry # s

(***************************************************************************)
(* A session that is closed, or whose device went silent without a word,   *)
(* does not stay in the registry.                                          *)
(***************************************************************************)
DeadEntry  == entry # NoSession /\ (closed[entry] \/ Silent(entry))
DeadLeaves == DeadEntry ~> ~DeadEntry

(***************************************************************************)
(* Once nothing fails any more the device comes to have one open session   *)
(* for good: what replaces sessions stops doing so.                        *)
(***************************************************************************)
Settles == \E s \in Sessions : <>[](entry = s /\ ~closed[s])
=============================================================================
