-------------------------------- MODULE Pairing --------------------------------
(***************************************************************************)
(* Pairing by a one-time PIN.  On the device: run_pairing_listener and its *)
(* handlers, the PIN file that sidewirectl writes, the failure counter and *)
(* the stored hosts.  On the host machines: the commands that read or      *)
(* change a trust store, `pair`, `unpair` and the server's look for the    *)
(* machine's own id.  A store is read, changed and written back whole.     *)
(*                                                                         *)
(* SPAKE2 and Noise are libraries: a handshake succeeds when both ends     *)
(* have the same PIN.  A random id or secret is a value nothing else has:  *)
(* an id is named by the command that makes it, which does so once, and a  *)
(* new secret is one that is stored nowhere and on no wire.                *)
(***************************************************************************)
EXTENDS Integers, FiniteSets, TLC

CONSTANTS
    Machines,     \* host machines, each with one trust store: the sets of the
                  \* commands that may run there at the same time
    Kinds,        \* what commands do: "pair", "unpair", "identify"
    Permits,      \* MAX_PAIRING_CONNECTIONS: the values tried
    MaxFailures,  \* MAX_PIN_FAILURES
    RateLimit,    \* MAX_PAIRING_ATTEMPTS_PER_IP
    MaxPins,      \* PINs generated in a behaviour
    MaxSecrets,   \* secrets that may exist at the same time
    Unknown,      \* no id yet
    MaxCrashes    \* times the daemon is killed

Commands == UNION Machines
Home(c)  == CHOOSE m \in Machines : c \in m

ASSUME PairingAssumption ==
    /\ \A m, n \in Machines : m = n \/ m \intersect n = {}
    /\ Kinds \subseteq {"pair", "unpair", "identify"}
    /\ Permits \union {MaxFailures, RateLimit} \subseteq Nat \ {0}
    /\ {MaxPins, MaxSecrets, MaxCrashes} \subseteq Nat
    /\ Unknown \notin Commands

None    == 0
Pins    == 1..MaxPins
Wrong   == MaxPins + 1
Secrets == 1..MaxSecrets
Ids     == Commands

VARIABLES
    store,   \* each machine's trust.json: its host id, its secret for the device
    cmd,     \* the commands
    hand,    \* the device's handler of a command's connection, and its messages
    pinFile, \* the PIN in force, or None
    pairs,   \* the secret stored for each host id, or None
    guard,   \* PairingGuard: the PIN failures are counted for, and their number
    permits, \* connections handled at a time
    lock,    \* the commands whose handlers hold commit_lock: at most one
    rate,    \* PairingGuard.per_ip: attempts within the window
    issued, crashes,
    uses,    \* hosts stored with each PIN, in the daemon's life
    tries    \* failed key exchanges with the PIN in force, in the daemon's life,
             \* less those that the counter has forgotten

ghosts  == <<uses, tries>>
counts  == <<issued, crashes>>
hostSide   == <<store, cmd>>
deviceSide == <<pinFile, pairs, guard, permits, lock, rate>>
vars == <<store, cmd, hand, pinFile, pairs, guard, permits, lock, rate, issued,
          crashes, uses, tries>>

AtRest == {"idle", "paired", "done", "failed"}
NoHandler == [at |-> "none", pin |-> None, mail |-> "", typed |-> None,
              id |-> Unknown, secret |-> None, reply |-> ""]
NoStore == [id |-> Unknown, secret |-> None]
Resting(pc, kind) == [pc |-> pc, kind |-> kind, secret |-> None, typed |-> None,
                      copy |-> NoStore]

Init ==
    /\ store = [m \in Machines |-> NoStore]
    /\ cmd = [c \in Commands |-> Resting("idle", "pair")]
    /\ hand = [c \in Commands |-> NoHandler]
    /\ pinFile = None /\ pairs = [i \in Ids |-> None]
    /\ guard = [pin |-> None, failures |-> 0]
    /\ permits \in Permits /\ lock = {} /\ rate = [m \in Machines |-> 0]
    /\ issued = 0 /\ crashes = 0
    /\ uses = [p \in Pins |-> 0] /\ tries = 0

Own(c)     == store[Home(c)]
Gone(c)    == cmd[c].pc \in AtRest
Running(c) == hand[c].at # "none"
Read(c)    == hand' = [hand EXCEPT ![c].reply = ""]

-----------------------------------------------------------------------------
(***************************************************************************)
(* Commands of the host.                                                   *)
(***************************************************************************)
Start(c, kind) ==
    /\ Gone(c) /\ ~Running(c)
    /\ cmd' = [cmd EXCEPT ![c] = Resting(IF kind = "pair" THEN "connect" ELSE "load", kind)]
    /\ Read(c)
    /\ UNCHANGED <<store, deviceSide, counts, ghosts>>

\* PairStart with the id; the handler may be gone, the packet is then lost.
SendStart(c, pin, id) ==
    /\ cmd' = [cmd EXCEPT ![c].pc = "started"]
    /\ hand' = IF hand[c].at = "banner"
                 THEN [hand EXCEPT ![c].mail = "start", ![c].typed = pin, ![c].id = id,
                                   ![c].reply = ""]
                 ELSE hand

\* host_id: the id in the store, or a new one to be saved.  The user has read
\* the PIN off the WebUI and typed it, or mistyped it.
EnterPin(c) ==
    /\ cmd[c].pc = "connect" /\ hand[c].reply = "banner"
    /\ \E pin \in {issued, Wrong} :
          IF Own(c).id # Unknown
            THEN SendStart(c, pin, Own(c).id)
            ELSE /\ cmd' = [cmd EXCEPT ![c].pc = "new id", ![c].typed = pin, ![c].copy = Own(c)]
                 /\ UNCHANGED hand
    /\ UNCHANGED <<store, deviceSide, counts, ghosts>>

\* The server needs the id when a device connects.
Identify(c) ==
    /\ cmd[c].pc = "load" /\ cmd[c].kind = "identify"
    /\ cmd' = [cmd EXCEPT ![c] = IF Own(c).id # Unknown
                                   THEN Resting("done", "identify")
                                   ELSE [@ EXCEPT !.pc = "new id", !.copy = Own(c)]]
    /\ UNCHANGED <<store, hand, deviceSide, counts, ghosts>>

HostIdSaved(c) ==
    /\ cmd[c].pc = "new id"
    /\ store' = [store EXCEPT ![Home(c)] = [cmd[c].copy EXCEPT !.id = c]]
    /\ IF cmd[c].kind = "pair"
         THEN SendStart(c, cmd[c].typed, c)
         ELSE cmd' = [cmd EXCEPT ![c] = Resting("done", "identify")] /\ UNCHANGED hand
    /\ UNCHANGED <<deviceSide, counts, ghosts>>

\* The secrets in a machine's store, in the device's entries for its ids and on
\* their way; those of different machines never meet.
SecretsInUse(m) ==
    {store[m].secret}
      \union UNION {{pairs[c], cmd[c].secret, cmd[c].copy.secret, hand[c].secret} : c \in m}

\* The device's end of the handshake has come: PairCommit with a new secret.
Commit(c) ==
    /\ cmd[c].pc = "started" /\ hand[c].reply = "noise"
    /\ Secrets \ SecretsInUse(Home(c)) # {}
    /\ LET secret == CHOOSE new \in Secrets \ SecretsInUse(Home(c)) : TRUE
       IN  /\ hand' = IF hand[c].at = "secured"
                        THEN [hand EXCEPT ![c].mail = "commit", ![c].secret = secret,
                                          ![c].reply = ""]
                        ELSE hand
           /\ cmd' = [cmd EXCEPT ![c].pc = "committed", ![c].secret = secret]
    /\ UNCHANGED <<store, deviceSide, counts, ghosts>>

\* Saving the device as soon as the commit is sent.
CompletedEarly(c) ==
    /\ cmd[c].pc = "committed"
    /\ cmd' = [cmd EXCEPT ![c].pc = "save", ![c].copy = Own(c)]
    /\ Read(c)
    /\ UNCHANGED <<store, deviceSide, counts, ghosts>>

\* PairComplete arrives: save_device loads the store ...
Completed(c) ==
    /\ cmd[c].pc = "committed" /\ hand[c].reply = "complete"
    /\ cmd' = [cmd EXCEPT ![c].pc = "save", ![c].copy = Own(c)]
    /\ Read(c)
    /\ UNCHANGED <<store, deviceSide, counts, ghosts>>

\* ... and writes it back; so does remove_device.
Save(c) ==
    /\ cmd[c].pc = "save"
    /\ LET pairing == cmd[c].kind = "pair"
       IN  /\ store' = [store EXCEPT ![Home(c)] =
                          [cmd[c].copy EXCEPT !.secret = IF pairing THEN cmd[c].secret ELSE None]]
           /\ cmd' = [cmd EXCEPT ![c] = Resting(IF pairing THEN "paired" ELSE "done", cmd[c].kind)]
    /\ UNCHANGED <<hand, deviceSide, counts, ghosts>>

\* remove_device: the device is looked up, found or not.
Unpair(c) ==
    /\ cmd[c].pc = "load" /\ cmd[c].kind = "unpair"
    /\ cmd' = [cmd EXCEPT ![c] = IF Own(c).secret = None
                                   THEN Resting("failed", "unpair")
                                   ELSE [@ EXCEPT !.pc = "save", !.copy = Own(c)]]
    /\ UNCHANGED <<store, hand, deviceSide, counts, ghosts>>

\* A read that meets the end of the connection, or pairing is not enabled.
HostFails(c) ==
    /\ \/ cmd[c].pc = "connect" /\ hand[c].reply \in {"unavailable", "closed"}
       \/ cmd[c].pc \in {"started", "committed"} /\ hand[c].reply = "closed"
    /\ cmd' = [cmd EXCEPT ![c] = Resting("failed", "pair")]
    /\ Read(c)
    /\ UNCHANGED <<store, deviceSide, counts, ghosts>>

\* The user stops `sidewire pair`, or its link to the device is lost.
HostStops(c) ==
    /\ cmd[c].kind = "pair" /\ cmd[c].pc \in {"connect", "started", "committed"}
    /\ cmd' = [cmd EXCEPT ![c] = Resting("failed", "pair")]
    /\ Read(c)
    /\ UNCHANGED <<store, deviceSide, counts, ghosts>>

-----------------------------------------------------------------------------
(***************************************************************************)
(* The PIN file and the listener.                                          *)
(***************************************************************************)
PinBecomes(pin) == pinFile' = pin /\ tries' = 0

\* sidewirectl pair: sixty seconds of a new PIN.
GeneratePin ==
    /\ issued < MaxPins
    /\ issued' = issued + 1 /\ PinBecomes(issued + 1)
    /\ UNCHANGED <<hostSide, permits, hand, pairs, guard, lock, rate, crashes, uses>>

\* pairing_pin answers None from now on.
PinExpires ==
    /\ pinFile # None /\ PinBecomes(None)
    /\ UNCHANGED <<hostSide, permits, hand, pairs, guard, lock, rate, counts, uses>>

\* The oldest attempt leaves the rate window; while the limit is not reached it
\* makes no difference when.
WindowMoves(m) ==
    /\ rate[m] = RateLimit /\ rate' = [rate EXCEPT ![m] = @ - 1]
    /\ UNCHANGED <<hostSide, permits, hand, pinFile, pairs, guard, lock, counts, ghosts>>

Handlers == {c \in Commands : Running(c)}
Knocks(c) == cmd[c].pc = "connect" /\ hand[c].reply = "" /\ ~Running(c)
Free      == Cardinality(Handlers) < permits

\* run_pairing_listener drops the connection: too many from this address, or
\* too many at once (which still counts for the address).
Refuse(c) ==
    /\ Knocks(c)
    /\ \/ rate[Home(c)] >= RateLimit /\ UNCHANGED rate
       \/ /\ rate[Home(c)] < RateLimit /\ ~Free
          /\ rate' = [rate EXCEPT ![Home(c)] = @ + 1]
    /\ hand' = [hand EXCEPT ![c].reply = "closed"]
    /\ UNCHANGED <<hostSide, permits, pinFile, pairs, guard, lock, counts, ghosts>>

\* A handler starts: it reads the PIN and sends the banner.
Accept(c) ==
    /\ Knocks(c) /\ rate[Home(c)] < RateLimit /\ Free
    /\ rate' = [rate EXCEPT ![Home(c)] = @ + 1]
    /\ hand' = [hand EXCEPT ![c] =
                  IF pinFile = None
                    THEN [NoHandler EXCEPT !.at = "failed", !.reply = "unavailable"]
                    ELSE [NoHandler EXCEPT !.at = "banner", !.pin = pinFile, !.reply = "banner"]]
    /\ UNCHANGED <<hostSide, permits, pinFile, pairs, guard, lock, counts, ghosts>>

-----------------------------------------------------------------------------
(***************************************************************************)
(* handle_pair_connection.                                                 *)
(***************************************************************************)
IfHeard(c, reply) == IF Gone(c) THEN "" ELSE reply

\* The handler returns an error: the stream is dropped, the lock released.
Fail(c) ==
    /\ hand' = [hand EXCEPT ![c] = [NoHandler EXCEPT !.at = "failed", !.reply = IfHeard(c, "closed")]]
    /\ lock' = lock \ {c}

\* PairStart: the reply, the key exchange and the Noise handshake.
Exchange(c) ==
    /\ hand[c].at = "banner" /\ hand[c].mail = "start"
    /\ IF hand[c].typed = hand[c].pin
         THEN /\ hand' = [hand EXCEPT ![c].at = "secured", ![c].mail = "", ![c].typed = None,
                                        ![c].reply = "noise"]
              /\ UNCHANGED <<lock, tries>>
         ELSE /\ Fail(c)
              /\ tries' = IF hand[c].pin = pinFile THEN tries + 1 ELSE tries
    /\ UNCHANGED <<hostSide, permits, pinFile, pairs, guard, rate, counts, uses>>

\* store_paired_host under the commit lock, if the PIN is in force.
StoreIf(c, inForce) ==
    /\ hand[c].at = "secured" /\ hand[c].mail = "commit"
    /\ IF inForce
         THEN /\ hand' = [hand EXCEPT ![c].at = "stored", ![c].mail = "", ![c].pin = None,
                                     ![c].id = Unknown, ![c].secret = None]
              /\ lock' = lock \union {c}
              /\ pairs' = [pairs EXCEPT ![hand[c].id] = hand[c].secret]
              /\ uses' = [uses EXCEPT ![hand[c].pin] = @ + 1]
         ELSE Fail(c) /\ UNCHANGED <<pairs, uses>>
    /\ UNCHANGED <<hostSide, permits, pinFile, guard, rate, counts, tries>>

\* Without the lock's exclusion.
StoreUnlocked(c) == StoreIf(c, pinFile = hand[c].pin)

\* Trusting the PIN that was read before the handshake.
StoreUnchecked(c) == lock = {} /\ StoreIf(c, TRUE)

\* PairCommit: the handler waits for the commit lock, looks whether its PIN is
\* still the one in force, and stores the host.
StorePairedHost(c) == lock = {} /\ StoreIf(c, pinFile = hand[c].pin)

\* The PIN file is removed, whatever is in it by now.
RemovePin(c) ==
    /\ hand[c].at = "stored"
    /\ hand' = [hand EXCEPT ![c].at = "removed"]
    /\ PinBecomes(None)
    /\ UNCHANGED <<hostSide, permits, pairs, guard, lock, rate, counts, uses>>

\* PairComplete is sent, and the lock released; the write may fail.
SendComplete(c) ==
    /\ hand[c].at = "removed"
    /\ \/ /\ hand' = [hand EXCEPT ![c].at = "paired", ![c].reply = IfHeard(c, "complete")]
          /\ lock' = lock \ {c}
       \/ Gone(c) /\ Fail(c)
    /\ UNCHANGED <<hostSide, permits, pinFile, pairs, guard, rate, counts, ghosts>>

\* A read that meets the end of the host's connection.
HandlerHangsUp(c) ==
    /\ hand[c].at \in {"banner", "secured"} /\ Gone(c)
    /\ Fail(c)
    /\ UNCHANGED <<hostSide, permits, pinFile, pairs, guard, rate, counts, ghosts>>

\* The sixty-five seconds are over at one of the handler's awaits.
Expire(c) ==
    /\ hand[c].at \in {"banner", "secured", "removed"}
    /\ Fail(c)
    /\ UNCHANGED <<hostSide, permits, pinFile, pairs, guard, rate, counts, ghosts>>

-----------------------------------------------------------------------------
(***************************************************************************)
(* What run_pairing_listener does with the result.                         *)
(***************************************************************************)
End(c) == hand' = [hand EXCEPT ![c] = [NoHandler EXCEPT !.reply = hand[c].reply]]

\* Failures counted for the PIN in force that a change of the counter forgets.
Forgotten(newPin) ==
    IF guard.pin # None /\ guard.pin = pinFile /\ newPin # guard.pin THEN guard.failures ELSE 0

\* clear_success.
ClearSuccess(c) ==
    /\ hand[c].at = "paired"
    /\ End(c)
    /\ tries' = tries - Forgotten(None)
    /\ guard' = [pin |-> None, failures |-> 0]
    /\ UNCHANGED <<hostSide, permits, pinFile, pairs, lock, rate, counts, uses>>

\* record_pair_failure reads the PIN that is in force now ...
ReadForCount(c) ==
    /\ hand[c].at = "failed"
    /\ IF pinFile = None THEN End(c)
                         ELSE hand' = [hand EXCEPT ![c].at = "counting", ![c].pin = pinFile]
    /\ UNCHANGED <<hostSide, deviceSide, counts, ghosts>>

\* Counting on, whichever PIN the count was for, and forgetting to remove it.
CountFailureOnly(c) ==
    /\ hand[c].at = "counting"
    /\ End(c)
    /\ guard' = [pin |-> hand[c].pin, failures |-> guard.failures + 1]
    /\ UNCHANGED <<hostSide, permits, pinFile, pairs, lock, rate, counts, ghosts>>

\* ... and counts the failure against it; the last one removes the PIN.
CountFailure(c) ==
    /\ hand[c].at = "counting"
    /\ End(c)
    /\ LET failures == 1 + (IF guard.pin = hand[c].pin THEN guard.failures ELSE 0)
       IN  IF failures >= MaxFailures
             THEN PinBecomes(None) /\ guard' = [pin |-> None, failures |-> 0]
             ELSE /\ guard' = [pin |-> hand[c].pin, failures |-> failures]
                  /\ tries' = tries - Forgotten(hand[c].pin)
                  /\ UNCHANGED pinFile
    /\ UNCHANGED <<hostSide, permits, pairs, lock, rate, counts, uses>>

\* The daemon is killed and started again.  What is on disk stays.
Crash ==
    /\ crashes < MaxCrashes /\ crashes' = crashes + 1
    /\ hand' = [c \in Commands |->
                  [NoHandler EXCEPT !.reply = IF hand[c].reply = "complete"
                                                THEN "complete" ELSE IfHeard(c, "closed")]]
    /\ guard' = [pin |-> None, failures |-> 0]
    /\ lock' = {} /\ rate' = [m \in Machines |-> 0]
    /\ uses' = [p \in Pins |-> 0] /\ tries' = 0
    /\ UNCHANGED <<hostSide, permits, pinFile, pairs, issued>>

-----------------------------------------------------------------------------
Command(c) == Identify(c) \/ HostIdSaved(c) \/ Commit(c) \/ Completed(c) \/ Save(c)
                \/ Unpair(c) \/ HostFails(c)
Listener(c) == Refuse(c) \/ Accept(c)
Handler(c) == Exchange(c) \/ StorePairedHost(c) \/ RemovePin(c)
                \/ SendComplete(c) \/ HandlerHangsUp(c) \/ Expire(c)
                \/ ClearSuccess(c) \/ ReadForCount(c) \/ CountFailure(c)
User(c) == (\E kind \in Kinds : Start(c, kind)) \/ EnterPin(c) \/ HostStops(c)

\* Machines are alike.
Symmetry == Permutations(Commands)

Next ==
    \/ \E c \in Commands : Command(c) \/ Listener(c) \/ Handler(c) \/ User(c)
    \/ \E m \in Machines : WindowMoves(m)
    \/ GeneratePin \/ PinExpires \/ Crash

Spec == Init /\ [][Next]_vars
-----------------------------------------------------------------------------
(***************************************************************************)
(* Correctness.                                                            *)
(***************************************************************************)
OrNone(S) == S \union {None}
Stores == [id : Ids \union {Unknown}, secret : OrNone(Secrets)]

\* Types, and the limits the code keeps: one holder of the commit lock, no
\* more handlers than permits, and a counter that never shows the last failure.
TypeOK ==
    /\ store \in [Machines -> Stores]
    /\ cmd \in [Commands -> [pc : AtRest \union {"connect", "load", "new id", "started",
                                                "committed", "save"},
                              kind : Kinds \union {"pair"}, secret : OrNone(Secrets),
                              typed : 0..Wrong, copy : Stores]]
    /\ hand \in [Commands -> [at : {"none", "banner", "secured", "stored",
                                    "removed", "paired", "failed", "counting"},
                               pin : OrNone(Pins), mail : {"", "start", "commit"},
                               typed : 0..Wrong, id : Ids \union {Unknown}, secret : OrNone(Secrets),
                               reply : {"", "unavailable", "banner", "noise", "complete", "closed"}]]
    /\ pinFile \in OrNone(Pins) /\ pairs \in [Ids -> OrNone(Secrets)]
    /\ guard \in [pin : OrNone(Pins), failures : 0..(MaxFailures - 1)]
    /\ lock \subseteq Commands /\ Cardinality(lock) <= 1
    /\ Cardinality(Handlers) <= permits
    /\ rate \in [Machines -> 0..RateLimit]

\* "one-time PIN pairing" (README.md:22): however many hosts know a PIN and
\* finish their handshakes together, one of them is stored.  (A daemon killed
\* between storing a host and removing the PIN file starts with the PIN still
\* in force: the count is of one life of the daemon.)
PinUsedOnce == \A p \in Pins : uses[p] <= 1

\* The failure counter limits the key exchanges that can be tried with one PIN
\* although a failure is counted after the fact, by another task, against the
\* PIN in force by then: the limit, and one more for every other handler that
\* was already under way, and those the counter forgot because a late success
\* or a late failure of an older PIN started it again.
GuessLimit == tries <= MaxFailures + (permits - 1)

\* "Paired with ... Future secure connections are automatic." (pairing.rs:124):
\* with every command of a machine at rest, one of them paired and none
\* failed or undone, the machine's id and secret are the ones the device has.
PairedIsAutomatic ==
    \A m \in Machines :
        (/\ \E c \in m : cmd[c].pc = "paired"
         /\ \A c \in m : \/ cmd[c].pc \in {"idle", "paired"}
                         \/ cmd[c].pc = "done" /\ cmd[c].kind = "identify")
        => /\ store[m].id # Unknown /\ store[m].secret # None
           /\ pairs[store[m].id] = store[m].secret

=============================================================================
