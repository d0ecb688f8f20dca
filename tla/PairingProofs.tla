----------------------------- MODULE PairingProofs -----------------------------
(***************************************************************************)
(* For any number of machines, commands and permits: a PIN pairs one host, *)
(* and can be guessed a limited number of times; with one command of a     *)
(* machine at a time, a pairing that is reported works at both ends.       *)
(***************************************************************************)
EXTENDS Pairing, FiniteSetTheorems, TLAPS

Holds(c) == hand[c].at = "stored" /\ c \in lock

(***************************************************************************)
(* A PIN that was used and is still in force has a handler that stored its *)
(* host, holds the commit lock, and goes on to remove the PIN; a new PIN   *)
(* is one that was never used.                                             *)
(***************************************************************************)
Inv ==
    /\ DOMAIN hand = Commands /\ uses \in [Pins -> {0, 1}]
    /\ issued \in Nat /\ pinFile \in 0..issued
    /\ \A c \in Commands : DOMAIN hand[c] = DOMAIN NoHandler
    /\ \A c \in Commands : hand[c].at = "stored" => c \in lock
    /\ \A p \in Pins : uses[p] = 1 =>
          p <= issued /\ (pinFile = p => \E c \in Commands : Holds(c))

\* A step in which nobody is stored and nobody leaves "stored".
Keeps ==
    /\ UNCHANGED <<uses, issued>> /\ (pinFile' = pinFile \/ pinFile' = None)
    /\ DOMAIN hand' = Commands /\ (\A c \in Commands : DOMAIN hand'[c] = DOMAIN NoHandler)
    /\ \A c \in Commands : hand'[c].at = "stored" <=> hand[c].at = "stored"
    /\ \A c \in lock : hand[c].at = "stored" => c \in lock'

LEMMA KeepsInv == ASSUME Inv, Keeps PROVE Inv'
<1>1. \A p \in Pins : p # None
  BY DEF Pins, None
<1>2. pinFile' \in 0..issued'
  BY DEF Inv, Keeps, None
<1> QED
  BY <1>1, <1>2 DEF Inv, Keeps, Holds

LEMMA CommandKeeps ==
  ASSUME Inv, NEW c \in Commands, Command(c) \/ User(c) PROVE Keeps
<1> USE DEF Inv, Keeps, NoHandler
<1>1. CASE UNCHANGED <<hand, deviceSide, counts, ghosts>>
  BY <1>1 DEF deviceSide, counts, ghosts
<1>2. CASE Read(c) /\ UNCHANGED <<deviceSide, counts, ghosts>>
  BY <1>2 DEF deviceSide, counts, ghosts, Read
<1>3. ASSUME NEW pin, NEW id, SendStart(c, pin, id), UNCHANGED <<deviceSide, counts, ghosts>>
      PROVE  Keeps
  BY <1>3 DEF SendStart, deviceSide, counts, ghosts
<1>4. CASE Commit(c)
  BY <1>4 DEF Commit, deviceSide, counts, ghosts
<1>5. CASE EnterPin(c)
  BY <1>1, <1>3, <1>5 DEF EnterPin
<1>6. CASE HostIdSaved(c)
  BY <1>1, <1>3, <1>6 DEF HostIdSaved
<1> QED
  BY <1>1, <1>2, <1>4, <1>5, <1>6
     DEF Command, User, Identify, Completed, Save, Unpair, HostFails, Start, HostStops

\* A handler that gives up has not stored a host, or has removed the PIN since.
LEMMA FailKeeps ==
  ASSUME Inv, NEW c \in Commands, hand[c].at # "stored", Fail(c),
         UNCHANGED <<uses, issued, pinFile>>
  PROVE  Keeps
  BY DEF Inv, Keeps, Fail, NoHandler

LEMMA EndKeeps ==
  ASSUME Inv, NEW c \in Commands, hand[c].at # "stored", End(c),
         UNCHANGED <<uses, issued, lock>>, pinFile' = pinFile \/ pinFile' = None
  PROVE  Keeps
  BY DEF Inv, Keeps, End, NoHandler

LEMMA HandlerKeeps ==
  ASSUME Inv, NEW c \in Commands, Listener(c) \/ Handler(c),
         ~StorePairedHost(c), ~RemovePin(c)
  PROVE  Keeps
<1>1. CASE Refuse(c)
  BY <1>1 DEF Refuse, Inv, Keeps, NoHandler, counts, ghosts
<1>2. CASE Accept(c)
  <2>1. hand[c].at = "none"
    BY <1>2 DEF Accept, Knocks, Running
  <2>2. /\ UNCHANGED <<pinFile, lock, issued, uses>> /\ DOMAIN hand' = Commands
        /\ \A d \in Commands : d # c => hand'[d] = hand[d]
        /\ hand'[c].at \in {"failed", "banner"} /\ DOMAIN hand'[c] = DOMAIN NoHandler
    BY <1>2 DEF Accept, NoHandler, counts, ghosts, Inv
  <2> QED
    BY <2>1, <2>2 DEF Inv, Keeps
<1>3. CASE Exchange(c)
  <2>1. CASE hand[c].typed = hand[c].pin
    <3>1. /\ hand[c].at = "banner" /\ UNCHANGED <<pinFile, lock, issued, uses>>
          /\ hand' = [hand EXCEPT ![c].at = "secured", ![c].mail = "", ![c].typed = None,
                                  ![c].reply = "noise"]
      BY <1>3, <2>1 DEF Exchange, counts
    <3>2. /\ DOMAIN hand' = Commands /\ \A d \in Commands : d # c => hand'[d] = hand[d]
          /\ hand'[c].at = "secured" /\ DOMAIN hand'[c] = DOMAIN NoHandler
      BY <3>1 DEF Inv, NoHandler
    <3> QED
      BY <3>1, <3>2 DEF Inv, Keeps
  <2>2. CASE hand[c].typed # hand[c].pin
    <3>1. Fail(c) /\ UNCHANGED <<uses, issued, pinFile>> /\ hand[c].at # "stored"
      BY <1>3, <2>2 DEF Exchange, counts
    <3> QED
      BY <3>1, FailKeeps
  <2> QED
    BY <2>1, <2>2
<1>4. CASE SendComplete(c)
  <2>1. hand[c].at # "stored" /\ UNCHANGED <<uses, issued, pinFile>>
    BY <1>4 DEF SendComplete, counts, ghosts
  <2>2. CASE Fail(c)
    BY <2>1, <2>2, FailKeeps
  <2>3. CASE /\ hand' = [hand EXCEPT ![c].at = "paired", ![c].reply = IfHeard(c, "complete")]
             /\ lock' = lock \ {c}
    BY <2>1, <2>3 DEF Inv, Keeps, NoHandler
  <2> QED
    BY <1>4, <2>2, <2>3 DEF SendComplete
<1>5. CASE HandlerHangsUp(c)
  BY <1>5, FailKeeps DEF HandlerHangsUp, counts, ghosts
<1>6. CASE Expire(c)
  BY <1>6, FailKeeps DEF Expire, counts, ghosts
<1>7. CASE ClearSuccess(c)
  BY <1>7, EndKeeps DEF ClearSuccess, counts
<1>8. CASE ReadForCount(c)
  <2>1. hand[c].at = "failed" /\ UNCHANGED <<uses, issued, pinFile, lock>>
    BY <1>8 DEF ReadForCount, deviceSide, counts, ghosts
  <2>2. CASE End(c)
    BY <2>1, <2>2, EndKeeps
  <2>3. CASE hand' = [hand EXCEPT ![c].at = "counting", ![c].pin = pinFile]
    BY <2>1, <2>3 DEF Inv, Keeps, NoHandler
  <2> QED
    BY <1>8, <2>2, <2>3 DEF ReadForCount
<1>9. CASE CountFailure(c)
  <2>1. /\ hand[c].at = "counting" /\ End(c) /\ UNCHANGED <<uses, issued, lock>>
        /\ pinFile' = pinFile \/ pinFile' = None
    BY <1>9 DEF CountFailure, PinBecomes, counts
  <2> QED
    BY <2>1, EndKeeps
<1> QED
  BY <1>1, <1>2, <1>3, <1>4, <1>5, <1>6, <1>7, <1>8, <1>9 DEF Listener, Handler

-----------------------------------------------------------------------------
LEMMA Initially == Init => Inv
<1> SUFFICES ASSUME Init PROVE Inv
  OBVIOUS
<1>1. NoHandler.at = "none"
  BY DEF NoHandler
<1>2. /\ DOMAIN hand = Commands /\ \A c \in Commands : hand[c] = NoHandler
      /\ issued = 0 /\ pinFile = 0
  BY DEF Init, None
<1>3. uses \in [Pins -> {0, 1}] /\ \A p \in Pins : uses[p] = 0
  BY DEF Init
<1> QED
  BY <1>1, <1>2, <1>3 DEF Inv

LEMMA Preserved == Inv /\ [Next]_vars => Inv'
<1> SUFFICES ASSUME Inv, [Next]_vars PROVE Inv'
  OBVIOUS
<1>1. ASSUME NEW c \in Commands, StorePairedHost(c) PROVE Inv'
  <2>1. hand[c].at = "secured" /\ lock = {} /\ UNCHANGED <<issued, pinFile>>
    BY <1>1 DEF StorePairedHost, StoreIf, counts
  <2>2. \A p \in Pins : uses[p] = 1 => pinFile # p
    BY <2>1 DEF Inv, Holds
  <2>3. CASE Fail(c) /\ UNCHANGED uses
    BY <2>1, <2>3, FailKeeps, KeepsInv
  <2>4. CASE /\ pinFile = hand[c].pin /\ lock' = lock \union {c}
             /\ hand' = [hand EXCEPT ![c].at = "stored", ![c].mail = "", ![c].pin = None,
                                     ![c].id = Unknown, ![c].secret = None]
             /\ uses' = [uses EXCEPT ![hand[c].pin] = @ + 1]
    <3>1. /\ DOMAIN hand' = Commands /\ (\A d \in Commands : DOMAIN hand'[d] = DOMAIN NoHandler)
          /\ hand'[c].at = "stored" /\ \A d \in Commands : d # c => hand'[d] = hand[d]
      BY <2>4 DEF Inv, NoHandler
    <3>2. uses' \in [Pins -> {0, 1}] /\ \A p \in Pins : p # pinFile => uses'[p] = uses[p]
      <4>1. DOMAIN uses' = Pins
        BY <2>4 DEF Inv
      <4>2. \A p \in Pins : uses'[p] = IF p = pinFile THEN 1 ELSE uses[p]
        <5>1. uses' = [uses EXCEPT ![pinFile] = uses[pinFile] + 1]
          BY <2>4
        <5>2. \A p \in Pins : uses[p] \in {0, 1}
          BY DEF Inv
        <5>3. DOMAIN uses = Pins
          BY DEF Inv
        <5> HIDE DEF Inv
        <5>4. pinFile \in Pins => uses[pinFile] = 0
          BY <2>2, <5>2
        <5>5. pinFile \in Pins => uses[pinFile] + 1 = 1
          BY <5>4
        <5> QED
          BY <5>1, <5>3, <5>5
      <4>3. \A p \in Pins : uses'[p] \in {0, 1}
        BY <4>2 DEF Inv
      <4>4. uses' = [p \in Pins |-> uses'[p]]
        BY <2>4, <4>1 DEF Inv
      <4> QED
        BY <4>2, <4>3, <4>4
    <3>3. Holds(c)'
      BY <2>4, <3>1 DEF Holds
    <3>4. \A p \in Pins : p = pinFile => p <= issued
      BY DEF Inv
    <3> QED
      BY <2>1, <2>4, <3>1, <3>2, <3>3, <3>4 DEF Inv, Holds
  <2> QED
    BY <1>1, <2>3, <2>4 DEF StorePairedHost, StoreIf
<1>2. ASSUME NEW c \in Commands, RemovePin(c) PROVE Inv'
  <2>1. /\ UNCHANGED <<issued, lock, uses>> /\ pinFile' = None
        /\ hand' = [hand EXCEPT ![c].at = "removed"]
    BY <1>2 DEF RemovePin, PinBecomes, counts
  <2>2. /\ DOMAIN hand' = Commands /\ (\A d \in Commands : DOMAIN hand'[d] = DOMAIN NoHandler)
        /\ hand'[c].at = "removed" /\ \A d \in Commands : d # c => hand'[d] = hand[d]
    BY <2>1 DEF Inv, NoHandler
  <2> QED
    BY <2>1, <2>2 DEF Inv, None, Pins
<1>3. ASSUME NEW c \in Commands, Command(c) \/ User(c) PROVE Inv'
  BY <1>3, CommandKeeps, KeepsInv
<1>4. ASSUME NEW c \in Commands, Listener(c) \/ Handler(c) PROVE Inv'
  BY <1>1, <1>2, <1>4, HandlerKeeps, KeepsInv
<1>5. ASSUME NEW m \in Machines, WindowMoves(m) PROVE Inv'
  BY <1>5, KeepsInv DEF WindowMoves, counts, ghosts, Inv, Keeps
<1>6. CASE GeneratePin
  <2>1. /\ issued' = issued + 1 /\ pinFile' = issued + 1
        /\ UNCHANGED <<hand, lock, uses>>
    BY <1>6 DEF GeneratePin, PinBecomes
  <2>2. \A p \in Pins : uses[p] = 1 => p <= issued' /\ p # pinFile'
    BY <2>1 DEF Inv, Pins
  <2> QED
    BY <2>1, <2>2 DEF Inv
<1>7. CASE PinExpires
  BY <1>7, KeepsInv DEF PinExpires, PinBecomes, counts, Inv, Keeps
<1>8. CASE Crash
  <2>1. /\ DOMAIN hand' = Commands /\ UNCHANGED <<issued, pinFile>>
        /\ \A c \in Commands : DOMAIN hand'[c] = DOMAIN NoHandler /\ hand'[c].at = "none"
        /\ uses' = [p \in Pins |-> 0]
    BY <1>8 DEF Crash, NoHandler
  <2> QED
    BY <2>1 DEF Inv
<1>9. CASE UNCHANGED vars
  BY <1>9, KeepsInv DEF vars, Inv, Keeps
<1> QED
  BY <1>3, <1>4, <1>5, <1>6, <1>7, <1>8, <1>9 DEF Next

-----------------------------------------------------------------------------
\* A PIN pairs one host in a life of the daemon, for any number of hosts that
\* finish the key exchange together: the PIN is compared and the host stored
\* under a lock that is kept until the PIN is removed (handle_pair_connection).
THEOREM OnePerPin == Spec => []PinUsedOnce
<1>1. Inv => PinUsedOnce
  BY DEF Inv, PinUsedOnce
<1> QED
  BY <1>1, Initially, Preserved, PTL DEF Spec
-----------------------------------------------------------------------------
(***************************************************************************)
(* How often a PIN can be guessed.  A failed key exchange with the PIN in  *)
(* force is in the counter, or its handler has still to count it; handlers *)
(* are no more than the permits, and the counter never shows the last      *)
(* failure it allows.                                                      *)
(***************************************************************************)
ToCount(c) == hand[c].at = "failed" \/ (hand[c].at = "counting" /\ hand[c].pin = pinFile)
Uncounted  == {c \in Commands : ToCount(c)}
Counted    == IF guard.pin = pinFile THEN guard.failures ELSE 0

HandlersOK == permits \in Permits /\ IsFiniteSet(Handlers) /\ Cardinality(Handlers) <= permits
CounterOK  == guard.failures \in 0..(MaxFailures - 1)
BannersOK  == \A c \in Commands : hand[c].at = "banner" => hand[c].pin # None
GuessesOK ==
    /\ tries \in Int /\ (pinFile = None => tries <= 0)
    /\ tries <= Counted + Cardinality(Uncounted)

GuessInv == HandlersOK /\ CounterOK /\ BannersOK /\ GuessesOK

LEMMA Limits == MaxFailures \in Nat \ {0} /\ \A n \in Permits : n \in Nat \ {0}
BY PairingAssumption

FewUncounted ==
    /\ IsFiniteSet(Uncounted) /\ Cardinality(Uncounted) \in Nat
    /\ Cardinality(Uncounted) <= Cardinality(Handlers)

LEMMA UncountedFinite == HandlersOK => FewUncounted
<1>1. Uncounted \in SUBSET Handlers
  BY DEF Uncounted, ToCount, Handlers, Running
<1> QED
  BY <1>1, FS_Subset, FS_CardinalityType DEF HandlersOK, FewUncounted

LEMMA UncountedFiniteNext == HandlersOK' => FewUncounted'
BY UncountedFinite, PTL

\* Every step but Accept: no handler is added.
LEMMA HandlersKept ==
  ASSUME HandlersOK, UNCHANGED permits, Handlers' \subseteq Handlers
  PROVE  HandlersOK'
<1>1. IsFiniteSet(Handlers') /\ Cardinality(Handlers') <= Cardinality(Handlers)
  BY FS_Subset DEF HandlersOK
<1>2. Cardinality(Handlers') \in Nat /\ Cardinality(Handlers) \in Nat /\ permits \in Nat
  BY <1>1, FS_CardinalityType, Limits DEF HandlersOK
<1> QED
  BY <1>1, <1>2 DEF HandlersOK

\* A step that leaves the counter and the PIN alone, and forgets no failure.
LEMMA GuessesKept ==
  ASSUME HandlersOK, HandlersOK', CounterOK, GuessesOK, Uncounted \subseteq Uncounted',
         UNCHANGED <<guard, pinFile, tries>>
  PROVE  GuessesOK'
<1>1. /\ IsFiniteSet(Uncounted') /\ Cardinality(Uncounted') \in Nat
      /\ Cardinality(Uncounted) \in Nat
  BY UncountedFinite, UncountedFiniteNext DEF FewUncounted
<1>2. Cardinality(Uncounted) <= Cardinality(Uncounted')
  BY <1>1, FS_Subset
<1>3. Counted' = Counted /\ Counted \in Int
  BY DEF Counted, CounterOK
<1> QED
  BY <1>1, <1>2, <1>3 DEF GuessesOK

\* A step that puts another PIN, or none, into force.
LEMMA GuessesForgotten ==
  ASSUME HandlersOK', CounterOK', tries' = 0
  PROVE  GuessesOK'
<1>1. Cardinality(Uncounted') \in Nat
  BY UncountedFiniteNext DEF FewUncounted
<1>2. Counted' \in Nat
  BY DEF Counted, CounterOK
<1> QED
  BY <1>1, <1>2 DEF GuessesOK

LEMMA CommandGuesses ==
  ASSUME Inv, GuessInv, NEW c \in Commands, Command(c) \/ User(c) PROVE GuessInv'
<1>1. /\ \A d \in Commands : hand'[d].at = hand[d].at /\ hand'[d].pin = hand[d].pin
      /\ UNCHANGED <<permits, guard, pinFile, tries>>
  <2> USE DEF Inv, NoHandler, deviceSide, ghosts
  <2>1. CASE UNCHANGED <<hand, deviceSide, counts, ghosts>>
    BY <2>1
  <2>2. CASE Read(c) /\ UNCHANGED <<deviceSide, counts, ghosts>>
    BY <2>2 DEF Read
  <2>3. ASSUME NEW pin, NEW id, SendStart(c, pin, id), UNCHANGED <<deviceSide, counts, ghosts>>
        PROVE  <1>1!1 /\ <1>1!2
    BY <2>3 DEF SendStart
  <2>4. CASE Commit(c)
    BY <2>4 DEF Commit
  <2>5. CASE EnterPin(c)
    BY <2>1, <2>3, <2>5 DEF EnterPin
  <2>6. CASE HostIdSaved(c)
    BY <2>1, <2>3, <2>6 DEF HostIdSaved
  <2> QED
    BY <2>1, <2>2, <2>4, <2>5, <2>6
       DEF Command, User, Identify, Completed, Save, Unpair, HostFails, Start, HostStops
<1>2. Handlers' = Handlers /\ Uncounted' = Uncounted
  BY <1>1 DEF Handlers, Running, Uncounted, ToCount
<1> QED
  BY <1>1, <1>2, HandlersKept, GuessesKept DEF GuessInv, CounterOK, BannersOK
\* A handler that gives up has its failure to count.
LEMMA FailGuesses ==
  ASSUME Inv, GuessInv, NEW c \in Handlers, Fail(c),
         UNCHANGED <<permits, guard, pinFile, tries>>
  PROVE  GuessInv'
<1>1. /\ c \in Commands /\ hand'[c].at = "failed" /\ pinFile' = pinFile
      /\ \A d \in Commands : d # c => hand'[d] = hand[d]
  BY DEF Fail, NoHandler, Handlers, Inv
<1>2. Handlers' \subseteq Handlers
  BY <1>1 DEF Handlers, Running
<1>3. Uncounted \subseteq Uncounted'
  <2>1. ToCount(c)' /\ \A d \in Commands : d # c /\ ToCount(d) => ToCount(d)'
    BY <1>1 DEF ToCount
  <2> QED
    BY <2>1 DEF Uncounted
<1> QED
  BY <1>1, <1>2, <1>3, HandlersKept, GuessesKept DEF GuessInv, CounterOK, BannersOK

\* A handler that goes on, before it fails.
LEMMA StepGuesses ==
  ASSUME Inv, GuessInv, NEW c \in Handlers, hand[c].at \notin {"failed", "counting"},
         hand'[c].at # "banner", \A d \in Commands : d # c => hand'[d] = hand[d],
         UNCHANGED <<permits, guard, pinFile, tries>>
  PROVE  GuessInv'
<1>1. Handlers' \subseteq Handlers /\ Uncounted \subseteq Uncounted'
  BY DEF Handlers, Running, Uncounted, ToCount
<1> QED
  BY <1>1, HandlersKept, GuessesKept DEF GuessInv, CounterOK, BannersOK

LEMMA ListenerGuesses ==
  ASSUME Inv, GuessInv, NEW c \in Commands, Listener(c) PROVE GuessInv'
<1>1. CASE Refuse(c)
  <2>1. /\ \A d \in Commands : hand'[d].at = hand[d].at /\ hand'[d].pin = hand[d].pin
        /\ UNCHANGED <<permits, guard, pinFile, tries>>
    BY <1>1 DEF Refuse, Inv, NoHandler, ghosts
  <2>2. Handlers' = Handlers /\ Uncounted' = Uncounted
    BY <2>1 DEF Handlers, Running, Uncounted, ToCount
  <2> QED
    BY <2>1, <2>2, HandlersKept, GuessesKept DEF GuessInv, CounterOK, BannersOK
<1>2. CASE Accept(c)
  <2>1. /\ c \notin Handlers /\ Cardinality(Handlers) < permits
        /\ UNCHANGED <<permits, guard, pinFile, tries>>
    BY <1>2 DEF Accept, Knocks, Handlers, Free, ghosts
  <2>2. /\ \A d \in Commands : d # c => hand'[d] = hand[d]
        /\ \/ hand'[c].at = "failed"
           \/ hand'[c].at = "banner" /\ hand'[c].pin # None
    BY <1>2 DEF Accept, NoHandler, Inv
  <2>3. Handlers' = Handlers \union {c} /\ Uncounted \subseteq Uncounted'
    BY <2>1, <2>2 DEF Handlers, Running, Uncounted, ToCount
  <2>4. HandlersOK'
    <3>1. IsFiniteSet(Handlers') /\ Cardinality(Handlers') = Cardinality(Handlers) + 1
      BY <2>1, <2>3, FS_AddElement DEF GuessInv, HandlersOK
    <3>2. Cardinality(Handlers) \in Nat /\ permits \in Nat
      BY FS_CardinalityType, Limits DEF GuessInv, HandlersOK
    <3> QED
      BY <2>1, <3>1, <3>2 DEF GuessInv, HandlersOK
  <2> QED
    BY <2>1, <2>2, <2>3, <2>4, GuessesKept DEF GuessInv, CounterOK, BannersOK
<1> QED
  BY <1>1, <1>2 DEF Listener

LEMMA ExchangeGuesses ==
  ASSUME Inv, GuessInv, NEW c \in Commands, Exchange(c) PROVE GuessInv'
<1>1. /\ c \in Handlers /\ hand[c].at = "banner" /\ UNCHANGED <<permits, guard, pinFile>>
  BY DEF Exchange, Handlers, Running
<1>2. CASE hand[c].typed = hand[c].pin
  <2>1. UNCHANGED tries /\ hand'[c].at = "secured" /\ \A d \in Commands : d # c => hand'[d] = hand[d]
    <3>1. /\ hand' = [hand EXCEPT ![c].at = "secured", ![c].mail = "", ![c].typed = None,
                                  ![c].reply = "noise"]
          /\ UNCHANGED tries
      BY <1>2 DEF Exchange
    <3>2. DOMAIN hand = Commands /\ DOMAIN hand[c] = DOMAIN NoHandler
      BY DEF Inv
    <3> QED
      BY <3>1, <3>2 DEF NoHandler
  <2> QED
    BY <1>1, <2>1, StepGuesses
<1>3. CASE hand[c].typed # hand[c].pin /\ hand[c].pin # pinFile
  BY <1>1, <1>3, FailGuesses DEF Exchange
<1>4. CASE hand[c].typed # hand[c].pin /\ hand[c].pin = pinFile
  <2>1. /\ hand'[c].at = "failed" /\ \A d \in Commands : d # c => hand'[d] = hand[d]
        /\ tries' = tries + 1 /\ pinFile # None
    <3>1. Fail(c) /\ tries' = tries + 1
      BY <1>4 DEF Exchange
    <3>2. DOMAIN hand = Commands /\ pinFile # None
      BY <1>1, <1>4 DEF Inv, GuessInv, BannersOK
    <3> QED
      BY <3>1, <3>2 DEF Fail, NoHandler
  <2>2. Handlers' = Handlers
    BY <1>1, <2>1 DEF Handlers, Running
  <2>3. Uncounted' = Uncounted \union {c} /\ c \notin Uncounted
    <3>1. ToCount(c)' /\ ~ToCount(c) /\ \A d \in Commands : d # c => (ToCount(d) <=> ToCount(d)')
      BY <1>1, <2>1 DEF ToCount
    <3> QED
      BY <3>1 DEF Uncounted
  <2>4. Cardinality(Uncounted') = Cardinality(Uncounted) + 1 /\ Cardinality(Uncounted) \in Nat
    BY <2>3, UncountedFinite, FS_AddElement DEF FewUncounted, GuessInv
  <2>5. Counted' = Counted /\ Counted \in Int
    BY <1>1 DEF Counted, GuessInv, CounterOK
  <2>6. GuessesOK'
    BY <1>1, <2>1, <2>4, <2>5 DEF GuessInv, GuessesOK
  <2> QED
    BY <1>1, <2>1, <2>2, <2>6, HandlersKept DEF GuessInv, CounterOK, BannersOK
<1> QED
  BY <1>2, <1>3, <1>4
\* A handler that ends, and a failure that it counted or that is not counted
\* for the PIN in force.
LEMMA EndOnly ==
  ASSUME Inv, NEW c \in Handlers, End(c)
  PROVE  /\ c \in Commands /\ Handlers' = Handlers \ {c}
         /\ hand'[c].at = "none" /\ \A d \in Commands : d # c => hand'[d] = hand[d]
<1>1. /\ c \in Commands /\ hand'[c].at = "none"
      /\ \A d \in Commands : d # c => hand'[d] = hand[d]
  BY DEF End, NoHandler, Handlers, Inv
<1>2. Handlers' = Handlers \ {c}
  BY <1>1 DEF Handlers, Running
<1> QED
  BY <1>1, <1>2

LEMMA ForgottenCounted ==
  ASSUME CounterOK, NEW pin
  PROVE  /\ Forgotten(pin) = IF guard.pin # None /\ guard.pin = pinFile /\ pin # guard.pin
                               THEN Counted ELSE 0
         /\ Counted \in Nat /\ Forgotten(pin) \in Nat
BY Limits DEF Forgotten, Counted, CounterOK

LEMMA ClearGuesses ==
  ASSUME Inv, GuessInv, NEW c \in Commands, ClearSuccess(c) PROVE GuessInv'
<1>1. /\ c \in Handlers /\ hand[c].at = "paired" /\ End(c) /\ UNCHANGED <<permits, pinFile>>
      /\ tries' = tries - Forgotten(None) /\ guard' = [pin |-> None, failures |-> 0]
  BY DEF ClearSuccess, Handlers, Running
<1>2. Uncounted' = Uncounted
  BY <1>1, EndOnly DEF Uncounted, ToCount
<1>3. Cardinality(Uncounted) \in Nat
  BY UncountedFinite DEF FewUncounted, GuessInv
<1>4. /\ guard'.failures = 0 /\ Counted' = 0 /\ Counted \in Nat /\ Forgotten(None) \in Nat
      /\ pinFile # None => Forgotten(None) = Counted
  <2>1. guard'.failures = 0 /\ Counted' = 0
    BY <1>1 DEF Counted
  <2>2. Counted \in Nat /\ Forgotten(None) \in Nat
    BY ForgottenCounted DEF GuessInv
  <2>3. ASSUME pinFile # None PROVE Forgotten(None) = Counted
    <3>1. CASE guard.pin = pinFile
      BY <2>3, <3>1, ForgottenCounted DEF GuessInv
    <3>2. CASE guard.pin # pinFile
      BY <3>2 DEF Forgotten, Counted
    <3> QED
      BY <3>1, <3>2
  <2> QED
    BY <2>1, <2>2, <2>3
<1>5. GuessesOK'
  <2>1. tries' \in Int /\ (pinFile' = None => tries' <= 0)
    BY <1>1, <1>4 DEF GuessInv, GuessesOK
  <2>2. tries' <= Cardinality(Uncounted)
    BY <1>1, <1>3, <1>4 DEF GuessInv, GuessesOK
  <2> QED
    BY <1>2, <1>3, <1>4, <2>1, <2>2 DEF GuessesOK
<1>6. CounterOK'
  BY <1>4, Limits DEF CounterOK
<1>7. HandlersOK' /\ BannersOK'
  BY <1>1, EndOnly, HandlersKept DEF GuessInv, BannersOK
<1> QED
  BY <1>5, <1>6, <1>7 DEF GuessInv

LEMMA ReadGuesses ==
  ASSUME Inv, GuessInv, NEW c \in Commands, ReadForCount(c) PROVE GuessInv'
<1>1. /\ c \in Handlers /\ hand[c].at = "failed" /\ UNCHANGED <<permits, guard, pinFile, tries>>
  BY DEF ReadForCount, Handlers, Running, deviceSide, ghosts
<1>2. CASE pinFile = None
  <2>1. End(c)
    BY <1>2 DEF ReadForCount
  <2>2. HandlersOK' /\ BannersOK' /\ CounterOK'
    BY <1>1, <2>1, EndOnly, HandlersKept DEF GuessInv, BannersOK, CounterOK
  <2>3. Cardinality(Uncounted') \in Nat
    BY <2>2, UncountedFiniteNext DEF FewUncounted
  <2>4. Counted' \in Nat
    BY <2>2, Limits DEF Counted, CounterOK
  <2>5. GuessesOK'
    BY <1>1, <1>2, <2>3, <2>4 DEF GuessInv, GuessesOK
  <2> QED
    BY <2>2, <2>5 DEF GuessInv
<1>3. CASE pinFile # None
  <2>1. hand' = [hand EXCEPT ![c].at = "counting", ![c].pin = pinFile]
    BY <1>3 DEF ReadForCount
  <2>2. /\ hand'[c].at = "counting" /\ hand'[c].pin = pinFile
        /\ \A d \in Commands : d # c => hand'[d] = hand[d]
    BY <2>1 DEF Inv, NoHandler
  <2>3. Handlers' \subseteq Handlers
    BY <1>1, <2>2 DEF Handlers, Running
  <2>4. Uncounted \subseteq Uncounted'
    BY <1>1, <2>2 DEF Uncounted, ToCount
  <2> QED
    BY <1>1, <2>2, <2>3, <2>4, HandlersKept, GuessesKept DEF GuessInv, CounterOK, BannersOK
<1> QED
  BY <1>2, <1>3

LEMMA CountGuesses ==
  ASSUME Inv, GuessInv, NEW c \in Commands, CountFailure(c) PROVE GuessInv'
<1> DEFINE failures == 1 + (IF guard.pin = hand[c].pin THEN guard.failures ELSE 0)
<1>1. c \in Handlers /\ hand[c].at = "counting" /\ End(c) /\ UNCHANGED permits
  BY DEF CountFailure, Handlers, Running
<1>2. HandlersOK' /\ BannersOK'
  BY <1>1, EndOnly, HandlersKept DEF GuessInv, BannersOK
<1>3. CASE failures >= MaxFailures
  <2>1. tries' = 0 /\ guard' = [pin |-> None, failures |-> 0]
    BY <1>3 DEF CountFailure, PinBecomes
  <2>2. CounterOK'
    BY <2>1, Limits DEF CounterOK
  <2> QED
    BY <1>2, <2>1, <2>2, GuessesForgotten DEF GuessInv
<1>4. CASE failures < MaxFailures
  <2> DEFINE newPin == hand[c].pin
  <2>0. guard.failures \in Nat /\ failures \in Nat \ {0}
    BY Limits DEF GuessInv, CounterOK
  <2>1. /\ guard' = [pin |-> newPin, failures |-> failures]
        /\ tries' = tries - Forgotten(newPin) /\ UNCHANGED pinFile
    BY <1>4, <2>0, Limits DEF CountFailure
  <2>2. CounterOK'
    BY <1>4, <2>0, <2>1, Limits DEF CounterOK
  <2>3. /\ Counted \in Nat /\ Forgotten(newPin) \in Nat /\ Cardinality(Uncounted) \in Nat
        /\ Cardinality(Uncounted') \in Nat
    BY <1>2, ForgottenCounted, UncountedFinite, UncountedFiniteNext DEF FewUncounted, GuessInv
  <2>4. \A d \in Commands : d # c => (ToCount(d) <=> ToCount(d)')
    BY <1>1, <2>1, EndOnly DEF ToCount
  <2>5. CASE newPin = pinFile
    <3>1. Uncounted' = Uncounted \ {c} /\ c \in Uncounted
      <4>1. ToCount(c) /\ ~ToCount(c)' /\ c \in Commands
        BY <1>1, <2>5, EndOnly DEF ToCount
      <4> QED
        BY <2>4, <4>1 DEF Uncounted
    <3>2. Cardinality(Uncounted') = Cardinality(Uncounted) - 1
      BY <3>1, UncountedFinite, FS_RemoveElement DEF FewUncounted, GuessInv
    <3>3. Counted' = Counted + 1 /\ tries' = tries
      <4>1. Counted' = failures
        BY <2>1, <2>5 DEF Counted
      <4>2. failures = 1 + Counted
        BY <2>5 DEF Counted
      <4>3. Forgotten(newPin) = 0
        BY <2>5 DEF Forgotten
      <4>4. tries' = tries
        BY <2>1, <4>3 DEF GuessInv, GuessesOK
      <4> HIDE DEF failures
      <4>5. Counted' = Counted + 1
        BY <2>3, <4>1, <4>2
      <4> QED
        BY <4>4, <4>5
    <3> QED
      BY <1>2, <2>1, <2>2, <2>3, <3>2, <3>3 DEF GuessInv, GuessesOK
  <2>6. CASE newPin # pinFile
    <3>1. Uncounted' = Uncounted
      <4>1. ~ToCount(c) /\ ~ToCount(c)'
        BY <1>1, <2>6, EndOnly DEF ToCount
      <4> QED
        BY <2>4, <4>1 DEF Uncounted
    <3>2. Counted' = 0
      BY <2>1, <2>6 DEF Counted
    <3>3. pinFile # None => Forgotten(newPin) = Counted
      <4>1. CASE guard.pin = pinFile
        BY <2>6, <4>1, ForgottenCounted DEF GuessInv
      <4>2. CASE guard.pin # pinFile
        BY <4>2 DEF Forgotten, Counted
      <4> QED
        BY <4>1, <4>2
    <3>4. tries' <= Cardinality(Uncounted)
      BY <2>1, <2>3, <3>3 DEF GuessInv, GuessesOK
    <3> QED
      BY <1>2, <2>1, <2>2, <2>3, <3>1, <3>2, <3>4 DEF GuessInv, GuessesOK
  <2> QED
    BY <2>5, <2>6
<1> QED
  BY <1>3, <1>4, Limits DEF GuessInv, CounterOK
LEMMA HandlerGuesses ==
  ASSUME Inv, GuessInv, NEW c \in Commands, Handler(c) PROVE GuessInv'
<1> USE DEF Handlers, Running
<1>1. CASE StorePairedHost(c)
  <2>1. /\ c \in Handlers /\ hand[c].at = "secured"
        /\ UNCHANGED <<permits, guard, pinFile, tries>>
    BY <1>1 DEF StorePairedHost, StoreIf
  <2>2. CASE Fail(c)
    BY <2>1, <2>2, FailGuesses
  <2>3. CASE hand' = [hand EXCEPT ![c].at = "stored", ![c].mail = "", ![c].pin = None,
                                  ![c].id = Unknown, ![c].secret = None]
    <3>1. hand'[c].at = "stored" /\ \A d \in Commands : d # c => hand'[d] = hand[d]
      BY <2>3 DEF Inv, NoHandler
    <3> QED
      BY <2>1, <3>1, StepGuesses
  <2> QED
    BY <1>1, <2>2, <2>3 DEF StorePairedHost, StoreIf
<1>2. CASE RemovePin(c)
  <2>1. /\ hand'[c].at = "removed" /\ \A d \in Commands : d # c => hand'[d] = hand[d]
        /\ hand[c].at = "stored"
    BY <1>2 DEF RemovePin, Inv, NoHandler
  <2>2. UNCHANGED <<permits, guard>> /\ tries' = 0
    BY <1>2 DEF RemovePin, PinBecomes
  <2>3. Handlers' \subseteq Handlers
    BY <2>1
  <2> QED
    BY <2>1, <2>2, <2>3, HandlersKept, GuessesForgotten DEF GuessInv, CounterOK, BannersOK
<1>3. CASE SendComplete(c)
  <2>1. /\ c \in Handlers /\ hand[c].at = "removed"
        /\ UNCHANGED <<permits, guard, pinFile, tries>>
    BY <1>3 DEF SendComplete, ghosts
  <2>2. CASE Fail(c)
    BY <2>1, <2>2, FailGuesses
  <2>3. CASE hand' = [hand EXCEPT ![c].at = "paired", ![c].reply = IfHeard(c, "complete")]
    <3>1. hand'[c].at = "paired" /\ \A d \in Commands : d # c => hand'[d] = hand[d]
      BY <2>3 DEF Inv, NoHandler
    <3> QED
      BY <2>1, <3>1, StepGuesses
  <2> QED
    BY <1>3, <2>2, <2>3 DEF SendComplete
<1>4. CASE HandlerHangsUp(c) \/ Expire(c)
  <2>1. c \in Handlers /\ Fail(c) /\ UNCHANGED <<permits, guard, pinFile, tries>>
    BY <1>4 DEF HandlerHangsUp, Expire, ghosts
  <2> QED
    BY <2>1, FailGuesses
<1> QED
  BY <1>1, <1>2, <1>3, <1>4, ExchangeGuesses, ClearGuesses, ReadGuesses, CountGuesses DEF Handler

LEMMA GuessInitially == Init => GuessInv
<1> SUFFICES ASSUME Init PROVE GuessInv
  OBVIOUS
<1>1. /\ \A c \in Commands : hand[c].at = "none"
      /\ permits \in Permits /\ tries = 0 /\ guard.failures = 0
  BY DEF Init, NoHandler
<1>2. Handlers = {} /\ Uncounted = {} /\ Counted = 0
  BY <1>1 DEF Handlers, Running, Uncounted, ToCount, Counted
<1> QED
  BY <1>1, <1>2, Limits, FS_EmptySet DEF GuessInv, HandlersOK, CounterOK, BannersOK, GuessesOK

LEMMA GuessPreserved == Inv /\ GuessInv /\ [Next]_vars => GuessInv'
<1> SUFFICES ASSUME Inv, GuessInv, [Next]_vars PROVE GuessInv'
  OBVIOUS
<1>1. ASSUME NEW c \in Commands, Command(c) \/ Listener(c) \/ Handler(c) \/ User(c)
      PROVE  GuessInv'
  BY <1>1, CommandGuesses, ListenerGuesses, HandlerGuesses
<1>2. ASSUME UNCHANGED <<hand, permits, guard, pinFile, tries>> PROVE GuessInv'
  <2>1. Handlers' \subseteq Handlers /\ Uncounted \subseteq Uncounted'
    BY <1>2 DEF Handlers, Running, Uncounted, ToCount
  <2> QED
    BY <1>2, <2>1, HandlersKept, GuessesKept DEF GuessInv, CounterOK, BannersOK
<1>3. ASSUME UNCHANGED <<hand, permits, guard>>, tries' = 0 PROVE GuessInv'
  <2>1. Handlers' \subseteq Handlers
    BY <1>3 DEF Handlers, Running
  <2> QED
    BY <1>3, <2>1, HandlersKept, GuessesForgotten DEF GuessInv, CounterOK, BannersOK
<1>4. CASE Crash
  <2>1. /\ \A c \in Commands : hand'[c].at = "none"
        /\ UNCHANGED permits /\ guard'.failures = 0 /\ tries' = 0
    BY <1>4 DEF Crash, NoHandler
  <2>2. Handlers' \subseteq Handlers
    BY <2>1 DEF Handlers, Running
  <2> QED
    BY <2>1, <2>2, HandlersKept, GuessesForgotten, Limits DEF GuessInv, CounterOK, BannersOK
<1> QED
  BY <1>1, <1>2, <1>3, <1>4
     DEF Next, WindowMoves, GeneratePin, PinExpires, PinBecomes, ghosts, vars

\* One PIN is not guessed more often than the limit and one more for each other
\* handler under way, for any limit, any number of permits and of machines:
\* failures are counted late, by another task, against the PIN in force by then
\* (record_pair_failure), and a late success starts the counter again.
THEOREM GuessesLimited == Spec => []GuessLimit
<1>1. GuessInv => GuessLimit
  <2> SUFFICES ASSUME GuessInv PROVE GuessLimit
    OBVIOUS
  <2>1. Counted \in Int /\ Counted <= MaxFailures - 1
    BY Limits DEF Counted, GuessInv, CounterOK
  <2>2. /\ Cardinality(Uncounted) \in Nat /\ Cardinality(Handlers) \in Nat
        /\ Cardinality(Uncounted) <= Cardinality(Handlers)
    BY UncountedFinite, FS_CardinalityType DEF FewUncounted, GuessInv, HandlersOK
  <2> QED
    BY <2>1, <2>2, Limits DEF GuessLimit, GuessInv, GuessesOK, HandlersOK
<1> QED
  BY <1>1, Initially, Preserved, GuessInitially, GuessPreserved, PTL DEF Spec
-----------------------------------------------------------------------------
(***************************************************************************)
(* What a machine and the device have of each other.  With one command of  *)
(* a machine at a time, the invariant speaks of one command, its machine's *)
(* store, its handler and the device's entry for its id; nobody else's     *)
(* steps touch those.  Once the commit is sent, the handler's secret is    *)
(* the command's until the device has stored it.                           *)
(***************************************************************************)
OneAtATime == \A m \in Machines : \A c, d \in m : c = d

Shaped ==
    /\ DOMAIN cmd = Commands /\ DOMAIN hand = Commands
    /\ DOMAIN store = Machines /\ DOMAIN pairs = Commands
    /\ \A m \in Machines : DOMAIN store[m] = DOMAIN NoStore
    /\ \A c \in Commands : /\ DOMAIN cmd[c] = DOMAIN Resting("", "")
                           /\ DOMAIN cmd[c].copy = DOMAIN NoStore
                           /\ DOMAIN hand[c] = DOMAIN NoHandler

HandlerOK(c) ==
    /\ hand[c].mail \in {"", "start", "commit"}
    /\ hand[c].mail = "start" => hand[c].at = "banner"
    /\ hand[c].mail = "commit" => hand[c].at = "secured"
    /\ hand[c].mail = "start" \/ hand[c].at = "secured" => hand[c].id = c
    /\ hand[c].reply = "complete" => hand[c].at \in {"paired", "none"}

\* Before the commit, and the store that a command has read.
BeforeCommit(c) ==
    /\ Own(c).id \in {Unknown, c}
    /\ cmd[c].pc \in {"connect", "started", "committed"} => cmd[c].kind = "pair"
    /\ cmd[c].pc = "connect" \/ (cmd[c].pc = "new id" /\ cmd[c].kind = "pair") =>
          /\ hand[c].at \in {"none", "banner", "failed", "counting"}
          /\ hand[c].mail = "" /\ hand[c].reply # "complete"
    /\ cmd[c].pc = "started" =>
          /\ hand[c].at \in {"none", "banner", "secured", "failed", "counting"}
          /\ hand[c].mail # "commit" /\ hand[c].reply # "complete"
    /\ cmd[c].pc \in {"started", "committed"} => Own(c).id = c
    /\ cmd[c].pc = "save" => cmd[c].copy.id \in {Unknown, c}

AfterCommit(c) ==
    /\ cmd[c].pc = "committed" =>
          /\ cmd[c].secret # None
          /\ hand[c].mail = "commit" => hand[c].secret = cmd[c].secret
          /\ hand[c].at \in {"stored", "removed", "paired"} \/ hand[c].reply = "complete"
                => pairs[c] = cmd[c].secret
    /\ cmd[c].pc = "save" /\ cmd[c].kind = "pair" =>
          /\ hand[c].at \in {"paired", "none"} /\ cmd[c].copy.id = c
          /\ cmd[c].secret # None /\ pairs[c] = cmd[c].secret
    /\ cmd[c].pc = "paired" =>
          /\ hand[c].at \in {"paired", "none"} /\ Own(c).id = c
          /\ Own(c).secret # None /\ pairs[c] = Own(c).secret

Agrees(c) == HandlerOK(c) /\ BeforeCommit(c) /\ AfterCommit(c)
AutoInv   == Shaped /\ \A c \in Commands : Agrees(c)
LEMMA Homes ==
  ASSUME OneAtATime
  PROVE  /\ \A c \in Commands : Home(c) \in Machines /\ c \in Home(c)
         /\ \A c, d \in Commands : Home(c) = Home(d) => c = d
<1>1. \A c \in Commands : Home(c) \in Machines /\ c \in Home(c)
  BY DEF Home, Commands
<1> QED
  BY <1>1 DEF OneAtATime

Untouched(d) ==
    /\ cmd'[d] = cmd[d] /\ hand'[d] = hand[d]
    /\ store'[Home(d)] = store[Home(d)] /\ pairs'[d] = pairs[d]

LEMMA UntouchedAgrees ==
  ASSUME NEW d \in Commands, Agrees(d), Untouched(d) PROVE Agrees(d)'
BY DEF Agrees, HandlerOK, BeforeCommit, AfterCommit, Untouched, Own

\* A step of one command or of its handler.
StepOf(c) == Shaped' /\ (\A d \in Commands : d # c => Untouched(d)) /\ Agrees(c)'

LEMMA StepAgrees ==
  ASSUME AutoInv, NEW c \in Commands, StepOf(c) PROVE AutoInv'
BY UntouchedAgrees DEF AutoInv, StepOf

\* It changes its own command, handler and entry, and its machine's store.
Alone(c) ==
    /\ DOMAIN cmd' = Commands /\ DOMAIN hand' = Commands
    /\ DOMAIN store' = Machines /\ DOMAIN pairs' = Commands
    /\ \A d \in Commands : d # c =>
          cmd'[d] = cmd[d] /\ hand'[d] = hand[d] /\ pairs'[d] = pairs[d]
    /\ \A m \in Machines : m # Home(c) => store'[m] = store[m]
    /\ DOMAIN cmd'[c] = DOMAIN cmd[c] /\ DOMAIN cmd'[c].copy = DOMAIN NoStore
    /\ DOMAIN hand'[c] = DOMAIN hand[c] /\ DOMAIN store'[Home(c)] = DOMAIN NoStore

LEMMA AloneStep ==
  ASSUME OneAtATime, AutoInv, NEW c \in Commands, Alone(c), Agrees(c)' PROVE StepOf(c)
<1>1. Shaped'
  BY DEF AutoInv, Shaped, Alone
<1>2. \A d \in Commands : d # c => Untouched(d)
  BY Homes DEF Alone, Untouched
<1> QED
  BY <1>1, <1>2 DEF StepOf

LEMMA Shapes ==
  ASSUME OneAtATime, AutoInv, NEW c \in Commands
  PROVE  /\ DOMAIN cmd = Commands /\ DOMAIN hand = Commands /\ DOMAIN store = Machines
         /\ DOMAIN pairs = Commands /\ Home(c) \in Machines
         /\ DOMAIN cmd[c] = {"pc", "kind", "secret", "typed", "copy"}
         /\ DOMAIN hand[c] = {"at", "pin", "mail", "typed", "id", "secret", "reply"}
         /\ DOMAIN cmd[c].copy = {"id", "secret"} /\ DOMAIN NoStore = {"id", "secret"}
         /\ DOMAIN Own(c) = {"id", "secret"}
BY Homes DEF AutoInv, Shaped, Resting, NoHandler, NoStore, Own

\* A command that starts, ends or fails, without having paired.
LEMMA RestAgrees ==
  ASSUME OneAtATime, AutoInv, NEW c \in Commands, NEW kind, NEW pc,
         pc \in {"done", "failed", "load"} \/ (pc = "connect" /\ kind = "pair" /\ hand[c].at = "none"),
         cmd' = [cmd EXCEPT ![c] = Resting(pc, kind)], UNCHANGED <<store, pairs>>,
         Read(c) \/ UNCHANGED hand, pc = "connect" => Read(c)
  PROVE  StepOf(c)
<1>1. /\ cmd'[c].pc = pc /\ cmd'[c].kind = kind /\ DOMAIN cmd'[c] = DOMAIN cmd[c]
      /\ DOMAIN cmd'[c].copy = DOMAIN NoStore
  BY Shapes DEF Resting
<1>2. /\ hand'[c].at = hand[c].at /\ hand'[c].mail = hand[c].mail /\ hand'[c].id = hand[c].id
      /\ hand'[c].reply \in {"", hand[c].reply} /\ DOMAIN hand'[c] = DOMAIN hand[c]
      /\ pc = "connect" => hand'[c].reply = ""
      /\ DOMAIN hand' = Commands /\ \A d \in Commands : d # c => hand'[d] = hand[d]
  <2>1. CASE Read(c)
    BY <2>1, Shapes DEF Read
  <2>2. CASE UNCHANGED hand /\ ~Read(c)
    BY <2>2, Shapes
  <2> QED
    BY <2>1, <2>2
<1>3. Alone(c)
  BY <1>1, <1>2, Shapes DEF Alone, Own
<1>4. HandlerOK(c) /\ BeforeCommit(c)
  BY DEF AutoInv, Agrees
<1>5. HandlerOK(c)'
  BY <1>2, <1>4 DEF HandlerOK
<1>6. BeforeCommit(c)' /\ AfterCommit(c)'
  BY <1>1, <1>2, <1>4 DEF HandlerOK, BeforeCommit, AfterCommit, Own
<1> QED
  BY <1>3, <1>5, <1>6, AloneStep DEF Agrees

\* PairStart is sent, with the id that is in the store by now.
LEMMA SendStartAgrees ==
  ASSUME OneAtATime, AutoInv, NEW c \in Commands, NEW pin,
         cmd[c].pc = "connect" \/ (cmd[c].pc = "new id" /\ cmd[c].kind = "pair"),
         SendStart(c, pin, c), Own(c)'.id = c, DOMAIN Own(c)' = DOMAIN NoStore,
         DOMAIN store' = Machines, UNCHANGED pairs,
         \A m \in Machines : m # Home(c) => store'[m] = store[m]
  PROVE  StepOf(c)
<1>1. /\ cmd'[c].pc = "started" /\ cmd'[c].kind = cmd[c].kind /\ DOMAIN cmd'[c] = DOMAIN cmd[c]
      /\ cmd'[c].copy = cmd[c].copy
      /\ DOMAIN cmd' = Commands /\ \A d \in Commands : d # c => cmd'[d] = cmd[d]
  BY Shapes DEF SendStart
<1>2. /\ \/ hand[c].at = "banner" /\ hand'[c].mail = "start" /\ hand'[c].id = c /\ hand'[c].reply = ""
         \/ hand'[c] = hand[c]
      /\ DOMAIN hand'[c] = DOMAIN hand[c] /\ hand'[c].at = hand[c].at
      /\ DOMAIN hand' = Commands /\ \A d \in Commands : d # c => hand'[d] = hand[d]
  BY Shapes DEF SendStart
<1>3. Alone(c)
  BY <1>1, <1>2, Shapes DEF Alone, Own
<1>4. HandlerOK(c) /\ BeforeCommit(c)
  BY DEF AutoInv, Agrees
<1>5. HandlerOK(c)'
  BY <1>2, <1>4 DEF HandlerOK
<1>6. BeforeCommit(c)' /\ AfterCommit(c)'
  BY <1>1, <1>2, <1>4 DEF HandlerOK, BeforeCommit, AfterCommit
<1> QED
  BY <1>3, <1>5, <1>6, AloneStep DEF Agrees
\* A command has read the store, to write it back.
LEMMA LoadAgrees ==
  ASSUME OneAtATime, AutoInv, NEW c \in Commands,
         cmd'[c].pc = "new id" \/ (cmd'[c].pc = "save" /\ cmd'[c].kind # "pair"),
         cmd'[c].pc = "new id" /\ cmd'[c].kind = "pair" => cmd[c].pc = "connect",
         cmd'[c].copy = Own(c), DOMAIN cmd'[c] = DOMAIN cmd[c], DOMAIN cmd' = Commands,
         \A d \in Commands : d # c => cmd'[d] = cmd[d],
         UNCHANGED <<store, hand, pairs>>
  PROVE  StepOf(c)
<1>1. Alone(c)
  BY Shapes DEF Alone, Own
<1>2. HandlerOK(c) /\ BeforeCommit(c)
  BY DEF AutoInv, Agrees
<1>3. HandlerOK(c)'
  BY <1>2 DEF HandlerOK
<1>4. cmd[c].pc = "connect" => cmd[c].kind = "pair"
  BY <1>2 DEF BeforeCommit
<1>5. BeforeCommit(c)' /\ AfterCommit(c)'
  BY <1>2, <1>4 DEF BeforeCommit, AfterCommit, Own
<1> QED
  BY <1>1, <1>3, <1>5, AloneStep DEF Agrees

LEMMA PinAgrees ==
  ASSUME OneAtATime, AutoInv, NEW c \in Commands, EnterPin(c) PROVE StepOf(c)
<1>1. BeforeCommit(c) /\ cmd[c].pc = "connect" /\ UNCHANGED <<store, pairs>>
  BY DEF AutoInv, Agrees, EnterPin, deviceSide
<1>2. PICK pin \in {issued, Wrong} :
        IF Own(c).id # Unknown
          THEN SendStart(c, pin, Own(c).id)
          ELSE /\ cmd' = [cmd EXCEPT ![c].pc = "new id", ![c].typed = pin, ![c].copy = Own(c)]
               /\ UNCHANGED hand
  BY DEF EnterPin
<1>3. CASE Own(c).id # Unknown
  <2>1. Own(c).id = c /\ SendStart(c, pin, c)
    BY <1>1, <1>2, <1>3 DEF BeforeCommit
  <2>2. DOMAIN store' = Machines /\ Own(c)' = Own(c) /\ DOMAIN Own(c) = DOMAIN NoStore
    BY <1>1, Shapes DEF Own
  <2> QED
    BY <1>1, <2>1, <2>2, SendStartAgrees
<1>4. CASE Own(c).id = Unknown
  <2>1. cmd' = [cmd EXCEPT ![c].pc = "new id", ![c].typed = pin, ![c].copy = Own(c)]
        /\ UNCHANGED hand
    BY <1>2, <1>4
  <2>2. /\ cmd'[c].pc = "new id" /\ cmd'[c].copy = Own(c) /\ DOMAIN cmd'[c] = DOMAIN cmd[c]
        /\ DOMAIN cmd' = Commands /\ \A d \in Commands : d # c => cmd'[d] = cmd[d]
    BY <2>1, Shapes
  <2> QED
    BY <1>1, <2>1, <2>2, LoadAgrees
<1> QED
  BY <1>3, <1>4

LEMMA LookAgrees ==
  ASSUME OneAtATime, AutoInv, NEW c \in Commands, Identify(c) \/ Unpair(c) PROVE StepOf(c)
<1>1. UNCHANGED <<store, hand, pairs>> /\ cmd[c].kind # "pair"
  BY DEF Identify, Unpair, deviceSide
<1>2. CASE \/ cmd' = [cmd EXCEPT ![c] = Resting("done", "identify")]
           \/ cmd' = [cmd EXCEPT ![c] = Resting("failed", "unpair")]
  BY <1>1, <1>2, RestAgrees
<1>3. ASSUME NEW pc \in {"new id", "save"},
             cmd' = [cmd EXCEPT ![c] = [cmd[c] EXCEPT !.pc = pc, !.copy = Own(c)]]
      PROVE  StepOf(c)
  <2>1. /\ cmd'[c].pc = pc /\ cmd'[c].copy = Own(c) /\ DOMAIN cmd'[c] = DOMAIN cmd[c]
        /\ cmd'[c].kind = cmd[c].kind
        /\ DOMAIN cmd' = Commands /\ \A d \in Commands : d # c => cmd'[d] = cmd[d]
    BY <1>3, Shapes
  <2> QED
    BY <1>1, <2>1, LoadAgrees
<1> QED
  BY <1>2, <1>3 DEF Identify, Unpair

LEMMA SavedIdAgrees ==
  ASSUME OneAtATime, AutoInv, NEW c \in Commands, HostIdSaved(c) PROVE StepOf(c)
<1>1. /\ cmd[c].pc = "new id" /\ UNCHANGED pairs
      /\ store' = [store EXCEPT ![Home(c)] = [cmd[c].copy EXCEPT !.id = c]]
  BY DEF HostIdSaved, deviceSide
<1>2. /\ Own(c)'.id = c /\ DOMAIN Own(c)' = DOMAIN NoStore /\ DOMAIN store' = Machines
      /\ \A m \in Machines : m # Home(c) => store'[m] = store[m]
  BY <1>1, Shapes DEF Own
<1>3. CASE cmd[c].kind = "pair"
  BY <1>1, <1>2, <1>3, SendStartAgrees DEF HostIdSaved
<1>4. CASE cmd[c].kind # "pair"
  <2>1. cmd' = [cmd EXCEPT ![c] = Resting("done", "identify")] /\ UNCHANGED hand
    BY <1>4 DEF HostIdSaved
  <2>2. /\ cmd'[c].pc = "done" /\ DOMAIN cmd'[c] = DOMAIN cmd[c]
        /\ DOMAIN cmd'[c].copy = DOMAIN NoStore
        /\ DOMAIN cmd' = Commands /\ \A d \in Commands : d # c => cmd'[d] = cmd[d]
    BY <2>1, Shapes DEF Resting
  <2>3. Alone(c)
    BY <1>1, <1>2, <2>1, <2>2, Shapes DEF Alone, Own
  <2>4. HandlerOK(c)
    BY DEF AutoInv, Agrees
  <2>5. Agrees(c)'
    BY <1>2, <2>1, <2>2, <2>4 DEF Agrees, HandlerOK, BeforeCommit, AfterCommit
  <2> QED
    BY <2>3, <2>5, AloneStep
<1> QED
  BY <1>3, <1>4
\* The secret of the commit is the handler's from now on.
LEMMA CommitAgrees ==
  ASSUME OneAtATime, AutoInv, NEW c \in Commands, Commit(c) PROVE StepOf(c)
<1> DEFINE secret == CHOOSE new \in Secrets \ SecretsInUse(Home(c)) : TRUE
<1>1. /\ cmd[c].pc = "started" /\ UNCHANGED <<store, pairs>>
      /\ cmd' = [cmd EXCEPT ![c].pc = "committed", ![c].secret = secret]
      /\ hand' = IF hand[c].at = "secured"
                   THEN [hand EXCEPT ![c].mail = "commit", ![c].secret = secret, ![c].reply = ""]
                   ELSE hand
      /\ Secrets \ SecretsInUse(Home(c)) # {}
  BY DEF Commit, deviceSide
<1>2. secret # None
  <2>1. \E new \in Secrets \ SecretsInUse(Home(c)) : TRUE
    BY <1>1
  <2>2. secret \in Secrets
    BY <2>1
  <2> HIDE DEF secret
  <2> QED
    BY <2>2, PairingAssumption DEF Secrets, None
<1> HIDE DEF secret
<1>3. /\ cmd'[c].pc = "committed" /\ cmd'[c].secret = secret /\ cmd'[c].kind = cmd[c].kind
      /\ cmd'[c].copy = cmd[c].copy /\ DOMAIN cmd'[c] = DOMAIN cmd[c]
      /\ DOMAIN cmd' = Commands /\ \A d \in Commands : d # c => cmd'[d] = cmd[d]
  BY <1>1, Shapes
<1>4. /\ \/ /\ hand[c].at = "secured" /\ hand'[c].mail = "commit"
            /\ hand'[c].secret = secret /\ hand'[c].reply = ""
         \/ hand'[c] = hand[c]
      /\ DOMAIN hand'[c] = DOMAIN hand[c] /\ hand'[c].at = hand[c].at /\ hand'[c].id = hand[c].id
      /\ DOMAIN hand' = Commands /\ \A d \in Commands : d # c => hand'[d] = hand[d]
  BY <1>1, Shapes
<1>5. Alone(c)
  <2>1. /\ DOMAIN store' = Machines /\ DOMAIN pairs' = Commands
        /\ \A d \in Commands : pairs'[d] = pairs[d]
        /\ \A m \in Machines : store'[m] = store[m]
        /\ DOMAIN store'[Home(c)] = DOMAIN NoStore
    BY <1>1, Shapes DEF Own
  <2> QED
    BY <2>1, <1>3, <1>4, Shapes DEF Alone
<1>6. HandlerOK(c) /\ BeforeCommit(c)
  BY DEF AutoInv, Agrees
<1>7. HandlerOK(c)'
  BY <1>4, <1>6 DEF HandlerOK
<1>8. BeforeCommit(c)' /\ AfterCommit(c)'
  BY <1>1, <1>2, <1>3, <1>4, <1>6 DEF BeforeCommit, AfterCommit, Own
<1> QED
  BY <1>5, <1>7, <1>8, AloneStep DEF Agrees

\* The device has stored the secret, and the host goes on to store it.
LEMMA CompletedAgrees ==
  ASSUME OneAtATime, AutoInv, NEW c \in Commands, Completed(c) PROVE StepOf(c)
<1>1. /\ cmd[c].pc = "committed" /\ hand[c].reply = "complete" /\ UNCHANGED <<store, pairs>>
      /\ cmd' = [cmd EXCEPT ![c].pc = "save", ![c].copy = Own(c)]
      /\ hand' = [hand EXCEPT ![c].reply = ""]
  BY DEF Completed, Read, deviceSide
<1>2. /\ cmd'[c].pc = "save" /\ cmd'[c].secret = cmd[c].secret
      /\ cmd'[c].copy = Own(c) /\ DOMAIN cmd'[c] = DOMAIN cmd[c]
      /\ DOMAIN cmd' = Commands /\ \A d \in Commands : d # c => cmd'[d] = cmd[d]
  BY <1>1, Shapes
<1>3. /\ hand'[c].at = hand[c].at /\ hand'[c].mail = hand[c].mail /\ hand'[c].id = hand[c].id
      /\ hand'[c].reply = "" /\ DOMAIN hand'[c] = DOMAIN hand[c]
      /\ DOMAIN hand' = Commands /\ \A d \in Commands : d # c => hand'[d] = hand[d]
  BY <1>1, Shapes
<1>4. Alone(c)
  <2>1. /\ DOMAIN store' = Machines /\ DOMAIN pairs' = Commands
        /\ \A d \in Commands : pairs'[d] = pairs[d]
        /\ \A m \in Machines : store'[m] = store[m]
        /\ DOMAIN store'[Home(c)] = DOMAIN NoStore
    BY <1>1, Shapes DEF Own
  <2>2. DOMAIN cmd'[c].copy = DOMAIN NoStore
    BY <1>2, Shapes
  <2> QED
    BY <2>1, <2>2, <1>2, <1>3, Shapes DEF Alone
<1>5. HandlerOK(c) /\ BeforeCommit(c) /\ AfterCommit(c)
  BY DEF AutoInv, Agrees
<1>6. HandlerOK(c)'
  BY <1>3, <1>5 DEF HandlerOK
<1>7. BeforeCommit(c)' /\ AfterCommit(c)'
  BY <1>1, <1>2, <1>3, <1>5 DEF HandlerOK, BeforeCommit, AfterCommit, Own
<1> QED
  BY <1>4, <1>6, <1>7, AloneStep DEF Agrees

LEMMA SaveAgrees ==
  ASSUME OneAtATime, AutoInv, NEW c \in Commands, Save(c) PROVE StepOf(c)
<1> DEFINE pairing == cmd[c].kind = "pair"
<1>1. /\ cmd[c].pc = "save" /\ UNCHANGED <<hand, pairs>>
      /\ store' = [store EXCEPT ![Home(c)] =
                     [cmd[c].copy EXCEPT !.secret = IF pairing THEN cmd[c].secret ELSE None]]
      /\ cmd' = [cmd EXCEPT ![c] = Resting(IF pairing THEN "paired" ELSE "done", cmd[c].kind)]
  BY DEF Save, deviceSide
<1>2. /\ cmd'[c].pc = (IF pairing THEN "paired" ELSE "done") /\ DOMAIN cmd'[c] = DOMAIN cmd[c]
      /\ DOMAIN cmd'[c].copy = DOMAIN NoStore
      /\ DOMAIN cmd' = Commands /\ \A d \in Commands : d # c => cmd'[d] = cmd[d]
  BY <1>1, Shapes DEF Resting
<1>3. /\ Own(c)'.id = cmd[c].copy.id /\ DOMAIN Own(c)' = DOMAIN NoStore
      /\ Own(c)'.secret = (IF pairing THEN cmd[c].secret ELSE None)
      /\ DOMAIN store' = Machines /\ \A m \in Machines : m # Home(c) => store'[m] = store[m]
  BY <1>1, Shapes DEF Own
<1>4. Alone(c)
  BY <1>1, <1>2, <1>3, Shapes DEF Alone, Own
<1>5. HandlerOK(c) /\ BeforeCommit(c) /\ AfterCommit(c)
  BY DEF AutoInv, Agrees
<1>6. HandlerOK(c)'
  BY <1>1, <1>5 DEF HandlerOK
<1>7. BeforeCommit(c)' /\ AfterCommit(c)'
  BY <1>1, <1>2, <1>3, <1>5 DEF BeforeCommit, AfterCommit
<1> QED
  BY <1>4, <1>6, <1>7, AloneStep DEF Agrees

LEMMA OneCommandAgrees ==
  ASSUME OneAtATime, AutoInv, NEW c \in Commands, Command(c) \/ User(c) PROVE StepOf(c)
<1>1. ASSUME NEW kind \in Kinds, Start(c, kind) PROVE StepOf(c)
  <2> DEFINE pc == IF kind = "pair" THEN "connect" ELSE "load"
  <2>1. /\ cmd' = [cmd EXCEPT ![c] = Resting(pc, kind)] /\ Read(c)
        /\ UNCHANGED <<store, pairs>> /\ hand[c].at = "none"
    BY <1>1 DEF Start, Running, deviceSide
  <2>2. pc = "load" \/ (pc = "connect" /\ kind = "pair" /\ hand[c].at = "none")
    BY <2>1
  <2> HIDE DEF pc
  <2> QED
    BY <2>1, <2>2, RestAgrees
<1>2. CASE HostFails(c) \/ HostStops(c)
  <2>1. /\ cmd' = [cmd EXCEPT ![c] = Resting("failed", "pair")] /\ Read(c)
        /\ UNCHANGED <<store, pairs>>
    BY <1>2 DEF HostFails, HostStops, deviceSide
  <2> QED
    BY <2>1, RestAgrees
<1> QED
  BY <1>1, <1>2, PinAgrees, LookAgrees, SavedIdAgrees, CommitAgrees, CompletedAgrees, SaveAgrees
     DEF Command, User
\* The handler's steps: the command and the store stay.
LEMMA AloneHandler ==
  ASSUME OneAtATime, AutoInv, NEW c \in Commands, NEW msg, hand' = [hand EXCEPT ![c] = msg],
         DOMAIN msg = DOMAIN NoHandler, UNCHANGED <<cmd, store>>,
         DOMAIN pairs' = Commands, \A d \in Commands : d # c => pairs'[d] = pairs[d]
  PROVE  hand'[c] = msg /\ Alone(c)
<1>1. /\ hand'[c] = msg /\ DOMAIN hand' = Commands
      /\ \A d \in Commands : d # c => hand'[d] = hand[d]
  BY Shapes
<1>2. DOMAIN NoHandler = DOMAIN hand[c]
  BY DEF AutoInv, Shaped
<1>3. DOMAIN store'[Home(c)] = DOMAIN NoStore /\ DOMAIN store' = Machines
  BY Shapes DEF Own
<1> QED
  BY <1>1, <1>2, <1>3, Shapes DEF Alone

\* One that changes nothing but what the handler does and says.
LEMMA HandlerStep ==
  ASSUME OneAtATime, AutoInv, NEW c \in Commands, NEW msg, hand' = [hand EXCEPT ![c] = msg],
         DOMAIN msg = DOMAIN NoHandler, UNCHANGED <<cmd, store, pairs>>,
         msg.at \in {"none", "banner", "secured", "stored", "removed", "paired", "failed", "counting"},
         msg.mail = "" \/ (msg.mail = hand[c].mail /\ msg.at = hand[c].at /\ msg.secret = hand[c].secret),
         msg.at = "secured" => hand[c].mail = "start", msg.id = hand[c].id \/ msg.at # "secured",
         msg.at \in {"stored", "removed", "paired"} => hand[c].at \in {"stored", "removed", "paired"},
         msg.reply = "complete" => /\ hand[c].reply = "complete" \/ hand[c].at = "removed"
                                   /\ msg.at \in {"none", "paired"},
         hand[c].at = "none" => msg.at = "none" \/ cmd[c].pc = "connect",
         hand[c].at = "paired" => msg.at = "none",
         msg.mail = "start" => msg.id = hand[c].id
  PROVE  StepOf(c)
<1>1. hand'[c] = msg /\ Alone(c)
  <2>1. DOMAIN pairs' = Commands /\ \A d \in Commands : pairs'[d] = pairs[d]
    BY Shapes
  <2> QED
    BY <2>1, AloneHandler
<1>2. HandlerOK(c) /\ BeforeCommit(c) /\ AfterCommit(c)
  BY DEF AutoInv, Agrees
<1>3. HandlerOK(c)'
  BY <1>1, <1>2 DEF HandlerOK
<1>4. BeforeCommit(c)'
  BY <1>1, <1>2 DEF BeforeCommit, HandlerOK, Own
<1>5. AfterCommit(c)'
  BY <1>1, <1>2 DEF AfterCommit, HandlerOK, Own
<1> QED
  BY <1>1, <1>3, <1>4, <1>5, AloneStep DEF Agrees
LEMMA FailAgrees ==
  ASSUME OneAtATime, AutoInv, NEW c \in Commands, Fail(c), UNCHANGED <<cmd, store, pairs>>,
         hand[c].at \in {"banner", "secured", "removed"}
  PROVE  StepOf(c)
<1> DEFINE msg == [NoHandler EXCEPT !.at = "failed", !.reply = IfHeard(c, "closed")]
<1>1. /\ msg.at = "failed" /\ msg.reply \in {"", "closed"} /\ msg.mail = "" /\ msg.id = Unknown
      /\ DOMAIN msg = DOMAIN NoHandler /\ hand' = [hand EXCEPT ![c] = msg]
  BY DEF NoHandler, Fail, IfHeard
<1> HIDE DEF msg
<1> QED
  BY <1>1, HandlerStep

LEMMA EndAgrees ==
  ASSUME OneAtATime, AutoInv, NEW c \in Commands, End(c), UNCHANGED <<cmd, store, pairs>>
  PROVE  StepOf(c)
<1> DEFINE msg == [NoHandler EXCEPT !.reply = hand[c].reply]
<1>1. /\ msg.at = "none" /\ msg.reply = hand[c].reply /\ msg.mail = ""
      /\ DOMAIN msg = DOMAIN NoHandler /\ hand' = [hand EXCEPT ![c] = msg]
  BY DEF NoHandler, End
<1> HIDE DEF msg
<1> QED
  BY <1>1, HandlerStep

LEMMA ListenerAgrees ==
  ASSUME OneAtATime, AutoInv, NEW c \in Commands, Listener(c) PROVE StepOf(c)
<1>1. /\ UNCHANGED <<cmd, store, pairs>> /\ hand[c].at = "none" /\ cmd[c].pc = "connect"
  BY DEF Listener, Refuse, Accept, Knocks, Running, hostSide
<1>2. HandlerOK(c) /\ BeforeCommit(c)
  BY DEF AutoInv, Agrees
<1>3. CASE Refuse(c)
  <2> DEFINE msg == [hand[c] EXCEPT !.reply = "closed"]
  <2>1. hand' = [hand EXCEPT ![c] = msg]
    BY <1>3 DEF Refuse
  <2>2. /\ msg.at = "none" /\ msg.reply = "closed" /\ msg.mail = "" /\ msg.id = hand[c].id
        /\ DOMAIN msg = DOMAIN NoHandler
    BY <1>1, <1>2, Shapes DEF BeforeCommit, NoHandler
  <2> HIDE DEF msg
  <2> QED
    BY <1>1, <2>1, <2>2, HandlerStep
<1>4. CASE Accept(c)
  <2> DEFINE msg == IF pinFile = None
                      THEN [NoHandler EXCEPT !.at = "failed", !.reply = "unavailable"]
                      ELSE [NoHandler EXCEPT !.at = "banner", !.pin = pinFile, !.reply = "banner"]
  <2>1. hand' = [hand EXCEPT ![c] = msg]
    BY <1>4 DEF Accept
  <2>2. /\ msg.at \in {"failed", "banner"} /\ msg.reply \in {"unavailable", "banner"}
        /\ msg.mail = "" /\ DOMAIN msg = DOMAIN NoHandler
    BY DEF NoHandler
  <2> HIDE DEF msg
  <2> QED
    BY <1>1, <2>1, <2>2, HandlerStep
<1> QED
  BY <1>3, <1>4 DEF Listener

\* The secret is stored for the id of the handler's command.
LEMMA StoreAgrees ==
  ASSUME OneAtATime, AutoInv, NEW c \in Commands, StorePairedHost(c) PROVE StepOf(c)
<1>1. hand[c].at = "secured" /\ hand[c].mail = "commit" /\ UNCHANGED <<cmd, store>>
  BY DEF StorePairedHost, StoreIf, hostSide
<1>2. HandlerOK(c) /\ BeforeCommit(c) /\ AfterCommit(c)
  BY DEF AutoInv, Agrees
<1>3. CASE Fail(c) /\ UNCHANGED pairs
  BY <1>1, <1>3, FailAgrees
<1>4. CASE /\ hand' = [hand EXCEPT ![c].at = "stored", ![c].mail = "", ![c].pin = None,
                                  ![c].id = Unknown, ![c].secret = None]
           /\ pairs' = [pairs EXCEPT ![hand[c].id] = hand[c].secret]
  <2> DEFINE msg == [hand[c] EXCEPT !.at = "stored", !.mail = "", !.pin = None,
                                    !.id = Unknown, !.secret = None]
  <2>1. hand' = [hand EXCEPT ![c] = msg]
    BY <1>4
  <2>2. /\ msg.at = "stored" /\ msg.mail = "" /\ msg.reply = hand[c].reply
        /\ DOMAIN msg = DOMAIN NoHandler
    BY Shapes DEF NoHandler
  <2> HIDE DEF msg
  <2>3. /\ hand[c].id = c /\ DOMAIN pairs' = Commands /\ pairs'[c] = hand[c].secret
        /\ \A d \in Commands : d # c => pairs'[d] = pairs[d]
    BY <1>1, <1>2, <1>4, Shapes DEF HandlerOK
  <2>4. hand'[c] = msg /\ Alone(c)
    BY <1>1, <2>1, <2>2, <2>3, AloneHandler
  <2>5. HandlerOK(c)'
    BY <1>1, <1>2, <2>2, <2>4 DEF HandlerOK
  <2>6. BeforeCommit(c)' /\ AfterCommit(c)'
    BY <1>1, <1>2, <2>2, <2>3, <2>4 DEF HandlerOK, BeforeCommit, AfterCommit, Own
  <2> QED
    BY <2>4, <2>5, <2>6, AloneStep DEF Agrees
<1> QED
  BY <1>3, <1>4 DEF StorePairedHost, StoreIf
LEMMA OneHandlerAgrees ==
  ASSUME OneAtATime, AutoInv, NEW c \in Commands, Handler(c) PROVE StepOf(c)
<1>0. HandlerOK(c)
  BY DEF AutoInv, Agrees
<1>1. CASE Exchange(c)
  <2>1. /\ hand[c].at = "banner" /\ hand[c].mail = "start" /\ UNCHANGED <<cmd, store, pairs>>
    BY <1>1 DEF Exchange, hostSide
  <2>2. CASE hand[c].typed = hand[c].pin
    <3> DEFINE msg == [hand[c] EXCEPT !.at = "secured", !.mail = "", !.typed = None,
                                      !.reply = "noise"]
    <3>1. /\ msg.at = "secured" /\ msg.mail = "" /\ msg.id = hand[c].id /\ msg.reply = "noise"
          /\ DOMAIN msg = DOMAIN NoHandler
      BY Shapes DEF NoHandler
    <3>2. hand' = [hand EXCEPT ![c] = msg]
      BY <1>1, <2>2 DEF Exchange
    <3> HIDE DEF msg
    <3> QED
      BY <2>1, <3>1, <3>2, HandlerStep
  <2>3. CASE hand[c].typed # hand[c].pin
    BY <1>1, <2>1, <2>3, FailAgrees DEF Exchange
  <2> QED
    BY <2>2, <2>3
<1>2. CASE RemovePin(c)
  <2> DEFINE msg == [hand[c] EXCEPT !.at = "removed"]
  <2>1. /\ hand[c].at = "stored" /\ UNCHANGED <<cmd, store, pairs>>
        /\ hand' = [hand EXCEPT ![c] = msg]
    BY <1>2 DEF RemovePin, hostSide
  <2>2. /\ msg.at = "removed" /\ msg.mail = "" /\ msg.reply = hand[c].reply
        /\ DOMAIN msg = DOMAIN NoHandler
    BY <1>0, <2>1, Shapes DEF HandlerOK, NoHandler
  <2>3. hand[c].reply # "complete"
    BY <1>0, <2>1 DEF HandlerOK
  <2> HIDE DEF msg
  <2> QED
    BY <2>1, <2>2, <2>3, HandlerStep
<1>3. CASE SendComplete(c)
  <2>1. /\ hand[c].at = "removed" /\ UNCHANGED <<cmd, store, pairs>>
    BY <1>3 DEF SendComplete, hostSide
  <2>2. CASE Fail(c)
    BY <2>1, <2>2, FailAgrees
  <2>3. CASE hand' = [hand EXCEPT ![c].at = "paired", ![c].reply = IfHeard(c, "complete")]
    <3> DEFINE msg == [hand[c] EXCEPT !.at = "paired", !.reply = IfHeard(c, "complete")]
    <3>1. msg.at = "paired" /\ msg.mail = "" /\ DOMAIN msg = DOMAIN NoHandler
      BY <1>0, <2>1, Shapes DEF HandlerOK, NoHandler
    <3>2. hand' = [hand EXCEPT ![c] = msg]
      BY <2>3
    <3> HIDE DEF msg
    <3> QED
      BY <2>1, <3>1, <3>2, HandlerStep
  <2> QED
    BY <1>3, <2>2, <2>3 DEF SendComplete
<1>4. CASE HandlerHangsUp(c) \/ Expire(c)
  <2>1. /\ hand[c].at \in {"banner", "secured", "removed"} /\ Fail(c)
        /\ UNCHANGED <<cmd, store, pairs>>
    BY <1>4 DEF HandlerHangsUp, Expire, hostSide
  <2> QED
    BY <2>1, FailAgrees
<1>5. CASE ClearSuccess(c) \/ CountFailure(c)
  <2>1. End(c) /\ UNCHANGED <<cmd, store, pairs>>
    BY <1>5 DEF ClearSuccess, CountFailure, hostSide
  <2> QED
    BY <2>1, EndAgrees
<1>6. CASE ReadForCount(c)
  <2>1. hand[c].at = "failed" /\ UNCHANGED <<cmd, store, pairs>>
    BY <1>6 DEF ReadForCount, hostSide, deviceSide
  <2>2. CASE hand' = [hand EXCEPT ![c].at = "counting", ![c].pin = pinFile]
    <3> DEFINE msg == [hand[c] EXCEPT !.at = "counting", !.pin = pinFile]
    <3>1. /\ msg.at = "counting" /\ msg.mail = "" /\ msg.reply = hand[c].reply
          /\ DOMAIN msg = DOMAIN NoHandler
      BY <1>0, <2>1, Shapes DEF HandlerOK, NoHandler
    <3>2. hand' = [hand EXCEPT ![c] = msg] /\ hand[c].reply # "complete"
      BY <1>0, <2>1, <2>2 DEF HandlerOK
    <3> HIDE DEF msg
    <3> QED
      BY <2>1, <3>1, <3>2, HandlerStep
  <2> QED
    BY <1>6, <2>1, <2>2, EndAgrees DEF ReadForCount
<1> QED
  BY <1>1, <1>2, <1>3, <1>4, <1>5, <1>6, StoreAgrees DEF Handler

LEMMA CrashAgrees ==
  ASSUME OneAtATime, AutoInv, Crash PROVE AutoInv'
<1>1. /\ UNCHANGED <<cmd, store, pairs>>
      /\ hand' = [c \in Commands |->
                    [NoHandler EXCEPT !.reply = IF hand[c].reply = "complete"
                                                  THEN "complete" ELSE IfHeard(c, "closed")]]
  BY DEF Crash, hostSide
<1>2. \A c \in Commands :
        /\ DOMAIN hand'[c] = DOMAIN NoHandler /\ hand'[c].at = "none" /\ hand'[c].mail = ""
        /\ hand'[c].reply = "complete" => hand[c].reply = "complete"
  BY <1>1 DEF NoHandler, IfHeard
<1>3. Shaped'
  BY <1>1, <1>2 DEF AutoInv, Shaped
<1>4. ASSUME NEW c \in Commands PROVE Agrees(c)'
  <2>1. HandlerOK(c) /\ BeforeCommit(c) /\ AfterCommit(c)
    BY DEF AutoInv, Agrees
  <2>2. HandlerOK(c)'
    BY <1>2, <2>1 DEF HandlerOK
  <2>3. BeforeCommit(c)' /\ AfterCommit(c)'
    BY <1>1, <1>2, <2>1 DEF BeforeCommit, AfterCommit, Own
  <2> QED
    BY <2>2, <2>3 DEF Agrees
<1> QED
  BY <1>3, <1>4 DEF AutoInv

LEMMA AutoInitially == ASSUME OneAtATime PROVE Init => AutoInv
<1> SUFFICES ASSUME Init PROVE AutoInv
  OBVIOUS
<1>1. /\ \A c \in Commands : hand[c] = NoHandler /\ cmd[c] = Resting("idle", "pair")
      /\ \A m \in Machines : store[m] = NoStore
      /\ DOMAIN hand = Commands /\ DOMAIN cmd = Commands /\ DOMAIN store = Machines
      /\ DOMAIN pairs = Commands
  BY DEF Init, Ids
<1>2. Shaped
  BY <1>1 DEF Shaped, Resting
<1>3. \A c \in Commands : Agrees(c)
  <2>1. \A c \in Commands : /\ hand[c].at = "none" /\ hand[c].mail = "" /\ hand[c].reply = ""
                            /\ cmd[c].pc = "idle" /\ Own(c).id = Unknown
    <3>1. /\ NoHandler.at = "none" /\ NoHandler.mail = "" /\ NoHandler.reply = ""
          /\ Resting("idle", "pair").pc = "idle" /\ NoStore.id = Unknown
      BY DEF NoHandler, Resting, NoStore
    <3> QED
      BY <1>1, <3>1, Homes DEF Own
  <2> QED
    BY <2>1 DEF Agrees, HandlerOK, BeforeCommit, AfterCommit
<1> QED
  BY <1>2, <1>3 DEF AutoInv

LEMMA AutoPreserved == ASSUME OneAtATime PROVE AutoInv /\ [Next]_vars => AutoInv'
<1> SUFFICES ASSUME AutoInv, [Next]_vars PROVE AutoInv'
  OBVIOUS
<1>1. ASSUME NEW c \in Commands, Command(c) \/ Listener(c) \/ Handler(c) \/ User(c)
      PROVE  AutoInv'
  BY <1>1, OneCommandAgrees, ListenerAgrees, OneHandlerAgrees, StepAgrees
<1>2. ASSUME UNCHANGED <<cmd, hand, store, pairs>> PROVE AutoInv'
  <2>1. Shaped' /\ \A d \in Commands : Untouched(d)
    BY <1>2 DEF AutoInv, Shaped, Untouched
  <2> QED
    BY <2>1, UntouchedAgrees DEF AutoInv
<1> QED
  BY <1>1, <1>2, CrashAgrees
     DEF Next, WindowMoves, GeneratePin, PinExpires, hostSide, vars

\* "Paired with ... Future secure connections are automatic." is true when the
\* commands of a machine run one at a time, for any number of machines and in
\* whatever order they pair, unpair, fail and crash: the machine's id and
\* secret are the ones the device has (pair_device, handle_pair_connection).
\* Run pairing_concurrent shows that two commands at once can undo it.
THEOREM PairedAgrees ==
  ASSUME OneAtATime
  PROVE  Spec => []PairedIsAutomatic
<1>1. AutoInv => PairedIsAutomatic
  <2> SUFFICES ASSUME AutoInv, NEW m \in Machines, NEW c \in m, cmd[c].pc = "paired"
               PROVE  /\ store[m].id # Unknown /\ store[m].secret # None
                      /\ pairs[store[m].id] = store[m].secret
    BY DEF PairedIsAutomatic
  <2>1. c \in Commands
    BY DEF Commands
  <2>2. Home(c) = m
    <3>1. Home(c) \in Machines /\ c \in Home(c)
      BY <2>1, Homes
    <3> QED
      BY <3>1, PairingAssumption
  <2>3. /\ store[m].id = c /\ store[m].secret # None /\ pairs[c] = store[m].secret
    BY <2>1, <2>2 DEF AutoInv, Agrees, AfterCommit, Own
  <2> QED
    BY <2>1, <2>3, PairingAssumption
<1> QED
  BY <1>1, AutoInitially, AutoPreserved, PTL DEF Spec
================================================================================
