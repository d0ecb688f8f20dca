---------------------------- MODULE ClipboardProofs ----------------------------
(***************************************************************************)
(* Nobody is given another's clipboard, for any number of requests.        *)
(***************************************************************************)
EXTENDS Clipboard, TLAPS

Spec == Init /\ [][Next]_vars

Stages == {"lock", "begin", "exchange", "stop", "reply", "done"}
Busy   == {"begin", "exchange", "stop", "reply"}

TypeOK ==
    /\ stage \in [Requests -> Stages] /\ answer \in [Requests -> Requests \union {Nobody}]
    /\ helper \in {"none", "up", "exited"}

\* A request past the lock holds it.
OwnerInv == \A r \in Requests : stage[r] \in Busy => owner = r

\* A helper nobody is talking to has nothing in its pipes.
IdleInv ==
    (helper = "up" /\ \A r \in Requests : stage[r] \notin {"exchange", "stop"})
        => (questions = <<>> /\ answers = <<>>)

\* A request that is talking to it has its own question, or the answer to it,
\* in the pipes, and nothing else.
Reply(r, s) == [to |-> r, status |-> s]
PipeInv ==
    \A r \in Requests : stage[r] = "exchange" =>
        \/ questions = <<>> /\ answers = <<>>
        \/ questions = <<r>> /\ answers = <<>>
        \/ questions = <<>> /\ \E s \in {"ok", "error", "unknown"} : answers = <<Reply(r, s)>>

Inv == TypeOK /\ OwnerInv /\ IdleInv /\ PipeInv /\ OwnAnswer

LEMMA Initially == Init => Inv
  BY DEF Init, Inv, TypeOK, Stages, Busy, OwnerInv, IdleInv, PipeInv, OwnAnswer

\* Every step keeps the pipes in order, given that Nobody is no request.
LEMMA Preserved ==
  ASSUME Nobody \notin Requests
  PROVE  Inv /\ [Next]_vars => Inv'
<1> SUFFICES ASSUME Inv, [Next]_vars PROVE Inv'
  OBVIOUS
<1> USE DEF Inv, TypeOK, Stages, Busy, OwnerInv, IdleInv, PipeInv, OwnAnswer
<1>1. ASSUME NEW r \in Requests, Cancel(r) PROVE Inv'
  BY <1>1 DEF Cancel
<1>2. ASSUME NEW r \in Requests, Lock(r) PROVE Inv'
  BY <1>2 DEF Lock, To
<1>3. ASSUME NEW r \in Requests, Begin(r) PROVE Inv'
  <2>1. stage[r] = "begin" /\ owner = r /\ answer' = answer
    BY <1>3 DEF Begin
  <2>2. \A s \in Requests : s # r => stage[s] \notin Busy
    BY <2>1
  <2>3. CASE r \in stopped /\ Release(r) /\ UNCHANGED <<helper, questions, answers, starts>>
    BY <2>1, <2>2, <2>3 DEF Release, To
  <2>4. CASE /\ r \notin stopped /\ helper = "up"
             /\ To(r, "exchange") /\ questions' = Append(questions, r)
             /\ UNCHANGED <<owner, helper, answers, starts>>
    <3>1. questions = <<>> /\ answers = <<>>
      BY <2>1, <2>2, <2>4
    <3>2. questions' = <<r>>
      BY <3>1, <2>4
    <3> QED
      BY <2>1, <2>2, <2>4, <3>1, <3>2 DEF To
  <2>5. CASE /\ r \notin stopped /\ helper # "up" /\ starts < MaxStarts
             /\ To(r, "exchange") /\ questions' = <<r>> /\ answers' = <<>>
             /\ helper' = "up" /\ starts' = starts + 1
             /\ UNCHANGED owner
    BY <2>1, <2>2, <2>5 DEF To
  <2>6. CASE /\ r \notin stopped /\ helper # "up" /\ Release(r)
             /\ helper' = "none" /\ UNCHANGED <<questions, answers, starts>>
    BY <2>1, <2>2, <2>6 DEF Release, To
  <2> QED
    BY <1>3, <2>3, <2>4, <2>5, <2>6 DEF Begin
<1>4. ASSUME NEW r \in Requests, Answered(r) PROVE Inv'
  <2>1. stage[r] = "exchange" /\ owner = r /\ answers # <<>>
    BY <1>4 DEF Answered
  <2>2. \A s \in Requests : s # r => stage[s] \notin Busy
    BY <2>1
  <2>3. PICK s \in {"ok", "error", "unknown"} : questions = <<>> /\ answers = <<Reply(r, s)>>
    BY <2>1
  <2>4. Head(answers).to = r /\ Head(answers).status = s /\ Tail(answers) = <<>>
    BY <2>3 DEF Reply
  <2>5. /\ answers' = <<>> /\ questions' = <<>> /\ helper' = helper
        /\ answer' = [answer EXCEPT ![r] = r]
    BY <1>4, <2>3, <2>4 DEF Answered
  <2>6. \/ stage' = [stage EXCEPT ![r] = "stop"] /\ owner' = owner
        \/ stage' = [stage EXCEPT ![r] = "reply"] /\ owner' = owner
        \/ stage' = [stage EXCEPT ![r] = "done"]
    BY <1>4, <2>4 DEF Answered, Release, To
  <2> QED
    BY <2>1, <2>2, <2>5, <2>6
<1>5. ASSUME NEW r \in Requests, GiveUp(r) PROVE Inv'
  BY <1>5 DEF GiveUp, To
<1>6. ASSUME NEW r \in Requests, Stop(r) PROVE Inv'
  <2>1. stage[r] = "stop" /\ \A s \in Requests : s # r => stage[s] \notin Busy
    BY <1>6 DEF Stop
  <2> QED
    BY <1>6, <2>1 DEF Stop, Release, To
<1>7. CASE HelperAnswers
  <2>1. PICK s \in {"ok", "error", "unknown"} :
           answers' = Append(answers, Reply(Head(questions), s))
    BY <1>7 DEF HelperAnswers, Reply
  <2>2. /\ questions # <<>> /\ questions' = Tail(questions)
        /\ UNCHANGED <<stage, answer, stopped, owner, helper, starts>> /\ helper = "up"
    BY <1>7 DEF HelperAnswers
  <2>3. \E r \in Requests : stage[r] \in {"exchange", "stop"}
    BY <2>2
  <2>4. ASSUME NEW r \in Requests, stage[r] = "exchange"
        PROVE  questions' = <<>> /\ answers' = <<Reply(r, s)>>
    <3>1. questions = <<r>> /\ answers = <<>>
      BY <2>2, <2>4
    <3> QED
      BY <3>1, <2>1, <2>2
  <2> QED
    BY <2>2, <2>3, <2>4
<1>8. CASE HelperExits
  BY <1>8 DEF HelperExits
<1>9. CASE UNCHANGED vars
  BY <1>9 DEF vars
<1>10. ASSUME NEW r \in Requests, Replied(r) PROVE Inv'
  <2>1. stage[r] = "reply" /\ \A s \in Requests : s # r => stage[s] \notin Busy
    BY <1>10 DEF Replied
  <2> QED
    BY <1>10, <2>1 DEF Replied, Release, To
<1> QED
  BY <1>1, <1>2, <1>3, <1>4, <1>5, <1>6, <1>7, <1>8, <1>9, <1>10 DEF Next, Serve

\* Questions and answers carry no number, but a request that gives up takes the
\* helper with it, so each gets its own answer, for any number of requests.
THEOREM OwnAnswers ==
  ASSUME Nobody \notin Requests
  PROVE  Spec => []OwnAnswer
<1>1. Inv => OwnAnswer
  BY DEF Inv
<1> QED
  BY <1>1, Initially, Preserved, PTL DEF Spec
================================================================================
