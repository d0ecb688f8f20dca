------------------------------- MODULE Clipboard -------------------------------
(***************************************************************************)
(* The device's clipboard helper: one app_process kept for all requests,   *)
(* which answers them in the order it reads them, and the requests of many *)
(* streams that take turns at it under the manager's lock.  A request can  *)
(* be canceled while it waits for the lock or the helper; it keeps the lock *)
(* until its answer is written, which no cancellation cuts short.          *)
(***************************************************************************)
EXTENDS Integers, Sequences

CONSTANTS
    Requests,   \* ClipboardGet, Set and Clear streams
    MaxStarts   \* helpers started in a behaviour

VARIABLES
    stage,    \* a request: "lock", "begin", "exchange", "stop", "reply", "done"
    answer,   \* the request whose answer it was given, or Nobody
    stopped,  \* requests whose stream is canceled
    owner,    \* the request that holds the manager's lock, or Nobody
    helper,   \* ClipboardHelperManager.process: "none", "up", "exited"
    questions, answers,  \* what is in its pipes
    starts

vars == <<stage, answer, stopped, owner, helper, questions, answers, starts>>
Nobody == "nobody"

Init ==
    /\ stage = [r \in Requests |-> "lock"] /\ answer = [r \in Requests |-> Nobody]
    /\ stopped = {} /\ owner = Nobody
    /\ helper = "none" /\ questions = <<>> /\ answers = <<>> /\ starts = 0

-----------------------------------------------------------------------------
\* StreamCancel, or the end of the connection.
Cancel(r) ==
    /\ stage[r] # "done" /\ r \notin stopped /\ stopped' = stopped \union {r}
    /\ UNCHANGED <<stage, answer, owner, helper, questions, answers, starts>>

To(r, s) == stage' = [stage EXCEPT ![r] = s]

\* The lock, or the cancellation while waiting for it.
Lock(r) ==
    /\ stage[r] = "lock"
    /\ IF r \in stopped THEN To(r, "done") /\ UNCHANGED owner
                        ELSE owner = Nobody /\ owner' = r /\ To(r, "begin")
    /\ UNCHANGED <<answer, stopped, helper, questions, answers, starts>>

Release(r) == owner' = Nobody /\ To(r, "done")

\* request: canceled already; or a helper is there and has not exited, or one is
\* started, which may fail; and the question is written to it.
Begin(r) ==
    /\ stage[r] = "begin"
    /\ \/ /\ r \in stopped /\ Release(r) /\ UNCHANGED <<helper, questions, answers, starts>>
       \/ /\ r \notin stopped /\ helper = "up"
          /\ To(r, "exchange") /\ questions' = Append(questions, r)
          /\ UNCHANGED <<owner, helper, answers, starts>>
       \/ /\ r \notin stopped /\ helper # "up" /\ starts < MaxStarts
          /\ To(r, "exchange") /\ questions' = <<r>> /\ answers' = <<>>
          /\ helper' = "up" /\ starts' = starts + 1
          /\ UNCHANGED owner
       \/ /\ r \notin stopped /\ helper # "up" /\ Release(r)
          /\ helper' = "none" /\ UNCHANGED <<questions, answers, starts>>
    /\ UNCHANGED <<answer, stopped>>

\* The helper.  It may be slow, exit, or answer with a status nobody knows.
HelperAnswers ==
    /\ helper = "up" /\ questions # <<>> /\ questions' = Tail(questions)
    /\ \E status \in {"ok", "error", "unknown"} :
          answers' = Append(answers, [to |-> Head(questions), status |-> status])
    /\ UNCHANGED <<stage, answer, stopped, owner, helper, starts>>
HelperExits ==
    /\ helper = "up" /\ helper' = "exited"
    /\ UNCHANGED <<stage, answer, stopped, owner, questions, answers, starts>>

\* The answer: the first that comes is taken.  After an unknown status the
\* helper is stopped; an error is reported once the lock is free.
Answered(r) ==
    /\ stage[r] = "exchange" /\ r \notin stopped /\ answers # <<>>
    /\ answers' = Tail(answers)
    /\ answer' = [answer EXCEPT ![r] = Head(answers).to]
    /\ CASE Head(answers).status = "ok" -> To(r, "reply") /\ UNCHANGED owner
         [] Head(answers).status = "error" -> Release(r)
         [] Head(answers).status = "unknown" -> To(r, "stop") /\ UNCHANGED owner
    /\ UNCHANGED <<stopped, helper, questions, starts>>

\* The answer is written, or the connection is over.
Replied(r) ==
    /\ stage[r] = "reply" /\ Release(r)
    /\ UNCHANGED <<answer, stopped, helper, questions, answers, starts>>

\* Leaving the helper to the next request.
GiveUpOnly(r) ==
    /\ stage[r] = "exchange" /\ Release(r)
    /\ UNCHANGED <<answer, stopped, helper, questions, answers, starts>>

\* Without the five seconds.
GiveUpIfTold(r) ==
    /\ stage[r] = "exchange" /\ (r \in stopped \/ (helper = "exited" /\ answers = <<>>))
    /\ To(r, "stop")
    /\ UNCHANGED <<answer, stopped, owner, helper, questions, answers, starts>>

\* Canceled, five seconds over, or the helper's pipes closed.
GiveUp(r) ==
    /\ stage[r] = "exchange" /\ To(r, "stop")
    /\ UNCHANGED <<answer, stopped, owner, helper, questions, answers, starts>>

\* stop_process kills the helper and waits for it; the lock goes with the request.
Stop(r) ==
    /\ stage[r] = "stop" /\ Release(r)
    /\ helper' = "none" /\ questions' = <<>> /\ answers' = <<>>
    /\ UNCHANGED <<answer, stopped, starts>>

Serve(r) == Begin(r) \/ Answered(r) \/ Replied(r) \/ GiveUp(r) \/ Stop(r)
Next == HelperAnswers \/ HelperExits \/ \E r \in Requests : Lock(r) \/ Serve(r) \/ Cancel(r)
-----------------------------------------------------------------------------
(***************************************************************************)
(* Correctness.                                                            *)
(***************************************************************************)
\* Nobody is given the answer to another's question, although questions and
\* answers carry no number and a request may give up between them.
OwnAnswer == \A r \in Requests : answer[r] \in {Nobody, r}

\* Every request ends, whatever the helper does and whoever is in front of it.
EveryRequestEnds == \A r \in Requests : stage[r] # "done" ~> stage[r] = "done"
=============================================================================
