---------------------------- MODULE CreditWindow ----------------------------
(***************************************************************************)
(* What receive-window flow control promises for one file stream, whoever  *)
(* sends it: `push' (host to device) and `pull' (device to host) run the   *)
(* same protocol with the roles swapped.                                   *)
(*                                                                         *)
(* All four variables are cumulative byte offsets into the file:           *)
(*                                                                         *)
(*    consumed <= sent <= credited <= granted <= consumed + Window         *)
(*                                                                         *)
(* The sender's FlowCredit.available is credited - sent, the receiver's    *)
(* window_consumed is consumed + Window - granted, the bytes under way or  *)
(* queued are sent - consumed.  Neither FlowCredit bounds the receiver's   *)
(* buffer itself: the bound is a consequence of what both ends do.         *)
(***************************************************************************)
EXTENDS Integers

CONSTANTS
    Window,      \* FILE_FLOW_WINDOW, granted when the receiver is ready
    Threshold,   \* FILE_FLOW_UPDATE_THRESHOLD, consumed bytes worth a grant
    Chunk,       \* FILE_BUFFER_SIZE, the most bytes one FileChunk carries
    MaxCredit,   \* MAX_FLOW_CREDIT, a sender holding more closes the connection
    Total        \* the file's length

ASSUME WindowAssumption ==
    /\ Window \in Nat /\ Threshold \in Nat /\ Chunk \in Nat
    /\ MaxCredit \in Nat /\ Total \in Nat
    /\ 0 < Chunk
    /\ 0 < Threshold
    /\ Threshold + Chunk <= Window + 1
    /\ Window <= MaxCredit

VARIABLES sent, consumed, granted, credited

vars == <<sent, consumed, granted, credited>>

-----------------------------------------------------------------------------
Available == credited - sent
Buffered  == sent - consumed
\* Bytes written to the file and not yet given back to the sender.
Unreturned == consumed + Window - granted

Init == /\ sent = 0
        /\ consumed = 0
        /\ granted = 0
        /\ credited = 0

(***************************************************************************)
(* acquire_flow_credit takes a chunk's bytes, all or none.                 *)
(***************************************************************************)
Send(n) ==
    /\ n <= Total - sent
    /\ n <= Available
    /\ sent' = sent + n
    /\ UNCHANGED <<consumed, granted, credited>>

ConsumeUnchecked(n) == consumed' = consumed + n /\ UNCHANGED <<sent, granted, credited>>

\* The receiver takes a chunk from its queue and writes it to the file.
Consume(n) ==
    /\ n <= Buffered
    /\ consumed' = consumed + n
    /\ UNCHANGED <<sent, granted, credited>>

(***************************************************************************)
(* A window update is due when the receiver is ready (the whole window),   *)
(* then whenever the bytes consumed since the last one reach the threshold.*)
(***************************************************************************)
DueWhenEmpty == Unreturned >= Window

GrantDue == Unreturned >= Threshold

GrantWholeWindow ==
    /\ GrantDue
    /\ granted' = granted + Window
    /\ UNCHANGED <<sent, consumed, credited>>

Grant ==
    /\ GrantDue
    /\ granted' = granted + Unreturned
    /\ UNCHANGED <<sent, consumed, credited>>

\* A window update reaches the sender: FlowCredit.add.
Credit(n) ==
    /\ n <= granted - credited
    /\ credited' = credited + n
    /\ UNCHANGED <<sent, consumed, granted>>

Next == \/ \E n \in 1..Chunk : Send(n)
        \/ \E n \in 1..Chunk : Consume(n)
        \/ Grant
        \/ \E n \in 1..MaxCredit : Credit(n)

Spec == Init /\ [][Next]_vars

(***************************************************************************)
(* Both ends are tokio tasks that are polled as long as they are ready, and*)
(* TCP delivers while the connection is up.  The sender reads full chunks  *)
(* until the end of the file.                                              *)
(***************************************************************************)
FullChunk == IF Total - sent < Chunk THEN Total - sent ELSE Chunk

Fairness == /\ WF_vars(sent < Total /\ Send(FullChunk))
            /\ WF_vars(\E n \in 1..Chunk : Consume(n))
            /\ WF_vars(Grant)
            /\ WF_vars(\E n \in 1..MaxCredit : Credit(n))

FairSpec == Spec /\ Fairness

-----------------------------------------------------------------------------
\* Offsets of the file; the receiver's grants may run one window past its end.
TypeOK == /\ sent \in 0..Total
          /\ consumed \in 0..Total
          /\ granted \in 0..(Total + Window)
          /\ credited \in 0..(Total + Window)

(***************************************************************************)
(* The receiver never has to hold more than one window of bytes that it    *)
(* has not written, although no code on either side checks that: it is     *)
(* what the window is for (FILE_FLOW_WINDOW, account_file_window).         *)
(***************************************************************************)
WindowBound == Buffered <= Window

(***************************************************************************)
(* A well-behaved receiver never pushes the sender's credit over           *)
(* MAX_FLOW_CREDIT, which would close the whole connection and every other *)
(* stream on it.                                                           *)
(***************************************************************************)
CreditBound == Available <= MaxCredit

(***************************************************************************)
(* The sender is never left short for ever: once everything sent has been  *)
(* written and no grant is due or under way, it can send a full chunk.     *)
(* This is why the threshold leaves at least a chunk of the window: with   *)
(* Threshold = Window a chunk could wait for credit that is never granted. *)
(***************************************************************************)
Settled == /\ Buffered = 0
           /\ credited = granted
           /\ ~GrantDue

NeverShort == Settled => Chunk <= Available

\* The inductive invariant behind the two bounds and NeverShort.
CreditOrder ==
    /\ consumed <= sent
    /\ sent <= credited
    /\ credited <= granted
    /\ granted <= consumed + Window

Inv == TypeOK /\ CreditOrder

\* Every byte of the file is written in the end: the window never deadlocks.
Delivered == <>(consumed = Total)
=============================================================================
