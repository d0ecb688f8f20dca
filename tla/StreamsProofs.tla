----------------------------- MODULE StreamsProofs -----------------------------
(***************************************************************************)
(* Proofs, for every value of the constants, of what Streams promises.     *)
(*                                                                         *)
(* The receive window keeps its order and its bounds (CreditOrder).  The   *)
(* device forgets a stream whose handler is gone (StreamForgotten).  A     *)
(* success means a whole file (SuccessMeansWhole), a command that ended    *)
(* well has transferred everything (CommandTransfersAll).  Uploads and     *)
(* downloads implement the receive window (TransfersFollowWindow).  That   *)
(* they overflow no queue is module RoomProofs.                            *)
(*                                                                         *)
(* Each part below has its own invariant, stated before the lemmas that    *)
(* keep it, one for each task that takes steps.                            *)
(***************************************************************************)
EXTENDS Streams, FiniteSetTheorems, TLAPS

-----------------------------------------------------------------------------
(***************************************************************************)
(* The receive-window protocol.  WindowBound alone is not inductive: a     *)
(* Send is bounded by the sender's credit, not by what the receiver has    *)
(* room for.  CreditOrder, the chain                                       *)
(* consumed <= sent <= credited <= granted <= consumed + Window, is, and   *)
(* every bound follows from it.                                            *)
(***************************************************************************)
\* Nothing is sent, consumed, granted or credited at first, which is in order.
LEMMA InitInv == Init => Inv
  BY WindowAssumption DEF Init, Inv, TypeOK, CreditOrder, WindowAssumption

\* Every step of the sender, of the receiver and of the connection keeps the order.
LEMMA NextInv == Inv /\ [Next]_vars => Inv'
  <1> SUFFICES ASSUME Inv, [Next]_vars
               PROVE  Inv'
    OBVIOUS
  <1> USE WindowAssumption DEF WindowAssumption, Inv, TypeOK, CreditOrder
  <1>1. ASSUME NEW n \in 1..Chunk, Send(n)
        PROVE  Inv'
    BY <1>1 DEF Send, Available
  <1>2. ASSUME NEW n \in 1..Chunk, Consume(n)
        PROVE  Inv'
    BY <1>2 DEF Consume, Buffered
  <1>3. ASSUME Grant
        PROVE  Inv'
    BY <1>3 DEF Grant, GrantDue, Unreturned
  <1>4. ASSUME NEW n \in 1..MaxCredit, Credit(n)
        PROVE  Inv'
    BY <1>4 DEF Credit
  <1>5. CASE UNCHANGED vars
    BY <1>5 DEF vars
  <1>6. QED
    BY <1>1, <1>2, <1>3, <1>4, <1>5 DEF Next

LEMMA InvAlways == Spec => []Inv
  BY InitInv, NextInv, PTL DEF Spec

(***************************************************************************)
(* Offsets stay within the file, grants within one window of its end.      *)
(***************************************************************************)
THEOREM TypeCorrect == Spec => []TypeOK
  <1>1. Inv => TypeOK
    BY DEF Inv
  <1>2. QED
    BY <1>1, InvAlways, PTL

(***************************************************************************)
(* The chain of offsets always holds.                                      *)
(***************************************************************************)
THEOREM OrderHolds == Spec => []CreditOrder
  <1>1. Inv => CreditOrder
    BY DEF Inv
  <1>2. QED
    BY <1>1, InvAlways, PTL

(***************************************************************************)
(* The receiver never holds more than a window of unwritten bytes.         *)
(***************************************************************************)
THEOREM BufferBounded == Spec => []WindowBound
  <1>1. Inv => WindowBound
    BY WindowAssumption
       DEF WindowAssumption, Inv, TypeOK, CreditOrder, WindowBound, Buffered
  <1>2. QED
    BY <1>1, InvAlways, PTL

(***************************************************************************)
(* The sender's credit never exceeds MAX_FLOW_CREDIT.                      *)
(***************************************************************************)
THEOREM CreditBounded == Spec => []CreditBound
  <1>1. Inv => CreditBound
    BY WindowAssumption
       DEF WindowAssumption, Inv, TypeOK, CreditOrder, CreditBound, Available
  <1>2. QED
    BY <1>1, InvAlways, PTL

(***************************************************************************)
(* When everything is written and no grant is due, the sender can go on.   *)
(***************************************************************************)
THEOREM SenderNeverShort == Spec => []NeverShort
  <1>1. Inv => NeverShort
    BY WindowAssumption
       DEF WindowAssumption, Inv, TypeOK, CreditOrder, NeverShort, Settled,
           GrantDue, Unreturned, Buffered, Available
  <1>2. QED
    BY <1>1, InvAlways, PTL

-----------------------------------------------------------------------------
(***************************************************************************)
(* Streams: types.  A record is given by its fields and their types.       *)
(***************************************************************************)
FrameKinds == {"PushRequest", "PullRequest", "FileMeta", "FileChunk", "FileEnd", "Error",
               "StreamCancel", "StreamWindowUpdate"}
AnyFrame == [kind : FrameKinds, n : Int]
HostOK(h) ==
    /\ DOMAIN h = {"pc", "written", "chunk", "route", "queue", "cancel", "cancelTasks", "closed"}
    /\ h.written \in BOOLEAN /\ h.route \in BOOLEAN /\ h.cancel \in BOOLEAN /\ h.closed \in BOOLEAN
    /\ h.chunk \in Int /\ h.cancelTasks \in Int /\ h.queue \in Seq(AnyFrame)
DevOK(d) ==
    /\ DOMAIN d = {"pc", "written", "chunk", "route", "inbox", "flow", "cancels", "watch",
                   "canceled", "reader", "overflow"}
    /\ d.written \in BOOLEAN /\ d.route \in BOOLEAN /\ d.flow \in BOOLEAN /\ d.cancels \in BOOLEAN
    /\ d.watch \in BOOLEAN /\ d.canceled \in BOOLEAN /\ d.chunk \in Int /\ d.inbox \in Seq(AnyFrame)
XferOK(x) ==
    /\ DOMAIN x = {"left", "credit", "file", "unreturned", "granted"}
    /\ x.left \in Int /\ x.credit \in Int /\ x.file \in Int /\ x.unreturned \in Int /\ x.granted \in Int

StreamTypes ==
    /\ HostOK(host) /\ DevOK(dev) /\ XferOK(xfer)
    /\ h2d \in Seq(AnyFrame) /\ d2h \in Seq(AnyFrame)

LEMMA Constants ==
  Chunk \in Int /\ Window \in Int /\ Threshold \in Int /\ MaxCredit \in Int /\ FileUnits \in Int
BY WindowAssumption, StreamsAssumption DEF WindowAssumption, StreamsAssumption

\* Queues of frames.
LEMMA Queues ==
  ASSUME NEW q \in Seq(AnyFrame)
  PROVE  /\ \A f \in AnyFrame : Append(q, f) \in Seq(AnyFrame)
         /\ q # <<>> => /\ Head(q) \in AnyFrame /\ Head(q).n \in Int
                        /\ Tail(q) \in Seq(AnyFrame)
         /\ <<>> \in Seq(AnyFrame)
<1>1. q # <<>> => Head(q) \in AnyFrame
  OBVIOUS
<1>2. q # <<>> => Head(q).n \in Int
  BY <1>1 DEF AnyFrame
<1> QED
  BY <1>1, <1>2

LEMMA UFrames ==
  /\ \A k \in FrameKinds : U!Frame(k) \in AnyFrame
  /\ \A n \in Int : U!FileChunk(n) \in AnyFrame /\ U!WindowUpdate(n) \in AnyFrame
BY DEF U!Frame, U!FileChunk, U!WindowUpdate, AnyFrame, FrameKinds

LEMMA UDroppedOK ==
  ASSUME NEW h, HostOK(h), NEW pc, NEW completed
  PROVE  HostOK(U!Dropped(h, pc, completed))
<1>1. <<>> \in Seq(AnyFrame)
  OBVIOUS
<1> QED
  BY <1>1 DEF HostOK, U!Dropped

LEMMA UHostTypes == ASSUME StreamTypes, U!HostTask PROVE StreamTypes'
<1>1. HostOK(U!Failed)
  BY UDroppedOK DEF StreamTypes, U!Failed
<1>2. /\ h2d \in Seq(AnyFrame) /\ host.queue \in Seq(AnyFrame)
      /\ \A f \in AnyFrame : Append(h2d, f) \in Seq(AnyFrame)
      /\ host.queue # <<>> => HostOK(U!AfterReceiving)
  BY Queues DEF StreamTypes, HostOK, U!AfterReceiving
<1>3. ASSUME NEW pc, NEW f \in AnyFrame, U!HostWrite(pc, f) PROVE StreamTypes'
  <2>1. HostOK(host)'
    BY <1>1, <1>3 DEF StreamTypes, HostOK, U!HostWrite
  <2>2. h2d' \in Seq(AnyFrame)
    BY <1>2, <1>3 DEF U!HostWrite
  <2> QED
    BY <1>3, <2>1, <2>2 DEF StreamTypes, U!HostWrite
<1>4. ASSUME UNCHANGED <<dev, xfer, h2d, d2h>>, HostOK(host)' PROVE StreamTypes'
  BY <1>4 DEF StreamTypes
<1>5. ASSUME NEW pc, NEW next, U!HostWritten(pc, next) PROVE StreamTypes'
  <2>1. host' = U!Failed \/ host' = [host EXCEPT !.pc = next, !.written = FALSE, !.chunk = 0]
    BY <1>5 DEF U!HostWritten
  <2>2. HostOK([host EXCEPT !.pc = next, !.written = FALSE, !.chunk = 0])
    BY DEF StreamTypes, HostOK
  <2>3. HostOK(host)'
    BY <1>1, <2>1, <2>2
  <2> QED
    BY <1>4, <1>5, <2>3 DEF U!HostWritten
<1>6. ASSUME NEW pc, NEW with, U!HostRecv(pc, with), host.queue # <<>> => HostOK(with) PROVE StreamTypes'
  BY <1>1, <1>4, <1>6, UDroppedOK DEF StreamTypes, U!HostRecv
<1>7. CASE U!HostOpen
  BY <1>4, <1>7 DEF StreamTypes, HostOK, U!HostOpen
<1>8. CASE U!HostRequest
  BY <1>3, <1>5, <1>8, UFrames DEF U!HostRequest, FrameKinds
<1>9. CASE U!HostRecvMeta
  BY <1>2, <1>6, <1>9, UDroppedOK DEF U!HostRecvMeta, HostOK
<1>10. CASE U!HostReadFile
  <2>1. \A n \in U!ReadSizes : n \in Int
    BY Constants DEF StreamTypes, XferOK, U!ReadSizes
  <2> QED
    BY <1>1, <1>4, <1>10, <2>1 DEF U!HostReadFile, StreamTypes, HostOK
<1>11. CASE U!HostAcquire
  <2>1. HostOK(host)'
    BY <1>1, <1>11 DEF U!HostAcquire, StreamTypes, HostOK
  <2>3. XferOK(U!Paid(host.chunk))
    BY DEF U!Paid, StreamTypes, XferOK, HostOK
  <2>2. XferOK(xfer)'
    BY <1>11, <2>3 DEF U!HostAcquire, StreamTypes
  <2> QED
    BY <1>11, <2>1, <2>2 DEF U!HostAcquire, StreamTypes
<1>12. CASE U!HostSendChunk
  <2>1. U!FileChunk(host.chunk) \in AnyFrame
    BY UFrames DEF StreamTypes, HostOK
  <2> QED
    BY <1>3, <1>5, <1>12, <2>1 DEF U!HostSendChunk
<1>13. CASE U!HostPoll
  <2>1. \/ \E completed : host' = U!Dropped(host, "err", completed)
        \/ host' = U!Failed \/ host' = [host EXCEPT !.pc = "read"]
    BY <1>13 DEF U!HostPoll
  <2>3. HostOK([host EXCEPT !.pc = "read"])
    BY DEF StreamTypes, HostOK
  <2>2. HostOK(host)'
    BY <1>1, <2>1, <2>3, UDroppedOK DEF StreamTypes
  <2> QED
    BY <1>4, <1>13, <2>2 DEF U!HostPoll
<1>14. CASE U!HostSendEnd
  BY <1>3, <1>5, <1>14, UFrames DEF U!HostSendEnd, FrameKinds
<1>15. CASE U!HostRecvDone
  BY <1>2, <1>6, <1>15, UDroppedOK DEF U!HostRecvDone
<1> QED
  BY <1>7, <1>8, <1>9, <1>10, <1>11, <1>12, <1>13, <1>14, <1>15 DEF U!HostTask

LEMMA UDevTypes == ASSUME StreamTypes, U!DevTask PROVE StreamTypes'
<1>1. DevOK(U!DevFail)
  BY DEF StreamTypes, DevOK, U!DevFail
<1>2. /\ d2h \in Seq(AnyFrame) /\ dev.inbox \in Seq(AnyFrame)
      /\ \A f \in AnyFrame : Append(d2h, f) \in Seq(AnyFrame)
      /\ dev.inbox # <<>> => Tail(dev.inbox) \in Seq(AnyFrame) /\ Head(dev.inbox).n \in Int
      /\ <<>> \in Seq(AnyFrame)
  BY Queues DEF StreamTypes, DevOK
<1>3. ASSUME NEW pc, NEW f \in AnyFrame, U!DevWrite(pc, f) PROVE StreamTypes'
  <2>1. DevOK(dev)'
    BY <1>1, <1>3 DEF StreamTypes, DevOK, U!DevWrite
  <2>2. d2h' \in Seq(AnyFrame)
    BY <1>2, <1>3 DEF U!DevWrite
  <2> QED
    BY <1>3, <2>1, <2>2 DEF StreamTypes, U!DevWrite
<1>4. ASSUME UNCHANGED <<host, xfer, h2d, d2h>>, DevOK(dev)' PROVE StreamTypes'
  BY <1>4 DEF StreamTypes
<1>5. ASSUME NEW pc, NEW next, U!DevWritten(pc, next) PROVE StreamTypes'
  <2>1. dev' = U!DevFail \/ dev' = [dev EXCEPT !.pc = next, !.written = FALSE, !.chunk = 0]
    BY <1>5 DEF U!DevWritten
  <2>2. DevOK([dev EXCEPT !.pc = next, !.written = FALSE, !.chunk = 0])
    BY DEF StreamTypes, DevOK
  <2>3. DevOK(dev)'
    BY <1>1, <2>1, <2>2
  <2> QED
    BY <1>4, <1>5, <2>3 DEF U!DevWritten
<1>6. \A pc : DevOK([dev EXCEPT !.pc = pc])
  BY DEF StreamTypes, DevOK
<1>7. CASE U!DevCreate \/ U!DevFlush
  BY <1>1, <1>4, <1>6, <1>7 DEF U!DevCreate, U!DevFlush
<1>8. CASE U!DevSendMeta \/ U!DevSendEnd
  BY <1>3, <1>5, <1>8, UFrames DEF U!DevSendMeta, U!DevSendEnd, FrameKinds
<1>9. CASE U!DevGrant
  <2>1. CASE U!DevInactive
    BY <1>1, <1>4, <1>9, <2>1 DEF U!DevGrant
  <2>2. CASE ~U!DevInactive
    <3>1. \A o : U!GrantSize(o) \in Int
      BY Constants DEF U!GrantSize, StreamTypes, XferOK
    <3>2. PICK n \in Int : /\ d2h' = Append(d2h, U!WindowUpdate(n)) /\ xfer' = U!Granted(n)
                           /\ dev' = [dev EXCEPT !.pc = "recv"]
      BY <1>9, <2>2, <3>1 DEF U!DevGrant
    <3>3. XferOK(U!Granted(n))
      BY DEF U!Granted, StreamTypes, XferOK
    <3>4. d2h' \in Seq(AnyFrame)
      BY <1>2, <3>2, UFrames
    <3> QED
      BY <1>6, <1>9, <3>2, <3>3, <3>4 DEF U!DevGrant, StreamTypes
  <2> QED
    BY <2>1, <2>2
<1>10. CASE U!DevRecv
  <2>1. CASE dev' = U!DevFail
    BY <1>1, <1>4, <1>10, <2>1 DEF U!DevRecv
  <2>2. CASE dev' # U!DevFail
    <3>1. /\ dev.inbox # <<>>
          /\ \/ dev' = [dev EXCEPT !.inbox = Tail(@), !.pc = "write", !.chunk = Head(dev.inbox).n]
             \/ dev' = [dev EXCEPT !.inbox = Tail(@), !.pc = "flush"]
             \/ dev' = [dev EXCEPT !.inbox = Tail(@), !.pc = "unroute_err"]
      BY <1>10, <2>2 DEF U!DevRecv
    <3>2. \A pc : DevOK([dev EXCEPT !.inbox = Tail(@), !.pc = pc])
      BY <1>2, <3>1 DEF StreamTypes, DevOK
    <3>3. DevOK([dev EXCEPT !.inbox = Tail(@), !.pc = "write", !.chunk = Head(dev.inbox).n])
      BY <1>2, <3>1 DEF StreamTypes, DevOK
    <3> QED
      BY <1>4, <1>10, <3>1, <3>2, <3>3 DEF U!DevRecv
  <2> QED
    BY <2>1, <2>2
<1>11. CASE U!DevWriteFile
  <2>1. CASE dev' = U!DevFail /\ UNCHANGED xfer
    BY <1>1, <1>4, <1>11, <2>1 DEF U!DevWriteFile
  <2>2. CASE xfer' = U!Written(dev.chunk) /\ \E pc : dev' = [dev EXCEPT !.chunk = 0, !.pc = pc]
    <3>1. XferOK(U!Written(dev.chunk))
      BY DEF U!Written, StreamTypes, XferOK, DevOK
    <3>2. DevOK(dev)'
      BY <2>2 DEF StreamTypes, DevOK
    <3> QED
      BY <1>11, <2>2, <3>1, <3>2 DEF U!DevWriteFile, StreamTypes
  <2> QED
    BY <1>11, <2>1, <2>2 DEF U!DevWriteFile
<1>12. CASE U!DevEnding
  <2>1. DevOK(dev)'
    BY <1>2, <1>12 DEF U!DevEnding, U!DevUnregister, U!DevReport, U!DevFinish, StreamTypes, DevOK
  <2>2. d2h' \in Seq(AnyFrame)
    BY <1>2, <1>12, UFrames DEF U!DevEnding, U!DevUnregister, U!DevReport, U!DevFinish, FrameKinds
  <2> QED
    BY <1>12, <2>1, <2>2 DEF U!DevEnding, U!DevUnregister, U!DevReport, U!DevFinish, StreamTypes
<1> QED
  BY <1>7, <1>8, <1>9, <1>10, <1>11, <1>12 DEF U!DevTask

LEMMA UConnectionTypes == ASSUME StreamTypes, U!Connection PROVE StreamTypes'
<1>1. /\ h2d \in Seq(AnyFrame) /\ d2h \in Seq(AnyFrame) /\ dev.inbox \in Seq(AnyFrame) /\ host.queue \in Seq(AnyFrame)
      /\ \A f \in AnyFrame : /\ Append(d2h, f) \in Seq(AnyFrame) /\ Append(h2d, f) \in Seq(AnyFrame)
                             /\ Append(dev.inbox, f) \in Seq(AnyFrame) /\ Append(host.queue, f) \in Seq(AnyFrame)
      /\ d2h # <<>> => Tail(d2h) \in Seq(AnyFrame) /\ Head(d2h) \in AnyFrame /\ Head(d2h).n \in Int
      /\ h2d # <<>> => Tail(h2d) \in Seq(AnyFrame) /\ Head(h2d) \in AnyFrame /\ Head(h2d).n \in Int
  BY Queues DEF StreamTypes, DevOK, HostOK
<1>2. HostOK(U!Closed(host))
  BY DEF U!Closed, StreamTypes, HostOK
<1>3. \A n \in Int : XferOK([xfer EXCEPT !.credit = @ + n])
  BY DEF StreamTypes, XferOK
<1>4. CASE U!HostReader
  <2>1. XferOK(xfer)'
    BY <1>1, <1>3, <1>4 DEF U!HostReader, StreamTypes
  <2>2. HostOK([host EXCEPT !.route = FALSE, !.cancel = TRUE])
    BY DEF StreamTypes, HostOK
  <2>3. d2h # <<>> => HostOK(U!HostDeliver(Head(d2h)))
    <3>1. HostOK([host EXCEPT !.route = FALSE, !.cancel = TRUE, !.cancelTasks = @ + 1])
      BY DEF StreamTypes, HostOK
    <3>2. d2h # <<>> => HostOK([host EXCEPT !.queue = Append(@, Head(d2h))])
      BY <1>1 DEF StreamTypes, HostOK
    <3> QED
      BY <3>1, <3>2 DEF U!HostDeliver
  <2>4. HostOK(host)'
    BY <1>2, <1>4, <2>2, <2>3 DEF U!HostReader, StreamTypes
  <2> QED
    BY <1>1, <1>4, <2>1, <2>4 DEF U!HostReader, StreamTypes
<1>5. CASE U!HostReaderEnds
  BY <1>2, <1>5 DEF U!HostReaderEnds, StreamTypes
<1>6. CASE U!HostCancelTask
  <2>1. HostOK(host)'
    BY <1>6 DEF U!HostCancelTask, StreamTypes, HostOK
  <2>2. h2d' \in Seq(AnyFrame)
    BY <1>1, <1>6, UFrames DEF U!HostCancelTask, FrameKinds
  <2> QED
    BY <1>6, <2>1, <2>2 DEF U!HostCancelTask, StreamTypes
<1>7. CASE U!DevReader
  <2>1. XferOK(xfer)'
    BY <1>1, <1>3, <1>7 DEF U!DevReader, StreamTypes
  <2>2. /\ DevOK(U!CanceledByHost) /\ \A r : DevOK([dev EXCEPT !.reader = r])
        /\ \A k : DevOK(U!Opened(k))
    BY DEF U!CanceledByHost, U!Opened, StreamTypes, DevOK
  <2>3. h2d # <<>> => DevOK(U!DevDeliver(Head(h2d)))
    <3>1. DevOK([dev EXCEPT !.route = FALSE, !.overflow = "mark"])
      BY DEF StreamTypes, DevOK
    <3>2. h2d # <<>> => DevOK([dev EXCEPT !.inbox = Append(@, Head(h2d))])
      BY <1>1 DEF StreamTypes, DevOK
    <3> QED
      BY <3>1, <3>2 DEF U!DevDeliver
  <2>4. DevOK(dev)'
    BY <1>7, <2>2, <2>3 DEF U!DevReader, StreamTypes
  <2> QED
    BY <1>1, <1>7, <2>1, <2>4 DEF U!DevReader, StreamTypes
<1>8. CASE U!DevStray
  <2>1. DevOK(dev)'
    BY <1>8 DEF U!DevStray, StreamTypes, DevOK
  <2>2. d2h' \in Seq(AnyFrame)
    BY <1>1, <1>8, UFrames DEF U!DevStray, FrameKinds
  <2> QED
    BY <1>8, <2>1, <2>2 DEF U!DevStray, StreamTypes
<1>9. CASE U!DevTeardown
  <2>1. DevOK(dev)'
    BY <1>9 DEF U!DevTeardown, StreamTypes, DevOK
  <2> QED
    BY <1>9, <2>1 DEF U!DevTeardown, StreamTypes
<1>10. CASE U!DevCancelTask
  <2>1. DevOK(dev)'
    BY <1>10 DEF U!DevCancelTask, StreamTypes, DevOK
  <2>2. d2h' \in Seq(AnyFrame)
    BY <1>1, <1>10, UFrames DEF U!DevCancelTask, FrameKinds
  <2> QED
    BY <1>10, <2>1, <2>2 DEF U!DevCancelTask, StreamTypes
<1>11. CASE U!LinkBreaks
  BY <1>11 DEF U!LinkBreaks, StreamTypes
<1> QED
  BY <1>4, <1>5, <1>6, <1>7, <1>8, <1>9, <1>10, <1>11 DEF U!Connection

LEMMA DFrames ==
  /\ \A k \in FrameKinds : D!Frame(k) \in AnyFrame
  /\ \A n \in Int : D!FileChunk(n) \in AnyFrame /\ D!WindowUpdate(n) \in AnyFrame
BY DEF D!Frame, D!FileChunk, D!WindowUpdate, AnyFrame, FrameKinds

LEMMA DDroppedOK ==
  ASSUME NEW h, HostOK(h), NEW pc, NEW completed
  PROVE  HostOK(D!Dropped(h, pc, completed))
<1>1. <<>> \in Seq(AnyFrame)
  OBVIOUS
<1> QED
  BY <1>1 DEF HostOK, D!Dropped

LEMMA DHostTypes == ASSUME StreamTypes, D!HostTask PROVE StreamTypes'
<1>1. HostOK(D!Failed)
  BY DDroppedOK DEF StreamTypes, D!Failed
<1>2. /\ h2d \in Seq(AnyFrame) /\ host.queue \in Seq(AnyFrame)
      /\ \A f \in AnyFrame : Append(h2d, f) \in Seq(AnyFrame)
      /\ host.queue # <<>> => HostOK(D!AfterReceiving) /\ D!Received.n \in Int
  BY Queues DEF StreamTypes, HostOK, D!AfterReceiving, D!Received
<1>3. ASSUME NEW pc, NEW f \in AnyFrame, D!HostWrite(pc, f) PROVE StreamTypes'
  <2>1. HostOK(host)'
    BY <1>1, <1>3 DEF StreamTypes, HostOK, D!HostWrite
  <2>2. h2d' \in Seq(AnyFrame)
    BY <1>2, <1>3 DEF D!HostWrite
  <2> QED
    BY <1>3, <2>1, <2>2 DEF StreamTypes, D!HostWrite
<1>4. ASSUME UNCHANGED <<dev, xfer, h2d, d2h>>, HostOK(host)' PROVE StreamTypes'
  BY <1>4 DEF StreamTypes
<1>5. ASSUME NEW pc, NEW next, D!HostWritten(pc, next) PROVE StreamTypes'
  <2>1. host' = D!Failed \/ host' = [host EXCEPT !.pc = next, !.written = FALSE, !.chunk = 0]
    BY <1>5 DEF D!HostWritten
  <2>2. HostOK([host EXCEPT !.pc = next, !.written = FALSE, !.chunk = 0])
    BY DEF StreamTypes, HostOK
  <2>3. HostOK(host)'
    BY <1>1, <2>1, <2>2
  <2> QED
    BY <1>4, <1>5, <2>3 DEF D!HostWritten
<1>6. ASSUME NEW pc, NEW with, D!HostRecv(pc, with), host.queue # <<>> => HostOK(with) PROVE StreamTypes'
  BY <1>1, <1>4, <1>6, DDroppedOK DEF StreamTypes, D!HostRecv
<1>7. CASE D!HostOpen
  BY <1>4, <1>7 DEF StreamTypes, HostOK, D!HostOpen
<1>8. CASE D!HostRequest
  BY <1>3, <1>5, <1>8, DFrames DEF D!HostRequest, FrameKinds
<1>9. CASE D!HostRecvMeta
  BY <1>2, <1>6, <1>9, DDroppedOK DEF D!HostRecvMeta, HostOK
<1>10. CASE D!HostCreate
  <2>1. HostOK([host EXCEPT !.pc = "open_window"])
    BY DEF StreamTypes, HostOK
  <2> QED
    BY <1>1, <1>4, <1>10, <2>1 DEF D!HostCreate
<1>11. ASSUME NEW pc, D!HostGrant(pc) PROVE StreamTypes'
  <2>1. CASE D!HostWritten(pc, "recv")
    BY <1>5, <2>1
  <2>2. CASE host' = D!Failed /\ UNCHANGED <<dev, xfer, h2d, d2h>>
    BY <1>1, <1>4, <2>2
  <2>3. CASE /\ h2d' = Append(h2d, D!WindowUpdate(D!GrantSize(pc = "open_window")))
             /\ xfer' = D!Granted(D!GrantSize(pc = "open_window"))
             /\ host' = [host EXCEPT !.written = TRUE] /\ UNCHANGED <<dev, d2h>>
    <3>1. D!GrantSize(pc = "open_window") \in Int
      BY Constants DEF D!GrantSize, StreamTypes, XferOK
    <3>2. \A n \in Int : XferOK(D!Granted(n))
      BY DEF D!Granted, StreamTypes, XferOK
    <3>3. h2d' \in Seq(AnyFrame)
      BY <1>2, <2>3, <3>1, DFrames
    <3>4. HostOK([host EXCEPT !.written = TRUE])
      BY DEF StreamTypes, HostOK
    <3> QED
      BY <2>3, <3>1, <3>2, <3>3, <3>4 DEF StreamTypes
  <2> QED
    BY <1>11, <2>1, <2>2, <2>3 DEF D!HostGrant
<1>12. CASE D!HostRecvFrame
  <2>1. host.queue # <<>> => /\ HostOK([D!AfterReceiving EXCEPT !.pc = "write", !.chunk = D!Received.n])
                             /\ HostOK([D!AfterReceiving EXCEPT !.pc = "flush"])
    BY <1>2 DEF HostOK
  <2> QED
    BY <1>2, <1>6, <1>12, <2>1, DDroppedOK DEF D!HostRecvFrame
<1>13. CASE D!HostWriteFile
  <2>1. CASE host' = D!Failed /\ UNCHANGED xfer
    BY <1>1, <1>4, <1>13, <2>1 DEF D!HostWriteFile
  <2>2. CASE xfer' = D!Written(host.chunk) /\ \E pc : host' = [host EXCEPT !.chunk = 0, !.pc = pc]
    <3>1. XferOK(D!Written(host.chunk))
      BY DEF D!Written, StreamTypes, XferOK, HostOK
    <3>2. HostOK(host)'
      BY <2>2 DEF StreamTypes, HostOK
    <3> QED
      BY <1>13, <2>2, <3>1, <3>2 DEF D!HostWriteFile, StreamTypes
  <2> QED
    BY <1>13, <2>1, <2>2 DEF D!HostWriteFile
<1>14. CASE D!HostFlush
  BY <1>4, <1>14, DDroppedOK DEF D!HostFlush, StreamTypes
<1> QED
  BY <1>7, <1>8, <1>9, <1>10, <1>11, <1>12, <1>13, <1>14 DEF D!HostTask

LEMMA DDevTypes == ASSUME StreamTypes, D!DevTask PROVE StreamTypes'
<1>1. DevOK(D!DevFail)
  BY DEF StreamTypes, DevOK, D!DevFail
<1>2. /\ d2h \in Seq(AnyFrame) /\ <<>> \in Seq(AnyFrame)
      /\ \A f \in AnyFrame : Append(d2h, f) \in Seq(AnyFrame)
  BY Queues DEF StreamTypes
<1>3. ASSUME NEW pc, NEW f \in AnyFrame, D!DevWrite(pc, f) PROVE StreamTypes'
  <2>1. DevOK(dev)'
    BY <1>1, <1>3 DEF StreamTypes, DevOK, D!DevWrite
  <2>2. d2h' \in Seq(AnyFrame)
    BY <1>2, <1>3 DEF D!DevWrite
  <2> QED
    BY <1>3, <2>1, <2>2 DEF StreamTypes, D!DevWrite
<1>4. ASSUME UNCHANGED <<host, xfer, h2d, d2h>>, DevOK(dev)' PROVE StreamTypes'
  BY <1>4 DEF StreamTypes
<1>5. ASSUME NEW pc, NEW next, D!DevWritten(pc, next) PROVE StreamTypes'
  <2>1. dev' = D!DevFail \/ dev' = [dev EXCEPT !.pc = next, !.written = FALSE, !.chunk = 0]
    BY <1>5 DEF D!DevWritten
  <2>2. DevOK([dev EXCEPT !.pc = next, !.written = FALSE, !.chunk = 0])
    BY DEF StreamTypes, DevOK
  <2>3. DevOK(dev)'
    BY <1>1, <2>1, <2>2
  <2> QED
    BY <1>4, <1>5, <2>3 DEF D!DevWritten
<1>6. /\ \A pc : DevOK([dev EXCEPT !.pc = pc])
      /\ \A n \in Int : DevOK([dev EXCEPT !.pc = "credit", !.chunk = n])
  BY DEF StreamTypes, DevOK
<1>7. CASE D!DevOpen
  BY <1>1, <1>4, <1>6, <1>7 DEF D!DevOpen
<1>8. CASE D!DevSendMeta \/ D!DevSendEnd
  BY <1>3, <1>5, <1>8, DFrames DEF D!DevSendMeta, D!DevSendEnd, FrameKinds
<1>9. CASE D!DevReadFile
  <2>1. \A n \in D!ReadSizes : n \in Int
    BY Constants DEF StreamTypes, XferOK, D!ReadSizes
  <2>2. DevOK(dev)'
    BY <1>1, <1>6, <1>9, <2>1 DEF D!DevReadFile
  <2> QED
    BY <1>4, <1>9, <2>2 DEF D!DevReadFile
<1>10. CASE D!DevAcquire
  <2>1. DevOK(dev)'
    BY <1>1, <1>6, <1>10 DEF D!DevAcquire
  <2>2. XferOK(D!Paid(dev.chunk))
    BY DEF D!Paid, StreamTypes, XferOK, DevOK
  <2>3. XferOK(xfer)'
    BY <1>10, <2>2 DEF D!DevAcquire, StreamTypes
  <2> QED
    BY <1>10, <2>1, <2>3 DEF D!DevAcquire, StreamTypes
<1>11. CASE D!DevSendChunk
  <2>1. D!FileChunk(dev.chunk) \in AnyFrame
    BY DFrames DEF StreamTypes, DevOK
  <2> QED
    BY <1>3, <1>5, <1>11, <2>1 DEF D!DevSendChunk
<1>12. CASE D!DevEnding
  <2>1. DevOK(dev)'
    BY <1>2, <1>12 DEF D!DevEnding, D!DevUnregister, D!DevReport, D!DevFinish, StreamTypes, DevOK
  <2>2. d2h' \in Seq(AnyFrame)
    BY <1>2, <1>12, DFrames DEF D!DevEnding, D!DevUnregister, D!DevReport, D!DevFinish, FrameKinds
  <2> QED
    BY <1>12, <2>1, <2>2 DEF D!DevEnding, D!DevUnregister, D!DevReport, D!DevFinish, StreamTypes
<1> QED
  BY <1>7, <1>8, <1>9, <1>10, <1>11, <1>12 DEF D!DevTask

LEMMA InitTypes == U!Init => StreamTypes
<1>1. <<>> \in Seq(AnyFrame)
  OBVIOUS
<1> QED
  BY <1>1, Constants DEF U!Init, StreamTypes, HostOK, DevOK, XferOK

\* Every step is one of these: the subject of a behaviour never changes, and
\* the others' variables stay as they were.
LEMMA StreamCases ==
  ASSUME [StreamsNext]_streamsVars
  PROVE  /\ kind' = kind
         /\ \/ UNCHANGED streamVars
            \/ kind = "push" /\ (U!HostTask \/ U!DevTask)
            \/ kind = "pull" /\ (D!HostTask \/ D!DevTask)
            \/ kind \in {"push", "pull"} /\ U!Connection
         /\ kind # "window" => UNCHANGED vars
         /\ kind # "command" => UNCHANGED transferVars
BY DEF StreamsNext, streamsVars, WindowStep, PushStep, PullStep, StreamStep, CommandStep

LEMMA NextTypes == ASSUME StreamTypes, [StreamsNext]_streamsVars PROVE StreamTypes'
<1>1. CASE UNCHANGED streamVars
  BY <1>1 DEF streamVars, StreamTypes
<1> QED
  BY <1>1, StreamCases, UHostTypes, UDevTypes, DHostTypes, DDevTypes, UConnectionTypes

\* What the invariants rest on.
LEMMA SafetyPart == StreamsSpec => StreamsInit /\ [][StreamsNext]_streamsVars
BY PTL DEF StreamsSpec

LEMMA TypesAlways == StreamsSpec => []StreamTypes
<1>1. StreamsInit => StreamTypes
  BY InitTypes DEF StreamsInit
<1>2. StreamTypes /\ [StreamsNext]_streamsVars => StreamTypes'
  BY NextTypes
<1> QED
  BY <1>1, <1>2, SafetyPart, PTL

-----------------------------------------------------------------------------
(***************************************************************************)
(* The device keeps nothing of a stream whose handler is gone.  A handler   *)
(* drops the route and the cancellation entry before it reports and the     *)
(* credit when it finishes, and nothing registers them again: a request is  *)
(* sent once (Once), and only a request opens the stream.                   *)
(***************************************************************************)
LEMMA AppendAt ==
  ASSUME NEW q \in Seq(AnyFrame), NEW f \in AnyFrame
  PROVE  /\ Len(q) \in Nat /\ Len(Append(q, f)) = Len(q) + 1
         /\ \A i \in 1..Len(q) : Append(q, f)[i] = q[i]
         /\ Append(q, f)[Len(q) + 1] = f
OBVIOUS

LEMMA TailAt ==
  ASSUME NEW q \in Seq(AnyFrame), q # <<>>
  PROVE  /\ Len(q) \in Nat \ {0} /\ Len(Tail(q)) = Len(q) - 1 /\ Head(q) = q[1]
         /\ \A i \in 1..(Len(q) - 1) : Tail(q)[i] = q[i + 1]
OBVIOUS

RequestKinds == {"PushRequest", "PullRequest"}
Unrequested == host.pc = "open" \/ (host.pc = "request" /\ ~host.written)
Once ==
    \A i \in 1..Len(h2d) : h2d[i].kind \in RequestKinds =>
        /\ dev.pc = "none" /\ ~Unrequested
        /\ \A j \in 1..Len(h2d) : h2d[j].kind \in RequestKinds => j = i
Released ==
    /\ Unrequested => dev.pc = "none"
    /\ dev.pc = "none" => ~dev.route /\ ~dev.cancels /\ ~dev.flow
    /\ dev.pc \in {"report", "finish", "gone"} => ~dev.route /\ ~dev.cancels
    /\ dev.pc = "gone" => ~dev.flow
LeftInv == Once /\ Released

\* What a step of the host does to this: nothing, or it hands over a frame.
HostMove ==
    /\ UNCHANGED dev /\ (Unrequested' => Unrequested)
    /\ \/ UNCHANGED h2d
       \/ \E f \in AnyFrame : /\ h2d' = Append(h2d, f)
                              /\ f.kind \in RequestKinds => Unrequested /\ ~Unrequested'
\* What a step of the device does: entries go, they do not come.
Falls == (dev'.route => dev.route) /\ (dev'.cancels => dev.cancels) /\ (dev'.flow => dev.flow)
DevMove ==
    /\ UNCHANGED <<host, h2d>> /\ Falls
    /\ \/ dev'.pc = dev.pc
       \/ /\ dev.pc # "none" /\ dev'.pc # "none"
          /\ dev'.pc \in {"report", "finish", "gone"} =>
                dev.pc \in {"report", "finish", "gone"} \/ (~dev'.route /\ ~dev'.cancels)
          /\ dev'.pc = "gone" => ~dev'.flow
\* The reader's step: only a request opens the stream.
ReaderMove ==
    /\ UNCHANGED host /\ h2d # <<>> /\ h2d' = Tail(h2d)
    /\ \/ Falls /\ dev'.pc = dev.pc
       \/ Head(h2d).kind \in RequestKinds /\ dev'.pc = "create"

LEMMA UHostMoves == ASSUME StreamTypes, U!HostTask PROVE HostMove
<1>1. DOMAIN host = {"pc", "written", "chunk", "route", "queue", "cancel", "cancelTasks", "closed"}
  BY DEF StreamTypes, HostOK
<1>2. \A h, pc, c : "pc" \in DOMAIN h => U!Dropped(h, pc, c).pc = pc
  BY DEF U!Dropped
<1>3. U!Failed.pc = "err"
  BY <1>1, <1>2 DEF U!Failed
<1>4. ASSUME NEW pc, NEW f \in AnyFrame, U!HostWrite(pc, f), f.kind \in RequestKinds => pc = "request"
      PROVE HostMove
  BY <1>1, <1>3, <1>4 DEF U!HostWrite, HostMove, Unrequested
<1>5. ASSUME UNCHANGED <<dev, h2d>>, Unrequested' => Unrequested PROVE HostMove
  BY <1>5 DEF HostMove
<1>6. ASSUME NEW pc, NEW next \in {"meta", "poll", "done"}, U!HostWritten(pc, next) PROVE HostMove
  <2>1. host'.pc \in {next, "err"}
    BY <1>1, <1>3, <1>6 DEF U!HostWritten
  <2> QED
    BY <1>5, <1>6, <2>1 DEF U!HostWritten, Unrequested
<1>7. ASSUME NEW pc, NEW with, U!HostRecv(pc, with), with.pc \in {"read", "ok", "err"} PROVE HostMove
  <2>1. host'.pc \in {"read", "ok", "err"}
    BY <1>1, <1>2, <1>3, <1>7 DEF U!HostRecv
  <2> QED
    BY <1>5, <1>7, <2>1 DEF U!HostRecv, Unrequested
<1>8. DOMAIN U!AfterReceiving = DOMAIN host
  BY <1>1 DEF U!AfterReceiving
<1>9. CASE U!HostOpen
  BY <1>1, <1>5, <1>9 DEF U!HostOpen, Unrequested
<1>10. CASE U!HostRequest
  BY <1>4, <1>6, <1>10, UFrames DEF U!HostRequest, FrameKinds
<1>11. CASE U!HostRecvMeta
  <2>1. /\ [U!AfterReceiving EXCEPT !.pc = "read"].pc = "read"
        /\ \A c : U!Dropped(U!AfterReceiving, "err", c).pc = "err"
    BY <1>1, <1>2, <1>8
  <2> QED
    BY <1>7, <1>11, <2>1 DEF U!HostRecvMeta
<1>12. CASE U!HostReadFile
  <2>1. host'.pc \in {"err", "end", "credit"}
    BY <1>1, <1>3, <1>12 DEF U!HostReadFile
  <2> QED
    BY <1>5, <1>12, <2>1 DEF U!HostReadFile, Unrequested
<1>13. CASE U!HostAcquire
  <2>1. host'.pc \in {"err", "chunk"}
    BY <1>1, <1>3, <1>13 DEF U!HostAcquire
  <2> QED
    BY <1>5, <1>13, <2>1 DEF U!HostAcquire, Unrequested
<1>14. CASE U!HostSendChunk
  <2>1. U!FileChunk(host.chunk) \in AnyFrame /\ U!FileChunk(host.chunk).kind = "FileChunk"
    BY UFrames DEF StreamTypes, HostOK, U!FileChunk
  <2> QED
    BY <1>4, <1>6, <1>14, <2>1 DEF U!HostSendChunk, RequestKinds
<1>15. CASE U!HostPoll
  <2>1. host'.pc \in {"err", "read"}
    BY <1>1, <1>2, <1>3, <1>15 DEF U!HostPoll
  <2> QED
    BY <1>5, <1>15, <2>1 DEF U!HostPoll, Unrequested
<1>16. CASE U!HostSendEnd
  <2>1. U!Frame("FileEnd") \in AnyFrame /\ U!Frame("FileEnd").kind = "FileEnd"
    BY UFrames DEF FrameKinds, U!Frame
  <2> QED
    BY <1>4, <1>6, <1>16, <2>1 DEF U!HostSendEnd, RequestKinds
<1>17. CASE U!HostRecvDone
  <2>1. \A pc, c : U!Dropped(U!AfterReceiving, pc, c).pc = pc
    BY <1>1, <1>2, <1>8
  <2> QED
    BY <1>7, <1>17, <2>1 DEF U!HostRecvDone
<1> QED
  BY <1>9, <1>10, <1>11, <1>12, <1>13, <1>14, <1>15, <1>16, <1>17 DEF U!HostTask

LEMMA DHostMoves == ASSUME StreamTypes, D!HostTask PROVE HostMove
<1>1. DOMAIN host = {"pc", "written", "chunk", "route", "queue", "cancel", "cancelTasks", "closed"}
  BY DEF StreamTypes, HostOK
<1>2. \A h, pc, c : "pc" \in DOMAIN h => D!Dropped(h, pc, c).pc = pc
  BY DEF D!Dropped
<1>3. D!Failed.pc = "err"
  BY <1>1, <1>2 DEF D!Failed
<1>4. ASSUME NEW pc, NEW f \in AnyFrame, D!HostWrite(pc, f), f.kind \in RequestKinds => pc = "request"
      PROVE HostMove
  BY <1>1, <1>3, <1>4 DEF D!HostWrite, HostMove, Unrequested
<1>5. ASSUME UNCHANGED <<dev, h2d>>, Unrequested' => Unrequested PROVE HostMove
  BY <1>5 DEF HostMove
<1>6. ASSUME NEW pc, NEW next \in {"meta", "recv"}, D!HostWritten(pc, next) PROVE HostMove
  <2>1. host'.pc \in {next, "err"}
    BY <1>1, <1>3, <1>6 DEF D!HostWritten
  <2> QED
    BY <1>5, <1>6, <2>1 DEF D!HostWritten, Unrequested
<1>7. ASSUME NEW pc, NEW with, D!HostRecv(pc, with), with.pc \in {"create", "write", "flush", "err"} PROVE HostMove
  <2>1. host'.pc \in {"create", "write", "flush", "err"}
    BY <1>1, <1>2, <1>3, <1>7 DEF D!HostRecv
  <2> QED
    BY <1>5, <1>7, <2>1 DEF D!HostRecv, Unrequested
<1>8. DOMAIN D!AfterReceiving = DOMAIN host
  BY <1>1 DEF D!AfterReceiving
<1>9. CASE D!HostOpen
  BY <1>1, <1>5, <1>9 DEF D!HostOpen, Unrequested
<1>10. CASE D!HostRequest
  BY <1>4, <1>6, <1>10, DFrames DEF D!HostRequest, FrameKinds
<1>11. CASE D!HostRecvMeta
  <2>1. /\ [D!AfterReceiving EXCEPT !.pc = "create"].pc = "create"
        /\ \A c : D!Dropped(D!AfterReceiving, "err", c).pc = "err"
    BY <1>1, <1>2, <1>8
  <2> QED
    BY <1>7, <1>11, <2>1 DEF D!HostRecvMeta
<1>12. CASE D!HostCreate
  <2>1. host'.pc \in {"err", "open_window"}
    BY <1>1, <1>3, <1>12 DEF D!HostCreate
  <2> QED
    BY <1>5, <1>12, <2>1 DEF D!HostCreate, Unrequested
<1>13. ASSUME NEW pc \in {"open_window", "grant"}, D!HostGrant(pc) PROVE HostMove
  <2>1. CASE D!HostWritten(pc, "recv")
    BY <1>6, <2>1
  <2>2. CASE host' = D!Failed /\ UNCHANGED <<dev, h2d>>
    BY <1>3, <1>5, <2>2 DEF Unrequested
  <2>3. CASE /\ host.pc = pc /\ h2d' = Append(h2d, D!WindowUpdate(D!GrantSize(pc = "open_window")))
             /\ host' = [host EXCEPT !.written = TRUE] /\ UNCHANGED dev
    <3>1. D!GrantSize(pc = "open_window") \in Int
      BY Constants DEF D!GrantSize, StreamTypes, XferOK
    <3>2. \A n \in Int : D!WindowUpdate(n) \in AnyFrame /\ D!WindowUpdate(n).kind \notin RequestKinds
      BY DFrames DEF D!WindowUpdate, RequestKinds
    <3>3. ~Unrequested'
      BY <1>1, <2>3 DEF Unrequested
    <3> QED
      BY <2>3, <3>1, <3>2, <3>3 DEF HostMove
  <2> QED
    BY <1>13, <2>1, <2>2, <2>3 DEF D!HostGrant
<1>14. CASE D!HostRecvFrame
  <2>1. /\ [D!AfterReceiving EXCEPT !.pc = "write", !.chunk = D!Received.n].pc = "write"
        /\ [D!AfterReceiving EXCEPT !.pc = "flush"].pc = "flush"
        /\ \A c : D!Dropped(D!AfterReceiving, "err", c).pc = "err"
    BY <1>1, <1>2, <1>8
  <2> QED
    BY <1>7, <1>14, <2>1 DEF D!HostRecvFrame
<1>15. CASE D!HostWriteFile
  <2>1. host'.pc \in {"err", "grant", "recv"}
    BY <1>1, <1>3, <1>15 DEF D!HostWriteFile
  <2> QED
    BY <1>5, <1>15, <2>1 DEF D!HostWriteFile, Unrequested
<1>16. CASE D!HostFlush
  <2>1. host'.pc \in {"err", "ok"}
    BY <1>1, <1>2, <1>16 DEF D!HostFlush
  <2> QED
    BY <1>5, <1>16, <2>1 DEF D!HostFlush, Unrequested
<1> QED
  BY <1>9, <1>10, <1>11, <1>12, <1>13, <1>14, <1>15, <1>16 DEF D!HostTask

LEMMA UDevMoves == ASSUME StreamTypes, U!DevTask PROVE DevMove
<1>1. DOMAIN dev = {"pc", "written", "chunk", "route", "inbox", "flow", "cancels", "watch",
                    "canceled", "reader", "overflow"}
  BY DEF StreamTypes, DevOK
<1>2. U!DevFail.pc = "unroute_err" /\ \A x \in {"route", "cancels", "flow"} : U!DevFail[x] = dev[x]
  BY <1>1 DEF U!DevFail
<1>3. ASSUME UNCHANGED <<host, h2d>>, dev.pc # "none", Falls,
             dev'.pc \notin {"none", "report", "finish", "gone"}
      PROVE DevMove
  BY <1>3 DEF DevMove
<1>4. ASSUME NEW pc \in {"meta", "end"}, NEW f, U!DevWrite(pc, f) PROVE DevMove
  <2>1. dev' = U!DevFail \/ dev' = [dev EXCEPT !.written = TRUE]
    BY <1>4 DEF U!DevWrite
  <2> QED
    BY <1>1, <1>2, <1>3, <1>4, <2>1 DEF U!DevWrite, Falls
<1>5. ASSUME NEW pc \in {"meta", "end"}, NEW next \in {"open_window", "unroute_ok"}, U!DevWritten(pc, next) PROVE DevMove
  <2>1. dev' = U!DevFail \/ dev' = [dev EXCEPT !.pc = next, !.written = FALSE, !.chunk = 0]
    BY <1>5 DEF U!DevWritten
  <2> QED
    BY <1>1, <1>2, <1>3, <1>5, <2>1 DEF U!DevWritten, Falls
<1>6. CASE U!DevCreate \/ U!DevFlush
  BY <1>1, <1>2, <1>3, <1>6 DEF U!DevCreate, U!DevFlush, Falls
<1>7. CASE U!DevSendMeta \/ U!DevSendEnd
  BY <1>4, <1>5, <1>7 DEF U!DevSendMeta, U!DevSendEnd
<1>8. CASE U!DevGrant
  BY <1>1, <1>2, <1>3, <1>8 DEF U!DevGrant, Falls
<1>9. CASE U!DevRecv
  BY <1>1, <1>2, <1>3, <1>9 DEF U!DevRecv, Falls
<1>10. CASE U!DevWriteFile
  BY <1>1, <1>2, <1>3, <1>10 DEF U!DevWriteFile, Falls
<1>11. CASE U!DevEnding
  <2>1. CASE U!DevUnregister
    BY <1>1, <2>1 DEF U!DevUnregister, DevMove, Falls
  <2>2. CASE U!DevReport \/ U!DevFinish
    BY <1>1, <2>2 DEF U!DevReport, U!DevFinish, DevMove, Falls
  <2> QED
    BY <1>11, <2>1, <2>2 DEF U!DevEnding
<1> QED
  BY <1>6, <1>7, <1>8, <1>9, <1>10, <1>11 DEF U!DevTask

LEMMA DDevMoves == ASSUME StreamTypes, D!DevTask PROVE DevMove
<1>1. DOMAIN dev = {"pc", "written", "chunk", "route", "inbox", "flow", "cancels", "watch",
                    "canceled", "reader", "overflow"}
  BY DEF StreamTypes, DevOK
<1>2. D!DevFail.pc = "unroute_err" /\ \A x \in {"route", "cancels", "flow"} : D!DevFail[x] = dev[x]
  BY <1>1 DEF D!DevFail
<1>3. ASSUME UNCHANGED <<host, h2d>>, dev.pc # "none", Falls,
             dev'.pc \notin {"none", "report", "finish", "gone"}
      PROVE DevMove
  BY <1>3 DEF DevMove
<1>4. ASSUME NEW pc \in {"meta", "chunk", "end"}, NEW f, D!DevWrite(pc, f) PROVE DevMove
  <2>1. dev' = D!DevFail \/ dev' = [dev EXCEPT !.written = TRUE]
    BY <1>4 DEF D!DevWrite
  <2> QED
    BY <1>1, <1>2, <1>3, <1>4, <2>1 DEF D!DevWrite, Falls
<1>5. ASSUME NEW pc \in {"meta", "chunk", "end"}, NEW next \in {"read", "unroute_ok"}, D!DevWritten(pc, next) PROVE DevMove
  <2>1. dev' = D!DevFail \/ dev' = [dev EXCEPT !.pc = next, !.written = FALSE, !.chunk = 0]
    BY <1>5 DEF D!DevWritten
  <2> QED
    BY <1>1, <1>2, <1>3, <1>5, <2>1 DEF D!DevWritten, Falls
<1>6. CASE D!DevOpen
  BY <1>1, <1>2, <1>3, <1>6 DEF D!DevOpen, Falls
<1>7. CASE D!DevSendMeta \/ D!DevSendChunk \/ D!DevSendEnd
  BY <1>4, <1>5, <1>7 DEF D!DevSendMeta, D!DevSendChunk, D!DevSendEnd
<1>8. CASE D!DevReadFile
  BY <1>1, <1>2, <1>3, <1>8 DEF D!DevReadFile, Falls
<1>9. CASE D!DevAcquire
  BY <1>1, <1>2, <1>3, <1>9 DEF D!DevAcquire, Falls
<1>10. CASE D!DevEnding
  <2>1. CASE D!DevUnregister
    BY <1>1, <2>1 DEF D!DevUnregister, DevMove, Falls
  <2>2. CASE D!DevReport \/ D!DevFinish
    BY <1>1, <2>2 DEF D!DevReport, D!DevFinish, DevMove, Falls
  <2> QED
    BY <1>10, <2>1, <2>2 DEF D!DevEnding
<1> QED
  BY <1>6, <1>7, <1>8, <1>9, <1>10 DEF D!DevTask

LEMMA ConnectionMoves == ASSUME StreamTypes, LeftInv, U!Connection PROVE HostMove \/ DevMove \/ ReaderMove
<1>1. /\ DOMAIN host = {"pc", "written", "chunk", "route", "queue", "cancel", "cancelTasks", "closed"}
      /\ DOMAIN dev = {"pc", "written", "chunk", "route", "inbox", "flow", "cancels", "watch",
                       "canceled", "reader", "overflow"}
  BY DEF StreamTypes, HostOK, DevOK
<1>2. ASSUME UNCHANGED <<dev, h2d>>, host'.pc = host.pc, host'.written = host.written PROVE HostMove
  BY <1>2 DEF HostMove, Unrequested
<1>3. CASE U!HostReader
  <2>1. host'.pc = host.pc /\ host'.written = host.written
    BY <1>1, <1>3 DEF U!HostReader, U!HostDeliver, U!Closed
  <2> QED
    BY <1>2, <1>3, <2>1 DEF U!HostReader
<1>4. CASE U!HostReaderEnds
  BY <1>1, <1>2, <1>4 DEF U!HostReaderEnds, U!Closed
<1>5. CASE U!HostCancelTask
  <2>1. U!Frame("StreamCancel") \in AnyFrame /\ U!Frame("StreamCancel").kind = "StreamCancel"
    BY UFrames DEF FrameKinds, U!Frame
  <2>2. host'.pc = host.pc /\ host'.written = host.written
    BY <1>1, <1>5 DEF U!HostCancelTask
  <2> QED
    BY <1>5, <2>1, <2>2 DEF U!HostCancelTask, HostMove, Unrequested, RequestKinds
<1>6. CASE U!DevReader
  <2>1. h2d # <<>> /\ Head(h2d).kind \in RequestKinds => dev.pc = "none"
    BY TailAt DEF LeftInv, Once, StreamTypes
  <2>2. CASE Head(h2d).kind = "StreamWindowUpdate"
    BY <1>1, <1>6, <2>2 DEF U!DevReader, ReaderMove, Falls
  <2>3. CASE Head(h2d).kind = "StreamCancel"
    BY <1>1, <1>6, <2>3 DEF U!DevReader, U!CanceledByHost, ReaderMove, Falls
  <2>4. CASE Head(h2d).kind \notin {"StreamWindowUpdate", "StreamCancel"}
    <3>1. dev' = IF dev.route THEN U!DevDeliver(Head(h2d))
                 ELSE IF Head(h2d).kind \in U!Requests THEN U!Opened(Head(h2d).kind)
                 ELSE [dev EXCEPT !.reader = "stray"]
      BY <1>6, <2>4 DEF U!DevReader
    <3>2. (Falls /\ dev'.pc = dev.pc) \/ (Head(h2d).kind \in RequestKinds /\ dev'.pc = "create")
      BY <1>1, <3>1 DEF U!DevDeliver, U!Opened, U!Requests, RequestKinds, Falls
    <3> QED
      BY <1>6, <3>2 DEF U!DevReader, ReaderMove
  <2> QED
    BY <2>2, <2>3, <2>4
<1>7. CASE U!DevStray \/ U!DevTeardown \/ U!DevCancelTask
  <2>1. dev'.pc = dev.pc /\ Falls
    BY <1>1, <1>7 DEF U!DevStray, U!DevTeardown, U!DevCancelTask, Falls
  <2> QED
    BY <1>7, <2>1 DEF U!DevStray, U!DevTeardown, U!DevCancelTask, DevMove
<1>8. CASE U!LinkBreaks
  BY <1>2, <1>8 DEF U!LinkBreaks
<1> QED
  BY <1>3, <1>4, <1>5, <1>6, <1>7, <1>8 DEF U!Connection

LEMMA LeftStep ==
  ASSUME StreamTypes, LeftInv, HostMove \/ DevMove \/ ReaderMove
  PROVE  LeftInv'
<1>1. Once /\ Released
  BY DEF LeftInv
<1>2. CASE HostMove
  <2>1. Released'
    BY <1>1, <1>2 DEF HostMove, Released
  <2>2. CASE UNCHANGED h2d
    BY <1>1, <1>2, <2>1, <2>2 DEF HostMove, LeftInv, Once
  <2>3. ASSUME NEW f \in AnyFrame, h2d' = Append(h2d, f),
               f.kind \in RequestKinds => Unrequested /\ ~Unrequested'
        PROVE Once'
    <3>1. /\ Len(h2d) \in Nat /\ Len(h2d') = Len(h2d) + 1 /\ h2d'[Len(h2d) + 1] = f
          /\ \A i \in 1..Len(h2d) : h2d'[i] = h2d[i]
      BY <2>3, AppendAt DEF StreamTypes
    <3>2. dev'.pc = dev.pc /\ (Unrequested' => Unrequested) /\ (Unrequested => dev.pc = "none")
      BY <1>1, <1>2 DEF HostMove, Released
    <3>3. CASE f.kind \in RequestKinds
      <4>1. \A i \in 1..Len(h2d) : h2d[i].kind \notin RequestKinds
        BY <1>1, <2>3, <3>3 DEF Once
      <4> QED
        BY <2>3, <3>1, <3>2, <3>3, <4>1 DEF Once
    <3>4. CASE f.kind \notin RequestKinds
      BY <1>1, <3>1, <3>2, <3>4 DEF Once
    <3> QED
      BY <3>3, <3>4
  <2> QED
    BY <1>2, <2>1, <2>2, <2>3 DEF HostMove, LeftInv
<1>3. CASE DevMove
  <2>1. (dev.pc = "none" <=> dev'.pc = "none") /\ (Unrequested' <=> Unrequested) /\ h2d' = h2d
    BY <1>3 DEF DevMove, Unrequested
  <2>2. Once'
    BY <1>1, <2>1 DEF Once
  <2>3. Released'
    BY <1>1, <1>3, <2>1 DEF DevMove, Released, Falls
  <2> QED
    BY <2>2, <2>3 DEF LeftInv
<1>4. CASE ReaderMove
  <2>1. /\ Len(h2d) \in Nat \ {0} /\ Len(h2d') = Len(h2d) - 1 /\ Head(h2d) = h2d[1]
        /\ \A i \in 1..Len(h2d') : h2d'[i] = h2d[i + 1]
    BY <1>4, TailAt DEF ReaderMove, StreamTypes
  <2>2. Unrequested' <=> Unrequested
    BY <1>4 DEF ReaderMove, Unrequested
  <2>3. CASE Falls /\ dev'.pc = dev.pc
    <3>1. Released'
      BY <1>1, <2>2, <2>3 DEF Released, Falls
    <3>2. \A i \in 1..Len(h2d') : i + 1 \in 1..Len(h2d)
      BY <2>1
    <3>3. ASSUME NEW i \in 1..Len(h2d'), h2d'[i].kind \in RequestKinds
          PROVE  dev.pc = "none" /\ ~Unrequested
                 /\ \A j \in 1..Len(h2d') : h2d'[j].kind \in RequestKinds => j = i
      <4>1. h2d[i + 1].kind \in RequestKinds /\ i + 1 \in 1..Len(h2d)
        BY <2>1, <3>2, <3>3
      <4>2. \A j \in 1..Len(h2d) : h2d[j].kind \in RequestKinds => j = i + 1
        BY <1>1, <4>1 DEF Once
      <4>3. \A j \in 1..Len(h2d') : h2d'[j].kind \in RequestKinds => j + 1 = i + 1
        BY <2>1, <3>2, <4>2
      <4> QED
        BY <1>1, <2>1, <4>1, <4>3 DEF Once
    <3>4. Once'
      BY <2>2, <2>3, <3>3 DEF Once
    <3> QED
      BY <3>1, <3>4 DEF LeftInv
  <2>4. CASE Head(h2d).kind \in RequestKinds /\ dev'.pc = "create"
    <3>1. h2d[1].kind \in RequestKinds /\ 1 \in 1..Len(h2d)
      BY <2>1, <2>4
    <3>2. ~Unrequested /\ \A j \in 1..Len(h2d) : h2d[j].kind \in RequestKinds => j = 1
      BY <1>1, <3>1 DEF Once
    <3>3. \A i \in 1..Len(h2d') : i + 1 \in 1..Len(h2d) /\ i + 1 # 1
      BY <2>1
    <3>4. \A i \in 1..Len(h2d') : h2d'[i].kind \notin RequestKinds
      BY <2>1, <3>2, <3>3
    <3>5. Once' /\ Released'
      BY <2>2, <2>4, <3>2, <3>4 DEF Once, Released
    <3> QED
      BY <3>5 DEF LeftInv
  <2> QED
    BY <1>4, <2>3, <2>4 DEF ReaderMove
<1> QED
  BY <1>2, <1>3, <1>4

LEMMA LeftInit == U!Init => LeftInv
BY DEF U!Init, LeftInv, Once, Released

LEMMA LeftNext == StreamTypes /\ LeftInv /\ [StreamsNext]_streamsVars => LeftInv'
<1> SUFFICES ASSUME StreamTypes, LeftInv, [StreamsNext]_streamsVars PROVE LeftInv'
  OBVIOUS
<1>1. CASE UNCHANGED streamVars
  BY <1>1 DEF streamVars, LeftInv, Once, Released, Unrequested
<1> QED
  BY <1>1, StreamCases, UHostMoves, DHostMoves, UDevMoves, DDevMoves, ConnectionMoves, LeftStep

LEMMA LeftAlways == StreamsSpec => []LeftInv
<1>1. StreamsInit => LeftInv
  BY LeftInit DEF StreamsInit
<1> QED
  BY <1>1, LeftNext, TypesAlways, SafetyPart, PTL

(***************************************************************************)
(* The device keeps no route, no cancellation entry and no credit for a     *)
(* stream whose handler is gone (`finish_stream' in sidewired), whatever    *)
(* fails and in whatever order frames, cancellations and the end of the     *)
(* connection reach it.                                                     *)
(***************************************************************************)
THEOREM StreamForgotten == StreamsSpec => []NothingLeftBehind
<1>1. LeftInv => NothingLeftBehind
  BY DEF LeftInv, Released, NothingLeftBehind, U!NothingLeftBehind, U!DevEnded
<1> QED
  BY <1>1, LeftAlways, PTL

-----------------------------------------------------------------------------
(***************************************************************************)
(* The host reports success only for a whole file.  A pull compares what it *)
(* wrote with the announced length.  A push relies on the order of frames:  *)
(* what the device has written, the chunks in its inbox and those under way *)
(* are one run of offsets into the file, and FileEnd comes at its end.      *)
(***************************************************************************)
Bytes(f) == IF f.kind = "FileChunk" THEN f.n ELSE 0

\* The frames of q carry the file from offset a to offset b.
Chain(q, a, b) ==
    \E off \in [0..Len(q) -> Int] :
        /\ off[0] = a /\ off[Len(q)] = b
        /\ \A i \in 1..Len(q) : /\ off[i] = off[i - 1] + Bytes(q[i])
                                /\ q[i].kind = "FileEnd" => off[i - 1] = FileUnits

LEMMA BytesInt == \A f \in AnyFrame : Bytes(f) \in Int
BY DEF AnyFrame, Bytes

LEMMA ChainEmpty == ASSUME NEW a \in Int PROVE Chain(<<>>, a, a)
<1> DEFINE p == [i \in 0..Len(<<>>) |-> a]
<1>1. p \in [0..Len(<<>>) -> Int] /\ Len(<<>>) = 0 /\ p[0] = a
  OBVIOUS
<1>2. ~(\E i \in 1..Len(<<>>) : TRUE)
  BY <1>1
<1> HIDE DEF p
<1> QED
  BY <1>1, <1>2 DEF Chain

LEMMA ChainAppend ==
  ASSUME NEW q \in Seq(AnyFrame), NEW f \in AnyFrame, NEW a \in Int, NEW b \in Int,
         Chain(q, a, b), f.kind = "FileEnd" => b = FileUnits
  PROVE  Chain(Append(q, f), a, b + Bytes(f))
<1>1. PICK off \in [0..Len(q) -> Int] :
        /\ off[0] = a /\ off[Len(q)] = b
        /\ \A i \in 1..Len(q) : /\ off[i] = off[i - 1] + Bytes(q[i])
                                /\ q[i].kind = "FileEnd" => off[i - 1] = FileUnits
  BY DEF Chain
<1>2. /\ Len(q) \in Nat /\ Len(Append(q, f)) = Len(q) + 1 /\ Append(q, f)[Len(q) + 1] = f
      /\ \A i \in 1..Len(q) : Append(q, f)[i] = q[i]
  BY AppendAt
<1>3. b + Bytes(f) \in Int
  BY BytesInt
<1> DEFINE p == [i \in 0..(Len(q) + 1) |-> IF i = Len(q) + 1 THEN b + Bytes(f) ELSE off[i]]
<1>4. p \in [0..(Len(q) + 1) -> Int]
  BY <1>2, <1>3
<1>5. p[0] = a /\ p[Len(q) + 1] = b + Bytes(f)
  BY <1>1, <1>2
<1>6. ASSUME NEW i \in 1..(Len(q) + 1)
      PROVE  /\ p[i] = p[i - 1] + Bytes(Append(q, f)[i])
             /\ Append(q, f)[i].kind = "FileEnd" => p[i - 1] = FileUnits
  <2>1. CASE i \in 1..Len(q)
    <3>1. p[i] = off[i] /\ p[i - 1] = off[i - 1]
      BY <1>2, <2>1
    <3> QED
      BY <1>1, <1>2, <2>1, <3>1
  <2>2. CASE i = Len(q) + 1
    <3>1. p[i] = b + Bytes(f) /\ p[i - 1] = b
      BY <1>1, <1>2, <2>2
    <3> QED
      BY <1>2, <2>2, <3>1
  <2> QED
    BY <1>2, <2>1, <2>2
<1> HIDE DEF p
<1> DEFINE r == Append(q, f)
           d == b + Bytes(f)
<1>7. /\ p \in [0..Len(r) -> Int] /\ p[0] = a /\ p[Len(r)] = d
      /\ \A i \in 1..Len(r) : /\ p[i] = p[i - 1] + Bytes(r[i])
                              /\ r[i].kind = "FileEnd" => p[i - 1] = FileUnits
  BY <1>2, <1>4, <1>5, <1>6
<1> HIDE DEF r, d
<1>8. Chain(r, a, d)
  BY <1>7 DEF Chain
<1> QED
  BY <1>8 DEF r, d

LEMMA ChainTail ==
  ASSUME NEW q \in Seq(AnyFrame), q # <<>>, NEW a \in Int, NEW b \in Int, Chain(q, a, b)
  PROVE  /\ Chain(Tail(q), a + Bytes(Head(q)), b)
         /\ Head(q).kind = "FileEnd" => a = FileUnits
<1>1. PICK off \in [0..Len(q) -> Int] :
        /\ off[0] = a /\ off[Len(q)] = b
        /\ \A i \in 1..Len(q) : /\ off[i] = off[i - 1] + Bytes(q[i])
                                /\ q[i].kind = "FileEnd" => off[i - 1] = FileUnits
  BY DEF Chain
<1>2. /\ Len(q) \in Nat \ {0} /\ Len(Tail(q)) = Len(q) - 1 /\ Head(q) = q[1]
      /\ \A i \in 1..(Len(q) - 1) : Tail(q)[i] = q[i + 1]
  BY TailAt
<1>3. 1 \in 1..Len(q) /\ 1 - 1 = 0
  BY <1>2
<1>4. off[1] = a + Bytes(q[1]) /\ (q[1].kind = "FileEnd" => a = FileUnits)
  BY <1>1, <1>3
<1> DEFINE p == [i \in 0..(Len(q) - 1) |-> off[i + 1]]
<1>5. p \in [0..(Len(q) - 1) -> Int]
  BY <1>2
<1>6. p[0] = a + Bytes(Head(q)) /\ p[Len(q) - 1] = b
  BY <1>1, <1>2, <1>4
<1>7. ASSUME NEW i \in 1..(Len(q) - 1)
      PROVE  /\ p[i] = p[i - 1] + Bytes(Tail(q)[i])
             /\ Tail(q)[i].kind = "FileEnd" => p[i - 1] = FileUnits
  <2>1. i + 1 \in 1..Len(q) /\ (i + 1) - 1 = i
    BY <1>2
  <2>2. /\ off[i + 1] = off[i] + Bytes(q[i + 1])
        /\ q[i + 1].kind = "FileEnd" => off[i] = FileUnits
    BY <1>1, <2>1
  <2>3. p[i] = off[i + 1] /\ p[i - 1] = off[i]
    BY <1>2
  <2> QED
    BY <1>2, <2>2, <2>3
<1>8. Head(q).kind = "FileEnd" => a = FileUnits
  BY <1>2, <1>4
<1> HIDE DEF p
<1>9. p \in [0..Len(Tail(q)) -> Int] /\ p[0] = a + Bytes(Head(q)) /\ p[Len(Tail(q))] = b
  BY <1>2, <1>5, <1>6
<1>10. \A i \in 1..Len(Tail(q)) : /\ p[i] = p[i - 1] + Bytes(Tail(q)[i])
                                  /\ Tail(q)[i].kind = "FileEnd" => p[i - 1] = FileUnits
  BY <1>2, <1>7
<1> QED
  BY <1>8, <1>9, <1>10 DEF Chain

\* What the device has written or holds, and what the host has sent.
Got == xfer.file + (IF dev.pc = "write" THEN dev.chunk ELSE 0)
Put == FileUnits - xfer.left - (IF host.pc = "chunk" /\ ~host.written THEN host.chunk ELSE 0)

Asking    == {"open", "request", "meta"}
Receiving == {"create", "meta", "open_window", "recv", "write", "grant"}
Flushed   == {"flush", "end", "unroute_ok"}
Closing   == {"end", "unroute_ok", "unroute_err", "report", "finish", "gone"}

PushShape ==
    /\ host.written => host.pc \in {"request", "chunk", "end"}
    /\ host.pc = "end" => xfer.left = 0

\* Until the request reaches the device there is nothing but requests.
NotYet ==
    dev.pc = "none" =>
        /\ host.pc \in Asking \union {"err"} /\ host.queue = <<>> /\ d2h = <<>> /\ dev.inbox = <<>>
        /\ xfer.file = 0 /\ xfer.left = FileUnits /\ dev.overflow = "none" /\ dev.reader # "stray"
        /\ \A i \in 1..Len(h2d) : h2d[i].kind \in RequestKinds \union {"StreamCancel"}

InOrder ==
    /\ dev.pc \in Receiving \union {"none"} =>
          \E mid \in Int :
              /\ Chain(dev.inbox, Got, mid)
              /\ dev.route \/ dev.pc = "none" =>
                    \E last \in Int : Chain(h2d, mid, last) /\ (host.pc # "err" => last = Put)
    /\ dev.pc \in Flushed => xfer.file = FileUnits

\* A FileEnd of the device's comes after the last byte is written.
EndIn(q) == \E i \in 1..Len(q) : q[i].kind = "FileEnd"
Answer ==
    EndIn(d2h) \/ EndIn(host.queue) \/ host.pc = "ok" =>
        xfer.file = FileUnits /\ dev.pc \in Closing

PushInv == PushShape /\ NotYet /\ InOrder /\ Answer

PushHostMove ==
    /\ UNCHANGED <<dev, d2h>> /\ xfer'.file = xfer.file /\ host.pc \notin {"ok", "err"} /\ PushShape'
    /\ \/ UNCHANGED host.queue \/ host'.queue = <<>>
       \/ host.queue # <<>> /\ host'.queue = Tail(host.queue)
    /\ host'.pc = "ok" => host.queue # <<>> /\ Head(host.queue).kind = "FileEnd"
    /\ \/ UNCHANGED h2d /\ (host'.pc = "err" \/ Put' = Put)
       \/ \E f \in AnyFrame : /\ h2d' = Append(h2d, f) /\ Put' = Put + Bytes(f)
                              /\ f.kind = "FileEnd" => Put = FileUnits
                              /\ host.pc \in Asking => f.kind \in RequestKinds
    /\ host.pc \in Asking /\ host.queue = <<>> =>
          host'.pc \in Asking \union {"err"} /\ host'.queue = <<>> /\ xfer'.left = xfer.left

LEMMA UHostPush == ASSUME StreamTypes, PushShape, U!HostTask PROVE PushHostMove
<1>1. /\ DOMAIN host = {"pc", "written", "chunk", "route", "queue", "cancel", "cancelTasks", "closed"}
      /\ host.chunk \in Int /\ host.written \in BOOLEAN
  BY DEF StreamTypes, HostOK
<1>2. /\ \A h, pc, c : DOMAIN h = DOMAIN host =>
            /\ U!Dropped(h, pc, c).pc = pc /\ ~U!Dropped(h, pc, c).written
            /\ U!Dropped(h, pc, c).queue = <<>>
      /\ U!Failed.pc = "err" /\ ~U!Failed.written /\ U!Failed.queue = <<>>
  BY <1>1 DEF U!Dropped, U!Failed
<1>3. ASSUME UNCHANGED <<dev, xfer, h2d, d2h>>, host.pc \notin {"ok", "err"}, ~host'.written, host'.queue = <<>>,
             \/ host'.pc = "err"
             \/ /\ host.pc = "done" /\ host'.pc = "ok"
                /\ host.queue # <<>> /\ Head(host.queue).kind = "FileEnd"
      PROVE  PushHostMove
  <2>1. PushShape'
    BY <1>3 DEF PushShape
  <2>2. host'.pc = "err" \/ Put' = Put
    BY <1>3 DEF Put
  <2> QED
    BY <1>3, <2>1, <2>2 DEF PushHostMove, Asking
<1>4. ASSUME UNCHANGED <<dev, xfer, h2d, d2h>>, host.pc \notin {"ok", "err"}, ~host'.written,
             host'.queue = host.queue \/ (host.queue # <<>> /\ host'.queue = Tail(host.queue)),
             host.pc \in Asking => host'.pc \in Asking \/ host.queue # <<>>,
             host'.pc \notin {"ok", "chunk"}, host'.pc = "end" => xfer.left = 0,
             host.pc = "chunk" => host.written
      PROVE  PushHostMove
  <2>1. PushShape'
    BY <1>4 DEF PushShape
  <2>2. Put' = Put
    BY <1>4 DEF Put
  <2> QED
    BY <1>4, <2>1, <2>2 DEF PushHostMove
<1>5. ASSUME NEW pc \in {"request", "chunk", "end"}, NEW f \in AnyFrame, U!HostWrite(pc, f),
             Bytes(f) = IF pc = "chunk" THEN host.chunk ELSE 0, f.kind = "FileEnd" => pc = "end",
             pc = "request" => f.kind \in RequestKinds
      PROVE  PushHostMove
  <2>1. CASE host' = U!Failed /\ UNCHANGED h2d
    BY <1>2, <1>3, <1>5, <2>1 DEF U!HostWrite
  <2>2. CASE h2d' = Append(h2d, f) /\ host' = [host EXCEPT !.written = TRUE]
    <3>1. /\ host.pc = pc /\ ~host.written /\ xfer' = xfer /\ UNCHANGED <<dev, d2h>>
          /\ host'.pc = pc /\ host'.written /\ host'.chunk = host.chunk /\ host'.queue = host.queue
      BY <1>1, <1>5, <2>2 DEF U!HostWrite
    <3>2. PushShape'
      BY <3>1 DEF PushShape
    <3>3. xfer.left \in Int /\ FileUnits \in Int
      BY Constants DEF StreamTypes, XferOK
    <3>4. Put' = FileUnits - xfer.left
      BY <3>1, <3>3 DEF Put
    <3>5. Put = FileUnits - xfer.left - Bytes(f)
      BY <1>5, <3>1, <3>3 DEF Put
    <3>6. Put' = Put + Bytes(f)
      BY <1>1, <1>5, <3>3, <3>4, <3>5
    <3>7. f.kind = "FileEnd" => Put = FileUnits
      BY <1>5, <3>1, <3>3, <3>5 DEF PushShape
    <3>8. \E g \in AnyFrame : /\ h2d' = Append(h2d, g) /\ Put' = Put + Bytes(g)
                              /\ g.kind = "FileEnd" => Put = FileUnits
                              /\ host.pc \in Asking => g.kind \in RequestKinds
      BY <1>5, <2>2, <3>1, <3>6, <3>7 DEF Asking
    <3> QED
      BY <3>1, <3>2, <3>8 DEF PushHostMove
  <2> QED
    BY <1>5, <2>1, <2>2 DEF U!HostWrite
<1>6. ASSUME NEW pc, NEW next, U!HostWritten(pc, next),
             <<pc, next>> \in {<<"request", "meta">>, <<"chunk", "poll">>, <<"end", "done">>}
      PROVE  PushHostMove
  <2>1. CASE host' = U!Failed
    BY <1>2, <1>3, <1>6, <2>1 DEF U!HostWritten
  <2>2. CASE host' = [host EXCEPT !.pc = next, !.written = FALSE, !.chunk = 0]
    <3>1. host'.pc = next /\ ~host'.written /\ host'.queue = host.queue /\ host.pc = pc /\ host.written
      BY <1>1, <1>6, <2>2 DEF U!HostWritten
    <3> QED
      BY <1>4, <1>6, <3>1 DEF U!HostWritten, Asking
  <2> QED
    BY <1>6, <2>1, <2>2 DEF U!HostWritten
<1>7. ASSUME NEW pc \in {"meta", "done"}, NEW with, U!HostRecv(pc, with),
             \/ with.pc = "err" /\ ~with.written /\ with.queue = <<>>
             \/ with.pc = "read" /\ with.written = host.written /\ with.queue = Tail(host.queue)
             \/ /\ with.pc = "ok" /\ ~with.written /\ with.queue = <<>> /\ pc = "done"
                /\ host.queue # <<>> => Head(host.queue).kind = "FileEnd"
      PROVE  PushHostMove
  <2>1. CASE host' = U!Failed \/ host' = U!Dropped(host, "err", TRUE)
    <3>1. host'.pc = "err" /\ ~host'.written /\ host'.queue = <<>>
      <4>1. LET d == U!Dropped(host, "err", TRUE) IN d.pc = "err" /\ ~d.written /\ d.queue = <<>>
        BY <1>1 DEF U!Dropped
      <4> QED
        BY <1>2, <2>1, <4>1
    <3>2. host.pc = pc /\ UNCHANGED <<dev, xfer, h2d, d2h>>
      BY <1>7 DEF U!HostRecv
    <3> QED
      BY <1>3, <1>7, <3>1, <3>2
  <2>2. CASE host.queue # <<>> /\ host' = with
    <3>1. host.pc = pc /\ ~host.written /\ UNCHANGED <<dev, xfer, h2d, d2h>>
      BY <1>1, <1>7 DEF U!HostRecv, PushShape
    <3>2. CASE with.pc = "read" /\ with.written = host.written /\ with.queue = Tail(host.queue)
      BY <1>4, <1>7, <2>2, <3>1, <3>2 DEF Asking
    <3> QED
      BY <1>3, <1>7, <2>2, <3>1, <3>2
  <2> QED
    BY <1>7, <2>1, <2>2 DEF U!HostRecv
<1>8. /\ DOMAIN U!AfterReceiving = DOMAIN host /\ U!AfterReceiving.written = host.written
      /\ U!AfterReceiving.queue = Tail(host.queue) /\ U!Received = Head(host.queue)
  BY <1>1 DEF U!AfterReceiving, U!Received
<1>9. CASE U!HostOpen
  <2>1. /\ host.pc = "open" /\ ~host.written /\ UNCHANGED <<dev, xfer, h2d, d2h>>
        /\ host'.queue = host.queue /\ ~host'.written /\ host'.pc \in {"err", "request"}
    BY <1>1, <1>9 DEF U!HostOpen, PushShape
  <2>2. PushShape' /\ Put' = Put
    BY <2>1 DEF PushShape, Put
  <2> QED
    BY <2>1, <2>2 DEF PushHostMove, Asking
<1>10. CASE U!HostRequest
  <2>1. /\ U!Frame("PushRequest") \in AnyFrame /\ U!Frame("PushRequest").kind = "PushRequest"
        /\ Bytes(U!Frame("PushRequest")) = 0
    BY UFrames DEF FrameKinds, U!Frame, Bytes
  <2> QED
    BY <1>5, <1>6, <1>10, <2>1 DEF U!HostRequest, RequestKinds
<1>11. CASE U!HostRecvMeta
  <2>1. /\ [U!AfterReceiving EXCEPT !.pc = "read"].pc = "read"
        /\ [U!AfterReceiving EXCEPT !.pc = "read"].written = host.written
        /\ [U!AfterReceiving EXCEPT !.pc = "read"].queue = Tail(host.queue)
    BY <1>1, <1>8
  <2>2. \A c : LET d == U!Dropped(U!AfterReceiving, "err", c) IN
            d.pc = "err" /\ ~d.written /\ d.queue = <<>>
    BY <1>2, <1>8
  <2> QED
    BY <1>7, <1>11, <2>1, <2>2 DEF U!HostRecvMeta
<1>12. CASE U!HostReadFile
  <2>1. host.pc = "read" /\ ~host.written /\ UNCHANGED <<dev, xfer, h2d, d2h>>
    BY <1>1, <1>12 DEF U!HostReadFile, PushShape
  <2>2. CASE host' = U!Failed
    BY <1>2, <1>3, <2>1, <2>2
  <2>3. CASE host' # U!Failed
    <3>1. /\ host'.queue = host.queue /\ ~host'.written /\ host'.pc \in {"end", "credit"}
          /\ host'.pc = "end" => xfer.left = 0
      BY <1>1, <1>12, <2>1, <2>3 DEF U!HostReadFile
    <3> QED
      BY <1>4, <2>1, <3>1 DEF Asking
  <2> QED
    BY <2>2, <2>3
<1>13. CASE U!HostAcquire
  <2>1. host.pc = "credit" /\ ~host.written /\ UNCHANGED <<dev, h2d, d2h>>
    BY <1>1, <1>13 DEF U!HostAcquire, PushShape
  <2>2. CASE host' = U!Failed /\ UNCHANGED xfer
    BY <1>2, <1>3, <2>1, <2>2
  <2>3. CASE host' = [host EXCEPT !.pc = "chunk"] /\ xfer' = U!Paid(host.chunk)
    <3>1. /\ xfer'.left = xfer.left - host.chunk /\ xfer'.file = xfer.file
          /\ xfer.left \in Int /\ FileUnits \in Int
      BY <2>3, Constants DEF U!Paid, StreamTypes, XferOK
    <3>2. /\ host'.pc = "chunk" /\ ~host'.written /\ host'.queue = host.queue /\ host'.chunk = host.chunk
      BY <1>1, <2>1, <2>3
    <3>3. Put' = Put
      BY <1>1, <2>1, <3>1, <3>2 DEF Put
    <3>4. PushShape'
      BY <3>2 DEF PushShape
    <3> QED
      BY <2>1, <3>1, <3>2, <3>3, <3>4 DEF PushHostMove, Asking
  <2> QED
    BY <1>13, <2>2, <2>3 DEF U!HostAcquire
<1>14. CASE U!HostSendChunk
  <2>1. /\ U!FileChunk(host.chunk) \in AnyFrame /\ U!FileChunk(host.chunk).kind = "FileChunk"
        /\ Bytes(U!FileChunk(host.chunk)) = host.chunk
    BY <1>1, UFrames DEF U!FileChunk, Bytes
  <2> QED
    BY <1>5, <1>6, <1>14, <2>1 DEF U!HostSendChunk
<1>15. CASE U!HostPoll
  <2>1. host.pc = "poll" /\ ~host.written /\ UNCHANGED <<dev, xfer, h2d, d2h>>
    BY <1>1, <1>15 DEF U!HostPoll, PushShape
  <2>2. CASE host' = U!Failed \/ \E c : host' = U!Dropped(host, "err", c)
    BY <1>2, <1>3, <2>1, <2>2
  <2>3. CASE host' = [host EXCEPT !.pc = "read"]
    <3>1. host'.queue = host.queue /\ ~host'.written /\ host'.pc = "read"
      BY <1>1, <2>1, <2>3
    <3> QED
      BY <1>4, <2>1, <3>1 DEF Asking
  <2> QED
    BY <1>15, <2>2, <2>3 DEF U!HostPoll
<1>16. CASE U!HostSendEnd
  <2>1. /\ U!Frame("FileEnd") \in AnyFrame /\ U!Frame("FileEnd").kind = "FileEnd"
        /\ Bytes(U!Frame("FileEnd")) = 0
    BY UFrames DEF FrameKinds, U!Frame, Bytes
  <2> QED
    BY <1>5, <1>6, <1>16, <2>1 DEF U!HostSendEnd
<1>17. CASE U!HostRecvDone
  <2>1. \A pc, c : LET d == U!Dropped(U!AfterReceiving, pc, c) IN
            d.pc = pc /\ ~d.written /\ d.queue = <<>>
    BY <1>2, <1>8
  <2> QED
    BY <1>7, <1>8, <1>17, <2>1 DEF U!HostRecvDone
<1> QED
  BY <1>9, <1>10, <1>11, <1>12, <1>13, <1>14, <1>15, <1>16, <1>17 DEF U!HostTask

PushDevMove ==
    /\ UNCHANGED <<host, h2d>> /\ xfer'.left = xfer.left
    /\ dev.pc # "none" /\ dev'.pc # "none" /\ (dev'.route => dev.route)
    /\ dev'.pc \in Receiving =>
          /\ dev.pc \in Receiving
          /\ \/ dev'.inbox = dev.inbox /\ Got' = Got
             \/ /\ dev.inbox # <<>> /\ dev'.inbox = Tail(dev.inbox)
                /\ Got' = Got + Bytes(Head(dev.inbox))
    /\ dev'.pc \in Flushed =>
          /\ xfer'.file = xfer.file
          /\ \/ dev.pc \in Flushed
             \/ dev.pc = "recv" /\ dev.inbox # <<>> /\ Head(dev.inbox).kind = "FileEnd"
    /\ dev.pc \in Closing => dev'.pc \in Closing /\ xfer'.file = xfer.file
    /\ \/ UNCHANGED d2h
       \/ \E f \in AnyFrame : d2h' = Append(d2h, f) /\ (f.kind = "FileEnd" => dev.pc = "end")

LEMMA UDevPush == ASSUME StreamTypes, U!DevTask PROVE PushDevMove
<1>1. /\ DOMAIN dev = {"pc", "written", "chunk", "route", "inbox", "flow", "cancels", "watch",
                       "canceled", "reader", "overflow"}
      /\ dev.chunk \in Int /\ xfer.file \in Int /\ DOMAIN xfer = {"left", "credit", "file", "unreturned", "granted"}
  BY DEF StreamTypes, DevOK, XferOK
<1>2. U!DevFail.pc = "unroute_err" /\ U!DevFail.route = dev.route
  BY <1>1 DEF U!DevFail
<1>3. ASSUME UNCHANGED <<host, h2d, d2h, xfer>>, dev.pc # "none", dev' = U!DevFail
      PROVE PushDevMove
  BY <1>2, <1>3 DEF PushDevMove, Receiving, Flushed, Closing
\* The inbox stays as it is and so does what was got.
<1>4. ASSUME UNCHANGED <<host, h2d>>, xfer'.left = xfer.left, xfer'.file = xfer.file, dev'.route = dev.route,
             dev'.inbox = dev.inbox,
             \/ dev.pc \in Receiving \ {"write"} /\ dev'.pc \in Receiving \ {"write"}
             \/ dev.pc \in {"flush", "end"} /\ dev'.pc \in {"end", "unroute_ok"},
             \/ UNCHANGED d2h
             \/ \E f \in AnyFrame : d2h' = Append(d2h, f) /\ (f.kind = "FileEnd" => dev.pc = "end")
      PROVE PushDevMove
  <2>1. dev.pc \in Receiving \ {"write"} => Got' = Got
    BY <1>4 DEF Got, Receiving
  <2> QED
    BY <1>4, <2>1 DEF PushDevMove, Receiving, Flushed, Closing
<1>5. ASSUME NEW pc \in {"meta", "end"}, NEW f \in AnyFrame, U!DevWrite(pc, f), f.kind = "FileEnd" => pc = "end"
      PROVE PushDevMove
  <2>1. CASE dev' = U!DevFail /\ UNCHANGED d2h
    BY <1>3, <1>5, <2>1 DEF U!DevWrite
  <2>2. CASE dev' = [dev EXCEPT !.written = TRUE] /\ d2h' = Append(d2h, f)
    <3>1. dev'.pc = pc /\ dev.pc = pc /\ dev'.route = dev.route /\ dev'.inbox = dev.inbox /\ UNCHANGED <<host, xfer, h2d>>
      BY <1>1, <1>5, <2>2 DEF U!DevWrite
    <3>2. \E g \in AnyFrame : d2h' = Append(d2h, g) /\ (g.kind = "FileEnd" => dev.pc = "end")
      BY <1>5, <2>2, <3>1
    <3> QED
      BY <1>4, <3>1, <3>2 DEF Receiving
  <2> QED
    BY <1>5, <2>1, <2>2 DEF U!DevWrite
<1>6. ASSUME NEW pc, NEW next, U!DevWritten(pc, next), <<pc, next>> \in {<<"meta", "open_window">>, <<"end", "unroute_ok">>}
      PROVE PushDevMove
  <2>1. CASE dev' = U!DevFail
    BY <1>3, <1>6, <2>1 DEF U!DevWritten
  <2>2. CASE dev' = [dev EXCEPT !.pc = next, !.written = FALSE, !.chunk = 0]
    <3>1. dev'.pc = next /\ dev.pc = pc /\ dev'.route = dev.route /\ dev'.inbox = dev.inbox /\ UNCHANGED <<host, xfer, h2d, d2h>>
      BY <1>1, <1>6, <2>2 DEF U!DevWritten
    <3> QED
      BY <1>4, <1>6, <3>1 DEF Receiving
  <2> QED
    BY <1>6, <2>1, <2>2 DEF U!DevWritten
<1>7. CASE U!DevCreate \/ U!DevFlush
  <2>1. CASE dev' = U!DevFail
    BY <1>3, <1>7, <2>1 DEF U!DevCreate, U!DevFlush
  <2>2. CASE dev' # U!DevFail
    <3>1. /\ dev'.route = dev.route /\ dev'.inbox = dev.inbox /\ UNCHANGED <<host, xfer, h2d, d2h>>
          /\ \/ dev.pc = "create" /\ dev'.pc = "meta"
             \/ dev.pc = "flush" /\ dev'.pc = "end"
      BY <1>1, <1>7, <2>2 DEF U!DevCreate, U!DevFlush
    <3> QED
      BY <1>4, <3>1 DEF Receiving
  <2> QED
    BY <2>1, <2>2
<1>8. CASE U!DevSendMeta \/ U!DevSendEnd
  <2>1. /\ U!Frame("FileMeta") \in AnyFrame /\ U!Frame("FileMeta").kind = "FileMeta"
        /\ U!Frame("FileEnd") \in AnyFrame /\ U!Frame("FileEnd").kind = "FileEnd"
    BY UFrames DEF FrameKinds, U!Frame
  <2> QED
    BY <1>5, <1>6, <1>8, <2>1 DEF U!DevSendMeta, U!DevSendEnd
<1>9. CASE U!DevGrant
  <2>1. CASE U!DevInactive
    BY <1>3, <1>9, <2>1 DEF U!DevGrant
  <2>2. CASE ~U!DevInactive
    <3>1. \A o : U!GrantSize(o) \in Int
      BY Constants DEF U!GrantSize, StreamTypes, XferOK
    <3>2. PICK n \in Int : /\ d2h' = Append(d2h, U!WindowUpdate(n)) /\ xfer' = U!Granted(n)
                           /\ dev' = [dev EXCEPT !.pc = "recv"]
      BY <1>9, <2>2, <3>1 DEF U!DevGrant
    <3>3. U!WindowUpdate(n) \in AnyFrame /\ U!WindowUpdate(n).kind = "StreamWindowUpdate"
      BY UFrames DEF U!WindowUpdate
    <3>4. \E f \in AnyFrame : d2h' = Append(d2h, f) /\ (f.kind = "FileEnd" => dev.pc = "end")
      BY <3>2, <3>3
    <3>5. xfer'.left = xfer.left /\ xfer'.file = xfer.file
      BY <1>1, <3>2 DEF U!Granted
    <3>6. /\ dev.pc \in {"open_window", "grant"} /\ dev'.pc = "recv" /\ dev'.route = dev.route
          /\ dev'.inbox = dev.inbox /\ UNCHANGED <<host, h2d>>
      BY <1>1, <1>9, <3>2 DEF U!DevGrant
    <3> QED
      BY <1>4, <3>4, <3>5, <3>6 DEF Receiving
  <2> QED
    BY <2>1, <2>2
<1>10. CASE U!DevRecv
  <2>1. dev.pc = "recv" /\ UNCHANGED <<host, xfer, h2d, d2h>>
    BY <1>10 DEF U!DevRecv
  <2>2. CASE dev' = U!DevFail
    BY <1>3, <2>1, <2>2
  <2>3. CASE dev' # U!DevFail
    <3>1. /\ dev.inbox # <<>>
          /\ \/ /\ Head(dev.inbox).kind = "FileChunk"
                /\ dev' = [dev EXCEPT !.inbox = Tail(@), !.pc = "write", !.chunk = Head(dev.inbox).n]
             \/ Head(dev.inbox).kind = "FileEnd" /\ dev' = [dev EXCEPT !.inbox = Tail(@), !.pc = "flush"]
             \/ dev' = [dev EXCEPT !.inbox = Tail(@), !.pc = "unroute_err"]
      BY <1>10, <2>3 DEF U!DevRecv
    <3>2. dev'.inbox = Tail(dev.inbox) /\ dev'.route = dev.route
      BY <1>1, <3>1
    <3>3. CASE /\ Head(dev.inbox).kind = "FileChunk"
               /\ dev' = [dev EXCEPT !.inbox = Tail(@), !.pc = "write", !.chunk = Head(dev.inbox).n]
      <4>1. dev'.pc = "write" /\ dev'.chunk = Head(dev.inbox).n
        BY <1>1, <3>3
      <4>2. Got = xfer.file /\ Got' = xfer.file + Bytes(Head(dev.inbox))
        BY <1>1, <2>1, <3>3, <4>1 DEF Got, Bytes
      <4>3. Got' = Got + Bytes(Head(dev.inbox))
        BY <4>2
      <4> QED
        BY <2>1, <3>1, <3>2, <4>1, <4>3 DEF PushDevMove, Receiving, Flushed, Closing
    <3>4. CASE \/ Head(dev.inbox).kind = "FileEnd" /\ dev' = [dev EXCEPT !.inbox = Tail(@), !.pc = "flush"]
               \/ dev' = [dev EXCEPT !.inbox = Tail(@), !.pc = "unroute_err"]
        <4>1. (dev'.pc = "flush" /\ Head(dev.inbox).kind = "FileEnd") \/ dev'.pc = "unroute_err"
        BY <1>1, <3>4
      <4> QED
        BY <2>1, <3>1, <3>2, <4>1 DEF PushDevMove, Receiving, Flushed, Closing
    <3> QED
      BY <3>1, <3>3, <3>4
  <2> QED
    BY <2>2, <2>3
<1>11. CASE U!DevWriteFile
  <2>1. dev.pc = "write" /\ UNCHANGED <<host, h2d, d2h>>
    BY <1>11 DEF U!DevWriteFile
  <2>2. CASE dev' = U!DevFail /\ UNCHANGED xfer
    BY <1>3, <2>1, <2>2
  <2>3. CASE xfer' = U!Written(dev.chunk) /\ \E pc \in {"grant", "recv"} : dev' = [dev EXCEPT !.chunk = 0, !.pc = pc]
    <3>1. dev'.pc \in {"grant", "recv"} /\ dev'.route = dev.route /\ dev'.inbox = dev.inbox
      BY <1>1, <2>3
    <3>2. xfer'.file = xfer.file + dev.chunk /\ xfer'.left = xfer.left
      BY <1>1, <2>3 DEF U!Written
    <3>3. Got' = Got
      BY <1>1, <2>1, <3>1, <3>2 DEF Got
    <3> QED
      BY <2>1, <3>1, <3>2, <3>3 DEF PushDevMove, Receiving, Flushed, Closing
  <2> QED
    BY <1>11, <2>2, <2>3 DEF U!DevWriteFile
<1>12. CASE U!DevEnding
  <2>1. /\ UNCHANGED <<host, h2d, xfer>> /\ (dev'.route => dev.route)
        /\ dev.pc \in {"unroute_ok", "unroute_err", "report", "finish"}
        /\ dev'.pc \in {"report", "finish", "gone"}
    BY <1>1, <1>12 DEF U!DevEnding, U!DevUnregister, U!DevReport, U!DevFinish
  <2>2. U!Frame("Error") \in AnyFrame /\ U!Frame("Error").kind = "Error"
    BY UFrames DEF FrameKinds, U!Frame
  <2>3. \/ UNCHANGED d2h
        \/ \E f \in AnyFrame : d2h' = Append(d2h, f) /\ (f.kind = "FileEnd" => dev.pc = "end")
    BY <1>12, <2>2 DEF U!DevEnding, U!DevUnregister, U!DevReport, U!DevFinish
  <2> QED
    BY <2>1, <2>3 DEF PushDevMove, Receiving, Flushed, Closing
<1> QED
  BY <1>7, <1>8, <1>9, <1>10, <1>11, <1>12 DEF U!DevTask

LEMMA EndInQueues ==
  ASSUME NEW q \in Seq(AnyFrame)
  PROVE  /\ \A f \in AnyFrame : EndIn(Append(q, f)) => EndIn(q) \/ f.kind = "FileEnd"
         /\ q # <<>> => /\ EndIn(Tail(q)) => EndIn(q)
                        /\ Head(q).kind = "FileEnd" => EndIn(q)
         /\ ~EndIn(<<>>)
<1>1. ASSUME NEW f \in AnyFrame, EndIn(Append(q, f)) PROVE EndIn(q) \/ f.kind = "FileEnd"
  <2>1. PICK i \in 1..(Len(q) + 1) : Append(q, f)[i].kind = "FileEnd"
    BY <1>1, AppendAt DEF EndIn
  <2>2. CASE i \in 1..Len(q)
    BY <2>1, <2>2, AppendAt DEF EndIn
  <2>3. CASE i = Len(q) + 1
    BY <2>1, <2>3, AppendAt
  <2> QED
    BY <2>2, <2>3, AppendAt
<1>2. ASSUME q # <<>>, EndIn(Tail(q)) PROVE EndIn(q)
  <2>1. PICK i \in 1..(Len(q) - 1) : Tail(q)[i].kind = "FileEnd"
    BY <1>2, TailAt DEF EndIn
  <2>2. q[i + 1].kind = "FileEnd" /\ i + 1 \in 1..Len(q)
    BY <1>2, <2>1, TailAt
  <2> QED
    BY <2>2 DEF EndIn
<1>3. ASSUME q # <<>>, Head(q).kind = "FileEnd" PROVE EndIn(q)
  <2>1. q[1].kind = "FileEnd" /\ 1 \in 1..Len(q)
    BY <1>3, TailAt
  <2> QED
    BY <2>1 DEF EndIn
<1>4. ~EndIn(<<>>)
  BY DEF EndIn
<1> QED
  BY <1>1, <1>2, <1>3, <1>4

LEMMA PushHostStep ==
  ASSUME StreamTypes, LeftInv, PushInv, PushHostMove
  PROVE  PushInv'
<1> USE DEF PushInv
<1>1. h2d \in Seq(AnyFrame) /\ host.queue \in Seq(AnyFrame) /\ d2h \in Seq(AnyFrame)
  BY DEF StreamTypes, HostOK
<1>2. UNCHANGED <<dev, d2h>> /\ xfer'.file = xfer.file /\ host.pc \notin {"ok", "err"} /\ PushShape'
  BY DEF PushHostMove
<1>3. NotYet'
  <2> SUFFICES ASSUME dev.pc = "none" PROVE NotYet'
    BY <1>2 DEF NotYet
  <2>1. /\ host.pc \in Asking \union {"err"} /\ host.queue = <<>> /\ d2h = <<>> /\ dev.inbox = <<>>
        /\ xfer.file = 0 /\ xfer.left = FileUnits /\ dev.overflow = "none" /\ dev.reader # "stray"
        /\ \A i \in 1..Len(h2d) : h2d[i].kind \in RequestKinds \union {"StreamCancel"}
    BY DEF NotYet
  <2>2. host.pc \in Asking
    BY <1>2, <2>1
  <2>3. host'.pc \in Asking \union {"err"} /\ host'.queue = <<>> /\ xfer'.left = xfer.left
    BY <2>1, <2>2 DEF PushHostMove
  <2>4. \A i \in 1..Len(h2d') : h2d'[i].kind \in RequestKinds \union {"StreamCancel"}
    <3>1. CASE UNCHANGED h2d
      BY <2>1, <3>1
    <3>2. ASSUME NEW f \in AnyFrame, h2d' = Append(h2d, f), f.kind \in RequestKinds
          PROVE \A i \in 1..Len(h2d') : h2d'[i].kind \in RequestKinds \union {"StreamCancel"}
      <4>1. /\ Len(h2d') = Len(h2d) + 1 /\ Len(h2d) \in Nat /\ h2d'[Len(h2d) + 1] = f
            /\ \A i \in 1..Len(h2d) : h2d'[i] = h2d[i]
        BY <1>1, <3>2, AppendAt
      <4> QED
        BY <2>1, <3>2, <4>1
    <3> QED
      BY <2>2, <3>1, <3>2 DEF PushHostMove
  <2> QED
    BY <1>2, <2>1, <2>3, <2>4 DEF NotYet
<1>4. Got' = Got
  BY <1>2 DEF Got
<1>5. InOrder'
  <2>1. dev'.pc \in Flushed => xfer'.file = FileUnits
    BY <1>2 DEF InOrder
  <2>2. ASSUME dev.pc \in Receiving \union {"none"}
        PROVE  \E mid \in Int :
                  /\ Chain(dev.inbox, Got, mid)
                  /\ dev.route \/ dev.pc = "none" =>
                        \E last \in Int : Chain(h2d', mid, last) /\ (host'.pc # "err" => last = Put')
    <3>1. PICK mid \in Int :
              /\ Chain(dev.inbox, Got, mid)
              /\ dev.route \/ dev.pc = "none" =>
                    \E last \in Int : Chain(h2d, mid, last) /\ (host.pc # "err" => last = Put)
      BY <2>2 DEF InOrder
    <3>2. ASSUME dev.route \/ dev.pc = "none"
          PROVE  \E last \in Int : Chain(h2d', mid, last) /\ (host'.pc # "err" => last = Put')
      <4>1. PICK last \in Int : Chain(h2d, mid, last) /\ last = Put
        BY <1>2, <3>1, <3>2
      <4>2. CASE UNCHANGED h2d /\ (host'.pc = "err" \/ Put' = Put)
        BY <4>1, <4>2
      <4>3. ASSUME NEW f \in AnyFrame, h2d' = Append(h2d, f), Put' = Put + Bytes(f),
                   f.kind = "FileEnd" => Put = FileUnits
            PROVE  \E l \in Int : Chain(h2d', mid, l) /\ (host'.pc # "err" => l = Put')
        <5>1. Chain(h2d', mid, last + Bytes(f)) /\ last + Bytes(f) \in Int
          BY <1>1, <4>1, <4>3, ChainAppend, BytesInt
        <5> QED
          BY <4>1, <4>3, <5>1
      <4> QED
        BY <4>2, <4>3 DEF PushHostMove
    <3> QED
      BY <3>1, <3>2
  <2> QED
    BY <1>2, <1>4, <2>1, <2>2 DEF InOrder
<1>6. Answer'
  <2>1. EndIn(host'.queue) => EndIn(host.queue)
    BY <1>1, EndInQueues DEF PushHostMove
  <2>2. host'.pc = "ok" => EndIn(host.queue)
    BY <1>1, EndInQueues DEF PushHostMove
  <2> QED
    BY <1>2, <2>1, <2>2 DEF Answer
<1> QED
  BY <1>2, <1>3, <1>5, <1>6

LEMMA PushDevStep ==
  ASSUME StreamTypes, PushInv, PushDevMove
  PROVE  PushInv'
<1> USE DEF PushInv
<1>1. d2h \in Seq(AnyFrame) /\ dev.inbox \in Seq(AnyFrame) /\ Got \in Int
  BY DEF StreamTypes, DevOK, XferOK, Got
<1>2. UNCHANGED <<host, h2d>> /\ xfer'.left = xfer.left /\ dev.pc # "none" /\ dev'.pc # "none"
  BY DEF PushDevMove
<1>3. PushShape' /\ NotYet' /\ Put' = Put
  BY <1>2 DEF PushShape, NotYet, Put
<1>4. ASSUME dev'.pc \in Flushed PROVE xfer'.file = FileUnits
  <2>1. xfer'.file = xfer.file /\ xfer.file \in Int
    BY <1>4 DEF PushDevMove, StreamTypes, XferOK
  <2>2. CASE dev.pc \in Flushed
    BY <2>2, <2>1 DEF InOrder
  <2>3. CASE dev.pc = "recv" /\ dev.inbox # <<>> /\ Head(dev.inbox).kind = "FileEnd"
    <3>1. PICK mid \in Int : Chain(dev.inbox, Got, mid)
      BY <2>3 DEF InOrder, Receiving
    <3>2. Got = FileUnits
      BY <1>1, <2>3, <3>1, ChainTail
    <3> QED
      BY <2>3, <2>1, <3>2 DEF Got
  <2> QED
    BY <1>4, <2>2, <2>3 DEF PushDevMove
<1>5. ASSUME dev'.pc \in Receiving
      PROVE  \E mid \in Int :
                /\ Chain(dev'.inbox, Got', mid)
                /\ dev'.route =>
                      \E last \in Int : Chain(h2d', mid, last) /\ (host'.pc # "err" => last = Put')
  <2>1. dev.pc \in Receiving /\ (dev'.route => dev.route)
    BY <1>5 DEF PushDevMove
  <2>2. PICK mid \in Int :
              /\ Chain(dev.inbox, Got, mid)
              /\ dev.route =>
                    \E last \in Int : Chain(h2d, mid, last) /\ (host.pc # "err" => last = Put)
    BY <2>1 DEF InOrder
  <2>3. Chain(dev'.inbox, Got', mid)
    <3>1. CASE dev'.inbox = dev.inbox /\ Got' = Got
      BY <2>2, <3>1
    <3>2. CASE dev.inbox # <<>> /\ dev'.inbox = Tail(dev.inbox) /\ Got' = Got + Bytes(Head(dev.inbox))
      BY <1>1, <2>2, <3>2, ChainTail
    <3> QED
      BY <1>5, <3>1, <3>2 DEF PushDevMove
  <2> QED
    BY <1>2, <1>3, <2>1, <2>2, <2>3
<1>6. InOrder'
  BY <1>2, <1>4, <1>5 DEF InOrder
<1>7. Answer'
  <2>1. EndIn(d2h') => EndIn(d2h) \/ dev.pc = "end"
    BY <1>1, EndInQueues DEF PushDevMove
  <2>2. EndIn(d2h) \/ EndIn(host.queue) \/ host.pc = "ok" \/ dev.pc = "end" =>
            xfer.file = FileUnits /\ dev.pc \in Closing
    BY DEF Answer, InOrder, Flushed, Closing
  <2> QED
    BY <1>2, <2>1, <2>2 DEF Answer, PushDevMove
<1> QED
  BY <1>3, <1>6, <1>7

LEMMA PushConnectionStep ==
  ASSUME StreamTypes, LeftInv, PushInv, U!Connection
  PROVE  PushInv'
<1> USE DEF PushInv
<1>1. /\ DOMAIN host = {"pc", "written", "chunk", "route", "queue", "cancel", "cancelTasks", "closed"}
      /\ DOMAIN dev = {"pc", "written", "chunk", "route", "inbox", "flow", "cancels", "watch",
                       "canceled", "reader", "overflow"}
      /\ DOMAIN xfer = {"left", "credit", "file", "unreturned", "granted"}
      /\ h2d \in Seq(AnyFrame) /\ d2h \in Seq(AnyFrame)
      /\ host.queue \in Seq(AnyFrame) /\ dev.inbox \in Seq(AnyFrame)
      /\ Got \in Int /\ Put \in Int
  BY Constants DEF StreamTypes, HostOK, DevOK, XferOK, Got, Put
\* Neither the file nor the order of frames is touched.
<1>2. ASSUME UNCHANGED <<dev, h2d, xfer>>, host'.pc = host.pc, host'.written = host.written,
             host'.chunk = host.chunk, dev.pc = "none" => host'.queue = host.queue /\ d2h' = d2h,
             EndIn(d2h') \/ EndIn(host'.queue) => EndIn(d2h) \/ EndIn(host.queue)
      PROVE  PushInv'
  <2>1. Put' = Put /\ Got' = Got /\ PushShape' /\ NotYet'
    BY <1>2 DEF Put, Got, PushShape, NotYet
  <2>2. InOrder' /\ Answer'
    BY <1>2, <2>1 DEF InOrder, Answer
  <2> QED
    BY <2>1, <2>2
<1>3. ASSUME UNCHANGED <<host, h2d, xfer>>, dev'.pc = dev.pc, dev'.chunk = dev.chunk,
             dev'.inbox = dev.inbox, dev'.route => dev.route,
             dev.pc = "none" => d2h' = d2h /\ dev'.overflow = dev.overflow /\ dev'.reader # "stray",
             EndIn(d2h') => EndIn(d2h)
      PROVE  PushInv'
  <2>1. Put' = Put /\ Got' = Got /\ PushShape' /\ NotYet'
    BY <1>3 DEF Put, Got, PushShape, NotYet
  <2>2. InOrder' /\ Answer'
    BY <1>3, <2>1 DEF InOrder, Answer
  <2> QED
    BY <2>1, <2>2
<1>4. CASE U!HostReader
  <2>1. /\ UNCHANGED <<dev, h2d>> /\ host'.pc = host.pc /\ host'.written = host.written /\ host'.chunk = host.chunk
        /\ d2h # <<>> /\ d2h' = Tail(d2h)
        /\ host'.queue = host.queue \/ host'.queue = Append(host.queue, Head(d2h))
    BY <1>1, <1>4 DEF U!HostReader, U!HostDeliver, U!Closed
  <2>2. dev.pc # "none"
    BY <2>1 DEF NotYet
  <2>3. xfer'.file = xfer.file /\ xfer'.left = xfer.left
    BY <1>1, <1>4 DEF U!HostReader
  <2>4. EndIn(d2h') \/ EndIn(host'.queue) => EndIn(d2h) \/ EndIn(host.queue)
    <3>1. Head(d2h) \in AnyFrame
      BY <1>1, <2>1, Queues
    <3>2. (EndIn(Tail(d2h)) => EndIn(d2h)) /\ (Head(d2h).kind = "FileEnd" => EndIn(d2h))
      BY <1>1, <2>1, EndInQueues
    <3>3. EndIn(Append(host.queue, Head(d2h))) => EndIn(host.queue) \/ Head(d2h).kind = "FileEnd"
      BY <1>1, <3>1, EndInQueues
    <3> QED
      BY <2>1, <3>2, <3>3
  <2>5. Put' = Put /\ Got' = Got /\ PushShape' /\ NotYet'
    BY <2>1, <2>2, <2>3 DEF Put, Got, PushShape, NotYet
  <2>6. InOrder' /\ Answer'
    BY <2>1, <2>2, <2>3, <2>4, <2>5 DEF InOrder, Answer
  <2> QED
    BY <2>5, <2>6
<1>5. CASE U!HostReaderEnds
  BY <1>1, <1>2, <1>5 DEF U!HostReaderEnds, U!Closed
<1>6. CASE U!HostCancelTask
  <2>1. /\ UNCHANGED <<dev, xfer, d2h>> /\ host'.pc = host.pc /\ host'.written = host.written
        /\ host'.chunk = host.chunk /\ host'.queue = host.queue
    BY <1>1, <1>6 DEF U!HostCancelTask
  <2>2. CASE UNCHANGED h2d
    BY <1>2, <2>1, <2>2
  <2>3. CASE h2d' = Append(h2d, U!Frame("StreamCancel"))
    <3>1. /\ U!Frame("StreamCancel") \in AnyFrame /\ U!Frame("StreamCancel").kind = "StreamCancel"
          /\ Bytes(U!Frame("StreamCancel")) = 0
      BY UFrames DEF FrameKinds, U!Frame, Bytes
    <3>2. Put' = Put /\ Got' = Got /\ PushShape' /\ Answer'
      BY <2>1 DEF Put, Got, PushShape, Answer
    <3>3. /\ Len(h2d') = Len(h2d) + 1 /\ Len(h2d) \in Nat /\ h2d'[Len(h2d) + 1].kind = "StreamCancel"
          /\ \A i \in 1..Len(h2d) : h2d'[i] = h2d[i]
      BY <1>1, <2>3, <3>1, AppendAt
    <3>4. ASSUME dev.pc = "none"
          PROVE \A i \in 1..Len(h2d') : h2d'[i].kind \in RequestKinds \union {"StreamCancel"}
      BY <3>3, <3>4 DEF NotYet
    <3>5. NotYet'
      BY <2>1, <3>4 DEF NotYet
    <3>6. ASSUME NEW mid \in Int, NEW last \in Int, Chain(h2d, mid, last)
          PROVE  Chain(h2d', mid, last)
      <4>1. Chain(h2d', mid, last + 0)
        BY <1>1, <2>3, <3>1, <3>6, ChainAppend
      <4> QED
        BY <4>1
    <3>7. InOrder'
      BY <2>1, <3>2, <3>6 DEF InOrder
    <3> QED
      BY <3>2, <3>5, <3>7
  <2> QED
    BY <1>6, <2>2, <2>3 DEF U!HostCancelTask
<1>7. CASE U!DevReader
  <2> DEFINE f == Head(h2d)
  <2>1. /\ UNCHANGED <<host, d2h>> /\ h2d # <<>> /\ h2d' = Tail(h2d)
        /\ xfer'.file = xfer.file /\ xfer'.left = xfer.left
    BY <1>1, <1>7 DEF U!DevReader
  <2>2. Len(h2d) \in Nat \ {0} /\ f = h2d[1] /\ f \in AnyFrame /\ Bytes(f) \in Int
    BY <1>1, <2>1, TailAt, BytesInt
  <2>3. 1 \in 1..Len(h2d)
    BY <2>2
  <2>4. dev.pc = "none" => /\ f.kind \in RequestKinds \union {"StreamCancel"} /\ Bytes(f) = 0
                           /\ ~dev.route
    BY <2>2, <2>3 DEF NotYet, RequestKinds, Bytes, LeftInv, Released
  <2>5. f.kind \in RequestKinds => dev.pc = "none"
    BY <2>2, <2>3 DEF LeftInv, Once
  <2>6. dev.pc = "none" => \A i \in 1..Len(h2d') : h2d'[i].kind \in RequestKinds \union {"StreamCancel"}
    <3>1. \A i \in 1..Len(h2d') : i + 1 \in 1..Len(h2d) /\ h2d'[i] = h2d[i + 1]
      BY <1>1, <2>1, TailAt
    <3> QED
      BY <3>1 DEF NotYet
  <2>7. Put' = Put /\ PushShape'
    BY <2>1 DEF Put, PushShape
  <2>8. ASSUME NEW mid \in Int, NEW last \in Int, Chain(h2d, mid, last)
        PROVE  /\ mid + Bytes(f) \in Int /\ Chain(h2d', mid + Bytes(f), last)
               /\ f.kind = "FileEnd" => mid = FileUnits
    BY <1>1, <2>1, <2>2, <2>8, ChainTail
  \* A frame that is for nobody, or that is not a chunk.
  <2>9. ASSUME dev'.pc = dev.pc, dev'.chunk = dev.chunk, dev'.inbox = dev.inbox,
               dev'.route => dev.route /\ Bytes(f) = 0,
               dev.pc = "none" => dev'.overflow = dev.overflow /\ dev'.reader # "stray"
        PROVE  PushInv'
    <3>1. Got' = Got
      BY <2>1, <2>9 DEF Got
    <3>2. NotYet' /\ Answer'
      BY <2>1, <2>6, <2>9 DEF NotYet, Answer
    <3>3. ASSUME dev.pc \in Receiving \union {"none"}
          PROVE  \E mid \in Int :
                    /\ Chain(dev.inbox, Got, mid)
                    /\ dev'.route \/ dev.pc = "none" =>
                          \E last \in Int : Chain(h2d', mid, last) /\ (host.pc # "err" => last = Put)
      <4>1. PICK mid \in Int :
              /\ Chain(dev.inbox, Got, mid)
              /\ dev.route \/ dev.pc = "none" =>
                    \E last \in Int : Chain(h2d, mid, last) /\ (host.pc # "err" => last = Put)
        BY <3>3 DEF InOrder
      <4>2. ASSUME dev'.route \/ dev.pc = "none"
            PROVE  \E last \in Int : Chain(h2d', mid, last) /\ (host.pc # "err" => last = Put)
        <5>1. Bytes(f) = 0 /\ (dev.route \/ dev.pc = "none")
          BY <2>4, <2>9, <4>2
        <5>2. PICK last \in Int : Chain(h2d, mid, last) /\ (host.pc # "err" => last = Put)
          BY <4>1, <5>1
        <5>3. Chain(h2d', mid + Bytes(f), last) /\ mid + Bytes(f) = mid
          BY <2>8, <5>1, <5>2
        <5> QED
          BY <5>2, <5>3
      <4> QED
        BY <4>1, <4>2
    <3>4. InOrder'
      BY <2>1, <2>7, <2>9, <3>1, <3>3 DEF InOrder
    <3> QED
      BY <2>7, <3>2, <3>4
  <2>10. CASE f.kind = "StreamWindowUpdate"
    <3>1. dev' = dev \/ dev' = [dev EXCEPT !.reader = "failed"]
      BY <1>7, <2>10 DEF U!DevReader
    <3>2. Bytes(f) = 0
      BY <2>10 DEF Bytes
    <3> QED
      BY <1>1, <2>4, <2>9, <2>10, <3>1, <3>2 DEF RequestKinds
  <2>11. CASE f.kind = "StreamCancel"
    <3>1. dev' = U!CanceledByHost
      BY <1>7, <2>11 DEF U!DevReader
    <3>2. /\ dev'.pc = dev.pc /\ dev'.chunk = dev.chunk /\ dev'.inbox = dev.inbox /\ ~dev'.route
          /\ dev'.overflow = dev.overflow /\ dev'.reader = dev.reader
      BY <1>1, <3>1 DEF U!CanceledByHost
    <3>3. dev.pc = "none" => dev.reader # "stray"
      BY DEF NotYet
    <3> QED
      BY <2>9, <3>2, <3>3
  <2>12. CASE f.kind \notin {"StreamWindowUpdate", "StreamCancel"}
    <3>1. dev' = IF dev.route THEN U!DevDeliver(f)
                 ELSE IF f.kind \in U!Requests THEN U!Opened(f.kind)
                 ELSE [dev EXCEPT !.reader = "stray"]
      BY <1>7, <2>12 DEF U!DevReader
    <3>2. CASE dev.route
      <4>1. dev.pc # "none"
        BY <2>4, <3>2
      <4>2. \/ dev' = [dev EXCEPT !.route = FALSE, !.overflow = "mark"]
            \/ dev' = [dev EXCEPT !.inbox = Append(@, f)]
        BY <3>1, <3>2 DEF U!DevDeliver
      <4>3. CASE dev' = [dev EXCEPT !.route = FALSE, !.overflow = "mark"]
        BY <1>1, <2>9, <4>1, <4>3
      <4>4. CASE dev' = [dev EXCEPT !.inbox = Append(@, f)]
        <5>1. dev'.pc = dev.pc /\ dev'.chunk = dev.chunk /\ dev'.inbox = Append(dev.inbox, f)
          BY <1>1, <4>4
        <5>2. Got' = Got /\ NotYet' /\ Answer'
          BY <2>1, <4>1, <5>1 DEF Got, NotYet, Answer
        <5>3. ASSUME dev.pc \in Receiving
              PROVE  \E mid \in Int :
                        /\ Chain(dev'.inbox, Got, mid)
                        /\ \E last \in Int : Chain(h2d', mid, last) /\ (host.pc # "err" => last = Put)
          <6>1. PICK mid \in Int, last \in Int :
                  Chain(dev.inbox, Got, mid) /\ Chain(h2d, mid, last) /\ (host.pc # "err" => last = Put)
            BY <3>2, <5>3 DEF InOrder
          <6>2. /\ mid + Bytes(f) \in Int /\ Chain(h2d', mid + Bytes(f), last)
                /\ f.kind = "FileEnd" => mid = FileUnits
            BY <2>8, <6>1
          <6>3. Chain(dev'.inbox, Got, mid + Bytes(f))
            BY <1>1, <2>2, <5>1, <6>1, <6>2, ChainAppend
          <6> QED
            BY <6>1, <6>2, <6>3
        <5>4. InOrder'
          BY <2>1, <2>7, <4>1, <5>1, <5>2, <5>3 DEF InOrder
        <5> QED
          BY <2>7, <5>2, <5>4
      <4> QED
        BY <4>2, <4>3, <4>4
    <3>3. CASE ~dev.route /\ f.kind \in RequestKinds
      <4>1. dev.pc = "none" /\ dev' = U!Opened(f.kind)
        BY <2>5, <3>1, <3>3 DEF U!Requests, RequestKinds
      <4>2. dev'.pc = "create" /\ dev'.inbox = dev.inbox
        BY <1>1, <4>1 DEF U!Opened
      <4>3. Got' = Got
        BY <2>1, <4>1, <4>2 DEF Got
      <4>4. NotYet' /\ Answer'
        <5>1. ~EndIn(d2h) /\ ~EndIn(host.queue) /\ host.pc # "ok"
          BY <4>1 DEF NotYet, Asking, EndIn
        <5> QED
          BY <2>1, <4>2, <5>1 DEF NotYet, Answer
      <4>5. PICK mid \in Int, last \in Int :
              Chain(dev.inbox, Got, mid) /\ Chain(h2d, mid, last) /\ (host.pc # "err" => last = Put)
        BY <4>1 DEF InOrder
      <4>6. Chain(h2d', mid + Bytes(f), last) /\ mid + Bytes(f) = mid
        BY <2>4, <2>8, <4>1, <4>5
      <4>7. InOrder'
        BY <2>1, <2>7, <4>2, <4>3, <4>5, <4>6 DEF InOrder, Flushed
      <4> QED
        BY <2>7, <4>4, <4>7
    <3>4. CASE ~dev.route /\ f.kind \notin RequestKinds
      <4>1. dev' = [dev EXCEPT !.reader = "stray"] /\ dev.pc # "none"
        BY <2>4, <2>12, <3>1, <3>4 DEF U!Requests, RequestKinds
      <4> QED
        BY <1>1, <2>9, <3>4, <4>1
    <3> QED
      BY <3>2, <3>3, <3>4
  <2> QED
    BY <2>10, <2>11, <2>12
<1>8. CASE U!DevStray \/ U!DevCancelTask
  <2>1. /\ UNCHANGED <<host, h2d, xfer>> /\ dev'.pc = dev.pc /\ dev'.chunk = dev.chunk
        /\ dev'.inbox = dev.inbox /\ dev'.route = dev.route
    BY <1>1, <1>8 DEF U!DevStray, U!DevCancelTask
  <2>2. dev.pc # "none"
    BY <1>8 DEF U!DevStray, U!DevCancelTask, NotYet
  <2>3. /\ U!Frame("Error") \in AnyFrame /\ U!Frame("Error").kind = "Error"
        /\ U!Frame("StreamCancel") \in AnyFrame /\ U!Frame("StreamCancel").kind = "StreamCancel"
    BY UFrames DEF FrameKinds, U!Frame
  <2>4. EndIn(d2h') => EndIn(d2h)
    <3>1. d2h' = d2h \/ \E k \in {"Error", "StreamCancel"} : d2h' = Append(d2h, U!Frame(k))
      BY <1>8 DEF U!DevStray, U!DevCancelTask
    <3>2. \A f \in AnyFrame : EndIn(Append(d2h, f)) => EndIn(d2h) \/ f.kind = "FileEnd"
      BY <1>1, EndInQueues
    <3> QED
      BY <2>3, <3>1, <3>2
  <2> QED
    BY <1>3, <2>1, <2>2, <2>4
<1>9. CASE U!DevTeardown
  <2>1. /\ UNCHANGED <<host, h2d, d2h, xfer>> /\ dev'.pc = dev.pc /\ dev'.chunk = dev.chunk
        /\ dev'.inbox = dev.inbox /\ dev'.route = FALSE /\ dev'.overflow = dev.overflow /\ dev'.reader = "ended"
    BY <1>1, <1>9 DEF U!DevTeardown
  <2> QED
    BY <1>3, <2>1
<1>10. CASE U!LinkBreaks
  BY <1>2, <1>10 DEF U!LinkBreaks
<1> QED
  BY <1>4, <1>5, <1>6, <1>7, <1>8, <1>9, <1>10 DEF U!Connection

\* A download: the host compares what it has written with the announced length.
PullInv == host.pc = "ok" => xfer.file = FileUnits

LEMMA PullStepKeeps ==
  ASSUME StreamTypes, PullInv, D!HostTask \/ D!DevTask \/ U!Connection
  PROVE  PullInv'
<1>1. /\ DOMAIN host = {"pc", "written", "chunk", "route", "queue", "cancel", "cancelTasks", "closed"}
      /\ DOMAIN xfer = {"left", "credit", "file", "unreturned", "granted"}
  BY DEF StreamTypes, HostOK, XferOK
<1>2. ASSUME host'.pc = host.pc, xfer'.file = xfer.file PROVE PullInv'
  BY <1>2 DEF PullInv
<1>3. ASSUME host'.pc # "ok" PROVE PullInv'
  BY <1>3 DEF PullInv
<1>4. CASE D!HostTask
  <2>1. /\ \A h, c : DOMAIN h = DOMAIN host => D!Dropped(h, "err", c).pc = "err"
        /\ D!Failed.pc = "err" /\ D!Dropped(host, "err", TRUE).pc = "err"
    BY <1>1 DEF D!Dropped, D!Failed
  <2>2. DOMAIN D!AfterReceiving = DOMAIN host
    BY <1>1 DEF D!AfterReceiving
  <2>3. ASSUME NEW pc \in {"request", "open_window", "grant"}, NEW f, D!HostWrite(pc, f) PROVE host'.pc # "ok"
    BY <1>1, <2>1, <2>3 DEF D!HostWrite
  <2>4. ASSUME NEW pc, NEW next \in {"meta", "recv"}, D!HostWritten(pc, next) PROVE host'.pc # "ok"
    BY <1>1, <2>1, <2>4 DEF D!HostWritten
  <2>5. ASSUME NEW pc, NEW with, D!HostRecv(pc, with), with.pc # "ok" PROVE host'.pc # "ok"
    BY <2>1, <2>5 DEF D!HostRecv
  <2>6. /\ [D!AfterReceiving EXCEPT !.pc = "create"].pc = "create"
        /\ [D!AfterReceiving EXCEPT !.pc = "write", !.chunk = D!Received.n].pc = "write"
        /\ [D!AfterReceiving EXCEPT !.pc = "flush"].pc = "flush"
        /\ \A c : D!Dropped(D!AfterReceiving, "err", c).pc = "err"
    BY <1>1, <2>1, <2>2
  <2>7. CASE D!HostOpen \/ D!HostCreate \/ D!HostWriteFile
    BY <1>1, <1>3, <2>1, <2>7 DEF D!HostOpen, D!HostCreate, D!HostWriteFile
  <2>8. CASE D!HostRequest
    BY <1>3, <2>3, <2>4, <2>8 DEF D!HostRequest
  <2>9. CASE D!HostRecvMeta
    BY <1>3, <2>5, <2>6, <2>9 DEF D!HostRecvMeta
  <2>10. ASSUME NEW pc \in {"open_window", "grant"}, D!HostGrant(pc) PROVE PullInv'
    <3>1. host'.pc \in {pc, "err", "recv"}
      BY <1>1, <2>1, <2>10 DEF D!HostGrant, D!HostWritten
    <3> QED
      BY <1>3, <3>1
  <2>11. CASE D!HostRecvFrame
    BY <1>3, <2>5, <2>6, <2>11 DEF D!HostRecvFrame
  <2>12. CASE D!HostFlush
    <3>1. CASE xfer.file = FileUnits
      BY <2>12, <3>1 DEF D!HostFlush, PullInv
    <3>2. CASE xfer.file # FileUnits
      BY <1>3, <2>1, <2>12, <3>2 DEF D!HostFlush
    <3> QED
      BY <3>1, <3>2
  <2> QED
    BY <1>4, <2>7, <2>8, <2>9, <2>10, <2>11, <2>12 DEF D!HostTask
<1>5. CASE D!DevTask
  <2>1. UNCHANGED host
    BY <1>5, DDevMoves DEF DevMove
  <2>2. xfer' = xfer \/ xfer' = D!Paid(dev.chunk)
    BY <1>5 DEF D!DevTask, D!DevOpen, D!DevSendMeta, D!DevReadFile, D!DevAcquire, D!DevSendChunk,
                D!DevSendEnd, D!DevEnding, D!DevWrite, D!DevWritten, D!DevUnregister, D!DevReport, D!DevFinish
  <2>3. xfer'.file = xfer.file
    BY <1>1, <2>2 DEF D!Paid
  <2> QED
    BY <1>2, <2>1, <2>3
<1>6. CASE U!Connection
  <2>1. host'.pc = host.pc
    BY <1>1, <1>6 DEF U!Connection, U!HostReader, U!HostDeliver, U!Closed, U!HostReaderEnds, U!HostCancelTask,
                      U!DevReader, U!DevStray, U!DevTeardown, U!DevCancelTask, U!LinkBreaks
  <2>2. xfer'.file = xfer.file
    BY <1>1, <1>6 DEF U!Connection, U!HostReader, U!HostReaderEnds, U!HostCancelTask,
                      U!DevReader, U!DevStray, U!DevTeardown, U!DevCancelTask, U!LinkBreaks
  <2> QED
    BY <1>2, <2>1, <2>2
<1> QED
  BY <1>4, <1>5, <1>6

WholeInv == (kind = "push" => PushInv) /\ (kind # "push" => PullInv)

LEMMA WholeInit == StreamsInit => WholeInv
<1> SUFFICES ASSUME U!Init PROVE PushInv /\ PullInv
  BY DEF StreamsInit, WholeInv
<1>1. /\ host.pc = "open" /\ ~host.written /\ host.queue = <<>> /\ dev.pc = "none" /\ dev.inbox = <<>>
      /\ dev.reader = "read" /\ dev.overflow = "none" /\ xfer.file = 0 /\ xfer.left = FileUnits
      /\ h2d = <<>> /\ d2h = <<>>
  BY DEF U!Init
<1>2. PushShape /\ NotYet /\ PullInv
  BY <1>1 DEF PushShape, NotYet, PullInv, Asking
<1>3. Got = 0 /\ Put = 0
  BY <1>1, Constants DEF Got, Put
<1>4. InOrder
  BY <1>1, <1>3, ChainEmpty DEF InOrder, Flushed
<1>5. Answer
  BY <1>1 DEF Answer, EndIn
<1> QED
  BY <1>2, <1>4, <1>5 DEF PushInv

LEMMA WholeNext == StreamTypes /\ LeftInv /\ WholeInv /\ [StreamsNext]_streamsVars => WholeInv'
<1> SUFFICES ASSUME StreamTypes, LeftInv, WholeInv, [StreamsNext]_streamsVars PROVE WholeInv'
  OBVIOUS
<1>1. kind' = kind
  BY StreamCases
<1>2. CASE UNCHANGED streamVars
  <2>1. PullInv => PullInv'
    BY <1>2 DEF streamVars, PullInv
  <2>2. PushShape' = PushShape /\ NotYet' = NotYet /\ InOrder' = InOrder /\ Answer' = Answer
    BY <1>2 DEF streamVars, PushShape, NotYet, InOrder, Answer, Got, Put
  <2> QED
    BY <1>1, <2>1, <2>2 DEF WholeInv, PushInv
<1>3. CASE kind = "push" /\ ~UNCHANGED streamVars
  <2>1. PushInv /\ (U!HostTask \/ U!DevTask \/ U!Connection)
    BY <1>3, StreamCases DEF WholeInv
  <2>2. PushInv'
    BY <2>1, UHostPush, UDevPush, PushHostStep, PushDevStep, PushConnectionStep DEF PushInv
  <2> QED
    BY <1>1, <1>3, <2>2 DEF WholeInv
<1>4. CASE kind # "push" /\ ~UNCHANGED streamVars
  <2>1. PullInv /\ (D!HostTask \/ D!DevTask \/ U!Connection)
    BY <1>4, StreamCases DEF WholeInv
  <2> QED
    BY <1>1, <1>4, <2>1, PullStepKeeps DEF WholeInv
<1> QED
  BY <1>2, <1>3, <1>4

(***************************************************************************)
(* The host reports success only when the receiver has written every byte   *)
(* of the file (remote_push and handle_push; remote_pull and handle_pull),  *)
(* whatever fails, overflows or is canceled on the way.                     *)
(***************************************************************************)
THEOREM SuccessMeansWhole == StreamsSpec => []OkMeansWhole
<1>1. WholeInv => OkMeansWhole
  BY DEF WholeInv, PushInv, Answer, PullInv, OkMeansWhole, U!OkMeansWhole
<1>2. StreamsSpec => []WholeInv
  BY WholeInit, WholeNext, LeftAlways, TypesAlways, SafetyPart, PTL
<1> QED
  BY <1>1, <1>2, PTL

-----------------------------------------------------------------------------
(***************************************************************************)
(* A command that ended well has transferred everything.  What a target     *)
(* still lacks is in exactly one of its requests (PhaseOK), and a request   *)
(* that is answered with success has been served (RequestOK).               *)
(***************************************************************************)
States == {"asked", "serving", "done", "error"}
Items(t) == {r.items : r \in T!Own(t)}
Done(t, x) == \E d \in Devices : <<x, d>> \in served[t]
\* The device that serves a target: the one it names, or the only one there was.
ServedBy(t, d) == (t \in Devices => d = t) /\ (t = T!Any /\ changes = 0 => connected = {d})

CommandTypes ==
    /\ mode \in {"push", "pull", "all"} /\ command \in {"start", "run", "ok", "failed"}
    /\ targets \subseteq T!Targets /\ connected \subseteq Devices /\ changes \in Nat
    /\ phase \in [T!Targets -> {"none", "prepare", "files", "ok", "failed"}]
    /\ prepared \in [T!Targets -> Nat] /\ spawned \in [T!Targets -> Nat] /\ counted \in [T!Targets -> Nat]
    /\ served \in [T!Targets -> SUBSET (T!Everything \X Devices)]
    /\ IsFiniteSet(requests)

RequestOK(r) ==
    /\ r \in [target : T!Targets, items : SUBSET T!Everything, state : States, device : T!Targets]
    /\ r.state \in {"serving", "done"} => r.device \in Devices /\ ServedBy(r.target, r.device)
    /\ r.state = "done" => \A x \in r.items : <<x, r.device>> \in served[r.target]

Distinct == \A r, s \in requests : r.target = s.target /\ r.items = s.items => r = s

PhaseOK(t) ==
    /\ phase[t] = "none" => prepared[t] = 0 /\ spawned[t] = 0 /\ counted[t] = 0 /\ Items(t) = {}
    /\ phase[t] = "prepare" =>
          /\ spawned[t] = 0 /\ counted[t] = 0 /\ prepared[t] < T!Preparations
          /\ \A i \in 1..prepared[t] : Done(t, T!Prep(i))
          /\ Items(t) \subseteq {{T!Prep(i) : i \in prepared[t] + 1..T!BatchEnd(prepared[t])}}
    /\ phase[t] \in {"files", "ok"} =>
          /\ \A i \in 1..T!Preparations : Done(t, T!Prep(i))
          /\ spawned[t] <= FileCount /\ counted[t] + Cardinality(Items(t)) = spawned[t]
          /\ Cardinality(Items(t)) <= Jobs
          /\ \A x \in Items(t) : \E i \in 1..spawned[t] : x = {T!File(i)}
          /\ \A i \in 1..spawned[t] : Done(t, T!File(i)) \/ {T!File(i)} \in Items(t)
    /\ phase[t] = "ok" => spawned[t] = FileCount /\ Items(t) = {}
    /\ phase[t] = "failed" => \/ Cardinality(Items(t)) < Jobs
                              \/ mode = "pull" /\ Cardinality(Items(t)) = Jobs

CommandInv ==
    /\ CommandTypes /\ Distinct
    /\ \A r \in requests : RequestOK(r)
    /\ \A t \in T!Targets : \A p \in served[t] : ServedBy(t, p[2])
    /\ \A t \in T!Targets : PhaseOK(t)
    /\ command = "start" => \A t \in T!Targets : phase[t] = "none"
    /\ command = "ok" => \A t \in targets : phase[t] = "ok"

\* A set of numbers with a bound has a greatest one.
LEMMA GreatestExists ==
  ASSUME NEW S, NEW b \in Int, S \subseteq Int, S # {}, \A x \in S : x <= b
  PROVE  T!Max(S) \in S /\ \A x \in S : x <= T!Max(S)
<1> DEFINE R == {b - x : x \in S}
<1>1. R \subseteq Nat /\ R # {}
  <2>1. PICK a \in S : TRUE
    OBVIOUS
  <2>2. b - a \in R
    BY <2>1
  <2>3. \A x \in S : b - x \in Nat
    OBVIOUS
  <2> QED
    BY <2>2, <2>3
<1>2. PICK m \in R : \A y \in R : ~ (<<y, m>> \in OpToRel(<, Nat))
  BY <1>1, NatLessThanWellFounded, WFMin
<1>3. \A y \in R : ~(y < m)
  BY <1>1, <1>2 DEF OpToRel
<1>4. PICK g \in S : m = b - g
  BY <1>2
<1>5. \A x \in S : g >= x
  <2> SUFFICES ASSUME NEW x \in S PROVE g >= x
    OBVIOUS
  <2>1. b - x \in R /\ ~(b - x < b - g)
    BY <1>3, <1>4
  <2> QED
    BY <2>1
<1>6. T!Max(S) \in S /\ \A x \in S : T!Max(S) >= x
  BY <1>5 DEF T!Max
<1> QED
  BY <1>6

LEMMA CommandConstants ==
  /\ DirCount \in Nat \ {0} /\ Jobs \in Nat \ {0} /\ FileCount \in Nat /\ MaxBytes \in Nat
  /\ IsFiniteSet(Devices) /\ T!Any \notin Devices
  /\ T!Targets = Devices \union {T!Any} /\ T!Preparations \in Nat \ {0}
BY StreamsAssumption DEF StreamsAssumption, T!Any, T!Targets, T!Preparations

\* The Cardinality of Transfer is the library's.
LEMMA SameCardinality == \A S : T!Cardinality(S) = Cardinality(S)
BY DEF T!Cardinality, Cardinality

\* A batch takes at least one directory and ends with one there is.
LEMMA BatchGoesOn ==
  ASSUME NEW n \in Nat, n < T!Preparations
  PROVE  T!BatchEnd(n) \in n + 1..T!Preparations
<1>1. CASE mode = "pull"
  BY <1>1, CommandConstants DEF T!BatchEnd
<1>2. CASE mode # "pull"
  <2>1. T!Preparations = DirCount /\ DirCount \in Nat
    BY <1>2, CommandConstants DEF T!Preparations
  <2>2. T!Batch(n) \in SUBSET Int /\ n + 1 \in T!Batch(n) /\ \A x \in T!Batch(n) : x \in n + 1..DirCount
    BY <2>1 DEF T!Batch
  <2>3. T!Max(T!Batch(n)) \in T!Batch(n)
    <3> DEFINE S == T!Batch(n)
    <3>1. S \subseteq Int /\ S # {} /\ \A x \in S : x <= DirCount
      BY <2>1, <2>2
    <3> HIDE DEF S
    <3>2. T!Max(S) \in S
      <4>1. DirCount \in Int
        BY <2>1
      <4> QED
        BY <3>1, <4>1, GreatestExists, Zenon
    <3> QED
      BY <3>2 DEF S
  <2> QED
    BY <1>2, <2>1, <2>2, <2>3 DEF T!BatchEnd
<1> QED
  BY <1>1, <1>2

\* No two requests of a target ask for the same.
LEMMA OwnCount ==
  ASSUME NEW t, Distinct, IsFiniteSet(requests)
  PROVE  /\ IsFiniteSet(Items(t)) /\ Cardinality(T!Own(t)) = Cardinality(Items(t))
         /\ Cardinality(Items(t)) \in Nat
         /\ (T!Own(t) = {}) <=> (Items(t) = {})
<1>1. T!Own(t) \in SUBSET requests
  BY DEF T!Own
<1>2. IsFiniteSet(T!Own(t))
  BY <1>1, FS_Subset
<1> DEFINE f == [r \in T!Own(t) |-> r.items]
<1>3. f \in [T!Own(t) -> Items(t)]
  BY DEF Items
<1>4. \A r, s \in T!Own(t) : f[r] = f[s] => r = s
  BY DEF T!Own, Distinct
<1>5. \A x \in Items(t) : \E r \in T!Own(t) : f[r] = x
  BY DEF Items
<1> HIDE DEF f
<1>6. f \in Bijection(T!Own(t), Items(t))
  BY <1>3, <1>4, <1>5 DEF Bijection, Injection, Surjection, IsInjective
<1>7. ExistsBijection(T!Own(t), Items(t))
  BY <1>6 DEF ExistsBijection
<1>8. IsFiniteSet(Items(t)) /\ Cardinality(T!Own(t)) = Cardinality(Items(t))
  BY <1>2, <1>7, FS_Bijection
<1>9. (T!Own(t) = {}) <=> (Items(t) = {})
  BY DEF Items
<1> QED
  BY <1>8, <1>9, FS_CardinalityType

\* What a step leaves alone stays in order.
LEMMA PhaseKeeps ==
  ASSUME NEW t, PhaseOK(t), mode' = mode, phase'[t] = phase[t], prepared'[t] = prepared[t],
         spawned'[t] = spawned[t], counted'[t] = counted[t], Items(t)' = Items(t),
         \A x : Done(t, x) => Done(t, x)'
  PROVE  PhaseOK(t)'
<1>1. T!Preparations' = T!Preparations /\ \A n : T!BatchEnd(n)' = T!BatchEnd(n)
  BY DEF T!Preparations, T!BatchEnd
<1> QED
  BY <1>1 DEF PhaseOK

LEMMA RequestKeeps ==
  ASSUME NEW r, RequestOK(r), UNCHANGED <<mode, connected, changes>>,
         served[r.target] \subseteq served'[r.target]
  PROVE  RequestOK(r)'
<1>1. T!Everything' = T!Everything
  BY DEF T!Everything, T!Preparations
<1> QED
  BY <1>1 DEF RequestOK, ServedBy

\* A request more, a request less, and one that is dealt with.
LEMMA AskStep ==
  ASSUME CommandInv, NEW t \in T!Targets, NEW X \in SUBSET T!Everything, X \notin Items(t),
         requests' = T!Ask(t, X), UNCHANGED <<mode, connected, changes, served>>
  PROVE  /\ IsFiniteSet(requests)' /\ Distinct' /\ \A r \in requests' : RequestOK(r)'
         /\ Items(t)' = Items(t) \union {X}
         /\ \A u \in T!Targets \ {t} : Items(u)' = Items(u)
<1> DEFINE q == [target |-> t, items |-> X, state |-> "asked", device |-> T!Any]
<1>1. requests' = requests \union {q}
  BY DEF T!Ask
<1>2. IsFiniteSet(requests')
  <2>1. IsFiniteSet(requests)
    BY DEF CommandInv, CommandTypes
  <2>2. IsFiniteSet(requests \union {q})
    BY <2>1, FS_AddElement
  <2> QED
    BY <1>1, <2>2
<1>3. q.target = t /\ q.items = X /\ q.state = "asked"
  OBVIOUS
<1>4. RequestOK(q)
  BY CommandConstants DEF RequestOK, States
<1> HIDE DEF q
<1>5. RequestOK(q)'
  BY <1>4, RequestKeeps
<1>6. \A r \in requests : RequestOK(r)'
  BY RequestKeeps DEF CommandInv
<1>7. \A r \in requests : ~(r.target = t /\ r.items = X)
  BY DEF Items, T!Own
<1>8. Distinct'
  BY <1>1, <1>3, <1>7 DEF CommandInv, Distinct
<1>9. T!Own(t)' = T!Own(t) \union {q} /\ \A u \in T!Targets \ {t} : T!Own(u)' = T!Own(u)
  BY <1>1, <1>3 DEF T!Own
<1>10. Items(t)' = Items(t) \union {X}
  BY <1>3, <1>9 DEF Items
<1>11. \A u \in T!Targets \ {t} : Items(u)' = Items(u)
  BY <1>9 DEF Items
<1> QED
  BY <1>1, <1>2, <1>5, <1>6, <1>8, <1>10, <1>11

LEMMA TakeStep ==
  ASSUME CommandInv, NEW t \in T!Targets, NEW r \in T!Own(t), requests' = requests \ {r},
         UNCHANGED <<mode, connected, changes, served>>
  PROVE  /\ IsFiniteSet(requests)' /\ Distinct' /\ \A q \in requests' : RequestOK(q)'
         /\ Items(t)' = Items(t) \ {r.items} /\ r.items \in Items(t)
         /\ \A u \in T!Targets \ {t} : Items(u)' = Items(u)
<1>1. IsFiniteSet(requests') /\ Distinct'
  BY FS_RemoveElement DEF CommandInv, CommandTypes, Distinct
<1>2. \A q \in requests' : RequestOK(q)'
  BY RequestKeeps DEF CommandInv
<1>3. T!Own(t)' = T!Own(t) \ {r} /\ \A u \in T!Targets \ {t} : T!Own(u)' = T!Own(u)
  BY DEF T!Own
<1>4. \A q \in T!Own(t) : q.items = r.items => q = r
  BY DEF CommandInv, Distinct, T!Own
<1>5. Items(t)' = Items(t) \ {r.items}
  BY <1>3, <1>4 DEF Items
<1>6. r.items \in Items(t)
  BY DEF Items
<1>7. \A u \in T!Targets \ {t} : Items(u)' = Items(u)
  BY <1>3 DEF Items
<1> QED
  BY <1>1, <1>2, <1>5, <1>6, <1>7

LEMMA BecomesStep ==
  ASSUME CommandInv, NEW r \in requests, NEW s \in States, NEW d \in T!Targets,
         requests' = T!Becomes(r, s, d), UNCHANGED <<mode, connected, changes>>,
         \A u \in T!Targets : served[u] \subseteq served'[u],
         s \in {"serving", "done"} => d \in Devices /\ ServedBy(r.target, d),
         s = "done" => \A x \in r.items : <<x, d>> \in served'[r.target]
  PROVE  /\ IsFiniteSet(requests)' /\ Distinct' /\ \A q \in requests' : RequestOK(q)'
         /\ \A u \in T!Targets : Items(u)' = Items(u)
<1> DEFINE b == [r EXCEPT !.state = s, !.device = d]
<1>1. requests' = (requests \ {r}) \union {b}
  BY DEF T!Becomes
<1>2. IsFiniteSet(requests')
  <2>1. IsFiniteSet(requests \ {r})
    BY FS_RemoveElement DEF CommandInv, CommandTypes
  <2> QED
    BY <1>1, <2>1, FS_AddElement
<1>3. RequestOK(r) /\ r.target \in T!Targets
  BY DEF CommandInv, RequestOK
<1>4. /\ b \in [target : T!Targets, items : SUBSET T!Everything, state : States, device : T!Targets]
      /\ b.target = r.target /\ b.items = r.items /\ b.state = s /\ b.device = d
  BY <1>3 DEF RequestOK
<1> HIDE DEF b
<1>5. RequestOK(b)'
  BY <1>4 DEF RequestOK, ServedBy, T!Everything, T!Preparations
<1>6. \A q \in requests : RequestOK(q)'
  BY RequestKeeps DEF CommandInv, RequestOK
<1>7. Distinct'
  BY <1>1, <1>4 DEF CommandInv, Distinct
<1>8. \A u \in T!Targets : Items(u)' = Items(u)
  BY <1>1, <1>4 DEF Items, T!Own
<1> QED
  BY <1>1, <1>2, <1>5, <1>6, <1>7, <1>8

\* A step of one target's transfer.
LEMMA ClientStep ==
  ASSUME CommandInv, NEW t \in T!Targets, phase[t] \in {"prepare", "files"},
         UNCHANGED <<mode, command, targets, connected, changes, served>>,
         \A u \in T!Targets \ {t} : /\ phase'[u] = phase[u] /\ prepared'[u] = prepared[u]
                                    /\ spawned'[u] = spawned[u] /\ counted'[u] = counted[u]
                                    /\ Items(u)' = Items(u),
         phase' \in [T!Targets -> {"none", "prepare", "files", "ok", "failed"}],
         prepared' \in [T!Targets -> Nat], spawned' \in [T!Targets -> Nat], counted' \in [T!Targets -> Nat],
         IsFiniteSet(requests)', Distinct', \A r \in requests' : RequestOK(r)', PhaseOK(t)'
  PROVE  CommandInv'
<1>1. T!Everything' = T!Everything
  BY DEF T!Everything, T!Preparations
<1>2. CommandTypes'
  BY <1>1 DEF CommandInv, CommandTypes
<1>3. \A u \in T!Targets : \A p \in served'[u] : ServedBy(u, p[2])'
  BY DEF CommandInv, ServedBy
<1>4. \A u \in T!Targets : \A x : Done(u, x) => Done(u, x)'
  BY DEF Done
<1>5. \A u \in T!Targets \ {t} : PhaseOK(u)'
  BY <1>4, PhaseKeeps DEF CommandInv
<1>6. command # "start" /\ (command = "ok" => t \notin targets)
  BY DEF CommandInv
<1>7. command' = "ok" => \A u \in targets' : phase'[u] = "ok"
  BY <1>6 DEF CommandInv, CommandTypes
<1> QED
  BY <1>2, <1>3, <1>5, <1>6, <1>7 DEF CommandInv

LEMMA ClientKeeps == ASSUME CommandInv, NEW t \in T!Targets, T!Client(t) \/ T!LocalFails(t) PROVE CommandInv'
<1>1. /\ phase \in [T!Targets -> {"none", "prepare", "files", "ok", "failed"}]
      /\ prepared \in [T!Targets -> Nat] /\ spawned \in [T!Targets -> Nat] /\ counted \in [T!Targets -> Nat]
      /\ IsFiniteSet(requests) /\ Distinct /\ PhaseOK(t) /\ \A r \in requests : RequestOK(r)
  BY DEF CommandInv, CommandTypes
<1>2. /\ IsFiniteSet(Items(t)) /\ Cardinality(T!Own(t)) = Cardinality(Items(t))
      /\ Cardinality(Items(t)) \in Nat /\ (T!Own(t) = {} <=> Items(t) = {})
  BY <1>1, OwnCount
<1>3. T!Preparations \in Nat \ {0} /\ Jobs \in Nat \ {0} /\ FileCount \in Nat
  BY CommandConstants
<1>4. ASSUME mode' = mode PROVE T!Preparations' = T!Preparations /\ \A n : T!BatchEnd(n)' = T!BatchEnd(n)
  BY <1>4 DEF T!Preparations, T!BatchEnd
<1>5. CASE T!Prepare(t)
  <2> DEFINE X == {T!Prep(i) : i \in prepared[t] + 1..T!BatchEnd(prepared[t])}
  <2>1. /\ phase[t] = "prepare" /\ T!Own(t) = {} /\ prepared[t] < T!Preparations
        /\ requests' = T!Ask(t, X)
        /\ UNCHANGED <<mode, command, targets, connected, changes, phase, prepared, spawned, counted, served>>
    BY <1>5 DEF T!Prepare
  <2>2. T!BatchEnd(prepared[t]) \in prepared[t] + 1..T!Preparations
    BY <1>1, <2>1, BatchGoesOn
  <2>3. X \in SUBSET T!Everything
    BY <1>1, <1>3, <2>2 DEF T!Everything
  <2> HIDE DEF X
  <2>4. X \notin Items(t)
    BY <1>2, <2>1
  <2>5. /\ IsFiniteSet(requests)' /\ Distinct' /\ \A r \in requests' : RequestOK(r)'
        /\ Items(t)' = Items(t) \union {X}
        /\ \A u \in T!Targets \ {t} : Items(u)' = Items(u)
    BY <2>1, <2>3, <2>4, AskStep
  <2>6. \A i : Done(t, T!Prep(i))' <=> Done(t, T!Prep(i))
    BY <2>1 DEF Done
  <2>7. PhaseOK(t)'
    BY <1>1, <1>2, <1>4, <2>1, <2>5, <2>6 DEF PhaseOK, X
  <2> QED
    BY <1>1, <2>1, <2>5, <2>7, ClientStep
<1>6. CASE T!Prepared(t)
  <2>1. PICK r \in T!Own(t) :
            /\ r.state \in {"done", "error"} /\ requests' = requests \ {r}
            /\ IF r.state = "done"
                 THEN /\ prepared' = [prepared EXCEPT ![t] = T!BatchEnd(@)]
                      /\ phase' = IF prepared'[t] = T!Preparations
                                    THEN [phase EXCEPT ![t] = "files"] ELSE phase
                 ELSE phase' = [phase EXCEPT ![t] = "failed"] /\ UNCHANGED prepared
    BY <1>6 DEF T!Prepared
  <2>2. /\ phase[t] = "prepare"
        /\ UNCHANGED <<mode, command, targets, connected, changes, spawned, counted, served>>
    BY <1>6 DEF T!Prepared
  <2>3. /\ IsFiniteSet(requests)' /\ Distinct' /\ \A q \in requests' : RequestOK(q)'
        /\ Items(t)' = Items(t) \ {r.items} /\ r.items \in Items(t)
        /\ \A u \in T!Targets \ {t} : Items(u)' = Items(u)
    BY <2>1, <2>2, TakeStep
  <2>4. /\ prepared[t] < T!Preparations /\ spawned[t] = 0 /\ counted[t] = 0
        /\ \A i \in 1..prepared[t] : Done(t, T!Prep(i))
        /\ Items(t) \subseteq {{T!Prep(i) : i \in prepared[t] + 1..T!BatchEnd(prepared[t])}}
    BY <1>1, <2>2 DEF PhaseOK
  <2>5. r.items = {T!Prep(i) : i \in prepared[t] + 1..T!BatchEnd(prepared[t])} /\ Items(t)' = {}
    BY <2>3, <2>4
  <2>6. Cardinality(Items(t)') = 0
    BY <2>5, FS_EmptySet
  <2>7. CASE r.state = "done"
    <3>1. T!BatchEnd(prepared[t]) \in prepared[t] + 1..T!Preparations
      BY <1>1, <2>4, BatchGoesOn
    <3>2. \A x \in r.items : Done(t, x)
      <4>1. r \in requests /\ r.target = t
        BY <2>1 DEF T!Own
      <4> QED
        BY <1>1, <2>7, <4>1 DEF RequestOK, Done
    <3>3. prepared'[t] = T!BatchEnd(prepared[t]) /\ prepared' = [prepared EXCEPT ![t] = T!BatchEnd(@)]
      BY <1>1, <2>1, <2>7
    <3>4. \A i \in 1..T!BatchEnd(prepared[t]) : Done(t, T!Prep(i))
      <4> SUFFICES ASSUME NEW i \in 1..T!BatchEnd(prepared[t]) PROVE Done(t, T!Prep(i))
        OBVIOUS
      <4>1. prepared[t] \in Nat
        BY <1>1
      <4>2. i \in 1..prepared[t] \/ i \in prepared[t] + 1..T!BatchEnd(prepared[t])
        BY <3>1, <4>1
      <4> QED
        BY <2>4, <2>5, <3>2, <4>2
    <3>5. \A i : Done(t, T!Prep(i))' <=> Done(t, T!Prep(i))
      BY <2>2 DEF Done
    <3>6. CASE T!BatchEnd(prepared[t]) = T!Preparations
      <4>1. phase' = [phase EXCEPT ![t] = "files"] /\ phase'[t] = "files"
        BY <1>1, <2>1, <2>7, <3>3, <3>6
      <4>2. spawned'[t] = 0 /\ counted'[t] = 0
        BY <2>2, <2>4
      <4>3. /\ 0 <= FileCount /\ 0 + 0 = 0 /\ 0 <= Jobs
            /\ \A i \in 1..0 : FALSE
        BY <1>3
      <4>4. \A i \in 1..T!Preparations' : Done(t, T!Prep(i))'
        BY <1>4, <2>2, <3>4, <3>5, <3>6
      <4>5. PhaseOK(t)'
        BY <2>5, <2>6, <4>1, <4>2, <4>3, <4>4 DEF PhaseOK
      <4> QED
        BY <1>1, <2>2, <2>3, <3>1, <3>3, <4>1, <4>5, ClientStep
    <3>7. CASE T!BatchEnd(prepared[t]) # T!Preparations
      <4>1. phase' = phase
        BY <2>1, <2>7, <3>3, <3>7
      <4>2. prepared'[t] < T!Preparations
        BY <1>3, <3>1, <3>3, <3>7
      <4>3. PhaseOK(t)'
        BY <1>4, <2>2, <2>4, <2>5, <3>3, <3>4, <3>5, <4>1, <4>2 DEF PhaseOK
      <4> QED
        BY <1>1, <2>2, <2>3, <3>1, <3>3, <4>1, <4>3, ClientStep
    <3> QED
      BY <3>6, <3>7
  <2>8. CASE r.state # "done"
    <3>1. phase' = [phase EXCEPT ![t] = "failed"] /\ phase'[t] = "failed" /\ UNCHANGED prepared
      BY <1>1, <2>1, <2>8
    <3>2. PhaseOK(t)'
      BY <1>3, <2>6, <3>1 DEF PhaseOK
    <3> QED
      BY <1>1, <2>2, <2>3, <3>1, <3>2, ClientStep
  <2> QED
    BY <2>7, <2>8
<1>7. CASE T!SpawnFile(t)
  <2> DEFINE X == {T!File(spawned[t] + 1)}
  <2>1. /\ phase[t] = "files" /\ spawned[t] < FileCount /\ Cardinality(T!Own(t)) < Jobs
        /\ spawned' = [spawned EXCEPT ![t] = @ + 1] /\ requests' = T!Ask(t, X)
        /\ UNCHANGED <<mode, command, targets, connected, changes, phase, prepared, counted, served>>
    <3> HIDE DEF X
    <3>1. phase[t] = "files" /\ spawned[t] < FileCount /\ Cardinality(T!Own(t)) < Jobs
      BY <1>7, SameCardinality DEF T!SpawnFile
    <3>2. requests' = T!Ask(t, X)
      BY <1>7 DEF T!SpawnFile, X
    <3>3. /\ spawned' = [spawned EXCEPT ![t] = @ + 1]
          /\ UNCHANGED <<mode, command, targets, connected, changes, phase, prepared, counted, served>>
      BY <1>7 DEF T!SpawnFile
    <3> QED
      BY <3>1, <3>2, <3>3
  <2>2. /\ \A i \in 1..T!Preparations : Done(t, T!Prep(i))
        /\ counted[t] + Cardinality(Items(t)) = spawned[t]
        /\ \A x \in Items(t) : \E i \in 1..spawned[t] : x = {T!File(i)}
        /\ \A i \in 1..spawned[t] : Done(t, T!File(i)) \/ {T!File(i)} \in Items(t)
    BY <1>1, <2>1 DEF PhaseOK
  <2>3. spawned[t] \in Nat /\ counted[t] \in Nat /\ spawned'[t] = spawned[t] + 1
    BY <1>1, <2>1
  <2>4. X \in SUBSET T!Everything
    BY <1>3, <2>1, <2>3 DEF T!Everything
  <2>5. X \notin Items(t)
    <3> SUFFICES ASSUME X \in Items(t) PROVE FALSE
      OBVIOUS
    <3>1. PICK i \in 1..spawned[t] : X = {T!File(i)}
      BY <2>2
    <3>2. T!File(i) = T!File(spawned[t] + 1)
      BY <3>1
    <3>3. i = spawned[t] + 1
      BY <3>2 DEF T!File
    <3> QED
      BY <2>3, <3>3
  <2> HIDE DEF X
  <2>6. /\ IsFiniteSet(requests)' /\ Distinct' /\ \A r \in requests' : RequestOK(r)'
        /\ Items(t)' = Items(t) \union {X}
        /\ \A u \in T!Targets \ {t} : Items(u)' = Items(u)
    BY <2>1, <2>4, <2>5, AskStep
  <2>7. Cardinality(Items(t)') = Cardinality(Items(t)) + 1
    BY <1>2, <2>5, <2>6, FS_AddElement
  <2>8. \A x : Done(t, x)' <=> Done(t, x)
    BY <2>1 DEF Done
  <2>9. /\ spawned'[t] <= FileCount /\ counted'[t] + Cardinality(Items(t)') = spawned'[t]
        /\ Cardinality(Items(t)') <= Jobs
    BY <1>2, <1>3, <2>1, <2>2, <2>3, <2>7
  <2>10. \A x \in Items(t)' : \E i \in 1..spawned'[t] : x = {T!File(i)}
    <3>1. spawned'[t] \in 1..spawned'[t] /\ X = {T!File(spawned'[t])}
      BY <2>3 DEF X
    <3>2. \A i \in 1..spawned[t] : i \in 1..spawned'[t]
      BY <2>3
    <3> QED
      BY <2>2, <2>6, <3>1, <3>2
  <2>11. \A i \in 1..spawned'[t] : Done(t, T!File(i))' \/ {T!File(i)} \in Items(t)'
    <3>1. \A i \in 1..spawned'[t] : i \in 1..spawned[t] \/ i = spawned[t] + 1
      BY <2>3
    <3> QED
      BY <2>2, <2>6, <2>8, <3>1 DEF X
  <2>12. \A i \in 1..T!Preparations' : Done(t, T!Prep(i))'
    BY <1>4, <2>1, <2>2, <2>8
  <2>13. PhaseOK(t)'
    BY <2>1, <2>9, <2>10, <2>11, <2>12 DEF PhaseOK
  <2>14. spawned' \in [T!Targets -> Nat] /\ \A u \in T!Targets \ {t} : spawned'[u] = spawned[u]
    BY <1>1, <2>1, <2>3
  <2> QED
    BY <1>1, <2>1, <2>6, <2>13, <2>14, ClientStep
<1>8. CASE T!Join(t)
  <2>1. PICK r \in T!Own(t) :
            /\ r.state \in {"done", "error"} /\ requests' = requests \ {r}
            /\ IF r.state = "done"
                 THEN counted' = [counted EXCEPT ![t] = @ + 1] /\ UNCHANGED phase
                 ELSE phase' = [phase EXCEPT ![t] = "failed"] /\ UNCHANGED counted
    BY <1>8 DEF T!Join
  <2>2. /\ phase[t] = "files"
        /\ UNCHANGED <<mode, command, targets, connected, changes, prepared, spawned, served>>
    BY <1>8 DEF T!Join
  <2>3. /\ IsFiniteSet(requests)' /\ Distinct' /\ \A q \in requests' : RequestOK(q)'
        /\ Items(t)' = Items(t) \ {r.items} /\ r.items \in Items(t)
        /\ \A u \in T!Targets \ {t} : Items(u)' = Items(u)
    BY <2>1, <2>2, TakeStep
  <2>4. Cardinality(Items(t)') = Cardinality(Items(t)) - 1
    BY <1>2, <2>3, FS_RemoveElement
  <2>5. /\ \A i \in 1..T!Preparations : Done(t, T!Prep(i))
        /\ spawned[t] <= FileCount /\ counted[t] + Cardinality(Items(t)) = spawned[t]
        /\ Cardinality(Items(t)) <= Jobs
        /\ \A x \in Items(t) : \E i \in 1..spawned[t] : x = {T!File(i)}
        /\ \A i \in 1..spawned[t] : Done(t, T!File(i)) \/ {T!File(i)} \in Items(t)
    BY <1>1, <2>2 DEF PhaseOK
  <2>6. CASE r.state = "done"
    <3>1. counted' = [counted EXCEPT ![t] = @ + 1] /\ phase' = phase
      BY <2>1, <2>6
    <3>2. counted'[t] = counted[t] + 1 /\ counted[t] \in Nat /\ spawned[t] \in Nat
      BY <1>1, <3>1
    <3>3. \A x \in r.items : Done(t, x)
      <4>1. r \in requests /\ r.target = t
        BY <2>1 DEF T!Own
      <4> QED
        BY <1>1, <2>6, <4>1 DEF RequestOK, Done
    <3>4. \A x : Done(t, x)' <=> Done(t, x)
      BY <2>2 DEF Done
    <3>5. \A i \in 1..spawned'[t] : Done(t, T!File(i))' \/ {T!File(i)} \in Items(t)'
      BY <2>2, <2>3, <2>5, <3>3, <3>4
    <3>6. /\ spawned'[t] <= FileCount /\ counted'[t] + Cardinality(Items(t)') = spawned'[t]
          /\ Cardinality(Items(t)') <= Jobs
      BY <1>2, <1>3, <2>2, <2>4, <2>5, <3>2
    <3>7. \A i \in 1..T!Preparations' : Done(t, T!Prep(i))'
      BY <1>4, <2>2, <2>5, <3>4
    <3>8. \A x \in Items(t)' : \E i \in 1..spawned'[t] : x = {T!File(i)}
      BY <2>2, <2>3, <2>5
    <3>9. PhaseOK(t)'
      BY <2>2, <3>1, <3>5, <3>6, <3>7, <3>8 DEF PhaseOK
    <3> QED
      BY <1>1, <2>2, <2>3, <3>1, <3>9, ClientStep
  <2>7. CASE r.state # "done"
    <3>1. phase' = [phase EXCEPT ![t] = "failed"] /\ phase'[t] = "failed" /\ UNCHANGED counted
      BY <1>1, <2>1, <2>7
    <3>2. Cardinality(Items(t)') < Jobs
      BY <1>2, <1>3, <2>4, <2>5
    <3>3. PhaseOK(t)'
      BY <3>1, <3>2 DEF PhaseOK
    <3> QED
      BY <1>1, <2>2, <2>3, <3>1, <3>3, ClientStep
  <2> QED
    BY <2>6, <2>7
<1>9. CASE T!Finish(t) \/ T!LocalFails(t)
  <2>1. /\ phase[t] = "files" /\ \E p \in {"ok", "failed"} : phase' = [phase EXCEPT ![t] = p]
        /\ UNCHANGED <<mode, command, targets, connected, changes, prepared, spawned, counted, requests, served>>
    BY <1>9 DEF T!Finish, T!LocalFails
  <2>2. \A u : Items(u)' = Items(u) /\ \A x : Done(u, x)' <=> Done(u, x)
    BY <2>1 DEF Items, T!Own, Done
  <2>3. \A r \in requests' : RequestOK(r)'
    BY <1>1, <2>1, RequestKeeps
  <2>4. PhaseOK(t)'
    <3>1. CASE T!Finish(t)
      <4>1. phase'[t] = "ok" /\ spawned[t] = FileCount /\ Items(t) = {}
        BY <1>1, <1>2, <3>1 DEF T!Finish
      <4> QED
        BY <1>1, <1>4, <2>1, <2>2, <4>1 DEF PhaseOK
    <3>2. CASE T!LocalFails(t)
      <4>1. phase'[t] = "failed" /\ mode = "pull"
        BY <1>1, <3>2 DEF T!LocalFails
      <4>2. Cardinality(Items(t)) <= Jobs
        BY <1>1, <2>1 DEF PhaseOK
      <4> QED
        BY <1>2, <1>3, <2>1, <2>2, <4>1, <4>2 DEF PhaseOK
    <3> QED
      BY <1>9, <3>1, <3>2
  <2>5. IsFiniteSet(requests)' /\ Distinct'
    BY <1>1, <2>1 DEF Distinct
  <2> QED
    BY <1>1, <2>1, <2>2, <2>3, <2>4, <2>5, ClientStep
<1> QED
  BY <1>5, <1>6, <1>7, <1>8, <1>9 DEF T!Client

\* What the server does, and the devices that come and go.
LEMMA ServerStep ==
  ASSUME CommandInv, UNCHANGED <<mode, command, targets, phase, prepared, spawned, counted>>,
         connected' \subseteq Devices, changes' \in Nat,
         served' \in [T!Targets -> SUBSET (T!Everything \X Devices)],
         \A u \in T!Targets : served[u] \subseteq served'[u],
         \A u \in T!Targets : \A p \in served'[u] : ServedBy(u, p[2])',
         IsFiniteSet(requests)', Distinct', \A r \in requests' : RequestOK(r)',
         \A u \in T!Targets : Items(u)' = Items(u)
  PROVE  CommandInv'
<1>1. T!Everything' = T!Everything
  BY DEF T!Everything, T!Preparations
<1>2. CommandTypes'
  BY <1>1 DEF CommandInv, CommandTypes
<1>3. \A u \in T!Targets : \A x : Done(u, x) => Done(u, x)'
  BY DEF Done
<1>4. \A u \in T!Targets : PhaseOK(u)'
  BY <1>3, PhaseKeeps DEF CommandInv
<1> QED
  BY <1>2, <1>4 DEF CommandInv

LEMMA ServerKeeps == ASSUME CommandInv, NEW r \in requests, T!Resolve(r) \/ T!Serve(r) PROVE CommandInv'
<1>1. /\ RequestOK(r) /\ r.target \in T!Targets /\ connected \subseteq Devices /\ changes \in Nat
      /\ served \in [T!Targets -> SUBSET (T!Everything \X Devices)]
      /\ \A u \in T!Targets : \A p \in served[u] : ServedBy(u, p[2])
  BY DEF CommandInv, CommandTypes, RequestOK
<1>2. CASE T!Resolve(r)
  <2>1. UNCHANGED <<mode, command, targets, connected, changes, phase, prepared, spawned, counted, served>>
    BY <1>2 DEF T!Resolve
  <2>2. PICK s \in States, d \in T!Targets :
            /\ requests' = T!Becomes(r, s, d) /\ s # "done"
            /\ s = "serving" => d \in Devices /\ ServedBy(r.target, d)
    <3>1. CASE T!Cardinality(T!Resolved(r.target)) = 1
      <4> DEFINE d == CHOOSE x \in T!Resolved(r.target) : TRUE
      <4>1. requests' = T!Becomes(r, "serving", d)
        BY <1>2, <3>1 DEF T!Resolve
      <4>2. T!Resolved(r.target) \subseteq connected
        BY DEF T!Resolved
      <4>3. IsFiniteSet(T!Resolved(r.target))
        BY <1>1, <4>2, CommandConstants, FS_Subset
      <4>4. PICK x : T!Resolved(r.target) = {x}
        BY <3>1, <4>3, SameCardinality, FS_Singleton
      <4>5. d = x
        BY <4>4
      <4>6. x \in Devices /\ ServedBy(r.target, x)
        BY <1>1, <4>2, <4>4, CommandConstants DEF T!Resolved, ServedBy
      <4> HIDE DEF d
      <4> QED
        BY <4>1, <4>5, <4>6, CommandConstants DEF States
    <3>2. CASE T!Cardinality(T!Resolved(r.target)) # 1
      BY <1>2, <3>2, CommandConstants DEF T!Resolve, States
    <3> QED
      BY <3>1, <3>2
  <2>3. /\ IsFiniteSet(requests)' /\ Distinct' /\ \A q \in requests' : RequestOK(q)'
        /\ \A u \in T!Targets : Items(u)' = Items(u)
    BY <2>1, <2>2, BecomesStep
  <2>4. \A u \in T!Targets : \A p \in served'[u] : ServedBy(u, p[2])'
    BY <1>1, <2>1 DEF ServedBy
  <2> QED
    BY <1>1, <2>1, <2>3, <2>4, ServerStep
<1>3. CASE T!Serve(r)
  <2>1. /\ r.state = "serving"
        /\ UNCHANGED <<mode, command, targets, connected, changes, phase, prepared, spawned, counted>>
    BY <1>3 DEF T!Serve
  <2>2. r.device \in Devices /\ r.device \in T!Targets /\ ServedBy(r.target, r.device)
        /\ r.items \subseteq T!Everything
    BY <1>1, <2>1, CommandConstants DEF RequestOK
  <2>3. CASE /\ requests' = T!Becomes(r, "done", r.device)
             /\ served' = [served EXCEPT ![r.target] = @ \union (r.items \X {r.device})]
    <3>1. /\ served'[r.target] = served[r.target] \union (r.items \X {r.device})
          /\ \A u \in T!Targets \ {r.target} : served'[u] = served[u]
      BY <1>1, <2>3
    <3>2. \A u \in T!Targets : served[u] \subseteq served'[u]
      BY <3>1
    <3>3. r.items \X {r.device} \subseteq T!Everything \X Devices
      BY <2>2
    <3>4. served' \in [T!Targets -> SUBSET (T!Everything \X Devices)]
      BY <1>1, <2>3, <3>3
    <3>5. \A x \in r.items : <<x, r.device>> \in served'[r.target]
      BY <3>1
    <3>6. /\ IsFiniteSet(requests)' /\ Distinct' /\ \A q \in requests' : RequestOK(q)'
          /\ \A u \in T!Targets : Items(u)' = Items(u)
      BY <2>1, <2>2, <2>3, <3>2, <3>5, BecomesStep DEF States
    <3>7. ASSUME NEW u \in T!Targets, NEW p \in served'[u] PROVE ServedBy(u, p[2])
      <4>1. p \in served[u] \/ (u = r.target /\ p[2] = r.device)
        BY <3>1, <3>7
      <4> QED
        BY <1>1, <2>2, <4>1
    <3>8. \A u \in T!Targets : \A p \in served'[u] : ServedBy(u, p[2])'
      BY <2>1, <3>7 DEF ServedBy
    <3> QED
      BY <1>1, <2>1, <3>2, <3>4, <3>6, <3>8, ServerStep
  <2>4. CASE requests' = T!Becomes(r, "error", r.device) /\ UNCHANGED served
    <3>1. /\ IsFiniteSet(requests)' /\ Distinct' /\ \A q \in requests' : RequestOK(q)'
          /\ \A u \in T!Targets : Items(u)' = Items(u)
      BY <2>1, <2>2, <2>4, BecomesStep DEF States
    <3>2. \A u \in T!Targets : \A p \in served'[u] : ServedBy(u, p[2])'
      BY <1>1, <2>1, <2>4 DEF ServedBy
    <3> QED
      BY <1>1, <2>1, <2>4, <3>1, <3>2, ServerStep
  <2> QED
    BY <1>3, <2>3, <2>4 DEF T!Serve
<1> QED
  BY <1>2, <1>3

LEMMA ChangesKeeps == ASSUME CommandInv, NEW d \in Devices, T!Changes(d) PROVE CommandInv'
<1>1. /\ changes \in Nat /\ changes' = changes + 1 /\ connected \subseteq Devices
      /\ UNCHANGED <<mode, command, targets, phase, prepared, spawned, counted, served>>
      /\ served \in [T!Targets -> SUBSET (T!Everything \X Devices)] /\ IsFiniteSet(requests) /\ Distinct
      /\ \A u \in T!Targets : \A p \in served[u] : ServedBy(u, p[2])
      /\ \A r \in requests : RequestOK(r)
  BY DEF T!Changes, CommandInv, CommandTypes
<1>2. connected' \subseteq Devices
  BY <1>1 DEF T!Changes
<1>3. \A u, e : ServedBy(u, e) => ServedBy(u, e)'
  BY <1>1 DEF ServedBy
<1> DEFINE g(r) == IF r.state = "serving" /\ r.device = d THEN [r EXCEPT !.state = "error"] ELSE r
<1>4. requests' = requests \/ requests' = {g(r) : r \in requests}
  BY DEF T!Changes
<1>5. T!Everything' = T!Everything
  BY <1>1 DEF T!Everything, T!Preparations
<1>6. \A r \in requests : RequestOK(r)'
  BY <1>1, <1>3, <1>5 DEF RequestOK
<1>7. CASE requests' = requests
  <2>1. \A u \in T!Targets : Items(u)' = Items(u)
    BY <1>7 DEF Items, T!Own
  <2>2. Distinct'
    BY <1>1, <1>7 DEF Distinct
  <2> QED
    BY <1>1, <1>2, <1>3, <1>6, <1>7, <2>1, <2>2, ServerStep
<1>8. CASE requests' = {g(r) : r \in requests}
  <2>1. \A r \in requests : g(r).target = r.target /\ g(r).items = r.items
    BY <1>1 DEF RequestOK
  <2>2. ASSUME NEW r \in requests PROVE RequestOK(g(r))'
    <3>1. CASE r.state = "serving" /\ r.device = d
      <4>1. g(r) = [r EXCEPT !.state = "error"]
        BY <3>1
      <4>2. /\ [r EXCEPT !.state = "error"] \in [target : T!Targets, items : SUBSET T!Everything,
                                                 state : States, device : T!Targets]
            /\ [r EXCEPT !.state = "error"].state = "error"
        BY <1>1 DEF RequestOK, States
      <4> QED
        BY <1>5, <4>1, <4>2 DEF RequestOK
    <3>2. CASE ~(r.state = "serving" /\ r.device = d)
      BY <1>6, <3>2
    <3> QED
      BY <3>1, <3>2
  <2>3. IsFiniteSet(requests')
    <3> DEFINE f == [r \in requests |-> g(r)]
    <3>1. f \in [requests -> requests'] /\ \A q \in requests' : \E r \in requests : f[r] = q
      BY <1>8
    <3> HIDE DEF f
    <3>2. f \in Surjection(requests, requests')
      BY <3>1 DEF Surjection
    <3> QED
      BY <1>1, <3>2, FS_Surjection
  <2> HIDE DEF g
  <2>4. Distinct'
    <3> SUFFICES ASSUME NEW p \in requests', NEW q \in requests', p.target = q.target, p.items = q.items
                 PROVE  p = q
      BY DEF Distinct
    <3>1. PICK r \in requests, s \in requests : p = g(r) /\ q = g(s)
      BY <1>8
    <3>2. r = s
      BY <1>1, <2>1, <3>1 DEF Distinct
    <3> QED
      BY <3>1, <3>2
  <2>5. ASSUME NEW u \in T!Targets PROVE Items(u)' = Items(u)
    <3>1. \A r \in T!Own(u) : g(r) \in T!Own(u)' /\ g(r).items = r.items
      BY <1>8, <2>1 DEF T!Own
    <3>2. \A q \in T!Own(u)' : \E r \in T!Own(u) : q.items = r.items
      BY <1>8, <2>1 DEF T!Own
    <3> QED
      BY <3>1, <3>2 DEF Items
  <2>6. \A r \in requests' : RequestOK(r)'
    BY <1>8, <2>2
  <2>7. \A u \in T!Targets : \A p \in served'[u] : ServedBy(u, p[2])'
    BY <1>1, <1>3
  <2> QED
    BY <1>1, <1>2, <2>3, <2>4, <2>5, <2>6, <2>7, ServerStep
<1> QED
  BY <1>4, <1>7, <1>8

LEMMA CommandKeeps == ASSUME CommandInv, T!Command PROVE CommandInv'
<1>1. /\ UNCHANGED <<mode, connected, changes, prepared, spawned, counted, requests, served>>
      /\ phase \in [T!Targets -> {"none", "prepare", "files", "ok", "failed"}]
  BY DEF T!Command, T!Start, T!End, CommandInv, CommandTypes
<1>2. \A u : Items(u)' = Items(u) /\ \A x : Done(u, x)' <=> Done(u, x)
  BY <1>1 DEF Items, T!Own, Done
<1>3. \A r \in requests' : RequestOK(r)'
  BY <1>1, RequestKeeps DEF CommandInv
<1>4. Distinct' /\ \A t \in T!Targets : \A p \in served'[t] : ServedBy(t, p[2])'
  BY <1>1 DEF CommandInv, Distinct, ServedBy
<1>5. T!Everything' = T!Everything
  BY <1>1 DEF T!Everything, T!Preparations
<1>6. CASE T!End
  <2>1. phase' = phase /\ targets' = targets /\ command = "run" /\ command' \in {"failed", "ok"}
    BY <1>6 DEF T!End
  <2>2. command' = "ok" => \A t \in targets' : phase'[t] = "ok"
    BY <1>6, <2>1 DEF T!End, T!Ended
  <2>3. \A t \in T!Targets : PhaseOK(t)'
    BY <1>1, <1>2, <2>1, PhaseKeeps DEF CommandInv
  <2>4. CommandTypes'
    BY <1>1, <1>5, <2>1 DEF CommandInv, CommandTypes
  <2> QED
    BY <1>3, <1>4, <2>1, <2>2, <2>3, <2>4 DEF CommandInv
<1>7. CASE T!Start
  <2>0. PICK ts \in (IF mode = "all" THEN {connected} ELSE {{t} : t \in T!Targets}) :
          \E s \in {"prepare", "failed"} :
            /\ command' = (IF ts = {} THEN "failed" ELSE "run") /\ targets' = ts
            /\ phase' = [t \in T!Targets |-> IF t \in ts THEN s ELSE "none"]
    BY <1>7 DEF T!Start
  <2>1. PICK s \in {"prepare", "failed"} :
            /\ command' = (IF ts = {} THEN "failed" ELSE "run") /\ targets' = ts
            /\ phase' = [t \in T!Targets |-> IF t \in ts THEN s ELSE "none"]
    BY <2>0
  <2>2. command = "start" /\ \A t \in T!Targets : phase[t] = "none"
    BY <1>7 DEF T!Start, CommandInv
  <2>3. ts \subseteq T!Targets
    BY <2>0, CommandConstants DEF CommandInv, CommandTypes
  <2>4. CommandTypes'
    BY <1>1, <1>5, <2>1, <2>3 DEF CommandInv, CommandTypes
  <2>5. ASSUME NEW t \in T!Targets PROVE PhaseOK(t)'
    <3>1. prepared[t] = 0 /\ spawned[t] = 0 /\ counted[t] = 0 /\ Items(t) = {}
      BY <2>2 DEF CommandInv, PhaseOK
    <3>2. Cardinality(Items(t)) = 0
      BY <3>1, FS_EmptySet
    <3>3. phase'[t] \in {"none", "prepare", "failed"}
      BY <2>1
    <3>4. T!Preparations' \in Nat \ {0} /\ Jobs \in Nat \ {0}
      BY <1>1, CommandConstants DEF T!Preparations
    <3>5. \A i \in 1..0 : FALSE
      OBVIOUS
    <3> QED
      BY <1>1, <1>2, <3>1, <3>2, <3>3, <3>4, <3>5 DEF PhaseOK
  <2> QED
    BY <1>3, <1>4, <2>1, <2>4, <2>5 DEF CommandInv
<1> QED
  BY <1>6, <1>7 DEF T!Command

LEMMA CommandInit == StreamsInit => CommandInv
<1> SUFFICES ASSUME T!TransferInit PROVE CommandInv
  BY DEF StreamsInit
<1>1. requests = {} /\ \A t \in T!Targets : phase[t] = "none" /\ prepared[t] = 0 /\ spawned[t] = 0 /\ counted[t] = 0
  BY DEF T!TransferInit
<1>2. \A t \in T!Targets : PhaseOK(t)
  BY <1>1 DEF PhaseOK, Items, T!Own
<1>3. CommandTypes
  BY FS_EmptySet DEF T!TransferInit, CommandTypes
<1>4. \A t \in T!Targets : served[t] = {}
  BY DEF T!TransferInit
<1>5. command = "start"
  BY DEF T!TransferInit
<1> QED
  BY <1>1, <1>2, <1>3, <1>4, <1>5 DEF CommandInv, Distinct

LEMMA CommandNext == CommandInv /\ [StreamsNext]_streamsVars => CommandInv'
<1> SUFFICES ASSUME CommandInv, [StreamsNext]_streamsVars PROVE CommandInv'
  OBVIOUS
<1>1. CASE T!TransferNext
  BY <1>1, ClientKeeps, ServerKeeps, ChangesKeeps, CommandKeeps DEF T!TransferNext, T!Server
<1>2. CASE UNCHANGED transferVars
  <2>1. /\ CommandTypes' = CommandTypes /\ Distinct' = Distinct
        /\ \A r \in requests : RequestOK(r) => RequestOK(r)'
        /\ \A t, d : ServedBy(t, d)' = ServedBy(t, d)
        /\ \A t : Items(t)' = Items(t) /\ \A x : Done(t, x) => Done(t, x)'
    BY <1>2 DEF transferVars, CommandTypes, Distinct, RequestOK, ServedBy, Items, Done, T!Own, T!Everything, T!Preparations
  <2>2. \A t \in T!Targets : PhaseOK(t)'
    BY <1>2, <2>1, PhaseKeeps DEF CommandInv, transferVars
  <2> QED
    BY <1>2, <2>1, <2>2 DEF CommandInv, transferVars
<1> QED
  BY <1>1, <1>2 DEF StreamsNext, streamsVars, WindowStep, PushStep, PullStep, StreamStep, CommandStep

(***************************************************************************)
(* A command that ended well has had everything done that each of its      *)
(* targets needed, and has counted every file (push_path, push_directory,  *)
(* pull_path and drain_transfers of the CLI); by one device, if the target  *)
(* was named by its ID or none has come or gone.  One that failed leaves    *)
(* fewer than Jobs requests to the server.                                  *)
(***************************************************************************)
THEOREM CommandTransfersAll == StreamsSpec => []TransferWhole
<1>1. CommandInv => TransferWhole
  <2> SUFFICES ASSUME CommandInv PROVE T!TransferWhole /\ T!FewGoOn
    BY DEF TransferWhole
  <2>1. T!FewGoOn
    <3>1. \A t \in T!Targets : Cardinality(T!Own(t)) = Cardinality(Items(t))
      BY OwnCount DEF CommandInv, CommandTypes
    <3> QED
      BY <3>1, SameCardinality DEF T!FewGoOn, CommandInv, PhaseOK
  <2>2. ASSUME command = "ok", NEW t \in targets
        PROVE  /\ counted[t] = FileCount
               /\ \A x \in T!Everything : \E d \in Devices : <<x, d>> \in served[t]
               /\ (t \in Devices \/ changes = 0) =>
                     \E d \in Devices : (t = T!Any \/ t = d) /\ served[t] = T!Everything \X {d}
    <3>1. t \in T!Targets /\ phase[t] = "ok" /\ PhaseOK(t)
      BY <2>2 DEF CommandInv, CommandTypes
    <3>2. /\ \A i \in 1..T!Preparations : Done(t, T!Prep(i))
          /\ counted[t] + Cardinality(Items(t)) = spawned[t]
          /\ \A i \in 1..spawned[t] : Done(t, T!File(i)) \/ {T!File(i)} \in Items(t)
          /\ spawned[t] = FileCount /\ Items(t) = {}
      BY <3>1 DEF PhaseOK
    <3>3. counted[t] = FileCount
      BY <3>1, <3>2, FS_EmptySet DEF CommandInv, CommandTypes
    <3>4. \A x \in T!Everything : Done(t, x)
      BY <3>2 DEF T!Everything
    <3>5. ASSUME t \in Devices \/ changes = 0
          PROVE  \E d \in Devices : (t = T!Any \/ t = d) /\ served[t] = T!Everything \X {d}
      <4>1. T!Prep(1) \in T!Everything
        BY CommandConstants DEF T!Everything
      <4>2. PICK d \in Devices : <<T!Prep(1), d>> \in served[t]
        BY <3>4, <4>1 DEF Done
      <4>3. served[t] \subseteq T!Everything \X Devices /\ \A p \in served[t] : ServedBy(t, p[2])
        BY <3>1 DEF CommandInv, CommandTypes
      <4>4. ServedBy(t, d)
        BY <4>2, <4>3
      <4>5. t = T!Any \/ t = d
        BY <3>1, <4>4, CommandConstants DEF ServedBy
      <4>6. ASSUME NEW p \in served[t] PROVE p[2] = d
        BY <3>1, <3>5, <4>3, <4>4, <4>6, CommandConstants DEF ServedBy
      <4>7. served[t] \subseteq T!Everything \X {d}
        BY <4>3, <4>6
      <4>8. ASSUME NEW x \in T!Everything PROVE <<x, d>> \in served[t]
        <5>1. PICK e \in Devices : <<x, e>> \in served[t]
          BY <3>4 DEF Done
        <5>2. e = d
          BY <4>6, <5>1
        <5> QED
          BY <5>1, <5>2
      <4>9. T!Everything \X {d} \subseteq served[t]
        BY <4>8
      <4> QED
        BY <4>5, <4>7, <4>9
    <3> QED
      BY <3>3, <3>4, <3>5 DEF Done
  <2> QED
    BY <2>1, <2>2 DEF T!TransferWhole
<1> QED
  BY <1>1, CommandInit, CommandNext, SafetyPart, PTL
-----------------------------------------------------------------------------
(***************************************************************************)
(* A transfer follows the receive-window protocol.  Sender and Receiver    *)
(* are the two tasks of a transfer of either direction; Data carries the   *)
(* file, Credits the window updates.  Every frame under way is within      *)
(* what its sender has accounted for: the file's frames lie in order       *)
(* between what the receiver has taken and what the sender has sent, the   *)
(* updates between what the sender was credited and what was granted.      *)
(* Frames may be lost, which only leaves gaps.                             *)
(***************************************************************************)
Sender   == IF kind = "push" THEN host ELSE dev
Receiver == IF kind = "push" THEN dev ELSE host
Data     == IF kind = "push" THEN h2d ELSE d2h
Credits  == IF kind = "push" THEN d2h ELSE h2d
Waiting  == IF kind = "push" THEN dev.inbox ELSE host.queue

Charged == FileUnits - xfer.left
\* What has been handed to the connection, and taken from the queue.
Sent  == Charged - (IF Sender.pc = "chunk" /\ ~Sender.written THEN Sender.chunk ELSE 0)
Taken == xfer.file + (IF Receiver.pc = "write" THEN Receiver.chunk ELSE 0)

Sound(f) ==
    /\ f.n >= 0
    /\ f.kind = "FileChunk" => f.n \in 1..Chunk
    /\ f.kind = "StreamWindowUpdate" => f.n >= 1

\* The frames of q, all of them in S, lie between a and b; f takes up w[f].
Along(q, a, b, S, w) ==
    \E off \in [0..Len(q) -> Int] :
        /\ a <= off[0] /\ off[Len(q)] <= b
        /\ \A i, j \in 0..Len(q) : i <= j => off[i] <= off[j]
        /\ \A i \in 1..Len(q) : q[i] \in S /\ off[i - 1] + w[q[i]] <= off[i]

Weights(S, w) == S \subseteq AnyFrame /\ \A f \in S : w[f] \in Nat

\* Nothing lies between any two ends.
LEMMA AlongEmpty ==
  ASSUME NEW a \in Int, NEW b \in Int, a <= b, NEW S, NEW w
  PROVE  Along(<<>>, a, b, S, w)
<1> DEFINE p == [i \in 0..Len(<<>>) |-> a]
<1>1. p \in [0..Len(<<>>) -> Int] /\ Len(<<>>) = 0 /\ p[0] = a
  OBVIOUS
<1>2. /\ \A i \in 0..Len(<<>>) : i = 0
      /\ ~(\E i \in 1..Len(<<>>) : TRUE)
  BY <1>1
<1> HIDE DEF p
<1> QED
  BY <1>1, <1>2 DEF Along

\* Both ends may move apart, and they never cross.
LEMMA AlongWider ==
  ASSUME NEW q \in Seq(AnyFrame), NEW a \in Int, NEW b \in Int, NEW S, NEW w, Along(q, a, b, S, w)
  PROVE  /\ a <= b
         /\ \A c, d \in Int : c <= a /\ b <= d => Along(q, c, d, S, w)
         /\ \A c \in Int : c <= a => Along(q, c, b, S, w)
         /\ \A d \in Int : b <= d => Along(q, a, d, S, w)
<1>1. PICK off \in [0..Len(q) -> Int] :
        /\ a <= off[0] /\ off[Len(q)] <= b
        /\ \A i, j \in 0..Len(q) : i <= j => off[i] <= off[j]
        /\ \A i \in 1..Len(q) : q[i] \in S /\ off[i - 1] + w[q[i]] <= off[i]
  BY DEF Along
<1>2. 0 \in 0..Len(q) /\ Len(q) \in 0..Len(q) /\ 0 <= Len(q)
  OBVIOUS
<1>3. off[0] \in Int /\ off[Len(q)] \in Int /\ off[0] <= off[Len(q)]
  BY <1>1, <1>2
<1>4. a <= b
  BY <1>1, <1>3
<1>5. ASSUME NEW c \in Int, NEW d \in Int, c <= a, b <= d PROVE c <= off[0] /\ off[Len(q)] <= d
  BY <1>1, <1>3, <1>5
<1>6. \A c, d \in Int : c <= a /\ b <= d => Along(q, c, d, S, w)
  BY <1>1, <1>5 DEF Along
<1>7. a <= a /\ b <= b
  OBVIOUS
<1> QED
  BY <1>4, <1>6, <1>7

\* A frame that is sent moves the far end by what it carries.
LEMMA AlongAppend ==
  ASSUME NEW q \in Seq(AnyFrame), NEW a \in Int, NEW b \in Int, NEW S, NEW w, Along(q, a, b, S, w),
         Weights(S, w), NEW f \in S
  PROVE  w[f] \in Int /\ Along(Append(q, f), a, b + w[f], S, w)
<1>1. PICK off \in [0..Len(q) -> Int] :
        /\ a <= off[0] /\ off[Len(q)] <= b
        /\ \A i, j \in 0..Len(q) : i <= j => off[i] <= off[j]
        /\ \A i \in 1..Len(q) : q[i] \in S /\ off[i - 1] + w[q[i]] <= off[i]
  BY DEF Along
<1>2. /\ Len(q) \in Nat /\ Len(Append(q, f)) = Len(q) + 1 /\ Append(q, f)[Len(q) + 1] = f
      /\ \A i \in 1..Len(q) : Append(q, f)[i] = q[i]
  BY AppendAt DEF Weights
<1>3. w[f] \in Int /\ w[f] >= 0 /\ b + w[f] \in Int
  BY DEF Weights
<1> DEFINE p == [i \in 0..(Len(q) + 1) |-> IF i = Len(q) + 1 THEN b + w[f] ELSE off[i]]
<1>4. p \in [0..(Len(q) + 1) -> Int]
  BY <1>2, <1>3
<1>5. \A i \in 0..Len(q) : p[i] = off[i] /\ off[i] \in Int
  BY <1>2
<1>6. p[Len(q) + 1] = b + w[f]
  BY <1>2
<1> HIDE DEF p
<1>7. 0 \in 0..Len(q) /\ Len(q) \in 0..Len(q)
  BY <1>2
<1>8. ASSUME NEW i \in 0..(Len(q) + 1), NEW j \in 0..(Len(q) + 1), i <= j PROVE p[i] <= p[j]
  <2>1. CASE i \in 0..Len(q) /\ j \in 0..Len(q)
    BY <1>1, <1>5, <1>8, <2>1
  <2>2. CASE i \in 0..Len(q) /\ j = Len(q) + 1
    <3>1. off[i] <= off[Len(q)] /\ off[Len(q)] <= b /\ off[i] \in Int /\ off[Len(q)] \in Int
      BY <1>1, <1>2, <1>5, <1>7, <2>2
    <3> QED
      BY <1>3, <1>5, <1>6, <2>2, <3>1
  <2>3. CASE i = Len(q) + 1
    <3>1. j = Len(q) + 1
      BY <1>2, <1>8, <2>3
    <3> QED
      BY <1>3, <1>6, <2>3, <3>1
  <2> QED
    BY <1>2, <2>1, <2>2, <2>3
<1>9. ASSUME NEW i \in 1..(Len(q) + 1)
      PROVE  Append(q, f)[i] \in S /\ p[i - 1] + w[Append(q, f)[i]] <= p[i]
  <2>1. CASE i \in 1..Len(q)
    <3>1. Append(q, f)[i] = q[i] /\ i - 1 \in 0..Len(q) /\ i \in 0..Len(q)
      BY <1>2, <2>1
    <3> QED
      BY <1>1, <1>5, <2>1, <3>1
  <2>2. CASE i = Len(q) + 1
    <3>1. i - 1 = Len(q) /\ Append(q, f)[i] = f
      BY <1>2, <2>2
    <3>2. p[i - 1] = off[Len(q)] /\ off[Len(q)] \in Int /\ off[Len(q)] <= b
      BY <1>1, <1>5, <1>7, <3>1
    <3>3. p[i] = b + w[f]
      BY <1>6, <2>2
    <3> QED
      BY <1>3, <3>1, <3>2, <3>3
  <2> QED
    BY <1>2, <2>1, <2>2
<1>10. a <= p[0] /\ p[Len(q) + 1] <= b + w[f]
  BY <1>1, <1>3, <1>5, <1>6, <1>7
<1> QED
  BY <1>2, <1>3, <1>4, <1>8, <1>9, <1>10 DEF Along

\* The first frame is within the ends, and taking it moves the near one.
LEMMA AlongTail ==
  ASSUME NEW q \in Seq(AnyFrame), q # <<>>, NEW a \in Int, NEW b \in Int, NEW S, NEW w, Along(q, a, b, S, w),
         Weights(S, w)
  PROVE  /\ Head(q) \in S /\ w[Head(q)] \in Int /\ a + w[Head(q)] <= b
         /\ Along(Tail(q), a + w[Head(q)], b, S, w)
<1>1. PICK off \in [0..Len(q) -> Int] :
        /\ a <= off[0] /\ off[Len(q)] <= b
        /\ \A i, j \in 0..Len(q) : i <= j => off[i] <= off[j]
        /\ \A i \in 1..Len(q) : q[i] \in S /\ off[i - 1] + w[q[i]] <= off[i]
  BY DEF Along
<1>2. /\ Len(q) \in Nat \ {0} /\ Len(Tail(q)) = Len(q) - 1 /\ Head(q) = q[1]
      /\ \A i \in 1..(Len(q) - 1) : Tail(q)[i] = q[i + 1]
  BY TailAt
<1>3. Head(q) \in S /\ w[Head(q)] \in Int
  BY <1>1, <1>2 DEF Weights
<1>4. 1 \in 1..Len(q) /\ 1 \in 0..Len(q) /\ 0 \in 0..Len(q) /\ Len(q) \in 0..Len(q) /\ 1 - 1 = 0 /\ 1 <= Len(q)
  BY <1>2
<1>5. /\ off[0] \in Int /\ off[1] \in Int /\ off[Len(q)] \in Int /\ off[1] <= off[Len(q)]
      /\ off[0] + w[q[1]] <= off[1]
  BY <1>1, <1>4
<1>6. a + w[Head(q)] <= off[1] /\ a + w[Head(q)] <= b
  BY <1>1, <1>2, <1>3, <1>5
<1> DEFINE p == [i \in 0..(Len(q) - 1) |-> off[i + 1]]
<1>7. \A i \in 0..(Len(q) - 1) : i + 1 \in 0..Len(q)
  BY <1>2
<1>8. p \in [0..(Len(q) - 1) -> Int]
  BY <1>7
<1>9. \A i \in 0..(Len(q) - 1) : p[i] = off[i + 1]
  OBVIOUS
<1> HIDE DEF p
<1>10. a + w[Head(q)] <= p[0] /\ p[Len(q) - 1] <= b
  <2>1. p[0] = off[1] /\ p[Len(q) - 1] = off[Len(q)]
    BY <1>2, <1>9
  <2> QED
    BY <1>1, <1>6, <2>1
<1>11. \A i, j \in 0..(Len(q) - 1) : i <= j => p[i] <= p[j]
  BY <1>1, <1>7, <1>9
<1>12. ASSUME NEW i \in 1..(Len(q) - 1)
      PROVE  Tail(q)[i] \in S /\ p[i - 1] + w[Tail(q)[i]] <= p[i]
  <2>1. i + 1 \in 1..Len(q) /\ (i + 1) - 1 = i /\ i - 1 \in 0..(Len(q) - 1) /\ (i - 1) + 1 = i /\ i \in 0..(Len(q) - 1)
    BY <1>2
  <2>2. q[i + 1] \in S /\ off[i] + w[q[i + 1]] <= off[i + 1]
    BY <1>1, <2>1
  <2> QED
    BY <1>2, <1>9, <2>1, <2>2
<1> QED
  BY <1>2, <1>3, <1>5, <1>6, <1>8, <1>10, <1>11, <1>12 DEF Along

\* What may happen to frames that lie between two ends.
LEMMA AlongKeeps ==
  ASSUME NEW S, NEW w, Weights(S, w),
         NEW q \in Seq(AnyFrame), NEW a \in Int, NEW b \in Int, Along(q, a, b, S, w),
         NEW r, NEW c \in Int, NEW d \in Int,
         \/ r = q /\ c <= a /\ b <= d
         \/ \E f \in S : r = Append(q, f) /\ c <= a /\ b + w[f] <= d
         \/ q # <<>> /\ r = Tail(q) /\ c <= a + w[Head(q)] /\ b <= d
  PROVE  Along(r, c, d, S, w)
<1>1. CASE r = q /\ c <= a /\ b <= d
  BY <1>1, AlongWider
<1>2. ASSUME NEW f \in S, r = Append(q, f), c <= a, b + w[f] <= d PROVE Along(r, c, d, S, w)
  <2> DEFINE e == b + w[f]
  <2>1. w[f] \in Int /\ e \in Int /\ e <= d /\ Along(r, a, e, S, w)
    BY <1>2, AlongAppend
  <2> HIDE DEF e
  <2>2. r \in Seq(AnyFrame)
    BY <1>2 DEF Weights
  <2> QED
    BY <1>2, <2>1, <2>2, AlongWider
<1>3. CASE q # <<>> /\ r = Tail(q) /\ c <= a + w[Head(q)] /\ b <= d
  <2>1. w[Head(q)] \in Int /\ a + w[Head(q)] \in Int /\ Along(r, a + w[Head(q)], b, S, w)
    BY <1>3, AlongTail
  <2>2. r \in Seq(AnyFrame)
    BY <1>3
  <2> QED
    BY <1>3, <2>1, <2>2, AlongWider
<1> QED
  BY <1>1, <1>2, <1>3

\* The frames of a transfer, none of them of kind `other', by what they carry.
Fair(other) == {f \in AnyFrame : Sound(f) /\ f.kind # other}
Carried     == [f \in AnyFrame |-> f.n]
Within(q, a, b, other) == Along(q, a, b, Fair(other), Carried)

LEMMA FairWeights ==
  ASSUME NEW other
  PROVE  Weights(Fair(other), Carried) /\ \A f \in AnyFrame : Carried[f] = f.n
BY DEF Weights, Fair, Carried, Sound, AnyFrame

LEMMA WithinEmpty ==
  ASSUME NEW a \in Int, NEW b \in Int, a <= b, NEW other
  PROVE  Within(<<>>, a, b, other)
BY AlongEmpty DEF Within

LEMMA WithinWider ==
  ASSUME NEW q \in Seq(AnyFrame), NEW a \in Int, NEW b \in Int, NEW other, Within(q, a, b, other)
  PROVE  /\ a <= b
         /\ \A c, d \in Int : c <= a /\ b <= d => Within(q, c, d, other)
         /\ \A c \in Int : c <= a => Within(q, c, b, other)
         /\ \A d \in Int : b <= d => Within(q, a, d, other)
BY AlongWider DEF Within

LEMMA WithinAppend ==
  ASSUME NEW q \in Seq(AnyFrame), NEW a \in Int, NEW b \in Int, NEW other, Within(q, a, b, other),
         NEW f \in AnyFrame, Sound(f), f.kind # other
  PROVE  f.n \in Int /\ Within(Append(q, f), a, b + f.n, other)
<1>1. f \in Fair(other) /\ Weights(Fair(other), Carried) /\ Carried[f] = f.n
  BY FairWeights DEF Fair
<1> QED
  BY <1>1, AlongAppend DEF Within

LEMMA WithinTail ==
  ASSUME NEW q \in Seq(AnyFrame), q # <<>>, NEW a \in Int, NEW b \in Int, NEW other, Within(q, a, b, other)
  PROVE  /\ Head(q) \in AnyFrame /\ Head(q).n \in Int
         /\ Sound(Head(q)) /\ Head(q).kind # other /\ a + Head(q).n <= b
         /\ Within(Tail(q), a + Head(q).n, b, other)
<1>1. /\ Weights(Fair(other), Carried) /\ Head(q) \in Fair(other) /\ a + Carried[Head(q)] <= b
      /\ Carried[Head(q)] \in Int /\ Along(Tail(q), a + Carried[Head(q)], b, Fair(other), Carried)
  BY FairWeights, AlongTail DEF Within
<1>2. Head(q) \in AnyFrame /\ Sound(Head(q)) /\ Head(q).kind # other /\ Carried[Head(q)] = Head(q).n
  BY <1>1, FairWeights DEF Fair
<1> QED
  BY <1>1, <1>2 DEF Within

-----------------------------------------------------------------------------
(***************************************************************************)
(* The invariant of the accounts.  The receiver's own count of the bytes   *)
(* since its last update is what CreditWindow calls Unreturned, once the   *)
(* window is open.                                                         *)
(***************************************************************************)
Opening  == Receiver.pc = "open_window" /\ (kind = "push" \/ ~Receiver.written)
Unopened == Receiver.pc \in {"none", "open", "request", "create", "meta"} \/ Opening
Owed == xfer.file + Window - xfer.granted

SenderOK ==
    /\ Sender.pc = "credit" => Sender.chunk \in 1..Chunk /\ Sender.chunk <= xfer.left
    /\ Sender.pc = "chunk" => Sender.chunk \in 1..Chunk
ReceiverOK ==
    /\ Receiver.pc = "write" => Receiver.chunk \in 1..Chunk
    /\ Unopened => xfer.file = 0 /\ xfer.unreturned = 0 /\ xfer.granted = 0
    /\ Receiver.pc \in {"open_window", "recv", "write", "grant"} /\ ~Unopened => xfer.unreturned = Owed
    /\ Receiver.pc = "grant" /\ (kind = "push" \/ ~Receiver.written) => xfer.unreturned >= Threshold
    /\ kind # "push" /\ Receiver.pc \in {"meta", "create"} => ~Receiver.written
DataCarried ==
    \E m \in Int : /\ Within(Waiting, Taken, m, "StreamWindowUpdate")
                   /\ Within(Data, m, Sent, "StreamWindowUpdate")
CreditCarried == Within(Credits, xfer.credit + Charged, xfer.granted, "FileChunk")
FlowInv ==
    /\ xfer.left >= 0 /\ xfer.credit >= 0
    /\ SenderOK /\ ReceiverOK /\ DataCarried /\ CreditCarried

\* What a step may do to the file's frames.
Plain(f) == f \in AnyFrame /\ f.n = 0 /\ f.kind \notin {"FileChunk", "StreamWindowUpdate"}
DataMove ==
    \/ Data' = Data /\ Waiting' \in {Waiting, <<>>} /\ Sent' >= Sent /\ Taken' <= Taken
    \/ /\ Waiting' = Waiting /\ Taken' = Taken
       /\ \E f \in AnyFrame : /\ Sound(f) /\ f.kind # "StreamWindowUpdate"
                              /\ Data' = Append(Data, f) /\ Sent' >= Sent + f.n
    \/ /\ Data # <<>> /\ Data' = Tail(Data) /\ Waiting' \in {Waiting, Append(Waiting, Head(Data))}
       /\ Sent' = Sent /\ Taken' = Taken
    \/ /\ Waiting # <<>> /\ Waiting' = Tail(Waiting) /\ Data' = Data
       /\ Sent' = Sent /\ Taken' <= Taken + Head(Waiting).n
\* What it may do to the accounts and the window updates.
CreditMove ==
    \/ /\ xfer' = xfer
       /\ \/ Credits' = Credits
          \/ Credits # <<>> /\ Credits' = Tail(Credits)
          \/ \E f : Plain(f) /\ Credits' = Append(Credits, f)
    \/ /\ Credits' = Credits
       /\ \E n \in 1..Chunk : n <= xfer.left /\ n <= xfer.credit /\ xfer' = U!Paid(n)
    \/ Credits' = Credits /\ Receiver.pc = "write" /\ xfer' = U!Written(Receiver.chunk)
    \/ /\ Owed >= Threshold /\ xfer' = U!Granted(Owed)
       /\ Credits' = Append(Credits, U!WindowUpdate(Owed))
    \/ /\ Credits # <<>> /\ Credits' = Tail(Credits)
       /\ Head(Credits).kind = "StreamWindowUpdate" /\ xfer.credit + Head(Credits).n <= MaxCredit
       /\ xfer' = [xfer EXCEPT !.credit = @ + Head(Credits).n]

AmountTypes ==
         /\ xfer.left \in Int /\ xfer.credit \in Int /\ xfer.file \in Int /\ xfer.unreturned \in Int
         /\ xfer.granted \in Int /\ Charged \in Int /\ Sent \in Int /\ Taken \in Int /\ Owed \in Int
         /\ host.chunk \in Int /\ dev.chunk \in Int
         /\ Data \in Seq(AnyFrame) /\ Credits \in Seq(AnyFrame) /\ Waiting \in Seq(AnyFrame)

\* All the amounts are numbers.
LEMMA Amounts == StreamTypes => AmountTypes
<1> SUFFICES ASSUME StreamTypes PROVE AmountTypes
  OBVIOUS
<1>1. host.chunk \in Int /\ dev.chunk \in Int /\ dev.inbox \in Seq(AnyFrame) /\ host.queue \in Seq(AnyFrame)
      /\ h2d \in Seq(AnyFrame) /\ d2h \in Seq(AnyFrame)
  BY DEF StreamTypes, HostOK, DevOK
<1>2. xfer.left \in Int /\ xfer.credit \in Int /\ xfer.file \in Int /\ xfer.unreturned \in Int /\ xfer.granted \in Int
  BY DEF StreamTypes, XferOK
<1>3. Sender.chunk \in Int /\ Receiver.chunk \in Int
  BY <1>1 DEF Sender, Receiver
<1>4. Data \in Seq(AnyFrame) /\ Credits \in Seq(AnyFrame) /\ Waiting \in Seq(AnyFrame)
  BY <1>1 DEF Data, Credits, Waiting
<1>5. Charged \in Int /\ Owed \in Int
  BY <1>2, Constants DEF Charged, Owed
<1>6. Sent \in Int /\ Taken \in Int
  BY <1>2, <1>3, <1>5 DEF Sent, Taken
<1> QED
  BY <1>1, <1>2, <1>4, <1>5, <1>6 DEF AmountTypes

LEMMA AmountsNext == StreamTypes' => AmountTypes'
<1>1. StreamTypes => AmountTypes
  BY Amounts
<1> QED
  BY <1>1, PTL

\* The file's frames stay within their ends.
LEMMA DataKeeps ==
  ASSUME StreamTypes, StreamTypes', DataCarried, DataMove
  PROVE  DataCarried'
<1>1. /\ Sent \in Int /\ Taken \in Int /\ Sent' \in Int /\ Taken' \in Int
      /\ Data \in Seq(AnyFrame) /\ Waiting \in Seq(AnyFrame)
  BY Amounts, AmountsNext DEF AmountTypes
<1>2. PICK m \in Int : /\ Within(Waiting, Taken, m, "StreamWindowUpdate")
                       /\ Within(Data, m, Sent, "StreamWindowUpdate")
  BY DEF DataCarried
<1>3. Taken <= m /\ m <= Sent
  BY <1>1, <1>2, WithinWider
<1>4. CASE Data' = Data /\ Waiting' = Waiting /\ Sent' >= Sent /\ Taken' <= Taken
  <2>1. Within(Waiting, Taken', m, "StreamWindowUpdate") /\ Within(Data, m, Sent', "StreamWindowUpdate")
    BY <1>1, <1>2, <1>4, WithinWider
  <2> QED
    BY <1>4, <2>1 DEF DataCarried
<1>5. CASE Data' = Data /\ Waiting' = <<>> /\ Sent' >= Sent /\ Taken' <= Taken
  <2>1. Within(<<>>, Taken', m, "StreamWindowUpdate") /\ Within(Data, m, Sent', "StreamWindowUpdate")
    BY <1>1, <1>2, <1>3, <1>5, WithinWider, WithinEmpty
  <2> QED
    BY <1>5, <2>1 DEF DataCarried
<1>6. ASSUME Waiting' = Waiting, Taken' = Taken,
             NEW f \in AnyFrame, Sound(f), f.kind # "StreamWindowUpdate",
             Data' = Append(Data, f), Sent' >= Sent + f.n
      PROVE  DataCarried'
  <2>1. f.n \in Int /\ Sent + f.n \in Int /\ Within(Append(Data, f), m, Sent + f.n, "StreamWindowUpdate")
    BY <1>1, <1>2, <1>6, WithinAppend
  <2>2. Append(Data, f) \in Seq(AnyFrame)
    BY <1>1, <1>6
  <2>3. Within(Append(Data, f), m, Sent', "StreamWindowUpdate")
    BY <1>1, <1>6, <2>1, <2>2, WithinWider
  <2> QED
    BY <1>2, <1>6, <2>3 DEF DataCarried
<1>7. CASE Data # <<>> /\ Data' = Tail(Data) /\ Sent' = Sent /\ Taken' = Taken
           /\ Waiting' \in {Waiting, Append(Waiting, Head(Data))}
  <2>1. /\ Head(Data) \in AnyFrame /\ Head(Data).n \in Int /\ Head(Data).n >= 0
        /\ Sound(Head(Data)) /\ Head(Data).kind # "StreamWindowUpdate"
        /\ Within(Tail(Data), m + Head(Data).n, Sent, "StreamWindowUpdate")
    BY <1>1, <1>2, <1>7, WithinTail DEF Sound
  <2>2. m + Head(Data).n \in Int /\ m <= m + Head(Data).n
    BY <2>1
  <2>3. Within(Waiting', Taken, m + Head(Data).n, "StreamWindowUpdate")
    <3>1. CASE Waiting' = Waiting
      BY <1>1, <1>2, <2>2, <3>1, WithinWider
    <3>2. CASE Waiting' = Append(Waiting, Head(Data))
      BY <1>1, <1>2, <2>1, <3>2, WithinAppend
    <3> QED
      BY <1>7, <3>1, <3>2
  <2> QED
    BY <1>7, <2>1, <2>2, <2>3 DEF DataCarried
<1>8. CASE /\ Waiting # <<>> /\ Waiting' = Tail(Waiting) /\ Data' = Data
           /\ Sent' = Sent /\ Taken' <= Taken + Head(Waiting).n
  <2>1. /\ Head(Waiting).n \in Int /\ Tail(Waiting) \in Seq(AnyFrame)
        /\ Within(Tail(Waiting), Taken + Head(Waiting).n, m, "StreamWindowUpdate")
    BY <1>1, <1>2, <1>8, WithinTail
  <2>2. Within(Tail(Waiting), Taken', m, "StreamWindowUpdate")
    <3>1. Taken + Head(Waiting).n \in Int
      BY <1>1, <2>1
    <3> QED
      BY <1>1, <1>8, <2>1, <3>1, WithinWider
  <2> QED
    BY <1>2, <1>8, <2>2 DEF DataCarried
<1> QED
  BY <1>4, <1>5, <1>6, <1>7, <1>8 DEF DataMove

\* The window updates too; and the accounts move as CreditWindow allows.
LEMMA CreditKeeps ==
  ASSUME StreamTypes, StreamTypes', FlowInv, CreditMove
  PROVE  CreditCarried' /\ xfer'.left >= 0 /\ xfer'.credit >= 0 /\ [U!CW!Next]_(U!CW!vars)
<1>1. /\ xfer.left \in Int /\ xfer.credit \in Int /\ xfer.file \in Int /\ xfer.granted \in Int
      /\ Charged \in Int /\ Credits \in Seq(AnyFrame) /\ Sent \in Int /\ Taken \in Int
      /\ DOMAIN xfer = {"left", "credit", "file", "unreturned", "granted"}
  BY Amounts DEF AmountTypes, StreamTypes, XferOK
<1>2. Within(Credits, xfer.credit + Charged, xfer.granted, "FileChunk") /\ xfer.credit + Charged \in Int
  BY <1>1 DEF FlowInv, CreditCarried
<1>3. U!Charged = Charged /\ (U!Charged)' = Charged' /\ Charged = FileUnits - xfer.left /\ Charged' = FileUnits - xfer'.left
  BY DEF U!Charged, Charged
<1>4. Chunk \in Int /\ Window \in Int /\ Threshold \in Int /\ MaxCredit \in Int /\ FileUnits \in Int
      /\ Threshold > 0
  BY Constants, WindowAssumption DEF WindowAssumption
<1>5. CASE /\ xfer' = xfer
           /\ \/ Credits' = Credits
              \/ Credits # <<>> /\ Credits' = Tail(Credits)
              \/ \E f : Plain(f) /\ Credits' = Append(Credits, f)
  <2>1. xfer'.credit + Charged' = xfer.credit + Charged /\ xfer'.granted = xfer.granted
    BY <1>5 DEF Charged
  <2>2. Within(Credits', xfer.credit + Charged, xfer.granted, "FileChunk")
    <3>1. CASE Credits' = Credits
      BY <1>2, <3>1
    <3>2. CASE Credits # <<>> /\ Credits' = Tail(Credits)
      <4>1. /\ Head(Credits).n \in Int /\ Head(Credits).n >= 0 /\ Tail(Credits) \in Seq(AnyFrame)
            /\ Within(Tail(Credits), (xfer.credit + Charged) + Head(Credits).n, xfer.granted, "FileChunk")
        BY <1>1, <1>2, <3>2, WithinTail DEF Sound
      <4>2. (xfer.credit + Charged) + Head(Credits).n \in Int
            /\ xfer.credit + Charged <= (xfer.credit + Charged) + Head(Credits).n
        BY <1>2, <4>1
      <4>3. \A c \in Int : c <= (xfer.credit + Charged) + Head(Credits).n
                              => Within(Tail(Credits), c, xfer.granted, "FileChunk")
        BY <1>1, <4>1, <4>2, WithinWider
      <4> QED
        BY <1>2, <3>2, <4>2, <4>3
    <3>3. ASSUME NEW f, Plain(f), Credits' = Append(Credits, f)
          PROVE  Within(Credits', xfer.credit + Charged, xfer.granted, "FileChunk")
      <4>1. f \in AnyFrame /\ Sound(f) /\ f.kind # "FileChunk" /\ f.n = 0
        BY <3>3 DEF Plain, Sound
      <4>2. Within(Append(Credits, f), xfer.credit + Charged, xfer.granted + f.n, "FileChunk")
        BY <1>1, <1>2, <4>1, WithinAppend
      <4> QED
        BY <1>1, <3>3, <4>1, <4>2
    <3> QED
      BY <1>5, <3>1, <3>2, <3>3
  <2>3. UNCHANGED U!CW!vars
    BY <1>5, <1>3 DEF U!CW!vars
  <2> QED
    BY <1>5, <2>1, <2>2, <2>3 DEF FlowInv, CreditCarried
<1>6. ASSUME Credits' = Credits, NEW n \in 1..Chunk, n <= xfer.left, n <= xfer.credit, xfer' = U!Paid(n)
      PROVE  CreditCarried' /\ xfer'.left >= 0 /\ xfer'.credit >= 0 /\ [U!CW!Next]_(U!CW!vars)
  <2>1. /\ xfer'.left = xfer.left - n /\ xfer'.credit = xfer.credit - n /\ xfer'.file = xfer.file
        /\ xfer'.granted = xfer.granted /\ n \in Int
    BY <1>1, <1>4, <1>6 DEF U!Paid
  <2>2. Charged' = Charged + n /\ xfer'.credit + Charged' = xfer.credit + Charged
    BY <1>1, <1>3, <1>4, <2>1
  <2>3. n <= FileUnits - Charged /\ n <= (xfer.credit + Charged) - Charged
    BY <1>1, <1>3, <1>4, <1>6, <2>1
  <2>4. U!CW!Send(n)
    BY <1>3, <2>1, <2>2, <2>3 DEF U!CW!Send, U!CW!Available
  <2> QED
    BY <1>1, <1>2, <1>6, <2>1, <2>2, <2>4 DEF U!CW!Next, CreditCarried
<1>7. CASE Credits' = Credits /\ Receiver.pc = "write" /\ xfer' = U!Written(Receiver.chunk)
  <2>1. Receiver.chunk \in 1..Chunk
    BY <1>7 DEF FlowInv, ReceiverOK
  <2>2. /\ xfer'.left = xfer.left /\ xfer'.credit = xfer.credit /\ xfer'.file = xfer.file + Receiver.chunk
        /\ xfer'.granted = xfer.granted
    BY <1>1, <1>7 DEF U!Written
  <2>3. Charged' = Charged /\ xfer'.credit + Charged' = xfer.credit + Charged
    BY <1>3, <2>2
  <2>4. Taken <= Sent
    <3>1. PICK m \in Int : /\ Within(Waiting, Taken, m, "StreamWindowUpdate")
                           /\ Within(Data, m, Sent, "StreamWindowUpdate")
      BY DEF FlowInv, DataCarried
    <3>2. Waiting \in Seq(AnyFrame) /\ Data \in Seq(AnyFrame)
      BY Amounts DEF AmountTypes
    <3>3. Taken <= m /\ m <= Sent
      BY <1>1, <3>1, <3>2, WithinWider
    <3> QED
      BY <1>1, <3>3
  <2>5. Sent <= Charged
    BY <1>1, <1>4 DEF FlowInv, SenderOK, Sent
  <2>6. Receiver.chunk <= Charged - xfer.file
    BY <1>1, <1>4, <1>7, <2>1, <2>4, <2>5 DEF Taken
  <2>7. U!CW!Consume(Receiver.chunk)
    BY <1>3, <2>2, <2>3, <2>6 DEF U!CW!Consume, U!CW!Buffered
  <2> QED
    BY <1>2, <1>7, <2>1, <2>2, <2>3, <2>7 DEF U!CW!Next, CreditCarried, FlowInv
<1>8. CASE /\ Owed >= Threshold /\ xfer' = U!Granted(Owed)
           /\ Credits' = Append(Credits, U!WindowUpdate(Owed))
  <2> DEFINE f == U!WindowUpdate(Owed)
  <2>1. /\ xfer'.left = xfer.left /\ xfer'.credit = xfer.credit /\ xfer'.file = xfer.file
        /\ xfer'.granted = xfer.granted + Owed /\ Owed \in Int
    BY <1>1, <1>8, Amounts DEF AmountTypes, U!Granted
  <2>2. f \in AnyFrame /\ f.n = Owed /\ f.kind = "StreamWindowUpdate" /\ Sound(f)
    BY <1>4, <1>8, <2>1, UFrames DEF U!WindowUpdate, Sound
  <2>3. Within(Append(Credits, f), xfer.credit + Charged, xfer.granted + f.n, "FileChunk")
    BY <1>1, <1>2, <2>2, WithinAppend
  <2>4. Charged' = Charged
    BY <1>3, <2>1
  <2>5. U!CW!Grant
    BY <1>3, <1>8, <2>1, <2>4 DEF U!CW!Grant, U!CW!GrantDue, U!CW!Unreturned, Owed
  <2> QED
    BY <1>8, <2>1, <2>2, <2>3, <2>4, <2>5 DEF U!CW!Next, CreditCarried, FlowInv
<1>9. CASE /\ Credits # <<>> /\ Credits' = Tail(Credits)
           /\ Head(Credits).kind = "StreamWindowUpdate" /\ xfer.credit + Head(Credits).n <= MaxCredit
           /\ xfer' = [xfer EXCEPT !.credit = @ + Head(Credits).n]
  <2> DEFINE n == Head(Credits).n
  <2>1. /\ n \in Int /\ n >= 1 /\ (xfer.credit + Charged) + n <= xfer.granted
        /\ Within(Tail(Credits), (xfer.credit + Charged) + n, xfer.granted, "FileChunk")
    BY <1>1, <1>2, <1>9, WithinTail DEF Sound
  <2>2. /\ xfer'.left = xfer.left /\ xfer'.credit = xfer.credit + n /\ xfer'.file = xfer.file
        /\ xfer'.granted = xfer.granted
    BY <1>1, <1>9
  <2> HIDE DEF n
  <2>3. Charged' = Charged /\ xfer'.credit + Charged' = (xfer.credit + Charged) + n
    BY <1>1, <1>3, <2>1, <2>2
  <2>4. n <= MaxCredit /\ xfer.credit >= 0
    BY <1>1, <1>4, <1>9, <2>1 DEF FlowInv, n
  <2>5. n \in 1..MaxCredit /\ n <= xfer.granted - (xfer.credit + Charged) /\ xfer'.credit >= 0
    BY <1>1, <1>2, <1>4, <2>1, <2>2, <2>4
  <2>6. U!CW!Credit(n)
    BY <1>3, <2>2, <2>3, <2>5 DEF U!CW!Credit
  <2> QED
    BY <1>9, <2>1, <2>2, <2>3, <2>5, <2>6 DEF U!CW!Next, CreditCarried, FlowInv
<1> QED
  BY <1>5, <1>6, <1>7, <1>8, <1>9 DEF CreditMove

\* A step keeps the invariant, and is one of CreditWindow, if it does this.
FlowMove == DataMove /\ CreditMove /\ SenderOK' /\ ReceiverOK'

LEMMA FlowStep ==
  ASSUME StreamTypes, StreamTypes', FlowInv, FlowMove
  PROVE  FlowInv' /\ [U!CW!Next]_(U!CW!vars)
BY DataKeeps, CreditKeeps DEF FlowInv, FlowMove

\* A step of one task leaves the other alone.
SenderTurn   == kind' = kind /\ Receiver' = Receiver /\ Credits' = Credits /\ Waiting' = Waiting
ReceiverTurn == kind' = kind /\ Sender' = Sender /\ Data' = Data

\* The sender reads the file, fails, or goes on.
LEMMA SenderQuiet ==
  ASSUME StreamTypes, FlowInv, SenderTurn, xfer' = xfer, Data' = Data,
         \/ Sender'.pc \notin {"credit", "chunk"}
         \/ Sender'.pc = "credit" /\ Sender'.chunk \in 1..Chunk /\ Sender'.chunk <= xfer.left
  PROVE  FlowMove
<1>1. Sent \in Int /\ Charged \in Int /\ Sent <= Charged
  <2>1. Sent \in Int /\ Charged \in Int /\ Chunk \in Int
    BY Amounts, Constants DEF AmountTypes
  <2> QED
    BY <2>1 DEF FlowInv, SenderOK, Sent
<1>2. Sent' = Charged
  <2>1. Charged' = Charged
    BY DEF Charged
  <2> QED
    BY <1>1, <2>1 DEF Sent
<1>3. Taken \in Int /\ Taken' = Taken
  BY Amounts DEF AmountTypes, SenderTurn, Taken
<1>4. SenderOK'
  BY DEF SenderOK
<1>5. ReceiverOK'
  BY DEF FlowInv, ReceiverOK, SenderTurn, Unopened, Opening, Owed
<1>6. DataMove
  BY <1>1, <1>2, <1>3 DEF DataMove, SenderTurn
<1>7. CreditMove
  BY DEF CreditMove, SenderTurn
<1> QED
  BY <1>4, <1>5, <1>6, <1>7 DEF FlowMove

\* It hands a frame to the connection.
LEMMA SenderSends ==
  ASSUME StreamTypes, FlowInv, SenderTurn, xfer' = xfer, NEW f \in AnyFrame, Data' = Append(Data, f),
         ~Sender.written, Sender'.written, Sender'.pc = Sender.pc, Sender'.chunk = Sender.chunk,
         IF Sender.pc = "chunk" THEN f = U!FileChunk(Sender.chunk) ELSE Plain(f),
         Sender.pc # "credit"
  PROVE  FlowMove
<1>1. Sent \in Int /\ Charged \in Int /\ Chunk \in Int
  BY Amounts, Constants DEF AmountTypes
<1>2. Sound(f) /\ f.kind # "StreamWindowUpdate" /\ f.n = IF Sender.pc = "chunk" THEN Sender.chunk ELSE 0
  <2>1. CASE Sender.pc = "chunk"
    BY <1>1, <2>1 DEF FlowInv, SenderOK, Sound, U!FileChunk
  <2>2. CASE Sender.pc # "chunk"
    BY <2>2 DEF Sound, Plain
  <2> QED
    BY <2>1, <2>2
<1>3. Sent' = Charged
  <2>1. Charged' = Charged
    BY DEF Charged
  <2> QED
    BY <1>1, <2>1 DEF Sent
<1>4. Sent + f.n = Charged
  <2>1. CASE Sender.pc = "chunk"
    <3>1. Sender.chunk \in Int
      BY <1>1, <2>1 DEF FlowInv, SenderOK
    <3> QED
      BY <1>1, <1>2, <2>1, <3>1 DEF Sent
  <2>2. CASE Sender.pc # "chunk"
    BY <1>1, <1>2, <2>2 DEF Sent
  <2> QED
    BY <2>1, <2>2
<1>5. Taken \in Int /\ Taken' = Taken
  BY Amounts DEF AmountTypes, SenderTurn, Taken
<1>6. SenderOK'
  BY DEF FlowInv, SenderOK
<1>7. ReceiverOK'
  BY DEF FlowInv, ReceiverOK, SenderTurn, Unopened, Opening, Owed
<1>8. DataMove
  BY <1>1, <1>2, <1>3, <1>4, <1>5 DEF DataMove, SenderTurn
<1>9. CreditMove
  BY DEF CreditMove, SenderTurn
<1> QED
  BY <1>6, <1>7, <1>8, <1>9 DEF FlowMove

\* It takes the credit for a chunk.
LEMMA SenderPays ==
  ASSUME StreamTypes, FlowInv, SenderTurn, Data' = Data, Sender.pc = "credit", Sender'.pc = "chunk",
         Sender'.chunk = Sender.chunk, U!CanAfford(Sender.chunk), xfer' = U!Paid(Sender.chunk)
  PROVE  FlowMove
<1>1. /\ Sent \in Int /\ Charged \in Int /\ Chunk \in Int /\ xfer.left \in Int /\ xfer.credit \in Int
      /\ FileUnits \in Int
  BY Amounts, Constants DEF AmountTypes
<1>2. Sender.chunk \in 1..Chunk /\ Sender.chunk <= xfer.left /\ Sender.chunk <= xfer.credit /\ Sender.chunk \in Int
  BY <1>1 DEF FlowInv, SenderOK, U!CanAfford
<1>3. /\ xfer'.left = xfer.left - Sender.chunk /\ xfer'.file = xfer.file
      /\ xfer'.unreturned = xfer.unreturned /\ xfer'.granted = xfer.granted
  BY DEF U!Paid, StreamTypes, XferOK
<1>4. Sent' >= Sent
  <2>1. Sent = Charged
    BY <1>1 DEF Sent
  <2>2. Charged' = Charged + Sender.chunk
    BY <1>1, <1>2, <1>3 DEF Charged
  <2>3. Sent' = Charged' - (IF ~Sender'.written THEN Sender.chunk ELSE 0)
    BY DEF Sent
  <2> QED
    BY <1>1, <1>2, <2>1, <2>2, <2>3
<1>5. Taken \in Int /\ Taken' = Taken
  BY <1>3, Amounts DEF AmountTypes, SenderTurn, Taken
<1>6. SenderOK'
  BY <1>2 DEF SenderOK
<1>7. ReceiverOK'
  BY <1>3 DEF FlowInv, ReceiverOK, SenderTurn, Unopened, Opening, Owed
<1>8. DataMove
  BY <1>4, <1>5 DEF DataMove, SenderTurn
<1>9. CreditMove
  BY <1>2 DEF CreditMove, SenderTurn
<1> QED
  BY <1>6, <1>7, <1>8, <1>9 DEF FlowMove

\* The receiver's places: before the window is open, while it is, and the end.
Before == {"none", "open", "request", "create", "meta"}
During == {"open_window", "recv", "write", "grant"}

\* The receiver goes on, fails or reports.
LEMMA ReceiverQuiet ==
  ASSUME StreamTypes, FlowInv, ReceiverTurn, xfer' = xfer, Waiting' \in {Waiting, <<>>},
         Credits' = Credits \/ \E f : Plain(f) /\ Credits' = Append(Credits, f),
         \/ Receiver'.pc \notin Before \union During
         \/ /\ Unopened /\ Unopened' /\ Receiver'.pc # "write"
            /\ kind # "push" /\ Receiver'.pc \in {"meta", "create"} => ~Receiver'.written
         \/ /\ Receiver.pc \in During /\ ~Unopened /\ ~Unopened'
            /\ Receiver'.pc = "recv"
  PROVE  FlowMove
<1>1. /\ Sent \in Int /\ Taken \in Int /\ xfer.file \in Int /\ Sent' = Sent /\ Chunk \in Int
  BY Amounts, Constants DEF AmountTypes, ReceiverTurn, Sent, Charged
<1>2. Receiver'.pc # "write"
  BY DEF Before, During
<1>3. Taken' <= Taken
  <2>1. Taken' = xfer.file
    BY <1>1, <1>2 DEF Taken
  <2> QED
    BY <1>1, <2>1 DEF Taken, FlowInv, ReceiverOK
<1>4. SenderOK'
  BY DEF FlowInv, SenderOK, ReceiverTurn
<1>5. Owed' = Owed /\ kind' = kind
  BY DEF Owed, ReceiverTurn
<1>6. ReceiverOK'
  <2>1. CASE Receiver'.pc \notin Before \union During
    BY <2>1 DEF Before, During, ReceiverOK, Unopened, Opening
  <2>2. CASE /\ Unopened /\ Unopened' /\ Receiver'.pc # "write"
             /\ kind # "push" /\ Receiver'.pc \in {"meta", "create"} => ~Receiver'.written
    <3>1. xfer.file = 0 /\ xfer.unreturned = 0 /\ xfer.granted = 0
      BY <2>2 DEF FlowInv, ReceiverOK
    <3>2. Receiver'.pc # "grant"
      BY <2>2 DEF Unopened, Opening
    <3> QED
      BY <1>5, <2>2, <3>1, <3>2 DEF ReceiverOK
  <2>3. CASE Receiver.pc \in During /\ ~Unopened /\ ~Unopened' /\ Receiver'.pc = "recv"
    BY <1>5, <2>3 DEF FlowInv, ReceiverOK, During
  <2> QED
    BY <2>1, <2>2, <2>3
<1>7. DataMove
  BY <1>1, <1>3 DEF DataMove, ReceiverTurn
<1>8. CreditMove
  BY DEF CreditMove
<1> QED
  BY <1>4, <1>6, <1>7, <1>8 DEF FlowMove

\* It takes a frame of the file from its queue.
LEMMA ReceiverTakes ==
  ASSUME StreamTypes, FlowInv, ReceiverTurn, xfer' = xfer, Credits' = Credits,
         Receiver.pc = "recv", Waiting # <<>>, Waiting' = Tail(Waiting),
         IF Head(Waiting).kind = "FileChunk" THEN Receiver'.pc = "write" /\ Receiver'.chunk = Head(Waiting).n
                                             ELSE Receiver'.pc \notin Before \union During
  PROVE  FlowMove
<1>1. /\ Sent \in Int /\ Taken \in Int /\ xfer.file \in Int /\ Sent' = Sent /\ Chunk \in Int
      /\ Waiting \in Seq(AnyFrame)
  BY Amounts, Constants DEF AmountTypes, ReceiverTurn, Sent, Charged
<1>2. Sound(Head(Waiting)) /\ Head(Waiting).n \in Int
  BY <1>1, WithinTail DEF FlowInv, DataCarried
<1>3. Taken' <= Taken + Head(Waiting).n
  BY <1>1, <1>2 DEF Taken, Sound, During
<1>4. SenderOK'
  BY DEF FlowInv, SenderOK, ReceiverTurn
<1>5. Owed' = Owed /\ kind' = kind
  BY DEF Owed, ReceiverTurn
<1>6. ReceiverOK'
  <2>1. CASE Head(Waiting).kind = "FileChunk"
    <3>1. ~Unopened /\ ~Unopened'
      BY <2>1 DEF Unopened, Opening
    <3> QED
      BY <1>2, <1>5, <2>1, <3>1 DEF FlowInv, ReceiverOK, Sound
  <2>2. CASE Head(Waiting).kind # "FileChunk"
    BY <2>2 DEF Before, During, ReceiverOK, Unopened, Opening
  <2> QED
    BY <2>1, <2>2
<1>7. DataMove
  BY <1>1, <1>3 DEF DataMove, ReceiverTurn
<1>8. CreditMove
  BY DEF CreditMove
<1> QED
  BY <1>4, <1>6, <1>7, <1>8 DEF FlowMove

\* It writes a chunk, which may make an update due.
LEMMA ReceiverWrites ==
  ASSUME StreamTypes, FlowInv, ReceiverTurn, Credits' = Credits, Waiting' = Waiting,
         Receiver.pc = "write", xfer' = U!Written(Receiver.chunk),
         Receiver'.pc = IF U!GrantDue(xfer'.unreturned) THEN "grant" ELSE "recv"
  PROVE  FlowMove
<1>1. /\ Sent \in Int /\ Taken \in Int /\ xfer.file \in Int /\ Chunk \in Int /\ xfer.unreturned \in Int
      /\ xfer.granted \in Int /\ Window \in Int /\ Threshold \in Int
  BY Amounts, Constants DEF AmountTypes
<1>2. Receiver.chunk \in Int
  BY <1>1 DEF FlowInv, ReceiverOK
<1>3. /\ xfer'.left = xfer.left /\ xfer'.file = xfer.file + Receiver.chunk
      /\ xfer'.unreturned = xfer.unreturned + Receiver.chunk /\ xfer'.granted = xfer.granted
  BY <1>1, <1>2 DEF U!Written, StreamTypes, XferOK
<1>4. Sent' = Sent
  BY <1>3 DEF Sent, Charged, ReceiverTurn
<1>5. Taken' = Taken
  <2>1. Taken' = xfer.file + Receiver.chunk
    BY <1>1, <1>2, <1>3 DEF Taken
  <2> QED
    BY <2>1 DEF Taken
<1>6. SenderOK'
  BY <1>3 DEF FlowInv, SenderOK, ReceiverTurn
<1>7. ReceiverOK'
  <2>1. ~Unopened /\ ~Unopened'
    BY DEF Unopened, Opening
  <2>2. xfer.unreturned = Owed
    BY <2>1 DEF FlowInv, ReceiverOK
  <2>3. xfer'.unreturned = Owed'
    BY <1>1, <1>2, <1>3, <2>2 DEF Owed
  <2>4. Receiver'.pc = "grant" => xfer'.unreturned >= Threshold
    BY DEF U!GrantDue
  <2> QED
    BY <2>1, <2>3, <2>4 DEF ReceiverOK
<1>8. DataMove
  BY <1>1, <1>4, <1>5 DEF DataMove, ReceiverTurn
<1>9. CreditMove
  BY DEF CreditMove
<1> QED
  BY <1>6, <1>7, <1>8, <1>9 DEF FlowMove

\* It grants the window, or what it has written since.
LEMMA ReceiverGrants ==
  ASSUME StreamTypes, FlowInv, ReceiverTurn, Waiting' = Waiting,
         Opening \/ (Receiver.pc = "grant" /\ (kind = "push" \/ ~Receiver.written)),
         NEW n, n = U!GrantSize(Receiver.pc = "open_window"),
         xfer' = U!Granted(n), Credits' = Append(Credits, U!WindowUpdate(n)),
         \/ Receiver'.pc = "recv"
         \/ Receiver'.pc = Receiver.pc /\ Receiver'.written /\ kind # "push"
  PROVE  FlowMove
<1>1. /\ Sent \in Int /\ Taken \in Int /\ xfer.file \in Int /\ Chunk \in Int /\ xfer.unreturned \in Int
      /\ xfer.granted \in Int /\ Window \in Int /\ Threshold \in Int
  BY Amounts, Constants DEF AmountTypes
<1>2. Threshold <= Window
  BY <1>1, WindowAssumption DEF WindowAssumption
<1>3. n = Owed /\ Owed >= Threshold /\ n \in Int
  <2>1. CASE Opening
    <3>1. xfer.file = 0 /\ xfer.granted = 0 /\ n = Window
      BY <2>1 DEF FlowInv, ReceiverOK, Unopened, U!GrantSize, Opening
    <3> QED
      BY <1>1, <1>2, <3>1 DEF Owed
  <2>2. CASE Receiver.pc = "grant" /\ (kind = "push" \/ ~Receiver.written)
    <3>1. ~Unopened /\ n = xfer.unreturned
      BY <2>2 DEF Unopened, Opening, U!GrantSize
    <3> QED
      BY <1>1, <2>2, <3>1 DEF FlowInv, ReceiverOK
  <2> QED
    BY <2>1, <2>2
<1>4. /\ xfer'.left = xfer.left /\ xfer'.file = xfer.file
      /\ xfer'.unreturned = 0 /\ xfer'.granted = xfer.granted + n
  BY <1>1, <1>3 DEF U!Granted, StreamTypes, XferOK
<1>5. Sent' = Sent
  BY <1>4 DEF Sent, Charged, ReceiverTurn
<1>6. Taken' = Taken
  <2>1. Receiver.pc # "write" /\ Receiver'.pc # "write"
    BY DEF Opening
  <2> QED
    BY <1>4, <2>1 DEF Taken
<1>7. SenderOK'
  BY <1>4 DEF FlowInv, SenderOK, ReceiverTurn
<1>8. ReceiverOK'
  <2>1. ~Unopened' /\ Receiver'.pc \in {"recv", "open_window", "grant"} /\ (Receiver'.pc # "recv" => Receiver'.written)
    BY DEF Unopened, Opening, ReceiverTurn
  <2>2. Owed' = 0
    BY <1>1, <1>3, <1>4 DEF Owed
  <2>3. Receiver'.pc = "recv" \/ ~(kind = "push" \/ ~Receiver'.written)
    OBVIOUS
  <2> QED
    BY <1>4, <2>1, <2>2, <2>3 DEF ReceiverOK, ReceiverTurn
<1>9. DataMove
  BY <1>1, <1>5, <1>6 DEF DataMove, ReceiverTurn
<1>10. CreditMove
  BY <1>3 DEF CreditMove
<1> QED
  BY <1>7, <1>8, <1>9, <1>10 DEF FlowMove

\* The sender of an upload.
LEMMA UHostFlow ==
  ASSUME StreamTypes, FlowInv, kind = "push", kind' = kind, U!HostTask
  PROVE  FlowMove
<1>1. DOMAIN host = {"pc", "written", "chunk", "route", "queue", "cancel", "cancelTasks", "closed"}
  BY DEF StreamTypes, HostOK
<1>2. /\ Sender = host /\ Sender' = host' /\ Receiver = dev /\ Receiver' = dev' /\ Data = h2d /\ Data' = h2d'
      /\ Credits = d2h /\ Credits' = d2h' /\ Waiting = dev.inbox /\ Waiting' = dev'.inbox
  BY DEF Sender, Receiver, Data, Credits, Waiting
<1>3. /\ \A h, pc, c : DOMAIN h = DOMAIN host => U!Dropped(h, pc, c).pc = pc
      /\ U!Failed.pc = "err" /\ DOMAIN U!AfterReceiving = DOMAIN host
  BY <1>1 DEF U!Dropped, U!Failed, U!AfterReceiving
<1>4. ASSUME UNCHANGED <<dev, xfer, h2d, d2h>>, host'.pc \notin {"credit", "chunk"}
      PROVE  FlowMove
  BY <1>2, <1>4, SenderQuiet DEF SenderTurn
<1>5. ASSUME NEW pc \in {"request", "chunk", "end"}, NEW f \in AnyFrame, U!HostWrite(pc, f),
             IF pc = "chunk" THEN f = U!FileChunk(host.chunk) ELSE Plain(f)
      PROVE  FlowMove
  <2>1. CASE host' = U!Failed /\ UNCHANGED h2d
    BY <1>3, <1>4, <1>5, <2>1 DEF U!HostWrite
  <2>2. CASE h2d' = Append(h2d, f) /\ host' = [host EXCEPT !.written = TRUE]
    <3>1. /\ host.pc = pc /\ ~host.written /\ xfer' = xfer /\ UNCHANGED <<dev, d2h>>
          /\ host'.pc = pc /\ host'.written /\ host'.chunk = host.chunk
      BY <1>1, <1>5, <2>2 DEF U!HostWrite
    <3>2. SenderTurn
      BY <1>2, <3>1 DEF SenderTurn
    <3>3. Data' = Append(Data, f) /\ ~Sender.written /\ Sender'.written /\ Sender'.pc = Sender.pc
          /\ Sender'.chunk = Sender.chunk /\ Sender.pc # "credit"
          /\ IF Sender.pc = "chunk" THEN f = U!FileChunk(Sender.chunk) ELSE Plain(f)
      BY <1>2, <1>5, <2>2, <3>1
    <3> QED
      BY <3>1, <3>2, <3>3, SenderSends
  <2> QED
    BY <1>5, <2>1, <2>2 DEF U!HostWrite
<1>6. ASSUME NEW pc, NEW next \in {"meta", "poll", "done"}, U!HostWritten(pc, next)
      PROVE  FlowMove
  <2>1. host'.pc \in {next, "err"}
    BY <1>1, <1>3, <1>6 DEF U!HostWritten
  <2> QED
    BY <1>4, <1>6, <2>1 DEF U!HostWritten
<1>7. ASSUME NEW pc, NEW with, U!HostRecv(pc, with), with.pc \in {"read", "ok", "err"}
      PROVE  FlowMove
  <2>1. host'.pc \in {"read", "ok", "err"}
    BY <1>1, <1>3, <1>7 DEF U!HostRecv
  <2> QED
    BY <1>4, <1>7, <2>1 DEF U!HostRecv
<1>8. CASE U!HostOpen
  BY <1>1, <1>4, <1>8 DEF U!HostOpen
<1>9. CASE U!HostRequest
  <2>1. U!Frame("PushRequest") \in AnyFrame /\ Plain(U!Frame("PushRequest"))
    BY UFrames DEF FrameKinds, U!Frame, Plain
  <2> QED
    BY <1>5, <1>6, <1>9, <2>1 DEF U!HostRequest
<1>10. CASE U!HostRecvMeta
  <2>1. /\ [U!AfterReceiving EXCEPT !.pc = "read"].pc = "read"
        /\ \A c : U!Dropped(U!AfterReceiving, "err", c).pc = "err"
    BY <1>1, <1>3
  <2> QED
    BY <1>7, <1>10, <2>1 DEF U!HostRecvMeta
<1>11. CASE U!HostReadFile
  <2>1. UNCHANGED <<dev, xfer, h2d, d2h>> /\ host.pc = "read"
    BY <1>11 DEF U!HostReadFile
  <2>2. CASE host'.pc \in {"err", "end"}
    BY <1>4, <2>1, <2>2
  <2>3. ASSUME xfer.left > 0, NEW n \in U!ReadSizes, host' = [host EXCEPT !.pc = "credit", !.chunk = n]
        PROVE  FlowMove
    <3>1. n \in 1..Chunk /\ n <= xfer.left
      <4>1. xfer.left \in Int /\ Chunk \in Int /\ Chunk >= 1
        BY Amounts, Constants, WindowAssumption DEF AmountTypes, WindowAssumption
      <4> QED
        BY <2>3, <4>1 DEF U!ReadSizes
    <3>2. host'.pc = "credit" /\ host'.chunk = n
      BY <1>1, <2>3
    <3> QED
      BY <1>2, <2>1, <3>1, <3>2, SenderQuiet DEF SenderTurn
  <2>4. \/ host' = U!Failed
        \/ host' = [host EXCEPT !.pc = "end"]
        \/ xfer.left > 0 /\ \E n \in U!ReadSizes : host' = [host EXCEPT !.pc = "credit", !.chunk = n]
    BY <1>11 DEF U!HostReadFile
  <2> QED
    BY <1>1, <1>3, <2>2, <2>3, <2>4
<1>12. CASE U!HostAcquire
  <2>1. host.pc = "credit" /\ UNCHANGED <<dev, h2d, d2h>>
    BY <1>12 DEF U!HostAcquire
  <2>2. CASE host' = U!Failed /\ UNCHANGED xfer
    BY <1>3, <1>4, <2>1, <2>2
  <2>3. CASE U!CanAfford(host.chunk) /\ host' = [host EXCEPT !.pc = "chunk"] /\ xfer' = U!Paid(host.chunk)
    <3>1. host'.pc = "chunk" /\ host'.chunk = host.chunk
      BY <1>1, <2>3
    <3> QED
      BY <1>2, <2>1, <2>3, <3>1, SenderPays DEF SenderTurn
  <2> QED
    BY <1>12, <2>2, <2>3 DEF U!HostAcquire
<1>13. CASE U!HostSendChunk
  <2>1. U!FileChunk(host.chunk) \in AnyFrame
    BY UFrames, Amounts DEF AmountTypes
  <2> QED
    BY <1>5, <1>6, <1>13, <2>1 DEF U!HostSendChunk
<1>14. CASE U!HostPoll
  <2>1. host'.pc \in {"err", "read"}
    BY <1>1, <1>3, <1>14 DEF U!HostPoll
  <2> QED
    BY <1>4, <1>14, <2>1 DEF U!HostPoll
<1>15. CASE U!HostSendEnd
  <2>1. U!Frame("FileEnd") \in AnyFrame /\ Plain(U!Frame("FileEnd"))
    BY UFrames DEF FrameKinds, U!Frame, Plain
  <2> QED
    BY <1>5, <1>6, <1>15, <2>1 DEF U!HostSendEnd
<1>16. CASE U!HostRecvDone
  <2>1. \A pc, c : U!Dropped(U!AfterReceiving, pc, c).pc = pc
    BY <1>1, <1>3
  <2> QED
    BY <1>7, <1>16, <2>1 DEF U!HostRecvDone
<1> QED
  BY <1>8, <1>9, <1>10, <1>11, <1>12, <1>13, <1>14, <1>15, <1>16 DEF U!HostTask

\* The receiver of an upload.
LEMMA UDevFlow ==
  ASSUME StreamTypes, FlowInv, kind = "push", kind' = kind, U!DevTask
  PROVE  FlowMove
<1>1. DOMAIN dev = {"pc", "written", "chunk", "route", "inbox", "flow", "cancels", "watch",
                    "canceled", "reader", "overflow"}
  BY DEF StreamTypes, DevOK
<1>2. /\ Sender = host /\ Sender' = host' /\ Receiver = dev /\ Receiver' = dev' /\ Data = h2d /\ Data' = h2d'
      /\ Credits = d2h /\ Credits' = d2h' /\ Waiting = dev.inbox /\ Waiting' = dev'.inbox
  BY DEF Sender, Receiver, Data, Credits, Waiting
<1>3. /\ U!DevFail.pc = "unroute_err" /\ U!DevFail.inbox = dev.inbox
  BY <1>1 DEF U!DevFail
<1>4. ASSUME UNCHANGED <<host, xfer, h2d, d2h>>, dev'.inbox \in {dev.inbox, <<>>}, dev'.pc \notin Before \union During
      PROVE  FlowMove
  BY <1>2, <1>4, ReceiverQuiet DEF ReceiverTurn
<1>5. ASSUME UNCHANGED <<host, xfer, h2d>>, dev'.inbox = dev.inbox,
             d2h' = d2h \/ \E f : Plain(f) /\ d2h' = Append(d2h, f),
             dev.pc \in {"create", "meta"}, dev'.pc \in {"create", "meta", "open_window"}
      PROVE  FlowMove
  <2>1. Unopened /\ Unopened'
    BY <1>2, <1>5 DEF Unopened, Opening
  <2> QED
    BY <1>2, <1>5, <2>1, ReceiverQuiet DEF ReceiverTurn
<1>6. ASSUME UNCHANGED <<host, xfer, h2d>>, dev'.inbox = dev.inbox, dev'.pc \notin Before \union During,
             d2h' = d2h \/ \E f : Plain(f) /\ d2h' = Append(d2h, f)
      PROVE  FlowMove
  BY <1>2, <1>6, ReceiverQuiet DEF ReceiverTurn
<1>7. \A k \in {"FileMeta", "FileEnd", "Error"} : Plain(U!Frame(k))
  BY UFrames DEF FrameKinds, U!Frame, Plain
<1>8. CASE U!DevCreate
  BY <1>1, <1>3, <1>4, <1>5, <1>8 DEF U!DevCreate, Before, During
<1>9. CASE U!DevSendMeta
  <2>1. UNCHANGED <<host, xfer, h2d>> /\ dev.pc = "meta"
    BY <1>9 DEF U!DevSendMeta, U!DevWrite, U!DevWritten
  <2>2. CASE dev' = U!DevFail /\ UNCHANGED d2h
    BY <1>3, <1>4, <2>1, <2>2 DEF Before, During
  <2>3. CASE d2h' = Append(d2h, U!Frame("FileMeta")) /\ dev' = [dev EXCEPT !.written = TRUE]
    <3>1. dev'.inbox = dev.inbox /\ dev'.pc = "meta"
      BY <1>1, <2>1, <2>3
    <3> QED
      BY <1>5, <1>7, <2>1, <2>3, <3>1
  <2>4. CASE dev' = [dev EXCEPT !.pc = "open_window", !.written = FALSE, !.chunk = 0] /\ UNCHANGED d2h
    <3>1. dev'.inbox = dev.inbox /\ dev'.pc = "open_window"
      BY <1>1, <2>1, <2>4
    <3> QED
      BY <1>5, <2>1, <2>4, <3>1
  <2> QED
    BY <1>9, <2>2, <2>3, <2>4 DEF U!DevSendMeta, U!DevWrite, U!DevWritten
<1>10. CASE U!DevGrant
  <2>1. dev.pc \in {"open_window", "grant"} /\ UNCHANGED <<host, h2d>>
    BY <1>10 DEF U!DevGrant
  <2>2. CASE dev' = U!DevFail /\ UNCHANGED <<xfer, d2h>>
    BY <1>3, <1>4, <2>1, <2>2 DEF Before, During
  <2>3. ASSUME NEW n, n = U!GrantSize(dev.pc = "open_window"), d2h' = Append(d2h, U!WindowUpdate(n)),
               xfer' = U!Granted(n), dev' = [dev EXCEPT !.pc = "recv"]
        PROVE  FlowMove
    <3>1. dev'.inbox = dev.inbox /\ dev'.pc = "recv"
      BY <1>1, <2>3
    <3>2. Opening \/ (Receiver.pc = "grant" /\ (kind = "push" \/ ~Receiver.written))
      BY <1>2, <2>1 DEF Opening
    <3>3. ReceiverTurn /\ Waiting' = Waiting /\ Credits' = Append(Credits, U!WindowUpdate(n)) /\ Receiver'.pc = "recv"
          /\ n = U!GrantSize(Receiver.pc = "open_window")
      BY <1>2, <2>1, <2>3, <3>1 DEF ReceiverTurn
    <3> QED
      BY <2>3, <3>2, <3>3, ReceiverGrants
  <2> QED
    BY <1>10, <2>2, <2>3 DEF U!DevGrant
<1>11. CASE U!DevRecv
  <2>1. UNCHANGED <<host, xfer, h2d, d2h>> /\ dev.pc = "recv"
    BY <1>11 DEF U!DevRecv
  <2>2. CASE dev' = U!DevFail
    BY <1>3, <1>4, <2>1, <2>2 DEF Before, During
  <2>3. CASE dev' # U!DevFail
    <3>1. /\ dev.inbox # <<>> /\ dev'.inbox = Tail(dev.inbox)
          /\ IF Head(dev.inbox).kind = "FileChunk" THEN dev'.pc = "write" /\ dev'.chunk = Head(dev.inbox).n
                                                   ELSE dev'.pc \in {"flush", "unroute_err"}
      BY <1>1, <1>11, <2>3 DEF U!DevRecv
    <3>2. ReceiverTurn /\ Waiting # <<>> /\ Waiting' = Tail(Waiting) /\ Receiver.pc = "recv" /\ Credits' = Credits
          /\ IF Head(Waiting).kind = "FileChunk" THEN Receiver'.pc = "write" /\ Receiver'.chunk = Head(Waiting).n
                                                 ELSE Receiver'.pc \notin Before \union During
      BY <1>2, <2>1, <3>1 DEF ReceiverTurn, Before, During
    <3> QED
      BY <2>1, <3>2, ReceiverTakes
  <2> QED
    BY <2>2, <2>3
<1>12. CASE U!DevWriteFile
  <2>1. UNCHANGED <<host, h2d, d2h>> /\ dev.pc = "write"
    BY <1>12 DEF U!DevWriteFile
  <2>2. CASE dev' = U!DevFail /\ UNCHANGED xfer
    BY <1>3, <1>4, <2>1, <2>2 DEF Before, During
  <2>3. CASE /\ xfer' = U!Written(dev.chunk)
             /\ dev' = [dev EXCEPT !.chunk = 0, !.pc = IF U!GrantDue(xfer'.unreturned) THEN "grant" ELSE "recv"]
    <3>1. dev'.inbox = dev.inbox /\ dev'.pc = IF U!GrantDue(xfer'.unreturned) THEN "grant" ELSE "recv"
      BY <1>1, <2>3
    <3> QED
      BY <1>2, <2>1, <2>3, <3>1, ReceiverWrites DEF ReceiverTurn
  <2> QED
    BY <1>12, <2>2, <2>3 DEF U!DevWriteFile
<1>13. CASE U!DevFlush
  BY <1>1, <1>3, <1>4, <1>13 DEF U!DevFlush, Before, During
<1>14. CASE U!DevSendEnd
  <2>1. UNCHANGED <<host, xfer, h2d>> /\ (d2h' = d2h \/ d2h' = Append(d2h, U!Frame("FileEnd")))
        /\ dev'.inbox = dev.inbox /\ dev'.pc \in {"end", "unroute_ok", "unroute_err"}
    BY <1>1, <1>3, <1>14 DEF U!DevSendEnd, U!DevWrite, U!DevWritten
  <2> QED
    BY <1>6, <1>7, <2>1 DEF Before, During
<1>15. CASE U!DevEnding
  <2>1. UNCHANGED <<host, xfer, h2d>> /\ (d2h' = d2h \/ d2h' = Append(d2h, U!Frame("Error")))
        /\ dev'.pc \in {"finish", "report", "gone"}
        /\ (dev'.inbox = dev.inbox \/ (dev'.inbox = <<>> /\ d2h' = d2h))
    BY <1>1, <1>15 DEF U!DevEnding, U!DevUnregister, U!DevReport, U!DevFinish
  <2> QED
    BY <1>4, <1>6, <1>7, <2>1 DEF Before, During
<1> QED
  BY <1>8, <1>9, <1>10, <1>11, <1>12, <1>13, <1>14, <1>15 DEF U!DevTask

\* A device that failed reports it.
LEMMA SenderReports ==
  ASSUME StreamTypes, FlowInv, SenderTurn, xfer' = xfer, NEW f, Plain(f), Data' = Append(Data, f),
         Sender.pc # "chunk", Sender'.pc \notin {"credit", "chunk"}
  PROVE  FlowMove
<1>1. Sent \in Int /\ Charged \in Int /\ Sent = Charged
  BY Amounts DEF AmountTypes, Sent
<1>2. Sent' = Charged
  <2>1. Charged' = Charged
    BY DEF Charged
  <2> QED
    BY <1>1, <2>1 DEF Sent
<1>3. Taken' = Taken
  BY DEF SenderTurn, Taken
<1>4. SenderOK'
  BY DEF SenderOK
<1>5. ReceiverOK'
  BY DEF FlowInv, ReceiverOK, SenderTurn, Unopened, Opening, Owed
<1>6. DataMove
  <2>1. f \in AnyFrame /\ Sound(f) /\ f.kind # "StreamWindowUpdate" /\ f.n = 0
    BY DEF Plain, Sound
  <2> QED
    BY <1>1, <1>2, <1>3, <2>1 DEF DataMove, SenderTurn
<1>7. CreditMove
  BY DEF CreditMove, SenderTurn
<1> QED
  BY <1>4, <1>5, <1>6, <1>7 DEF FlowMove

\* The host of a download takes the metadata, which carries nothing.
LEMMA ReceiverSkips ==
  ASSUME StreamTypes, FlowInv, ReceiverTurn, xfer' = xfer, Credits' = Credits,
         Receiver.pc = "meta", Waiting # <<>>, Waiting' = Tail(Waiting),
         Receiver'.pc = "create", kind # "push" => ~Receiver'.written
  PROVE  FlowMove
<1>1. /\ Sent \in Int /\ Taken \in Int /\ xfer.file \in Int /\ Sent' = Sent /\ Waiting \in Seq(AnyFrame)
  BY Amounts DEF AmountTypes, ReceiverTurn, Sent, Charged
<1>2. Sound(Head(Waiting)) /\ Head(Waiting).n \in Int
  BY <1>1, WithinTail DEF FlowInv, DataCarried
<1>3. Taken' <= Taken + Head(Waiting).n
  BY <1>1, <1>2 DEF Taken, Sound
<1>4. SenderOK'
  BY DEF FlowInv, SenderOK, ReceiverTurn
<1>5. Owed' = Owed /\ kind' = kind
  BY DEF Owed, ReceiverTurn
<1>6. ReceiverOK'
  BY <1>5 DEF FlowInv, ReceiverOK, Unopened, Opening
<1>7. DataMove
  BY <1>1, <1>3 DEF DataMove, ReceiverTurn
<1>8. CreditMove
  BY DEF CreditMove
<1> QED
  BY <1>4, <1>6, <1>7, <1>8 DEF FlowMove

\* Push and Pull keep the same accounts.
LEMMA SameAccounts ==
  /\ \A b : D!GrantSize(b) = U!GrantSize(b)
  /\ \A n : /\ D!Granted(n) = U!Granted(n) /\ D!WindowUpdate(n) = U!WindowUpdate(n) /\ D!Written(n) = U!Written(n)
            /\ D!GrantDue(n) = U!GrantDue(n) /\ D!CanAfford(n) = U!CanAfford(n) /\ D!Paid(n) = U!Paid(n)
            /\ D!FileChunk(n) = U!FileChunk(n)
BY DEF D!GrantSize, U!GrantSize, D!Granted, U!Granted, D!WindowUpdate, U!WindowUpdate, D!Written, U!Written,
       D!GrantDue, U!GrantDue, D!CanAfford, U!CanAfford, D!Paid, U!Paid, D!FileChunk, U!FileChunk

\* The receiver of a download.
LEMMA DHostFlow ==
  ASSUME StreamTypes, FlowInv, kind = "pull", kind' = kind, D!HostTask
  PROVE  FlowMove
<1>1. DOMAIN host = {"pc", "written", "chunk", "route", "queue", "cancel", "cancelTasks", "closed"}
  BY DEF StreamTypes, HostOK
<1>2. /\ Sender = dev /\ Sender' = dev' /\ Receiver = host /\ Receiver' = host' /\ Data = d2h /\ Data' = d2h'
      /\ Credits = h2d /\ Credits' = h2d' /\ Waiting = host.queue /\ Waiting' = host'.queue
  BY DEF Sender, Receiver, Data, Credits, Waiting
<1>3. /\ \A h, pc, c : DOMAIN h = DOMAIN host => D!Dropped(h, pc, c).pc = pc /\ D!Dropped(h, pc, c).queue = <<>>
      /\ D!Failed.pc = "err" /\ D!Failed.queue = <<>>
      /\ DOMAIN D!AfterReceiving = DOMAIN host /\ D!AfterReceiving.queue = Tail(host.queue)
      /\ D!AfterReceiving.written = host.written /\ D!Received = Head(host.queue)
  BY <1>1 DEF D!Dropped, D!Failed, D!AfterReceiving, D!Received
<1>4. ASSUME UNCHANGED <<dev, xfer, h2d, d2h>>, host'.queue \in {host.queue, <<>>}, host'.pc \notin Before \union During
      PROVE  FlowMove
  BY <1>2, <1>4, ReceiverQuiet DEF ReceiverTurn
<1>5. ASSUME UNCHANGED <<dev, xfer, d2h>>, host'.queue = host.queue,
             h2d' = h2d \/ \E f : Plain(f) /\ h2d' = Append(h2d, f),
             host.pc \in Before, host'.pc \in {"request", "meta", "open_window"},
             host'.pc \in {"meta", "open_window"} => ~host'.written
      PROVE  FlowMove
  <2>1. Unopened /\ Unopened'
    BY <1>2, <1>5 DEF Unopened, Opening, Before
  <2> QED
    BY <1>2, <1>5, <2>1, ReceiverQuiet DEF ReceiverTurn
<1>6. CASE D!HostOpen
  <2>1. UNCHANGED <<dev, xfer, h2d, d2h>> /\ host.pc = "open" /\ host'.queue = host.queue /\ host'.pc \in {"err", "request"}
    BY <1>1, <1>6 DEF D!HostOpen
  <2> QED
    BY <1>4, <1>5, <2>1 DEF Before, During
<1>7. ASSUME NEW pc, NEW next, D!HostWritten(pc, next),
             <<pc, next>> \in {<<"request", "meta">>, <<"open_window", "recv">>, <<"grant", "recv">>}
      PROVE  FlowMove
  <2>1. UNCHANGED <<dev, xfer, h2d, d2h>> /\ host.pc = pc /\ host.written
    BY <1>7 DEF D!HostWritten
  <2>2. CASE host' = D!Failed
    BY <1>3, <1>4, <2>1, <2>2 DEF Before, During
  <2>3. CASE host' = [host EXCEPT !.pc = next, !.written = FALSE, !.chunk = 0]
    <3>1. host'.pc = next /\ ~host'.written /\ host'.queue = host.queue
      BY <1>1, <2>3
    <3>2. CASE pc = "request"
      BY <1>5, <1>7, <2>1, <3>1, <3>2 DEF Before
    <3>3. CASE pc # "request"
      <4>1. Receiver.pc \in During /\ ~Unopened /\ ~Unopened' /\ Receiver'.pc = "recv"
        BY <1>2, <1>7, <2>1, <3>1, <3>3 DEF During, Unopened, Opening
      <4> QED
        BY <1>2, <2>1, <3>1, <4>1, ReceiverQuiet DEF ReceiverTurn
    <3> QED
      BY <3>2, <3>3
  <2> QED
    BY <1>7, <2>2, <2>3 DEF D!HostWritten
<1>8. CASE D!HostRequest
  <2>1. CASE D!HostWritten("request", "meta")
    BY <1>7, <2>1
  <2>2. CASE D!HostWrite("request", D!Frame("PullRequest"))
    <3>1. Plain(D!Frame("PullRequest"))
      BY DFrames DEF FrameKinds, D!Frame, Plain
    <3>2. UNCHANGED <<dev, xfer, d2h>> /\ host.pc = "request"
      BY <2>2 DEF D!HostWrite
    <3>3. CASE host' = D!Failed /\ UNCHANGED h2d
      BY <1>3, <1>4, <3>2, <3>3 DEF Before, During
    <3>4. CASE h2d' = Append(h2d, D!Frame("PullRequest")) /\ host' = [host EXCEPT !.written = TRUE]
      <4>1. host'.pc = "request" /\ host'.queue = host.queue
        BY <1>1, <3>2, <3>4
      <4> QED
        BY <1>5, <3>1, <3>2, <3>4, <4>1 DEF Before
    <3> QED
      BY <2>2, <3>3, <3>4 DEF D!HostWrite
  <2> QED
    BY <1>8, <2>1, <2>2 DEF D!HostRequest
<1>9. ASSUME NEW pc, NEW with, D!HostRecv(pc, with)
      PROVE  FlowMove \/ (UNCHANGED <<dev, xfer, h2d, d2h>> /\ host.pc = pc /\ host.queue # <<>> /\ host' = with)
  <2>1. UNCHANGED <<dev, xfer, h2d, d2h>> /\ host.pc = pc
    BY <1>9 DEF D!HostRecv
  <2>2. CASE host' = D!Failed \/ host' = D!Dropped(host, "err", TRUE)
    <3>1. host'.pc = "err" /\ host'.queue = <<>>
      BY <1>1, <2>2 DEF D!Failed, D!Dropped
    <3> QED
      BY <1>4, <2>1, <3>1 DEF Before, During
  <2> QED
    BY <1>9, <2>1, <2>2 DEF D!HostRecv
<1>10. CASE D!HostRecvMeta
  <2> DEFINE with == IF D!Received.kind = "FileMeta" THEN [D!AfterReceiving EXCEPT !.pc = "create"]
                     ELSE D!Dropped(D!AfterReceiving, "err", D!Completes(D!Received))
  <2>1. SUFFICES ASSUME UNCHANGED <<dev, xfer, h2d, d2h>>, host.pc = "meta", host.queue # <<>>, host' = with
                 PROVE  FlowMove
    BY <1>9, <1>10 DEF D!HostRecvMeta
  <2>2. CASE D!Received.kind = "FileMeta"
    <3>1. ~host.written
      BY <1>2, <2>1 DEF FlowInv, ReceiverOK
    <3>2. host'.pc = "create" /\ host'.queue = Tail(host.queue) /\ ~host'.written
      BY <1>1, <1>3, <2>1, <2>2, <3>1
    <3> QED
      BY <1>2, <2>1, <3>2, ReceiverSkips DEF ReceiverTurn
  <2>3. CASE D!Received.kind # "FileMeta"
    BY <1>3, <1>4, <2>1, <2>3 DEF Before, During
  <2> QED
    BY <2>2, <2>3
<1>11. CASE D!HostCreate
  <2>1. UNCHANGED <<dev, xfer, h2d, d2h>> /\ host.pc = "create" /\ ~host.written
    BY <1>2, <1>11 DEF D!HostCreate, FlowInv, ReceiverOK
  <2>2. CASE host' = D!Failed
    BY <1>3, <1>4, <2>1, <2>2 DEF Before, During
  <2>3. CASE host' = [host EXCEPT !.pc = "open_window"]
    <3>1. host'.pc = "open_window" /\ ~host'.written /\ host'.queue = host.queue
      BY <1>1, <2>1, <2>3
    <3> QED
      BY <1>5, <2>1, <3>1 DEF Before
  <2> QED
    BY <1>11, <2>2, <2>3 DEF D!HostCreate
<1>12. ASSUME NEW pc \in {"open_window", "grant"}, D!HostGrant(pc) PROVE FlowMove
  <2>1. CASE D!HostWritten(pc, "recv")
    BY <1>7, <1>12, <2>1
  <2>2. CASE host.pc = pc /\ host' = D!Failed /\ UNCHANGED <<dev, xfer, h2d, d2h>>
    BY <1>3, <1>4, <2>2 DEF Before, During
  <2>3. ASSUME host.pc = pc, ~host.written, UNCHANGED <<dev, d2h>>,
               NEW n, n = U!GrantSize(pc = "open_window"), h2d' = Append(h2d, U!WindowUpdate(n)),
               xfer' = U!Granted(n), host' = [host EXCEPT !.written = TRUE]
        PROVE  FlowMove
    <3>1. host'.pc = host.pc /\ host'.written /\ host'.queue = host.queue
      BY <1>1, <2>3
    <3>2. Opening \/ (Receiver.pc = "grant" /\ (kind = "push" \/ ~Receiver.written))
      BY <1>2, <2>3 DEF Opening
    <3>3. ReceiverTurn /\ Waiting' = Waiting /\ Credits' = Append(Credits, U!WindowUpdate(n))
          /\ n = U!GrantSize(Receiver.pc = "open_window")
          /\ Receiver'.pc = Receiver.pc /\ Receiver'.written /\ kind # "push"
      BY <1>2, <2>3, <3>1 DEF ReceiverTurn
    <3> QED
      BY <2>3, <3>2, <3>3, ReceiverGrants
  <2> QED
    BY <1>12, <2>1, <2>2, <2>3, SameAccounts DEF D!HostGrant
<1>13. CASE D!HostRecvFrame
  <2> DEFINE with == CASE D!Received.kind = "FileChunk" ->
                              [D!AfterReceiving EXCEPT !.pc = "write", !.chunk = D!Received.n]
                       [] D!Received.kind = "FileEnd" -> [D!AfterReceiving EXCEPT !.pc = "flush"]
                       [] OTHER -> D!Dropped(D!AfterReceiving, "err", D!Completes(D!Received))
  <2>1. SUFFICES ASSUME UNCHANGED <<dev, xfer, h2d, d2h>>, host.pc = "recv", host.queue # <<>>, host' = with
                 PROVE  FlowMove
    BY <1>9, <1>13 DEF D!HostRecvFrame
  <2>2. CASE D!Received.kind \in {"FileChunk", "FileEnd"}
    <3>1. /\ host'.queue = Tail(host.queue)
          /\ IF Head(host.queue).kind = "FileChunk" THEN host'.pc = "write" /\ host'.chunk = Head(host.queue).n
                                                    ELSE host'.pc = "flush"
      BY <1>1, <1>3, <2>1, <2>2
    <3> HIDE DEF with
    <3>2. ReceiverTurn /\ Waiting # <<>> /\ Waiting' = Tail(Waiting) /\ Receiver.pc = "recv" /\ Credits' = Credits
          /\ IF Head(Waiting).kind = "FileChunk" THEN Receiver'.pc = "write" /\ Receiver'.chunk = Head(Waiting).n
                                                 ELSE Receiver'.pc \notin Before \union During
      BY <1>2, <2>1, <3>1 DEF ReceiverTurn, Before, During
    <3> QED
      BY <2>1, <3>2, ReceiverTakes
  <2>3. CASE D!Received.kind \notin {"FileChunk", "FileEnd"}
    BY <1>3, <1>4, <2>1, <2>3 DEF Before, During
  <2> QED
    BY <2>2, <2>3
<1>14. CASE D!HostWriteFile
  <2>1. UNCHANGED <<dev, h2d, d2h>> /\ host.pc = "write"
    BY <1>14 DEF D!HostWriteFile
  <2>2. CASE host' = D!Failed /\ UNCHANGED xfer
    BY <1>3, <1>4, <2>1, <2>2 DEF Before, During
  <2>3. CASE /\ xfer' = D!Written(host.chunk)
             /\ host' = [host EXCEPT !.chunk = 0, !.pc = IF D!GrantDue(xfer'.unreturned) THEN "grant" ELSE "recv"]
    <3>1. host'.queue = host.queue /\ host'.pc = IF U!GrantDue(xfer'.unreturned) THEN "grant" ELSE "recv"
      BY <1>1, <2>3, SameAccounts
    <3>2. xfer' = U!Written(host.chunk)
      BY <2>3, SameAccounts
    <3> QED
      BY <1>2, <2>1, <3>1, <3>2, ReceiverWrites DEF ReceiverTurn
  <2> QED
    BY <1>14, <2>2, <2>3 DEF D!HostWriteFile
<1>15. CASE D!HostFlush
  <2>1. /\ UNCHANGED <<dev, xfer, h2d, d2h>>
        /\ host' = D!Failed \/ \E pc \in {"err", "ok"}, c \in BOOLEAN : host' = D!Dropped(host, pc, c)
    BY <1>15 DEF D!HostFlush
  <2>2. host'.pc \in {"err", "ok"} /\ host'.queue = <<>>
    BY <1>3, <2>1
  <2> QED
    BY <1>4, <2>1, <2>2 DEF Before, During
<1> QED
  BY <1>6, <1>8, <1>10, <1>11, <1>12, <1>13, <1>14, <1>15 DEF D!HostTask

\* The sender of a download.
LEMMA DDevFlow ==
  ASSUME StreamTypes, FlowInv, kind = "pull", kind' = kind, D!DevTask
  PROVE  FlowMove
<1>1. DOMAIN dev = {"pc", "written", "chunk", "route", "inbox", "flow", "cancels", "watch",
                    "canceled", "reader", "overflow"}
  BY DEF StreamTypes, DevOK
<1>2. /\ Sender = dev /\ Sender' = dev' /\ Receiver = host /\ Receiver' = host' /\ Data = d2h /\ Data' = d2h'
      /\ Credits = h2d /\ Credits' = h2d' /\ Waiting = host.queue /\ Waiting' = host'.queue
  BY DEF Sender, Receiver, Data, Credits, Waiting
<1>3. D!DevFail.pc = "unroute_err"
  BY <1>1 DEF D!DevFail
<1>4. ASSUME UNCHANGED <<host, xfer, h2d, d2h>>, dev'.pc \notin {"credit", "chunk"}
      PROVE  FlowMove
  BY <1>2, <1>4, SenderQuiet DEF SenderTurn
<1>5. ASSUME NEW pc \in {"meta", "chunk", "end"}, NEW f \in AnyFrame, D!DevWrite(pc, f),
             IF pc = "chunk" THEN f = U!FileChunk(dev.chunk) ELSE Plain(f)
      PROVE  FlowMove
  <2>1. CASE dev' = D!DevFail /\ UNCHANGED d2h
    BY <1>3, <1>4, <1>5, <2>1 DEF D!DevWrite
  <2>2. CASE d2h' = Append(d2h, f) /\ dev' = [dev EXCEPT !.written = TRUE]
    <3>1. /\ dev.pc = pc /\ ~dev.written /\ xfer' = xfer /\ UNCHANGED <<host, h2d>>
          /\ dev'.pc = pc /\ dev'.written /\ dev'.chunk = dev.chunk
      BY <1>1, <1>5, <2>2 DEF D!DevWrite
    <3>2. SenderTurn
      BY <1>2, <3>1 DEF SenderTurn
    <3>3. Data' = Append(Data, f) /\ ~Sender.written /\ Sender'.written /\ Sender'.pc = Sender.pc
          /\ Sender'.chunk = Sender.chunk /\ Sender.pc # "credit"
          /\ IF Sender.pc = "chunk" THEN f = U!FileChunk(Sender.chunk) ELSE Plain(f)
      BY <1>2, <1>5, <2>2, <3>1
    <3> QED
      BY <3>1, <3>2, <3>3, SenderSends
  <2> QED
    BY <1>5, <2>1, <2>2 DEF D!DevWrite
<1>6. ASSUME NEW pc, NEW next \in {"read", "unroute_ok"}, D!DevWritten(pc, next)
      PROVE  FlowMove
  <2>1. dev'.pc \in {next, "unroute_err"}
    BY <1>1, <1>3, <1>6 DEF D!DevWritten
  <2> QED
    BY <1>4, <1>6, <2>1 DEF D!DevWritten
<1>7. \A k \in {"FileMeta", "FileEnd"} : D!Frame(k) \in AnyFrame /\ Plain(D!Frame(k))
  BY DFrames DEF FrameKinds, D!Frame, Plain
<1>8. CASE D!DevOpen
  BY <1>1, <1>3, <1>4, <1>8 DEF D!DevOpen
<1>9. CASE D!DevSendMeta
  BY <1>5, <1>6, <1>7, <1>9 DEF D!DevSendMeta
<1>10. CASE D!DevReadFile
  <2>1. UNCHANGED <<host, xfer, h2d, d2h>> /\ dev.pc = "read"
    BY <1>10 DEF D!DevReadFile
  <2>2. CASE dev'.pc \in {"unroute_err", "end"}
    BY <1>4, <2>1, <2>2
  <2>3. ASSUME xfer.left > 0, NEW n \in D!ReadSizes, dev' = [dev EXCEPT !.pc = "credit", !.chunk = n]
        PROVE  FlowMove
    <3>1. n \in 1..Chunk /\ n <= xfer.left
      <4>1. xfer.left \in Int /\ Chunk \in Int /\ Chunk >= 1
        BY Amounts, Constants, WindowAssumption DEF AmountTypes, WindowAssumption
      <4> QED
        BY <2>3, <4>1 DEF D!ReadSizes
    <3>2. dev'.pc = "credit" /\ dev'.chunk = n
      BY <1>1, <2>3
    <3> QED
      BY <1>2, <2>1, <3>1, <3>2, SenderQuiet DEF SenderTurn
  <2>4. \/ dev' = D!DevFail
        \/ dev' = [dev EXCEPT !.pc = "end"]
        \/ xfer.left > 0 /\ \E n \in D!ReadSizes : dev' = [dev EXCEPT !.pc = "credit", !.chunk = n]
    BY <1>10 DEF D!DevReadFile
  <2> QED
    BY <1>1, <1>3, <2>2, <2>3, <2>4
<1>11. CASE D!DevAcquire
  <2>1. dev.pc = "credit" /\ UNCHANGED <<host, h2d, d2h>>
    BY <1>11 DEF D!DevAcquire
  <2>2. CASE dev' = D!DevFail /\ UNCHANGED xfer
    BY <1>3, <1>4, <2>1, <2>2
  <2>3. CASE D!CanAfford(dev.chunk) /\ dev' = [dev EXCEPT !.pc = "chunk"] /\ xfer' = D!Paid(dev.chunk)
    <3>1. dev'.pc = "chunk" /\ dev'.chunk = dev.chunk /\ U!CanAfford(dev.chunk) /\ xfer' = U!Paid(dev.chunk)
      BY <1>1, <2>3, SameAccounts
    <3> QED
      BY <1>2, <2>1, <3>1, SenderPays DEF SenderTurn
  <2> QED
    BY <1>11, <2>2, <2>3 DEF D!DevAcquire
<1>12. CASE D!DevSendChunk
  <2>1. D!FileChunk(dev.chunk) \in AnyFrame /\ D!FileChunk(dev.chunk) = U!FileChunk(dev.chunk)
    BY DFrames, Amounts, SameAccounts DEF AmountTypes
  <2> QED
    BY <1>5, <1>6, <1>12, <2>1 DEF D!DevSendChunk
<1>13. CASE D!DevSendEnd
  BY <1>5, <1>6, <1>7, <1>13 DEF D!DevSendEnd
<1>14. CASE D!DevEnding
  <2>1. CASE D!DevUnregister \/ D!DevFinish
    <3>1. UNCHANGED <<host, xfer, h2d, d2h>> /\ dev'.pc \in {"finish", "report", "gone"}
      BY <1>1, <2>1 DEF D!DevUnregister, D!DevFinish
    <3> QED
      BY <1>4, <3>1
  <2>2. CASE D!DevReport
    <3>1. UNCHANGED <<host, xfer, h2d>> /\ dev'.pc = "finish" /\ dev.pc = "report"
      BY <1>1, <2>2 DEF D!DevReport
    <3>2. CASE d2h' = d2h
      BY <1>4, <3>1, <3>2
    <3>3. CASE d2h' = Append(d2h, D!Frame("Error"))
      BY <1>2, <3>1, <3>3, SenderReports, DFrames DEF SenderTurn, FrameKinds, D!Frame, Plain
    <3> QED
      BY <2>2, <3>2, <3>3 DEF D!DevReport
  <2> QED
    BY <1>14, <2>1, <2>2 DEF D!DevEnding
<1> QED
  BY <1>8, <1>9, <1>10, <1>11, <1>12, <1>13, <1>14 DEF D!DevTask

(***************************************************************************)
(* What the connection does leaves both tasks where they are, except that  *)
(* a request begins the device's.                                          *)
(***************************************************************************)
Carries ==
    /\ host'.pc = host.pc /\ host'.written = host.written /\ host'.chunk = host.chunk
    /\ dev'.pc = dev.pc \/ (dev.pc = "none" /\ dev'.pc = "create")
    /\ dev'.written = dev.written /\ dev'.chunk = dev.chunk
    /\ xfer'.left = xfer.left /\ xfer'.file = xfer.file /\ xfer'.unreturned = xfer.unreturned
    /\ xfer'.granted = xfer.granted
    /\ \/ xfer' = xfer /\ h2d' = h2d /\ d2h' = d2h /\ host'.queue = host.queue /\ dev'.inbox = dev.inbox
       \/ /\ xfer' = xfer /\ host'.queue = host.queue /\ dev'.inbox = dev.inbox
          /\ \E f : /\ Plain(f)
                    /\ (h2d' = Append(h2d, f) /\ d2h' = d2h) \/ (d2h' = Append(d2h, f) /\ h2d' = h2d)
       \/ /\ d2h # <<>> /\ d2h' = Tail(d2h) /\ h2d' = h2d /\ dev'.inbox = dev.inbox
          /\ \/ xfer' = xfer /\ host'.queue \in {host.queue, Append(host.queue, Head(d2h))}
             \/ /\ Head(d2h).kind = "StreamWindowUpdate" /\ xfer.credit + Head(d2h).n <= MaxCredit
                /\ xfer' = [xfer EXCEPT !.credit = @ + Head(d2h).n] /\ host'.queue = host.queue
       \/ /\ h2d # <<>> /\ h2d' = Tail(h2d) /\ d2h' = d2h /\ host'.queue = host.queue
          /\ \/ xfer' = xfer /\ dev'.inbox \in {dev.inbox, Append(dev.inbox, Head(h2d))}
             \/ /\ Head(h2d).kind = "StreamWindowUpdate" /\ xfer.credit + Head(h2d).n <= MaxCredit
                /\ xfer' = [xfer EXCEPT !.credit = @ + Head(h2d).n] /\ dev'.inbox = dev.inbox

LEMMA ConnectionCarries == ASSUME StreamTypes, LeftInv, U!Connection PROVE Carries
<1>1. /\ DOMAIN host = {"pc", "written", "chunk", "route", "queue", "cancel", "cancelTasks", "closed"}
      /\ DOMAIN dev = {"pc", "written", "chunk", "route", "inbox", "flow", "cancels", "watch",
                       "canceled", "reader", "overflow"}
      /\ DOMAIN xfer = {"left", "credit", "file", "unreturned", "granted"}
  BY DEF StreamTypes, HostOK, DevOK, XferOK
<1> DEFINE HostSame == host'.pc = host.pc /\ host'.written = host.written /\ host'.chunk = host.chunk
           DevSame  == dev'.pc = dev.pc /\ dev'.written = dev.written /\ dev'.chunk = dev.chunk
<1>2. ASSUME HostSame, DevSame, UNCHANGED <<xfer, h2d, d2h>>, host'.queue = host.queue, dev'.inbox = dev.inbox
      PROVE  Carries
  BY <1>2 DEF Carries
<1>3. ASSUME HostSame, DevSame, xfer' = xfer, host'.queue = host.queue, dev'.inbox = dev.inbox, NEW f, Plain(f),
             (h2d' = Append(h2d, f) /\ d2h' = d2h) \/ (d2h' = Append(d2h, f) /\ h2d' = h2d)
      PROVE  Carries
  BY <1>3 DEF Carries
<1>4. /\ Plain(U!Frame("StreamCancel")) /\ Plain(U!Frame("Error"))
  BY UFrames DEF FrameKinds, U!Frame, Plain
<1>5. \A c : LET x == [xfer EXCEPT !.credit = c] IN
        x.left = xfer.left /\ x.file = xfer.file /\ x.unreturned = xfer.unreturned /\ x.granted = xfer.granted
  BY <1>1
<1>6. CASE U!HostReader
  <2>1. /\ d2h # <<>> /\ d2h' = Tail(d2h) /\ UNCHANGED <<dev, h2d>>
    BY <1>6 DEF U!HostReader
  <2>2. CASE /\ Head(d2h).kind = "StreamWindowUpdate" /\ xfer.credit + Head(d2h).n <= MaxCredit
             /\ xfer' = [xfer EXCEPT !.credit = @ + Head(d2h).n] /\ UNCHANGED host
    BY <1>5, <2>1, <2>2 DEF Carries
  <2>3. ASSUME xfer' = xfer, \/ host' \in {host, U!Closed(host), [host EXCEPT !.route = FALSE, !.cancel = TRUE]}
                             \/ host' = U!HostDeliver(Head(d2h))
        PROVE  Carries
    <3>1. HostSame /\ host'.queue \in {host.queue, Append(host.queue, Head(d2h))}
      <4>1. CASE host' \in {host, U!Closed(host), [host EXCEPT !.route = FALSE, !.cancel = TRUE]}
        BY <1>1, <4>1 DEF U!Closed
      <4>2. CASE host' = U!HostDeliver(Head(d2h))
        BY <1>1, <4>2 DEF U!HostDeliver
      <4> QED
        BY <2>3, <4>1, <4>2
    <3> QED
      BY <2>1, <2>3, <3>1 DEF Carries
  <2> QED
    BY <1>6, <2>2, <2>3 DEF U!HostReader
<1>7. CASE U!HostReaderEnds
  BY <1>1, <1>2, <1>7 DEF U!HostReaderEnds, U!Closed
<1>8. CASE U!HostCancelTask
  <2>1. HostSame /\ DevSame /\ xfer' = xfer /\ host'.queue = host.queue /\ dev'.inbox = dev.inbox /\ d2h' = d2h
    BY <1>1, <1>8 DEF U!HostCancelTask
  <2>2. h2d' = h2d \/ h2d' = Append(h2d, U!Frame("StreamCancel"))
    BY <1>8 DEF U!HostCancelTask
  <2> QED
    BY <1>2, <1>3, <1>4, <2>1, <2>2
<1>9. CASE U!DevReader
  <2>1. /\ h2d # <<>> /\ h2d' = Tail(h2d) /\ UNCHANGED <<host, d2h>>
    BY <1>9 DEF U!DevReader
  <2>2. Head(h2d).kind \in RequestKinds => dev.pc = "none"
    BY <2>1, TailAt DEF LeftInv, Once, StreamTypes
  <2>3. CASE /\ Head(h2d).kind = "StreamWindowUpdate" /\ xfer.credit + Head(h2d).n <= MaxCredit
             /\ xfer' = [xfer EXCEPT !.credit = @ + Head(h2d).n] /\ UNCHANGED dev
    BY <1>5, <2>1, <2>3 DEF Carries
  <2>4. ASSUME xfer' = xfer, dev'.pc = dev.pc \/ (dev.pc = "none" /\ dev'.pc = "create"),
               dev'.written = dev.written, dev'.chunk = dev.chunk,
               dev'.inbox \in {dev.inbox, Append(dev.inbox, Head(h2d))}
        PROVE  Carries
    BY <2>1, <2>4 DEF Carries
  <2>5. CASE Head(h2d).kind = "StreamWindowUpdate"
    <3>1. \/ UNCHANGED <<dev, xfer>>
          \/ dev' = [dev EXCEPT !.reader = "failed"] /\ UNCHANGED xfer
          \/ /\ xfer.credit + Head(h2d).n <= MaxCredit
             /\ xfer' = [xfer EXCEPT !.credit = @ + Head(h2d).n] /\ UNCHANGED dev
      BY <1>9, <2>5 DEF U!DevReader
    <3> QED
      BY <1>1, <2>3, <2>4, <2>5, <3>1
  <2>6. CASE Head(h2d).kind = "StreamCancel"
    BY <1>1, <1>9, <2>4, <2>6 DEF U!DevReader, U!CanceledByHost
  <2>7. CASE Head(h2d).kind \notin {"StreamWindowUpdate", "StreamCancel"}
    <3>1. /\ xfer' = xfer
          /\ dev' = IF dev.route THEN U!DevDeliver(Head(h2d))
                    ELSE IF Head(h2d).kind \in U!Requests THEN U!Opened(Head(h2d).kind)
                    ELSE [dev EXCEPT !.reader = "stray"]
      BY <1>9, <2>7 DEF U!DevReader
    <3>2. CASE dev' = U!DevDeliver(Head(h2d))
      BY <1>1, <2>4, <3>1, <3>2 DEF U!DevDeliver
    <3>3. CASE Head(h2d).kind \in RequestKinds /\ dev' = U!Opened(Head(h2d).kind)
      BY <1>1, <2>2, <2>4, <3>1, <3>3 DEF U!Opened
    <3>4. CASE dev' = [dev EXCEPT !.reader = "stray"]
      BY <1>1, <2>4, <3>1, <3>4
    <3> QED
      BY <3>1, <3>2, <3>3, <3>4 DEF U!Requests, RequestKinds
  <2> QED
    BY <2>5, <2>6, <2>7
<1>10. CASE U!DevStray
  <2>1. HostSame /\ DevSame /\ xfer' = xfer /\ host'.queue = host.queue /\ dev'.inbox = dev.inbox /\ h2d' = h2d
    BY <1>1, <1>10 DEF U!DevStray
  <2>2. d2h' = d2h \/ d2h' = Append(d2h, U!Frame("Error"))
    BY <1>10 DEF U!DevStray
  <2> QED
    BY <1>2, <1>3, <1>4, <2>1, <2>2
<1>11. CASE U!DevTeardown
  BY <1>1, <1>2, <1>11 DEF U!DevTeardown
<1>12. CASE U!DevCancelTask
  <2>1. HostSame /\ DevSame /\ xfer' = xfer /\ host'.queue = host.queue /\ dev'.inbox = dev.inbox /\ h2d' = h2d
    BY <1>1, <1>12 DEF U!DevCancelTask
  <2>2. d2h' = d2h \/ d2h' = Append(d2h, U!Frame("StreamCancel"))
    BY <1>12 DEF U!DevCancelTask
  <2> QED
    BY <1>2, <1>3, <1>4, <2>1, <2>2
<1>13. CASE U!LinkBreaks
  BY <1>2, <1>13 DEF U!LinkBreaks
<1> QED
  BY <1>6, <1>7, <1>8, <1>9, <1>10, <1>11, <1>12, <1>13 DEF U!Connection

\* It moves frames, drops frames and credits the sender.
LEMMA ConnectionFlow ==
  ASSUME StreamTypes, LeftInv, FlowInv, kind \in {"push", "pull"}, kind' = kind, U!Connection
  PROVE  FlowMove
<1>1. Carries
  BY ConnectionCarries
<1>2. SenderOK'
  BY <1>1 DEF FlowInv, SenderOK, Sender, Carries
<1>3. ReceiverOK'
  BY <1>1 DEF FlowInv, ReceiverOK, Receiver, Carries, Unopened, Opening, Owed
<1>4. Sent' = Sent /\ Taken' = Taken /\ Sent \in Int /\ Taken \in Int
  <2>1. Sent' = Sent
    BY <1>1 DEF Sent, Sender, Charged, Carries
  <2>2. Taken' = Taken
    BY <1>1 DEF Taken, Receiver, Carries
  <2> QED
    BY <2>1, <2>2, Amounts DEF AmountTypes
<1>5. Data # <<>> => Head(Data).kind # "StreamWindowUpdate"
  BY Amounts, WithinTail DEF AmountTypes, FlowInv, DataCarried
<1>6. DataMove /\ CreditMove
  <2>1. CASE xfer' = xfer /\ h2d' = h2d /\ d2h' = d2h /\ host'.queue = host.queue /\ dev'.inbox = dev.inbox
    BY <1>4, <2>1 DEF DataMove, CreditMove, Data, Credits, Waiting
  <2>2. ASSUME xfer' = xfer, host'.queue = host.queue, dev'.inbox = dev.inbox, NEW f, Plain(f),
               (h2d' = Append(h2d, f) /\ d2h' = d2h) \/ (d2h' = Append(d2h, f) /\ h2d' = h2d)
        PROVE  DataMove /\ CreditMove
    <3>1. f \in AnyFrame /\ Sound(f) /\ f.kind # "StreamWindowUpdate" /\ Sent >= Sent + f.n
      BY <1>4, <2>2 DEF Plain, Sound
    <3>2. Waiting' = Waiting
      BY <2>2 DEF Waiting
    <3>3. CASE Data' = Append(Data, f) /\ Credits' = Credits
      BY <1>4, <2>2, <3>1, <3>2, <3>3 DEF DataMove, CreditMove
    <3>4. CASE Credits' = Append(Credits, f) /\ Data' = Data
      BY <1>4, <2>2, <3>2, <3>4 DEF DataMove, CreditMove
    <3> QED
      BY <2>2, <3>3, <3>4 DEF Data, Credits
  <2>3. ASSUME Data # <<>>, Data' = Tail(Data), Credits' = Credits, xfer' = xfer,
               Waiting' \in {Waiting, Append(Waiting, Head(Data))}
        PROVE  DataMove /\ CreditMove
    BY <1>4, <2>3 DEF DataMove, CreditMove
  <2>4. ASSUME Credits # <<>>, Credits' = Tail(Credits), Data' = Data, Waiting' = Waiting,
               \/ xfer' = xfer
               \/ /\ Head(Credits).kind = "StreamWindowUpdate" /\ xfer.credit + Head(Credits).n <= MaxCredit
                  /\ xfer' = [xfer EXCEPT !.credit = @ + Head(Credits).n]
        PROVE  DataMove /\ CreditMove
    BY <1>4, <2>4 DEF DataMove, CreditMove
  <2>5. CASE /\ d2h # <<>> /\ d2h' = Tail(d2h) /\ h2d' = h2d /\ dev'.inbox = dev.inbox
             /\ \/ xfer' = xfer /\ host'.queue \in {host.queue, Append(host.queue, Head(d2h))}
                \/ /\ Head(d2h).kind = "StreamWindowUpdate" /\ xfer.credit + Head(d2h).n <= MaxCredit
                   /\ xfer' = [xfer EXCEPT !.credit = @ + Head(d2h).n] /\ host'.queue = host.queue
    <3>1. CASE kind = "push"
      BY <2>4, <2>5, <3>1 DEF Data, Credits, Waiting
    <3>2. CASE kind = "pull"
      BY <1>5, <2>3, <2>5, <3>2 DEF Data, Credits, Waiting
    <3> QED
      BY <3>1, <3>2
  <2>6. CASE /\ h2d # <<>> /\ h2d' = Tail(h2d) /\ d2h' = d2h /\ host'.queue = host.queue
             /\ \/ xfer' = xfer /\ dev'.inbox \in {dev.inbox, Append(dev.inbox, Head(h2d))}
                \/ /\ Head(h2d).kind = "StreamWindowUpdate" /\ xfer.credit + Head(h2d).n <= MaxCredit
                   /\ xfer' = [xfer EXCEPT !.credit = @ + Head(h2d).n] /\ dev'.inbox = dev.inbox
    <3>1. CASE kind = "push"
      BY <1>5, <2>3, <2>6, <3>1 DEF Data, Credits, Waiting
    <3>2. CASE kind = "pull"
      BY <2>4, <2>6, <3>2 DEF Data, Credits, Waiting
    <3> QED
      BY <3>1, <3>2
  <2> QED
    BY <1>1, <2>1, <2>2, <2>5, <2>6 DEF Carries
<1> QED
  BY <1>2, <1>3, <1>6 DEF FlowMove

-----------------------------------------------------------------------------

\* Nothing is under way at first.
LEMMA FlowInit == StreamsInit => FlowInv /\ U!CW!Init
<1> SUFFICES ASSUME U!Init PROVE FlowInv /\ U!CW!Init
  BY DEF StreamsInit
<1>1. /\ host.pc = "open" /\ ~host.written /\ host.queue = <<>> /\ dev.pc = "none" /\ dev.inbox = <<>>
      /\ xfer.left = FileUnits /\ xfer.credit = 0 /\ xfer.file = 0 /\ xfer.unreturned = 0 /\ xfer.granted = 0
      /\ h2d = <<>> /\ d2h = <<>>
  BY DEF U!Init
<1>2. FileUnits >= 0 /\ FileUnits \in Int
  BY StreamsAssumption DEF StreamsAssumption
<1>3. Sender.pc \in {"open", "none"} /\ Receiver.pc \in {"open", "none"}
      /\ Data = <<>> /\ Credits = <<>> /\ Waiting = <<>>
  BY <1>1 DEF Sender, Receiver, Data, Credits, Waiting
<1>4. Charged = 0 /\ Sent = 0 /\ Taken = 0
  BY <1>1, <1>2, <1>3 DEF Charged, Sent, Taken
<1>5. Within(<<>>, 0, 0, "StreamWindowUpdate") /\ Within(<<>>, 0, 0, "FileChunk")
  BY WithinEmpty
<1>6. SenderOK /\ ReceiverOK
  BY <1>1, <1>3 DEF SenderOK, ReceiverOK, Unopened, Opening
<1>7. DataCarried /\ CreditCarried
  BY <1>1, <1>3, <1>4, <1>5 DEF DataCarried, CreditCarried
<1>8. U!CW!Init
  BY <1>1, <1>2 DEF U!CW!Init, U!Charged
<1> QED
  BY <1>1, <1>2, <1>6, <1>7, <1>8 DEF FlowInv

\* Every step keeps the accounts and is one that CreditWindow allows.
LEMMA FlowNext ==
  StreamTypes /\ LeftInv /\ FlowInv /\ [StreamsNext]_streamsVars => FlowInv' /\ [U!CW!Next]_(U!CW!vars)
<1> SUFFICES ASSUME StreamTypes, LeftInv, FlowInv, [StreamsNext]_streamsVars
             PROVE  FlowInv' /\ [U!CW!Next]_(U!CW!vars)
  OBVIOUS
<1>1. kind' = kind /\ StreamTypes'
  BY StreamCases, NextTypes
<1>2. CASE UNCHANGED streamVars
  <2>1. UNCHANGED <<host, dev, xfer, h2d, d2h, kind>>
    BY <1>1, <1>2 DEF streamVars
  <2>2. Sender' = Sender /\ Receiver' = Receiver /\ Data' = Data /\ Credits' = Credits /\ Waiting' = Waiting
    BY <2>1 DEF Sender, Receiver, Data, Credits, Waiting
  <2>3. Charged' = Charged /\ Owed' = Owed
    BY <2>1 DEF Charged, Owed
  <2>4. Sent' = Sent /\ Taken' = Taken /\ Opening' = Opening
    BY <2>1, <2>2, <2>3 DEF Sent, Taken, Opening
  <2>5. SenderOK' = SenderOK /\ ReceiverOK' = ReceiverOK
    BY <2>1, <2>2, <2>3, <2>4 DEF SenderOK, ReceiverOK, Unopened
  <2>6. DataCarried' = DataCarried /\ CreditCarried' = CreditCarried
    BY <2>1, <2>2, <2>3, <2>4 DEF DataCarried, CreditCarried
  <2>7. UNCHANGED (U!CW!vars)
    BY <2>1 DEF U!CW!vars, U!Charged
  <2> QED
    BY <2>1, <2>5, <2>6, <2>7 DEF FlowInv
<1>3. CASE ~UNCHANGED streamVars
  <2>1. FlowMove
    BY <1>1, <1>3, StreamCases, UHostFlow, UDevFlow, DHostFlow, DDevFlow, ConnectionFlow
  <2> QED
    BY <1>1, <2>1, FlowStep
<1> QED
  BY <1>2, <1>3

(***************************************************************************)
(* An upload and a download follow the receive-window protocol: what the   *)
(* sender has paid for, what the receiver has written, what it granted and *)
(* what the sender was credited move only as CreditWindow lets them        *)
(* (acquire_flow_credit, FlowCredit::add, account_file_window), whatever   *)
(* is lost, canceled or fails.                                             *)
(***************************************************************************)
THEOREM TransfersFollowWindow == StreamsSpec => FollowsCreditWindow
<1>1. StreamsSpec => []FlowInv
  BY FlowInit, FlowNext, LeftAlways, TypesAlways, SafetyPart, PTL
<1>2. StreamsSpec => U!CW!Init /\ [][U!CW!Next]_(U!CW!vars)
  BY <1>1, FlowInit, FlowNext, LeftAlways, TypesAlways, SafetyPart, PTL
<1> QED
  BY <1>2 DEF FollowsCreditWindow, U!FollowsCreditWindow, U!CW!Spec
================================================================================
