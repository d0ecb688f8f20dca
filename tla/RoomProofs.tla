------------------------------ MODULE RoomProofs ------------------------------
(***************************************************************************)
(* The receive window counts bytes and a receive queue frames.  For every  *)
(* value of the constants a window's worth of full chunks finds room in the*)
(* queue of its receiver (RoomInv), and so do the answers in the host's    *)
(* queue of an upload (CalmInv): no queue overflows (NeverOverflows).      *)
(***************************************************************************)
EXTENDS StreamsProofs

-----------------------------------------------------------------------------
(***************************************************************************)
(* The receive queues are long enough, for a sender that reads full chunks *)
(* and a queue with room for a window of them and one more.  Every frame   *)
(* that goes through the receiver's queue takes up a chunk, however little *)
(* it carries: Lower is what the receiver has had of these, Upper what the *)
(* sender has handed over, where the last chunk of the file, the metadata  *)
(* and the end of the stream count as a chunk.                             *)
(***************************************************************************)
FullChunks == ~ShortReads /\ Window <= (RouteCap - 1) * Chunk

Weighty == {"FileMeta", "FileChunk", "FileEnd", "Error"}
Of(kinds) == {f \in AnyFrame : f.kind \in kinds}
Slot == [f \in AnyFrame |-> IF f.kind \in Weighty THEN Chunk ELSE 0]
DataKinds == IF kind = "push" THEN {"PushRequest", "FileChunk", "FileEnd", "StreamCancel"} ELSE Weighty

Rounded   == IF Sent < FileUnits THEN Sent ELSE FileUnits + Chunk - 1
MetaTaken == kind # "push" /\ host.pc \in {"create", "open_window", "recv", "write", "grant", "flush"}
MetaSent  == kind # "push" /\ dev.pc \notin {"none", "create"} /\ (dev.pc = "meta" => dev.written)
EndSent   ==
    IF kind = "push" THEN host.pc \in {"done", "ok", "err"} \/ (host.pc = "end" /\ host.written)
    ELSE \/ dev.pc \in {"unroute_ok", "finish", "gone"} \/ (dev.pc = "end" /\ dev.written)
         \/ dev.pc \in {"unroute_err", "report"} /\ dev.canceled
Upper == Rounded + (IF MetaSent THEN Chunk ELSE 0) + (IF EndSent THEN Chunk ELSE 0)
Lower == Taken + (IF MetaTaken THEN Chunk ELSE 0)
Base  == Lower + Chunk * Len(Waiting)

Slots == Along(Data, Base, Upper, Of(DataKinds), Slot)
FullOK ==
    /\ Sender.pc = "credit" => Sender.chunk = Chunk \/ Sender.chunk = xfer.left
    /\ Sender.pc = "chunk" /\ ~Sender.written => Sender.chunk = Chunk \/ xfer.left = 0
RouteOK ==
    host.route =>
        IF kind = "push" THEN host.pc \notin {"open", "ok", "err"}
        ELSE host.pc \in {"request", "meta", "create", "open_window", "recv", "write", "grant", "flush"}
\* The device of a download routes nothing and has nothing to answer to.
CreditKinds == {"PullRequest", "StreamWindowUpdate", "StreamCancel"}
PullSide ==
    kind # "push" => /\ \A i \in 1..Len(h2d) : h2d[i].kind \in CreditKinds
                     /\ ~dev.route /\ dev.reader # "stray"
\* The receiver's queue never overflows.
ReceiverFits == dev.overflow = "none" /\ (kind = "pull" => ~host.cancel)

WindowKept == 0 <= xfer.file /\ xfer.granted <= xfer.file + Window
RoomInv == WindowKept /\ FullOK /\ RouteOK /\ PullSide /\ Slots /\ ReceiverFits

\* What a step may do.
RoomMove ==
    /\ \/ Data' = Data /\ Base' <= Base /\ Upper <= Upper'
       \/ \E f \in Of(DataKinds) : Data' = Append(Data, f) /\ Base' <= Base /\ Upper + Slot[f] <= Upper'
       \/ Data # <<>> /\ Data' = Tail(Data) /\ Base' <= Base + Slot[Head(Data)] /\ Upper <= Upper'
    /\ FullOK' /\ RouteOK' /\ PullSide' /\ ReceiverFits'

LEMMA Fewer == ASSUME NEW c \in Int, c > 0, NEW k \in Int, NEW l \in Int, c * k < c * l PROVE k < l
<1> SUFFICES ASSUME k >= l PROVE FALSE
  OBVIOUS
<1>1. c * (k - l) >= 0
  OBVIOUS
<1>2. c * (k - l) = c * k - c * l
  OBVIOUS
<1> QED
  BY <1>1, <1>2

LEMMA SlotWeights ==
  /\ \A K : Weights(Of(K), Slot)
  /\ \A f \in AnyFrame : Slot[f] = IF f.kind \in Weighty THEN Chunk ELSE 0
  /\ Chunk \in Nat /\ Chunk > 0 /\ RouteCap \in Nat
BY WindowAssumption, StreamsAssumption DEF Weights, Of, Slot, WindowAssumption, StreamsAssumption

RoomTypes == Rounded \in Int /\ Upper \in Int /\ Lower \in Int /\ Base \in Int /\ Len(Waiting) \in Nat

LEMMA RoomNumbers == StreamTypes => RoomTypes
<1> SUFFICES ASSUME StreamTypes PROVE RoomTypes
  OBVIOUS
<1>1. Sent \in Int /\ Taken \in Int /\ Waiting \in Seq(AnyFrame) /\ FileUnits \in Int /\ Chunk \in Int
  BY Amounts, Constants DEF AmountTypes
<1>2. Rounded \in Int /\ Lower \in Int /\ Len(Waiting) \in Nat
  BY <1>1 DEF Rounded, Lower
<1>3. Chunk * Len(Waiting) \in Int
  BY <1>1, <1>2
<1>4. Upper \in Int /\ Base \in Int
  BY <1>1, <1>2, <1>3 DEF Upper, Base
<1> QED
  BY <1>2, <1>4 DEF RoomTypes

LEMMA RoomNumbersNext == StreamTypes' => RoomTypes'
<1>1. StreamTypes => RoomTypes
  BY RoomNumbers
<1> QED
  BY <1>1, PTL

LEMMA SlotsKeep ==
  ASSUME StreamTypes, StreamTypes', kind' = kind, Slots, RoomMove PROVE Slots'
<1>1. /\ Base \in Int /\ Upper \in Int /\ Base' \in Int /\ Upper' \in Int /\ Data \in Seq(AnyFrame)
  BY RoomNumbers, RoomNumbersNext, Amounts DEF RoomTypes, AmountTypes
<1>2. DataKinds' = DataKinds
  BY DEF DataKinds
<1>3. Along(Data', Base', Upper', Of(DataKinds), Slot)
  <2> DEFINE S == Of(DataKinds)
             r == Data'
             c == Base'
             d == Upper'
  <2>1. Weights(S, Slot) /\ Along(Data, Base, Upper, S, Slot)
    BY SlotWeights DEF Slots
  <2>2. \/ r = Data /\ c <= Base /\ Upper <= d
        \/ \E f \in S : r = Append(Data, f) /\ c <= Base /\ Upper + Slot[f] <= d
        \/ Data # <<>> /\ r = Tail(Data) /\ c <= Base + Slot[Head(Data)] /\ Upper <= d
    BY DEF RoomMove
  <2>3. c \in Int /\ d \in Int
    BY <1>1
  <2> HIDE DEF S, r, c, d
  <2>4. Along(r, c, d, S, Slot)
    BY <1>1, <2>1, <2>2, <2>3, AlongKeeps
  <2> QED
    BY <2>4 DEF S, r, c, d
<1> QED
  BY <1>2, <1>3 DEF Slots

\* The sender's end moves up.
LEMMA UpperGrows ==
  ASSUME StreamTypes, StreamTypes', kind' = kind, Sent <= Sent', MetaSent => MetaSent', EndSent => EndSent'
  PROVE  /\ Upper <= Upper'
         /\ (~MetaSent /\ MetaSent') \/ (~EndSent /\ EndSent') => Upper + Chunk <= Upper'
         /\ Sent < FileUnits /\ (Sent + Chunk <= Sent' \/ FileUnits <= Sent') => Upper + Chunk <= Upper'
<1>1. /\ Sent \in Int /\ Sent' \in Int /\ FileUnits \in Int /\ Chunk \in Nat /\ Chunk > 0
      /\ Rounded \in Int /\ Rounded' \in Int
  BY Amounts, AmountsNext, RoomNumbers, RoomNumbersNext, SlotWeights, Constants DEF AmountTypes, RoomTypes
<1>2. Rounded <= Rounded'
  BY <1>1 DEF Rounded
<1>3. Sent < FileUnits /\ (Sent + Chunk <= Sent' \/ FileUnits <= Sent') => Rounded + Chunk <= Rounded'
  BY <1>1 DEF Rounded
<1> DEFINE m == IF MetaSent THEN Chunk ELSE 0
           e == IF EndSent THEN Chunk ELSE 0
           m2 == IF MetaSent' THEN Chunk ELSE 0
           e2 == IF EndSent' THEN Chunk ELSE 0
<1>4. /\ m \in Int /\ e \in Int /\ m2 \in Int /\ e2 \in Int /\ m <= m2 /\ e <= e2
      /\ (~MetaSent /\ MetaSent') \/ (~EndSent /\ EndSent') => m + e + Chunk <= m2 + e2
  BY <1>1
<1>5. Upper = Rounded + m + e /\ Upper' = Rounded' + m2 + e2
  BY DEF Upper
<1> DEFINE x == Rounded
           y == Rounded'
           u == Upper
           v == Upper'
<1>6. /\ x \in Int /\ y \in Int /\ x <= y /\ u = x + m + e /\ v = y + m2 + e2
      /\ Sent < FileUnits /\ (Sent + Chunk <= Sent' \/ FileUnits <= Sent') => x + Chunk <= y
  BY <1>1, <1>2, <1>3, <1>5
<1> HIDE DEF m, e, m2, e2, x, y, u, v
<1>7. u <= v
  BY <1>4, <1>6
<1>8. (~MetaSent /\ MetaSent') \/ (~EndSent /\ EndSent') => u + Chunk <= v
  BY <1>1, <1>4, <1>6
<1>9. Sent < FileUnits /\ (Sent + Chunk <= Sent' \/ FileUnits <= Sent') => u + Chunk <= v
  BY <1>1, <1>4, <1>6
<1> QED
  BY <1>7, <1>8, <1>9 DEF u, v

\* The receiver's end moves up with what is put into its queue, and only then.
LEMMA BaseMoves ==
  ASSUME StreamTypes, StreamTypes'
  PROVE  /\ Waiting' \in {Waiting, <<>>} /\ Lower' <= Lower => Base' <= Base
         /\ Waiting # <<>> /\ Waiting' = Tail(Waiting) /\ Lower' <= Lower + Chunk => Base' <= Base
         /\ \A f : Waiting' = Append(Waiting, f) /\ Lower' <= Lower => Base' <= Base + Chunk
<1>1. /\ Lower \in Int /\ Lower' \in Int /\ Chunk \in Nat /\ Chunk > 0 /\ Waiting \in Seq(AnyFrame)
      /\ Waiting' \in Seq(AnyFrame)
  BY RoomNumbers, RoomNumbersNext, Amounts, AmountsNext, SlotWeights DEF RoomTypes, AmountTypes
<1> DEFINE l == Len(Waiting)
           k == Len(Waiting')
<1>2. l \in Nat /\ k \in Nat
  BY <1>1
<1>3. /\ Waiting' = Waiting => k = l
      /\ Waiting' = <<>> => k = 0
      /\ Waiting # <<>> /\ Waiting' = Tail(Waiting) => k = l - 1
      /\ \A f : Waiting' = Append(Waiting, f) => k = l + 1
  BY <1>1
<1>4. Base = Lower + Chunk * l /\ Base' = Lower' + Chunk * k
  BY DEF Base
<1> DEFINE a == Lower
           b == Lower'
           p == Base
           q == Base'
<1>5. a \in Int /\ b \in Int /\ p = a + Chunk * l /\ q = b + Chunk * k
  BY <1>1, <1>4
<1> HIDE DEF l, k, a, b, p, q
<1>6. /\ Chunk * l \in Nat /\ Chunk * 0 = 0
      /\ Chunk * (l - 1) = Chunk * l - Chunk /\ Chunk * (l + 1) = Chunk * l + Chunk
  BY <1>1, <1>2
<1>7. k = l \/ k = 0 => Chunk * k <= Chunk * l /\ Chunk * k \in Int
  BY <1>6
<1>8. k = l - 1 => Chunk * k = Chunk * l - Chunk
  BY <1>6
<1>9. k = l + 1 => Chunk * k = Chunk * l + Chunk
  BY <1>6
<1>10. (k = l \/ k = 0) /\ b <= a => q <= p
  BY <1>1, <1>5, <1>6, <1>7
<1>11. k = l - 1 /\ b <= a + Chunk => q <= p
  BY <1>1, <1>5, <1>6, <1>8
<1>12. k = l + 1 /\ b <= a => q <= p + Chunk
  BY <1>1, <1>5, <1>6, <1>9
<1>13. Waiting' \in {Waiting, <<>>} /\ Lower' <= Lower => Base' <= Base
  BY <1>3, <1>10 DEF a, b, p, q
<1>14. Waiting # <<>> /\ Waiting' = Tail(Waiting) /\ Lower' <= Lower + Chunk => Base' <= Base
  BY <1>3, <1>11 DEF a, b, p, q
<1>15. \A f : Waiting' = Append(Waiting, f) /\ Lower' <= Lower => Base' <= Base + Chunk
  BY <1>3, <1>12 DEF a, b, p, q
<1> QED
  BY <1>13, <1>14, <1>15

\* There is a place for a frame that takes up a chunk.
LEMMA HasPlace ==
  ASSUME FullChunks, StreamTypes, FlowInv, WindowKept, Slots, Data # <<>>, Slot[Head(Data)] = Chunk,
         kind = "push" \/ MetaTaken \/ Unopened
  PROVE  Len(Waiting) < RouteCap
<1>1. /\ Sent \in Int /\ Taken \in Int /\ Charged \in Int /\ xfer.credit \in Int /\ xfer.granted \in Int
      /\ xfer.file \in Int /\ FileUnits \in Int /\ Chunk \in Int /\ Window \in Int /\ RouteCap \in Nat
      /\ Data \in Seq(AnyFrame) /\ Credits \in Seq(AnyFrame) /\ Chunk > 0 /\ Window > 0
      /\ Base \in Int /\ Upper \in Int /\ Lower \in Int /\ Len(Waiting) \in Nat /\ Rounded \in Int
  BY Amounts, Constants, RoomNumbers, SlotWeights, WindowAssumption
     DEF AmountTypes, RoomTypes, WindowAssumption
<1>2. Base + Chunk <= Upper
  <2>1. Weights(Of(DataKinds), Slot)
    BY SlotWeights
  <2> QED
    BY <1>1, <2>1, AlongTail DEF Slots
<1>3. xfer.credit >= 0 /\ xfer.credit + Charged <= xfer.granted
  BY <1>1, WithinWider DEF FlowInv, CreditCarried
<1>4. Sent <= Charged /\ Taken >= xfer.file
  BY <1>1 DEF FlowInv, SenderOK, ReceiverOK, Sent, Taken
<1>5. Sent <= xfer.granted /\ xfer.granted <= xfer.file + Window
  BY <1>1, <1>3, <1>4 DEF WindowKept
<1>6. Rounded <= Sent + Chunk - 1
  BY <1>1 DEF Rounded
<1> DEFINE l == Len(Waiting)
           t == IF MetaTaken THEN Chunk ELSE 0
           m == IF MetaSent THEN Chunk ELSE 0
           e == IF EndSent THEN Chunk ELSE 0
<1>7. /\ l \in Nat /\ t \in Int /\ m \in Int /\ e \in Int /\ e <= Chunk /\ m <= Chunk
      /\ Lower = Taken + t /\ Base = Lower + Chunk * l /\ Upper = Rounded + m + e
      /\ kind = "push" => m = 0 /\ t = 0
      /\ MetaTaken => t = Chunk
      /\ t >= 0
  BY <1>1 DEF Lower, Base, Upper, MetaSent, MetaTaken
<1>8. Window <= (RouteCap - 1) * Chunk
  BY DEF FullChunks
<1> HIDE DEF l, t, m, e
<1>9. Chunk * l \in Int /\ Chunk * (l + 1) = Chunk * l + Chunk /\ (RouteCap - 1) * Chunk \in Int
      /\ Chunk * (RouteCap + 1) = (RouteCap - 1) * Chunk + 2 * Chunk
  BY <1>1, <1>7
<1>10. Lower + Chunk * l + Chunk <= Rounded + m + e
  BY <1>2, <1>7
<1>11. CASE kind = "push" \/ MetaTaken
  <2>1. m <= t
    BY <1>7, <1>11
  <2>2. Chunk * l + Chunk <= Sent - Taken + 2 * Chunk - 1
    BY <1>1, <1>6, <1>7, <1>9, <1>10, <2>1
  <2>3. Sent - Taken <= Window
    BY <1>1, <1>4, <1>5
  <2>4. Chunk * (l + 1) < Chunk * (RouteCap + 1)
    BY <1>1, <1>8, <1>9, <2>2, <2>3
  <2>5. l + 1 < RouteCap + 1
    BY <1>1, <1>7, <2>4, Fewer
  <2> QED
    BY <1>1, <1>7, <2>5 DEF l
<1>12. CASE Unopened
  <2>1. xfer.granted = 0 /\ xfer.file = 0
    BY <1>12 DEF FlowInv, ReceiverOK
  <2>2. Chunk * l + Chunk <= 3 * Chunk - 1
    BY <1>1, <1>4, <1>5, <1>6, <1>7, <1>9, <1>10, <2>1
  <2>3. Chunk * (l + 1) < Chunk * 3
    BY <1>1, <1>9, <2>2
  <2>4. l + 1 < 3
    BY <1>1, <1>7, <2>3, Fewer
  <2>5. RouteCap # 1 /\ RouteCap # 0
    <3>1. CASE RouteCap = 1
      BY <1>1, <1>8, <3>1
    <3>2. CASE RouteCap = 0
      BY <1>1, <1>8, <3>2
    <3> QED
      BY <3>1, <3>2
  <2> QED
    BY <1>1, <1>7, <2>4, <2>5 DEF l
<1> QED
  BY <1>11, <1>12

\* What the steps of a task do: the sender of an upload,
PushSends ==
    /\ UNCHANGED <<kind, dev, d2h>> /\ xfer'.file = xfer.file
    /\ host'.cancel = host.cancel /\ FullOK' /\ RouteOK'
    /\ host.pc \notin {"ok", "err"} /\ (EndSent => EndSent') /\ Sent <= Sent'
    /\ (host'.pc \in {"ok", "err"} \/ host'.cancelTasks = host.cancelTasks)
    /\ host'.queue \in {host.queue, <<>>} \/ (host.queue # <<>> /\ host'.queue = Tail(host.queue))
    /\ \/ h2d' = h2d
       \/ \E f \in AnyFrame :
            /\ h2d' = Append(h2d, f) /\ ~EndSent
            /\ \/ f.kind = "PushRequest" /\ Sent' = Sent
               \/ f.kind = "FileEnd" /\ EndSent'
               \/ f.kind = "FileChunk" /\ Sent < FileUnits /\ (Sent + Chunk <= Sent' \/ FileUnits <= Sent')
\* its receiver,
PushReceives ==
    /\ UNCHANGED <<kind, host, h2d>> /\ xfer'.left = xfer.left /\ dev'.overflow = dev.overflow
    /\ \/ dev'.inbox \in {dev.inbox, <<>>} /\ Taken' <= Taken
       \/ dev.inbox # <<>> /\ dev'.inbox = Tail(dev.inbox) /\ Taken' <= Taken + Chunk
\* the sender of a download,
PullSends ==
    /\ UNCHANGED <<kind, host, h2d>> /\ xfer'.file = xfer.file /\ dev'.overflow = dev.overflow
    /\ dev'.reader = dev.reader /\ (dev'.route => dev.route) /\ FullOK'
    /\ (EndSent => EndSent') /\ (MetaSent => MetaSent') /\ Sent <= Sent'
    /\ \/ d2h' = d2h
       \/ \E f \in AnyFrame :
            /\ d2h' = Append(d2h, f)
            /\ \/ f.kind = "FileMeta" /\ ~MetaSent /\ MetaSent'
               \/ f.kind \in {"FileEnd", "Error"} /\ ~EndSent /\ EndSent'
               \/ f.kind = "FileChunk" /\ Sent < FileUnits /\ (Sent + Chunk <= Sent' \/ FileUnits <= Sent')
\* and its receiver.
PullReceives ==
    /\ UNCHANGED <<kind, dev, d2h>> /\ xfer'.left = xfer.left
    /\ host'.cancel = host.cancel /\ RouteOK'
    /\ \/ host'.queue \in {host.queue, <<>>} /\ Lower' <= Lower
       \/ host.queue # <<>> /\ host'.queue = Tail(host.queue) /\ Lower' <= Lower + Chunk
    /\ h2d' = h2d \/ \E f \in AnyFrame : f.kind \in CreditKinds /\ h2d' = Append(h2d, f)

LEMMA PushSendsRoom ==
  ASSUME StreamTypes, StreamTypes', RoomInv, kind = "push", PushSends
  PROVE  RoomMove
<1>1. /\ Data = h2d /\ Data' = h2d' /\ Waiting = dev.inbox /\ Waiting' = dev'.inbox
      /\ Taken' = Taken /\ ~MetaTaken /\ ~MetaTaken' /\ ~MetaSent /\ ~MetaSent'
  BY DEF PushSends, Data, Waiting, Taken, Receiver, MetaTaken, MetaSent
<1>2. Lower' = Lower /\ Waiting' = Waiting
  BY <1>1 DEF Lower, PushSends
<1>3. Base' <= Base
  BY <1>2, BaseMoves, RoomNumbers DEF RoomTypes
<1>4. Upper \in Int /\ Upper' \in Int
  BY RoomNumbers, RoomNumbersNext DEF RoomTypes
<1>5. Upper <= Upper' /\ (~EndSent /\ EndSent' => Upper + Chunk <= Upper')
      /\ (Sent < FileUnits /\ (Sent + Chunk <= Sent' \/ FileUnits <= Sent') => Upper + Chunk <= Upper')
  BY <1>1, UpperGrows DEF PushSends
<1>6. \/ Data' = Data /\ Base' <= Base /\ Upper <= Upper'
      \/ \E f \in Of(DataKinds) : Data' = Append(Data, f) /\ Base' <= Base /\ Upper + Slot[f] <= Upper'
  <2>1. CASE h2d' = h2d
    BY <1>1, <1>3, <1>5, <2>1
  <2>2. ASSUME NEW f \in AnyFrame, h2d' = Append(h2d, f),
               \/ f.kind = "PushRequest" /\ Sent' = Sent
               \/ f.kind = "FileEnd" /\ ~EndSent /\ EndSent'
               \/ f.kind = "FileChunk" /\ Sent < FileUnits /\ (Sent + Chunk <= Sent' \/ FileUnits <= Sent')
        PROVE  f \in Of(DataKinds) /\ Upper + Slot[f] <= Upper'
    <3>1. f \in Of(DataKinds)
      BY <2>2 DEF Of, DataKinds
    <3>2. Slot[f] = IF f.kind = "PushRequest" THEN 0 ELSE Chunk
      BY <2>2, SlotWeights DEF Weighty
    <3>3. Slot[f] = 0 => Upper + Slot[f] <= Upper'
      BY <1>4, <1>5
    <3> QED
      BY <1>5, <2>2, <3>1, <3>2, <3>3
  <2> QED
    BY <1>1, <1>3, <2>1, <2>2 DEF PushSends
<1>7. FullOK' /\ RouteOK' /\ PullSide' /\ ReceiverFits'
  BY DEF PushSends, RoomInv, PullSide, ReceiverFits
<1> QED
  BY <1>6, <1>7 DEF RoomMove

LEMMA PushReceivesRoom ==
  ASSUME StreamTypes, StreamTypes', RoomInv, kind = "push", PushReceives
  PROVE  RoomMove
<1>1. /\ Data' = Data /\ Waiting = dev.inbox /\ Waiting' = dev'.inbox
      /\ Lower = Taken /\ Lower' = Taken' /\ Sent' = Sent /\ Taken \in Int /\ Taken' \in Int /\ Sent \in Int
  <2>1. Lower = Taken + 0 /\ Lower' = Taken' + 0
    BY DEF Lower, MetaTaken, PushReceives
  <2>2. Taken \in Int /\ Taken' \in Int /\ Sent \in Int
    BY Amounts, AmountsNext DEF AmountTypes
  <2>3. Data' = Data /\ Waiting = dev.inbox /\ Waiting' = dev'.inbox /\ Sent' = Sent
    BY DEF PushReceives, Data, Waiting, Sent, Charged, Sender
  <2> DEFINE t == Taken
             u == Taken'
  <2>4. t \in Int /\ u \in Int /\ Lower = t + 0 /\ Lower' = u + 0
    BY <2>1, <2>2
  <2> HIDE DEF t, u
  <2>5. Lower = t /\ Lower' = u
    BY <2>4
  <2>6. Lower = Taken /\ Lower' = Taken'
    BY <2>5 DEF t, u
  <2> QED
    BY <2>2, <2>3, <2>6
<1>2. Base' <= Base
  BY <1>1, BaseMoves DEF PushReceives
<1>3. Upper' = Upper /\ Upper \in Int
  BY <1>1, RoomNumbers DEF Upper, Rounded, MetaSent, EndSent, PushReceives, RoomTypes
<1>4. FullOK' /\ RouteOK' /\ PullSide' /\ ReceiverFits'
  BY DEF PushReceives, RoomInv, FullOK, RouteOK, PullSide, ReceiverFits, Sender
<1> QED
  BY <1>1, <1>2, <1>3, <1>4 DEF RoomMove

LEMMA PullSendsRoom ==
  ASSUME StreamTypes, StreamTypes', RoomInv, kind = "pull", PullSends
  PROVE  RoomMove
<1>1. /\ Data = d2h /\ Data' = d2h' /\ Waiting' = Waiting
      /\ Taken' = Taken /\ (MetaTaken' <=> MetaTaken)
  BY DEF PullSends, Data, Waiting, Taken, Receiver, MetaTaken
<1>2. Lower' = Lower
  BY <1>1 DEF Lower
<1>3. Base' <= Base
  BY <1>1, <1>2, BaseMoves, RoomNumbers DEF RoomTypes
<1>4. Upper \in Int /\ Upper' \in Int
  BY RoomNumbers, RoomNumbersNext DEF RoomTypes
<1>5. Upper <= Upper' /\ ((~MetaSent /\ MetaSent') \/ (~EndSent /\ EndSent') => Upper + Chunk <= Upper')
      /\ (Sent < FileUnits /\ (Sent + Chunk <= Sent' \/ FileUnits <= Sent') => Upper + Chunk <= Upper')
  BY <1>1, UpperGrows DEF PullSends
<1>6. \/ Data' = Data /\ Base' <= Base /\ Upper <= Upper'
      \/ \E f \in Of(DataKinds) : Data' = Append(Data, f) /\ Base' <= Base /\ Upper + Slot[f] <= Upper'
  <2>1. CASE d2h' = d2h
    BY <1>1, <1>3, <1>5, <2>1
  <2>2. ASSUME NEW f \in AnyFrame, d2h' = Append(d2h, f),
               \/ f.kind = "FileMeta" /\ ~MetaSent /\ MetaSent'
               \/ f.kind \in {"FileEnd", "Error"} /\ ~EndSent /\ EndSent'
               \/ f.kind = "FileChunk" /\ Sent < FileUnits /\ (Sent + Chunk <= Sent' \/ FileUnits <= Sent')
        PROVE  f \in Of(DataKinds) /\ Upper + Slot[f] <= Upper'
    <3>1. f \in Of(DataKinds) /\ f.kind \in Weighty
      BY <2>2 DEF Of, DataKinds, Weighty
    <3>2. Slot[f] = Chunk
      BY <3>1, SlotWeights
    <3> QED
      BY <1>5, <2>2, <3>1, <3>2
  <2> QED
    BY <1>1, <1>3, <2>1, <2>2 DEF PullSends
<1>7. FullOK' /\ RouteOK' /\ PullSide' /\ ReceiverFits'
  BY DEF PullSends, RoomInv, RouteOK, PullSide, ReceiverFits, StreamTypes, DevOK
<1> QED
  BY <1>6, <1>7 DEF RoomMove

\* Frames that grant or cancel reach the device of a download, and no others.
LEMMA CreditsOnly ==
  ASSUME NEW q \in Seq(AnyFrame), \A i \in 1..Len(q) : q[i].kind \in CreditKinds
  PROVE  /\ \A f \in AnyFrame : f.kind \in CreditKinds =>
               \A i \in 1..Len(Append(q, f)) : Append(q, f)[i].kind \in CreditKinds
         /\ q # <<>> => /\ Head(q).kind \in CreditKinds
                        /\ \A i \in 1..Len(Tail(q)) : Tail(q)[i].kind \in CreditKinds
<1>1. ASSUME NEW f \in AnyFrame, f.kind \in CreditKinds, NEW i \in 1..Len(Append(q, f))
      PROVE  Append(q, f)[i].kind \in CreditKinds
  BY <1>1, AppendAt
<1>2. ASSUME q # <<>> PROVE Head(q).kind \in CreditKinds
  BY <1>2, TailAt
<1>3. ASSUME q # <<>>, NEW i \in 1..Len(Tail(q)) PROVE Tail(q)[i].kind \in CreditKinds
  <2>1. i \in 1..(Len(q) - 1) /\ i + 1 \in 1..Len(q) /\ Tail(q)[i] = q[i + 1]
    BY <1>3, TailAt
  <2> QED
    BY <2>1
<1> QED
  BY <1>1, <1>2, <1>3

LEMMA PullReceivesRoom ==
  ASSUME StreamTypes, StreamTypes', RoomInv, kind = "pull", PullReceives
  PROVE  RoomMove
<1>1. Data' = Data /\ Waiting = host.queue /\ Waiting' = host'.queue /\ Sent' = Sent
  BY DEF PullReceives, Data, Waiting, Sent, Charged, Sender
<1>2. Base' <= Base
  BY <1>1, BaseMoves DEF PullReceives
<1>3. Upper' = Upper /\ Upper \in Int
  BY <1>1, RoomNumbers DEF Upper, Rounded, MetaSent, EndSent, PullReceives, RoomTypes
<1>4. PullSide'
  <2>1. h2d \in Seq(AnyFrame) /\ \A i \in 1..Len(h2d) : h2d[i].kind \in CreditKinds
    BY DEF RoomInv, PullSide, StreamTypes
  <2>2. \A i \in 1..Len(h2d') : h2d'[i].kind \in CreditKinds
    BY <2>1, CreditsOnly DEF PullReceives
  <2> QED
    BY <2>2 DEF PullReceives, RoomInv, PullSide
<1>5. FullOK' /\ RouteOK' /\ ReceiverFits'
  BY DEF PullReceives, RoomInv, FullOK, ReceiverFits, Sender
<1> QED
  BY <1>1, <1>2, <1>3, <1>4, <1>5 DEF RoomMove

\* The sender of an upload.
LEMMA UHostSends ==
  ASSUME FullChunks, StreamTypes, FlowInv, RoomInv, PushShape, kind = "push", kind' = kind, U!HostTask
  PROVE  PushSends
<1>1. /\ DOMAIN host = {"pc", "written", "chunk", "route", "queue", "cancel", "cancelTasks", "closed"}
      /\ host.chunk \in Int /\ xfer.left \in Int /\ xfer.left >= 0 /\ FileUnits \in Int /\ Chunk \in Int
      /\ Charged \in Int /\ Sent \in Int /\ host.written \in BOOLEAN /\ host.route \in BOOLEAN
  BY Amounts, Constants DEF StreamTypes, HostOK, AmountTypes, FlowInv
<1>2. /\ Sender = host /\ Sender' = host' /\ Charged = FileUnits - xfer.left /\ Charged' = FileUnits - xfer'.left
  BY DEF Sender, Charged
<1>3. /\ host.pc = "credit" => host.chunk = Chunk \/ host.chunk = xfer.left
      /\ host.pc = "chunk" /\ ~host.written => host.chunk = Chunk \/ xfer.left = 0
      /\ host.pc \in {"credit", "chunk"} => host.chunk \in 1..Chunk
      /\ host.pc = "credit" => host.chunk <= xfer.left
      /\ host.route => host.pc \notin {"open", "ok", "err"}
  BY <1>2 DEF RoomInv, FullOK, RouteOK, FlowInv, SenderOK
<1>4. /\ EndSent <=> (host.pc \in {"done", "ok", "err"} \/ (host.pc = "end" /\ host.written))
      /\ EndSent' <=> (host'.pc \in {"done", "ok", "err"} \/ (host'.pc = "end" /\ host'.written))
  BY DEF EndSent
<1>5. /\ Sent = Charged - (IF host.pc = "chunk" /\ ~host.written THEN host.chunk ELSE 0)
      /\ Sent' = Charged' - (IF host'.pc = "chunk" /\ ~host'.written THEN host'.chunk ELSE 0)
      /\ Sent <= Charged
  BY <1>1, <1>2, <1>3 DEF Sent
<1>6. /\ \A h, pc, c : DOMAIN h = DOMAIN host =>
            /\ U!Dropped(h, pc, c).pc = pc /\ ~U!Dropped(h, pc, c).route
            /\ U!Dropped(h, pc, c).cancel = h.cancel /\ U!Dropped(h, pc, c).queue = <<>>
      /\ U!Failed.pc = "err" /\ ~U!Failed.route /\ U!Failed.cancel = host.cancel /\ U!Failed.queue = <<>>
      /\ \A c : LET d == U!Dropped(host, "err", c) IN
            d.pc = "err" /\ ~d.route /\ d.cancel = host.cancel /\ d.queue = <<>>
  BY <1>1 DEF U!Dropped, U!Failed
\* The task ends.
<1>7. ASSUME UNCHANGED <<dev, xfer, h2d, d2h>>, host.pc \notin {"ok", "err"}, host'.pc \in {"ok", "err"},
             ~host'.route, host'.cancel = host.cancel, host'.queue \in {host.queue, <<>>}
      PROVE  PushSends
  <2>1. Sent <= Sent'
    BY <1>2, <1>5, <1>7
  <2>2. FullOK' /\ RouteOK'
    BY <1>2, <1>7 DEF FullOK, RouteOK
  <2> QED
    BY <1>4, <1>7, <2>1, <2>2 DEF PushSends
\* It goes on without a frame.
<1>8. ASSUME UNCHANGED <<dev, xfer, h2d, d2h>>, host.pc \notin {"ok", "err"}, host'.pc \notin {"open", "ok", "err", "chunk"},
             host'.pc = "credit" => host'.chunk = Chunk \/ host'.chunk = xfer.left,
             host.pc = "done" => host'.pc = "done", host.pc = "end" => host'.pc = "done",
             host'.cancel = host.cancel, host'.cancelTasks = host.cancelTasks,
             host'.queue = host.queue \/ (host.queue # <<>> /\ host'.queue = Tail(host.queue))
      PROVE  PushSends
  <2>1. Sent <= Sent'
    BY <1>1, <1>2, <1>5, <1>8
  <2>2. FullOK' /\ RouteOK'
    BY <1>2, <1>8 DEF FullOK, RouteOK
  <2> QED
    BY <1>4, <1>8, <2>1, <2>2 DEF PushSends
<1>9. ASSUME NEW pc, NEW f \in AnyFrame, U!HostWrite(pc, f),
             <<pc, f.kind>> \in {<<"request", "PushRequest">>, <<"chunk", "FileChunk">>, <<"end", "FileEnd">>}
      PROVE  PushSends
  <2>1. CASE host' = U!Failed /\ UNCHANGED h2d
    BY <1>6, <1>7, <1>9, <2>1 DEF U!HostWrite
  <2>2. CASE h2d' = Append(h2d, f) /\ host' = [host EXCEPT !.written = TRUE]
    <3>1. /\ host.pc = pc /\ ~host.written /\ UNCHANGED <<dev, xfer, d2h>> /\ host'.pc = pc /\ host'.written
          /\ host'.chunk = host.chunk /\ host'.queue = host.queue /\ host'.cancel = host.cancel
          /\ host'.cancelTasks = host.cancelTasks /\ host'.route = host.route
      BY <1>1, <1>9, <2>2 DEF U!HostWrite
    <3>2. Sent' = Charged /\ (pc # "chunk" => Sent = Charged)
      BY <1>1, <1>2, <1>5, <3>1
    <3>3. pc = "chunk" => Sent = Charged - host.chunk /\ host.chunk > 0
      BY <1>1, <1>3, <1>5, <3>1
    <3>4. pc = "chunk" => Sent < FileUnits /\ (Sent + Chunk <= Sent' \/ FileUnits <= Sent')
      BY <1>1, <1>2, <1>3, <3>1, <3>2, <3>3
    <3>5. FullOK' /\ RouteOK'
      BY <1>2, <1>3, <1>9, <3>1 DEF FullOK, RouteOK
    <3>6. ~EndSent /\ (pc = "end" => EndSent') /\ Sent <= Sent'
      BY <1>1, <1>4, <1>5, <1>9, <3>1, <3>2
    <3>7. \E g \in AnyFrame :
            /\ h2d' = Append(h2d, g) /\ ~EndSent
            /\ \/ g.kind = "PushRequest" /\ Sent' = Sent
               \/ g.kind = "FileEnd" /\ EndSent'
               \/ g.kind = "FileChunk" /\ Sent < FileUnits /\ (Sent + Chunk <= Sent' \/ FileUnits <= Sent')
      BY <1>9, <2>2, <3>2, <3>4, <3>6
    <3> QED
      BY <1>9, <3>1, <3>5, <3>6, <3>7 DEF PushSends
  <2> QED
    BY <1>9, <2>1, <2>2 DEF U!HostWrite
<1>10. ASSUME NEW pc, NEW next, U!HostWritten(pc, next),
              <<pc, next>> \in {<<"request", "meta">>, <<"chunk", "poll">>, <<"end", "done">>}
      PROVE  PushSends
  <2>1. CASE host' = U!Failed
    BY <1>6, <1>7, <1>10, <2>1 DEF U!HostWritten
  <2>2. CASE host' = [host EXCEPT !.pc = next, !.written = FALSE, !.chunk = 0]
    <3>1. /\ host.pc = pc /\ host'.pc = next /\ host'.queue = host.queue /\ host'.cancel = host.cancel
          /\ host'.cancelTasks = host.cancelTasks /\ UNCHANGED <<dev, xfer, h2d, d2h>>
      BY <1>1, <1>10, <2>2 DEF U!HostWritten
    <3> QED
      BY <1>8, <1>10, <3>1
  <2> QED
    BY <1>10, <2>1, <2>2 DEF U!HostWritten
<1>11. /\ DOMAIN U!AfterReceiving = DOMAIN host /\ U!AfterReceiving.cancel = host.cancel
       /\ U!AfterReceiving.queue = Tail(host.queue) /\ U!AfterReceiving.cancelTasks = host.cancelTasks
  BY <1>1 DEF U!AfterReceiving
<1>12. ASSUME NEW pc \in {"meta", "done"}, NEW with, U!HostRecv(pc, with), with.cancel = host.cancel,
              \/ with.pc \in {"ok", "err"} /\ ~with.route /\ with.queue = <<>>
              \/ /\ pc = "meta" /\ with.pc = "read" /\ with.queue = Tail(host.queue)
                 /\ with.cancelTasks = host.cancelTasks
      PROVE  PushSends
  <2>1. host.pc = pc /\ UNCHANGED <<dev, xfer, h2d, d2h>>
    BY <1>12 DEF U!HostRecv
  <2>2. CASE host' = U!Failed \/ host' = U!Dropped(host, "err", TRUE)
    <3>1. CASE host' = U!Failed
      BY <1>6, <1>7, <2>1, <3>1
    <3>2. CASE host' = U!Dropped(host, "err", TRUE)
      <4>1. host'.pc = "err" /\ ~host'.route /\ host'.cancel = host.cancel /\ host'.queue = <<>>
        BY <1>6, <3>2
      <4> QED
        BY <1>7, <2>1, <4>1
    <3> QED
      BY <2>2, <3>1, <3>2
  <2>3. CASE host.queue # <<>> /\ host' = with
    <3>1. CASE with.pc \in {"ok", "err"} /\ ~with.route /\ with.queue = <<>>
      BY <1>7, <1>12, <2>1, <2>3, <3>1
    <3>2. CASE /\ pc = "meta" /\ with.pc = "read" /\ with.queue = Tail(host.queue)
               /\ with.cancelTasks = host.cancelTasks
      BY <1>8, <1>12, <2>1, <2>3, <3>2
    <3> QED
      BY <1>12, <3>1, <3>2
  <2> QED
    BY <1>12, <2>2, <2>3 DEF U!HostRecv
<1>13. CASE U!HostOpen
  <2>1. UNCHANGED <<dev, xfer, h2d, d2h>> /\ host.pc = "open" /\ ~host.route
    BY <1>3, <1>13 DEF U!HostOpen
  <2>2. CASE host' = [host EXCEPT !.pc = "err"]
    <3>1. host'.pc = "err" /\ ~host'.route /\ host'.cancel = host.cancel /\ host'.queue = host.queue
      BY <1>1, <2>1, <2>2
    <3> QED
      BY <1>7, <2>1, <3>1
  <2>3. CASE host' = [host EXCEPT !.pc = "request", !.route = TRUE]
    <3>1. host'.pc = "request" /\ host'.cancel = host.cancel /\ host'.queue = host.queue
          /\ host'.cancelTasks = host.cancelTasks
      BY <1>1, <2>3
    <3> QED
      BY <1>8, <2>1, <3>1
  <2> QED
    BY <1>13, <2>2, <2>3 DEF U!HostOpen
<1>14. CASE U!HostRequest \/ U!HostSendEnd
  <2>1. /\ U!Frame("PushRequest") \in AnyFrame /\ U!Frame("PushRequest").kind = "PushRequest"
        /\ U!Frame("FileEnd") \in AnyFrame /\ U!Frame("FileEnd").kind = "FileEnd"
    BY UFrames DEF FrameKinds, U!Frame
  <2> QED
    BY <1>9, <1>10, <1>14, <2>1 DEF U!HostRequest, U!HostSendEnd
<1>15. CASE U!HostSendChunk
  <2>1. U!FileChunk(host.chunk) \in AnyFrame /\ U!FileChunk(host.chunk).kind = "FileChunk"
    BY <1>1, UFrames DEF U!FileChunk
  <2> QED
    BY <1>9, <1>10, <1>15, <2>1 DEF U!HostSendChunk
<1>16. CASE U!HostRecvMeta
  <2>1. LET r == [U!AfterReceiving EXCEPT !.pc = "read"] IN
          /\ r.pc = "read" /\ r.queue = Tail(host.queue) /\ r.cancel = host.cancel
          /\ r.cancelTasks = host.cancelTasks
    BY <1>1, <1>11
  <2>2. \A c : LET r == U!Dropped(U!AfterReceiving, "err", c) IN
          r.pc = "err" /\ ~r.route /\ r.cancel = host.cancel /\ r.queue = <<>>
    BY <1>6, <1>11
  <2> QED
    BY <1>12, <1>16, <2>1, <2>2 DEF U!HostRecvMeta
<1>17. CASE U!HostRecvDone
  <2>1. \A pc, c : LET r == U!Dropped(U!AfterReceiving, pc, c) IN
          r.pc = pc /\ ~r.route /\ r.cancel = host.cancel /\ r.queue = <<>>
    BY <1>6, <1>11
  <2> QED
    BY <1>12, <1>17, <2>1 DEF U!HostRecvDone
<1>18. CASE U!HostReadFile
  <2>1. UNCHANGED <<dev, xfer, h2d, d2h>> /\ host.pc = "read"
    BY <1>18 DEF U!HostReadFile
  <2>2. CASE host' = U!Failed
    BY <1>6, <1>7, <2>1, <2>2
  <2>3. CASE host' = [host EXCEPT !.pc = "end"]
    <3>1. host'.pc = "end" /\ host'.cancel = host.cancel /\ host'.queue = host.queue
          /\ host'.cancelTasks = host.cancelTasks
      BY <1>1, <2>3
    <3> QED
      BY <1>8, <2>1, <3>1
  <2>4. ASSUME NEW n \in U!ReadSizes, host' = [host EXCEPT !.pc = "credit", !.chunk = n]
        PROVE  PushSends
    <3>1. host'.pc = "credit" /\ host'.cancel = host.cancel /\ host'.queue = host.queue
          /\ host'.cancelTasks = host.cancelTasks /\ host'.chunk = n
      BY <1>1, <2>4
    <3>2. n = Chunk \/ n = xfer.left
      BY <2>4 DEF U!ReadSizes, FullChunks
    <3> QED
      BY <1>8, <2>1, <3>1, <3>2
  <2> QED
    BY <1>18, <2>2, <2>3, <2>4 DEF U!HostReadFile
<1>19. CASE U!HostAcquire
  <2>1. UNCHANGED <<dev, h2d, d2h>> /\ host.pc = "credit"
    BY <1>19 DEF U!HostAcquire
  <2>2. CASE host' = U!Failed /\ UNCHANGED xfer
    BY <1>6, <1>7, <2>1, <2>2
  <2>3. CASE host' = [host EXCEPT !.pc = "chunk"] /\ xfer' = U!Paid(host.chunk)
    <3>1. /\ host'.pc = "chunk" /\ host'.chunk = host.chunk /\ host'.written = host.written
          /\ host'.cancel = host.cancel /\ host'.queue = host.queue /\ host'.cancelTasks = host.cancelTasks
      BY <1>1, <2>3
    <3>2. xfer'.left = xfer.left - host.chunk /\ xfer'.file = xfer.file
      BY <2>3 DEF U!Paid, StreamTypes, XferOK
    <3>3. ~host.written
      BY <2>1 DEF PushShape
    <3>4. host.chunk = Chunk \/ xfer'.left = 0
      BY <1>1, <1>3, <2>1, <3>2
    <3>5. Sent <= Sent'
      BY <1>1, <1>2, <1>5, <2>1, <3>1, <3>2, <3>3
    <3>6. FullOK' /\ RouteOK'
      BY <1>2, <3>1, <3>4 DEF FullOK, RouteOK
    <3> QED
      BY <1>4, <2>1, <3>1, <3>2, <3>5, <3>6 DEF PushSends
  <2> QED
    BY <1>19, <2>2, <2>3 DEF U!HostAcquire
<1>20. CASE U!HostPoll
  <2>1. UNCHANGED <<dev, xfer, h2d, d2h>> /\ host.pc = "poll"
    BY <1>20 DEF U!HostPoll
  <2>2. CASE host' = [host EXCEPT !.pc = "read"]
    <3>1. host'.pc = "read" /\ host'.cancel = host.cancel /\ host'.queue = host.queue
          /\ host'.cancelTasks = host.cancelTasks
      BY <1>1, <2>2
    <3> QED
      BY <1>8, <2>1, <3>1
  <2>3. CASE host' # [host EXCEPT !.pc = "read"]
    <3>1. host'.pc = "err" /\ ~host'.route /\ host'.cancel = host.cancel /\ host'.queue = <<>>
      BY <1>6, <1>20, <2>3 DEF U!HostPoll
    <3> QED
      BY <1>7, <2>1, <3>1
  <2> QED
    BY <2>2, <2>3
<1> QED
  BY <1>13, <1>14, <1>15, <1>16, <1>17, <1>18, <1>19, <1>20 DEF U!HostTask

\* The receiver of an upload.
LEMMA UDevReceives ==
  ASSUME StreamTypes, StreamTypes', FlowInv, kind = "push", kind' = kind, U!DevTask
  PROVE  PushReceives
<1>1. /\ DOMAIN dev = {"pc", "written", "chunk", "route", "inbox", "flow", "cancels", "watch",
                       "canceled", "reader", "overflow"}
      /\ DOMAIN xfer = {"left", "credit", "file", "unreturned", "granted"}
      /\ xfer.file \in Int /\ dev.chunk \in Int /\ Chunk \in Int /\ Chunk > 0 /\ Taken \in Int
      /\ dev.inbox \in Seq(AnyFrame)
  BY Amounts, SlotWeights, Constants DEF StreamTypes, DevOK, XferOK, AmountTypes
<1>2. /\ Taken = xfer.file + (IF dev.pc = "write" THEN dev.chunk ELSE 0)
      /\ Taken' = xfer'.file + (IF dev'.pc = "write" THEN dev'.chunk ELSE 0)
      /\ Waiting = dev.inbox
  BY DEF Taken, Receiver, Waiting
<1>3. dev.pc = "write" => dev.chunk \in 1..Chunk
  BY DEF FlowInv, ReceiverOK, Receiver
<1>4. Taken >= xfer.file
  BY <1>1, <1>2, <1>3
<1>5. ASSUME UNCHANGED <<host, h2d>>, xfer'.left = xfer.left, xfer'.file = xfer.file, dev'.pc # "write",
             dev'.overflow = dev.overflow,
             dev'.inbox \in {dev.inbox, <<>>} \/ (dev.inbox # <<>> /\ dev'.inbox = Tail(dev.inbox))
      PROVE  PushReceives
  <2>1. Taken' <= Taken /\ Taken' <= Taken + Chunk
    BY <1>1, <1>2, <1>4, <1>5
  <2> QED
    BY <1>5, <2>1 DEF PushReceives
<1>6. /\ U!DevFail.pc = "unroute_err" /\ U!DevFail.inbox = dev.inbox /\ U!DevFail.overflow = dev.overflow
  BY <1>1 DEF U!DevFail
<1>7. CASE U!DevCreate \/ U!DevFlush
  <2>1. /\ UNCHANGED <<host, h2d, xfer>> /\ dev'.pc \in {"meta", "end", "unroute_err"}
        /\ dev'.inbox = dev.inbox /\ dev'.overflow = dev.overflow
    BY <1>1, <1>6, <1>7 DEF U!DevCreate, U!DevFlush
  <2> QED
    BY <1>5, <2>1
<1>8. CASE U!DevSendMeta \/ U!DevSendEnd
  <2>1. /\ UNCHANGED <<host, h2d, xfer>> /\ dev'.pc \in {"meta", "end", "open_window", "unroute_ok", "unroute_err"}
        /\ dev'.inbox = dev.inbox /\ dev'.overflow = dev.overflow
    BY <1>1, <1>6, <1>8 DEF U!DevSendMeta, U!DevSendEnd, U!DevWrite, U!DevWritten
  <2> QED
    BY <1>5, <2>1
<1>9. CASE U!DevGrant
  <2>1. CASE dev' = U!DevFail /\ UNCHANGED xfer
    BY <1>5, <1>6, <1>9, <2>1 DEF U!DevGrant
  <2>2. ASSUME NEW n, xfer' = U!Granted(n), dev' = [dev EXCEPT !.pc = "recv"]
        PROVE  PushReceives
    <3>1. /\ xfer'.left = xfer.left /\ xfer'.file = xfer.file /\ dev'.pc = "recv"
          /\ dev'.inbox = dev.inbox /\ dev'.overflow = dev.overflow
      BY <1>1, <2>2 DEF U!Granted
    <3> QED
      BY <1>5, <1>9, <3>1 DEF U!DevGrant
  <2> QED
    BY <1>9, <2>1, <2>2 DEF U!DevGrant
<1>10. CASE U!DevRecv
  <2>1. dev.pc = "recv" /\ UNCHANGED <<host, xfer, h2d>>
    BY <1>10 DEF U!DevRecv
  <2>2. CASE dev' = U!DevFail
    BY <1>5, <1>6, <2>1, <2>2
  <2>3. CASE dev' # U!DevFail
    <3>1. /\ dev.inbox # <<>> /\ dev'.inbox = Tail(dev.inbox) /\ dev'.overflow = dev.overflow
          /\ IF Head(dev.inbox).kind = "FileChunk" THEN dev'.pc = "write" /\ dev'.chunk = Head(dev.inbox).n
                                                   ELSE dev'.pc \in {"flush", "unroute_err"}
      BY <1>1, <1>10, <2>3 DEF U!DevRecv
    <3>2. Sound(Head(dev.inbox))
      BY <1>1, <1>2, <3>1, WithinTail DEF FlowInv, DataCarried
    <3>3. dev'.pc = "write" => dev'.chunk \in 1..Chunk
      BY <3>1, <3>2 DEF Sound
    <3>4. Taken' <= Taken + Chunk
      BY <1>1, <1>2, <1>4, <2>1, <3>3
    <3> QED
      BY <2>1, <3>1, <3>4 DEF PushReceives
  <2> QED
    BY <2>2, <2>3
<1>11. CASE U!DevWriteFile
  <2>1. dev.pc = "write" /\ UNCHANGED <<host, h2d>>
    BY <1>11 DEF U!DevWriteFile
  <2>2. CASE dev' = U!DevFail /\ UNCHANGED xfer
    BY <1>5, <1>6, <2>1, <2>2
  <2>3. CASE /\ xfer' = U!Written(dev.chunk)
             /\ dev' = [dev EXCEPT !.chunk = 0, !.pc = IF U!GrantDue(xfer'.unreturned) THEN "grant" ELSE "recv"]
    <3>1. /\ xfer'.left = xfer.left /\ xfer'.file = xfer.file + dev.chunk /\ dev'.pc \in {"grant", "recv"}
          /\ dev'.inbox = dev.inbox /\ dev'.overflow = dev.overflow
      BY <1>1, <2>3 DEF U!Written
    <3>2. Taken' <= Taken
      BY <1>1, <1>2, <2>1, <3>1
    <3> QED
      BY <2>1, <3>1, <3>2 DEF PushReceives
  <2> QED
    BY <1>11, <2>2, <2>3 DEF U!DevWriteFile
<1>12. CASE U!DevEnding
  <2>1. /\ UNCHANGED <<host, h2d, xfer>> /\ dev'.pc \in {"finish", "report", "gone"}
        /\ dev'.inbox \in {dev.inbox, <<>>} /\ dev'.overflow = dev.overflow
    BY <1>1, <1>12 DEF U!DevEnding, U!DevUnregister, U!DevReport, U!DevFinish
  <2> QED
    BY <1>5, <2>1
<1> QED
  BY <1>7, <1>8, <1>9, <1>10, <1>11, <1>12 DEF U!DevTask

\* The sender of a download.
LEMMA DDevSends ==
  ASSUME FullChunks, StreamTypes, FlowInv, RoomInv, kind = "pull", kind' = kind, D!DevTask
  PROVE  PullSends
<1>1. /\ DOMAIN dev = {"pc", "written", "chunk", "route", "inbox", "flow", "cancels", "watch",
                       "canceled", "reader", "overflow"}
      /\ dev.chunk \in Int /\ xfer.left \in Int /\ xfer.left >= 0 /\ FileUnits \in Int /\ Chunk \in Int
      /\ Charged \in Int /\ Sent \in Int /\ dev.written \in BOOLEAN /\ dev.canceled \in BOOLEAN
  BY Amounts, Constants DEF StreamTypes, DevOK, AmountTypes, FlowInv
<1>2. /\ Sender = dev /\ Sender' = dev' /\ Charged = FileUnits - xfer.left /\ Charged' = FileUnits - xfer'.left
  BY DEF Sender, Charged
<1>3. /\ dev.pc = "credit" => dev.chunk = Chunk \/ dev.chunk = xfer.left
      /\ dev.pc = "chunk" /\ ~dev.written => dev.chunk = Chunk \/ xfer.left = 0
      /\ dev.pc \in {"credit", "chunk"} => dev.chunk \in 1..Chunk
      /\ dev.pc = "credit" => dev.chunk <= xfer.left
  BY <1>2 DEF RoomInv, FullOK, FlowInv, SenderOK
<1>4. /\ EndSent <=> (\/ dev.pc \in {"unroute_ok", "finish", "gone"} \/ (dev.pc = "end" /\ dev.written)
                      \/ dev.pc \in {"unroute_err", "report"} /\ dev.canceled)
      /\ EndSent' <=> (\/ dev'.pc \in {"unroute_ok", "finish", "gone"} \/ (dev'.pc = "end" /\ dev'.written)
                       \/ dev'.pc \in {"unroute_err", "report"} /\ dev'.canceled)
      /\ MetaSent <=> (dev.pc \notin {"none", "create"} /\ (dev.pc = "meta" => dev.written))
      /\ MetaSent' <=> (dev'.pc \notin {"none", "create"} /\ (dev'.pc = "meta" => dev'.written))
  BY DEF EndSent, MetaSent
<1>5. /\ Sent = Charged - (IF dev.pc = "chunk" /\ ~dev.written THEN dev.chunk ELSE 0)
      /\ Sent' = Charged' - (IF dev'.pc = "chunk" /\ ~dev'.written THEN dev'.chunk ELSE 0)
      /\ Sent <= Charged
  BY <1>1, <1>2, <1>3 DEF Sent
<1>6. /\ D!DevFail.pc = "unroute_err" /\ D!DevFail.overflow = dev.overflow /\ D!DevFail.reader = dev.reader
      /\ D!DevFail.route = dev.route /\ D!DevFail.canceled = dev.canceled
  BY <1>1 DEF D!DevFail
\* The task goes on, or fails, without a frame of the file.
<1>7. ASSUME UNCHANGED <<host, xfer, h2d>>, dev'.pc \notin {"none", "create", "chunk"}, dev'.pc = "meta" => dev.pc = "create",
             dev'.pc = "credit" => dev'.chunk = Chunk \/ dev'.chunk = xfer.left,
             EndSent => EndSent', dev'.overflow = dev.overflow, dev'.reader = dev.reader, dev'.route => dev.route,
             \/ d2h' = d2h
             \/ \E f \in AnyFrame : d2h' = Append(d2h, f) /\ f.kind \in {"FileEnd", "Error"} /\ ~EndSent /\ EndSent'
      PROVE  PullSends
  <2>1. Sent <= Sent'
    BY <1>1, <1>2, <1>5, <1>7
  <2>2. FullOK'
    BY <1>2, <1>7 DEF FullOK
  <2> QED
    BY <1>4, <1>7, <2>1, <2>2 DEF PullSends
\* It fails.
<1>8. ASSUME UNCHANGED <<host, xfer, h2d, d2h>>, dev' = D!DevFail, dev.pc \notin {"unroute_ok", "finish", "gone"},
             dev.pc = "end" /\ dev.written => dev.canceled
      PROVE  PullSends
  BY <1>4, <1>6, <1>7, <1>8
<1>9. ASSUME NEW pc, NEW f \in AnyFrame, D!DevWrite(pc, f),
             <<pc, f.kind>> \in {<<"meta", "FileMeta">>, <<"chunk", "FileChunk">>, <<"end", "FileEnd">>}
      PROVE  PullSends
  <2>1. CASE dev' = D!DevFail /\ UNCHANGED d2h
    BY <1>8, <1>9, <2>1 DEF D!DevWrite
  <2>2. CASE d2h' = Append(d2h, f) /\ dev' = [dev EXCEPT !.written = TRUE]
    <3>1. /\ dev.pc = pc /\ ~dev.written /\ UNCHANGED <<host, xfer, h2d>> /\ dev'.pc = pc /\ dev'.written
          /\ dev'.chunk = dev.chunk /\ dev'.overflow = dev.overflow /\ dev'.reader = dev.reader
          /\ dev'.route = dev.route
      BY <1>1, <1>9, <2>2 DEF D!DevWrite
    <3>2. Sent' = Charged /\ (pc # "chunk" => Sent = Charged)
      BY <1>1, <1>2, <1>5, <3>1
    <3>3. pc = "chunk" => Sent = Charged - dev.chunk /\ dev.chunk > 0
      BY <1>1, <1>3, <1>5, <3>1
    <3>4. pc = "chunk" => Sent < FileUnits /\ (Sent + Chunk <= Sent' \/ FileUnits <= Sent')
      BY <1>1, <1>2, <1>3, <3>1, <3>2, <3>3
    <3>5. FullOK' /\ Sent <= Sent'
      BY <1>1, <1>2, <1>5, <1>9, <3>1, <3>2 DEF FullOK
    <3>6. /\ (EndSent => EndSent') /\ (MetaSent => MetaSent') /\ (pc = "end" => ~EndSent /\ EndSent')
          /\ (pc = "meta" => ~MetaSent /\ MetaSent')
      BY <1>4, <1>9, <3>1
    <3>7. \E g \in AnyFrame :
            /\ d2h' = Append(d2h, g)
            /\ \/ g.kind = "FileMeta" /\ ~MetaSent /\ MetaSent'
               \/ g.kind \in {"FileEnd", "Error"} /\ ~EndSent /\ EndSent'
               \/ g.kind = "FileChunk" /\ Sent < FileUnits /\ (Sent + Chunk <= Sent' \/ FileUnits <= Sent')
      BY <1>9, <2>2, <3>4, <3>6
    <3> QED
      BY <3>1, <3>5, <3>6, <3>7 DEF PullSends
  <2> QED
    BY <1>9, <2>1, <2>2 DEF D!DevWrite
<1>10. ASSUME NEW pc, NEW next, D!DevWritten(pc, next),
              <<pc, next>> \in {<<"meta", "read">>, <<"chunk", "read">>, <<"end", "unroute_ok">>}
      PROVE  PullSends
  <2>1. CASE dev.canceled /\ dev' = D!DevFail
    BY <1>8, <1>10, <2>1 DEF D!DevWritten
  <2>2. CASE dev' = [dev EXCEPT !.pc = next, !.written = FALSE, !.chunk = 0]
    <3>1. /\ dev.pc = pc /\ dev'.pc = next /\ dev'.overflow = dev.overflow /\ dev'.reader = dev.reader
          /\ dev'.route = dev.route /\ UNCHANGED <<host, xfer, h2d, d2h>>
      BY <1>1, <1>10, <2>2 DEF D!DevWritten
    <3>2. EndSent => EndSent'
      BY <1>4, <1>10, <3>1
    <3> QED
      BY <1>7, <1>10, <3>1, <3>2
  <2> QED
    BY <1>10, <2>1, <2>2 DEF D!DevWritten
<1>11. CASE D!DevOpen
  <2>1. UNCHANGED <<host, xfer, h2d, d2h>> /\ dev.pc = "create"
    BY <1>11 DEF D!DevOpen
  <2>2. CASE dev' = D!DevFail
    BY <1>8, <2>1, <2>2
  <2>3. CASE dev' = [dev EXCEPT !.pc = "meta"]
    <3>1. dev'.pc = "meta" /\ dev'.overflow = dev.overflow /\ dev'.reader = dev.reader /\ dev'.route = dev.route
      BY <1>1, <2>3
    <3>2. ~EndSent
      BY <1>4, <2>1
    <3> QED
      BY <1>7, <2>1, <3>1, <3>2
  <2> QED
    BY <1>11, <2>2, <2>3 DEF D!DevOpen
<1>12. CASE D!DevSendMeta \/ D!DevSendEnd
  <2>1. /\ D!Frame("FileMeta") \in AnyFrame /\ D!Frame("FileMeta").kind = "FileMeta"
        /\ D!Frame("FileEnd") \in AnyFrame /\ D!Frame("FileEnd").kind = "FileEnd"
    BY DFrames DEF FrameKinds, D!Frame
  <2> QED
    BY <1>9, <1>10, <1>12, <2>1 DEF D!DevSendMeta, D!DevSendEnd
<1>13. CASE D!DevSendChunk
  <2>1. D!FileChunk(dev.chunk) \in AnyFrame /\ D!FileChunk(dev.chunk).kind = "FileChunk"
    BY <1>1, DFrames DEF D!FileChunk
  <2> QED
    BY <1>9, <1>10, <1>13, <2>1 DEF D!DevSendChunk
<1>14. CASE D!DevReadFile
  <2>1. UNCHANGED <<host, xfer, h2d, d2h>> /\ dev.pc = "read"
    BY <1>14 DEF D!DevReadFile
  <2>2. ~EndSent
    BY <1>4, <2>1
  <2>3. CASE dev' = D!DevFail
    BY <1>8, <2>1, <2>3
  <2>4. CASE dev' = [dev EXCEPT !.pc = "end"]
    <3>1. dev'.pc = "end" /\ dev'.overflow = dev.overflow /\ dev'.reader = dev.reader /\ dev'.route = dev.route
      BY <1>1, <2>4
    <3> QED
      BY <1>7, <2>1, <2>2, <3>1
  <2>5. ASSUME NEW n \in D!ReadSizes, dev' = [dev EXCEPT !.pc = "credit", !.chunk = n]
        PROVE  PullSends
    <3>1. /\ dev'.pc = "credit" /\ dev'.chunk = n /\ dev'.overflow = dev.overflow /\ dev'.reader = dev.reader
          /\ dev'.route = dev.route
      BY <1>1, <2>5
    <3>2. n = Chunk \/ n = xfer.left
      BY <2>5 DEF D!ReadSizes, FullChunks
    <3> QED
      BY <1>7, <2>1, <2>2, <3>1, <3>2
  <2> QED
    BY <1>14, <2>3, <2>4, <2>5 DEF D!DevReadFile
<1>15. CASE D!DevAcquire
  <2>1. UNCHANGED <<host, h2d, d2h>> /\ dev.pc = "credit"
    BY <1>15 DEF D!DevAcquire
  <2>2. CASE dev' = D!DevFail /\ UNCHANGED xfer
    BY <1>8, <2>1, <2>2
  <2>3. CASE dev' = [dev EXCEPT !.pc = "chunk"] /\ xfer' = D!Paid(dev.chunk)
    <3>1. /\ dev'.pc = "chunk" /\ dev'.chunk = dev.chunk /\ dev'.written = dev.written
          /\ dev'.overflow = dev.overflow /\ dev'.reader = dev.reader /\ dev'.route = dev.route
      BY <1>1, <2>3
    <3>2. xfer'.left = xfer.left - dev.chunk /\ xfer'.file = xfer.file
      BY <2>3 DEF D!Paid, StreamTypes, XferOK
    <3>3. dev.chunk = Chunk \/ xfer'.left = 0
      BY <1>1, <1>3, <2>1, <3>2
    <3>4. Sent <= Sent'
      <4>1. Sent = Charged /\ Charged' = Charged + dev.chunk /\ dev.chunk \in Int /\ dev.chunk >= 0
        BY <1>1, <1>2, <1>3, <1>5, <2>1, <3>2
      <4>2. Sent' = Charged' \/ Sent' = Charged' - dev.chunk
        BY <1>1, <1>2, <1>5, <3>1, <3>2
      <4> QED
        BY <1>1, <4>1, <4>2
    <3>5. FullOK'
      BY <1>2, <3>1, <3>3 DEF FullOK
    <3>6. ~EndSent /\ MetaSent'
      BY <1>4, <2>1, <3>1
    <3> QED
      BY <2>1, <3>1, <3>2, <3>4, <3>5, <3>6 DEF PullSends
  <2> QED
    BY <1>15, <2>2, <2>3 DEF D!DevAcquire
<1>16. CASE D!DevEnding
  <2>1. CASE D!DevUnregister
    <3>1. /\ UNCHANGED <<host, xfer, h2d, d2h>> /\ dev'.overflow = dev.overflow /\ dev'.reader = dev.reader
          /\ ~dev'.route /\ dev'.canceled = dev.canceled
          /\ \/ dev.pc = "unroute_ok" /\ dev'.pc = "finish"
             \/ dev.pc = "unroute_err" /\ dev'.pc = "report"
      BY <1>1, <2>1 DEF D!DevUnregister
    <3>2. EndSent => EndSent'
      BY <1>4, <3>1
    <3> QED
      BY <1>7, <3>1, <3>2
  <2>2. CASE D!DevReport
    <3>1. /\ UNCHANGED <<host, xfer, h2d>> /\ dev'.overflow = dev.overflow /\ dev'.reader = dev.reader
          /\ dev'.route = dev.route /\ dev.pc = "report" /\ dev'.pc = "finish"
          /\ d2h' = d2h \/ (~dev.canceled /\ d2h' = Append(d2h, D!Frame("Error")))
      BY <1>1, <2>2 DEF D!DevReport, D!DevInactive
    <3>2. EndSent' /\ (~dev.canceled => ~EndSent)
      BY <1>4, <3>1
    <3>3. D!Frame("Error") \in AnyFrame /\ D!Frame("Error").kind = "Error"
      BY DFrames DEF FrameKinds, D!Frame
    <3> QED
      BY <1>7, <3>1, <3>2, <3>3
  <2>3. CASE D!DevFinish
    <3>1. /\ UNCHANGED <<host, xfer, h2d, d2h>> /\ dev'.overflow = dev.overflow /\ dev'.reader = dev.reader
          /\ dev'.route = dev.route /\ dev'.pc = "gone"
      BY <1>1, <2>3 DEF D!DevFinish
    <3>2. EndSent'
      BY <1>4, <3>1
    <3> QED
      BY <1>7, <3>1, <3>2
  <2> QED
    BY <1>16, <2>1, <2>2, <2>3 DEF D!DevEnding
<1> QED
  BY <1>11, <1>12, <1>13, <1>14, <1>15, <1>16 DEF D!DevTask

\* The receiver of a download.
LEMMA DHostReceives ==
  ASSUME StreamTypes, StreamTypes', FlowInv, RoomInv, kind = "pull", kind' = kind, D!HostTask
  PROVE  PullReceives
<1>1. /\ DOMAIN host = {"pc", "written", "chunk", "route", "queue", "cancel", "cancelTasks", "closed"}
      /\ DOMAIN xfer = {"left", "credit", "file", "unreturned", "granted"}
      /\ xfer.file \in Int /\ host.chunk \in Int /\ Chunk \in Int /\ Chunk > 0 /\ Taken \in Int
      /\ host.queue \in Seq(AnyFrame) /\ host.route \in BOOLEAN
  BY Amounts, SlotWeights, Constants DEF StreamTypes, HostOK, XferOK, AmountTypes
<1> DEFINE Metaed == {"create", "open_window", "recv", "write", "grant", "flush"}
<1>2. /\ Lower = xfer.file + (IF host.pc = "write" THEN host.chunk ELSE 0)
                           + (IF host.pc \in Metaed THEN Chunk ELSE 0)
      /\ Lower' = xfer'.file + (IF host'.pc = "write" THEN host'.chunk ELSE 0)
                             + (IF host'.pc \in Metaed THEN Chunk ELSE 0)
      /\ Waiting = host.queue
  BY DEF Lower, MetaTaken, Taken, Receiver, Waiting
<1>3. host.pc = "write" => host.chunk \in 1..Chunk
  BY DEF FlowInv, ReceiverOK, Receiver
<1>4. host.route => host.pc \in {"request", "meta"} \union Metaed
  BY DEF RoomInv, RouteOK
<1>5. Lower >= xfer.file + (IF host.pc \in Metaed THEN Chunk ELSE 0)
  BY <1>1, <1>2, <1>3
\* The amounts stay as they are, the frames too or they are dropped.
<1>6. ASSUME UNCHANGED <<dev, d2h>>, xfer'.left = xfer.left, xfer'.file = xfer.file, host'.cancel = host.cancel,
             host'.queue \in {host.queue, <<>>}, host'.pc # "write",
             host'.pc \in Metaed => host.pc \in Metaed,
             host'.route => host'.pc \in {"request", "meta"} \union Metaed,
             h2d' = h2d \/ \E f \in AnyFrame : f.kind \in CreditKinds /\ h2d' = Append(h2d, f)
      PROVE  PullReceives
  <2>1. Lower' <= Lower
    BY <1>1, <1>2, <1>5, <1>6
  <2>2. RouteOK'
    BY <1>6 DEF RouteOK
  <2> QED
    BY <1>6, <2>1, <2>2 DEF PullReceives
\* A frame is taken.
<1>7. ASSUME UNCHANGED <<dev, xfer, h2d, d2h>>, host'.cancel = host.cancel, host.queue # <<>>, host'.queue = Tail(host.queue),
             host.pc \in {"meta", "recv"}, host'.pc \in Metaed,
             host'.pc = "write" => host.pc = "recv" /\ host'.chunk \in 1..Chunk
      PROVE  PullReceives
  <2>1. Lower' <= Lower + Chunk
    <3>1. CASE host'.pc = "write"
      BY <1>1, <1>2, <1>5, <1>7, <3>1
    <3>2. CASE host'.pc # "write"
      BY <1>1, <1>2, <1>5, <1>7, <3>2
    <3> QED
      BY <3>1, <3>2
  <2>2. RouteOK'
    BY <1>7 DEF RouteOK
  <2> QED
    BY <1>7, <2>1, <2>2 DEF PullReceives
<1> HIDE DEF Metaed
<1>8. /\ \A h, pc, c : DOMAIN h = DOMAIN host =>
            /\ D!Dropped(h, pc, c).pc = pc /\ ~D!Dropped(h, pc, c).route
            /\ D!Dropped(h, pc, c).cancel = h.cancel /\ D!Dropped(h, pc, c).queue = <<>>
      /\ D!Failed.pc = "err" /\ ~D!Failed.route /\ D!Failed.cancel = host.cancel /\ D!Failed.queue = <<>>
      /\ \A pc, c : LET d == D!Dropped(host, pc, c) IN
            d.pc = pc /\ ~d.route /\ d.cancel = host.cancel /\ d.queue = <<>>
  BY <1>1 DEF D!Dropped, D!Failed
\* The task ends.
<1>9. ASSUME UNCHANGED <<dev, xfer, h2d, d2h>>, host'.pc \in {"ok", "err"}, ~host'.route, host'.cancel = host.cancel,
             host'.queue \in {host.queue, <<>>}
      PROVE  PullReceives
  BY <1>6, <1>9 DEF Metaed
<1>10. ASSUME NEW pc, NEW next, D!HostWritten(pc, next),
             <<pc, next>> \in {<<"request", "meta">>, <<"open_window", "recv">>, <<"grant", "recv">>}
      PROVE  PullReceives
  <2>1. CASE host' = D!Failed
    BY <1>8, <1>9, <1>10, <2>1 DEF D!HostWritten
  <2>2. CASE host' = [host EXCEPT !.pc = next, !.written = FALSE, !.chunk = 0]
    <3>1. /\ host.pc = pc /\ host'.pc = next /\ host'.queue = host.queue /\ host'.cancel = host.cancel
          /\ host'.route = host.route /\ UNCHANGED <<dev, xfer, h2d, d2h>>
      BY <1>1, <1>10, <2>2 DEF D!HostWritten
    <3> QED
      BY <1>6, <1>10, <3>1 DEF Metaed
  <2> QED
    BY <1>10, <2>1, <2>2 DEF D!HostWritten
<1>11. /\ DOMAIN D!AfterReceiving = DOMAIN host /\ D!AfterReceiving.cancel = host.cancel
       /\ D!AfterReceiving.queue = Tail(host.queue) /\ D!Received = Head(host.queue)
  BY <1>1 DEF D!AfterReceiving, D!Received
<1>12. \A c : LET r == D!Dropped(D!AfterReceiving, "err", c) IN
          r.pc = "err" /\ ~r.route /\ r.cancel = host.cancel /\ r.queue = <<>>
  BY <1>8, <1>11
<1>13. ASSUME NEW pc \in {"meta", "recv"}, NEW with, D!HostRecv(pc, with), with.cancel = host.cancel,
              \/ with.pc = "err" /\ ~with.route /\ with.queue = <<>>
              \/ /\ with.queue = Tail(host.queue)
                 /\ \/ pc = "meta" /\ with.pc = "create"
                    \/ pc = "recv" /\ with.pc = "flush"
                    \/ pc = "recv" /\ with.pc = "write" /\ with.chunk = Head(host.queue).n
                       /\ Head(host.queue).kind = "FileChunk"
      PROVE  PullReceives
  <2>1. host.pc = pc /\ UNCHANGED <<dev, xfer, h2d, d2h>>
    BY <1>13 DEF D!HostRecv
  <2>2. CASE host' = D!Failed
    BY <1>8, <1>9, <2>1, <2>2
  <2>3. CASE host' = D!Dropped(host, "err", TRUE)
    <3>1. host'.pc = "err" /\ ~host'.route /\ host'.cancel = host.cancel /\ host'.queue = <<>>
      BY <1>1, <2>3 DEF D!Dropped
    <3> QED
      BY <1>9, <2>1, <3>1
  <2>4. CASE host.queue # <<>> /\ host' = with
    <3>1. CASE with.pc = "err" /\ ~with.route /\ with.queue = <<>>
      BY <1>9, <1>13, <2>1, <2>4, <3>1
    <3>2. CASE with.pc \in {"create", "flush", "write"} /\ with.queue = Tail(host.queue)
      <4>1. Sound(Head(host.queue))
        BY <1>1, <1>2, <2>4, WithinTail DEF FlowInv, DataCarried
      <4>2. host'.pc = "write" => host.pc = "recv" /\ host'.chunk \in 1..Chunk
        BY <1>13, <2>1, <2>4, <3>2, <4>1 DEF Sound
      <4> QED
        BY <1>7, <1>13, <2>1, <2>4, <3>2, <4>2 DEF Metaed
    <3> QED
      BY <1>13, <3>1, <3>2
  <2> QED
    BY <1>13, <2>2, <2>3, <2>4 DEF D!HostRecv
<1>14. CASE D!HostOpen
  <2>1. UNCHANGED <<dev, xfer, h2d, d2h>> /\ host.pc = "open" /\ ~host.route
    BY <1>4, <1>14 DEF D!HostOpen, Metaed
  <2>2. CASE host' = [host EXCEPT !.pc = "err"]
    <3>1. host'.pc = "err" /\ ~host'.route /\ host'.cancel = host.cancel /\ host'.queue = host.queue
      BY <1>1, <2>1, <2>2
    <3> QED
      BY <1>9, <2>1, <3>1
  <2>3. CASE host' = [host EXCEPT !.pc = "request", !.route = TRUE]
    <3>1. host'.pc = "request" /\ host'.cancel = host.cancel /\ host'.queue = host.queue
      BY <1>1, <2>3
    <3> QED
      BY <1>6, <2>1, <3>1 DEF Metaed
  <2> QED
    BY <1>14, <2>2, <2>3 DEF D!HostOpen
<1>15. CASE D!HostRequest
  <2>1. D!Frame("PullRequest") \in AnyFrame /\ D!Frame("PullRequest").kind \in CreditKinds
    BY DFrames DEF FrameKinds, D!Frame, CreditKinds
  <2>2. CASE D!HostWrite("request", D!Frame("PullRequest"))
    <3>1. CASE host' = D!Failed /\ UNCHANGED h2d
      BY <1>8, <1>9, <2>2, <3>1 DEF D!HostWrite
    <3>2. CASE h2d' = Append(h2d, D!Frame("PullRequest")) /\ host' = [host EXCEPT !.written = TRUE]
      <4>1. /\ host'.pc = "request" /\ host'.cancel = host.cancel /\ host'.queue = host.queue
            /\ host'.route = host.route /\ UNCHANGED <<dev, xfer, d2h>>
        BY <1>1, <2>2, <3>2 DEF D!HostWrite
      <4> QED
        BY <1>6, <2>1, <3>2, <4>1 DEF Metaed
    <3> QED
      BY <2>2, <3>1, <3>2 DEF D!HostWrite
  <2> QED
    BY <1>10, <1>15, <2>2 DEF D!HostRequest
<1>16. CASE D!HostRecvMeta
  <2>1. LET r == [D!AfterReceiving EXCEPT !.pc = "create"] IN
          r.pc = "create" /\ r.queue = Tail(host.queue) /\ r.cancel = host.cancel
    BY <1>1, <1>11
  <2> QED
    BY <1>12, <1>13, <1>16, <2>1 DEF D!HostRecvMeta
<1>17. CASE D!HostCreate
  <2>1. UNCHANGED <<dev, xfer, h2d, d2h>> /\ host.pc = "create"
    BY <1>17 DEF D!HostCreate
  <2>2. CASE host' = D!Failed
    BY <1>8, <1>9, <2>1, <2>2
  <2>3. CASE host' = [host EXCEPT !.pc = "open_window"]
    <3>1. host'.pc = "open_window" /\ host'.cancel = host.cancel /\ host'.queue = host.queue
      BY <1>1, <2>3
    <3> QED
      BY <1>6, <2>1, <3>1 DEF Metaed
  <2> QED
    BY <1>17, <2>2, <2>3 DEF D!HostCreate
<1>18. ASSUME NEW pc \in {"open_window", "grant"}, D!HostGrant(pc) PROVE PullReceives
  <2>1. CASE D!HostWritten(pc, "recv")
    BY <1>10, <1>18, <2>1
  <2>2. CASE host' = D!Failed /\ UNCHANGED <<dev, xfer, h2d, d2h>>
    BY <1>8, <1>9, <2>2
  <2>3. ASSUME NEW n, n = D!GrantSize(pc = "open_window"), h2d' = Append(h2d, D!WindowUpdate(n)), xfer' = D!Granted(n),
               host' = [host EXCEPT !.written = TRUE], host.pc = pc, UNCHANGED <<dev, d2h>>
        PROVE  PullReceives
    <3>1. D!WindowUpdate(n) \in AnyFrame /\ D!WindowUpdate(n).kind \in CreditKinds
      <4>1. n \in Int
        BY <2>3, Constants DEF D!GrantSize, StreamTypes, XferOK
      <4> QED
        BY <4>1, DFrames DEF D!WindowUpdate, CreditKinds
    <3>2. xfer'.left = xfer.left /\ xfer'.file = xfer.file
      BY <1>1, <2>3 DEF D!Granted
    <3>3. host'.pc = pc /\ host'.cancel = host.cancel /\ host'.queue = host.queue
      BY <1>1, <2>3
    <3> QED
      BY <1>6, <1>18, <2>3, <3>1, <3>2, <3>3 DEF Metaed
  <2> QED
    BY <1>18, <2>1, <2>2, <2>3 DEF D!HostGrant
<1>19. CASE D!HostRecvFrame
  <2>1. LET r == [D!AfterReceiving EXCEPT !.pc = "write", !.chunk = D!Received.n] IN
          r.pc = "write" /\ r.queue = Tail(host.queue) /\ r.cancel = host.cancel /\ r.chunk = Head(host.queue).n
    BY <1>1, <1>11
  <2>2. LET r == [D!AfterReceiving EXCEPT !.pc = "flush"] IN
          r.pc = "flush" /\ r.queue = Tail(host.queue) /\ r.cancel = host.cancel
    BY <1>1, <1>11
  <2>3. CASE D!Received.kind = "FileChunk"
    <3>1. D!HostRecv("recv", [D!AfterReceiving EXCEPT !.pc = "write", !.chunk = D!Received.n])
      BY <1>19, <2>3 DEF D!HostRecvFrame
    <3> QED
      BY <1>11, <1>13, <2>1, <2>3, <3>1
  <2>4. CASE D!Received.kind = "FileEnd"
    <3>1. D!HostRecv("recv", [D!AfterReceiving EXCEPT !.pc = "flush"])
      BY <1>19, <2>4 DEF D!HostRecvFrame
    <3> QED
      BY <1>13, <2>2, <3>1
  <2>5. CASE D!Received.kind \notin {"FileChunk", "FileEnd"}
    <3>1. D!HostRecv("recv", D!Dropped(D!AfterReceiving, "err", D!Completes(D!Received)))
      BY <1>19, <2>5 DEF D!HostRecvFrame
    <3> QED
      BY <1>12, <1>13, <3>1
  <2> QED
    BY <2>3, <2>4, <2>5
<1>20. CASE D!HostWriteFile
  <2>1. host.pc = "write" /\ UNCHANGED <<dev, h2d, d2h>>
    BY <1>20 DEF D!HostWriteFile
  <2>2. CASE host' = D!Failed /\ UNCHANGED xfer
    BY <1>8, <1>9, <2>1, <2>2
  <2>3. CASE /\ xfer' = D!Written(host.chunk)
             /\ host' = [host EXCEPT !.chunk = 0, !.pc = IF D!GrantDue(xfer'.unreturned) THEN "grant" ELSE "recv"]
    <3>1. /\ xfer'.left = xfer.left /\ xfer'.file = xfer.file + host.chunk /\ host'.pc \in {"grant", "recv"}
          /\ host'.queue = host.queue /\ host'.cancel = host.cancel
      BY <1>1, <2>3 DEF D!Written
    <3>2. Lower' <= Lower
      BY <1>1, <1>2, <2>1, <3>1 DEF Metaed
    <3>3. RouteOK'
      BY <3>1 DEF RouteOK
    <3> QED
      BY <2>1, <3>1, <3>2, <3>3 DEF PullReceives
  <2> QED
    BY <1>20, <2>2, <2>3 DEF D!HostWriteFile
<1>21. CASE D!HostFlush
  <2>1. UNCHANGED <<dev, xfer, h2d, d2h>>
    BY <1>21 DEF D!HostFlush
  <2>2. PICK pc \in {"ok", "err"} : host' = D!Dropped(host, pc, TRUE)
    BY <1>21 DEF D!HostFlush
  <2>3. host'.pc \in {"ok", "err"} /\ ~host'.route /\ host'.cancel = host.cancel /\ host'.queue = <<>>
    BY <1>1, <2>2 DEF D!Dropped
  <2> QED
    BY <1>9, <2>1, <2>3
<1> QED
  BY <1>14, <1>15, <1>16, <1>17, <1>18, <1>19, <1>20, <1>21 DEF D!HostTask

\* The connection finds a place for every frame.
LEMMA ConnectionRoom ==
  ASSUME FullChunks, StreamTypes, StreamTypes', LeftInv, FlowInv, RoomInv, kind \in {"push", "pull"}, kind' = kind,
         U!Connection
  PROVE  RoomMove
<1>1. /\ DOMAIN host = {"pc", "written", "chunk", "route", "queue", "cancel", "cancelTasks", "closed"}
      /\ DOMAIN dev = {"pc", "written", "chunk", "route", "inbox", "flow", "cancels", "watch",
                       "canceled", "reader", "overflow"}
      /\ h2d \in Seq(AnyFrame) /\ d2h \in Seq(AnyFrame) /\ Chunk \in Nat /\ Chunk > 0
  BY SlotWeights DEF StreamTypes, HostOK, DevOK
<1>2. Carries
  BY ConnectionCarries
<1>3. /\ dev.overflow = "none" /\ (kind = "pull" => ~host.cancel /\ ~dev.route /\ dev.reader # "stray")
      /\ WindowKept /\ Slots /\ RouteOK /\ FullOK /\ PullSide
  BY DEF RoomInv, ReceiverFits, PullSide
<1>4. ~U!DevCancelTask /\ (kind = "pull" => ~U!DevStray)
  BY <1>3 DEF U!DevCancelTask, U!DevStray
\* Neither end moves by itself.
<1>5. Sent' = Sent /\ Taken' = Taken /\ (MetaTaken' <=> MetaTaken) /\ Sent \in Int
  BY <1>2, Amounts DEF Sent, Taken, Sender, Receiver, Charged, Carries, MetaTaken, AmountTypes
<1>6. MetaSent => MetaSent'
  BY <1>2 DEF MetaSent, Carries
<1>7. EndSent => EndSent'
  <2>1. CASE kind = "push"
    BY <1>2, <2>1 DEF EndSent, Carries
  <2>2. CASE kind = "pull"
    <3>1. dev.canceled => dev'.canceled
      BY <1>1, <1>4, <2>2
         DEF U!Connection, U!HostReader, U!HostReaderEnds, U!HostCancelTask, U!DevReader, U!DevTeardown, U!LinkBreaks,
             U!CanceledByHost, U!DevDeliver, U!Opened
    <3> QED
      BY <1>2, <2>2, <3>1 DEF EndSent, Carries
  <2> QED
    BY <2>1, <2>2
<1>8. Lower' = Lower /\ Lower \in Int /\ Base \in Int /\ Base' \in Int
  BY <1>5, RoomNumbers, RoomNumbersNext DEF Lower, RoomTypes
<1>9. Upper <= Upper' /\ Upper \in Int
  BY <1>5, <1>6, <1>7, UpperGrows, RoomNumbers DEF RoomTypes
<1>10. FullOK'
  BY <1>2, <1>3 DEF FullOK, Sender, Carries
<1>11. RouteOK'
  <2>1. host'.route => host.route
    BY <1>1 DEF U!Connection, U!HostReader, U!HostReaderEnds, U!HostCancelTask, U!DevReader, U!DevStray, U!DevTeardown,
                U!DevCancelTask, U!LinkBreaks, U!HostDeliver, U!Closed
  <2> QED
    BY <1>2, <1>3, <2>1 DEF RouteOK, Carries
<1>12. \A f \in AnyFrame : Slot[f] \in Nat
  BY SlotWeights
<1>13. Data # <<>> => Head(Data) \in Of(DataKinds)
  BY <1>3, SlotWeights, RoomNumbers, Amounts, AlongTail DEF Slots, RoomTypes, AmountTypes
<1> DEFINE Moved ==
      \/ Data' = Data /\ Base' <= Base /\ Upper <= Upper'
      \/ \E f \in Of(DataKinds) : Data' = Append(Data, f) /\ Base' <= Base /\ Upper + Slot[f] <= Upper'
      \/ Data # <<>> /\ Data' = Tail(Data) /\ Base' <= Base + Slot[Head(Data)] /\ Upper <= Upper'
<1>14. ASSUME Waiting' = Waiting,
              \/ Data' = Data
              \/ Data # <<>> /\ Data' = Tail(Data)
              \/ \E f \in Of(DataKinds) : Data' = Append(Data, f) /\ Slot[f] = 0
       PROVE  Moved
  <2>1. Base' <= Base
    BY <1>8, <1>14, BaseMoves
  <2>2. Data # <<>> => Base' <= Base + Slot[Head(Data)]
    BY <1>8, <1>12, <1>13, <2>1 DEF Of
  <2>3. \A f \in Of(DataKinds) : Slot[f] = 0 => Upper + Slot[f] <= Upper'
    BY <1>9
  <2> QED
    BY <1>9, <1>14, <2>1, <2>2, <2>3
<1>15. ASSUME Data # <<>>, Data' = Tail(Data), Waiting' = Append(Waiting, Head(Data)), Slot[Head(Data)] = Chunk
       PROVE  Moved
  <2>1. Base' <= Base + Chunk
    BY <1>8, <1>15, BaseMoves
  <2> QED
    BY <1>9, <1>15, <2>1
<1> HIDE DEF Moved
<1>16. CASE kind = "push"
  <2>1. Data = h2d /\ Data' = h2d' /\ Waiting = dev.inbox /\ Waiting' = dev'.inbox
    BY <1>16 DEF Data, Waiting
  <2>2. Moved /\ dev'.overflow = "none"
    <3>1. CASE U!HostCancelTask
      <4>1. UNCHANGED dev /\ (h2d' = h2d \/ h2d' = Append(h2d, U!Frame("StreamCancel")))
        BY <3>1 DEF U!HostCancelTask
      <4>2. U!Frame("StreamCancel") \in Of(DataKinds) /\ Slot[U!Frame("StreamCancel")] = 0
        <5>1. U!Frame("StreamCancel") \in AnyFrame /\ U!Frame("StreamCancel").kind = "StreamCancel"
          BY UFrames DEF FrameKinds, U!Frame
        <5> QED
          BY <1>16, <5>1, SlotWeights DEF Of, DataKinds, Weighty
      <4> QED
        BY <1>3, <1>14, <2>1, <4>1, <4>2
    <3>2. CASE U!DevReader
      <4>1. h2d # <<>> /\ h2d' = Tail(h2d)
        BY <3>2 DEF U!DevReader
      <4>2. CASE dev'.inbox = dev.inbox /\ dev'.overflow = dev.overflow
        BY <1>3, <1>14, <2>1, <4>1, <4>2
      <4>3. CASE dev.route /\ Head(h2d).kind \notin {"StreamWindowUpdate", "StreamCancel"} /\ dev' = U!DevDeliver(Head(h2d))
        <5>1. Head(h2d).kind \notin RequestKinds
          BY <4>1, <4>3, TailAt DEF LeftInv, Once, Released, StreamTypes
        <5>2. Head(h2d) \in AnyFrame /\ Head(h2d).kind \in {"FileChunk", "FileEnd"}
          BY <1>13, <1>16, <2>1, <4>1, <4>3, <5>1 DEF Of, DataKinds, RequestKinds
        <5>3. Slot[Head(h2d)] = Chunk
          BY <5>2, SlotWeights DEF Weighty
        <5>4. Len(dev.inbox) < RouteCap
          BY <1>3, <1>16, <2>1, <4>1, <5>3, HasPlace
        <5>5. dev'.inbox = Append(dev.inbox, Head(h2d)) /\ dev'.overflow = "none"
          BY <1>1, <1>3, <4>3, <5>4 DEF U!DevDeliver
        <5> QED
          BY <1>15, <2>1, <4>1, <5>3, <5>5
      <4> QED
        BY <1>1, <3>2, <4>2, <4>3 DEF U!DevReader, U!CanceledByHost, U!Opened
    <3>3. CASE U!HostReader \/ U!HostReaderEnds \/ U!DevStray \/ U!DevTeardown \/ U!LinkBreaks
      <4>1. h2d' = h2d /\ dev'.inbox = dev.inbox /\ dev'.overflow = dev.overflow
        BY <1>1, <3>3 DEF U!HostReader, U!HostReaderEnds, U!DevStray, U!DevTeardown, U!LinkBreaks
      <4> QED
        BY <1>3, <1>14, <2>1, <4>1
    <3> QED
      BY <1>4, <3>1, <3>2, <3>3 DEF U!Connection
  <2>3. PullSide' /\ ReceiverFits'
    BY <1>16, <2>2 DEF PullSide, ReceiverFits
  <2> QED
    BY <1>10, <1>11, <2>2, <2>3 DEF RoomMove, Moved
<1>17. CASE kind = "pull"
  <2>1. Data = d2h /\ Data' = d2h' /\ Waiting = host.queue /\ Waiting' = host'.queue
    BY <1>17 DEF Data, Waiting
  <2>2. \A i \in 1..Len(h2d) : h2d[i].kind \in CreditKinds
    BY <1>3, <1>17 DEF PullSide
  <2> DEFINE Credited == \A i \in 1..Len(h2d') : h2d'[i].kind \in CreditKinds
  <2>3. h2d' = h2d => Credited
    BY <2>2
  <2> HIDE DEF Credited
  <2>4. /\ Moved /\ ~host'.cancel /\ dev'.overflow = "none" /\ ~dev'.route /\ dev'.reader # "stray"
        /\ Credited
    <3>1. CASE U!HostReader
      <4>1. d2h # <<>> /\ d2h' = Tail(d2h) /\ UNCHANGED <<dev, h2d>>
        BY <3>1 DEF U!HostReader
      <4>2. Head(d2h) \in AnyFrame /\ Head(d2h).kind \in Weighty
        BY <1>13, <1>17, <2>1, <4>1 DEF Of, DataKinds
      <4>3. Slot[Head(d2h)] = Chunk
        BY <4>2, SlotWeights
      <4>4. CASE host' = host
        BY <1>3, <1>14, <1>17, <2>1, <2>3, <4>1, <4>4
      <4>5. CASE host.route /\ host' = U!HostDeliver(Head(d2h))
        <5>1. MetaTaken \/ Unopened
          BY <1>3, <1>17, <4>5 DEF RouteOK, MetaTaken, Unopened, Receiver
        <5>2. Len(host.queue) < RouteCap
          BY <1>3, <2>1, <4>1, <4>3, <5>1, HasPlace
        <5>3. host'.queue = Append(host.queue, Head(d2h)) /\ host'.cancel = host.cancel
          BY <1>1, <4>5, <5>2 DEF U!HostDeliver
        <5> QED
          BY <1>3, <1>15, <1>17, <2>1, <2>3, <4>1, <4>3, <5>3
      <4> QED
        BY <3>1, <4>2, <4>4, <4>5 DEF U!HostReader, Weighty
    <3>2. CASE U!HostCancelTask
      <4>1. /\ UNCHANGED <<dev, d2h>> /\ host'.queue = host.queue /\ host'.cancel = host.cancel
            /\ (h2d' = h2d \/ h2d' = Append(h2d, U!Frame("StreamCancel")))
        BY <1>1, <3>2 DEF U!HostCancelTask
      <4>2. Credited
        <5>1. U!Frame("StreamCancel") \in AnyFrame /\ U!Frame("StreamCancel").kind \in CreditKinds
          BY UFrames DEF FrameKinds, U!Frame, CreditKinds
        <5>2. CASE h2d' = Append(h2d, U!Frame("StreamCancel"))
          BY <1>1, <2>2, <5>1, <5>2, CreditsOnly DEF Credited
        <5> QED
          BY <2>3, <4>1, <5>2
      <4> QED
        BY <1>3, <1>14, <1>17, <2>1, <4>1, <4>2
    <3>3. CASE U!DevReader
      <4>1. h2d # <<>> /\ h2d' = Tail(h2d) /\ UNCHANGED <<host, d2h>>
        BY <3>3 DEF U!DevReader
      <4>2. Head(h2d).kind \in CreditKinds /\ Credited
        BY <1>1, <2>2, <4>1, CreditsOnly DEF Credited
      <4>3. dev'.overflow = dev.overflow /\ ~dev'.route /\ dev'.reader # "stray"
        BY <1>1, <1>3, <1>17, <3>3, <4>2 DEF U!DevReader, U!CanceledByHost, U!Opened, U!Requests, CreditKinds
      <4> QED
        BY <1>3, <1>14, <1>17, <2>1, <4>1, <4>2, <4>3
    <3>4. CASE U!HostReaderEnds \/ U!DevTeardown \/ U!LinkBreaks
      <4>1. /\ h2d' = h2d /\ d2h' = d2h /\ host'.queue = host.queue /\ host'.cancel = host.cancel
            /\ dev'.overflow = dev.overflow /\ (dev'.route => dev.route) /\ (dev'.reader = "stray" => dev.reader = "stray")
        BY <1>1, <3>4 DEF U!HostReaderEnds, U!DevTeardown, U!LinkBreaks, U!Closed
      <4> QED
        BY <1>3, <1>14, <1>17, <2>1, <2>3, <4>1
    <3> QED
      BY <1>4, <1>17, <3>1, <3>2, <3>3, <3>4 DEF U!Connection
  <2>5. PullSide' /\ ReceiverFits'
    BY <2>4 DEF PullSide, ReceiverFits, Credited
  <2> QED
    BY <1>10, <1>11, <2>4, <2>5 DEF RoomMove, Moved
<1> QED
  BY <1>16, <1>17
-----------------------------------------------------------------------------

LEMMA RoomInit == StreamsInit => RoomInv
<1> SUFFICES ASSUME U!Init, kind \in Subjects PROVE RoomInv
  BY DEF StreamsInit
<1>1. /\ host.pc = "open" /\ ~host.route /\ host.queue = <<>> /\ ~host.cancel
      /\ dev.pc = "none" /\ dev.inbox = <<>> /\ ~dev.route /\ dev.reader = "read" /\ dev.overflow = "none"
      /\ xfer.left = FileUnits /\ xfer.file = 0 /\ xfer.granted = 0 /\ h2d = <<>> /\ d2h = <<>>
  BY DEF U!Init
<1>2. FileUnits \in Nat /\ Chunk \in Nat /\ Chunk > 0 /\ Window \in Nat
  BY WindowAssumption, StreamsAssumption DEF WindowAssumption, StreamsAssumption
<1>3. /\ Sender.pc \in {"open", "none"} /\ Receiver.pc \in {"open", "none"} /\ Data = <<>> /\ Waiting = <<>>
      /\ ~MetaTaken /\ ~MetaSent /\ ~EndSent
  BY <1>1 DEF Sender, Receiver, Data, Waiting, MetaTaken, MetaSent, EndSent
<1>4. Sent = 0 /\ Taken = 0
  BY <1>1, <1>2, <1>3 DEF Sent, Taken, Charged
<1>5. Lower = 0 /\ Len(Waiting) = 0 /\ Base = 0
  <2>1. Lower = 0 /\ Len(Waiting) = 0
    BY <1>3, <1>4 DEF Lower
  <2> QED
    BY <1>2, <2>1 DEF Base
<1>6. Rounded \in Int /\ Rounded >= 0
  BY <1>2, <1>4 DEF Rounded
<1>7. Upper \in Int /\ 0 <= Upper
  BY <1>2, <1>3, <1>6 DEF Upper
<1>8. Slots
  BY <1>3, <1>5, <1>7, AlongEmpty DEF Slots
<1>9. WindowKept /\ FullOK /\ RouteOK /\ PullSide /\ ReceiverFits
  BY <1>1, <1>2, <1>3 DEF WindowKept, FullOK, RouteOK, PullSide, ReceiverFits
<1> QED
  BY <1>8, <1>9 DEF RoomInv

LEMMA RoomNext ==
  FullChunks /\ StreamTypes /\ LeftInv /\ WholeInv /\ FlowInv /\ RoomInv /\ [StreamsNext]_streamsVars => RoomInv'
<1> SUFFICES ASSUME FullChunks, StreamTypes, LeftInv, WholeInv, FlowInv, RoomInv, [StreamsNext]_streamsVars
             PROVE  RoomInv'
  OBVIOUS
<1>1. kind' = kind /\ StreamTypes'
  BY StreamCases, NextTypes
<1>2. WindowKept'
  <2>1. [U!CW!Next]_(U!CW!vars)
    BY FlowNext
  <2>2. /\ xfer.granted \in Int /\ xfer.file \in Int /\ Window \in Int
        /\ 0 <= xfer.file /\ xfer.granted <= xfer.file + Window
        /\ xfer'.granted \in Int /\ xfer'.file \in Int
    BY <1>1, Amounts, AmountsNext, Constants DEF AmountTypes, RoomInv, WindowKept
  <2>3. 0 <= xfer'.file /\ xfer'.granted <= xfer'.file + Window
    <3>1. CASE U!CW!Grant
      BY <2>2, <3>1 DEF U!CW!Grant, U!CW!Unreturned
    <3>2. ASSUME NEW n \in 1..Chunk, U!CW!Send(n) \/ U!CW!Consume(n)
          PROVE  0 <= xfer'.file /\ xfer'.granted <= xfer'.file + Window
      <4>1. n \in Int /\ n >= 1
        BY Constants
      <4> QED
        BY <2>2, <3>2, <4>1 DEF U!CW!Send, U!CW!Consume
    <3>3. ASSUME NEW n, U!CW!Credit(n) PROVE 0 <= xfer'.file /\ xfer'.granted <= xfer'.file + Window
      BY <2>2, <3>3 DEF U!CW!Credit
    <3>4. CASE UNCHANGED U!CW!vars
      BY <2>2, <3>4 DEF U!CW!vars
    <3> QED
      BY <2>1, <3>1, <3>2, <3>3, <3>4 DEF U!CW!Next
  <2> QED
    BY <2>3 DEF WindowKept
<1>3. CASE UNCHANGED streamVars
  <2>1. UNCHANGED <<host, dev, xfer, h2d, d2h, kind>>
    BY <1>1, <1>3 DEF streamVars
  <2>2. Sender' = Sender /\ Receiver' = Receiver /\ Data' = Data /\ Waiting' = Waiting /\ Charged' = Charged
    BY <2>1 DEF Sender, Receiver, Data, Waiting, Charged
  <2>3. /\ Sent' = Sent /\ Taken' = Taken /\ MetaTaken' = MetaTaken /\ MetaSent' = MetaSent /\ EndSent' = EndSent
        /\ DataKinds' = DataKinds
    BY <2>1, <2>2 DEF Sent, Taken, MetaTaken, MetaSent, EndSent, DataKinds
  <2>4. Lower' = Lower /\ Rounded' = Rounded
    BY <2>2, <2>3 DEF Lower, Rounded
  <2>5. Base' = Base /\ Upper' = Upper
    BY <2>2, <2>3, <2>4 DEF Base, Upper
  <2>6. Slots' = Slots
    BY <2>2, <2>3, <2>5 DEF Slots
  <2>7. FullOK' = FullOK /\ RouteOK' = RouteOK /\ PullSide' = PullSide /\ ReceiverFits' = ReceiverFits
    BY <2>1, <2>2 DEF FullOK, RouteOK, PullSide, ReceiverFits
  <2> QED
    BY <1>2, <2>6, <2>7 DEF RoomInv
<1>4. CASE ~UNCHANGED streamVars
  <2>1. kind = "push" => PushShape
    BY DEF WholeInv, PushInv
  <2>2. RoomMove
    <3>1. CASE kind = "push" /\ U!HostTask
      BY <1>1, <2>1, <3>1, UHostSends, PushSendsRoom
    <3>2. CASE kind = "push" /\ U!DevTask
      BY <1>1, <3>2, UDevReceives, PushReceivesRoom
    <3>3. CASE kind = "pull" /\ D!HostTask
      BY <1>1, <3>3, DHostReceives, PullReceivesRoom
    <3>4. CASE kind = "pull" /\ D!DevTask
      BY <1>1, <3>4, DDevSends, PullSendsRoom
    <3>5. CASE kind \in {"push", "pull"} /\ U!Connection
      BY <1>1, <3>5, ConnectionRoom
    <3> QED
      BY <1>4, <3>1, <3>2, <3>3, <3>4, <3>5, StreamCases
  <2>3. Slots'
    BY <1>1, <2>2, SlotsKeep DEF RoomInv
  <2> QED
    BY <1>2, <2>2, <2>3 DEF RoomInv, RoomMove
<1> QED
  BY <1>3, <1>4
-----------------------------------------------------------------------------
(***************************************************************************)
(* The host's queue of an upload.  It is not the receiver's, and the window*)
(* does not bound what a device puts into it.  But while the host's side is*)
(* on and the connection holds, the device answers every frame of the      *)
(* host's at most once, be it with the metadata, with its FileEnd or with  *)
(* an Error: of the handler, or of the reader for a frame of no stream.    *)
(* Pending counts the answers the device still has to give, Heard those    *)
(* the host has got, and those on the wire are in d2h.  So the frames that *)
(* fit into a window bound the answers too.                                *)
(***************************************************************************)
HostOn == host.pc \notin {"ok", "err"}
Seen   == IF host.pc \in Asking THEN 0 ELSE 1        \* the metadata, once taken
Heard  == Len(host.queue) + Seen
Answering == dev.pc \in {"create", "write", "flush", "unroute_err", "report"} \/ (dev.pc \in {"meta", "end"} /\ ~dev.written)
Pending   == (IF Answering THEN 1 ELSE 0) + (IF dev.reader = "stray" THEN 1 ELSE 0)

ReplyKinds  == {"FileMeta", "FileEnd", "Error", "StreamWindowUpdate"}
UploadKinds == {"PushRequest", "FileChunk", "FileEnd"}
Answered == [f \in AnyFrame |-> IF f.kind = "StreamWindowUpdate" THEN 0 ELSE 1]
Asked    == [f \in AnyFrame |-> Chunk]
Ceiling  == Upper + (IF Unrequested THEN 0 ELSE Chunk)
Claims   == xfer.file + Chunk * (Pending + Len(dev.inbox))

Told(b)  == Along(d2h, Heard, b, Of(ReplyKinds), Answered)
Owes(b)  == Along(h2d, Claims + Chunk * b, Ceiling, Of(UploadKinds), Asked)
Live ==
    /\ dev.reader \in {"read", "stray"} /\ ~dev.canceled /\ ~dev.watch
    /\ dev.pc \in Receiving => dev.route
Replying == Live /\ \E b \in Int : Told(b) /\ Owes(b)
CutOff   == dev.reader = "ended" /\ Told(RouteCap + Seen)
Calm ==
    /\ host.cancelTasks = 0
    /\ host.pc \in Asking => xfer.left = FileUnits
    /\ CutOff \/ Replying
CalmInv == ~host.cancel /\ (kind = "push" /\ HostOn => Calm)

CalmTypes ==
    /\ Seen \in {0, 1} /\ Pending \in {0, 1, 2} /\ Heard \in Int /\ Claims \in Int /\ Ceiling \in Int
    /\ Len(dev.inbox) \in Nat /\ Len(host.queue) \in Nat

LEMMA CalmNumbers == StreamTypes => CalmTypes
<1> SUFFICES ASSUME StreamTypes PROVE CalmTypes
  OBVIOUS
<1>1. Len(dev.inbox) \in Nat /\ Len(host.queue) \in Nat /\ xfer.file \in Int /\ Chunk \in Int /\ Upper \in Int
  BY RoomNumbers, Constants DEF StreamTypes, HostOK, DevOK, XferOK, RoomTypes
<1>2. Seen \in {0, 1} /\ Pending \in {0, 1, 2}
  BY DEF Seen, Pending
<1>3. Heard \in Int /\ Ceiling \in Int
  BY <1>1, <1>2 DEF Heard, Ceiling
<1>4. Chunk * (Pending + Len(dev.inbox)) \in Int
  BY <1>1, <1>2
<1>5. Claims \in Int
  BY <1>1, <1>4 DEF Claims
<1> QED
  BY <1>1, <1>2, <1>3, <1>5 DEF CalmTypes

LEMMA CalmNumbersNext == StreamTypes' => CalmTypes'
<1>1. StreamTypes => CalmTypes
  BY CalmNumbers
<1> QED
  BY <1>1, PTL

LEMMA CalmWeights ==
  /\ \A K : Weights(Of(K), Answered) /\ Weights(Of(K), Asked)
  /\ \A f \in AnyFrame : /\ Asked[f] = Chunk /\ Answered[f] \in {0, 1}
                         /\ Answered[f] = 0 <=> f.kind = "StreamWindowUpdate"
BY SlotWeights DEF Weights, Of, Answered, Asked

\* The claims shrink by what is answered or written, and grow with a frame that arrives.
LEMMA ClaimsMove ==
  ASSUME StreamTypes, StreamTypes', NEW r \in {0, 1}, NEW e \in {0, 1}, NEW t \in {0, 1},
         xfer'.file <= xfer.file + (IF e = 1 THEN Chunk ELSE 0),
         Pending' + Len(dev'.inbox) + r + e <= Pending + Len(dev.inbox) + t
  PROVE  Claims' + Chunk * r <= Claims + Chunk * t
<1> DEFINE k == Pending + Len(dev.inbox)
           l == Pending' + Len(dev'.inbox)
           x == xfer.file
           y == xfer'.file
           c == Claims
           d == Claims'
<1>1. /\ k \in Nat /\ l \in Nat /\ x \in Int /\ y \in Int /\ Chunk \in Nat /\ Chunk > 0
      /\ c = x + Chunk * k /\ d = y + Chunk * l
      /\ y <= x + (IF e = 1 THEN Chunk ELSE 0) /\ l + r + e <= k + t
  <2>1. k \in Nat /\ l \in Nat
    <3>1. Pending \in Nat /\ Len(dev.inbox) \in Nat
      BY CalmNumbers DEF CalmTypes
    <3>2. Pending' \in Nat /\ Len(dev'.inbox) \in Nat
      BY CalmNumbersNext DEF CalmTypes
    <3> QED
      BY <3>1, <3>2
  <2>2. x \in Int /\ y \in Int /\ Chunk \in Nat /\ Chunk > 0
    BY SlotWeights DEF StreamTypes, XferOK
  <2>3. c = x + Chunk * k /\ d = y + Chunk * l
    BY DEF Claims
  <2> QED
    BY <2>1, <2>2, <2>3
<1> HIDE DEF k, l, x, y, c, d
<1>2. (k + t) - (l + r + e) \in Nat
  BY <1>1
<1>3. Chunk * ((k + t) - (l + r + e)) >= 0
  BY <1>1, <1>2
<1>4. Chunk * ((k + t) - (l + r + e)) = Chunk * k + Chunk * t - Chunk * l - Chunk * r - Chunk * e
  BY <1>1
<1>5. Chunk * e = (IF e = 1 THEN Chunk ELSE 0) /\ Chunk * k \in Int /\ Chunk * l \in Int /\ Chunk * r \in Int /\ Chunk * t \in Int
  BY <1>1
<1>6. d + Chunk * r <= c + Chunk * t
  BY <1>1, <1>3, <1>4, <1>5
<1> QED
  BY <1>6 DEF c, d

\* What a step may do while the device replies.
ReplyMove ==
    \E r \in {0, 1} :
      /\ \/ d2h' = d2h /\ Heard' <= Heard
         \/ \E f \in Of(ReplyKinds) : d2h' = Append(d2h, f) /\ Heard' <= Heard /\ Answered[f] = r
         \/ d2h # <<>> /\ d2h' = Tail(d2h) /\ Heard' <= Heard + Answered[Head(d2h)]
      /\ \/ h2d' = h2d /\ Claims' + Chunk * r <= Claims /\ Ceiling <= Ceiling'
         \/ /\ Claims' + Chunk * r <= Claims
            /\ \E f \in Of(UploadKinds) : h2d' = Append(h2d, f) /\ Ceiling + Chunk <= Ceiling'
         \/ h2d # <<>> /\ h2d' = Tail(h2d) /\ Claims' + Chunk * r <= Claims + Chunk /\ Ceiling <= Ceiling'

LEMMA ReplyingKeeps ==
  ASSUME StreamTypes, StreamTypes', Replying, ReplyMove, Live' PROVE Replying'
<1>1. PICK b \in Int : Told(b) /\ Owes(b)
  BY DEF Replying
<1>2. PICK r \in {0, 1} :
      /\ \/ d2h' = d2h /\ Heard' <= Heard
         \/ \E f \in Of(ReplyKinds) : d2h' = Append(d2h, f) /\ Heard' <= Heard /\ Answered[f] = r
         \/ d2h # <<>> /\ d2h' = Tail(d2h) /\ Heard' <= Heard + Answered[Head(d2h)]
      /\ \/ h2d' = h2d /\ Claims' + Chunk * r <= Claims /\ Ceiling <= Ceiling'
         \/ /\ Claims' + Chunk * r <= Claims
            /\ \E f \in Of(UploadKinds) : h2d' = Append(h2d, f) /\ Ceiling + Chunk <= Ceiling'
         \/ h2d # <<>> /\ h2d' = Tail(h2d) /\ Claims' + Chunk * r <= Claims + Chunk /\ Ceiling <= Ceiling'
  BY DEF ReplyMove
<1> DEFINE h == Heard
           i == Heard'
           x == Claims
           y == Claims'
           u == Ceiling
           v == Ceiling'
           S == Of(ReplyKinds)
           T2 == Of(UploadKinds)
           p == d2h'
           q == h2d'
<1>3. /\ h \in Int /\ i \in Int /\ x \in Int /\ y \in Int /\ u \in Int /\ v \in Int /\ Chunk \in Nat
      /\ d2h \in Seq(AnyFrame) /\ h2d \in Seq(AnyFrame)
      /\ Weights(S, Answered) /\ Weights(T2, Asked) /\ S \subseteq AnyFrame /\ T2 \subseteq AnyFrame
      /\ \A f \in AnyFrame : Asked[f] = Chunk /\ Answered[f] \in {0, 1}
      /\ Along(d2h, h, b, S, Answered) /\ Along(h2d, x + Chunk * b, u, T2, Asked)
  BY <1>1, CalmNumbers, CalmNumbersNext, CalmWeights, SlotWeights DEF CalmTypes, StreamTypes, Told, Owes, Of
<1>4. \/ p = d2h /\ i <= h
      \/ \E f \in S : p = Append(d2h, f) /\ i <= h /\ Answered[f] = r
      \/ d2h # <<>> /\ p = Tail(d2h) /\ i <= h + Answered[Head(d2h)]
  BY <1>2
<1>5. \/ q = h2d /\ y + Chunk * r <= x /\ u <= v
      \/ y + Chunk * r <= x /\ \E f \in T2 : q = Append(h2d, f) /\ u + Chunk <= v
      \/ h2d # <<>> /\ q = Tail(h2d) /\ y + Chunk * r <= x + Chunk /\ u <= v
  BY <1>2
<1> HIDE DEF h, i, x, y, u, v, S, T2, p, q
<1>6. b <= b + r /\ b + r \in Int
  OBVIOUS
<1>7. Along(p, i, b + r, S, Answered)
  <2>1. \/ p = d2h /\ i <= h /\ b <= b + r
        \/ \E f \in S : p = Append(d2h, f) /\ i <= h /\ b + Answered[f] <= b + r
        \/ d2h # <<>> /\ p = Tail(d2h) /\ i <= h + Answered[Head(d2h)] /\ b <= b + r
    BY <1>4, <1>6
  <2> QED
    BY <1>3, <1>6, <2>1, AlongKeeps
<1>8. Along(q, y + Chunk * (b + r), v, T2, Asked)
  <2> DEFINE a == x + Chunk * b
             c == y + Chunk * (b + r)
  <2>1. Chunk * (b + r) = Chunk * b + Chunk * r /\ Chunk * b \in Int /\ Chunk * r \in Int
    BY <1>3
  <2>2. a \in Int /\ c \in Int /\ (y + Chunk * r <= x => c <= a) /\ (y + Chunk * r <= x + Chunk => c <= a + Chunk)
    BY <1>3, <2>1
  <2>3. Along(h2d, a, u, T2, Asked)
    BY <1>3
  <2> HIDE DEF a, c
  <2>4. h2d # <<>> => Asked[Head(h2d)] = Chunk
    BY <1>3, Queues
  <2>5. \/ q = h2d /\ c <= a /\ u <= v
        \/ \E f \in T2 : q = Append(h2d, f) /\ c <= a /\ u + Asked[f] <= v
        \/ h2d # <<>> /\ q = Tail(h2d) /\ c <= a + Asked[Head(h2d)] /\ u <= v
    BY <1>3, <1>5, <2>2, <2>4
  <2>6. Along(q, c, v, T2, Asked)
    BY <1>3, <2>2, <2>3, <2>5, AlongKeeps
  <2> QED
    BY <2>6 DEF c
<1>9. Told(b + r)' /\ Owes(b + r)'
  BY <1>7, <1>8 DEF Told, Owes, i, y, v, S, T2, p, q
<1> QED
  BY <1>6, <1>9 DEF Replying

\* Once the device is cut off the host only gets what is under way.
LEMMA CutOffKeeps ==
  ASSUME StreamTypes, StreamTypes', CutOff, dev'.reader = "ended", Seen <= Seen',
         \/ d2h' = d2h /\ Heard' <= Heard
         \/ d2h # <<>> /\ d2h' = Tail(d2h) /\ Heard' <= Heard + Answered[Head(d2h)]
  PROVE  CutOff'
<1> DEFINE h == Heard
           i == Heard'
           b == RouteCap + Seen
           d == RouteCap + Seen'
           p == d2h'
           S == Of(ReplyKinds)
<1>1. /\ h \in Int /\ i \in Int /\ b \in Int /\ d \in Int /\ b <= d /\ d2h \in Seq(AnyFrame)
      /\ Weights(S, Answered) /\ Along(d2h, h, b, S, Answered)
  BY CalmNumbers, CalmNumbersNext, CalmWeights, SlotWeights DEF CalmTypes, StreamTypes, CutOff, Told
<1>2. \/ p = d2h /\ i <= h
      \/ d2h # <<>> /\ p = Tail(d2h) /\ i <= h + Answered[Head(d2h)]
  OBVIOUS
<1> HIDE DEF h, i, b, d, p, S
<1>3. Along(p, i, d, S, Answered)
  BY <1>1, <1>2, AlongKeeps
<1> QED
  BY <1>3 DEF CutOff, Told, i, d, p, S

\* The answers fit the host's queue: a window of chunks, the end and the request.
LEMMA AnswersFit ==
  ASSUME FullChunks, StreamTypes, FlowInv, WindowKept, kind = "push", HostOn, Calm
  PROVE  Told(RouteCap + Seen)
<1>1. CASE CutOff
  BY <1>1 DEF CutOff
<1>2. CASE Replying
  <2>1. PICK b \in Int : Told(b) /\ Owes(b)
    BY <1>2 DEF Replying
  <2>2. /\ Sent \in Int /\ Charged \in Int /\ xfer.credit \in Int /\ xfer.granted \in Int
        /\ xfer.file \in Int /\ FileUnits \in Int /\ Chunk \in Int /\ Window \in Int /\ RouteCap \in Nat
        /\ Credits \in Seq(AnyFrame) /\ Chunk > 0 /\ Window > 0 /\ Rounded \in Int
        /\ h2d \in Seq(AnyFrame) /\ d2h \in Seq(AnyFrame) /\ Seen \in {0, 1} /\ Heard \in Int
        /\ Claims \in Int /\ Ceiling \in Int /\ Upper \in Int
    BY Amounts, Constants, RoomNumbers, CalmNumbers, SlotWeights, WindowAssumption
       DEF AmountTypes, RoomTypes, CalmTypes, WindowAssumption, StreamTypes
  <2>3. xfer.file + Chunk * b <= Ceiling
    <3>1. Claims + Chunk * b \in Int /\ Claims + Chunk * b <= Ceiling
      <4> DEFINE a == Claims + Chunk * b
      <4>1. a \in Int /\ Along(h2d, a, Ceiling, Of(UploadKinds), Asked)
        BY <2>1, <2>2 DEF Owes
      <4> HIDE DEF a
      <4>2. a <= Ceiling
        BY <2>2, <4>1, AlongWider
      <4> QED
        BY <4>1, <4>2 DEF a
    <3>2. xfer.file <= Claims
      <4> DEFINE k == Pending + Len(dev.inbox)
      <4>1. k \in Nat /\ Claims = xfer.file + Chunk * k
        BY CalmNumbers DEF CalmTypes, Claims
      <4> HIDE DEF k
      <4>2. Chunk * k >= 0
        BY <2>2, <4>1
      <4> QED
        BY <2>2, <4>1, <4>2
    <3> QED
      BY <2>2, <3>1, <3>2
  <2>4. xfer.credit >= 0 /\ xfer.credit + Charged <= xfer.granted
    BY <2>2, WithinWider DEF FlowInv, CreditCarried
  <2>5. Sent <= Charged /\ xfer.file >= 0
    BY <2>2 DEF FlowInv, SenderOK, Sent, WindowKept
  <2>6. Sent <= xfer.file + Window /\ Rounded <= Sent + Chunk - 1
    BY <2>2, <2>4, <2>5 DEF WindowKept, Rounded
  <2> DEFINE e == IF EndSent THEN Chunk ELSE 0
  <2>7. Ceiling <= Rounded + e + Chunk /\ e \in Int /\ e <= Chunk /\ (~EndSent => e = 0)
    BY <2>2 DEF Ceiling, Upper, MetaSent
  <2> HIDE DEF e
  <2>8. Window <= (RouteCap - 1) * Chunk
    BY DEF FullChunks
  <2>9. Chunk * (b + 1) = Chunk * b + Chunk /\ Chunk * b \in Int /\ (RouteCap - 1) * Chunk \in Int
        /\ Chunk * (RouteCap + 3) = (RouteCap - 1) * Chunk + 4 * Chunk
    BY <2>2
  <2>10. b <= RouteCap + Seen
    <3>1. CASE host.pc \notin Asking
      <4>1. Chunk * (b + 1) < Chunk * (RouteCap + 3)
        <5> DEFINE p == Chunk * b
                   w == (RouteCap - 1) * Chunk
        <5>1. /\ p \in Int /\ w \in Int /\ Window <= w /\ xfer.file + p <= Ceiling
              /\ Chunk * (b + 1) = p + Chunk /\ Chunk * (RouteCap + 3) = w + 4 * Chunk
          BY <2>3, <2>8, <2>9
        <5> HIDE DEF p, w
        <5>2. p + Chunk < w + 4 * Chunk
          BY <2>2, <2>6, <2>7, <5>1
        <5> QED
          BY <5>1, <5>2
      <4>2. b + 1 < RouteCap + 3
        BY <2>2, <4>1, Fewer
      <4>3. Seen = 1
        BY <3>1 DEF Seen
      <4> QED
        BY <2>2, <4>2, <4>3
    <3>2. CASE host.pc \in Asking
      <4>1. Sent = 0 /\ ~EndSent /\ Seen = 0
        BY <2>2, <3>2 DEF Calm, Sent, Charged, Sender, EndSent, Seen, Asking
      <4>2. Chunk * (b + 1) < Chunk * 3
        <5> DEFINE p == Chunk * b
        <5>1. p \in Int /\ xfer.file + p <= Ceiling /\ Chunk * (b + 1) = p + Chunk
          BY <2>3, <2>9
        <5> HIDE DEF p
        <5>2. p + Chunk < Chunk * 3
          BY <2>2, <2>5, <2>6, <2>7, <4>1, <5>1
        <5> QED
          BY <5>1, <5>2
      <4>3. b + 1 < 3
        BY <2>2, <4>2, Fewer
      <4>4. RouteCap # 0
        <5>1. CASE RouteCap = 0
          BY <2>2, <2>8, <5>1
        <5> QED
          BY <5>1
      <4> QED
        BY <2>2, <4>1, <4>3, <4>4
    <3> QED
      BY <3>1, <3>2
  <2> DEFINE h == Heard
             c == RouteCap + Seen
             S == Of(ReplyKinds)
  <2>11. Along(d2h, h, b, S, Answered) /\ h \in Int /\ c \in Int /\ b <= c
    BY <2>1, <2>2, <2>10 DEF Told
  <2> HIDE DEF h, c, S
  <2>12. Along(d2h, h, c, S, Answered)
    BY <2>2, <2>11, AlongWider
  <2> QED
    BY <2>12 DEF Told, h, c, S
<1> QED
  BY <1>1, <1>2 DEF Calm

\* The host's task: it takes what it has heard, and every frame it sends may be
\* answered once.
Asks ==
    /\ host'.pc \in Asking => host.pc \in Asking /\ xfer'.left = xfer.left
    /\ host.pc \in Asking /\ host'.pc \notin Asking \union {"err"} =>
          host.queue # <<>> /\ host'.queue = Tail(host.queue)

LEMMA UHostAsks == ASSUME StreamTypes, U!HostTask PROVE Asks
<1>1. DOMAIN host = {"pc", "written", "chunk", "route", "queue", "cancel", "cancelTasks", "closed"}
  BY DEF StreamTypes, HostOK
<1>2. /\ U!Failed.pc = "err"
      /\ \A pc, c : U!Dropped(host, pc, c).pc = pc /\ U!Dropped(U!AfterReceiving, pc, c).pc = pc
  BY <1>1 DEF U!Failed, U!Dropped, U!AfterReceiving
<1>3. CASE U!HostOpen \/ U!HostRequest
  BY <1>1, <1>2, <1>3 DEF U!HostOpen, U!HostRequest, U!HostWrite, U!HostWritten, Asks, Asking
<1>4. CASE U!HostRecvMeta
  <2>1. host.pc = "meta" /\ xfer' = xfer
    BY <1>4 DEF U!HostRecvMeta, U!HostRecv
  <2>2. CASE host'.pc = "err"
    BY <2>1, <2>2 DEF Asks, Asking
  <2>3. CASE host'.pc # "err"
    <3>1. host.queue # <<>> /\ host' = [U!AfterReceiving EXCEPT !.pc = "read"]
      BY <1>2, <1>4, <2>3 DEF U!HostRecvMeta, U!HostRecv
    <3>2. host'.pc = "read" /\ host'.queue = Tail(host.queue)
      BY <1>1, <3>1 DEF U!AfterReceiving
    <3> QED
      BY <2>1, <3>1, <3>2 DEF Asks, Asking
  <2> QED
    BY <2>2, <2>3
<1>5. ASSUME host.pc \notin Asking, host'.pc \notin Asking PROVE Asks
  BY <1>5 DEF Asks
<1>6. CASE U!HostReadFile \/ U!HostAcquire \/ U!HostPoll
  <2>1. host.pc \in {"read", "credit", "poll"}
    BY <1>6 DEF U!HostReadFile, U!HostAcquire, U!HostPoll
  <2>2. host'.pc \in {"err", "end", "credit", "chunk", "read"}
    <3>1. CASE U!HostReadFile
      BY <1>1, <1>2, <3>1 DEF U!HostReadFile
    <3>2. CASE U!HostAcquire
      BY <1>1, <1>2, <3>2 DEF U!HostAcquire
    <3>3. CASE U!HostPoll
      <4>1. [host EXCEPT !.pc = "read"].pc = "read"
        BY <1>1
      <4> QED
        BY <1>2, <3>3, <4>1 DEF U!HostPoll
    <3> QED
      BY <1>6, <3>1, <3>2, <3>3
  <2> QED
    BY <1>5, <2>1, <2>2 DEF Asking
<1>7. CASE U!HostSendChunk \/ U!HostSendEnd
  <2>1. host.pc \in {"chunk", "end"}
    BY <1>7 DEF U!HostSendChunk, U!HostSendEnd, U!HostWrite, U!HostWritten
  <2>2. host'.pc \in {"err", "chunk", "poll", "end", "done"}
    BY <1>1, <1>2, <1>7 DEF U!HostSendChunk, U!HostSendEnd, U!HostWrite, U!HostWritten
  <2> QED
    BY <1>5, <2>1, <2>2 DEF Asking
<1>8. CASE U!HostRecvDone
  <2>1. host.pc = "done" /\ host'.pc \in {"ok", "err"}
    BY <1>2, <1>8 DEF U!HostRecvDone, U!HostRecv
  <2> QED
    BY <1>5, <2>1 DEF Asking
<1> QED
  BY <1>3, <1>4, <1>6, <1>7, <1>8 DEF U!HostTask

LEMMA PushSendsCalm ==
  ASSUME StreamTypes, StreamTypes', kind = "push", CalmInv, PushSends, HostMove, Asks
  PROVE  CalmInv'
<1>1. kind' = "push" /\ ~host'.cancel /\ HostOn /\ Calm
  BY DEF PushSends, CalmInv, HostOn
<1>2. SUFFICES ASSUME HostOn' PROVE Calm'
  BY <1>1 DEF CalmInv
<1>3. /\ host'.cancelTasks = 0 /\ dev' = dev /\ d2h' = d2h /\ (EndSent => EndSent') /\ Sent <= Sent'
      /\ xfer'.file = xfer.file
  BY <1>1, <1>2 DEF PushSends, HostOn, Calm
<1>4. Seen <= Seen' /\ Heard' <= Heard
  <2> DEFINE q == host.queue
             s == Seen
             t == Seen'
  <2>1. /\ q \in Seq(AnyFrame) /\ Len(q) \in Nat /\ Len(<<>>) = 0 /\ s \in {0, 1} /\ t \in {0, 1}
        /\ Heard = Len(q) + s /\ Heard' = Len(host'.queue) + t
    BY DEF StreamTypes, HostOK, Seen, Heard
  <2>2. host'.queue \in {q, <<>>} \/ (q # <<>> /\ host'.queue = Tail(q))
    BY DEF PushSends
  <2>3. s <= t /\ (s = t \/ (q # <<>> /\ host'.queue = Tail(q) /\ s = 0 /\ t = 1))
    BY <1>2 DEF Asks, Seen, HostOn
  <2> HIDE DEF q, s, t
  <2>4. q # <<>> => Len(Tail(q)) = Len(q) - 1
    BY <2>1, TailAt
  <2>5. s <= t /\ Heard' <= Heard
    BY <2>1, <2>2, <2>3, <2>4
  <2> QED
    BY <2>5 DEF s, t
<1>5. host'.pc \in Asking => xfer'.left = FileUnits
  BY <1>1 DEF Asks, Calm
<1>6. CASE CutOff
  BY <1>1, <1>3, <1>4, <1>5, <1>6, CutOffKeeps DEF Calm, CutOff
<1>7. CASE Replying
  <2>1. Claims' = Claims /\ Claims \in Int /\ (Live => Live')
    BY <1>3, CalmNumbers DEF Claims, Pending, Answering, Live, CalmTypes
  <2>2. /\ Upper <= Upper' /\ Upper \in Int /\ Upper' \in Int /\ Chunk \in Nat /\ Chunk > 0
        /\ ~EndSent /\ EndSent' => Upper + Chunk <= Upper'
        /\ Sent < FileUnits /\ (Sent + Chunk <= Sent' \/ FileUnits <= Sent') => Upper + Chunk <= Upper'
    BY <1>1, <1>3, UpperGrows, RoomNumbers, RoomNumbersNext, SlotWeights DEF MetaSent, RoomTypes
  <2>3. /\ Unrequested' => Unrequested
        /\ Ceiling <= Ceiling' /\ (Upper + Chunk <= Upper' => Ceiling + Chunk <= Ceiling')
        /\ Unrequested /\ ~Unrequested' => Ceiling + Chunk <= Ceiling'
    <3>1. Unrequested' => Unrequested
      BY DEF HostMove
    <3> DEFINE m == IF Unrequested THEN 0 ELSE Chunk
               n == IF Unrequested' THEN 0 ELSE Chunk
               u == Upper
               v == Upper'
    <3>2. m \in Int /\ n \in Int /\ m <= n /\ (Unrequested /\ ~Unrequested' => m + Chunk <= n)
      BY <2>2, <3>1
    <3>3. Ceiling = u + m /\ Ceiling' = v + n /\ u \in Int /\ v \in Int /\ u <= v
      BY <2>2 DEF Ceiling
    <3> HIDE DEF m, n, u, v
    <3>4. /\ Ceiling <= Ceiling' /\ (u + Chunk <= v => Ceiling + Chunk <= Ceiling')
          /\ Unrequested /\ ~Unrequested' => Ceiling + Chunk <= Ceiling'
      BY <2>2, <3>2, <3>3
    <3> QED
      BY <3>1, <3>4 DEF u, v
  <2>4. ASSUME h2d' # h2d PROVE \E f \in Of(UploadKinds) : h2d' = Append(h2d, f) /\ Ceiling + Chunk <= Ceiling'
    <3>1. PICK f \in AnyFrame :
            /\ h2d' = Append(h2d, f) /\ ~EndSent
            /\ \/ f.kind = "PushRequest" /\ Sent' = Sent
               \/ f.kind = "FileEnd" /\ EndSent'
               \/ f.kind = "FileChunk" /\ Sent < FileUnits /\ (Sent + Chunk <= Sent' \/ FileUnits <= Sent')
      BY <2>4 DEF PushSends
    <3>2. f.kind = "PushRequest" => Unrequested /\ ~Unrequested'
      <4>1. PICK g \in AnyFrame : h2d' = Append(h2d, g) /\ (g.kind \in RequestKinds => Unrequested /\ ~Unrequested')
        BY <2>4 DEF HostMove
      <4>2. h2d \in Seq(AnyFrame)
        BY DEF StreamTypes
      <4>3. g = f
        <5>1. Append(h2d, f)[Len(h2d) + 1] = f /\ Append(h2d, g)[Len(h2d) + 1] = g
          BY <4>2, AppendAt
        <5> QED
          BY <3>1, <4>1, <5>1
      <4> QED
        BY <4>1, <4>3 DEF RequestKinds
    <3>3. Ceiling + Chunk <= Ceiling'
      BY <2>2, <2>3, <3>1, <3>2
    <3>4. f \in Of(UploadKinds)
      BY <3>1 DEF Of, UploadKinds
    <3> QED
      BY <3>1, <3>3, <3>4
  <2>5. ReplyMove
    <3>1. 0 \in {0, 1} /\ Claims' + Chunk * 0 <= Claims
      BY <2>1, <2>2
    <3>2. d2h' = d2h /\ Heard' <= Heard
      BY <1>3, <1>4
    <3>3. \/ h2d' = h2d /\ Claims' + Chunk * 0 <= Claims /\ Ceiling <= Ceiling'
          \/ /\ Claims' + Chunk * 0 <= Claims
             /\ \E f \in Of(UploadKinds) : h2d' = Append(h2d, f) /\ Ceiling + Chunk <= Ceiling'
      BY <2>3, <2>4, <3>1
    <3> QED
      BY <3>1, <3>2, <3>3 DEF ReplyMove
  <2>6. Replying'
    BY <1>7, <2>1, <2>5, ReplyingKeeps DEF Replying
  <2> QED
    BY <1>3, <1>5, <2>6 DEF Calm
<1> QED
  BY <1>1, <1>6, <1>7 DEF Calm

\* The device's task, cut off from the connection,
LEMMA UDevCut ==
  ASSUME StreamTypes, U!DevTask, dev.reader = "ended"
  PROVE  d2h' = d2h /\ dev'.reader = "ended"
<1>1. /\ DOMAIN dev = {"pc", "written", "chunk", "route", "inbox", "flow", "cancels", "watch",
                       "canceled", "reader", "overflow"}
      /\ U!DevInactive
  BY DEF StreamTypes, DevOK, U!DevInactive
<1>2. U!DevFail.reader = "ended"
  BY <1>1 DEF U!DevFail
<1>3. CASE U!DevCreate \/ U!DevFlush
  BY <1>1, <1>2, <1>3 DEF U!DevCreate, U!DevFlush
<1>4. CASE U!DevSendMeta \/ U!DevSendEnd
  BY <1>1, <1>2, <1>4 DEF U!DevSendMeta, U!DevSendEnd, U!DevWrite, U!DevWritten
<1>5. CASE U!DevGrant
  BY <1>1, <1>2, <1>5 DEF U!DevGrant
<1>6. CASE U!DevRecv
  BY <1>1, <1>2, <1>6 DEF U!DevRecv
<1>7. CASE U!DevWriteFile
  BY <1>1, <1>2, <1>7 DEF U!DevWriteFile
<1>8. CASE U!DevEnding
  BY <1>1, <1>8 DEF U!DevEnding, U!DevUnregister, U!DevReport, U!DevFinish
<1> QED
  BY <1>3, <1>4, <1>5, <1>6, <1>7, <1>8 DEF U!DevTask

\* and on it: a frame that is taken, a chunk that is written and an answer that
\* is given each lower the claims, and a failure only changes what they are for.
DevReplies ==
    /\ UNCHANGED <<host, h2d>> /\ xfer'.left = xfer.left /\ Live'
    /\ \E r, e \in {0, 1} :
         /\ \/ r = 0 /\ d2h' = d2h
            \/ \E f \in Of(ReplyKinds) : d2h' = Append(d2h, f) /\ Answered[f] = r
         /\ xfer'.file <= xfer.file + (IF e = 1 THEN Chunk ELSE 0)
         /\ Pending' + Len(dev'.inbox) + r + e <= Pending + Len(dev.inbox)

LEMMA UDevReplies ==
  ASSUME StreamTypes, StreamTypes', FlowInv, kind = "push", Live, U!DevTask
  PROVE  DevReplies
<1>1. /\ DOMAIN dev = {"pc", "written", "chunk", "route", "inbox", "flow", "cancels", "watch",
                       "canceled", "reader", "overflow"}
      /\ DOMAIN xfer = {"left", "credit", "file", "unreturned", "granted"}
      /\ xfer.file \in Int /\ Chunk \in Int /\ Chunk > 0 /\ dev.inbox \in Seq(AnyFrame) /\ Len(dev.inbox) \in Nat
      /\ dev.reader \in {"read", "stray"} /\ ~dev.canceled /\ ~dev.watch /\ ~U!DevInactive
      /\ dev.pc \in Receiving => dev.route
      /\ Pending \in {0, 1, 2} /\ Pending' \in {0, 1, 2}
  <2>1. Pending \in {0, 1, 2} /\ Pending' \in {0, 1, 2}
    BY CalmNumbers, CalmNumbersNext DEF CalmTypes
  <2> QED
    BY <2>1, SlotWeights DEF StreamTypes, DevOK, XferOK, Live, U!DevInactive
<1>2. \A f \in AnyFrame : Answered[f] = IF f.kind = "StreamWindowUpdate" THEN 0 ELSE 1
  BY DEF Answered
\* With the reader where it was, the claims are for the task's step and the inbox.
<1> DEFINE Same == dev'.reader = dev.reader /\ ~dev'.canceled /\ dev'.watch = dev.watch
           Steady == UNCHANGED <<host, h2d>> /\ xfer'.left = xfer.left /\ xfer'.file = xfer.file
           Fine == dev'.pc \in Receiving => dev'.route
<1>3. Same => /\ (Answering' => Answering) => Pending' <= Pending
              /\ ~Answering' => Pending' <= Pending
              /\ Answering' => Pending' <= Pending + 1
              /\ Answering /\ ~Answering' => Pending' + 1 <= Pending
  BY DEF Pending
<1>4. Same /\ Fine => Live'
  BY <1>1 DEF Live
<1> HIDE DEF Same, Fine
<1>5. ASSUME Steady, Same, Fine, d2h' = d2h, Pending' + Len(dev'.inbox) <= Pending + Len(dev.inbox)
      PROVE  DevReplies
  <2>1. 0 \in {0, 1} /\ xfer'.file <= xfer.file + (IF 0 = 1 THEN Chunk ELSE 0)
        /\ Pending' + Len(dev'.inbox) + 0 + 0 <= Pending + Len(dev.inbox)
    BY <1>1, <1>5 DEF StreamTypes, DevOK
  <2> QED
    BY <1>4, <1>5, <2>1 DEF DevReplies
<1>6. ASSUME Steady, Same, Fine, dev'.inbox = dev.inbox,
             NEW f \in Of(ReplyKinds), d2h' = Append(d2h, f),
             \/ f.kind = "StreamWindowUpdate" /\ ~Answering'
             \/ f.kind # "StreamWindowUpdate" /\ Answering /\ ~Answering'
      PROVE  DevReplies
  <2>1. f \in AnyFrame /\ Answered[f] \in {0, 1} /\ Pending' + Answered[f] <= Pending
    <3>1. f \in AnyFrame /\ Answered[f] = IF f.kind = "StreamWindowUpdate" THEN 0 ELSE 1
      BY <1>2 DEF Of
    <3>2. IF f.kind = "StreamWindowUpdate" THEN Pending' <= Pending ELSE Pending' + 1 <= Pending
      BY <1>3, <1>6
    <3>3. Pending \in Int
      BY CalmNumbers DEF CalmTypes
    <3>4. Pending' \in Int
      BY CalmNumbersNext DEF CalmTypes
    <3> DEFINE p == Pending
               q == Pending'
    <3>5. p \in Int /\ q \in Int /\ (IF f.kind = "StreamWindowUpdate" THEN q <= p ELSE q + 1 <= p)
      BY <3>2, <3>3, <3>4
    <3> HIDE DEF p, q
    <3>6. q + Answered[f] <= p
      BY <3>1, <3>5
    <3> QED
      BY <3>1, <3>6 DEF p, q
  <2>2. PICK r \in {0, 1} : r = Answered[f]
    BY <2>1
  <2>3. 0 \in {0, 1} /\ xfer'.file <= xfer.file + (IF 0 = 1 THEN Chunk ELSE 0)
        /\ Pending' + Len(dev'.inbox) + r + 0 <= Pending + Len(dev.inbox)
    BY <1>1, <1>6, <2>1, <2>2
  <2> QED
    BY <1>4, <1>6, <2>2, <2>3 DEF DevReplies
\* A step within the task that answers nothing.
<1>7. ASSUME Steady, Same, Fine, d2h' = d2h, dev'.inbox = dev.inbox, Answering' => Answering
      PROVE  DevReplies
  BY <1>1, <1>3, <1>5, <1>7
<1>8. /\ U!DevFail.pc = "unroute_err" /\ U!DevFail.inbox = dev.inbox /\ U!DevFail.reader = dev.reader
      /\ U!DevFail.canceled = dev.canceled /\ U!DevFail.watch = dev.watch
  BY <1>1 DEF U!DevFail
<1>9. ASSUME Steady, d2h' = d2h, dev' = U!DevFail, Answering PROVE DevReplies
  <2>1. Same /\ Fine /\ dev'.inbox = dev.inbox
    BY <1>1, <1>8, <1>9 DEF Same, Fine, Receiving
  <2> QED
    BY <1>7, <1>9, <2>1
<1>10. CASE U!DevCreate \/ U!DevFlush
  <2>1. Steady /\ d2h' = d2h /\ dev.pc \in {"create", "flush"} /\ Answering
    BY <1>10 DEF U!DevCreate, U!DevFlush, Answering
  <2>2. CASE dev' # U!DevFail
    <3>1. \/ dev.pc = "create" /\ dev' = [dev EXCEPT !.pc = "meta"]
          \/ dev.pc = "flush" /\ dev' = [dev EXCEPT !.pc = "end"]
      BY <1>10, <2>2 DEF U!DevCreate, U!DevFlush
    <3>2. Same /\ Fine /\ dev'.inbox = dev.inbox
      BY <1>1, <3>1 DEF Same, Fine, Receiving
    <3> QED
      BY <1>7, <2>1, <3>2
  <2> QED
    BY <1>9, <2>1, <2>2
<1>11. ASSUME NEW pc \in {"meta", "end"}, NEW f \in AnyFrame, U!DevWrite(pc, f), f.kind \in {"FileMeta", "FileEnd"}
       PROVE  DevReplies
  <2>1. dev.pc = pc /\ ~dev.written /\ dev' = [dev EXCEPT !.written = TRUE] /\ d2h' = Append(d2h, f) /\ Steady
    BY <1>1, <1>11 DEF U!DevWrite
  <2>2. Same /\ Fine /\ dev'.inbox = dev.inbox /\ dev'.pc = pc /\ dev'.written
    BY <1>1, <2>1 DEF Same, Fine, Receiving
  <2>3. Answering /\ ~Answering'
    BY <2>1, <2>2 DEF Answering
  <2>4. f \in Of(ReplyKinds) /\ f.kind # "StreamWindowUpdate"
    BY <1>11 DEF Of, ReplyKinds
  <2> QED
    BY <1>6, <2>1, <2>2, <2>3, <2>4
<1>12. ASSUME NEW pc, NEW next, U!DevWritten(pc, next), <<pc, next>> \in {<<"meta", "open_window">>, <<"end", "unroute_ok">>}
       PROVE  DevReplies
  <2>1. dev.pc = pc /\ dev' = [dev EXCEPT !.pc = next, !.written = FALSE, !.chunk = 0] /\ d2h' = d2h /\ Steady
    BY <1>1, <1>12 DEF U!DevWritten
  <2>2. Same /\ Fine /\ dev'.inbox = dev.inbox /\ dev'.pc = next
    BY <1>1, <1>12, <2>1 DEF Same, Fine, Receiving
  <2>3. ~Answering'
    BY <1>12, <2>2 DEF Answering
  <2> QED
    BY <1>7, <2>1, <2>2, <2>3
<1>13. CASE U!DevSendMeta \/ U!DevSendEnd
  <2>1. /\ U!Frame("FileMeta") \in AnyFrame /\ U!Frame("FileMeta").kind = "FileMeta"
        /\ U!Frame("FileEnd") \in AnyFrame /\ U!Frame("FileEnd").kind = "FileEnd"
    BY UFrames DEF FrameKinds, U!Frame
  <2> QED
    BY <1>11, <1>12, <1>13, <2>1 DEF U!DevSendMeta, U!DevSendEnd
<1>14. CASE U!DevGrant
  <2>1. \A o : U!GrantSize(o) \in Int
    BY Constants DEF U!GrantSize, StreamTypes, XferOK
  <2>2. PICK n \in Int : /\ d2h' = Append(d2h, U!WindowUpdate(n)) /\ dev' = [dev EXCEPT !.pc = "recv"]
                         /\ xfer' = U!Granted(n)
    BY <1>1, <1>14, <2>1 DEF U!DevGrant
  <2>3. U!WindowUpdate(n) \in Of(ReplyKinds) /\ U!WindowUpdate(n).kind = "StreamWindowUpdate"
    <3>1. U!WindowUpdate(n) \in AnyFrame /\ U!WindowUpdate(n).kind = "StreamWindowUpdate"
      BY UFrames DEF U!WindowUpdate
    <3> QED
      BY <3>1 DEF Of, ReplyKinds
  <2>4. /\ dev.pc \in {"open_window", "grant"} /\ dev'.pc = "recv" /\ dev'.inbox = dev.inbox
        /\ dev'.route = dev.route /\ dev'.reader = dev.reader /\ dev'.canceled = dev.canceled
        /\ dev'.watch = dev.watch /\ xfer'.left = xfer.left /\ xfer'.file = xfer.file
    BY <1>1, <1>14, <2>2 DEF U!DevGrant, U!Granted
  <2>5. Same /\ Fine /\ Steady
    BY <1>1, <1>14, <2>4 DEF Same, Fine, Receiving, U!DevGrant
  <2>6. ~Answering'
    BY <2>4 DEF Answering
  <2> QED
    BY <1>6, <2>2, <2>3, <2>4, <2>5, <2>6
<1>15. CASE U!DevRecv
  <2>1. dev.pc = "recv" /\ dev.route /\ d2h' = d2h /\ Steady /\ ~Answering
    BY <1>1, <1>15 DEF U!DevRecv, Receiving, Answering
  <2>2. dev.inbox # <<>> /\ \E pc \in {"write", "flush", "unroute_err"} :
            \/ dev' = [dev EXCEPT !.inbox = Tail(@), !.pc = pc]
            \/ dev' = [dev EXCEPT !.inbox = Tail(@), !.pc = pc, !.chunk = Head(dev.inbox).n]
    BY <1>1, <1>15, <2>1 DEF U!DevRecv
  <2>3. /\ Same /\ dev'.route /\ dev'.inbox = Tail(dev.inbox)
    BY <1>1, <2>1, <2>2 DEF Same
  <2>4. Pending' <= Pending + 1 /\ Len(dev'.inbox) = Len(dev.inbox) - 1
    BY <1>1, <1>3, <2>2, <2>3, TailAt
  <2>5. Fine
    BY <2>3 DEF Fine
  <2>6. Pending' + Len(dev'.inbox) <= Pending + Len(dev.inbox)
    BY <1>1, <2>4
  <2> QED
    BY <1>5, <2>1, <2>3, <2>5, <2>6
<1>16. CASE U!DevWriteFile
  <2>1. dev.pc = "write" /\ d2h' = d2h /\ UNCHANGED <<host, h2d>> /\ Answering
    BY <1>16 DEF U!DevWriteFile, Answering
  <2>2. CASE dev' = U!DevFail /\ UNCHANGED xfer
    BY <1>9, <2>1, <2>2
  <2>3. CASE xfer' = U!Written(dev.chunk) /\ \E pc \in {"grant", "recv"} : dev' = [dev EXCEPT !.chunk = 0, !.pc = pc]
    <3>1. /\ dev'.pc \in {"grant", "recv"} /\ dev'.route = dev.route /\ dev'.inbox = dev.inbox
          /\ dev'.reader = dev.reader /\ dev'.canceled = dev.canceled /\ dev'.watch = dev.watch
          /\ xfer'.file = xfer.file + dev.chunk /\ xfer'.left = xfer.left
      BY <1>1, <2>3 DEF U!Written
    <3>2. dev.chunk \in 1..Chunk
      BY <2>1 DEF FlowInv, ReceiverOK, Receiver
    <3>3. Same /\ Fine
      BY <1>1, <2>1, <3>1 DEF Same, Fine, Receiving
    <3>4. ~Answering'
      BY <3>1 DEF Answering
    <3>5. Pending' + Len(dev'.inbox) + 0 + 1 <= Pending + Len(dev.inbox)
      <4>1. Pending' + 1 <= Pending
        BY <1>3, <2>1, <3>3, <3>4
      <4> DEFINE p == Pending
                 q == Pending'
                 l == Len(dev.inbox)
      <4>2. p \in Int /\ l \in Int
        BY CalmNumbers DEF CalmTypes
      <4>3. q \in Int
        BY CalmNumbersNext DEF CalmTypes
      <4>4. q + 1 <= p
        BY <4>1
      <4> HIDE DEF p, q, l
      <4>5. q + l + 0 + 1 <= p + l
        BY <4>2, <4>3, <4>4
      <4> QED
        BY <3>1, <4>5 DEF p, q, l
    <3>6. xfer'.file <= xfer.file + (IF 1 = 1 THEN Chunk ELSE 0)
      BY <1>1, <3>1, <3>2
    <3> QED
      BY <1>4, <2>1, <3>1, <3>3, <3>5, <3>6 DEF DevReplies
  <2> QED
    BY <1>16, <2>2, <2>3 DEF U!DevWriteFile
<1>17. CASE U!DevUnregister
  <2>1. /\ Steady /\ d2h' = d2h /\ dev'.inbox = dev.inbox /\ Same
        /\ (dev.pc = "unroute_ok" /\ dev'.pc = "finish") \/ (dev.pc = "unroute_err" /\ dev'.pc = "report")
    BY <1>1, <1>17 DEF U!DevUnregister, Same
  <2>2. Fine /\ (Answering' => Answering)
    BY <2>1 DEF Fine, Receiving, Answering
  <2> QED
    BY <1>7, <2>1, <2>2
<1>18. CASE U!DevReport
  <2>1. /\ Steady /\ dev'.inbox = dev.inbox /\ Same /\ d2h' = Append(d2h, U!Frame("Error"))
        /\ dev.pc = "report" /\ dev'.pc = "finish"
    BY <1>1, <1>18 DEF U!DevReport, Same
  <2>2. Fine /\ Answering /\ ~Answering'
    BY <2>1 DEF Fine, Receiving, Answering
  <2>3. U!Frame("Error") \in Of(ReplyKinds) /\ U!Frame("Error").kind # "StreamWindowUpdate"
    <3>1. U!Frame("Error") \in AnyFrame /\ U!Frame("Error").kind = "Error"
      BY UFrames DEF FrameKinds, U!Frame
    <3> QED
      BY <3>1 DEF Of, ReplyKinds
  <2> QED
    BY <1>6, <2>1, <2>2, <2>3
<1>19. CASE U!DevFinish
  <2>1. Steady /\ d2h' = d2h /\ Same /\ dev'.inbox = <<>> /\ dev'.pc = "gone"
    BY <1>1, <1>19 DEF U!DevFinish, Same
  <2>2. Fine /\ ~Answering' /\ Len(dev'.inbox) = 0
    BY <2>1 DEF Fine, Receiving, Answering
  <2>3. Pending' + Len(dev'.inbox) <= Pending + Len(dev.inbox)
    BY <1>1, <1>3, <2>1, <2>2
  <2> QED
    BY <1>5, <2>1, <2>2, <2>3
<1> QED
  BY <1>10, <1>13, <1>14, <1>15, <1>16, <1>17, <1>18, <1>19 DEF U!DevTask, U!DevEnding

LEMMA PushReceivesCalm ==
  ASSUME StreamTypes, StreamTypes', FlowInv, kind = "push", kind' = kind, CalmInv, U!DevTask
  PROVE  CalmInv'
<1>1. UNCHANGED <<host, h2d>> /\ xfer'.left = xfer.left
  BY UDevPush DEF PushDevMove
<1>2. /\ ~host'.cancel /\ (HostOn' <=> HostOn) /\ Seen' = Seen /\ Heard' = Heard /\ Heard \in Int /\ Seen \in {0, 1}
  BY <1>1, CalmNumbers DEF CalmInv, HostOn, Seen, Heard, CalmTypes
<1>3. SUFFICES ASSUME HostOn PROVE Calm'
  BY <1>2 DEF CalmInv
<1>4. Calm
  BY <1>3 DEF CalmInv
<1>5. CASE CutOff
  <2>1. d2h' = d2h /\ dev'.reader = "ended"
    BY <1>5, UDevCut DEF CutOff
  <2>2. CutOff'
    BY <1>2, <1>5, <2>1, CutOffKeeps
  <2> QED
    BY <1>1, <1>4, <2>2 DEF Calm
<1>6. CASE Replying
  <2>1. DevReplies
    BY <1>6, UDevReplies DEF Replying
  <2>2. PICK r \in {0, 1}, e \in {0, 1} :
         /\ \/ r = 0 /\ d2h' = d2h
            \/ \E f \in Of(ReplyKinds) : d2h' = Append(d2h, f) /\ Answered[f] = r
         /\ xfer'.file <= xfer.file + (IF e = 1 THEN Chunk ELSE 0)
         /\ Pending' + Len(dev'.inbox) + r + e <= Pending + Len(dev.inbox)
    BY <2>1 DEF DevReplies
  <2>3. Claims' + Chunk * r <= Claims + Chunk * 0
    <3>1. Pending' + Len(dev'.inbox) + r + e <= Pending + Len(dev.inbox) + 0 /\ 0 \in {0, 1}
      BY <2>2, CalmNumbers DEF CalmTypes
    <3> QED
      BY <2>2, <3>1, ClaimsMove
  <2>4. Claims' + Chunk * r <= Claims
    BY <2>3, CalmNumbers, SlotWeights DEF CalmTypes
  <2>5. Ceiling' = Ceiling /\ Ceiling \in Int
    <3>1. Sent' = Sent /\ (EndSent' <=> EndSent) /\ (MetaSent' <=> MetaSent) /\ (Unrequested' <=> Unrequested)
      BY <1>1 DEF Sent, Charged, Sender, EndSent, MetaSent, Unrequested
    <3>2. Rounded' = Rounded
      BY <3>1 DEF Rounded
    <3>3. Upper' = Upper
      BY <3>1, <3>2 DEF Upper
    <3> QED
      BY <3>1, <3>3, CalmNumbers DEF Ceiling, CalmTypes
  <2>6. ReplyMove
    <3>1. \/ d2h' = d2h /\ Heard' <= Heard
          \/ \E f \in Of(ReplyKinds) : d2h' = Append(d2h, f) /\ Heard' <= Heard /\ Answered[f] = r
      BY <1>2, <2>2
    <3>2. h2d' = h2d /\ Claims' + Chunk * r <= Claims /\ Ceiling <= Ceiling'
      BY <1>1, <2>4, <2>5
    <3> QED
      BY <3>1, <3>2 DEF ReplyMove
  <2>7. Replying'
    BY <1>6, <2>1, <2>6, ReplyingKeeps DEF DevReplies
  <2> QED
    BY <1>1, <1>4, <2>7 DEF Calm
<1> QED
  BY <1>4, <1>5, <1>6 DEF Calm

\* The device's reader takes what the host sent: a frame of the upload is queued,
\* starts the handler or is for no stream, and any of these is owed an answer.
ReaderAsks ==
    /\ UNCHANGED <<host, d2h>> /\ h2d # <<>> /\ h2d' = Tail(h2d) /\ Live'
    /\ Pending' + Len(dev'.inbox) <= Pending + Len(dev.inbox) + 1

LEMMA UReaderAsks ==
  ASSUME StreamTypes, StreamTypes', LeftInv, Replying, dev'.overflow = "none", U!DevReader
  PROVE  ReaderAsks
<1>1. /\ DOMAIN dev = {"pc", "written", "chunk", "route", "inbox", "flow", "cancels", "watch",
                       "canceled", "reader", "overflow"}
      /\ h2d \in Seq(AnyFrame) /\ dev.inbox \in Seq(AnyFrame)
      /\ dev.reader = "read" /\ ~dev.canceled /\ ~dev.watch /\ (dev.pc \in Receiving => dev.route)
      /\ h2d # <<>> /\ h2d' = Tail(h2d) /\ UNCHANGED <<host, d2h>>
  BY DEF StreamTypes, DevOK, Replying, Live, U!DevReader
<1> DEFINE f == Head(h2d)
           p == Pending
           q == Pending'
           l == Len(dev.inbox)
           m == Len(dev'.inbox)
<1>2. p \in Int /\ l \in Int
  BY CalmNumbers DEF CalmTypes
<1>3. q \in Int /\ m \in Int
  BY CalmNumbersNext DEF CalmTypes
<1>4. f \in AnyFrame /\ f.kind \in UploadKinds
  <2>1. PICK b \in Int : Owes(b)
    BY DEF Replying
  <2> DEFINE a == Claims + Chunk * b
             c == Ceiling
             S == Of(UploadKinds)
  <2>2. /\ Along(h2d, a, c, S, Asked) /\ a \in Int /\ c \in Int /\ Weights(S, Asked)
    BY <2>1, CalmNumbers, CalmWeights, SlotWeights DEF Owes, CalmTypes
  <2> HIDE DEF a, c, S
  <2>3. f \in S
    BY <1>1, <2>2, AlongTail
  <2> QED
    BY <2>3 DEF S, Of
<1>5. f.kind = "PushRequest" => dev.pc = "none" /\ ~dev.route
  BY <1>1, TailAt DEF LeftInv, Once, Released, RequestKinds
<1>6. dev' = IF dev.route THEN U!DevDeliver(f)
             ELSE IF f.kind = "PushRequest" THEN U!Opened(f.kind)
             ELSE [dev EXCEPT !.reader = "stray"]
  BY <1>4 DEF U!DevReader, UploadKinds, U!Requests
<1>7. Live' /\ q + m <= p + l + 1
  <2>1. CASE dev.route
    <3>1. dev' = [dev EXCEPT !.inbox = Append(@, f)]
      BY <1>1, <1>6, <2>1 DEF U!DevDeliver
    <3>2. /\ dev'.inbox = Append(dev.inbox, f) /\ dev'.pc = dev.pc /\ dev'.written = dev.written
          /\ dev'.route = dev.route /\ dev'.reader = dev.reader
          /\ dev'.canceled = dev.canceled /\ dev'.watch = dev.watch
      BY <1>1, <3>1
    <3>3. q = p
      BY <3>2 DEF Pending, Answering
    <3>4. m = l + 1
      BY <1>1, <1>4, <3>2, AppendAt
    <3>5. Live'
      BY <1>1, <3>2 DEF Live
    <3> HIDE DEF p, q, l, m
    <3> QED
      BY <1>2, <1>3, <3>3, <3>4, <3>5
  <2>2. CASE ~dev.route /\ f.kind = "PushRequest"
    <3>1. /\ dev'.inbox = dev.inbox /\ dev'.pc = "create" /\ dev'.route /\ dev'.reader = "read"
          /\ ~dev'.canceled /\ ~dev'.watch /\ dev.pc = "none"
      BY <1>1, <1>5, <1>6, <2>2 DEF U!Opened
    <3>2. p = 0 /\ q = 1
      BY <1>1, <3>1 DEF Pending, Answering
    <3>3. m = l
      BY <3>1
    <3>4. Live'
      BY <3>1 DEF Live
    <3> HIDE DEF p, q, l, m
    <3> QED
      BY <1>2, <1>3, <3>2, <3>3, <3>4
  <2>3. CASE ~dev.route /\ f.kind # "PushRequest"
    <3>1. /\ dev'.inbox = dev.inbox /\ dev'.pc = dev.pc /\ dev'.written = dev.written
          /\ dev'.route = dev.route /\ dev'.reader = "stray" /\ ~dev'.canceled /\ ~dev'.watch
      BY <1>1, <1>6, <2>3
    <3>2. (Answering' <=> Answering)
      BY <3>1 DEF Answering
    <3>3. q = p + 1
      BY <1>1, <3>1, <3>2 DEF Pending
    <3>4. m = l
      BY <3>1
    <3>5. Live'
      BY <1>1, <3>1 DEF Live
    <3> HIDE DEF p, q, l, m
    <3> QED
      BY <1>2, <1>3, <3>3, <3>4, <3>5
  <2> QED
    BY <2>1, <2>2, <2>3
<1> QED
  BY <1>1, <1>7 DEF ReaderAsks

\* What the host's reader takes has its place in the host's queue.
HostHears ==
    /\ UNCHANGED <<dev, h2d>> /\ d2h # <<>> /\ d2h' = Tail(d2h)
    /\ ~host'.cancel /\ host'.cancelTasks = host.cancelTasks
    /\ HostOn => Heard' <= Heard + Answered[Head(d2h)]

LEMMA UHostHears ==
  ASSUME StreamTypes, StreamTypes', ~host.cancel, host.route => HostOn,
         HostOn => Told(RouteCap + Seen), U!HostReader
  PROVE  HostHears
<1>1. /\ DOMAIN host = {"pc", "written", "chunk", "route", "queue", "cancel", "cancelTasks", "closed"}
      /\ d2h \in Seq(AnyFrame) /\ host.queue \in Seq(AnyFrame) /\ RouteCap \in Nat
      /\ d2h # <<>> /\ d2h' = Tail(d2h) /\ UNCHANGED <<dev, h2d>>
  BY SlotWeights DEF StreamTypes, HostOK, U!HostReader
<1> DEFINE f == Head(d2h)
           n == Len(host.queue)
           s == Seen
<1>2. n \in Nat /\ s \in {0, 1} /\ Heard = n + s /\ (host'.pc = host.pc => Heard' = Len(host'.queue) + s)
  BY CalmNumbers DEF CalmTypes, Heard, Seen
<1>3. ASSUME HostOn
      PROVE  /\ f \in AnyFrame /\ f.kind \in ReplyKinds /\ n + Answered[f] <= RouteCap
             /\ Answered[f] \in {0, 1} /\ (f.kind # "StreamWindowUpdate" => Answered[f] = 1)
  <2> DEFINE a == Heard
             c == RouteCap + s
             S == Of(ReplyKinds)
  <2>1. Along(d2h, a, c, S, Answered) /\ a \in Int /\ c \in Int /\ Weights(S, Answered)
    BY <1>1, <1>2, <1>3, CalmWeights DEF Told
  <2> HIDE DEF a, c, S
  <2>2. f \in S /\ Answered[f] \in Int /\ a + Answered[f] <= c
    BY <1>1, <2>1, AlongTail
  <2>3. f \in AnyFrame /\ f.kind \in ReplyKinds
    BY <2>2 DEF S, Of
  <2>4. a = n + s /\ c = RouteCap + s
    BY <1>2 DEF a, c
  <2>5. n + Answered[f] <= RouteCap
    <3> HIDE DEF n, s, f
    <3> QED
      BY <1>1, <1>2, <2>2, <2>4
  <2> QED
    BY <2>3, <2>5, CalmWeights
<1>4. ASSUME host'.pc = host.pc, HostOn, \/ host'.queue = host.queue
                                         \/ host'.queue = Append(host.queue, f) /\ f.kind # "StreamWindowUpdate"
      PROVE  Heard' <= Heard + Answered[f]
  <2>1. Answered[f] \in {0, 1} /\ (f.kind # "StreamWindowUpdate" => Answered[f] = 1) /\ f \in AnyFrame
    BY <1>3, <1>4
  <2> DEFINE m == Len(host'.queue)
             h == Heard
             i == Heard'
  <2>2. m = n \/ (m = n + 1 /\ f.kind # "StreamWindowUpdate")
    BY <1>1, <1>4, <2>1, AppendAt
  <2>3. h = n + s /\ i = m + s
    BY <1>2, <1>4
  <2> HIDE DEF m, h, i, n, s, f
  <2>4. i <= h + Answered[f]
    BY <1>2, <2>1, <2>2, <2>3
  <2> QED
    BY <2>4 DEF h, i
<1>5. CASE ~host.route
  <2>1. host' = host
    BY <1>5 DEF U!HostReader
  <2> QED
    BY <1>1, <1>4, <2>1 DEF HostHears
<1>6. CASE host.route
  <2>1. HostOn /\ f.kind \in ReplyKinds
    BY <1>3, <1>6
  <2>2. CASE f.kind = "StreamWindowUpdate"
    <3>1. host' \in {host, U!Closed(host)}
      BY <1>6, <2>2 DEF U!HostReader
    <3>2. /\ host'.pc = host.pc /\ ~host'.cancel /\ host'.cancelTasks = host.cancelTasks
          /\ host'.queue = host.queue
      BY <1>1, <3>1 DEF U!Closed
    <3> QED
      BY <1>1, <1>4, <2>1, <3>2 DEF HostHears
  <2>3. CASE f.kind # "StreamWindowUpdate"
    <3>1. n < RouteCap
      <4>1. n + Answered[f] <= RouteCap /\ Answered[f] = 1
        BY <1>3, <2>1, <2>3
      <4> HIDE DEF n, f
      <4> QED
        BY <1>1, <1>2, <4>1
    <3>2. host' = [host EXCEPT !.queue = Append(@, f)]
      BY <1>6, <2>1, <2>3, <3>1 DEF U!HostReader, U!HostDeliver, ReplyKinds
    <3>3. /\ host'.pc = host.pc /\ ~host'.cancel /\ host'.cancelTasks = host.cancelTasks
          /\ host'.queue = Append(host.queue, f)
      BY <1>1, <3>2
    <3> QED
      BY <1>1, <1>4, <2>1, <2>3, <3>3 DEF HostHears
  <2> QED
    BY <2>2, <2>3
<1> QED
  BY <1>5, <1>6

\* What the connection does.
LEMMA ConnectionCalm ==
  ASSUME FullChunks, StreamTypes, StreamTypes', LeftInv, FlowInv, RoomInv, RoomInv',
         kind = "push", kind' = kind, CalmInv, U!Connection
  PROVE  CalmInv'
<1>1. /\ DOMAIN host = {"pc", "written", "chunk", "route", "queue", "cancel", "cancelTasks", "closed"}
      /\ DOMAIN dev = {"pc", "written", "chunk", "route", "inbox", "flow", "cancels", "watch",
                       "canceled", "reader", "overflow"}
  BY DEF StreamTypes, HostOK, DevOK
<1>2. Carries
  BY ConnectionCarries
<1>3. /\ (HostOn' <=> HostOn) /\ (host.route => HostOn) /\ ~host.cancel /\ Seen' = Seen /\ Seen \in {0, 1}
      /\ xfer'.left = xfer.left /\ xfer'.file = xfer.file /\ host'.pc = host.pc
  BY <1>2 DEF HostOn, Carries, RoomInv, RouteOK, CalmInv, Seen
<1>4. Ceiling' = Ceiling /\ Ceiling \in Int
  <2>1. Sent' = Sent /\ (EndSent' <=> EndSent) /\ (MetaSent' <=> MetaSent) /\ (Unrequested' <=> Unrequested)
    BY <1>2 DEF Sent, Charged, Sender, EndSent, MetaSent, Unrequested, Carries
  <2>2. Rounded' = Rounded
    BY <2>1 DEF Rounded
  <2>3. Upper' = Upper
    BY <2>1, <2>2 DEF Upper
  <2> QED
    BY <2>1, <2>3, CalmNumbers DEF Ceiling, CalmTypes
<1>5. HostOn => Calm /\ Told(RouteCap + Seen)
  BY AnswersFit DEF CalmInv, RoomInv
<1>6. dev.overflow = "none" /\ dev'.overflow = "none"
  BY DEF RoomInv, ReceiverFits
<1>7. Heard \in Int /\ Heard' \in Int /\ Claims \in Int /\ Claims' \in Int /\ Chunk \in Nat /\ Chunk > 0
  BY CalmNumbers, CalmNumbersNext, SlotWeights DEF CalmTypes
\* It is enough that the device goes on with its replies, or stays cut off.
<1>8. ASSUME ~host'.cancel, HostOn => host'.cancelTasks = host.cancelTasks,
             HostOn /\ Replying => Replying' \/ CutOff', HostOn /\ CutOff => CutOff'
      PROVE  CalmInv'
  BY <1>3, <1>5, <1>8 DEF CalmInv, Calm
\* Steps that touch neither what is under way nor what is owed.
<1>9. ASSUME ~host'.cancel, host'.cancelTasks = host.cancelTasks, host'.queue = host.queue, dev' = dev,
             UNCHANGED <<h2d, d2h>>
      PROVE  CalmInv'
  <2>1. Heard' = Heard /\ Claims' = Claims /\ (Live' <=> Live)
    BY <1>3, <1>9 DEF Heard, Claims, Pending, Answering, Live
  <2>2. Replying' <=> Replying
    BY <1>4, <1>9, <2>1 DEF Replying, Told, Owes
  <2>3. CutOff' <=> CutOff
    BY <1>3, <1>9, <2>1 DEF CutOff, Told
  <2> QED
    BY <1>8, <1>9, <2>2, <2>3
<1>10. CASE U!HostReader
  <2>1. HostHears
    BY <1>3, <1>5, <1>10, UHostHears
  <2>2. Claims' = Claims /\ (Live' <=> Live)
    BY <1>3, <2>1 DEF HostHears, Claims, Pending, Answering, Live
  <2>3. ASSUME HostOn, Replying PROVE Replying'
    <3>1. 0 \in {0, 1} /\ Claims' + Chunk * 0 <= Claims /\ Ceiling <= Ceiling'
      BY <1>4, <1>7, <2>2
    <3>2. ReplyMove
      BY <2>1, <2>3, <3>1 DEF ReplyMove, HostHears
    <3> QED
      BY <2>2, <2>3, <3>2, ReplyingKeeps DEF Replying
  <2>4. ASSUME HostOn, CutOff PROVE CutOff'
    <3>1. Seen <= Seen' /\ dev'.reader = "ended"
      BY <1>3, <2>1, <2>4 DEF HostHears, CutOff
    <3> QED
      BY <2>1, <2>4, <3>1, CutOffKeeps DEF HostHears
  <2> QED
    BY <1>8, <2>1, <2>3, <2>4 DEF HostHears
<1>11. CASE U!HostReaderEnds \/ U!LinkBreaks
  <2>1. /\ ~host'.cancel /\ host'.cancelTasks = host.cancelTasks /\ host'.queue = host.queue
        /\ dev' = dev /\ UNCHANGED <<h2d, d2h>>
    BY <1>1, <1>3, <1>11 DEF U!HostReaderEnds, U!LinkBreaks, U!Closed
  <2> QED
    BY <1>9, <2>1
<1>12. CASE U!HostCancelTask
  <2>1. ~host'.cancel /\ ~HostOn
    BY <1>1, <1>3, <1>5, <1>12 DEF U!HostCancelTask, Calm
  <2> QED
    BY <1>8, <2>1
<1>13. CASE U!DevReader
  <2>1. UNCHANGED host /\ dev.reader = "read"
    BY <1>13 DEF U!DevReader
  <2>2. ASSUME HostOn, Replying PROVE Replying'
    <3>1. ReaderAsks
      BY <1>6, <1>13, <2>2, UReaderAsks
    <3>2. 0 \in {0, 1} /\ 1 \in {0, 1} /\ xfer'.file <= xfer.file + (IF 0 = 1 THEN Chunk ELSE 0)
          /\ Pending' + Len(dev'.inbox) + 0 + 0 <= Pending + Len(dev.inbox) + 1
      <4> DEFINE p == Pending
                 q == Pending'
                 l == Len(dev.inbox)
                 m == Len(dev'.inbox)
      <4>1. p \in Int /\ l \in Int
        BY CalmNumbers DEF CalmTypes
      <4>2. q \in Int /\ m \in Int
        BY CalmNumbersNext DEF CalmTypes
      <4>3. q + m <= p + l + 1
        BY <3>1 DEF ReaderAsks
      <4>4. xfer'.file <= xfer.file + (IF 0 = 1 THEN Chunk ELSE 0)
        BY <1>3, SlotWeights DEF StreamTypes, XferOK
      <4> HIDE DEF p, q, l, m
      <4>5. q + m + 0 + 0 <= p + l + 1
        BY <4>1, <4>2, <4>3
      <4> QED
        BY <4>4, <4>5 DEF p, q, l, m
    <3>3. Claims' + Chunk * 0 <= Claims + Chunk * 1
      BY <3>2, ClaimsMove
    <3>4. Heard' = Heard
      BY <1>3, <2>1 DEF Heard
    <3>5. Claims' + Chunk * 0 <= Claims + Chunk /\ Ceiling <= Ceiling' /\ Heard' <= Heard
      <4> DEFINE c == Claims
                 d == Claims'
                 u == Ceiling
                 v == Ceiling'
                 h == Heard
                 i == Heard'
      <4>1. c \in Int /\ d \in Int /\ u \in Int /\ v = u /\ h \in Int /\ i = h /\ d + Chunk * 0 <= c + Chunk * 1
        BY <1>4, <1>7, <3>3, <3>4
      <4> HIDE DEF c, d, u, v, h, i
      <4>2. d + Chunk * 0 <= c + Chunk /\ u <= v /\ i <= h
        BY <1>7, <4>1
      <4> QED
        BY <4>2 DEF c, d, u, v, h, i
    <3>6. ReplyMove
      BY <3>1, <3>2, <3>5 DEF ReplyMove, ReaderAsks
    <3> QED
      BY <2>2, <3>1, <3>6, ReplyingKeeps DEF ReaderAsks
  <2> QED
    BY <1>3, <1>8, <2>1, <2>2 DEF CutOff
<1>14. CASE U!DevStray
  <2>1. UNCHANGED <<host, h2d>> /\ xfer' = xfer /\ dev.reader = "stray"
    BY <1>14 DEF U!DevStray
  <2>2. ASSUME HostOn, Replying PROVE Replying'
    <3>1. ~dev.canceled /\ ~dev.watch /\ (dev.pc \in Receiving => dev.route)
      BY <2>2 DEF Replying, Live
    <3>2. /\ d2h' = Append(d2h, U!Frame("Error"))
          /\ dev' = [dev EXCEPT !.reader = "read", !.canceled = FALSE, !.flow = FALSE]
      BY <1>14, <3>1 DEF U!DevStray
    <3>3. /\ dev'.pc = dev.pc /\ dev'.written = dev.written /\ dev'.route = dev.route /\ dev'.inbox = dev.inbox
          /\ dev'.reader = "read" /\ ~dev'.canceled /\ ~dev'.watch
      BY <1>1, <3>1, <3>2
    <3>4. U!Frame("Error") \in Of(ReplyKinds) /\ Answered[U!Frame("Error")] = 1
      <4>1. U!Frame("Error") \in AnyFrame /\ U!Frame("Error").kind = "Error"
        BY UFrames DEF FrameKinds, U!Frame
      <4> QED
        BY <4>1 DEF Of, ReplyKinds, Answered
    <3>5. Live'
      BY <3>1, <3>3 DEF Live
    <3>6. 0 \in {0, 1} /\ 1 \in {0, 1} /\ xfer'.file <= xfer.file + (IF 0 = 1 THEN Chunk ELSE 0)
          /\ Pending' + Len(dev'.inbox) + 1 + 0 <= Pending + Len(dev.inbox) + 0
      <4> DEFINE p == Pending
                 q == Pending'
                 l == Len(dev.inbox)
                 m == Len(dev'.inbox)
      <4>1. p \in Int /\ l \in Int
        BY CalmNumbers DEF CalmTypes
      <4>2. q \in Int /\ m = l
        BY <3>3, CalmNumbersNext DEF CalmTypes
      <4>3. Answering' <=> Answering
        BY <3>3 DEF Answering
      <4>4. p = q + 1
        BY <2>1, <3>3, <4>3 DEF Pending
      <4>5. xfer'.file <= xfer.file + (IF 0 = 1 THEN Chunk ELSE 0)
        BY <1>3, SlotWeights DEF StreamTypes, XferOK
      <4> HIDE DEF p, q, l, m
      <4>6. q + m + 1 + 0 <= p + l + 0
        BY <4>1, <4>2, <4>4
      <4> QED
        BY <4>5, <4>6 DEF p, q, l, m
    <3>7. Claims' + Chunk * 1 <= Claims + Chunk * 0
      BY <3>6, ClaimsMove
    <3>8. Heard' = Heard
      BY <1>3, <2>1 DEF Heard
    <3>9. Claims' + Chunk * 1 <= Claims /\ Ceiling <= Ceiling' /\ Heard' <= Heard
      <4> DEFINE c == Claims
                 d == Claims'
                 u == Ceiling
                 v == Ceiling'
                 h == Heard
                 i == Heard'
      <4>1. c \in Int /\ d \in Int /\ u \in Int /\ v = u /\ h \in Int /\ i = h /\ d + Chunk * 1 <= c + Chunk * 0
        BY <1>4, <1>7, <3>7, <3>8
      <4> HIDE DEF c, d, u, v, h, i
      <4>2. d + Chunk * 1 <= c /\ u <= v /\ i <= h
        BY <1>7, <4>1
      <4> QED
        BY <4>2 DEF c, d, u, v, h, i
    <3>10. ReplyMove
      BY <2>1, <3>2, <3>4, <3>6, <3>9 DEF ReplyMove
    <3> QED
      BY <2>2, <3>5, <3>10, ReplyingKeeps
  <2> QED
    BY <1>3, <1>8, <2>1, <2>2 DEF CutOff
<1>15. CASE U!DevTeardown
  <2>1. UNCHANGED <<host, h2d, d2h>> /\ dev'.reader = "ended"
    BY <1>1, <1>15 DEF U!DevTeardown
  <2>2. HostOn => CutOff'
    <3>1. Heard' = Heard
      BY <1>3, <2>1 DEF Heard
    <3> QED
      BY <1>3, <1>5, <2>1, <3>1 DEF CutOff, Told
  <2> QED
    BY <1>3, <1>8, <2>1, <2>2
<1>16. CASE U!DevCancelTask
  BY <1>6, <1>16 DEF U!DevCancelTask
<1> QED
  BY <1>10, <1>11, <1>12, <1>13, <1>14, <1>15, <1>16 DEF U!Connection

-----------------------------------------------------------------------------
LEMMA CalmInit == StreamsInit => CalmInv
<1> SUFFICES ASSUME U!Init, kind = "push" PROVE ~host.cancel /\ Calm
  BY DEF StreamsInit, CalmInv, U!Init
<1>1. /\ ~host.cancel /\ host.cancelTasks = 0 /\ host.queue = <<>> /\ h2d = <<>> /\ d2h = <<>> /\ host.pc = "open"
      /\ dev.inbox = <<>> /\ dev.pc = "none" /\ dev.reader = "read" /\ ~dev.canceled /\ ~dev.watch
      /\ xfer.left = FileUnits /\ xfer.file = 0
  BY DEF U!Init
<1>2. FileUnits \in Nat /\ Chunk \in Nat /\ Chunk > 0
  BY WindowAssumption, StreamsAssumption DEF WindowAssumption, StreamsAssumption
<1>3. Heard = 0 /\ Claims = 0
  <2>1. Seen = 0 /\ Pending = 0 /\ Len(host.queue) = 0 /\ Len(dev.inbox) = 0
    BY <1>1 DEF Seen, Asking, Pending, Answering
  <2> QED
    BY <1>1, <1>2, <2>1 DEF Heard, Claims
<1>4. Ceiling \in Int /\ 0 <= Ceiling
  <2>1. Sent = 0 /\ ~MetaSent /\ ~EndSent /\ Unrequested
    BY <1>1, <1>2 DEF Sent, Charged, Sender, MetaSent, EndSent, Unrequested
  <2>2. Rounded \in Int /\ 0 <= Rounded
    BY <1>2, <2>1 DEF Rounded
  <2> QED
    BY <1>2, <2>1, <2>2 DEF Ceiling, Upper
<1>5. Told(0) /\ Owes(0)
  <2>1. Claims + Chunk * 0 = 0
    BY <1>2, <1>3
  <2> QED
    BY <1>1, <1>3, <1>4, <2>1, AlongEmpty DEF Told, Owes
<1>6. Live
  BY <1>1 DEF Live, Receiving
<1> QED
  BY <1>1, <1>5, <1>6 DEF Calm, Replying

LEMMA CalmNext ==
  /\ FullChunks /\ StreamTypes /\ LeftInv /\ WholeInv /\ FlowInv /\ RoomInv /\ RoomInv' /\ CalmInv
  /\ [StreamsNext]_streamsVars
  => CalmInv'
<1> SUFFICES ASSUME FullChunks, StreamTypes, LeftInv, WholeInv, FlowInv, RoomInv, RoomInv', CalmInv,
                    [StreamsNext]_streamsVars
             PROVE  CalmInv'
  OBVIOUS
<1>1. kind' = kind /\ StreamTypes'
  BY StreamCases, NextTypes
<1>2. CASE UNCHANGED streamVars
  <2>1. UNCHANGED <<kind, host, dev, xfer, h2d, d2h>>
    BY <1>1, <1>2 DEF streamVars
  <2>2. /\ Sent' = Sent /\ (EndSent' <=> EndSent) /\ (MetaSent' <=> MetaSent) /\ (Unrequested' <=> Unrequested)
        /\ Heard' = Heard /\ Claims' = Claims /\ (Live' <=> Live) /\ Seen' = Seen /\ (HostOn' <=> HostOn)
    BY <2>1 DEF Sent, Charged, Sender, EndSent, MetaSent, Unrequested, Heard, Seen, Claims, Pending, Answering,
                Live, HostOn
  <2>3. Rounded' = Rounded
    BY <2>2 DEF Rounded
  <2>4. Upper' = Upper
    BY <2>2, <2>3 DEF Upper
  <2>5. Ceiling' = Ceiling
    BY <2>2, <2>4 DEF Ceiling
  <2>6. (Replying' <=> Replying) /\ (CutOff' <=> CutOff)
    BY <2>1, <2>2, <2>5 DEF Replying, CutOff, Told, Owes
  <2> QED
    BY <2>1, <2>2, <2>6 DEF CalmInv, Calm
<1>3. CASE kind = "push" /\ U!HostTask
  <2>1. PushShape
    BY <1>3 DEF WholeInv, PushInv
  <2> QED
    BY <1>1, <1>3, <2>1, UHostSends, UHostMoves, UHostAsks, PushSendsCalm
<1>4. CASE kind = "push" /\ U!DevTask
  BY <1>1, <1>4, PushReceivesCalm
<1>5. CASE kind = "push" /\ U!Connection
  BY <1>1, <1>5, ConnectionCalm
<1>6. CASE kind = "pull"
  BY <1>1, <1>6 DEF CalmInv, RoomInv, ReceiverFits
<1> QED
  BY <1>2, <1>3, <1>4, <1>5, <1>6, StreamCases

LEMMA RoomAlways == ASSUME FullChunks PROVE StreamsSpec => []RoomInv
<1>1. StreamsSpec => []WholeInv
  BY WholeInit, WholeNext, LeftAlways, TypesAlways, SafetyPart, PTL
<1>2. StreamsSpec => []FlowInv
  BY FlowInit, FlowNext, LeftAlways, TypesAlways, SafetyPart, PTL
<1>3. StreamTypes /\ LeftInv /\ WholeInv /\ FlowInv /\ RoomInv /\ [StreamsNext]_streamsVars => RoomInv'
  BY RoomNext
<1> QED
  BY <1>1, <1>2, <1>3, RoomInit, LeftAlways, TypesAlways, SafetyPart, PTL

(***************************************************************************)
(* The window keeps a transfer out of the overflow of either receive queue *)
(* (ROUTE_CAPACITY on the host, STREAM_ROUTE_CAPACITY on the device), when *)
(* a read of the file fills its buffer until the end and the queue has room*)
(* for a window of chunks and one frame more, whatever fails and whenever  *)
(* the connection breaks.                                                  *)
(***************************************************************************)
THEOREM NeverOverflows == ASSUME FullChunks PROVE StreamsSpec => []NoOverflow
<1>1. StreamsSpec => []WholeInv
  BY WholeInit, WholeNext, LeftAlways, TypesAlways, SafetyPart, PTL
<1>2. StreamsSpec => []FlowInv
  BY FlowInit, FlowNext, LeftAlways, TypesAlways, SafetyPart, PTL
<1>3. StreamTypes /\ LeftInv /\ WholeInv /\ FlowInv /\ RoomInv /\ RoomInv' /\ CalmInv /\ [StreamsNext]_streamsVars
      => CalmInv'
  BY CalmNext
<1>4. StreamsSpec => []CalmInv
  BY <1>1, <1>2, <1>3, RoomAlways, CalmInit, LeftAlways, TypesAlways, SafetyPart, PTL
<1>5. RoomInv /\ CalmInv => NoOverflow
  BY DEF RoomInv, ReceiverFits, CalmInv, NoOverflow, U!NoOverflow
<1> QED
  BY <1>4, <1>5, RoomAlways, PTL
================================================================================
