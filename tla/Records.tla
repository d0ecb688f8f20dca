-------------------------------- MODULE Records --------------------------------
(***************************************************************************)
(* How frames cross one direction of a connection.  In secure mode a frame *)
(* is cut into Noise records, each in a packet of its own with its length  *)
(* in front; in insecure mode the frame itself is what is written.  Writes *)
(* take as much as the socket has room for, reads wait for all they need.  *)
(*                                                                         *)
(* A byte is named by what it is of and where; the cipher is a library and *)
(* adds nothing but its own length.                                        *)
(***************************************************************************)
EXTENDS Integers, Sequences

CONSTANTS
    Payloads,    \* payload lengths to try
    HeaderLen,   \* HEADER_LEN
    RecordLen,   \* NOISE_CHUNK
    LengthLen,   \* bytes of a packet's length
    Room         \* what the sockets hold between the two ends

VARIABLES
    secure, frames,  \* fixed: the mode, the payload lengths of the frames sent
    sender,  \* the frame and the offset within it of what comes next; the packet
             \* that is being written, as `head' and `body', and how far
    bytes,   \* in the sockets
    receiver,  \* read_exact: what it waits for, "length" or `need' bytes, and what
             \* it has; the frame put together so far
    got,     \* the frames that were read
    intact   \* has the connection not been cut?

recordVars == <<secure, frames, sender, bytes, receiver, got, intact>>

Least(a, b) == IF a < b THEN a ELSE b
Header(f)  == [i \in 1..HeaderLen |-> <<"header", f, i>>]
Payload(f) == [i \in 1..frames[f] |-> <<"payload", f, i>>]
Flag(b)    == <<"flag", b, 0>>
Length(n)  == [i \in 1..LengthLen |-> <<"length", n, i>>]
Total(f)   == HeaderLen + frames[f]

FrontLen  == IF secure THEN LengthLen ELSE HeaderLen
NextFrame == [at |-> "front", need |-> FrontLen, taken |-> <<>>, header |-> <<>>, payload |-> <<>>]

RecordsInit ==
    /\ secure \in BOOLEAN /\ frames \in [1..2 -> Payloads]
    /\ sender = [frame |-> 1, offset |-> 0, head |-> <<>>, body |-> <<>>, headAt |-> 0, bodyAt |-> 0]
    /\ bytes = <<>> /\ receiver = NextFrame /\ got = <<>> /\ intact = TRUE

-----------------------------------------------------------------------------
(***************************************************************************)
(* The writer.                                                             *)
(***************************************************************************)
HeadLeft == Len(sender.head) - sender.headAt
BodyLeft == Len(sender.body) - sender.bodyAt
Idle     == intact /\ HeadLeft = 0 /\ BodyLeft = 0 /\ sender.frame <= Len(frames)

Packet(head, body, frame, offset) ==
    sender' = [frame |-> frame, offset |-> offset, head |-> head, body |-> body,
               headAt |-> 0, bodyAt |-> 0]

\* n bytes of a frame from an offset on: of its header and of its payload.
Piece(f, offset, n) ==
    LET used == IF offset < HeaderLen THEN Least(n, HeaderLen - offset) ELSE 0
        from == IF offset < HeaderLen THEN 0 ELSE offset - HeaderLen
    IN  SubSeq(Header(f), offset + 1, offset + used) \o SubSeq(Payload(f), from + 1, from + n - used)

\* Taking the first record that is not full for the last.
CutShortFinal ==
    LET f == sender.frame
        n == Least(Total(f) - sender.offset, RecordLen)
    IN  /\ secure /\ Idle
        /\ IF n < RecordLen
             THEN Packet(Length(n + 1), <<Flag(1)>> \o Piece(f, sender.offset, n), f + 1, 0)
             ELSE Packet(Length(n + 1), <<Flag(0)>> \o Piece(f, sender.offset, n), f, sender.offset + n)
        /\ UNCHANGED <<secure, frames, bytes, receiver, got, intact>>

\* The last record, and no other, is marked as final.
CutRecord ==
    LET f == sender.frame
        n == Least(Total(f) - sender.offset, RecordLen)
        final == sender.offset + n = Total(f)
    IN  /\ secure /\ Idle
        /\ IF final THEN Packet(Length(n + 1), <<Flag(1)>> \o Piece(f, sender.offset, n), f + 1, 0)
                    ELSE Packet(Length(n + 1), <<Flag(0)>> \o Piece(f, sender.offset, n), f, sender.offset + n)
        /\ UNCHANGED <<secure, frames, bytes, receiver, got, intact>>

WholeFrame ==
    /\ ~secure /\ Idle
    /\ Packet(Header(sender.frame), Payload(sender.frame), sender.frame + 1, 0)
    /\ UNCHANGED <<secure, frames, bytes, receiver, got, intact>>

\* Forgetting that a vectored write may have taken some of the body too.
WritesHeadOnly(n) ==
    /\ intact /\ n <= HeadLeft + BodyLeft /\ n <= Room - Len(bytes)
    /\ sender' = [sender EXCEPT !.headAt = @ + Least(n, HeadLeft),
                                !.bodyAt = IF HeadLeft = 0 THEN @ + n ELSE @]
    /\ bytes' = bytes \o SubSeq(SubSeq(sender.head, sender.headAt + 1, Len(sender.head))
                                  \o SubSeq(sender.body, sender.bodyAt + 1, Len(sender.body)), 1, n)
    /\ UNCHANGED <<secure, frames, receiver, got, intact>>

\* A vectored write of both parts, or a write of the rest of the body, takes n bytes.
Writes(n) ==
    /\ intact /\ n <= HeadLeft + BodyLeft /\ n <= Room - Len(bytes)
    /\ sender' = [sender EXCEPT !.headAt = @ + Least(n, HeadLeft),
                                !.bodyAt = @ + n - Least(n, HeadLeft)]
    /\ bytes' = bytes \o SubSeq(SubSeq(sender.head, sender.headAt + 1, Len(sender.head))
                                  \o SubSeq(sender.body, sender.bodyAt + 1, Len(sender.body)), 1, n)
    /\ UNCHANGED <<secure, frames, receiver, got, intact>>

-----------------------------------------------------------------------------
(***************************************************************************)
(* The reader.                                                             *)
(***************************************************************************)
Missing == receiver.need - Len(receiver.taken)
Has(at) == receiver.at = at /\ Missing = 0
Is(header, f) == f \in 1..Len(frames) /\ header = Header(f)
Fails == receiver' = [receiver EXCEPT !.at = "failed"] /\ UNCHANGED got

ReadsSome ==
    LET n == Least(Missing, Len(bytes))
    IN  /\ receiver.at # "failed" /\ n > 0
        /\ receiver' = [receiver EXCEPT !.taken = @ \o SubSeq(bytes, 1, n)]
        /\ bytes' = SubSeq(bytes, n + 1, Len(bytes))
        /\ UNCHANGED <<secure, frames, sender, got, intact>>

\* The length of a packet, or the header of a frame.
FrontRead ==
    /\ Has("front")
    /\ LET first == receiver.taken[1]
           value == first[2]
           ok    == IF secure THEN receiver.taken = Length(value) ELSE Is(receiver.taken, value)
           need  == IF secure THEN value ELSE frames[value]
       IN  IF ok THEN /\ receiver' = [receiver EXCEPT !.at = "body", !.need = need, !.taken = <<>>,
                                        !.header = IF secure THEN @ ELSE receiver.taken]
                      /\ UNCHANGED got
                 ELSE Fails
    /\ UNCHANGED <<secure, frames, sender, bytes, intact>>

Returns(header, payload) ==
    /\ got' = Append(got, [header |-> header, payload |-> payload])
    /\ receiver' = NextFrame

\* read_frame of insecure mode.
PayloadRead ==
    /\ ~secure /\ Has("body") /\ Returns(receiver.header, receiver.taken)
    /\ UNCHANGED <<secure, frames, sender, bytes, intact>>

\* A record: what the header still lacks, then payload.  It is an error to have
\* more payload than declared, all of it before the final record, or less at it.
RecordRead ==
    LET record  == Tail(receiver.taken)
        lacks   == Least(HeaderLen - Len(receiver.header), Len(record))
        header  == receiver.header \o SubSeq(record, 1, lacks)
        payload == receiver.payload \o SubSeq(record, lacks + 1, Len(record))
        known   == Len(header) = HeaderLen
        final   == receiver.taken[1] = Flag(1)
        ok == /\ known => (Is(header, header[1][2]) /\ Len(payload) <= frames[header[1][2]])
              /\ final => known
              /\ known => (final <=> Len(payload) = frames[header[1][2]])
    IN  /\ secure /\ Has("body")
        /\ CASE ~ok -> Fails
             [] ok /\ final -> Returns(header, payload)
             [] OTHER -> /\ receiver' = [NextFrame EXCEPT !.header = header, !.payload = payload]
                         /\ UNCHANGED got
        /\ UNCHANGED <<secure, frames, sender, bytes, intact>>

\* The end of the connection in the middle of a read.
EndRead ==
    /\ ~intact /\ bytes = <<>> /\ receiver.at # "failed" /\ Missing > 0
    /\ Fails /\ UNCHANGED <<secure, frames, sender, bytes, intact>>

\* What was in the sockets arrives in part.
IsCut ==
    /\ intact /\ intact' = FALSE
    /\ \E n \in 0..Len(bytes) : bytes' = SubSeq(bytes, 1, n)
    /\ UNCHANGED <<secure, frames, sender, receiver, got>>

RecordWriter == CutRecord \/ WholeFrame \/ \E n \in 1..Room : Writes(n)
RecordReader == ReadsSome \/ FrontRead \/ PayloadRead \/ RecordRead \/ EndRead
RecordsNext  == RecordWriter \/ RecordReader \/ IsCut
-----------------------------------------------------------------------------
(***************************************************************************)
(* Correctness.                                                            *)
(***************************************************************************)
\* Whatever the payload lengths, and however the writes and the records cut
\* them, the frames are read whole and in order; the reader gives up on nothing
\* but a connection that was cut.
FramesWhole ==
    /\ Len(got) <= Len(frames)
    /\ \A f \in 1..Len(got) : got[f] = [header |-> Header(f), payload |-> Payload(f)]
    /\ receiver.at = "failed" => ~intact

\* All of them, when the connection holds.
AllRead == ~intact \/ Len(got) = Len(frames)
=============================================================================
