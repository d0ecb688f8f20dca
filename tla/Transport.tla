------------------------------- MODULE Transport -------------------------------
(***************************************************************************)
(* The host's connection to a device from the bytes to the streams: how    *)
(* frames are written to and read from the socket (Records), and what the  *)
(* reader task does with a frame that it has read (HostRoutes).  They meet *)
(* only in whole frames, one after the other, so a behaviour is about the  *)
(* one or the other.                                                       *)
(***************************************************************************)
EXTENDS HostRoutes, Sequences

CONSTANTS
    Layers,                                         \* of "records", "routes"
    Payloads, HeaderLen, RecordLen, LengthLen, Room \* of Records

ASSUME TransportAssumption ==
    /\ Layers \subseteq {"records", "routes"}
    /\ Payloads \subseteq Nat /\ Payloads # {}
    /\ {HeaderLen, RecordLen, LengthLen, Room} \subseteq Nat \ {0}

VARIABLES layer, secure, frames, sender, bytes, receiver, got, intact

recordVars == <<secure, frames, sender, bytes, receiver, got, intact>>
transportVars == <<layer, vars, recordVars>>

R == INSTANCE Records

TransportInit ==
    /\ layer \in Layers /\ Init /\ R!RecordsInit
    /\ layer = "routes" => secure /\ \A f \in DOMAIN frames : frames[f] = CHOOSE n \in Payloads : TRUE

RecordStep(step) == layer = "records" /\ step /\ UNCHANGED <<layer, vars>>
RouteStep(step)  == layer = "routes" /\ step /\ UNCHANGED <<layer, recordVars>>

TransportNext == RecordStep(R!RecordsNext) \/ RouteStep(Next)

\* The fairness of HostRoutes; a socket takes bytes while there is room.
TransportSpec ==
    /\ TransportInit /\ [][TransportNext]_transportVars
    /\ \A s \in Streams : WF_transportVars(RouteStep(SlotStep(s)))
    /\ WF_transportVars(RouteStep(ReaderStep)) /\ WF_transportVars(RouteStep(ReaderSeesClosed))
    /\ \A a \in Closing : /\ WF_transportVars(RouteStep(Signal(a)))
                         /\ WF_transportVars(RouteStep(Clear(a)))
    /\ WF_transportVars(RecordStep(R!RecordWriter)) /\ WF_transportVars(RecordStep(R!RecordReader))
-----------------------------------------------------------------------------
\* Frames are read whole and in order, and all of them if the connection holds.
FramesArrive == layer = "records" => []R!FramesWhole /\ <>R!AllRead
=============================================================================
