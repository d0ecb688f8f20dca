------------------------------ MODULE Handshake ------------------------------
(***************************************************************************)
(* One connection between the host and a device from the TCP connection to *)
(* the session: the security banner, the client's hello and the decision,  *)
(* the Noise exchange of secure mode, Hello and HelloAck, and what the two *)
(* ends conclude about protocol version and capabilities.  The end that    *)
(* accepted the connection speaks first: the device in inbound mode, the   *)
(* host in outbound mode.                                                  *)
(*                                                                         *)
(* The two ends may be different builds of the programs: a build has a     *)
(* version and capabilities.  Noise (a library) succeeds when both ends    *)
(* have the same secret and prologue.  There is one host and one device,   *)
(* so the identity checks, which compare a peer with itself, are left out. *)
(***************************************************************************)
EXTENDS Integers, FiniteSets

CONSTANTS
    Ways,       \* who dials: "inbound" (the host), "outbound" (the device)
    Builds,     \* pairs of builds to connect, [host |-> build, device |-> build]
    Modes,      \* SecurityMode: "secure", "insecure"
    Keys,       \* shared secrets
    NoKey,
    MaxFaults   \* connections lost, and timeouts while the peer is there

Ends == {"host", "device"}
Other(e) == IF e = "host" THEN "device" ELSE "host"
Features == {"core", "heartbeat", "cancel", "flow"}
IsBuild(b) == /\ DOMAIN b = {"major", "minor", "caps"} /\ b.caps \subseteq Features
              /\ b.major \in Nat /\ b.minor \in Nat

ASSUME HandshakeAssumption ==
    /\ Ways \subseteq {"inbound", "outbound"} /\ Modes \subseteq {"secure", "insecure"}
    /\ \A p \in Builds : DOMAIN p = Ends /\ \A e \in Ends : IsBuild(p[e])
    /\ NoKey \notin Keys /\ MaxFaults \in Nat

VARIABLES
    way, build, mode,  \* fixed: who dials, each end's build and security mode
    key,       \* the secret each end has stored for the other
    at,        \* where each end is
    mail,      \* the packet that waits to be read by each end
    used,      \* the secret each end took for this connection
    version,   \* what each end knows the connection's protocol version to be
    features,  \* ... and what it keeps of the other end's capabilities
    lost,      \* the link is dead, and neither end is told
    faults

sides == <<way, build, mode>>
link  == <<lost, faults>>
hsVars == <<way, build, mode, key, at, mail, used, version, features, lost, faults>>

Acceptor == IF way = "inbound" THEN "device" ELSE "host"
Finished == {"none", "established", "failed"}
Nothing  == [type |-> "nothing"]
NoVersion == <<0, 0>>

HsInit(w, p, m) ==
    /\ way = w /\ build = p /\ mode = m
    /\ at = [e \in Ends |-> "none"] /\ mail = [e \in Ends |-> Nothing]
    /\ used = [e \in Ends |-> NoKey]
    /\ version = [e \in Ends |-> NoVersion] /\ features = [e \in Ends |-> {}]
    /\ lost = FALSE /\ faults = 0

-----------------------------------------------------------------------------
VERSION(e) == <<build[e].major, build[e].minor>>
Compatible(e, v) == v[1] = VERSION(e)[1]

\* The build's own version, whatever the peer's minor is.
OwnVersion(e, v) == VERSION(e)

\* negotiated_version: the lower of both minors.
Negotiated(e, v) == IF v[2] < VERSION(e)[2] THEN v ELSE VERSION(e)

\* The host keeps of what the device says what is in its own ALL; the device keeps
\* what the host says, and uses what is in its own capabilities too.
Kept(e, caps) == IF e = "host" THEN caps \intersect build[e].caps ELSE caps
Usable(e) == IF e = "host" THEN features[e] ELSE build[e].caps \intersect features[e]

Supports(e, feature, minor) ==
    version[e][2] >= minor /\ feature \in Usable(e)
Cancels(e)    == Supports(e, "cancel", 1)
Flows(e)      == Supports(e, "flow", 2)
Heartbeats(e) == "heartbeat" \in Usable(e)

-----------------------------------------------------------------------------
(***************************************************************************)
(* One packet is read and the answer sent.  A packet for an end that has   *)
(* closed its socket, or over a dead link, is gone.                        *)
(***************************************************************************)
Delivered(box, e, packet) ==
    [box EXCEPT ![e] = IF lost \/ at[e] \in Finished THEN Nothing ELSE packet]

Answer(e, packet) ==
    mail' = Delivered([mail EXCEPT ![e] = Nothing], Other(e), packet)
Silence(e) == mail' = [mail EXCEPT ![e] = Nothing]
Moves(e, pc) == at' = [at EXCEPT ![e] = pc]

Has(e, pc, type) == at[e] = pc /\ mail[e].type = type
Hears(e, pc, type) == Has(e, pc, type) /\ UNCHANGED <<sides, key, link>>

\* The connection is there; the accepting end sends its banner.
Connected ==
    /\ at' = [e \in Ends |-> IF e = Acceptor THEN "client" ELSE "banner"]
    /\ mail' = [e \in Ends |-> IF e = Acceptor THEN Nothing
                  ELSE [type |-> "banner", version |-> VERSION(Acceptor), mode |-> mode[Acceptor]]]
    /\ used' = [e \in Ends |-> NoKey]
    /\ version' = [e \in Ends |-> NoVersion] /\ features' = [e \in Ends |-> {}]
    /\ lost' = FALSE /\ UNCHANGED <<sides, key, faults>>

\* The dialling end reads the banner.  The host looks for the device's secret
\* before it answers, the device when it has been accepted.
ReadBanner(e) ==
    LET packet == mail[e]
        fits   == /\ Compatible(e, packet.version) /\ packet.mode = mode[e]
                  /\ (e = "host" /\ mode[e] = "secure") => key[e] # NoKey
    IN  /\ Hears(e, "banner", "banner")
        /\ IF fits
             THEN /\ Moves(e, "decision")
                  /\ Answer(e, [type |-> "client", version |-> VERSION(e), mode |-> mode[e]])
             ELSE Moves(e, "failed") /\ Silence(e)
        /\ version' = [version EXCEPT ![e] = Negotiated(e, packet.version)]
        /\ used' = [used EXCEPT ![e] = IF e = "host" THEN key[e] ELSE NoKey]
        /\ UNCHANGED features

\* The accepting end decides, in this order, on the version, the mode and the
\* secret; a refusal is sent and the connection given up.
Decide(e) ==
    LET packet   == mail[e]
        accepted == /\ Compatible(e, packet.version) /\ packet.mode = mode[e]
                    /\ mode[e] = "secure" => key[e] # NoKey
    IN  /\ Hears(e, "client", "client")
        /\ Answer(e, [type |-> "decision", accepted |-> accepted])
        /\ Moves(e, IF accepted THEN IF mode[e] = "secure" THEN "noise" ELSE "hello"
                                ELSE "failed")
        /\ version' = [version EXCEPT ![e] = Negotiated(e, packet.version)]
        /\ used' = [used EXCEPT ![e] = IF mode[e] = "secure" THEN key[e] ELSE NoKey]
        /\ UNCHANGED features

Hello(e, type) == [type |-> type, version |-> VERSION(e), caps |-> build[e].caps]

\* The dialling end is accepted: the first Noise message, or Hello in the clear.
ReadDecision(e) ==
    LET secret == IF e = "host" THEN used[e] ELSE key[e]
        goesOn == mail[e].accepted /\ (mode[e] = "secure" => secret # NoKey)
    IN  /\ Hears(e, "decision", "decision")
        /\ \/ ~goesOn /\ Moves(e, "failed") /\ Silence(e)
           \/ /\ goesOn /\ mode[e] = "secure" /\ Moves(e, "noise")
              /\ Answer(e, [type |-> "noise", secret |-> secret, version |-> version[e]])
           \/ /\ goesOn /\ mode[e] # "secure" /\ Moves(e, "ack")
              /\ Answer(e, Hello(e, "hello"))
        /\ used' = [used EXCEPT ![e] = IF mode[e] = "secure" THEN secret ELSE NoKey]
        /\ UNCHANGED <<version, features>>

\* noise_responder going on whatever the first message was made with.
RespondAnyway(e) ==
    /\ Hears(e, "noise", "noise") /\ e = Acceptor
    /\ Moves(e, "hello") /\ Answer(e, [type |-> "noise reply"])
    /\ UNCHANGED <<used, version, features>>

\* noise_responder: the first message is read with the own secret and prologue.
Respond(e) ==
    /\ Hears(e, "noise", "noise") /\ e = Acceptor
    /\ IF mail[e].secret = used[e] /\ mail[e].version = version[e]
         THEN Moves(e, "hello") /\ Answer(e, [type |-> "noise reply"])
         ELSE Moves(e, "failed") /\ Silence(e)
    /\ UNCHANGED <<used, version, features>>

\* noise_initiator is done: Hello is sent as the first frame.
Secured(e) ==
    /\ Hears(e, "noise", "noise reply")
    /\ Moves(e, "ack") /\ Answer(e, Hello(e, "hello"))
    /\ UNCHANGED <<used, version, features>>

\* What Hello and HelloAck say is what counts from here on.
Concludes(e) ==
    /\ version' = [version EXCEPT ![e] = Negotiated(e, mail[e].version)]
    /\ features' = [features EXCEPT ![e] = Kept(e, mail[e].caps)]
    /\ UNCHANGED used
Talks(e) == Compatible(e, mail[e].version) /\ "core" \in Kept(e, mail[e].caps)

\* The accepting end answers Hello, and has a session.
ReadHello(e) ==
    /\ Hears(e, "hello", "hello")
    /\ IF Talks(e) THEN Moves(e, "established") /\ Answer(e, Hello(e, "ack"))
                   ELSE Moves(e, "failed") /\ Silence(e)
    /\ Concludes(e)

\* So has the dialling end with the answer.
ReadAck(e) ==
    /\ Hears(e, "ack", "ack")
    /\ Moves(e, IF Talks(e) THEN "established" ELSE "failed") /\ Silence(e)
    /\ Concludes(e)

-----------------------------------------------------------------------------
(***************************************************************************)
(* Ends.                                                                   *)
(***************************************************************************)
Open(e) == at[e] \notin {"none", "failed"}
Gives(e) == /\ Moves(e, "failed") /\ Silence(e)
            /\ UNCHANGED <<sides, key, used, version, features>>

\* Seeing the end of the connection during the handshake only.
HangsUpEarly(e) ==
    /\ at[e] \notin Finished /\ ~Open(Other(e)) /\ ~lost
    /\ Gives(e) /\ UNCHANGED link

\* A read meets the end of the connection (or a write that it is reset), during
\* the handshake or in the session.
HangsUp(e) ==
    /\ Open(e) /\ ~Open(Other(e)) /\ ~lost
    /\ Gives(e) /\ UNCHANGED link

\* A handshake that only the host limits.
TimesOutOnHost(e) ==
    /\ e = "host" /\ at[e] \notin Finished
    /\ lost \/ faults < MaxFaults
    /\ faults' = IF lost THEN faults ELSE faults + 1
    /\ Gives(e) /\ UNCHANGED lost

\* The ten seconds for the handshake are over: free over a dead link, a fault
\* where the peer was only slow.
TimesOut(e) ==
    /\ at[e] \notin Finished
    /\ lost \/ faults < MaxFaults
    /\ faults' = IF lost THEN faults ELSE faults + 1
    /\ Gives(e) /\ UNCHANGED lost

\* The host misses its pings, the device hears nothing for 45 seconds.
GoesSilent(e) ==
    /\ at[e] = "established" /\ lost /\ Heartbeats(e)
    /\ Gives(e) /\ UNCHANGED link

\* The phone leaves the network.
LinkDies ==
    /\ ~lost /\ faults < MaxFaults /\ \E e \in Ends : Open(e)
    /\ lost' = TRUE /\ faults' = faults + 1
    /\ mail' = [e \in Ends |-> Nothing]
    /\ UNCHANGED <<sides, key, at, used, version, features>>

EndStep(e) ==
    \/ ReadBanner(e) \/ Decide(e) \/ ReadDecision(e) \/ Respond(e) \/ Secured(e)
    \/ ReadHello(e) \/ ReadAck(e) \/ HangsUp(e) \/ GoesSilent(e)

HsStep == (\E e \in Ends : EndStep(e) \/ TimesOut(e)) \/ LinkDies

-----------------------------------------------------------------------------
(***************************************************************************)
(* Correctness.                                                            *)
(***************************************************************************)
Both(e) == at[e] = "established" /\ at[Other(e)] = "established" /\ ~lost

\* Both ends of a session came to the same protocol version, the same features
\* and the same secret, although each computed them by itself, from packets of
\* a build it does not know, and with rules written twice.
SessionsAgree ==
    Both("host") =>
        /\ version["host"] = version["device"] /\ used["host"] = used["device"]
        /\ Cancels("host") = Cancels("device") /\ Flows("host") = Flows("device")
        /\ Heartbeats("host") = Heartbeats("device")

\* Nobody has a session, not for a moment, with a peer of another major version
\* or another mode, or in secure mode with one that does not have the secret.
\* The accepting end goes first: it has its session before the peer reads the ack.
SessionsAreWanted ==
    \A e \in Ends : (at[e] = "established" /\ at[Other(e)] \in {"ack", "established"} /\ ~lost) =>
        /\ VERSION("host")[1] = VERSION("device")[1] /\ mode["host"] = mode["device"]
        /\ used["host"] = used["device"] /\ (mode[e] = "secure" => used[e] # NoKey)
=============================================================================
