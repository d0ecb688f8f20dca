--------------------------------- MODULE Proxy ---------------------------------
(***************************************************************************)
(* Starting port forwards and reverse tunnels over one session: the host's *)
(* start_forward and start_reverse, the device's handler of the request,   *)
(* its table of proxies, and the teardown of the session that races it.    *)
(* Connections through a tunnel are tasks of their own: module Tunnel.     *)
(***************************************************************************)
EXTENDS Integers, FiniteSets

CONSTANTS
    Tunnels,    \* requests to start a tunnel
    Ports,      \* the ports a user may name to listen on; 0 leaves it to the system
    Targets,    \* the ports a connection is passed on to
    MaxDeaf     \* accept loops that end on an error, at most

\* A forward listens on the host and on any port of the device, a reverse on the
\* device, with a relay on the host.
Ids == [kind : {"forward", "reverse"}, port : Ports, target : Targets]
NoId == [kind |-> "none", port |-> 0, target |-> 0]

VARIABLES
    id,        \* what each request asks for, which is its id, once it is sent
    asked,     \* the host's request: "no", "sent", "ok", "failed"
    hostOpen,  \* requests that have their listener, or relay, on the host
    starting,  \* the device's handler: "no", "bind", "ack", "insert", "done"
    listening, \* requests whose listener runs on the device
    proxies,   \* the session's table: the last request of each id
    cancels,   \* requests whose stream is canceled
    answered,  \* "ok" or "error" written to the host, or ""
    session,   \* "up", "broken", "canceled", "over": the steps of the teardown
    deaf,      \* requests one of whose accept loops ended on an error
    late       \* requests put into the table after it was drained

vars == <<id, asked, hostOpen, starting, listening, proxies, cancels, answered,
          session, deaf, late>>

Init ==
    /\ id = [t \in Tunnels |-> NoId] /\ asked = [t \in Tunnels |-> "no"] /\ hostOpen = {}
    /\ starting = [t \in Tunnels |-> "no"]
    /\ listening = {} /\ proxies = {} /\ cancels = {} /\ deaf = {}
    /\ answered = [t \in Tunnels |-> ""] /\ session = "up" /\ late = {}

\* With port 0 two requests that listen at the same time may share their id.
Alike(t) == {u \in Tunnels : id[u] = id[t]}

\* A named port that a listener of another request already holds.
Taken(request, kind, held) ==
    /\ request.kind = kind /\ request.port # 0
    /\ \E u \in held : id[u].kind = kind /\ id[u].port = request.port

-----------------------------------------------------------------------------
(***************************************************************************)
(* The host.                                                               *)
(***************************************************************************)
\* The listener, or the relay that runs from now on, and the request; or the
\* port of a forward is in use, or no listener to be had.
Ask(t) ==
    /\ asked[t] = "no" /\ session = "up"
    /\ \/ \E request \in Ids :
            /\ ~Taken(request, "forward", hostOpen) /\ id' = [id EXCEPT ![t] = request]
            /\ asked' = [asked EXCEPT ![t] = "sent"] /\ hostOpen' = hostOpen \union {t}
       \/ asked' = [asked EXCEPT ![t] = "failed"] /\ UNCHANGED <<id, hostOpen>>
    /\ UNCHANGED <<starting, listening, proxies, cancels, answered, session, deaf, late>>

\* The acknowledgement.
Learns(t) ==
    /\ asked[t] = "sent" /\ answered[t] = "ok" /\ asked' = [asked EXCEPT ![t] = "ok"]
    /\ UNCHANGED <<id, hostOpen, starting, listening, proxies, cancels, answered, session,
                   deaf, late>>

\* An error, or the end of the session: a forward's listener is dropped, a
\* reverse's relay is not.
GivesUp(t) ==
    /\ asked[t] = "sent" /\ (answered[t] = "error" \/ session # "up")
    /\ asked' = [asked EXCEPT ![t] = "failed"]
    /\ hostOpen' = IF id[t].kind = "forward" THEN hostOpen \ {t} ELSE hostOpen
    /\ UNCHANGED <<id, starting, listening, proxies, cancels, answered, session, deaf, late>>

\* An accept loop on the host ends at the first error.  A forward's starts with
\* the acknowledgement.
HostDeaf(t) ==
    /\ t \in hostOpen /\ Cardinality(deaf) < MaxDeaf /\ (id[t].kind = "forward" => asked[t] = "ok")
    /\ hostOpen' = hostOpen \ {t} /\ deaf' = deaf \union {t}
    /\ UNCHANGED <<id, asked, starting, listening, proxies, cancels, answered, session, late>>

-----------------------------------------------------------------------------
(***************************************************************************)
(* The device's handler.                                                   *)
(***************************************************************************)
At(t, stage, next) == starting[t] = stage /\ starting' = [starting EXCEPT ![t] = next]
Says(t, what) == answered' = [answered EXCEPT ![t] = what]

Receive(t) ==
    /\ asked[t] = "sent" /\ session = "up" /\ At(t, "no", "bind")
    /\ UNCHANGED <<id, asked, hostOpen, listening, proxies, cancels, answered, session,
                   deaf, late>>

\* start_proxy binds and starts the accept loop, unless the stream is canceled,
\* the port of a reverse in use or no listener to be had.
Bind(t) ==
    /\ \/ /\ t \notin cancels /\ ~Taken(id[t], "reverse", listening)
          /\ At(t, "bind", "ack") /\ listening' = listening \union {t} /\ UNCHANGED answered
       \/ /\ At(t, "bind", "done") /\ UNCHANGED listening
          /\ IF t \in cancels THEN UNCHANGED answered ELSE Says(t, "error")
    /\ UNCHANGED <<id, asked, hostOpen, proxies, cancels, session, deaf, late>>

\* Forgetting to stop the listener when nobody hears of it.
AckOnly(t) ==
    /\ \/ t \notin cancels /\ At(t, "ack", "insert") /\ Says(t, "ok")
       \/ session # "up" /\ At(t, "ack", "done") /\ UNCHANGED answered
    /\ UNCHANGED <<id, asked, hostOpen, listening, proxies, cancels, session, deaf, late>>

\* The acknowledgement is written, as it still may be to a session that has
\* broken but not canceled its streams, or the listener stopped again.
Ack(t) ==
    /\ \/ t \notin cancels /\ At(t, "ack", "insert") /\ Says(t, "ok") /\ UNCHANGED listening
       \/ /\ session # "up" /\ At(t, "ack", "done")
          /\ listening' = listening \ {t} /\ UNCHANGED answered
    /\ UNCHANGED <<id, asked, hostOpen, proxies, cancels, session, deaf, late>>

\* One proxy for all requests: the one before is aborted.
InsertAlone(t) ==
    /\ At(t, "insert", "done") /\ proxies' = {t}
    /\ listening' = listening \ (proxies \ {t})
    /\ late' = IF session = "over" THEN late \union {t} ELSE late
    /\ UNCHANGED <<id, asked, hostOpen, cancels, answered, session, deaf>>

\* Into the table under its id, whether or not the session is still there; the
\* listener that had the id is aborted.
Insert(t) ==
    /\ At(t, "insert", "done") /\ proxies' = (proxies \ Alike(t)) \union {t}
    /\ listening' = listening \ (proxies \intersect Alike(t))
    /\ late' = IF session = "over" THEN late \union {t} ELSE late
    /\ UNCHANGED <<id, asked, hostOpen, cancels, answered, session, deaf>>

\* The accept loop ends at the first error; its entry stays in the table.
DeviceDeaf(t) ==
    /\ t \in listening /\ Cardinality(deaf) < MaxDeaf
    /\ listening' = listening \ {t} /\ deaf' = deaf \union {t}
    /\ UNCHANGED <<id, asked, hostOpen, starting, proxies, cancels, answered, session, late>>

-----------------------------------------------------------------------------
(***************************************************************************)
(* The end of serve.                                                       *)
(***************************************************************************)
Break ==
    /\ session = "up" /\ session' = "broken"
    /\ UNCHANGED <<id, asked, hostOpen, starting, listening, proxies, cancels, answered,
                   deaf, late>>
CancelAll ==
    /\ session = "broken" /\ session' = "canceled"
    /\ cancels' = {t \in Tunnels : starting[t] \notin {"no", "done"}}
    /\ UNCHANGED <<id, asked, hostOpen, starting, listening, proxies, answered, deaf, late>>
DrainProxies ==
    /\ session = "canceled" /\ session' = "over"
    /\ listening' = listening \ proxies /\ proxies' = {}
    /\ UNCHANGED <<id, asked, hostOpen, starting, cancels, answered, deaf, late>>

Next ==
    \/ Break \/ CancelAll \/ DrainProxies
    \/ \E t \in Tunnels : \/ Ask(t) \/ Learns(t) \/ GivesUp(t) \/ HostDeaf(t)
                         \/ Receive(t) \/ Bind(t) \/ Ack(t) \/ Insert(t) \/ DeviceDeaf(t)
-----------------------------------------------------------------------------
(***************************************************************************)
(* Correctness.                                                            *)
(***************************************************************************)
\* As long as the session is up and no accept loop of its id has failed, a
\* tunnel whose start was reported has its listener on the host, and the device
\* one of its own where the user named a port.  Requests for any port that
\* share an id are told so each, but the device keeps one listener for them
\* all: the later start takes the listener from the earlier (Insert).
ToldMeansListening ==
    session = "up" =>
        \A t \in Tunnels :
            asked[t] = "ok" /\ Alike(t) \intersect deaf = {} =>
                /\ t \in hostOpen
                /\ IF id[t].port = 0 THEN Alike(t) \intersect listening # {} ELSE t \in listening

\* When a session is over and its handlers are done, no listener of it runs on
\* the device but those whose acknowledgement was out before the teardown and
\* whose place in the table was taken after it.
ListenersEnd ==
    (session = "over" /\ \A t \in Tunnels : starting[t] \in {"no", "done"})
    => /\ listening \subseteq late
       /\ \A t \in listening : answered[t] = "ok"
=============================================================================
