---------------------------- MODULE ServicesProofs ----------------------------
(***************************************************************************)
(* What is proved of the clipboard by itself holds of Services: each of its*)
(* steps is a step of the clipboard's, or leaves it alone.  Commands,      *)
(* shells, tunnels and tunneled connections are proved about here.  What   *)
(* one end has sent and the other has not yet seen is counted in the       *)
(* queues between them.                                                    *)
(***************************************************************************)
EXTENDS Services, FiniteSetTheorems, SequenceTheorems, TLAPS

CP == INSTANCE ClipboardProofs

\* The clipboard of Services is that of the proofs.
LEMMA SameClipboardStep == C!Next => CP!Next
<1>1. \A r \in Requests : C!Serve(r) => CP!Serve(r)
  BY DEF C!Serve, C!Begin, C!Answered, C!Replied, C!GiveUp, C!Stop, C!To, C!Release, C!Nobody,
         CP!Serve, CP!Begin, CP!Answered, CP!Replied, CP!GiveUp, CP!Stop, CP!To, CP!Release, CP!Nobody
<1>2. \A r \in Requests : C!Lock(r) \/ C!Cancel(r) => CP!Lock(r) \/ CP!Cancel(r)
  BY DEF C!Lock, C!Cancel, C!To, C!Nobody, CP!Lock, CP!Cancel, CP!To, CP!Nobody
<1>3. C!HelperAnswers \/ C!HelperExits => CP!HelperAnswers \/ CP!HelperExits
  BY DEF C!HelperAnswers, C!HelperExits, CP!HelperAnswers, CP!HelperExits
<1> QED
  BY <1>1, <1>2, <1>3 DEF C!Next, CP!Next

LEMMA FollowsClipboard == Spec => CP!Spec
<1>1. Init => CP!Init
  BY DEF Init, C!Init, CP!Init, C!Nobody, CP!Nobody
<1>2. [Next]_vars => [CP!Next]_(CP!vars)
  BY SameClipboardStep
     DEF Next, vars, Exec, Pty, Clipboard, Proxy, Tunnel, clipboardVars, CP!vars
<1> QED
  BY <1>1, <1>2, PTL DEF Spec, CP!Spec

-----------------------------------------------------------------------------
\* A clipboard request is given its own answer or none, for any number of
\* requests, whatever the helper does and whoever gives up when.
THEOREM OwnAnswers ==
  ASSUME "nobody" \notin Requests
  PROVE  Spec => []OwnAnswer
<1>1. CP!Spec => []CP!OwnAnswer
  <2>1. CP!Nobody \notin Requests
    BY DEF CP!Nobody
  <2> QED
    BY <2>1, CP!OwnAnswers
<1>2. CP!OwnAnswer => OwnAnswer
  BY DEF OwnAnswer, C!OwnAnswer, CP!OwnAnswer, C!Nobody, CP!Nobody
<1> QED
  BY <1>1, <1>2, FollowsClipboard, PTL

-----------------------------------------------------------------------------
(***************************************************************************)
(* Tunnels.  While the session is up no stream is canceled, the two ends   *)
(* are in step about each request, a port that was named has one listener, *)
(* and the listener of a request, or of the one that has taken its place   *)
(* in the table, stands (ProxyUp).  A listener belongs to a handler that is *)
(* not done or is in the table, and what was in the table when it was      *)
(* drained does not listen (ProxyOwned).                                   *)
(***************************************************************************)
Asked    == {"no", "sent", "ok", "failed"}
Starting == {"no", "bind", "ack", "insert", "done"}

ProxyTypes ==
    /\ id \in [Tunnels -> X!Ids \union {X!NoId}]
    /\ asked \in [Tunnels -> Asked] /\ starting \in [Tunnels -> Starting]
    /\ answered \in [Tunnels -> {"", "ok", "error"}]
    /\ session \in {"up", "broken", "canceled", "over"}
    /\ hostOpen \subseteq Tunnels /\ listening \subseteq Tunnels /\ proxies \subseteq Tunnels
    /\ cancels \subseteq Tunnels /\ deaf \subseteq Tunnels /\ late \subseteq Tunnels

\* How far the two ends are with a request while nothing is canceled.
InStep(t) ==
    /\ asked[t] = "no" => starting[t] = "no" /\ t \notin hostOpen \union deaf
    /\ asked[t] = "ok" => answered[t] = "ok"
    /\ asked[t] = "failed" => starting[t] \in {"no", "done"} /\ answered[t] # "ok"
    /\ answered[t] = "ok" => starting[t] \in {"insert", "done"}
    /\ answered[t] = "error" => starting[t] = "done"
    /\ asked[t] \in {"sent", "ok"} /\ t \notin deaf => t \in hostOpen
    /\ asked[t] \in {"sent", "ok"} => id[t] \in X!Ids

\* A named port has one listener on the host and one on the device.
Holds(t, role, held) == t \in held /\ id[t].kind = role /\ id[t].port # 0
OneHolder(role, held) ==
    \A t, u \in Tunnels :
        Holds(t, role, held) /\ Holds(u, role, held) /\ id[t].port = id[u].port => t = u

\* The listener of a request, or of the one that has taken its place in the table.
Stands(t) ==
    /\ starting[t] \in {"ack", "insert"} \/ t \in proxies => t \in listening \union deaf
    /\ starting[t] = "done" /\ answered[t] = "ok" => \E u \in proxies : id[u] = id[t]
    /\ answered[t] = "ok" /\ id[t].port # 0 /\ X!Alike(t) \intersect deaf = {} => t \in listening

ProxyUp ==
    session = "up" =>
        /\ cancels = {} /\ \A t \in Tunnels : InStep(t) /\ Stands(t)
        /\ OneHolder("forward", hostOpen) /\ OneHolder("reverse", listening)

ProxyOwned ==
    /\ \A t \in listening : starting[t] \in {"ack", "insert"} \/ t \in proxies
    /\ \A t \in proxies : starting[t] = "done" /\ answered[t] = "ok"
    /\ \A t \in Tunnels : starting[t] = "insert" => answered[t] = "ok"
    /\ session = "over" => proxies \subseteq late

LEMMA ProxyTypesStep == ProxyTypes /\ [X!Next]_proxyVars => ProxyTypes'
<1> SUFFICES ASSUME ProxyTypes, [X!Next]_proxyVars PROVE ProxyTypes'
  OBVIOUS
<1> USE DEF ProxyTypes, Asked, Starting
<1>1. ASSUME NEW t \in Tunnels, X!Ask(t) PROVE ProxyTypes'
  BY <1>1 DEF X!Ask
<1>2. ASSUME NEW t \in Tunnels, X!Learns(t) PROVE ProxyTypes'
  BY <1>2 DEF X!Learns
<1>3. ASSUME NEW t \in Tunnels, X!GivesUp(t) PROVE ProxyTypes'
  BY <1>3 DEF X!GivesUp
<1>4. ASSUME NEW t \in Tunnels, X!Receive(t) PROVE ProxyTypes'
  BY <1>4 DEF X!Receive, X!At
<1>5. ASSUME NEW t \in Tunnels, X!Bind(t) PROVE ProxyTypes'
  BY <1>5 DEF X!Bind, X!At, X!Says
<1>6. ASSUME NEW t \in Tunnels, X!Ack(t) PROVE ProxyTypes'
  BY <1>6 DEF X!Ack, X!At, X!Says
<1>7. ASSUME NEW t \in Tunnels, X!Insert(t) PROVE ProxyTypes'
  BY <1>7 DEF X!Insert, X!At
<1>8. CASE X!Break
  BY <1>8 DEF X!Break
<1>9. CASE X!CancelAll
  BY <1>9 DEF X!CancelAll
<1>10. CASE X!DrainProxies
  BY <1>10 DEF X!DrainProxies
<1>11. ASSUME NEW t \in Tunnels, X!HostDeaf(t) \/ X!DeviceDeaf(t) PROVE ProxyTypes'
  BY <1>11 DEF X!HostDeaf, X!DeviceDeaf
<1>12. CASE UNCHANGED proxyVars
  BY <1>12 DEF proxyVars
<1> QED
  BY <1>1, <1>2, <1>3, <1>4, <1>5, <1>6, <1>7, <1>8, <1>9, <1>10, <1>11, <1>12 DEF X!Next

LEMMA ProxyUpStep == ProxyTypes /\ ProxyOwned /\ ProxyUp /\ [X!Next]_proxyVars => ProxyUp'
<1> SUFFICES ASSUME ProxyTypes, ProxyOwned, ProxyUp, [X!Next]_proxyVars, session' = "up" PROVE ProxyUp'
  BY DEF ProxyUp
<1> USE DEF ProxyTypes
<1>0. ASSUME session = "up"
      PROVE  /\ cancels = {} /\ \A t \in Tunnels : InStep(t) /\ Stands(t)
             /\ OneHolder("forward", hostOpen) /\ OneHolder("reverse", listening)
  BY <1>0 DEF ProxyUp
<1>1. ASSUME NEW t \in Tunnels, X!Ask(t) PROVE ProxyUp'
  <2>1. /\ session = "up" /\ asked[t] = "no" /\ starting[t] = "no" /\ t \notin hostOpen \union deaf
        /\ t \notin listening \union proxies /\ answered[t] # "ok"
    BY <1>0, <1>1 DEF X!Ask, InStep, ProxyOwned
  <2>2. UNCHANGED <<starting, listening, proxies, cancels, answered, deaf>>
    BY <1>1 DEF X!Ask
  <2>3. /\ \A u \in Tunnels \ {t} : id'[u] = id[u] /\ asked'[u] = asked[u]
        /\ asked'[t] \in {"sent", "failed"} /\ hostOpen \subseteq hostOpen' /\ hostOpen' \subseteq hostOpen \union {t}
        /\ asked'[t] = "sent" => t \in hostOpen' /\ id'[t] \in X!Ids
    BY <1>1 DEF X!Ask
  <2>4. \A u \in Tunnels : InStep(u)'
    BY <1>0, <2>1, <2>2, <2>3 DEF InStep
  <2>5. ASSUME NEW u \in Tunnels PROVE Stands(u)'
    <3>1. CASE u = t
      BY <2>1, <2>2, <3>1 DEF Stands
    <3>2. CASE u # t
      <4>1. Stands(u) /\ id'[u] = id[u] /\ (\A v \in proxies : id'[v] = id[v])
        BY <1>0, <2>1, <2>3, <3>2
      <4>2. X!Alike(u) \intersect deaf \subseteq (X!Alike(u) \intersect deaf)'
        BY <2>1, <2>2, <2>3, <4>1 DEF X!Alike
      <4> QED
        BY <2>2, <4>1, <4>2 DEF Stands
    <3> QED
      BY <3>1, <3>2
  <2>6. OneHolder("reverse", listening)'
    <3>1. ASSUME NEW u \in Tunnels, Holds(u, "reverse", listening)'
          PROVE  Holds(u, "reverse", listening) /\ id'[u] = id[u]
      BY <2>1, <2>2, <2>3, <3>1 DEF Holds
    <3> QED
      BY <1>0, <2>1, <3>1 DEF OneHolder
  <2>7. OneHolder("forward", hostOpen)'
    <3>1. ASSUME NEW u \in Tunnels, u # t, Holds(u, "forward", hostOpen)'
          PROVE  Holds(u, "forward", hostOpen) /\ id'[u] = id[u]
      BY <2>3, <3>1 DEF Holds
    <3>2. ASSUME NEW u \in Tunnels, u # t, Holds(u, "forward", hostOpen)',
                 Holds(t, "forward", hostOpen)'
          PROVE  id'[u].port # id'[t].port
      <4>1. ~X!Taken(id'[t], "forward", hostOpen)
        BY <1>1, <2>1, <3>2 DEF X!Ask, Holds
      <4> QED
        BY <3>1, <3>2, <4>1 DEF X!Taken, Holds
    <3> QED
      BY <1>0, <2>1, <3>1, <3>2 DEF OneHolder
  <2> QED
    BY <1>0, <2>1, <2>2, <2>4, <2>5, <2>6, <2>7 DEF ProxyUp
<1>2. ASSUME NEW t \in Tunnels, X!Learns(t) PROVE ProxyUp'
  BY <1>0, <1>2 DEF X!Learns, ProxyUp, InStep, Stands, X!Alike, OneHolder, Holds
<1>3. ASSUME NEW t \in Tunnels, X!GivesUp(t) PROVE ProxyUp'
  BY <1>0, <1>3 DEF X!GivesUp, ProxyUp, InStep, Stands, X!Alike, OneHolder, Holds
<1>4. ASSUME NEW t \in Tunnels, X!Receive(t) PROVE ProxyUp'
  BY <1>0, <1>4 DEF X!Receive, X!At, ProxyUp, InStep, Stands, X!Alike, OneHolder, Holds
<1>5. ASSUME NEW t \in Tunnels, X!Bind(t) PROVE ProxyUp'
  <2>1. session = "up" /\ starting[t] = "bind" /\ t \notin proxies /\ answered[t] # "ok"
    BY <1>0, <1>5 DEF X!Bind, X!At, InStep, ProxyOwned
  <2>2. UNCHANGED <<id, asked, hostOpen, proxies, cancels, deaf>>
    BY <1>5 DEF X!Bind
  <2>3. \A u \in Tunnels \ {t} : starting'[u] = starting[u] /\ answered'[u] = answered[u]
    BY <1>5 DEF X!Bind, X!At, X!Says
  <2>4. \/ /\ starting'[t] = "ack" /\ answered' = answered
           /\ listening' = listening \union {t} /\ ~X!Taken(id[t], "reverse", listening)
        \/ starting'[t] = "done" /\ answered'[t] = "error" /\ listening' = listening
    BY <1>0, <1>5, <2>1 DEF X!Bind, X!At, X!Says
  <2>5. \A u \in Tunnels : InStep(u)'
    BY <1>0, <2>1, <2>2, <2>3, <2>4 DEF InStep
  <2>6. \A u \in Tunnels : Stands(u)'
    BY <1>0, <2>1, <2>2, <2>3, <2>4 DEF Stands, X!Alike
  <2>7. OneHolder("reverse", listening)' /\ OneHolder("forward", hostOpen)'
    BY <1>0, <2>1, <2>2, <2>4 DEF X!Taken, OneHolder, Holds
  <2> QED
    BY <1>0, <2>1, <2>2, <2>5, <2>6, <2>7 DEF ProxyUp
<1>6. ASSUME NEW t \in Tunnels, X!Ack(t) PROVE ProxyUp'
  <2>1. session = "up" /\ starting[t] = "ack" /\ starting' = [starting EXCEPT ![t] = "insert"]
    BY <1>0, <1>6 DEF X!Ack, X!At
  <2>2. answered' = [answered EXCEPT ![t] = "ok"]
    BY <1>6, <2>1 DEF X!Ack, X!Says
  <2>3. UNCHANGED <<id, asked, hostOpen, listening, proxies, cancels, deaf>>
    BY <1>6, <2>1 DEF X!Ack
  <2>4. \A u \in Tunnels : InStep(u)'
    BY <1>0, <2>1, <2>2, <2>3 DEF InStep
  <2>5. \A u \in Tunnels : Stands(u)'
    BY <1>0, <2>1, <2>2, <2>3 DEF Stands, X!Alike
  <2> QED
    BY <1>0, <2>1, <2>3, <2>4, <2>5 DEF ProxyUp, OneHolder, Holds
<1>7. ASSUME NEW t \in Tunnels, X!Insert(t) PROVE ProxyUp'
  <2>1. /\ session = "up" /\ starting[t] = "insert" /\ answered[t] = "ok" /\ t \notin proxies
        /\ t \in listening \union deaf
    BY <1>0, <1>7 DEF X!Insert, X!At, Stands, ProxyOwned
  <2>2. UNCHANGED <<id, asked, hostOpen, cancels, answered, deaf>>
    BY <1>7 DEF X!Insert
  <2>3. /\ proxies' = (proxies \ X!Alike(t)) \union {t} /\ listening' = listening \ (proxies \intersect X!Alike(t))
        /\ starting' = [starting EXCEPT ![t] = "done"]
    BY <1>7 DEF X!Insert, X!At
  <2>4. \A u \in Tunnels : InStep(u)'
    BY <1>0, <2>1, <2>2, <2>3 DEF InStep
  <2>5. ASSUME NEW u \in Tunnels PROVE Stands(u)'
    <3>1. starting'[u] \in {"ack", "insert"} \/ u \in proxies' => u \in listening' \union deaf
      BY <1>0, <2>1, <2>3 DEF Stands, ProxyOwned
    <3>2. starting'[u] = "done" /\ answered[u] = "ok" => \E v \in proxies' : id[v] = id[u]
      BY <1>0, <2>1, <2>3 DEF Stands, X!Alike
    <3>3. ASSUME answered[u] = "ok", id[u].port # 0, X!Alike(u) \intersect deaf = {}
          PROVE  u \in listening'
      <4>1. u \in listening
        BY <1>0, <2>1, <3>3 DEF Stands
      <4>2. SUFFICES ASSUME id[u] = id[t], u # t PROVE FALSE
        BY <2>1, <2>3, <4>1 DEF X!Alike
      <4>3. t \in listening /\ u \in hostOpen /\ t \in hostOpen /\ id[u].kind \in {"forward", "reverse"}
        <5>1. t \notin deaf /\ u \notin deaf
          BY <3>3, <4>2 DEF X!Alike
        <5>2. asked[t] \in {"sent", "ok"} /\ asked[u] \in {"sent", "ok"}
          BY <1>0, <2>1, <3>3 DEF InStep, Asked
        <5> QED
          BY <1>0, <2>1, <5>1, <5>2 DEF InStep, X!Ids
      <4> QED
        BY <1>0, <2>1, <3>3, <4>1, <4>2, <4>3 DEF OneHolder, Holds
    <3> QED
      BY <2>2, <3>1, <3>2, <3>3 DEF Stands, X!Alike
  <2> QED
    BY <1>0, <2>1, <2>2, <2>3, <2>4, <2>5 DEF ProxyUp, OneHolder, Holds
<1>8. CASE X!Break
  BY <1>8 DEF X!Break
<1>9. CASE X!CancelAll
  BY <1>9 DEF X!CancelAll
<1>10. CASE X!DrainProxies
  BY <1>10 DEF X!DrainProxies
<1>11. ASSUME NEW t \in Tunnels, X!HostDeaf(t) \/ X!DeviceDeaf(t) PROVE ProxyUp'
  <2>1. /\ UNCHANGED <<id, asked, starting, proxies, cancels, answered, session>>
        /\ deaf' = deaf \union {t} /\ t \in Tunnels
        /\ hostOpen' \subseteq hostOpen /\ hostOpen \ {t} \subseteq hostOpen'
        /\ listening' \subseteq listening /\ listening \ {t} \subseteq listening'
    BY <1>11 DEF X!HostDeaf, X!DeviceDeaf
  <2>2. session = "up" /\ asked[t] # "no"
    BY <1>0, <1>11, <2>1 DEF X!HostDeaf, X!DeviceDeaf, InStep, ProxyOwned
  <2>3. \A u \in Tunnels : InStep(u)'
    BY <1>0, <2>1, <2>2 DEF InStep
  <2>4. \A u \in Tunnels : Stands(u)'
    BY <1>0, <2>1, <2>2 DEF Stands, X!Alike
  <2> QED
    BY <1>0, <2>1, <2>2, <2>3, <2>4 DEF ProxyUp, OneHolder, Holds
<1>12. CASE UNCHANGED proxyVars
  BY <1>12 DEF proxyVars, ProxyUp, InStep, Stands, X!Alike, OneHolder, Holds
<1> QED
  BY <1>1, <1>2, <1>3, <1>4, <1>5, <1>6, <1>7, <1>8, <1>9, <1>10, <1>11, <1>12 DEF X!Next

LEMMA ProxyOwnedStep == ProxyTypes /\ ProxyOwned /\ [X!Next]_proxyVars => ProxyOwned'
<1> SUFFICES ASSUME ProxyTypes, ProxyOwned, [X!Next]_proxyVars PROVE ProxyOwned'
  OBVIOUS
<1> USE DEF ProxyTypes, ProxyOwned
<1>1. ASSUME NEW t \in Tunnels, X!Ask(t) PROVE ProxyOwned'
  BY <1>1 DEF X!Ask
<1>2. ASSUME NEW t \in Tunnels, X!Learns(t) PROVE ProxyOwned'
  BY <1>2 DEF X!Learns
<1>3. ASSUME NEW t \in Tunnels, X!GivesUp(t) PROVE ProxyOwned'
  BY <1>3 DEF X!GivesUp
<1>4. ASSUME NEW t \in Tunnels, X!Receive(t) PROVE ProxyOwned'
  BY <1>4 DEF X!Receive, X!At
<1>5. ASSUME NEW t \in Tunnels, X!Bind(t) PROVE ProxyOwned'
  BY <1>5 DEF X!Bind, X!At, X!Says
<1>6. ASSUME NEW t \in Tunnels, X!Ack(t) PROVE ProxyOwned'
  BY <1>6 DEF X!Ack, X!At, X!Says
<1>7. ASSUME NEW t \in Tunnels, X!Insert(t) PROVE ProxyOwned'
  BY <1>7 DEF X!Insert, X!At
<1>8. CASE X!Break
  BY <1>8 DEF X!Break
<1>9. CASE X!CancelAll
  BY <1>9 DEF X!CancelAll
<1>10. CASE X!DrainProxies
  BY <1>10 DEF X!DrainProxies
<1>11. ASSUME NEW t \in Tunnels, X!HostDeaf(t) \/ X!DeviceDeaf(t) PROVE ProxyOwned'
  BY <1>11 DEF X!HostDeaf, X!DeviceDeaf
<1>12. CASE UNCHANGED proxyVars
  BY <1>12 DEF proxyVars
<1> QED
  BY <1>1, <1>2, <1>3, <1>4, <1>5, <1>6, <1>7, <1>8, <1>9, <1>10, <1>11, <1>12 DEF X!Next

LEMMA ProxyKept ==
  /\ Init => ProxyTypes /\ ProxyUp /\ ProxyOwned
  /\ ProxyTypes /\ ProxyUp /\ ProxyOwned /\ [Next]_vars => (ProxyTypes /\ ProxyUp /\ ProxyOwned)'
<1>1. Init => ProxyTypes /\ ProxyUp /\ ProxyOwned
  BY DEF Init, X!Init, ProxyTypes, Asked, Starting, ProxyUp, InStep, Stands, OneHolder, Holds, ProxyOwned
<1>2. [Next]_vars => [X!Next]_proxyVars
  BY DEF Next, vars, Exec, Pty, Clipboard, Proxy, Tunnel
<1> QED
  BY <1>1, <1>2, ProxyTypesStep, ProxyUpStep, ProxyOwnedStep

\* The types of the tunnels' tables and tasks at both ends, for all tunnels.
THEOREM ProxyTypeCorrect == Spec => []ProxyTypes
BY ProxyKept, PTL DEF Spec

\* While the session is up and no accept loop of its id has failed, a tunnel that
\* was reported as started has its listener on the host, and on the device its
\* own if a port was named, else that of the last start of its id: for any number
\* of requests, ports and ids (start_forward, start_reverse, start_proxy).
THEOREM ToldListens == Spec => []ToldMeansListening
<1>1. ProxyTypes /\ ProxyUp => ToldMeansListening
  <2> SUFFICES ASSUME ProxyTypes, ProxyUp, session = "up", NEW t \in Tunnels,
                      asked[t] = "ok", X!Alike(t) \intersect deaf = {}
               PROVE  /\ t \in hostOpen
                      /\ IF id[t].port = 0 THEN X!Alike(t) \intersect listening # {} ELSE t \in listening
    BY DEF ToldMeansListening, X!ToldMeansListening
  <2>1. InStep(t) /\ Stands(t) /\ \A u \in Tunnels : Stands(u)
    BY DEF ProxyUp
  <2>2. answered[t] = "ok" /\ starting[t] \in {"insert", "done"} /\ t \in X!Alike(t)
    BY <2>1 DEF InStep, X!Alike
  <2>3. t \in hostOpen
    BY <2>1, <2>2 DEF InStep
  <2>4. X!Alike(t) \intersect listening # {}
    <3>1. PICK u \in Tunnels : id[u] = id[t] /\ (u \in proxies \/ (u = t /\ starting[t] = "insert"))
      BY <2>1, <2>2 DEF Stands, ProxyTypes
    <3> QED
      BY <2>1, <3>1 DEF Stands, X!Alike
  <2> QED
    BY <2>1, <2>2, <2>3, <2>4 DEF Stands
<1> QED
  BY <1>1, ProxyKept, PTL DEF Spec

\* A session that is over leaves no listener but those put into its table after
\* it was drained, for any number of tunnels (the end of serve).
THEOREM ListenersGone == Spec => []ListenersEnd
<1>1. ProxyTypes /\ ProxyOwned => ListenersEnd
  BY DEF ProxyTypes, ProxyOwned, ListenersEnd, X!ListenersEnd
<1> QED
  BY <1>1, ProxyKept, PTL DEF Spec
-----------------------------------------------------------------------------
(***************************************************************************)
(* Frames of a kind in a queue.                                            *)
(***************************************************************************)
Places(q, x) == {i \in 1..Len(q) : q[i] = x}
Count(q, x)  == Cardinality(Places(q, x))

LEMMA PlacesFinite ==
  ASSUME NEW S, NEW q \in Seq(S), NEW x
  PROVE  IsFiniteSet(Places(q, x)) /\ Count(q, x) \in Nat
<1>1. Places(q, x) \in SUBSET (1..Len(q)) /\ Len(q) \in Nat
  BY DEF Places
<1>2. IsFiniteSet(1..Len(q))
  BY <1>1, FS_Interval
<1>3. IsFiniteSet(Places(q, x))
  BY <1>1, <1>2, FS_Subset
<1> QED
  BY <1>3, FS_CardinalityType DEF Count

LEMMA CountEmpty == ASSUME NEW x PROVE Count(<<>>, x) = 0
<1>1. Places(<<>>, x) = {}
  BY DEF Places
<1> QED
  BY <1>1, FS_EmptySet DEF Count

LEMMA CountAppend ==
  ASSUME NEW S, NEW q \in Seq(S), NEW f \in S, NEW x
  PROVE  Count(Append(q, f), x) = Count(q, x) + (IF f = x THEN 1 ELSE 0)
<1> DEFINE n == Len(q) + 1
<1>1. /\ Len(q) \in Nat /\ Len(Append(q, f)) = n /\ Append(q, f)[n] = f
      /\ \A i \in 1..Len(q) : Append(q, f)[i] = q[i]
  OBVIOUS
<1>2. Places(Append(q, f), x) = Places(q, x) \union (IF f = x THEN {n} ELSE {})
  BY <1>1 DEF Places
<1>3. n \notin Places(q, x)
  BY <1>1 DEF Places
<1>4. CASE f = x
  BY <1>2, <1>3, <1>4, PlacesFinite, FS_AddElement DEF Count
<1>5. CASE f # x
  <2>1. Places(Append(q, f), x) = Places(q, x)
    BY <1>2, <1>5
  <2> QED
    BY <1>5, <2>1, PlacesFinite DEF Count
<1> QED
  BY <1>4, <1>5

LEMMA CountTail ==
  ASSUME NEW S, NEW q \in Seq(S), q # <<>>, NEW x
  PROVE  Count(q, x) = Count(Tail(q), x) + (IF Head(q) = x THEN 1 ELSE 0)
<1> DEFINE later == Places(q, x) \ {1}
           shift == [i \in Places(Tail(q), x) |-> i + 1]
<1>1. /\ Len(q) \in Nat \ {0} /\ Tail(q) \in Seq(S) /\ Len(Tail(q)) = Len(q) - 1
      /\ Head(q) = q[1] /\ \A i \in 1..(Len(q) - 1) : Tail(q)[i] = q[i + 1]
  OBVIOUS
<1>2. shift \in Bijection(Places(Tail(q), x), later)
  <2>1. shift \in Injection(Places(Tail(q), x), later)
    BY <1>1 DEF Places, Injection, IsInjective
  <2>2. ASSUME NEW j \in later PROVE \E i \in Places(Tail(q), x) : shift[i] = j
    <3>1. j \in 2..Len(q) /\ q[j] = x
      BY <1>1 DEF Places
    <3>2. j - 1 \in 1..(Len(q) - 1) /\ j - 1 + 1 = j
      BY <1>1, <3>1
    <3>3. j - 1 \in Places(Tail(q), x)
      BY <1>1, <3>1, <3>2 DEF Places
    <3> QED
      BY <3>2, <3>3
  <2> QED
    BY <2>1, <2>2 DEF Bijection, Surjection, Injection
<1>3. IsFiniteSet(later) /\ Cardinality(later) = Count(Tail(q), x)
  <2>1. IsFiniteSet(Places(Tail(q), x))
    BY <1>1, PlacesFinite
  <2>2. ExistsBijection(Places(Tail(q), x), later)
    BY <1>2 DEF ExistsBijection
  <2> HIDE DEF later
  <2> QED
    BY <2>1, <2>2, FS_Bijection DEF Count
<1>4. 1 \in Places(q, x) <=> Head(q) = x
  BY <1>1 DEF Places
<1> HIDE DEF later
<1>5. CASE Head(q) = x
  <2>1. later \union {1} = Places(q, x) /\ 1 \notin later
    BY <1>4, <1>5 DEF later
  <2> QED
    BY <1>3, <1>5, <2>1, FS_AddElement DEF Count
<1>6. CASE Head(q) # x
  <2>1. later = Places(q, x)
    BY <1>4, <1>6 DEF later
  <2>2. Count(Tail(q), x) \in Nat
    BY <1>1, PlacesFinite
  <2> QED
    BY <1>3, <1>6, <2>1, <2>2 DEF Count
<1> QED
  BY <1>5, <1>6

-----------------------------------------------------------------------------
(***************************************************************************)
(* Commands.  While the host has a route, every chunk that was read from a *)
(* pipe is with its handler, on the wire, in the route's queue or printed. *)
(* The exit code comes after both pipes' ends and is the last frame; with  *)
(* it in the queue nothing can be lost any more.                           *)
(***************************************************************************)
ExecFrames == {"stdout", "stderr", "exit", "error"}
Eof        == \A p \in E!Pipes : E!AtEof(p)
Sending(p) == IF handler = p THEN 1 ELSE 0

ExecTypes ==
    /\ pipe \in [E!Pipes -> [written : Nat, read : Nat, open : BOOLEAN]]
    /\ handler \in E!Pipes \union {"read", "wait", "exit", "error", "done"}
    /\ wire \in Seq(ExecFrames) /\ inbox \in Seq(ExecFrames)
    /\ route \in BOOLEAN /\ printed \in [E!Pipes -> Nat]

RouteEnds == cancel # "no" \/ ~online => ~route
ExitOnWire ==
    route => \A i \in 1..Len(wire) :
                wire[i] = "exit" => i = Len(wire) /\ handler = "done" /\ Eof
ExitInQueue ==
    \A i \in 1..Len(inbox) : inbox[i] = "exit" =>
        /\ i = Len(inbox) /\ ~route /\ Eof
        /\ client = "on" => \A p \in E!Pipes : printed[p] + Count(inbox, p) = pipe[p].read
NothingLost ==
    route /\ client = "on" => \A p \in E!Pipes :
        printed[p] + Count(inbox, p) + Count(wire, p) + Sending(p) = pipe[p].read

ExecInv ==
    /\ ExecTypes /\ RouteEnds /\ ExitOnWire /\ ExitInQueue /\ NothingLost
    /\ handler \in {"wait", "exit"} => Eof
    /\ client = "exit" => Eof /\ \A p \in E!Pipes : printed[p] = pipe[p].read

LEMMA PipesAreFrames == E!Pipes \subseteq ExecFrames
BY DEF E!Pipes, ExecFrames

LEMMA ExecTypesKept == ExecTypes /\ [E!Next]_execVars => ExecTypes'
<1> SUFFICES ASSUME ExecTypes, [E!Next]_execVars PROVE ExecTypes'
  OBVIOUS
<1> DEFINE Rest == UNCHANGED <<pipe, inbox, route, printed>>
<1>1. ASSUME NEW p \in E!Pipes, E!ReadChunk(p) PROVE ExecTypes'
  <2>1. pipe' = [pipe EXCEPT ![p].read = @ + 1] /\ handler' = p /\ UNCHANGED <<wire, inbox, route, printed>>
    BY <1>1 DEF E!ReadChunk, E!hostVars
  <2>2. pipe' \in [E!Pipes -> [written : Nat, read : Nat, open : BOOLEAN]]
    <3>1. pipe[p] \in [written : Nat, read : Nat, open : BOOLEAN]
      BY DEF ExecTypes
    <3>2. [pipe[p] EXCEPT !.read = @ + 1] \in [written : Nat, read : Nat, open : BOOLEAN]
      BY <3>1
    <3> QED
      BY <2>1, <3>2 DEF ExecTypes
  <2> QED
    BY <2>1, <2>2 DEF ExecTypes
<1>2. ASSUME NEW frame \in ExecFrames, NEW next \in {"read", "done"}, E!Sends(frame, next), Rest
      PROVE  ExecTypes'
  <2>1. wire' \in Seq(ExecFrames)
    <3>1. wire \in Seq(ExecFrames) /\ Append(wire, frame) \in Seq(ExecFrames)
      BY DEF ExecTypes
    <3>2. wire' = wire \/ wire' = Append(wire, frame)
      BY <1>2 DEF E!Sends
    <3> QED
      BY <3>1, <3>2
  <2>2. handler' \in {"read", "done", "error"}
    BY <1>2 DEF E!Sends
  <2> QED
    BY <1>2, <2>1, <2>2 DEF ExecTypes
<1>3. ASSUME handler' \in {"error", "wait", "exit"}, UNCHANGED wire, Rest PROVE ExecTypes'
  BY <1>3 DEF ExecTypes
<1>4. CASE E!SendError
  <2>1. wire' \in Seq(ExecFrames)
    BY <1>4 DEF E!SendError, ExecTypes, ExecFrames
  <2> QED
    BY <1>4, <2>1 DEF E!SendError, ExecTypes, E!hostVars
<1>5. CASE E!Handler
  <2>1. CASE E!Canceled \/ E!BothAtEof \/ E!Waited
    BY <1>3, <2>1 DEF E!Canceled, E!BothAtEof, E!Waited, E!hostVars
  <2>2. ASSUME NEW p \in E!Pipes, E!SendChunk(p) PROVE ExecTypes'
    BY <1>2, <2>2, PipesAreFrames DEF E!SendChunk, E!hostVars
  <2>3. CASE E!SendExit
    BY <1>2, <2>3 DEF E!SendExit, E!hostVars, ExecFrames
  <2> QED
    BY <1>1, <1>4, <1>5, <2>1, <2>2, <2>3 DEF E!Handler
<1>6. CASE E!Passes
  <2>1. inbox' \in Seq(ExecFrames) /\ Head(inbox) \in ExecFrames
    BY <1>6 DEF E!Passes, ExecTypes
  <2>2. printed' \in [E!Pipes -> Nat]
    BY <1>6 DEF E!Passes, ExecTypes
  <2>3. route' \in BOOLEAN /\ UNCHANGED <<pipe, handler, wire>>
    BY <1>6 DEF E!Passes, E!GiveUp, ExecTypes, E!deviceVars
  <2> QED
    BY <2>1, <2>2, <2>3 DEF ExecTypes
<1>7. ASSUME NEW p \in E!Pipes, E!Writes(p) \/ E!Closes(p) PROVE ExecTypes'
  <2>1. UNCHANGED <<handler, wire, inbox, route, printed>>
    BY <1>7 DEF E!Writes, E!Closes, E!hostVars
  <2>2. CASE pipe' = [pipe EXCEPT ![p].written = @ + 1]
    <3>1. pipe[p] \in [written : Nat, read : Nat, open : BOOLEAN]
      BY DEF ExecTypes
    <3>2. [pipe[p] EXCEPT !.written = @ + 1] \in [written : Nat, read : Nat, open : BOOLEAN]
      BY <3>1
    <3> QED
      BY <2>1, <2>2, <3>2 DEF ExecTypes
  <2>3. CASE pipe' = [pipe EXCEPT ![p].open = FALSE]
    BY <2>1, <2>3 DEF ExecTypes
  <2> QED
    BY <1>7, <2>2, <2>3 DEF E!Writes, E!Closes
<1>8. CASE E!Deliver
  <2>1. wire' \in Seq(ExecFrames) /\ Head(wire) \in ExecFrames
    BY <1>8 DEF E!Deliver, ExecTypes
  <2>2. inbox' = inbox \/ inbox' = Append(inbox, Head(wire))
    BY <1>8 DEF E!Deliver
  <2>3. inbox' \in Seq(ExecFrames)
    <3>1. inbox \in Seq(ExecFrames)
      BY DEF ExecTypes
    <3>2. Append(inbox, Head(wire)) \in Seq(ExecFrames)
      BY <2>1, <3>1
    <3> QED
      BY <2>2, <3>1, <3>2
  <2>4. route' \in BOOLEAN
    BY <1>8 DEF E!Deliver, E!GiveUp
  <2> QED
    BY <1>8, <2>1, <2>3, <2>4 DEF E!Deliver, ExecTypes, E!deviceVars
<1>9. CASE E!Breaks
  <2>1. /\ wire' = <<>> /\ <<>> \in Seq(ExecFrames) /\ route' = FALSE
        /\ UNCHANGED <<pipe, handler, inbox, printed>>
    BY <1>9 DEF E!Breaks, E!deviceVars
  <2> QED
    BY <2>1 DEF ExecTypes
<1>10. CASE UNCHANGED <<pipe, handler, wire, inbox, route, printed>>
  BY <1>10 DEF ExecTypes
<1> QED
  BY <1>5, <1>6, <1>7, <1>8, <1>9, <1>10
     DEF E!Next, E!Control, E!NothingComes, E!Command, E!Exits, E!CancelArrives, E!ClientLeaves,
         E!deviceVars, E!hostVars, execVars

\* Steps of the command and of its handler that touch no queue.
LEMMA ExecQuietStep ==
  ASSUME ExecInv, ExecTypes', UNCHANGED <<wire, cancel, online, route, inbox, client, printed>>,
         \/ handler = "read" /\ handler' = "error" /\ pipe' = pipe
         \/ handler = "read" /\ Eof /\ handler' = "wait" /\ pipe' = pipe
         \/ handler = "wait" /\ handler' = "exit" /\ pipe' = pipe
         \/ handler' = handler /\ pipe' = pipe
         \/ ~Eof /\ handler' = handler /\ \A p \in E!Pipes : pipe'[p].read = pipe[p].read
         \/ /\ ~Eof /\ handler = "read" /\ handler' \in E!Pipes
            /\ \A p \in E!Pipes : pipe'[p].read = pipe[p].read + (IF p = handler' THEN 1 ELSE 0)
  PROVE  ExecInv'
<1>1. \A p \in E!Pipes : p \notin {"read", "wait", "exit", "error", "done"}
  BY DEF E!Pipes
<1>2. \A p \in E!Pipes : /\ printed[p] \in Nat /\ pipe[p].read \in Nat
                         /\ Count(inbox, p) \in Nat /\ Count(wire, p) \in Nat
  BY PlacesFinite DEF ExecInv, ExecTypes
<1>3. pipe' = pipe => Eof' = Eof
  BY DEF Eof, E!AtEof
<1>4. RouteEnds' /\ ExitOnWire' /\ ExitInQueue'
  BY <1>1, <1>3 DEF ExecInv, RouteEnds, ExitOnWire, ExitInQueue
<1>5. NothingLost'
  BY <1>1, <1>2 DEF ExecInv, NothingLost, Sending
<1>6. (handler \in {"wait", "exit"} => Eof)'
  BY <1>1, <1>3 DEF ExecInv
<1>7. (client = "exit" => Eof /\ \A p \in E!Pipes : printed[p] = pipe[p].read)'
  BY <1>3 DEF ExecInv
<1> QED
  BY <1>4, <1>5, <1>6, <1>7 DEF ExecInv

\* A frame goes on the wire, or the error path is taken.
LEMMA ExecSendStep ==
  ASSUME ExecInv, ExecTypes', UNCHANGED <<pipe, cancel, online, route, inbox, client, printed>>,
         NEW frame \in ExecFrames,
         \/ ~route /\ handler' \in {"error", "done"}
         \/ wire' = Append(wire, frame) /\ handler = frame /\ frame \in E!Pipes /\ handler' = "read"
         \/ wire' = Append(wire, frame) /\ handler = frame /\ frame = "exit" /\ handler' = "done"
         \/ wire' = Append(wire, frame) /\ handler = frame /\ frame = "error" /\ handler' = "done"
  PROVE  ExecInv'
<1>1. \A p \in E!Pipes : p \notin {"read", "wait", "exit", "error", "done"}
  BY DEF E!Pipes
<1>2. \A p \in E!Pipes : /\ printed[p] \in Nat /\ pipe[p].read \in Nat
                         /\ Count(inbox, p) \in Nat /\ Count(wire, p) \in Nat
  BY PlacesFinite DEF ExecInv, ExecTypes
<1>3. Eof' = Eof
  BY DEF Eof, E!AtEof
<1>4. wire \in Seq(ExecFrames)
  BY DEF ExecInv, ExecTypes
<1>5. /\ Len(wire) \in Nat /\ Len(Append(wire, frame)) = Len(wire) + 1
      /\ Append(wire, frame)[Len(wire) + 1] = frame
      /\ \A i \in 1..Len(wire) : Append(wire, frame)[i] = wire[i]
  BY <1>4
<1>6. \A p \in E!Pipes : Count(Append(wire, frame), p) = Count(wire, p) + (IF frame = p THEN 1 ELSE 0)
  BY <1>4, CountAppend
<1>7. RouteEnds' /\ ExitInQueue'
  BY <1>3 DEF ExecInv, RouteEnds, ExitInQueue
<1>8. ExitOnWire'
  <2>1. CASE ~route
    BY <2>1 DEF ExitOnWire
  <2>2. ASSUME route, NEW i \in 1..Len(wire'), wire'[i] = "exit"
        PROVE  i = Len(wire') /\ handler' = "done" /\ Eof
    <3>1. wire' = Append(wire, frame) /\ handler # "done"
      BY <1>1, <2>2
    <3>2. i \notin 1..Len(wire)
      BY <1>5, <2>2, <3>1 DEF ExecInv, ExitOnWire
    <3>3. i = Len(wire) + 1 /\ frame = "exit"
      BY <1>5, <2>2, <3>1, <3>2
    <3> QED
      BY <1>1, <1>5, <2>2, <3>1, <3>3 DEF ExecInv
  <2> QED
    BY <1>3, <2>1, <2>2 DEF ExitOnWire
<1>9. NothingLost'
  <2> SUFFICES ASSUME route, client = "on", NEW p \in E!Pipes
               PROVE  printed[p] + Count(inbox, p) + Count(wire', p)
                        + (IF handler' = p THEN 1 ELSE 0) = pipe[p].read
    BY DEF NothingLost, Sending
  <2>1. printed[p] + Count(inbox, p) + Count(wire, p) + (IF handler = p THEN 1 ELSE 0) = pipe[p].read
    BY DEF ExecInv, NothingLost, Sending
  <2>2. wire' = Append(wire, frame) /\ handler = frame /\ handler' \in {"read", "done"}
    OBVIOUS
  <2>3. Count(wire', p) = Count(wire, p) + (IF frame = p THEN 1 ELSE 0)
    BY <1>6, <2>2
  <2>4. handler' # p /\ (handler = p <=> frame = p)
    BY <1>1, <2>2
  <2> QED
    BY <1>2, <2>1, <2>3, <2>4
<1>10. /\ (handler \in {"wait", "exit"} => Eof)'
       /\ (client = "exit" => Eof /\ \A p \in E!Pipes : printed[p] = pipe[p].read)'
  BY <1>3 DEF ExecInv
<1> QED
  BY <1>7, <1>8, <1>9, <1>10 DEF ExecInv

\* The host's reader takes a frame.
LEMMA ExecDeliverStep == ASSUME ExecInv, ExecTypes', E!Deliver PROVE ExecInv'
<1>1. /\ UNCHANGED <<pipe, handler, online, client, printed>>
      /\ wire # <<>> /\ wire' = Tail(wire) /\ (cancel' # cancel => ~route')
      /\ \/ inbox' = inbox /\ ~route'
         \/ /\ route /\ inbox' = Append(inbox, Head(wire)) /\ UNCHANGED cancel
            /\ route' <=> Head(wire) \notin {"exit", "error"}
  BY DEF E!Deliver, E!deviceVars, E!GiveUp, ExecInv, ExecTypes
<1>2. /\ wire \in Seq(ExecFrames) /\ Tail(wire) \in Seq(ExecFrames)
      /\ Len(wire) \in Nat \ {0} /\ Len(Tail(wire)) = Len(wire) - 1
      /\ Head(wire) = wire[1] /\ Head(wire) \in ExecFrames
      /\ \A i \in 1..(Len(wire) - 1) : Tail(wire)[i] = wire[i + 1]
  BY <1>1 DEF ExecInv, ExecTypes
<1>3. /\ inbox \in Seq(ExecFrames) /\ Len(inbox) \in Nat
      /\ Len(Append(inbox, Head(wire))) = Len(inbox) + 1
      /\ Append(inbox, Head(wire))[Len(inbox) + 1] = Head(wire)
      /\ \A i \in 1..Len(inbox) : Append(inbox, Head(wire))[i] = inbox[i]
  BY <1>2 DEF ExecInv, ExecTypes
<1>4. \A p \in E!Pipes :
        /\ Count(wire, p) = Count(Tail(wire), p) + (IF Head(wire) = p THEN 1 ELSE 0)
        /\ Count(Append(inbox, Head(wire)), p) = Count(inbox, p) + (IF Head(wire) = p THEN 1 ELSE 0)
  BY <1>1, <1>2, <1>3, CountTail, CountAppend
<1>5. \A p \in E!Pipes : /\ printed[p] \in Nat /\ pipe[p].read \in Nat
                         /\ Count(inbox, p) \in Nat /\ Count(Tail(wire), p) \in Nat
                         /\ Sending(p) \in Nat
  BY <1>2, <1>3, PlacesFinite DEF ExecInv, ExecTypes, Sending
<1>6. Eof' = Eof /\ \A p \in E!Pipes : Sending(p)' = Sending(p)
  BY <1>1 DEF Eof, E!AtEof, Sending
<1>7. RouteEnds'
  BY <1>1 DEF ExecInv, RouteEnds
<1>8. ExitOnWire'
  <2> SUFFICES ASSUME route', NEW i \in 1..Len(wire'), wire'[i] = "exit"
               PROVE  i = Len(wire') /\ handler' = "done" /\ Eof'
    BY DEF ExitOnWire
  <2>1. route /\ i + 1 \in 1..Len(wire) /\ wire[i + 1] = "exit"
    BY <1>1, <1>2
  <2>2. i + 1 = Len(wire) /\ handler = "done" /\ Eof
    BY <2>1 DEF ExecInv, ExitOnWire
  <2>3. Len(wire') = Len(wire) - 1 /\ i \in Nat /\ Len(wire) \in Nat
    BY <1>1, <1>2
  <2>4. i = Len(wire')
    BY <2>2, <2>3
  <2> QED
    BY <1>1, <1>6, <2>2, <2>4
<1>9. NothingLost'
  <2> SUFFICES ASSUME route', client' = "on", NEW p \in E!Pipes
               PROVE  printed[p] + Count(inbox', p) + Count(wire', p) + Sending(p) = pipe[p].read
    BY <1>1, <1>6 DEF NothingLost
  <2>1. inbox' = Append(inbox, Head(wire)) /\ route /\ client = "on"
    BY <1>1
  <2>2. printed[p] + Count(inbox, p) + Count(wire, p) + Sending(p) = pipe[p].read
    BY <2>1 DEF ExecInv, NothingLost
  <2> QED
    BY <1>1, <1>4, <1>5, <2>1, <2>2
<1>10. ExitInQueue'
  <2>1. CASE inbox' = inbox /\ ~route'
    BY <1>1, <1>6, <2>1 DEF ExecInv, ExitInQueue
  <2>2. CASE inbox' = Append(inbox, Head(wire)) /\ route
    <3> SUFFICES ASSUME NEW i \in 1..Len(inbox'), inbox'[i] = "exit"
                 PROVE  /\ i = Len(inbox') /\ ~route' /\ Eof'
                        /\ client = "on" => \A p \in E!Pipes : printed[p] + Count(inbox', p) = pipe[p].read
      BY <1>1 DEF ExitInQueue
    <3>1. i \notin 1..Len(inbox)
      BY <1>3, <2>2 DEF ExecInv, ExitInQueue
    <3>2. i = Len(inbox) + 1 /\ Head(wire) = "exit"
      BY <1>3, <2>2, <3>1
    <3>3. Len(wire) = 1 /\ handler = "done" /\ Eof
      <4>1. 1 \in 1..Len(wire) /\ wire[1] = "exit"
        BY <1>2, <3>2
      <4> QED
        BY <2>2, <4>1 DEF ExecInv, ExitOnWire
    <3>4. Tail(wire) = <<>>
      <4>1. Len(Tail(wire)) = 0
        BY <1>2, <3>3
      <4> QED
        BY <1>2, <4>1, EmptySeq
    <3>5. \A p \in E!Pipes : p # "exit" /\ Count(Tail(wire), p) = 0 /\ Sending(p) = 0
      BY <3>3, <3>4, CountEmpty DEF E!Pipes, Sending
    <3>7. \A p \in E!Pipes : Count(wire, p) = 0 /\ Count(inbox', p) = Count(inbox, p)
      BY <1>4, <1>5, <2>2, <3>2, <3>5
    <3>6. client = "on" => \A p \in E!Pipes : printed[p] + Count(inbox', p) = pipe[p].read
      <4>1. client = "on" => \A p \in E!Pipes :
              printed[p] + Count(inbox, p) + Count(wire, p) + Sending(p) = pipe[p].read
        BY <2>2 DEF ExecInv, NothingLost
      <4> QED
        BY <1>5, <3>5, <3>7, <4>1
    <3> QED
      BY <1>1, <1>3, <1>6, <2>2, <3>2, <3>3, <3>6
  <2> QED
    BY <1>1, <2>1, <2>2
<1>11. /\ (handler \in {"wait", "exit"} => Eof)'
       /\ (client = "exit" => Eof /\ \A p \in E!Pipes : printed[p] = pipe[p].read)'
  BY <1>1, <1>6 DEF ExecInv
<1> QED
  BY <1>7, <1>8, <1>9, <1>10, <1>11 DEF ExecInv

\* The control task takes a frame from the queue.
LEMMA ExecPassesStep == ASSUME ExecInv, ExecTypes', E!Passes PROVE ExecInv'
<1> DEFINE frame == Head(inbox)
<1>1. /\ UNCHANGED <<pipe, handler, wire, online>> /\ inbox # <<>> /\ inbox' = Tail(inbox)
      /\ (route' => route) /\ (cancel' # cancel => ~route')
      /\ client' = (IF client = "on" /\ frame \notin E!Pipes THEN frame ELSE client)
      /\ client # "on" \/ frame \notin E!Pipes => printed' = printed
      /\ client = "on" /\ frame \in E!Pipes => printed' = [printed EXCEPT ![frame] = @ + 1]
  BY DEF E!Passes, E!deviceVars, E!GiveUp
<1>2. /\ inbox \in Seq(ExecFrames) /\ Tail(inbox) \in Seq(ExecFrames)
      /\ Len(inbox) \in Nat \ {0} /\ Len(Tail(inbox)) = Len(inbox) - 1
      /\ frame = inbox[1] /\ frame \in ExecFrames
      /\ \A i \in 1..(Len(inbox) - 1) : Tail(inbox)[i] = inbox[i + 1]
  BY <1>1 DEF ExecInv, ExecTypes
<1>3. \A p \in E!Pipes : Count(inbox, p) = Count(Tail(inbox), p) + (IF frame = p THEN 1 ELSE 0)
  BY <1>1, <1>2, CountTail
<1>4. \A p \in E!Pipes : /\ printed[p] \in Nat /\ pipe[p].read \in Nat /\ Sending(p) \in Nat
                         /\ Count(Tail(inbox), p) \in Nat /\ Count(wire, p) \in Nat
  BY <1>2, PlacesFinite DEF ExecInv, ExecTypes, Sending
<1>5. Eof' = Eof /\ \A p \in E!Pipes : Sending(p)' = Sending(p)
  BY <1>1 DEF Eof, E!AtEof, Sending
<1>6. \A p \in E!Pipes : printed'[p] = printed[p] + (IF client = "on" /\ frame = p THEN 1 ELSE 0)
  <2>1. DOMAIN printed = E!Pipes
    BY DEF ExecInv, ExecTypes
  <2>2. CASE client = "on" /\ frame \in E!Pipes
    BY <1>1, <1>4, <2>1, <2>2
  <2>3. CASE ~(client = "on" /\ frame \in E!Pipes)
    BY <1>1, <1>4, <2>3
  <2> QED
    BY <2>2, <2>3
<1> HIDE DEF frame
<1>7. RouteEnds' /\ ExitOnWire'
  BY <1>1, <1>5 DEF ExecInv, RouteEnds, ExitOnWire
<1>8. client' = "on" => client = "on"
  BY <1>1 DEF ExecFrames, E!Pipes
<1>9. NothingLost'
  <2> SUFFICES ASSUME route', client' = "on", NEW p \in E!Pipes
               PROVE  printed'[p] + Count(inbox', p) + Count(wire, p) + Sending(p) = pipe[p].read
    BY <1>1, <1>5 DEF NothingLost
  <2>1. printed[p] + Count(inbox, p) + Count(wire, p) + Sending(p) = pipe[p].read
    BY <1>1, <1>8 DEF ExecInv, NothingLost
  <2>2. printed'[p] = printed[p] + (IF frame = p THEN 1 ELSE 0)
    BY <1>6, <1>8
  <2>3. Count(inbox, p) = Count(inbox', p) + (IF frame = p THEN 1 ELSE 0) /\ Count(inbox', p) \in Nat
    BY <1>1, <1>3, <1>4
  <2> QED
    BY <1>4, <2>1, <2>2, <2>3
<1>10. ExitInQueue'
  <2> SUFFICES ASSUME NEW i \in 1..Len(inbox'), inbox'[i] = "exit"
               PROVE  /\ i = Len(inbox') /\ ~route' /\ Eof'
                      /\ client' = "on" => \A p \in E!Pipes : printed'[p] + Count(inbox', p) = pipe'[p].read
    BY DEF ExitInQueue
  <2>1. i + 1 \in 1..Len(inbox) /\ inbox[i + 1] = "exit"
    BY <1>1, <1>2
  <2>2. /\ i + 1 = Len(inbox) /\ ~route /\ Eof
        /\ client = "on" => \A p \in E!Pipes : printed[p] + Count(inbox, p) = pipe[p].read
    BY <2>1 DEF ExecInv, ExitInQueue
  <2>3. ASSUME client' = "on", NEW p \in E!Pipes
        PROVE  printed'[p] + Count(Tail(inbox), p) = pipe[p].read
    <3>1. printed[p] + Count(inbox, p) = pipe[p].read
      BY <1>8, <2>2, <2>3
    <3>2. printed'[p] = printed[p] + (IF frame = p THEN 1 ELSE 0)
      BY <1>6, <1>8, <2>3
    <3>3. Count(inbox, p) = Count(Tail(inbox), p) + (IF frame = p THEN 1 ELSE 0)
      BY <1>3
    <3> QED
      BY <1>4, <3>1, <3>2, <3>3
  <2>4. i = Len(inbox') /\ ~route' /\ Eof'
    BY <1>1, <1>2, <1>5, <2>2
  <2> QED
    BY <1>1, <2>3, <2>4
<1>11. (client = "exit" => Eof /\ \A p \in E!Pipes : printed[p] = pipe[p].read)'
  <2>1. CASE client = "exit"
    BY <1>1, <1>4, <1>5, <1>6, <2>1 DEF ExecInv
  <2>2. CASE client = "on" /\ frame = "exit"
    <3>1. /\ Len(inbox) = 1 /\ Eof
          /\ \A p \in E!Pipes : printed[p] + Count(inbox, p) = pipe[p].read
      <4>1. 1 \in 1..Len(inbox) /\ inbox[1] = "exit"
        BY <1>2, <2>2
      <4> QED
        BY <2>2, <4>1 DEF ExecInv, ExitInQueue
    <3>2. Tail(inbox) = <<>>
      <4>1. Len(Tail(inbox)) = 0
        BY <1>2, <3>1
      <4> QED
        BY <1>2, <4>1, EmptySeq
    <3>4. \A p \in E!Pipes : p # "exit" /\ Count(Tail(inbox), p) = 0
      BY <3>2, CountEmpty DEF E!Pipes
    <3>3. \A p \in E!Pipes : Count(inbox, p) = 0 /\ printed'[p] = printed[p]
      BY <1>3, <1>4, <1>6, <2>2, <3>4
    <3> QED
      BY <1>1, <1>4, <1>5, <3>1, <3>3
  <2> QED
    BY <1>1, <2>1, <2>2
<1>12. (handler \in {"wait", "exit"} => Eof)'
  BY <1>1, <1>5 DEF ExecInv
<1> QED
  BY <1>7, <1>9, <1>10, <1>11, <1>12 DEF ExecInv

\* The connection breaks, a cancellation arrives, nothing more comes, and the
\* client leaves.
LEMMA ExecEndStep ==
  ASSUME ExecInv, ExecTypes', UNCHANGED <<pipe, handler, inbox, printed>>,
         \/ UNCHANGED <<wire, online, route, cancel>> /\ client' \in {"gone", "error", client}
         \/ UNCHANGED <<wire, online, route, client>> /\ ~route
         \/ ~route' /\ client' = client
  PROVE  ExecInv'
<1>1. Eof' = Eof /\ \A p \in E!Pipes : Sending(p)' = Sending(p)
  BY DEF Eof, E!AtEof, Sending
<1>2. RouteEnds' /\ ExitOnWire' /\ ExitInQueue' /\ NothingLost'
  BY <1>1 DEF ExecInv, RouteEnds, ExitOnWire, ExitInQueue, NothingLost
<1> QED
  BY <1>1, <1>2 DEF ExecInv

LEMMA ExecStep == ExecInv /\ [E!Next]_execVars => ExecInv'
<1> SUFFICES ASSUME ExecInv, [E!Next]_execVars PROVE ExecInv'
  OBVIOUS
<1>1. ExecTypes'
  BY ExecTypesKept DEF ExecInv
<1>2. \A p \in E!Pipes : /\ pipe[p] \in [written : Nat, read : Nat, open : BOOLEAN]
                         /\ p \notin {"read", "wait", "exit", "error", "done"}
  BY DEF ExecInv, ExecTypes, E!Pipes
<1>3. CASE E!Canceled \/ E!BothAtEof \/ E!Waited \/ E!Exits
  BY <1>1, <1>3, ExecQuietStep
     DEF E!Canceled, E!BothAtEof, E!Waited, E!Exits, Eof, E!hostVars
<1>4. ASSUME NEW p \in E!Pipes, E!ReadChunk(p) PROVE ExecInv'
  <2>1. /\ UNCHANGED <<wire, cancel, online, route, inbox, client, printed>>
        /\ handler = "read" /\ handler' = p /\ pipe' = [pipe EXCEPT ![p].read = @ + 1]
        /\ pipe[p].read < pipe[p].written
    BY <1>4 DEF E!ReadChunk, E!Ready, E!Readable, E!hostVars
  <2>2. ~Eof
    BY <1>2, <2>1 DEF Eof, E!AtEof
  <2>3. \A o \in E!Pipes : pipe'[o].read = pipe[o].read + (IF o = handler' THEN 1 ELSE 0)
    BY <1>2, <2>1 DEF ExecInv, ExecTypes
  <2> QED
    BY <1>1, <2>1, <2>2, <2>3, ExecQuietStep
<1>5. ASSUME NEW p \in E!Pipes, E!Writes(p) \/ E!Closes(p) PROVE ExecInv'
  <2>1. /\ UNCHANGED <<handler, wire, cancel, online, route, inbox, client, printed>>
        /\ pipe[p].open
        /\ \/ pipe' = [pipe EXCEPT ![p].written = @ + 1]
           \/ pipe' = [pipe EXCEPT ![p].open = FALSE]
    BY <1>5 DEF E!Writes, E!Closes, E!hostVars
  <2>2. ~Eof
    BY <2>1 DEF Eof, E!AtEof
  <2>3. \A o \in E!Pipes : pipe'[o].read = pipe[o].read
    <3>1. DOMAIN pipe = E!Pipes
      BY DEF ExecInv, ExecTypes
    <3>2. CASE pipe' = [pipe EXCEPT ![p].written = @ + 1]
      BY <1>2, <3>1, <3>2
    <3>3. CASE pipe' = [pipe EXCEPT ![p].open = FALSE]
      BY <1>2, <3>1, <3>3
    <3> QED
      BY <2>1, <3>2, <3>3
  <2> QED
    BY <1>1, <2>1, <2>2, <2>3, ExecQuietStep
<1>6. ASSUME NEW frame \in ExecFrames, NEW next \in {"read", "done"}, handler = frame,
             E!Sends(frame, next), UNCHANGED <<pipe, cancel, online, route, inbox, client, printed>>,
             \/ frame \in E!Pipes /\ next = "read"
             \/ frame = "exit" /\ next = "done"
      PROVE  ExecInv'
  <2>1. \/ wire' = Append(wire, frame) /\ handler' = next
        \/ (cancel = "set" \/ ~online) /\ handler' = "error"
    BY <1>6 DEF E!Sends
  <2>2. cancel = "set" \/ ~online => ~route
    BY DEF ExecInv, RouteEnds
  <2> QED
    BY <1>1, <1>6, <2>1, <2>2, ExecSendStep
<1>7. ASSUME NEW p \in E!Pipes, E!SendChunk(p) PROVE ExecInv'
  BY <1>6, <1>7, PipesAreFrames DEF E!SendChunk, E!hostVars
<1>8. CASE E!SendExit
  BY <1>6, <1>8 DEF E!SendExit, E!hostVars, ExecFrames
<1>9. CASE E!SendError
  <2>1. /\ handler = "error" /\ handler' = "done"
        /\ UNCHANGED <<pipe, cancel, online, route, inbox, client, printed>>
        /\ cancel = "set" \/ ~online \/ wire' = Append(wire, "error")
    BY <1>9 DEF E!SendError, E!hostVars
  <2>2. cancel = "set" \/ ~online => ~route
    BY DEF ExecInv, RouteEnds
  <2>3. "error" \in ExecFrames
    BY DEF ExecFrames
  <2> QED
    BY <1>1, <2>1, <2>2, <2>3, ExecSendStep
<1>10. CASE E!CancelArrives \/ E!Breaks \/ E!NothingComes \/ E!ClientLeaves \/ UNCHANGED execVars
  <2>1. (cancel = "sent" \/ ~online) => ~route
    BY DEF ExecInv, RouteEnds
  <2> QED
    BY <1>1, <1>10, <2>1, ExecEndStep
       DEF E!CancelArrives, E!Breaks, E!NothingComes, E!ClientLeaves, execVars, E!deviceVars, E!hostVars
<1> QED
  BY <1>1, <1>3, <1>4, <1>5, <1>7, <1>8, <1>9, <1>10, ExecDeliverStep, ExecPassesStep
     DEF E!Next, E!Handler, E!Control, E!Command

-----------------------------------------------------------------------------
(***************************************************************************)
(* Shells, in the same way; a loop that failed reports no exit.            *)
(***************************************************************************)
PtyFrames == {"output", "exit", "error", "cancel"}
OutputEnds == output = "ended" => shell = "dead" /\ readOut = written
PtyTypes ==
    /\ written \in Nat /\ readOut \in Nat /\ shown \in Nat
    /\ toHost \in Seq(PtyFrames) /\ ptyInbox \in Seq(PtyFrames)
    /\ devRoute \in BOOLEAN /\ ptyRoute \in BOOLEAN
PtyPhases ==
    /\ pty \in {"run", "wait", "error", "done"}
    /\ pty = "wait" => output = "ended"
    /\ pty # "run" => output \in {"ended", "failed"}
    /\ pty = "done" => ~devRoute
PtyExitOnWire ==
    \A i \in 1..Len(toHost) :
        toHost[i] = "exit" => i = Len(toHost) /\ pty = "done" /\ output = "ended"
PtyExitInQueue ==
    \A i \in 1..Len(ptyInbox) : ptyInbox[i] = "exit" =>
        /\ i = Len(ptyInbox) /\ ~ptyRoute /\ output = "ended"
        /\ ptyClient = "on" => shown + Count(ptyInbox, "output") = readOut
PtyNothingLost ==
    ptyRoute /\ ptyClient = "on" /\ output # "failed" =>
        shown + Count(ptyInbox, "output") + Count(toHost, "output")
            + (IF output = "send" THEN 1 ELSE 0) = readOut

PtyInv ==
    /\ PtyTypes /\ OutputEnds /\ PtyPhases /\ PtyExitOnWire /\ PtyExitInQueue /\ PtyNothingLost
    /\ ptyClient = "exit" => output = "ended" /\ shown = readOut

LEMMA PtyTypesKept == PtyTypes /\ [P!Next]_ptyVars => PtyTypes'
<1> SUFFICES ASSUME PtyTypes, [P!Next]_ptyVars PROVE PtyTypes'
  OBVIOUS
<1> DEFINE Counts == UNCHANGED <<written, readOut, shown>>
           Host   == UNCHANGED <<ptyRoute, ptyInbox>>
<1>1. /\ toHost \in Seq(PtyFrames) /\ ptyInbox \in Seq(PtyFrames)
      /\ \A f \in PtyFrames : Append(toHost, f) \in Seq(PtyFrames) /\ Append(ptyInbox, f) \in Seq(PtyFrames)
      /\ toHost # <<>> => Head(toHost) \in PtyFrames /\ Tail(toHost) \in Seq(PtyFrames)
      /\ ptyInbox # <<>> => Tail(ptyInbox) \in Seq(PtyFrames)
      /\ <<>> \in Seq(PtyFrames)
      /\ {"output", "exit", "error", "cancel"} = PtyFrames
  <2>1. toHost \in Seq(PtyFrames) /\ ptyInbox \in Seq(PtyFrames) /\ PtyFrames = {"output", "exit", "error", "cancel"}
    BY DEF PtyTypes, PtyFrames
  <2> QED
    BY <2>1
<1>2. CASE P!Input
  BY <1>2 DEF P!Input, P!TakesInput, P!WritesInput, P!TakesOther, P!TakesClose, P!TakesNothing,
              P!SeesDone, P!InputRest, P!terminal, P!stream, P!host, P!user, PtyTypes
<1>3. CASE P!Output
  <2>1. toHost' \in Seq(PtyFrames)
    BY <1>1, <1>3 DEF P!Output, P!ReadsOutput, P!ReadsEnd, P!SendsOutput
  <2> QED
    BY <1>3, <2>1 DEF P!Output, P!ReadsOutput, P!ReadsEnd, P!SendsOutput, P!OutputRest, P!stream,
                      P!host, P!user, PtyTypes
<1>4. CASE P!Finish
  <2>1. toHost' \in Seq(PtyFrames)
    BY <1>1, <1>4 DEF P!Finish, P!JoinsBoth, P!Reports
  <2> QED
    BY <1>4, <2>1 DEF P!Finish, P!JoinsBoth, P!Reports, P!OutputRest, P!stream, P!terminal,
                      P!host, P!user, PtyTypes
<1>5. CASE P!HostReads
  <2>1. toHost' \in Seq(PtyFrames) /\ ptyInbox' \in Seq(PtyFrames)
    BY <1>1, <1>5 DEF P!HostReads
  <2>2. ptyRoute' \in BOOLEAN
    BY <1>5 DEF P!HostReads, P!Cancels
  <2> QED
    BY <1>5, <2>1, <2>2 DEF P!HostReads, P!device, P!terminal, P!stream, P!user, PtyTypes
<1>6. CASE P!DeviceReads \/ P!Teardown
  <2>1. toHost' \in Seq(PtyFrames) /\ devRoute' \in BOOLEAN
    BY <1>1, <1>6 DEF P!DeviceReads, P!Teardown, PtyTypes
  <2> QED
    BY <1>6, <2>1 DEF P!DeviceReads, P!Teardown, P!device, P!terminal, P!host, P!user, PtyTypes
<1>7. CASE P!HostPty
  <2>1. ptyInbox' \in Seq(PtyFrames)
    BY <1>1, <1>7 DEF P!HostPty, P!SeesClientGone, P!PassesOn, P!StreamEnds, P!GraceOver
  <2>2. UNCHANGED <<written, readOut, toHost, devRoute>> /\ (ptyRoute' = ptyRoute \/ ptyRoute' = FALSE)
    BY <1>7 DEF P!HostPty, P!SeesClientGone, P!PassesOn, P!StreamEnds, P!GraceOver, P!Cancels,
                P!device, P!terminal, P!stream
  <2>3. shown' = shown \/ shown' = shown + 1
    BY <1>7 DEF P!HostPty, P!SeesClientGone, P!PassesOn, P!StreamEnds, P!GraceOver, P!user
  <2>4. shown' \in Nat
    BY <2>3 DEF PtyTypes
  <2> QED
    BY <2>1, <2>2, <2>4 DEF PtyTypes
<1>8. CASE P!Types \/ P!ClientQuits \/ P!ShellWrites \/ P!ShellChanges \/ UNCHANGED ptyVars
  BY <1>8 DEF P!Types, P!ClientQuits, P!ShellWrites, P!ShellChanges, ptyVars, P!device, P!terminal,
              P!stream, P!host, P!user, PtyTypes
<1>9. CASE P!LinkBreaks
  BY <1>1, <1>9 DEF P!LinkBreaks, P!device, P!terminal, P!user, PtyTypes
<1> QED
  BY <1>2, <1>3, <1>4, <1>5, <1>6, <1>7, <1>8, <1>9 DEF P!Next, P!Network

\* Steps that touch neither queue, nor the client.
LEMMA PtyQuietStep ==
  ASSUME PtyInv, PtyTypes', UNCHANGED <<toHost, ptyInbox, ptyClient, shown>>,
         ptyRoute' => ptyRoute, devRoute' => devRoute,
         \/ /\ UNCHANGED <<output, readOut, pty>>
            /\ output = "ended" => shell' = "dead" /\ written' = written
         \/ /\ output = "read" /\ output' = "send" /\ readOut' = readOut + 1 /\ pty' = pty
         \/ /\ output = "read" /\ output' = "ended" /\ UNCHANGED <<shell, written, readOut, pty>>
            /\ shell = "dead" /\ readOut = written
         \/ /\ output = "send" /\ output' = "failed" /\ UNCHANGED <<written, readOut, pty>>
         \/ /\ pty = "run" /\ pty' \in {"wait", "error"} /\ UNCHANGED <<shell, written, readOut, output>>
            /\ output \in {"ended", "failed"} /\ (pty' = "wait" => output = "ended")
         \/ /\ pty \in {"wait", "error"} /\ pty' = "done" /\ ~devRoute'
            /\ UNCHANGED <<shell, written, readOut, output>>
  PROVE  PtyInv'
<1>1. /\ shown \in Nat /\ readOut \in Nat /\ readOut' \in Nat
      /\ Count(ptyInbox, "output") \in Nat /\ Count(toHost, "output") \in Nat
  BY PlacesFinite DEF PtyInv, PtyTypes
<1>2. OutputEnds'
  BY DEF PtyInv, OutputEnds
<1>3. PtyPhases'
  BY DEF PtyInv, PtyPhases
<1>4. PtyExitOnWire'
  BY DEF PtyInv, PtyPhases, PtyExitOnWire
<1>5. output = "ended" => output' = "ended" /\ readOut' = readOut
  OBVIOUS
<1>6. PtyExitInQueue'
  BY <1>5 DEF PtyInv, PtyExitInQueue
<1>7. PtyNothingLost'
  <2> SUFFICES ASSUME ptyRoute, ptyClient = "on", output' # "failed"
               PROVE  shown + Count(ptyInbox, "output") + Count(toHost, "output")
                        + (IF output' = "send" THEN 1 ELSE 0) = readOut'
    BY DEF PtyNothingLost
  <2>1. output # "failed" =>
          shown + Count(ptyInbox, "output") + Count(toHost, "output")
            + (IF output = "send" THEN 1 ELSE 0) = readOut
    BY DEF PtyInv, PtyNothingLost
  <2>2. CASE output' = output /\ readOut' = readOut
    BY <2>1, <2>2
  <2>3. CASE output = "read" /\ output' = "send" /\ readOut' = readOut + 1
    BY <1>1, <2>1, <2>3
  <2>4. CASE output = "read" /\ output' = "ended" /\ readOut' = readOut
    BY <2>1, <2>4
  <2> QED
    BY <2>2, <2>3, <2>4
<1>8. (ptyClient = "exit" => output = "ended" /\ shown = readOut)'
  BY <1>5 DEF PtyInv
<1> QED
  BY <1>2, <1>3, <1>4, <1>6, <1>7, <1>8 DEF PtyInv

\* A frame is queued for the host.
LEMMA PtySendStep ==
  ASSUME PtyInv, PtyTypes', NEW frame \in PtyFrames, toHost' = Append(toHost, frame),
         UNCHANGED <<shell, written, readOut, ptyRoute, ptyInbox, ptyClient, shown>>,
         devRoute' => devRoute,
         \/ frame = "output" /\ output = "send" /\ output' = "read" /\ pty' = pty
         \/ frame = "cancel" /\ devRoute /\ UNCHANGED <<output, pty>>
         \/ /\ frame \in {"exit", "error"} /\ pty \in {"wait", "error"} /\ pty' = "done"
            /\ frame = "exit" => pty = "wait"
            /\ ~devRoute' /\ output' = output
  PROVE  PtyInv'
<1>1. /\ shown \in Nat /\ readOut \in Nat
      /\ Count(ptyInbox, "output") \in Nat /\ Count(toHost, "output") \in Nat
  BY PlacesFinite DEF PtyInv, PtyTypes
<1>2. toHost \in Seq(PtyFrames)
  BY DEF PtyInv, PtyTypes
<1>3. /\ Len(toHost) \in Nat /\ Len(toHost') = Len(toHost) + 1 /\ toHost'[Len(toHost) + 1] = frame
      /\ \A i \in 1..Len(toHost) : toHost'[i] = toHost[i]
  BY <1>2
<1>4. Count(toHost', "output") = Count(toHost, "output") + (IF frame = "output" THEN 1 ELSE 0)
  BY <1>2, CountAppend
<1>5. OutputEnds' /\ PtyPhases'
  BY DEF PtyInv, OutputEnds, PtyPhases
<1>6. \A i \in 1..Len(toHost) : toHost[i] # "exit"
  BY DEF PtyInv, PtyExitOnWire, PtyPhases
<1>7. PtyExitOnWire'
  <2> SUFFICES ASSUME NEW i \in 1..Len(toHost'), toHost'[i] = "exit"
               PROVE  i = Len(toHost') /\ pty' = "done" /\ output' = "ended"
    BY DEF PtyExitOnWire
  <2>1. i \notin 1..Len(toHost)
    BY <1>3, <1>6
  <2>2. i = Len(toHost) + 1 /\ frame = "exit"
    BY <1>3, <2>1
  <2> QED
    BY <1>3, <2>2 DEF PtyInv, PtyPhases
<1>8. PtyExitInQueue'
  BY DEF PtyInv, PtyExitInQueue
<1>9. PtyNothingLost'
  <2> SUFFICES ASSUME ptyRoute, ptyClient = "on", output' # "failed"
               PROVE  shown + Count(ptyInbox, "output") + Count(toHost', "output")
                        + (IF output' = "send" THEN 1 ELSE 0) = readOut
    BY DEF PtyNothingLost
  <2>1. shown + Count(ptyInbox, "output") + Count(toHost, "output")
          + (IF output = "send" THEN 1 ELSE 0) = readOut
    BY DEF PtyInv, PtyNothingLost
  <2>2. CASE frame = "output" /\ output = "send" /\ output' = "read"
    BY <1>1, <1>4, <2>1, <2>2
  <2>3. CASE frame # "output" /\ output' = output
    BY <1>1, <1>4, <2>1, <2>3
  <2> QED
    BY <2>2, <2>3
<1>10. (ptyClient = "exit" => output = "ended" /\ shown = readOut)'
  BY DEF PtyInv
<1> QED
  BY <1>5, <1>7, <1>8, <1>9, <1>10 DEF PtyInv

\* The host's reader takes a frame, or the connection breaks.
LEMMA PtyHostReadsStep ==
  ASSUME PtyInv, PtyTypes', toHost # <<>>, toHost' = Tail(toHost),
         UNCHANGED <<shell, written, readOut, output, pty, devRoute, ptyClient, shown>>,
         \/ ~ptyRoute' /\ ptyInbox' = ptyInbox
         \/ /\ ptyRoute /\ ptyInbox' = Append(ptyInbox, Head(toHost))
            /\ ptyRoute' <=> Head(toHost) = "output"
  PROVE  PtyInv'
<1>1. /\ toHost \in Seq(PtyFrames) /\ Tail(toHost) \in Seq(PtyFrames)
      /\ Len(toHost) \in Nat \ {0} /\ Len(Tail(toHost)) = Len(toHost) - 1
      /\ Head(toHost) = toHost[1] /\ Head(toHost) \in PtyFrames
      /\ \A i \in 1..(Len(toHost) - 1) : Tail(toHost)[i] = toHost[i + 1]
  BY DEF PtyInv, PtyTypes
<1>2. /\ ptyInbox \in Seq(PtyFrames) /\ Len(ptyInbox) \in Nat
      /\ Len(Append(ptyInbox, Head(toHost))) = Len(ptyInbox) + 1
      /\ Append(ptyInbox, Head(toHost))[Len(ptyInbox) + 1] = Head(toHost)
      /\ \A i \in 1..Len(ptyInbox) : Append(ptyInbox, Head(toHost))[i] = ptyInbox[i]
  BY <1>1 DEF PtyInv, PtyTypes
<1> DEFINE one == IF Head(toHost) = "output" THEN 1 ELSE 0
<1>3. /\ Count(toHost, "output") = Count(toHost', "output") + one
      /\ Count(Append(ptyInbox, Head(toHost)), "output") = Count(ptyInbox, "output") + one
  BY <1>1, <1>2, CountTail, CountAppend
<1>4. /\ shown \in Nat /\ readOut \in Nat
      /\ Count(ptyInbox, "output") \in Nat /\ Count(toHost', "output") \in Nat
  BY <1>1, <1>2, PlacesFinite DEF PtyInv, PtyTypes
<1>5. OutputEnds' /\ PtyPhases'
  BY DEF PtyInv, OutputEnds, PtyPhases
<1>6. PtyExitOnWire'
  <2> SUFFICES ASSUME NEW i \in 1..Len(toHost'), toHost'[i] = "exit"
               PROVE  i = Len(toHost') /\ pty = "done" /\ output = "ended"
    BY DEF PtyExitOnWire
  <2>1. i + 1 \in 1..Len(toHost) /\ toHost[i + 1] = "exit"
    BY <1>1
  <2>2. i + 1 = Len(toHost) /\ pty = "done" /\ output = "ended"
    BY <2>1 DEF PtyInv, PtyExitOnWire
  <2>3. Len(toHost') = Len(toHost) - 1 /\ i \in Nat /\ Len(toHost) \in Nat
    BY <1>1
  <2> QED
    BY <2>2, <2>3
<1>7. PtyNothingLost'
  <2> SUFFICES ASSUME ptyRoute', ptyClient = "on", output # "failed"
               PROVE  shown + Count(ptyInbox', "output") + Count(toHost', "output")
                        + (IF output = "send" THEN 1 ELSE 0) = readOut
    BY DEF PtyNothingLost
  <2>1. ptyRoute /\ ptyInbox' = Append(ptyInbox, Head(toHost))
    OBVIOUS
  <2>2. shown + Count(ptyInbox, "output") + Count(toHost, "output")
          + (IF output = "send" THEN 1 ELSE 0) = readOut
    BY <2>1 DEF PtyInv, PtyNothingLost
  <2> QED
    BY <1>3, <1>4, <2>1, <2>2
<1>8. PtyExitInQueue'
  <2>1. CASE ~ptyRoute' /\ ptyInbox' = ptyInbox
    BY <2>1 DEF PtyInv, PtyExitInQueue
  <2>2. CASE ptyRoute /\ ptyInbox' = Append(ptyInbox, Head(toHost)) /\ (ptyRoute' <=> Head(toHost) = "output")
    <3> SUFFICES ASSUME NEW i \in 1..Len(ptyInbox'), ptyInbox'[i] = "exit"
                 PROVE  /\ i = Len(ptyInbox') /\ ~ptyRoute' /\ output = "ended"
                        /\ ptyClient = "on" => shown + Count(ptyInbox', "output") = readOut
      BY DEF PtyExitInQueue
    <3>1. i \notin 1..Len(ptyInbox)
      BY <1>2, <2>2 DEF PtyInv, PtyExitInQueue
    <3>2. i = Len(ptyInbox') /\ Head(toHost) = "exit" /\ ~ptyRoute'
      BY <1>2, <2>2, <3>1
    <3>3. Len(toHost) = 1 /\ output = "ended"
      <4>1. 1 \in 1..Len(toHost) /\ toHost[1] = "exit"
        BY <1>1, <3>2
      <4> QED
        BY <4>1 DEF PtyInv, PtyExitOnWire
    <3>4. Count(toHost', "output") = 0
      <4>1. Len(Tail(toHost)) = 0
        BY <1>1, <3>3
      <4>2. Tail(toHost) = <<>>
        BY <1>1, <4>1, EmptySeq
      <4> QED
        BY <4>2, CountEmpty
    <3>5. one = 0
      BY <3>2
    <3>6. ptyClient = "on" =>
            shown + Count(ptyInbox, "output") + Count(toHost, "output") + 0 = readOut
      BY <2>2, <3>3 DEF PtyInv, PtyNothingLost
    <3> HIDE DEF one
    <3>7. ptyClient = "on" => shown + Count(ptyInbox', "output") = readOut
      BY <1>3, <1>4, <2>2, <3>4, <3>5, <3>6
    <3> QED
      BY <3>2, <3>3, <3>7
  <2> QED
    BY <2>1, <2>2
<1>9. (ptyClient = "exit" => output = "ended" /\ shown = readOut)'
  BY DEF PtyInv
<1> QED
  BY <1>5, <1>6, <1>7, <1>8, <1>9 DEF PtyInv

\* device_to_local passes a frame on.
LEMMA PtyPassesStep == ASSUME PtyInv, PtyTypes', P!PassesOn PROVE PtyInv'
<1> DEFINE frame == Head(ptyInbox)
<1>1. /\ UNCHANGED <<shell, written, readOut, output, pty, devRoute, toHost, ptyRoute>>
      /\ ptyInbox # <<>> /\ ptyInbox' = Tail(ptyInbox)
      /\ shown' = shown + (IF ptyClient = "on" /\ frame = "output" THEN 1 ELSE 0)
      /\ ptyClient' = (IF ptyClient = "on" /\ frame # "output" THEN frame ELSE ptyClient)
  BY DEF P!PassesOn, P!device, P!terminal, P!stream, PtyInv, PtyTypes
<1>2. /\ ptyInbox \in Seq(PtyFrames) /\ Tail(ptyInbox) \in Seq(PtyFrames)
      /\ Len(ptyInbox) \in Nat \ {0} /\ Len(Tail(ptyInbox)) = Len(ptyInbox) - 1
      /\ frame = ptyInbox[1] /\ frame \in PtyFrames
      /\ \A i \in 1..(Len(ptyInbox) - 1) : Tail(ptyInbox)[i] = ptyInbox[i + 1]
  BY <1>1 DEF PtyInv, PtyTypes
<1>3. Count(ptyInbox, "output") = Count(Tail(ptyInbox), "output") + (IF frame = "output" THEN 1 ELSE 0)
  BY <1>1, <1>2, CountTail
<1>4. /\ shown \in Nat /\ readOut \in Nat
      /\ Count(Tail(ptyInbox), "output") \in Nat /\ Count(toHost, "output") \in Nat
  BY <1>2, PlacesFinite DEF PtyInv, PtyTypes
<1> HIDE DEF frame
<1>5. OutputEnds' /\ PtyPhases' /\ PtyExitOnWire'
  BY <1>1 DEF PtyInv, OutputEnds, PtyPhases, PtyExitOnWire
<1>6. ptyClient' = "on" => ptyClient = "on"
  BY <1>1, <1>2 DEF PtyFrames
<1>7. ptyClient' = "on" => shown' + Count(ptyInbox', "output") = shown + Count(ptyInbox, "output")
  BY <1>1, <1>3, <1>4, <1>6
<1>8. shown' \in Nat /\ Count(ptyInbox', "output") \in Nat /\ Count(ptyInbox, "output") \in Nat
  BY <1>1, <1>3, <1>4
<1>9. PtyNothingLost'
  BY <1>1, <1>4, <1>6, <1>7, <1>8 DEF PtyInv, PtyNothingLost
<1>10. PtyExitInQueue'
  <2> SUFFICES ASSUME NEW i \in 1..Len(ptyInbox'), ptyInbox'[i] = "exit"
               PROVE  /\ i = Len(ptyInbox') /\ ~ptyRoute' /\ output' = "ended"
                      /\ ptyClient' = "on" => shown' + Count(ptyInbox', "output") = readOut'
    BY DEF PtyExitInQueue
  <2>1. i + 1 \in 1..Len(ptyInbox) /\ ptyInbox[i + 1] = "exit"
    BY <1>1, <1>2
  <2>2. /\ i + 1 = Len(ptyInbox) /\ ~ptyRoute /\ output = "ended"
        /\ ptyClient = "on" => shown + Count(ptyInbox, "output") = readOut
    BY <2>1 DEF PtyInv, PtyExitInQueue
  <2>3. Len(ptyInbox') = Len(ptyInbox) - 1 /\ i \in Nat /\ Len(ptyInbox) \in Nat
    BY <1>1, <1>2
  <2>4. i = Len(ptyInbox')
    BY <2>2, <2>3
  <2> QED
    BY <1>1, <1>6, <1>7, <2>2, <2>4
<1>11. (ptyClient = "exit" => output = "ended" /\ shown = readOut)'
  <2>1. CASE ptyClient = "exit"
    BY <1>1, <1>4, <2>1 DEF PtyInv
  <2>2. CASE ptyClient = "on" /\ frame = "exit"
    <3>1. /\ Len(ptyInbox) = 1 /\ output = "ended"
          /\ shown + Count(ptyInbox, "output") = readOut
      <4>1. 1 \in 1..Len(ptyInbox) /\ ptyInbox[1] = "exit"
        BY <1>2, <2>2
      <4> QED
        BY <2>2, <4>1 DEF PtyInv, PtyExitInQueue
    <3>2. Tail(ptyInbox) = <<>>
      <4>1. Len(Tail(ptyInbox)) = 0
        BY <1>2, <3>1
      <4> QED
        BY <1>2, <4>1, EmptySeq
    <3>3. Count(Tail(ptyInbox), "output") = 0 /\ frame # "output"
      BY <2>2, <3>2, CountEmpty
    <3>4. Count(ptyInbox, "output") = 0
      BY <1>3, <3>3
    <3> QED
      BY <1>1, <1>4, <2>2, <3>1, <3>4
  <2> QED
    BY <1>1, <2>1, <2>2
<1> QED
  BY <1>5, <1>9, <1>10, <1>11 DEF PtyInv

\* Steps that end the stream or the client.
LEMMA PtyEndStep ==
  ASSUME PtyInv, PtyTypes', UNCHANGED <<shell, written, readOut, output, pty, devRoute, ptyInbox, shown>>,
         toHost' = toHost \/ (toHost' = <<>> /\ ~ptyRoute'),
         ptyRoute' => ptyRoute, ptyClient' \in {"gone", "error", ptyClient}
  PROVE  PtyInv'
<1>1. OutputEnds' /\ PtyPhases' /\ PtyExitOnWire' /\ PtyExitInQueue' /\ PtyNothingLost'
  BY DEF PtyInv, OutputEnds, PtyPhases, PtyExitOnWire, PtyExitInQueue, PtyNothingLost
<1> QED
  BY <1>1 DEF PtyInv

LEMMA PtyStep == PtyInv /\ [P!Next]_ptyVars => PtyInv'
<1> SUFFICES ASSUME PtyInv, [P!Next]_ptyVars PROVE PtyInv'
  OBVIOUS
<1>1. PtyTypes'
  BY PtyTypesKept DEF PtyInv
<1>2. CASE P!Input
  <2>1. /\ UNCHANGED <<toHost, ptyInbox, ptyClient, shown, ptyRoute, devRoute, output, readOut, pty, written>>
        /\ shell' \in {shell, "dead"}
    BY <1>2 DEF P!Input, P!TakesInput, P!WritesInput, P!TakesOther, P!TakesClose, P!TakesNothing,
                P!SeesDone, P!InputRest, P!stream, P!host, P!user
  <2>2. output = "ended" => shell' = "dead"
    BY <2>1 DEF PtyInv, OutputEnds
  <2> QED
    BY <1>1, <2>1, <2>2, PtyQuietStep
<1>3. CASE P!ReadsOutput \/ P!ReadsEnd \/ P!JoinsBoth
  BY <1>1, <1>3, PtyQuietStep
     DEF P!ReadsOutput, P!ReadsEnd, P!JoinsBoth, P!OutputRest, P!stream, P!host, P!user
<1>4. CASE P!SendsOutput
  <2>1. CASE output' = "failed" /\ UNCHANGED toHost
    BY <1>1, <1>4, <2>1, PtyQuietStep DEF P!SendsOutput, P!OutputRest, P!stream, P!host, P!user
  <2>2. CASE output' = "read" /\ toHost' = Append(toHost, "output") /\ UNCHANGED shell
    <3>1. "output" \in PtyFrames
      BY DEF PtyFrames
    <3> QED
      BY <1>1, <1>4, <2>2, <3>1, PtySendStep DEF P!SendsOutput, P!OutputRest, P!stream, P!host, P!user
  <2> QED
    BY <1>4, <2>1, <2>2 DEF P!SendsOutput
<1>5. CASE P!Reports
  <2>1. /\ UNCHANGED <<shell, written, readOut, output, ptyRoute, ptyInbox, ptyClient, shown>>
        /\ pty \in {"wait", "error"} /\ pty' = "done" /\ ~devRoute'
    BY <1>5 DEF P!Reports, P!terminal, P!host, P!user
  <2>2. CASE toHost' = toHost
    BY <1>1, <2>1, <2>2, PtyQuietStep
  <2>3. CASE toHost' = Append(toHost, IF pty = "wait" THEN "exit" ELSE "error")
    <3>1. {"exit", "error"} \subseteq PtyFrames
      BY DEF PtyFrames
    <3> QED
      BY <1>1, <2>1, <2>3, <3>1, PtySendStep
  <2> QED
    BY <1>5, <2>2, <2>3 DEF P!Reports
<1>6. CASE P!HostReads
  <2>1. /\ toHost # <<>> /\ toHost' = Tail(toHost)
        /\ UNCHANGED <<shell, written, readOut, output, pty, devRoute, ptyClient, shown>>
    BY <1>6 DEF P!HostReads, P!device, P!terminal, P!stream, P!user
  <2>2. \/ ~ptyRoute' /\ ptyInbox' = ptyInbox
        \/ /\ ptyRoute /\ ptyInbox' = Append(ptyInbox, Head(toHost))
           /\ ptyRoute' <=> Head(toHost) = "output"
    BY <1>6 DEF P!HostReads, P!Cancels
  <2> QED
    BY <1>1, <2>1, <2>2, PtyHostReadsStep
<1>7. CASE P!DeviceReads
  <2>1. /\ UNCHANGED <<shell, written, readOut, output, pty, ptyRoute, ptyInbox, ptyClient, shown>>
        /\ devRoute' => devRoute
        /\ toHost' = toHost \/ (devRoute /\ toHost' = Append(toHost, "cancel"))
    BY <1>7 DEF P!DeviceReads, P!device, P!terminal, P!host, P!user
  <2>2. output = "ended" => shell = "dead" /\ "cancel" \in PtyFrames
    BY DEF PtyInv, OutputEnds, PtyFrames
  <2>3. CASE toHost' = toHost
    BY <1>1, <2>1, <2>2, <2>3, PtyQuietStep
  <2>4. CASE devRoute /\ toHost' = Append(toHost, "cancel")
    <3>1. "cancel" \in PtyFrames
      BY DEF PtyFrames
    <3> QED
      BY <1>1, <2>1, <2>4, <3>1, PtySendStep
  <2> QED
    BY <2>1, <2>3, <2>4
<1>8. CASE P!Teardown \/ P!ShellWrites \/ P!ShellChanges
  <2>1. output = "ended" => shell = "dead"
    BY DEF PtyInv, OutputEnds
  <2> QED
    BY <1>1, <1>8, <2>1, PtyQuietStep
       DEF P!Teardown, P!ShellWrites, P!ShellChanges, P!device, P!terminal, P!stream, P!host, P!user
<1>9. CASE P!LinkBreaks \/ P!SeesClientGone \/ P!StreamEnds \/ P!GraceOver \/ P!Types
             \/ P!ClientQuits \/ UNCHANGED ptyVars
  <2>1. /\ UNCHANGED <<shell, written, readOut, output, pty, devRoute, ptyInbox, shown>>
        /\ toHost' = toHost \/ (toHost' = <<>> /\ ~ptyRoute')
        /\ ptyRoute' => ptyRoute
    BY <1>9
       DEF P!LinkBreaks, P!SeesClientGone, P!StreamEnds, P!GraceOver, P!Types, P!ClientQuits, P!Cancels,
           ptyVars, P!device, P!terminal, P!stream, P!host, P!user
  <2>2. ptyClient' \in {"gone", "error", ptyClient}
    BY <1>9
       DEF P!LinkBreaks, P!SeesClientGone, P!StreamEnds, P!GraceOver, P!Types, P!ClientQuits,
           ptyVars, P!user
  <2> QED
    BY <1>1, <2>1, <2>2, PtyEndStep
<1> QED
  BY <1>1, <1>2, <1>3, <1>4, <1>5, <1>6, <1>7, <1>8, <1>9, PtyPassesStep
     DEF P!Next, P!Output, P!Finish, P!HostPty, P!Network

-----------------------------------------------------------------------------
LEMMA ExecStart == E!Init => ExecInv
<1> SUFFICES ASSUME E!Init PROVE ExecInv
  OBVIOUS
<1>1. \A p \in E!Pipes : printed[p] = 0 /\ pipe[p].read = 0 /\ p # "read"
  BY DEF E!Init, E!Pipes
<1>2. ExecTypes
  <2>1. <<>> \in Seq(ExecFrames)
    OBVIOUS
  <2> QED
    BY <2>1 DEF E!Init, ExecTypes
<1>3. NothingLost
  BY <1>1, CountEmpty DEF E!Init, NothingLost, Sending
<1> QED
  BY <1>2, <1>3 DEF E!Init, ExecInv, RouteEnds, ExitOnWire, ExitInQueue

LEMMA PtyStart == P!Init => PtyInv
<1> SUFFICES ASSUME P!Init PROVE PtyInv
  OBVIOUS
<1>1. PtyTypes
  <2>1. <<>> \in Seq(PtyFrames)
    OBVIOUS
  <2> QED
    BY <2>1 DEF P!Init, PtyTypes
<1>2. PtyNothingLost
  BY CountEmpty DEF P!Init, PtyNothingLost
<1> QED
  BY <1>1, <1>2
     DEF P!Init, PtyInv, OutputEnds, PtyPhases, PtyExitOnWire, PtyExitInQueue

\* A client that is given an exit code has shown all the output there was, of a
\* command's two pipes or of a shell's terminal, for any amount of output, any
\* room in any queue, and whatever is canceled or breaks when (handle_exec,
\* handle_pty, handle_control_exec_stream, handle_control_pty).
THEOREM ExitIsTheEnd == Spec => []ExitMeansAll
<1>1. Init => ExecInv /\ PtyInv
  BY ExecStart, PtyStart DEF Init
<1>2. ExecInv /\ PtyInv /\ [Next]_vars => (ExecInv /\ PtyInv)'
  <2>1. [Next]_vars => [E!Next]_execVars /\ [P!Next]_ptyVars
    BY DEF Next, vars, Exec, Pty, Clipboard, Proxy, Tunnel
  <2> QED
    BY <2>1, ExecStep, PtyStep
<1>3. ExecInv /\ PtyInv => ExitMeansAll
  <2>1. ExecInv => E!ExitMeansAll
    BY DEF ExecInv, ExecTypes, E!ExitMeansAll, Eof, E!AtEof
  <2>2. PtyInv => P!PtyExitMeansAll
    BY DEF PtyInv, OutputEnds, P!PtyExitMeansAll
  <2> QED
    BY <2>1, <2>2 DEF ExitMeansAll
<1> QED
  BY <1>1, <1>2, <1>3, PTL DEF Spec

-----------------------------------------------------------------------------
(***************************************************************************)
(* Tunneled connections: both directions of both ends.                     *)
(***************************************************************************)
TunnelTypes ==
    /\ stageOf \in [T!Sides -> {"none", "dial", "hello", "run", "ok", "failed"}]
    /\ app \in [T!Sides -> {"open", "ended", "gone"}]
    /\ wrote \in [T!Sides -> Nat] /\ taken \in [T!Sides -> Nat] /\ given \in [T!Sides -> Nat]
    /\ up \in [T!Sides -> {"read", "send", "end", "done"}]
    /\ down \in [T!Sides -> {"read", "write", "done"}]
    /\ tunnel \in [T!Sides -> Seq({"data", "end"})]
    /\ shut \in [T!Sides -> BOOLEAN] /\ cut \in BOOLEAN

EndSent(e) == \E i \in 1..Len(tunnel[e]) : tunnel[e][i] = "end"
One(b)     == IF b THEN 1 ELSE 0

\* What e gets from its other end, and where it is.
UploadOK(e) == up[e] \in {"end", "done"} => taken[e] = wrote[e] /\ app[e] # "open"
EndOK(e) ==
    LET a == T!Across(e)
    IN  /\ \A i \in 1..Len(tunnel[e]) : tunnel[e][i] = "end" => i = Len(tunnel[e]) /\ up[a] = "done"
        /\ down[e] = "done" =>
              /\ up[a] = "done" /\ tunnel[e] = <<>> /\ shut[e]
              /\ app[e] # "gone" => given[e] = taken[a]
        /\ up[a] = "done" /\ ~cut /\ stageOf[e] # "failed" => EndSent(e) \/ down[e] = "done"
DataOK(e) ==
    LET a == T!Across(e)
    IN  stageOf[e] # "failed" /\ ~cut /\ app[e] # "gone" =>
          given[e] + One(down[e] = "write") + Count(tunnel[e], "data") + One(up[a] = "send") = taken[a]
StageOK(e) ==
    /\ stageOf[e] = "ok" => up[e] = "done" /\ down[e] = "done"
    /\ stageOf[e] \in {"run", "ok"} => stageOf[T!Across(e)] \in {"run", "ok", "failed"}
    /\ stageOf[e] \in {"none", "dial", "hello"} => up[e] = "read" /\ down[e] = "read"

TunnelInv ==
    /\ TunnelTypes /\ T!HalfCloseKept /\ (cut => \A e \in T!Sides : tunnel[e] = <<>>)
    /\ \A e \in T!Sides : UploadOK(e) /\ EndOK(e) /\ DataOK(e) /\ StageOK(e)

\* What a step may do to the direction from a to e.
Still(a, e) ==
    /\ up'[a] = up[a] /\ taken'[a] = taken[a] /\ tunnel'[e] = tunnel[e]
    /\ down'[e] = down[e] /\ given'[e] = given[e] /\ shut'[e] = shut[e]
Sender(a, e, from, to) ==
    /\ up[a] = from /\ up'[a] = to
    /\ down'[e] = down[e] /\ given'[e] = given[e] /\ shut'[e] = shut[e]
Reader(a, e, from, to) ==
    down[e] = from /\ down'[e] = to /\ up'[a] = up[a] /\ taken'[a] = taken[a]
Takes(a, e) ==
    Sender(a, e, "read", "send") /\ taken'[a] = taken[a] + 1 /\ tunnel'[e] = tunnel[e]
SeesEnd(a, e) ==
    /\ Sender(a, e, "read", "end") /\ taken'[a] = taken[a] /\ tunnel'[e] = tunnel[e]
    /\ taken[a] = wrote[a] /\ app[a] # "open"
Sends(a, e, record, from, to) ==
    /\ Sender(a, e, from, to) /\ taken'[a] = taken[a]
    /\ \/ tunnel'[e] = Append(tunnel[e], record)
       \/ tunnel'[e] = tunnel[e] /\ (cut \/ stageOf[e] \in {"ok", "failed"})
Gets(a, e, record, to) ==
    /\ Reader(a, e, "read", to) /\ given'[e] = given[e] /\ stageOf[e] = "run"
    /\ tunnel[e] # <<>> /\ Head(tunnel[e]) = record /\ tunnel'[e] = Tail(tunnel[e])
    /\ shut'[e] = (record = "end")
Gives(a, e) ==
    /\ Reader(a, e, "write", "read") /\ tunnel'[e] = tunnel[e] /\ shut'[e] = shut[e]
    /\ given'[e] = (IF app[e] = "gone" THEN given[e] ELSE given[e] + 1)
Breaks(a, e) ==
    /\ up'[a] = up[a] /\ taken'[a] = taken[a] /\ tunnel'[e] = <<>> /\ cut'
    /\ down'[e] = down[e] /\ given'[e] = given[e] /\ shut'[e] = shut[e]

Moves(a, e) ==
    \/ Still(a, e) \/ Takes(a, e) \/ SeesEnd(a, e)
    \/ Sends(a, e, "data", "send", "read") \/ Sends(a, e, "end", "end", "done")
    \/ Gets(a, e, "data", "write") \/ Gets(a, e, "end", "done") \/ Gives(a, e)
    \/ Breaks(a, e)

\* ... and to an end's application and to how far it has come.
Ages(e) ==
    /\ app[e] # "open" => app'[e] # "open" /\ wrote'[e] = wrote[e]
    /\ app[e] = "gone" => app'[e] = "gone"
    /\ stageOf[e] \in {"ok", "failed"} => stageOf'[e] = stageOf[e]
    /\ cut => cut'
    /\ cut' # cut => tunnel' = [d \in T!Sides |-> <<>>]

LEMMA Across ==
  \A e \in T!Sides : /\ T!Across(e) \in T!Sides /\ T!Across(T!Across(e)) = e /\ T!Across(e) # e
                     /\ \A d \in T!Sides : d = e \/ d = T!Across(e)
BY DEF T!Sides, T!Across

LEMMA TunnelMoves ==
  TunnelTypes /\ [T!TunnelNext]_tunnelVars => \A e \in T!Sides : Moves(T!Across(e), e)
<1> SUFFICES ASSUME TunnelTypes, [T!TunnelNext]_tunnelVars, NEW e \in T!Sides
             PROVE  Moves(T!Across(e), e)
  OBVIOUS
<1> DEFINE a == T!Across(e)
<1>1. /\ a \in T!Sides /\ a # e /\ T!Across(a) = e
      /\ \A d \in T!Sides : d = e \/ d = a
  BY Across
<1>2. /\ DOMAIN taken = T!Sides /\ DOMAIN given = T!Sides /\ DOMAIN up = T!Sides
      /\ DOMAIN down = T!Sides /\ DOMAIN tunnel = T!Sides /\ DOMAIN shut = T!Sides
      /\ tunnel[e] \in Seq({"data", "end"})
  BY DEF TunnelTypes
<1> HIDE DEF a
<1>3. CASE UNCHANGED <<taken, up, down, tunnel, given, shut>>
  BY <1>3 DEF Moves, Still, a
<1>4. CASE T!UploadReads(a)
  BY <1>1, <1>2, <1>3, <1>4 DEF T!UploadReads, T!Fails, Moves, Takes, SeesEnd, Sender, a
<1>5. CASE T!UploadReads(e)
  BY <1>1, <1>2, <1>3, <1>5 DEF T!UploadReads, T!Fails, Moves, Still, a
<1>6. CASE T!UploadSends(a)
  <2>1. CASE T!Fails(a)
    BY <1>3, <2>1 DEF T!Fails
  <2>2. CASE up[a] = "send" /\ ~T!Fails(a)
    BY <1>1, <1>2, <1>6, <2>2 DEF T!UploadSends, T!Over, Moves, Sends, Sender, a
  <2>3. CASE up[a] = "end" /\ ~T!Fails(a)
    BY <1>1, <1>2, <1>6, <2>3 DEF T!UploadSends, T!Over, Moves, Sends, Sender, a
  <2> QED
    BY <1>6, <2>1, <2>2, <2>3 DEF T!UploadSends
<1>7. CASE T!UploadSends(e)
  BY <1>1, <1>2, <1>3, <1>7 DEF T!UploadSends, T!Fails, Moves, Still, a
<1>8. CASE T!DownloadReads(e)
  <2>1. CASE T!Fails(e)
    BY <1>3, <2>1 DEF T!Fails
  <2>2. CASE ~T!Fails(e)
    <3>1. Head(tunnel[e]) \in {"data", "end"}
      BY <1>2, <1>8, <2>2 DEF T!DownloadReads
    <3> QED
      BY <1>1, <1>2, <1>8, <2>2, <3>1 DEF T!DownloadReads, T!Runs, Moves, Gets, Reader, a
  <2> QED
    BY <2>1, <2>2
<1>9. CASE T!DownloadReads(a)
  BY <1>1, <1>2, <1>3, <1>9 DEF T!DownloadReads, T!Fails, Moves, Still, a
<1>10. CASE T!DownloadWrites(e)
  BY <1>1, <1>2, <1>3, <1>10 DEF T!DownloadWrites, T!Fails, Moves, Gives, Reader, a
<1>11. CASE T!DownloadWrites(a)
  BY <1>1, <1>2, <1>3, <1>11 DEF T!DownloadWrites, T!Fails, Moves, Still, a
<1>12. CASE T!TunnelBreaks
  BY <1>12 DEF T!TunnelBreaks, Moves, Breaks, a
<1>13. CASE T!Handshakes \/ \E d \in T!Sides : T!BothDone(d) \/ T!AppWrites(d) \/ T!AppChanges(d)
  BY <1>3, <1>13 DEF T!Handshakes, T!Dial, T!ReachTarget, T!Agree, T!HelloFails,
                     T!BothDone, T!AppWrites, T!AppChanges
<1> QED
  BY <1>1, <1>3, <1>4, <1>5, <1>6, <1>7, <1>8, <1>9, <1>10, <1>11, <1>12, <1>13
     DEF T!TunnelNext, T!Upload, T!Download, tunnelVars

LEMMA TunnelAges ==
  TunnelTypes /\ [T!TunnelNext]_tunnelVars => \A e \in T!Sides : Ages(e)
<1> SUFFICES ASSUME TunnelTypes, [T!TunnelNext]_tunnelVars, NEW e \in T!Sides PROVE Ages(e)
  OBVIOUS
<1>1. DOMAIN stageOf = T!Sides /\ DOMAIN app = T!Sides /\ DOMAIN wrote = T!Sides
  BY DEF TunnelTypes
<1>2. ASSUME UNCHANGED <<app, wrote, cut>>, NEW d \in T!Sides,
             stageOf' = stageOf \/ (T!Runs(d) /\ \E s \in {"ok", "failed"} : T!Stage(d, s))
      PROVE  Ages(e)
  BY <1>1, <1>2 DEF T!Runs, T!Stage, Ages
<1>3. ASSUME NEW d \in T!Sides, T!Upload(d) \/ T!Download(d) \/ T!BothDone(d) PROVE Ages(e)
  BY <1>2, <1>3 DEF T!Upload, T!Download, T!BothDone, T!UploadReads, T!UploadSends,
                    T!DownloadReads, T!DownloadWrites, T!Fails
<1>4. ASSUME NEW d \in T!Sides, T!AppWrites(d) \/ T!AppChanges(d) PROVE Ages(e)
  BY <1>1, <1>4 DEF T!AppWrites, T!AppChanges, Ages
<1>5. CASE T!Handshakes
  <2>1. UNCHANGED <<app, wrote, cut>>
    BY <1>5 DEF T!Handshakes, T!Dial, T!ReachTarget, T!Agree, T!HelloFails
  <2>2. stageOf[e] \in {"ok", "failed"} => stageOf'[e] = stageOf[e]
    BY <1>1, <1>5 DEF T!Handshakes, T!Dial, T!ReachTarget, T!Agree, T!HelloFails, T!Stage, T!Sides
  <2> QED
    BY <2>1, <2>2 DEF Ages
<1>6. CASE T!TunnelBreaks \/ UNCHANGED tunnelVars
  BY <1>6 DEF T!TunnelBreaks, tunnelVars, Ages
<1> QED
  BY <1>3, <1>4, <1>5, <1>6 DEF T!TunnelNext

LEMMA TunnelTypesKept == TunnelTypes /\ [T!TunnelNext]_tunnelVars => TunnelTypes'
<1> SUFFICES ASSUME TunnelTypes, [T!TunnelNext]_tunnelVars PROVE TunnelTypes'
  OBVIOUS
<1>1. ASSUME UNCHANGED <<wrote, taken, given, tunnel, shut, cut, up, down>>,
             stageOf' \in [T!Sides -> {"none", "dial", "hello", "run", "ok", "failed"}],
             app' \in [T!Sides -> {"open", "ended", "gone"}]
      PROVE  TunnelTypes'
  BY <1>1 DEF TunnelTypes
<1>2. ASSUME NEW d \in T!Sides, NEW s \in {"hello", "run", "ok", "failed"}, T!Stage(d, s),
             UNCHANGED <<wrote, taken, given, tunnel, shut, cut, up, down, app>>
      PROVE  TunnelTypes'
  <2>1. stageOf' \in [T!Sides -> {"none", "dial", "hello", "run", "ok", "failed"}]
    BY <1>2 DEF TunnelTypes, T!Stage
  <2> QED
    BY <1>2, <2>1 DEF TunnelTypes
<1>3. /\ \A d \in T!Sides : /\ taken[d] + 1 \in Nat /\ wrote[d] + 1 \in Nat /\ given[d] + 1 \in Nat
                            /\ tunnel[d] \in Seq({"data", "end"})
                            /\ \A r \in {"data", "end"} : Append(tunnel[d], r) \in Seq({"data", "end"})
                            /\ tunnel[d] # <<>> => Tail(tunnel[d]) \in Seq({"data", "end"})
      /\ <<>> \in Seq({"data", "end"})
  BY DEF TunnelTypes
<1>4. ASSUME NEW d \in T!Sides, T!UploadReads(d) PROVE TunnelTypes'
  <2>1. CASE T!Fails(d)
    BY <1>2, <1>4, <2>1 DEF T!UploadReads, T!Fails
  <2>2. CASE ~T!Fails(d)
    BY <1>3, <1>4, <2>2 DEF T!UploadReads, TunnelTypes
  <2> QED
    BY <2>1, <2>2
<1>5. ASSUME NEW d \in T!Sides, T!UploadSends(d) PROVE TunnelTypes'
  <2>1. CASE T!Fails(d)
    BY <1>2, <1>5, <2>1 DEF T!UploadSends, T!Fails
  <2>2. CASE ~T!Fails(d)
    <3>1. up' \in [T!Sides -> {"read", "send", "end", "done"}]
      BY <1>5, <2>2 DEF T!UploadSends, TunnelTypes
    <3>2. tunnel' \in [T!Sides -> Seq({"data", "end"})]
      <4>1. PICK r \in {"data", "end"} :
              tunnel' = tunnel \/ tunnel' = [tunnel EXCEPT ![T!Across(d)] = Append(@, r)]
        BY <1>5, <2>2 DEF T!UploadSends
      <4>2. T!Across(d) \in T!Sides /\ Append(tunnel[T!Across(d)], r) \in Seq({"data", "end"})
        BY <1>3, Across
      <4> QED
        BY <4>1, <4>2 DEF TunnelTypes
    <3>3. UNCHANGED <<stageOf, taken, down, given, shut, app, wrote, cut>>
      BY <1>5, <2>2 DEF T!UploadSends
    <3> QED
      BY <3>1, <3>2, <3>3 DEF TunnelTypes
  <2> QED
    BY <2>1, <2>2
<1>6. ASSUME NEW d \in T!Sides, T!Download(d) PROVE TunnelTypes'
  <2>1. CASE T!Fails(d)
    BY <1>2, <1>6, <2>1 DEF T!Download, T!DownloadReads, T!DownloadWrites, T!Fails
  <2>2. CASE ~T!Fails(d) /\ T!DownloadReads(d)
    <3>1. tunnel' \in [T!Sides -> Seq({"data", "end"})]
      BY <1>3, <2>2 DEF T!DownloadReads, TunnelTypes
    <3>2. down' \in [T!Sides -> {"read", "write", "done"}] /\ shut' \in [T!Sides -> BOOLEAN]
      BY <2>2 DEF T!DownloadReads, TunnelTypes
    <3>3. UNCHANGED <<stageOf, taken, up, given, app, wrote, cut>>
      BY <2>2 DEF T!DownloadReads
    <3> QED
      BY <3>1, <3>2, <3>3 DEF TunnelTypes
  <2>3. CASE ~T!Fails(d) /\ T!DownloadWrites(d)
    <3>1. given' \in [T!Sides -> Nat]
      <4>1. PICK n \in {given[d], given[d] + 1} : given' = [given EXCEPT ![d] = n]
        BY <2>3 DEF T!DownloadWrites
      <4>2. n \in Nat
        BY <1>3, <4>1 DEF TunnelTypes
      <4> QED
        BY <4>1, <4>2 DEF TunnelTypes
    <3>2. down' \in [T!Sides -> {"read", "write", "done"}]
      <4>1. down' = [down EXCEPT ![d] = "read"]
        BY <2>3 DEF T!DownloadWrites
      <4> QED
        BY <4>1 DEF TunnelTypes
    <3> QED
      BY <2>3, <3>1, <3>2 DEF T!DownloadWrites, TunnelTypes
  <2> QED
    BY <1>6, <2>1, <2>2, <2>3 DEF T!Download
<1>7. ASSUME NEW d \in T!Sides, T!BothDone(d) PROVE TunnelTypes'
  BY <1>2, <1>7 DEF T!BothDone
<1>8. ASSUME NEW d \in T!Sides, T!AppWrites(d) PROVE TunnelTypes'
  BY <1>3, <1>8 DEF T!AppWrites, TunnelTypes
<1>9. ASSUME NEW d \in T!Sides, T!AppChanges(d) PROVE TunnelTypes'
  <2>1. app' \in [T!Sides -> {"open", "ended", "gone"}]
    BY <1>9 DEF T!AppChanges, TunnelTypes
  <2> QED
    BY <1>9, <2>1 DEF T!AppChanges, TunnelTypes
<1>10. CASE T!Handshakes
  <2>1. UNCHANGED <<app, wrote, taken, up, down, tunnel, given, shut, cut>>
    BY <1>10 DEF T!Handshakes, T!Dial, T!ReachTarget, T!Agree, T!HelloFails
  <2>2. stageOf' \in [T!Sides -> {"none", "dial", "hello", "run", "ok", "failed"}]
    BY <1>10 DEF T!Handshakes, T!Dial, T!ReachTarget, T!Agree, T!HelloFails, T!Stage, T!Sides, TunnelTypes
  <2> QED
    BY <2>1, <2>2 DEF TunnelTypes
<1>11. CASE T!TunnelBreaks
  BY <1>3, <1>11 DEF T!TunnelBreaks, TunnelTypes
<1>12. CASE UNCHANGED tunnelVars
  BY <1>12 DEF tunnelVars, TunnelTypes
<1> QED
  BY <1>4, <1>5, <1>6, <1>7, <1>8, <1>9, <1>10, <1>11, <1>12
     DEF T!TunnelNext, T!Upload

LEMMA TunnelUploads ==
  TunnelInv /\ [T!TunnelNext]_tunnelVars => \A e \in T!Sides : UploadOK(e)'
<1> SUFFICES ASSUME TunnelInv, [T!TunnelNext]_tunnelVars, NEW e \in T!Sides
             PROVE  UploadOK(e)'
  OBVIOUS
<1> DEFINE d == T!Across(e)
<1>1. d \in T!Sides /\ T!Across(d) = e
  BY Across
<1>2. Moves(e, d) /\ Ages(e)
  BY <1>1, TunnelMoves, TunnelAges DEF TunnelInv
<1>3. UploadOK(e)
  BY DEF TunnelInv
<1> HIDE DEF d
<1> QED
  BY <1>2, <1>3 DEF UploadOK, Moves, Ages, Still, Sender, Reader, Takes, SeesEnd, Sends, Gets, Gives, Breaks

LEMMA TunnelData ==
  TunnelInv /\ [T!TunnelNext]_tunnelVars => \A e \in T!Sides : DataOK(e)'
<1> SUFFICES ASSUME TunnelInv, [T!TunnelNext]_tunnelVars, NEW e \in T!Sides,
                    stageOf'[e] # "failed", ~cut', app'[e] # "gone"
             PROVE  given'[e] + One(down'[e] = "write") + Count(tunnel'[e], "data")
                      + One(up'[T!Across(e)] = "send") = taken'[T!Across(e)]
  BY DEF DataOK
<1> DEFINE a == T!Across(e)
<1>1. a \in T!Sides
  BY Across
<1>2. Moves(a, e) /\ Ages(e)
  BY TunnelMoves, TunnelAges DEF TunnelInv
<1>3. stageOf[e] # "failed" /\ ~cut /\ app[e] # "gone"
  BY <1>2 DEF Ages
<1>4. given[e] + One(down[e] = "write") + Count(tunnel[e], "data") + One(up[a] = "send") = taken[a]
  BY <1>3 DEF TunnelInv, DataOK
<1>5. given[e] \in Nat /\ taken[a] \in Nat /\ tunnel[e] \in Seq({"data", "end"})
  BY <1>1 DEF TunnelInv, TunnelTypes
<1>6. Count(tunnel[e], "data") \in Nat
  BY <1>5, PlacesFinite
<1>7. stageOf[e] = "ok" => up[a] = "done"
  BY DEF TunnelInv, StageOK, EndOK
<1> HIDE DEF a
<1>8. \A r \in {"data", "end"} : tunnel'[e] = Append(tunnel[e], r)
        => Count(tunnel'[e], "data") = Count(tunnel[e], "data") + One(r = "data")
  BY <1>5, CountAppend DEF One
<1>9. tunnel[e] # <<>> /\ tunnel'[e] = Tail(tunnel[e])
        => /\ Count(tunnel[e], "data") = Count(tunnel'[e], "data") + One(Head(tunnel[e]) = "data")
           /\ Count(tunnel'[e], "data") \in Nat
  <2>1. ASSUME tunnel[e] # <<>> PROVE Tail(tunnel[e]) \in Seq({"data", "end"})
    BY <1>5, <2>1
  <2> QED
    BY <1>5, <2>1, CountTail, PlacesFinite DEF One
<1> SUFFICES given'[e] + One(down'[e] = "write") + Count(tunnel'[e], "data")
               + One(up'[a] = "send") = taken'[a]
  BY DEF a
<1>10. CASE Still(a, e)
  BY <1>4, <1>10 DEF Still
<1>11. CASE Takes(a, e)
  BY <1>4, <1>5, <1>6, <1>11 DEF Takes, Sender, One
<1>12. CASE SeesEnd(a, e)
  BY <1>4, <1>12 DEF SeesEnd, Sender, One
<1>13. ASSUME NEW record \in {"data", "end"}, NEW from, NEW to, Sends(a, e, record, from, to),
              from \in {"send", "end"}, from = "send" <=> record = "data", to # "send"
       PROVE  given'[e] + One(down'[e] = "write") + Count(tunnel'[e], "data")
                + One(up'[a] = "send") = taken'[a]
  <2>1. /\ up[a] = from /\ up'[a] = to /\ down'[e] = down[e] /\ given'[e] = given[e] /\ taken'[a] = taken[a]
        /\ tunnel'[e] = Append(tunnel[e], record)
    BY <1>3, <1>7, <1>13 DEF Sends, Sender
  <2>2. Count(tunnel'[e], "data") = Count(tunnel[e], "data") + One(record = "data")
    BY <1>8, <2>1
  <2>3. One(up[a] = "send") = One(record = "data") /\ One(up'[a] = "send") = 0
    BY <1>13, <2>1 DEF One
  <2>4. One(record = "data") \in Nat /\ One(down[e] = "write") \in Nat
    BY DEF One
  <2> QED
    BY <1>4, <1>5, <1>6, <2>1, <2>2, <2>3, <2>4
<1>14. ASSUME NEW record \in {"data", "end"}, NEW to, Gets(a, e, record, to), to = "write" <=> record = "data"
       PROVE  given'[e] + One(down'[e] = "write") + Count(tunnel'[e], "data")
                + One(up'[a] = "send") = taken'[a]
  <2>1. /\ down[e] = "read" /\ down'[e] = to /\ up'[a] = up[a] /\ taken'[a] = taken[a] /\ given'[e] = given[e]
        /\ tunnel[e] # <<>> /\ Head(tunnel[e]) = record /\ tunnel'[e] = Tail(tunnel[e])
    BY <1>14 DEF Gets, Reader
  <2>2. /\ Count(tunnel[e], "data") = Count(tunnel'[e], "data") + One(record = "data")
        /\ Count(tunnel'[e], "data") \in Nat
    BY <1>9, <2>1
  <2>3. One(down[e] = "write") = 0 /\ One(down'[e] = "write") = One(record = "data")
    BY <1>14, <2>1 DEF One
  <2>4. One(record = "data") \in Nat /\ One(up[a] = "send") \in Nat
    BY DEF One
  <2> QED
    BY <1>4, <1>5, <2>1, <2>2, <2>3, <2>4
<1>15. CASE Gives(a, e)
  BY <1>3, <1>4, <1>5, <1>6, <1>15 DEF Gives, Reader, One
<1>16. CASE Breaks(a, e)
  BY <1>16 DEF Breaks
<1> QED
  BY <1>2, <1>10, <1>11, <1>12, <1>13, <1>14, <1>15, <1>16 DEF Moves

LEMMA TunnelEnding ==
  TunnelInv /\ [T!TunnelNext]_tunnelVars => \A e \in T!Sides : EndOK(e)'
<1> SUFFICES ASSUME TunnelInv, [T!TunnelNext]_tunnelVars, NEW e \in T!Sides
             PROVE  EndOK(e)'
  OBVIOUS
<1> DEFINE a == T!Across(e)
<1>1. a \in T!Sides
  BY Across
<1>2. Moves(a, e) /\ Ages(e)
  BY TunnelMoves, TunnelAges DEF TunnelInv
<1>3. /\ \A i \in 1..Len(tunnel[e]) : tunnel[e][i] = "end" => i = Len(tunnel[e]) /\ up[a] = "done"
      /\ down[e] = "done" =>
            /\ up[a] = "done" /\ tunnel[e] = <<>> /\ shut[e]
            /\ app[e] # "gone" => given[e] = taken[a]
      /\ up[a] = "done" /\ ~cut /\ stageOf[e] # "failed" => EndSent(e) \/ down[e] = "done"
  BY DEF TunnelInv, EndOK
<1>4. /\ stageOf[e] # "failed" /\ ~cut /\ app[e] # "gone" =>
            given[e] + One(down[e] = "write") + Count(tunnel[e], "data") + One(up[a] = "send") = taken[a]
      /\ stageOf[e] = "ok" => down[e] = "done"
      /\ cut => tunnel[e] = <<>>
  BY DEF TunnelInv, DataOK, StageOK
<1>5. given[e] \in Nat /\ taken[a] \in Nat /\ tunnel[e] \in Seq({"data", "end"}) /\ Len(tunnel[e]) \in Nat
  BY <1>1 DEF TunnelInv, TunnelTypes
<1> HIDE DEF a
<1> DEFINE Last == \A i \in 1..Len(tunnel[e]) : tunnel[e][i] = "end" => i = Len(tunnel[e]) /\ up[a] = "done"
           Done == down[e] = "done" =>
                      /\ up[a] = "done" /\ tunnel[e] = <<>> /\ shut[e]
                      /\ app[e] # "gone" => given[e] = taken[a]
           Sent == up[a] = "done" /\ ~cut /\ stageOf[e] # "failed" => EndSent(e) \/ down[e] = "done"
<1>6. SUFFICES Last' /\ Done' /\ Sent'
  BY DEF EndOK, a
<1>7. /\ app'[e] # "gone" => app[e] # "gone"
      /\ ~cut' /\ stageOf'[e] # "failed" => ~cut /\ stageOf[e] # "failed"
  BY <1>2 DEF Ages
<1>8. CASE Still(a, e) \/ Takes(a, e) \/ SeesEnd(a, e) \/ Gives(a, e)
  BY <1>3, <1>7, <1>8 DEF Still, Takes, SeesEnd, Gives, Sender, Reader, EndSent
<1>9. CASE Sends(a, e, "data", "send", "read")
  <2>1. up[a] # "done" /\ up'[a] # "done" /\ down[e] # "done" /\ down'[e] # "done"
    BY <1>3, <1>9 DEF Sends, Sender
  <2>2. \A i \in 1..Len(tunnel'[e]) : tunnel'[e][i] # "end"
    BY <1>3, <1>5, <1>9, <2>1 DEF Sends
  <2> QED
    BY <2>1, <2>2
<1>10. CASE Sends(a, e, "end", "end", "done")
  <2>1. up[a] # "done" /\ up'[a] = "done" /\ down[e] # "done" /\ down'[e] # "done"
    BY <1>3, <1>10 DEF Sends, Sender
  <2>2. CASE tunnel'[e] = Append(tunnel[e], "end")
    <3>1. /\ Len(tunnel'[e]) = Len(tunnel[e]) + 1 /\ tunnel'[e][Len(tunnel[e]) + 1] = "end"
          /\ \A i \in 1..Len(tunnel[e]) : tunnel'[e][i] # "end"
      BY <1>3, <1>5, <2>1, <2>2
    <3>2. Last'
      BY <1>5, <2>1, <3>1
    <3>3. EndSent(e)'
      BY <1>5, <3>1 DEF EndSent
    <3> QED
      BY <2>1, <3>2, <3>3
  <2>3. CASE tunnel'[e] = tunnel[e] /\ (cut \/ stageOf[e] \in {"ok", "failed"})
    <3>1. cut \/ stageOf[e] = "failed"
      BY <1>4, <2>1, <2>3
    <3> QED
      BY <1>3, <1>7, <2>1, <2>3, <3>1
  <2> QED
    BY <1>10, <2>2, <2>3 DEF Sends
<1>11. CASE Gets(a, e, "data", "write") \/ Gets(a, e, "end", "done")
  <2>1. /\ down[e] = "read" /\ tunnel[e] # <<>> /\ tunnel'[e] = Tail(tunnel[e]) /\ stageOf[e] = "run"
        /\ up'[a] = up[a] /\ taken'[a] = taken[a] /\ given'[e] = given[e]
    BY <1>11 DEF Gets, Reader
  <2>2. /\ Len(tunnel[e]) \in Nat \ {0} /\ Len(tunnel'[e]) = Len(tunnel[e]) - 1
        /\ Tail(tunnel[e]) \in Seq({"data", "end"}) /\ Head(tunnel[e]) = tunnel[e][1]
        /\ \A i \in 1..(Len(tunnel[e]) - 1) : tunnel'[e][i] = tunnel[e][i + 1]
    BY <1>5, <2>1
  <2>3. Last'
    <3> SUFFICES ASSUME NEW i \in 1..Len(tunnel'[e]), tunnel'[e][i] = "end"
                 PROVE  i = Len(tunnel'[e]) /\ up'[a] = "done"
      OBVIOUS
    <3>1. i \in Nat /\ i + 1 \in 1..Len(tunnel[e]) /\ tunnel[e][i + 1] = "end"
      BY <2>2
    <3>2. i + 1 = Len(tunnel[e]) /\ up[a] = "done"
      BY <1>3, <3>1
    <3> QED
      BY <2>1, <2>2, <3>1, <3>2
  <2>4. CASE Gets(a, e, "data", "write")
    <3>1. down'[e] = "write" /\ tunnel[e][1] = "data"
      BY <2>2, <2>4 DEF Gets, Reader
    <3>2. EndSent(e) => EndSent(e)'
      <4> SUFFICES ASSUME NEW i \in 1..Len(tunnel[e]), tunnel[e][i] = "end"
                   PROVE  EndSent(e)'
        BY DEF EndSent
      <4>1. i - 1 \in 1..Len(tunnel'[e]) /\ (i - 1) + 1 = i /\ tunnel'[e][i - 1] = "end"
        BY <2>2, <3>1
      <4> QED
        BY <4>1 DEF EndSent
    <3> QED
      BY <1>3, <1>7, <2>1, <2>3, <3>1, <3>2
  <2>5. CASE Gets(a, e, "end", "done")
    <3>1. down'[e] = "done" /\ shut'[e] /\ 1 \in 1..Len(tunnel[e]) /\ tunnel[e][1] = "end"
      <4>1. down'[e] = "done" /\ Head(tunnel[e]) = "end" /\ shut'[e] = TRUE
        BY <2>5 DEF Gets, Reader
      <4> QED
        BY <2>2, <4>1
    <3>2. Len(tunnel[e]) = 1 /\ up[a] = "done"
      BY <1>3, <3>1
    <3>3. Tail(tunnel[e]) = <<>>
      <4>1. Len(Tail(tunnel[e])) = 0
        BY <2>1, <2>2, <3>2
      <4> QED
        BY <2>2, <4>1, EmptySeq
    <3>4. app[e] # "gone" => given[e] = taken[a]
      <4> SUFFICES ASSUME app[e] # "gone" PROVE given[e] = taken[a]
        OBVIOUS
      <4>1. ~cut
        BY <1>4, <2>1
      <4>2. Count(tunnel[e], "data") = 0
        <5>1. Head(tunnel[e]) # "data" /\ Count(Tail(tunnel[e]), "data") = 0
          BY <2>2, <3>1, <3>3, CountEmpty
        <5>2. Count(tunnel[e], "data") = Count(Tail(tunnel[e]), "data") + (IF Head(tunnel[e]) = "data" THEN 1 ELSE 0)
          BY <1>5, <2>1, CountTail
        <5> QED
          BY <5>1, <5>2
      <4> QED
        BY <1>4, <1>5, <2>1, <3>2, <4>1, <4>2 DEF One
    <3> QED
      BY <1>7, <2>1, <2>3, <3>1, <3>2, <3>3, <3>4
  <2> QED
    BY <1>11, <2>4, <2>5
<1>12. CASE Breaks(a, e)
  BY <1>3, <1>7, <1>12 DEF Breaks
<1> QED
  BY <1>2, <1>8, <1>9, <1>10, <1>11, <1>12 DEF Moves

\* An end that runs does not fail while the connection and both applications
\* last: its other end, if it is over, has ended well and said so.
LEMMA NoFailure ==
  ASSUME TunnelInv, ~cut, \A e \in T!Sides : app[e] # "gone", NEW d \in T!Sides,
         T!Upload(d) \/ T!Download(d)
  PROVE  stageOf' = stageOf
<1> DEFINE a == T!Across(d)
<1>1. a \in T!Sides /\ T!Across(a) = d
  BY Across
<1>2. T!Runs(d) /\ stageOf[a] \in {"run", "ok"}
  BY <1>1 DEF TunnelInv, T!HalfCloseKept, T!Upload, T!Download, T!UploadReads, T!UploadSends,
              T!DownloadReads, T!DownloadWrites, T!Runs
<1>3. /\ stageOf[a] = "ok" => up[a] = "done" /\ down[a] = "done"
      /\ down[a] = "done" => up[d] = "done"
      /\ up[a] = "done" /\ stageOf[d] # "failed" => EndSent(d) \/ down[d] = "done"
  BY <1>1 DEF TunnelInv, StageOK, EndOK
<1>4. tunnel[d] = <<>> => ~EndSent(d)
  BY DEF EndSent
<1> HIDE DEF a
<1>5. CASE T!UploadReads(d)
  BY <1>5 DEF T!UploadReads
<1>6. CASE T!UploadSends(d)
  <2>1. ~T!Over(a)
    BY <1>2, <1>3, <1>6 DEF T!UploadSends, T!Over
  <2> QED
    BY <1>6, <2>1 DEF T!UploadSends, a
<1>7. CASE T!DownloadReads(d)
  <2>1. tunnel[d] = <<>> => ~T!Over(a)
    BY <1>2, <1>3, <1>4, <1>7 DEF T!DownloadReads, T!Over, T!Runs
  <2> QED
    BY <1>7, <2>1 DEF T!DownloadReads, a
<1>8. CASE T!DownloadWrites(d)
  BY <1>8 DEF T!DownloadWrites
<1> QED
  BY <1>5, <1>6, <1>7, <1>8 DEF T!Upload, T!Download

LEMMA TunnelHalfClose == TunnelInv /\ [T!TunnelNext]_tunnelVars => T!HalfCloseKept'
<1> SUFFICES ASSUME TunnelInv, [T!TunnelNext]_tunnelVars, ~cut', \A e \in T!Sides : app'[e] # "gone",
                    \E e \in T!Sides : stageOf'[e] \in {"run", "ok"}
             PROVE  \A e \in T!Sides : stageOf'[e] \in {"run", "ok"}
  BY DEF T!HalfCloseKept
<1>1. ~cut /\ \A e \in T!Sides : app[e] # "gone"
  BY TunnelAges DEF TunnelInv, Ages, T!Sides
<1>2. (\E e \in T!Sides : stageOf[e] \in {"run", "ok"}) => \A e \in T!Sides : stageOf[e] \in {"run", "ok"}
  BY <1>1 DEF TunnelInv, T!HalfCloseKept
<1>3. DOMAIN stageOf = T!Sides
  BY DEF TunnelInv, TunnelTypes
<1>4. CASE stageOf' = stageOf
  BY <1>2, <1>4
<1>5. CASE T!Handshakes
  BY <1>2, <1>3, <1>5 DEF T!Handshakes, T!Dial, T!ReachTarget, T!Agree, T!HelloFails, T!Stage, T!Sides
<1>6. ASSUME NEW d \in T!Sides, T!Upload(d) \/ T!Download(d) PROVE stageOf' = stageOf
  BY <1>1, <1>6, NoFailure
<1>7. ASSUME NEW d \in T!Sides, T!BothDone(d) PROVE \A e \in T!Sides : stageOf'[e] \in {"run", "ok"}
  BY <1>2, <1>3, <1>7 DEF T!BothDone, T!Stage, T!Runs
<1>8. CASE T!TunnelBreaks \/ UNCHANGED tunnelVars \/ \E d \in T!Sides : T!AppWrites(d) \/ T!AppChanges(d)
  BY <1>4, <1>8 DEF T!TunnelBreaks, tunnelVars, T!AppWrites, T!AppChanges
<1> QED
  BY <1>4, <1>5, <1>6, <1>7, <1>8 DEF T!TunnelNext

LEMMA TunnelStages ==
  TunnelInv /\ [T!TunnelNext]_tunnelVars => \A e \in T!Sides : StageOK(e)'
<1> SUFFICES ASSUME TunnelInv, [T!TunnelNext]_tunnelVars, NEW e \in T!Sides PROVE StageOK(e)'
  OBVIOUS
<1> DEFINE a == T!Across(e)
<1>1. a \in T!Sides /\ T!Across(a) = e /\ a # e
  BY Across
<1>2. /\ stageOf[e] = "ok" => up[e] = "done" /\ down[e] = "done"
      /\ stageOf[e] \in {"run", "ok"} => stageOf[a] \in {"run", "ok", "failed"}
      /\ stageOf[e] \in {"none", "dial", "hello"} => up[e] = "read" /\ down[e] = "read"
  BY DEF TunnelInv, StageOK
<1>3. /\ DOMAIN stageOf = T!Sides /\ DOMAIN up = T!Sides /\ DOMAIN down = T!Sides
      /\ stageOf[e] \in {"none", "dial", "hello", "run", "ok", "failed"}
  BY DEF TunnelInv, TunnelTypes
<1> HIDE DEF a
<1>4. SUFFICES
        /\ stageOf'[e] = "ok" => up'[e] = "done" /\ down'[e] = "done"
        /\ stageOf'[e] \in {"run", "ok"} => stageOf'[a] \in {"run", "ok", "failed"}
        /\ stageOf'[e] \in {"none", "dial", "hello"} => up'[e] = "read" /\ down'[e] = "read"
  BY DEF StageOK, a
<1>5. ASSUME NEW d \in T!Sides, T!Upload(d) \/ T!Download(d)
      PROVE  /\ T!Runs(d) /\ (stageOf' = stageOf \/ T!Stage(d, "failed"))
             /\ \A o \in T!Sides \ {d} : up'[o] = up[o] /\ down'[o] = down[o]
  BY <1>3, <1>5 DEF T!Upload, T!Download, T!UploadReads, T!UploadSends, T!DownloadReads, T!DownloadWrites,
                    T!Fails
<1>6. ASSUME NEW d \in T!Sides, T!Upload(d) \/ T!Download(d)
      PROVE  /\ stageOf'[e] = "ok" => up'[e] = "done" /\ down'[e] = "done"
             /\ stageOf'[e] \in {"run", "ok"} => stageOf'[a] \in {"run", "ok", "failed"}
             /\ stageOf'[e] \in {"none", "dial", "hello"} => up'[e] = "read" /\ down'[e] = "read"
  BY <1>1, <1>2, <1>3, <1>5, <1>6 DEF T!Runs, T!Stage
<1>7. ASSUME NEW d \in T!Sides, T!BothDone(d)
      PROVE  /\ stageOf'[e] = "ok" => up'[e] = "done" /\ down'[e] = "done"
             /\ stageOf'[e] \in {"run", "ok"} => stageOf'[a] \in {"run", "ok", "failed"}
             /\ stageOf'[e] \in {"none", "dial", "hello"} => up'[e] = "read" /\ down'[e] = "read"
  BY <1>1, <1>2, <1>3, <1>7 DEF T!BothDone, T!Runs, T!Stage
<1>8. CASE T!Handshakes
  <2>1. UNCHANGED <<up, down>>
    BY <1>8 DEF T!Handshakes, T!Dial, T!ReachTarget, T!Agree, T!HelloFails
  <2>2. ASSUME NEW d \in T!Sides, stageOf[d] \in {"none", "dial", "hello"}
        PROVE  up[d] = "read" /\ down[d] = "read"
    BY <2>2 DEF TunnelInv, StageOK
  <2>3. stageOf'[e] = stageOf[e] \/ (/\ stageOf[e] \in {"none", "dial", "hello"}
                                    /\ stageOf'[e] \in {"dial", "hello", "run", "failed"})
    BY <1>3, <1>8 DEF T!Handshakes, T!Dial, T!ReachTarget, T!Agree, T!HelloFails, T!Stage, T!Sides
  <2>4. stageOf'[e] \in {"run", "ok"} => stageOf'[a] \in {"run", "ok", "failed"}
    BY <1>1, <1>2, <1>3, <1>8
       DEF T!Handshakes, T!Dial, T!ReachTarget, T!Agree, T!HelloFails, T!Stage, T!Sides, T!Over
  <2> QED
    BY <1>2, <2>1, <2>2, <2>3, <2>4
<1>9. CASE T!TunnelBreaks \/ UNCHANGED tunnelVars \/ \E d \in T!Sides : T!AppWrites(d) \/ T!AppChanges(d)
  BY <1>2, <1>9 DEF T!TunnelBreaks, tunnelVars, T!AppWrites, T!AppChanges
<1> QED
  BY <1>6, <1>7, <1>8, <1>9 DEF T!TunnelNext

LEMMA TunnelCut ==
  TunnelInv /\ [T!TunnelNext]_tunnelVars => (cut => \A e \in T!Sides : tunnel[e] = <<>>)'
<1> SUFFICES ASSUME TunnelInv, [T!TunnelNext]_tunnelVars, cut', NEW e \in T!Sides
             PROVE  tunnel'[e] = <<>>
  OBVIOUS
<1>1. Moves(T!Across(e), e) /\ Ages(e)
  BY TunnelMoves, TunnelAges DEF TunnelInv
<1>2. CASE ~cut
  BY <1>1, <1>2 DEF Ages
<1>3. CASE cut
  <2>1. tunnel[e] = <<>> /\ cut
    BY <1>3 DEF TunnelInv
  <2>2. CASE \E d \in T!Sides : T!UploadSends(d)
    BY <2>1, <2>2 DEF T!UploadSends, T!Fails
  <2>3. ASSUME NEW d \in T!Sides, T!DownloadReads(d) PROVE tunnel'[e] = <<>>
    BY <2>1, <2>3 DEF TunnelInv, T!DownloadReads, T!Fails
  <2>4. CASE ~(\E d \in T!Sides : T!UploadSends(d) \/ T!DownloadReads(d))
    BY <1>3, <2>1, <2>4
       DEF T!TunnelNext, T!Handshakes, T!Dial, T!ReachTarget, T!Agree, T!HelloFails, T!Upload, T!UploadReads,
           T!Download, T!DownloadWrites, T!Fails, T!BothDone, T!AppWrites, T!AppChanges, T!TunnelBreaks, tunnelVars
  <2> QED
    BY <2>2, <2>3, <2>4
<1> QED
  BY <1>2, <1>3

LEMMA TunnelStep == TunnelInv /\ [T!TunnelNext]_tunnelVars => TunnelInv'
BY TunnelTypesKept, TunnelUploads, TunnelEnding, TunnelData, TunnelStages, TunnelHalfClose, TunnelCut
   DEF TunnelInv

LEMMA TunnelStart == T!TunnelInit => TunnelInv
<1> SUFFICES ASSUME T!TunnelInit PROVE TunnelInv
  OBVIOUS
<1>1. TunnelTypes
  <2>1. <<>> \in Seq({"data", "end"})
    OBVIOUS
  <2> QED
    BY <2>1 DEF T!TunnelInit, TunnelTypes
<1>2. ASSUME NEW e \in T!Sides
      PROVE  /\ up[e] = "read" /\ down[e] = "read" /\ tunnel[e] = <<>> /\ given[e] = 0 /\ taken[e] = 0
             /\ stageOf[e] \in {"dial", "none"}
  BY DEF T!TunnelInit
<1>3. Count(<<>>, "data") = 0
  BY CountEmpty
<1>4. \A e \in T!Sides : UploadOK(e) /\ EndOK(e) /\ DataOK(e) /\ StageOK(e)
  BY <1>2, <1>3, Across DEF UploadOK, EndOK, DataOK, StageOK, One
<1>5. T!HalfCloseKept
  BY <1>2 DEF T!HalfCloseKept
<1> QED
  BY <1>1, <1>2, <1>4, <1>5 DEF TunnelInv

\* A tunneled connection that ended well has passed on all of both directions,
\* and one direction that ends leaves the other open, for any amount of data, any
\* room in the connection, and whoever ends, leaves or breaks when
\* (copy_noise_tunnel).
THEOREM TunnelPassesAll == Spec => []TunnelWhole
<1>1. Init => TunnelInv
  BY TunnelStart DEF Init
<1>2. TunnelInv /\ [Next]_vars => TunnelInv'
  <2>1. [Next]_vars => [T!TunnelNext]_tunnelVars
    BY DEF Next, vars, Exec, Pty, Clipboard, Proxy, Tunnel
  <2> QED
    BY <2>1, TunnelStep
<1>3. TunnelInv => TunnelWhole
  <2> SUFFICES ASSUME TunnelInv, \A e \in T!Sides : stageOf[e] = "ok", NEW e \in T!Sides
               PROVE  /\ taken[e] = wrote[e] /\ shut[e]
                      /\ app[e] # "gone" => given[e] = wrote[T!Across(e)]
    BY DEF TunnelWhole, T!TunnelOkMeansAll, TunnelInv
  <2>1. \A d \in T!Sides : up[d] = "done" /\ down[d] = "done"
    BY DEF TunnelInv, StageOK
  <2>2. \A d \in T!Sides : taken[d] = wrote[d]
    BY <2>1 DEF TunnelInv, UploadOK
  <2>3. shut[e] /\ (app[e] # "gone" => given[e] = taken[T!Across(e)])
    BY <2>1 DEF TunnelInv, EndOK
  <2> QED
    BY <2>2, <2>3, Across
<1> QED
  BY <1>1, <1>2, <1>3, PTL DEF Spec
================================================================================
