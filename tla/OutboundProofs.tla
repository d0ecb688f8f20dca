---------------------------- MODULE OutboundProofs ----------------------------
(***************************************************************************)
(* What the handshake promises for every pair of builds, every secret and  *)
(* any number of connections, pairings and restarts of the server.         *)
(***************************************************************************)
EXTENDS Outbound, TLAPS

Caller == Other(Acceptor)

LEMMA Roles ==
    /\ Acceptor \in Ends /\ Caller \in Ends /\ Acceptor # Caller
    /\ Other(Caller) = Acceptor /\ Ends = {Acceptor, Caller}
  BY DEF Caller, Acceptor, Other, Ends

-----------------------------------------------------------------------------
\* The acceptor has accepted the caller, or would not have.
Fit ==
    /\ VERSION(Caller)[1] = VERSION(Acceptor)[1] /\ mode[Caller] = mode[Acceptor]
    /\ IF mode[Acceptor] = "secure" THEN used[Acceptor] # NoKey ELSE used[Acceptor] = NoKey

Same == Fit /\ used[Caller] = used[Acceptor]

Shape ==
    /\ build \in Builds
    /\ DOMAIN at = Ends /\ DOMAIN mail = Ends /\ DOMAIN used = Ends
    /\ DOMAIN version = Ends /\ DOMAIN features = Ends
    /\ at[Acceptor] \in Finished \union {"client", "noise", "hello"}
    /\ at[Caller] \in Finished \union {"banner", "decision", "noise", "ack"}

\* What waits to be read says what its sender is.
ToAcceptor ==
    /\ mail[Acceptor].type \in {"nothing", "client", "noise", "hello"}
    /\ mail[Acceptor].type = "client" =>
          mail[Acceptor].version = VERSION(Caller) /\ mail[Acceptor].mode = mode[Caller]
    /\ mail[Acceptor].type = "noise" =>
          /\ at[Caller] \notin {"none", "banner", "decision"}
          /\ mail[Acceptor].secret = used[Caller]
    /\ mail[Acceptor].type = "hello" =>
          mail[Acceptor].version = VERSION(Caller) /\ mail[Acceptor].caps = build[Caller].caps

ToCaller ==
    /\ mail[Caller].type \in {"nothing", "banner", "decision", "noise reply", "ack"}
    /\ mail[Caller].type = "decision" =>
          at[Acceptor] # "client" /\ (mail[Caller].accepted => Fit)
    /\ mail[Caller].type = "noise reply" => Same
    /\ mail[Caller].type = "ack" =>
          mail[Caller].version = VERSION(Acceptor) /\ mail[Caller].caps = build[Acceptor].caps

\* How far each has come.
Progress ==
    /\ at[Acceptor] = "client" => at[Caller] \in {"none", "banner", "decision", "failed"}
    /\ at[Acceptor] \in {"noise", "hello", "established"} => Fit
    /\ (at[Acceptor] \in {"hello", "established"} /\ mode[Acceptor] = "secure") =>
          Same /\ at[Caller] \notin {"none", "banner", "decision"}
    /\ at[Acceptor] = "noise" => mode[Acceptor] = "secure"
    /\ at[Caller] \in {"ack", "established"} => Same

\* What an end with a session knows of the other.
Concluded ==
    \A e \in Ends : at[e] = "established" =>
        /\ version[e] = Negotiated(e, VERSION(Other(e)))
        /\ features[e] = Kept(e, build[Other(e)].caps)

Inv == Shape /\ ToAcceptor /\ ToCaller /\ Progress /\ Concluded

-----------------------------------------------------------------------------
LEMMA FinishedOnes == Finished = {"none", "established", "failed"}
  BY DEF Finished

LEMMA AnswerIs ==
  ASSUME NEW e \in Ends, NEW p, DOMAIN mail = Ends, Answer(e, p)
  PROVE  /\ DOMAIN mail' = Ends /\ mail'[e] = Nothing
         /\ mail'[Other(e)] \in {Nothing, p}
  BY DEF Answer, Delivered, Other, Ends

LEMMA SilenceIs ==
  ASSUME NEW e \in Ends, DOMAIN mail = Ends, Silence(e)
  PROVE  /\ DOMAIN mail' = Ends /\ mail'[e] = Nothing
         /\ mail'[Other(e)] = mail[Other(e)]
  BY DEF Silence, Other, Ends

LEMMA MovesIs ==
  ASSUME NEW e \in Ends, NEW pc, DOMAIN at = Ends, Moves(e, pc)
  PROVE  DOMAIN at' = Ends /\ at'[e] = pc /\ at'[Other(e)] = at[Other(e)]
  BY DEF Moves, Other, Ends

LEMMA NothingIs == Nothing.type = "nothing"
  BY DEF Nothing

LEMMA SidesStay ==
  ASSUME UNCHANGED sides
  PROVE  /\ Acceptor' = Acceptor /\ Caller' = Caller /\ build' = build /\ mode' = mode
         /\ \A e \in Ends : VERSION(e)' = VERSION(e)
  BY DEF sides, Acceptor, Caller, Other, VERSION, Ends

\* An end that has no new session and learns nothing new keeps to what it knows.
LEMMA ConcludedStays ==
  ASSUME Inv, UNCHANGED sides,
         \A e \in Ends : at'[e] = "established" =>
            at[e] = "established" /\ version'[e] = version[e] /\ features'[e] = features[e]
  PROVE  Concluded'
<1>1. build' = build
  BY DEF sides
<1>2. \A e \in Ends : Other(e) \in Ends
  BY DEF Other, Ends
<1>3. \A e \in Ends : Negotiated(e, VERSION(Other(e)))' = Negotiated(e, VERSION(Other(e)))
  BY <1>1 DEF Negotiated, VERSION
<1> QED
  BY <1>1, <1>2, <1>3 DEF Inv, Concluded, Kept

\* A new connection starts over.
LEMMA Connects ==
  ASSUME Inv, Connected PROVE Inv'
<1>1. UNCHANGED sides
  BY DEF Connected
<1>2. /\ DOMAIN at' = Ends /\ DOMAIN mail' = Ends /\ DOMAIN used' = Ends
      /\ DOMAIN version' = Ends /\ DOMAIN features' = Ends
      /\ at'[Acceptor] = "client" /\ at'[Caller] = "banner"
      /\ mail'[Acceptor].type = "nothing" /\ mail'[Caller].type = "banner"
  BY Roles, NothingIs DEF Connected
<1> QED
  BY <1>1, <1>2, SidesStay, Roles, FinishedOnes
     DEF Inv, Shape, ToAcceptor, ToCaller, Progress, Concluded

\* An end that gives up takes nothing back.
LEMMA GivesUp ==
  ASSUME Inv, NEW e \in Ends, Gives(e) PROVE Inv'
<1>1. UNCHANGED sides /\ UNCHANGED <<used, version, features>>
  BY DEF Gives
<1>2. /\ DOMAIN at' = Ends /\ at'[e] = "failed" /\ at'[Other(e)] = at[Other(e)]
      /\ DOMAIN mail' = Ends /\ mail'[e].type = "nothing" /\ mail'[Other(e)] = mail[Other(e)]
  BY MovesIs, SilenceIs, NothingIs DEF Gives, Inv, Shape
<1>3. Fit' = Fit /\ Same' = Same
  BY <1>1, SidesStay, Roles DEF Fit, Same
<1>4. Concluded'
  BY <1>1, <1>2, ConcludedStays, Roles DEF Other, Ends
<1>5. CASE e = Acceptor
  BY <1>1, <1>2, <1>3, <1>4, <1>5, SidesStay, Roles, FinishedOnes
     DEF Inv, Shape, ToAcceptor, ToCaller, Progress, Caller
<1>6. CASE e = Caller
  BY <1>1, <1>2, <1>3, <1>4, <1>6, SidesStay, Roles, FinishedOnes
     DEF Inv, Shape, ToAcceptor, ToCaller, Progress
<1> QED
  BY <1>5, <1>6, Roles

-----------------------------------------------------------------------------
(***************************************************************************)
(* The steps of the two ends, one lemma for each packet that is read.      *)
(***************************************************************************)
LEMMA BannerKeeps ==
  ASSUME Inv, NEW e \in Ends, ReadBanner(e) PROVE Inv'
<1>1. e = Caller /\ Other(e) = Acceptor /\ at[e] = "banner"
  BY Roles, FinishedOnes DEF ReadBanner, Hears, Has, Inv, Shape
<1>2. UNCHANGED sides /\ UNCHANGED <<key, features>>
  BY DEF ReadBanner, Hears
<1>3. /\ DOMAIN used' = Ends /\ DOMAIN version' = Ends
      /\ used'[Acceptor] = used[Acceptor] /\ version'[Acceptor] = version[Acceptor]
  BY <1>1, Roles DEF ReadBanner, Inv, Shape
<1>4. /\ DOMAIN at' = Ends /\ at'[Caller] \in {"decision", "failed"}
      /\ at'[Acceptor] = at[Acceptor] /\ DOMAIN mail' = Ends /\ mail'[Caller] = Nothing
  BY <1>1, MovesIs, AnswerIs, SilenceIs, Roles DEF ReadBanner, Inv, Shape
<1>5. mail'[Acceptor] \in {Nothing, mail[Acceptor],
           [type |-> "client", version |-> VERSION(Caller), mode |-> mode[Caller]]}
  BY <1>1, AnswerIs, SilenceIs, Roles DEF ReadBanner, Inv, Shape
<1>6. Fit' = Fit
  BY <1>2, <1>3, SidesStay, Roles DEF Fit
<1>7. ToAcceptor'
  BY <1>1, <1>2, <1>3, <1>4, <1>5, SidesStay, Roles, NothingIs DEF Inv, ToAcceptor
<1>8. Concluded'
  BY <1>1, <1>2, <1>3, <1>4, ConcludedStays, Roles
<1>9. Shape'
  BY <1>1, <1>2, <1>3, <1>4, SidesStay, Roles, FinishedOnes DEF Inv, Shape
<1>10. ToCaller'
  BY <1>2, <1>4, SidesStay, NothingIs DEF ToCaller
<1>11. Progress'
  BY <1>1, <1>2, <1>3, <1>4, <1>6, SidesStay, Roles DEF Inv, Progress
<1> QED
  BY <1>7, <1>8, <1>9, <1>10, <1>11 DEF Inv

LEMMA DecisionIsMade ==
  ASSUME Inv, NEW e \in Ends, Decide(e) PROVE Inv'
<1>1. e = Acceptor /\ Other(e) = Caller /\ at[e] = "client" /\ mail[e].type = "client"
  BY Roles, FinishedOnes DEF Decide, Hears, Has, Inv, Shape, Caller
<1>2. UNCHANGED sides /\ UNCHANGED <<key, features>>
  BY DEF Decide, Hears
<1>3. /\ DOMAIN used' = Ends /\ DOMAIN version' = Ends
      /\ used'[Caller] = used[Caller] /\ version'[Caller] = version[Caller]
      /\ used'[Acceptor] = IF mode[Acceptor] = "secure" THEN key[Acceptor] ELSE NoKey
  BY <1>1, Roles DEF Decide, Inv, Shape
<1> DEFINE ok == /\ Compatible(e, mail[e].version) /\ mail[e].mode = mode[e]
                 /\ mode[e] = "secure" => key[e] # NoKey
<1>4. /\ DOMAIN at' = Ends /\ at'[Caller] = at[Caller]
      /\ at'[Acceptor] \in {"failed", "noise", "hello"}
      /\ at'[Acceptor] \in {"noise", "hello"} => ok
      /\ at'[Acceptor] = "noise" <=> (ok /\ mode[Acceptor] = "secure")
  BY <1>1, MovesIs, Roles DEF Decide, Inv, Shape
<1>5. /\ DOMAIN mail' = Ends /\ mail'[Acceptor] = Nothing
      /\ mail'[Caller] \in {Nothing, [type |-> "decision", accepted |-> ok]}
  BY <1>1, AnswerIs, Roles DEF Decide, Inv, Shape
<1>6. ok => Fit'
  BY <1>1, <1>2, <1>3, SidesStay, Roles DEF Fit, Compatible, Inv, ToAcceptor
<1>7. at[Caller] \in {"none", "banner", "decision", "failed"}
  BY <1>1 DEF Inv, Progress
<1>8. Concluded'
  BY <1>1, <1>2, <1>3, <1>4, <1>7, ConcludedStays, Roles
<1>9. ToCaller'
  <2>1. [type |-> "decision", accepted |-> ok].type = "decision"
    OBVIOUS
  <2>2. [type |-> "decision", accepted |-> ok].accepted = ok
    OBVIOUS
  <2>3. at'[Acceptor] # "client"
    BY <1>4
  <2> HIDE DEF ok
  <2>4. mail'[Caller].type \in {"nothing", "decision"}
    BY <1>5, <2>1, NothingIs
  <2>5. mail'[Caller].type = "decision" => (mail'[Caller].accepted = ok)
    BY <1>5, <2>2, NothingIs
  <2> QED
    BY <1>2, <1>6, <2>3, <2>4, <2>5, SidesStay DEF ToCaller
<1>10. Progress'
  BY <1>2, <1>4, <1>6, <1>7, SidesStay, Roles DEF Progress
<1>11. Shape'
  BY <1>1, <1>2, <1>3, <1>4, <1>5, SidesStay, Roles, FinishedOnes DEF Inv, Shape
<1>12. ToAcceptor'
  BY <1>2, <1>5, SidesStay, NothingIs DEF ToAcceptor
<1> QED
  BY <1>8, <1>9, <1>10, <1>11, <1>12 DEF Inv

LEMMA DecisionIsRead ==
  ASSUME Inv, NEW e \in Ends, ReadDecision(e) PROVE Inv'
<1>1. e = Caller /\ Other(e) = Acceptor /\ at[e] = "decision" /\ mail[e].type = "decision"
  BY Roles, FinishedOnes DEF ReadDecision, Hears, Has, Inv, Shape
<1>2. UNCHANGED sides /\ UNCHANGED <<key, features, version>>
  BY DEF ReadDecision, Hears
<1> DEFINE secret == IF e = "host" THEN used[e] ELSE key[e]
           ok     == mail[e].accepted /\ (mode[e] = "secure" => secret # NoKey)
<1>3. /\ DOMAIN used' = Ends /\ used'[Acceptor] = used[Acceptor]
      /\ used'[Caller] = IF mode[Caller] = "secure" THEN secret ELSE NoKey
  BY <1>1, Roles DEF ReadDecision, Inv, Shape
<1>4. /\ DOMAIN at' = Ends /\ at'[Acceptor] = at[Acceptor]
      /\ DOMAIN mail' = Ends /\ mail'[Caller] = Nothing
      /\ \/ at'[Caller] = "failed" /\ mail'[Acceptor] = mail[Acceptor]
         \/ /\ at'[Caller] = "noise" /\ ok /\ mode[Caller] = "secure"
            /\ mail'[Acceptor] \in {Nothing,
                  [type |-> "noise", secret |-> secret, version |-> version[Caller]]}
         \/ /\ at'[Caller] = "ack" /\ ok /\ mode[Caller] # "secure"
            /\ mail'[Acceptor] \in {Nothing, Hello(Caller, "hello")}
  BY <1>1, MovesIs, AnswerIs, SilenceIs, Roles DEF ReadDecision, Inv, Shape
<1>5. Fit' = Fit /\ (ok => Fit)
  BY <1>1, <1>2, <1>3, SidesStay, Roles DEF Fit, Inv, ToCaller
<1>6. (ok /\ mode[Caller] # "secure") => Same'
  BY <1>2, <1>3, <1>5, SidesStay DEF Same, Fit
<1>7. at[Acceptor] # "client" /\ mail[Acceptor].type # "noise"
  BY <1>1 DEF Inv, ToCaller, ToAcceptor
<1>8. ToAcceptor'
  BY <1>2, <1>3, <1>4, <1>7, SidesStay, Roles, NothingIs DEF Inv, ToAcceptor, Hello
<1>9. Progress'
  BY <1>1, <1>2, <1>3, <1>4, <1>5, <1>6, <1>7, SidesStay, Roles DEF Inv, Progress
<1>10. Concluded'
  BY <1>1, <1>2, <1>4, ConcludedStays, Roles
<1>11. Shape'
  BY <1>1, <1>2, <1>3, <1>4, SidesStay, Roles, FinishedOnes DEF Inv, Shape
<1>12. ToCaller'
  BY <1>2, <1>4, SidesStay, NothingIs DEF ToCaller
<1> QED
  BY <1>8, <1>9, <1>10, <1>11, <1>12 DEF Inv

LEMMA ReplyIsMade ==
  ASSUME Inv, NEW e \in Ends, Respond(e) PROVE Inv'
<1>1. e = Acceptor /\ Other(e) = Caller /\ at[e] = "noise" /\ mail[e].type = "noise"
  BY DEF Respond, Hears, Has, Caller
<1>2. UNCHANGED sides /\ UNCHANGED <<used, version, features>>
  BY DEF Respond, Hears
<1> DEFINE reply == [type |-> "noise reply"]
<1>3. /\ DOMAIN at' = Ends /\ at'[Caller] = at[Caller]
      /\ DOMAIN mail' = Ends /\ mail'[Acceptor] = Nothing
      /\ \/ at'[Acceptor] = "failed" /\ mail'[Caller] = mail[Caller]
         \/ /\ at'[Acceptor] = "hello" /\ mail[Acceptor].secret = used[Acceptor]
            /\ mail'[Caller] \in {Nothing, reply}
  <2>1. CASE mail[e].secret = used[e] /\ mail[e].version = version[e]
    <3>1. Moves(e, "hello") /\ Answer(e, reply)
      BY <2>1 DEF Respond
    <3>2. DOMAIN at = Ends /\ DOMAIN mail = Ends
      BY DEF Inv, Shape
    <3> QED
      BY <1>1, <2>1, <3>1, <3>2, MovesIs, AnswerIs
  <2>2. CASE ~(mail[e].secret = used[e] /\ mail[e].version = version[e])
    <3>1. Moves(e, "failed") /\ Silence(e)
      BY <2>2 DEF Respond
    <3>2. DOMAIN at = Ends /\ DOMAIN mail = Ends
      BY DEF Inv, Shape
    <3> QED
      BY <1>1, <3>1, <3>2, MovesIs, SilenceIs
  <2> QED
    BY <2>1, <2>2
<1>0. reply.type = "noise reply"
  OBVIOUS
<1> HIDE DEF reply
<1>4. Fit' = Fit /\ Same' = Same
  BY <1>2, SidesStay, Roles DEF Fit, Same
<1>5. at'[Acceptor] = "hello" => Same /\ at[Caller] \notin {"none", "banner", "decision"}
  BY <1>1, <1>3 DEF Inv, Progress, ToAcceptor, Same
<1>6. Shape'
  BY <1>1, <1>2, <1>3, SidesStay, Roles, FinishedOnes DEF Inv, Shape
<1>7. ToAcceptor'
  BY <1>2, <1>3, SidesStay, NothingIs DEF ToAcceptor
<1>8. ToCaller'
  <2>1. CASE mail'[Caller] = mail[Caller] /\ at'[Acceptor] = "failed"
    BY <1>2, <1>4, <2>1, SidesStay, Roles DEF Inv, ToCaller
  <2>2. CASE mail'[Caller] = Nothing
    BY <1>2, <2>2, SidesStay, NothingIs DEF ToCaller
  <2>3. CASE mail'[Caller] = reply /\ at'[Acceptor] = "hello"
    <3>1. mail'[Caller].type = "noise reply"
      BY <1>0, <2>3
    <3>2. Same'
      BY <1>4, <1>5, <2>3 DEF Same, Fit
    <3> QED
      BY <1>2, <3>1, <3>2, SidesStay DEF ToCaller
  <2> QED
    BY <1>3, <2>1, <2>2, <2>3
<1>9. Progress'
  BY <1>1, <1>2, <1>3, <1>4, <1>5, SidesStay, Roles DEF Inv, Progress, Same
<1>10. Concluded'
  BY <1>1, <1>2, <1>3, ConcludedStays, Roles
<1> QED
  BY <1>6, <1>7, <1>8, <1>9, <1>10 DEF Inv

LEMMA ReplyIsRead ==
  ASSUME Inv, NEW e \in Ends, Secured(e) PROVE Inv'
<1>1. e = Caller /\ Other(e) = Acceptor /\ at[e] = "noise" /\ mail[e].type = "noise reply"
  BY Roles DEF Secured, Hears, Has, Inv, ToAcceptor
<1>2. UNCHANGED sides /\ UNCHANGED <<used, version, features>>
  BY DEF Secured, Hears
<1>3. /\ DOMAIN at' = Ends /\ at'[Caller] = "ack" /\ at'[Acceptor] = at[Acceptor]
      /\ DOMAIN mail' = Ends /\ mail'[Caller] = Nothing
      /\ mail'[Acceptor] \in {Nothing, Hello(Caller, "hello")}
  BY <1>1, MovesIs, AnswerIs, Roles DEF Secured, Inv, Shape
<1>4. Fit' = Fit /\ Same' = Same /\ Same
  BY <1>1, <1>2, SidesStay, Roles DEF Fit, Same, Inv, ToCaller
<1>5. Shape'
  BY <1>1, <1>2, <1>3, SidesStay, Roles, FinishedOnes DEF Inv, Shape
<1>6. ToAcceptor'
  BY <1>2, <1>3, SidesStay, Roles, NothingIs DEF ToAcceptor, Hello
<1>7. ToCaller'
  BY <1>2, <1>3, SidesStay, NothingIs DEF ToCaller
<1>8. at[Acceptor] # "client"
  BY <1>1 DEF Inv, Progress
<1>9. Progress'
  BY <1>1, <1>2, <1>3, <1>4, <1>8, SidesStay, Roles DEF Inv, Progress, Same
<1>10. Concluded'
  BY <1>1, <1>2, <1>3, ConcludedStays, Roles
<1> QED
  BY <1>5, <1>6, <1>7, <1>9, <1>10 DEF Inv

LEMMA HelloIsRead ==
  ASSUME Inv, NEW e \in Ends, ReadHello(e) PROVE Inv'
<1>1. e = Acceptor /\ Other(e) = Caller /\ at[e] = "hello" /\ mail[e].type = "hello"
  BY Roles, FinishedOnes DEF ReadHello, Hears, Has, Inv, Shape, Caller
<1>2. UNCHANGED sides /\ UNCHANGED used
  BY DEF ReadHello, Hears, Concludes
<1>3. /\ DOMAIN at' = Ends /\ at'[Caller] = at[Caller]
      /\ at'[Acceptor] \in {"established", "failed"}
      /\ DOMAIN mail' = Ends /\ mail'[Acceptor] = Nothing
      /\ mail'[Caller] \in {Nothing, mail[Caller], Hello(Acceptor, "ack")}
  BY <1>1, MovesIs, AnswerIs, SilenceIs, Roles DEF ReadHello, Inv, Shape
<1>4. /\ DOMAIN version' = Ends /\ DOMAIN features' = Ends
      /\ version'[Acceptor] = Negotiated(Acceptor, VERSION(Caller))
      /\ features'[Acceptor] = Kept(Acceptor, build[Caller].caps)
      /\ version'[Caller] = version[Caller] /\ features'[Caller] = features[Caller]
  BY <1>1, Roles DEF ReadHello, Concludes, Inv, Shape, ToAcceptor
<1>5. Fit' = Fit /\ Same' = Same
  BY <1>2, SidesStay, Roles DEF Fit, Same
<1>6. Shape'
  BY <1>1, <1>2, <1>3, <1>4, SidesStay, Roles, FinishedOnes DEF Inv, Shape
<1>7. ToAcceptor'
  BY <1>2, <1>3, SidesStay, NothingIs DEF ToAcceptor
<1>8. ToCaller'
  <2>1. CASE mail'[Caller] = mail[Caller]
    BY <1>2, <1>3, <1>5, <2>1, SidesStay, Roles DEF Inv, ToCaller
  <2>2. CASE mail'[Caller] = Nothing
    BY <1>2, <2>2, SidesStay, NothingIs DEF ToCaller
  <2>3. CASE mail'[Caller] = Hello(Acceptor, "ack")
    <3>1. /\ mail'[Caller].type = "ack" /\ mail'[Caller].version = VERSION(Acceptor)
          /\ mail'[Caller].caps = build[Acceptor].caps
      BY <2>3 DEF Hello
    <3> QED
      BY <1>2, <3>1, SidesStay, Roles DEF ToCaller
  <2> QED
    BY <1>3, <2>1, <2>2, <2>3
<1>9. Progress'
  BY <1>1, <1>2, <1>3, <1>5, SidesStay, Roles DEF Inv, Progress, Same
<1>10. Concluded'
  <2>1. \A f, g \in Ends : Negotiated(f, VERSION(g))' = Negotiated(f, VERSION(g))
    BY <1>2 DEF Negotiated, VERSION, sides
  <2>2. Caller = Other(Acceptor) /\ build' = build
    BY <1>2 DEF Caller, sides
  <2>3. \A f, g \in Ends : Kept(f, build[g].caps)' = Kept(f, build[g].caps)
    BY <2>2 DEF Kept
  <2> QED
    BY <1>1, <1>3, <1>4, <2>1, <2>2, <2>3, Roles DEF Inv, Concluded
<1> QED
  BY <1>6, <1>7, <1>8, <1>9, <1>10 DEF Inv

LEMMA AckIsRead ==
  ASSUME Inv, NEW e \in Ends, ReadAck(e) PROVE Inv'
<1>1. e = Caller /\ Other(e) = Acceptor /\ at[e] = "ack" /\ mail[e].type = "ack"
  BY Roles, FinishedOnes DEF ReadAck, Hears, Has, Inv, Shape
<1>2. UNCHANGED sides /\ UNCHANGED used
  BY DEF ReadAck, Hears, Concludes
<1>3. /\ DOMAIN at' = Ends /\ at'[Acceptor] = at[Acceptor]
      /\ at'[Caller] \in {"established", "failed"}
      /\ DOMAIN mail' = Ends /\ mail'[Caller] = Nothing
      /\ mail'[Acceptor] = mail[Acceptor]
  BY <1>1, MovesIs, SilenceIs, Roles DEF ReadAck, Inv, Shape
<1>4. /\ DOMAIN version' = Ends /\ DOMAIN features' = Ends
      /\ version'[Caller] = Negotiated(Caller, VERSION(Acceptor))
      /\ features'[Caller] = Kept(Caller, build[Acceptor].caps)
      /\ version'[Acceptor] = version[Acceptor] /\ features'[Acceptor] = features[Acceptor]
  BY <1>1, Roles DEF ReadAck, Concludes, Inv, Shape, ToCaller
<1>5. Fit' = Fit /\ Same' = Same
  BY <1>2, SidesStay, Roles DEF Fit, Same
<1>6. Shape'
  BY <1>1, <1>2, <1>3, <1>4, SidesStay, Roles, FinishedOnes DEF Inv, Shape
<1>7. ToAcceptor'
  BY <1>1, <1>2, <1>3, SidesStay, Roles DEF Inv, ToAcceptor
<1>8. ToCaller'
  BY <1>2, <1>3, SidesStay, NothingIs DEF ToCaller
<1>9. Progress'
  BY <1>1, <1>2, <1>3, <1>5, SidesStay, Roles DEF Inv, Progress, Same
<1>10. Concluded'
  <2>1. \A f, g \in Ends : Negotiated(f, VERSION(g))' = Negotiated(f, VERSION(g))
    BY <1>2 DEF Negotiated, VERSION, sides
  <2>2. Caller = Other(Acceptor) /\ build' = build
    BY <1>2 DEF Caller, sides
  <2>3. \A f, g \in Ends : Kept(f, build[g].caps)' = Kept(f, build[g].caps)
    BY <2>2 DEF Kept
  <2> QED
    BY <1>1, <1>3, <1>4, <2>1, <2>2, <2>3, Roles DEF Inv, Concluded
<1> QED
  BY <1>6, <1>7, <1>8, <1>9, <1>10 DEF Inv

-----------------------------------------------------------------------------
(***************************************************************************)
(* Steps beside the packets.                                               *)
(***************************************************************************)
\* Secrets may change and links may fail: neither is looked at again.
LEMMA Untouched ==
  ASSUME Inv, UNCHANGED <<sides, at, used, version, features>>,
         DOMAIN mail' = Ends,
         mail' = mail \/ \A e \in Ends : mail'[e] = Nothing
  PROVE  Inv'
<1>1. Fit' = Fit /\ Same' = Same
  BY SidesStay, Roles DEF Fit, Same
<1>2. Concluded'
  BY ConcludedStays
<1>3. Shape'
  BY SidesStay, Roles DEF Inv, Shape
<1>4. Progress'
  BY <1>1, SidesStay, Roles DEF Inv, Progress
<1>5. CASE mail' = mail
  BY <1>1, <1>2, <1>3, <1>4, <1>5, SidesStay, Roles DEF Inv, ToAcceptor, ToCaller
<1>6. CASE \A e \in Ends : mail'[e] = Nothing
  BY <1>2, <1>3, <1>4, <1>6, SidesStay, Roles, NothingIs DEF Inv, ToAcceptor, ToCaller
<1> QED
  BY <1>5, <1>6

LEMMA EndStepKeeps ==
  ASSUME Inv, NEW e \in Ends, EndStep(e) PROVE Inv'
<1>1. CASE HangsUp(e)
  BY <1>1, GivesUp DEF HangsUp
<1>2. CASE GoesSilent(e)
  BY <1>2, GivesUp DEF GoesSilent
<1> QED
  BY <1>1, <1>2, BannerKeeps, DecisionIsMade, DecisionIsRead, ReplyIsMade, ReplyIsRead,
     HelloIsRead, AckIsRead DEF EndStep

LEMMA Initially == Init => Inv
<1> SUFFICES ASSUME Init PROVE Inv
  OBVIOUS
<1>1. PICK w \in Ways, p \in Builds, m \in [Ends -> Modes] : HsInit(w, p, m)
  BY DEF Init
<1>2. /\ build \in Builds /\ DOMAIN at = Ends /\ DOMAIN mail = Ends /\ DOMAIN used = Ends
      /\ DOMAIN version = Ends /\ DOMAIN features = Ends
      /\ \A e \in Ends : at[e] = "none" /\ mail[e].type = "nothing"
  BY <1>1, NothingIs DEF HsInit
<1> QED
  BY <1>2, Roles, FinishedOnes DEF Inv, Shape, ToAcceptor, ToCaller, Progress, Concluded

LEMMA Preserved == Inv /\ [Next]_vars => Inv'
<1> SUFFICES ASSUME Inv, [Next]_vars PROVE Inv'
  OBVIOUS
<1>1. CASE HostDials
  BY <1>1, Connects DEF HostDials
<1>2. CASE DeviceDials
  BY <1>2, Connects DEF DeviceDials
<1>3. CASE DialFails
  <2>1. UNCHANGED <<sides, at, mail, used, version, features>>
    BY <1>3 DEF DialFails
  <2> QED
    BY <2>1, Untouched DEF Inv, Shape
<1>4. CASE ServeEnds \/ Sleep \/ ServerStarts \/ PairingNotifies \/ UNCHANGED vars
  <2>1. UNCHANGED <<sides, at, mail, used, version, features>>
    BY <1>4 DEF ServeEnds, Sleep, ServerStarts, PairingNotifies, vars, hsVars, sides
  <2> QED
    BY <2>1, Untouched DEF Inv, Shape
<1>5. CASE PairingStored \/ PairingSaved
  <2>1. UNCHANGED <<sides, at, mail, used, version, features>>
    BY <1>5 DEF PairingStored, PairingSaved
  <2> QED
    BY <2>1, Untouched DEF Inv, Shape
<1>6. CASE ServerStops
  <2>1. "host" \in Ends
    BY DEF Ends
  <2>2. CASE Open("host")
    BY <1>6, <2>1, <2>2, GivesUp DEF ServerStops
  <2>3. CASE ~Open("host")
    <3>1. UNCHANGED <<sides, at, mail, used, version, features>>
      BY <1>6, <2>3 DEF ServerStops, hsVars, sides
    <3> QED
      BY <3>1, Untouched DEF Inv, Shape
  <2> QED
    BY <2>2, <2>3
<1>7. CASE LinkDies
  <2>1. /\ UNCHANGED <<sides, at, used, version, features>> /\ DOMAIN mail' = Ends
        /\ \A e \in Ends : mail'[e] = Nothing
    BY <1>7 DEF LinkDies
  <2> QED
    BY <2>1, Untouched
<1>8. ASSUME NEW e \in Ends, TimesOut(e) PROVE Inv'
  BY <1>8, GivesUp DEF TimesOut
<1>9. ASSUME NEW e \in Ends, EndStep(e) PROVE Inv'
  BY <1>9, EndStepKeeps
<1> QED
  BY <1>1, <1>2, <1>3, <1>4, <1>5, <1>6, <1>7, <1>8, <1>9
     DEF Next, Run, Pairing, Environment, Session

-----------------------------------------------------------------------------
\* Nobody has a session with a peer of another major version or mode, or without
\* the secret, for all builds and secrets: the acceptor's check of the caller
\* holds for the secret it keeps, and each packet says it was passed.
THEOREM SessionsWanted == Spec => []SessionsAreWanted
<1>1. Inv => SessionsAreWanted
  <2> SUFFICES ASSUME Inv, NEW e \in Ends,
                      at[e] = "established", at[Other(e)] \in {"ack", "established"}
               PROVE  /\ VERSION("host")[1] = VERSION("device")[1]
                      /\ mode["host"] = mode["device"] /\ used["host"] = used["device"]
                      /\ mode[e] = "secure" => used[e] # NoKey
    BY DEF SessionsAreWanted
  <2>1. at[Caller] \in {"ack", "established"}
    BY Roles, FinishedOnes DEF Inv, Shape, Caller
  <2>2. Same
    BY <2>1 DEF Inv, Progress
  <2>3. {"host", "device"} = {Acceptor, Caller} /\ e \in {Acceptor, Caller}
    BY Roles DEF Ends
  <2> QED
    BY <2>2, <2>3, Roles DEF Same, Fit
<1> QED
  BY <1>1, Initially, Preserved, PTL DEF Spec

\* The two ends of a session agree on the version and on every feature, for all
\* builds: each computes them from its own build and the other's packet, the host
\* by masking what it is told when it reads it and the device when it uses it.
THEOREM SessionsSame == Spec => []SessionsAgree
<1>1. Inv => SessionsAgree
  <2> SUFFICES ASSUME Inv, Both("host") PROVE SessionsAgree
    BY DEF SessionsAgree
  <2>1. \A e \in Ends : at[e] = "established"
    BY DEF Both, Other, Ends
  <2>2. Same
    BY <2>1, Roles DEF Inv, Progress
  <2>3. {"host", "device"} = {Acceptor, Caller}
    BY Roles DEF Ends
  <2>4. /\ VERSION("host")[1] = VERSION("device")[1] /\ used["host"] = used["device"]
    BY <2>2, <2>3, Roles DEF Same, Fit
  <2>5. /\ version["host"] = Negotiated("host", VERSION("device"))
        /\ version["device"] = Negotiated("device", VERSION("host"))
        /\ features["host"] = Kept("host", build["device"].caps)
        /\ features["device"] = Kept("device", build["host"].caps)
    BY <2>1 DEF Inv, Concluded, Other, Ends
  <2>6. \A e \in Ends : build[e].minor \in Nat /\ build[e].major \in Nat
    BY HandshakeAssumption DEF Inv, Shape, IsBuild
  <2>7. version["host"] = version["device"]
    BY <2>4, <2>5, <2>6 DEF Negotiated, VERSION, Ends
  <2>8. Usable("host") = Usable("device")
    BY <2>5 DEF Usable, Kept
  <2> QED
    BY <2>4, <2>7, <2>8 DEF SessionsAgree, Cancels, Flows, Heartbeats, Supports
<1> QED
  BY <1>1, Initially, Preserved, PTL DEF Spec

\* While quick attempts are left the delay is the shortest, for every back-off
\* and whatever ends, fails or is paired between (next_outbound_delay, serve).
THEOREM GraceIsFast == Spec => []GraceMeansFast
<1>1. Init => GraceMeansFast
  BY DEF Init, GraceMeansFast
<1>2. GraceMeansFast /\ [Next]_vars => GraceMeansFast'
  <2> SUFFICES ASSUME GraceMeansFast, [Next]_vars PROVE GraceMeansFast'
    OBVIOUS
  <2> USE DEF GraceMeansFast
  <2>1. CASE ServeEnds
    BY <2>1 DEF ServeEnds
  <2>2. CASE Sleep
    BY <2>2 DEF Sleep
  <2>3. CASE PairingNotifies
    BY <2>3 DEF PairingNotifies
  <2>4. CASE UNCHANGED <<delay, grace>>
    BY <2>4
  <2>5. \/ ServeEnds \/ Sleep \/ PairingNotifies
        \/ UNCHANGED <<delay, grace>>
    BY DEF Next, Run, Pairing, Environment, Session, HostDials, DeviceDials, DialFails,
           PairingStored, PairingSaved, ServerStarts, ServerStops, vars, loopVars
  <2> QED
    BY <2>1, <2>2, <2>3, <2>4, <2>5
<1> QED
  BY <1>1, <1>2, PTL DEF Spec
================================================================================
