------------------------------- MODULE Outbound -------------------------------
(***************************************************************************)
(* Connections over time.  In outbound mode the device's run_outbound      *)
(* dials the host again and again, with a backoff that a pairing resets;   *)
(* in inbound mode the host's connector does.  Meanwhile the server comes  *)
(* and goes, the host is paired anew, and the link fails.                  *)
(*                                                                         *)
(* A new connection takes the place of the old one in the model: an end    *)
(* that still waits on the old one's socket is not followed any further    *)
(* (module Registry follows the host's sessions that overlap).             *)
(***************************************************************************)
EXTENDS Handshake

CONSTANTS
    MaxDelay,   \* OUTBOUND_BACKOFF_MAX_SECS
    Grace       \* attempts in quick succession after a pairing

ASSUME OutboundAssumption == MaxDelay \in Nat \ {0} /\ Grace \in Nat \ {0}

VARIABLES
    up,          \* is `sidewire server` running?
    loop,        \* run_outbound: "connect", "serve", "wait"
    established, \* the oneshot `established` of the session served
    delay, grace,
    pairing      \* what is left to do for a completed pairing: the listener's
                 \* "notify", the host's "save" of the secret

loopVars == <<loop, established, delay, grace>>
vars == <<hsVars, up, loopVars, pairing>>

Init ==
    /\ \E w \in Ways, p \in Builds, m \in [Ends -> Modes] : HsInit(w, p, m)
    /\ key = [e \in Ends |-> NoKey]
    /\ up \in BOOLEAN
    /\ loop = "connect" /\ established = FALSE /\ delay = 1 /\ grace = 0
    /\ pairing = {}

-----------------------------------------------------------------------------
\* A step of the connection.
Session(step) ==
    /\ step
    /\ established' = (established \/ (way = "outbound" /\ at'["device"] = "established"))
    /\ UNCHANGED <<up, loop, delay, grace, pairing>>

\* The host dials the device: connect_endpoint_once, whenever its connector has
\* no session.
HostDials ==
    /\ way = "inbound" /\ up /\ ~Open("host")
    /\ Connected /\ UNCHANGED <<up, loopVars, pairing>>

\* The device dials the host, and serve runs on the connection.
DeviceDials ==
    /\ way = "outbound" /\ loop = "connect" /\ up
    /\ Connected
    /\ loop' = "serve" /\ established' = FALSE
    /\ UNCHANGED <<up, delay, grace, pairing>>

\* The connection is refused, or not made within five seconds.
DialFails ==
    /\ way = "outbound" /\ loop = "connect"
    /\ ~up \/ faults < MaxFaults
    /\ faults' = IF up THEN faults + 1 ELSE faults
    /\ loop' = "wait"
    /\ UNCHANGED <<sides, key, at, mail, used, version, features, lost, up,
                   established, delay, grace, pairing>>

\* serve has returned; a session that was established resets the backoff.
ServeEnds ==
    /\ loop = "serve" /\ at["device"] = "failed"
    /\ loop' = "wait" /\ delay' = IF established THEN 1 ELSE delay
    /\ UNCHANGED <<hsVars, up, established, grace, pairing>>

Doubled == IF 2 * delay < MaxDelay THEN 2 * delay ELSE MaxDelay

\* Doubling the delay of the quick attempts too.
SleepDoubling ==
    /\ loop = "wait" /\ loop' = "connect"
    /\ delay' = Doubled /\ grace' = IF grace > 0 THEN grace - 1 ELSE 0
    /\ UNCHANGED <<hsVars, up, established, pairing>>

\* The sleep is over: next_outbound_delay.
Sleep ==
    /\ loop = "wait" /\ loop' = "connect"
    /\ IF grace > 0 THEN grace' = grace - 1 /\ delay' = 1
                    ELSE grace' = grace /\ delay' = Doubled
    /\ UNCHANGED <<hsVars, up, established, pairing>>

-----------------------------------------------------------------------------
\* handle_pair_connection stores the new secret of the host.
PairingStored ==
    /\ pairing = {}
    /\ \E k \in Keys \ {key["device"]} : key' = [key EXCEPT !["device"] = k]
    /\ pairing' = {"notify", "save"}
    /\ UNCHANGED <<sides, at, mail, used, version, features, link, up, loopVars>>

\* The host got PairComplete and saves the secret, or it did not get it.
PairingSaved ==
    /\ "save" \in pairing /\ pairing' = pairing \ {"save"}
    /\ \/ key' = [key EXCEPT !["host"] = key["device"]]
       \/ UNCHANGED key
    /\ UNCHANGED <<sides, at, mail, used, version, features, link, up, loopVars>>

\* notify_waiters wakes run_outbound if it waits, and leaves nothing behind if
\* it does not.
PairingNotifies ==
    /\ "notify" \in pairing /\ pairing' = pairing \ {"notify"}
    /\ IF loop = "wait" THEN loop' = "connect" /\ grace' = Grace /\ delay' = 1
                        ELSE UNCHANGED <<loop, grace, delay>>
    /\ UNCHANGED <<hsVars, up, established>>

ServerStarts ==
    /\ ~up /\ up' = TRUE /\ UNCHANGED <<hsVars, loopVars, pairing>>

\* The server's connections end with it.
ServerStops ==
    /\ up /\ up' = FALSE
    /\ IF Open("host") THEN Gives("host") /\ UNCHANGED link ELSE UNCHANGED hsVars
    /\ UNCHANGED <<loopVars, pairing>>

-----------------------------------------------------------------------------
Run      == HostDials \/ DeviceDials \/ DialFails \/ ServeEnds \/ Sleep
Pairing  == PairingStored \/ PairingSaved \/ PairingNotifies
Environment == ServerStarts \/ ServerStops \/ Session(LinkDies)
                 \/ \E e \in Ends : Session(TimesOut(e))

Next == Run \/ Pairing \/ Environment \/ \E e \in Ends : Session(EndStep(e))

Spec == Init /\ [][Next]_vars

\* The tasks run, timers fire, and a completed pairing is dealt with.  Nothing
\* is assumed of who starts and stops the server, or pairs.
FairSpec ==
    /\ Spec
    /\ \A e \in Ends : /\ WF_vars(Session(EndStep(e)))
                       /\ WF_vars(lost /\ Session(TimesOut(e)))
    /\ WF_vars(Run) /\ WF_vars(PairingSaved) /\ WF_vars(PairingNotifies)
-----------------------------------------------------------------------------
(***************************************************************************)
(* Correctness.                                                            *)
(***************************************************************************)
TypeOK ==
    /\ way \in Ways /\ build \in Builds /\ mode \in [Ends -> Modes]
    /\ key \in [Ends -> Keys \union {NoKey}] /\ used \in [Ends -> Keys \union {NoKey}]
    /\ at \in [Ends -> Finished \union {"banner", "client", "decision", "noise", "hello", "ack"}]
    /\ features \in [Ends -> SUBSET Features]
    /\ up \in BOOLEAN /\ lost \in BOOLEAN /\ established \in BOOLEAN
    /\ loop \in {"connect", "serve", "wait"} /\ pairing \subseteq {"notify", "save"}
    /\ faults \in 0..MaxFaults /\ delay \in 1..MaxDelay /\ grace \in 0..Grace

\* "enabling rapid outbound reconnects" (main.rs:426): until the sixty attempts
\* after a pairing are used up, each waits one second, however many failures,
\* sessions and pairings come between.
GraceMeansFast == grace > 0 => delay = 1

Ready ==
    /\ up /\ pairing = {} /\ (lost => \A e \in Ends : "heartbeat" \in build[e].caps)
    /\ VERSION("host")[1] = VERSION("device")[1] /\ mode["host"] = mode["device"]
    /\ mode["host"] = "secure" => (key["host"] # NoKey /\ key["host"] = key["device"])

\* Whatever was lost or timed out before, a host and a device that may talk to
\* each other come to have a session, although the wake-up after a pairing is
\* lost when run_outbound is not waiting just then.
ReadyConnects == (<>[]Ready) => <>[]Both("host")

\* A session whose other end is gone, or behind a dead link, does not stay
\* when there is a heartbeat.
HalfOpenEnds ==
    \A e \in Ends :
        (at[e] = "established" /\ Heartbeats(e) /\ (lost \/ at[Other(e)] = "failed"))
        ~> at[e] # "established"
=============================================================================
