------------------------------- MODULE Services -------------------------------
(***************************************************************************)
(* The requests that serve spawns a handler for, besides push and pull:    *)
(* exec, an interactive shell, the clipboard, and tunnels, and a connection *)
(* through a tunnel.  They share the session and nothing else, so a         *)
(* behaviour follows the requests of one kind; what a busy session does to  *)
(* a stream is in module HostRoutes.                                        *)
(***************************************************************************)
EXTENDS Integers, Sequences, FiniteSets

CONSTANTS
    Kinds,                            \* "exec", "pty", "clipboard", "proxy", "tunnel"
    MaxChunks, WireRoom, InboxRoom,   \* of module Exec
    MaxOutput, MaxInput, RouteRoom,   \* of module Pty
    Requests, MaxStarts,              \* of module Clipboard
    Tunnels, Ports, Targets, MaxDeaf, \* of module Proxy
    MaxData, TunnelRoom               \* of module Tunnel

ASSUME ServicesAssumption ==
    /\ Kinds \subseteq {"exec", "pty", "clipboard", "proxy", "tunnel"}
    /\ {MaxChunks, MaxOutput, MaxInput, MaxStarts, MaxDeaf, MaxData} \subseteq Nat
    /\ {WireRoom, InboxRoom, RouteRoom, TunnelRoom} \subseteq Nat \ {0}
    /\ Ports \subseteq Nat

VARIABLES
    kind,
    child, pipe, handler, wire, cancel, online, route, inbox, control, client, printed,
    shell, written, readOut, input, output, pty, mailbox, devRoute, canceled,
    toDevice, toHost, linked, ptyRoute, ptyInbox, upward, ptyControl, ptyClient, shown, typed,
    stage, answer, stopped, owner, helper, questions, answers, starts,
    id, asked, hostOpen, starting, listening, proxies, cancels, answered, session,
    deaf, late,
    stageOf, app, wrote, taken, up, down, tunnel, given, shut, cut

execVars == <<child, pipe, handler, wire, cancel, online, route, inbox, control, client, printed>>
ptyVars == <<shell, written, readOut, input, output, pty, mailbox, devRoute, canceled,
             toDevice, toHost, linked, ptyRoute, ptyInbox, upward, ptyControl, ptyClient, shown, typed>>
clipboardVars == <<stage, answer, stopped, owner, helper, questions, answers, starts>>
proxyVars == <<id, asked, hostOpen, starting, listening, proxies, cancels, answered,
               session, deaf, late>>
tunnelVars == <<stageOf, app, wrote, taken, up, down, tunnel, given, shut, cut>>
vars == <<kind, execVars, ptyVars, clipboardVars, proxyVars, tunnelVars>>

E == INSTANCE Exec
P == INSTANCE Pty
C == INSTANCE Clipboard
X == INSTANCE Proxy
T == INSTANCE Tunnel

Init == kind \in Kinds /\ E!Init /\ P!Init /\ C!Init /\ X!Init /\ T!TunnelInit

Exec(step) ==
    /\ kind = "exec" /\ step
    /\ UNCHANGED <<kind, ptyVars, clipboardVars, proxyVars, tunnelVars>>
Pty(step) ==
    /\ kind = "pty" /\ step
    /\ UNCHANGED <<kind, execVars, clipboardVars, proxyVars, tunnelVars>>
Clipboard(step) ==
    /\ kind = "clipboard" /\ step
    /\ UNCHANGED <<kind, execVars, ptyVars, proxyVars, tunnelVars>>
Proxy(step) ==
    /\ kind = "proxy" /\ step
    /\ UNCHANGED <<kind, execVars, ptyVars, clipboardVars, tunnelVars>>
Tunnel(step) ==
    /\ kind = "tunnel" /\ step
    /\ UNCHANGED <<kind, execVars, ptyVars, clipboardVars, proxyVars>>

Next ==
    \/ Exec(E!Next) \/ Pty(P!Next) \/ Clipboard(C!Next) \/ Proxy(X!Next)
    \/ Tunnel(T!TunnelNext)

\* Tasks run, timers fire, a connection moves while it is up, and tokio's mutex
\* is first come first served.  The applications at a tunnel's ends read what
\* they are given; nothing is assumed of commands, the helper, the user and the
\* network.
Spec ==
    /\ Init /\ [][Next]_vars
    /\ WF_execVars(kind = "exec" /\ E!Handler)
    /\ WF_execVars(kind = "exec" /\ E!Control)
    /\ WF_execVars(kind = "exec" /\ E!CancelArrives)
    /\ WF_execVars(kind = "exec" /\ E!Deliver)
    /\ WF_ptyVars(kind = "pty" /\ P!Input)
    /\ WF_ptyVars(kind = "pty" /\ P!Output)
    /\ WF_ptyVars(kind = "pty" /\ P!Finish)
    /\ WF_ptyVars(kind = "pty" /\ P!HostPty)
    /\ WF_ptyVars(kind = "pty" /\ P!Teardown)
    /\ WF_ptyVars(kind = "pty" /\ P!DeviceReads)
    /\ WF_ptyVars(kind = "pty" /\ P!HostReads)
    /\ \A r \in Requests : /\ WF_clipboardVars(kind = "clipboard" /\ C!Serve(r))
                           /\ SF_clipboardVars(kind = "clipboard" /\ C!Lock(r))
    /\ WF_tunnelVars(kind = "tunnel" /\ T!Handshakes)
    /\ \A e \in T!Sides : /\ WF_tunnelVars(kind = "tunnel" /\ T!Upload(e))
                          /\ WF_tunnelVars(kind = "tunnel" /\ T!Download(e))
                          /\ WF_tunnelVars(kind = "tunnel" /\ T!BothDone(e))
-----------------------------------------------------------------------------
(***************************************************************************)
(* What the components promise.                                            *)
(***************************************************************************)
\* A client that is given an exit code has shown all the output there was, of a
\* command's two pipes or of a shell's terminal.
ExitMeansAll == E!ExitMeansAll /\ P!PtyExitMeansAll

\* A tunneled connection that ended well has passed on all of both directions,
\* and one direction that ends leaves the other open.
TunnelWhole == T!TunnelOkMeansAll /\ T!HalfCloseKept

\* A command whose stream is canceled is killed; so is a shell whose client or
\* stream has gone, with the two exceptions that module Pty names.
CancelKills == E!CancelKills /\ P!ClientGoneEndsShell

\* The control task of a shell does not outlive its client, a clipboard request
\* ends whatever the helper does, and a tunneled connection ends at both ends
\* when one end has, or both its applications.
WaitsEnd ==
    /\ P!ClientGoneEndsControl
    /\ kind = "clipboard" => C!EveryRequestEnds
    /\ kind = "tunnel" => T!TunnelEnds

\* Nobody is given the answer to another's clipboard request.
OwnAnswer == C!OwnAnswer

\* A tunnel that was reported as started listens at both ends.
ToldMeansListening == X!ToldMeansListening

\* No listener outlives its session but those that were put into its table late.
ListenersEnd == X!ListenersEnd
=============================================================================
