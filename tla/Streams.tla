-------------------------------- MODULE Streams --------------------------------
(***************************************************************************)
(* The receive-window protocol by itself (CreditWindow), the upload and the *)
(* download that follow it over a stream of FileStream, and a command that  *)
(* transfers many files, each by such a stream.  Which of the four a        *)
(* behaviour is about is decided at the start.                              *)
(***************************************************************************)
EXTENDS CreditWindow, Sequences, FiniteSets

CONSTANTS
    Subjects,                              \* of "window", "push", "pull", "command"
    FileUnits, RouteCap, WireCap,          \* of FileStream, like the rest
    ShortReads, HostFaults, DeviceFaults, LinkFaults, Truncates,
    Devices, DirCount, LongPaths, MaxPaths, MaxBytes, FileCount, Jobs, MaxChanges   \* of Transfer

ASSUME StreamsAssumption ==
    /\ Subjects \subseteq {"window", "push", "pull", "command"}
    /\ FileUnits \in Nat /\ {RouteCap, WireCap} \subseteq Nat \ {0}
    /\ {ShortReads, HostFaults, DeviceFaults, LinkFaults, Truncates} \subseteq BOOLEAN
    /\ {FileCount, MaxBytes, MaxChanges} \subseteq Nat
    /\ {DirCount, MaxPaths, Jobs} \subseteq Nat \ {0} /\ LongPaths \subseteq 1..DirCount
    /\ IsFiniteSet(Devices) /\ "any" \notin Devices

VARIABLES
    kind, host, dev, xfer, h2d, d2h, up,
    mode, command, targets, connected, changes, phase, prepared, spawned, counted, requests, served

streamVars == <<host, dev, xfer, h2d, d2h, up>>
transferVars == <<mode, command, targets, connected, changes,
                  phase, prepared, spawned, counted, requests, served>>
streamsVars == <<kind, vars, streamVars, transferVars>>

U == INSTANCE Push
D == INSTANCE Pull
T == INSTANCE Transfer

StreamsInit ==
    /\ kind \in Subjects /\ Init /\ U!Init /\ T!TransferInit
    /\ kind # "command" => mode = "push" /\ connected = {}

WindowStep(step)  == kind = "window" /\ step /\ UNCHANGED <<kind, streamVars, transferVars>>
PushStep(step)    == kind = "push" /\ step /\ UNCHANGED <<kind, vars, transferVars>>
PullStep(step)    == kind = "pull" /\ step /\ UNCHANGED <<kind, vars, transferVars>>
CommandStep(step) == kind = "command" /\ step /\ UNCHANGED <<kind, vars, streamVars>>
\* What the connection does is the same for both.
StreamStep(step) == kind \in {"push", "pull"} /\ step /\ UNCHANGED <<kind, vars, transferVars>>

StreamsNext ==
    \/ WindowStep(Next)
    \/ PushStep(U!HostTask) \/ PushStep(U!DevTask)
    \/ PullStep(D!HostTask) \/ PullStep(D!DevTask)
    \/ StreamStep(U!Connection)
    \/ CommandStep(T!TransferNext)

\* The fairness of CreditWindow; local file operations return, and tokio polls
\* every task that is ready; nothing makes the connection break.  The server
\* answers what a command asks of it.
StreamsSpec ==
    /\ StreamsInit /\ [][StreamsNext]_streamsVars
    /\ WF_vars(kind = "window" /\ sent < Total /\ Send(FullChunk))
    /\ WF_vars(kind = "window" /\ \E n \in 1..Chunk : Consume(n))
    /\ WF_vars(kind = "window" /\ Grant)
    /\ WF_vars(kind = "window" /\ \E n \in 1..MaxCredit : Credit(n))
    /\ WF_streamVars((kind = "push" /\ U!HostTask) \/ (kind = "pull" /\ D!HostTask))
    /\ WF_streamVars((kind = "push" /\ U!DevTask) \/ (kind = "pull" /\ D!DevTask))
    /\ WF_streamVars(kind \in {"push", "pull"} /\ U!HostReader)
    /\ WF_streamVars(kind \in {"push", "pull"} /\ U!HostReaderEnds)
    /\ WF_streamVars(kind \in {"push", "pull"} /\ U!HostCancelTask)
    /\ WF_streamVars(kind \in {"push", "pull"} /\ U!DevReader) /\ WF_streamVars(kind \in {"push", "pull"} /\ U!DevStray)
    /\ WF_streamVars(kind \in {"push", "pull"} /\ U!DevTeardown)
    /\ WF_streamVars(kind \in {"push", "pull"} /\ U!DevCancelTask)
    /\ WF_transferVars(kind = "command" /\ T!Command)
    /\ WF_transferVars(kind = "command" /\ T!Server)
    /\ \A t \in T!Targets : WF_transferVars(kind = "command" /\ T!Client(t))

-----------------------------------------------------------------------------
(***************************************************************************)
(* What FileStream, Push and Pull promise; the comments are there.         *)
(***************************************************************************)
\* The window keeps a transfer out of the overflow of either receive queue.
NoOverflow == U!NoOverflow

\* A transfer follows the receive-window protocol of CreditWindow.
FollowsCreditWindow == U!FollowsCreditWindow

\* When nothing fails on the device a transfer always returns, and the window
\* by itself never deadlocks: every byte is written in the end.  A command ends,
\* whatever fails.
TransferEnds ==
    <>CASE kind = "window"  -> consumed = Total
        [] kind = "command" -> command \in {"ok", "failed"}
        [] OTHER            -> U!Ended

\* A command that ended well has transferred everything, and by one device; one
\* that failed leaves little behind it.
TransferWhole == T!TransferWhole /\ T!FewGoOn

\* The host reports success only for a file that was written whole.
OkMeansWhole == U!OkMeansWhole

\* The device keeps nothing of a stream whose handler is gone.
NothingLeftBehind == U!NothingLeftBehind

\* A download always returns, whatever fails on either side.
PullReturns == kind = "pull" ~> U!Ended

\* Once the host's side is over, the device's handler ends and stays ended.
DeviceReleased == U!DeviceReleased

\* A broken connection ends the transfer on both sides.
BreakEndsBoth == U!BreakEndsBoth

\* A device whose queue overflowed gets rid of the host's side too.
OverflowEnds == U!OverflowEnds
=============================================================================
