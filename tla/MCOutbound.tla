------------------------------ MODULE MCOutbound ------------------------------
(***************************************************************************)
(* The builds that TLC connects: this version with itself; with a peer of  *)
(* the minor before on either side, which has flow control and cancels on  *)
(* its list of capabilities or not; and with another major version.        *)
(***************************************************************************)
EXTENDS Outbound

Current == [major |-> 1, minor |-> 2, caps |-> {"core", "heartbeat", "cancel", "flow"}]
Earlier == [major |-> 1, minor |-> 1, caps |-> {"core", "heartbeat", "cancel"}]
First   == [major |-> 1, minor |-> 0, caps |-> {"core"}]
Trimmed == [major |-> 1, minor |-> 2, caps |-> {"core", "heartbeat", "flow"}]
Next2   == [major |-> 2, minor |-> 0, caps |-> {"core"}]

MCBuilds ==
    {[host |-> Current, device |-> d] : d \in {Current, Earlier, First, Trimmed, Next2}}
      \union {[host |-> Earlier, device |-> Current]}
=============================================================================
