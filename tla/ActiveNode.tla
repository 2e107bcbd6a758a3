----------------------------- MODULE ActiveNode -----------------------------
(***************************************************************************)
(* What the HA managers of a cluster promise together: the active node     *)
(* holds a lease.  At most one node has it at a time; another node gets it *)
(* when the holder gave it up, or did not refresh it for Delay seconds.    *)
(* HAManager implements this with the rows of the table ha_node.           *)
(***************************************************************************)
EXTENDS Integers

CONSTANTS
  Nodes,   \* node names
  Delay    \* failover delay, in seconds

VARIABLES
  lease,   \* the time of the last refresh, for the node that has the lease
  clock    \* the time

NoLease == [n \in {} |-> 0]
LeaseOf(n, time) == [m \in {n} |-> time]
Holders == DOMAIN lease

Init == lease = NoLease /\ clock = 1

Elect(n) == Holders = {} /\ lease' = LeaseOf(n, clock)

Refresh(n) == Holders = {n} /\ lease' = LeaseOf(n, clock)

(* n takes over from m *)
Succeed(m, n) ==
  /\ Holders = {m}
  /\ n # m
  /\ clock >= lease[m] + Delay
  /\ lease' = LeaseOf(n, clock)

GiveUp == Holders # {} /\ lease' = NoLease

Next ==
  \/ /\ \/ \E n \in Nodes : Elect(n) \/ Refresh(n)
        \/ \E m, n \in Nodes : Succeed(m, n)
        \/ GiveUp
     /\ UNCHANGED clock
  \/ clock' = clock + 1 /\ UNCHANGED lease

Spec == Init /\ [][Next]_<<lease, clock>>
=============================================================================
