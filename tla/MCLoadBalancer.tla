--------------------------- MODULE MCLoadBalancer ---------------------------
(***************************************************************************)
(* Instances of LoadBalancer for TLC.  Where a run's question depends on   *)
(* how the times compare, a tick is one second and the values are those of *)
(* the code (cooldown 1, lease 3, timeout 5); elsewhere they are as small  *)
(* as lets each of them run out before and after each of the others.       *)
(***************************************************************************)
EXTENDS LoadBalancer, TLC

CONSTANTS c1, c2, c3, a1, a2, a3

TwoBackends == <<a1, a2>>
NoBackends == <<>>

Symmetry == Permutations(Clients) \cup Permutations(Addresses)
=============================================================================
