------------------------------- MODULE MCPBFT -------------------------------
(***************************************************************************)
(* Instances of PBFT for TLC: four nodes, f = 1, one of them silent, so    *)
(* that every quorum needs all the others.                                 *)
(***************************************************************************)
EXTENDS PBFT, TLC

CONSTANTS n1, n2, n3, n4, v1, v2

\* The running followers are interchangeable, and so are the proposed data.
FollowerSymmetry ==
  Permutations(Nodes \ ({Leader} \cup Silent \cup Flaky)) \cup Permutations(Value)

(***************************************************************************)
(* Bound on two requests with an outage: the outage begins before the      *)
(* second, which is only made when everyone is reachable again and before  *)
(* a follower has prepared.  One request with an outage and two requests   *)
(* without one are not bounded.                                            *)
(***************************************************************************)
OutageComesFirst ==
  /\ outages' > outages => Cardinality(proposals) <= 1
  /\ outages > 0 /\ proposals # {} /\ proposals' # proposals
       => unreachable = {} /\ \A p \in prepares : p.node = Leader
=============================================================================
