---------------------------- MODULE MCOracleNode ----------------------------
(***************************************************************************)
(* Instances of OracleNode for TLC: the leader, which serves run_node and  *)
(* server, and a follower of server.  Requests are interchangeable.        *)
(***************************************************************************)
EXTENDS OracleNode, TLC

CONSTANTS r1, r2

RequestSymmetry == Permutations(Requests)
=============================================================================
