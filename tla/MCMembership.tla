---------------------------- MODULE MCMembership ----------------------------
(***************************************************************************)
(* Instance of Membership for TLC: three peers, one or two of which crash  *)
(* when no join is under way, peer 1 possibly with -t.                     *)
(***************************************************************************)
EXTENDS Membership
=============================================================================
