------------------------------- MODULE MCPaxos -------------------------------
(***************************************************************************)
(* Instances of Paxos for TLC.  Every proposer has all acceptors, as in    *)
(* the hosts files of lab4, and its own value.                             *)
(***************************************************************************)
EXTENDS Paxos

CONSTANTS a1, a2, a3

MCAcceptorsFor == [p \in Proposers |-> Acceptors]
MCProposedValue == [p \in Proposers |-> p]
MCValue == Proposers
=============================================================================
