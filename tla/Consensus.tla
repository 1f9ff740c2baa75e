------------------------------ MODULE Consensus ------------------------------
(***************************************************************************)
(* What the Paxos peers of lab4 promise, with no messages and no           *)
(* acceptors: every proposer decides at most once, on a value some         *)
(* proposer was started with, and no two proposers decide differently.     *)
(* Paxos.tla implements this specification (the property Implements of     *)
(* MCPaxos.tla, the theorem RefinesConsensus of PaxosProofs.tla).          *)
(***************************************************************************)
CONSTANTS Proposers,       \* the proposers of the hosts file
          Proposed,        \* the values they were started with (flag -v)
          Undecided        \* no decision yet

VARIABLE decision          \* decision[p]: the value proposer p logged as chosen

Init == decision = [p \in Proposers |-> Undecided]

(***************************************************************************)
(* Proposer p decides v: only once, and only what the others decided.      *)
(***************************************************************************)
Decide(p, v) ==
  /\ decision[p] = Undecided
  /\ \A q \in Proposers : decision[q] \in {Undecided, v}
  /\ decision' = [decision EXCEPT ![p] = v]

Next == \E p \in Proposers, v \in Proposed : Decide(p, v)

Spec == Init /\ [][Next]_decision
=============================================================================
