----------------------------- MODULE MCSnapshot -----------------------------
(***************************************************************************)
(* Instances of Snapshot for TLC: rings of processes numbered as in the    *)
(* hosts file, in which the processes in Starters have the options -s 1    *)
(* and -p, one id each.                                                    *)
(***************************************************************************)
EXTENDS Snapshot, TLC

CONSTANTS Starters

MCSuccessor == [p \in Process |-> (p % Cardinality(Process)) + 1]
MCTrigger == [p \in Process |-> IF p \in Starters THEN 1 ELSE -1]
MCSnapshotID == [p \in Process |-> p]
MCNone == {}
MCFragile == {<<2, 3>>}
=============================================================================
