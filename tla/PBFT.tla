-------------------------------- MODULE PBFT --------------------------------
(***************************************************************************)
(* The consensus engine of the oracle nodes                                *)
(* (project/oracle/pkg/consensus/pbft.go), with the part of the transport  *)
(* it relies on (pkg/network/p2p.go, Broadcast and Send).                  *)
(*                                                                         *)
(* A message crosses two queues: the connection from its sender, and       *)
(* PBFT.msgChan.  ProcessMessage moves it from the first to the second and *)
(* raises p.sequence on the way, without p.mu; run takes it from the       *)
(* second and calls its handler, under p.mu.  The two are separate actions *)
(* here, because handlePrePrepare compares with a sequence that later      *)
(* messages may already have raised.                                       *)
(*                                                                         *)
(* All messages carry view 0.  Views only change through processNewView,   *)
(* which no running node reaches: the timer that starts a view change is   *)
(* armed by processNewView itself.  A digest is a function of the data it  *)
(* comes with and is left out, as no handler compares two messages.        *)
(***************************************************************************)
EXTENDS Integers, FiniteSets, Sequences

CONSTANTS Nodes,        \* PBFT.nodes
          Leader,       \* nodes[0], the only node whose isLeader is set
          Value,        \* the data proposed, each at most once
          Silent,       \* nodes that accept connections but handle nothing
          MaxQueued,    \* bound on msgChan (1000 in the code)
          Flaky,        \* the nodes that may become unreachable for a while
          MaxOutages,   \* bound on how often a node becomes unreachable
          Interval,     \* PBFT.checkpointInterval
          Word          \* 2^64 in the code: the range of uint64

ASSUME NodesAssumption ==
  /\ IsFiniteSet(Nodes)
  /\ Leader \in Nodes
  /\ Silent \subseteq Nodes \ {Leader}
  /\ Flaky \subseteq Nodes \ {Leader}

ASSUME BoundsAssumption ==
  /\ MaxQueued \in Nat \ {0}
  /\ MaxOutages \in Nat
  /\ Interval \in Nat \ {0}
  /\ Word \in Nat \ {0}

f == (Cardinality(Nodes) - 1) \div 3

VARIABLES
  sequence,            \* PBFT.sequence
  prepareMessages,     \* PBFT.prepareMessages, by sequence and sender
  commitMessages,      \* PBFT.commitMessages, by sequence and sender
  consensusReached,    \* the sequences with consensusReached true
  checkpoints,         \* the sequences in PBFT.checkpoints
  executed,            \* the results given to resultCallback, in order
  msgChan,             \* PBFT.msgChan
  net,                 \* net[s][d]: the connections from s to d
  unreachable,         \* the nodes a Send fails to reach
  outages,             \* how often a node became unreachable
  proposals,           \* history: what ProposeValue put in a pre-prepare
  prepares             \* history: who prepared a sequence, the leader included

nodeVars == <<sequence, prepareMessages, commitMessages, consensusReached,
              checkpoints, executed>>
vars == <<nodeVars, msgChan, net, unreachable, outages, proposals, prepares>>

Message == [type: {"PrePrepare", "Prepare", "Commit"}, node: Nodes,
            seq: Nat, data: Value]

Entry == [seq: Nat, node: Nodes, data: Value]

Result == [seq: Nat, data: Value]

Vote == [seq: Nat, node: Nodes]

Init ==
  /\ sequence = [n \in Nodes |-> 0]
  /\ prepareMessages = [n \in Nodes |-> {}]
  /\ commitMessages = [n \in Nodes |-> {}]
  /\ consensusReached = [n \in Nodes |-> {}]
  /\ checkpoints = [n \in Nodes |-> {}]
  /\ executed = [n \in Nodes |-> <<>>]
  /\ msgChan = [n \in Nodes |-> <<>>]
  /\ net = [s \in Nodes |-> [d \in Nodes |-> <<>>]]
  /\ unreachable = {}
  /\ outages = 0
  /\ proposals = {}
  /\ prepares = {}

\* log[seq][node] = msg
Put(log, s, n, d) ==
  {e \in log : e.seq # s \/ e.node # n} \cup {[seq |-> s, node |-> n, data |-> d]}

\* The keys of log[s], which len() counts.
Senders(log, s) == {e.node : e \in {x \in log : x.seq = s}}

(***************************************************************************)
(* P2PTransport.Broadcast: the peers one after the other in the random     *)
(* order of a map, up to the first failure.  Reaches(n) are the sets of    *)
(* peers that may get the message; the call succeeds when all do.  What a  *)
(* silent peer accepts is never read and is not kept.                      *)
(***************************************************************************)
Peers(n) == Nodes \ {n}

Reaches(n) ==
  IF Peers(n) \cap unreachable = {}
  THEN {Peers(n)}
  ELSE SUBSET (Peers(n) \ unreachable)

Broadcast(n, m, reach) ==
  net' = [net EXCEPT ![n] =
            [d \in Nodes |-> IF d \in reach \ Silent THEN Append(@[d], m) ELSE @[d]]]

-----------------------------------------------------------------------------
(***************************************************************************)
(* ProposeValue: the leader counts its own pre-prepare as a prepare and    *)
(* broadcasts it; the sequence only advances when every peer was reached.  *)
(***************************************************************************)

\* Mutants: the sequence is never advanced; it is rolled back on a failure.
NeverAdvance(n, reach) == sequence[n]
AdvanceOrRollBack(n, reach) ==
  IF reach = Peers(n) THEN sequence[n] + 1 ELSE sequence[n] - 1

AdvanceOnSuccess(n, reach) ==
  IF reach = Peers(n) THEN sequence[n] + 1 ELSE sequence[n]

ProposeValue(v) ==
  \E reach \in Reaches(Leader) :
    /\ v \notin {p.data : p \in proposals}
    /\ proposals' = proposals \cup {[seq |-> sequence[Leader], data |-> v]}
    /\ prepares' = prepares \cup {[seq |-> sequence[Leader], node |-> Leader]}
    /\ prepareMessages' = [prepareMessages EXCEPT ![Leader] =
                             Put(@, sequence[Leader], Leader, v)]
    /\ Broadcast(Leader, [type |-> "PrePrepare", node |-> Leader,
                          seq |-> sequence[Leader], data |-> v], reach)
    /\ sequence' = [sequence EXCEPT ![Leader] = AdvanceOnSuccess(Leader, reach)]
    /\ UNCHANGED <<commitMessages, consensusReached, checkpoints, executed,
                   msgChan, unreachable, outages>>

(***************************************************************************)
(* ProcessMessage: validateMessage drops what is too old; the rest raises  *)
(* the sequence and is queued.                                             *)
(***************************************************************************)
IsValid(n, m) == ~(m.seq < sequence[n] - 1 /\ sequence[n] > 1)

ProcessMessage(n, s) ==
  LET m == Head(net[s][n])
  IN /\ net[s][n] # <<>>
     /\ net' = [net EXCEPT ![s][n] = Tail(@)]
     /\ \/ /\ IsValid(n, m)
           /\ Len(msgChan[n]) < MaxQueued
           /\ sequence' = [sequence EXCEPT ![n] = IF m.seq > @ THEN m.seq ELSE @]
           /\ msgChan' = [msgChan EXCEPT ![n] = Append(@, m)]
        \/ /\ ~IsValid(n, m)
           /\ UNCHANGED <<sequence, msgChan>>
     /\ UNCHANGED <<prepareMessages, commitMessages, consensusReached,
                    checkpoints, executed, unreachable, outages, proposals,
                    prepares>>

(***************************************************************************)
(* executeConsensus: the result goes to the callback, a checkpoint is made *)
(* when the sequence is a multiple of the interval, and everything about   *)
(* lower sequences is dropped.  sequence - checkpointInterval is computed  *)
(* in uint64.                                                              *)
(***************************************************************************)

\* Mutant: the result carries the node's own sequence.
ResultAtOwnSequence(n, s, d) == [seq |-> sequence[n], data |-> d]

ResultOf(n, s, d) == [seq |-> s, data |-> d]

Kept(log, s) == {e \in log : e.seq >= s}

MakeCheckpoint(n) ==
  IF sequence[n] % Interval = 0 THEN {sequence[n]} ELSE {}

Execute(n, s, d, prepared, committed, reached) ==
  /\ executed' = [executed EXCEPT ![n] = Append(@, ResultOf(n, s, d))]
  /\ prepareMessages' = [prepareMessages EXCEPT ![n] = Kept(prepared, s)]
  /\ commitMessages' = [commitMessages EXCEPT ![n] = Kept(committed, s)]
  /\ consensusReached' = [consensusReached EXCEPT ![n] =
                            {r \in reached : r >= s}]
  /\ checkpoints' = [checkpoints EXCEPT ![n] =
                       {c \in @ \cup MakeCheckpoint(n) :
                          c >= (s - Interval) % Word}]

HandlePrePrepare(n, m) ==
  /\ m.type = "PrePrepare"
  /\ \/ /\ m.seq < sequence[n]
        /\ UNCHANGED <<prepareMessages, net, prepares>>
     \/ /\ m.seq >= sequence[n]
        /\ prepareMessages' = [prepareMessages EXCEPT ![n] =
                                 Put(@, m.seq, n, m.data)]
        /\ prepares' = prepares \cup {[seq |-> m.seq, node |-> n]}
        /\ \E reach \in Reaches(n) :
             Broadcast(n, [m EXCEPT !.type = "Prepare", !.node = n], reach)
  /\ UNCHANGED <<commitMessages, consensusReached, checkpoints, executed>>

(***************************************************************************)
(* handlePrepare: from 2f prepares on, whatever their data, every further  *)
(* prepare makes the node commit to the data of that prepare, and execute  *)
(* when it has 2f+1 commits.                                               *)
(***************************************************************************)

EnoughPrepares(prepared, s) == Cardinality(Senders(prepared, s)) >= 2 * f

\* Mutant: f commits are enough.
FCommits(committed, s) == Cardinality(Senders(committed, s)) >= f

EnoughCommits(committed, s) == Cardinality(Senders(committed, s)) >= 2 * f + 1

HandlePrepare(n, m) ==
  LET prepared  == Put(prepareMessages[n], m.seq, m.node, m.data)
      committed == Put(commitMessages[n], m.seq, n, m.data)
  IN /\ m.type = "Prepare"
     /\ \/ /\ ~EnoughPrepares(prepared, m.seq)
           /\ prepareMessages' = [prepareMessages EXCEPT ![n] = prepared]
           /\ UNCHANGED <<commitMessages, consensusReached, checkpoints,
                          executed, net>>
        \/ /\ EnoughPrepares(prepared, m.seq)
           /\ \E reach \in Reaches(n) :
                Broadcast(n, [m EXCEPT !.type = "Commit", !.node = n], reach)
           /\ \/ /\ ~EnoughCommits(committed, m.seq)
                 /\ prepareMessages' = [prepareMessages EXCEPT ![n] = prepared]
                 /\ commitMessages' = [commitMessages EXCEPT ![n] = committed]
                 /\ UNCHANGED <<consensusReached, checkpoints, executed>>
              \/ /\ EnoughCommits(committed, m.seq)
                 /\ Execute(n, m.seq, m.data, prepared, committed,
                            consensusReached[n])
     /\ UNCHANGED prepares

(***************************************************************************)
(* handleCommit: the first time 2f+1 nodes have committed, whatever the    *)
(* data, the node executes the data of the last commit.                    *)
(***************************************************************************)
HandleCommit(n, m) ==
  LET committed == Put(commitMessages[n], m.seq, m.node, m.data)
  IN /\ m.type = "Commit"
     /\ \/ /\ m.seq \in consensusReached[n]
           /\ UNCHANGED nodeVars
        \/ /\ m.seq \notin consensusReached[n]
           /\ ~EnoughCommits(committed, m.seq)
           /\ commitMessages' = [commitMessages EXCEPT ![n] = committed]
           /\ UNCHANGED <<prepareMessages, consensusReached, checkpoints,
                          executed>>
        \/ /\ m.seq \notin consensusReached[n]
           /\ EnoughCommits(committed, m.seq)
           /\ Execute(n, m.seq, m.data, prepareMessages[n], committed,
                      consensusReached[n] \cup {m.seq})
     /\ UNCHANGED <<net, prepares>>

\* One turn of run: the next message of msgChan is handled.
HandleMessage(n) ==
  /\ msgChan[n] # <<>>
  /\ msgChan' = [msgChan EXCEPT ![n] = Tail(@)]
  /\ \/ HandlePrePrepare(n, Head(msgChan[n]))
     \/ HandlePrepare(n, Head(msgChan[n]))
     \/ HandleCommit(n, Head(msgChan[n]))
  /\ UNCHANGED <<sequence, unreachable, outages, proposals>>

\* Dials of n, or writes to it, time out for a while.
LoseContact(n) ==
  /\ n \in Flaky
  /\ outages < MaxOutages
  /\ n \notin unreachable
  /\ unreachable' = unreachable \cup {n}
  /\ outages' = outages + 1
  /\ UNCHANGED <<nodeVars, msgChan, net, proposals, prepares>>

RegainContact(n) ==
  /\ n \in unreachable
  /\ unreachable' = unreachable \ {n}
  /\ UNCHANGED <<nodeVars, msgChan, net, outages, proposals, prepares>>

-----------------------------------------------------------------------------
Running == Nodes \ Silent

NodeStep(n) == HandleMessage(n) \/ \E s \in Nodes : ProcessMessage(n, s)

Next ==
  \/ \E v \in Value : ProposeValue(v)
  \/ \E n \in Running : NodeStep(n)
  \/ \E n \in Nodes : LoseContact(n) \/ RegainContact(n)

Spec == Init /\ [][Next]_vars

-----------------------------------------------------------------------------
(***************************************************************************)
(* Types of the fields of PBFT and of the messages on their way.           *)
(***************************************************************************)
TypeOK ==
  /\ sequence \in [Nodes -> Nat]
  /\ prepareMessages \in [Nodes -> SUBSET Entry]
  /\ commitMessages \in [Nodes -> SUBSET Entry]
  /\ consensusReached \in [Nodes -> SUBSET Nat]
  /\ checkpoints \in [Nodes -> SUBSET Nat]
  /\ executed \in [Nodes -> Seq(Result)]
  /\ msgChan \in [Nodes -> Seq(Message)]
  /\ net \in [Nodes -> [Nodes -> Seq(Message)]]
  /\ unreachable \subseteq Nodes
  /\ outages \in Nat
  /\ proposals \subseteq Result
  /\ prepares \subseteq Vote

(***************************************************************************)
(* What a node executes for a sequence, the leader proposed for it: no     *)
(* handler pairs the data of one request with the sequence of another.     *)
(***************************************************************************)
ExecutedWasProposed ==
  \A n \in Nodes : \A i \in 1..Len(executed[n]) : executed[n][i] \in proposals

(***************************************************************************)
(* Two results executed for one sequence, on one node or on two, carry the *)
(* same data.  The handlers count prepares and commits whatever their      *)
(* data, so this rests on the leader never using a sequence twice, which   *)
(* ProposeValue ensures only while its broadcasts succeed.                 *)
(***************************************************************************)
Agreement ==
  \A n, o \in Nodes :
    \A i \in 1..Len(executed[n]), j \in 1..Len(executed[o]) :
      executed[n][i].seq = executed[o][j].seq => executed[n][i] = executed[o][j]

AgreementUntilOutage == outages = 0 => Agreement

(***************************************************************************)
(* What a node executes, 2f+1 nodes have prepared, the leader among them,  *)
(* although a node commits with the 2f prepares it counts (pbft.go:190),   *)
(* its own pre-prepare included if it is the leader, and cleanup drops the *)
(* votes.  Every quorum of commits has one of a follower, which counted    *)
(* the prepares of 2f followers.                                           *)
(***************************************************************************)
Preparers(s) == {n \in Nodes : [seq |-> s, node |-> n] \in prepares}

ExecutedMeansPrepared ==
  \A n \in Nodes : \A i \in 1..Len(executed[n]) :
    Cardinality(Preparers(executed[n][i].seq)) >= 2 * f + 1

(***************************************************************************)
(* Once all messages have been handled, each request that was proposed has *)
(* been executed somewhere: no node waits for votes that it has thrown     *)
(* away or will not be sent.                                               *)
(***************************************************************************)
HasExecuted(n, v) == \E i \in 1..Len(executed[n]) : executed[n][i].data = v

Idle ==
  /\ unreachable = {}
  /\ \A n \in Running : msgChan[n] = <<>> /\ \A s \in Nodes : net[s][n] = <<>>

ProposalsExecuted ==
  Idle => \A p \in proposals : \E n \in Running : HasExecuted(n, p.data)
=============================================================================
