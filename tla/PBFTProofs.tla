---------------------------- MODULE PBFTProofs ----------------------------
(***************************************************************************)
(* Proofs about PBFT, for any number of nodes and requests and any outage. *)
(*                                                                         *)
(* The handlers take what a message says at its word, so that everything   *)
(* rests on the messages on their way: each carries the sequence and the   *)
(* data of a proposal, a prepare that of a follower that has prepared, and *)
(* the commit of a follower has 2f followers that have prepared behind it. *)
(* All of it speaks of the histories proposals and prepares, which only    *)
(* grow, so that it stays true of a message or a vote whatever happens     *)
(* later, also when the votes it rested on are cleaned up.  Agreement      *)
(* needs one thing more, that the leader does not use a sequence twice,    *)
(* and this only holds without outages.                                    *)
(***************************************************************************)
EXTENDS PBFT, FiniteSetTheorems, TLAPS

LEMMA FIsNatural == f \in Nat /\ 2 * f \in Nat
<1>1. Cardinality(Nodes) \in Nat
  BY NodesAssumption, FS_CardinalityType
<1>2. Cardinality(Nodes) # 0
  BY NodesAssumption, FS_EmptySet
<1> QED
  BY <1>1, <1>2 DEF f

-----------------------------------------------------------------------------
(***************************************************************************)
(* Lemmas about the operators.                                             *)
(***************************************************************************)
LEMMA PutType ==
  ASSUME NEW log \in SUBSET Entry, NEW m \in Message, NEW n \in Nodes
  PROVE  Put(log, m.seq, n, m.data) \in SUBSET Entry
BY DEF Put, Entry, Message

LEMMA KeptType ==
  ASSUME NEW log \in SUBSET Entry, NEW s
  PROVE  Kept(log, s) \in SUBSET Entry
BY DEF Kept

\* The voters for a sequence are a finite set.
LEMMA SendersFinite ==
  ASSUME NEW log \in SUBSET Entry, NEW s
  PROVE  IsFiniteSet(Senders(log, s)) /\ Cardinality(Senders(log, s)) \in Nat
<1>1. Senders(log, s) \subseteq Nodes
  BY DEF Senders, Entry
<1>2. IsFiniteSet(Senders(log, s))
  BY <1>1, NodesAssumption, FS_Subset
<1> QED
  BY <1>2, FS_CardinalityType

LEMMA BroadcastType ==
  ASSUME NEW S, net \in [Nodes -> [Nodes -> Seq(S)]], NEW n \in Nodes,
         NEW m \in S, NEW reach, Broadcast(n, m, reach)
  PROVE  net' \in [Nodes -> [Nodes -> Seq(S)]]
<1>1. ASSUME NEW d \in Nodes
      PROVE  Append(net[n][d], m) \in Seq(S) /\ net[n][d] \in Seq(S)
  OBVIOUS
<1> QED
  BY <1>1 DEF Broadcast

LEMMA SeqOfMore ==
  ASSUME NEW S, NEW T, S \subseteq T, NEW q \in Seq(S)
  PROVE  q \in Seq(T)
OBVIOUS

-----------------------------------------------------------------------------
LEMMA InitTypes == Init => TypeOK
BY DEF Init, TypeOK

\* The message a handler gets.
LEMMA HeadIsMessage ==
  ASSUME TypeOK, NEW n \in Nodes
  PROVE  /\ msgChan[n] # <<>> => /\ Head(msgChan[n]) \in Message
                                 /\ Tail(msgChan[n]) \in Seq(Message)
         /\ \A s \in Nodes : net[s][n] # <<>> =>
              /\ Head(net[s][n]) \in Message
              /\ Tail(net[s][n]) \in Seq(Message)
BY DEF TypeOK

LEMMA ExecuteTypes ==
  ASSUME TypeOK, NEW n \in Nodes, NEW m \in Message,
         NEW prepared \in SUBSET Entry, NEW committed \in SUBSET Entry,
         NEW reached \in SUBSET Nat,
         Execute(n, m.seq, m.data, prepared, committed, reached)
  PROVE  /\ prepareMessages' \in [Nodes -> SUBSET Entry]
         /\ commitMessages' \in [Nodes -> SUBSET Entry]
         /\ consensusReached' \in [Nodes -> SUBSET Nat]
         /\ checkpoints' \in [Nodes -> SUBSET Nat]
         /\ executed' \in [Nodes -> Seq(Result)]
<1>1. /\ prepareMessages' \in [Nodes -> SUBSET Entry]
      /\ commitMessages' \in [Nodes -> SUBSET Entry]
  BY KeptType DEF TypeOK, Execute
<1>2. consensusReached' \in [Nodes -> SUBSET Nat]
  BY DEF TypeOK, Execute
<1>3. checkpoints' \in [Nodes -> SUBSET Nat]
  <2>1. sequence[n] \in Nat
    BY DEF TypeOK
  <2>2. MakeCheckpoint(n) \subseteq Nat
    BY <2>1 DEF MakeCheckpoint
  <2> QED
    BY <2>2 DEF TypeOK, Execute
<1>4. executed' \in [Nodes -> Seq(Result)]
  <2>1. ResultOf(n, m.seq, m.data) \in Result
    BY DEF ResultOf, Result, Message
  <2>2. executed[n] \in Seq(Result)
    BY DEF TypeOK
  <2>3. Append(executed[n], ResultOf(n, m.seq, m.data)) \in Seq(Result)
    BY <2>1, <2>2
  <2> QED
    BY <2>3 DEF TypeOK, Execute
<1> QED
  BY <1>1, <1>2, <1>3, <1>4

LEMMA HandlerTypes ==
  ASSUME TypeOK, NEW n \in Nodes, NEW m \in Message,
         HandlePrePrepare(n, m) \/ HandlePrepare(n, m) \/ HandleCommit(n, m)
  PROVE  /\ prepareMessages' \in [Nodes -> SUBSET Entry]
         /\ commitMessages' \in [Nodes -> SUBSET Entry]
         /\ consensusReached' \in [Nodes -> SUBSET Nat]
         /\ checkpoints' \in [Nodes -> SUBSET Nat]
         /\ executed' \in [Nodes -> Seq(Result)]
         /\ net' \in [Nodes -> [Nodes -> Seq(Message)]]
         /\ prepares' \subseteq Vote
<1>1. /\ [m EXCEPT !.type = "Prepare", !.node = n] \in Message
      /\ [m EXCEPT !.type = "Commit", !.node = n] \in Message
  BY DEF Message
<1>2. /\ prepareMessages[n] \in SUBSET Entry
      /\ commitMessages[n] \in SUBSET Entry
      /\ consensusReached[n] \in SUBSET Nat
      /\ net \in [Nodes -> [Nodes -> Seq(Message)]]
      /\ m.node \in Nodes /\ m.seq \in Nat
  BY DEF TypeOK, Message
<1> DEFINE prepared == Put(prepareMessages[n], m.seq, m.node, m.data)
           own == Put(commitMessages[n], m.seq, n, m.data)
           committed == Put(commitMessages[n], m.seq, m.node, m.data)
<1>3. prepared \in SUBSET Entry /\ own \in SUBSET Entry /\ committed \in SUBSET Entry
  BY <1>2, PutType
<1>4. CASE HandlePrePrepare(n, m)
  <2>1. net' \in [Nodes -> [Nodes -> Seq(Message)]]
    BY <1>1, <1>2, <1>4, BroadcastType DEF HandlePrePrepare
  <2>2. prepareMessages' \in [Nodes -> SUBSET Entry]
    <3>1. Put(prepareMessages[n], m.seq, n, m.data) \in SUBSET Entry
      BY <1>2, PutType
    <3> QED
      BY <1>4, <3>1 DEF HandlePrePrepare, TypeOK
  <2>3. prepares' \subseteq Vote
    BY <1>2, <1>4 DEF HandlePrePrepare, TypeOK, Vote
  <2> QED
    BY <1>4, <2>1, <2>2, <2>3 DEF HandlePrePrepare, TypeOK
<1>5. CASE HandlePrepare(n, m)
  <2>1. net' \in [Nodes -> [Nodes -> Seq(Message)]]
    BY <1>1, <1>2, <1>5, BroadcastType DEF HandlePrepare
  <2>2. CASE Execute(n, m.seq, m.data, prepared, own, consensusReached[n])
    <3> HIDE DEF prepared, own
    <3> QED
      BY <1>2, <1>3, <1>5, <2>1, <2>2, ExecuteTypes DEF HandlePrepare, TypeOK
  <2>3. CASE /\ prepareMessages' = [prepareMessages EXCEPT ![n] = prepared]
             /\ \/ commitMessages' = [commitMessages EXCEPT ![n] = own]
                \/ UNCHANGED commitMessages
             /\ UNCHANGED <<consensusReached, checkpoints, executed>>
    <3> HIDE DEF prepared, own
    <3> QED
      BY <1>3, <1>5, <2>1, <2>3 DEF TypeOK, HandlePrepare
  <2> QED
    BY <1>5, <2>2, <2>3 DEF HandlePrepare
<1>6. CASE HandleCommit(n, m)
  <2>1. net' \in [Nodes -> [Nodes -> Seq(Message)]]
    BY <1>2, <1>6 DEF HandleCommit
  <2>2. CASE Execute(n, m.seq, m.data, prepareMessages[n], committed,
                     consensusReached[n] \cup {m.seq})
    <3> HIDE DEF committed
    <3>1. consensusReached[n] \cup {m.seq} \in SUBSET Nat
      BY <1>2
    <3> QED
      BY <1>2, <1>3, <1>6, <2>1, <2>2, <3>1, ExecuteTypes DEF HandleCommit, TypeOK
  <2>3. CASE /\ commitMessages' = [commitMessages EXCEPT ![n] = committed]
             /\ UNCHANGED <<prepareMessages, consensusReached, checkpoints, executed>>
    <3> HIDE DEF committed
    <3> QED
      BY <1>3, <1>6, <2>1, <2>3 DEF TypeOK, HandleCommit
  <2>4. CASE UNCHANGED nodeVars
    BY <1>6, <2>1, <2>4 DEF TypeOK, nodeVars, HandleCommit
  <2> QED
    BY <1>6, <2>2, <2>3, <2>4 DEF HandleCommit
<1> QED
  BY <1>4, <1>5, <1>6

LEMMA StepTypes == TypeOK /\ [Next]_vars => TypeOK'
<1> SUFFICES ASSUME TypeOK, [Next]_vars PROVE TypeOK'
  OBVIOUS
<1> USE NodesAssumption
<1>1. ASSUME NEW v \in Value, ProposeValue(v)
      PROVE  TypeOK'
  <2>1. PICK reach \in Reaches(Leader) :
          /\ prepareMessages' = [prepareMessages EXCEPT ![Leader] =
                                   Put(@, sequence[Leader], Leader, v)]
          /\ Broadcast(Leader, [type |-> "PrePrepare", node |-> Leader,
                                seq |-> sequence[Leader], data |-> v], reach)
          /\ sequence' = [sequence EXCEPT ![Leader] = AdvanceOnSuccess(Leader, reach)]
          /\ proposals' = proposals \cup {[seq |-> sequence[Leader], data |-> v]}
          /\ prepares' = prepares \cup {[seq |-> sequence[Leader], node |-> Leader]}
    BY <1>1 DEF ProposeValue
  <2> DEFINE m == [type |-> "PrePrepare", node |-> Leader,
                   seq |-> sequence[Leader], data |-> v]
  <2>2. sequence[Leader] \in Nat
    BY DEF TypeOK
  <2>3. m \in Message /\ m.seq = sequence[Leader] /\ m.data = v
    BY <2>2 DEF Message
  <2>4. net' \in [Nodes -> [Nodes -> Seq(Message)]]
    <3>1. net \in [Nodes -> [Nodes -> Seq(Message)]]
      BY DEF TypeOK
    <3> QED
      BY <2>1, <2>3, <3>1, BroadcastType
  <2>5. prepareMessages' \in [Nodes -> SUBSET Entry]
    <3> HIDE DEF m
    <3>1. Put(prepareMessages[Leader], sequence[Leader], Leader, v) \in SUBSET Entry
      BY <2>3, PutType DEF TypeOK
    <3> QED
      BY <2>1, <3>1 DEF TypeOK
  <2>6. sequence' \in [Nodes -> Nat]
    BY <2>1, <2>2 DEF TypeOK, AdvanceOnSuccess
  <2>7. proposals' \subseteq Result
    BY <2>1, <2>2 DEF TypeOK, Result
  <2>8. prepares' \subseteq Vote
    BY <2>1, <2>2 DEF TypeOK, Vote
  <2> QED
    BY <1>1, <2>4, <2>5, <2>6, <2>7, <2>8 DEF TypeOK, ProposeValue
<1>2. ASSUME NEW n \in Nodes, NEW s \in Nodes, ProcessMessage(n, s)
      PROVE  TypeOK'
  <2>1. /\ Head(net[s][n]) \in Message
        /\ Tail(net[s][n]) \in Seq(Message)
    BY <1>2, HeadIsMessage DEF ProcessMessage
  <2>2. net' \in [Nodes -> [Nodes -> Seq(Message)]]
    BY <1>2, <2>1 DEF TypeOK, ProcessMessage
  <2>3. Head(net[s][n]).seq \in Nat
    BY <2>1 DEF Message
  <2>4. sequence' \in [Nodes -> Nat]
    BY <1>2, <2>3 DEF TypeOK, ProcessMessage
  <2>5. Append(msgChan[n], Head(net[s][n])) \in Seq(Message)
    BY <2>1 DEF TypeOK
  <2>6. msgChan' \in [Nodes -> Seq(Message)]
    BY <1>2, <2>5 DEF TypeOK, ProcessMessage
  <2> QED
    BY <1>2, <2>2, <2>4, <2>6 DEF TypeOK, ProcessMessage
<1>3. ASSUME NEW n \in Nodes, HandleMessage(n)
      PROVE  TypeOK'
  <2>1. Head(msgChan[n]) \in Message /\ Tail(msgChan[n]) \in Seq(Message)
    BY <1>3, HeadIsMessage DEF HandleMessage
  <2>2. msgChan' \in [Nodes -> Seq(Message)]
    BY <1>3, <2>1 DEF TypeOK, HandleMessage
  <2> QED
    BY <1>3, <2>1, <2>2, HandlerTypes DEF TypeOK, HandleMessage
<1>4. ASSUME NEW n \in Nodes, LoseContact(n) \/ RegainContact(n)
      PROVE  TypeOK'
  <2>1. outages' \in Nat
    BY <1>4 DEF TypeOK, LoseContact, RegainContact
  <2>2. unreachable' \subseteq Nodes
    BY <1>4 DEF TypeOK, LoseContact, RegainContact
  <2>3. UNCHANGED <<nodeVars, msgChan, net, proposals, prepares>>
    BY <1>4 DEF LoseContact, RegainContact
  <2> QED
    BY <2>1, <2>2, <2>3 DEF TypeOK, nodeVars
<1>5. CASE UNCHANGED vars
  BY <1>5 DEF TypeOK, vars, nodeVars
<1> QED
  BY <1>1, <1>2, <1>3, <1>4, <1>5 DEF Next, NodeStep, Running

(***************************************************************************)
(* Every reachable state is typed, for any nodes, requests and outages.    *)
(***************************************************************************)
THEOREM TypeCorrect == Spec => []TypeOK
BY InitTypes, StepTypes, PTL DEF Spec

-----------------------------------------------------------------------------
(***************************************************************************)
(* What the histories P of prepares and R of proposals say about a         *)
(* sequence: a follower may commit to it; it may be executed.              *)
(***************************************************************************)
PreparersIn(P, s) == {n \in Nodes : [seq |-> s, node |-> n] \in P}

Commits(P, s) == Cardinality(PreparersIn(P, s) \ {Leader}) >= 2 * f

Executes(P, s) == Cardinality(PreparersIn(P, s)) >= 2 * f + 1

LEMMA PreparersFinite ==
  ASSUME NEW P, NEW s
  PROVE  /\ IsFiniteSet(PreparersIn(P, s))
         /\ Cardinality(PreparersIn(P, s)) \in Nat
         /\ IsFiniteSet(PreparersIn(P, s) \ {Leader})
         /\ Cardinality(PreparersIn(P, s) \ {Leader}) \in Nat
<1>1. IsFiniteSet(PreparersIn(P, s))
  BY NodesAssumption, FS_Subset DEF PreparersIn
<1>2. IsFiniteSet(PreparersIn(P, s) \ {Leader})
  BY <1>1, FS_Subset
<1> QED
  BY <1>1, <1>2, FS_CardinalityType

\* The histories only grow, and what they say remains true.
LEMMA HistoryGrows ==
  ASSUME NEW P, NEW Q, P \subseteq Q, NEW s
  PROVE  /\ Commits(P, s) => Commits(Q, s)
         /\ Executes(P, s) => Executes(Q, s)
<1>1. /\ PreparersIn(P, s) \subseteq PreparersIn(Q, s)
      /\ PreparersIn(P, s) \ {Leader} \subseteq PreparersIn(Q, s) \ {Leader}
  BY DEF PreparersIn
<1>2. /\ Cardinality(PreparersIn(P, s)) <= Cardinality(PreparersIn(Q, s))
      /\ Cardinality(PreparersIn(P, s) \ {Leader})
           <= Cardinality(PreparersIn(Q, s) \ {Leader})
  BY <1>1, PreparersFinite, FS_Subset
<1>3. /\ Cardinality(PreparersIn(P, s)) \in Nat
      /\ Cardinality(PreparersIn(Q, s)) \in Nat
      /\ Cardinality(PreparersIn(P, s) \ {Leader}) \in Nat
      /\ Cardinality(PreparersIn(Q, s) \ {Leader}) \in Nat
  BY PreparersFinite
<1> QED
  BY <1>2, <1>3, FIsNatural DEF Commits, Executes

\* The 2f prepares that a follower counts are those of followers.
LEMMA PreparesCommit ==
  ASSUME NEW P, NEW s, NEW log \in SUBSET Entry, EnoughPrepares(log, s),
         \A e \in log : e.node # Leader /\ [seq |-> e.seq, node |-> e.node] \in P
  PROVE  Commits(P, s)
<1>1. Senders(log, s) \subseteq PreparersIn(P, s) \ {Leader}
  BY DEF Senders, PreparersIn, Entry
<1>2. Cardinality(Senders(log, s)) <= Cardinality(PreparersIn(P, s) \ {Leader})
  BY <1>1, PreparersFinite, FS_Subset
<1> QED
  BY <1>2, SendersFinite, PreparersFinite, FIsNatural DEF EnoughPrepares, Commits

\* A quorum of commits has one of a follower, if there are any.
LEMMA CommitsExecute ==
  ASSUME NEW P, NEW s, NEW log \in SUBSET Entry, EnoughCommits(log, s),
         [seq |-> s, node |-> Leader] \in P,
         \A e \in log : e.seq = s /\ e.node # Leader => Commits(P, s)
  PROVE  Executes(P, s)
<1>1. Leader \in PreparersIn(P, s)
  BY NodesAssumption DEF PreparersIn
<1>2. Cardinality(PreparersIn(P, s) \ {Leader}) = Cardinality(PreparersIn(P, s)) - 1
  BY <1>1, PreparersFinite, FS_RemoveElement
<1>3. ASSUME f = 0 PROVE Executes(P, s)
  <2>1. Cardinality(PreparersIn(P, s)) # 0
    BY <1>1, PreparersFinite, FS_EmptySet
  <2>2. Cardinality(PreparersIn(P, s)) \in Nat
    BY PreparersFinite
  <2>3. 2 * f + 1 = 1
    BY <1>3
  <2> QED
    BY <2>1, <2>2, <2>3 DEF Executes
<1>4. ASSUME f # 0 PROVE Commits(P, s)
  <2>1. Cardinality(Senders(log, s)) >= 2
    BY <1>4, FIsNatural, SendersFinite DEF EnoughCommits
  <2>2. Cardinality({Leader}) = 1 /\ IsFiniteSet({Leader})
    BY FS_Singleton
  <2>3. ~(Senders(log, s) \subseteq {Leader})
    <3> SUFFICES ASSUME Senders(log, s) \subseteq {Leader} PROVE FALSE
      OBVIOUS
    <3>1. Cardinality(Senders(log, s)) <= 1
      BY <2>2, FS_Subset
    <3> QED
      BY <2>1, <3>1, SendersFinite
  <2> QED
    BY <2>3 DEF Senders
<1>5. /\ Cardinality(PreparersIn(P, s)) \in Nat
      /\ Cardinality(PreparersIn(P, s) \ {Leader}) \in Nat
  BY PreparersFinite
<1>6. ASSUME f # 0 PROVE Executes(P, s)
  BY <1>2, <1>4, <1>5, <1>6, FIsNatural DEF Commits, Executes
<1> QED
  BY <1>3, <1>6

-----------------------------------------------------------------------------
(***************************************************************************)
(* The inductive invariant, under the histories P and R: the votes a node  *)
(* holds, what it executed, and the messages on their way to d.            *)
(***************************************************************************)
GoodPrepares(P, n) ==
  {e \in Entry : IF e.node = Leader THEN n = Leader
                 ELSE [seq |-> e.seq, node |-> e.node] \in P}

GoodCommits(P) == {e \in Entry : e.node # Leader => Commits(P, e.seq)}

GoodResults(P, R) == {r \in R : Executes(P, r.seq)}

GoodMessages(P, R, d) ==
  {m \in Message :
     /\ [seq |-> m.seq, data |-> m.data] \in R
     /\ m.type = "PrePrepare" => d # Leader
     /\ m.type = "Prepare" => /\ m.node # Leader
                              /\ [seq |-> m.seq, node |-> m.node] \in P
     /\ m.type = "Commit" /\ m.node # Leader => Commits(P, m.seq)}

VotesInv(P, R) ==
  \A n \in Nodes : /\ prepareMessages[n] \subseteq GoodPrepares(P, n)
                   /\ commitMessages[n] \subseteq GoodCommits(P)
                   /\ executed[n] \in Seq(GoodResults(P, R))

WayInv(P, R) ==
  \A d \in Nodes : /\ msgChan[d] \in Seq(GoodMessages(P, R, d))
                   /\ \A s \in Nodes : net[s][d] \in Seq(GoodMessages(P, R, d))

LeaderInv(P, R) == \A r \in R : [seq |-> r.seq, node |-> Leader] \in P

IInv ==
  /\ TypeOK
  /\ VotesInv(prepares, proposals)
  /\ WayInv(prepares, proposals)
  /\ LeaderInv(prepares, proposals)

LEMMA InvInit == Init => IInv
<1> SUFFICES ASSUME Init PROVE IInv
  OBVIOUS
<1>1. TypeOK
  BY InitTypes
<1>2. VotesInv(prepares, proposals)
  BY DEF Init, VotesInv
<1>3. WayInv(prepares, proposals)
  BY DEF Init, WayInv
<1>4. LeaderInv(prepares, proposals)
  BY DEF Init, LeaderInv
<1> QED
  BY <1>1, <1>2, <1>3, <1>4 DEF IInv

LEMMA InvGrows ==
  ASSUME IInv, NEW P, prepares \subseteq P, NEW R, proposals \subseteq R
  PROVE  VotesInv(P, R) /\ WayInv(P, R)
<1>1. \A s : /\ Commits(prepares, s) => Commits(P, s)
             /\ Executes(prepares, s) => Executes(P, s)
  BY HistoryGrows
<1>2. ASSUME NEW n \in Nodes
      PROVE  /\ GoodPrepares(prepares, n) \subseteq GoodPrepares(P, n)
             /\ GoodMessages(prepares, proposals, n) \subseteq GoodMessages(P, R, n)
  BY <1>1 DEF GoodPrepares, GoodMessages
<1>3. /\ GoodCommits(prepares) \subseteq GoodCommits(P)
      /\ GoodResults(prepares, proposals) \subseteq GoodResults(P, R)
  BY <1>1 DEF GoodCommits, GoodResults
<1>4. VotesInv(P, R)
  BY <1>2, <1>3, SeqOfMore DEF IInv, VotesInv
<1>5. WayInv(P, R)
  BY <1>2, SeqOfMore DEF IInv, WayInv
<1> QED
  BY <1>4, <1>5

LEMMA BroadcastGood ==
  ASSUME TypeOK, NEW P, NEW R, WayInv(P, R), NEW n \in Nodes, NEW m, NEW reach,
         \A d \in reach \cap Nodes : m \in GoodMessages(P, R, d),
         Broadcast(n, m, reach)
  PROVE  \A s, d \in Nodes : net'[s][d] \in Seq(GoodMessages(P, R, d))
<1> SUFFICES ASSUME NEW s \in Nodes, NEW d \in Nodes
             PROVE  net'[s][d] \in Seq(GoodMessages(P, R, d))
  OBVIOUS
<1>1. net[s][d] \in Seq(GoodMessages(P, R, d))
  BY DEF WayInv
<1>2. \/ net'[s][d] = net[s][d]
      \/ d \in reach /\ net'[s][d] = Append(net[s][d], m)
  BY DEF Broadcast, TypeOK
<1> QED
  BY <1>1, <1>2

-----------------------------------------------------------------------------
(***************************************************************************)
(* An execution keeps some of the votes it is given, and records a result  *)
(* that 2f+1 nodes have prepared.                                          *)
(***************************************************************************)
LEMMA ExecuteGood ==
  ASSUME TypeOK, NEW P, NEW R, VotesInv(P, R), LeaderInv(P, R),
         NEW n \in Nodes, NEW m \in Message, [seq |-> m.seq, data |-> m.data] \in R,
         NEW prepared, prepared \subseteq GoodPrepares(P, n),
         NEW committed, committed \subseteq GoodCommits(P),
         EnoughCommits(committed, m.seq),
         NEW reached, Execute(n, m.seq, m.data, prepared, committed, reached)
  PROVE  VotesInv(P, R)'
<1>1. committed \in SUBSET Entry
  BY DEF GoodCommits
<1>2. [seq |-> m.seq, node |-> Leader] \in P
  BY DEF LeaderInv
<1>3. \A e \in committed : e.seq = m.seq /\ e.node # Leader => Commits(P, m.seq)
  BY DEF GoodCommits
<1>4. Executes(P, m.seq)
  BY <1>1, <1>2, <1>3, CommitsExecute
<1>5. [seq |-> m.seq, data |-> m.data] \in GoodResults(P, R)
  BY <1>4 DEF GoodResults
<1> SUFFICES ASSUME NEW o \in Nodes
             PROVE  /\ prepareMessages'[o] \subseteq GoodPrepares(P, o)
                    /\ commitMessages'[o] \subseteq GoodCommits(P)
                    /\ executed'[o] \in Seq(GoodResults(P, R))
  BY DEF VotesInv
<1>6. CASE o # n
  BY <1>6 DEF Execute, VotesInv, TypeOK
<1>7. CASE o = n
  <2>1. /\ executed'[n] = Append(executed[n], [seq |-> m.seq, data |-> m.data])
        /\ executed[n] \in Seq(GoodResults(P, R))
    BY DEF Execute, ResultOf, VotesInv, TypeOK
  <2>2. executed'[n] \in Seq(GoodResults(P, R))
    BY <1>5, <2>1
  <2>3. prepareMessages'[n] = Kept(prepared, m.seq)
        /\ commitMessages'[n] = Kept(committed, m.seq)
    BY DEF Execute, TypeOK
  <2>4. prepareMessages'[n] \subseteq prepared /\ commitMessages'[n] \subseteq committed
    BY <2>3 DEF Kept
  <2> QED
    BY <1>7, <2>2, <2>4
<1> QED
  BY <1>6, <1>7

\* An entry that is put into a log is good, if the sender's vote is.
LEMMA PutGood ==
  ASSUME NEW G, NEW log, log \subseteq G, NEW s, NEW n, NEW d,
         [seq |-> s, node |-> n, data |-> d] \in G
  PROVE  Put(log, s, n, d) \subseteq G
BY DEF Put

LEMMA PrePrepareGood ==
  ASSUME IInv, NEW n \in Nodes, NEW m \in GoodMessages(prepares, proposals, n),
         proposals' = proposals, HandlePrePrepare(n, m), NEW P, P = prepares'
  PROVE  /\ VotesInv(P, proposals)'
         /\ \A s, d \in Nodes : net'[s][d] \in Seq(GoodMessages(P, proposals, d))
         /\ prepares \subseteq P
<1>1. prepares \subseteq P
  BY DEF HandlePrePrepare
<1>2. VotesInv(P, proposals) /\ WayInv(P, proposals)
  BY <1>1, InvGrows
<1>3. /\ TypeOK /\ m \in Message /\ n # Leader
      /\ m.seq \in Nat /\ m.data \in Value
      /\ [seq |-> m.seq, data |-> m.data] \in proposals
  BY DEF IInv, GoodMessages, HandlePrePrepare, Message
<1>4. CASE UNCHANGED <<prepareMessages, net, prepares>>
  BY <1>1, <1>2, <1>4 DEF HandlePrePrepare, VotesInv, WayInv
<1>5. CASE /\ prepareMessages' = [prepareMessages EXCEPT ![n] =
                                   Put(@, m.seq, n, m.data)]
           /\ prepares' = prepares \cup {[seq |-> m.seq, node |-> n]}
           /\ \E reach \in Reaches(n) :
                Broadcast(n, [m EXCEPT !.type = "Prepare", !.node = n], reach)
  <2> DEFINE p == [m EXCEPT !.type = "Prepare", !.node = n]
             e == [seq |-> m.seq, node |-> n, data |-> m.data]
  <2>1. e \in GoodPrepares(P, n)
    BY <1>3, <1>5 DEF GoodPrepares, Entry
  <2>2. Put(prepareMessages[n], m.seq, n, m.data) \subseteq GoodPrepares(P, n)
    <3>1. prepareMessages[n] \subseteq GoodPrepares(P, n)
      BY <1>2 DEF VotesInv
    <3> QED
      BY <2>1, <3>1, PutGood
  <2>3. \A o \in Nodes : prepareMessages'[o] \subseteq GoodPrepares(P, o)
    BY <1>2, <1>3, <1>5, <2>2 DEF VotesInv, TypeOK
  <2>4. VotesInv(P, proposals)'
    BY <1>2, <2>3 DEF VotesInv, HandlePrePrepare
  <2>5. p \in Message /\ p.seq = m.seq /\ p.data = m.data /\ p.node = n
        /\ p.type = "Prepare"
    BY <1>3 DEF Message
  <2> HIDE DEF p
  <2>6. \A d \in Nodes : p \in GoodMessages(P, proposals, d)
    BY <1>3, <1>5, <2>5 DEF GoodMessages
  <2>7. \E reach \in Reaches(n) : Broadcast(n, p, reach)
    BY <1>5 DEF p
  <2>8. \A s, d \in Nodes : net'[s][d] \in Seq(GoodMessages(P, proposals, d))
    BY <1>2, <1>3, <2>6, <2>7, BroadcastGood
  <2> QED
    BY <1>1, <2>4, <2>8
<1> QED
  BY <1>4, <1>5 DEF HandlePrePrepare

LEMMA PrepareGood ==
  ASSUME IInv, NEW n \in Nodes, NEW m \in GoodMessages(prepares, proposals, n),
         proposals' = proposals, HandlePrepare(n, m), NEW P, P = prepares
  PROVE  /\ VotesInv(P, proposals)'
         /\ \A s, d \in Nodes : net'[s][d] \in Seq(GoodMessages(P, proposals, d))
<1> DEFINE prepared == Put(prepareMessages[n], m.seq, m.node, m.data)
           committed == Put(commitMessages[n], m.seq, n, m.data)
<1>1. /\ VotesInv(P, proposals) /\ WayInv(P, proposals) /\ LeaderInv(P, proposals)
      /\ TypeOK /\ m \in Message /\ m.type = "Prepare"
      /\ m.seq \in Nat /\ m.data \in Value /\ m.node \in Nodes
      /\ [seq |-> m.seq, data |-> m.data] \in proposals
      /\ m.node # Leader /\ [seq |-> m.seq, node |-> m.node] \in P
  BY DEF IInv, GoodMessages, HandlePrepare, Message
<1>2. prepared \subseteq GoodPrepares(P, n)
  <2>1. [seq |-> m.seq, node |-> m.node, data |-> m.data] \in GoodPrepares(P, n)
    BY <1>1 DEF GoodPrepares, Entry
  <2>2. prepareMessages[n] \subseteq GoodPrepares(P, n)
    BY <1>1 DEF VotesInv
  <2> QED
    BY <2>1, <2>2, PutGood
<1>3. ASSUME EnoughPrepares(prepared, m.seq), n # Leader
      PROVE  Commits(P, m.seq)
  <2> HIDE DEF prepared
  <2>1. prepared \in SUBSET Entry
    BY <1>2 DEF GoodPrepares
  <2>2. \A e \in prepared : e.node # Leader /\ [seq |-> e.seq, node |-> e.node] \in P
    BY <1>2, <1>3 DEF GoodPrepares
  <2> QED
    BY <1>3, <2>1, <2>2, PreparesCommit
<1>4. ASSUME EnoughPrepares(prepared, m.seq)
      PROVE  committed \subseteq GoodCommits(P)
  <2>1. [seq |-> m.seq, node |-> n, data |-> m.data] \in GoodCommits(P)
    BY <1>1, <1>3, <1>4 DEF GoodCommits, Entry
  <2>2. commitMessages[n] \subseteq GoodCommits(P)
    BY <1>1 DEF VotesInv
  <2> QED
    BY <2>1, <2>2, PutGood
<1>5. VotesInv(P, proposals)'
  <2> HIDE DEF prepared, committed
  <2>1. CASE /\ prepareMessages' = [prepareMessages EXCEPT ![n] = prepared]
             /\ UNCHANGED <<commitMessages, executed>>
    BY <1>1, <1>2, <2>1 DEF VotesInv, TypeOK
  <2>2. CASE /\ EnoughPrepares(prepared, m.seq)
             /\ prepareMessages' = [prepareMessages EXCEPT ![n] = prepared]
             /\ commitMessages' = [commitMessages EXCEPT ![n] = committed]
             /\ UNCHANGED executed
    BY <1>1, <1>2, <1>4, <2>2 DEF VotesInv, TypeOK
  <2>3. CASE /\ EnoughPrepares(prepared, m.seq)
             /\ EnoughCommits(committed, m.seq)
             /\ Execute(n, m.seq, m.data, prepared, committed, consensusReached[n])
    BY <1>1, <1>2, <1>4, <2>3, ExecuteGood
  <2> QED
    BY <2>1, <2>2, <2>3 DEF HandlePrepare, prepared, committed
<1>6. \A s, d \in Nodes : net'[s][d] \in Seq(GoodMessages(P, proposals, d))
  <2> DEFINE c == [m EXCEPT !.type = "Commit", !.node = n]
  <2>1. c \in Message /\ c.seq = m.seq /\ c.data = m.data /\ c.node = n
        /\ c.type = "Commit"
    BY <1>1 DEF Message
  <2>2. CASE net' = net
    BY <1>1, <2>2 DEF WayInv
  <2>3. CASE /\ EnoughPrepares(prepared, m.seq)
             /\ \E reach \in Reaches(n) : Broadcast(n, c, reach)
    <3> HIDE DEF c, prepared
    <3>1. \A d \in Nodes : c \in GoodMessages(P, proposals, d)
      BY <1>1, <1>3, <2>1, <2>3 DEF GoodMessages
    <3> QED
      BY <1>1, <2>3, <3>1, BroadcastGood
  <2> QED
    BY <2>2, <2>3 DEF HandlePrepare
<1> QED
  BY <1>5, <1>6

LEMMA CommitGood ==
  ASSUME IInv, NEW n \in Nodes, NEW m \in GoodMessages(prepares, proposals, n),
         proposals' = proposals, HandleCommit(n, m), NEW P, P = prepares
  PROVE  VotesInv(P, proposals)'
<1> DEFINE committed == Put(commitMessages[n], m.seq, m.node, m.data)
<1>1. /\ VotesInv(P, proposals) /\ LeaderInv(P, proposals)
      /\ TypeOK /\ m \in Message /\ m.type = "Commit"
      /\ m.seq \in Nat /\ m.data \in Value /\ m.node \in Nodes
      /\ [seq |-> m.seq, data |-> m.data] \in proposals
      /\ m.node # Leader => Commits(P, m.seq)
  BY DEF IInv, GoodMessages, HandleCommit, Message
<1>2. committed \subseteq GoodCommits(P)
  <2>1. [seq |-> m.seq, node |-> m.node, data |-> m.data] \in GoodCommits(P)
    BY <1>1 DEF GoodCommits, Entry
  <2>2. commitMessages[n] \subseteq GoodCommits(P)
    BY <1>1 DEF VotesInv
  <2> QED
    BY <2>1, <2>2, PutGood
<1>3. prepareMessages[n] \subseteq GoodPrepares(P, n)
  BY <1>1 DEF VotesInv
<1> HIDE DEF committed
<1>4. CASE UNCHANGED nodeVars
  BY <1>1, <1>4 DEF VotesInv, nodeVars
<1>5. CASE /\ commitMessages' = [commitMessages EXCEPT ![n] = committed]
           /\ UNCHANGED <<prepareMessages, executed>>
  BY <1>1, <1>2, <1>5 DEF VotesInv, TypeOK
<1>6. CASE /\ EnoughCommits(committed, m.seq)
           /\ Execute(n, m.seq, m.data, prepareMessages[n], committed,
                      consensusReached[n] \cup {m.seq})
  BY <1>1, <1>2, <1>3, <1>6, ExecuteGood
<1> QED
  BY <1>4, <1>5, <1>6 DEF HandleCommit, committed

-----------------------------------------------------------------------------
LEMMA InvStep == IInv /\ [Next]_vars => IInv'
<1> SUFFICES ASSUME IInv, [Next]_vars PROVE IInv'
  OBVIOUS
<1>1. TypeOK /\ TypeOK'
  BY StepTypes DEF IInv
<1>2. PICK P, R : P = prepares' /\ R = proposals'
  OBVIOUS
<1>3. SUFFICES VotesInv(P, R)' /\ WayInv(P, R)' /\ LeaderInv(P, R)
  <2>1. ASSUME VotesInv(P, R)', WayInv(P, R)', LeaderInv(P, R)
        PROVE  IInv'
    <3>1. VotesInv(prepares, proposals)'
      BY <1>2, <2>1 DEF VotesInv
    <3>2. WayInv(prepares, proposals)'
      BY <1>2, <2>1 DEF WayInv
    <3>3. LeaderInv(prepares, proposals)'
      BY <1>2, <2>1 DEF LeaderInv
    <3> QED
      BY <1>1, <3>1, <3>2, <3>3 DEF IInv
  <2> QED
    BY <2>1
<1>4. ASSUME NEW v \in Value, ProposeValue(v)
      PROVE  VotesInv(P, R)' /\ WayInv(P, R)' /\ LeaderInv(P, R)
  <2> DEFINE m == [type |-> "PrePrepare", node |-> Leader,
                   seq |-> sequence[Leader], data |-> v]
             e == [seq |-> sequence[Leader], node |-> Leader, data |-> v]
  <2>1. PICK reach \in Reaches(Leader) :
          /\ Broadcast(Leader, m, reach)
          /\ prepareMessages' = [prepareMessages EXCEPT ![Leader] =
                                   Put(@, sequence[Leader], Leader, v)]
          /\ R = proposals \cup {[seq |-> sequence[Leader], data |-> v]}
          /\ P = prepares \cup {[seq |-> sequence[Leader], node |-> Leader]}
          /\ UNCHANGED <<commitMessages, executed, msgChan>>
    BY <1>2, <1>4 DEF ProposeValue
  <2>2. /\ m \in Message /\ m.seq = sequence[Leader] /\ m.data = v
        /\ m.type = "PrePrepare" /\ sequence[Leader] \in Nat /\ Leader \in Nodes
    BY <1>1, NodesAssumption DEF Message, TypeOK
  <2>3. VotesInv(P, R) /\ WayInv(P, R)
    BY <2>1, InvGrows
  <2>4. LeaderInv(P, R)
    BY <2>1 DEF IInv, LeaderInv
  <2>5. e \in GoodPrepares(P, Leader)
    BY <2>2 DEF GoodPrepares, Entry
  <2>6. Put(prepareMessages[Leader], sequence[Leader], Leader, v)
          \subseteq GoodPrepares(P, Leader)
    <3>1. prepareMessages[Leader] \subseteq GoodPrepares(P, Leader)
      BY <2>2, <2>3 DEF VotesInv
    <3> QED
      BY <2>5, <3>1, PutGood
  <2>7. VotesInv(P, R)'
    BY <1>1, <2>1, <2>2, <2>3, <2>6 DEF VotesInv, TypeOK
  <2>8. Leader \notin reach
    BY <2>1 DEF Reaches, Peers
  <2> HIDE DEF m
  <2>9. \A d \in reach \cap Nodes : m \in GoodMessages(P, R, d)
    BY <2>1, <2>2, <2>8 DEF GoodMessages
  <2>10. \A s, d \in Nodes : net'[s][d] \in Seq(GoodMessages(P, R, d))
    BY <1>1, <2>1, <2>2, <2>3, <2>9, BroadcastGood
  <2>11. WayInv(P, R)'
    BY <2>1, <2>3, <2>10 DEF WayInv
  <2> QED
    BY <2>4, <2>7, <2>11
<1>5. ASSUME UNCHANGED <<prepareMessages, commitMessages, executed, proposals, prepares>>
      PROVE  VotesInv(P, R)' /\ WayInv(P, R) /\ LeaderInv(P, R)
  <2>1. VotesInv(P, R) /\ WayInv(P, R)
    BY <1>2, <1>5, InvGrows
  <2> QED
    BY <1>2, <1>5, <2>1 DEF VotesInv, IInv
<1>6. ASSUME NEW n \in Nodes, NEW s \in Nodes, ProcessMessage(n, s)
      PROVE  VotesInv(P, R)' /\ WayInv(P, R)' /\ LeaderInv(P, R)
  <2>1. VotesInv(P, R)' /\ WayInv(P, R) /\ LeaderInv(P, R)
    BY <1>5, <1>6 DEF ProcessMessage
  <2> DEFINE G == GoodMessages(P, R, n)
  <2>2. net[s][n] \in Seq(G) /\ net[s][n] # <<>> /\ msgChan[n] \in Seq(G)
    BY <1>6, <2>1 DEF ProcessMessage, WayInv
  <2> HIDE DEF G
  <2>3. /\ Head(net[s][n]) \in G /\ Tail(net[s][n]) \in Seq(G)
        /\ Append(msgChan[n], Head(net[s][n])) \in Seq(G)
    BY <2>2
  <2>4. ASSUME NEW d \in Nodes
        PROVE  /\ msgChan'[d] \in Seq(GoodMessages(P, R, d))
               /\ \A o \in Nodes : net'[o][d] \in Seq(GoodMessages(P, R, d))
    <3>1. /\ msgChan[d] \in Seq(GoodMessages(P, R, d))
          /\ \A o \in Nodes : net[o][d] \in Seq(GoodMessages(P, R, d))
      BY <2>1 DEF WayInv
    <3>2. \/ msgChan'[d] = msgChan[d]
          \/ d = n /\ msgChan'[d] = Append(msgChan[n], Head(net[s][n]))
      BY <1>1, <1>6 DEF ProcessMessage, TypeOK
    <3>3. \A o \in Nodes : \/ net'[o][d] = net[o][d]
                           \/ d = n /\ net'[o][d] = Tail(net[s][n])
      BY <1>1, <1>6 DEF ProcessMessage, TypeOK
    <3> QED
      BY <2>3, <3>1, <3>2, <3>3 DEF G
  <2> QED
    BY <2>1, <2>4 DEF WayInv
<1>7. ASSUME NEW n \in Nodes, HandleMessage(n)
      PROVE  VotesInv(P, R)' /\ WayInv(P, R)' /\ LeaderInv(P, R)
  <2>1. PICK G : G = GoodMessages(prepares, proposals, n)
    OBVIOUS
  <2>2. msgChan[n] \in Seq(G) /\ msgChan[n] # <<>>
    BY <1>7, <2>1 DEF WayInv, HandleMessage, IInv
  <2>3. PICK m \in G : m = Head(msgChan[n])
    BY <2>2
  <2>4. /\ HandlePrePrepare(n, m) \/ HandlePrepare(n, m) \/ HandleCommit(n, m)
        /\ proposals' = proposals /\ R = proposals
        /\ msgChan' = [msgChan EXCEPT ![n] = Tail(@)]
    BY <1>2, <1>7, <2>3 DEF HandleMessage
  <2>5. /\ VotesInv(P, R)'
        /\ \A s, d \in Nodes : net'[s][d] \in Seq(GoodMessages(P, R, d))
        /\ prepares \subseteq P
    <3>1. CASE HandlePrePrepare(n, m)
      BY <1>2, <2>1, <2>4, <3>1, PrePrepareGood
    <3>2. CASE HandlePrepare(n, m)
      <4>1. P = prepares
        BY <1>2, <3>2 DEF HandlePrepare
      <4> QED
        BY <2>1, <2>4, <3>2, <4>1, PrepareGood
    <3>3. CASE HandleCommit(n, m)
      <4>1. P = prepares /\ net' = net
        BY <1>2, <3>3 DEF HandleCommit
      <4>2. \A s, d \in Nodes : net[s][d] \in Seq(GoodMessages(P, R, d))
        BY <2>4, <4>1 DEF IInv, WayInv
      <4>3. VotesInv(P, R)'
        BY <2>1, <2>4, <3>3, <4>1, CommitGood
      <4> QED
        BY <4>1, <4>2, <4>3
    <3> QED
      BY <2>4, <3>1, <3>2, <3>3
  <2>6. WayInv(P, R) /\ LeaderInv(P, R)
    BY <2>4, <2>5, InvGrows DEF IInv, LeaderInv
  <2>7. ASSUME NEW d \in Nodes
        PROVE  msgChan'[d] \in Seq(GoodMessages(P, R, d))
    <3>1. msgChan[d] \in Seq(GoodMessages(P, R, d))
      BY <2>6 DEF WayInv
    <3>2. CASE d = n
      <4>1. msgChan'[d] = Tail(msgChan[d]) /\ msgChan[d] # <<>>
        BY <1>1, <2>2, <2>4, <3>2 DEF TypeOK
      <4> QED
        BY <3>1, <4>1
    <3>3. CASE d # n
      BY <1>1, <2>4, <3>1, <3>3 DEF TypeOK
    <3> QED
      BY <3>2, <3>3
  <2> QED
    BY <2>5, <2>6, <2>7 DEF WayInv
<1>8. ASSUME UNCHANGED <<nodeVars, msgChan, net, proposals, prepares>>
      PROVE  VotesInv(P, R)' /\ WayInv(P, R)' /\ LeaderInv(P, R)
  <2>1. VotesInv(P, R)' /\ WayInv(P, R) /\ LeaderInv(P, R)
    BY <1>5, <1>8 DEF nodeVars
  <2> QED
    BY <1>8, <2>1 DEF WayInv
<1>9. CASE \E n \in Nodes : LoseContact(n) \/ RegainContact(n)
  BY <1>8, <1>9 DEF LoseContact, RegainContact
<1>10. CASE UNCHANGED vars
  BY <1>8, <1>10 DEF vars
<1> QED
  BY <1>4, <1>6, <1>7, <1>9, <1>10 DEF Next, NodeStep, Running

THEOREM Invariance == Spec => []IInv
BY InvInit, InvStep, PTL DEF Spec

LEMMA ResultsGood ==
  ASSUME IInv, NEW n \in Nodes, NEW i \in 1..Len(executed[n])
  PROVE  executed[n][i] \in GoodResults(prepares, proposals)
<1>1. PICK G : G = GoodResults(prepares, proposals)
  OBVIOUS
<1>2. executed[n] \in Seq(G)
  BY <1>1 DEF IInv, VotesInv
<1> QED
  BY <1>1, <1>2

(***************************************************************************)
(* What a node executes for a sequence, the leader proposed for it,        *)
(* however messages overtake each other and whichever broadcasts fail.     *)
(***************************************************************************)
THEOREM ExecutesProposals == Spec => []ExecutedWasProposed
<1>1. IInv => ExecutedWasProposed
  BY ResultsGood DEF GoodResults, ExecutedWasProposed
<1> QED
  BY <1>1, Invariance, PTL

(***************************************************************************)
(* What a node executes, 2f+1 nodes have prepared: the promise of the      *)
(* report, which the code keeps although it counts to 2f (pbft.go:190),    *)
(* for any number of nodes and outages.                                    *)
(***************************************************************************)
THEOREM ExecutedArePrepared == Spec => []ExecutedMeansPrepared
<1>1. IInv => ExecutedMeansPrepared
  <2> SUFFICES ASSUME IInv, NEW n \in Nodes, NEW i \in 1..Len(executed[n])
               PROVE  Cardinality(Preparers(executed[n][i].seq)) >= 2 * f + 1
    BY DEF ExecutedMeansPrepared
  <2>1. executed[n][i] \in GoodResults(prepares, proposals)
    BY ResultsGood
  <2>2. Executes(prepares, executed[n][i].seq)
    BY <2>1 DEF GoodResults
  <2> QED
    BY <2>2 DEF Executes, Preparers, PreparersIn
<1> QED
  BY <1>1, Invariance, PTL

-----------------------------------------------------------------------------
(***************************************************************************)
(* Agreement: before the first outage every broadcast succeeds, so that    *)
(* the leader is always past the sequences it used, and uses none twice.   *)
(***************************************************************************)
OnceInv ==
  outages = 0 => /\ unreachable = {}
                 /\ \A r \in proposals : r.seq < sequence[Leader]
                 /\ \A r, t \in proposals : r.seq = t.seq => r = t

LEMMA OnceInit == Init => OnceInv
BY DEF Init, OnceInv

LEMMA OnceStep ==
  ASSUME TypeOK, OnceInv, [Next]_vars
  PROVE  OnceInv'
<1>1. Leader \in Nodes /\ sequence[Leader] \in Nat
      /\ \A r \in proposals : r.seq \in Nat
  BY NodesAssumption DEF TypeOK, Result
<1>2. ASSUME NEW v \in Value, ProposeValue(v), outages = 0
      PROVE  OnceInv'
  <2>1. PICK reach \in Reaches(Leader) :
          /\ sequence' = [sequence EXCEPT ![Leader] = AdvanceOnSuccess(Leader, reach)]
          /\ proposals' = proposals \cup {[seq |-> sequence[Leader], data |-> v]}
          /\ unreachable' = unreachable
    BY <1>2 DEF ProposeValue
  <2>2. reach = Peers(Leader)
    BY <1>2, <2>1 DEF Reaches, OnceInv
  <2>3. sequence'[Leader] = sequence[Leader] + 1
    BY <1>1, <2>1, <2>2 DEF AdvanceOnSuccess, TypeOK
  <2>4. \A r \in proposals' : r.seq < sequence[Leader] + 1
    BY <1>1, <1>2, <2>1 DEF OnceInv
  <2>5. \A r, t \in proposals' : r.seq = t.seq => r = t
    BY <1>1, <1>2, <2>1 DEF OnceInv
  <2> QED
    BY <1>2, <2>1, <2>3, <2>4, <2>5 DEF OnceInv
<1>3. ASSUME NEW n \in Nodes, NEW s \in Nodes, ProcessMessage(n, s)
      PROVE  OnceInv'
  <2>1. UNCHANGED <<proposals, unreachable, outages>>
    BY <1>3 DEF ProcessMessage
  <2>2. Head(net[s][n]).seq \in Nat
    BY <1>3, HeadIsMessage DEF ProcessMessage, Message
  <2>3. /\ sequence'[Leader] \in Nat
        /\ sequence[Leader] <= sequence'[Leader]
    <3>1. CASE sequence' = sequence
      BY <1>1, <3>1
    <3>2. CASE sequence' = [sequence EXCEPT ![n] =
                              IF Head(net[s][n]).seq > @ THEN Head(net[s][n]).seq ELSE @]
      <4>1. CASE n = Leader
        BY <1>1, <2>2, <3>2, <4>1 DEF TypeOK
      <4>2. CASE n # Leader
        BY <1>1, <3>2, <4>2 DEF TypeOK
      <4> QED
        BY <4>1, <4>2
    <3> QED
      BY <1>3, <3>1, <3>2 DEF ProcessMessage
  <2>4. outages = 0 => \A r \in proposals : r.seq < sequence'[Leader]
    BY <1>1, <2>3 DEF OnceInv
  <2> QED
    BY <2>1, <2>4 DEF OnceInv
<1>4. CASE UNCHANGED <<sequence, unreachable, outages, proposals>>
  BY <1>4 DEF OnceInv
<1>5. CASE outages' # 0
  BY <1>5 DEF OnceInv
<1>6. ASSUME NEW n \in Nodes, LoseContact(n)
      PROVE  outages' # 0
  BY <1>6 DEF LoseContact, TypeOK
<1>7. ASSUME NEW n \in Nodes, RegainContact(n)
      PROVE  OnceInv'
  BY <1>7 DEF RegainContact, OnceInv
<1>8. ASSUME NEW v \in Value, ProposeValue(v)
      PROVE  outages' = outages
  BY <1>8 DEF ProposeValue
<1> QED
  BY <1>2, <1>3, <1>4, <1>5, <1>6, <1>7, <1>8
  DEF Next, NodeStep, Running, HandleMessage, vars, nodeVars

(***************************************************************************)
(* Until a node becomes unreachable, two results executed for one          *)
(* sequence, on one node or on two, carry the same data: for any number of *)
(* nodes and requests.                                                     *)
(***************************************************************************)
THEOREM AgreesUntilOutage == Spec => []AgreementUntilOutage
<1>1. IInv /\ OnceInv => AgreementUntilOutage
  <2> SUFFICES ASSUME IInv, OnceInv, outages = 0, NEW n \in Nodes, NEW o \in Nodes,
                      NEW i \in 1..Len(executed[n]), NEW j \in 1..Len(executed[o]),
                      executed[n][i].seq = executed[o][j].seq
               PROVE  executed[n][i] = executed[o][j]
    BY DEF AgreementUntilOutage, Agreement
  <2>1. executed[n][i] \in proposals /\ executed[o][j] \in proposals
    BY ResultsGood DEF GoodResults
  <2> QED
    BY <2>1 DEF OnceInv
<1>2. TypeOK /\ OnceInv /\ [Next]_vars => OnceInv'
  BY OnceStep
<1> QED
  BY <1>1, <1>2, OnceInit, TypeCorrect, Invariance, PTL DEF Spec
=============================================================================
