-------------------------- MODULE MembershipProofs --------------------------
(***************************************************************************)
(* Proofs about Membership, for any set of peers and any number of crashes *)
(* and tasks.  That the next leader and the last peer of the list are      *)
(* peers takes that a finite set of ids has a least and a greatest one.    *)
(* That there is one leader, and one list once nothing is under way, is    *)
(* proved for peers that crash between events, without -t and its like     *)
(* (CrashInRemoval), from an inductive invariant about the tasks of the    *)
(* leader and the NEWVIEWs on their way (Inv).                             *)
(***************************************************************************)
EXTENDS Membership, FiniteSetTheorems, WellFoundedInduction, TLAPS

LEMMA NatHasMin ==
  ASSUME NEW T, T \subseteq Nat, T # {}
  PROVE  \E x \in T : \A y \in T : x <= y
<1>1. PICK x \in T : \A y \in T : ~ (<<y, x>> \in OpToRel(<, Nat))
  BY NatLessThanWellFounded, WFMin
<1>2. \A y \in T : ~ (y < x)
  BY <1>1 DEF OpToRel
<1> QED
  BY <1>2

LEMMA MinIsMember ==
  ASSUME NEW T, T \subseteq Peer, T # {}
  PROVE  Min(T) \in T
<1>1. T \subseteq Nat
  BY PeerAssumption
<1>2. \E x \in T : \A y \in T : x <= y
  BY <1>1, NatHasMin
<1> QED
  BY <1>2 DEF Min

\* A finite set without a greatest member would have a smaller such subset.
LEMMA MaxIsMember ==
  ASSUME NEW T, T \subseteq Peer, T # {}
  PROVE  Max(T) \in T
<1> DEFINE HasMax(S) == \E x \in S : \A y \in S : x >= y
           Bad == {S \in SUBSET Peer : S # {} /\ ~HasMax(S)}
           Sizes == {Cardinality(S) : S \in Bad}
<1>1. ASSUME NEW S \in SUBSET Peer
      PROVE  IsFiniteSet(S) /\ Cardinality(S) \in Nat
  BY PeerAssumption, FS_Subset, FS_CardinalityType
<1>2. Sizes \subseteq Nat
  BY <1>1
<1>3. Bad = {}
  <2> SUFFICES ASSUME Bad # {} PROVE FALSE
    OBVIOUS
  <2>1. PICK n \in Sizes : \A m \in Sizes : n <= m
    <3>1. Sizes # {}
      OBVIOUS
    <3> HIDE DEF Sizes
    <3> QED
      BY <1>2, <3>1, NatHasMin
  <2>2. PICK S \in Bad : n = Cardinality(S)
    OBVIOUS
  <2>3. PICK x \in S : TRUE
    OBVIOUS
  <2> DEFINE R == S \ {x}
  <2>4. Cardinality(R) = n - 1 /\ n \in Nat /\ R \in SUBSET Peer
    BY <1>1, <2>2, FS_RemoveElement
  <2>5. R \notin Bad
    <3>1. ASSUME R \in Bad PROVE FALSE
      <4>1. Cardinality(R) \in Sizes
        BY <3>1
      <4>2. n <= n - 1
        BY <2>1, <2>4, <4>1
      <4> QED
        BY <2>4, <4>2
    <3> QED
      BY <3>1
  <2>6. S \subseteq Nat /\ x \in Nat
    BY PeerAssumption
  <2>7. CASE R = {}
    <3>1. \A y \in S : x >= y
      BY <2>6, <2>7
    <3> QED
      BY <3>1
  <2>8. CASE R # {}
    <3>1. PICK m \in R : \A y \in R : m >= y
      BY <2>4, <2>5, <2>8
    <3>2. CASE m >= x
      <4>1. \A y \in S : m >= y
        BY <3>1, <3>2
      <4> QED
        BY <4>1
    <3>3. CASE x >= m
      <4>1. \A y \in S : x >= y
        BY <2>6, <3>1, <3>3
      <4> QED
        BY <4>1
    <3> QED
      BY <2>6, <3>2, <3>3
  <2> QED
    BY <2>7, <2>8
<1>4. HasMax(T)
  BY <1>3
<1> QED
  BY <1>4 DEF Max

-----------------------------------------------------------------------------
(***************************************************************************)
(* Tasks, and what a step does with them.                                  *)
(***************************************************************************)
LEMMA OperationTypes ==
  /\ Nothing \in Operation /\ Empty \in Operation
  /\ \A q \in Peer : \A o \in {"ADD", "DELETE"} : [op |-> o, about |-> q] \in Operation
BY DEF Nothing, Empty, Operation

LEMMA AboutIsPeer ==
  ASSUME NEW o \in Operation
  PROVE  o.op \in {"ADD", "DELETE", "NOTHING", "EMPTY"} /\ o.about \in Peer \cup {0}
BY DEF Operation

LEMMA TaskFields ==
  ASSUME NEW t \in Task
  PROVE  /\ t.owner \in Peer /\ t.do \in Operation /\ t.recon \in BOOLEAN
         /\ t.view \in Nat /\ t.ask \subseteq Peer /\ t.got \in Nat /\ t.ok \in Nat
         /\ t.first \in Operation /\ t.list \in List /\ t.rest \subseteq Peer
         /\ t.newView \in Nat
BY DEF Task

LEMMA ListFacts ==
  ASSUME TypeOK, NEW p \in Peer
  PROVE  /\ Peers[p] \in List /\ ViewID[p] \in Nat
         /\ Members(Peers[p]) \subseteq Peer
         /\ Others(p) \subseteq Peer
         /\ NoPeers \in List
BY DEF TypeOK, Members, Others, NoPeers, List

LEMMA ListUpdate ==
  ASSUME NEW list \in List, NEW q, NEW n \in Nat
  PROVE  [list EXCEPT ![q] = n] \in List
<1>1. CASE q \in Peer
  BY <1>1 DEF List
<1>2. CASE q \notin Peer
  BY <1>2 DEF List
<1> QED
  BY <1>1, <1>2

LEMMA NewTaskType ==
  ASSUME TypeOK, NEW p \in Peer, NEW o \in Operation, NEW recon \in BOOLEAN,
         NEW ask \in SUBSET Peer
  PROVE  NewTask(p, o, recon, ask) \in Task
<1>1. ViewID[p] \in Nat /\ NoPeers \in List /\ started \in Nat
  BY ListFacts DEF TypeOK
<1> QED
  BY <1>1, OperationTypes DEF NewTask, Task

LEMMA BeginTypes ==
  ASSUME TypeOK, NEW u \in Task, Begin(u)
  PROVE  tasks' \subseteq Task /\ started' \in Nat
BY DEF TypeOK, Begin

LEMMA StepTypes ==
  ASSUME TypeOK, NEW t, NEW u \in Task, Step(t, u)
  PROVE  tasks' \subseteq Task /\ started' \in Nat
BY DEF TypeOK, Step

LEMMA AfterTypes ==
  ASSUME TypeOK, NEW t \in Task, After(t)
  PROVE  tasks' \subseteq Task /\ started' \in Nat
<1>1. CASE t.recon
  <2>1. [t EXCEPT !.do = Nothing, !.at = "bump", !.list = NoPeers] \in Task
    <3>1. NoPeers \in List
      BY DEF NoPeers, List
    <3> QED
      BY <3>1, OperationTypes DEF Task
  <2> QED
    BY <1>1, <2>1, StepTypes DEF After
<1>2. CASE ~t.recon
  BY <1>2 DEF After, TypeOK
<1> QED
  BY <1>1, <1>2

LEMMA InitTypes == Init => TypeOK
<1> SUFFICES ASSUME Init PROVE TypeOK
  OBVIOUS
<1>1. /\ status \in [Peer -> {"down", "up", "crashed"}]
      /\ ViewID \in [Peer -> Nat]
      /\ isLeader \in [Peer -> BOOLEAN]
      /\ leaderID \in [Peer -> Peer \cup {0}]
  BY PeerAssumption DEF Init
<1>2. Peers \in [Peer -> List] /\ pending \in [Peer -> Operation]
  BY OperationTypes DEF Init, NoPeers, List
<1>3. /\ joining \subseteq Peer
      /\ storing \subseteq [from: Peer, peer: Peer, do: Operation]
      /\ newviews \subseteq [from: Peer, to: Peer, view: Nat, list: List]
      /\ tasks \subseteq Task /\ started \in Nat /\ crashes \in Nat
  BY DEF Init
<1> QED
  BY <1>1, <1>2, <1>3 DEF TypeOK

-----------------------------------------------------------------------------
(***************************************************************************)
(* Every action keeps the types.                                           *)
(***************************************************************************)
LEMMA StartTypes ==
  ASSUME TypeOK, NEW p \in Peer, Start(p)
  PROVE  TypeOK'
<1>1. status' \in [Peer -> {"down", "up", "crashed"}] /\ joining' \subseteq Peer
  BY DEF Start, TypeOK
<1>2. Peers' \in [Peer -> List]
  <2>1. CASE p = 1
    <3>1. [Peers[1] EXCEPT ![1] = 1] \in List
      BY <2>1, ListFacts DEF List
    <3>2. Peers' = [Peers EXCEPT ![1] = [Peers[1] EXCEPT ![1] = 1]]
      BY <2>1 DEF Start
    <3> QED
      BY <3>1, <3>2 DEF TypeOK
  <2>2. CASE p # 1
    BY <2>2 DEF Start, TypeOK
  <2> QED
    BY <2>1, <2>2
<1> QED
  BY <1>1, <1>2 DEF Start, TypeOK, leaderVars, memberVars, taskVars

LEMMA JoinTypes ==
  ASSUME TypeOK, NEW p \in Peer, JoinGroup(p)
  PROVE  TypeOK'
<1>1. tasks' \subseteq Task /\ started' \in Nat
  <2>1. CASE Running(1) /\ isLeader[1]
    <3>1. NewTask(1, [op |-> "ADD", about |-> p], FALSE, Others(1)) \in Task
      BY PeerAssumption, ListFacts, OperationTypes, NewTaskType
    <3> QED
      BY <2>1, <3>1, BeginTypes DEF JoinGroup
  <2>2. CASE ~(Running(1) /\ isLeader[1])
    BY <2>2 DEF JoinGroup, taskVars, TypeOK
  <2> QED
    BY <2>1, <2>2
<1> QED
  BY <1>1 DEF JoinGroup, TypeOK, viewVars, leaderVars, memberVars

LEMMA SendReqTypes ==
  ASSUME TypeOK, NEW t \in tasks, NEW q \in Peer, SendReq(t, q)
  PROVE  TypeOK'
<1>1. t \in Task
  BY DEF TypeOK
<1>2. tasks' \subseteq Task /\ started' \in Nat
  <2>0. t.ask \ {q} \in SUBSET Peer /\ t.got + 1 \in Nat /\ t.ok + 1 \in Nat
    BY <1>1, TaskFields
  <2>1. [t EXCEPT !.ask = @ \ {q}, !.got = @ + 1, !.ok = @ + 1] \in Task
    BY <1>1, <2>0 DEF Task
  <2>2. [t EXCEPT !.ask = @ \ {q}, !.got = @ + 1] \in Task
    BY <1>1, <2>0 DEF Task
  <2>3. CASE Running(q)
    BY <2>1, <2>3, StepTypes DEF SendReq
  <2>4. CASE ~Running(q)
    BY <2>2, <2>4, StepTypes DEF SendReq
  <2> QED
    BY <2>3, <2>4
<1>3. UNCHANGED <<processVars, viewVars, leaderVars, pending, newviews>>
  BY DEF SendReq
<1>4. storing' \subseteq [from: Peer, peer: Peer, do: Operation]
  <2>1. [from |-> t.owner, peer |-> q, do |-> t.do] \in [from: Peer, peer: Peer, do: Operation]
    BY <1>1, TaskFields
  <2> QED
    BY <2>1 DEF SendReq, TypeOK
<1> QED
  BY <1>2, <1>3, <1>4 DEF TypeOK, processVars, viewVars, leaderVars

LEMMA StorePendingTypes ==
  ASSUME TypeOK, NEW s \in storing, StorePending(s)
  PROVE  TypeOK'
<1>1. s.peer \in Peer /\ s.do \in Operation
  BY DEF TypeOK
<1> QED
  BY <1>1 DEF StorePending, TypeOK, processVars, viewVars, leaderVars, taskVars

LEMMA AppendPeerTypes ==
  ASSUME TypeOK, NEW t \in tasks, AppendPeer(t)
  PROVE  TypeOK'
<1>1. t \in Task /\ t.owner \in Peer
  BY TaskFields DEF TypeOK
<1>2. Peers[t.owner] \in List
  BY <1>1, ListFacts
<1>3. [Peers[t.owner] EXCEPT ![t.do.about] = @ + 1] \in List
  <2>1. CASE t.do.about \in Peer
    BY <1>2, <2>1 DEF List
  <2>2. CASE t.do.about \notin Peer
    BY <1>2, <2>2 DEF List
  <2> QED
    BY <2>1, <2>2
<1> DEFINE list == [Peers[t.owner] EXCEPT ![t.do.about] = @ + 1]
<1>4. tasks' \subseteq Task /\ started' \in Nat
  <2> HIDE DEF list
  <2>1. [t EXCEPT !.at = "update", !.list = list] \in Task
    BY <1>1, <1>3 DEF Task, list
  <2>2. [t EXCEPT !.at = "send"] \in Task
    BY <1>1 DEF Task
  <2>3. \/ Step(t, [t EXCEPT !.at = "update", !.list = list])
        \/ Step(t, [t EXCEPT !.at = "send"])
    BY DEF AppendPeer, list
  <2> QED
    BY <2>1, <2>2, <2>3, StepTypes
<1> QED
  BY <1>4 DEF AppendPeer, TypeOK, processVars, viewVars, leaderVars, memberVars

LEMMA UpdateTypes ==
  ASSUME TypeOK, NEW t \in tasks, UpdateMembership(t)
  PROVE  TypeOK'
<1>1. /\ t \in Task /\ t.owner \in Peer /\ t.list \in List
      /\ t.view + 1 \in Nat /\ Members(t.list) \ {t.owner} \subseteq Peer
  BY TaskFields DEF TypeOK, Members
<1>2. [t EXCEPT !.at = "send", !.newView = t.view + 1,
                !.rest = Members(t.list) \ {t.owner}] \in Task
  BY <1>1 DEF Task
<1>3. tasks' \subseteq Task /\ started' \in Nat
  BY <1>2, StepTypes DEF UpdateMembership
<1>4. ViewID' \in [Peer -> Nat] /\ Peers' \in [Peer -> List]
  BY <1>1 DEF UpdateMembership, TypeOK
<1> QED
  BY <1>3, <1>4 DEF UpdateMembership, TypeOK, processVars, leaderVars, memberVars

LEMMA RemovePeerTypes ==
  ASSUME TypeOK, NEW t \in tasks, RemovePeer(t)
  PROVE  TypeOK'
<1> DEFINE p == t.owner
           list == [Peers[p] EXCEPT ![t.do.about] = 0]
<1>1. t \in Task /\ p \in Peer
  BY TaskFields DEF TypeOK
<1>2. list \in List /\ ViewID[p] + 1 \in Nat
  <2>1. Peers[p] \in List /\ ViewID[p] \in Nat /\ 0 \in Nat
    BY <1>1, ListFacts
  <2>2. list \in List
    BY <2>1, ListUpdate
  <2> QED
    BY <2>1, <2>2
<1>3. Members(list) \ {p} \subseteq Peer
  BY DEF Members
<1>4. \/ /\ ViewID' = [ViewID EXCEPT ![p] = @ + 1]
         /\ Peers' = [Peers EXCEPT ![p] = list]
         /\ Step(t, [t EXCEPT !.at = "send", !.list = list,
                              !.newView = ViewID[p] + 1, !.rest = Members(list) \ {p}])
      \/ After(t) /\ UNCHANGED viewVars
  BY DEF RemovePeer
<1> HIDE DEF p, list
<1>5. [t EXCEPT !.at = "send", !.list = list,
                !.newView = ViewID[p] + 1, !.rest = Members(list) \ {p}] \in Task
  BY <1>1, <1>2, <1>3 DEF Task
<1>6. tasks' \subseteq Task /\ started' \in Nat
  BY <1>1, <1>4, <1>5, StepTypes, AfterTypes
<1>7. ViewID' \in [Peer -> Nat] /\ Peers' \in [Peer -> List]
  BY <1>1, <1>2, <1>4 DEF TypeOK, viewVars
<1> QED
  BY <1>6, <1>7 DEF RemovePeer, TypeOK, processVars, leaderVars, memberVars

LEMMA SendNewViewTypes ==
  ASSUME TypeOK, NEW t \in tasks, SendNewView(t)
  PROVE  TypeOK'
<1>1. PICK q \in t.rest :
        /\ Step(t, [t EXCEPT !.rest = @ \ {q}])
        /\ newviews' = IF Running(q)
                       THEN newviews \cup {[from |-> t.owner, to |-> q, view |-> t.newView,
                                            list |-> ListFor(t)]}
                       ELSE newviews
        /\ UNCHANGED <<processVars, viewVars, leaderVars, memberVars>>
  BY DEF SendNewView
<1>2. t \in Task /\ t.owner \in Peer /\ t.newView \in Nat /\ q \in Peer /\ t.list \in List
  BY TaskFields DEF TypeOK
<1>3. ListFor(t) \in List
  BY <1>2, ListFacts DEF ListFor
<1>4. tasks' \subseteq Task /\ started' \in Nat
  <2>1. [t EXCEPT !.rest = @ \ {q}] \in Task
    BY <1>2 DEF Task
  <2> QED
    BY <1>1, <2>1, StepTypes
<1>5. newviews' \subseteq [from: Peer, to: Peer, view: Nat, list: List]
  BY <1>1, <1>2, <1>3 DEF TypeOK
<1> QED
  BY <1>1, <1>4, <1>5 DEF TypeOK, processVars, viewVars, leaderVars, memberVars

LEMMA HandleNewViewTypes ==
  ASSUME TypeOK, NEW m \in newviews, HandleNewView(m)
  PROVE  TypeOK'
<1>1. m.to \in Peer /\ m.view \in Nat /\ m.list \in List
  BY DEF TypeOK
<1>2. /\ ViewID' \in [Peer -> Nat] /\ Peers' \in [Peer -> List]
      /\ pending' \in [Peer -> Operation]
  <2>1. CASE IsNews(m)
    BY <1>1, <2>1, OperationTypes DEF HandleNewView, TypeOK
  <2>2. CASE ~IsNews(m)
    BY <2>2 DEF HandleNewView, TypeOK, viewVars
  <2> QED
    BY <2>1, <2>2
<1>3. newviews' \subseteq [from: Peer, to: Peer, view: Nat, list: List]
  BY DEF HandleNewView, TypeOK
<1> QED
  BY <1>2, <1>3 DEF HandleNewView, TypeOK, processVars, leaderVars, taskVars

LEMMA LeaderFailureTypes ==
  ASSUME TypeOK, NEW p \in Peer, HandleLeaderFailure(p)
  PROVE  TypeOK'
<1> DEFINE next == FindNextLeaderID(p)
<1>1. next \in Peer \cup {0}
  <2>1. Members(Peers[p]) \ {leaderID[p]} \subseteq Peer
    BY ListFacts
  <2> QED
    BY <2>1, MinIsMember DEF FindNextLeaderID
<1>2. NewTask(p, Nothing, TRUE, Others(p)) \in Task
  BY OperationTypes, ListFacts, NewTaskType
<1>3. /\ leaderID' = [leaderID EXCEPT ![p] = next]
      /\ \/ /\ isLeader' = [isLeader EXCEPT ![p] = TRUE]
            /\ Begin(NewTask(p, Nothing, TRUE, Others(p)))
         \/ UNCHANGED <<isLeader, taskVars>>
  BY DEF HandleLeaderFailure
<1> HIDE DEF next
<1>4. tasks' \subseteq Task /\ started' \in Nat
  BY <1>2, <1>3, BeginTypes DEF taskVars, TypeOK
<1>5. leaderID' \in [Peer -> Peer \cup {0}] /\ isLeader' \in [Peer -> BOOLEAN]
  BY <1>1, <1>3 DEF TypeOK
<1> QED
  BY <1>4, <1>5 DEF HandleLeaderFailure, TypeOK, processVars, viewVars, memberVars

LEMMA RequestRemovalTypes ==
  ASSUME TypeOK, NEW p \in Peer, NEW q \in Peer, RequestRemoval(p, q)
  PROVE  TypeOK'
<1>1. NewTask(p, [op |-> "DELETE", about |-> q], FALSE, Others(p) \ {q}) \in Task
  <2>1. Others(p) \ {q} \in SUBSET Peer
    BY ListFacts
  <2> QED
    BY <2>1, OperationTypes, NewTaskType
<1>2. tasks' \subseteq Task /\ started' \in Nat
  BY <1>1, BeginTypes DEF RequestRemoval
<1> QED
  BY <1>2 DEF RequestRemoval, TypeOK, processVars, viewVars, leaderVars, memberVars

LEMMA SendNewLeaderTypes ==
  ASSUME TypeOK, NEW t \in tasks, NEW q \in Peer, SendNewLeader(t, q)
  PROVE  TypeOK'
<1> DEFINE answer == IF Running(q) THEN pending[q] ELSE Empty
           first == FirstOperation(t.first, answer)
<1>1. t \in Task
  BY DEF TypeOK
<1>2. first \in Operation
  BY <1>1, TaskFields, OperationTypes DEF FirstOperation, TypeOK
<1>3. Step(t, [t EXCEPT !.ask = @ \ {q}, !.got = @ + 1, !.first = first])
  BY <1>1 DEF SendNewLeader, Task
<1> HIDE DEF first
<1>4. [t EXCEPT !.ask = @ \ {q}, !.got = @ + 1, !.first = first] \in Task
  <2>1. t.ask \ {q} \in SUBSET Peer /\ t.got + 1 \in Nat
    BY <1>1, TaskFields
  <2> QED
    BY <1>1, <1>2, <2>1 DEF Task
<1>5. tasks' \subseteq Task /\ started' \in Nat
  BY <1>3, <1>4, StepTypes
<1> QED
  BY <1>5 DEF SendNewLeader, TypeOK, processVars, viewVars, leaderVars, memberVars

LEMMA TakeUpTypes ==
  ASSUME TypeOK, NEW t \in tasks, TakeUp(t)
  PROVE  TypeOK'
<1> DEFINE p == t.owner
           ask == CASE t.first.op = "ADD" -> Others(p)
                    [] t.first.op = "DELETE" -> Others(p) \ {t.first.about}
                    [] OTHER -> {}
<1>1. t \in Task /\ p \in Peer /\ t.first \in Operation
  BY TaskFields DEF TypeOK
<1>2. ask \subseteq Peer /\ ViewID[p] \in Nat
  BY <1>1, ListFacts
<1>3. \/ Step(t, [t EXCEPT !.do = t.first, !.view = ViewID[p], !.ask = ask,
                           !.got = 0, !.ok = 0])
      \/ Step(t, [t EXCEPT !.at = "bump"])
  BY DEF TakeUp
<1> HIDE DEF p, ask
<1>4. /\ [t EXCEPT !.do = t.first, !.view = ViewID[p], !.ask = ask,
                   !.got = 0, !.ok = 0] \in Task
      /\ [t EXCEPT !.at = "bump"] \in Task
  BY <1>1, <1>2 DEF Task
<1>5. tasks' \subseteq Task /\ started' \in Nat
  BY <1>3, <1>4, StepTypes
<1> QED
  BY <1>5 DEF TakeUp, TypeOK, processVars, viewVars, leaderVars, memberVars

LEMMA NewViewTypes ==
  ASSUME TypeOK, NEW t \in tasks, NewView(t)
  PROVE  TypeOK'
<1>1. t \in Task /\ t.owner \in Peer
  BY TaskFields DEF TypeOK
<1>2. Others(t.owner) \subseteq Peer /\ ViewID[t.owner] + 1 \in Nat
  BY <1>1, ListFacts
<1>3. [t EXCEPT !.at = "send", !.newView = ViewID[t.owner] + 1,
                !.rest = Others(t.owner)] \in Task
  BY <1>1, <1>2 DEF Task
<1>4. tasks' \subseteq Task /\ started' \in Nat
  BY <1>3, StepTypes DEF NewView
<1>5. ViewID' \in [Peer -> Nat]
  BY <1>1 DEF NewView, TypeOK
<1> QED
  BY <1>4, <1>5 DEF NewView, TypeOK, processVars, leaderVars, memberVars

\* A task that ends, or returns to initiateReconciliation.
LEMMA EndTypes ==
  ASSUME TypeOK, NEW t \in tasks, JoinTimeout(t) \/ ReconcileTimeout(t) \/ Finish(t)
  PROVE  TypeOK'
<1>1. t \in Task
  BY DEF TypeOK
<1>2. tasks' \subseteq Task /\ started' \in Nat
  <2>1. CASE JoinTimeout(t)
    BY <1>1, <2>1, AfterTypes DEF JoinTimeout
  <2>2. CASE ReconcileTimeout(t)
    BY <2>2 DEF ReconcileTimeout, TypeOK
  <2>3. CASE Finish(t)
    BY <1>1, <2>3, AfterTypes DEF Finish, TypeOK
  <2> QED
    BY <2>1, <2>2, <2>3
<1> QED
  BY <1>2 DEF JoinTimeout, ReconcileTimeout, Finish, TypeOK, processVars, viewVars,
              leaderVars, memberVars

LEMMA StopTypes ==
  ASSUME TypeOK, NEW p \in Peer, Stop(p), crashes' = crashes + 1,
         storing' \subseteq [from: Peer, peer: Peer, do: Operation]
  PROVE  TypeOK'
<1>1. status' \in [Peer -> {"down", "up", "crashed"}] /\ joining' \subseteq Peer
  BY DEF Stop, TypeOK
<1>2. tasks' \subseteq Task
      /\ newviews' \subseteq [from: Peer, to: Peer, view: Nat, list: List]
  BY DEF Stop, TypeOK
<1> QED
  BY <1>1, <1>2 DEF Stop, TypeOK, viewVars, leaderVars

LEMMA CrashTypes ==
  ASSUME TypeOK, NEW p \in Peer, Crash(p)
  PROVE  TypeOK'
<1>1. storing' \subseteq [from: Peer, peer: Peer, do: Operation]
  BY DEF Crash, TypeOK
<1> QED
  BY <1>1, StopTypes DEF Crash

LEMMA LeaderCrashTypes ==
  ASSUME TypeOK, RunLeaderCrash
  PROVE  TypeOK'
<1> DEFINE o == [op |-> "DELETE", about |-> Max(Members(Peers[1]))]
           told == {q \in Others(1) \ {FindNextLeaderID(1)} : Running(q)}
<1>1. storing' = storing \cup {[from |-> 1, peer |-> q, do |-> o] : q \in told}
      /\ Stop(1) /\ crashes' = crashes + 1
  BY DEF RunLeaderCrash
<1>2. 1 \in Peer /\ Members(Peers[1]) \subseteq Peer /\ Others(1) \subseteq Members(Peers[1])
  BY PeerAssumption, ListFacts DEF Others
<1>3. ASSUME NEW q \in told
      PROVE  [from |-> 1, peer |-> q, do |-> o] \in [from: Peer, peer: Peer, do: Operation]
  <2>1. q \in Members(Peers[1])
    BY <1>2
  <2>2. Max(Members(Peers[1])) \in Peer
    BY <1>2, <2>1, MaxIsMember
  <2>3. o \in Operation
    BY <2>2, OperationTypes
  <2> QED
    BY <1>2, <2>1, <2>3
<1> HIDE DEF o, told
<1>4. storing' \subseteq [from: Peer, peer: Peer, do: Operation]
  BY <1>1, <1>3 DEF TypeOK
<1> QED
  BY <1>1, <1>2, <1>4, StopTypes

LEMMA NextTypes == TypeOK /\ [Next]_vars => TypeOK'
<1> SUFFICES ASSUME TypeOK, [Next]_vars PROVE TypeOK'
  OBVIOUS
<1>1. ASSUME NEW p \in Peer, Start(p) \/ PeerStep(p) \/ Crash(p) PROVE TypeOK'
  <2>1. CASE Start(p)
    BY <2>1, StartTypes
  <2>2. CASE PeerStep(p)
    BY <2>2, JoinTypes, StorePendingTypes, HandleNewViewTypes, LeaderFailureTypes,
       RequestRemovalTypes DEF PeerStep
  <2>3. CASE Crash(p)
    BY <2>3, CrashTypes
  <2> QED
    BY <1>1, <2>1, <2>2, <2>3
<1>2. ASSUME NEW t \in tasks, TaskStep(t) PROVE TypeOK'
  BY <1>2, SendReqTypes, SendNewLeaderTypes, AppendPeerTypes, UpdateTypes, RemovePeerTypes,
     TakeUpTypes, NewViewTypes, SendNewViewTypes, EndTypes DEF TaskStep
<1>3. CASE UNCHANGED vars
  BY <1>3 DEF TypeOK, vars, processVars, viewVars, leaderVars, memberVars, taskVars
<1> QED
  BY <1>1, <1>2, <1>3, LeaderCrashTypes DEF Next

(***************************************************************************)
(* Every reachable state is typed: the next leader and the peer that       *)
(* runLeaderCrash has removed are peers, whatever the lists have become.   *)
(***************************************************************************)
THEOREM TypeCorrect == Spec => []TypeOK
BY InitTypes, NextTypes, PTL DEF Spec

-----------------------------------------------------------------------------
(***************************************************************************)
(* The inductive invariant behind AtMostOneLeader and MembersAgree, for a  *)
(* program that runs without -t.  There is a leader or there is none.      *)
(*                                                                         *)
(* A leader has the lowest id of all that are members of something, every  *)
(* list in the system has it, and its own list has all the others (Rank).  *)
(* So nobody who waits for a crashed leader finds that it is next itself.  *)
(* Its view is the highest, and either a NEWVIEW with that view and list   *)
(* has been handled by, is on its way to or is about to be sent to every   *)
(* member (Latest), or initiateReconciliation has still to send one to all *)
(* (Bumping): UpdateMembership numbers its view from the one it began with *)
(* and may send one that everybody takes for old.                          *)
(*                                                                         *)
(* Without a leader nothing is under way, and all have the same list.      *)
(***************************************************************************)
Leads(p) == Running(p) /\ isLeader[p]
Member(m) == Running(m) /\ Members(Peers[m]) # {}

\* t goes on to the NEWVIEW that ends initiateReconciliation.
WillBump(t) == t.recon /\ (t.do # Nothing \/ t.at = "bump")
Bumping == \E t \in tasks : WillBump(t)

\* What Quiet says of the lists.
AllUp == \A p \in Peer : \A q \in Members(Peers[p]) : Running(p) => Running(q)

\* Peer 1 leads as long as it runs, and its list counts nobody twice.
First ==
  /\ isLeader[1] /\ leaderID[1] = 1
  /\ status[1] = "down" => \A q \in Peer : status[q] = "down"
  /\ Running(1) => \A q \in Peer : Peers[1][q] \in {0, 1}

\* A peer that was not started yet knows nothing.
Down ==
  \A p \in Peer : status[p] = "down" =>
    Peers[p] = NoPeers /\ ViewID[p] = 0 /\ (p # 1 => ~isLeader[p])

\* Only a leader sends REQs and NEWVIEWs.
Owners ==
  /\ \A p \in Peer : Leads(p) => leaderID[p] = p
  /\ \A t \in tasks : Leads(t.owner)
  /\ \A n \in newviews : Leads(n.from) /\ Running(n.to)

Rank(p) ==
  /\ p \in Members(Peers[p])
  /\ \A m \in Peer : Member(m) =>
       p <= m /\ p \in Members(Peers[m]) /\ m \in Members(Peers[p])
  /\ \A m \in Members(Peers[p]) :
       status[m] # "down" /\ (Running(m) => p <= m /\ ViewID[m] <= ViewID[p])

News(p) ==
  \A n \in newviews :
    /\ n.from = p /\ n.view <= ViewID[p]
    /\ p \in Members(n.list) /\ n.to \in Members(Peers[p])

\* A list to come keeps every member that runs; only a join brings one in.
ListOK(p, t) ==
  /\ t.do.op = "ADD"
  /\ \A m \in Members(Peers[p]) : Running(m) => m \in Members(t.list)
  /\ \A m \in Members(t.list) :
       /\ status[m] # "down"
       /\ Running(m) => p <= m /\ ViewID[m] <= ViewID[p]
       /\ Running(m) /\ t.recon => m \in Members(Peers[p])

TaskOK(p, t) ==
  /\ t.owner = p /\ t.view <= ViewID[p] /\ t.newView <= ViewID[p]
  /\ t.recon => p # 1
  /\ t.do = Nothing => t.recon
  /\ t.at = "bump" => t.recon /\ t.do = Nothing
  /\ t.at = "update" => ListOK(p, t)
  /\ t.rest # {} => t.at = "send"
  /\ \A m \in t.rest : Running(m) => m \in Members(Peers[p]) /\ p \in Members(ListFor(t))

Brings(t, p, m) == m \in t.rest /\ t.newView = ViewID[p] /\ ListFor(t) = Peers[p]

\* m has the view and the list of p, or will get them.
UpToDate(p, m) ==
  \/ ViewID[m] = ViewID[p] /\ Peers[m] = Peers[p]
  \/ \E n \in newviews : n.to = m /\ n.view = ViewID[p] /\ n.list = Peers[p]
  \/ \E t \in tasks : Brings(t, p, m)

Latest(p) == Bumping \/ \A m \in Members(Peers[p]) : Running(m) => UpToDate(p, m)

\* One list goes with the latest view.
Uniform(p) ==
  \/ Bumping
  \/ /\ \A m \in Members(Peers[p]) : Running(m) /\ ViewID[m] = ViewID[p] => Peers[m] = Peers[p]
     /\ \A n \in newviews : n.view = ViewID[p] => n.list = Peers[p]
     /\ \A t \in tasks : t.rest # {} /\ t.newView = ViewID[p] => ListFor(t) = Peers[p]

Heads(p) ==
  /\ Rank(p) /\ News(p)
  /\ \A t \in tasks : TaskOK(p, t)
  /\ Latest(p) /\ Uniform(p)

Leaderless ==
  (\A p \in Peer : ~Leads(p)) =>
    /\ \A m \in Peer : Member(m) =>
         /\ m \in Members(Peers[m])
         /\ \A q \in Members(Peers[m]) : status[q] # "down" /\ (Running(q) => Member(q))
    /\ \A m, q \in Peer : Member(m) /\ Member(q) =>
         Peers[m] = Peers[q] /\ ViewID[m] = ViewID[q]

\* A task of handleJoinRequest.  It has the leader to itself.
Join(t) == t.do.op = "ADD" /\ ~t.recon

Joined(x) ==
  \/ Member(x)
  \/ Leads(1) /\ (x \in Members(Peers[1]) \/ \E t \in tasks : Join(t) /\ t.do.about = x)

\* What is removed has crashed, what is to be added is a member or on its way.
OpOK(o) ==
  /\ o.op = "DELETE" => o.about \in Peer /\ status[o.about] = "crashed"
  /\ o.op = "ADD" => /\ o.about \in Peer /\ status[o.about] # "down"
                     /\ Running(o.about) => Joined(o.about)

Operations ==
  /\ \A q \in Peer : OpOK(pending[q])
  /\ \A s \in storing : OpOK(s.do)
  /\ \A t \in tasks : OpOK(t.do) /\ OpOK(t.first)

Joining ==
  joining # {} =>
    /\ tasks = {} /\ newviews = {} /\ AllUp
    /\ \E x \in Peer \ {1} :
         /\ joining = {x} /\ Running(x) /\ ViewID[x] = 0
         /\ Running(1) => x \notin Members(Peers[1])

Asking(t) ==
  /\ newviews = {} /\ t.view = ViewID[1]
  /\ t.do.about \notin Members(Peers[1]) /\ ViewID[t.do.about] = 0
  /\ t.ask \subseteq Others(1) /\ t.got = t.ok /\ t.got = Cardinality(Others(1) \ t.ask)

JoinTask(t) ==
  /\ t.owner = 1 /\ t.do.about \in Peer \ {1} /\ Running(t.do.about)
  /\ t.at # "send" => Asking(t)
  /\ t.at = "update" => t.list = [Peers[1] EXCEPT ![t.do.about] = 1]
  /\ t.at = "send" => t.do.about \in Members(Peers[1])
  /\ t.rest # {} => \A q \in Members(t.list) : Running(q)

JoinOK(t) ==
  /\ tasks = {t} /\ joining = {} /\ AllUp
  /\ \A n \in newviews : \A q \in Members(n.list) : Running(q)
  /\ JoinTask(t)

Joins == \A t \in tasks : Join(t) => JoinOK(t)

Inv ==
  /\ TypeOK /\ First /\ Down /\ Owners
  /\ \A p \in Peer : Leads(p) => Heads(p)
  /\ Leaderless /\ Operations /\ Joining /\ Joins

-----------------------------------------------------------------------------
LEMMA OneIsLeast == 1 \in Peer /\ \A m \in Peer : m \in Nat /\ 1 <= m
BY PeerAssumption

LEMMA MemberOf ==
  ASSUME NEW list, NEW q
  PROVE  q \in Members(list) <=> q \in Peer /\ list[q] > 0
BY DEF Members

LEMMA TheLeader ==
  ASSUME Inv, NEW p \in Peer, NEW q \in Peer, Leads(p), Leads(q)
  PROVE  p = q
<1>1. Rank(p) /\ Rank(q)
  BY DEF Inv, Heads
<1>2. Member(p) /\ Member(q)
  BY <1>1 DEF Rank, Member, Leads
<1>3. p <= q /\ q <= p
  BY <1>1, <1>2 DEF Rank
<1> QED
  BY <1>3, OneIsLeast

\* The task's owner is the leader, and nobody else is.
LEMMA TaskFacts ==
  ASSUME Inv, NEW t \in tasks
  PROVE  /\ t \in Task /\ t.owner \in Peer /\ Leads(t.owner) /\ Heads(t.owner)
         /\ TaskOK(t.owner, t)
         /\ \A q \in Peer : Leads(q) => q = t.owner
         /\ joining = {}
<1>1. t \in Task /\ t.owner \in Peer
  BY TaskFields DEF Inv, TypeOK
<1>2. Leads(t.owner)
  BY DEF Inv, Owners
<1>3. Heads(t.owner)
  BY <1>1, <1>2 DEF Inv
<1>4. TaskOK(t.owner, t)
  BY <1>3 DEF Heads
<1>5. \A q \in Peer : Leads(q) => q = t.owner
  BY <1>1, <1>2, TheLeader
<1>6. joining = {}
  BY DEF Inv, Joining
<1> QED
  BY <1>1, <1>2, <1>3, <1>4, <1>5, <1>6

\* When nothing is under way every running member has the leader's list.
LEMMA SettledLeader ==
  ASSUME Inv, Settled, NEW p \in Peer, Leads(p),
         NEW m \in Members(Peers[p]), Running(m)
  PROVE  ViewID[m] = ViewID[p] /\ Peers[m] = Peers[p] /\ Member(m)
<1>1. Rank(p) /\ Latest(p)
  BY DEF Inv, Heads
<1>2. ~Bumping /\ UpToDate(p, m)
  BY <1>1 DEF Latest, Bumping, Settled
<1>3. ViewID[m] = ViewID[p] /\ Peers[m] = Peers[p]
  BY <1>2 DEF UpToDate, Settled
<1>4. p \in Members(Peers[m])
  BY <1>1, <1>3 DEF Rank
<1> QED
  BY <1>3, <1>4 DEF Member

-----------------------------------------------------------------------------
(***************************************************************************)
(* Steps of a task that leave all views and lists alone.                   *)
(***************************************************************************)
Calm == UNCHANGED <<status, viewVars, leaderVars>>
Quietly == Calm /\ UNCHANGED <<joining, newviews, pending>>

LEMMA Frame ==
  ASSUME Inv, Calm
  PROVE  /\ First' /\ Down' /\ Leaderless'
         /\ \A p \in Peer : Leads(p)' = Leads(p)
         /\ \A p \in Peer : Rank(p) => Rank(p)'
         /\ \A p : \A v : TaskOK(p, v) => TaskOK(p, v)'
         /\ \A v : ListFor(v)' = ListFor(v)
         /\ AllUp => AllUp'
<1>1. First' /\ Down'
  BY DEF Inv, First, Down, Calm, viewVars, leaderVars, Running
<1>2. Leaderless'
  BY DEF Inv, Leaderless, Leads, Member, Calm, viewVars, leaderVars, Running
<1>3. \A p \in Peer : Leads(p)' = Leads(p)
  BY DEF Leads, Calm, leaderVars, Running
<1>4. \A p \in Peer : Rank(p) => Rank(p)'
  BY DEF Rank, Member, Calm, viewVars, Running
<1>5. \A v : ListFor(v)' = ListFor(v)
  BY DEF ListFor, Calm, viewVars
<1>6. \A p : \A v : TaskOK(p, v) => TaskOK(p, v)'
  BY <1>5 DEF TaskOK, ListOK, Calm, viewVars, Running
<1>7. AllUp => AllUp'
  BY DEF AllUp, Calm, viewVars, Running
<1> QED
  BY <1>1, <1>2, <1>3, <1>4, <1>5, <1>6, <1>7

\* The NEWVIEWs a task has still to send are the same.
Carries(t, u) ==
  \/ t.rest = {} /\ u.rest = {}
  \/ u.rest = t.rest /\ u.newView = t.newView /\ u.do = t.do /\ u.list = t.list

LEMMA CarriesList ==
  ASSUME NEW t, NEW u, Carries(t, u), u.owner = t.owner
  PROVE  u.rest = t.rest /\ (t.rest # {} => u.newView = t.newView /\ ListFor(u) = ListFor(t))
BY DEF Carries, ListFor

LEMMA TaskMoves ==
  ASSUME Inv, TypeOK', Quietly, NEW t \in tasks, NEW u,
         tasks' = (tasks \ {t}) \cup {u},
         TaskOK(t.owner, u), WillBump(t) => WillBump(u), Carries(t, u),
         OpOK(u.do), OpOK(u.first),
         Join(u) <=> Join(t), Join(t) => u.do = t.do /\ JoinTask(u),
         \A s \in storing' : s \in storing \/ s.do = t.do
  PROVE  Inv'
<1> DEFINE p == t.owner
<1>1. /\ p \in Peer /\ Leads(p) /\ Heads(p) /\ joining = {}
      /\ \A q \in Peer : Leads(q) => q = p
      /\ Calm
  BY TaskFacts DEF Quietly
<1>2. u \in tasks' /\ u.owner = p
  BY DEF TaskOK
<1>3. Owners'
  <2>1. \A v \in tasks' : Leads(v.owner)'
    BY <1>1, <1>2, Frame DEF Inv, Owners, TypeOK, Task
  <2> QED
    BY <2>1 DEF Inv, Owners, Quietly, Calm, Leads, Running, leaderVars
<1>4. \A q \in Peer : \A v \in tasks' : Leads(q)' => TaskOK(q, v)'
  BY <1>1, Frame DEF Heads
<1>5. Bumping => Bumping'
  BY DEF Bumping, WillBump
<1>6. ASSUME NEW m, UpToDate(p, m) PROVE UpToDate(p, m)'
  <2>1. CASE \E v \in tasks : Brings(v, p, m)
    <3>1. PICK v \in tasks : Brings(v, p, m)
      BY <2>1
    <3>2. \E w \in tasks' : Brings(w, p, m)
      BY <1>2, <3>1, CarriesList DEF Brings
    <3> QED
      BY <3>2, Frame DEF UpToDate, Brings, Quietly, Calm, viewVars
  <2>2. CASE ~ \E v \in tasks : Brings(v, p, m)
    BY <1>6, <2>2 DEF UpToDate, Quietly, Calm, viewVars
  <2> QED
    BY <2>1, <2>2
<1>7. Latest(p)'
  BY <1>1, <1>5, <1>6 DEF Heads, Latest, Quietly, Calm, viewVars, Running
<1>8. Uniform(p)'
  <2>1. CASE Bumping
    BY <1>5, <2>1 DEF Uniform
  <2>2. CASE ~Bumping
    <3>1. \A v \in tasks' : v.rest # {} /\ v.newView = ViewID[p] => ListFor(v) = Peers[p]
      BY <1>1, <1>2, <2>2, CarriesList DEF Heads, Uniform
    <3> QED
      BY <1>1, <2>2, <3>1, Frame
         DEF Heads, Uniform, Quietly, Calm, viewVars, Running
  <2> QED
    BY <2>1, <2>2
<1>9. \A q \in Peer : Leads(q)' => Heads(q)'
  <2>1. News(p)'
    BY <1>1 DEF Heads, News, Quietly, Calm, viewVars
  <2> QED
    BY <1>1, <1>4, <1>7, <1>8, <2>1, Frame DEF Heads, Quietly
<1>10. Operations'
  <2>1. \A x : Joined(x) => Joined(x)'
    <3>1. \A x : (\E v \in tasks : Join(v) /\ v.do.about = x)
                 => \E v \in tasks' : Join(v) /\ v.do.about = x
      BY <1>2
    <3> QED
      BY <3>1, OneIsLeast, Frame DEF Joined, Member, Quietly, Calm, viewVars, Running, Join
  <2>2. \A o : OpOK(o) => OpOK(o)'
    BY <2>1 DEF OpOK, Quietly, Calm, Running
  <2>3. \A s \in storing' : OpOK(s.do)
    BY DEF Inv, Operations
  <2>4. \A v \in tasks' : OpOK(v.do) /\ OpOK(v.first)
    BY DEF Inv, Operations
  <2>5. \A q \in Peer : OpOK(pending[q])
    BY DEF Inv, Operations
  <2> QED
    BY <2>2, <2>3, <2>4, <2>5 DEF Operations, Quietly, Calm
<1>11. Joining'
  BY <1>1 DEF Joining, Quietly, Calm
<1>12. Joins'
  <2> SUFFICES ASSUME NEW v \in tasks', Join(v) PROVE JoinOK(v)'
    BY DEF Joins, Join
  <2>1. CASE v = u
    <3>1. JoinOK(t) /\ JoinTask(u)
      BY <2>1 DEF Inv, Joins
    <3>2. JoinTask(u)'
      BY <3>1 DEF JoinTask, Asking, Others, Quietly, Calm, viewVars, Running
    <3> QED
      BY <1>1, <2>1, <3>1, <3>2, Frame DEF JoinOK, Quietly, Calm, Running
  <2>2. CASE v # u
    <3>1. v \in tasks /\ v # t
      BY <2>2
    <3>2. tasks = {v}
      BY <3>1 DEF Inv, Joins, JoinOK
    <3> QED
      BY <3>1, <3>2
  <2> QED
    BY <2>1, <2>2
<1> QED
  BY <1>1, <1>3, <1>9, <1>10, <1>11, <1>12, Frame DEF Inv

\* The task returns.  A join has put its peer on the list by then.
LEMMA TaskEnds ==
  ASSUME Inv, TypeOK', Quietly, NEW t \in tasks, tasks' = tasks \ {t},
         t.rest = {}, ~WillBump(t), Join(t) => t.do.about \in Members(Peers[1]),
         UNCHANGED storing
  PROVE  Inv'
<1> DEFINE p == t.owner
<1>1. /\ p \in Peer /\ Leads(p) /\ Heads(p) /\ joining = {}
      /\ \A q \in Peer : Leads(q) => q = p
      /\ Calm
  BY TaskFacts DEF Quietly
<1>2. Owners'
  BY DEF Inv, Owners, Quietly, Calm, Leads, Running, leaderVars
<1>3. \A q \in Peer : \A v \in tasks' : Leads(q)' => TaskOK(q, v)'
  BY <1>1, Frame DEF Heads
<1>4. Bumping => Bumping'
  BY DEF Bumping, WillBump
<1>5. ASSUME NEW m, UpToDate(p, m) PROVE UpToDate(p, m)'
  <2>1. \A v \in tasks : Brings(v, p, m) => v \in tasks'
    BY DEF Brings
  <2> QED
    BY <1>5, <2>1, Frame DEF UpToDate, Brings, Quietly, Calm, viewVars
<1>6. Latest(p)'
  BY <1>1, <1>4, <1>5 DEF Heads, Latest, Quietly, Calm, viewVars, Running
<1>7. Uniform(p)'
  BY <1>1, <1>4, Frame DEF Heads, Uniform, Quietly, Calm, viewVars, Running
<1>8. \A q \in Peer : Leads(q)' => Heads(q)'
  <2>1. News(p)'
    BY <1>1 DEF Heads, News, Quietly, Calm, viewVars
  <2> QED
    BY <1>1, <1>3, <1>6, <1>7, <2>1, Frame DEF Heads, Quietly
<1>9. Operations'
  <2>1. \A x : Joined(x) => Joined(x)'
    <3>1. \A x : \A v \in tasks :
            Join(v) /\ v.do.about = x => x \in Members(Peers[1]) \/ v \in tasks'
      OBVIOUS
    <3> QED
      BY <3>1, OneIsLeast, Frame DEF Joined, Member, Quietly, Calm, viewVars, Running, Join
  <2>2. \A o : OpOK(o) => OpOK(o)'
    BY <2>1 DEF OpOK, Quietly, Calm, Running
  <2> QED
    BY <2>2 DEF Inv, Operations, Quietly, Calm
<1>10. Joining'
  BY <1>1 DEF Joining, Quietly, Calm
<1>11. Joins'
  <2> SUFFICES ASSUME NEW v \in tasks', Join(v) PROVE FALSE
    BY DEF Joins, Join
  <2>1. v \in tasks /\ v # t /\ tasks = {v}
    BY DEF Inv, Joins, JoinOK
  <2> QED
    BY <2>1
<1> QED
  BY <1>1, <1>2, <1>8, <1>9, <1>10, <1>11, Frame DEF Inv

\* A task of initiateReconciliation returns to it.
LEMMA TaskReturns ==
  ASSUME Inv, TypeOK', Quietly, NEW t \in tasks, After(t), t.rest = {},
         Join(t) => t.do.about \in Members(Peers[1]), UNCHANGED storing
  PROVE  Inv'
<1>1. t \in Task /\ TaskOK(t.owner, t)
  BY TaskFacts
<1>2. CASE t.recon
  <2>1. PICK u : u = [t EXCEPT !.do = Nothing, !.at = "bump", !.list = NoPeers]
    OBVIOUS
  <2>2. /\ u.owner = t.owner /\ u.do = Nothing /\ u.recon /\ u.at = "bump"
        /\ u.rest = {} /\ u.view = t.view /\ u.newView = t.newView /\ u.first = t.first
    BY <1>1, <1>2, <2>1 DEF Task
  <2>3. TaskOK(t.owner, u) /\ WillBump(u) /\ Carries(t, u)
    BY <1>1, <1>2, <2>2 DEF TaskOK, WillBump, Carries
  <2>4. OpOK(u.do) /\ OpOK(u.first) /\ ~Join(u) /\ ~Join(t)
    BY <1>2, <2>2 DEF Inv, Operations, OpOK, Nothing, Join
  <2>5. tasks' = (tasks \ {t}) \cup {u}
    BY <1>2, <2>1 DEF After, Step
  <2> QED
    BY <2>3, <2>4, <2>5, TaskMoves
<1>3. CASE ~t.recon
  <2>1. tasks' = tasks \ {t} /\ ~WillBump(t)
    BY <1>3 DEF After, WillBump
  <2> QED
    BY <2>1, TaskEnds
<1> QED
  BY <1>2, <1>3

\* The number of those who have answered, once one more has.
LEMMA OneMoreAnswer ==
  ASSUME NEW S, IsFiniteSet(S), NEW A, A \subseteq S, NEW q \in A
  PROVE  Cardinality(S \ (A \ {q})) = Cardinality(S \ A) + 1
<1>1. IsFiniteSet(S \ A) /\ q \notin S \ A
  BY FS_Subset
<1>2. S \ (A \ {q}) = (S \ A) \cup {q}
  OBVIOUS
<1> QED
  BY <1>1, <1>2, FS_AddElement

LEMMA SendReqKeeps ==
  ASSUME Inv, TypeOK', NEW t \in tasks, NEW q \in Peer, SendReq(t, q)
  PROVE  Inv'
<1>1. t \in Task /\ TaskOK(t.owner, t)
  BY TaskFacts
<1>2. Quietly
  BY DEF Quietly, Calm, processVars, SendReq
<1>3. PICK u : /\ tasks' = (tasks \ {t}) \cup {u}
               /\ \/ Running(q) /\ u = [t EXCEPT !.ask = @ \ {q}, !.got = @ + 1, !.ok = @ + 1]
                  \/ ~Running(q) /\ u = [t EXCEPT !.ask = @ \ {q}, !.got = @ + 1]
  BY DEF SendReq, Step
<1>4. /\ u.owner = t.owner /\ u.do = t.do /\ u.recon = t.recon /\ u.at = t.at
      /\ u.rest = t.rest /\ u.view = t.view /\ u.newView = t.newView /\ u.first = t.first
      /\ u.list = t.list /\ u.ask = t.ask \ {q} /\ u.got = t.got + 1
      /\ Running(q) => u.ok = t.ok + 1
  BY <1>1, <1>3 DEF Task
<1>5. ListFor(u) = ListFor(t)
  BY <1>4 DEF ListFor
<1>6. TaskOK(t.owner, u)
  BY <1>1, <1>4, <1>5 DEF TaskOK, ListOK
<1>7. (WillBump(t) => WillBump(u)) /\ Carries(t, u) /\ (Join(u) <=> Join(t))
  BY <1>4 DEF WillBump, Carries, Join
<1>8. OpOK(u.do) /\ OpOK(u.first)
  BY <1>4 DEF Inv, Operations
<1>9. ASSUME Join(t) PROVE JoinTask(u)
  <2>1. JoinOK(t)
    BY <1>9 DEF Inv, Joins
  <2>2. ASSUME t.at # "send" PROVE Asking(u)
    <3>1. Asking(t) /\ q \in t.ask
      BY <2>1, <2>2 DEF JoinOK, JoinTask, SendReq
    <3>2. Running(q)
      <4>1. Running(1)
        BY <2>1 DEF JoinOK, JoinTask, Inv, Owners, Leads
      <4>2. q \in Members(Peers[1])
        BY <3>1 DEF Asking, Others
      <4> QED
        BY <2>1, <4>1, <4>2, OneIsLeast DEF JoinOK, AllUp
    <3>3. IsFiniteSet(Others(1))
      BY PeerAssumption, FS_Subset DEF Others, Members
    <3>4. Cardinality(Others(1) \ u.ask) = Cardinality(Others(1) \ t.ask) + 1
      BY <1>4, <3>1, <3>3, OneMoreAnswer DEF Asking
    <3> QED
      BY <1>4, <3>1, <3>2, <3>4 DEF Asking
  <2> QED
    BY <1>4, <2>1, <2>2 DEF JoinOK, JoinTask
<1>10. \A s \in storing' : s \in storing \/ s.do = t.do
  BY DEF SendReq
<1> QED
  BY <1>2, <1>3, <1>4, <1>6, <1>7, <1>8, <1>9, <1>10, TaskMoves

LEMMA SendNewLeaderKeeps ==
  ASSUME Inv, TypeOK', NEW t \in tasks, NEW q \in Peer, SendNewLeader(t, q)
  PROVE  Inv'
<1>1. t \in Task /\ TaskOK(t.owner, t)
  BY TaskFacts
<1>2. Quietly /\ UNCHANGED storing /\ t.do = Nothing /\ t.at = "wait"
  BY DEF Quietly, Calm, processVars, SendNewLeader, Reconciling, memberVars
<1>2a. PICK answer \in {pending[q], Empty} :
        tasks' = (tasks \ {t}) \cup
          {[t EXCEPT !.ask = @ \ {q}, !.got = @ + 1,
                     !.first = FirstOperation(t.first, answer)]}
  BY DEF SendNewLeader, Step
<1>3. PICK u : /\ tasks' = (tasks \ {t}) \cup {u}
               /\ u = [t EXCEPT !.ask = @ \ {q}, !.got = @ + 1,
                                !.first = FirstOperation(t.first, answer)]
  BY <1>2a
<1>4. /\ u.owner = t.owner /\ u.do = t.do /\ u.recon = t.recon /\ u.at = t.at
      /\ u.rest = t.rest /\ u.view = t.view /\ u.newView = t.newView
      /\ u.first \in {t.first, answer}
  BY <1>1, <1>3 DEF Task, FirstOperation
<1>5. t.rest = {} /\ t.recon
  BY <1>1, <1>2 DEF TaskOK
<1>6. TaskOK(t.owner, u)
  BY <1>1, <1>2, <1>4, <1>5 DEF TaskOK
<1>7. (WillBump(t) => WillBump(u)) /\ Carries(t, u) /\ ~Join(u) /\ ~Join(t)
  BY <1>4, <1>5 DEF WillBump, Carries, Join
<1>8. OpOK(u.do) /\ OpOK(u.first)
  BY <1>3, <1>4 DEF Inv, Operations, OpOK, Empty
<1> QED
  BY <1>2, <1>3, <1>6, <1>7, <1>8, TaskMoves

LEMMA TakeUpKeeps ==
  ASSUME Inv, TypeOK', NEW t \in tasks, TakeUp(t)
  PROVE  Inv'
<1> DEFINE p == t.owner
<1>1. t \in Task /\ TaskOK(p, t) /\ p \in Peer
  BY TaskFacts
<1>2. Quietly /\ UNCHANGED storing /\ t.do = Nothing /\ t.at = "wait"
  BY DEF Quietly, Calm, processVars, TakeUp, Reconciling, memberVars
<1>3. t.rest = {} /\ t.recon /\ ~Join(t) /\ ~WillBump(t)
  BY <1>1, <1>2 DEF TaskOK, Join, WillBump
<1>4. PICK ask, u :
        /\ tasks' = (tasks \ {t}) \cup {u}
        /\ \/ /\ t.first.op \in {"ADD", "DELETE"}
              /\ u = [t EXCEPT !.do = t.first, !.view = ViewID[p], !.ask = ask,
                               !.got = 0, !.ok = 0]
           \/ u = [t EXCEPT !.at = "bump"]
  BY DEF TakeUp, Step
<1>5. /\ u.owner = p /\ u.recon /\ u.rest = {} /\ u.newView = t.newView /\ u.first = t.first
      /\ \/ /\ t.first.op \in {"ADD", "DELETE"} /\ u.do = t.first
            /\ u.view = ViewID[p] /\ u.at = "wait"
         \/ u.do = Nothing /\ u.view = t.view /\ u.at = "bump"
  BY <1>1, <1>2, <1>3, <1>4 DEF Task
<1>6. TaskOK(p, u)
  BY <1>1, <1>3, <1>5, ListFacts DEF TaskOK, Inv
<1>7. Carries(t, u) /\ ~Join(u)
  BY <1>3, <1>5 DEF Carries, Join
<1>8. OpOK(u.do) /\ OpOK(u.first)
  BY <1>5 DEF Inv, Operations, OpOK, Nothing
<1> QED
  BY <1>2, <1>3, <1>4, <1>6, <1>7, <1>8, TaskMoves

(***************************************************************************)
(* A join waits for as many answers as it asked for, and all are OK.       *)
(***************************************************************************)
LEMMA EntriesOfOnes ==
  ASSUME NEW list \in [Peer -> {0, 1}]
  PROVE  Entries(list) = Cardinality(Members(list)) /\ IsFiniteSet(Members(list))
<1> DEFINE E == UNION {{q} \X (1..list[q]) : q \in Peer}
           f == [q \in Members(list) |-> <<q, 1>>]
<1>1. IsFiniteSet(Members(list))
  BY PeerAssumption, FS_Subset DEF Members
<1>2. \A e : e \in E <=> \E q \in Members(list) : e = <<q, 1>>
  <2>1. \A q \in Peer : 1..list[q] = IF q \in Members(list) THEN {1} ELSE {}
    <3>1. 1..0 = {} /\ 1..1 = {1}
      OBVIOUS
    <3>2. \A q \in Peer : list[q] = IF q \in Members(list) THEN 1 ELSE 0
      BY DEF Members
    <3> QED
      BY <3>1, <3>2
  <2>2. \A e : e \in E <=> \E q \in Peer : e \in {q} \X (1..list[q])
    OBVIOUS
  <2>3. \A q \in Peer : \A e : e \in {q} \X (1..list[q]) <=> q \in Members(list) /\ e = <<q, 1>>
    BY <2>1
  <2>4. Members(list) \subseteq Peer
    BY DEF Members
  <2> HIDE DEF E
  <2>5. ASSUME NEW e \in E PROVE \E q \in Members(list) : e = <<q, 1>>
    BY <2>2, <2>3, <2>5
  <2>6. ASSUME NEW q \in Members(list) PROVE <<q, 1>> \in E
    BY <2>2, <2>3, <2>4
  <2> QED
    BY <2>5, <2>6
<1>3. f \in Bijection(Members(list), E)
  <2>1. f \in [Members(list) -> E]
    BY <1>2
  <2>2. \A a, b \in Members(list) : f[a] = f[b] => a = b
    OBVIOUS
  <2>3. \A e \in E : \E a \in Members(list) : f[a] = e
    BY <1>2
  <2> HIDE DEF E, f
  <2> QED
    BY <2>1, <2>2, <2>3 DEF Bijection, Injection, Surjection, IsInjective
<1>4. Cardinality(Members(list)) = Cardinality(E)
  BY <1>1, <1>3, FS_Bijection DEF ExistsBijection
<1> QED
  BY <1>1, <1>4 DEF Entries

LEMMA JoinIsAnswered ==
  ASSUME Inv, NEW t \in tasks, Join(t), t.at = "wait"
  PROVE  (Answered(t) => EnoughOK(t)) /\ (t.ask = {} => Answered(t))
<1>1. /\ JoinTask(t) /\ Asking(t) /\ t.owner = 1 /\ Running(1) /\ Heads(1)
      /\ t.got \in Nat
  BY TaskFacts, TaskFields DEF Inv, Joins, JoinOK, JoinTask, Leads
<1>2. Peers[1] \in [Peer -> {0, 1}]
  BY <1>1, OneIsLeast DEF Inv, First, TypeOK, List
<1>3. /\ Entries(Peers[1]) = Cardinality(Members(Peers[1]))
      /\ IsFiniteSet(Members(Peers[1]))
  BY <1>2, EntriesOfOnes
<1>4. 1 \in Members(Peers[1])
  BY <1>1 DEF Heads, Rank
<1>5. /\ Cardinality(Others(1)) = Entries(Peers[1]) - 1
      /\ Cardinality(Others(1)) \in Nat
  BY <1>3, <1>4, FS_RemoveElement, FS_CardinalityType, FS_Subset DEF Others
<1>6. t.ask = {} => t.got = Cardinality(Others(1))
  <2>1. t.ask = {} => Others(1) \ t.ask = Others(1)
    OBVIOUS
  <2> QED
    BY <1>1, <2>1 DEF Asking
<1>7. t.ask = {} => Answered(t)
  BY <1>1, <1>5, <1>6 DEF Answered
<1>8. Answered(t) => EnoughOK(t)
  BY <1>1, <1>5 DEF Answered, EnoughOK, Asking
<1> QED
  BY <1>7, <1>8

LEMMA AppendPeerKeeps ==
  ASSUME Inv, TypeOK', NEW t \in tasks, AppendPeer(t)
  PROVE  Inv'
<1> DEFINE p == t.owner
           x == t.do.about
<1>1. t \in Task /\ TaskOK(p, t) /\ p \in Peer /\ Heads(p) /\ Leads(p)
  BY TaskFacts
<1>2. Quietly /\ UNCHANGED storing /\ t.do.op = "ADD" /\ t.at = "wait" /\ Answered(t)
  BY DEF Quietly, Calm, processVars, AppendPeer, Adding, memberVars
<1>3. t.rest = {} /\ t.do # Nothing
  BY <1>1, <1>2 DEF TaskOK, Nothing
<1>4. PICK list, u :
        /\ tasks' = (tasks \ {t}) \cup {u}
        /\ list = [Peers[p] EXCEPT ![x] = @ + 1]
        /\ \/ EnoughOK(t) /\ u = [t EXCEPT !.at = "update", !.list = list]
           \/ ~EnoughOK(t) /\ u = [t EXCEPT !.at = "send"]
  BY DEF AppendPeer, Step
<1>5. /\ u.owner = p /\ u.recon = t.recon /\ u.rest = {} /\ u.newView = t.newView
      /\ u.first = t.first /\ u.do = t.do /\ u.view = t.view
      /\ \/ EnoughOK(t) /\ u.at = "update" /\ u.list = list
         \/ ~EnoughOK(t) /\ u.at = "send"
  BY <1>1, <1>3, <1>4 DEF Task
<1>6. Carries(t, u) /\ (WillBump(t) => WillBump(u)) /\ (Join(u) <=> Join(t))
  BY <1>3, <1>5 DEF Carries, WillBump, Join
<1>7. OpOK(u.do) /\ OpOK(u.first) /\ OpOK(t.do)
  BY <1>5 DEF Inv, Operations
<1>8. /\ x \in Peer /\ status[x] # "down" /\ (Running(x) => Joined(x))
      /\ \A m : m \in Members(list) <=> m \in Members(Peers[p]) \/ m = x
  <2>1. x \in Peer /\ status[x] # "down" /\ (Running(x) => Joined(x))
    BY <1>2, <1>7 DEF OpOK
  <2>2. Peers[p] \in [Peer -> Nat]
    BY <1>1 DEF Inv, TypeOK, List
  <2>3. \A m \in Peer : list[m] = IF m = x THEN Peers[p][m] + 1 ELSE Peers[p][m]
    BY <1>4, <2>1, <2>2
  <2> QED
    BY <2>1, <2>2, <2>3 DEF Members
  \* Who is to be added is a member, or new and joins.
<1>9. ASSUME Running(x)
      PROVE  p <= x /\ ViewID[x] <= ViewID[p] /\ (t.recon => x \in Members(Peers[p]))
  <2>1. CASE t.recon
    <3>1. p # 1 /\ ~Leads(1)
      BY <1>1, <2>1, TaskFacts, OneIsLeast DEF TaskOK
    <3>2. Member(x)
      BY <1>8, <1>9, <3>1 DEF Joined
    <3>3. x \in Members(Peers[p])
      BY <1>1, <1>8, <3>2 DEF Heads, Rank
    <3> QED
      BY <1>1, <1>9, <3>3 DEF Heads, Rank
  <2>2. CASE ~t.recon
    <3>1. JoinTask(t) /\ Asking(t)
      BY <1>2, <2>2 DEF Inv, Joins, JoinOK, JoinTask, Join
    <3>2. p = 1 /\ ViewID[x] = 0 /\ ViewID[p] \in Nat
      BY <1>1, <3>1, ListFacts DEF JoinTask, Asking, Inv
    <3> QED
      BY <1>8, <2>2, <3>2, OneIsLeast
  <2> QED
    BY <2>1, <2>2
<1>10. u.at = "update" => ListOK(p, u)
  <2>1. \A m \in Members(Peers[p]) :
          status[m] # "down" /\ (Running(m) => p <= m /\ ViewID[m] <= ViewID[p])
    BY <1>1 DEF Heads, Rank
  <2> QED
    BY <1>2, <1>5, <1>8, <1>9, <2>1 DEF ListOK
<1>11. TaskOK(p, u)
  BY <1>1, <1>3, <1>5, <1>10 DEF TaskOK
<1>12. ASSUME Join(t) PROVE JoinTask(u)
  <2>1. JoinTask(t) /\ Asking(t) /\ p = 1
    BY <1>2, <1>12 DEF Inv, Joins, JoinOK, JoinTask
  <2>2. u.at = "update" /\ u.list = list
    BY <1>2, <1>5, <1>12, JoinIsAnswered
  <2>3. list = [Peers[1] EXCEPT ![x] = 1]
    <3>1. Peers[1][x] = 0
      BY <1>1, <1>8, <2>1, ListFacts DEF Asking, Members, List, Inv
    <3> QED
      BY <1>4, <2>1, <3>1
  <2>4. u.ask = t.ask /\ u.got = t.got /\ u.ok = t.ok
    BY <1>1, <1>4 DEF Task
  <2>5. Asking(u)
    BY <1>5, <2>1, <2>4 DEF Asking
  <2> QED
    BY <1>5, <2>1, <2>2, <2>3, <2>5 DEF JoinTask
<1> QED
  BY <1>2, <1>4, <1>5, <1>6, <1>7, <1>11, <1>12, TaskMoves

\* JoinTimeout and Finish end a task, ReconcileTimeout gives up.
LEMMA EndKeeps ==
  ASSUME Inv, TypeOK', NEW t \in tasks, JoinTimeout(t) \/ ReconcileTimeout(t) \/ Finish(t)
  PROVE  Inv'
<1>1. t \in Task /\ TaskOK(t.owner, t)
  BY TaskFacts
<1>2. CASE JoinTimeout(t)
  <2>1. Quietly /\ UNCHANGED storing /\ t.at = "wait" /\ t.ask = {} /\ ~Answered(t) /\ After(t)
    BY <1>2 DEF JoinTimeout, Quietly, Calm, processVars, memberVars, Adding
  <2>2. t.rest = {} /\ ~Join(t)
    BY <1>1, <2>1, JoinIsAnswered DEF TaskOK
  <2> QED
    BY <2>1, <2>2, TaskReturns
<1>3. CASE ReconcileTimeout(t)
  <2>1. /\ Quietly /\ UNCHANGED storing /\ t.at = "wait" /\ t.do = Nothing
        /\ tasks' = tasks \ {t}
    BY <1>3 DEF ReconcileTimeout, Quietly, Calm, processVars, memberVars, Reconciling
  <2>2. t.rest = {} /\ ~Join(t) /\ ~WillBump(t)
    BY <1>1, <2>1 DEF TaskOK, Join, WillBump, Nothing
  <2> QED
    BY <2>1, <2>2, TaskEnds
<1>4. CASE Finish(t)
  <2>1. Quietly /\ UNCHANGED storing /\ t.at = "send" /\ t.rest = {}
    BY <1>4 DEF Finish, Quietly, Calm, processVars, memberVars
  <2>2. Join(t) => t.do.about \in Members(Peers[1])
    BY <2>1 DEF Inv, Joins, JoinOK, JoinTask
  <2>3. CASE t.do = Nothing
    <3>1. tasks' = tasks \ {t} /\ ~WillBump(t)
      BY <1>4, <2>1, <2>3 DEF Finish, WillBump
    <3> QED
      BY <2>1, <2>2, <3>1, TaskEnds
  <2>4. CASE t.do # Nothing
    BY <1>4, <2>1, <2>2, <2>4, TaskReturns DEF Finish
  <2> QED
    BY <2>3, <2>4
<1> QED
  BY <1>2, <1>3, <1>4

-----------------------------------------------------------------------------
(***************************************************************************)
(* A new view of the leader: the peers that run and were on its list still *)
(* are, and the NEWVIEW for all of them is the latest, or another follows. *)
(***************************************************************************)
LEMMA ViewGrows ==
  ASSUME Inv, TypeOK', NEW t \in tasks, NEW u, NEW list \in List,
         UNCHANGED <<processVars, leaderVars, memberVars, newviews>>,
         ViewID' = [ViewID EXCEPT ![t.owner] = @ + 1],
         Peers' = [Peers EXCEPT ![t.owner] = list],
         tasks' = (tasks \ {t}) \cup {u},
         \A m \in Members(Peers[t.owner]) : Running(m) => m \in Members(list),
         \A m \in Members(list) :
           status[m] # "down" /\ (Running(m) => t.owner <= m /\ ViewID[m] <= ViewID[t.owner]),
         \/ tasks = {t}
         \/ \A m \in Members(list) : Running(m) => m \in Members(Peers[t.owner]),
         t.owner = 1 => list \in [Peer -> {0, 1}],
         u.owner = t.owner, u.do = t.do, u.recon = t.recon, u.first = t.first,
         u.at = "send", u.view = t.view, u.newView <= ViewID[t.owner] + 1,
         u.rest = Members(list) \ {t.owner}, u.do = Nothing \/ u.list = list,
         u.newView = ViewID[t.owner] + 1 \/ WillBump(u),
         Join(t) => t.do.about \in Members(list) /\ \A q \in Members(list) : Running(q)
  PROVE  Inv'
<1> DEFINE p == t.owner
<1>1. /\ p \in Peer /\ Leads(p) /\ Heads(p) /\ joining = {} /\ t \in Task
      /\ \A q \in Peer : Leads(q) => q = p
      /\ TaskOK(p, t)
  BY TaskFacts
<1>2. u \in tasks' /\ u \in Task
  BY DEF TypeOK
<1>3. /\ ViewID[p] \in Nat /\ ViewID'[p] = ViewID[p] + 1 /\ Peers'[p] = list
      /\ \A m \in Peer : m # p => ViewID'[m] = ViewID[m] /\ Peers'[m] = Peers[m]
      /\ \A m \in Peer : ViewID[m] \in Nat
  BY <1>1 DEF Inv, TypeOK
<1>4. /\ \A m : Running(m)' = Running(m)
      /\ \A m : Leads(m)' = Leads(m)
      /\ joining' = {} /\ status' = status /\ newviews' = newviews
      /\ pending' = pending /\ storing' = storing
  BY <1>1 DEF Leads, Running, processVars, leaderVars, memberVars
<1>5. First' /\ Down'
  <2>1. Running(1) => \A q \in Peer : Peers'[1][q] \in {0, 1}
    BY <1>1, <1>3, OneIsLeast DEF Inv, First
  <2>2. status[p] = "up"
    BY <1>1 DEF Leads, Running
  <2> QED
    BY <1>3, <1>4, <2>1, <2>2 DEF Inv, First, Down, leaderVars
<1>6. Owners'
  BY <1>1, <1>4 DEF Inv, Owners, leaderVars
<1>7. Rank(p)'
  <2>1. Rank(p) /\ p \in Members(list)
    BY <1>1 DEF Heads, Rank, Leads
  <2>2. ASSUME NEW m \in Peer, Member(m)'
        PROVE  p <= m /\ p \in Members(Peers'[m]) /\ m \in Members(list)
    <3>1. CASE m = p
      BY <1>1, <1>3, <2>1, <3>1, OneIsLeast
    <3>2. CASE m # p
      <4>1. Member(m)
        BY <1>3, <1>4, <2>2, <3>2 DEF Member
      <4>2. Running(m)
        BY <4>1 DEF Member
      <4> QED
        BY <1>3, <2>1, <3>2, <4>1, <4>2 DEF Rank
    <3> QED
      BY <3>1, <3>2
  <2>3. ASSUME NEW m \in Members(list)
        PROVE  status[m] # "down" /\ (Running(m) => p <= m /\ ViewID'[m] <= ViewID'[p])
    BY <1>3 DEF Members
  <2> QED
    BY <1>3, <1>4, <2>1, <2>2, <2>3 DEF Rank
<1>8. News(p)'
  <2>1. \A n \in newviews : n.to \in Members(list)
    BY <1>1 DEF Heads, News, Inv, Owners
  <2>2. \A n \in newviews : n.view \in Nat
    BY DEF Inv, TypeOK
  <2> QED
    BY <1>1, <1>3, <1>4, <2>1, <2>2 DEF Heads, News
<1>9. \A v : ListFor(v)' = IF v.do = Nothing THEN Peers'[v.owner] ELSE v.list
  BY DEF ListFor
<1>10. ASSUME NEW v \in tasks' PROVE TaskOK(p, v)'
  <2>1. CASE v = u
    <3>1. u.view <= ViewID'[p] /\ u.newView <= ViewID'[p]
      BY <1>1, <1>3 DEF TaskOK, Task
    <3>2. ListFor(u)' = list
      BY <1>3, <1>9
    <3>3. p \in Members(list)
      BY <1>1 DEF Heads, Rank, Leads
    <3> QED
      BY <1>1, <1>3, <2>1, <3>1, <3>2, <3>3 DEF TaskOK
  <2>2. CASE v # u
    <3>1. v \in tasks /\ TaskOK(p, v) /\ v \in Task
      BY <1>1, <2>2 DEF Heads, Inv, TypeOK
    <3>2. \A m \in Members(list) : Running(m) => m \in Members(Peers[p])
      BY <2>2
    <3>3. v.view <= ViewID'[p] /\ v.newView <= ViewID'[p]
      BY <1>3, <3>1 DEF TaskOK, Task
    <3>4. ASSUME v.at = "update" PROVE ListOK(p, v)'
      <4>1. ListOK(p, v)
        BY <3>1, <3>4 DEF TaskOK
      <4>2. \A m \in Members(v.list) : Running(m) => ViewID'[m] <= ViewID'[p]
        BY <1>3, <4>1 DEF ListOK, Members
      <4> QED
        BY <1>3, <1>4, <3>2, <4>1, <4>2 DEF ListOK
    <3>5. ASSUME NEW m \in v.rest, Running(m)
          PROVE  m \in Members(list) /\ p \in Members(ListFor(v)')
      <4>1. p \in Members(list)
        BY <1>1 DEF Heads, Rank, Leads
      <4> QED
        BY <1>3, <1>9, <3>1, <3>5, <4>1 DEF TaskOK, ListFor
    <3> QED
      BY <1>3, <1>4, <3>1, <3>3, <3>4, <3>5 DEF TaskOK
  <2> QED
    BY <2>1, <2>2
<1>11. Latest(p)'
  <2>1. CASE u.newView = ViewID[p] + 1
    <3>1. ListFor(u)' = list
      BY <1>3, <1>9
    <3>2. ASSUME NEW m \in Members(list) PROVE UpToDate(p, m)'
      <4>1. CASE m = p
        BY <4>1 DEF UpToDate
      <4>2. CASE m # p
        BY <1>2, <1>3, <2>1, <3>1, <4>2 DEF UpToDate, Brings
      <4> QED
        BY <4>1, <4>2
    <3> QED
      BY <1>3, <3>2 DEF Latest
  <2>2. CASE WillBump(u)
    BY <1>2, <2>2 DEF Latest, Bumping, WillBump
  <2> QED
    BY <2>1, <2>2
<1>12. Uniform(p)'
  <2>1. CASE u.newView = ViewID[p] + 1
    <3>1. ListFor(u)' = list
      BY <1>3, <1>9
    <3>2. \A m \in Members(list) : Running(m) /\ ViewID'[m] = ViewID'[p] => Peers'[m] = list
      BY <1>3 DEF Members
    <3>3. \A n \in newviews : n.view # ViewID'[p]
      <4>1. \A n \in newviews : n.view \in Nat /\ n.view <= ViewID[p]
        BY <1>1 DEF Heads, News, Inv, TypeOK
      <4> QED
        BY <1>3, <4>1
    <3>4. \A v \in tasks' : v.newView = ViewID'[p] => v = u
      <4>1. \A v \in tasks : v.newView \in Nat /\ v.newView <= ViewID[p]
        BY <1>1 DEF Heads, TaskOK, Inv, TypeOK, Task
      <4> QED
        BY <1>3, <4>1
    <3> QED
      BY <1>3, <1>4, <3>1, <3>2, <3>3, <3>4 DEF Uniform
  <2>2. CASE WillBump(u)
    BY <1>2, <2>2 DEF Uniform, Bumping, WillBump
  <2> QED
    BY <2>1, <2>2
<1>13. \A q \in Peer : Leads(q)' => Heads(q)'
  BY <1>1, <1>4, <1>7, <1>8, <1>10, <1>11, <1>12 DEF Heads
<1>14. Leaderless'
  BY <1>1, <1>4 DEF Leaderless
<1>15. Operations'
  <2>1. ASSUME NEW x \in Peer, Running(x), Joined(x) PROVE Joined(x)'
    <3>1. CASE Member(x)
      <4>1. x = p => x \in Members(list)
        BY <1>1, <2>1 DEF Heads, Rank
      <4> QED
        BY <1>3, <1>4, <3>1, <4>1 DEF Joined, Member
    <3>2. CASE Leads(1) /\ x \in Members(Peers[1])
      <4>1. p = 1
        BY <1>1, <3>2, OneIsLeast
      <4> QED
        BY <1>3, <1>4, <2>1, <3>2, <4>1 DEF Joined
    <3>3. CASE Leads(1) /\ \E v \in tasks : Join(v) /\ v.do.about = x
      <4>1. \E v \in tasks' : Join(v) /\ v.do.about = x
        BY <1>2, <3>3 DEF Join
      <4> QED
        BY <1>4, <3>3, <4>1 DEF Joined, Join
    <3> QED
      BY <2>1, <3>1, <3>2, <3>3 DEF Joined
  <2>2. \A o : OpOK(o) => OpOK(o)'
    BY <1>4, <2>1 DEF OpOK
  <2>3. \A v \in tasks' : OpOK(v.do) /\ OpOK(v.first)
    BY DEF Inv, Operations
  <2> QED
    BY <1>4, <2>2, <2>3 DEF Inv, Operations
<1>16. Joining'
  BY <1>4 DEF Joining
<1>17. Joins'
  <2> SUFFICES ASSUME NEW v \in tasks', Join(v) PROVE JoinOK(v)'
    BY DEF Joins, Join
  <2>1. CASE v = u
    <3>1. JoinOK(t) /\ Join(t)
      BY <2>1 DEF Join, Inv, Joins
    <3>2. p = 1 /\ \A q \in Members(list) : Running(q)
      BY <3>1 DEF JoinOK, JoinTask
    <3>3. AllUp'
      BY <1>3, <1>4, <3>1, <3>2 DEF JoinOK, AllUp
    <3>4. u.list = list
      BY <3>1 DEF Join, Nothing
    <3>5. JoinTask(u)'
      BY <1>3, <1>4, <3>1, <3>2, <3>4 DEF JoinOK, JoinTask
    <3> QED
      BY <1>4, <2>1, <3>1, <3>3, <3>5 DEF JoinOK
  <2>2. CASE v # u
    <3>1. v \in tasks /\ v # t
      BY <2>2
    <3>2. tasks = {v}
      BY <3>1 DEF Inv, Joins, JoinOK
    <3> QED
      BY <3>1, <3>2
  <2> QED
    BY <2>1, <2>2
<1> QED
  BY <1>5, <1>6, <1>13, <1>14, <1>15, <1>16, <1>17 DEF Inv

LEMMA UpdateKeeps ==
  ASSUME Inv, TypeOK', NEW t \in tasks, UpdateMembership(t)
  PROVE  Inv'
<1> DEFINE p == t.owner
           x == t.do.about
<1>1. /\ p \in Peer /\ Leads(p) /\ Heads(p) /\ t \in Task /\ t.list \in List
      /\ TaskOK(p, t) /\ ViewID[p] \in Nat /\ t.view \in Nat
  BY TaskFacts, TaskFields, ListFacts DEF Inv
<1>2. PICK u : /\ tasks' = (tasks \ {t}) \cup {u}
               /\ u = [t EXCEPT !.at = "send", !.newView = t.view + 1,
                                !.rest = Members(t.list) \ {p}]
  BY DEF UpdateMembership, Step
<1>3. /\ u.owner = p /\ u.do = t.do /\ u.recon = t.recon /\ u.first = t.first
      /\ u.at = "send" /\ u.view = t.view /\ u.newView = t.view + 1
      /\ u.rest = Members(t.list) \ {p} /\ u.list = t.list
  BY <1>1, <1>2 DEF Task
<1>4. t.at = "update" /\ ListOK(p, t)
  BY <1>1 DEF TaskOK, UpdateMembership
<1>5. t.recon \/ Join(t)
  BY <1>4 DEF ListOK, Join
<1>6. ASSUME Join(t)
      PROVE  /\ tasks = {t} /\ p = 1 /\ t.view = ViewID[p]
             /\ t.list = [Peers[1] EXCEPT ![x] = 1]
             /\ x \in Members(t.list) /\ \A q \in Members(t.list) : Running(q)
  <2>1. JoinOK(t) /\ JoinTask(t) /\ Asking(t)
    BY <1>4, <1>6 DEF Inv, Joins, JoinOK, JoinTask
  <2>2. /\ tasks = {t} /\ p = 1 /\ t.view = ViewID[p]
        /\ t.list = [Peers[1] EXCEPT ![x] = 1] /\ x \in Peer /\ Running(x)
    BY <1>4, <2>1 DEF JoinOK, JoinTask, Asking
  <2>3. Peers[1] \in [Peer -> Nat]
    BY OneIsLeast DEF Inv, TypeOK, List
  <2>4. \A q \in Peer : t.list[q] = IF q = x THEN 1 ELSE Peers[1][q]
    BY <2>2, <2>3
  <2>5. \A q \in Members(t.list) : q = x \/ q \in Members(Peers[1])
    BY <2>4 DEF Members
  <2>6. \A q \in Members(Peers[1]) : Running(q)
    BY <1>1, <2>1, <2>2, OneIsLeast DEF JoinOK, AllUp, Leads
  <2> QED
    BY <2>2, <2>4, <2>5, <2>6 DEF Members
<1>7. p = 1 => t.list \in [Peer -> {0, 1}]
  <2>1. p = 1 => Join(t)
    BY <1>1, <1>5 DEF TaskOK
  <2>2. p = 1 => Peers[1] \in [Peer -> {0, 1}]
    BY <1>1, OneIsLeast DEF Inv, First, TypeOK, List, Leads
  <2> QED
    BY <1>6, <2>1, <2>2
<1>8. u.newView = ViewID[p] + 1 \/ WillBump(u)
  BY <1>3, <1>4, <1>5, <1>6 DEF WillBump, ListOK, Nothing
<1>9. /\ tasks = {t} \/ \A m \in Members(t.list) : Running(m) => m \in Members(Peers[p])
      /\ \A m \in Members(Peers[p]) : Running(m) => m \in Members(t.list)
      /\ \A m \in Members(t.list) :
           status[m] # "down" /\ (Running(m) => p <= m /\ ViewID[m] <= ViewID[p])
  BY <1>4, <1>5, <1>6 DEF ListOK
<1>10. u.newView <= ViewID[p] + 1
  BY <1>1, <1>3 DEF TaskOK
<1>11. /\ UNCHANGED <<processVars, leaderVars, memberVars, newviews>>
       /\ ViewID' = [ViewID EXCEPT ![p] = @ + 1]
       /\ Peers' = [Peers EXCEPT ![p] = t.list]
  BY DEF UpdateMembership
<1>12. PICK list : list = t.list
  OBVIOUS
<1> QED
  BY <1>1, <1>2, <1>3, <1>6, <1>7, <1>8, <1>9, <1>10, <1>11, <1>12, ViewGrows

LEMMA NewViewKeeps ==
  ASSUME Inv, TypeOK', NEW t \in tasks, NewView(t)
  PROVE  Inv'
<1> DEFINE p == t.owner
<1>1. /\ p \in Peer /\ Leads(p) /\ Heads(p) /\ t \in Task
      /\ TaskOK(p, t) /\ ViewID[p] \in Nat /\ Peers[p] \in List
  BY TaskFacts, ListFacts DEF Inv
<1>2. t.at = "bump" /\ t.recon /\ t.do = Nothing /\ p # 1
  BY <1>1 DEF TaskOK, NewView
<1>3. PICK u, list : /\ tasks' = (tasks \ {t}) \cup {u}
                     /\ list = Peers[p]
                     /\ u = [t EXCEPT !.at = "send", !.newView = ViewID[p] + 1,
                                      !.rest = Others(p)]
  BY DEF NewView, Step
<1>4. /\ u.owner = p /\ u.do = t.do /\ u.recon = t.recon /\ u.first = t.first
      /\ u.at = "send" /\ u.view = t.view /\ u.newView = ViewID[p] + 1
      /\ u.rest = Members(list) \ {p}
  BY <1>1, <1>3 DEF Task, Others
<1>5. /\ UNCHANGED <<processVars, leaderVars, memberVars, newviews>>
      /\ ViewID' = [ViewID EXCEPT ![p] = @ + 1]
      /\ Peers' = [Peers EXCEPT ![p] = list]
  BY <1>3 DEF NewView, Inv, TypeOK
<1>6. \A m \in Members(list) :
        status[m] # "down" /\ (Running(m) => p <= m /\ ViewID[m] <= ViewID[p])
  BY <1>1, <1>3 DEF Heads, Rank
<1>7. ~Join(t)
  BY <1>2 DEF Join
<1>8. /\ list \in List /\ u.newView <= ViewID[p] + 1
      /\ tasks' = (tasks \ {t}) \cup {u}
      /\ \A m \in Members(Peers[p]) : Running(m) => m \in Members(list)
      /\ \A m \in Members(list) : Running(m) => m \in Members(Peers[p])
  BY <1>1, <1>3, <1>4
<1> QED
  BY <1>1, <1>2, <1>4, <1>5, <1>6, <1>7, <1>8, ViewGrows

LEMMA RemovePeerKeeps ==
  ASSUME Inv, TypeOK', NEW t \in tasks, RemovePeer(t)
  PROVE  Inv'
<1> DEFINE p == t.owner
           x == t.do.about
<1>1. /\ p \in Peer /\ Leads(p) /\ Heads(p) /\ t \in Task
      /\ TaskOK(p, t) /\ ViewID[p] \in Nat /\ Peers[p] \in List
  BY TaskFacts, ListFacts DEF Inv
<1>2. /\ t.do.op = "DELETE" /\ t.at = "wait" /\ t.rest = {} /\ ~Join(t)
      /\ UNCHANGED <<processVars, leaderVars, memberVars, newviews>>
  BY <1>1 DEF RemovePeer, TaskOK, Join
<1>3. CASE ~(t.ok >= t.got \div 2)
  <2>1. After(t) /\ Quietly /\ UNCHANGED storing
    BY <1>2, <1>3 DEF RemovePeer, Quietly, Calm, processVars, memberVars
  <2> QED
    BY <1>2, <2>1, TaskReturns
<1>4. CASE t.ok >= t.got \div 2
  <2>1. PICK list : list = [Peers[p] EXCEPT ![x] = 0]
    OBVIOUS
  <2>2. PICK u : u = [t EXCEPT !.at = "send", !.list = list, !.newView = ViewID[p] + 1,
                               !.rest = Members(list) \ {p}]
    OBVIOUS
  <2>3. /\ ViewID' = [ViewID EXCEPT ![p] = @ + 1]
        /\ Peers' = [Peers EXCEPT ![p] = list]
        /\ tasks' = (tasks \ {t}) \cup {u}
    BY <1>4, <2>1, <2>2 DEF RemovePeer, Step
  <2>4. /\ u.owner = p /\ u.do = t.do /\ u.recon = t.recon /\ u.first = t.first
        /\ u.at = "send" /\ u.view = t.view /\ u.newView = ViewID[p] + 1
        /\ u.rest = Members(list) \ {p} /\ u.list = list
    BY <1>1, <2>2 DEF Task
  <2>5. status[x] = "crashed"
    BY <1>2 DEF Inv, Operations, OpOK
  <2>6. list \in List
    BY <1>1, <2>1, ListUpdate
  <2>7. \A m \in Peer : list[m] = IF m = x THEN 0 ELSE Peers[p][m]
    BY <1>1, <2>1 DEF List
  <2>8. \A m : m \in Members(list) <=> m \in Members(Peers[p]) /\ m # x
    BY <2>7 DEF Members
  <2>9. \A m \in Members(Peers[p]) : Running(m) => m \in Members(list)
    BY <2>5, <2>8 DEF Running
  <2>10. \A m \in Members(list) :
           status[m] # "down" /\ (Running(m) => p <= m /\ ViewID[m] <= ViewID[p])
    BY <1>1, <2>8 DEF Heads, Rank
  <2>11. p = 1 => list \in [Peer -> {0, 1}]
    BY <1>1, <2>6, <2>7 DEF Inv, First, Leads, List
  <2>12. /\ u.newView <= ViewID[p] + 1
         /\ \A m \in Members(list) : Running(m) => m \in Members(Peers[p])
    BY <1>1, <2>4, <2>8
  <2> QED
    BY <1>1, <1>2, <2>3, <2>4, <2>6, <2>9, <2>10, <2>11, <2>12, ViewGrows
<1> QED
  BY <1>3, <1>4

(***************************************************************************)
(* The NEWVIEW to one member is on its way, and that member not in rest.   *)
(***************************************************************************)
LEMMA SendNewViewKeeps ==
  ASSUME Inv, TypeOK', NEW t \in tasks, SendNewView(t)
  PROVE  Inv'
<1> DEFINE p == t.owner
<1>1. /\ p \in Peer /\ Leads(p) /\ Heads(p) /\ joining = {} /\ t \in Task
      /\ \A q \in Peer : Leads(q) => q = p
      /\ TaskOK(p, t)
  BY TaskFacts
<1>2. PICK q \in t.rest :
        /\ Step(t, [t EXCEPT !.rest = @ \ {q}])
        /\ newviews' = IF Running(q)
                       THEN newviews \cup {[from |-> p, to |-> q, view |-> t.newView,
                                            list |-> ListFor(t)]}
                       ELSE newviews
        /\ UNCHANGED <<processVars, viewVars, leaderVars, memberVars>>
  BY DEF SendNewView
<1>3. PICK u, n : /\ u = [t EXCEPT !.rest = @ \ {q}]
                  /\ n = [from |-> p, to |-> q, view |-> t.newView, list |-> ListFor(t)]
  OBVIOUS
<1>4. /\ tasks' = (tasks \ {t}) \cup {u} /\ u \in tasks'
      /\ newviews' = IF Running(q) THEN newviews \cup {n} ELSE newviews
      /\ Calm /\ pending' = pending /\ storing' = storing /\ joining' = {}
      /\ q \in Peer /\ t.at = "send"
  BY <1>1, <1>2, <1>3, TaskFields DEF Step, Calm, memberVars, processVars, SendNewView
<1>5. /\ u.owner = p /\ u.do = t.do /\ u.recon = t.recon /\ u.first = t.first
      /\ u.at = t.at /\ u.view = t.view /\ u.newView = t.newView
      /\ u.rest = t.rest \ {q} /\ u.list = t.list
  BY <1>1, <1>3 DEF Task
<1>6. ListFor(u) = ListFor(t)
  BY <1>5 DEF ListFor
<1>7. Owners'
  <2>1. \A v \in tasks' : Leads(v.owner)'
    BY <1>1, <1>4, <1>5, Frame DEF Inv, Owners, TypeOK, Task
  <2>2. \A m \in newviews' : Leads(m.from) /\ Running(m.to)
    BY <1>1, <1>3, <1>4 DEF Inv, Owners
  <2> QED
    BY <1>4, <2>1, <2>2 DEF Inv, Owners, Calm, Leads, Running, leaderVars
<1>8. TaskOK(p, u)
  BY <1>1, <1>4, <1>5, <1>6 DEF TaskOK
<1>9. \A v \in tasks' : TaskOK(p, v)'
  BY <1>1, <1>4, <1>8, Frame DEF Heads
<1>10. Bumping => Bumping'
  BY <1>4, <1>5 DEF Bumping, WillBump
<1>11. News(p)'
  <2>1. Running(q) => q \in Members(Peers[p]) /\ p \in Members(ListFor(t))
    BY <1>1, <1>2 DEF TaskOK
  <2> QED
    BY <1>1, <1>3, <1>4, <2>1 DEF Heads, News, TaskOK, Calm, viewVars
<1>12. ASSUME NEW m, Running(m), UpToDate(p, m) PROVE UpToDate(p, m)'
  <2>1. CASE \E v \in tasks : Brings(v, p, m)
    <3>1. PICK v \in tasks : Brings(v, p, m)
      BY <2>1
    <3>2. CASE v = t /\ m = q
      BY <1>3, <1>4, <1>12, <3>1, <3>2 DEF UpToDate, Brings, Calm, viewVars
    <3>3. CASE ~(v = t /\ m = q)
      <4>1. \E w \in tasks' : Brings(w, p, m)
        BY <1>4, <1>5, <1>6, <3>1, <3>3 DEF Brings
      <4> QED
        BY <1>4, <4>1, Frame DEF UpToDate, Brings, Calm, viewVars
    <3> QED
      BY <3>2, <3>3
  <2>2. CASE ~ \E v \in tasks : Brings(v, p, m)
    BY <1>4, <1>12, <2>2 DEF UpToDate, Calm, viewVars
  <2> QED
    BY <2>1, <2>2
<1>13. Latest(p)'
  BY <1>1, <1>4, <1>10, <1>12 DEF Heads, Latest, Calm, viewVars, Running
<1>14. Uniform(p)'
  <2>1. CASE Bumping
    BY <1>10, <2>1 DEF Uniform
  <2>2. CASE ~Bumping
    <3>1. \A v \in tasks' : v.rest # {} /\ v.newView = ViewID[p] => ListFor(v) = Peers[p]
      BY <1>1, <1>2, <1>4, <1>5, <1>6, <2>2 DEF Heads, Uniform
    <3>2. \A m \in newviews' : m.view = ViewID[p] => m.list = Peers[p]
      BY <1>1, <1>2, <1>3, <1>4, <2>2 DEF Heads, Uniform
    <3> QED
      BY <1>1, <1>4, <2>2, <3>1, <3>2, Frame
         DEF Heads, Uniform, Calm, viewVars, Running
  <2> QED
    BY <2>1, <2>2
<1>15. \A r \in Peer : Leads(r)' => Heads(r)'
  BY <1>1, <1>4, <1>9, <1>11, <1>13, <1>14, Frame DEF Heads
<1>16. Operations'
  <2>1. \A x : Joined(x) => Joined(x)'
    <3>1. \A x : (\E v \in tasks : Join(v) /\ v.do.about = x)
                 => \E v \in tasks' : Join(v) /\ v.do.about = x
      BY <1>4, <1>5 DEF Join
    <3> QED
      BY <1>4, <3>1, OneIsLeast, Frame
         DEF Joined, Member, Calm, viewVars, Running, Join
  <2>2. \A o : OpOK(o) => OpOK(o)'
    BY <1>4, <2>1 DEF OpOK, Calm, Running
  <2>3. \A v \in tasks' : OpOK(v.do) /\ OpOK(v.first)
    BY <1>4, <1>5 DEF Inv, Operations
  <2> QED
    BY <1>4, <2>2, <2>3 DEF Inv, Operations
<1>17. Joining'
  BY <1>4 DEF Joining
<1>18. Joins'
  <2> SUFFICES ASSUME NEW v \in tasks', Join(v) PROVE JoinOK(v)'
    BY DEF Joins, Join
  <2>1. CASE v = u
    <3>1. JoinOK(t) /\ JoinTask(t) /\ t.do # Nothing
      BY <1>5, <2>1 DEF Inv, Joins, Join, JoinOK, Nothing
    <3>2. \A r \in Members(t.list) : Running(r)
      BY <1>2, <3>1 DEF JoinTask
    <3>3. \A m \in newviews' : \A r \in Members(m.list) : Running(r)
      BY <1>3, <1>4, <3>1, <3>2 DEF JoinOK, ListFor
    <3>4. JoinTask(u)'
      BY <1>4, <1>5, <3>1, <3>2 DEF JoinTask, Calm, viewVars, Running
    <3> QED
      BY <1>4, <2>1, <3>1, <3>3, <3>4, Frame DEF JoinOK, Calm, Running
  <2>2. CASE v # u
    <3>1. v \in tasks /\ v # t
      BY <1>4, <2>2
    <3>2. tasks = {v}
      BY <3>1 DEF Inv, Joins, JoinOK
    <3> QED
      BY <3>1, <3>2
  <2> QED
    BY <2>1, <2>2
<1> QED
  BY <1>4, <1>7, <1>15, <1>16, <1>17, <1>18, Frame DEF Inv

-----------------------------------------------------------------------------
(***************************************************************************)
(* A NEWVIEW is handled.  One that is not news may be dropped: who has the *)
(* latest view already has the list that goes with it.                     *)
(***************************************************************************)
LEMMA NewViewFacts ==
  ASSUME Inv, NEW n \in newviews
  PROVE  /\ n.from \in Peer /\ Leads(n.from) /\ Heads(n.from)
         /\ \A q \in Peer : Leads(q) => q = n.from
         /\ n.to \in Members(Peers[n.from]) /\ Running(n.to) /\ n.to \in Peer
         /\ n.view \in Nat /\ n.list \in List
         /\ n.view <= ViewID[n.from] /\ n.from \in Members(n.list)
         /\ joining = {}
<1>1. n.from \in Peer /\ n.to \in Peer /\ n.view \in Nat /\ n.list \in List
  BY DEF Inv, TypeOK
<1>2. Leads(n.from) /\ Running(n.to)
  BY DEF Inv, Owners
<1>3. Heads(n.from)
  BY <1>1, <1>2 DEF Inv
<1>4. \A q \in Peer : Leads(q) => q = n.from
  BY <1>1, <1>2, TheLeader
<1>5. joining = {}
  BY DEF Inv, Joining
<1> QED
  BY <1>1, <1>2, <1>3, <1>4, <1>5 DEF Heads, News

LEMMA OldNewsKeeps ==
  ASSUME Inv, TypeOK', NEW n \in newviews, HandleNewView(n), ~IsNews(n)
  PROVE  Inv'
<1> DEFINE p == n.from
<1>1. /\ p \in Peer /\ Leads(p) /\ Heads(p) /\ joining = {}
      /\ \A q \in Peer : Leads(q) => q = p
      /\ n.to \in Members(Peers[p]) /\ Running(n.to) /\ n.to \in Peer
      /\ n.view \in Nat /\ n.view <= ViewID[p]
  BY NewViewFacts
<1>2. /\ Calm /\ newviews' = newviews \ {n} /\ tasks' = tasks
      /\ pending' = pending /\ storing' = storing /\ joining' = joining
  BY DEF HandleNewView, Calm, taskVars, processVars
<1>3. Owners'
  BY <1>2, Frame DEF Inv, Owners, Calm, Leads, Running, leaderVars
<1>4. \A v \in tasks' : TaskOK(p, v)'
  BY <1>1, <1>2, Frame DEF Heads
<1>5. News(p)'
  BY <1>1, <1>2 DEF Heads, News, Calm, viewVars
<1>6. Bumping' = Bumping
  BY <1>2 DEF Bumping, WillBump
<1>7. ASSUME ~Bumping, NEW m \in Members(Peers[p]), Running(m)
      PROVE  UpToDate(p, m)'
  <2>1. UpToDate(p, m) /\ ViewID[m] <= ViewID[p] /\ ViewID[m] \in Nat /\ ViewID[p] \in Nat
    BY <1>1, <1>7, ListFacts DEF Heads, Latest, Rank, Inv, TypeOK, Members
  <2>2. CASE n.to = m /\ n.view = ViewID[p]
    <3>1. ViewID[m] = ViewID[p]
      BY <2>1, <2>2 DEF IsNews
    <3>2. Peers[m] = Peers[p]
      BY <1>1, <1>7, <3>1 DEF Heads, Uniform
    <3> QED
      BY <1>2, <3>1, <3>2 DEF UpToDate, Calm, viewVars
  <2>3. CASE ~(n.to = m /\ n.view = ViewID[p])
    BY <1>2, <2>1, <2>3, Frame DEF UpToDate, Brings, Calm, viewVars
  <2> QED
    BY <2>2, <2>3
<1>8. Latest(p)'
  BY <1>2, <1>6, <1>7 DEF Latest, Calm, viewVars, Running
<1>9. Uniform(p)'
  BY <1>1, <1>2, <1>6, Frame DEF Heads, Uniform, Calm, viewVars, Running
<1>10. \A q \in Peer : Leads(q)' => Heads(q)'
  BY <1>1, <1>2, <1>4, <1>5, <1>8, <1>9, Frame DEF Heads
<1>11. Operations'
  <2>1. \A x : Joined(x) => Joined(x)'
    BY <1>2, OneIsLeast, Frame DEF Joined, Member, Calm, viewVars, Running, Join
  <2>2. \A o : OpOK(o) => OpOK(o)'
    BY <1>2, <2>1 DEF OpOK, Calm, Running
  <2> QED
    BY <1>2, <2>2 DEF Inv, Operations
<1>12. Joining'
  BY <1>1, <1>2 DEF Joining
<1>13. Joins'
  <2> SUFFICES ASSUME NEW v \in tasks', Join(v) PROVE JoinOK(v)'
    BY DEF Joins, Join
  <2>1. JoinOK(v) /\ JoinTask(v)
    BY <1>2 DEF Inv, Joins, JoinOK
  <2>2. JoinTask(v)'
    BY <1>2, <2>1 DEF JoinTask, Asking, Others, Calm, viewVars, Running
  <2> QED
    BY <1>2, <2>1, <2>2, Frame DEF JoinOK, Calm, Running
<1> QED
  BY <1>2, <1>3, <1>10, <1>11, <1>12, <1>13, Frame DEF Inv

LEMMA NewsKeeps ==
  ASSUME Inv, TypeOK', NEW n \in newviews, HandleNewView(n), IsNews(n)
  PROVE  Inv'
<1> DEFINE p == n.from
           m == n.to
<1>1. /\ p \in Peer /\ Leads(p) /\ Heads(p) /\ joining = {}
      /\ \A q \in Peer : Leads(q) => q = p
      /\ m \in Members(Peers[p]) /\ Running(m) /\ m \in Peer
      /\ n.view \in Nat /\ n.view <= ViewID[p] /\ p \in Members(n.list)
  BY NewViewFacts
<1>2. /\ newviews' = newviews \ {n} /\ tasks' = tasks /\ storing' = storing
      /\ joining' = joining /\ status' = status /\ UNCHANGED leaderVars
      /\ pending' = [pending EXCEPT ![m] = Nothing]
  BY DEF HandleNewView, taskVars, processVars
<1>3. m # p /\ ViewID[m] < n.view
  <2>1. ViewID[m] \in Nat /\ ViewID[p] \in Nat
    BY <1>1 DEF Inv, TypeOK
  <2> QED
    BY <1>1, <2>1 DEF IsNews
<1>4. m # 1
  <2>1. Running(1) => Leads(1)
    BY DEF Inv, First, Leads
  <2> QED
    BY <1>1, <1>3, <2>1, OneIsLeast
<1>5. /\ ViewID'[m] = n.view /\ Peers'[m] = n.list
      /\ \A q \in Peer : q # m => ViewID'[q] = ViewID[q] /\ Peers'[q] = Peers[q]
  BY <1>1 DEF HandleNewView, Inv, TypeOK
<1>6. \A q : Running(q)' = Running(q) /\ Leads(q)' = Leads(q)
  BY <1>2 DEF Running, Leads, leaderVars
<1>7. First' /\ Down'
  BY <1>1, <1>2, <1>4, <1>5, <1>6, OneIsLeast DEF Inv, First, Down, Running, leaderVars
<1>8. Owners'
  BY <1>2, <1>6 DEF Inv, Owners, leaderVars
<1>9. Rank(p)'
  <2>1. Rank(p) /\ Peers'[p] = Peers[p] /\ ViewID'[p] = ViewID[p]
    BY <1>1, <1>3, <1>5 DEF Heads
  <2>2. ASSUME NEW q \in Peer, Member(q)'
        PROVE  p <= q /\ p \in Members(Peers'[q]) /\ q \in Members(Peers[p])
    <3>1. CASE q = m
      BY <1>1, <1>5, <2>1, <3>1 DEF Rank
    <3>2. CASE q # m
      <4>1. Member(q)
        BY <1>5, <1>6, <2>2, <3>2 DEF Member
      <4> QED
        BY <1>5, <2>1, <3>2, <4>1 DEF Rank
    <3> QED
      BY <3>1, <3>2
  <2>3. \A q \in Members(Peers[p]) : Running(q) => ViewID'[q] <= ViewID[p]
    BY <1>1, <1>5, <2>1 DEF Rank, Members
  <2> QED
    BY <1>2, <1>6, <2>1, <2>2, <2>3 DEF Rank
<1>10. News(p)'
  BY <1>1, <1>2, <1>3, <1>5 DEF Heads, News
<1>11. \A v : v.owner = p => ListFor(v)' = ListFor(v)
  BY <1>1, <1>3, <1>5 DEF ListFor
<1>12. ASSUME NEW v \in tasks PROVE TaskOK(p, v)'
  <2>1. TaskOK(p, v) /\ ViewID'[p] = ViewID[p] /\ Peers'[p] = Peers[p]
    BY <1>1, <1>3, <1>5 DEF Heads
  <2>2. ASSUME v.at = "update" PROVE ListOK(p, v)'
    <3>1. ListOK(p, v)
      BY <2>1, <2>2 DEF TaskOK
    <3>2. \A q \in Members(v.list) : Running(q) => ViewID'[q] <= ViewID[p]
      BY <1>1, <1>5, <3>1 DEF ListOK, Members
    <3> QED
      BY <1>2, <1>6, <2>1, <3>1, <3>2 DEF ListOK
  <2>3. ListFor(v)' = ListFor(v)
    BY <1>11, <2>1 DEF TaskOK
  <2> QED
    BY <1>6, <2>1, <2>2, <2>3 DEF TaskOK
<1>13. Bumping' = Bumping
  BY <1>2 DEF Bumping, WillBump
<1>14. ASSUME NEW q \in Members(Peers[p]), UpToDate(p, q)
       PROVE  UpToDate(p, q)'
  <2>1. ViewID'[p] = ViewID[p] /\ Peers'[p] = Peers[p] /\ q \in Peer
    BY <1>1, <1>3, <1>5 DEF Members
  <2>2. CASE \E v \in tasks : Brings(v, p, q)
    <3>1. PICK v \in tasks : Brings(v, p, q)
      BY <2>2
    <3>2. v.owner = p
      BY <1>1 DEF Heads, TaskOK
    <3> QED
      BY <1>2, <1>11, <2>1, <3>1, <3>2 DEF UpToDate, Brings
  <2>3. CASE \E k \in newviews : k.to = q /\ k.view = ViewID[p] /\ k.list = Peers[p]
    BY <1>2, <1>5, <2>1, <2>3 DEF UpToDate
  <2>4. CASE ViewID[q] = ViewID[p] /\ Peers[q] = Peers[p]
    <3>1. q # m
      <4>1. ViewID[p] \in Nat /\ ViewID[m] \in Nat
        BY <1>1 DEF Inv, TypeOK
      <4> QED
        BY <1>1, <1>3, <2>4, <4>1
    <3> QED
      BY <1>5, <2>1, <2>4, <3>1 DEF UpToDate
  <2> QED
    BY <1>14, <2>2, <2>3, <2>4 DEF UpToDate
<1>15. Latest(p)'
  BY <1>1, <1>3, <1>5, <1>6, <1>13, <1>14 DEF Heads, Latest
<1>16. Uniform(p)'
  <2>1. ViewID'[p] = ViewID[p] /\ Peers'[p] = Peers[p]
    BY <1>1, <1>3, <1>5
  <2>2. CASE Bumping
    BY <1>13, <2>2 DEF Uniform
  <2>3. CASE ~Bumping
    <3>1. \A q \in Members(Peers[p]) :
            Running(q) /\ ViewID'[q] = ViewID[p] => Peers'[q] = Peers[p]
      BY <1>1, <1>5, <2>3 DEF Heads, Uniform, Members
    <3>2. \A v \in tasks : ListFor(v)' = ListFor(v)
      BY <1>1, <1>11 DEF Heads, TaskOK
    <3> QED
      BY <1>1, <1>2, <1>6, <2>1, <2>3, <3>1, <3>2 DEF Heads, Uniform
  <2> QED
    BY <2>2, <2>3
<1>17. \A q \in Peer : Leads(q)' => Heads(q)'
  BY <1>1, <1>2, <1>6, <1>9, <1>10, <1>12, <1>15, <1>16 DEF Heads
<1>18. Leaderless'
  BY <1>1, <1>6 DEF Leaderless
<1>19. Operations'
  <2>1. \A x \in Peer : Joined(x) => Joined(x)'
    <3>1. \A x \in Peer : Member(x) => Member(x)'
      BY <1>1, <1>5, <1>6 DEF Member
    <3> QED
      BY <1>2, <1>4, <1>5, <1>6, <3>1, OneIsLeast DEF Joined, Join
  <2>2. \A o : OpOK(o) => OpOK(o)'
    BY <1>2, <1>6, <2>1 DEF OpOK
  <2>3. \A q \in Peer : OpOK(pending'[q])
    <3>1. OpOK(Nothing)
      BY DEF OpOK, Nothing
    <3> QED
      BY <1>2, <3>1 DEF Inv, Operations, TypeOK
  <2> QED
    BY <1>2, <2>2, <2>3 DEF Inv, Operations
<1>20. Joining'
  BY <1>1, <1>2 DEF Joining
<1>21. Joins'
  <2> SUFFICES ASSUME NEW v \in tasks', Join(v) PROVE JoinOK(v)'
    BY DEF Joins, Join
  <2>1. JoinOK(v) /\ JoinTask(v)
    BY <1>2 DEF Inv, Joins, JoinOK
  <2>2. v.at = "send"
    BY <2>1 DEF JoinTask, Asking
  <2>3. JoinTask(v)'
    BY <1>4, <1>5, <1>6, <2>1, <2>2, OneIsLeast DEF JoinTask
  <2>4. AllUp'
    BY <1>5, <1>6, <2>1 DEF JoinOK, AllUp
  <2> QED
    BY <1>2, <1>6, <2>1, <2>3, <2>4 DEF JoinOK
<1> QED
  BY <1>7, <1>8, <1>17, <1>18, <1>19, <1>20, <1>21 DEF Inv

LEMMA StorePendingKeeps ==
  ASSUME Inv, TypeOK', NEW s \in storing, StorePending(s)
  PROVE  Inv'
<1>1. /\ Calm /\ tasks' = tasks /\ newviews' = newviews /\ joining' = joining
      /\ storing' = storing \ {s} /\ pending' = [pending EXCEPT ![s.peer] = s.do]
  BY DEF StorePending, Calm, taskVars, processVars
<1>2. Owners'
  BY <1>1, Frame DEF Inv, Owners, Calm, Leads, Running, leaderVars
<1>3. ASSUME NEW p \in Peer, Leads(p) PROVE Heads(p)'
  <2>1. Heads(p)
    BY <1>3 DEF Inv
  <2>2. News(p)'
    BY <1>1, <2>1 DEF Heads, News, Calm, viewVars
  <2>3. Bumping' = Bumping
    BY <1>1 DEF Bumping, WillBump
  <2>4. \A m : UpToDate(p, m) => UpToDate(p, m)'
    BY <1>1, Frame DEF UpToDate, Brings, Calm, viewVars
  <2>5. Latest(p)'
    BY <1>1, <2>1, <2>3, <2>4 DEF Heads, Latest, Calm, viewVars, Running
  <2>6. Uniform(p)'
    BY <1>1, <2>1, <2>3, Frame DEF Heads, Uniform, Calm, viewVars, Running
  <2> QED
    BY <1>1, <2>1, <2>2, <2>5, <2>6, Frame DEF Heads
<1>4. Operations'
  <2>1. \A x : Joined(x) => Joined(x)'
    BY <1>1, OneIsLeast, Frame DEF Joined, Member, Calm, viewVars, Running, Join
  <2>2. \A o : OpOK(o) => OpOK(o)'
    BY <1>1, <2>1 DEF OpOK, Calm, Running
  <2>3. \A q \in Peer : OpOK(pending'[q])
    BY <1>1 DEF Inv, Operations, TypeOK
  <2> QED
    BY <1>1, <2>2, <2>3 DEF Inv, Operations
<1>5. Joining'
  BY <1>1, Frame DEF Inv, Joining, Calm, viewVars, Running
<1>6. Joins'
  <2> SUFFICES ASSUME NEW v \in tasks', Join(v) PROVE JoinOK(v)'
    BY DEF Joins, Join
  <2>1. JoinOK(v) /\ JoinTask(v)
    BY <1>1 DEF Inv, Joins, JoinOK
  <2>2. JoinTask(v)'
    BY <1>1, <2>1 DEF JoinTask, Asking, Others, Calm, viewVars, Running
  <2> QED
    BY <1>1, <2>1, <2>2, Frame DEF JoinOK, Calm, Running
<1> QED
  BY <1>1, <1>2, <1>3, <1>4, <1>5, <1>6, Frame DEF Inv

-----------------------------------------------------------------------------
(***************************************************************************)
(* A task starts.                                                          *)
(***************************************************************************)
LEMMA TaskStarts ==
  ASSUME Inv, TypeOK', Calm, UNCHANGED <<newviews, memberVars>>, joining' = {},
         NEW p \in Peer, Leads(p), NEW u, tasks' = tasks \cup {u},
         TaskOK(p, u), u.rest = {}, OpOK(u.first), OpOK(u.do) \/ Join(u),
         \A v \in tasks : ~Join(v),
         Join(u) => tasks = {} /\ newviews = {} /\ AllUp /\ JoinTask(u)
  PROVE  Inv'
<1>1. /\ Heads(p) /\ \A q \in Peer : Leads(q) => q = p
      /\ pending' = pending /\ storing' = storing /\ newviews' = newviews
      /\ u.owner = p
  BY TheLeader DEF Inv, memberVars, TaskOK
<1>2. Owners'
  <2>1. \A v \in tasks' : Leads(v.owner)'
    BY <1>1, Frame DEF Inv, Owners, TypeOK, Task
  <2> QED
    BY <1>1, <2>1 DEF Inv, Owners, Calm, Leads, Running, leaderVars
<1>3. \A v \in tasks' : TaskOK(p, v)'
  BY <1>1, Frame DEF Heads
<1>4. News(p)'
  BY <1>1 DEF Heads, News, Calm, viewVars
<1>5. Bumping => Bumping'
  BY DEF Bumping, WillBump
<1>6. \A m : UpToDate(p, m) => UpToDate(p, m)'
  BY <1>1, Frame DEF UpToDate, Brings, Calm, viewVars
<1>7. Latest(p)'
  BY <1>1, <1>5, <1>6 DEF Heads, Latest, Calm, viewVars, Running
<1>8. Uniform(p)'
  BY <1>1, <1>5, Frame DEF Heads, Uniform, Calm, viewVars, Running
<1>9. \A q \in Peer : Leads(q)' => Heads(q)'
  BY <1>1, <1>3, <1>4, <1>7, <1>8, Frame DEF Heads
<1>10. Operations'
  <2>1. \A x : Joined(x) => Joined(x)'
    BY OneIsLeast, Frame DEF Joined, Member, Calm, viewVars, Running, Join
  <2>2. \A o : OpOK(o) => OpOK(o)'
    BY <2>1 DEF OpOK, Calm, Running
  <2>3. ASSUME Join(u) PROVE OpOK(u.do)'
    <3>1. p = 1 /\ u.do.about \in Peer /\ Running(u.do.about) /\ u.do.op = "ADD"
      BY <1>1, <2>3 DEF JoinTask, Join
    <3>2. Joined(u.do.about)'
      BY <2>3, <3>1, Frame DEF Joined, Join
    <3> QED
      BY <3>1, <3>2 DEF OpOK, Calm, Running
  <2> QED
    BY <1>1, <2>2, <2>3 DEF Inv, Operations
<1>11. Joining'
  BY DEF Joining
<1>12. Joins'
  <2> SUFFICES ASSUME NEW v \in tasks', Join(v) PROVE JoinOK(v)'
    BY DEF Joins, Join
  <2>1. v = u
    OBVIOUS
  <2>2. JoinTask(u)'
    BY <1>1, <2>1 DEF JoinTask, Asking, Others, Calm, viewVars, Running
  <2> QED
    BY <1>1, <2>1, <2>2, Frame DEF JoinOK
<1> QED
  BY <1>2, <1>9, <1>10, <1>11, <1>12, Frame DEF Inv

(***************************************************************************)
(* Who is suspected has crashed: when everything has settled all members   *)
(* have one list, so that nobody is left out by a member that runs.        *)
(***************************************************************************)
LEMMA SuspectIsGone ==
  ASSUME Inv, NEW p \in Peer, NEW q, Suspects(p, q)
  PROVE  /\ status[q] = "crashed" /\ joining = {} /\ Member(p)
         /\ q \in Members(Peers[p]) /\ q # p /\ \A t \in tasks : ~Join(t)
<1>1. Running(p) /\ q \in Members(Peers[p]) /\ q # p /\ Silent(q, p) /\ Member(p) /\ q \in Peer
  BY DEF Suspects, Others, Member, Members
<1>2. status[q] = "crashed"
  <2> SUFFICES ASSUME Peers[q][p] = 0, Settled PROVE status[q] = "crashed"
    BY <1>1 DEF Silent
  <2>1. status[q] # "down" /\ (Running(q) => p \in Members(Peers[q]))
    <3>1. CASE \E r \in Peer : Leads(r)
      <4>1. PICK r \in Peer : Leads(r)
        BY <3>1
      <4>2. Rank(r)
        BY <4>1 DEF Inv, Heads
      <4>3. p \in Members(Peers[r])
        BY <1>1, <4>2 DEF Rank
      <4>4. Peers[p] = Peers[r]
        BY <1>1, <4>1, <4>3, SettledLeader
      <4>5. Running(q) => Peers[q] = Peers[r]
        BY <1>1, <4>1, <4>4, SettledLeader
      <4> QED
        BY <1>1, <4>2, <4>3, <4>4, <4>5 DEF Rank
    <3>2. CASE \A r \in Peer : ~Leads(r)
      BY <1>1, <3>2 DEF Inv, Leaderless
    <3> QED
      BY <3>1, <3>2
  <2>2. ~Running(q)
    BY <2>1 DEF Members
  <2> QED
    BY <1>1, <2>1, <2>2 DEF Inv, TypeOK, Running
<1>3. ~AllUp
  BY <1>1, <1>2 DEF AllUp, Running
<1>4. joining = {}
  BY <1>3 DEF Inv, Joining
<1>5. \A t \in tasks : ~Join(t)
  BY <1>3 DEF Inv, Joins, JoinOK
<1> QED
  BY <1>1, <1>2, <1>4, <1>5

LEMMA RequestRemovalKeeps ==
  ASSUME Inv, TypeOK', NEW p \in Peer, NEW q \in Peer, RequestRemoval(p, q)
  PROVE  Inv'
<1> DEFINE o == [op |-> "DELETE", about |-> q]
<1>1. Suspects(p, q) /\ Leads(p)
  BY DEF RequestRemoval, Leads, Suspects
<1>2. status[q] = "crashed" /\ joining = {} /\ \A t \in tasks : ~Join(t)
  BY <1>1, SuspectIsGone
<1>3. PICK u : u = NewTask(p, o, FALSE, Others(p) \ {q})
  OBVIOUS
<1>4. tasks' = tasks \cup {u}
  BY <1>3 DEF RequestRemoval, Begin
<1>5. /\ u.owner = p /\ u.do = o /\ u.recon = FALSE /\ u.at = "wait" /\ u.view = ViewID[p]
      /\ u.first = Nothing /\ u.rest = {} /\ u.newView = 0
  BY <1>3 DEF NewTask
<1>6. ViewID[p] \in Nat
  BY ListFacts DEF Inv
<1>7. TaskOK(p, u) /\ ~Join(u)
  BY <1>5, <1>6 DEF TaskOK, Join, Nothing
<1>8. OpOK(u.do) /\ OpOK(u.first)
  BY <1>2, <1>5 DEF OpOK, Nothing
<1>9. Calm /\ UNCHANGED <<newviews, memberVars>> /\ joining' = {}
  BY <1>2 DEF RequestRemoval, Calm, processVars
<1> QED
  BY <1>1, <1>2, <1>4, <1>5, <1>7, <1>8, <1>9, TaskStarts

\* The JOIN of the only peer that has still to join; nothing else is under way.
LEMMA JoinGroupKeeps ==
  ASSUME Inv, TypeOK', NEW x \in Peer, JoinGroup(x)
  PROVE  Inv'
<1>1. /\ tasks = {} /\ newviews = {} /\ AllUp /\ joining = {x} /\ x \in Peer \ {1}
      /\ Running(x) /\ ViewID[x] = 0 /\ (Running(1) => x \notin Members(Peers[1]))
  BY DEF JoinGroup, Inv, Joining
<1>2. Calm /\ UNCHANGED <<newviews, memberVars>> /\ joining' = {}
  BY <1>1 DEF JoinGroup, Calm
<1>3. CASE Running(1) /\ isLeader[1]
  <2> DEFINE o == [op |-> "ADD", about |-> x]
  <2>1. PICK u : u = NewTask(1, o, FALSE, Others(1))
    OBVIOUS
  <2>2. tasks' = tasks \cup {u}
    BY <1>3, <2>1 DEF JoinGroup, Begin
  <2>3. /\ u.owner = 1 /\ u.do = o /\ u.recon = FALSE /\ u.at = "wait" /\ u.view = ViewID[1]
        /\ u.ask = Others(1) /\ u.got = 0 /\ u.ok = 0
        /\ u.first = Nothing /\ u.rest = {} /\ u.newView = 0
    BY <2>1 DEF NewTask
  <2>4. ViewID[1] \in Nat
    BY OneIsLeast, ListFacts DEF Inv
  <2>5. TaskOK(1, u) /\ Join(u)
    BY <2>3, <2>4 DEF TaskOK, Join, Nothing
  <2>6. OpOK(u.first)
    BY <2>3 DEF OpOK, Nothing
  <2>7. JoinTask(u)
    <3>1. Others(1) \ u.ask = {} /\ Cardinality({}) = 0
      BY <2>3, FS_EmptySet
    <3>2. Asking(u)
      BY <1>1, <1>3, <2>3, <3>1 DEF Asking
    <3> QED
      BY <1>1, <2>3, <3>2 DEF JoinTask
  <2>8. Leads(1) /\ \A v \in tasks : ~Join(v)
    BY <1>1, <1>3 DEF Leads
  <2> QED
    BY <1>1, <1>2, <2>2, <2>3, <2>5, <2>6, <2>7, <2>8, OneIsLeast, TaskStarts
<1>4. CASE ~(Running(1) /\ isLeader[1])
  <2>1. tasks' = tasks /\ pending' = pending /\ storing' = storing /\ newviews' = newviews
    BY <1>2, <1>4 DEF JoinGroup, taskVars, memberVars
  <2>2. Owners' /\ Joins' /\ Joining'
    BY <1>1, <1>2, <2>1, Frame
       DEF Inv, Owners, Joins, Joining, Calm, Leads, Running, leaderVars
  <2>3. ASSUME NEW p \in Peer, Leads(p) PROVE Heads(p)'
    <3>1. Heads(p)
      BY <2>3 DEF Inv
    <3>2. News(p)' /\ Bumping' = Bumping
      BY <1>1, <2>1 DEF News, Bumping
    <3>3. \A m : UpToDate(p, m) => UpToDate(p, m)'
      BY <1>1, <1>2, <2>1 DEF UpToDate, Calm, viewVars
    <3>4. Latest(p)'
      BY <1>2, <3>1, <3>2, <3>3 DEF Heads, Latest, Calm, viewVars, Running
    <3>5. Uniform(p)'
      BY <1>1, <1>2, <2>1, <3>1, <3>2 DEF Heads, Uniform, Calm, viewVars, Running
    <3> QED
      BY <1>1, <1>2, <2>1, <3>1, <3>2, <3>4, <3>5, Frame DEF Heads
  <2>4. Operations'
    <3>1. \A y : Joined(y) => Joined(y)'
      BY <1>2, <2>1, OneIsLeast, Frame DEF Joined, Member, Calm, viewVars, Running, Join
    <3>2. \A o : OpOK(o) => OpOK(o)'
      BY <1>2, <3>1 DEF OpOK, Calm, Running
    <3> QED
      BY <1>2, <2>1, <3>2 DEF Inv, Operations
  <2> QED
    BY <1>2, <2>2, <2>3, <2>4, Frame DEF Inv
<1> QED
  BY <1>3, <1>4

(***************************************************************************)
(* handleLeaderFailure.  With a leader alive nobody is next but it, so     *)
(* that a new leader finds all members with its own list and nothing under *)
(* way.                                                                    *)
(***************************************************************************)
LEMMA Unmoved ==
  ASSUME Inv, TypeOK', leaderID'[1] = 1, \A q \in Peer : Leads(q) => leaderID'[q] = q,
         UNCHANGED <<status, joining, viewVars, isLeader, memberVars, newviews, tasks>>
  PROVE  Inv'
<1>1. /\ status' = status /\ joining' = joining /\ ViewID' = ViewID /\ Peers' = Peers
      /\ isLeader' = isLeader /\ pending' = pending /\ storing' = storing
      /\ newviews' = newviews /\ tasks' = tasks
  BY DEF viewVars, memberVars
<1>2. First' /\ Down' /\ Owners'
  BY <1>1 DEF Inv, First, Down, Owners, Leads, Running
<1>3. ASSUME NEW q \in Peer, Leads(q)' PROVE Heads(q)'
  <2>1. Heads(q)
    BY <1>1, <1>3 DEF Inv, Leads, Running
  <2>2. Rank(q)' /\ News(q)'
    BY <1>1, <2>1 DEF Heads, Rank, News, Member, Running
  <2>3. \A v : ListFor(v)' = ListFor(v)
    BY <1>1 DEF ListFor
  <2>4. \A v \in tasks' : TaskOK(q, v)'
    BY <1>1, <2>1, <2>3 DEF Heads, TaskOK, ListOK, Running
  <2>5. \A m : UpToDate(q, m) => UpToDate(q, m)'
    BY <1>1, <2>3 DEF UpToDate, Brings
  <2>6. Latest(q)'
    BY <1>1, <2>1, <2>5 DEF Heads, Latest, Bumping, WillBump, Running
  <2>7. Uniform(q)'
    BY <1>1, <2>1, <2>3 DEF Heads, Uniform, Bumping, WillBump, Running
  <2> QED
    BY <2>2, <2>4, <2>6, <2>7 DEF Heads
<1>4. Leaderless'
  BY <1>1 DEF Inv, Leaderless, Leads, Member, Running
<1>5. Operations'
  <2>1. \A x : Joined(x) => Joined(x)'
    BY <1>1 DEF Joined, Member, Leads, Running, Join
  <2>2. \A o : OpOK(o) => OpOK(o)'
    BY <1>1, <2>1 DEF OpOK, Running
  <2> QED
    BY <1>1, <2>2 DEF Inv, Operations
<1>6. AllUp' = AllUp
  BY <1>1 DEF AllUp, Running
<1>7. Joining'
  BY <1>1, <1>6 DEF Inv, Joining, Running
<1>8. Joins'
  <2>1. \A v : JoinTask(v) => JoinTask(v)'
    BY <1>1 DEF JoinTask, Asking, Others, Running
  <2> QED
    BY <1>1, <1>6, <2>1 DEF Inv, Joins, JoinOK, Join, Running
<1> QED
  BY <1>2, <1>3, <1>4, <1>5, <1>7, <1>8 DEF Inv

LEMMA MinIsLeast ==
  ASSUME NEW T, T \subseteq Peer, NEW x \in T
  PROVE  Min(T) \in T /\ Min(T) <= x
<1>1. T \subseteq Nat
  BY PeerAssumption
<1>2. \E y \in T : \A z \in T : y <= z
  BY <1>1, NatHasMin
<1> QED
  BY <1>2 DEF Min

\* The next leader in the view of a peer that waits for one.
LEMMA NextIsLeast ==
  ASSUME Inv, NEW p \in Peer, FindNextLeaderID(p) = p,
         NEW m \in Members(Peers[p]), m # leaderID[p]
  PROVE  p <= m
<1> DEFINE candidates == Members(Peers[p]) \ {leaderID[p]}
<1>1. candidates \subseteq Peer /\ m \in candidates
  BY DEF Members
<1>2. Min(candidates) <= m
  BY <1>1, MinIsLeast
<1> QED
  BY <1>1, <1>2 DEF FindNextLeaderID

LEMMA LeaderFailureKeeps ==
  ASSUME Inv, TypeOK', NEW p \in Peer, HandleLeaderFailure(p)
  PROVE  Inv'
<1> DEFINE l == leaderID[p]
           next == FindNextLeaderID(p)
<1>1. /\ status[l] = "crashed" /\ joining = {} /\ Member(p) /\ Running(p)
      /\ l \in Members(Peers[p]) /\ l # p /\ \A t \in tasks : ~Join(t)
  BY SuspectIsGone DEF HandleLeaderFailure, Suspects
<1>2. p # 1 /\ ~Leads(p)
  BY <1>1 DEF Inv, First, Owners
<1>3. leaderID' = [leaderID EXCEPT ![p] = next]
      /\ UNCHANGED <<processVars, viewVars, memberVars, newviews>>
  BY DEF HandleLeaderFailure
<1>4. \A q \in Peer : q # p => leaderID'[q] = leaderID[q]
  BY <1>3 DEF Inv, TypeOK
<1>5. CASE next # p
  <2>1. UNCHANGED <<status, joining, viewVars, isLeader, memberVars, newviews, tasks>>
    BY <1>3, <1>5 DEF HandleLeaderFailure, processVars, taskVars
  <2>2. leaderID'[1] = 1 /\ \A q \in Peer : Leads(q) => leaderID'[q] = q
    BY <1>2, <1>4, OneIsLeast DEF Inv, First, Owners
  <2> QED
    BY <2>1, <2>2, Unmoved
<1>6. CASE next = p
  <2>1. ASSUME NEW r \in Peer, Leads(r) PROVE FALSE
    <3>1. r <= p /\ r \in Members(Peers[p])
      BY <1>1, <2>1 DEF Inv, Heads, Rank
    <3>2. r # l
      BY <1>1, <2>1 DEF Leads, Running
    <3>3. p <= r
      BY <1>6, <3>1, <3>2, NextIsLeast
    <3> QED
      BY <1>2, <2>1, <3>1, <3>3, OneIsLeast
  <2>2. tasks = {} /\ newviews = {}
    BY <2>1 DEF Inv, Owners, TypeOK, Task
  <2>3. /\ p \in Members(Peers[p])
        /\ \A q \in Members(Peers[p]) : status[q] # "down" /\ (Running(q) => Member(q))
        /\ \A m \in Peer : Member(m) => Peers[m] = Peers[p] /\ ViewID[m] = ViewID[p]
                                        /\ m \in Members(Peers[m])
    BY <1>1, <2>1 DEF Inv, Leaderless
  <2>4. \A m \in Members(Peers[p]) : Running(m) => p <= m
    BY <1>1, <1>6, NextIsLeast DEF Running
  <2>5. PICK u : u = NewTask(p, Nothing, TRUE, Others(p))
    OBVIOUS
  <2>6. /\ tasks' = {u} /\ isLeader' = [isLeader EXCEPT ![p] = TRUE]
        /\ status' = status /\ ViewID' = ViewID /\ Peers' = Peers /\ newviews' = {}
        /\ joining' = {} /\ pending' = pending /\ storing' = storing
    BY <1>1, <1>3, <1>6, <2>2, <2>5
       DEF HandleLeaderFailure, Begin, processVars, viewVars, memberVars
  <2>7. /\ u.owner = p /\ u.do = Nothing /\ u.recon = TRUE /\ u.at = "wait"
        /\ u.view = ViewID[p] /\ u.first = Nothing /\ u.rest = {} /\ u.newView = 0
    BY <2>5 DEF NewTask
  <2>8. /\ \A q \in Peer : Leads(q)' <=> q = p
        /\ \A m : Member(m)' = Member(m)
    BY <1>1, <2>1, <2>6 DEF Leads, Member, Running, Inv, TypeOK
  <2>9. First' /\ Down' /\ Owners'
    <3>1. leaderID'[p] = p
      BY <1>3, <1>6 DEF Inv, TypeOK
    <3>2. \A q \in Peer : q # p => isLeader'[q] = isLeader[q]
      BY <2>6 DEF Inv, TypeOK
    <3> QED
      BY <1>1, <1>2, <1>4, <2>6, <2>7, <2>8, <3>1, <3>2, OneIsLeast
         DEF Inv, First, Down, Owners, Running
  <2>10. Rank(p)'
    <3>1. \A m \in Members(Peers[p]) : Running(m) => ViewID[m] <= ViewID[p]
      BY <2>3, ListFacts DEF Inv, Members
    <3> QED
      BY <2>3, <2>4, <2>6, <2>8, <3>1 DEF Rank, Member, Running
  <2>11. News(p)'
    BY <2>6 DEF News
  <2>12. TaskOK(p, u)'
    <3>1. ViewID[p] \in Nat
      BY ListFacts DEF Inv
    <3> QED
      BY <1>2, <2>6, <2>7, <3>1 DEF TaskOK
  <2>13. Latest(p)'
    <3>1. \A m \in Members(Peers[p]) : Running(m) => ViewID[m] = ViewID[p] /\ Peers[m] = Peers[p]
      BY <2>3 DEF Members
    <3> QED
      BY <2>6, <3>1 DEF Latest, UpToDate, Running
  <2>14. Uniform(p)'
    BY <2>3, <2>6, <2>7 DEF Uniform, Running, Members
  <2>15. \A q \in Peer : Leads(q)' => Heads(q)'
    BY <2>6, <2>8, <2>10, <2>11, <2>12, <2>13, <2>14 DEF Heads
  <2>16. Leaderless'
    BY <2>8 DEF Leaderless
  <2>17. Operations'
    <3>1. \A x : Joined(x) => Joined(x)'
      BY <2>1, <2>8, OneIsLeast DEF Joined
    <3>2. \A o : OpOK(o) => OpOK(o)'
      BY <2>6, <3>1 DEF OpOK, Running
    <3>3. OpOK(Nothing)
      BY DEF OpOK, Nothing
    <3> QED
      BY <2>6, <2>7, <3>2, <3>3 DEF Inv, Operations
  <2>18. Joining' /\ Joins'
    BY <2>6, <2>7 DEF Joining, Joins, Join
  <2> QED
    BY <2>9, <2>15, <2>16, <2>17, <2>18 DEF Inv
<1> QED
  BY <1>5, <1>6

-----------------------------------------------------------------------------
(***************************************************************************)
(* Peers start and crash, while nothing is under way.                      *)
(***************************************************************************)
LEMMA FirstStarts ==
  ASSUME Inv, TypeOK', Start(1)
  PROVE  Inv'
<1>1. /\ 1 \in Peer /\ status[1] = "down" /\ \A q \in Peer : status[q] = "down"
      /\ isLeader[1] /\ leaderID[1] = 1 /\ ViewID[1] = 0 /\ Peers[1] = NoPeers
  BY OneIsLeast DEF Start, Inv, First, Down
<1>2. /\ status' = [status EXCEPT ![1] = "up"] /\ Peers' = [Peers EXCEPT ![1][1] = 1]
      /\ tasks' = {} /\ newviews' = {} /\ joining' = {} /\ ViewID' = ViewID
      /\ pending' = pending /\ storing' = {} /\ isLeader' = isLeader /\ leaderID' = leaderID
  BY DEF Start, Quiet, Settled, leaderVars, memberVars, taskVars
<1>3. /\ \A q \in Peer : status'[q] = IF q = 1 THEN "up" ELSE "down"
      /\ \A q \in Peer : Peers'[1][q] = IF q = 1 THEN 1 ELSE 0
      /\ \A q \in Peer : q # 1 => Peers'[q] = Peers[q]
  BY <1>1, <1>2 DEF Inv, TypeOK, NoPeers, List
<1>4. /\ \A q \in Peer : Running(q)' <=> q = 1
      /\ \A q \in Peer : Leads(q)' <=> q = 1
      /\ \A q : q \in Members(Peers'[1]) <=> q = 1
  BY <1>1, <1>2, <1>3 DEF Running, Leads, Members
<1>5. First' /\ Down' /\ Owners'
  BY <1>1, <1>2, <1>3, <1>4 DEF Inv, First, Down, Owners
<1>6. Heads(1)'
  <2>1. Rank(1)'
    <3>1. \A m \in Peer : Member(m)' => m = 1
      BY <1>4 DEF Member
    <3>2. ViewID'[1] <= ViewID'[1] /\ 1 <= 1
      BY <1>1, <1>2
    <3>3. status'[1] # "down"
      BY <1>1, <1>3
    <3> QED
      BY <1>1, <1>4, <3>1, <3>2, <3>3 DEF Rank
  <2>2. News(1)' /\ \A t \in tasks' : TaskOK(1, t)'
    BY <1>2 DEF News
  <2>3. Latest(1)'
    BY <1>4 DEF Latest, UpToDate
  <2>4. Uniform(1)'
    BY <1>2, <1>4 DEF Uniform
  <2> QED
    BY <2>1, <2>2, <2>3, <2>4 DEF Heads
<1>7. Leaderless'
  BY <1>1, <1>4 DEF Leaderless
<1>8. Operations'
  <2>1. \A q \in Peer : pending[q].op # "DELETE" /\ pending[q].op # "ADD"
    BY <1>1 DEF Inv, Operations, OpOK
  <2> QED
    BY <1>2, <2>1 DEF Operations, OpOK
<1>9. Joining' /\ Joins'
  BY <1>2 DEF Joining, Joins
<1> QED
  BY <1>4, <1>5, <1>6, <1>7, <1>8, <1>9 DEF Inv

LEMMA OtherStarts ==
  ASSUME Inv, TypeOK', NEW p \in Peer, p # 1, Start(p)
  PROVE  Inv'
<1>1. /\ status[p] = "down" /\ ~isLeader[p] /\ ViewID[p] = 0 /\ Peers[p] = NoPeers
      /\ status[1] # "down" /\ Settled /\ Quiet
  BY OneIsLeast, PeerAssumption DEF Start, Inv, Down, Quiet
<1>2. /\ status' = [status EXCEPT ![p] = "up"] /\ Peers' = Peers /\ ViewID' = ViewID
      /\ tasks = {} /\ newviews = {} /\ tasks' = {} /\ newviews' = {} /\ joining' = {p}
      /\ pending' = pending /\ storing' = {} /\ isLeader' = isLeader /\ leaderID' = leaderID
  BY <1>1 DEF Start, Settled, leaderVars, memberVars, taskVars
<1>3. /\ \A q \in Peer : q # p => status'[q] = status[q]
      /\ status'[p] = "up"
  BY <1>2 DEF Inv, TypeOK
<1>4. /\ \A q \in Peer : q # p => Running(q)' = Running(q)
      /\ Running(p)' /\ ~Running(p)
  BY <1>1, <1>3 DEF Running
<1>5. Members(Peers[p]) = {}
  BY <1>1 DEF Members, NoPeers
<1>6. /\ \A q \in Peer : Leads(q)' <=> Leads(q)
      /\ \A q \in Peer : Member(q)' <=> Member(q)
  BY <1>1, <1>2, <1>4, <1>5 DEF Leads, Member
<1>7. First' /\ Down' /\ Owners'
  BY <1>1, <1>2, <1>3, <1>4, <1>6, OneIsLeast DEF Inv, First, Down, Owners
<1>8. ASSUME NEW q \in Peer, Leads(q) PROVE Heads(q)' /\ p \notin Members(Peers[q])
  <2>1. Heads(q) /\ p \notin Members(Peers[q])
    BY <1>1, <1>8 DEF Inv, Heads, Rank
  <2>2. \A m \in Members(Peers[q]) : m \in Peer /\ status'[m] = status[m] /\ Running(m)' = Running(m)
    BY <1>3, <1>4, <2>1 DEF Members
  <2>3. Rank(q)'
    BY <1>2, <1>6, <2>1, <2>2 DEF Heads, Rank
  <2>4. News(q)' /\ \A t \in tasks' : TaskOK(q, t)'
    BY <1>2 DEF News
  <2>5. Latest(q)'
    <3>1. \A m \in Members(Peers[q]) : Running(m) => ViewID[m] = ViewID[q] /\ Peers[m] = Peers[q]
      BY <1>1, <1>8, SettledLeader
    <3> QED
      BY <1>2, <2>2, <3>1 DEF Latest, UpToDate
  <2>6. Uniform(q)'
    <3>1. ~Bumping
      BY <1>2 DEF Bumping
    <3> QED
      BY <1>2, <2>1, <2>2, <3>1 DEF Heads, Uniform
  <2> QED
    BY <2>1, <2>3, <2>4, <2>5, <2>6 DEF Heads
<1>9. Leaderless'
  <2> SUFFICES ASSUME \A q \in Peer : ~Leads(q)
               PROVE  /\ \A m \in Peer : Member(m)' =>
                           /\ m \in Members(Peers[m])
                           /\ \A q \in Members(Peers[m]) :
                                status'[q] # "down" /\ (Running(q)' => Member(q)')
                      /\ \A m, q \in Peer : Member(m)' /\ Member(q)' =>
                           Peers[m] = Peers[q] /\ ViewID[m] = ViewID[q]
    BY <1>2, <1>6 DEF Leaderless
  <2>1. /\ \A m \in Peer : Member(m) =>
             /\ m \in Members(Peers[m])
             /\ \A q \in Members(Peers[m]) : status[q] # "down" /\ (Running(q) => Member(q))
        /\ \A m, q \in Peer : Member(m) /\ Member(q) =>
             Peers[m] = Peers[q] /\ ViewID[m] = ViewID[q]
    BY DEF Inv, Leaderless
  <2>2. \A m, q : q \in Members(Peers[m]) => q \in Peer
    BY DEF Members
  <2> QED
    BY <1>1, <1>3, <1>4, <1>6, <2>1, <2>2
<1>10. Operations'
  <2>1. \A x \in Peer : Joined(x) => Joined(x)'
    BY <1>2, <1>6, OneIsLeast DEF Joined
  <2>2. \A o : OpOK(o) => OpOK(o)'
    BY <1>1, <1>3, <1>4, <2>1 DEF OpOK
  <2> QED
    BY <1>2, <2>2 DEF Inv, Operations
<1>11. Joining'
  <2>1. AllUp'
    <3>1. \A q \in Peer : Running(q) => \A r \in Members(Peers[q]) : Running(r)
      BY <1>1 DEF Quiet
    <3>2. \A q \in Peer : Running(q)' => \A r \in Members(Peers[q]) : Running(r)'
      BY <1>4, <1>5, <3>1 DEF Members
    <3> QED
      BY <1>2, <3>2 DEF AllUp
  <2>2. Running(1)' => p \notin Members(Peers[1])
    BY <1>4, <1>8, OneIsLeast DEF Inv, First, Leads
  <2>3. p \in Peer \ {1} /\ joining' = {p} /\ Running(p)' /\ ViewID'[p] = 0
    BY <1>1, <1>2, <1>4
  <2> QED
    BY <1>2, <2>1, <2>2, <2>3 DEF Joining
<1>12. Joins'
  BY <1>2 DEF Joins
<1> QED
  BY <1>6, <1>7, <1>8, <1>9, <1>10, <1>11, <1>12 DEF Inv

LEMMA CrashKeeps ==
  ASSUME CrashInRemoval = FALSE, Inv, TypeOK', NEW p \in Peer, Crash(p)
  PROVE  Inv'
<1>1. Running(p) /\ Settled /\ Quiet /\ tasks = {} /\ newviews = {}
  BY DEF Crash, Quiet, Settled
<1>2. /\ status' = [status EXCEPT ![p] = "crashed"] /\ Peers' = Peers /\ ViewID' = ViewID
      /\ tasks' = {} /\ newviews' = {} /\ joining' = {}
      /\ pending' = pending /\ storing' = {} /\ isLeader' = isLeader /\ leaderID' = leaderID
  BY <1>1 DEF Crash, Stop, Settled, viewVars, leaderVars
<1>3. \A q \in Peer : status'[q] = IF q = p THEN "crashed" ELSE status[q]
  BY <1>2 DEF Inv, TypeOK
<1>4. /\ \A q \in Peer : Running(q)' <=> Running(q) /\ q # p
      /\ \A q \in Peer : Leads(q)' <=> Leads(q) /\ q # p
      /\ \A q \in Peer : Member(q)' <=> Member(q) /\ q # p
  BY <1>2, <1>3 DEF Running, Leads, Member
<1>5. First' /\ Down' /\ Owners'
  <2>1. status[1] # "down"
    BY <1>1 DEF Inv, First, Running
  <2> QED
    BY <1>2, <1>3, <1>4, <2>1, OneIsLeast DEF Inv, First, Down, Owners
<1>6. ASSUME NEW q \in Peer, Leads(q), q # p PROVE Heads(q)'
  <2>1. Heads(q)
    BY <1>6 DEF Inv
  <2>2. \A m \in Members(Peers[q]) :
          m \in Peer /\ (Running(m)' => Running(m)) /\ (status'[m] = "down" => status[m] = "down")
    BY <1>3, <1>4 DEF Members
  <2>3. Rank(q)'
    BY <1>2, <1>4, <2>1, <2>2 DEF Heads, Rank
  <2>4. News(q)' /\ \A t \in tasks' : TaskOK(q, t)'
    BY <1>2 DEF News
  <2>5. Latest(q)'
    <3>1. \A m \in Members(Peers[q]) : Running(m) => ViewID[m] = ViewID[q] /\ Peers[m] = Peers[q]
      BY <1>1, <1>6, SettledLeader
    <3> QED
      BY <1>2, <2>2, <3>1 DEF Latest, UpToDate
  <2>6. Uniform(q)'
    <3>1. ~Bumping
      BY <1>1 DEF Bumping
    <3> QED
      BY <1>2, <2>1, <2>2, <3>1 DEF Heads, Uniform
  <2> QED
    BY <2>3, <2>4, <2>5, <2>6 DEF Heads
  \* The leader's list and view are those of all members it leaves behind.
<1>7. ASSUME \A q \in Peer : Leads(q) => q = p
      PROVE  /\ \A m \in Peer : Member(m) /\ m # p =>
                  /\ m \in Members(Peers[m])
                  /\ \A q \in Members(Peers[m]) :
                       status[q] # "down" /\ (Running(q) /\ q # p => Member(q))
             /\ \A m, q \in Peer : Member(m) /\ Member(q) =>
                  Peers[m] = Peers[q] /\ ViewID[m] = ViewID[q]
  <2>1. CASE Leads(p)
    <3>1. Rank(p)
      BY <2>1 DEF Inv, Heads
    <3>2. \A m \in Peer : Member(m) =>
            m \in Members(Peers[p]) /\ Peers[m] = Peers[p] /\ ViewID[m] = ViewID[p]
      BY <1>1, <2>1, <3>1, SettledLeader DEF Rank, Member
    <3>3. \A q \in Members(Peers[p]) : status[q] # "down" /\ (Running(q) => Member(q))
      BY <1>1, <2>1, <3>1, SettledLeader DEF Rank
    <3> QED
      BY <3>2, <3>3
  <2>2. CASE ~Leads(p)
    BY <1>7, <2>2 DEF Inv, Leaderless
  <2> QED
    BY <2>1, <2>2
<1>8. Leaderless'
  <2> SUFFICES ASSUME \A q \in Peer : Leads(q) => q = p
               PROVE  /\ \A m \in Peer : Member(m)' =>
                           /\ m \in Members(Peers[m])
                           /\ \A q \in Members(Peers[m]) :
                                status'[q] # "down" /\ (Running(q)' => Member(q)')
                      /\ \A m, q \in Peer : Member(m)' /\ Member(q)' =>
                           Peers[m] = Peers[q] /\ ViewID[m] = ViewID[q]
    BY <1>2, <1>4 DEF Leaderless
  <2>1. \A m, q : q \in Members(Peers[m]) => q \in Peer
    BY DEF Members
  <2> QED
    BY <1>3, <1>4, <1>7, <2>1
<1>9. Operations'
  <2>1. ASSUME NEW x \in Peer, x # p, Running(x), Joined(x) PROVE Joined(x)'
    <3>1. CASE Member(x)
      BY <1>4, <2>1, <3>1 DEF Joined
    <3>2. CASE Leads(1) /\ x \in Members(Peers[1])
      <4>1. Member(x)
        BY <1>1, <2>1, <3>2, OneIsLeast, SettledLeader
      <4> QED
        BY <1>4, <2>1, <4>1 DEF Joined
    <3> QED
      BY <1>1, <2>1, <3>1, <3>2 DEF Joined
  <2>2. \A o : OpOK(o) => OpOK(o)'
    BY <1>3, <1>4, <2>1 DEF OpOK, Running
  <2> QED
    BY <1>2, <2>2 DEF Inv, Operations
<1>10. Joining' /\ Joins'
  BY <1>2 DEF Joining, Joins
<1> QED
  BY <1>4, <1>5, <1>6, <1>8, <1>9, <1>10 DEF Inv

-----------------------------------------------------------------------------
LEMMA InitInv == Init => Inv
<1> SUFFICES ASSUME Init PROVE Inv
  OBVIOUS
<1>1. \A p \in Peer : status[p] = "down" /\ Peers[p] = NoPeers /\ ViewID[p] = 0
  BY DEF Init
<1>2. \A p \in Peer : ~Running(p)
  BY <1>1 DEF Running
<1>3. First /\ Down /\ Owners
  BY <1>1, <1>2, OneIsLeast DEF Init, First, Down, Owners, Leads
<1>4. \A p \in Peer : ~Leads(p) /\ ~Member(p)
  BY <1>2 DEF Leads, Member
<1>5. Operations
  BY DEF Init, Operations, OpOK, Nothing
<1>6. Joining /\ Joins
  BY DEF Init, Joining, Joins
<1> QED
  BY <1>3, <1>4, <1>5, <1>6, InitTypes DEF Inv, Leaderless

LEMMA NextInv ==
  LeaderCrash = FALSE /\ CrashInRemoval = FALSE /\ Inv /\ [Next]_vars => Inv'
<1> SUFFICES ASSUME LeaderCrash = FALSE, CrashInRemoval = FALSE, Inv, [Next]_vars
             PROVE  Inv'
  OBVIOUS
<1>1. TypeOK'
  BY NextTypes DEF Inv
<1>2. ASSUME NEW p \in Peer, Start(p) \/ PeerStep(p) \/ Crash(p) PROVE Inv'
  <2>1. CASE Start(p)
    BY <1>1, <2>1, FirstStarts, OtherStarts
  <2>2. CASE PeerStep(p)
    <3>1. ASSUME NEW n \in newviews, HandleNewView(n) PROVE Inv'
      BY <1>1, <3>1, OldNewsKeeps, NewsKeeps
    <3> QED
      BY <1>1, <2>2, <3>1, JoinGroupKeeps, StorePendingKeeps, LeaderFailureKeeps,
         RequestRemovalKeeps DEF PeerStep
  <2>3. CASE Crash(p)
    BY <1>1, <2>3, CrashKeeps
  <2> QED
    BY <1>2, <2>1, <2>2, <2>3
<1>3. ASSUME NEW t \in tasks, TaskStep(t) PROVE Inv'
  BY <1>1, <1>3, SendReqKeeps, SendNewLeaderKeeps, AppendPeerKeeps, UpdateKeeps,
     RemovePeerKeeps, TakeUpKeeps, NewViewKeeps, SendNewViewKeeps, EndKeeps DEF TaskStep
<1>4. CASE UNCHANGED vars
  <2>1. /\ leaderID' = leaderID
        /\ UNCHANGED <<status, joining, viewVars, isLeader, memberVars, newviews, tasks>>
    BY <1>4 DEF vars, processVars, leaderVars, taskVars
  <2>2. leaderID'[1] = 1 /\ \A q \in Peer : Leads(q) => leaderID'[q] = q
    BY <2>1 DEF Inv, First, Owners
  <2> QED
    BY <1>1, <2>1, <2>2, Unmoved
<1> QED
  BY <1>2, <1>3, <1>4 DEF Next, RunLeaderCrash

LEMMA InvHolds ==
  ASSUME LeaderCrash = FALSE, CrashInRemoval = FALSE
  PROVE  Spec => []Inv
<1>1. Inv /\ [Next]_vars => Inv'
  BY NextInv
<1> QED
  BY <1>1, InitInv, PTL DEF Spec

(***************************************************************************)
(* Two fellows never both run leaderLoop, however many peers crash between *)
(* events and however the tasks of the leaders interleave.  The -t of peer *)
(* 1, by which a peer that runs is removed, and a crash in the middle of a *)
(* removal stay with TLC.                                                  *)
(***************************************************************************)
THEOREM OneLeader ==
  ASSUME LeaderCrash = FALSE, CrashInRemoval = FALSE
  PROVE  Spec => []AtMostOneLeader
<1>1. Inv => AtMostOneLeader
  BY TheLeader DEF AtMostOneLeader, Fellows, Leads
<1> QED
  BY <1>1, InvHolds, PTL

(***************************************************************************)
(* With crashes between events and without -t, fellows have one view and   *)
(* one list once nothing is under way, although removals and initiate-     *)
(* Reconciliation change both, and send them, side by side.                *)
(***************************************************************************)
THEOREM OneList ==
  ASSUME LeaderCrash = FALSE, CrashInRemoval = FALSE
  PROVE  Spec => []MembersAgree
<1>1. ASSUME Inv, Quiet, NEW p \in Peer, NEW q \in Peer, Fellows(p, q)
      PROVE  Peers[p] = Peers[q] /\ ViewID[p] = ViewID[q]
  <2>1. Member(p) /\ Member(q) /\ Running(p) /\ Running(q) /\ Settled
    BY <1>1 DEF Fellows, Member, Quiet
  <2>2. CASE \E r \in Peer : Leads(r)
    <3>1. PICK r \in Peer : Leads(r)
      BY <2>2
    <3>2. p \in Members(Peers[r]) /\ q \in Members(Peers[r])
      BY <1>1, <2>1, <3>1 DEF Inv, Heads, Rank
    <3> QED
      BY <1>1, <2>1, <3>1, <3>2, SettledLeader
  <2>3. CASE \A r \in Peer : ~Leads(r)
    BY <1>1, <2>1, <2>3 DEF Inv, Leaderless
  <2> QED
    BY <2>2, <2>3
<1>2. Inv => MembersAgree
  BY <1>1 DEF MembersAgree
<1> QED
  BY <1>2, InvHolds, PTL
=============================================================================
