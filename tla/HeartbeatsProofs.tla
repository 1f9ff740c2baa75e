-------------------------- MODULE HeartbeatsProofs --------------------------
(***************************************************************************)
(* Proofs about Heartbeats, for any number of peers, any addresses they    *)
(* may trade, any buffer and any number of stops.                          *)
(*                                                                         *)
(* That READY means that all have started is not inductive.  IInv adds the *)
(* way from one to the other: ready_count is the number of peers heard     *)
(* from, one is heard from only under an address that was learned by       *)
(* sending to it, which takes that it has started, and a peer whose entry  *)
(* is its own name never learns its own.                                   *)
(***************************************************************************)
EXTENDS Heartbeats, FiniteSetTheorems, TLAPS

LEMMA AtFacts ==
  ASSUME TypeOK, NEW p \in Peers
  PROVE  /\ Entry(p, 1) \in 1..(N + 1)
         /\ After(p) \in 1..(N + 1)
         /\ p \in OwnName => Entry(p, 1) # p /\ After(p) # p
<1>1. at[p] \in 1..(N + 1) /\ p \in 1..N /\ N \in Nat \ {0, 1}
  BY HeartbeatsAssumption DEF TypeOK, Peers
<1>2. \A i \in 1..N : Entry(p, i) \in 1..(N + 1) /\ (p \in OwnName => Entry(p, i) # p)
  BY <1>1 DEF Entry, SkipsOwn
<1>3. Entry(p, N + 1) = N + 1
  BY <1>1 DEF Entry, SkipsOwn
<1>. QED  BY <1>1, <1>2, <1>3 DEF After

-----------------------------------------------------------------------------
(***************************************************************************)
(* Every variable keeps its type.                                          *)
(***************************************************************************)
THEOREM TypeCorrect == Spec => []TypeOK
<1>1. Init => TypeOK
  BY HeartbeatsAssumption DEF Init, TypeOK, Unknown, Peers
<1>2. TypeOK /\ [Next]_vars => TypeOK'
  <2> SUFFICES ASSUME TypeOK, [Next]_vars PROVE TypeOK'
    OBVIOUS
  <2>0. Unknown \in [Peers -> Addresses \cup {None}]
    BY DEF Unknown
  <2>1. ASSUME NEW p \in Peers, Start(p) PROVE TypeOK'
    <3>1. host' \in [Peers -> Addresses \cup {None}]
      BY <2>1 DEF Start, TypeOK, Addresses
    <3>2. at' \in [Peers -> 1..(N + 1)]
      BY <2>1, AtFacts DEF Start, TypeOK
    <3>. QED  BY <2>1, <3>1, <3>2 DEF Start, TypeOK
  <2>2. ASSUME NEW p \in Peers, Stop(p) PROVE TypeOK'
    <3>1. 1 \in 1..(N + 1)
      BY HeartbeatsAssumption
    <3>. QED  BY <2>0, <2>2, <3>1 DEF Stop, TypeOK
  <2>3. ASSUME NEW p \in Peers, Advance(p) PROVE at' \in [Peers -> 1..(N + 1)]
    BY <2>3, AtFacts DEF Advance, TypeOK
  <2>4. ASSUME NEW p \in Peers, SendFails(p) PROVE TypeOK'
    BY <2>3, <2>4 DEF SendFails, TypeOK
  <2>5. ASSUME NEW p \in Peers, NEW q \in Peers, Send(p, q), inbox' \in [Peers -> Seq(Addresses)]
        PROVE  TypeOK'
    <3>1. ip_addresses' \in [Peers -> [Peers -> Addresses \cup {None}]]
      BY <2>5 DEF Send, Learned, TypeOK
    <3>. QED  BY <2>3, <2>5, <3>1 DEF Send, TypeOK
  <2>6. ASSUME NEW p \in Peers, NEW q \in Peers, Deliver(p, q) PROVE TypeOK'
    <3>1. host[p] \in Addresses
      BY <2>6 DEF Deliver, Send, Runs, TypeOK
    <3>2. inbox' \in [Peers -> Seq(Addresses)]
      BY <2>6, <3>1 DEF Deliver, TypeOK
    <3>. QED  BY <2>5, <2>6, <3>2 DEF Deliver
  <2>7. ASSUME NEW p \in Peers, NEW q \in Peers, Lose(p, q) PROVE TypeOK'
    BY <2>5, <2>7 DEF Lose, TypeOK
  <2>8. ASSUME NEW p \in Peers, Discover(p) PROVE TypeOK'
    <3>1. CASE UNCHANGED <<ip_addresses, received, ready_count, inbox, printed>>
      BY <2>3, <2>8, <3>1 DEF Discover, TypeOK
    <3>2. CASE ~UNCHANGED <<ip_addresses, received, ready_count, inbox, printed>>
      <4>1. /\ received' \in [Peers -> SUBSET Peers]
            /\ ready_count' \in [Peers -> Nat]
        <5>1. ASSUME NEW i \in Peers \cup {-1}, Counts(p, i),
                     received' = [received EXCEPT ![p] = @ \cup {i}],
                     ready_count' = [ready_count EXCEPT ![p] = @ + 1]
              PROVE  /\ received' \in [Peers -> SUBSET Peers]
                     /\ ready_count' \in [Peers -> Nat]
          BY <5>1 DEF Counts, TypeOK
        <5>2. CASE UNCHANGED <<received, ready_count>>
          BY <5>2 DEF TypeOK
        <5>. QED  BY <2>8, <3>2, <5>1, <5>2 DEF Discover
      <4>2. inbox' \in [Peers -> Seq(Addresses)]
        <5>1. inbox[p] # <<>> => Tail(inbox[p]) \in Seq(Addresses)
          BY DEF TypeOK
        <5>2. CASE inbox' = [inbox EXCEPT ![p] = Tail(@)] /\ inbox[p] # <<>>
          BY <5>1, <5>2 DEF TypeOK
        <5>3. CASE inbox' = [inbox EXCEPT ![p] = <<>>]
          <6>1. <<>> \in Seq(Addresses)
            OBVIOUS
          <6>. QED  BY <5>3, <6>1 DEF TypeOK
        <5>4. CASE inbox' = inbox
          BY <5>4 DEF TypeOK
        <5>. QED  BY <2>8, <5>2, <5>3, <5>4 DEF Discover
      <4>3. /\ ip_addresses' \in [Peers -> [Peers -> Addresses \cup {None}]]
            /\ printed' \subseteq Peers
        BY <2>0, <2>8 DEF Discover, TypeOK
      <4>. QED  BY <2>3, <2>8, <4>1, <4>2, <4>3 DEF Discover, TypeOK
    <3>. QED  BY <3>1, <3>2
  <2>9. CASE UNCHANGED vars
    BY <2>9 DEF vars, TypeOK
  <2>. QED  BY <2>1, <2>2, <2>4, <2>6, <2>7, <2>8, <2>9 DEF Next, Loop
<1>. QED  BY <1>1, <1>2, PTL DEF Spec

-----------------------------------------------------------------------------
\* A running peer has started, and does not send to itself.
RunsInv == \A p \in Peers : Runs(p) => p \in started /\ at[p] # p

\* An address is learned by sending to a peer that runs.
LearnedInv ==
  \A p, q \in Peers : ip_addresses[p][q] # None => q \in started \ {p}

HeardInv ==
  \A p \in Peers :
    /\ received[p] \subseteq started \ {p}
    /\ ready_count[p] = Cardinality(received[p])

IInv ==
  /\ RunsInv
  /\ LearnedInv
  /\ HeardInv
  /\ ReadyMeansStarted

LEMMA PeersFinite ==
  /\ IsFiniteSet(Peers)
  /\ \A p \in Peers : Cardinality(Peers \ {p}) = N - 1 /\ IsFiniteSet(Peers \ {p})
<1>1. IsFiniteSet(Peers) /\ Cardinality(Peers) = N
  BY FS_Interval, HeartbeatsAssumption DEF Peers
<1>. QED  BY <1>1, FS_RemoveElement

\* Who has heard from N - 1 others has heard from all others.
LEMMA HeardFromAll ==
  ASSUME NEW p \in Peers, NEW S \in SUBSET (Peers \ {p}), Cardinality(S) >= N - 1
  PROVE  S = Peers \ {p}
<1>1. /\ Cardinality(S) <= N - 1 /\ Cardinality(S) \in Nat
      /\ Cardinality(S) = N - 1 => S = Peers \ {p}
  <2>1. IsFiniteSet(Peers \ {p}) /\ Cardinality(Peers \ {p}) = N - 1
    BY PeersFinite
  <2>2. /\ IsFiniteSet(S)
        /\ Cardinality(S) <= Cardinality(Peers \ {p})
        /\ Cardinality(S) = Cardinality(Peers \ {p}) => S = Peers \ {p}
    BY <2>1, FS_Subset
  <2>. QED  BY <2>1, <2>2, FS_CardinalityType
<1>. QED  BY <1>1, HeartbeatsAssumption

LEMMA InvStep ==
  ASSUME OwnName = Peers, TypeOK, IInv, [Next]_vars
  PROVE  IInv'
<1>. USE DEF IInv
<1>1. ASSUME NEW p \in Peers, Start(p) PROVE IInv'
  <2>1. RunsInv'
    BY <1>1, AtFacts DEF Start, RunsInv, Runs, TypeOK
  <2>2. LearnedInv' /\ HeardInv'
    BY <1>1 DEF Start, LearnedInv, HeardInv
  <2>3. ReadyMeansStarted'
    BY <1>1 DEF Start, ReadyMeansStarted
  <2>. QED  BY <2>1, <2>2, <2>3
<1>2. ASSUME NEW p \in Peers, Stop(p) PROVE IInv'
  <2>1. RunsInv'
    BY <1>2 DEF Stop, RunsInv, Runs, TypeOK
  <2>2. LearnedInv'
    BY <1>2 DEF Stop, LearnedInv, Unknown, TypeOK
  <2>3. HeardInv'
    BY <1>2, FS_EmptySet DEF Stop, HeardInv, TypeOK
  <2>4. ReadyMeansStarted'
    BY <1>2 DEF Stop, ReadyMeansStarted
  <2>. QED  BY <2>1, <2>2, <2>3, <2>4
<1>3. ASSUME NEW p \in Peers, Advance(p), UNCHANGED <<host, started>> PROVE RunsInv'
  BY <1>3, AtFacts DEF Advance, RunsInv, Runs, TypeOK
<1>4. ASSUME NEW p \in Peers, SendFails(p) PROVE IInv'
  BY <1>3, <1>4 DEF SendFails, LearnedInv, HeardInv, ReadyMeansStarted
<1>5. ASSUME NEW p \in Peers, NEW q \in Peers, Send(p, q) PROVE IInv'
  <2>1. q \in started \ {p}
    BY <1>5 DEF Send, RunsInv
  <2>2. LearnedInv'
    BY <1>5, <2>1 DEF Send, LearnedInv, Learned, TypeOK
  <2>3. RunsInv' /\ HeardInv' /\ ReadyMeansStarted'
    BY <1>3, <1>5 DEF Send, HeardInv, ReadyMeansStarted
  <2>. QED  BY <2>2, <2>3
<1>6. ASSUME NEW p \in Peers, Discover(p) PROVE IInv'
  <2>1. RunsInv' /\ started' = started /\ p \in started
    BY <1>3, <1>6 DEF Discover, RunsInv
  <2>2. LearnedInv'
    <3>1. CASE ip_addresses' = ip_addresses
      BY <2>1, <3>1 DEF LearnedInv
    <3>2. CASE ip_addresses' = [ip_addresses EXCEPT ![p] = Unknown]
      BY <2>1, <3>2 DEF LearnedInv, Unknown, TypeOK
    <3>. QED  BY <1>6, <3>1, <3>2 DEF Discover
  <2>3. HeardInv'
    <3>1. ASSUME NEW i \in Peers \cup {-1}, get_peer_index(p, Head(inbox[p]), i),
                 inbox[p] # <<>>, Counts(p, i),
                 received' = [received EXCEPT ![p] = @ \cup {i}],
                 ready_count' = [ready_count EXCEPT ![p] = @ + 1]
          PROVE  HeardInv'
      <4>1. i \in Peers /\ i \notin received[p] /\ ip_addresses[p][i] = Head(inbox[p])
        BY <3>1 DEF Counts, get_peer_index
      <4>2. Head(inbox[p]) # None
        <5>1. inbox[p] \in Seq(Addresses)
          BY DEF TypeOK
        <5>. QED  BY <3>1, <5>1, HeartbeatsAssumption
      <4>3. i \in started \ {p}
        BY <4>1, <4>2 DEF LearnedInv
      <4>4. IsFiniteSet(received[p])
        BY PeersFinite, FS_Subset DEF TypeOK
      <4>5. Cardinality(received[p] \cup {i}) = Cardinality(received[p]) + 1
        BY <4>1, <4>4, FS_AddElement
      <4>. QED  BY <2>1, <3>1, <4>3, <4>5 DEF HeardInv, TypeOK
    <3>2. CASE UNCHANGED <<received, ready_count>>
      BY <2>1, <3>2 DEF HeardInv
    <3>. QED  BY <1>6, <3>1, <3>2 DEF Discover
  <2>4. ReadyMeansStarted'
    <3>1. CASE printed' = printed
      BY <2>1, <3>1 DEF ReadyMeansStarted
    <3>2. CASE ready_count'[p] >= N - 1
      <4>1. received'[p] \subseteq started \ {p} /\ Cardinality(received'[p]) >= N - 1
        BY <2>1, <2>3, <3>2 DEF HeardInv
      <4>2. received'[p] = Peers \ {p}
        <5> DEFINE S == received'[p]
        <5>1. S \in SUBSET (Peers \ {p}) /\ Cardinality(S) >= N - 1
          BY <4>1 DEF TypeOK
        <5>. HIDE DEF S
        <5>2. S = Peers \ {p}
          BY <5>1, HeardFromAll
        <5>. QED  BY <5>2 DEF S
      <4>3. started = Peers
        BY <2>1, <4>1, <4>2 DEF TypeOK
      <4>. QED  BY <2>1, <4>3 DEF ReadyMeansStarted
    <3>. QED  BY <1>6, <3>1, <3>2 DEF Discover
  <2>. QED  BY <2>1, <2>2, <2>3, <2>4
<1>7. CASE UNCHANGED vars
  BY <1>7 DEF vars, RunsInv, LearnedInv, HeardInv, ReadyMeansStarted, Runs
<1>. QED  BY <1>1, <1>2, <1>4, <1>5, <1>6, <1>7 DEF Next, Loop, Deliver, Lose

(***************************************************************************)
(* A peer that finds its own name in its hosts file prints READY only when *)
(* every peer has started, whatever is lost and whoever gets its address.  *)
(***************************************************************************)
THEOREM ReadyIsSafe == ASSUME OwnName = Peers PROVE Spec => []ReadyMeansStarted
<1>1. Init => IInv
  BY FS_EmptySet, HeartbeatsAssumption
  DEF Init, IInv, RunsInv, Runs, LearnedInv, HeardInv, ReadyMeansStarted, Unknown
<1>2. TypeOK /\ IInv /\ [Next]_vars => IInv'
  BY InvStep
<1>3. IInv => ReadyMeansStarted
  BY DEF IInv
<1>. QED  BY <1>1, <1>2, <1>3, TypeCorrect, PTL DEF Spec
=============================================================================
