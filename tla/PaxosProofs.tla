----------------------------- MODULE PaxosProofs -----------------------------
(***************************************************************************)
(* Proofs about Paxos, for any proposers, acceptors, roles, values and     *)
(* faulty acceptors that satisfy the assumptions of Paxos.tla.             *)
(*                                                                         *)
(* Agreement is not inductive.  The argument is Lamport's: an accept is    *)
(* only sent for a value that is safe at its number (SafeAt), which is     *)
(* kept by what the acceptors promise and which contradicts a different    *)
(* value chosen under a lower number.  IInv adds what ties this to the     *)
(* program: that an answer to a prepare reports the last accepted value,   *)
(* that an acceptor answers a number once, that a bucket of answers has    *)
(* one value, and that what the proposers stored was really sent.          *)
(***************************************************************************)
EXTENDS Paxos, TLAPS

Proposed == {ProposedValue[p] : p \in Proposers}

Ack(p, a, n, v) == [type |-> "prepare_ack", proposer |-> p, acceptor |-> a,
                    num |-> n, value |-> v]

AcceptAck(p, a, n, v) == [type |-> "accept_ack", proposer |-> p,
                          acceptor |-> a, num |-> n, value |-> v]

VotedFor(a, n, v) == [num |-> n, value |-> v] \in votes[a]

IsQuorum(Q) == \E p \in Proposers : Q \subseteq AcceptorsFor[p] /\ IsMajority(Q, p)

\* Acceptor a has not accepted number n, and never will.
WontVote(a, n) == minProposal[a] > n /\ \A e \in votes[a] : e.num # n

\* No value but v is chosen, or can still be chosen, under a number below n.
SafeAt(n, v) ==
  \A c \in Proposers : c < n =>
    \E Q \in SUBSET Acceptors :
      IsQuorum(Q) /\ \A a \in Q : VotedFor(a, c, v) \/ WontVote(a, c)

\* The answers that made p propose v: one bucket, of a majority, with one value.
Evidence(p, v) ==
  \E S \in SUBSET AcceptorsFor[p], n \in Proposers, w \in Value \cup {None} :
    /\ IsMajority(S, p)
    /\ \A a \in S : Ack(p, a, n, w) \in sent
    /\ v = IF w = None THEN ProposedValue[p] ELSE w

-----------------------------------------------------------------------------
StartedInv ==
  /\ \A p \in Proposers :
       prepareTo[p] # {} \/ chosen[p] # None => currentProposal[p] = p
  /\ \A m \in sent : currentProposal[m.proposer] = m.proposer

RolesInv ==
  /\ \A p \in Proposers : prepareTo[p] \subseteq AcceptorsFor[p]
  /\ \A m \in sent : m.acceptor \in AcceptorsFor[m.proposer]

NumInv == \A m \in sent : m.type # "prepare_ack" => m.num = m.proposer

ValidInv ==
  /\ \A m \in sent : m.value \in Proposed \cup {None}
  /\ \A a \in Acceptors : acceptedValue[a] \in Proposed \cup {None}

AcceptorInv ==
  \A a \in Acceptors :
    /\ acceptedNum[a] <= minProposal[a]
    /\ \A e \in votes[a] : e.num <= acceptedNum[a]
    /\ acceptedValue[a] = None => votes[a] = {}
    /\ acceptedValue[a] # None => VotedFor(a, acceptedNum[a], acceptedValue[a])

VotesInv ==
  \A a \in Acceptors : \A e \in votes[a] :
    \E m \in sent : m.type = "accept" /\ m.num = e.num /\ m.value = e.value

\* Acceptor m.acceptor stands by the answer m to the prepare m.proposer.
AckHolds(m) ==
  /\ m.proposer <= minProposal[m.acceptor]
  /\ m.value = None =>
       /\ m.num = m.proposer
       /\ \A e \in votes[m.acceptor] : e.num >= m.proposer
  /\ m.value # None =>
       /\ m.num < m.proposer
       /\ VotedFor(m.acceptor, m.num, m.value)
       /\ \A e \in votes[m.acceptor] : e.num <= m.num \/ e.num >= m.proposer

AckInv == \A m \in sent : m.type = "prepare_ack" => AckHolds(m)

OneAckInv ==
  \A m, n \in sent :
    /\ m.type = "prepare_ack" /\ n.type = "prepare_ack"
    /\ m.proposer = n.proposer /\ m.acceptor = n.acceptor
    => m = n

AcceptHolds(m) ==
  /\ m.value \in Value
  /\ Evidence(m.proposer, m.value)
  /\ SafeAt(m.num, m.value)

AcceptInv == \A m \in sent : m.type = "accept" => AcceptHolds(m)

AcceptAckInv ==
  \A m \in sent : m.type = "accept_ack" => VotedFor(m.acceptor, m.num, m.value)

ResponsesInv ==
  \A p \in Proposers :
    /\ \A r \in prepareResponses[p] :
         Ack(p, r.acceptor, r.num, r.value) \in sent
    /\ \A r \in acceptResponses[p] :
         AcceptAck(p, r.acceptor, r.num, r.value) \in sent

ChosenInv ==
  \A p \in Proposers : chosen[p] # None => AcceptedByMajority(p, chosen[p])

IInv ==
  /\ TypeOK
  /\ StartedInv
  /\ RolesInv
  /\ NumInv
  /\ ValidInv
  /\ AcceptorInv
  /\ VotesInv
  /\ AckInv
  /\ OneAckInv
  /\ AcceptInv
  /\ AcceptAckInv
  /\ ResponsesInv
  /\ ChosenInv

-----------------------------------------------------------------------------
(***************************************************************************)
(* What every step of every peer keeps: messages and acceptances are never *)
(* withdrawn, promises never shrink, and an acceptor accepts no number     *)
(* below its promise (handlePrepare, handleAccept).                        *)
(***************************************************************************)
Monotone ==
  /\ sent \subseteq sent'
  /\ \A a \in Acceptors :
       /\ minProposal[a] <= minProposal'[a]
       /\ votes[a] \subseteq votes'[a]
       /\ \A e \in votes'[a] : e \in votes[a] \/ e.num >= minProposal[a]

\* The numbers of the roles proposer<n> are positive.
LEMMA ProposerNumbers ==
  /\ \A p \in Proposers : p \in Nat /\ p > 0
  /\ Proposers \cup {0} \subseteq Nat
  BY ProposersAssumption

\* The answers behind an accept stay sent.
LEMMA EvidenceStable ==
  ASSUME Monotone, NEW p \in Proposers, NEW v, Evidence(p, v)
  PROVE  Evidence(p, v)'
  BY DEF Monotone, Evidence

\* A value that is safe at a number stays safe: an acceptor that will not
\* vote under c has promised more, and accepts nothing below its promise.
LEMMA SafeAtStable ==
  ASSUME TypeOK, TypeOK', Monotone,
         NEW n \in Proposers, NEW v, SafeAt(n, v)
  PROVE  SafeAt(n, v)'
<1> SUFFICES ASSUME NEW c \in Proposers, c < n
             PROVE  \E Q \in SUBSET Acceptors :
                      IsQuorum(Q) /\
                        \A a \in Q : VotedFor(a, c, v)' \/ WontVote(a, c)'
  BY DEF SafeAt, IsQuorum
<1>1. PICK Q \in SUBSET Acceptors :
        IsQuorum(Q) /\ \A a \in Q : VotedFor(a, c, v) \/ WontVote(a, c)
  BY DEF SafeAt
<1>2. ASSUME NEW a \in Q, VotedFor(a, c, v) PROVE VotedFor(a, c, v)'
  BY <1>2 DEF Monotone, VotedFor
<1>3. ASSUME NEW a \in Q, WontVote(a, c) PROVE WontVote(a, c)'
  <2>1. minProposal[a] \in Nat /\ minProposal'[a] \in Nat /\ c \in Nat
    BY ProposerNumbers DEF TypeOK
  <2>2. minProposal'[a] > c
    BY <1>3, <2>1 DEF Monotone, WontVote
  <2>3. \A e \in votes'[a] : e.num # c
    BY <1>3, <2>1 DEF Monotone, WontVote
  <2> QED
    BY <2>2, <2>3 DEF WontVote
<1> QED
  BY <1>1, <1>2, <1>3

\* What a majority has accepted it has accepted for ever.
LEMMA AcceptedStable ==
  ASSUME Monotone, RolesAssumption, NEW p \in Proposers, NEW v,
         AcceptedByMajority(p, v)
  PROVE  AcceptedByMajority(p, v)'
  BY DEF Monotone, AcceptedByMajority, RolesAssumption

(***************************************************************************)
(* All accepts under one number carry one value: they rest on majorities   *)
(* of answers, and an acceptor in both gave one answer.                    *)
(***************************************************************************)
LEMMA OneValue ==
  ASSUME RolesAssumption, OneAckInv, AcceptInv, NumInv, sent \subseteq Message
  PROVE  OneValuePerNumber
<1> SUFFICES ASSUME NEW m \in sent, NEW n \in sent,
                    m.type = "accept", n.type = "accept", m.num = n.num
             PROVE  m.value = n.value
  BY DEF OneValuePerNumber
<1> DEFINE p == m.proposer
<1>1. p \in Proposers /\ n.proposer = p
  BY DEF NumInv, Message
<1>2. PICK S \in SUBSET AcceptorsFor[p], i \in Proposers,
           v \in Value \cup {None} :
        /\ IsMajority(S, p)
        /\ \A a \in S : Ack(p, a, i, v) \in sent
        /\ m.value = IF v = None THEN ProposedValue[p] ELSE v
  BY DEF AcceptInv, AcceptHolds, Evidence
<1>3. PICK T \in SUBSET AcceptorsFor[p], j \in Proposers,
           w \in Value \cup {None} :
        /\ IsMajority(T, p)
        /\ \A a \in T : Ack(p, a, j, w) \in sent
        /\ n.value = IF w = None THEN ProposedValue[p] ELSE w
  BY <1>1 DEF AcceptInv, AcceptHolds, Evidence
<1>4. PICK a \in S \cap T : TRUE
  BY <1>1, <1>2, <1>3, QuorumAssumption
<1>5. Ack(p, a, i, v) = Ack(p, a, j, w)
  BY <1>2, <1>3, <1>4 DEF OneAckInv, Ack
<1>6. v = w
  BY <1>5 DEF Ack
<1> QED
  BY <1>2, <1>3, <1>6

(***************************************************************************)
(* An acceptance under number n is of the value of the accepts numbered n. *)
(***************************************************************************)
LEMMA VoteValue ==
  ASSUME VotesInv, OneValuePerNumber,
         NEW a \in Acceptors, NEW b \in Acceptors,
         NEW e \in votes[a], NEW f \in votes[b], e.num = f.num
  PROVE  e.value = f.value
  BY DEF VotesInv, OneValuePerNumber

-----------------------------------------------------------------------------
\* Nothing has happened yet.
LEMMA InitInv == Init => IInv
<1> SUFFICES ASSUME Init PROVE IInv
  OBVIOUS
<1> USE DEF Init
<1>1. TypeOK
  BY ProposersAssumption, RolesAssumption DEF TypeOK
<1>2. StartedInv /\ RolesInv /\ NumInv /\ ValidInv
  BY DEF StartedInv, RolesInv, NumInv, ValidInv
<1>3. AcceptorInv
  BY DEF AcceptorInv
<1>4. VotesInv /\ AckInv /\ OneAckInv /\ AcceptInv /\ AcceptAckInv
  BY DEF VotesInv, AckInv, OneAckInv, AcceptInv, AcceptAckInv
<1>5. ResponsesInv /\ ChosenInv
  BY DEF ResponsesInv, ChosenInv
<1> QED
  BY <1>1, <1>2, <1>3, <1>4, <1>5 DEF IInv

-----------------------------------------------------------------------------
(***************************************************************************)
(* The part of IInv that every step keeps for what is already there, by    *)
(* Monotone alone.                                                         *)
(***************************************************************************)
Carried ==
  /\ \A m \in sent : m.type = "prepare_ack" => AckHolds(m)'
  /\ \A m \in sent : m.type = "accept" => AcceptHolds(m)'
  /\ \A m \in sent : m.type = "accept_ack" =>
       VotedFor(m.acceptor, m.num, m.value)'
  /\ \A p \in Proposers, v \in Value : chosen[p] = v => AcceptedByMajority(p, v)'
  /\ \A a \in Acceptors : \A e \in votes[a] :
       \E m \in sent' : m.type = "accept" /\ m.num = e.num /\ m.value = e.value

\* A step that only adds messages, acceptances and promises keeps all that
\* was said about the messages already sent.
LEMMA CarriedByMonotone ==
  ASSUME IInv, TypeOK', Monotone
  PROVE  Carried
<1> USE DEF IInv
<1>1. ASSUME NEW m \in sent, m.type = "prepare_ack" PROVE AckHolds(m)'
  <2>1. m.acceptor \in Acceptors /\ m.proposer \in Proposers
    BY DEF TypeOK, Message
  <2>2. /\ minProposal[m.acceptor] \in Nat /\ minProposal'[m.acceptor] \in Nat
        /\ m.proposer \in Nat
    BY <2>1, ProposerNumbers DEF TypeOK
  <2>3. AckHolds(m)
    BY <1>1 DEF AckInv
  <2>4. votes'[m.acceptor] \subseteq Vote
    BY <2>1 DEF TypeOK
  <2>5. \A e \in votes'[m.acceptor] : e.num \in Nat
    BY <2>4, ProposerNumbers DEF Vote
  <2>6. \A e \in votes'[m.acceptor] :
          e \in votes[m.acceptor] \/ e.num >= m.proposer
    BY <2>1, <2>2, <2>3, <2>5 DEF Monotone, AckHolds
  <2>7. votes[m.acceptor] \subseteq votes'[m.acceptor]
    BY <2>1 DEF Monotone
  <2>8. m.proposer <= minProposal'[m.acceptor]
    BY <2>1, <2>2, <2>3 DEF Monotone, AckHolds
  <2> QED
    BY <2>3, <2>6, <2>7, <2>8 DEF AckHolds, VotedFor
<1>2. ASSUME NEW m \in sent, m.type = "accept" PROVE AcceptHolds(m)'
  <2>1. m.num \in Proposers /\ m.proposer \in Proposers
    BY DEF TypeOK, Message
  <2>2. AcceptHolds(m)
    BY <1>2 DEF AcceptInv
  <2> QED
    BY <2>1, <2>2, EvidenceStable, SafeAtStable DEF AcceptHolds
<1>3. ASSUME NEW m \in sent, m.type = "accept_ack"
      PROVE  VotedFor(m.acceptor, m.num, m.value)'
  <2>1. m.acceptor \in Acceptors
    BY DEF TypeOK, Message
  <2> QED
    BY <1>3, <2>1 DEF AcceptAckInv, VotedFor, Monotone
<1>4. ASSUME NEW p \in Proposers, NEW v \in Value, chosen[p] = v
      PROVE  AcceptedByMajority(p, v)'
  <2>1. AcceptedByMajority(p, v)
    BY <1>4, ValueAssumption DEF ChosenInv
  <2> QED
    BY <2>1, AcceptedStable, RolesAssumption
<1>5. ASSUME NEW a \in Acceptors, NEW e \in votes[a]
      PROVE  \E m \in sent' :
               m.type = "accept" /\ m.num = e.num /\ m.value = e.value
  BY DEF VotesInv, Monotone
<1> QED
  BY <1>1, <1>2, <1>3, <1>4, <1>5 DEF Carried

-----------------------------------------------------------------------------
(***************************************************************************)
(* The steps of a proposer.  startPaxos only touches the proposer's own    *)
(* fields: it has stored and chosen nothing before.                        *)
(***************************************************************************)
LEMMA StartPaxosStep ==
  ASSUME IInv, NEW p \in Proposers, StartPaxos(p)
  PROVE  IInv' /\ chosen' = chosen
<1> USE ProposerNumbers DEF IInv, StartPaxos, acceptorVars
<1>1. chosen' = chosen
  BY DEF StartedInv, TypeOK
<1>2. TypeOK'
  <2>1. currentProposal'[p] = p
    BY DEF TypeOK
  <2>2. /\ currentProposal' \in [Proposers -> Nat]
        /\ \A q \in Proposers : currentProposal'[q] \in {q - 1, q}
    BY <2>1 DEF TypeOK
  <2>3. prepareTo' \in [Proposers -> SUBSET Acceptors]
    BY RolesAssumption DEF TypeOK
  <2>4. /\ prepareResponses' \in [Proposers -> SUBSET Response]
        /\ acceptResponses' \in [Proposers -> SUBSET Response]
        /\ acceptSent' \in [Proposers -> SUBSET Proposers]
    BY DEF TypeOK
  <2> QED
    BY <1>1, <2>2, <2>3, <2>4 DEF TypeOK
<1>3. Monotone
  <2>1. minProposal \in [Acceptors -> Nat]
    BY DEF TypeOK
  <2> QED
    BY <2>1 DEF Monotone
<1>4. Carried
  BY <1>2, <1>3, CarriedByMonotone
<1>5. StartedInv'
  <2>1. currentProposal'[p] = p
    BY DEF TypeOK
  <2>2. \A q \in Proposers \ {p} : currentProposal'[q] = currentProposal[q]
                                  /\ prepareTo'[q] = prepareTo[q]
    BY DEF TypeOK
  <2>3. \A m \in sent : m.proposer \in Proposers
    BY DEF TypeOK, Message
  <2> QED
    BY <1>1, <2>1, <2>2, <2>3 DEF StartedInv
<1>6. RolesInv'
  BY DEF RolesInv, TypeOK
<1>7. NumInv' /\ ValidInv' /\ AcceptorInv' /\ OneAckInv'
  BY DEF NumInv, ValidInv, AcceptorInv, OneAckInv, VotedFor
<1>8. VotesInv' /\ AckInv' /\ AcceptInv' /\ AcceptAckInv' /\ ChosenInv'
  <2>1. VotesInv'
    BY DEF VotesInv
  <2>2. AckInv' /\ AcceptInv' /\ AcceptAckInv'
    BY <1>4 DEF Carried, AckInv, AcceptInv, AcceptAckInv
  <2>3. ChosenInv'
    BY <1>1, <1>4 DEF Carried, ChosenInv, TypeOK
  <2> QED
    BY <2>1, <2>2, <2>3
<1>9. ResponsesInv'
  BY DEF ResponsesInv, TypeOK
<1> QED
  BY <1>1, <1>2, <1>5, <1>6, <1>7, <1>8, <1>9

(***************************************************************************)
(* An iteration of the prepare broadcast sends one prepare.                *)
(***************************************************************************)
LEMMA SendPrepareStep ==
  ASSUME IInv, NEW p \in Proposers, NEW a \in Acceptors, SendPrepare(p, a)
  PROVE  IInv' /\ chosen' = chosen
<1> DEFINE msg == [type |-> "prepare", proposer |-> p, acceptor |-> a,
                   num |-> currentProposal[p], value |-> None]
<1> USE DEF IInv
<1>1. currentProposal[p] = p /\ a \in AcceptorsFor[p]
  BY DEF SendPrepare, StartedInv, RolesInv
<1>2. msg \in Message
  BY <1>1 DEF Message
<1>3. /\ sent' \in {sent, sent \cup {msg}}
      /\ prepareTo' = [prepareTo EXCEPT ![p] = @ \ {a}]
      /\ UNCHANGED <<currentProposal, prepareResponses, acceptSent,
                     acceptResponses, chosen, acceptorVars, status, received>>
  BY DEF SendPrepare
<1>4. sent \subseteq sent' /\ sent' \subseteq sent \cup {msg}
  BY <1>3
<1> HIDE DEF msg
<1> USE <1>3, <1>4 DEF acceptorVars
<1>5. TypeOK'
  BY <1>2 DEF TypeOK
<1>6. Monotone
  <2>1. minProposal \in [Acceptors -> Nat]
    BY ProposerNumbers DEF TypeOK
  <2> QED
    BY <2>1 DEF Monotone
<1>7. Carried
  BY <1>5, <1>6, CarriedByMonotone
<1>8. StartedInv'
  <2>1. currentProposal[msg.proposer] = msg.proposer
    BY <1>1 DEF msg
  <2>2. \A q \in Proposers : prepareTo'[q] \subseteq prepareTo[q]
    BY DEF TypeOK
  <2> QED
    BY <2>1, <2>2 DEF StartedInv
<1>9. RolesInv'
  <2>1. msg.acceptor \in AcceptorsFor[msg.proposer]
    BY <1>1 DEF msg
  <2> QED
    BY <2>1 DEF RolesInv, TypeOK
<1>10. NumInv' /\ ValidInv'
  <2>1. msg.num = msg.proposer /\ msg.value = None
    BY <1>1 DEF msg
  <2> QED
    BY <2>1 DEF NumInv, ValidInv
<1>11. AcceptorInv' /\ VotesInv'
  BY <1>7 DEF AcceptorInv, VotedFor, Carried, VotesInv
<1>12. AckInv' /\ OneAckInv' /\ AcceptInv' /\ AcceptAckInv'
  <2>1. msg.type = "prepare"
    BY DEF msg
  <2> QED
    BY <1>7, <2>1 DEF Carried, AckInv, OneAckInv, AcceptInv, AcceptAckInv
<1>13. ResponsesInv' /\ ChosenInv'
  BY <1>7 DEF ResponsesInv, Carried, ChosenInv, TypeOK
<1> QED
  BY <1>5, <1>8, <1>9, <1>10, <1>11, <1>12, <1>13

-----------------------------------------------------------------------------
(***************************************************************************)
(* handlePrepare: the one answer an acceptor gives to a number reports its *)
(* last acceptance, and its promise covers everything below the number.    *)
(***************************************************************************)
LEMMA HandlePrepareStep ==
  ASSUME IInv, NEW a \in Acceptors, HandlePrepare(a)
  PROVE  IInv' /\ chosen' = chosen
<1> USE DEF IInv
<1>1. PICK m \in sent :
        /\ m.type = "prepare" /\ m.acceptor = a
        /\ Promise(a, m) \/ IgnorePrepare(a, m)
        /\ received' = received \cup {m}
        /\ UNCHANGED <<proposerVars, acceptedNum, acceptedValue, votes,
                       choseLog, status>>
  BY DEF HandlePrepare, Pending
<1>2. /\ m \in Message /\ m.num = m.proposer /\ m.proposer \in Proposers
      /\ a \in AcceptorsFor[m.proposer]
      /\ currentProposal[m.proposer] = m.proposer
  BY <1>1 DEF TypeOK, NumInv, RolesInv, StartedInv, Message
<1> PICK ack : ack = PrepareAck(a, m)
  OBVIOUS
<1>3. acceptedValue[a] # None =>
        /\ acceptedNum[a] \in Proposers
        /\ VotedFor(a, acceptedNum[a], acceptedValue[a])
  <2> SUFFICES ASSUME acceptedValue[a] # None
               PROVE  /\ acceptedNum[a] \in Proposers
                      /\ VotedFor(a, acceptedNum[a], acceptedValue[a])
    OBVIOUS
  <2>1. VotedFor(a, acceptedNum[a], acceptedValue[a])
    BY DEF AcceptorInv
  <2> QED
    BY <2>1 DEF VotedFor, TypeOK, Vote
<1>4. /\ ack \in Message /\ ack.type = "prepare_ack"
      /\ ack.acceptor = a /\ ack.proposer = m.proposer
      /\ ack.value = acceptedValue[a]
      /\ ack.num = IF acceptedValue[a] # None THEN acceptedNum[a] ELSE m.num
  BY <1>2, <1>3 DEF PrepareAck, PrepareAckNum, Message, TypeOK
<1>5. CASE IgnorePrepare(a, m)
  <2> USE <1>1, <1>5 DEF IgnorePrepare, proposerVars
  <2>1. TypeOK'
    BY DEF TypeOK
  <2>2. StartedInv' /\ RolesInv' /\ NumInv' /\ ValidInv' /\ OneAckInv'
    BY DEF StartedInv, RolesInv, NumInv, ValidInv, OneAckInv
  <2>3. AcceptorInv' /\ VotesInv' /\ ResponsesInv'
    BY DEF AcceptorInv, VotedFor, VotesInv, ResponsesInv
  <2>4. AckInv' /\ AcceptAckInv' /\ ChosenInv'
    BY DEF AckInv, AckHolds, VotedFor, AcceptAckInv, ChosenInv,
           AcceptedByMajority
  <2>5. AcceptInv'
    BY SMTT(30) DEF AcceptInv, AcceptHolds, Evidence, SafeAt, VotedFor, WontVote
  <2> QED
    BY <2>1, <2>2, <2>3, <2>4, <2>5
<1>6. CASE Promise(a, m)
  <2>1. /\ m.num > minProposal[a]
        /\ minProposal' = [minProposal EXCEPT ![a] = m.num]
        /\ hasChosen' = [hasChosen EXCEPT ![a] = FALSE]
        /\ connected' = [connected EXCEPT ![a] = @ \cup {m.proposer}]
        /\ sent' = sent \cup {ack}
    BY <1>6 DEF Promise
  <2> USE <1>1, <2>1 DEF proposerVars
  <2>2. TypeOK'
    BY <1>2, <1>4 DEF TypeOK
  <2>3. minProposal \in [Acceptors -> Nat] /\ m.num \in Nat
    BY <1>2, ProposerNumbers DEF TypeOK
  <2>4. Monotone
    BY <2>3 DEF Monotone
  <2>5. Carried
    BY <2>2, <2>4, CarriedByMonotone
  <2>6. StartedInv' /\ RolesInv' /\ NumInv' /\ ValidInv'
    BY <1>2, <1>4 DEF StartedInv, RolesInv, NumInv, ValidInv
  <2>7. AcceptorInv'
    <3>1. acceptedNum[a] \in Nat
      BY ProposerNumbers DEF TypeOK
    <3> QED
      BY <2>3, <3>1 DEF AcceptorInv, VotedFor
  <2>8. VotesInv'
    BY <2>5 DEF VotesInv, Carried
  <2>9. AckHolds(ack)'
    <3>1. ack.proposer <= minProposal'[ack.acceptor]
      BY <1>2, <1>4, <2>3
    <3>2. CASE acceptedValue[a] = None
      <4>1. votes[a] = {}
        BY <3>2 DEF AcceptorInv
      <4> QED
        BY <1>2, <1>4, <3>1, <3>2, <4>1 DEF AckHolds
    <3>3. CASE acceptedValue[a] # None
      <4>1. acceptedNum[a] \in Nat /\ minProposal[a] \in Nat
        BY ProposerNumbers DEF TypeOK
      <4>2. acceptedNum[a] < m.proposer
        BY <1>2, <2>3, <4>1 DEF AcceptorInv
      <4>3. \A e \in votes[a] : e.num <= acceptedNum[a]
        BY DEF AcceptorInv
      <4> QED
        BY <1>3, <1>4, <3>1, <3>3, <4>2, <4>3 DEF AckHolds, VotedFor
    <3> QED
      BY <3>2, <3>3
  <2>10. AckInv'
    BY <2>5, <2>9 DEF AckInv, Carried
  <2>11. OneAckInv'
    <3>1. ASSUME NEW n \in sent, n.type = "prepare_ack",
                 n.proposer = m.proposer, n.acceptor = a
          PROVE  FALSE
      <4>1. n.proposer <= minProposal[a]
        BY <3>1 DEF AckInv, AckHolds
      <4> QED
        BY <1>2, <2>3, <3>1, <4>1
    <3> QED
      BY <1>4, <3>1 DEF OneAckInv
  <2>12. AcceptInv' /\ AcceptAckInv'
    BY <1>4, <2>5 DEF AcceptInv, AcceptAckInv, Carried
  <2>13. ResponsesInv' /\ ChosenInv'
    BY <2>5 DEF ResponsesInv, ChosenInv, Carried, TypeOK
  <2> QED
    BY <2>2, <2>6, <2>7, <2>8, <2>10, <2>11, <2>12, <2>13
<1> QED
  BY <1>1, <1>5, <1>6 DEF proposerVars

(***************************************************************************)
(* handleAccept: what is accepted is the value of an accept, under a       *)
(* number no lower than the promise.                                       *)
(***************************************************************************)
LEMMA HandleAcceptStep ==
  ASSUME IInv, NEW a \in Acceptors, HandleAccept(a)
  PROVE  IInv' /\ chosen' = chosen
<1> USE DEF IInv
<1>1. PICK m \in sent :
        /\ m.type = "accept" /\ m.acceptor = a
        /\ Accept(a, m) \/ IgnoreAccept(a, m)
        /\ received' = received \cup {m}
        /\ UNCHANGED <<proposerVars, connected, status>>
  BY DEF HandleAccept, Pending
<1>2. /\ m \in Message /\ m.num = m.proposer /\ m.proposer \in Proposers
      /\ a \in AcceptorsFor[m.proposer] /\ m.value \in Value
      /\ m.value \in Proposed
      /\ currentProposal[m.proposer] = m.proposer
  BY <1>1, ValueAssumption
     DEF TypeOK, NumInv, RolesInv, StartedInv, Message, AcceptInv,
         AcceptHolds, ValidInv
<1> DEFINE ack == AcceptAck(m.proposer, a, m.num, m.value)
<1>3. /\ ack \in Message /\ ack.type = "accept_ack"
      /\ ack.acceptor = a /\ ack.proposer = m.proposer
      /\ ack.value = m.value /\ ack.num = m.num
  BY <1>2 DEF AcceptAck, Message
<1>4. CASE IgnoreAccept(a, m)
  <2> USE <1>1, <1>4 DEF IgnoreAccept, proposerVars
  <2>1. TypeOK'
    BY DEF TypeOK
  <2>2. StartedInv' /\ RolesInv' /\ NumInv' /\ ValidInv' /\ OneAckInv'
    BY DEF StartedInv, RolesInv, NumInv, ValidInv, OneAckInv
  <2>3. AcceptorInv' /\ VotesInv' /\ ResponsesInv'
    BY DEF AcceptorInv, VotedFor, VotesInv, ResponsesInv
  <2>4. AckInv' /\ AcceptAckInv' /\ ChosenInv'
    BY DEF AckInv, AckHolds, VotedFor, AcceptAckInv, ChosenInv,
           AcceptedByMajority
  <2>5. AcceptInv'
    BY DEF AcceptInv, AcceptHolds, Evidence, SafeAt, VotedFor, WontVote
  <2> QED
    BY <2>1, <2>2, <2>3, <2>4, <2>5
<1>5. CASE Accept(a, m)
  <2>1. /\ m.num >= minProposal[a]
        /\ minProposal' = [minProposal EXCEPT ![a] = m.num]
        /\ acceptedNum' = [acceptedNum EXCEPT ![a] = m.num]
        /\ acceptedValue' = [acceptedValue EXCEPT ![a] = m.value]
        /\ votes' = [votes EXCEPT ![a] =
                        @ \cup {[num |-> m.num, value |-> m.value]}]
        /\ sent \subseteq sent' /\ sent' \subseteq sent \cup {ack}
    BY <1>5 DEF Accept, MayAccept, ack, AcceptAck
  <2>2. /\ choseLog' \in [Acceptors -> SUBSET Proposers]
        /\ hasChosen' \in [Acceptors -> BOOLEAN]
    BY <1>2, <1>5 DEF Accept, TypeOK
  <2> HIDE DEF ack
  <2> USE <1>1, <2>1 DEF proposerVars
  <2>3. TypeOK'
    <3>1. votes' \in [Acceptors -> SUBSET Vote]
      BY <1>2 DEF TypeOK, Vote
    <3>2. sent' \subseteq Message /\ received' \subseteq sent'
      BY <1>3 DEF TypeOK
    <3> QED
      BY <1>2, <2>2, <3>1, <3>2 DEF TypeOK
  <2>4. /\ minProposal \in [Acceptors -> Nat] /\ m.num \in Nat
        /\ acceptedNum \in [Acceptors -> Nat]
    BY <1>2, ProposerNumbers DEF TypeOK
  <2>5. votes'[a] = votes[a] \cup {[num |-> m.num, value |-> m.value]}
    BY DEF TypeOK
  <2>6. \A b \in Acceptors \ {a} : votes'[b] = votes[b]
    BY DEF TypeOK
  <2>7. Monotone
    <3>1. \A b \in Acceptors : minProposal[b] <= minProposal'[b]
      BY <2>4
    <3> QED
      BY <2>4, <2>5, <2>6, <3>1 DEF Monotone
  <2>8. Carried
    BY <2>3, <2>7, CarriedByMonotone
  <2>9. StartedInv' /\ RolesInv' /\ NumInv'
    BY <1>2, <1>3 DEF StartedInv, RolesInv, NumInv
  <2>10. ValidInv'
    <3>1. \A b \in Acceptors : acceptedValue'[b] \in Proposed \cup {None}
      BY <1>2 DEF ValidInv, TypeOK
    <3> QED
      BY <1>2, <1>3, <3>1 DEF ValidInv
  <2>11. AcceptorInv'
    <3>1. m.value # None
      BY <1>2, ValueAssumption
    <3>2. /\ acceptedNum'[a] = m.num /\ minProposal'[a] = m.num
          /\ acceptedValue'[a] = m.value
      BY DEF TypeOK
    <3>3. \A e \in votes[a] : e.num \in Nat
      BY ProposerNumbers DEF TypeOK, Vote
    <3>4. \A e \in votes'[a] : e.num <= m.num
      BY <2>4, <2>5, <3>3 DEF AcceptorInv
    <3>5. \A b \in Acceptors \ {a} :
            /\ acceptedNum'[b] = acceptedNum[b]
            /\ minProposal'[b] = minProposal[b]
            /\ acceptedValue'[b] = acceptedValue[b]
      BY DEF TypeOK
    <3> QED
      BY <2>4, <2>5, <2>6, <3>1, <3>2, <3>4, <3>5 DEF AcceptorInv, VotedFor
  <2>12. VotesInv'
    BY <2>5, <2>6, <2>8 DEF VotesInv, Carried
  <2>13. AckInv' /\ OneAckInv' /\ AcceptInv'
    BY <1>3, <2>8 DEF AckInv, OneAckInv, AcceptInv, Carried
  <2>14. AcceptAckInv'
    <3>1. VotedFor(a, m.num, m.value)'
      BY <2>5 DEF VotedFor
    <3> QED
      BY <1>3, <2>8, <3>1 DEF AcceptAckInv, Carried
  <2>15. ResponsesInv' /\ ChosenInv'
    BY <2>8 DEF ResponsesInv, ChosenInv, Carried, TypeOK
  <2> QED
    BY <2>3, <2>9, <2>10, <2>11, <2>12, <2>13, <2>14, <2>15
<1> QED
  BY <1>1, <1>4, <1>5 DEF proposerVars

-----------------------------------------------------------------------------
(***************************************************************************)
(* A majority of answers that carry one number n and one value makes that  *)
(* value safe: below n because n was itself safe, at n because they all    *)
(* accepted it, above n because they accepted nothing there and have       *)
(* promised p (handlePrepare, handlePrepareAck).                           *)
(***************************************************************************)
LEMMA BucketIsSafe ==
  ASSUME IInv, NEW p \in Proposers, NEW n \in Proposers,
         NEW w \in Value \cup {None},
         NEW S \in SUBSET AcceptorsFor[p], IsMajority(S, p),
         \A a \in S : Ack(p, a, n, w) \in sent
  PROVE  SafeAt(p, IF w = None THEN ProposedValue[p] ELSE w)
<1> USE DEF IInv
<1>1. IsQuorum(S) /\ S \subseteq Acceptors
  BY RolesAssumption DEF IsQuorum
<1>2. PICK b \in S : TRUE
  BY QuorumAssumption
<1>3. p \in Nat /\ n \in Nat
  BY ProposerNumbers
<1>4. \A a \in S : minProposal[a] \in Nat /\ \A e \in votes[a] : e.num \in Nat
  BY <1>1, ProposerNumbers DEF TypeOK, Vote
<1>5. ASSUME NEW a \in S
      PROVE  /\ p <= minProposal[a]
             /\ w = None => n = p /\ \A e \in votes[a] : e.num >= p
             /\ w # None =>
                  /\ n < p
                  /\ VotedFor(a, n, w)
                  /\ \A e \in votes[a] : e.num <= n \/ e.num >= p
  <2>1. AckHolds(Ack(p, a, n, w))
    BY DEF AckInv, Ack
  <2> QED
    BY <2>1 DEF AckHolds, Ack
<1>6. CASE w = None
  <2>1. ASSUME NEW c \in Proposers, c < p, NEW a \in S PROVE WontVote(a, c)
    <3>1. c \in Nat /\ minProposal[a] > c
      BY <1>3, <1>4, <1>5, <2>1, ProposerNumbers
    <3>2. ASSUME NEW e \in votes[a] PROVE e.num # c
      <4>1. e.num \in Nat /\ e.num >= p
        BY <1>4, <1>5, <1>6
      <4> QED
        BY <1>3, <2>1, <3>1, <4>1
    <3> QED
      BY <3>1, <3>2 DEF WontVote
  <2> QED
    BY <1>1, <2>1 DEF SafeAt
<1>7. CASE w # None
  <2>1. SafeAt(n, w)
    <3>1. [num |-> n, value |-> w] \in votes[b]
      BY <1>5, <1>7 DEF VotedFor
    <3>2. PICK m \in sent : m.type = "accept" /\ m.num = n /\ m.value = w
      BY <1>1, <3>1 DEF VotesInv
    <3> QED
      BY <3>2 DEF AcceptInv, AcceptHolds
  <2>2. ASSUME NEW c \in Proposers, c < p, ~(c < n), NEW a \in S
        PROVE  VotedFor(a, c, w) \/ WontVote(a, c)
    <3>1. CASE c = n
      BY <1>5, <1>7, <3>1
    <3>2. CASE c # n
      <4>1. c \in Nat /\ n < c
        BY <1>3, <2>2, <3>2, ProposerNumbers
      <4> QED
        BY <1>3, <1>4, <1>5, <1>7, <2>2, <4>1 DEF WontVote
    <3> QED
      BY <3>1, <3>2
  <2> QED
    BY <1>1, <1>7, <2>1, <2>2 DEF SafeAt
<1> QED
  BY <1>6, <1>7

(***************************************************************************)
(* The responses stored in one bucket carry one value, and the value       *)
(* proposed is theirs, or the proposer's own when they carry none.         *)
(***************************************************************************)
LEMMA BucketValue ==
  ASSUME IInv, NEW p \in Proposers, NEW bucket \in SUBSET Response,
         NEW n \in Proposers, NEW r0 \in bucket,
         \A r \in bucket :
           r.num = n /\ Ack(p, r.acceptor, r.num, r.value) \in sent
  PROVE  /\ \A r \in bucket : r.value = r0.value
         /\ ValueToPropose(p, bucket) =
              IF r0.value = None THEN ProposedValue[p] ELSE r0.value
<1> USE DEF IInv
<1>1. \A r \in bucket : r.acceptor \in Acceptors /\ n \in Nat
  BY ProposerNumbers DEF Response
<1>2. ASSUME NEW r \in bucket
      PROVE  /\ r.value = None => n = p
             /\ r.value # None => n < p /\ VotedFor(r.acceptor, n, r.value)
  <2>1. AckHolds(Ack(p, r.acceptor, n, r.value))
    BY DEF AckInv, Ack
  <2> QED
    BY <2>1 DEF AckHolds, Ack
<1>3. ASSUME NEW r \in bucket PROVE r.value = r0.value
  <2>1. CASE r.value = None \/ r0.value = None
    BY <1>1, <1>2, <2>1, ProposerNumbers
  <2>2. CASE r.value # None /\ r0.value # None
    <3>1. /\ [num |-> n, value |-> r.value] \in votes[r.acceptor]
          /\ [num |-> n, value |-> r0.value] \in votes[r0.acceptor]
      BY <1>2, <2>2 DEF VotedFor
    <3>2. OneValuePerNumber
      BY OneValue, RolesAssumption DEF TypeOK
    <3> QED
      BY <1>1, <3>1, <3>2, VoteValue
  <2> QED
    BY <2>1, <2>2
<1>4. CASE r0.value = None
  BY <1>3, <1>4 DEF ValueToPropose
<1>5. CASE r0.value # None
  <2> DEFINE Top(r) == /\ r.value # None
                       /\ \A t \in bucket : t.value # None => t.num <= r.num
  <2>1. Top(r0)
    BY <1>1, <1>5
  <2>2. (CHOOSE r \in bucket : Top(r)) \in bucket
    BY <2>1
  <2>3. ValueToPropose(p, bucket) = (CHOOSE r \in bucket : Top(r)).value
    BY <1>5 DEF ValueToPropose
  <2> QED
    BY <1>3, <1>5, <2>2, <2>3
<1> QED
  BY <1>3, <1>4, <1>5

(***************************************************************************)
(* handlePrepareAck: an accept goes out only for a safe value.             *)
(***************************************************************************)
LEMMA HandlePrepareAckStep ==
  ASSUME IInv, NEW p \in Proposers, HandlePrepareAck(p)
  PROVE  IInv' /\ chosen' = chosen
<1> USE DEF IInv
<1>1. PICK m \in sent :
        /\ m.type = "prepare_ack" /\ m.proposer = p
        /\ received' = received \cup {m}
        /\ \/ /\ m.num \in acceptSent[p]
              /\ UNCHANGED <<prepareResponses, acceptSent, sent>>
           \/ LET stored == Store(prepareResponses[p], m)
                  bucket == Bucket(stored, m.num)
              IN /\ m.num \notin acceptSent[p]
                 /\ prepareResponses' = [prepareResponses EXCEPT ![p] = stored]
                 /\ \/ /\ IsMajority(Responders(bucket), p)
                       /\ acceptSent' =
                            [acceptSent EXCEPT ![p] = @ \cup {m.num}]
                       /\ BroadcastAccept(p, ValueToPropose(p, bucket))
                    \/ /\ ~IsMajority(Responders(bucket), p)
                       /\ UNCHANGED <<acceptSent, sent>>
        /\ UNCHANGED <<currentProposal, prepareTo, acceptResponses, chosen,
                       acceptorVars, status>>
  BY DEF HandlePrepareAck, Pending
<1> PICK stored : stored = Store(prepareResponses[p], m)
  OBVIOUS
<1> PICK bucket : bucket = Bucket(stored, m.num)
  OBVIOUS
<1> PICK v : v = ValueToPropose(p, bucket)
  OBVIOUS
<1>2. /\ m \in Message /\ m.num \in Proposers /\ m.acceptor \in Acceptors
      /\ m = Ack(p, m.acceptor, m.num, m.value)
      /\ currentProposal[p] = p
  BY <1>1 DEF TypeOK, StartedInv, Message, Ack
<1>3. /\ stored \in SUBSET Response
      /\ \A r \in stored : Ack(p, r.acceptor, r.num, r.value) \in sent
  <2>1. prepareResponses[p] \in SUBSET Response
    BY DEF TypeOK
  <2>2. [acceptor |-> m.acceptor, num |-> m.num, value |-> m.value] \in Response
    BY <1>2 DEF Message, Response
  <2>3. \A r \in prepareResponses[p] :
          Ack(p, r.acceptor, r.num, r.value) \in sent
    BY DEF ResponsesInv
  <2> QED
    BY <1>2, <2>1, <2>2, <2>3 DEF Store
<1>4. /\ bucket \in SUBSET Response
      /\ \A r \in bucket :
           r.num = m.num /\ Ack(p, r.acceptor, r.num, r.value) \in sent
  BY <1>3 DEF Bucket
<1>5. PICK r0 \in bucket : r0.value = m.value
  <2>1. [acceptor |-> m.acceptor, num |-> m.num, value |-> m.value] \in bucket
    BY DEF Store, Bucket
  <2> QED
    BY <2>1
<1>6. /\ \A r \in bucket : r.value = m.value
      /\ v = IF m.value = None THEN ProposedValue[p] ELSE m.value
  BY <1>2, <1>4, <1>5, BucketValue
<1>7. /\ v \in Value /\ v \in Proposed
      /\ m.value \in Value \cup {None}
  BY <1>1, <1>2, <1>6, ValueAssumption DEF ValidInv, Proposed, Message
<1>8. ASSUME IsMajority(Responders(bucket), p)
      PROVE  Evidence(p, v) /\ SafeAt(p, v)
  <2> DEFINE S == Responders(bucket)
  <2>1. \A a \in S : Ack(p, a, m.num, m.value) \in sent
    BY <1>4, <1>6 DEF Responders
  <2>2. S \in SUBSET AcceptorsFor[p]
    <3>1. ASSUME NEW a \in S PROVE a \in AcceptorsFor[p]
      BY <2>1 DEF RolesInv, Ack
    <3> QED
      BY <3>1
  <2>3. Evidence(p, v)
    BY <1>2, <1>6, <1>7, <1>8, <2>1, <2>2 DEF Evidence
  <2>4. SafeAt(p, v)
    BY <1>2, <1>6, <1>7, <1>8, <2>1, <2>2, BucketIsSafe
  <2> QED
    BY <2>3, <2>4
<1>9. /\ sent \subseteq sent'
      /\ \A n \in sent' \ sent :
           /\ n \in Message /\ n.type = "accept" /\ n.proposer = p
           /\ n.num = p /\ n.value = v /\ n.acceptor \in AcceptorsFor[p]
           /\ Evidence(p, v) /\ SafeAt(p, v)
  <2>1. CASE UNCHANGED sent
    BY <2>1
  <2>2. CASE BroadcastAccept(p, v) /\ IsMajority(Responders(bucket), p)
    <3>1. \A a \in AcceptorsFor[p] : a \in Acceptors
      BY RolesAssumption
    <3> QED
      BY <1>2, <1>7, <1>8, <2>2, <3>1 DEF BroadcastAccept, Message
  <2> QED
    BY <1>1, <2>1, <2>2
<1>10. /\ prepareResponses' \in [Proposers -> SUBSET Response]
       /\ acceptSent' \in [Proposers -> SUBSET Proposers]
       /\ \A q \in Proposers : \A r \in prepareResponses'[q] :
            r \in prepareResponses[q] \/ (q = p /\ r \in stored)
  BY <1>1, <1>2, <1>3, SMTT(30) DEF TypeOK
<1>11. UNCHANGED <<currentProposal, prepareTo, acceptResponses, chosen,
                   minProposal, acceptedNum, acceptedValue, connected,
                   hasChosen, votes, choseLog, status>>
  BY <1>1 DEF acceptorVars
<1>12. TypeOK'
  <2>1. sent' \subseteq Message /\ received' \subseteq sent'
    BY <1>1, <1>9 DEF TypeOK
  <2> QED
    BY <1>10, <1>11, <2>1 DEF TypeOK
<1>13. Monotone
  <2>1. minProposal \in [Acceptors -> Nat]
    BY ProposerNumbers DEF TypeOK
  <2> QED
    BY <1>9, <1>11, <2>1 DEF Monotone
<1>14. Carried
  BY <1>12, <1>13, CarriedByMonotone
<1>15. StartedInv' /\ RolesInv' /\ NumInv' /\ ValidInv'
  BY <1>2, <1>7, <1>9, <1>11 DEF StartedInv, RolesInv, NumInv, ValidInv
<1>16. AcceptorInv' /\ VotesInv'
  BY <1>11, <1>14 DEF AcceptorInv, VotedFor, Carried, VotesInv
<1>17. AckInv' /\ OneAckInv' /\ AcceptAckInv'
  BY <1>9, <1>14 DEF AckInv, OneAckInv, AcceptAckInv, Carried
<1>18. AcceptInv'
  <2>1. ASSUME NEW n \in sent' \ sent PROVE AcceptHolds(n)'
    <3>1. Evidence(p, v)' /\ SafeAt(p, v)'
      BY <1>9, <1>12, <1>13, <2>1, EvidenceStable, SafeAtStable
    <3> QED
      BY <1>7, <1>9, <2>1, <3>1 DEF AcceptHolds
  <2> QED
    BY <1>14, <2>1 DEF Carried, AcceptInv
<1>19. ResponsesInv' /\ ChosenInv'
  <2>1. ResponsesInv'
    BY <1>3, <1>9, <1>10, <1>11 DEF ResponsesInv
  <2>2. ChosenInv'
    BY <1>11, <1>14 DEF ChosenInv, Carried, TypeOK
  <2> QED
    BY <2>1, <2>2
<1> QED
  BY <1>11, <1>12, <1>15, <1>16, <1>17, <1>18, <1>19

(***************************************************************************)
(* handleAcceptAck: what is logged as chosen was accepted by a majority.   *)
(***************************************************************************)
LEMMA HandleAcceptAckStep ==
  ASSUME IInv, NEW p \in Proposers, HandleAcceptAck(p)
  PROVE  /\ IInv'
         /\ \/ chosen' = chosen
            \/ /\ chosen[p] = None
               /\ \E v \in Proposed : chosen' = [chosen EXCEPT ![p] = v]
<1> USE DEF IInv
<1>1. PICK m \in sent :
        LET stored == Store(acceptResponses[p], m)
            won    == IsMajority(Responders(Bucket(stored, m.num)), p)
        IN /\ m.type = "accept_ack" /\ m.proposer = p
           /\ received' = received \cup {m}
           /\ acceptResponses' =
                [acceptResponses EXCEPT ![p] =
                   IF won THEN From(stored, m.num) ELSE stored]
           /\ chosen' = [chosen EXCEPT ![p] =
                           IF won /\ @ = None THEN m.value ELSE @]
           /\ prepareResponses' =
                [prepareResponses EXCEPT ![p] =
                   IF won THEN From(@, m.num) ELSE @]
           /\ acceptSent' = [acceptSent EXCEPT ![p] =
                               IF won THEN {n \in @ : n >= m.num} ELSE @]
           /\ UNCHANGED <<currentProposal, prepareTo, acceptorVars, status,
                          sent>>
  BY DEF HandleAcceptAck, Pending
<1> PICK stored : stored = Store(acceptResponses[p], m)
  OBVIOUS
<1> PICK bucket : bucket = Bucket(stored, m.num)
  OBVIOUS
<1>2. /\ m \in Message /\ m.num = p /\ m.acceptor \in Acceptors
      /\ m = AcceptAck(p, m.acceptor, p, m.value)
      /\ currentProposal[p] = p
  BY <1>1 DEF TypeOK, StartedInv, NumInv, Message, AcceptAck
<1>3. /\ stored \in SUBSET Response
      /\ \A r \in stored : AcceptAck(p, r.acceptor, r.num, r.value) \in sent
  <2>1. acceptResponses[p] \in SUBSET Response
    BY DEF TypeOK
  <2>2. [acceptor |-> m.acceptor, num |-> m.num, value |-> m.value] \in Response
    BY <1>2 DEF Message, Response
  <2>3. \A r \in acceptResponses[p] :
          AcceptAck(p, r.acceptor, r.num, r.value) \in sent
    BY DEF ResponsesInv
  <2> QED
    BY <1>2, <2>1, <2>2, <2>3 DEF Store
<1>4. \A r \in bucket : [num |-> p, value |-> r.value] \in votes[r.acceptor]
  BY <1>2, <1>3 DEF Bucket, AcceptAckInv, AcceptAck, VotedFor
<1>5. [num |-> p, value |-> m.value] \in votes[m.acceptor]
  BY <1>1, <1>2 DEF AcceptAckInv, VotedFor
<1>6. /\ m.value \in Value /\ m.value \in Proposed
  <2>1. m.value \in Value
    BY <1>2, <1>5 DEF TypeOK, Vote
  <2> QED
    BY <2>1, ValueAssumption DEF ValidInv
<1>7. \A r \in bucket : r.acceptor \in Acceptors /\ r.value = m.value
  <2>1. OneValuePerNumber
    BY OneValue, RolesAssumption DEF TypeOK
  <2>2. \A r \in bucket : r.acceptor \in Acceptors
    BY <1>3 DEF Bucket, Response
  <2>3. ASSUME NEW r \in bucket PROVE r.value = m.value
    <3>1. PICK k \in sent :
            k.type = "accept" /\ k.num = p /\ k.value = r.value
      BY <1>4, <2>2 DEF VotesInv
    <3>2. PICK n \in sent :
            n.type = "accept" /\ n.num = p /\ n.value = m.value
      BY <1>2, <1>5 DEF VotesInv
    <3> QED
      BY <2>1, <3>1, <3>2 DEF OneValuePerNumber
  <2> QED
    BY <2>2, <2>3
<1>8. ASSUME IsMajority(Responders(bucket), p)
      PROVE  AcceptedByMajority(p, m.value)
  <2>1. Responders(bucket) \in SUBSET AcceptorsFor[p]
    BY <1>3 DEF Responders, Bucket, RolesInv, AcceptAck
  <2>2. \A a \in Responders(bucket) : [num |-> p, value |-> m.value] \in votes[a]
    BY <1>4, <1>7 DEF Responders
  <2> QED
    BY <1>8, <2>1, <2>2 DEF AcceptedByMajority
<1>9. UNCHANGED <<currentProposal, prepareTo, minProposal, acceptedNum,
                  acceptedValue, connected, hasChosen, votes, choseLog,
                  status, sent>>
  BY <1>1 DEF acceptorVars
<1>10. \/ chosen' = chosen
       \/ /\ chosen[p] = None /\ AcceptedByMajority(p, m.value)
          /\ chosen' = [chosen EXCEPT ![p] = m.value]
  BY <1>1, <1>8 DEF TypeOK
<1>11. /\ prepareResponses' \in [Proposers -> SUBSET Response]
       /\ acceptResponses' \in [Proposers -> SUBSET Response]
       /\ acceptSent' \in [Proposers -> SUBSET Proposers]
       /\ chosen' \in [Proposers -> Value \cup {None}]
       /\ received' \subseteq sent
  BY <1>1, <1>3, <1>6 DEF TypeOK, From
<1>12. \A q \in Proposers :
         /\ prepareResponses'[q] \subseteq prepareResponses[q]
         /\ \A r \in acceptResponses'[q] :
              r \in acceptResponses[q] \/ (q = p /\ r \in stored)
  BY <1>1 DEF TypeOK, From
<1>13. TypeOK'
  BY <1>9, <1>11 DEF TypeOK
<1>14. Monotone
  <2>1. minProposal \in [Acceptors -> Nat]
    BY ProposerNumbers DEF TypeOK
  <2> QED
    BY <1>9, <2>1 DEF Monotone
<1>15. Carried
  BY <1>13, <1>14, CarriedByMonotone
<1>16. StartedInv'
  <2>1. \A q \in Proposers : chosen'[q] # None =>
          chosen[q] # None \/ currentProposal[q] = q
    BY <1>2, <1>10 DEF TypeOK
  <2> QED
    BY <1>9, <2>1 DEF StartedInv
<1>17. RolesInv' /\ NumInv' /\ ValidInv' /\ OneAckInv'
  BY <1>9 DEF RolesInv, NumInv, ValidInv, OneAckInv
<1>18. AcceptorInv' /\ VotesInv'
  BY <1>9 DEF AcceptorInv, VotedFor, VotesInv
<1>19. AckInv' /\ AcceptInv' /\ AcceptAckInv'
  BY <1>9, <1>15 DEF AckInv, AcceptInv, AcceptAckInv, Carried
<1>20. ResponsesInv'
  BY <1>3, <1>9, <1>12 DEF ResponsesInv
<1>21. ChosenInv'
  <2>1. ASSUME NEW q \in Proposers, NEW v \in Value, chosen'[q] = v
        PROVE  AcceptedByMajority(q, v)'
    <3>1. chosen[q] = v \/ (q = p /\ v = m.value /\ AcceptedByMajority(p, v))
      BY <1>10, <2>1 DEF TypeOK
    <3> QED
      BY <1>14, <1>15, <3>1, AcceptedStable, RolesAssumption DEF Carried
  <2>2. \A q \in Proposers : chosen'[q] # None => chosen'[q] \in Value
    BY <1>11
  <2> QED
    BY <2>1, <2>2 DEF ChosenInv
<1> QED
  BY <1>6, <1>10, <1>13, <1>16, <1>17, <1>18, <1>19, <1>20, <1>21

(***************************************************************************)
(* An acceptor that starts or crashes changes nothing but its status.      *)
(***************************************************************************)
LEMMA StatusStep ==
  ASSUME IInv, NEW a \in Acceptors, StartServer(a) \/ Crash(a)
  PROVE  IInv' /\ chosen' = chosen
<1> USE DEF IInv
<1>1. /\ UNCHANGED <<proposerVars, acceptorVars, sent, received>>
      /\ status' \in [Acceptors -> {"starting", "up", "crashed"}]
  BY DEF StartServer, Crash, TypeOK
<1> USE <1>1 DEF proposerVars, acceptorVars
<1>2. TypeOK'
  BY DEF TypeOK
<1>3. StartedInv' /\ RolesInv' /\ NumInv' /\ ValidInv' /\ OneAckInv'
  BY DEF StartedInv, RolesInv, NumInv, ValidInv, OneAckInv
<1>4. AcceptorInv' /\ VotesInv' /\ ResponsesInv'
  BY DEF AcceptorInv, VotedFor, VotesInv, ResponsesInv
<1>5. AckInv' /\ AcceptAckInv' /\ ChosenInv'
  BY DEF AckInv, AckHolds, VotedFor, AcceptAckInv, ChosenInv,
         AcceptedByMajority
<1>6. AcceptInv'
  <2>1. ASSUME NEW m \in sent, AcceptHolds(m) PROVE AcceptHolds(m)'
    BY <2>1 DEF AcceptHolds, Evidence, SafeAt, VotedFor, WontVote
  <2> QED
    BY <2>1 DEF AcceptInv
<1> QED
  BY <1>2, <1>3, <1>4, <1>5, <1>6

\* A step of the program keeps IInv, and decides at most one proposer.
LEMMA NextInv ==
  ASSUME IInv, [Next]_vars
  PROVE  /\ IInv'
         /\ \/ chosen' = chosen
            \/ \E p \in Proposers, v \in Proposed :
                 chosen[p] = None /\ chosen' = [chosen EXCEPT ![p] = v]
<1>1. ASSUME NEW p \in Proposers, StartPaxos(p) PROVE IInv' /\ chosen' = chosen
  BY <1>1, StartPaxosStep
<1>2. ASSUME NEW p \in Proposers, NEW a \in Acceptors, SendPrepare(p, a)
      PROVE  IInv' /\ chosen' = chosen
  BY <1>2, SendPrepareStep
<1>3. ASSUME NEW p \in Proposers, HandlePrepareAck(p)
      PROVE  IInv' /\ chosen' = chosen
  BY <1>3, HandlePrepareAckStep
<1>4. ASSUME NEW p \in Proposers, HandleAcceptAck(p)
      PROVE  /\ IInv'
             /\ \/ chosen' = chosen
                \/ /\ chosen[p] = None
                   /\ \E v \in Proposed : chosen' = [chosen EXCEPT ![p] = v]
  BY <1>4, HandleAcceptAckStep
<1>5. ASSUME NEW a \in Acceptors, HandlePrepare(a)
      PROVE  IInv' /\ chosen' = chosen
  BY <1>5, HandlePrepareStep
<1>6. ASSUME NEW a \in Acceptors, HandleAccept(a)
      PROVE  IInv' /\ chosen' = chosen
  BY <1>6, HandleAcceptStep
<1>7. ASSUME NEW a \in Acceptors, StartServer(a) \/ Crash(a)
      PROVE  IInv' /\ chosen' = chosen
  BY <1>7, StatusStep
<1>8. ASSUME UNCHANGED vars PROVE IInv' /\ chosen' = chosen
  <2> USE <1>8 DEF IInv, vars, proposerVars, acceptorVars
  <2>1. TypeOK' /\ StartedInv' /\ RolesInv' /\ NumInv' /\ ValidInv'
    BY DEF TypeOK, StartedInv, RolesInv, NumInv, ValidInv
  <2>2. AcceptorInv' /\ VotesInv' /\ ResponsesInv' /\ OneAckInv'
    BY DEF AcceptorInv, VotedFor, VotesInv, ResponsesInv, OneAckInv
  <2>3. AckInv' /\ AcceptAckInv' /\ ChosenInv'
    BY DEF AckInv, AckHolds, VotedFor, AcceptAckInv, ChosenInv,
           AcceptedByMajority
  <2>4. AcceptInv'
    BY DEF AcceptInv, AcceptHolds, Evidence, SafeAt, VotedFor, WontVote
  <2> QED
    BY <2>1, <2>2, <2>3, <2>4
<1> QED
  BY <1>1, <1>2, <1>3, <1>4, <1>5, <1>6, <1>7, <1>8
     DEF Next, PeerStep, ProposerStep, AcceptorStep

(***************************************************************************)
(* IInv holds in every reachable state of the peers of lab4.               *)
(***************************************************************************)
THEOREM Invariance == Spec => []IInv
<1>1. Init => IInv
  BY InitInv
<1>2. IInv /\ [Next]_vars => IInv'
  BY NextInv
<1> QED
  BY <1>1, <1>2, PTL DEF Spec

(***************************************************************************)
(* The fields of Peer and the messages keep their types.                   *)
(***************************************************************************)
THEOREM TypeCorrect == Spec => []TypeOK
<1>1. IInv => TypeOK
  BY DEF IInv
<1> QED
  BY <1>1, Invariance, PTL

\* A majority for v under p, and an accept numbered n >= p, agree on v.
LEMMA ChosenIsSafe ==
  ASSUME IInv, NEW p \in Proposers, NEW v \in Value, AcceptedByMajority(p, v),
         NEW m \in sent, m.type = "accept", m.num >= p
  PROVE  m.value = v
<1> USE DEF IInv
<1>1. PICK S \in SUBSET AcceptorsFor[p] :
        IsMajority(S, p) /\ \A a \in S : [num |-> p, value |-> v] \in votes[a]
  BY DEF AcceptedByMajority
<1>2. OneValuePerNumber
  BY OneValue, RolesAssumption DEF TypeOK
<1>3. S \subseteq Acceptors /\ m.num \in Proposers
  BY RolesAssumption DEF TypeOK, Message
<1>4. \A q \in Proposers : q \in Nat
  BY ProposerNumbers
<1>5. ASSUME NEW a \in S, NEW n \in sent, n.type = "accept", n.num = p
      PROVE  n.value = v
  <2>1. PICK k \in sent : k.type = "accept" /\ k.num = p /\ k.value = v
    BY <1>1, <1>3 DEF VotesInv
  <2> QED
    BY <1>2, <1>5, <2>1 DEF OneValuePerNumber
<1>6. PICK b \in S : TRUE
  BY <1>1, QuorumAssumption
<1>7. CASE m.num = p
  BY <1>5, <1>6, <1>7
<1>8. CASE m.num # p
  <2>1. p < m.num
    BY <1>3, <1>4, <1>8
  <2>2. SafeAt(m.num, m.value)
    BY DEF AcceptInv, AcceptHolds
  <2>3. PICK Q \in SUBSET Acceptors :
          IsQuorum(Q) /\ \A a \in Q : VotedFor(a, p, m.value) \/ WontVote(a, p)
    BY <2>1, <2>2 DEF SafeAt
  <2>4. PICK a \in Q \cap S : TRUE
    BY <1>1, <2>3, QuorumAssumption DEF IsQuorum
  <2>5. [num |-> p, value |-> v] \in votes[a]
    BY <1>1
  <2>6. VotedFor(a, p, m.value)
    <3>1. ~WontVote(a, p)
      BY <2>5 DEF WontVote
    <3> QED
      BY <2>3, <3>1
  <2>7. PICK k \in sent : k.type = "accept" /\ k.num = p /\ k.value = m.value
    BY <2>6 DEF VotesInv, VotedFor
  <2> QED
    BY <1>5, <2>4, <2>7
<1> QED
  BY <1>7, <1>8

(***************************************************************************)
(* Once a majority accepted v under p, every acceptance at p or above is   *)
(* of v, for any number of proposers and acceptors.                        *)
(***************************************************************************)
THEOREM ChoiceNeverChanges == Spec => []ChoiceIsStable
<1>1. ASSUME IInv PROVE ChoiceIsStable
  <2> SUFFICES ASSUME NEW p \in Proposers, NEW v \in Value,
                      AcceptedByMajority(p, v), NEW a \in Acceptors,
                      NEW e \in votes[a], e.num >= p
               PROVE  e.value = v
    BY DEF ChoiceIsStable
  <2>1. PICK m \in sent : m.type = "accept" /\ m.num = e.num /\ m.value = e.value
    BY <1>1 DEF IInv, VotesInv
  <2> QED
    BY <1>1, <2>1, ChosenIsSafe
<1> QED
  BY <1>1, Invariance, PTL

(***************************************************************************)
(* Accepts with one number never carry two values.                         *)
(***************************************************************************)
THEOREM NumbersHaveOneValue == Spec => []OneValuePerNumber
<1>1. IInv => OneValuePerNumber
  BY OneValue, RolesAssumption DEF IInv, TypeOK
<1> QED
  BY <1>1, Invariance, PTL

\* Two majorities, for v under p and for w under a higher q, agree.
LEMMA InvAgreement ==
  ASSUME IInv
  PROVE  Agreement
<1> USE DEF IInv
<1>1. ASSUME NEW p \in Proposers, NEW q \in Proposers, p <= q,
             chosen[p] # None, chosen[q] # None
      PROVE  chosen[p] = chosen[q]
  <2>1. chosen[p] \in Value /\ AcceptedByMajority(p, chosen[p])
    BY <1>1 DEF ChosenInv, TypeOK
  <2>2. PICK T \in SUBSET AcceptorsFor[q] :
          IsMajority(T, q) /\
            \A a \in T : [num |-> q, value |-> chosen[q]] \in votes[a]
    BY <1>1 DEF ChosenInv, AcceptedByMajority
  <2>3. PICK a \in T : a \in Acceptors
    BY <2>2, QuorumAssumption, RolesAssumption
  <2>4. PICK m \in sent : m.type = "accept" /\ m.num = q /\ m.value = chosen[q]
    BY <2>2, <2>3 DEF VotesInv
  <2>5. m.num >= p
    BY <1>1, <2>4, ProposerNumbers
  <2> QED
    BY <2>1, <2>4, <2>5, ChosenIsSafe
<1>2. \A p, q \in Proposers : p <= q \/ q <= p
  BY ProposerNumbers
<1> QED
  BY <1>1, <1>2 DEF Agreement

(***************************************************************************)
(* Paxos is safe: two proposers never log different chosen values, for any *)
(* number of proposers and acceptors and any interleaving of messages.     *)
(***************************************************************************)
THEOREM AgreementHolds == Spec => []Agreement
  BY InvAgreement, Invariance, PTL

(***************************************************************************)
(* The peers implement Consensus: the only steps visible there are the     *)
(* decisions of handleAcceptAck.                                           *)
(***************************************************************************)
THEOREM RefinesConsensus == Spec => Implements
<1>1. Init => Consensus!Init
  BY DEF Init, Consensus!Init
<1>2. ASSUME IInv, [Next]_vars, IInv' PROVE [Consensus!Next]_chosen
  <2>1. CASE chosen' = chosen
    BY <2>1
  <2>2. ASSUME NEW p \in Proposers, NEW v \in Proposed,
               chosen[p] = None, chosen' = [chosen EXCEPT ![p] = v]
        PROVE  Consensus!Next
    <3>1. v # None
      BY ValueAssumption DEF Proposed
    <3>2. chosen \in [Proposers -> Value \cup {None}]
      BY <1>2 DEF IInv, TypeOK
    <3>3. chosen'[p] = v /\ \A q \in Proposers \ {p} : chosen'[q] = chosen[q]
      BY <2>2, <3>2
    <3>4. Agreement'
      BY <1>2, InvAgreement, PTL
    <3>5. \A q \in Proposers : chosen[q] \in {None, v}
      BY <2>2, <3>1, <3>3, <3>4 DEF Agreement
    <3> QED
      BY <2>2, <3>5 DEF Consensus!Next, Consensus!Decide, Proposed
  <2> QED
    BY <1>2, <2>1, <2>2, NextInv
<1> QED
  BY <1>1, <1>2, Invariance, PTL DEF Implements, Consensus!Spec, Spec

-----------------------------------------------------------------------------
(***************************************************************************)
(* What the "chose" lines of an acceptor rest on: hasChosen, once set,     *)
(* speaks of the number the acceptor has promised last.                    *)
(***************************************************************************)
AckBy(a, n) ==
  \E m \in sent : m.type = "prepare_ack" /\ m.acceptor = a /\ m.proposer = n

LoggedInv ==
  \A a \in Acceptors, n \in Proposers :
    AckBy(a, n) =>
      /\ \A e \in votes[a] : e.num = n => n \in choseLog[a]
      /\ hasChosen[a] /\ minProposal[a] = n => n \in choseLog[a]

\* Acks, votes and logs of an acceptor that does nothing.
LEMMA LoggedIdle ==
  ASSUME NEW a \in Acceptors, NEW n \in Proposers,
         LoggedInv, AckBy(a, n)' => AckBy(a, n),
         votes'[a] = votes[a], choseLog'[a] = choseLog[a],
         hasChosen'[a] = hasChosen[a], minProposal'[a] = minProposal[a],
         AckBy(a, n)'
  PROVE  /\ \A e \in votes'[a] : e.num = n => n \in choseLog'[a]
         /\ hasChosen'[a] /\ minProposal'[a] = n => n \in choseLog'[a]
BY DEF LoggedInv

LEMMA LoggedStep ==
  ASSUME IInv, LoggedInv, [Next]_vars
  PROVE  LoggedInv'
<1>1. /\ votes \in [Acceptors -> SUBSET Vote] /\ hasChosen \in [Acceptors -> BOOLEAN]
      /\ choseLog \in [Acceptors -> SUBSET Proposers]
      /\ minProposal \in [Acceptors -> Proposers \cup {0}]
  BY DEF IInv, TypeOK
<1>2. ASSUME UNCHANGED acceptorVars,
             \A m \in sent' : m.type = "prepare_ack" => m \in sent
      PROVE  LoggedInv'
  <2>1. \A a \in Acceptors, n \in Proposers : AckBy(a, n)' => AckBy(a, n)
    BY <1>2 DEF AckBy
  <2> QED
    BY <1>2, <2>1, LoggedIdle DEF LoggedInv, acceptorVars
<1>3. ASSUME NEW a \in Acceptors, HandlePrepare(a)
      PROVE  LoggedInv'
  <2>1. PICK m \in sent : /\ m.acceptor = a /\ m.type = "prepare"
                          /\ Promise(a, m) \/ IgnorePrepare(a, m)
                          /\ UNCHANGED <<votes, choseLog>>
    BY <1>3 DEF HandlePrepare, Pending
  <2>2. CASE IgnorePrepare(a, m)
    <3>1. \A b \in Acceptors, n \in Proposers : AckBy(b, n)' => AckBy(b, n)
      BY <2>2 DEF IgnorePrepare, AckBy
    <3> QED
      BY <2>1, <2>2, <3>1, LoggedIdle DEF LoggedInv, IgnorePrepare
  <2>3. CASE Promise(a, m)
    <3>1. m.num = m.proposer
      BY <2>1 DEF IInv, NumInv
    <3>2. /\ m.num > minProposal[a] /\ m.num \in Nat
          /\ \A e \in votes[a] : e.num < m.num
      BY <1>1, <2>1, <2>3, ProposerNumbers DEF Promise, IInv, AcceptorInv, TypeOK,
         Message, Vote
    <3>3. /\ hasChosen' = [hasChosen EXCEPT ![a] = FALSE]
          /\ minProposal' = [minProposal EXCEPT ![a] = m.num]
          /\ sent' = sent \cup {PrepareAck(a, m)}
      BY <2>3 DEF Promise
    <3> SUFFICES ASSUME NEW b \in Acceptors, NEW n \in Proposers, AckBy(b, n)'
                 PROVE  /\ \A e \in votes'[b] : e.num = n => n \in choseLog'[b]
                        /\ hasChosen'[b] /\ minProposal'[b] = n => n \in choseLog'[b]
      BY DEF LoggedInv
    <3>4. AckBy(b, n) \/ (b = a /\ n = m.proposer)
      BY <3>3 DEF AckBy, PrepareAck
    <3>5. CASE b # a
      <4>1. /\ votes'[b] = votes[b] /\ choseLog'[b] = choseLog[b]
            /\ hasChosen'[b] = hasChosen[b] /\ minProposal'[b] = minProposal[b]
        BY <1>1, <2>1, <3>3, <3>5
      <4> QED
        BY <3>4, <3>5, <4>1, LoggedIdle
    <3>6. CASE b = a
      <4>1. ~hasChosen'[b]
        BY <1>1, <3>3, <3>6
      <4>2. CASE AckBy(b, n)
        BY <2>1, <4>1, <4>2 DEF LoggedInv
      <4>3. CASE n = m.proposer
        BY <2>1, <3>1, <3>2, <3>6, <4>1, <4>3
      <4> QED
        BY <3>4, <3>6, <4>2, <4>3
    <3> QED
      BY <3>5, <3>6
  <2> QED
    BY <2>1, <2>2, <2>3
<1>4. ASSUME NEW a \in Acceptors, HandleAccept(a)
      PROVE  LoggedInv'
  <2>1. PICK m \in sent : /\ m.acceptor = a /\ m.type = "accept"
                          /\ Accept(a, m) \/ IgnoreAccept(a, m)
    BY <1>4 DEF HandleAccept, Pending
  <2>2. \A b \in Acceptors, n \in Proposers : AckBy(b, n)' => AckBy(b, n)
    BY <2>1 DEF Accept, IgnoreAccept, AckBy
  <2>3. CASE IgnoreAccept(a, m)
    BY <2>2, <2>3, LoggedIdle DEF LoggedInv, IgnoreAccept
  <2>4. CASE Accept(a, m)
    <3>1. /\ minProposal' = [minProposal EXCEPT ![a] = m.num]
          /\ votes' = [votes EXCEPT ![a] = @ \cup {[num |-> m.num, value |-> m.value]}]
          /\ choseLog' = IF hasChosen[a] THEN choseLog
                         ELSE [choseLog EXCEPT ![a] = @ \cup {m.num}]
          /\ hasChosen' = [hasChosen EXCEPT ![a] = TRUE]
          /\ m.num >= minProposal[a]
      BY <2>4 DEF Accept, MayAccept
    <3> SUFFICES ASSUME NEW b \in Acceptors, NEW n \in Proposers, AckBy(b, n)'
                 PROVE  /\ \A e \in votes'[b] : e.num = n => n \in choseLog'[b]
                        /\ hasChosen'[b] /\ minProposal'[b] = n => n \in choseLog'[b]
      BY DEF LoggedInv
    <3>2. AckBy(b, n)
      BY <2>2
    <3>3. CASE b # a
      <4>1. /\ votes'[b] = votes[b] /\ choseLog'[b] = choseLog[b]
            /\ hasChosen'[b] = hasChosen[b] /\ minProposal'[b] = minProposal[b]
        BY <1>1, <3>1, <3>3
      <4> QED
        BY <3>2, <4>1, LoggedIdle
    <3>4. CASE b = a
      <4>1. n <= minProposal[a]
        BY <3>2, <3>4 DEF AckBy, IInv, AckInv, AckHolds
      <4>2. m.num \in Nat /\ n \in Nat /\ minProposal[a] \in Nat
        BY <1>1, <2>1, ProposerNumbers DEF IInv, TypeOK, Message
      <4>3. m.num = n => n \in choseLog'[a]
        <5>1. CASE hasChosen[a]
          <6>1. m.num = n => minProposal[a] = n
            BY <3>1, <4>1, <4>2
          <6> QED
            BY <3>1, <3>2, <3>4, <5>1, <6>1 DEF LoggedInv
        <5>2. CASE ~hasChosen[a]
          BY <1>1, <3>1, <5>2
        <5> QED
          BY <5>1, <5>2
      <4>4. choseLog[a] \subseteq choseLog'[a]
        BY <1>1, <3>1
      <4>5. \A e \in votes'[a] : e \in votes[a] \/ e.num = m.num
        BY <1>1, <3>1
      <4>6. minProposal'[a] = m.num
        BY <1>1, <3>1
      <4> QED
        BY <3>2, <3>4, <4>3, <4>4, <4>5, <4>6 DEF LoggedInv
    <3> QED
      BY <3>3, <3>4
  <2> QED
    BY <2>1, <2>3, <2>4
<1>5. ASSUME NEW p \in Proposers, StartPaxos(p) \/ HandleAcceptAck(p)
      PROVE  LoggedInv'
  BY <1>2, <1>5 DEF StartPaxos, HandleAcceptAck
<1>6. ASSUME NEW p \in Proposers, NEW a \in Acceptors, SendPrepare(p, a)
      PROVE  LoggedInv'
  BY <1>2, <1>6 DEF SendPrepare
<1>7. ASSUME NEW p \in Proposers, HandlePrepareAck(p)
      PROVE  LoggedInv'
  BY <1>2, <1>7 DEF HandlePrepareAck, BroadcastAccept
<1>8. ASSUME NEW a \in Acceptors, StartServer(a) \/ Crash(a)
      PROVE  LoggedInv'
  BY <1>2, <1>8 DEF StartServer, Crash
<1>9. CASE UNCHANGED vars
  BY <1>2, <1>9 DEF vars
<1> QED
  BY <1>3, <1>4, <1>5, <1>6, <1>7, <1>8, <1>9
     DEF Next, PeerStep, ProposerStep, AcceptorStep

(***************************************************************************)
(* An acceptor that answered a prepare and later accepts its number has    *)
(* logged "chose" for it.                                                  *)
(***************************************************************************)
THEOREM ChoseIsLogged == Spec => []ChoseLoggedAfterPromise
<1>1. Init => LoggedInv
  BY DEF Init, LoggedInv, AckBy
<1>2. IInv /\ LoggedInv /\ [Next]_vars => LoggedInv'
  BY LoggedStep
<1>3. IInv /\ LoggedInv => ChoseLoggedAfterPromise
  <2> SUFFICES ASSUME IInv, LoggedInv, NEW m \in sent, m.type = "prepare_ack",
                      NEW e \in votes[m.acceptor], e.num = m.proposer
               PROVE  m.proposer \in choseLog[m.acceptor]
    BY DEF ChoseLoggedAfterPromise
  <2>1. m.acceptor \in Acceptors /\ m.proposer \in Proposers
    BY DEF IInv, TypeOK, Message
  <2> QED
    BY <2>1 DEF LoggedInv, AckBy
<1> QED
  BY <1>1, <1>2, <1>3, Invariance, PTL DEF Spec
=============================================================================
