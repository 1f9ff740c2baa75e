-------------------------------- MODULE Paxos --------------------------------
(***************************************************************************)
(* Single-decree Paxos of lab4 (lab4/src/main.go).                         *)
(*                                                                         *)
(* A hosts file gives every peer its roles.  "proposer<n>" starts one      *)
(* proposal, numbered n; "acceptor<n>" accepts for proposer n.  A peer     *)
(* handles its messages one at a time under peer.mutex (handleMessage), so *)
(* every handler is one action here.  startPaxos is the exception: it      *)
(* sends its prepares one acceptor after the other without the mutex, so   *)
(* each of them is an action of its own and the proposer handles acks in   *)
(* between.                                                                *)
(*                                                                         *)
(* TCP neither loses nor duplicates a message between two running peers.   *)
(* A message to a peer that does not listen yet, or no longer, is lost:    *)
(* the dial fails and broadcastToAcceptors ignores the error.  Messages    *)
(* are delivered in any order: prepare and accept come from two goroutines *)
(* of the proposer, which may each dial a connection of its own.           *)
(***************************************************************************)
EXTENDS Integers, FiniteSets

CONSTANTS Proposers,       \* the numbers n of the roles proposer<n>
          Acceptors,       \* the peers with an acceptor role
          AcceptorsFor,    \* AcceptorsFor[n]: the peers with role acceptor<n>
          Value,           \* what -v may be given
          ProposedValue,   \* ProposedValue[n]: the -v of proposer n
          None,            \* the empty string: no value
          Faulty           \* the acceptors that may start late or crash

NumAcceptors(p) == Cardinality(AcceptorsFor[p])

IsMajority(S, p) == Cardinality(S) > NumAcceptors(p) \div 2

ASSUME ProposersAssumption == Proposers \subseteq Nat \ {0}

ASSUME RolesAssumption ==
  /\ AcceptorsFor \in [Proposers -> SUBSET Acceptors]
  /\ Faulty \subseteq Acceptors

ASSUME ValueAssumption ==
  /\ ProposedValue \in [Proposers -> Value]
  /\ None \notin Value

(***************************************************************************)
(* Majorities of any two proposers' acceptors meet.  The hosts files of    *)
(* the repository give every proposer the same acceptors, where this holds *)
(* because they are majorities of one set.                                 *)
(***************************************************************************)
ASSUME QuorumAssumption ==
  \A p, q \in Proposers :
    \A S \in SUBSET AcceptorsFor[p], T \in SUBSET AcceptorsFor[q] :
      IsMajority(S, p) /\ IsMajority(T, q) => S \cap T # {}

VARIABLES
  \* proposers
  currentProposal,    \* Peer.CurrentProposal
  prepareTo,          \* the acceptors startPaxos has not yet sent prepare to
  prepareResponses,   \* Peer.prepareResponses: acks, in buckets by their num
  acceptSent,         \* Peer.acceptSent: the buckets that led to an accept
  acceptResponses,    \* Peer.acceptResponses, in buckets by their num
  chosen,             \* the value logged as "chose"; hasChosen is chosen # None
  \* acceptors
  minProposal,        \* Peer.MinProposal
  acceptedNum,        \* Peer.AcceptedNum
  acceptedValue,      \* Peer.AcceptedValue
  connected,          \* the proposers in Peer.Connections
  hasChosen,          \* Peer.hasChosen
  votes,              \* the accept_acks it logged (history of acceptance)
  choseLog,           \* the numbers of the "chose" lines it logged
  status,             \* "starting", "up" or "crashed"
  \* network
  sent,               \* every message written to a connection
  received            \* those of them whose handler has run

proposerVars == <<currentProposal, prepareTo, prepareResponses, acceptSent,
                  acceptResponses, chosen>>
acceptorVars == <<minProposal, acceptedNum, acceptedValue, connected,
                  hasChosen, votes, choseLog>>
vars == <<proposerVars, acceptorVars, status, sent, received>>

Message == [type: {"prepare", "prepare_ack", "accept", "accept_ack"},
            proposer: Proposers, acceptor: Acceptors,
            num: Proposers, value: Value \cup {None}]

Response == [acceptor: Acceptors, num: Proposers, value: Value \cup {None}]

Vote == [num: Proposers, value: Value]

Init ==
  /\ currentProposal = [p \in Proposers |-> p - 1]
  /\ prepareTo = [p \in Proposers |-> {}]
  /\ prepareResponses = [p \in Proposers |-> {}]
  /\ acceptSent = [p \in Proposers |-> {}]
  /\ acceptResponses = [p \in Proposers |-> {}]
  /\ chosen = [p \in Proposers |-> None]
  /\ minProposal = [a \in Acceptors |-> 0]
  /\ acceptedNum = [a \in Acceptors |-> 0]
  /\ acceptedValue = [a \in Acceptors |-> None]
  /\ connected = [a \in Acceptors |-> {}]
  /\ hasChosen = [a \in Acceptors |-> FALSE]
  /\ votes = [a \in Acceptors |-> {}]
  /\ choseLog = [a \in Acceptors |-> {}]
  /\ status \in [Acceptors -> {"starting", "up"}]
  /\ \A a \in Acceptors \ Faulty : status[a] = "up"
  /\ sent = {}
  /\ received = {}

Pending(type) == {m \in sent \ received : m.type = type}

\* Mutant: responses are counted whatever number they carry.
BucketOfAll(responses, n) == responses

\* The members of bucket n of a response map.
Bucket(responses, n) == {r \in responses : r.num = n}

\* The keys of a bucket, which len() counts: a bucket is a map from peer ids.
Responders(bucket) == {r.acceptor : r \in bucket}

\* peer.responses[msg.ProposalNum][msg.PeerID] = msg
Store(responses, m) ==
  {r \in responses : r.num # m.num \/ r.acceptor # m.acceptor}
    \cup {[acceptor |-> m.acceptor, num |-> m.num, value |-> m.value]}

\* cleanupResponses: the buckets below n are deleted.
From(responses, n) == {r \in responses : r.num >= n}

-----------------------------------------------------------------------------
(***************************************************************************)
(* startPaxos up to its broadcast: the proposal number of this proposer,   *)
(* empty response maps, and the acceptors it has to send prepare to.       *)
(* main calls it once, after the delay given by -t.                        *)
(***************************************************************************)
StartPaxos(p) ==
  /\ currentProposal[p] = p - 1
  /\ currentProposal' = [currentProposal EXCEPT ![p] = @ + 1]
  /\ prepareTo' = [prepareTo EXCEPT ![p] = AcceptorsFor[p]]
  /\ prepareResponses' =
       [prepareResponses EXCEPT ![p] = {r \in @ : r.num > p}]
  /\ acceptResponses' =
       [acceptResponses EXCEPT ![p] = {r \in @ : r.num > p}]
  /\ acceptSent' = [acceptSent EXCEPT ![p] = {n \in @ : n >= p}]
  /\ chosen' = [chosen EXCEPT ![p] = None]
  /\ UNCHANGED <<acceptorVars, status, sent, received>>

(***************************************************************************)
(* One iteration of broadcastToAcceptors(prepare), in the random order of  *)
(* a Go map, without the mutex.  The dial of a peer that is not up fails.  *)
(***************************************************************************)
SendPrepare(p, a) ==
  /\ a \in prepareTo[p]
  /\ prepareTo' = [prepareTo EXCEPT ![p] = @ \ {a}]
  /\ sent' = IF status[a] = "up"
             THEN sent \cup {[type |-> "prepare", proposer |-> p,
                              acceptor |-> a, num |-> currentProposal[p],
                              value |-> None]}
             ELSE sent
  /\ UNCHANGED <<currentProposal, prepareResponses, acceptSent,
                 acceptResponses, chosen, acceptorVars, status, received>>

(***************************************************************************)
(* handlePrepare.  The answer carries the accepted value and the number it *)
(* was accepted under, or the number prepared; there is no answer to a     *)
(* number that is not higher.  Sending it dials the proposer, so that      *)
(* handleAccept will find the connection.                                  *)
(***************************************************************************)

\* Mutant: the answer always carries the number of the accepted value.
PrepareAckNumMutant(a, m) == acceptedNum[a]

PrepareAckNum(a, m) ==
  IF acceptedValue[a] # None THEN acceptedNum[a] ELSE m.num

\* Mutant: the accepted value is left out.
PrepareAckEmpty(a, m) ==
  [type |-> "prepare_ack", proposer |-> m.proposer, acceptor |-> a,
   num |-> m.num, value |-> None]

PrepareAck(a, m) ==
  [type |-> "prepare_ack", proposer |-> m.proposer, acceptor |-> a,
   num |-> PrepareAckNum(a, m), value |-> acceptedValue[a]]

\* Mutant: hasChosen is not reset.
PromiseKeepingChosen(a, m) ==
  /\ m.num > minProposal[a]
  /\ minProposal' = [minProposal EXCEPT ![a] = m.num]
  /\ connected' = [connected EXCEPT ![a] = @ \cup {m.proposer}]
  /\ sent' = sent \cup {PrepareAck(a, m)}
  /\ UNCHANGED hasChosen

Promise(a, m) ==
  /\ m.num > minProposal[a]
  /\ minProposal' = [minProposal EXCEPT ![a] = m.num]
  /\ hasChosen' = [hasChosen EXCEPT ![a] = FALSE]
  /\ connected' = [connected EXCEPT ![a] = @ \cup {m.proposer}]
  /\ sent' = sent \cup {PrepareAck(a, m)}

IgnorePrepare(a, m) ==
  /\ m.num <= minProposal[a]
  /\ UNCHANGED <<minProposal, hasChosen, connected, sent>>

HandlePrepare(a) ==
  \E m \in Pending("prepare") :
    /\ m.acceptor = a
    /\ status[a] = "up"
    /\ Promise(a, m) \/ IgnorePrepare(a, m)
    /\ received' = received \cup {m}
    /\ UNCHANGED <<proposerVars, acceptedNum, acceptedValue, votes, choseLog,
                   status>>

(***************************************************************************)
(* handlePrepareAck.  The answers are counted in the bucket of the number  *)
(* they carry.  When a bucket reaches a majority the accept goes out, with *)
(* the value of the bucket's answers, or the proposer's own value when     *)
(* they carry none, and with the proposer's number.                        *)
(***************************************************************************)

\* Mutant: the proposer insists on its own value.
ProposeOwnValue(p, bucket) == ProposedValue[p]

ValueToPropose(p, bucket) ==
  IF \E r \in bucket : r.value # None
  THEN (CHOOSE r \in bucket :
          /\ r.value # None
          /\ \A s \in bucket : s.value # None => s.num <= r.num).value
  ELSE ProposedValue[p]

BroadcastAccept(p, v) ==
  sent' = sent \cup
    {[type |-> "accept", proposer |-> p, acceptor |-> a,
      num |-> currentProposal[p], value |-> v] :
        a \in {b \in AcceptorsFor[p] : status[b] = "up"}}

HandlePrepareAck(p) ==
  \E m \in Pending("prepare_ack") :
    /\ m.proposer = p
    /\ received' = received \cup {m}
    /\ \/ /\ m.num \in acceptSent[p]
          /\ UNCHANGED <<prepareResponses, acceptSent, sent>>
       \/ LET stored == Store(prepareResponses[p], m)
              bucket == Bucket(stored, m.num)
          IN /\ m.num \notin acceptSent[p]
             /\ prepareResponses' = [prepareResponses EXCEPT ![p] = stored]
             /\ \/ /\ IsMajority(Responders(bucket), p)
                   /\ acceptSent' =
                        [acceptSent EXCEPT ![p] = @ \cup {m.num}]
                   /\ BroadcastAccept(p, ValueToPropose(p, bucket))
                \/ /\ ~IsMajority(Responders(bucket), p)
                   /\ UNCHANGED <<acceptSent, sent>>
    /\ UNCHANGED <<currentProposal, prepareTo, acceptResponses, chosen,
                   acceptorVars, status>>

(***************************************************************************)
(* handleAccept.  Accepting is logged as an accept_ack, and as "chose"     *)
(* once between two prepares; the accept_ack is sent only over a           *)
(* connection this acceptor already has, that is one it dialled when it    *)
(* answered a prepare of that proposer.                                    *)
(***************************************************************************)

\* Mutants: the number is compared with that of the last accepted value;
\* the number just promised is refused.
MayAcceptAboveAccepted(a, m) == m.num >= acceptedNum[a]
MayAcceptAbovePromise(a, m) == m.num > minProposal[a]

MayAccept(a, m) == m.num >= minProposal[a]

Accept(a, m) ==
  /\ MayAccept(a, m)
  /\ minProposal' = [minProposal EXCEPT ![a] = m.num]
  /\ acceptedNum' = [acceptedNum EXCEPT ![a] = m.num]
  /\ acceptedValue' = [acceptedValue EXCEPT ![a] = m.value]
  /\ votes' = [votes EXCEPT ![a] = @ \cup {[num |-> m.num, value |-> m.value]}]
  /\ sent' = IF m.proposer \in connected[a]
             THEN sent \cup {[type |-> "accept_ack", proposer |-> m.proposer,
                              acceptor |-> a, num |-> m.num,
                              value |-> m.value]}
             ELSE sent
  /\ choseLog' = IF hasChosen[a] THEN choseLog
                 ELSE [choseLog EXCEPT ![a] = @ \cup {m.num}]
  /\ hasChosen' = [hasChosen EXCEPT ![a] = TRUE]

IgnoreAccept(a, m) ==
  /\ ~MayAccept(a, m)
  /\ UNCHANGED <<minProposal, acceptedNum, acceptedValue, votes, sent,
                 choseLog, hasChosen>>

HandleAccept(a) ==
  \E m \in Pending("accept") :
    /\ m.acceptor = a
    /\ status[a] = "up"
    /\ Accept(a, m) \/ IgnoreAccept(a, m)
    /\ received' = received \cup {m}
    /\ UNCHANGED <<proposerVars, connected, status>>

(***************************************************************************)
(* handleAcceptAck.  A majority in one bucket is logged as chosen, once,   *)
(* and the lower buckets are dropped.  The rejection the code looks for, a *)
(* response whose number exceeds that of its bucket, is never stored:      *)
(* every response is stored under its own number, as Store shows.          *)
(***************************************************************************)
HandleAcceptAck(p) ==
  \E m \in Pending("accept_ack") :
    LET stored == Store(acceptResponses[p], m)
        won    == IsMajority(Responders(Bucket(stored, m.num)), p)
    IN /\ m.proposer = p
       /\ received' = received \cup {m}
       /\ acceptResponses' =
            [acceptResponses EXCEPT ![p] =
               IF won THEN From(stored, m.num) ELSE stored]
       /\ chosen' = [chosen EXCEPT ![p] =
                       IF won /\ @ = None THEN m.value ELSE @]
       /\ prepareResponses' =
            [prepareResponses EXCEPT ![p] =
               IF won THEN From(@, m.num) ELSE @]
       /\ acceptSent' = [acceptSent EXCEPT ![p] =
                           IF won THEN {n \in @ : n >= m.num} ELSE @]
       /\ UNCHANGED <<currentProposal, prepareTo, acceptorVars, status, sent>>

\* startServer: the acceptor listens from now on.
StartServer(a) ==
  /\ status[a] = "starting"
  /\ status' = [status EXCEPT ![a] = "up"]
  /\ UNCHANGED <<proposerVars, acceptorVars, sent, received>>

\* The process of an acceptor ends; nothing restarts it.
Crash(a) ==
  /\ a \in Faulty
  /\ status[a] = "up"
  /\ status' = [status EXCEPT ![a] = "crashed"]
  /\ UNCHANGED <<proposerVars, acceptorVars, sent, received>>

-----------------------------------------------------------------------------
ProposerStep(p) ==
  \/ StartPaxos(p)
  \/ \E a \in Acceptors : SendPrepare(p, a)
  \/ HandlePrepareAck(p)
  \/ HandleAcceptAck(p)

AcceptorStep(a) ==
  \/ HandlePrepare(a)
  \/ HandleAccept(a)
  \/ StartServer(a)

PeerStep ==
  \/ \E p \in Proposers : ProposerStep(p)
  \/ \E a \in Acceptors : AcceptorStep(a)

Next == PeerStep \/ \E a \in Acceptors : Crash(a)

Spec == Init /\ [][Next]_vars

(***************************************************************************)
(* As long as a running peer has a message to read or a dial to make, some *)
(* peer goes on.  No peer can go on for ever, so that is all the fairness  *)
(* there is to ask of the scheduler.  Crashes are not fair.                *)
(***************************************************************************)
FairSpec == Spec /\ WF_vars(PeerStep)

-----------------------------------------------------------------------------
(***************************************************************************)
(* Types of Peer's fields and of the messages in the network.              *)
(***************************************************************************)
TypeOK ==
  /\ currentProposal \in [Proposers -> Nat]
  /\ \A p \in Proposers : currentProposal[p] \in {p - 1, p}
  /\ prepareTo \in [Proposers -> SUBSET Acceptors]
  /\ prepareResponses \in [Proposers -> SUBSET Response]
  /\ acceptSent \in [Proposers -> SUBSET Proposers]
  /\ acceptResponses \in [Proposers -> SUBSET Response]
  /\ chosen \in [Proposers -> Value \cup {None}]
  /\ minProposal \in [Acceptors -> Proposers \cup {0}]
  /\ acceptedNum \in [Acceptors -> Proposers \cup {0}]
  /\ acceptedValue \in [Acceptors -> Value \cup {None}]
  /\ connected \in [Acceptors -> SUBSET Proposers]
  /\ hasChosen \in [Acceptors -> BOOLEAN]
  /\ votes \in [Acceptors -> SUBSET Vote]
  /\ choseLog \in [Acceptors -> SUBSET Proposers]
  /\ status \in [Acceptors -> {"starting", "up", "crashed"}]
  /\ sent \subseteq Message
  /\ received \subseteq sent

(***************************************************************************)
(* Two proposers that log "chose" log the same value, however prepares,    *)
(* accepts and their answers interleave (handleAcceptAck).                 *)
(***************************************************************************)
Agreement ==
  \A p, q \in Proposers :
    chosen[p] # None /\ chosen[q] # None => chosen[p] = chosen[q]

\* A majority of p's acceptors has accepted v under number p.
AcceptedByMajority(p, v) ==
  \E S \in SUBSET AcceptorsFor[p] :
    /\ IsMajority(S, p)
    /\ \A a \in S : [num |-> p, value |-> v] \in votes[a]

(***************************************************************************)
(* Once a majority has accepted v under some number, no acceptor accepts   *)
(* another value under a higher one, even before any proposer has heard of *)
(* that majority (handlePrepareAck adopts the accepted value).             *)
(***************************************************************************)
ChoiceIsStable ==
  \A p \in Proposers, v \in Value :
    AcceptedByMajority(p, v) =>
      \A a \in Acceptors : \A e \in votes[a] : e.num >= p => e.value = v

(***************************************************************************)
(* All accepts under one number carry one value, although a proposer       *)
(* counts answers in several buckets, each of which may start an accept,   *)
(* and cleanupResponses forgets the acceptSent flags of lower buckets.     *)
(***************************************************************************)
OneValuePerNumber ==
  \A m, n \in sent :
    m.type = "accept" /\ n.type = "accept" /\ m.num = n.num
      => m.value = n.value

(***************************************************************************)
(* An acceptor that answered the prepare of a proposer and later accepts   *)
(* that number has logged "chose" for it: handlePrepare resets hasChosen   *)
(* for every number it promises, even after an earlier "chose".            *)
(***************************************************************************)
ChoseLoggedAfterPromise ==
  \A m \in sent :
    /\ m.type = "prepare_ack"
    /\ \E e \in votes[m.acceptor] : e.num = m.proposer
    => m.proposer \in choseLog[m.acceptor]

(***************************************************************************)
(* With two proposers the higher one always chooses, unless an acceptor    *)
(* starts late or crashes: its three acceptors' answers fall in at most    *)
(* two buckets, one of which is a majority, and nobody can overtake it     *)
(* (handlePrepareAck, handleAccept).                                       *)
(***************************************************************************)
Highest == CHOOSE p \in Proposers : \A q \in Proposers : q <= p
HighestChooses ==
  <>(chosen[Highest] # None \/ \E a \in Acceptors : status[a] # "up")

(***************************************************************************)
(* The proposers' "chose" lines implement Consensus: each decides at most  *)
(* once, on a value given by some -v, and all on the same one.             *)
(***************************************************************************)
Consensus == INSTANCE Consensus
               WITH Proposed  <- {ProposedValue[p] : p \in Proposers},
                    Undecided <- None,
                    decision  <- chosen

Implements == Consensus!Spec
=============================================================================
