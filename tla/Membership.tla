----------------------------- MODULE Membership -----------------------------
(***************************************************************************)
(* Group membership with a leader (lab3/src/main.go).                      *)
(*                                                                         *)
(* Peer 1 leads at first.  It adds the peers that send it JOIN and removes *)
(* those whose heartbeats stop, in two phases: REQ to the members, which   *)
(* keep the operation in pendingOperation, then NEWVIEW.  When the leader  *)
(* itself falls silent the member with the lowest id takes over and asks   *)
(* the others what was pending.                                            *)
(*                                                                         *)
(* A leader runs each of these protocols in a goroutine of its own, a task *)
(* here.  Its view and its list of peers are shared by all of them, mostly *)
(* without membership.mu.  Only removePeerAndSendNewView keeps that mutex  *)
(* while it sends.                                                         *)
(*                                                                         *)
(* IsAlive is TRUE in every Peer the program builds.  The order of a list  *)
(* only decides in which order NEWVIEWs are sent, lowest id first, so that *)
(* a list is the number of its entries for each peer.                      *)
(***************************************************************************)
EXTENDS Integers, FiniteSets, FiniteSetsExt

CONSTANTS Peer,          \* the lines of the hosts file, 1..n
          LeaderCrash,   \* peer 1 was started with -t
          CrashInRemoval, \* a peer may crash while removals are under way
          MaxCrashes,    \* bound on the peers that crash
          MaxRepeats,    \* bound on the removals of one peer at a time
          MaxTasks       \* bound on the tasks that are ever started

ASSUME PeerAssumption ==
  /\ Peer \subseteq Nat \ {0}
  /\ IsFiniteSet(Peer)
  /\ 1 \in Peer

ASSUME OptionsAssumption ==
  /\ LeaderCrash \in BOOLEAN
  /\ CrashInRemoval \in BOOLEAN
  /\ MaxCrashes \in Nat
  /\ MaxRepeats \in Nat
  /\ MaxTasks \in Nat

VARIABLES
  status,      \* whether the process of a peer runs
  joining,     \* the peers whose joinGroup has still to dial peer 1
  ViewID,      \* Membership.ViewID
  Peers,       \* Membership.Peers: how many entries it has for each peer
  isLeader,    \* whether leaderLoop runs
  leaderID,    \* the peer taken for the leader
  pending,     \* pendingOperation; Nothing for nil
  storing,     \* the REQs answered whose operation is not yet stored
  newviews,    \* the NEWVIEWs on their way
  tasks,       \* the protocols under way
  started,     \* how many tasks were started
  crashes      \* how many peers crashed

processVars == <<status, joining, crashes>>
viewVars == <<ViewID, Peers>>
leaderVars == <<isLeader, leaderID>>
memberVars == <<pending, storing>>
taskVars == <<tasks, started>>
vars == <<processVars, viewVars, leaderVars, memberVars, newviews, taskVars>>

Operation == [op: {"ADD", "DELETE", "NOTHING", "EMPTY"}, about: Peer \cup {0}]
Nothing == [op |-> "NOTHING", about |-> 0]

\* The answer of a peer that cannot be reached: Message{}, whose fields are 0.
Empty == [op |-> "EMPTY", about |-> 0]

List == [Peer -> Nat]
NoPeers == [q \in Peer |-> 0]
Members(list) == {q \in Peer : list[q] > 0}
Entries(list) == Cardinality(UNION {{q} \X (1..list[q]) : q \in Peer})

(***************************************************************************)
(* A task carries out do for its owner; recon says that initiateReconcili- *)
(* ation called it, and goes on after it.  ask are the peers still to      *)
(* answer, got and ok count the answers, first is the first operation a    *)
(* peer said was pending, rest are the peers still to be sent newView.     *)
(***************************************************************************)
Task == [id: Nat, owner: Peer, do: Operation, recon: BOOLEAN,
         at: {"wait", "update", "bump", "send"}, view: Nat, ask: SUBSET Peer,
         got: Nat, ok: Nat, first: Operation, list: List, rest: SUBSET Peer,
         newView: Nat]

\* Mutant: the view a REQ names is the one before.
NewTaskBefore(p, o, recon, ask) ==
  [id |-> started, owner |-> p, do |-> o, recon |-> recon, at |-> "wait",
   view |-> ViewID[p] - 1, ask |-> ask, got |-> 0, ok |-> 0, first |-> Nothing,
   list |-> NoPeers, rest |-> {}, newView |-> 0]

NewTask(p, o, recon, ask) ==
  [id |-> started, owner |-> p, do |-> o, recon |-> recon, at |-> "wait",
   view |-> ViewID[p], ask |-> ask, got |-> 0, ok |-> 0, first |-> Nothing,
   list |-> NoPeers, rest |-> {}, newView |-> 0]

Init ==
  /\ status = [p \in Peer |-> "down"]
  /\ joining = {}
  /\ ViewID = [p \in Peer |-> 0]
  /\ Peers = [p \in Peer |-> NoPeers]
  /\ isLeader = [p \in Peer |-> p = 1]
  /\ leaderID = [p \in Peer |-> 1]
  /\ pending = [p \in Peer |-> Nothing]
  /\ storing = {}
  /\ newviews = {}
  /\ tasks = {}
  /\ started = 0
  /\ crashes = 0

Running(p) == status[p] = "up"
Others(p) == Members(Peers[p]) \ {p}

\* removePeerAndSendNewView of p has membership.mu.
Locked(p) ==
  \E t \in tasks : t.owner = p /\ t.at = "send" /\ t.do.op = "DELETE"

Begin(t) ==
  /\ started < MaxTasks
  /\ tasks' = tasks \cup {t}
  /\ started' = started + 1

Step(t, u) == tasks' = (tasks \ {t}) \cup {u} /\ UNCHANGED started

\* A task returns, to initiateReconciliation if that called it.
After(t) ==
  IF t.recon
  THEN Step(t, [t EXCEPT !.do = Nothing, !.at = "bump", !.list = NoPeers])
  ELSE tasks' = tasks \ {t} /\ UNCHANGED started

-----------------------------------------------------------------------------
(***************************************************************************)
(* Nothing is under way, and nobody has a peer on its list that has gone.  *)
(* The assignment (lab3.pdf) lets the program assume that all joins and    *)
(* leaves finish before another event starts, and the docker-compose files *)
(* leave seconds between two starts, in the order of the ids, or crashes.  *)
(* Only the crash of a leader in the middle of a removal is to be handled. *)
(***************************************************************************)
Settled == joining = {} /\ tasks = {} /\ newviews = {} /\ storing = {}

Quiet == Settled /\ \A p \in Peer : \A q \in Members(Peers[p]) :
                     Running(p) => Running(q)

(***************************************************************************)
(* main.  The leader's list begins with itself; the others join.  A peer   *)
(* listens before its JOIN can be answered, although main starts the       *)
(* goroutine that listens after joinGroup.                                 *)
(***************************************************************************)
Start(p) ==
  /\ status[p] = "down"
  /\ Quiet
  /\ \A q \in Peer : q < p => status[q] # "down"
  /\ status' = [status EXCEPT ![p] = "up"]
  /\ IF p = 1
     THEN Peers' = [Peers EXCEPT ![1][1] = 1] /\ UNCHANGED joining
     ELSE joining' = joining \cup {p} /\ UNCHANGED Peers
  /\ UNCHANGED <<ViewID, leaderVars, memberVars, newviews, taskVars, crashes>>

(***************************************************************************)
(* joinGroup dials the first host, whoever leads by now, and never again.  *)
(* The JOIN starts handleJoinRequest there.                                *)
(***************************************************************************)
JoinGroup(p) ==
  /\ p \in joining
  /\ joining' = joining \ {p}
  /\ IF Running(1) /\ isLeader[1]
     THEN Begin(NewTask(1, [op |-> "ADD", about |-> p], FALSE, Others(1)))
     ELSE UNCHANGED taskVars
  /\ UNCHANGED <<status, viewVars, leaderVars, memberVars, newviews, crashes>>

-----------------------------------------------------------------------------
(***************************************************************************)
(* The REQ to one member, sent by a goroutine per member.  The member      *)
(* answers OK before it stores the operation.  A dial that fails counts as *)
(* an answer that is not OK.                                               *)
(***************************************************************************)
SendReq(t, q) ==
  /\ t.do.op \in {"ADD", "DELETE"}
  /\ q \in t.ask
  /\ IF Running(q)
     THEN /\ Step(t, [t EXCEPT !.ask = @ \ {q}, !.got = @ + 1, !.ok = @ + 1])
          /\ storing' = storing \cup {[from |-> t.owner, peer |-> q, do |-> t.do]}
     ELSE /\ Step(t, [t EXCEPT !.ask = @ \ {q}, !.got = @ + 1])
          /\ UNCHANGED storing
  /\ UNCHANGED <<processVars, viewVars, leaderVars, pending, newviews>>

StorePending(s) ==
  /\ storing' = storing \ {s}
  /\ pending' = [pending EXCEPT ![s.peer] = s.do]
  /\ UNCHANGED <<processVars, viewVars, leaderVars, newviews, taskVars>>

(***************************************************************************)
(* handleJoinRequest waits for as many answers as the list has entries by  *)
(* then, itself not counted.  When it waits for more than it asked for the *)
(* five seconds run out and the join is dropped.                           *)
(***************************************************************************)
Adding(t) == t.do.op = "ADD" /\ t.at = "wait"

Answered(t) == t.got >= Entries(Peers[t.owner]) - 1

EnoughOK(t) == t.ok >= (Entries(Peers[t.owner]) - 1) \div 2

AppendPeer(t) ==
  /\ Adding(t)
  /\ Answered(t)
  /\ IF EnoughOK(t)
     THEN Step(t, [t EXCEPT !.at = "update",
                            !.list = [Peers[t.owner] EXCEPT ![t.do.about] = @ + 1]])
     ELSE Step(t, [t EXCEPT !.at = "send"])
  /\ UNCHANGED <<processVars, viewVars, leaderVars, memberVars, newviews>>

JoinTimeout(t) ==
  /\ Adding(t)
  /\ ~Answered(t)
  /\ t.ask = {}
  /\ After(t)
  /\ UNCHANGED <<processVars, viewVars, leaderVars, memberVars, newviews>>

\* Mutant: the NEWVIEW goes to the new member alone.
UpdateMembershipNewOnly(t) ==
  /\ t.at = "update"
  /\ ~Locked(t.owner)
  /\ ViewID' = [ViewID EXCEPT ![t.owner] = @ + 1]
  /\ Peers' = [Peers EXCEPT ![t.owner] = t.list]
  /\ Step(t, [t EXCEPT !.at = "send", !.newView = t.view + 1,
                       !.rest = {t.do.about} \ {t.owner}])
  /\ UNCHANGED <<processVars, leaderVars, memberVars, newviews>>

\* The NEWVIEW to the owner itself is left out: its view is as high already.
UpdateMembership(t) ==
  /\ t.at = "update"
  /\ ~Locked(t.owner)
  /\ ViewID' = [ViewID EXCEPT ![t.owner] = @ + 1]
  /\ Peers' = [Peers EXCEPT ![t.owner] = t.list]
  /\ Step(t, [t EXCEPT !.at = "send", !.newView = t.view + 1,
                       !.rest = Members(t.list) \ {t.owner}])
  /\ UNCHANGED <<processVars, leaderVars, memberVars, newviews>>

(***************************************************************************)
(* initiateRemovePeer waits for all it asked, and removePeerAndSendNewView *)
(* takes membership.mu.  Unlike a join it counts those it asks as it does  *)
(* so: each answers, or the dial to it fails, in less than the five        *)
(* seconds, since a peer that takes longer is as good as crashed (Silent). *)
(***************************************************************************)
RemovePeer(t) ==
  LET p == t.owner
      list == [Peers[p] EXCEPT ![t.do.about] = 0]
  IN /\ t.do.op = "DELETE"
     /\ t.at = "wait"
     /\ t.ask = {}
     /\ ~Locked(p)
     /\ IF t.ok >= t.got \div 2
        THEN /\ ViewID' = [ViewID EXCEPT ![p] = @ + 1]
             /\ Peers' = [Peers EXCEPT ![p] = list]
             /\ Step(t, [t EXCEPT !.at = "send", !.list = list,
                                  !.newView = ViewID[p] + 1,
                                  !.rest = Members(list) \ {p}])
        ELSE After(t) /\ UNCHANGED viewVars
     /\ UNCHANGED <<processVars, leaderVars, memberVars, newviews>>

(***************************************************************************)
(* sendNewViewMessage, lowest id first.  initiateReconciliation reads the  *)
(* list anew for every message, the others send the one they computed.     *)
(***************************************************************************)
ListFor(t) == IF t.do = Nothing THEN Peers[t.owner] ELSE t.list

SendNewView(t) ==
  \E q \in t.rest :
    /\ t.at = "send"
    /\ \A r \in t.rest : q <= r
    /\ Step(t, [t EXCEPT !.rest = @ \ {q}])
    /\ newviews' = IF Running(q)
                   THEN newviews \cup {[from |-> t.owner, to |-> q, view |-> t.newView,
                                        list |-> ListFor(t)]}
                   ELSE newviews
    /\ UNCHANGED <<processVars, viewVars, leaderVars, memberVars>>

Finish(t) ==
  /\ t.at = "send"
  /\ t.rest = {}
  /\ t.ask = {}
  /\ IF t.do = Nothing
     THEN tasks' = tasks \ {t} /\ UNCHANGED started
     ELSE After(t)
  /\ UNCHANGED <<processVars, viewVars, leaderVars, memberVars, newviews>>

\* handleNewViewMessage, under membership.mu.
IsNews(m) == m.view > ViewID[m.to]

HandleNewView(m) ==
  /\ ~Locked(m.to)
  /\ newviews' = newviews \ {m}
  /\ IF IsNews(m)
     THEN /\ ViewID' = [ViewID EXCEPT ![m.to] = m.view]
          /\ Peers' = [Peers EXCEPT ![m.to] = m.list]
          /\ pending' = [pending EXCEPT ![m.to] = Nothing]
     ELSE UNCHANGED <<viewVars, pending>>
  /\ UNCHANGED <<processVars, leaderVars, storing, taskVars>>

-----------------------------------------------------------------------------
(***************************************************************************)
(* Heartbeats.  A peer sends them to the members of its own list.  All     *)
(* messages arrive within the four seconds of FAILURE_TIMEOUT: q falls     *)
(* silent for p when its process has ended and what it sent is handled, or *)
(* when its list leaves p out and nothing that could change that is under  *)
(* way.                                                                    *)
(***************************************************************************)
\* Mutant: a timeout that is shorter than the interval of the heartbeats.
SilentTooSoon(q, p) == status[q] # "down" /\ q # p

Silent(q, p) ==
  \/ /\ status[q] = "crashed"
     /\ \A m \in newviews \cup storing : m.from # q
  \/ /\ Peers[q][p] = 0
     /\ Settled

\* Mutant: the old leader is not passed over.
FindNextLeaderIDOfAll(p) ==
  IF Members(Peers[p]) = {} THEN 0 ELSE Min(Members(Peers[p]))

\* findNextLeaderID; without candidates it is MaxInt32, here 0.
FindNextLeaderID(p) ==
  LET candidates == Members(Peers[p]) \ {leaderID[p]}
  IN IF candidates = {} THEN 0 ELSE Min(candidates)

(***************************************************************************)
(* failureDetector finds q silent.  handleLeaderFailure starts             *)
(* initiateReconciliation at the next leader; a leader queues the removal  *)
(* of q, again at every tick until it is done; the others only log it.  A  *)
(* removal takes no longer than MaxRepeats ticks.                          *)
(***************************************************************************)
Suspects(p, q) ==
  /\ Running(p)
  /\ q \in Others(p)
  /\ Silent(q, p)
  /\ ~Locked(p)

HandleLeaderFailure(p) ==
  LET next == FindNextLeaderID(p)
  IN /\ Suspects(p, leaderID[p])
     /\ leaderID' = [leaderID EXCEPT ![p] = next]
     /\ IF next = p
        THEN /\ isLeader' = [isLeader EXCEPT ![p] = TRUE]
             /\ Begin(NewTask(p, Nothing, TRUE, Others(p)))
        ELSE UNCHANGED <<isLeader, taskVars>>
     /\ UNCHANGED <<processVars, viewVars, memberVars, newviews>>

Removals(p, q) ==
  {t \in tasks : t.owner = p /\ t.do = [op |-> "DELETE", about |-> q]}

RequestRemoval(p, q) ==
  /\ Suspects(p, q)
  /\ q # leaderID[p]
  /\ isLeader[p]
  /\ Cardinality(Removals(p, q)) < MaxRepeats
  /\ Begin(NewTask(p, [op |-> "DELETE", about |-> q], FALSE, Others(p) \ {q}))
  /\ UNCHANGED <<processVars, viewVars, leaderVars, memberVars, newviews>>

(***************************************************************************)
(* initiateReconciliation takes up the first operation that the answers to *)
(* NEWLEADER report, an answer that never came included.  Whatever becomes *)
(* of it, a new view follows.                                              *)
(***************************************************************************)
Reconciling(t) == t.do = Nothing /\ t.at = "wait"

FirstOperation(first, answer) == IF first = Nothing THEN answer ELSE first

SendNewLeader(t, q) ==
  /\ Reconciling(t)
  /\ q \in t.ask
  /\ Step(t, [t EXCEPT !.ask = @ \ {q}, !.got = @ + 1,
                       !.first = FirstOperation(@, IF Running(q) THEN pending[q]
                                                                   ELSE Empty)])
  /\ UNCHANGED <<processVars, viewVars, leaderVars, memberVars, newviews>>

TakeUp(t) ==
  LET p == t.owner
      ask == CASE t.first.op = "ADD" -> Others(p)
               [] t.first.op = "DELETE" -> Others(p) \ {t.first.about}
               [] OTHER -> {}
  IN /\ Reconciling(t)
     /\ Answered(t)
     /\ IF t.first.op \in {"ADD", "DELETE"}
        THEN Step(t, [t EXCEPT !.do = t.first, !.view = ViewID[p], !.ask = ask,
                               !.got = 0, !.ok = 0])
        ELSE Step(t, [t EXCEPT !.at = "bump"])
     /\ UNCHANGED <<processVars, viewVars, leaderVars, memberVars, newviews>>

ReconcileTimeout(t) ==
  /\ Reconciling(t)
  /\ ~Answered(t)
  /\ t.ask = {}
  /\ tasks' = tasks \ {t}
  /\ UNCHANGED <<processVars, viewVars, leaderVars, memberVars, newviews, started>>

NewView(t) ==
  LET p == t.owner
  IN /\ t.at = "bump"
     /\ ~Locked(p)
     /\ ViewID' = [ViewID EXCEPT ![p] = @ + 1]
     /\ Step(t, [t EXCEPT !.at = "send", !.newView = ViewID[p] + 1,
                          !.rest = Others(p)])
     /\ UNCHANGED <<processVars, Peers, leaderVars, memberVars, newviews>>

-----------------------------------------------------------------------------
\* The process ends; its goroutines, and what they had still to send, too.
Stop(p) ==
  /\ status' = [status EXCEPT ![p] = "crashed"]
  /\ joining' = joining \ {p}
  /\ tasks' = {t \in tasks : t.owner # p}
  /\ newviews' = {m \in newviews : m.to # p}
  /\ UNCHANGED <<viewVars, leaderVars, pending, started>>

\* No join is under way.
NoJoin == joining = {} /\ \A t \in tasks : t.do.op = "ADD" => t.recon

(***************************************************************************)
(* crash, as -c asks for, or any other end of a process: a leader between  *)
(* two REQs or NEWVIEWs of a removal or a reconciliation, a member that is *)
(* asked, both at once.                                                    *)
(***************************************************************************)
Crash(p) ==
  /\ Running(p)
  /\ Quiet \/ (CrashInRemoval /\ NoJoin)
  /\ crashes < MaxCrashes
  /\ crashes' = crashes + 1
  /\ Stop(p)
  /\ storing' = {s \in storing : s.peer # p}

(***************************************************************************)
(* runLeaderCrash: once all have joined, peer 1 asks everyone but the next *)
(* leader to remove the last peer, one after the other, and crashes.  It   *)
(* changes nothing of its own, so this is one step.                        *)
(***************************************************************************)
RunLeaderCrash ==
  LET told == {q \in Others(1) \ {FindNextLeaderID(1)} : Running(q)}
  IN /\ LeaderCrash
     /\ Running(1)
     /\ Quiet
     /\ Entries(Peers[1]) >= Cardinality(Peer)
     /\ crashes < MaxCrashes
     /\ crashes' = crashes + 1
     /\ Stop(1)
     /\ storing' = storing \cup
          {[from |-> 1, peer |-> q, do |-> [op |-> "DELETE", about |-> Max(Members(Peers[1]))]]
             : q \in told}

-----------------------------------------------------------------------------
TaskStep(t) ==
  \/ \E q \in Peer : SendReq(t, q) \/ SendNewLeader(t, q)
  \/ AppendPeer(t) \/ JoinTimeout(t) \/ UpdateMembership(t)
  \/ RemovePeer(t)
  \/ TakeUp(t) \/ ReconcileTimeout(t) \/ NewView(t)
  \/ SendNewView(t) \/ Finish(t)

PeerStep(p) ==
  \/ JoinGroup(p)
  \/ \E s \in storing : s.peer = p /\ StorePending(s)
  \/ \E m \in newviews : m.to = p /\ HandleNewView(m)
  \/ HandleLeaderFailure(p)
  \/ \E q \in Peer : RequestRemoval(p, q)

Next ==
  \/ \E p \in Peer : Start(p) \/ PeerStep(p) \/ Crash(p)
  \/ \E t \in tasks : TaskStep(t)
  \/ RunLeaderCrash

Spec == Init /\ [][Next]_vars

\* Go schedules every goroutine that can run; nobody has to start or crash.
FairSpec ==
  /\ Spec
  /\ \A p \in Peer : WF_vars(PeerStep(p))
  /\ WF_vars(\E t \in tasks : TaskStep(t))

-----------------------------------------------------------------------------
\* Types of the program's variables, the messages and the tasks.
TypeOK ==
  /\ status \in [Peer -> {"down", "up", "crashed"}]
  /\ joining \subseteq Peer
  /\ ViewID \in [Peer -> Nat]
  /\ Peers \in [Peer -> List]
  /\ isLeader \in [Peer -> BOOLEAN]
  /\ leaderID \in [Peer -> Peer \cup {0}]
  /\ pending \in [Peer -> Operation]
  /\ storing \subseteq [from: Peer, peer: Peer, do: Operation]
  /\ newviews \subseteq [from: Peer, to: Peer, view: Nat, list: List]
  /\ tasks \subseteq Task
  /\ started \in Nat
  /\ crashes \in Nat

(***************************************************************************)
(* p and q run, and each has the other on its list.  A peer that RunLeader-*)
(* Crash had removed alive has no fellows, though it runs on.              *)
(***************************************************************************)
Fellows(p, q) ==
  /\ Running(p) /\ Running(q)
  /\ q \in Members(Peers[p]) /\ p \in Members(Peers[q])

(***************************************************************************)
(* Two fellows never both run leaderLoop, although every peer decides from *)
(* its own heartbeats that the leader is gone (failureDetector) and from   *)
(* its own list who is next (findNextLeaderID).                            *)
(***************************************************************************)
AtMostOneLeader ==
  \A p, q \in Peer : Fellows(p, q) /\ isLeader[p] /\ isLeader[q] => p = q

(***************************************************************************)
(* Once nothing is under way fellows have the same view and the same list, *)
(* although a removal that failureDetector asked for and initiateReconcili-*)
(* ation change and send them side by side, without a lock over both.      *)
(***************************************************************************)
MembersAgree ==
  Quiet => \A p, q \in Peer :
    Fellows(p, q) => Peers[p] = Peers[q] /\ ViewID[p] = ViewID[q]

(***************************************************************************)
(* A peer that crashes is off every list in the end: somebody leads, hears *)
(* nothing from it (failureDetector), and initiateRemovePeer goes through. *)
(* Only a peer that is itself off the list of a running one may keep it.   *)
(* This is the promise for one crash: when another follows, it can leave   *)
(* nobody to lead.                                                         *)
(***************************************************************************)
Expelled(q) == \E r \in Others(q) : Running(r) /\ q \notin Members(Peers[r])

CrashedRemoved ==
  \A p \in Peer :
    status[p] = "crashed" ~>
      \/ crashes > 1
      \/ \A q \in Peer : Running(q) /\ p \in Members(Peers[q]) => Expelled(q)
=============================================================================
