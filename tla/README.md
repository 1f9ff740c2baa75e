# TLA+ specifications of the 7610 labs and of the LLM oracle

These modules specify the distributed programs of this repository: four labs
(a start-up barrier, snapshots of a token ring, group membership, Paxos) and an
oracle: a group of nodes that asks a language model a question and agrees on the
answer by PBFT, a contract to which the answer goes, and a listener and callers
that connect the two. The specifications are written from the code; documents,
comments and tests are used as the source of the properties. TLC checks every
module on small instances. TLAPS proves the safety properties that the passing
runs check, but one (section 5), and what they refine, for all values of the constants or
for all that meet a condition which section 4 names.

Run `tlc -config MCPaxos.cfg MCPaxos` (and so on; section 3 pairs the
configurations with their modules) for a check, and `tlapm PaxosProofs.tla`, or
another of the modules whose names end in `Proofs`, for the proofs.

## 1. Inventory

| Part | Code | Modules |
|---|---|---|
| Paxos peers | `lab4/src/main.go` | `Consensus`, `Paxos`, `PaxosProofs` |
| PBFT engine, with the sending half of the transport | `project/oracle/pkg/consensus/`, `pkg/network/p2p.go` | `PBFT`, `PBFTProofs` |
| Oracle node under the prompt server | `project/oracle/pkg/node/oracle_node.go`, `cmd/server/main.go` | `OracleNode`, `OracleNodeProofs` |
| Token ring and snapshots | `lab2/src/` | `Snapshot`, `SnapshotProofs` |
| Group membership | `lab3/src/main.go` | `Membership`, `MembershipProofs` |
| Transport between two nodes | `project/oracle/pkg/network/p2p.go` | `Transport`, `TransportProofs` |
| Contract, listener, callers | `project/contracts/Oracle.sol`, `project/scripts/main.go`, `scripts/caller.go` | `OracleService`, `OracleChain`, `OracleChainProofs` |
| Barrier by heartbeats | `lab1/src/main.c` | `Heartbeats`, `HeartbeatsProofs` |
| Recovery, clustering, runner, clients of external services | see section 6 | none |

### Paxos peers (lab4)

*State.* A proposer has its number (`currentProposal`), the responses to its
prepare by the number they carry (`prepareResponses`), the numbers it has sent an
accept for (`acceptSent`), the accept_acks (`acceptResponses`). An acceptor has
`minProposal`, `acceptedNum`, `acceptedValue`, `hasChosen`, and a table of
connections.

*Operations.* `startPaxos`, `handlePrepare`, `handlePrepareAck`, `handleAccept`,
`handleAcceptAck`, all but the first under `peer.mutex`. `startPaxos` sends its
prepares one after the other without it.

*What is hard.* Two proposers race. A prepare_ack carries the number of the
**accepted** value, so that the answers to one prepare are counted in several
buckets, each of which may reach a majority and send an accept. Ignored messages
get no answer. A peer that does not listen yet is skipped.

*Correct means.* At most one value is chosen; a chosen value stays chosen; one
number has one value; the highest proposer gets a decision.

### PBFT engine

*State.* `sequence`, `prepareMessages`, `commitMessages`, `consensusReached`,
`checkpoints`, a queue `msgChan`.

*Operations.* `ProposeValue` (leader), `ProcessMessage` (called by the transport:
validates, raises `sequence`, queues), and `run`, which hands queued messages to
`handlePrePrepare`, `handlePrepare`, `handleCommit` under `p.mu`; these send and
execute, and execution makes a checkpoint and cleans up.

*What is hard.* Messages of one node come in order, those of different nodes do
not: prepares overtake the pre-prepare. `ProcessMessage` reads and writes
`sequence` without `p.mu`. A broadcast may fail after half of the peers were
reached. Votes are counted by sender and sequence, whatever their data.

*Correct means.* What is executed was proposed; nodes execute the same data for a
sequence; no execution without 2f+1 prepares; with f faulty nodes a proposal is executed.

### Oracle node and prompt server

*State.* `OracleNode.requests` (a status for each request), `messageCallback`, the
mutexes `OracleNode.mu` (a RWMutex) and `PBFT.mu`, a channel for each request.

*Operations.* `handlePrompt` wraps the callback and calls `ProcessPrompt`;
`handleMessages` passes messages to the callback, creates unknown requests, and
calls `ProcessMessage`; `run` executes and calls `handleConsensusResult`.

*What is hard.* Three kinds of goroutine take the two mutexes in different
orders; callbacks run with a mutex held; the result of a request may come before
the node's own prompt for it.

*Correct means.* Every result finds its request; a completed request stays
complete; a prompt returns.

### Token ring and snapshots (lab2)

*State.* `State` (how often the token came), `HasToken`, `Snapshots` (by id), and
in each `SnapshotState` the recorded state, the recorded messages and the closed
channels.

*Operations.* Reading a connection, `processToken`, `sendToken`, the trigger,
`handleMarker`, `initializeSnapshot`, `sendMarkers`.

*What is hard.* A goroutine per connection; `handleMarker` takes no lock around
its lookups; a token is recorded and counted in two critical sections; a marker is
delayed and may be overtaken by the token. A write may fail: that of a token is repeated
every second, that of a marker is not.

*Correct means.* The ring keeps its order; no token is counted twice and at most
one is missed; a snapshot that started completes, and not before all started it.

### Group membership (lab3)

*State.* `Membership` (view id, list of peers), `isLeader`, `leaderID`,
`lastHeartbeat`, `pendingOperation`.

*Operations.* Join and removal in two phases (REQ, then NEWVIEW), the failure
detector, the takeover by the peer with the lowest id and its reconciliation
(NEWLEADER), the scripted crash of the leader in the middle of a removal.

*What is hard.* Every protocol runs in a goroutine of its own and reads and
replaces the shared list mostly without the mutex; a leader may crash between two
sends of a removal or of the reconciliation that follows its predecessor's crash; every peer
decides on its own that the leader has gone.

*Correct means.* One leader; the same view with the same list once things have
settled; a crashed peer is removed in the end.

### Transport

*State.* `connections`, one connection for each peer, `doneChan`, and on either end of a
connection what was written and not yet read.

*Operations.* `Send` (take or dial a connection, write a length, write the
data), `connectWithRetry`, `handleConnection` (one goroutine for each connection, at either
end), `closeConnection`, `Stop`.

*What is hard.* The check for a connection, the dial and the registration take
`t.mu` one by one, so that a caller and a reconnecting goroutine replace each
other's entries; a goroutine that notices the end of its own connection closes the
one that is registered by then; a write may stop halfway; the peer restarts; a message may
be longer than the receiver takes, which `Send` does not ask.

*Correct means.* The receiver never takes a part of one message for another's; what was
written arrives unless the peer ends or a message too large went before it on its connection;
a dead connection is noticed; after `Stop` nothing stays registered.

### Contract, listener, callers

*State.* The contract has its requests, each fulfilled or not, the fee and its
balance; the listener (`monitorBlockchain`) has `lastBlock` and nothing else; a
caller has `startBlock` and `lastCheckedBlock`.

*Operations.* `createRequest`, `submitResponse`, `setOracleAddress`, `receive`;
the listener polls for new blocks, asks for their events, calls the leader of the nodes
for each and submits the answer; a caller makes a request and polls for its
response.

*What is hard.* Blocks are sealed while the events of earlier ones are processed;
an attempt that fails is not repeated; a call without a timeout may never return, and the
listener with it; a restarted listener sees requests again and
submits a second time; `currentBlock - 100` is unsigned.

*Correct means.* A request is answered at most once and a caller reports the
answer to its own; the contract can pay; no block is passed over; a request
goes unanswered only for a known reason.

### Barrier by heartbeats (lab1)

*State.* Of each peer: which it has heard from, how many those are
(`ready_count`), the addresses it has learned, its socket.

*Operations.* `send_heartbeat` to each entry of the hosts file in turn, and
`discover_peers`, one after the other in one loop.

*What is hard.* Heartbeats do not name their sender, which is found by the address
it was last known under; they are lost; containers stop, start and take each
other's addresses.

*Correct means.* READY is printed only after all have started, and by all in the end.

### How the parts interact

The labs are separate programs. Within the oracle, `handlePrompt` calls
`ProcessPrompt`, which calls `ProposeValue`; that broadcasts by the transport, whose
reader goroutines fill the channel of `handleMessages`; that calls `ProcessMessage`,
which fills the channel of `run`; that calls back `handleConsensusResult`. `PBFT`
models the path from one node's `ProposeValue` to all nodes' execution, with the
locks abstracted; `OracleNode` models the path through one node with the locks and
callbacks, with what the other nodes do abstracted to "a message about a request
arrives, and handling it may execute the request". The two share
`ProcessMessage`, `HandleMessage` and `ProposeValue` as their interface.
`Transport` looks into one link of those that `PBFT` takes as queues: messages
arrive whole, and in order as long as one connection lasts. Two successive connections
are read by two goroutines, and their messages may change places; `PBFT` leaves this
out, as it leaves out what is lost when a peer restarts. The
listener calls `handlePrompt` by HTTP; `OracleChain` takes the nodes as a
function from a request to an answer, no answer or an error.

## 2. Modules and their correspondence with the code

Variables and actions have the names of the code's fields and functions, in the
code's capitalisation for fields. An action is what a goroutine does between two points where another
one can see a difference: a handler under a mutex is one action, a sequence of
critical sections is one action each. Go's channels and TCP connections are
sequences, or sets where order is not kept. The map from definitions to lines is in
`PROJECT.json`.

**Consensus** is the abstract specification: a decision for each participant, at
most one value, one of those proposed. It has no code of its own.

**Paxos.** One action per handler, since each runs under `peer.mutex`;
`StartPaxos` and `SendPrepare(p, a)` are apart because `startPaxos` dials its
acceptors in turn without the mutex. `sent` has every message sent and `received`
those handled; the rest may arrive in any order, because
prepare and accept come from goroutines that may each dial their own connection.
`Faulty` acceptors may start late (the dial fails and the message is lost) or
crash. `prepareResponses` keeps the number under which a response is stored, and
`Bucket` is one entry of the code's map. An accept_ack is sent over an existing
connection only, hence `connected`. `votes`, `choseLog` and `chosen` are history:
accepted values and logged lines. One proposal per proposer, as in the program.

**PBFT.** `net[s][d]` is the connection from s to d, `msgChan[n]` the queue.
`ProposeValue` and the handlers broadcast by `Broadcast(n, m, reach)`, where
`Reaches(n)` are the sets of peers that a broadcast may reach: all, or, when one
cannot be reached, any set without it, since Go ranges over the map of peers in
random order and the first error ends the loop. `AdvanceOnSuccess` is the order in
the code: the sequence advances only after the broadcast succeeded. Digests are
left out: no handler compares two messages. Sequence numbers are
uint64; `sequence - checkpointInterval` is taken modulo `Word`.
View changes are left out: a view only changes in
`processNewView`, and the timer that starts a view change is armed there.
`proposals` is history, and so is `prepares`: who has prepared a sequence, whatever the nodes
have thrown away since.

**Snapshot.** `step[p]` follows the goroutine that has the token through
recording, counting, holding and writing; `reader[s][d]` follows `handleMarker` on
one connection through lookup, creation, second lookup and close. A
`SnapshotState` is numbered, because a goroutine may hold one that the map no
longer has. `sendMarkers` is one step, `markersDue` says that it has still to run.
A connection of `Fragile` may break (`BreakConnection`): what is written to it then is lost, with or
without an error (`Written`), and a token whose write fails is written again (`WriteFails`), in vain, since no
connection is dialled twice. A write that fails although its bytes arrive does not exist
in TCP as these programs use it, without deadlines. Go may also end the process when two
goroutines use the map `Snapshots` at once ("concurrent map writes"); the model has the
executions in which it does not.

**OracleNode.** `prompt[r]` is the program counter of the `handlePrompt` of
request r, with one action for each critical section of `ProcessPrompt`;
`receiver` and `runner` those of `handleMessages` and `run`. A mutex is its holder.
A message is the request it is about, and whether handling it executes.

**Membership.** A protocol of a leader (join, removal, reconciliation) is a record
in `tasks`: its stage, the peers still to answer, the answers so far, the NEWVIEWs
still to send. `SendReq`, `AppendPeer`, `UpdateMembership`, `RemovePeer`, `SendNewView`
are its steps, as far apart as the code's locks let others in between. `storing`
is the interval in `handleReqMessage` between the OK and the assignment to
`pendingOperation`. Time is modelled by `Silent(q, p)`: p misses the heartbeats of
q when q has ended and what it sent has been handled, or when q's list leaves p
out and nothing under way could change that. So dials and answers take less than the four seconds of
the failure detector, and the five seconds of `initiateRemovePeer` (`main.go:248`), which waits for
no more answers than it has asked for, are never reached. `handleJoinRequest` counts the answers it
waits for later than those it asks, hence `JoinTimeout`. `Quiet` guards starts: lab3.pdf lets the program assume that joins and leaves finish
before another event starts. It guards crashes too, except that with `CrashInRemoval` a peer
may crash at any point of a removal or a reconciliation, its own or another's.

**Transport.** One link, from p, which sends, to q. `at[g]` is the program counter of
a goroutine of p: the caller of `Send` (goroutine 0; all calls come from
`PBFT.broadcast` under `PBFT.mu`, so one at a time), and for each connection the
`handleConnection` that watches it, with `connectWithRetry` shared by both.
Every step is one hold of `t.mu` or one operation on a connection. `wire[c]` has
what was written: lengths, data, and halves of writes that stopped. Peers never write
on a connection they accepted, so that a watching goroutine only ever sees the end
of it; `ReadMessage` there has no deadline (`types.go:55`).
`Panic` is a `Send` that finds, after `connectWithRetry` has returned, that the entry
has gone again (section 6). `large` are the messages longer than `MaxMessageSize`: `Send` checks no
size, q leaves its loop with "message too large" (`TooLarge`, `types.go:62`) and closes
the connection with whatever is still on it. The other error of `ReadMessage`, a message that cannot be
decoded, does not occur with messages that `Send` has encoded. Left out: a restart of p, a `Stop` of q
(accepted connections are in no map, so `Stop` closes none of them; one whose goroutine has a message in hand
ends with it) and the bound on q's `msgChan`.

**OracleService** is the abstract specification: a request is asked once, answered
at most once, after it was asked, and a client reports an answer that was given.

**OracleChain** implements it. The chain is its height; a transaction acts on
the contract in the block after it and is visible when that is sealed. `pool` are
the listener's transactions, in the order of their nonces. The listener polls
(`upTo`, `lastBlock`) and goes through `logs` in steps of its own, between which blocks are
sealed; a client goes through `phase`. `FromBlock` is `lastBlock + 1`, and at first
`currentBlock - Window`, modulo `Word`. `first` and `failed` are history: where this run
of the listener began, and what it has tried in vain. `Hang` stops the listener in a call that
does not return, of the node (`http.Client` without `Timeout`, `main.go:118`) or of the chain; only a restart ends that.

**Heartbeats** is the loop of `main`: `at[p]` is the entry to which p sends next, N + 1 when it reads. `host[p]` is the
address of the container; started again it may get any address of `Pool[p]` that is free.

**MC modules** give constants that a .cfg cannot write (functions, sequences),
and symmetry. Definitions that begin "Mutant:" are plausible bugs; `PROJECT.json`
pairs each with the property that fails when it replaces the definition after it.

## 3. What TLC checks

| Run | Instance | Question |
|---|---|---|
| `MCPaxos` | 2 proposers, 3 acceptors, one of them faulty | Is at most one value chosen, for ever, under every order of messages; does the highest proposer choose? |
| `MCPBFT` | 4 nodes, 1 of them silent and unreachable for a while, 2 requests | Is what is executed proposed and prepared by 2f+1 nodes, and, as long as no broadcast fails, the same for a sequence everywhere? |
| `MCPBFTDisagree` (`MCPBFT`) | 2 requests, 1 outage | *Violated*: Agreement |
| `MCPBFTStuck` (`MCPBFT`) | 1 request, 1 silent node, no outage | *Violated*: with all messages handled a proposal has been executed |
| `MCSnapshot` | 3 processes, 1 snapshot, 2 starts each, 1 lap, one connection may break | Order of the ring, double counting, early completion; does a snapshot that was started once complete? |
| `MCSnapshotIncomplete` (`MCSnapshot`) | as above, all connections whole | *Violated*: a snapshot whose channels are all closed is complete |
| `MCOracleNode` | 2 prompts, leader or follower | Does every result find its request; does a completed one stay complete? |
| `MCOracleNodeDeadlock` (`MCOracleNode`) | 1 prompt at a follower | *Violated*: a prompt returns |
| `MCMembership` | 3 peers, 2 crashes, also within removals, `-t` possible | One leader, one view; is the peer removed that crashes? |
| `MCOracleChain` | 2 clients, one of which waits; window 2, up to 3 blocks, 1 restart, calls that hang | Does the whole implement `OracleService`; is the contract solvent, is nothing passed over, why may a request go unanswered? |
| `MCHeartbeats` | 3 peers, 3 addresses, buffer 1, peer 1 restarted once | Does READY mean that all have started, and do all get there? |
| `MCTransport` | 2 messages, 4 connections, 1 restart of the receiver, messages too large, Stop | Are messages read whole, do they arrive, is each registered connection watched, is Stop final? |

The module is in brackets where its name is not that of the configuration.
All runs but `MCHeartbeats`, whose peers never stop sending, have
`CHECK_DEADLOCK FALSE`: the programs stop when their messages are handled, or a
bound is met.

### What the violations show

- **Two nodes execute different data for a sequence** (`MCPBFTDisagree`). The
  leader's broadcast reaches one node and fails at the next; `ProposeValue`
  returns the error without advancing `sequence` (`pbft.go:96`). The next request
  uses the same sequence. Votes are counted whatever their data, so that a node
  executes the data of the message that completed its quorum.
- **A request is executed nowhere** (`MCPBFTStuck`), with f silent nodes and no outage. A follower
  that has got the prepares of the others before the leader's pre-prepare, over other connections,
  adds its own prepare and does not test the count, since only `handlePrepare` does
  (`pbft.go:190`). No other prepare comes, so it never commits. The running nodes need its
  commit for 2f+1, and no timer starts a view change.
- **All channels are closed and the snapshot is not complete** (`MCSnapshotIncomplete`). Two
  handlers look the id up before either has started the snapshot, both start it, and each
  closes its channel in an object of its own (`snapshot.go:50`), of which the map keeps one.
- **A prompt never returns** (`MCOracleNodeDeadlock`). `ProcessPrompt` holds
  `OracleNode.mu` and waits for `PBFT.mu` in `IsLeader`; `run` holds `PBFT.mu` and
  waits for `OracleNode.mu` in its result callback (`oracle_node.go:121`).

### Bounds, and why they are enough

- *Paxos.* Two numbers are what it takes for a value to be overtaken, and three
  acceptors what it takes for majorities to differ. The proofs cover the rest.
- *PBFT.* Four nodes are the least with f = 1; the silent one makes every quorum
  need all the others. Two requests are what a sequence used twice needs, and what `cleanup`
  needs to drop votes of a lower sequence.
  `MaxQueued = 1` (1000 in the code) keeps a queue from hiding behind the
  connections before it, where messages wait as well; `Interval = 2`, `Word = 16`
  make the subtraction wrap around for the first sequence and not for the second.
  In `MCPBFT` the outage may begin until the first request has been made, and if there is one the second
  request waits for its end and comes before a follower has prepared (`OutageComesFirst`); two requests
  without an outage, and one with, are not bounded. The proofs have no such bounds.
- *Snapshot.* Three processes are the least where two connections race;
  `MaxStarts` bounds the objects of a process, `MaxLaps` the laps of the token;
  snapshots start within them. `IdSpace = 4` stands for 2^30. The connection that may
  break in `MCSnapshot` is one that carries the token.
- *OracleNode.* `Capacity = 1` makes a full channel a normal case in `MCOracleNode`;
  for `PromptReturns` it is as large as the number of messages, so that
  the full channel is not the reason. `Roles` has both kinds of node.
- *Membership.* Three peers leave two members when the leader crashes, so that
  one takes over and one follows, and one when the next leader crashes in the middle of what it took up.
  `MaxRepeats = 2`: two removals of one peer race, asked for at successive ticks.
  `MaxTasks = 6` allows two joins, a reconciliation and three removals. Neither bound excuses a violation of
  `CrashedRemoved`: where they keep the removal from being asked for, it is reported.
  Up to eight tasks the invariants hold as well. In these instances only its own entry is ever
  twice on a peer's list, and nobody asks itself, so that asking each peer once is what the code does.
- *OracleChain.* Two clients with one prompt can make the same request, since the
  id of a request is its prompt, sender and time; one of them waits. `Window = 2` and
  heights from 0 to 3 put the start of the scan below, at and above the first
  block, so that the subtraction wraps around (`Word = 16`) or does not. One restart is what
  it takes to submit twice.
- *Heartbeats.* With three peers one of them can be READY while another has not
  heard from the third. Peer 1 may be restarted once and trade its address
  with peer 3 (`MCHeartbeats.tla`), which is what it takes for a heartbeat
  to be read under another peer's name. `Buffer = 1` makes a full buffer a normal case.
- *Transport.* Two messages are what it takes for one to be taken for the other,
  four connections what it takes for two goroutines to replace each other's
  while a third is under way. Runs that dial a fifth time are followed no further.

### Fairness

`FairSpec` assumes of the scheduler that a goroutine that can run does, and of TCP
that what was sent between two running peers arrives: weak fairness of the steps of
peers, handlers and tasks. In `OracleNode` it is strong fairness for steps that
take a mutex, since Go's mutexes are starvation free: a waiter that finds the mutex
free again and again gets it. Crashes, outages, the end of an outage, starts and
new requests are never fair. `MCPaxos` uses one weak fairness condition for all
peers together, since every peer has finitely many steps.

`Transport` assumes that goroutines run and that the receiver reads what it can.
Nothing is assumed of new calls of `Send`, of restarts, or of a dial being
answered. `OracleChain` assumes that blocks are sealed and transactions executed, and
that the listener, unless it hangs, and the clients poll; nothing of new requests, restarts, the success of an
attempt or the return of a call. `PBFT` and `Snapshot` need no fairness: what should have
happened is stated of the states in which all messages have been handled (`Idle`, `MarkersHandled`). `Heartbeats` needs more than a scheduler: datagrams may be lost for
ever. `FairLinks` says that when all peers send for ever, some of what each sends to each other
one arrives for ever. The code resends for ever (`main.c:65`), and losses that
hit one link each time are excluded by nothing but the drift of the loops;
so this is an assumption on the network, and without it there is no liveness to claim.

## 4. What is proved

### Paxos

`PaxosProofs.tla` proves, for all sets of proposers, acceptors and values, all
assignments of acceptors to proposers, any number of late starts and crashes:

| Theorem | Statement |
|---|---|
| `TypeCorrect` | `Spec => []TypeOK` |
| `AgreementHolds` | `Spec => []Agreement`: two proposers that log "chose" log the same value |
| `ChoiceNeverChanges` | `Spec => []ChoiceIsStable`: after a majority accepted a value nobody accepts another |
| `NumbersHaveOneValue` | `Spec => []OneValuePerNumber` |
| `ChoseIsLogged` | `Spec => []ChoseLoggedAfterPromise`: an acceptor that promised a number and has accepted it has logged "chose" for it |
| `RefinesConsensus` | `Spec => Implements`: the "chose" lines behave like `Consensus` |

*Assumptions* (all in `Paxos.tla`, and evaluated by TLC in `MCPaxos`): proposal
numbers are positive naturals, each acceptor set is a subset of the acceptors,
`None` is not a value, and majorities of the acceptors of two proposers meet
(`QuorumAssumption`). The last holds when all proposers have the same acceptors,
as in the lab's hosts files, and is all that the argument uses of cardinalities.

*Argument.* The inductive invariant `IInv` is `TypeOK` and twelve parts.
`NumInv`, `RolesInv`, `ValidInv`, `StartedInv` say who sends what: in particular
only proposer n sends under number n. `AcceptorInv` and `VotesInv` tie an acceptor's
fields to the history of its votes. `AckInv` says what a prepare_ack proves: its
sender had accepted nothing above the number it carries and below the
proposer's, and will not. `OneAckInv` says that an acceptor answers a proposer
once, `ResponsesInv` and `AcceptAckInv` that what a proposer stores was sent.
`AcceptInv` is the heart: an accept under n carries a value that is *safe* at n,
that is, no other value can have been, or be, accepted by a majority below n.
`ChosenInv` says that what is logged as chosen was accepted by a majority.

The step that the buckets of this program make different from textbook Paxos is
`HandlePrepareAckStep`. A bucket is a majority of responses that all carry the
same number k. `BucketIsSafe` shows that no number strictly between k and n was
accepted by a majority, since every majority meets the bucket, and below k the
safety of k itself carries over. What was safe stays safe because promises only
grow (`SafeAtStable`); `CarriedByMonotone` collects what every step keeps, so that
the lemma of an action has only its own message to prove.
`BucketValue` shows that all responses of a bucket carry one value. `OneValue`
shows that two majority buckets of one proposer would share a sender and so, by
`OneAckInv`, be the same bucket. This is why `cleanupResponses` forgetting
`acceptSent` is harmless.

`ChoseIsLogged` needs one part more (`LoggedInv`): of an acceptor that has answered the
prepare of n, `hasChosen` speaks of n as long as n is the last number it has promised.

`TypeOK` alone is not inductive with respect to the others: the value of an accept
comes from a stored response, the response from a message, the message from an
acceptor's fields. Hence one invariant, one lemma for each action, and one theorem
`Invariance`.

### The oracle node

`OracleNodeProofs.tla` proves, for any set of requests, any capacity of the
channels, any number of messages, at a leader and at a follower:

| Theorem | Statement |
|---|---|
| `TypeCorrect` | `Spec => []TypeOK`, with it that no channel overflows |
| `ResultsFindRequests` | `Spec => []ResultFindsRequest` |
| `CompleteStays` | `Spec => LeaderKeepsComplete`: at the leader a completed request stays complete |

*Assumptions.* `NodeAssumption` of `OracleNode`: bounds are naturals, and the
holders of a mutex are told apart.

*Argument.* `ResultFindsRequest` looks at a message at the end of its way, so
`KnownInv` says the same of every message that has come past `CreateRequest`, in
`handleMessages`, in `PBFT.msgChan` and in `run`; entries are never deleted
(`EntriesStay`). For `LeaderKeepsComplete`, `LockInv` says that a prompt inside
`ProcessPrompt` holds `OracleNode.mu` and that its entry is still pending, since
all others who write entries need that mutex; so the final assignment of
"consensus" overwrites nothing. `LeaderInv` and `ProposedInv` say that a leader
hears of, and completes, only requests whose prompt has gone past the
proposal, so that the entry is not made anew after it was completed. This fails at a
follower, which hears of requests before its own prompt.

### PBFT

`PBFTProofs.tla`, for any number of nodes, requests, silent and unreachable nodes:

| Theorem | Statement |
|---|---|
| `TypeCorrect` | `Spec => []TypeOK` |
| `ExecutesProposals` | `Spec => []ExecutedWasProposed` |
| `ExecutedArePrepared` | `Spec => []ExecutedMeansPrepared`: what a node executes, 2f+1 nodes have prepared |
| `AgreesUntilOutage` | `Spec => []AgreementUntilOutage`: one sequence, one result, as long as no node has become unreachable |

*Argument.* The handlers take what a message says at its word, so that the invariant
is about messages: each one on its way or queued carries the sequence and the data of a
proposal, each prepare has its sender in `prepares`, and each commit of a follower has 2f
followers there. Both stay true whatever happens later, because proposals and `prepares` are
history; the votes themselves are thrown away when a later sequence is executed.

The report (`7610_report.tex:216`, `:244`, `:333`) has 2f+1 prepares precede a commit, the code
2f (`pbft.go:190`), and the leader commits when it has its own pre-prepare and 2f - 1 others.
So single commits do not mean what the report says; executions do, and that is what is stated and
proved: 2f+1 commits include one of a follower unless f is 0, and then the leader is enough;
a follower counts the prepares of followers only, and the leader is the one more that has prepared.

`AgreesUntilOutage` needs that a sequence is proposed once, which holds while
no broadcast has failed; after that it is false (`MCPBFTDisagree`).

### Snapshots

`SnapshotProofs.tla`, for any ring, any triggers, any number of laps and starts:

| Theorem | Statement |
|---|---|
| `TypeCorrect` | `Spec => []TypeOK` |
| `CountedOnce` | `Spec => []NoTokenCountedTwice` |
| `CompleteIsStarted` | if all ids are below `IdSpace` then `Spec => []CompleteMeansStarted` |
| `TokenGoesRound` | `Spec => []LapsInStep` |
| `LosesOneToken` | `Spec => AtMostOneTokenLost` |

*Argument.* `CountedOnce` needs `PathInv`: tokens only travel from a process to its
successor. So all that a process receives comes over one connection, nobody reads that
while a token is counted, and recording a token and having received one more are the
same step. `CompleteIsStarted` needs `MarkerInv`: wherever there is a marker, a
handler with its id, or a closed channel, its sender has started the snapshot; the map has its
objects under their ids; and a complete object has all channels closed. Objects
that were replaced in the map stay in the invariant, since a handler may still hold them. The
assumption on ids is what `packMessage` needs to keep them apart.

`TokenGoesRound` needs `LapInv`: a process owes its successor what it has counted and the
successor has not, on one edge of the ring one token and on the others none, and the token
is nowhere but on that edge, or was lost there with its connection. With nothing owed the counts are equal, so that they only
drop at one place and rise at one. This takes that the ring is one cycle
(`OneRingAssumption`: a nonempty set of processes with all their successors is all of them),
which is how `main` builds it. `LosesOneToken` needs `RecordInv`: as long as the channel
of the predecessor is open and somebody can still reach the snapshot, in the map or as the
object that the handler of that channel holds, only the token that was being counted when it
started is missing (`AtMostOneTokenLost`, which no run checks). A handler that holds an object reads no token, so that the
snapshot may be replaced in the map meanwhile.

### Group membership

`MembershipProofs.tla`, for any finite set of peers, any number of crashes and tasks:

| Theorem | Statement |
|---|---|
| `TypeCorrect` | `Spec => []TypeOK` |
| `OneLeader` | if `LeaderCrash = FALSE` and `CrashInRemoval = FALSE` then `Spec => []AtMostOneLeader` |
| `OneList` | under the same assumptions `Spec => []MembersAgree` |

*Argument.* `TypeOK` is inductive. What takes an argument is that
`findNextLeaderID` and the last peer of the list are peers: a finite, nonempty set of ids has
a least and a greatest member (`MinIsMember`, `MaxIsMember`, proved from the
well-foundedness of `<` and the cardinality of subsets), and both are asked of nonempty sets only.

`OneLeader` and `OneList` come from one inductive invariant, `Inv`. TLC checked it first,
on three peers with up to three crashes and seven tasks. There is a leader or there is none:

- A leader has the lowest id of all that are on a list, is itself on every list, and has
  all of them on its own (`Rank`). So a member that waits for a crashed leader never finds
  that it is next while another leads: `findNextLeaderID` is a minimum over lists that contain
  the same running peers.
- The leader's view is the highest. Every running member has it with the leader's
  list, or a NEWVIEW with both is on its way to it, or a task is about to send one
  (`Latest`), and no other list goes with that view (`Uniform`). An addition that a
  reconciliation takes up numbers its view from the one it began with, and may share it with a
  removal or send it when everybody takes it for old. Both parts hold again at the end
  because `initiateReconciliation` then raises the view once more and sends the list
  as it is by then (`Bumping` says that it will).
- Between two leaders all the members agree already (`Leaderless`): a leader crashes in a
  quiet state and nothing it left behind, stored or on its way to storage, changes a view.
- What is pending is the removal of a peer that has crashed or the addition of one
  that is a member or about to be (`Operations`), so that a reconciliation that carries
  out an old operation again removes nobody who runs.
- A join has the group to itself (`Joins`), and the wait of `handleJoinRequest` ends with
  its NEWVIEWs: as long as peer 1 leads, its list has one entry for each peer, so that the
  number of answers it waits for is the number of peers it asked.

With `-t` (`LeaderCrash`) a peer is removed that still runs, and keeps its old list. Some
of these parts then hold for the rest of the group only. With `CrashInRemoval` a leader may be gone whose NEWVIEWs
reached some members, so that `Leaderless` fails. Both cases stay with TLC.

### Contract, listener, callers

`OracleChainProofs.tla`, for any clients, prompts, fee, window and word size:

| Theorem | Statement |
|---|---|
| `TypeCorrect` | `Spec => []TypeOK`: the listener's arithmetic stays within the word |
| `StaysSolvent` | `Spec => []Solvent` |
| `RangesMeet` | `Spec => []NothingSlips` |
| `NoResponsePassedOver` | `Spec => []ResponseStaysAhead` |
| `ImplementsService` | `Spec => ServesRequests` |

*Argument.* `KnownInv` says that what is in `pool` and `responses` was requested, so that an
accepted response closes one open request and its fee is there. `ScanInv` says that the
scan in progress has the range since `lastBlock` still ahead; `WrapInv` that a
`lastBlock` above the height of the chain, left by a subtraction that wrapped around, is where this run
of the listener began, so that what it never looks at is not claimed.
`HeardInv` gives the refinement mapping its last step: what a client reports is a response.
*Assumptions*: `ChainAssumption` and `NoneAssumption`, of which `MaxBlock + 1 < Word` says
that the height of the chain does not overflow.

### Barrier

`HeartbeatsProofs.tla`, for any number of peers, any pools of addresses, any buffer
and any number of stops:

| Theorem | Statement |
|---|---|
| `TypeCorrect` | `Spec => []TypeOK` |
| `ReadyIsSafe` | if `OwnName = Peers` then `Spec => []ReadyMeansStarted` |

*Argument.* `IInv`: `ready_count` is the number of peers heard from; one is
heard from only under an address that was learned by sending to it, which takes that it was
started; and a peer whose entry is its own name does not learn its own address. So N - 1
peers heard from are all the others. `OwnName = Peers` is what the hosts files give.

### Transport

`TransportProofs.tla`, for any number of messages, connections and restarts:

| Theorem | Statement |
|---|---|
| `TypeCorrect` | `Spec => []TypeOK`: a write is never made with a nil connection |
| `ReadsWholeMessages` | `Spec => []FramesWhole` |
| `EntriesAreWatched` | `Spec => []EntryIsWatched` |

*Argument.* `Owned` says who may still use a connection: one that is about to be registered
belongs to one goroutine, and `Send` does not have it. With it (`Base`)
`EntryIsWatched` is inductive. `FramesWhole` needs `WritesFit`: the
next write goes to a connection that ends with a whole message or, in the
middle of a message, to the one that ends with its length; a connection
that ends with a half is no longer registered nor held.

## 5. What is only model-checked

- Liveness, everywhere: `HighestChooses`,
  `PromptReturns`, `CrashedRemoved`, `RequestAnswered`, `EveryoneReady`, `Delivered`,
  `StopIsFinal`. TLAPS does not reason about `ENABLED`.
- `StartedOnceCompletes` of `Snapshot`: a safety property of the states without messages, whose
  invariant would have to follow every marker from its sender to the one object it closes a channel in.
- `AtMostOneLeader` and `MembersAgree` of `Membership` with `-t` and with crashes in the middle of
  removals (as in `MCMembership`; every behaviour without them is one with them, so the run covers
  both). The invariant of the proof is false there: a peer removed while it runs
  keeps a list and may come to lead a group of itself.
- `Agreement` of `PBFT` with nodes that cannot always be reached (`Flaky # {}`), where it is false
  (`MCPBFTDisagree`).

## 6. What is not modelled, and why

- *View changes of PBFT* (`pbft.go:315-412`): no execution reaches them, as the timer
  that starts one is armed by `processNewView` alone.
- *Start and Stop* of the oracle node, the upload and the clustering inside
  `handleConsensusResult`, the report of `handlePrompt`: no effect on the state
  the properties are about. The result of clustering, `state.Clusters`, is read by nobody, and
  `SelectConsensusResponse` (`semantic.go`) is called by tests only; its
  similarities are floating point.
- *Recovery* (`recovery.go`): no program creates one. `SaveState` would read sequence,
  view and state under three separate locks.
- *Node runner* (`run_node.go`): it cannot complete a request. `SetResultCallback`
  (line 210) replaces `handleConsensusResult`, so `Status` never becomes "complete",
  and each `/request` times out after 30 seconds; `InitConsensus` binds the
  consensus to the transport of `NewOracleNode`, while `RegisterPeer` uses the one set
  later; node 0 uses one port for both HTTP and the transport.
- *Retry, health and discovery* of `pkg/network`: wired to nothing.
- *A second oracle account*, gas, and ownership of the contract.
- *Log library, LLM and storage clients, configuration*: no state of their own.
- *Names*: hosts files and look-ups are taken to identify peers correctly, but in lab1.
- *Membership events at the same time*: joins in parallel make members disagree, and a leader that crashes
  in the middle of a join can leave two (below); the assignment rules both out.

Observations from reading the code and from larger instances, which no run states as a
property, mostly because nothing in the repository promises otherwise:

- Snapshot: a sender that has started the id three times could make the second lookup of `handleMarker` find
  nothing, a nil dereference (`snapshot.go:53`).
- Membership, after two crashes: in the end nobody may lead. Leader 1 crashes; peer
  2 takes over, and its NEWVIEW takes 1 off the list of peer 3 before the
  failure detector of 3 has fired, so that the `leaderID` of 3 stays 1. When 2
  crashes, 3 sees a silent peer that is not its leader and only logs it (`main.go:601`).
  Or 1 crashes while it removes 2: `findNextLeaderID` passes over the present `leaderID` only, so that
  3 takes 2 for the leader, then 1, then 2, for ever.
- Membership, a crash between the two NEWVIEWs of a join: peer 2 knows the new peer 3, which knows nobody
  and sends no heartbeats. 2 takes over, finds 3 silent as well, and removes it while its reconciliation sends
  it the list. 3 then misses the heartbeats of 2 and takes over too; if 2 stored the ADD after its NEWVIEW
  (`main.go:443`), 3 takes that up, and both lead with one list.
- Transport: `Send` panics when the connection it waited for has gone again
  (`p2p.go:124-147`). When `SetWriteDeadline` fails, `Send` returns and keeps the dead entry
  for the watching goroutine to remove. An error ends a broadcast
  (`p2p.go:181`). A connection given up after a failed write is not closed. The goroutine of an
  old connection closes the new healthy one and dials again. What is
  written to a connection that the peer has just left succeeds and is lost.
- Contract and callers: `caller.go` pays 0, so that with a fee its request reverts and it waits for
  the id 0 until its timeout; a response before `startBlock` is lost to it; an empty CID
  reverts. On a chain with fewer than 100 blocks `lastBlock` may wrap around
  (`main.go:182`), and the listener is deaf until the chain has caught up (`Deaf`).
- lab1: hostnames are compared by `strcmp` (`main.c:144`), and
  `Readme.md` calls them not case-sensitive. With `OwnName = {2, 3}` a peer that does not
  recognise itself counts itself, and `ReadyMeansStarted` fails.
- Prompt server: the `request_id` that the listener sends is ignored; ids come from `requestCounter++`
  without a lock (`cmd/server/main.go:193`). When the goroutine that reads a
  request's channel has gone, a full channel blocks `handleMessages` (`main.go:216`).
- `handlePrepare` executes on every prepare that follows 2f+1 commits
  (`pbft.go:211`); the result carries the same data.
- A checkpoint of a sequence below the interval is deleted when it is made
  (`pbft.go:463`).
- `HasToken` is never set when the token arrives (`lab2/src/main.go:78`).
- In lab4 the "rejection" at `main.go:453` is never found: acceptors ignore low
  numbers silently, and responses are stored by their own number.
- In lab3 a new leader reads its list again for each NEWVIEW of one view
  (`main.go:716`), so that with four peers two members can for a moment hold the
  same view with different lists; and a `REQ` answered before it is stored
  (`main.go:443`) can leave a join pending that the next leader carries out twice.
