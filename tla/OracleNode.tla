----------------------------- MODULE OracleNode -----------------------------
(***************************************************************************)
(* One oracle node (project/oracle/pkg/node/oracle_node.go) under the HTTP *)
(* server that prompts it (handlePrompt of                                 *)
(* project/oracle/cmd/server/main.go) and the consensus engine it runs.    *)
(*                                                                         *)
(* Three kinds of goroutine meet here: handlePrompt, one for each request; *)
(* handleMessages, which takes messages from the transport; and PBFT.run,  *)
(* which handles them.  They share two mutexes, OracleNode.mu and PBFT.mu, *)
(* and a channel per request, which handleMessages fills through the       *)
(* message callback.  A message is abstracted to the request it is about   *)
(* and to whether handling it executes that request: PBFT says when it may.*)
(*                                                                         *)
(* OracleNode.mu is a RWMutex.  handleMessages is the only goroutine that  *)
(* does anything while it holds it for reading, so that readers need no    *)
(* count, and no goroutine takes it for reading twice.                     *)
(***************************************************************************)
EXTENDS Integers, FiniteSets, Sequences

CONSTANTS Requests,      \* the request ids, one handlePrompt each
          Roles,         \* the values isLeader may have
          Capacity,      \* of the channels: 1000 in the code
          MaxMessages,   \* bound on the messages about one request
          None,          \* no holder
          Receiver,      \* handleMessages, as the holder of a mutex
          Runner         \* PBFT.run, as the holder of a mutex

ASSUME NodeAssumption ==
  /\ Roles \subseteq BOOLEAN
  /\ Capacity \in Nat \ {0}
  /\ MaxMessages \in Nat
  /\ None \notin Requests \cup {Receiver, Runner}
  /\ Receiver \notin Requests \cup {Runner}
  /\ Runner \notin Requests

VARIABLES
  isLeader,   \* PBFT.isLeader of this node, set when it is built
  mu,         \* the goroutine that has locked OracleNode.mu, or None
  reading,    \* handleMessages has locked OracleNode.mu for reading
  pbftMu,     \* the goroutine that has locked PBFT.mu, or None
  requests,   \* the Status of every entry of OracleNode.requests, or "none"
  prompt,     \* where the handlePrompt of a request is
  orig,       \* the callback it found, its origCallback
  callback,   \* OracleNode.messageCallback: the requests notified, in order
  queued,     \* how many messages the msgChan of a request holds
  consumer,   \* the message verification goroutine of a request
  inbox,      \* the transport's msgChan
  receiver,   \* where handleMessages is, with the message it handles
  msgChan,    \* PBFT.msgChan
  runner,     \* where PBFT.run is, with the message it handles
  proposed,   \* the requests this node has proposed
  delivered   \* how many messages about a request have arrived

lockVars == <<mu, reading, pbftMu>>
promptVars == <<isLeader, prompt, orig, callback, proposed>>
serverVars == <<queued, consumer>>
receiverVars == <<inbox, receiver, delivered>>
runnerVars == <<msgChan, runner>>
vars == <<lockVars, requests, promptVars, serverVars, receiverVars, runnerVars>>

Status == {"none", "pending", "consensus", "complete", "failed"}

Message == [request: Requests, decides: BOOLEAN]

Init ==
  /\ isLeader \in Roles
  /\ mu = None
  /\ reading = FALSE
  /\ pbftMu = None
  /\ requests = [r \in Requests |-> "none"]
  /\ prompt = [r \in Requests |-> "start"]
  /\ orig = [r \in Requests |-> <<>>]
  /\ callback = <<>>
  /\ queued = [r \in Requests |-> 0]
  /\ consumer = [r \in Requests |-> "none"]
  /\ inbox = <<>>
  /\ receiver = [at |-> "idle", msg |-> <<>>, left |-> <<>>]
  /\ msgChan = <<>>
  /\ runner = [at |-> "idle", msg |-> <<>>]
  /\ proposed = {}
  /\ delivered = [r \in Requests |-> 0]

\* OracleNode.mu can be taken for reading, and for writing.
CanRLock == mu = None
CanLock == mu = None /\ ~reading

Goto(r, at) == prompt' = [prompt EXCEPT ![r] = at]

-----------------------------------------------------------------------------
(***************************************************************************)
(* handlePrompt.  It wraps the node's callback in one of its own, in two   *)
(* critical sections, and starts the goroutine that reads its channel.     *)
(***************************************************************************)
GetMessageCallback(r) ==
  /\ prompt[r] = "start"
  /\ CanRLock
  /\ orig' = [orig EXCEPT ![r] = callback]
  /\ Goto(r, "set")
  /\ UNCHANGED <<isLeader, lockVars, requests, callback, proposed, serverVars,
                 receiverVars, runnerVars>>

SetMessageCallback(r) ==
  /\ prompt[r] = "set"
  /\ CanLock
  /\ callback' = Append(orig[r], r)
  /\ consumer' = [consumer EXCEPT ![r] = "running"]
  /\ Goto(r, "submit")
  /\ UNCHANGED <<isLeader, lockVars, requests, orig, proposed, queued,
                 receiverVars, runnerVars>>

(***************************************************************************)
(* ProcessPrompt, under OracleNode.mu from here to its return: a new entry *)
(* replaces what requests had for the id, then the model is asked.         *)
(***************************************************************************)
BeginPrompt(r) ==
  /\ prompt[r] = "submit"
  /\ CanLock
  /\ mu' = r
  /\ requests' = [requests EXCEPT ![r] = "pending"]
  /\ Goto(r, "llm")
  /\ UNCHANGED <<isLeader, reading, pbftMu, orig, callback, proposed,
                 serverVars, receiverVars, runnerVars>>

\* The deferred unlock.
Return(r) == mu' = None

GetResponse(r) ==
  /\ prompt[r] = "llm"
  /\ \/ /\ Goto(r, "leader")
        /\ UNCHANGED <<mu, requests>>
     \/ /\ requests' = [requests EXCEPT ![r] = "failed"]
        /\ Return(r)
        /\ Goto(r, "done")
  /\ UNCHANGED <<isLeader, reading, pbftMu, orig, callback, proposed,
                 serverVars, receiverVars, runnerVars>>

\* PBFT.IsLeader takes PBFT.mu for reading.  A follower returns here.
CheckLeader(r) ==
  /\ prompt[r] = "leader"
  /\ pbftMu = None
  /\ \/ /\ isLeader
        /\ Goto(r, "propose")
        /\ UNCHANGED mu
     \/ /\ ~isLeader
        /\ Return(r)
        /\ Goto(r, "read")
  /\ UNCHANGED <<isLeader, reading, pbftMu, requests, orig, callback,
                 proposed, serverVars, receiverVars, runnerVars>>

\* PBFT.ProposeValue takes PBFT.mu, broadcasts and may fail halfway.
ProposeValue(r) ==
  /\ prompt[r] = "propose"
  /\ pbftMu = None
  /\ pbftMu' = r
  /\ Goto(r, "broadcast")
  /\ UNCHANGED <<isLeader, mu, reading, requests, orig, callback, proposed,
                 serverVars, receiverVars, runnerVars>>

\* Mutant: OracleNode.mu is not held while the value is proposed.
BroadcastUnlocked(r) ==
  /\ prompt[r] = "broadcast"
  /\ proposed' = proposed \cup {r}
  /\ pbftMu' = None
  /\ mu' = None
  /\ Goto(r, "proposed") \/ Goto(r, "refused")
  /\ UNCHANGED <<isLeader, reading, requests, orig, callback, serverVars,
                 receiverVars, runnerVars>>

Broadcast(r) ==
  /\ prompt[r] = "broadcast"
  /\ proposed' = proposed \cup {r}
  /\ pbftMu' = None
  /\ Goto(r, "proposed") \/ Goto(r, "refused")
  /\ UNCHANGED <<isLeader, mu, reading, requests, orig, callback, serverVars,
                 receiverVars, runnerVars>>

EndPrompt(r) ==
  /\ \/ /\ prompt[r] = "proposed"
        /\ requests' = [requests EXCEPT ![r] = "consensus"]
        /\ Goto(r, "read")
     \/ /\ prompt[r] = "refused"
        /\ requests' = [requests EXCEPT ![r] = "failed"]
        /\ Goto(r, "done")
  /\ Return(r)
  /\ UNCHANGED <<isLeader, reading, pbftMu, orig, callback, proposed,
                 serverVars, receiverVars, runnerVars>>

\* GetRequestState, then the wait for the verification goroutine.
GetRequestState(r) ==
  /\ prompt[r] = "read"
  /\ CanRLock
  /\ Goto(r, "wait")
  /\ UNCHANGED <<isLeader, lockVars, requests, orig, callback, proposed,
                 serverVars, receiverVars, runnerVars>>

Respond(r) ==
  /\ prompt[r] = "wait"
  /\ consumer[r] = "gone"
  /\ Goto(r, "done")
  /\ UNCHANGED <<isLeader, lockVars, requests, orig, callback, proposed,
                 serverVars, receiverVars, runnerVars>>

(***************************************************************************)
(* The verification goroutine reads its channel until nothing has come for *)
(* twelve seconds.  The channel and the callback that fills it stay.       *)
(***************************************************************************)
Consume(r) ==
  /\ consumer[r] = "running"
  /\ \/ /\ queued[r] > 0
        /\ queued' = [queued EXCEPT ![r] = @ - 1]
        /\ UNCHANGED consumer
     \/ /\ queued[r] = 0
        /\ consumer' = [consumer EXCEPT ![r] = "gone"]
        /\ UNCHANGED queued
  /\ UNCHANGED <<lockVars, requests, promptVars, receiverVars, runnerVars>>

-----------------------------------------------------------------------------
(***************************************************************************)
(* A message about r arrives: at the leader in answer to its proposal, at  *)
(* a follower once the server has begun to submit the prompt, which it     *)
(* submits to the leader first.                                            *)
(***************************************************************************)
Arrives(r) ==
  IF isLeader THEN r \in proposed ELSE prompt[r] \notin {"start", "set"}

Deliver(m) ==
  /\ Arrives(m.request)
  /\ delivered[m.request] < MaxMessages
  /\ Len(inbox) < Capacity
  /\ inbox' = Append(inbox, m)
  /\ delivered' = [delivered EXCEPT ![m.request] = @ + 1]
  /\ UNCHANGED <<lockVars, requests, promptVars, serverVars, receiver,
                 runnerVars>>

\* handleMessages: the next message, and the callback under a read lock.
TakeMessage ==
  /\ receiver.at = "idle"
  /\ inbox # <<>>
  /\ CanRLock
  /\ reading' = TRUE
  /\ receiver' = [at |-> "notify", msg |-> Head(inbox), left |-> callback]
  /\ inbox' = Tail(inbox)
  /\ UNCHANGED <<mu, pbftMu, requests, promptVars, serverVars, delivered,
                 runnerVars>>

\* Mutant: one message more than the channel holds.
HasRoomForOneMore(r) == queued[r] <= Capacity

HasRoom(r) == queued[r] < Capacity

\* The callbacks send, the oldest first; a full channel blocks the caller.
Notify ==
  /\ receiver.at = "notify"
  /\ \/ /\ receiver.left # <<>>
        /\ HasRoom(Head(receiver.left))
        /\ queued' = [queued EXCEPT ![Head(receiver.left)] = @ + 1]
        /\ receiver' = [receiver EXCEPT !.left = Tail(@)]
        /\ UNCHANGED reading
     \/ /\ receiver.left = <<>>
        /\ reading' = FALSE
        /\ receiver' = [receiver EXCEPT !.at = "create"]
        /\ UNCHANGED queued
  /\ UNCHANGED <<mu, pbftMu, requests, promptVars, consumer, inbox, delivered,
                 runnerVars>>

\* Mutant: nothing is created.
NotCreated(m) == requests[m.request]

Created(m) ==
  IF requests[m.request] = "none" THEN "consensus" ELSE requests[m.request]

CreateRequest ==
  /\ receiver.at = "create"
  /\ CanLock
  /\ requests' = [requests EXCEPT ![receiver.msg.request] = Created(receiver.msg)]
  /\ receiver' = [receiver EXCEPT !.at = "process"]
  /\ UNCHANGED <<lockVars, promptVars, serverVars, inbox, delivered, runnerVars>>

\* PBFT.ProcessMessage puts the message in PBFT.msgChan.
ProcessMessage ==
  /\ receiver.at = "process"
  /\ Len(msgChan) < Capacity
  /\ msgChan' = Append(msgChan, receiver.msg)
  /\ receiver' = [at |-> "idle", msg |-> <<>>, left |-> <<>>]
  /\ UNCHANGED <<lockVars, requests, promptVars, serverVars, inbox, delivered,
                 runner>>

-----------------------------------------------------------------------------
\* PBFT.run: a handler runs under PBFT.mu, and keeps it to execute.
HandleMessage ==
  /\ runner.at = "idle"
  /\ msgChan # <<>>
  /\ pbftMu = None
  /\ msgChan' = Tail(msgChan)
  /\ \/ /\ Head(msgChan).decides
        /\ pbftMu' = Runner
        /\ runner' = [at |-> "result", msg |-> Head(msgChan)]
     \/ /\ ~Head(msgChan).decides
        /\ UNCHANGED <<pbftMu, runner>>
  /\ UNCHANGED <<mu, reading, requests, promptVars, serverVars, receiverVars>>

(***************************************************************************)
(* handleConsensusResult, called by executeConsensus: OracleNode.mu inside *)
(* PBFT.mu.  A result for an unknown request is logged and dropped.        *)
(***************************************************************************)
HandleConsensusResult ==
  /\ runner.at = "result"
  /\ CanLock
  /\ requests' = [requests EXCEPT ![runner.msg.request] =
                    IF @ = "none" THEN @ ELSE "complete"]
  /\ pbftMu' = None
  /\ runner' = [at |-> "idle", msg |-> <<>>]
  /\ UNCHANGED <<mu, reading, promptVars, serverVars, receiverVars, msgChan>>

-----------------------------------------------------------------------------
PromptStep(r) ==
  \/ GetMessageCallback(r)
  \/ SetMessageCallback(r)
  \/ BeginPrompt(r)
  \/ GetResponse(r)
  \/ CheckLeader(r)
  \/ ProposeValue(r)
  \/ Broadcast(r)
  \/ EndPrompt(r)
  \/ GetRequestState(r)
  \/ Respond(r)

ReceiverStep == TakeMessage \/ Notify \/ CreateRequest \/ ProcessMessage

RunnerStep == HandleMessage \/ HandleConsensusResult

Next ==
  \/ \E r \in Requests : PromptStep(r) \/ Consume(r)
  \/ \E m \in Message : Deliver(m)
  \/ ReceiverStep
  \/ RunnerStep

Spec == Init /\ [][Next]_vars

(***************************************************************************)
(* Go's mutexes are starvation free, so a goroutine that waits for one     *)
(* that is free again and again gets it: strong fairness.  The model       *)
(* answers or fails in the end, and arrivals are not fair.                 *)
(***************************************************************************)
FairSpec ==
  /\ Spec
  /\ \A r \in Requests : SF_vars(PromptStep(r)) /\ WF_vars(Consume(r))
  /\ SF_vars(ReceiverStep)
  /\ SF_vars(RunnerStep)

-----------------------------------------------------------------------------
\* Types of the variables.
TypeOK ==
  /\ isLeader \in Roles
  /\ mu \in Requests \cup {None}
  /\ reading \in BOOLEAN
  /\ pbftMu \in Requests \cup {None, Runner}
  /\ requests \in [Requests -> Status]
  /\ prompt \in [Requests -> {"start", "set", "submit", "llm", "leader",
                              "propose", "broadcast", "proposed", "refused",
                              "read", "wait", "done"}]
  /\ orig \in [Requests -> Seq(Requests)]
  /\ callback \in Seq(Requests)
  /\ queued \in [Requests -> 0..Capacity]
  /\ consumer \in [Requests -> {"none", "running", "gone"}]
  /\ inbox \in Seq(Message)
  /\ receiver.at \in {"idle", "notify", "create", "process"}
  /\ receiver.at # "idle" => receiver.msg \in Message
  /\ receiver.left \in Seq(Requests)
  /\ msgChan \in Seq(Message)
  /\ runner.at \in {"idle", "result"}
  /\ runner.at = "result" => runner.msg \in Message
  /\ proposed \subseteq Requests
  /\ delivered \in [Requests -> 0..MaxMessages]

(***************************************************************************)
(* No result is dropped because its request is unknown: handleMessages     *)
(* creates the entry before it passes the message on, under another mutex  *)
(* than the one under which run looks it up much later.                    *)
(***************************************************************************)
ResultFindsRequest ==
  runner.at = "result" => requests[runner.msg.request] # "none"

(***************************************************************************)
(* On the leader a completed request stays complete: ProcessPrompt writes  *)
(* "consensus" after the proposal went out, but still under the mutex that *)
(* the result needs.                                                       *)
(***************************************************************************)
KeepComplete ==
  \A r \in Requests :
    isLeader /\ requests[r] = "complete" => requests'[r] = "complete"

LeaderKeepsComplete == [][KeepComplete]_vars

(***************************************************************************)
(* A prompt that was submitted returns from ProcessPrompt, which holds     *)
(* OracleNode.mu while it waits for PBFT.mu.                               *)
(***************************************************************************)
PromptReturns ==
  \A r \in Requests :
    (prompt[r] = "llm") ~> (prompt[r] \in {"read", "wait", "done"})
=============================================================================
