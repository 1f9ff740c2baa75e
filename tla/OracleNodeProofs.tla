-------------------------- MODULE OracleNodeProofs --------------------------
(***************************************************************************)
(* Proofs about OracleNode, for any requests, capacity of the channels and *)
(* number of messages, at the leader and at a follower: the types, that    *)
(* every result finds its request, and that the leader keeps a completed   *)
(* request complete.                                                       *)
(***************************************************************************)
EXTENDS OracleNode, TLAPS

\* The requests that the messages of a queue are about.
About(queue) == {queue[i].request : i \in 1..Len(queue)}

\* The records keep their fields.
ShapeInv ==
  /\ receiver = [at |-> receiver.at, msg |-> receiver.msg, left |-> receiver.left]
  /\ runner = [at |-> runner.at, msg |-> runner.msg]

\* What has come past CreateRequest is about a request that has an entry.
KnownInv ==
  /\ receiver.at = "process" => requests[receiver.msg.request] # "none"
  /\ \A r \in About(msgChan) : requests[r] # "none"
  /\ ResultFindsRequest

\* Where a prompt is inside ProcessPrompt, once its entry is made.
Submitted == {"llm", "leader", "propose", "broadcast", "proposed", "refused"}

\* Such a prompt holds OracleNode.mu, and nobody else has changed its entry.
LockInv ==
  \A r \in Requests :
    prompt[r] \in Submitted => mu = r /\ requests[r] = "pending"

\* A request that was proposed is past the proposal.
ProposedInv ==
  \A r \in proposed :
    prompt[r] \in {"proposed", "refused", "read", "wait", "done"}

\* The leader hears of, and completes, only requests that it has proposed.
LeaderInv ==
  isLeader =>
    /\ About(inbox) \subseteq proposed
    /\ About(msgChan) \subseteq proposed
    /\ receiver.at # "idle" => receiver.msg.request \in proposed
    /\ runner.at = "result" => runner.msg.request \in proposed
    /\ \A r \in Requests : requests[r] = "complete" => r \in proposed

IInv ==
  /\ TypeOK
  /\ ShapeInv
  /\ KnownInv
  /\ LockInv
  /\ ProposedInv
  /\ LeaderInv

-----------------------------------------------------------------------------
\* A message put in a queue adds the request it is about.
LEMMA AboutAppend ==
  ASSUME NEW queue \in Seq(Message), NEW m \in Message
  PROVE  /\ Append(queue, m) \in Seq(Message)
         /\ About(Append(queue, m)) = About(queue) \cup {m.request}
<1>1. /\ Append(queue, m) \in Seq(Message)
      /\ Len(Append(queue, m)) = Len(queue) + 1
      /\ \A i \in 1..Len(queue) : Append(queue, m)[i] = queue[i]
      /\ Append(queue, m)[Len(queue) + 1] = m
      /\ Len(queue) \in Nat
  OBVIOUS
<1>2. \A i \in 1..Len(queue) + 1 : i \in 1..Len(queue) \/ i = Len(queue) + 1
  BY <1>1
<1>3. 1..Len(queue) \subseteq 1..Len(queue) + 1
      /\ Len(queue) + 1 \in 1..Len(queue) + 1
  BY <1>1
<1> QED
  BY <1>1, <1>2, <1>3 DEF About

\* A message taken from a queue was in it, and the rest stays.
LEMMA AboutTail ==
  ASSUME NEW queue \in Seq(Message), queue # <<>>
  PROVE  /\ Head(queue) \in Message
         /\ Tail(queue) \in Seq(Message)
         /\ Head(queue).request \in About(queue)
         /\ About(Tail(queue)) \subseteq About(queue)
<1>1. /\ Head(queue) = queue[1]
      /\ Head(queue) \in Message
      /\ Tail(queue) \in Seq(Message)
      /\ Len(Tail(queue)) = Len(queue) - 1
      /\ Len(queue) \in Nat \ {0}
      /\ \A i \in 1..Len(Tail(queue)) : Tail(queue)[i] = queue[i + 1]
  OBVIOUS
<1>2. 1 \in 1..Len(queue) /\ \A i \in 1..Len(queue) - 1 : i + 1 \in 1..Len(queue)
  BY <1>1
<1> QED
  BY <1>1, <1>2 DEF About

\* Messages are about requests.
LEMMA AboutRequests ==
  ASSUME NEW queue \in Seq(Message)
  PROVE  About(queue) \subseteq Requests
<1>1. \A i \in 1..Len(queue) : queue[i] \in Message
  OBVIOUS
<1> QED
  BY <1>1 DEF About, Message

\* A count within a bound, one more and one less.
LEMMA Count ==
  ASSUME NEW bound \in Nat, NEW n \in 0..bound
  PROVE  /\ n < bound => n + 1 \in 0..bound
         /\ n > 0 => n - 1 \in 0..bound
  OBVIOUS

-----------------------------------------------------------------------------
\* A node starts with empty queues and no entries.
LEMMA InitInv == Init => IInv
<1> SUFFICES ASSUME Init PROVE IInv
  OBVIOUS
<1> USE DEF Init
<1>1. TypeOK
  <2>1. /\ mu \in Requests \cup {None} /\ reading \in BOOLEAN
        /\ pbftMu \in Requests \cup {None, Runner} /\ isLeader \in Roles
    OBVIOUS
  <2>2. /\ requests \in [Requests -> Status]
        /\ orig \in [Requests -> Seq(Requests)]
        /\ queued \in [Requests -> 0..Capacity]
        /\ delivered \in [Requests -> 0..MaxMessages]
    BY NodeAssumption DEF Status
  <2> QED
    BY <2>1, <2>2 DEF TypeOK
<1>2. About(inbox) = {} /\ About(msgChan) = {}
  BY DEF About
<1> QED
  BY <1>1, <1>2 DEF IInv, ShapeInv, KnownInv, LockInv, ProposedInv, LeaderInv,
                    ResultFindsRequest, Submitted

(***************************************************************************)
(* Types.  The channel of a request never overflows (HasRoom).             *)
(***************************************************************************)
LEMMA TypeStep ==
  ASSUME TypeOK, ShapeInv, Next
  PROVE  TypeOK' /\ ShapeInv'
<1> USE NodeAssumption DEF TypeOK, ShapeInv, lockVars, promptVars, serverVars,
        receiverVars, runnerVars
<1>1. ASSUME NEW r \in Requests, PromptStep(r) PROVE TypeOK' /\ ShapeInv'
  <2>1. CASE GetMessageCallback(r)
    BY <2>1 DEF GetMessageCallback, Goto
  <2>2. CASE SetMessageCallback(r)
    <3>1. callback' \in Seq(Requests)
      <4>1. orig[r] \in Seq(Requests)
        OBVIOUS
      <4> QED
        BY <2>2, <4>1 DEF SetMessageCallback
    <3>2. /\ consumer' \in [Requests -> {"none", "running", "gone"}]
          /\ prompt' = [prompt EXCEPT ![r] = "submit"]
      BY <2>2 DEF SetMessageCallback, Goto
    <3> QED
      BY <2>2, <3>1, <3>2 DEF SetMessageCallback
  <2>3. CASE BeginPrompt(r)
    BY <2>3 DEF BeginPrompt, Goto, Status
  <2>4. CASE GetResponse(r)
    <3>1. requests' \in [Requests -> Status] /\ mu' \in {mu, None}
      BY <2>4 DEF GetResponse, Return, Status
    <3>2. \E at \in {"leader", "done"} : prompt' = [prompt EXCEPT ![r] = at]
      BY <2>4 DEF GetResponse, Goto
    <3> QED
      BY <2>4, <3>1, <3>2 DEF GetResponse
  <2>5. CASE CheckLeader(r)
    BY <2>5 DEF CheckLeader, Goto, Return
  <2>6. CASE ProposeValue(r)
    BY <2>6 DEF ProposeValue, Goto
  <2>7. CASE Broadcast(r)
    BY <2>7 DEF Broadcast, Goto
  <2>8. CASE EndPrompt(r)
    <3>1. requests' \in [Requests -> Status] /\ mu' \in {mu, None}
      BY <2>8 DEF EndPrompt, Return, Status
    <3>2. \E at \in {"read", "done"} : prompt' = [prompt EXCEPT ![r] = at]
      BY <2>8 DEF EndPrompt, Goto
    <3>3. UNCHANGED <<isLeader, reading, pbftMu, orig, callback, proposed,
                      serverVars, receiverVars, runnerVars>>
      BY <2>8 DEF EndPrompt
    <3>4. CASE prompt' = [prompt EXCEPT ![r] = "read"]
      BY <3>1, <3>3, <3>4
    <3>5. CASE prompt' = [prompt EXCEPT ![r] = "done"]
      BY <3>1, <3>3, <3>5
    <3> QED
      BY <3>2, <3>4, <3>5
  <2>9. CASE GetRequestState(r)
    BY <2>9 DEF GetRequestState, Goto
  <2>10. CASE Respond(r)
    BY <2>10 DEF Respond, Goto
  <2> QED
    BY <1>1, <2>1, <2>2, <2>3, <2>4, <2>5, <2>6, <2>7, <2>8, <2>9, <2>10
       DEF PromptStep
<1>2. ASSUME NEW r \in Requests, Consume(r) PROVE TypeOK' /\ ShapeInv'
  <2>1. queued' \in [Requests -> 0..Capacity]
    <3>1. queued[r] \in 0..Capacity /\ Capacity \in Nat
      OBVIOUS
    <3>2. queued[r] > 0 => queued[r] - 1 \in 0..Capacity
      BY <3>1, Count
    <3> QED
      BY <1>2, <3>2 DEF Consume
  <2>2. consumer' \in [Requests -> {"none", "running", "gone"}]
    BY <1>2 DEF Consume
  <2> QED
    BY <1>2, <2>1, <2>2 DEF Consume
<1>3. ASSUME NEW m \in Message, Deliver(m) PROVE TypeOK' /\ ShapeInv'
  <2>1. inbox' \in Seq(Message)
    BY <1>3, AboutAppend DEF Deliver
  <2>2. delivered' \in [Requests -> 0..MaxMessages]
    <3>1. m.request \in Requests
      BY DEF Message
    <3>2. delivered[m.request] \in 0..MaxMessages /\ MaxMessages \in Nat
      BY <3>1
    <3>3. delivered[m.request] < MaxMessages
      BY <1>3 DEF Deliver
    <3>4. delivered[m.request] + 1 \in 0..MaxMessages
      BY <3>2, <3>3, Count
    <3> QED
      BY <1>3, <3>4 DEF Deliver
  <2> QED
    BY <1>3, <2>1, <2>2 DEF Deliver
<1>4. CASE TakeMessage
  <2>1. Head(inbox) \in Message /\ inbox' \in Seq(Message)
    BY <1>4, AboutTail DEF TakeMessage
  <2> QED
    BY <1>4, <2>1 DEF TakeMessage
<1>5. CASE Notify
  <2>1. queued' \in [Requests -> 0..Capacity] /\ receiver'.left \in Seq(Requests)
    <3>1. CASE receiver.left # <<>>
      <4> DEFINE r == Head(receiver.left)
      <4>1. r \in Requests /\ Tail(receiver.left) \in Seq(Requests)
        BY <3>1
      <4>2. queued[r] \in 0..Capacity /\ Capacity \in Nat
        BY <4>1
      <4>3. HasRoom(r) => queued[r] + 1 \in 0..Capacity
        BY <4>2, Count DEF HasRoom
      <4>4. receiver'.left = Tail(receiver.left)
        BY <1>5, <3>1 DEF Notify
      <4>5. HasRoom(r) /\ queued' = [queued EXCEPT ![r] = @ + 1]
        BY <1>5, <3>1 DEF Notify
      <4> QED
        BY <4>1, <4>3, <4>4, <4>5
    <3>2. CASE receiver.left = <<>>
      BY <1>5, <3>2 DEF Notify
    <3> QED
      BY <3>1, <3>2
  <2>2. /\ receiver' = [at |-> receiver'.at, msg |-> receiver'.msg,
                        left |-> receiver'.left]
        /\ receiver'.at \in {"notify", "create"}
        /\ receiver'.msg = receiver.msg
        /\ receiver.at = "notify"
        /\ reading' \in BOOLEAN
    BY <1>5 DEF Notify
  <2> QED
    BY <1>5, <2>1, <2>2 DEF Notify
<1>6. CASE CreateRequest
  BY <1>6 DEF CreateRequest, Created, Message, Status
<1>7. CASE ProcessMessage
  <2>1. msgChan' \in Seq(Message)
    BY <1>7, AboutAppend DEF ProcessMessage
  <2>2. receiver' = [at |-> "idle", msg |-> <<>>, left |-> <<>>]
    BY <1>7 DEF ProcessMessage
  <2>3. /\ receiver'.at = "idle" /\ receiver'.left = <<>> /\ ShapeInv'
        /\ <<>> \in Seq(Requests)
    BY <1>7, <2>2 DEF ProcessMessage
  <2> QED
    BY <1>7, <2>1, <2>3 DEF ProcessMessage
<1>8. CASE HandleMessage
  <2>1. Head(msgChan) \in Message /\ msgChan' \in Seq(Message)
    BY <1>8, AboutTail DEF HandleMessage
  <2> QED
    BY <1>8, <2>1 DEF HandleMessage
<1>9. CASE HandleConsensusResult
  BY <1>9 DEF HandleConsensusResult, Message, Status
<1> QED
  BY <1>1, <1>2, <1>3, <1>4, <1>5, <1>6, <1>7, <1>8, <1>9
     DEF Next, ReceiverStep, RunnerStep

(***************************************************************************)
(* An entry of OracleNode.requests is never deleted.                       *)
(***************************************************************************)
LEMMA EntriesStay ==
  ASSUME TypeOK, Next, NEW q \in Requests, requests[q] # "none"
  PROVE  requests'[q] # "none"
<1> USE DEF TypeOK, lockVars, promptVars, serverVars, receiverVars, runnerVars
<1>1. ASSUME NEW r \in Requests, PromptStep(r) PROVE requests'[q] # "none"
  BY <1>1 DEF PromptStep, GetMessageCallback, SetMessageCallback, BeginPrompt,
     GetResponse, CheckLeader, ProposeValue, Broadcast, EndPrompt,
     GetRequestState, Respond
<1>2. ASSUME NEW r \in Requests, Consume(r) PROVE requests'[q] # "none"
  BY <1>2 DEF Consume
<1>3. ASSUME NEW m \in Message, Deliver(m) PROVE requests'[q] # "none"
  BY <1>3 DEF Deliver
<1>4. CASE ReceiverStep
  BY <1>4 DEF ReceiverStep, TakeMessage, Notify, CreateRequest, ProcessMessage,
     Created
<1>5. CASE RunnerStep
  BY <1>5 DEF RunnerStep, HandleMessage, HandleConsensusResult
<1> QED
  BY <1>1, <1>2, <1>3, <1>4, <1>5 DEF Next

(***************************************************************************)
(* CreateRequest makes the entry before ProcessMessage puts the message in *)
(* PBFT.msgChan, so that run finds it (handleMessages).                    *)
(***************************************************************************)
LEMMA KnownStep ==
  ASSUME IInv, Next, TypeOK'
  PROVE  KnownInv'
<1> USE DEF IInv, KnownInv, ResultFindsRequest, lockVars, promptVars,
        serverVars, receiverVars, runnerVars
<1>1. \A q \in Requests : requests[q] # "none" => requests'[q] # "none"
  BY EntriesStay
<1>2. /\ About(msgChan) \subseteq Requests
      /\ receiver.at # "idle" => receiver.msg.request \in Requests
      /\ runner.at = "result" => runner.msg.request \in Requests
  BY AboutRequests DEF TypeOK, Message
<1>3. CASE UNCHANGED <<receiver, msgChan, runner>>
  BY <1>1, <1>2, <1>3 DEF About
<1>4. CASE TakeMessage \/ Notify
  <2>1. receiver'.at # "process" /\ UNCHANGED <<msgChan, runner>>
    BY <1>4 DEF TakeMessage, Notify, ShapeInv
  <2> QED
    BY <1>1, <1>2, <2>1 DEF About
<1>5. CASE CreateRequest
  <2>1. /\ receiver'.msg = receiver.msg
        /\ receiver.msg.request \in Requests
        /\ requests'[receiver.msg.request] # "none"
        /\ UNCHANGED <<msgChan, runner>>
    BY <1>2, <1>5 DEF CreateRequest, Created, ShapeInv, TypeOK
  <2> QED
    BY <1>1, <1>2, <2>1 DEF About
<1>6. CASE ProcessMessage
  <2>1. About(msgChan') = About(msgChan) \cup {receiver.msg.request}
    BY <1>6, AboutAppend DEF ProcessMessage, TypeOK
  <2>2. receiver'.at = "idle" /\ receiver.at = "process" /\ UNCHANGED runner
    BY <1>6 DEF ProcessMessage
  <2>3. About(msgChan)' = About(msgChan')
    BY DEF About
  <2> QED
    BY <1>1, <1>2, <2>1, <2>2, <2>3
<1>7. CASE HandleMessage
  <2>1. /\ Head(msgChan).request \in About(msgChan)
        /\ About(msgChan') \subseteq About(msgChan)
    BY <1>7, AboutTail DEF HandleMessage, TypeOK
  <2>2. /\ UNCHANGED receiver
        /\ runner' = runner \/ runner'.msg = Head(msgChan)
    BY <1>7 DEF HandleMessage
  <2>3. About(msgChan)' = About(msgChan')
    BY DEF About
  <2> QED
    BY <1>1, <1>2, <2>1, <2>2, <2>3
<1>8. CASE HandleConsensusResult
  <2>1. runner'.at = "idle" /\ UNCHANGED <<receiver, msgChan>>
    BY <1>8 DEF HandleConsensusResult
  <2> QED
    BY <1>1, <1>2, <2>1 DEF About
<1>9. ASSUME NEW r \in Requests, PromptStep(r) \/ Consume(r)
      PROVE  UNCHANGED <<receiver, msgChan, runner>>
  BY <1>9 DEF PromptStep, GetMessageCallback, SetMessageCallback, BeginPrompt,
     GetResponse, CheckLeader, ProposeValue, Broadcast, EndPrompt,
     GetRequestState, Respond, Consume
<1>10. ASSUME NEW m \in Message, Deliver(m)
       PROVE  UNCHANGED <<receiver, msgChan, runner>>
  BY <1>10 DEF Deliver
<1> QED
  BY <1>3, <1>4, <1>5, <1>6, <1>7, <1>8, <1>9, <1>10
     DEF Next, ReceiverStep, RunnerStep

(***************************************************************************)
(* From BeginPrompt to Return the entry is written by its own prompt alone:*)
(* CreateRequest and HandleConsensusResult need the mutex it holds.        *)
(***************************************************************************)
LEMMA LockStep ==
  ASSUME IInv, Next
  PROVE  LockInv'
<1> USE NodeAssumption DEF IInv, TypeOK, LockInv, Submitted, lockVars,
        promptVars, serverVars, receiverVars, runnerVars
<1>1. ASSUME NEW r \in Requests, PromptStep(r) PROVE LockInv'
  <2>1. CASE GetMessageCallback(r)
    BY <2>1 DEF GetMessageCallback, Goto
  <2>2. CASE SetMessageCallback(r)
    BY <2>2 DEF SetMessageCallback, Goto, CanLock
  <2>3. CASE BeginPrompt(r)
    BY <2>3 DEF BeginPrompt, Goto, CanLock
  <2>4. CASE GetResponse(r)
    <3>1. mu = r
      BY <2>4 DEF GetResponse
    <3>2. ASSUME NEW q \in Requests, q # r, prompt'[q] \in Submitted
          PROVE  FALSE
      BY <2>4, <3>1, <3>2 DEF GetResponse, Goto
    <3>3. prompt'[r] \in Submitted => mu' = r /\ requests'[r] = "pending"
      BY <2>4, <3>1 DEF GetResponse, Goto, Return
    <3> QED
      BY <3>2, <3>3
  <2>5. CASE CheckLeader(r)
    <3>1. mu = r
      BY <2>5 DEF CheckLeader
    <3>2. ASSUME NEW q \in Requests, q # r, prompt'[q] \in Submitted
          PROVE  FALSE
      BY <2>5, <3>1, <3>2 DEF CheckLeader, Goto
    <3>3. prompt'[r] \in Submitted => mu' = r /\ requests'[r] = "pending"
      BY <2>5, <3>1 DEF CheckLeader, Goto, Return
    <3> QED
      BY <3>2, <3>3
  <2>6. CASE ProposeValue(r)
    BY <2>6 DEF ProposeValue, Goto
  <2>7. CASE Broadcast(r)
    BY <2>7 DEF Broadcast, Goto
  <2>8. CASE EndPrompt(r)
    <3>1. mu = r
      BY <2>8 DEF EndPrompt
    <3>2. ASSUME NEW q \in Requests, q # r, prompt'[q] \in Submitted
          PROVE  FALSE
      BY <2>8, <3>1, <3>2 DEF EndPrompt, Goto
    <3>3. prompt'[r] \in Submitted => mu' = r /\ requests'[r] = "pending"
      BY <2>8, <3>1 DEF EndPrompt, Goto, Return
    <3> QED
      BY <3>2, <3>3
  <2>9. CASE GetRequestState(r)
    BY <2>9 DEF GetRequestState, Goto
  <2>10. CASE Respond(r)
    BY <2>10 DEF Respond, Goto
  <2> QED
    BY <1>1, <2>1, <2>2, <2>3, <2>4, <2>5, <2>6, <2>7, <2>8, <2>9, <2>10
       DEF PromptStep
<1>2. ASSUME NEW r \in Requests, Consume(r) PROVE LockInv'
  BY <1>2 DEF Consume
<1>3. ASSUME NEW m \in Message, Deliver(m) PROVE LockInv'
  BY <1>3 DEF Deliver
<1>4. CASE TakeMessage \/ Notify \/ ProcessMessage \/ HandleMessage
  BY <1>4 DEF TakeMessage, Notify, ProcessMessage, HandleMessage
<1>5. CASE CreateRequest \/ HandleConsensusResult
  <2>1. mu = None /\ UNCHANGED <<mu, prompt>>
    BY <1>5 DEF CreateRequest, HandleConsensusResult, CanLock
  <2> QED
    BY <2>1
<1> QED
  BY <1>1, <1>2, <1>3, <1>4, <1>5 DEF Next, ReceiverStep, RunnerStep

\* A prompt never goes back before its proposal (ProcessPrompt).
LEMMA ProposedStep ==
  ASSUME IInv, Next
  PROVE  ProposedInv'
<1> USE DEF IInv, TypeOK, ProposedInv, lockVars, promptVars, serverVars,
        receiverVars, runnerVars
<1>1. ASSUME NEW r \in Requests, PromptStep(r) PROVE ProposedInv'
  <2>1. CASE GetMessageCallback(r)
    BY <2>1 DEF GetMessageCallback, Goto
  <2>2. CASE SetMessageCallback(r)
    BY <2>2 DEF SetMessageCallback, Goto
  <2>3. CASE BeginPrompt(r)
    BY <2>3 DEF BeginPrompt, Goto
  <2>4. CASE GetResponse(r)
    BY <2>4 DEF GetResponse, Goto
  <2>5. CASE CheckLeader(r)
    BY <2>5 DEF CheckLeader, Goto
  <2>6. CASE ProposeValue(r)
    BY <2>6 DEF ProposeValue, Goto
  <2>7. CASE Broadcast(r)
    BY <2>7 DEF Broadcast, Goto
  <2>8. CASE EndPrompt(r)
    <3>1. prompt'[r] \in {"read", "done"} /\ UNCHANGED proposed
      BY <2>8 DEF EndPrompt, Goto
    <3>2. \A q \in Requests \ {r} : prompt'[q] = prompt[q]
      BY <2>8 DEF EndPrompt, Goto
    <3> QED
      BY <3>1, <3>2
  <2>9. CASE GetRequestState(r)
    BY <2>9 DEF GetRequestState, Goto
  <2>10. CASE Respond(r)
    BY <2>10 DEF Respond, Goto
  <2> QED
    BY <1>1, <2>1, <2>2, <2>3, <2>4, <2>5, <2>6, <2>7, <2>8, <2>9, <2>10
       DEF PromptStep
<1>2. ASSUME NEW r \in Requests, Consume(r) PROVE ProposedInv'
  BY <1>2 DEF Consume
<1>3. ASSUME NEW m \in Message, Deliver(m) PROVE ProposedInv'
  BY <1>3 DEF Deliver
<1>4. CASE ReceiverStep
  BY <1>4 DEF ReceiverStep, TakeMessage, Notify, CreateRequest, ProcessMessage
<1>5. CASE RunnerStep
  BY <1>5 DEF RunnerStep, HandleMessage, HandleConsensusResult
<1> QED
  BY <1>1, <1>2, <1>3, <1>4, <1>5 DEF Next

(***************************************************************************)
(* What a prompt does to its entry: it never completes one (ProcessPrompt).*)
(***************************************************************************)
LEMMA PromptEffect ==
  ASSUME TypeOK, NEW r \in Requests, PromptStep(r)
  PROVE  /\ UNCHANGED <<isLeader, inbox, msgChan, receiver, runner>>
         /\ proposed \subseteq proposed'
         /\ \A q \in Requests : requests'[q] = "complete" => requests[q] = "complete"
         /\ \A q \in Requests \ {r} : requests'[q] = requests[q]
<1> USE DEF TypeOK, serverVars, receiverVars, runnerVars
<1>1. CASE BeginPrompt(r) \/ GetResponse(r) \/ EndPrompt(r)
  BY <1>1 DEF BeginPrompt, GetResponse, EndPrompt
<1>2. CASE ~(BeginPrompt(r) \/ GetResponse(r) \/ EndPrompt(r))
  <2>1. UNCHANGED <<isLeader, requests, receiverVars, runnerVars>>
        /\ proposed \subseteq proposed'
    BY <1>2 DEF PromptStep, GetMessageCallback, SetMessageCallback, CheckLeader,
       ProposeValue, Broadcast, GetRequestState, Respond
  <2> QED
    BY <2>1
<1> QED
  BY <1>1, <1>2

(***************************************************************************)
(* The messages that reach the leader answer its own proposals, and keep   *)
(* doing so on their way through handleMessages and run.                   *)
(***************************************************************************)
LEMMA LeaderStep ==
  ASSUME IInv, Next, TypeOK'
  PROVE  LeaderInv'
<1> USE DEF IInv, LeaderInv, lockVars, promptVars, serverVars, receiverVars,
        runnerVars
<1> DEFINE aboutInbox == About(inbox)
           aboutChan == About(msgChan)
<1>0. aboutInbox' = About(inbox') /\ aboutChan' = About(msgChan')
  BY DEF About
<1>1. ASSUME NEW r \in Requests, PromptStep(r) PROVE LeaderInv'
  BY <1>0, <1>1, PromptEffect
<1>2. ASSUME NEW r \in Requests, Consume(r) PROVE LeaderInv'
  BY <1>0, <1>2 DEF Consume
<1>3. ASSUME NEW m \in Message, Deliver(m) PROVE LeaderInv'
  <2>1. About(inbox') = About(inbox) \cup {m.request}
    BY <1>3, AboutAppend DEF Deliver, TypeOK
  <2>2. isLeader => m.request \in proposed
    BY <1>3 DEF Deliver, Arrives
  <2> QED
    BY <1>0, <1>3, <2>1, <2>2 DEF Deliver
<1>4. CASE TakeMessage
  <2>1. /\ Head(inbox).request \in About(inbox)
        /\ About(inbox') \subseteq About(inbox)
    BY <1>4, AboutTail DEF TakeMessage, TypeOK
  <2> QED
    BY <1>0, <1>4, <2>1 DEF TakeMessage
<1>5. CASE Notify
  <2>1. receiver.at = "notify" /\ receiver'.msg = receiver.msg
    BY <1>5 DEF Notify, ShapeInv
  <2> QED
    BY <1>0, <1>5, <2>1 DEF Notify
<1>6. CASE CreateRequest
  <2>1. receiver.at = "create" /\ receiver'.msg = receiver.msg
    BY <1>6 DEF CreateRequest, ShapeInv
  <2>2. \A q \in Requests : requests'[q] = "complete" => requests[q] = "complete"
    BY <1>6 DEF CreateRequest, Created, TypeOK
  <2> QED
    BY <1>0, <1>6, <2>1, <2>2 DEF CreateRequest
<1>7. CASE ProcessMessage
  <2>1. About(msgChan') = About(msgChan) \cup {receiver.msg.request}
    BY <1>7, AboutAppend DEF ProcessMessage, TypeOK
  <2> QED
    BY <1>0, <1>7, <2>1 DEF ProcessMessage
<1>8. CASE HandleMessage
  <2>1. /\ Head(msgChan).request \in About(msgChan)
        /\ About(msgChan') \subseteq About(msgChan)
    BY <1>8, AboutTail DEF HandleMessage, TypeOK
  <2> QED
    BY <1>0, <1>8, <2>1 DEF HandleMessage
<1>9. CASE HandleConsensusResult
  <2>1. \A q \in Requests :
          requests'[q] = "complete" =>
            requests[q] = "complete" \/ q = runner.msg.request
    BY <1>9 DEF HandleConsensusResult, TypeOK
  <2> QED
    BY <1>0, <1>9, <2>1 DEF HandleConsensusResult
<1> QED
  BY <1>1, <1>2, <1>3, <1>4, <1>5, <1>6, <1>7, <1>8, <1>9
     DEF Next, ReceiverStep, RunnerStep

\* Every step keeps the invariant, a stuttering one too.
LEMMA NextInv ==
  ASSUME IInv, [Next]_vars
  PROVE  IInv'
<1>1. CASE Next
  BY <1>1, TypeStep, KnownStep, LockStep, ProposedStep, LeaderStep DEF IInv
<1>2. CASE UNCHANGED vars
  <2> USE <1>2 DEF vars, lockVars, promptVars, serverVars, receiverVars,
          runnerVars, IInv
  <2>1. TypeOK' /\ ShapeInv'
    BY DEF TypeOK, ShapeInv
  <2>2. KnownInv' /\ LockInv' /\ ProposedInv'
    BY DEF KnownInv, LockInv, ProposedInv, ResultFindsRequest, About
  <2>3. LeaderInv'
    BY DEF LeaderInv, About
  <2> QED
    BY <2>1, <2>2, <2>3
<1> QED
  BY <1>1, <1>2

-----------------------------------------------------------------------------
\* The inductive invariant of a node holds in every behaviour.
THEOREM Invariance == Spec => []IInv
<1>1. Init => IInv
  BY InitInv
<1>2. IInv /\ [Next]_vars => IInv'
  BY NextInv
<1> QED
  BY <1>1, <1>2, PTL DEF Spec

(***************************************************************************)
(* The variables of a node keep their types; in particular the channel of  *)
(* a request never holds more than its capacity (handlePrompt).            *)
(***************************************************************************)
THEOREM TypeCorrect == Spec => []TypeOK
<1>1. IInv => TypeOK
  BY DEF IInv
<1> QED
  BY <1>1, Invariance, PTL

(***************************************************************************)
(* handleConsensusResult finds an entry for every result it is given,      *)
(* whatever the order of prompts and messages.                             *)
(***************************************************************************)
THEOREM ResultsFindRequests == Spec => []ResultFindsRequest
<1>1. IInv => ResultFindsRequest
  BY DEF IInv, KnownInv
<1> QED
  BY <1>1, Invariance, PTL

(***************************************************************************)
(* On the leader a request that is complete is complete for ever: its      *)
(* prompt is past the assignment of "consensus" (ProcessPrompt).           *)
(***************************************************************************)
THEOREM CompleteStays == Spec => LeaderKeepsComplete
<1>1. ASSUME IInv, Next, NEW q \in Requests, isLeader, requests[q] = "complete"
      PROVE  requests'[q] = "complete"
  <2> USE DEF lockVars, promptVars, serverVars, receiverVars, runnerVars
  <2>1. prompt[q] \in {"read", "wait", "done"}
    BY <1>1 DEF IInv, LeaderInv, ProposedInv, LockInv, Submitted
  <2>2. ASSUME NEW r \in Requests, PromptStep(r) PROVE requests'[q] = "complete"
    <3>1. CASE r = q
      BY <1>1, <2>1, <2>2, <3>1 DEF PromptStep, GetMessageCallback,
         SetMessageCallback, BeginPrompt, GetResponse, CheckLeader, ProposeValue,
         Broadcast, EndPrompt, GetRequestState, Respond
    <3>2. CASE r # q
      BY <1>1, <2>2, <3>2, PromptEffect DEF IInv
    <3> QED
      BY <3>1, <3>2
  <2>3. ASSUME NEW r \in Requests, Consume(r) PROVE requests'[q] = "complete"
    BY <1>1, <2>3 DEF Consume
  <2>4. ASSUME NEW m \in Message, Deliver(m) PROVE requests'[q] = "complete"
    BY <1>1, <2>4 DEF Deliver
  <2>5. CASE ReceiverStep
    BY <1>1, <2>5 DEF IInv, TypeOK, ReceiverStep, TakeMessage, Notify,
       CreateRequest, ProcessMessage, Created
  <2>6. CASE RunnerStep
    BY <1>1, <2>6 DEF IInv, TypeOK, RunnerStep, HandleMessage,
       HandleConsensusResult
  <2> QED
    BY <1>1, <2>2, <2>3, <2>4, <2>5, <2>6 DEF Next
<1>2. IInv /\ [Next]_vars => [KeepComplete]_vars
  BY <1>1 DEF KeepComplete
<1> QED
  BY <1>2, Invariance, PTL DEF Spec, LeaderKeepsComplete
=============================================================================
