-------------------------- MODULE OracleChainProofs --------------------------
(***************************************************************************)
(* Proofs about OracleChain, for any clients, prompts, fee, window and     *)
(* word size that satisfy ChainAssumption.                                 *)
(*                                                                         *)
(* TypeOK is inductive.  Solvent needs KnownInv: what is submitted was     *)
(* requested, so that an accepted response closes one open request.        *)
(* NothingSlips needs ScanInv, that the scan in progress will hand on its  *)
(* range, and WrapInv, that a lastBlock above the height of the chain,     *)
(* which the wrapped subtraction leaves, is where this run began.          *)
(***************************************************************************)
EXTENDS OracleChain, FiniteSetTheorems, TLAPS

LEMMA ModFacts ==
  ASSUME NEW n \in Nat
  PROVE  /\ n % Word \in 0..(Word - 1)
         /\ n % Word <= n
         /\ n < Word => n % Word = n
  BY ChainAssumption

\* FromBlock is never above the block after lastBlock, once that is set.
LEMMA FromBlockFacts ==
  ASSUME TypeOK
  PROVE  /\ ScanAfter \in Nat
         /\ FromBlock \in Nat
         /\ FromBlock <= ScanAfter + 1
         /\ ScanAfter <= MaxBlock => FromBlock = ScanAfter + 1
<1>1. ScanAfter \in Nat
  BY ChainAssumption DEF TypeOK, ScanAfter
<1>. QED  BY <1>1, ModFacts, ChainAssumption DEF FromBlock

-----------------------------------------------------------------------------
(***************************************************************************)
(* Every variable keeps its type.                                          *)
(***************************************************************************)
THEOREM TypeCorrect == Spec => []TypeOK
<1>1. Init => TypeOK
  <2> SUFFICES ASSUME Init PROVE TypeOK
    OBVIOUS
  <2>1. block \in Nat
    BY ChainAssumption DEF Init
  <2>2. pool \in Seq(Transaction)
    BY DEF Init
  <2>3. /\ phase \in [Clients -> {"new", "sent", "waiting", "answered", "timeout"}]
        /\ request \in [Clients -> Id \cup {None}]
        /\ heard \in [Clients -> [id: Id, answer: Answers] \cup {None}]
        /\ startBlock \in [Clients -> Nat]
        /\ lastChecked \in [Clients -> Nat]
    BY DEF Init
  <2>4. /\ created \subseteq Id /\ responses \subseteq Response
        /\ logs \subseteq Id /\ failed \subseteq Id
    BY DEF Init
  <2>5. /\ balance \in Nat /\ lastBlock \in Nat /\ upTo \in Nat
        /\ starts \in Nat /\ first \in Int
    BY DEF Init
  <2>6. authorized \in BOOLEAN /\ scanning \in BOOLEAN /\ hung \in BOOLEAN
    BY DEF Init
  <2>. QED  BY <2>1, <2>2, <2>3, <2>4, <2>5, <2>6 DEF TypeOK
<1>2. TypeOK /\ [Next]_vars => TypeOK'
  <2> SUFFICES ASSUME TypeOK, [Next]_vars PROVE TypeOK'
    OBVIOUS
  <2>0. Id \subseteq [prompt: Prompts, block: Nat]
    BY ChainAssumption DEF Id
  <2>1. CASE Seal
    BY <2>1 DEF Seal, TypeOK, contractVars, listenerVars, clientVars
  <2>2. ASSUME NEW c \in Clients, NEW p \in Prompts, NEW v \in Values,
               CreateRequest(c, p, v)
        PROVE  TypeOK'
    <3> DEFINE id == [prompt |-> p, block |-> block + 1]
    <3>1. id \in Id /\ v \in Nat
      BY <2>2, ChainAssumption DEF CreateRequest, TypeOK, Id
    <3>2. created' \subseteq Id /\ balance' \in Nat
      BY <2>2, <3>1 DEF CreateRequest, TypeOK
    <3>3. request' \in [Clients -> Id \cup {None}]
      BY <2>2, <3>1 DEF CreateRequest, TypeOK
    <3>4. phase' \in [Clients -> {"new", "sent", "waiting", "answered", "timeout"}]
      BY <2>2 DEF CreateRequest, TypeOK
    <3>. QED  BY <2>2, <3>2, <3>3, <3>4 DEF CreateRequest, TypeOK, listenerVars
  <2>3. CASE SubmitResponse
    <3> DEFINE t == Head(pool)
    <3>1. t \in Transaction /\ pool' \in Seq(Transaction)
      BY <2>3 DEF SubmitResponse, TypeOK
    <3>2. CASE Accepts(t) /\ balance >= Fee
      <4>1. [id |-> t.id, answer |-> t.answer, block |-> block + 1] \in Response
        BY <3>1, <3>2 DEF Accepts, Transaction, Response, TypeOK
      <4>2. balance - Fee \in Nat
        BY <3>2, ChainAssumption DEF TypeOK
      <4>3. /\ responses' = responses \cup
                 {[id |-> t.id, answer |-> t.answer, block |-> block + 1]}
            /\ balance' = balance - Fee
            /\ UNCHANGED failed
        BY <2>3, <3>2, ChainAssumption DEF SubmitResponse, TypeOK
      <4>. HIDE DEF t
      <4>4. responses' \subseteq Response
        BY <4>1, <4>3 DEF TypeOK
      <4>. QED  BY <2>3, <3>1, <4>2, <4>3, <4>4
                DEF SubmitResponse, TypeOK, listenerVars, clientVars
    <3>3. CASE ~(Accepts(t) /\ balance >= Fee)
      <4>1. t.id \in Id
        BY <3>1 DEF Transaction
      <4>2. UNCHANGED <<responses, balance>> /\ failed' = failed \cup {t.id}
        BY <2>3, <3>3, ChainAssumption DEF SubmitResponse, TypeOK
      <4>. QED  BY <2>3, <3>1, <4>1, <4>2
                DEF SubmitResponse, TypeOK, listenerVars, clientVars
    <3>. QED  BY <3>2, <3>3
  <2>4. CASE UpdateOracleAddress
    BY <2>4 DEF UpdateOracleAddress, TypeOK, listenerVars, clientVars
  <2>5. CASE Receive
    BY <2>5 DEF Receive, TypeOK, listenerVars, clientVars
  <2>6. CASE FilterLogs
    BY <2>6, FromBlockFacts
    DEF FilterLogs, Began, TypeOK, contractVars, clientVars
  <2>7. CASE FilterLogsFails
    BY <2>7, FromBlockFacts
    DEF FilterLogsFails, BeforeError, Began, TypeOK, contractVars, clientVars
  <2>8. CASE Process
    <3>1. ASSUME NEW i \in logs, NEW a \in Answers \cup {Empty}, Submit(i, a)
          PROVE  TypeOK'
      <4>1. [id |-> i, answer |-> a] \in Transaction
        BY DEF TypeOK, Transaction
      <4>2. pool' \in Seq(Transaction)
        BY <3>1, <4>1 DEF Submit, TypeOK
      <4>. QED  BY <3>1, <4>2 DEF Submit, TypeOK, contractVars, clientVars
    <3>2. ASSUME NEW i \in logs, Skip(i) PROVE TypeOK'
      BY <3>2 DEF Skip, TypeOK, contractVars, clientVars
    <3>. QED  BY <2>8, <3>1, <3>2 DEF Process
  <2>9. CASE EndScan
    BY <2>9 DEF EndScan, HeightRead, TypeOK, contractVars, clientVars
  <2>10. CASE Restart
    <3>1. starts' \in Nat /\ logs' \subseteq Id /\ first' \in Int
      BY <2>10 DEF Restart, TypeOK
    <3>. QED  BY <2>10, <3>1 DEF Restart, TypeOK, contractVars, clientVars
  <2>11. ASSUME NEW c \in Clients, WaitMined(c) PROVE TypeOK'
    BY <2>11 DEF WaitMined, TypeOK, contractVars, listenerVars
  <2>12. ASSUME NEW c \in Clients, Poll(c) PROVE TypeOK'
    <3>1. heard' \in [Clients -> [id: Id, answer: Answers] \cup {None}]
      <4>1. ASSUME NEW r \in responses, Matches(c, r)
            PROVE  [id |-> request[c], answer |-> r.answer] \in [id: Id, answer: Answers]
        BY <4>1 DEF Matches, TypeOK, Response
      <4>. QED  BY <2>12, <4>1 DEF Poll, TypeOK
    <3>2. /\ phase' \in [Clients -> {"new", "sent", "waiting", "answered", "timeout"}]
          /\ startBlock' \in [Clients -> Nat]
          /\ lastChecked' \in [Clients -> Nat]
      <4>1. CASE Return(c, "answered")
        BY <4>1 DEF Return, TypeOK
      <4>2. CASE UNCHANGED <<phase, startBlock>>
                 /\ lastChecked' = [lastChecked EXCEPT ![c] = block]
        BY <4>2 DEF TypeOK
      <4>. QED  BY <2>12, <4>1, <4>2 DEF Poll
    <3>. QED  BY <2>12, <3>1, <3>2 DEF Poll, TypeOK, contractVars, listenerVars
  <2>13. ASSUME NEW c \in Clients, Timeout(c) PROVE TypeOK'
    BY <2>13 DEF Timeout, Return, TypeOK, contractVars, listenerVars
  <2>14. CASE Hang
    BY <2>14 DEF Hang, TypeOK, contractVars, clientVars
  <2>15. CASE UNCHANGED vars
    BY <2>15 DEF vars, TypeOK, contractVars, listenerVars, clientVars
  <2>. QED  BY <2>1, <2>2, <2>3, <2>4, <2>5, <2>6, <2>7, <2>8, <2>9, <2>10,
               <2>11, <2>12, <2>13, <2>14, <2>15 DEF Next, ListenerStep
<1>. QED  BY <1>1, <1>2, PTL DEF Spec

-----------------------------------------------------------------------------
(***************************************************************************)
(* What the contract and the listener handle was requested.                *)
(***************************************************************************)
KnownInv ==
  /\ IsFiniteSet(created)
  /\ logs \subseteq created
  /\ \A k \in 1..Len(pool) : pool[k].id \in created
  /\ \A r \in responses : r.id \in created

Open == {i \in created : ~Fulfilled(i)}

Due == Fee * Cardinality(Open)

LEMMA KnownStep ==
  ASSUME TypeOK, KnownInv, [Next]_vars
  PROVE  KnownInv'
<1>1. CASE UNCHANGED <<created, pool, responses>> /\ logs' \subseteq logs
  BY <1>1 DEF KnownInv
<1>2. CASE Seal \/ UpdateOracleAddress \/ Receive \/ FilterLogsFails \/ EndScan
           \/ Hang \/ Restart
  BY <1>1, <1>2 DEF Seal, UpdateOracleAddress, Receive, FilterLogsFails, EndScan,
                    Hang, Restart, contractVars, listenerVars
<1>3. ASSUME NEW c \in Clients, NEW p \in Prompts, NEW v \in Values,
             CreateRequest(c, p, v)
      PROVE  KnownInv'
  <2> DEFINE id == [prompt |-> p, block |-> block + 1]
  <2>1. created' = created \/ created' = created \cup {id}
    BY <1>3 DEF CreateRequest
  <2>2. created \subseteq created' /\ IsFiniteSet(created')
    BY <2>1, FS_AddElement DEF KnownInv
  <2>3. UNCHANGED <<logs, pool, responses>>
    BY <1>3 DEF CreateRequest, listenerVars
  <2>. QED  BY <2>2, <2>3 DEF KnownInv
<1>4. CASE SubmitResponse
  <2>1. pool # <<>> /\ pool' = Tail(pool) /\ UNCHANGED <<created, logs>>
    BY <1>4 DEF SubmitResponse, listenerVars
  <2>2. /\ \A k \in 1..Len(pool') : pool'[k] = pool[k + 1] /\ k + 1 \in 1..Len(pool)
        /\ Head(pool) = pool[1] /\ 1 \in 1..Len(pool)
    BY <2>1 DEF TypeOK
  <2>3. Head(pool).id \in created /\ \A k \in 1..Len(pool') : pool'[k].id \in created'
    BY <2>1, <2>2 DEF KnownInv
  <2>4. \A r \in responses' : r \in responses \/ r.id = Head(pool).id
    BY <1>4 DEF SubmitResponse
  <2>. QED  BY <2>1, <2>3, <2>4 DEF KnownInv
<1>5. CASE FilterLogs
  BY <1>5 DEF FilterLogs, KnownInv, contractVars
<1>6. CASE Process
  <2>1. ASSUME NEW i \in logs, NEW a \in Answers \cup {Empty}, Submit(i, a)
        PROVE  KnownInv'
    <3>1. pool' = Append(pool, [id |-> i, answer |-> a]) /\ i \in created
      BY <2>1 DEF Submit, KnownInv
    <3>2. \A k \in 1..Len(pool') :
            \/ k \in 1..Len(pool) /\ pool'[k] = pool[k]
            \/ pool'[k] = [id |-> i, answer |-> a]
      BY <3>1 DEF TypeOK
    <3>3. \A k \in 1..Len(pool') : pool'[k].id \in created
      BY <3>1, <3>2 DEF KnownInv
    <3>. QED  BY <2>1, <3>3 DEF Submit, KnownInv, contractVars
  <2>2. ASSUME NEW i \in logs, Skip(i) PROVE KnownInv'
    BY <1>1, <2>2 DEF Skip, contractVars
  <2>. QED  BY <1>6, <2>1, <2>2 DEF Process
<1>7. ASSUME NEW c \in Clients, WaitMined(c) \/ Poll(c) \/ Timeout(c) PROVE KnownInv'
  BY <1>1, <1>7 DEF WaitMined, Poll, Timeout, contractVars, listenerVars
<1>8. CASE UNCHANGED vars
  BY <1>1, <1>8 DEF vars, contractVars, listenerVars
<1>. QED  BY <1>2, <1>3, <1>4, <1>5, <1>6, <1>7, <1>8 DEF Next, ListenerStep

\* One more open request, and one less, in the sum of the fees.
LEMMA OneMore ==
  ASSUME NEW n \in Nat
  PROVE  Fee * (n + 1) = Fee * n + Fee
  BY ChainAssumption

LEMMA SolventStep ==
  ASSUME TypeOK, KnownInv, Solvent, [Next]_vars
  PROVE  Solvent'
<1>0. IsFiniteSet(Open) /\ Cardinality(Open) \in Nat
  BY FS_Subset, FS_CardinalityType DEF KnownInv, Open
<1>1. balance >= Due
  BY DEF Solvent, Open, Due
<1>2. Due \in Nat /\ balance \in Nat
  BY <1>0, ChainAssumption DEF TypeOK, Due
<1>. SUFFICES balance' >= Due'
  BY DEF Solvent, Open, Due
<1>3. CASE UNCHANGED <<created, responses>> /\ balance' \in Nat /\ balance' >= balance
  <2>1. Due' = Due
    BY <1>3 DEF Open, Fulfilled, Due
  <2>. QED  BY <1>1, <1>2, <1>3, <2>1
<1>4. ASSUME NEW c \in Clients, NEW p \in Prompts, NEW v \in Values,
             CreateRequest(c, p, v)
      PROVE  balance' >= Due'
  <2> DEFINE id == [prompt |-> p, block |-> block + 1]
  <2>1. CASE UNCHANGED <<created, balance>>
    BY <1>3, <1>4, <2>1, <1>2 DEF CreateRequest
  <2>2. CASE v >= Fee /\ id \notin created /\ created' = created \cup {id}
             /\ balance' = balance + v /\ UNCHANGED responses
    <3>1. ~Fulfilled(id)
      BY <2>2 DEF KnownInv, Fulfilled
    <3>2. Open' = Open \cup {id} /\ id \notin Open
      BY <2>2, <3>1 DEF Open, Fulfilled
    <3>. HIDE DEF id
    <3>3. Cardinality(Open') = Cardinality(Open) + 1
      BY <1>0, <3>2, FS_AddElement
    <3>4. Due' = Due + Fee
      BY <1>0, <3>3, OneMore DEF Due
    <3>5. v \in Nat /\ Fee \in Nat
      BY ChainAssumption
    <3>. QED  BY <1>1, <1>2, <2>2, <3>4, <3>5
  <2>. QED  BY <1>4, <2>1, <2>2 DEF CreateRequest
<1>5. CASE SubmitResponse
  <2> DEFINE t == Head(pool)
  <2>1. CASE UNCHANGED <<responses, balance>>
    BY <1>2, <1>3, <1>5, <2>1 DEF SubmitResponse
  <2>2. CASE /\ Accepts(t)
             /\ responses' = responses \cup
                  {[id |-> t.id, answer |-> t.answer, block |-> block + 1]}
             /\ balance' = balance - Fee
             /\ UNCHANGED created
    <3>1. t.id \in Open
      <4>1. t = pool[1] /\ 1 \in 1..Len(pool)
        BY <1>5 DEF SubmitResponse, TypeOK
      <4>. QED  BY <2>2, <4>1 DEF KnownInv, Open, Accepts
    <3>2. Open' = Open \ {t.id}
      <4> DEFINE new == [id |-> t.id, answer |-> t.answer, block |-> block + 1]
      <4>1. responses' = responses \cup {new} /\ created' = created
        BY <2>2
      <4>2. new.id = t.id
        OBVIOUS
      <4>. HIDE DEF new, t
      <4>3. \A i : (\E r \in responses' : r.id = i)
                    <=> (\E r \in responses : r.id = i) \/ i = t.id
        BY <4>1, <4>2
      <4>. QED  BY <4>1, <4>3 DEF Open, Fulfilled
    <3>. HIDE DEF t
    <3>3. Cardinality(Open') = Cardinality(Open) - 1 /\ Cardinality(Open') \in Nat
      <4>1. Cardinality(Open') = Cardinality(Open) - 1 /\ IsFiniteSet(Open')
        BY <1>0, <3>1, <3>2, FS_RemoveElement
      <4>. QED  BY <4>1, FS_CardinalityType
    <3>4. Due' = Due - Fee
      <4>1. Cardinality(Open) = Cardinality(Open') + 1
        BY <1>0, <3>3
      <4>2. Due = Fee * Cardinality(Open') + Fee /\ Fee * Cardinality(Open') \in Nat
        BY <3>3, <4>1, OneMore, ChainAssumption DEF Due
      <4>3. Fee * Cardinality(Open') = Due - Fee
        BY <4>2, ChainAssumption
      <4>. QED  BY <4>3 DEF Due
    <3>5. balance' = balance - Fee
      BY <2>2
    <3>6. balance - Fee >= Due - Fee
      BY <1>1, <1>2, ChainAssumption
    <3>. QED  BY <3>4, <3>5, <3>6
  <2>. QED  BY <1>5, <2>1, <2>2 DEF SubmitResponse
<1>6. CASE Receive
  BY <1>2, <1>3, <1>6 DEF Receive
<1>7. CASE Seal \/ UpdateOracleAddress \/ FilterLogs \/ EndScan
           \/ FilterLogsFails \/ Hang \/ Restart
  BY <1>2, <1>3, <1>7 DEF Seal, UpdateOracleAddress, FilterLogs, EndScan,
                          FilterLogsFails, Hang, Restart, contractVars
<1>10. CASE Process
  <2>1. UNCHANGED contractVars
    BY <1>10 DEF Process, Submit, Skip
  <2>. QED  BY <1>2, <1>3, <2>1 DEF contractVars
<1>8. ASSUME NEW c \in Clients, WaitMined(c) \/ Poll(c) \/ Timeout(c)
      PROVE  balance' >= Due'
  BY <1>2, <1>3, <1>8 DEF WaitMined, Poll, Timeout, contractVars
<1>9. CASE UNCHANGED vars
  BY <1>2, <1>3, <1>9 DEF vars, contractVars
<1>. QED  BY <1>4, <1>5, <1>6, <1>7, <1>8, <1>9, <1>10 DEF Next, ListenerStep

(***************************************************************************)
(* The contract never lacks the fee of an open request, whatever           *)
(* submitResponse is called with and however often.                        *)
(***************************************************************************)
THEOREM StaysSolvent == Spec => []Solvent
<1>1. Init => KnownInv /\ Solvent
  <2> SUFFICES ASSUME Init PROVE KnownInv /\ Solvent
    OBVIOUS
  <2>1. KnownInv
    BY FS_EmptySet DEF Init, KnownInv
  <2>2. {i \in created : ~Fulfilled(i)} = {}
    BY DEF Init
  <2>3. Cardinality({i \in created : ~Fulfilled(i)}) = 0 /\ balance = 0
    BY <2>2, FS_EmptySet DEF Init
  <2>. QED  BY <2>1, <2>3, ChainAssumption DEF Solvent
<1>2. TypeOK /\ KnownInv /\ Solvent /\ [Next]_vars => KnownInv' /\ Solvent'
  BY KnownStep, SolventStep
<1>. QED  BY <1>1, <1>2, TypeCorrect, PTL DEF Spec

-----------------------------------------------------------------------------
\* The network has been asked for i, or has failed to answer it.
Handled(i) == Fulfilled(i) \/ Pending(i) \/ i \in failed

HeightInv == block <= MaxBlock

WrapInv == lastBlock > block => first >= FromBlock - 1

\* What is done so far, before and during a scan.
ScanInv ==
  /\ ~scanning => logs = {}
  /\ scanning =>
       /\ upTo <= block
       /\ \A i \in created :
            first < i.block /\ i.block <= upTo => Handled(i) \/ i \in logs

SlipInv ==
  /\ HeightInv
  /\ WrapInv
  /\ ScanInv
  /\ NothingSlips

\* A request stays handled until it is in logs, and logs lose none.
LEMMA HandledStep ==
  ASSUME TypeOK, [Next]_vars, NEW i \in created, Handled(i)
  PROVE  Handled(i)'
<1>1. CASE UNCHANGED pool /\ responses \subseteq responses' /\ failed \subseteq failed'
  BY <1>1 DEF Handled, Fulfilled, Pending
<1>2. CASE SubmitResponse
  <2>0. pool # <<>> /\ pool' = Tail(pool)
    BY <1>2 DEF SubmitResponse
  <2>1. responses \subseteq responses' /\ failed \subseteq failed'
    BY <1>2 DEF SubmitResponse
  <2>2. ASSUME NEW k \in 1..Len(pool), pool[k].id = i PROVE Handled(i)'
    <3>1. CASE k = 1
      <4>1. Head(pool).id = i
        BY <2>0, <2>2, <3>1 DEF TypeOK
      <4>2. i \in failed' \/ \E r \in responses' : r.id = i
        <5> DEFINE r == [id |-> Head(pool).id, answer |-> Head(pool).answer,
                         block |-> block + 1]
        <5>1. r \in responses' \/ Head(pool).id \in failed'
          BY <1>2 DEF SubmitResponse
        <5>2. r.id = i
          BY <4>1
        <5>. QED  BY <4>1, <5>1, <5>2
      <4>. QED  BY <4>2 DEF Handled, Fulfilled
    <3>2. CASE k # 1
      <4>1. k - 1 \in 1..Len(pool') /\ pool'[k - 1] = pool[k]
        BY <2>0, <3>2 DEF TypeOK
      <4>. QED  BY <2>2, <4>1 DEF Handled, Pending
    <3>. QED  BY <3>1, <3>2
  <2>. QED  BY <2>1, <2>2 DEF Handled, Fulfilled, Pending
<1>3. CASE Process
  <2>1. ASSUME NEW j \in logs, NEW a \in Answers \cup {Empty}, Submit(j, a)
        PROVE  Handled(i)'
    <3>1. pool' = Append(pool, [id |-> j, answer |-> a]) /\ UNCHANGED <<responses, failed>>
      BY <2>1 DEF Submit, contractVars
    <3>2. \A k \in 1..Len(pool) : k \in 1..Len(pool') /\ pool'[k] = pool[k]
      BY <3>1 DEF TypeOK
    <3>. QED  BY <3>1, <3>2 DEF Handled, Fulfilled, Pending
  <2>2. ASSUME NEW j \in logs, Skip(j) PROVE Handled(i)'
    BY <1>1, <2>2 DEF Skip, contractVars
  <2>. QED  BY <1>3, <2>1, <2>2 DEF Process
<1>4. CASE Seal \/ UpdateOracleAddress \/ Receive \/ FilterLogs \/ EndScan
           \/ FilterLogsFails \/ Hang \/ Restart
  BY <1>1, <1>4 DEF Seal, UpdateOracleAddress, Receive, FilterLogs, EndScan,
                    FilterLogsFails, Hang, Restart, contractVars
<1>5. ASSUME NEW c \in Clients, NEW p \in Prompts, NEW v \in Values,
             CreateRequest(c, p, v)
      PROVE  Handled(i)'
  BY <1>1, <1>5 DEF CreateRequest
<1>6. ASSUME NEW c \in Clients, WaitMined(c) \/ Poll(c) \/ Timeout(c)
      PROVE  Handled(i)'
  BY <1>1, <1>6 DEF WaitMined, Poll, Timeout, contractVars
<1>7. CASE UNCHANGED vars
  BY <1>1, <1>7 DEF vars, contractVars
<1>. QED  BY <1>2, <1>3, <1>4, <1>5, <1>6, <1>7 DEF Next, ListenerStep

\* What leaves logs is handled, outside of a restart.
LEMMA ProcessHandles ==
  ASSUME TypeOK, Process, NEW i \in logs, i \notin logs'
  PROVE  Handled(i)'
<1>1. ASSUME NEW j \in logs, NEW a \in Answers \cup {Empty}, Submit(j, a)
      PROVE  Handled(i)'
  <2>1. i = j /\ pool' = Append(pool, [id |-> i, answer |-> a])
    BY <1>1 DEF Submit
  <2>2. Len(pool') \in 1..Len(pool') /\ pool'[Len(pool')].id = i
    BY <2>1 DEF TypeOK
  <2>. QED  BY <2>2 DEF Handled, Pending
<1>2. ASSUME NEW j \in logs, Skip(j) PROVE Handled(i)'
  BY <1>2 DEF Skip, Handled
<1>. QED  BY <1>1, <1>2 DEF Process

LEMMA SlipStep ==
  ASSUME TypeOK, TypeOK', SlipInv, [Next]_vars
  PROVE  SlipInv'
<1>. USE DEF SlipInv
<1>0. \A i \in created : i.block \in 1..MaxBlock
  BY DEF TypeOK, Id
<1>1. CASE UNCHANGED <<block, created, listenerVars>>
  <2>1. \A i \in created : Handled(i) => Handled(i)'
    BY HandledStep
  <2>2. HeightInv' /\ WrapInv'
    BY <1>1 DEF HeightInv, WrapInv, FromBlock, ScanAfter, listenerVars
  <2>. QED  BY <1>1, <2>1, <2>2 DEF ScanInv, NothingSlips, Handled, listenerVars
<1>2. CASE Seal
  <2>1. block' = block + 1 /\ block < MaxBlock
        /\ UNCHANGED <<created, responses, pool, failed, listenerVars>>
    BY <1>2 DEF Seal, contractVars
  <2>2. HeightInv' /\ WrapInv'
    BY <2>1, ChainAssumption
    DEF HeightInv, WrapInv, FromBlock, ScanAfter, listenerVars, TypeOK
  <2>3. \A i \in created : Handled(i)' <=> Handled(i)
    BY <2>1 DEF Handled, Fulfilled, Pending
  <2>4. ScanInv'
    BY <2>1, <2>3 DEF ScanInv, listenerVars, TypeOK
  <2>5. ASSUME NEW i \in created, first < i.block, i.block <= lastBlock,
               lastBlock = block + 1
        PROVE  FALSE
    <3>1. FromBlock = lastBlock + 1
      <4>1. ScanAfter = lastBlock
        BY <2>5 DEF ScanAfter, TypeOK
      <4>2. lastBlock <= MaxBlock
        BY <2>1, <2>5, ChainAssumption DEF TypeOK
      <4>. QED  BY <4>1, <4>2, FromBlockFacts
    <3>. QED  BY <1>0, <2>5, <3>1 DEF WrapInv, TypeOK
  <2>. QED  BY <1>0, <2>1, <2>2, <2>3, <2>4, <2>5
            DEF NothingSlips, Handled, listenerVars, TypeOK
<1>3. ASSUME NEW c \in Clients, NEW p \in Prompts, NEW v \in Values,
             CreateRequest(c, p, v)
      PROVE  SlipInv'
  <2>1. UNCHANGED <<block, responses, pool, failed, listenerVars>>
    BY <1>3 DEF CreateRequest
  <2>2. HeightInv' /\ WrapInv'
    BY <2>1 DEF HeightInv, WrapInv, FromBlock, ScanAfter, listenerVars
  <2>3. \A i \in created' : i \in created \/ i.block = block + 1
    BY <1>3 DEF CreateRequest
  <2>4. \A i \in created : Handled(i)' <=> Handled(i)
    BY <2>1 DEF Handled, Fulfilled, Pending
  <2>5. UNCHANGED <<block, scanning, upTo, logs, first, lastBlock>>
    BY <2>1 DEF listenerVars
  <2>6. ScanInv'
    <3>1. scanning => \A i \in created' : i.block <= upTo => i \in created
      BY <1>0, <2>3 DEF ScanInv, TypeOK
    <3>. QED  BY <2>4, <2>5, <3>1 DEF ScanInv
  <2>7. lastBlock <= block => \A i \in created' : i.block <= lastBlock => i \in created
    BY <2>3 DEF TypeOK
  <2>. QED  BY <2>2, <2>4, <2>5, <2>6, <2>7 DEF NothingSlips, Handled
<1>4. ASSUME ~scanning, UNCHANGED <<block, created, responses, pool, failed>>,
             lastBlock' = ScanAfter, first' = Began
      PROVE  /\ HeightInv' /\ WrapInv'
             /\ \A i \in created : first' < i.block /\ i.block < FromBlock => Handled(i)'
             /\ \A i \in created :
                  first' < i.block /\ i.block <= lastBlock' /\ lastBlock' <= block
                    => Handled(i)'
  <2>1. \A i \in created : Handled(i)' <=> Handled(i)
    BY <1>4 DEF Handled, Fulfilled, Pending
  <2>2. logs = {}
    BY <1>4 DEF ScanInv
  <2>3. CASE lastBlock = 0
    <3>1. first' = FromBlock - 1
      BY <1>4, <2>3 DEF Began
    <3>2. FromBlock' = FromBlock
      <4>1. lastBlock' = 0 => ScanAfter' = ScanAfter
        BY <1>4, <2>3 DEF ScanAfter
      <4>2. ScanAfter' = ScanAfter
        BY <1>4, <4>1 DEF ScanAfter
      <4>. QED  BY <4>2 DEF FromBlock
    <3>3. WrapInv' /\ HeightInv'
      BY <1>4, <3>1, <3>2, FromBlockFacts DEF WrapInv, HeightInv
    <3>4. \A i \in created : ~(first' < i.block /\ i.block < FromBlock)
      BY <1>0, <3>1, FromBlockFacts
    <3>5. lastBlock' <= block => first' = lastBlock'
      BY <1>4, <3>1, FromBlockFacts, ChainAssumption DEF HeightInv, TypeOK
    <3>6. lastBlock' <= block =>
             \A i \in created : ~(first' < i.block /\ i.block <= lastBlock')
      BY <1>0, <3>5 DEF TypeOK
    <3>. QED  BY <3>3, <3>4, <3>6
  <2>4. CASE lastBlock # 0
    <3>1. lastBlock' = lastBlock /\ first' = first /\ ScanAfter = lastBlock
      BY <1>4, <2>4 DEF ScanAfter, Began
    <3>2. WrapInv' /\ HeightInv'
      BY <1>4, <3>1 DEF WrapInv, HeightInv, FromBlock, ScanAfter
    <3>3. \A i \in created :
            first < i.block /\ i.block <= lastBlock /\ lastBlock <= block => Handled(i)'
      BY <2>1, <2>2 DEF NothingSlips, Handled
    <3>4. ASSUME NEW i \in created, first < i.block, i.block < FromBlock
          PROVE  Handled(i)'
      <4>1. i.block <= lastBlock
        BY <1>0, <3>1, <3>4, FromBlockFacts DEF TypeOK
      <4>2. lastBlock <= block
        BY <1>0, <3>4, FromBlockFacts DEF WrapInv, TypeOK
      <4>. QED  BY <3>3, <3>4, <4>1, <4>2
    <3>. QED  BY <3>1, <3>2, <3>3, <3>4
  <2>. QED  BY <2>3, <2>4
<1>5. CASE FilterLogs
  <2>1. /\ HeightInv' /\ WrapInv'
        /\ \A i \in created : first' < i.block /\ i.block < FromBlock => Handled(i)'
        /\ \A i \in created :
             first' < i.block /\ i.block <= lastBlock' /\ lastBlock' <= block
               => Handled(i)'
    BY <1>4, <1>5 DEF FilterLogs, contractVars
  <2>2. scanning' /\ upTo' = block /\ UNCHANGED <<block, created>>
        /\ logs' = {i \in created : i.block \in FromBlock..block}
    BY <1>5 DEF FilterLogs, contractVars
  <2>3. \A i \in created : i.block <= block /\ ~(i.block < FromBlock) => i \in logs'
    BY <1>0, <2>2, FromBlockFacts DEF TypeOK
  <2>4. ScanInv'
    BY <1>0, <2>1, <2>2, <2>3 DEF ScanInv, TypeOK
  <2>. QED  BY <2>1, <2>2, <2>4 DEF NothingSlips, Handled
<1>6. CASE FilterLogsFails
  <2>1. /\ HeightInv' /\ WrapInv'
        /\ \A i \in created :
             first' < i.block /\ i.block <= lastBlock' /\ lastBlock' <= block
               => Handled(i)'
    BY <1>4, <1>6 DEF FilterLogsFails, BeforeError, contractVars
  <2>2. ~scanning /\ UNCHANGED <<scanning, logs, block, created>>
    BY <1>6 DEF FilterLogsFails, contractVars
  <2>. QED  BY <2>1, <2>2 DEF NothingSlips, Handled, ScanInv
<1>7. CASE Process
  <2>1. UNCHANGED <<block, created, lastBlock, first, upTo, scanning>>
    BY <1>7 DEF Process, Submit, Skip, contractVars
  <2>2. \A i \in created : Handled(i) \/ i \in logs => Handled(i)' \/ i \in logs'
    BY <1>7, HandledStep, ProcessHandles
  <2>3. HeightInv' /\ WrapInv'
    BY <2>1 DEF HeightInv, WrapInv, FromBlock, ScanAfter
  <2>4. ScanInv'
    <3>1. scanning \/ logs' = {}
      BY <1>7 DEF ScanInv, Process
    <3>. QED  BY <2>1, <2>2, <3>1 DEF ScanInv
  <2>. QED  BY <2>1, <2>2, <2>3, <2>4 DEF NothingSlips, Handled
<1>8. CASE EndScan
  <2>1. /\ scanning /\ logs = {} /\ lastBlock' = upTo /\ ~scanning'
        /\ UNCHANGED <<block, created, responses, pool, failed, logs, first>>
    BY <1>8 DEF EndScan, HeightRead, contractVars, TypeOK
  <2>2. \A i \in created : Handled(i)' <=> Handled(i)
    BY <2>1 DEF Handled, Fulfilled, Pending
  <2>3. HeightInv' /\ WrapInv'
    BY <2>1 DEF HeightInv, WrapInv, ScanInv, TypeOK
  <2>. QED  BY <2>1, <2>2, <2>3 DEF ScanInv, NothingSlips, Handled
<1>9. CASE Restart
  <2>1. lastBlock' = 0 /\ ~scanning' /\ logs' = {} /\ UNCHANGED <<block, created>>
    BY <1>9 DEF Restart, contractVars, TypeOK
  <2>2. HeightInv' /\ WrapInv' /\ ScanInv'
    BY <2>1 DEF HeightInv, WrapInv, ScanInv, TypeOK
  <2>3. \A i \in created' : ~(i.block <= lastBlock')
    BY <1>0, <2>1
  <2>. QED  BY <2>2, <2>3 DEF NothingSlips
<1>10. CASE SubmitResponse \/ UpdateOracleAddress \/ Receive
  BY <1>1, <1>10 DEF SubmitResponse, UpdateOracleAddress, Receive
<1>11. ASSUME NEW c \in Clients, WaitMined(c) \/ Poll(c) \/ Timeout(c)
       PROVE  SlipInv'
  BY <1>1, <1>11 DEF WaitMined, Poll, Timeout, contractVars
<1>12. CASE Hang
  <2>1. UNCHANGED <<block, created, lastBlock, upTo, scanning, logs, first>>
    BY <1>12 DEF Hang, contractVars
  <2>2. \A i \in created : Handled(i) => Handled(i)'
    BY HandledStep
  <2>3. HeightInv' /\ WrapInv'
    BY <2>1 DEF HeightInv, WrapInv, FromBlock, ScanAfter
  <2>. QED  BY <2>1, <2>2, <2>3 DEF ScanInv, NothingSlips, Handled
<1>13. CASE UNCHANGED vars
  BY <1>1, <1>13 DEF vars, contractVars
<1>. QED  BY <1>2, <1>3, <1>5, <1>6, <1>7, <1>8, <1>9, <1>10, <1>11, <1>12, <1>13
          DEF Next, ListenerStep

(***************************************************************************)
(* No request in the blocks between the start of a run of the listener and *)
(* lastBlock is passed over, for any window and wherever lastBlock wraps.  *)
(***************************************************************************)
THEOREM RangesMeet == Spec => []NothingSlips
<1>1. Init => SlipInv
  BY ChainAssumption DEF Init, SlipInv, HeightInv, WrapInv, ScanInv, NothingSlips
<1>2. TypeOK /\ TypeOK' /\ SlipInv /\ [Next]_vars => SlipInv'
  BY SlipStep
<1>3. SlipInv => NothingSlips
  BY DEF SlipInv
<1>. QED  BY <1>1, <1>2, <1>3, TypeCorrect, PTL DEF Spec

-----------------------------------------------------------------------------
ClientInv ==
  /\ ResponseStaysAhead
  /\ \A c \in Clients : phase[c] = "waiting" => lastChecked[c] <= block

LEMMA ClientStep ==
  ASSUME TypeOK, ClientInv, [Next]_vars
  PROVE  ClientInv'
<1>. USE DEF ClientInv
<1>1. CASE /\ UNCHANGED <<phase, request, startBlock, lastChecked, responses>>
           /\ block' \in Nat /\ block' >= block
  BY <1>1 DEF ResponseStaysAhead, TypeOK
<1>2. CASE SubmitResponse
  <2>1. UNCHANGED <<phase, request, startBlock, lastChecked, block>>
    BY <1>2 DEF SubmitResponse, clientVars
  <2>2. \A r \in responses' : r \in responses \/ r.block = block + 1
    BY <1>2 DEF SubmitResponse
  <2>. QED  BY <2>1, <2>2 DEF ResponseStaysAhead, TypeOK
<1>3. ASSUME NEW c \in Clients, NEW p \in Prompts, NEW v \in Values,
             CreateRequest(c, p, v)
      PROVE  ClientInv'
  <2>1. UNCHANGED <<block, responses, startBlock, lastChecked>>
    BY <1>3 DEF CreateRequest
  <2>2. \A d \in Clients : d # c => request'[d] = request[d] /\ phase'[d] = phase[d]
    BY <1>3 DEF CreateRequest, TypeOK
  <2>3. phase'[c] = "sent"
    BY <1>3 DEF CreateRequest, TypeOK
  <2>. QED  BY <2>1, <2>2, <2>3 DEF ResponseStaysAhead
<1>4. ASSUME NEW c \in Clients, WaitMined(c) PROVE ClientInv'
  <2>1. UNCHANGED <<block, responses, request>>
    BY <1>4 DEF WaitMined, contractVars
  <2>2. \A d \in Clients : d # c =>
          /\ phase'[d] = phase[d] /\ startBlock'[d] = startBlock[d]
          /\ lastChecked'[d] = lastChecked[d]
    BY <1>4 DEF WaitMined, TypeOK
  <2>3. startBlock'[c] = block /\ lastChecked'[c] = block
    BY <1>4 DEF WaitMined, TypeOK
  <2>4. ASSUME NEW d \in Clients, phase'[d] = "waiting"
        PROVE  lastChecked'[d] <= block'
    <3>1. CASE d = c
      BY <2>1, <2>3, <3>1 DEF TypeOK
    <3>2. CASE d # c
      BY <2>1, <2>2, <2>4, <3>2
    <3>. QED  BY <3>1, <3>2
  <2>5. ResponseStaysAhead'
    BY <2>1, <2>2, <2>3 DEF ResponseStaysAhead
  <2>. QED  BY <2>4, <2>5
<1>5. ASSUME NEW c \in Clients, NEW as \in {"answered", "timeout"}, Return(c, as),
             UNCHANGED <<block, responses, request>>
      PROVE  ClientInv'
  <2>1. \A d \in Clients : d # c =>
          /\ phase'[d] = phase[d] /\ startBlock'[d] = startBlock[d]
          /\ lastChecked'[d] = lastChecked[d]
    BY <1>5 DEF Return, TypeOK
  <2>2. phase'[c] # "waiting"
    BY <1>5 DEF Return, TypeOK
  <2>. QED  BY <1>5, <2>1, <2>2 DEF ResponseStaysAhead
<1>6. ASSUME NEW c \in Clients, Poll(c) PROVE ClientInv'
  <2>0. UNCHANGED <<block, responses, request>> /\ phase[c] = "waiting"
    BY <1>6 DEF Poll, contractVars
  <2>1. CASE Return(c, "answered")
    BY <1>5, <2>0, <2>1
  <2>2. CASE /\ \A r \in responses : ~Matches(c, r)
             /\ lastChecked' = [lastChecked EXCEPT ![c] = block]
             /\ UNCHANGED <<phase, startBlock>>
    <3>1. \A d \in Clients : d # c => lastChecked'[d] = lastChecked[d]
      BY <2>2 DEF TypeOK
    <3>2. lastChecked'[c] = block
      BY <2>2 DEF TypeOK
    <3>3. ASSUME NEW r \in responses, r.id = request[c], r.block >= startBlock[c]
          PROVE  r.block >= block
      <4>1. r.block >= lastChecked[c] /\ r.block \in Nat /\ lastChecked[c] \in Nat
        BY <2>0, <3>3 DEF ResponseStaysAhead, TypeOK, Response
      <4>2. ~(r.block <= block)
        BY <2>2, <3>3, <4>1 DEF Matches
      <4>. QED  BY <4>1, <4>2 DEF TypeOK
    <3>. QED  BY <2>0, <2>2, <3>1, <3>2, <3>3 DEF ResponseStaysAhead, TypeOK
  <2>. QED  BY <1>6, <2>1, <2>2 DEF Poll
<1>7. ASSUME NEW c \in Clients, Timeout(c) PROVE ClientInv'
  BY <1>5, <1>7 DEF Timeout, contractVars
<1>8. CASE Seal
  BY <1>1, <1>8 DEF Seal, contractVars, clientVars, TypeOK
<1>9. CASE UpdateOracleAddress \/ Receive \/ FilterLogs \/ Process \/ EndScan
           \/ FilterLogsFails \/ Hang \/ Restart
  <2>1. UNCHANGED <<block, responses, clientVars>>
    BY <1>9 DEF UpdateOracleAddress, Receive, FilterLogs, Process, Submit, Skip,
                EndScan, FilterLogsFails, Hang, Restart, contractVars
  <2>. QED  BY <1>1, <2>1 DEF clientVars, TypeOK
<1>10. CASE UNCHANGED vars
  BY <1>1, <1>10 DEF vars, contractVars, clientVars, TypeOK
<1>. QED  BY <1>2, <1>3, <1>4, <1>6, <1>7, <1>8, <1>9, <1>10 DEF Next, ListenerStep

(***************************************************************************)
(* A waiting client has not passed over a response made since it waits.    *)
(***************************************************************************)
THEOREM NoResponsePassedOver == Spec => []ResponseStaysAhead
<1>1. Init => ClientInv
  BY DEF Init, ClientInv, ResponseStaysAhead
<1>2. TypeOK /\ ClientInv /\ [Next]_vars => ClientInv'
  BY ClientStep
<1>3. ClientInv => ResponseStaysAhead
  BY DEF ClientInv
<1>. QED  BY <1>1, <1>2, <1>3, TypeCorrect, PTL DEF Spec

-----------------------------------------------------------------------------
HeardInv ==
  \A c \in Clients : phase[c] \in {"new", "sent", "waiting"} => heard[c] = None

answeredBar == {[id |-> r.id, answer |-> r.answer] : r \in responses}

LEMMA HeardStep ==
  ASSUME TypeOK, HeardInv, [Next]_vars
  PROVE  HeardInv'
<1>. USE DEF HeardInv
<1>1. CASE UNCHANGED <<phase, heard>>
  BY <1>1
<1>2. ASSUME NEW c \in Clients, NEW p \in Prompts, NEW v \in Values,
             CreateRequest(c, p, v)
      PROVE  HeardInv'
  BY <1>2 DEF CreateRequest, TypeOK
<1>3. ASSUME NEW c \in Clients, WaitMined(c) PROVE HeardInv'
  BY <1>3 DEF WaitMined, TypeOK
<1>4. ASSUME NEW c \in Clients, Poll(c) PROVE HeardInv'
  <2>1. CASE Return(c, "answered")
    <3>1. phase'[c] = "answered"
      BY <2>1 DEF Return, TypeOK
    <3>2. \A d \in Clients : d # c => phase'[d] = phase[d] /\ heard'[d] = heard[d]
      BY <1>4, <2>1 DEF Poll, Return, TypeOK
    <3>. QED  BY <3>1, <3>2
  <2>2. CASE UNCHANGED <<heard, phase>>
    BY <1>1, <2>2
  <2>. QED  BY <1>4, <2>1, <2>2 DEF Poll
<1>5. ASSUME NEW c \in Clients, Timeout(c) PROVE HeardInv'
  BY <1>5 DEF Timeout, Return, TypeOK
<1>6. CASE Seal \/ SubmitResponse \/ UpdateOracleAddress \/ Receive \/ ListenerStep
           \/ FilterLogsFails \/ Hang \/ Restart \/ UNCHANGED vars
  <2>1. UNCHANGED clientVars
    BY <1>6 DEF Seal, SubmitResponse, UpdateOracleAddress, Receive, ListenerStep,
                FilterLogs, Process, Submit, Skip, EndScan, FilterLogsFails, Hang, Restart, vars
  <2>. QED  BY <1>1, <2>1 DEF clientVars
<1>. QED  BY <1>2, <1>3, <1>4, <1>5, <1>6 DEF Next

LEMMA ServiceStep ==
  ASSUME TypeOK, KnownInv, HeardInv, [Next]_vars
  PROVE  [Service!Next]_(Service!vars)
<1>. USE DEF Service!Next, Service!vars
<1>1. CASE UNCHANGED <<created, responses, heard>>
  BY <1>1
<1>2. ASSUME NEW c \in Clients, NEW p \in Prompts, NEW v \in Values,
             CreateRequest(c, p, v)
      PROVE  [Service!Next]_(Service!vars)
  <2> DEFINE id == [prompt |-> p, block |-> block + 1]
  <2>1. UNCHANGED <<responses, heard>>
    BY <1>2 DEF CreateRequest
  <2>2. CASE UNCHANGED created
    BY <1>1, <2>1, <2>2
  <2>3. CASE id \notin created /\ created' = created \cup {id}
    <3>1. id \in Id
      BY <1>2, ChainAssumption DEF CreateRequest, TypeOK, Id
    <3>2. Service!Ask(id)
      BY <2>1, <2>3 DEF Service!Ask
    <3>. QED  BY <3>1, <3>2
  <2>. QED  BY <1>2, <2>2, <2>3 DEF CreateRequest
<1>3. CASE SubmitResponse
  <2> DEFINE t == Head(pool)
             a == [id |-> t.id, answer |-> t.answer]
  <2>1. UNCHANGED <<created, heard>>
    BY <1>3 DEF SubmitResponse, clientVars
  <2>2. CASE UNCHANGED responses
    BY <1>1, <2>1, <2>2
  <2>3. CASE Accepts(t) /\ responses' = responses \cup
               {[id |-> t.id, answer |-> t.answer, block |-> block + 1]}
    <3>1. t = pool[1] /\ 1 \in 1..Len(pool) /\ t \in Transaction
      BY <1>3 DEF SubmitResponse, TypeOK
    <3>2. t.id \in created /\ a \in [id: Id, answer: Answers]
      BY <2>3, <3>1 DEF KnownInv, Accepts, Transaction
    <3>3. \A other \in answeredBar : other.id # a.id
      BY <2>3 DEF Accepts, Fulfilled, answeredBar
    <3>4. answeredBar' = answeredBar \cup {a}
      <4> DEFINE new == [id |-> t.id, answer |-> t.answer, block |-> block + 1]
      <4>1. responses' = responses \cup {new} /\ [id |-> new.id, answer |-> new.answer] = a
        BY <2>3
      <4>. HIDE DEF new, a
      <4>. QED  BY <4>1 DEF answeredBar
    <3>5. a \in Service!Reply
      BY <3>2 DEF Service!Reply
    <3>6. PICK reply \in Service!Reply :
            /\ reply.id \in created
            /\ \A other \in answeredBar : other.id # reply.id
            /\ answeredBar' = answeredBar \cup {reply}
      BY <3>2, <3>3, <3>4, <3>5
    <3>7. Service!Answer(reply)
      BY <2>1, <3>6 DEF Service!Answer, answeredBar
    <3>. QED  BY <3>6, <3>7
  <2>. QED  BY <1>3, <2>2, <2>3 DEF SubmitResponse
<1>4. ASSUME NEW c \in Clients, Poll(c) PROVE [Service!Next]_(Service!vars)
  <2>1. UNCHANGED <<created, responses>> /\ phase[c] = "waiting"
    BY <1>4 DEF Poll, contractVars
  <2>2. CASE UNCHANGED heard
    BY <1>1, <2>1, <2>2
  <2>3. ASSUME NEW r \in responses, Matches(c, r),
               heard' = [heard EXCEPT ![c] = [id |-> request[c], answer |-> r.answer]]
        PROVE  [Service!Next]_(Service!vars)
    <3> DEFINE a == [id |-> r.id, answer |-> r.answer]
    <3>1. a \in answeredBar
      BY DEF answeredBar
    <3>2. heard[c] = None
      BY <2>1 DEF HeardInv
    <3>3. heard' = [heard EXCEPT ![c] = a]
      BY <2>3 DEF Matches
    <3>4. Service!Hear(c, a)
      BY <2>1, <3>2, <3>3 DEF Service!Hear
    <3>. QED  BY <3>1, <3>4 DEF answeredBar
  <2>. QED  BY <1>4, <2>2, <2>3 DEF Poll
<1>5. CASE Seal \/ UpdateOracleAddress \/ Receive \/ ListenerStep \/ FilterLogsFails
           \/ Hang \/ Restart \/ UNCHANGED vars
  <2>1. UNCHANGED <<created, responses, heard>>
    BY <1>5 DEF Seal, UpdateOracleAddress, Receive, ListenerStep, FilterLogs, Process,
                Submit, Skip, EndScan, FilterLogsFails, Hang, Restart, vars,
                contractVars, clientVars
  <2>. QED  BY <1>1, <2>1
<1>6. ASSUME NEW c \in Clients, WaitMined(c) \/ Timeout(c)
      PROVE  [Service!Next]_(Service!vars)
  BY <1>1, <1>6 DEF WaitMined, Timeout, contractVars
<1>. QED  BY <1>2, <1>3, <1>4, <1>5, <1>6 DEF Next

(***************************************************************************)
(* The chain, the listener and the clients implement OracleService.        *)
(***************************************************************************)
THEOREM ImplementsService == Spec => ServesRequests
<1>1. Init => KnownInv /\ HeardInv /\ Service!Init
  <2> SUFFICES ASSUME Init PROVE KnownInv /\ HeardInv /\ Service!Init
    OBVIOUS
  <2>1. KnownInv /\ HeardInv
    BY FS_EmptySet DEF Init, KnownInv, HeardInv
  <2>2. Service!Init
    BY DEF Init, Service!Init
  <2>. QED  BY <2>1, <2>2
<1>2. TypeOK /\ KnownInv /\ HeardInv /\ [Next]_vars
        => KnownInv' /\ HeardInv' /\ [Service!Next]_(Service!vars)
  BY KnownStep, HeardStep, ServiceStep
<1>. QED  BY <1>1, <1>2, TypeCorrect, PTL DEF Spec, ServesRequests, Service!Spec
=============================================================================
