---------------------------- MODULE OracleChain ----------------------------
(***************************************************************************)
(* The contract (project/contracts/Oracle.sol), the listener that answers  *)
(* its requests (monitorBlockchain of project/scripts/main.go) and the     *)
(* clients that make them and wait (project/scripts/caller.go).            *)
(*                                                                         *)
(* The three meet on a chain.  A transaction is executed in block + 1 and  *)
(* is visible, as an event or by its receipt, once that block is sealed.   *)
(* The listener and the clients poll: each remembers the last block it has *)
(* looked at and asks for the events since.  The listener does not wait    *)
(* for its transactions, and forgets everything when it is restarted.  Its *)
(* calls of the node and of the chain have no timeout: one of them may     *)
(* never return, and then only a restart sets it going again.              *)
(*                                                                         *)
(* The network of oracle nodes answers a request with some answer, with no *)
(* answer (handlePrompt found no IPFS CID), or with an error; what it did  *)
(* for an earlier attempt at the same request has no influence.            *)
(***************************************************************************)
EXTENDS Integers, FiniteSets, Sequences

CONSTANTS Clients,    \* those who make a request, each one
          Callers,    \* the runs of caller.go among them, which wait
          Prompts,    \* the prompts, as one account sends them
          Answers,    \* the IPFS CIDs
          Empty,      \* the empty CID
          None,       \* no request, no answer
          Values,     \* what a client may pay: caller.go pays 0
          Fee,        \* requestFee
          Window,     \* how far back the listener starts: 100 in the code
          Word,       \* 2^64 in the code: the range of uint64
          Heights,    \* the heights the chain may have at first
          MaxBlock,   \* bound on the height of the chain
          MaxStarts,  \* bound on the restarts of the listener
          MaxBalance  \* bound on the balance that plain transfers lead to

ASSUME ChainAssumption ==
  /\ Callers \subseteq Clients
  /\ Values \subseteq Nat
  /\ Fee \in Nat
  /\ Window \in Nat
  /\ Word \in Nat \ {0}
  /\ MaxBlock \in Nat
  /\ MaxBlock + 1 < Word
  /\ Heights \subseteq 0..MaxBlock
  /\ MaxStarts \in Nat
  /\ MaxBalance \in Nat
  /\ Empty \notin Answers

\* keccak256(prompt, msg.sender, block.timestamp)
Id == [prompt: Prompts, block: 1..MaxBlock]

ASSUME NoneAssumption == None \notin Id /\ None \notin [id: Id, answer: Answers]

VARIABLES
  block,        \* the height of the chain
  created,      \* Oracle.requests, with the RequestCreated events
  responses,    \* the fulfilled ones, with the ResponseReceived events
  balance,      \* the balance of the contract
  authorized,   \* oracleAddress is the account of the listener
  pool,         \* the listener's transactions, by their nonce
  lastBlock,    \* monitorBlockchain's lastBlock
  upTo,         \* its currentBlock, while it is in use
  scanning,     \* it is in the loop over logs
  hung,         \* it is in a call that never returns
  logs,         \* what is left of its logs
  starts,       \* how often the listener was restarted
  phase,        \* where a client is
  request,      \* its requestID, or None when it found none
  startBlock,   \* waitForResponse's startBlock
  lastChecked,  \* its lastCheckedBlock
  heard,        \* the answer it logged
  first,        \* history: the block after which this run of the listener began
  failed        \* history: the requests an attempt has failed for

contractVars == <<created, responses, balance, authorized>>
listenerVars == <<lastBlock, upTo, scanning, hung, logs, starts, first>>
clientVars == <<phase, request, startBlock, lastChecked, heard>>
vars == <<block, contractVars, pool, listenerVars, clientVars, failed>>

Response == [id: Id, answer: Answers, block: Nat]

Transaction == [id: Id, answer: Answers \cup {Empty}]

Init ==
  /\ block \in Heights
  /\ created = {}
  /\ responses = {}
  /\ balance = 0
  /\ authorized = TRUE
  /\ pool = <<>>
  /\ lastBlock = 0
  /\ upTo = 0
  /\ scanning = FALSE
  /\ hung = FALSE
  /\ logs = {}
  /\ starts = 0
  /\ phase = [c \in Clients |-> "new"]
  /\ request = [c \in Clients |-> None]
  /\ startBlock = [c \in Clients |-> 0]
  /\ lastChecked = [c \in Clients |-> 0]
  /\ heard = [c \in Clients |-> None]
  /\ first = 0
  /\ failed = {}

\* requests[i].fulfilled
Fulfilled(i) == \E r \in responses : r.id = i

-----------------------------------------------------------------------------
(***************************************************************************)
(* The chain and the contract.  A transaction whose require fails is       *)
(* executed too, and changes nothing.                                      *)
(***************************************************************************)
Seal ==
  /\ block < MaxBlock
  /\ block' = block + 1
  /\ UNCHANGED <<contractVars, pool, listenerVars, clientVars, failed>>

\* createRequest, by the transaction of c.  The last block is not sealed.
CreateRequest(c, p, v) ==
  LET id == [prompt |-> p, block |-> block + 1]
  IN /\ phase[c] = "new"
     /\ block < MaxBlock
     /\ \/ /\ v >= Fee
           /\ id \notin created
           /\ created' = created \cup {id}
           /\ balance' = balance + v
           /\ request' = [request EXCEPT ![c] = id]
        \/ /\ v < Fee \/ id \in created
           /\ UNCHANGED <<created, balance, request>>
     /\ phase' = [phase EXCEPT ![c] = "sent"]
     /\ UNCHANGED <<block, responses, authorized, pool, listenerVars,
                    startBlock, lastChecked, heard, failed>>

\* Mutant: a fulfilled request is fulfilled again.
AcceptsAgain(t) == authorized /\ t.answer # Empty

Accepts(t) == authorized /\ ~Fulfilled(t.id) /\ t.answer # Empty

\* submitResponse, with the transfer of the fee, which may fail as well.
SubmitResponse ==
  LET t == Head(pool)
  IN /\ pool # <<>>
     /\ pool' = Tail(pool)
     /\ \/ /\ Accepts(t)
           /\ balance >= Fee
           /\ responses' = responses \cup
                {[id |-> t.id, answer |-> t.answer, block |-> block + 1]}
           /\ balance' = balance - Fee
           /\ UNCHANGED failed
        \/ /\ ~Accepts(t) \/ balance < Fee
           /\ failed' = failed \cup {t.id}
           /\ UNCHANGED <<responses, balance>>
     /\ UNCHANGED <<block, created, authorized, listenerVars, clientVars>>

\* The owner names another account, or the listener's again.
UpdateOracleAddress ==
  /\ authorized' = ~authorized
  /\ UNCHANGED <<block, created, responses, balance, pool, listenerVars,
                 clientVars, failed>>

\* receive: a transfer without a call.
Receive ==
  /\ balance < MaxBalance
  /\ balance' = balance + 1
  /\ UNCHANGED <<block, created, responses, authorized, pool, listenerVars,
                 clientVars, failed>>

-----------------------------------------------------------------------------
(***************************************************************************)
(* monitorBlockchain.  lastBlock is 0 until the first tick, which sets it, *)
(* whether or not FilterLogs then succeeds.  All its arithmetic is in      *)
(* uint64: on a chain of less than Window blocks it wraps around, and the  *)
(* node refuses a range that starts above the height of the chain.         *)
(***************************************************************************)

\* Mutant: the difference is an integer.
ScanAfterUnwrapped == IF lastBlock = 0 THEN block - Window ELSE lastBlock

ScanAfter == IF lastBlock = 0 THEN (block - Window) % Word ELSE lastBlock

FromBlock == (ScanAfter + 1) % Word

\* Where this run of the listener began, once lastBlock is set.
Began == IF lastBlock = 0 THEN FromBlock - 1 ELSE first

FilterLogs ==
  /\ ~scanning
  /\ ~hung
  /\ FromBlock <= block
  /\ logs' = {i \in created : i.block \in FromBlock..block}
  /\ lastBlock' = ScanAfter
  /\ first' = Began
  /\ upTo' = block
  /\ scanning' = TRUE
  /\ UNCHANGED <<block, contractVars, pool, hung, starts, clientVars, failed>>

\* Mutant: the blocks that could not be read are passed over.
AfterError == block

BeforeError == ScanAfter

\* FilterLogs returns an error: continue.
FilterLogsFails ==
  /\ ~scanning
  /\ ~hung
  /\ lastBlock' = BeforeError
  /\ first' = Began
  /\ UNCHANGED <<block, contractVars, pool, upTo, scanning, hung, logs, starts,
                 clientVars, failed>>

\* The logs are in the order of their blocks.
Earliest(i) == i \in logs /\ \A j \in logs : i.block <= j.block

\* sendToOracle, createTransactionAuth and Transact succeed.
Submit(i, a) ==
  /\ Earliest(i)
  /\ ~hung
  /\ pool' = Append(pool, [id |-> i, answer |-> a])
  /\ logs' = logs \ {i}
  /\ UNCHANGED <<block, contractVars, lastBlock, upTo, scanning, hung, starts,
                 first, clientVars, failed>>

\* One of them fails: continue with the next log.
Skip(i) ==
  /\ Earliest(i)
  /\ ~hung
  /\ failed' = failed \cup {i}
  /\ logs' = logs \ {i}
  /\ UNCHANGED <<block, contractVars, pool, lastBlock, upTo, scanning, hung, starts,
                 first, clientVars>>

\* Mutant: the height is read again after the logs were processed.
HeightNow == block

HeightRead == upTo

EndScan ==
  /\ scanning
  /\ ~hung
  /\ logs = {}
  /\ lastBlock' = HeightRead
  /\ upTo' = 0
  /\ scanning' = FALSE
  /\ UNCHANGED <<block, contractVars, pool, hung, logs, starts, first,
                 clientVars, failed>>

(***************************************************************************)
(* A call does not return: sendToOracle's, whose client has Timeout 0, of  *)
(* a node that does not answer, or one of the calls of the chain, which    *)
(* are given a context without a deadline.                                 *)
(***************************************************************************)
Hang ==
  /\ ~hung
  /\ hung' = TRUE
  /\ UNCHANGED <<block, contractVars, pool, lastBlock, upTo, scanning, logs, starts,
                 first, clientVars, failed>>

(***************************************************************************)
(* The listener stops at any point and is started again.  Before its first *)
(* tick this makes no difference, unless it hangs.                         *)
(***************************************************************************)
Restart ==
  /\ starts < MaxStarts
  /\ lastBlock # 0 \/ hung
  /\ starts' = starts + 1
  /\ lastBlock' = 0
  /\ upTo' = 0
  /\ scanning' = FALSE
  /\ hung' = FALSE
  /\ logs' = {}
  /\ first' = 0
  /\ UNCHANGED <<block, contractVars, pool, clientVars, failed>>

-----------------------------------------------------------------------------
(***************************************************************************)
(* A client: WaitMined returns the receipt, whose events hold the id, and  *)
(* waitForResponse begins at the height it finds then.                     *)
(***************************************************************************)
WaitMined(c) ==
  /\ c \in Callers
  /\ phase[c] = "sent"
  /\ request[c] # None => request[c].block <= block
  /\ phase' = [phase EXCEPT ![c] = "waiting"]
  /\ startBlock' = [startBlock EXCEPT ![c] = block]
  /\ lastChecked' = [lastChecked EXCEPT ![c] = block]
  /\ UNCHANGED <<block, contractVars, pool, listenerVars, request, heard, failed>>

\* Mutants: the range leaves its first block out; all events are looked at.
MatchesAfter(c, r) ==
  r.id = request[c] /\ lastChecked[c] < r.block /\ r.block <= block
MatchesAny(c, r) ==
  request[c] # None /\ lastChecked[c] <= r.block /\ r.block <= block

Matches(c, r) ==
  r.id = request[c] /\ lastChecked[c] <= r.block /\ r.block <= block

\* waitForResponse returns, and its variables are gone.
Return(c, as) ==
  /\ phase' = [phase EXCEPT ![c] = as]
  /\ startBlock' = [startBlock EXCEPT ![c] = 0]
  /\ lastChecked' = [lastChecked EXCEPT ![c] = 0]

\* A tick on which the height has changed.
Poll(c) ==
  /\ phase[c] = "waiting"
  /\ block # lastChecked[c]
  /\ \/ \E r \in responses :
          /\ Matches(c, r)
          /\ heard' = [heard EXCEPT ![c] = [id |-> request[c], answer |-> r.answer]]
          /\ Return(c, "answered")
     \/ /\ \A r \in responses : ~Matches(c, r)
        /\ lastChecked' = [lastChecked EXCEPT ![c] = block]
        /\ UNCHANGED <<heard, phase, startBlock>>
  /\ UNCHANGED <<block, contractVars, pool, listenerVars, request, failed>>

\* The timeout of 300 seconds.
Timeout(c) ==
  /\ phase[c] = "waiting"
  /\ Return(c, "timeout")
  /\ UNCHANGED <<block, contractVars, pool, listenerVars, request, heard, failed>>

-----------------------------------------------------------------------------
Process == \E i \in logs : Skip(i) \/ \E a \in Answers \cup {Empty} : Submit(i, a)

ListenerStep == FilterLogs \/ Process \/ EndScan

Next ==
  \/ Seal
  \/ \E c \in Clients, p \in Prompts, v \in Values : CreateRequest(c, p, v)
  \/ SubmitResponse
  \/ UpdateOracleAddress
  \/ Receive
  \/ ListenerStep
  \/ FilterLogsFails
  \/ Hang
  \/ Restart
  \/ \E c \in Clients : WaitMined(c) \/ Poll(c) \/ Timeout(c)

Spec == Init /\ [][Next]_vars

(***************************************************************************)
(* Blocks are sealed, transactions are executed, clients and the listener  *)
(* keep ticking.  The listener's calls return unless it hangs.             *)
(***************************************************************************)
FairSpec ==
  /\ Spec
  /\ WF_vars(Seal)
  /\ WF_vars(SubmitResponse)
  /\ WF_vars(ListenerStep)
  /\ \A c \in Clients : WF_vars(WaitMined(c)) /\ WF_vars(Poll(c))

-----------------------------------------------------------------------------
\* Types of the contract's, the listener's and the clients' variables.
TypeOK ==
  /\ block \in Nat
  /\ created \subseteq Id
  /\ responses \subseteq Response
  /\ balance \in Nat
  /\ authorized \in BOOLEAN
  /\ pool \in Seq(Transaction)
  /\ lastBlock \in Nat
  /\ upTo \in Nat
  /\ scanning \in BOOLEAN
  /\ hung \in BOOLEAN
  /\ logs \subseteq Id
  /\ starts \in Nat
  /\ phase \in [Clients -> {"new", "sent", "waiting", "answered", "timeout"}]
  /\ request \in [Clients -> Id \cup {None}]
  /\ startBlock \in [Clients -> Nat]
  /\ lastChecked \in [Clients -> Nat]
  /\ heard \in [Clients -> [id: Id, answer: Answers] \cup {None}]
  /\ first \in Int
  /\ failed \subseteq Id

(***************************************************************************)
(* The contract can pay for every open request: submitResponse never lacks *)
(* the fee, although a restarted listener submits requests again that it   *)
(* had submitted before, and the fee of a request is not kept apart.       *)
(***************************************************************************)
Solvent == balance >= Fee * Cardinality({i \in created : ~Fulfilled(i)})

(***************************************************************************)
(* The ranges of monitorBlockchain meet: a request in a block between the  *)
(* start of the scan and lastBlock was submitted, or an attempt at it      *)
(* failed, although blocks are sealed while the logs are processed and     *)
(* FilterLogs fails now and then.                                          *)
(***************************************************************************)
Pending(i) == \E k \in 1..Len(pool) : pool[k].id = i

NothingSlips ==
  \A i \in created :
    first < i.block /\ i.block <= lastBlock /\ lastBlock <= block
      => Fulfilled(i) \/ Pending(i) \/ i \in failed \/ i \in logs

(***************************************************************************)
(* The ranges of waitForResponse meet: while a client waits, a response    *)
(* since its startBlock is still in the range it asks for next.  Responses *)
(* before startBlock are lost to it.                                       *)
(***************************************************************************)
ResponseStaysAhead ==
  \A c \in Clients, r \in responses :
    phase[c] = "waiting" /\ r.id = request[c] /\ r.block >= startBlock[c]
      => r.block >= lastChecked[c]

(***************************************************************************)
(* Contract, listener and clients together do what OracleService promises, *)
(* whatever is submitted twice, late or after the client has left.         *)
(***************************************************************************)
Service ==
  INSTANCE OracleService
  WITH asked    <- created,
       answered <- {[id |-> r.id, answer |-> r.answer] : r \in responses}

ServesRequests == Service!Spec

(***************************************************************************)
(* A request is answered unless an attempt at it failed (main.go:226), it  *)
(* is older than where the listener started, lastBlock has wrapped around  *)
(* or the listener hangs in one of its calls.  A hang costs a request that *)
(* the window reaches nothing but time: once restarted, the listener comes *)
(* back to it.                                                             *)
(***************************************************************************)
Deaf == lastBlock # 0 /\ FromBlock > block + 1

RequestAnswered ==
  \A i \in Id :
    i \in created ~>
      Fulfilled(i) \/ i \in failed \/ i.block <= first \/ Deaf \/ hung
=============================================================================
