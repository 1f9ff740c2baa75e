----------------------------- MODULE Heartbeats -----------------------------
(***************************************************************************)
(* The peers of lab1 (lab1/src/main.c).  Each sends heartbeats to the      *)
(* peers of its hosts file, over UDP, and counts the peers it hears from;  *)
(* when it has heard from all others it prints READY and only sends.       *)
(*                                                                         *)
(* A heartbeat does not say who sent it.  A peer knows the sender by its   *)
(* address, and learns the addresses by sending: getaddrinfo finds the     *)
(* address of a peer whose container runs.  Containers stop and start, a   *)
(* started one takes any free address, and a heartbeat may be read after   *)
(* its sender's address has passed to another peer.                        *)
(***************************************************************************)
EXTENDS Integers, FiniteSets, Sequences

CONSTANTS N,          \* the entries of the hosts file
          Pool,       \* the addresses that the container of a peer may get
          None,       \* no address
          OwnName,    \* the peers whose hostname is their entry, for strcmp
          Buffer,     \* what the receive buffer of a socket holds
          MaxStops    \* bound on the stops of each container

Peers == 1..N

Addresses == UNION {Pool[p] : p \in Peers}

ASSUME HeartbeatsAssumption ==
  /\ N \in Nat \ {0, 1}
  /\ None \notin Addresses
  /\ OwnName \subseteq Peers
  /\ Buffer \in Nat
  /\ MaxStops \in [Peers -> Nat]

VARIABLES
  host,          \* the address of a peer's container, None while it is stopped
  ip_addresses,  \* peer_info->ip_addresses of each peer
  received,      \* peer_info->received: the peers it has heard from
  ready_count,   \* ready_count of main
  at,            \* i of send_heartbeat, N + 1 in discover_peers
  inbox,         \* the senders' addresses of the heartbeats in its socket
  printed,       \* the peers that have printed READY
  started,       \* history: the peers that were started
  stops          \* how often the container of a peer was stopped

vars == <<host, ip_addresses, received, ready_count, at, inbox, printed, started,
          stops>>

Unknown == [q \in Peers |-> None]

Init ==
  /\ host = [p \in Peers |-> None]
  /\ ip_addresses = [p \in Peers |-> Unknown]
  /\ received = [p \in Peers |-> {}]
  /\ ready_count = [p \in Peers |-> 0]
  /\ at = [p \in Peers |-> 1]
  /\ inbox = [p \in Peers |-> <<>>]
  /\ printed = {}
  /\ started = {}
  /\ stops = [p \in Peers |-> 0]

Runs(p) == host[p] # None

Ready(p) == ready_count[p] >= N - 1

\* The entry is the peer's own: strcmp(peers[i], my_hostname) == 0.
SkipsOwn(p, i) == i = p /\ p \in OwnName

\* The next entry that p does not skip, or the end of the list.
Entry(p, i) == IF SkipsOwn(p, i) THEN i + 1 ELSE i

\* The container of p is started, and main up to its loop.
Start(p) ==
  /\ ~Runs(p)
  /\ \E a \in Pool[p] :
       /\ \A q \in Peers : host[q] # a
       /\ host' = [host EXCEPT ![p] = a]
  /\ started' = started \cup {p}
  /\ at' = [at EXCEPT ![p] = Entry(p, 1)]
  /\ UNCHANGED <<ip_addresses, received, ready_count, inbox, printed, stops>>

\* The container of p is stopped, with all that its process knew.
Stop(p) ==
  /\ Runs(p)
  /\ stops[p] < MaxStops[p]
  /\ stops' = [stops EXCEPT ![p] = @ + 1]
  /\ host' = [host EXCEPT ![p] = None]
  /\ ip_addresses' = [ip_addresses EXCEPT ![p] = Unknown]
  /\ received' = [received EXCEPT ![p] = {}]
  /\ ready_count' = [ready_count EXCEPT ![p] = 0]
  /\ at' = [at EXCEPT ![p] = 1]
  /\ inbox' = [inbox EXCEPT ![p] = <<>>]
  /\ UNCHANGED <<printed, started>>

\* Mutant: a READY peer does not send any more.
AfterAndStop(p) ==
  LET next == Entry(p, at[p] + 1)
  IN IF Ready(p) THEN N + 1 ELSE IF at[p] = N + 1 THEN Entry(p, 1) ELSE next

\* After the last entry it reads, and once it is READY it only sends.
After(p) ==
  LET next == Entry(p, at[p] + 1)
  IN IF at[p] = N + 1 \/ (next = N + 1 /\ Ready(p)) THEN Entry(p, 1) ELSE next

Advance(p) == at' = [at EXCEPT ![p] = After(p)]

\* send_heartbeat: the name does not resolve, or sendto fails.
SendFails(p) ==
  /\ Runs(p)
  /\ at[p] \in Peers
  /\ Advance(p)
  /\ UNCHANGED <<host, ip_addresses, received, ready_count, inbox, printed,
                 started, stops>>

\* Mutant: an address that is known is not updated.
LearnedOnce(p, q) == IF ip_addresses[p][q] # None THEN ip_addresses[p][q] ELSE host[q]

Learned(p, q) == host[q]

\* sendto succeeds, and p learns the address of q.
Send(p, q) ==
  /\ Runs(p)
  /\ at[p] = q
  /\ Runs(q)
  /\ ip_addresses' =
       IF Ready(p) THEN ip_addresses ELSE [ip_addresses EXCEPT ![p][q] = Learned(p, q)]
  /\ Advance(p)
  /\ UNCHANGED <<host, received, ready_count, printed, started, stops>>

Deliver(p, q) ==
  /\ Send(p, q)
  /\ Len(inbox[q]) < Buffer
  /\ inbox' = IF Ready(q) THEN inbox ELSE [inbox EXCEPT ![q] = Append(@, host[p])]

\* The heartbeat is lost, in the network or because the buffer is full.
Lose(p, q) ==
  /\ Send(p, q)
  /\ UNCHANGED inbox

\* get_peer_index returns i: the first entry with this address, or -1.
get_peer_index(p, a, i) ==
  \/ /\ i \in Peers
     /\ ip_addresses[p][i] = a
     /\ \A j \in 1..(i - 1) : ip_addresses[p][j] # a
  \/ /\ i = -1
     /\ \A j \in Peers : ip_addresses[p][j] # a

\* Mutants: a heartbeat counts once more, and one of an unknown peer counts.
CountsAgain(p, i) == i # -1
CountsUnknown(p, i) == i \notin received[p]

\* discover_peers returns 1 for a heartbeat of the peer with index i.
Counts(p, i) == i # -1 /\ i \notin received[p]

(***************************************************************************)
(* discover_peers and the rest of the loop in main.  A READY peer neither  *)
(* reads its socket nor the addresses it knows: they are dropped here.     *)
(***************************************************************************)
Discover(p) ==
  /\ Runs(p)
  /\ at[p] = N + 1
  /\ \/ /\ inbox[p] = <<>>
        /\ UNCHANGED <<ip_addresses, received, ready_count, inbox, printed>>
     \/ /\ inbox[p] # <<>>
        /\ \E i \in Peers \cup {-1} :
             /\ get_peer_index(p, Head(inbox[p]), i)
             /\ \/ /\ Counts(p, i)
                   /\ received' = [received EXCEPT ![p] = @ \cup {i}]
                   /\ ready_count' = [ready_count EXCEPT ![p] = @ + 1]
                \/ /\ ~Counts(p, i)
                   /\ UNCHANGED <<received, ready_count>>
        /\ \/ /\ ready_count'[p] >= N - 1
              /\ printed' = printed \cup {p}
              /\ ip_addresses' = [ip_addresses EXCEPT ![p] = Unknown]
              /\ inbox' = [inbox EXCEPT ![p] = <<>>]
           \/ /\ ready_count'[p] < N - 1
              /\ inbox' = [inbox EXCEPT ![p] = Tail(@)]
              /\ UNCHANGED <<ip_addresses, printed>>
  /\ Advance(p)
  /\ UNCHANGED <<host, started, stops>>

Loop(p) ==
  SendFails(p) \/ Discover(p) \/ \E q \in Peers : Deliver(p, q) \/ Lose(p, q)

Next == \E p \in Peers : Start(p) \/ Stop(p) \/ Loop(p)

Spec == Init /\ [][Next]_vars

(***************************************************************************)
(* Containers are started, processes run, and the links are fair: when     *)
(* every peer sends its heartbeats for ever, some of them arrive on each   *)
(* link for ever.  A buffer that is full whenever the same peer sends      *)
(* would break this; nothing in the code prevents it but that sleep(1)     *)
(* does not keep the loops in step.                                        *)
(***************************************************************************)
Sending(p) == Runs(p) /\ at[p] = Entry(p, 1)

FairLinks ==
  (\A p \in Peers : []<>Sending(p))
    => (\A p \in Peers : \A q \in Peers \ {p} : []<><<Deliver(p, q)>>_vars)

FairSpec ==
  /\ Spec
  /\ \A p \in Peers : WF_vars(Start(p)) /\ WF_vars(Loop(p))
  /\ FairLinks

-----------------------------------------------------------------------------
\* Types of the variables; received holds indices of the hosts file only.
TypeOK ==
  /\ host \in [Peers -> Addresses \cup {None}]
  /\ ip_addresses \in [Peers -> [Peers -> Addresses \cup {None}]]
  /\ received \in [Peers -> SUBSET Peers]
  /\ ready_count \in [Peers -> Nat]
  /\ at \in [Peers -> 1..(N + 1)]
  /\ inbox \in [Peers -> Seq(Addresses)]
  /\ printed \subseteq Peers
  /\ started \subseteq Peers
  /\ stops \in [Peers -> Nat]

(***************************************************************************)
(* READY means that all peers have started (main.c:57), although senders   *)
(* are known by addresses that may have changed hands and heartbeats come  *)
(* late, twice or not at all.                                              *)
(***************************************************************************)
ReadyMeansStarted == printed # {} => started = Peers

(***************************************************************************)
(* Every peer becomes READY, again when it was restarted: those that are   *)
(* READY keep sending (main.c:65) and refresh the addresses they know.     *)
(***************************************************************************)
EveryoneReady == <>[](\A p \in Peers : Ready(p))
=============================================================================
