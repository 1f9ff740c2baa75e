----------------------------- MODULE Transport -----------------------------
(***************************************************************************)
(* One link of the consensus transport: how Send of P2PTransport           *)
(* (project/oracle/pkg/network/p2p.go) at one node, p, gets messages to    *)
(* another, q, over TCP connections that p dials and q only reads.         *)
(*                                                                         *)
(* p keeps one connection to q under connections[q].  Send takes it, or    *)
(* dials, and gives it up on an error.  Each connection has a goroutine at *)
(* p, handleConnection, which never gets a message, as q does not write to *)
(* connections it accepted, and is there to notice the end of it: it       *)
(* closes what is then under connections[q] and dials again.  Nothing ties *)
(* the steps of the goroutines together but t.mu, held for one step each.  *)
(*                                                                         *)
(* All calls of Send come from PBFT.broadcast under PBFT.mu, one after the *)
(* other.  The process of q may end and start again; p may be stopped.     *)
(***************************************************************************)
EXTENDS Naturals, Sequences

CONSTANTS MaxMessages,  \* bound on the calls of Send
          MaxDials,     \* bound on the connections
          MaxStops,     \* bound on how often the process of q ends
          None          \* no connection, no message

Messages == 1..MaxMessages
Conns == 1..MaxDials

Sender == 0             \* the caller of Send
Goroutines == {Sender} \cup Conns   \* and handleConnection of each connection

ASSUME TransportAssumption ==
  /\ MaxMessages \in Nat
  /\ MaxDials \in Nat
  /\ MaxStops \in Nat
  /\ None \notin Nat

VARIABLES
  up,        \* the process of q runs
  stops,     \* how often it has ended
  done,      \* doneChan of p is closed
  entry,     \* connections[q] of p
  local,     \* p's end of each connection
  remote,    \* q's end
  wire,      \* what p has written and q has not read: parts of messages
  length,    \* the message whose length q has read, by connection
  at,        \* where each goroutine of p is
  conn,      \* its local variable conn
  known,     \* the connections whose handleConnection has a peerID
  msg,       \* the number of calls of Send
  put,       \* the messages for which Send returned nil
  large,     \* the messages longer than MaxMessageSize
  spoilt,    \* the connections such a message was written to
  behind,    \* the messages written to one of them from then on
  received   \* the messages in msgChan of q

peerVars == <<up, stops, remote, length, received>>
sizes == <<large, spoilt, behind>>
calls == <<msg, put, sizes>>
vars == <<peerVars, done, entry, local, wire, at, conn, known, calls>>

\* What one write leaves on the connection: all of it, or a half.
Part == [kind: {"length", "data", "half"}, msg: Messages]

Init ==
  /\ up = TRUE
  /\ stops = 0
  /\ done = FALSE
  /\ entry = None
  /\ local = [c \in Conns |-> "none"]
  /\ remote = [c \in Conns |-> "none"]
  /\ wire = [c \in Conns |-> <<>>]
  /\ length = [c \in Conns |-> None]
  /\ at = [g \in Goroutines |-> IF g = Sender THEN "idle" ELSE "none"]
  /\ conn = [g \in Goroutines |-> None]
  /\ known = {}
  /\ msg = 0
  /\ put = {}
  /\ large = {}
  /\ spoilt = {}
  /\ behind = {}
  /\ received = {}

Goto(g, label) == at' = [at EXCEPT ![g] = label]

\* conn.Close() for each c in C.
Close(C) ==
  local' = [c \in Conns |-> IF c \in C /\ local[c] = "open" THEN "closed" ELSE local[c]]

-----------------------------------------------------------------------------
(***************************************************************************)
(* connectWithRetry, by Send and by handleConnection: between the check,   *)
(* the dial and the registration others may do the same.                   *)
(***************************************************************************)

\* Where g goes on when connectWithRetry returns nil.
Connected(g) == IF g = Sender THEN "reread" ELSE "done"

Check(g) ==
  /\ at[g] = "check"
  /\ Goto(g, IF entry = None THEN "dial" ELSE Connected(g))
  /\ UNCHANGED <<peerVars, done, entry, local, wire, conn, known, calls>>

Dial(g) ==
  /\ at[g] = "dial"
  /\ up
  /\ \E c \in Conns :
       /\ local[c] = "none"
       /\ \A d \in 1..(c - 1) : local[d] # "none"
       /\ local' = [local EXCEPT ![c] = "open"]
       /\ remote' = [remote EXCEPT ![c] = "open"]
       /\ conn' = [conn EXCEPT ![g] = c]
  /\ Goto(g, "register")
  /\ UNCHANGED <<up, stops, length, received, done, entry, wire, known, calls>>

\* Refused, or no answer for 500 ms.
DialFails(g) ==
  /\ at[g] = "dial"
  /\ Goto(g, IF g = Sender THEN "idle" ELSE "done")
  /\ UNCHANGED <<peerVars, done, entry, local, wire, conn, known, calls>>

\* The connection replaces the one that another goroutine has registered.
Register(g) ==
  /\ at[g] = "register"
  /\ entry' = conn[g]
  /\ conn' = [conn EXCEPT ![g] = None]
  /\ at' = [at EXCEPT ![g] = Connected(g), ![conn[g]] = "lookup"]
  /\ UNCHANGED <<peerVars, done, local, wire, known, calls>>

-----------------------------------------------------------------------------
(***************************************************************************)
(* Send.                                                                   *)
(***************************************************************************)
Send ==
  /\ at[Sender] = "idle"
  /\ msg < MaxMessages
  /\ msg' = msg + 1
  /\ conn' = [conn EXCEPT ![Sender] = entry]
  /\ Goto(Sender, IF entry = None THEN "check" ELSE "length")
  /\ UNCHANGED <<peerVars, done, entry, local, wire, known, put, sizes>>

\* Mutant: conn keeps the value it had before connectWithRetry.
Kept == conn[Sender]

Registered == entry

Reread ==
  /\ at[Sender] = "reread"
  /\ entry # None
  /\ conn' = [conn EXCEPT ![Sender] = Registered]
  /\ Goto(Sender, "length")
  /\ UNCHANGED <<peerVars, done, entry, local, wire, known, calls>>

\* The connection has gone again, conn is nil, and SetWriteDeadline panics.
Panic ==
  /\ at[Sender] = "reread"
  /\ entry = None
  /\ Close(Conns)
  /\ at' = [g \in Goroutines |-> "done"]
  /\ UNCHANGED <<peerVars, done, entry, wire, conn, known, calls>>

\* SetWriteDeadline fails, and Send returns without giving the connection up.
DeadlineFails ==
  /\ at[Sender] = "length"
  /\ local[conn[Sender]] = "closed"
  /\ Goto(Sender, "idle")
  /\ UNCHANGED <<peerVars, done, entry, local, wire, conn, known, calls>>

\* What is written to a connection that q has left is lost.
Write(kind) ==
  LET c == conn[Sender]
  IN /\ at[Sender] = kind
     /\ local[c] = "open"
     /\ wire' = IF remote[c] = "open"
                THEN [wire EXCEPT ![c] = Append(@, [kind |-> kind, msg |-> msg])]
                ELSE wire

\* Send does not ask how long the message is.
WriteLength ==
  /\ Write("length")
  /\ large' \in {large, large \cup {msg}}
  /\ spoilt' = IF msg \in large' THEN spoilt \cup {conn[Sender]} ELSE spoilt
  /\ behind' = IF conn[Sender] \in spoilt' THEN behind \cup {msg} ELSE behind
  /\ Goto(Sender, "data")
  /\ UNCHANGED <<peerVars, done, entry, local, conn, known, msg, put>>

WriteData ==
  /\ Write("data")
  /\ Goto(Sender, "idle")
  /\ put' = put \cup {msg}
  /\ UNCHANGED <<peerVars, done, entry, local, conn, known, msg, sizes>>

\* Mutant: the connection is kept.
StillUsed == entry

GivenUp == None

\* The deadline of 500 ms, or a closed connection.
WriteFails ==
  LET c == conn[Sender]
  IN /\ at[Sender] \in {"length", "data"}
     /\ \/ UNCHANGED wire
        \/ /\ remote[c] = "open"
           /\ wire' = [wire EXCEPT ![c] = Append(@, [kind |-> "half", msg |-> msg])]
     /\ entry' = GivenUp
     /\ Goto(Sender, "idle")
     /\ UNCHANGED <<peerVars, done, local, conn, known, calls>>

SendStep ==
  \/ Check(Sender) \/ Dial(Sender) \/ DialFails(Sender) \/ Register(Sender)
  \/ Reread \/ Panic \/ DeadlineFails \/ WriteLength \/ WriteData \/ WriteFails

-----------------------------------------------------------------------------
(***************************************************************************)
(* handleConnection at p, and Stop.                                        *)
(***************************************************************************)

\* Mutant: the goroutine starts before its connection is registered.
FoundEarly(c) == known

\* peerID is found when the connection is still the registered one.
Found(c) == IF entry = c THEN known \cup {c} ELSE known

Lookup(c) ==
  /\ at[c] = "lookup"
  /\ known' = Found(c)
  /\ Goto(c, "loop")
  /\ UNCHANGED <<peerVars, done, entry, local, wire, conn, calls>>

\* Mutant: doneChan is looked at between messages only.
StopsAfterMessage(c) == FALSE

StopsBefore(c) == at[c] = "loop" /\ done

Read(c) ==
  /\ at[c] = "loop"
  /\ ~StopsBefore(c)
  /\ Goto(c, "read")
  /\ UNCHANGED <<peerVars, done, entry, local, wire, conn, known, calls>>

\* The loop ends; the deferred function closes the connection.
Leave(c) ==
  /\ \/ StopsBefore(c)
     \/ /\ at[c] = "read"
        /\ local[c] = "closed" \/ remote[c] = "closed"
  /\ Close({c})
  /\ Goto(c, IF c \in known THEN "close" ELSE "done")
  /\ UNCHANGED <<peerVars, done, entry, wire, conn, known, calls>>

\* closeConnection(peerID), whichever connection is there by now.
CloseConnection(c) ==
  /\ at[c] = "close"
  /\ Close({entry})
  /\ entry' = None
  /\ Goto(c, "closed")
  /\ UNCHANGED <<peerVars, done, wire, conn, known, calls>>

HandleConnectionFailure(c) ==
  /\ at[c] = "closed"
  /\ Goto(c, IF done THEN "done" ELSE "check")
  /\ UNCHANGED <<peerVars, done, entry, local, wire, conn, known, calls>>

HandleConnection(c) ==
  \/ Lookup(c) \/ Read(c) \/ Leave(c) \/ CloseConnection(c)
  \/ HandleConnectionFailure(c)
  \/ Check(c) \/ Dial(c) \/ DialFails(c) \/ Register(c)

Stop ==
  /\ ~done
  /\ at[Sender] # "done"
  /\ done' = TRUE
  /\ Close({entry})
  /\ entry' = None
  /\ UNCHANGED <<peerVars, wire, at, conn, known, calls>>

-----------------------------------------------------------------------------
(***************************************************************************)
(* handleConnection at q for the connections it accepted: it has no        *)
(* peerID, and ReadMessage has no deadline.                                *)
(***************************************************************************)
ReadLength(c) ==
  /\ remote[c] = "open"
  /\ wire[c] # <<>>
  /\ length[c] = None
  /\ Head(wire[c]).kind = "length"
  /\ Head(wire[c]).msg \notin large
  /\ length' = [length EXCEPT ![c] = Head(wire[c]).msg]
  /\ wire' = [wire EXCEPT ![c] = Tail(@)]
  /\ UNCHANGED <<up, stops, remote, received, done, entry, local, at, conn, known,
                 calls>>

ReadData(c) ==
  /\ remote[c] = "open"
  /\ wire[c] # <<>>
  /\ length[c] # None
  /\ Head(wire[c]).kind = "data"
  /\ received' = received \cup {Head(wire[c]).msg}
  /\ length' = [length EXCEPT ![c] = None]
  /\ wire' = [wire EXCEPT ![c] = Tail(@)]
  /\ UNCHANGED <<up, stops, remote, done, entry, local, at, conn, known, calls>>

\* Mutant: the method ReadMessage of p2p.go, which reads with a deadline.
NothingYet(c) == wire[c] # <<>> => Head(wire[c]).kind = "half"

\* io.EOF, or io.ErrUnexpectedEOF in the middle of a message.
AtEnd(c) == local[c] = "closed" /\ (wire[c] # <<>> => Head(wire[c]).kind = "half")

\* "message too large": the rest of the connection would be read as garbage.
TooLarge(c) ==
  /\ wire[c] # <<>>
  /\ Head(wire[c]).kind = "length"
  /\ Head(wire[c]).msg \in large

\* q closes the connection, with whatever is still on it.
ReadFails(c) ==
  /\ remote[c] = "open"
  /\ AtEnd(c) \/ TooLarge(c)
  /\ remote' = [remote EXCEPT ![c] = "closed"]
  /\ wire' = [wire EXCEPT ![c] = <<>>]
  /\ length' = [length EXCEPT ![c] = None]
  /\ UNCHANGED <<up, stops, received, done, entry, local, at, conn, known, calls>>

PeerReads(c) == ReadLength(c) \/ ReadData(c) \/ ReadFails(c)

\* The process of q ends, with its end of every connection.
PeerStops ==
  /\ up
  /\ stops < MaxStops
  /\ up' = FALSE
  /\ stops' = stops + 1
  /\ remote' = [c \in Conns |-> IF remote[c] = "open" THEN "closed" ELSE remote[c]]
  /\ wire' = [c \in Conns |-> <<>>]
  /\ length' = [c \in Conns |-> None]
  /\ UNCHANGED <<received, done, entry, local, at, conn, known, calls>>

PeerStarts ==
  /\ ~up
  /\ up' = TRUE
  /\ UNCHANGED <<stops, remote, length, received, done, entry, local, wire, at, conn,
                 known, calls>>

-----------------------------------------------------------------------------
Next ==
  \/ Send
  \/ SendStep
  \/ Stop
  \/ \E c \in Conns : HandleConnection(c) \/ PeerReads(c)
  \/ PeerStops
  \/ PeerStarts

Spec == Init /\ [][Next]_vars

\* Goroutines run, Send goes on once called, and q reads what it can.
FairSpec ==
  /\ Spec
  /\ WF_vars(SendStep)
  /\ \A c \in Conns : WF_vars(HandleConnection(c)) /\ WF_vars(PeerReads(c))

-----------------------------------------------------------------------------
\* Types of the variables; a write is never made with a nil connection.
TypeOK ==
  /\ up \in BOOLEAN
  /\ stops \in Nat
  /\ done \in BOOLEAN
  /\ entry \in Conns \cup {None}
  /\ local \in [Conns -> {"none", "open", "closed"}]
  /\ remote \in [Conns -> {"none", "open", "closed"}]
  /\ wire \in [Conns -> Seq(Part)]
  /\ length \in [Conns -> Messages \cup {None}]
  /\ at \in [Goroutines -> {"none", "idle", "check", "dial", "register", "reread",
                            "length", "data", "lookup", "loop", "read", "close",
                            "closed", "done"}]
  /\ conn \in [Goroutines -> Conns \cup {None}]
  /\ at[Sender] \in {"length", "data"} => conn[Sender] \in Conns
  /\ known \subseteq Conns
  /\ msg \in 0..MaxMessages
  /\ put \subseteq Messages
  /\ large \subseteq Messages
  /\ spoilt \subseteq Conns
  /\ behind \subseteq Messages
  /\ received \subseteq Messages

(***************************************************************************)
(* q reads the messages that p wrote: the data that follows a length is    *)
(* that message's, and a write that was cut off is the last on its         *)
(* connection, although Send only forgets such a connection, without       *)
(* closing it, and another connection may be registered by then.           *)
(***************************************************************************)
Follows(part, next) ==
  \/ part.kind = "length" /\ next.kind \in {"data", "half"} /\ next.msg = part.msg
  \/ part.kind = "data" /\ next.kind \in {"length", "half"}

Expected(before, part) ==
  \/ part.kind = "length" /\ before = None
  \/ part.kind = "data" /\ before = part.msg
  \/ part.kind = "half"

Whole(parts, before) ==
  /\ parts # <<>> => Expected(before, parts[1])
  /\ \A k \in 1..(Len(parts) - 1) : Follows(parts[k], parts[k + 1])

FramesWhole == \A c \in Conns : Whole(wire[c], length[c])

(***************************************************************************)
(* A registered connection has a goroutine that will notice its end: it is *)
(* yet to look itself up, or it knows the peer and has not given up.       *)
(***************************************************************************)
EntryIsWatched ==
  \A c \in Conns :
    entry = c => \/ at[c] = "lookup"
                 \/ at[c] \in {"loop", "read", "close"} /\ c \in known

(***************************************************************************)
(* What Send wrote arrives unless the process of q ends: whichever end     *)
(* closes the connection, nothing is left unread, however long the pauses  *)
(* between messages.  The one exception is a message longer than           *)
(* MaxMessageSize, which Send lets pass and on which q gives the           *)
(* connection up: it is lost with all that follows it on that connection,  *)
(* and nothing else is.                                                    *)
(***************************************************************************)
Delivered ==
  []<>(\A m \in put : m \in received \/ m \in behind \/ stops > 0)

(***************************************************************************)
(* After Stop no connection stays registered, although a Send or a         *)
(* reconnection that was under way registers one later.                    *)
(***************************************************************************)
StopIsFinal == <>[](done => entry = None)
=============================================================================
