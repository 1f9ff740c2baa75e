-------------------------- MODULE TransportProofs --------------------------
(***************************************************************************)
(* Proofs about Transport.  Who may still use a connection is the base of  *)
(* all of them: a connection that is about to be registered belongs to one *)
(* goroutine, and Send does not have it yet (Owned).  A registered one has *)
(* its watching goroutine by this alone.  That messages are read whole     *)
(* rests on where the next write may go: to a connection that ends with    *)
(* the whole of a message (AtBoundary), or, in the middle of a message, to *)
(* the one that ends with its length (InMessage).                          *)
(***************************************************************************)
EXTENDS Transport, TLAPS

Held(g) == at[g] \in {"register", "length", "data"}

Owned ==
  /\ \A g \in Goroutines :
       Held(g) => conn[g] \in Conns /\ local[conn[g]] # "none"
  /\ entry # None => local[entry] # "none"
  /\ \A c \in Conns : local[c] = "none" => wire[c] = <<>> /\ length[c] = None
  /\ \A g, h \in Goroutines :
       at[g] = "register" /\ Held(h) /\ g # h => conn[g] # conn[h]
  /\ \A g \in Goroutines : at[g] = "register" => conn[g] # entry
  /\ msg = 0 => at[Sender] = "idle"

Base == TypeOK /\ Owned

LEMMA Apart == None \notin Conns /\ Sender \notin Conns /\ Sender \in Goroutines
               /\ Conns \subseteq Goroutines
  BY TransportAssumption DEF Conns, Sender, Goroutines

-----------------------------------------------------------------------------
\* The types and Owned, together inductive.
LEMMA BaseInit == Init => Base
<1> SUFFICES ASSUME Init PROVE Base
  OBVIOUS
<1> USE Apart, TransportAssumption DEF calls, sizes
<1>1. TypeOK
  BY DEF Init, TypeOK, Goroutines, Sender
<1>2. Owned
  BY DEF Init, Owned, Held
<1> QED
  BY <1>1, <1>2 DEF Base

LEMMA BaseDialling ==
  ASSUME Base, NEW g \in Goroutines,
         Check(g) \/ Dial(g) \/ DialFails(g) \/ Register(g)
  PROVE  Base'
<1> USE Apart, TransportAssumption DEF calls, sizes
<1>1. CASE Check(g)
  <2>1. TypeOK'
    BY <1>1 DEF Base, TypeOK, Owned, Held, Check, Connected, Goto, peerVars
  <2>2. Owned'
    BY <1>1 DEF Base, TypeOK, Owned, Held, Check, Connected, Goto, peerVars
  <2> QED
    BY <2>1, <2>2 DEF Base
<1>2. CASE Dial(g)
  <2>1. PICK c \in Conns :
          /\ local[c] = "none"
          /\ local' = [local EXCEPT ![c] = "open"]
          /\ remote' = [remote EXCEPT ![c] = "open"]
          /\ conn' = [conn EXCEPT ![g] = c]
    BY <1>2 DEF Dial
  <2>2. TypeOK'
    BY <1>2, <2>1 DEF Base, TypeOK, Owned, Held, Dial, Goto
  <2>3. Owned'
    BY <1>2, <2>1 DEF Base, TypeOK, Owned, Held, Dial, Goto
  <2> QED
    BY <2>2, <2>3 DEF Base
<1>3. CASE DialFails(g)
  <2>1. TypeOK'
    BY <1>3 DEF Base, TypeOK, Owned, Held, DialFails, Goto, peerVars
  <2>2. Owned'
    BY <1>3 DEF Base, TypeOK, Owned, Held, DialFails, Goto, peerVars
  <2> QED
    BY <2>1, <2>2 DEF Base
<1>4. CASE Register(g)
  <2>1. conn[g] \in Conns
    BY <1>4 DEF Base, Owned, Held, Register
  <2>2. TypeOK'
    BY <1>4, <2>1 DEF Base, TypeOK, Register, Connected, peerVars
  <2>3. Owned'
    BY <1>4, <2>1 DEF Base, TypeOK, Owned, Held, Register, Connected, peerVars
  <2> QED
    BY <2>2, <2>3 DEF Base
<1> QED
  BY <1>1, <1>2, <1>3, <1>4

LEMMA BaseSending ==
  ASSUME Base,
         Send \/ Reread \/ Panic \/ DeadlineFails \/ WriteLength \/ WriteData
           \/ WriteFails
  PROVE  Base'
<1> USE Apart, TransportAssumption DEF calls, sizes
<1>1. CASE Send
  <2>1. TypeOK'
    BY <1>1 DEF Base, TypeOK, Send, Goto, peerVars
  <2>2. Owned'
    BY <1>1 DEF Base, TypeOK, Owned, Held, Send, Goto, peerVars
  <2> QED
    BY <2>1, <2>2 DEF Base
<1>2. CASE Reread
  <2>1. TypeOK'
    BY <1>2 DEF Base, TypeOK, Reread, Registered, Goto, peerVars
  <2>2. Owned'
    BY <1>2 DEF Base, TypeOK, Owned, Held, Reread, Registered, Goto, peerVars
  <2> QED
    BY <2>1, <2>2 DEF Base
<1>3. CASE Panic
  <2>1. TypeOK'
    BY <1>3 DEF Base, TypeOK, Panic, Close, peerVars
  <2>2. Owned'
    BY <1>3 DEF Base, TypeOK, Owned, Held, Panic, Close, peerVars
  <2> QED
    BY <2>1, <2>2 DEF Base
<1>4. CASE DeadlineFails
  BY <1>4 DEF Base, TypeOK, Owned, Held, DeadlineFails, Goto, peerVars
<1>5. ASSUME NEW kind \in {"length", "data", "half"}, at[Sender] \in {"length", "data"}
      PROVE  /\ conn[Sender] \in Conns
             /\ local[conn[Sender]] # "none"
             /\ [kind |-> kind, msg |-> msg] \in Part
  BY <1>5 DEF Base, TypeOK, Owned, Held, Part, Messages
<1>6. CASE WriteLength
  <2>1. /\ wire' \in [Conns -> Seq(Part)]
        /\ \A c \in Conns : wire'[c] # wire[c] => local[c] # "none"
    BY <1>5, <1>6 DEF Base, TypeOK, WriteLength, Write
  <2>2. msg \in Messages /\ conn[Sender] \in Conns
    BY <1>5, <1>6 DEF Base, TypeOK, Owned, WriteLength, Write, Messages
  <2>3. /\ large' \subseteq Messages
        /\ spoilt' \subseteq Conns
        /\ behind' \subseteq Messages
    BY <1>6, <2>2 DEF Base, TypeOK, WriteLength
  <2>4. TypeOK'
    BY <1>6, <2>1, <2>3 DEF Base, TypeOK, WriteLength, Write, Goto, peerVars
  <2>5. Owned'
    BY <1>6, <2>1 DEF Base, TypeOK, Owned, Held, WriteLength, Write, Goto, peerVars
  <2> QED
    BY <2>4, <2>5 DEF Base
<1>7. CASE WriteData
  <2>1. /\ wire' \in [Conns -> Seq(Part)]
        /\ \A c \in Conns : wire'[c] # wire[c] => local[c] # "none"
    BY <1>5, <1>7 DEF Base, TypeOK, WriteData, Write
  <2>2. msg \in Messages
    BY <1>7 DEF Base, TypeOK, Owned, WriteData, Write, Messages
  <2>3. TypeOK'
    BY <1>7, <2>1, <2>2 DEF Base, TypeOK, WriteData, Write, Goto, peerVars
  <2>4. Owned'
    BY <1>7, <2>1 DEF Base, TypeOK, Owned, Held, WriteData, Write, Goto, peerVars
  <2> QED
    BY <2>3, <2>4 DEF Base
<1>8. CASE WriteFails
  <2>1. /\ wire' \in [Conns -> Seq(Part)]
        /\ \A c \in Conns : wire'[c] # wire[c] => local[c] # "none"
    <3>1. CASE UNCHANGED wire
      BY <3>1 DEF Base, TypeOK
    <3>2. CASE wire' = [wire EXCEPT ![conn[Sender]] =
                          Append(@, [kind |-> "half", msg |-> msg])]
      BY <1>5, <1>8, <3>2 DEF Base, TypeOK, WriteFails
    <3> QED
      BY <1>8, <3>1, <3>2 DEF WriteFails
  <2>2. TypeOK'
    BY <1>8, <2>1 DEF Base, TypeOK, WriteFails, GivenUp, Goto, peerVars
  <2>3. Owned'
    BY <1>8, <2>1 DEF Base, TypeOK, Owned, Held, WriteFails, GivenUp, Goto, peerVars
  <2> QED
    BY <2>2, <2>3 DEF Base
<1> QED
  BY <1>1, <1>2, <1>3, <1>4, <1>6, <1>7, <1>8

LEMMA BaseHandling ==
  ASSUME Base, NEW c \in Conns,
         Lookup(c) \/ Read(c) \/ Leave(c) \/ CloseConnection(c)
           \/ HandleConnectionFailure(c)
  PROVE  Base'
<1> USE Apart, TransportAssumption DEF calls, sizes
<1>1. CASE Lookup(c)
  BY <1>1 DEF Base, TypeOK, Owned, Held, Lookup, Found, Goto, peerVars
<1>2. CASE Read(c)
  BY <1>2 DEF Base, TypeOK, Owned, Held, Read, Goto, peerVars
<1>3. CASE Leave(c)
  <2>1. TypeOK'
    BY <1>3 DEF Base, TypeOK, Leave, StopsBefore, Close, Goto, peerVars
  <2>2. Owned'
    BY <1>3 DEF Base, TypeOK, Owned, Held, Leave, StopsBefore, Close, Goto, peerVars
  <2> QED
    BY <2>1, <2>2 DEF Base
<1>4. CASE CloseConnection(c)
  <2>1. TypeOK'
    BY <1>4 DEF Base, TypeOK, CloseConnection, Close, Goto, peerVars
  <2>2. Owned'
    BY <1>4 DEF Base, TypeOK, Owned, Held, CloseConnection, Close, Goto, peerVars
  <2> QED
    BY <2>1, <2>2 DEF Base
<1>5. CASE HandleConnectionFailure(c)
  BY <1>5 DEF Base, TypeOK, Owned, Held, HandleConnectionFailure, Goto, peerVars
<1> QED
  BY <1>1, <1>2, <1>3, <1>4, <1>5

LEMMA BaseReading ==
  ASSUME Base, NEW c \in Conns,
         ReadLength(c) \/ ReadData(c) \/ ReadFails(c)
  PROVE  Base'
<1> USE Apart, TransportAssumption DEF calls, sizes
<1>1. ASSUME wire[c] # <<>>
      PROVE  /\ Tail(wire[c]) \in Seq(Part)
             /\ Head(wire[c]).msg \in Messages
  <2>1. wire[c] \in Seq(Part)
    BY DEF Base, TypeOK
  <2>2. Tail(wire[c]) \in Seq(Part) /\ Head(wire[c]) \in Part
    BY <1>1, <2>1
  <2> QED
    BY <2>2 DEF Part
<1>2. CASE ReadLength(c)
  BY <1>1, <1>2 DEF Base, TypeOK, Owned, Held, ReadLength
<1>3. CASE ReadData(c)
  BY <1>1, <1>3 DEF Base, TypeOK, Owned, Held, ReadData
<1>4. CASE ReadFails(c)
  BY <1>4 DEF Base, TypeOK, Owned, Held, ReadFails
<1> QED
  BY <1>2, <1>3, <1>4

LEMMA BaseEnding ==
  ASSUME Base, Stop \/ PeerStops \/ PeerStarts
  PROVE  Base'
<1> USE Apart, TransportAssumption DEF calls, sizes
<1>1. CASE Stop
  <2>1. TypeOK'
    BY <1>1 DEF Base, TypeOK, Stop, Close, peerVars
  <2>2. Owned'
    BY <1>1 DEF Base, TypeOK, Owned, Held, Stop, Close, peerVars
  <2> QED
    BY <2>1, <2>2 DEF Base
<1>2. CASE PeerStops
  <2>1. TypeOK'
    <3>1. wire' \in [Conns -> Seq(Part)]
      BY <1>2 DEF PeerStops
    <3>2. length' \in [Conns -> Messages \cup {None}]
      BY <1>2 DEF PeerStops
    <3>3. \A c \in Conns : remote[c] \in {"none", "open", "closed"}
      BY DEF Base, TypeOK
    <3>4. remote' \in [Conns -> {"none", "open", "closed"}]
      BY <1>2, <3>3 DEF PeerStops
    <3>5. up' \in BOOLEAN
      BY <1>2 DEF PeerStops
    <3>6. stops \in Nat
      BY DEF Base, TypeOK
    <3>7. stops' \in Nat
      BY <1>2, <3>6 DEF PeerStops
    <3> QED
      BY <1>2, <3>1, <3>2, <3>4, <3>5, <3>7 DEF Base, TypeOK, PeerStops
  <2>2. Owned'
    BY <1>2 DEF Base, TypeOK, Owned, Held, PeerStops
  <2> QED
    BY <2>1, <2>2 DEF Base
<1>3. CASE PeerStarts
  BY <1>3 DEF Base, TypeOK, Owned, Held, PeerStarts
<1> QED
  BY <1>1, <1>2, <1>3

LEMMA BaseStep == Base /\ [Next]_vars => Base'
<1> SUFFICES ASSUME Base, [Next]_vars PROVE Base'
  OBVIOUS
<1>1. CASE SendStep
  BY <1>1, Apart, BaseDialling, BaseSending DEF SendStep
<1>2. CASE Send
  BY <1>2, BaseSending
<1>3. CASE Stop \/ PeerStops \/ PeerStarts
  BY <1>3, BaseEnding
<1>4. ASSUME NEW c \in Conns, HandleConnection(c) \/ PeerReads(c)
      PROVE  Base'
  BY <1>4, Apart, BaseDialling, BaseHandling, BaseReading
  DEF HandleConnection, PeerReads
<1>5. CASE UNCHANGED vars
  BY <1>5 DEF Base, TypeOK, Owned, Held, vars, peerVars, calls, sizes
<1> QED
  BY <1>1, <1>2, <1>3, <1>4, <1>5 DEF Next

(***************************************************************************)
(* Every reachable state is typed: Send, in particular, writes to no nil   *)
(* connection (p2p.go:147) except where Panic says so.                     *)
(***************************************************************************)
THEOREM TypeCorrect == Spec => []TypeOK
<1>1. Base => TypeOK
  BY DEF Base
<1> QED
  BY <1>1, BaseInit, BaseStep, PTL DEF Spec

-----------------------------------------------------------------------------
LEMMA WatchedStep ==
  ASSUME Base, EntryIsWatched, [Next]_vars
  PROVE  EntryIsWatched'
<1> USE Apart DEF calls, sizes
<1>1. ASSUME NEW g \in Goroutines,
             Check(g) \/ Dial(g) \/ DialFails(g) \/ Register(g)
      PROVE  EntryIsWatched'
  <2>1. CASE Check(g)
    BY <2>1 DEF Base, TypeOK, EntryIsWatched, Check, Connected, Goto
  <2>2. CASE Dial(g)
    BY <2>2 DEF Base, TypeOK, EntryIsWatched, Dial, Goto
  <2>3. CASE DialFails(g)
    BY <2>3 DEF Base, TypeOK, EntryIsWatched, DialFails, Goto
  <2>4. CASE Register(g)
    BY <2>4 DEF Base, TypeOK, Owned, Held, EntryIsWatched, Register, Connected
  <2> QED
    BY <1>1, <2>1, <2>2, <2>3, <2>4
<1>2. CASE Send \/ Reread \/ DeadlineFails \/ WriteLength \/ WriteData
  BY <1>2
  DEF Base, TypeOK, EntryIsWatched, Send, Reread, DeadlineFails, WriteLength,
      WriteData, Goto
<1>3. CASE Panic \/ WriteFails \/ Stop
  BY <1>3 DEF EntryIsWatched, Panic, WriteFails, GivenUp, Stop
<1>4. ASSUME NEW c \in Conns,
             Lookup(c) \/ Read(c) \/ Leave(c) \/ CloseConnection(c)
               \/ HandleConnectionFailure(c)
      PROVE  EntryIsWatched'
  <2>1. CASE Lookup(c)
    BY <2>1 DEF Base, TypeOK, EntryIsWatched, Lookup, Found, Goto
  <2>2. CASE Read(c)
    BY <2>2 DEF Base, TypeOK, EntryIsWatched, Read, Goto
  <2>3. CASE Leave(c)
    BY <2>3 DEF Base, TypeOK, EntryIsWatched, Leave, StopsBefore, Goto
  <2>4. CASE CloseConnection(c)
    BY <2>4 DEF EntryIsWatched, CloseConnection
  <2>5. CASE HandleConnectionFailure(c)
    BY <2>5 DEF Base, TypeOK, EntryIsWatched, HandleConnectionFailure, Goto
  <2> QED
    BY <1>4, <2>1, <2>2, <2>3, <2>4, <2>5
<1>5. ASSUME NEW c \in Conns, PeerReads(c)
      PROVE  EntryIsWatched'
  BY <1>5 DEF EntryIsWatched, PeerReads, ReadLength, ReadData, ReadFails
<1>6. CASE PeerStops \/ PeerStarts \/ UNCHANGED vars
  BY <1>6 DEF EntryIsWatched, PeerStops, PeerStarts, vars
<1> QED
  BY <1>1, <1>2, <1>3, <1>4, <1>5, <1>6 DEF Next, SendStep, HandleConnection

(***************************************************************************)
(* A registered connection has a goroutine that will notice its end: the   *)
(* lookup at the start of handleConnection (p2p.go:203) cannot miss it.    *)
(***************************************************************************)
THEOREM EntriesAreWatched == Spec => []EntryIsWatched
<1>1. Init => EntryIsWatched
  BY Apart DEF Init, EntryIsWatched
<1>2. Base /\ EntryIsWatched /\ [Next]_vars => Base' /\ EntryIsWatched'
  BY BaseStep, WatchedStep
<1> QED
  BY <1>1, <1>2, BaseInit, PTL DEF Spec

-----------------------------------------------------------------------------
(***************************************************************************)
(* How the parts of a connection may end, and what may then be written.    *)
(***************************************************************************)
AtBoundary(parts, before) ==
  IF parts = <<>> THEN before = None ELSE parts[Len(parts)].kind = "data"

InMessage(parts, before, m) ==
  IF parts = <<>> THEN before = m
  ELSE parts[Len(parts)].kind = "length" /\ parts[Len(parts)].msg = m

LEMMA AppendWhole ==
  ASSUME NEW parts \in Seq(Part), NEW before, NEW part \in Part,
         Whole(parts, before),
         parts = <<>> => Expected(before, part),
         parts # <<>> => Follows(parts[Len(parts)], part)
  PROVE  /\ Whole(Append(parts, part), before)
         /\ Append(parts, part) # <<>>
         /\ Append(parts, part)[Len(Append(parts, part))] = part
<1> DEFINE longer == Append(parts, part)
<1>1. /\ longer \in Seq(Part)
      /\ Len(longer) = Len(parts) + 1
      /\ longer[Len(parts) + 1] = part
      /\ \A k \in 1..Len(parts) : longer[k] = parts[k]
      /\ Len(parts) \in Nat
      /\ Len(parts) = 0 <=> parts = <<>>
  OBVIOUS
<1>2. longer # <<>> /\ longer[Len(longer)] = part
  BY <1>1
<1>3. Expected(before, longer[1])
  BY <1>1 DEF Whole
<1>4. ASSUME NEW k \in 1..(Len(longer) - 1)
      PROVE  Follows(longer[k], longer[k + 1])
  <2>1. CASE k = Len(parts)
    BY <1>1, <2>1
  <2>2. CASE k # Len(parts)
    <3>1. k \in 1..(Len(parts) - 1) /\ k + 1 \in 1..Len(parts) /\ k \in 1..Len(parts)
      BY <1>1, <2>2
    <3> HIDE DEF longer
    <3> QED
      BY <1>1, <3>1 DEF Whole
  <2> QED
    BY <2>1, <2>2
<1> QED
  BY <1>2, <1>3, <1>4 DEF Whole

LEMMA TailWhole ==
  ASSUME NEW parts \in Seq(Part), parts # <<>>, NEW before, Whole(parts, before),
         NEW after,
         \/ Head(parts).kind = "length" /\ after = Head(parts).msg
         \/ Head(parts).kind = "data" /\ after = None
  PROVE  /\ Whole(Tail(parts), after)
         /\ AtBoundary(parts, before) => AtBoundary(Tail(parts), after)
         /\ \A m : InMessage(parts, before, m) => InMessage(Tail(parts), after, m)
<1> DEFINE rest == Tail(parts)
<1>1. /\ rest \in Seq(Part)
      /\ Len(rest) = Len(parts) - 1
      /\ \A k \in 1..Len(rest) : rest[k] = parts[k + 1]
      /\ Len(parts) \in Nat \ {0}
      /\ Len(rest) = 0 <=> rest = <<>>
      /\ Head(parts) = parts[1]
  <2>1. Len(parts) \in Nat \ {0} /\ Head(parts) = parts[1]
    OBVIOUS
  <2>2. rest \in Seq(Part) /\ Len(rest) = Len(parts) - 1
    OBVIOUS
  <2>3. ASSUME NEW k \in 1..Len(rest) PROVE rest[k] = parts[k + 1]
    BY <2>1, <2>2
  <2>4. Len(rest) = 0 <=> rest = <<>>
    BY <2>2
  <2> QED
    BY <2>1, <2>2, <2>3, <2>4
<1> HIDE DEF rest
<1>2. ASSUME rest # <<>>
      PROVE  Expected(after, rest[1])
  <2>1. rest[1] = parts[2] /\ 1 \in 1..(Len(parts) - 1)
    BY <1>1, <1>2
  <2>2. Follows(parts[1], parts[2])
    BY <2>1 DEF Whole
  <2> QED
    BY <1>1, <2>1, <2>2 DEF Follows, Expected
<1>3. ASSUME NEW k \in 1..(Len(rest) - 1)
      PROVE  Follows(rest[k], rest[k + 1])
  <2>1. /\ k + 1 \in 1..(Len(parts) - 1)
        /\ rest[k] = parts[k + 1]
        /\ rest[k + 1] = parts[(k + 1) + 1]
    BY <1>1
  <2> QED
    BY <2>1 DEF Whole
<1>4. rest # <<>> => rest[Len(rest)] = parts[Len(parts)]
  BY <1>1
<1>5. rest = <<>> => Len(parts) = 1
  BY <1>1
<1>6. Whole(rest, after)
  BY <1>2, <1>3 DEF Whole
<1>7. AtBoundary(parts, before) => AtBoundary(rest, after)
  BY <1>1, <1>4, <1>5 DEF AtBoundary
<1>8. ASSUME NEW m, InMessage(parts, before, m)
      PROVE  InMessage(rest, after, m)
  BY <1>1, <1>4, <1>5, <1>8 DEF InMessage
<1> QED
  BY <1>6, <1>7, <1>8 DEF rest

LEMMA EmptyWhole ==
  Whole(<<>>, None) /\ AtBoundary(<<>>, None) /\ \A before : Whole(<<>>, before)
  BY DEF Whole, AtBoundary

(***************************************************************************)
(* Where p may write next, or will once the connection is registered.      *)
(***************************************************************************)
WritesFit ==
  /\ \A c \in Conns : remote[c] # "open" => wire[c] = <<>> /\ length[c] = None
  /\ entry # None /\ ~(at[Sender] = "data" /\ conn[Sender] = entry)
       => AtBoundary(wire[entry], length[entry])
  /\ \A g \in Goroutines :
       at[g] = "register" => AtBoundary(wire[conn[g]], length[conn[g]])
  /\ at[Sender] = "length" => AtBoundary(wire[conn[Sender]], length[conn[Sender]])
  /\ at[Sender] = "data" /\ remote[conn[Sender]] = "open"
       => InMessage(wire[conn[Sender]], length[conn[Sender]], msg)

Frames == Base /\ FramesWhole /\ WritesFit

LEMMA FramesInit == Init => Frames
<1> SUFFICES ASSUME Init PROVE Frames
  OBVIOUS
<1>1. FramesWhole
  BY EmptyWhole DEF Init, FramesWhole
<1>2. WritesFit
  BY Apart DEF Init, WritesFit
<1> QED
  BY <1>1, <1>2, BaseInit DEF Frames

LEMMA FramesDialling ==
  ASSUME Frames, NEW g \in Goroutines,
         Check(g) \/ Dial(g) \/ DialFails(g) \/ Register(g)
  PROVE  FramesWhole' /\ WritesFit'
<1> USE Apart DEF calls, sizes
<1>1. FramesWhole'
  BY DEF Frames, FramesWhole, Check, Dial, DialFails, Register, peerVars
<1>2. CASE Check(g)
  BY <1>1, <1>2
  DEF Frames, Base, TypeOK, WritesFit, Check, Connected, Goto, peerVars
<1>3. CASE Dial(g)
  <2>1. PICK c \in Conns :
          /\ local[c] = "none"
          /\ remote' = [remote EXCEPT ![c] = "open"]
          /\ conn' = [conn EXCEPT ![g] = c]
    BY <1>3 DEF Dial
  <2>2. AtBoundary(wire[c], length[c])
    BY <2>1 DEF Frames, Base, Owned, AtBoundary
  <2>3. at[Sender] \in {"length", "data"} => conn[Sender] # c /\ g # Sender
    BY <1>3, <2>1 DEF Frames, Base, Owned, Held, Dial
  <2>4. WritesFit'
    BY <1>3, <2>1, <2>2, <2>3 DEF Frames, Base, TypeOK, WritesFit, Dial, Goto
  <2> QED
    BY <1>1, <2>4
<1>4. CASE DialFails(g)
  BY <1>1, <1>4 DEF Frames, Base, TypeOK, WritesFit, DialFails, Goto, peerVars
<1>5. CASE Register(g)
  <2>1. /\ conn[g] \in Conns
        /\ AtBoundary(wire[conn[g]], length[conn[g]])
    BY <1>5 DEF Frames, Base, Owned, Held, WritesFit, Register
  <2>2. /\ g # Sender => at'[Sender] = at[Sender] /\ conn'[Sender] = conn[Sender]
        /\ g = Sender => at'[Sender] = "reread"
    BY <1>5, <2>1 DEF Frames, Base, TypeOK, Register, Connected
  <2>3. \A h \in Goroutines : at'[h] = "register" =>
          at[h] = "register" /\ conn'[h] = conn[h]
    BY <1>5, <2>1 DEF Frames, Base, TypeOK, Register, Connected
  <2>4. WritesFit'
    BY <1>5, <2>1, <2>2, <2>3 DEF Frames, WritesFit, Register, peerVars
  <2> QED
    BY <1>1, <2>4
<1> QED
  BY <1>2, <1>3, <1>4, <1>5

LEMMA FramesWriting ==
  ASSUME Frames, WriteLength \/ WriteData \/ WriteFails
  PROVE  FramesWhole' /\ WritesFit'
<1> USE Apart DEF calls, sizes
<1> DEFINE c == conn[Sender]
<1>1. /\ at[Sender] \in {"length", "data"}
      /\ c \in Conns
      /\ wire[c] \in Seq(Part)
      /\ msg \in Messages
      /\ Whole(wire[c], length[c])
  BY DEF Frames, FramesWhole, Base, TypeOK, Owned, WriteLength, WriteData, WriteFails,
         Write, Messages
<1>2. \A kind \in {"length", "data", "half"} : [kind |-> kind, msg |-> msg] \in Part
  BY <1>1 DEF Part
<1>3. \A g \in Goroutines : at[g] = "register" => g # Sender /\ conn[g] # c
  BY <1>1 DEF Frames, Base, Owned, Held
<1>4. at[Sender] = "length" => AtBoundary(wire[c], length[c])
  BY DEF Frames, WritesFit
<1>5. at[Sender] = "data" /\ remote[c] = "open" => InMessage(wire[c], length[c], msg)
  BY DEF Frames, WritesFit
<1>6. ASSUME NEW kind \in {"length", "data", "half"}, remote[c] = "open",
             kind = at[Sender] \/ kind = "half",
             wire' = [wire EXCEPT ![c] = Append(@, [kind |-> kind, msg |-> msg])],
             length' = length
      PROVE  /\ FramesWhole'
             /\ wire'[c] # <<>>
             /\ wire'[c][Len(wire'[c])] = [kind |-> kind, msg |-> msg]
  <2> DEFINE part == [kind |-> kind, msg |-> msg]
  <2>1. /\ part \in Part
        /\ part.kind = kind
        /\ part.msg = msg
    BY <1>2
  <2>2. wire[c] = <<>> => Expected(length[c], part)
    BY <1>1, <1>4, <1>5, <1>6, <2>1 DEF Expected, AtBoundary, InMessage
  <2>3. wire[c] # <<>> => Follows(wire[c][Len(wire[c])], part)
    BY <1>1, <1>4, <1>5, <1>6, <2>1 DEF Follows, AtBoundary, InMessage
  <2>4. wire'[c] = Append(wire[c], part)
    BY <1>1, <1>6 DEF Frames, Base, TypeOK
  <2> HIDE DEF part, c
  <2>5. /\ Whole(wire'[c], length[c])
        /\ wire'[c] # <<>>
        /\ wire'[c][Len(wire'[c])] = part
    BY <1>1, <2>1, <2>2, <2>3, <2>4, AppendWhole
  <2>6. \A d \in Conns : d # c => wire'[d] = wire[d]
    BY <1>1, <1>6 DEF Frames, Base, TypeOK
  <2> QED
    BY <1>6, <2>5, <2>6 DEF Frames, FramesWhole, part
<1>7. CASE WriteLength
  <2>1. /\ at[Sender] = "length"
        /\ UNCHANGED <<remote, length, entry, conn, msg>>
        /\ at' = [at EXCEPT ![Sender] = "data"]
        /\ IF remote[c] = "open"
           THEN wire' = [wire EXCEPT ![c] = Append(@, [kind |-> "length", msg |-> msg])]
           ELSE wire' = wire
    BY <1>7 DEF WriteLength, Write, Goto, peerVars
  <2>2. \A d \in Conns : d # c => wire'[d] = wire[d]
    BY <1>1, <2>1 DEF Frames, Base, TypeOK
  <2>3. /\ at'[Sender] = "data"
        /\ \A g \in Goroutines : at'[g] = "register" =>
             at[g] = "register" /\ conn[g] \in Conns /\ conn[g] # c
    BY <1>3, <2>1 DEF Frames, Base, TypeOK, Owned, Held
  <2>4. CASE remote[c] = "open"
    <3>1. /\ FramesWhole'
          /\ wire'[c] # <<>>
          /\ wire'[c][Len(wire'[c])] = [kind |-> "length", msg |-> msg]
      BY <1>6, <2>1, <2>4
    <3>2. InMessage(wire'[c], length'[c], msg)
      BY <3>1 DEF InMessage
    <3>3. WritesFit'
      BY <1>1, <2>1, <2>2, <2>3, <2>4, <3>2 DEF Frames, Base, TypeOK, WritesFit
    <3> QED
      BY <3>1, <3>3
  <2>5. CASE remote[c] # "open"
    <3>1. FramesWhole'
      BY <2>1, <2>5 DEF Frames, FramesWhole
    <3>2. WritesFit'
      BY <1>1, <2>1, <2>3, <2>5 DEF Frames, Base, TypeOK, WritesFit
    <3> QED
      BY <3>1, <3>2
  <2> QED
    BY <2>4, <2>5
<1>8. CASE WriteData
  <2>1. /\ at[Sender] = "data"
        /\ UNCHANGED <<remote, length, entry, conn, msg>>
        /\ at' = [at EXCEPT ![Sender] = "idle"]
        /\ IF remote[c] = "open"
           THEN wire' = [wire EXCEPT ![c] = Append(@, [kind |-> "data", msg |-> msg])]
           ELSE wire' = wire
    BY <1>8 DEF WriteData, Write, Goto, peerVars
  <2>2. \A d \in Conns : d # c => wire'[d] = wire[d]
    BY <1>1, <2>1 DEF Frames, Base, TypeOK
  <2>3. /\ at'[Sender] = "idle"
        /\ \A g \in Goroutines : at'[g] = "register" =>
             at[g] = "register" /\ conn[g] \in Conns /\ conn[g] # c
    BY <1>3, <2>1 DEF Frames, Base, TypeOK, Owned, Held
  <2>4. FramesWhole' /\ AtBoundary(wire'[c], length'[c])
    <3>1. CASE remote[c] = "open"
      <4>1. /\ FramesWhole'
            /\ wire'[c] # <<>>
            /\ wire'[c][Len(wire'[c])] = [kind |-> "data", msg |-> msg]
        BY <1>6, <2>1, <3>1
      <4> QED
        BY <4>1 DEF AtBoundary
    <3>2. CASE remote[c] # "open"
      BY <1>1, <2>1, <3>2 DEF Frames, FramesWhole, WritesFit, AtBoundary
    <3> QED
      BY <3>1, <3>2
  <2>5. \A d \in Conns : remote'[d] # "open" => wire'[d] = <<>> /\ length'[d] = None
    BY <1>1, <2>1, <2>2 DEF Frames, WritesFit
  <2>6. entry' # None => AtBoundary(wire'[entry'], length'[entry'])
    BY <1>1, <2>1, <2>2, <2>4 DEF Frames, Base, TypeOK, WritesFit
  <2>7. \A g \in Goroutines :
          at'[g] = "register" => AtBoundary(wire'[conn'[g]], length'[conn'[g]])
    BY <2>1, <2>2, <2>3 DEF Frames, WritesFit
  <2> QED
    BY <2>3, <2>4, <2>5, <2>6, <2>7 DEF WritesFit
<1>9. CASE WriteFails
  <2>1. /\ UNCHANGED <<remote, length, conn, msg>>
        /\ at' = [at EXCEPT ![Sender] = "idle"]
        /\ entry' = None
        /\ \/ wire' = wire
           \/ /\ remote[c] = "open"
              /\ wire' = [wire EXCEPT ![c] = Append(@, [kind |-> "half", msg |-> msg])]
    BY <1>9 DEF WriteFails, GivenUp, Goto, peerVars
  <2>2. \A d \in Conns : d # c => wire'[d] = wire[d]
    BY <1>1, <2>1 DEF Frames, Base, TypeOK
  <2>3. /\ at'[Sender] = "idle"
        /\ \A g \in Goroutines : at'[g] = "register" =>
             at[g] = "register" /\ conn[g] \in Conns /\ conn[g] # c
    BY <1>3, <2>1 DEF Frames, Base, TypeOK, Owned, Held
  <2>4. FramesWhole'
    BY <1>6, <2>1 DEF Frames, FramesWhole
  <2>5. \A d \in Conns : remote'[d] # "open" => wire'[d] = <<>> /\ length'[d] = None
    BY <1>1, <2>1, <2>2 DEF Frames, WritesFit
  <2>6. \A g \in Goroutines :
          at'[g] = "register" => AtBoundary(wire'[conn'[g]], length'[conn'[g]])
    BY <2>1, <2>2, <2>3 DEF Frames, WritesFit
  <2> QED
    BY <2>1, <2>3, <2>4, <2>5, <2>6 DEF WritesFit
<1> QED
  BY <1>7, <1>8, <1>9

LEMMA FramesSending ==
  ASSUME Frames, Send \/ Reread \/ Panic \/ DeadlineFails
  PROVE  FramesWhole' /\ WritesFit'
<1> USE Apart DEF calls, sizes
<1>1. FramesWhole'
  BY DEF Frames, FramesWhole, Send, Reread, Panic, DeadlineFails, peerVars
<1>2. CASE Send
  BY <1>1, <1>2 DEF Frames, Base, TypeOK, WritesFit, Send, Goto, peerVars
<1>3. CASE Reread
  BY <1>1, <1>3
  DEF Frames, Base, TypeOK, WritesFit, Reread, Registered, Goto, peerVars
<1>4. CASE Panic
  BY <1>1, <1>4 DEF Frames, WritesFit, Panic, peerVars
<1>5. CASE DeadlineFails
  BY <1>1, <1>5 DEF Frames, Base, TypeOK, WritesFit, DeadlineFails, Goto, peerVars
<1> QED
  BY <1>2, <1>3, <1>4, <1>5

LEMMA FramesHandling ==
  ASSUME Frames, NEW c \in Conns,
         Lookup(c) \/ Read(c) \/ Leave(c) \/ CloseConnection(c)
           \/ HandleConnectionFailure(c)
  PROVE  FramesWhole' /\ WritesFit'
<1> USE Apart DEF calls, sizes
<1>1. /\ UNCHANGED <<wire, length, remote, conn, msg>>
      /\ entry' \in {entry, None}
      /\ \E label \in {"loop", "read", "close", "done", "closed", "check"} :
           at' = [at EXCEPT ![c] = label]
  BY DEF Lookup, Read, Leave, CloseConnection, HandleConnectionFailure, Goto, peerVars
<1>2. /\ at'[Sender] = at[Sender]
      /\ \A g \in Goroutines : at'[g] = "register" => at[g] = "register"
  BY <1>1 DEF Frames, Base, TypeOK
<1>3. FramesWhole'
  BY <1>1 DEF Frames, FramesWhole
<1>4. WritesFit'
  BY <1>1, <1>2 DEF Frames, WritesFit
<1> QED
  BY <1>3, <1>4

LEMMA FramesReading ==
  ASSUME Frames, NEW c \in Conns, PeerReads(c)
  PROVE  FramesWhole' /\ WritesFit'
<1> USE Apart DEF calls, sizes
<1> DEFINE Fits(parts, before) ==
      /\ Whole(parts, before)
      /\ AtBoundary(wire[c], length[c]) => AtBoundary(parts, before)
      /\ InMessage(wire[c], length[c], msg) => InMessage(parts, before, msg)
<1>1. /\ wire[c] \in Seq(Part)
      /\ Whole(wire[c], length[c])
      /\ UNCHANGED <<entry, at, conn, msg>>
      /\ \A g \in Goroutines : Held(g) => conn[g] \in Conns
  BY DEF Frames, FramesWhole, Base, TypeOK, Owned, PeerReads, ReadLength, ReadData,
         ReadFails
<1>2. /\ \A d \in Conns : d # c => wire'[d] = wire[d] /\ length'[d] = length[d]
                                    /\ remote'[d] = remote[d]
      /\ remote[c] = "open"
      /\ remote'[c] # "open" => wire'[c] = <<>> /\ length'[c] = None
  BY DEF Frames, Base, TypeOK, PeerReads, ReadLength, ReadData, ReadFails
<1>3. ASSUME ReadLength(c) \/ ReadData(c)
      PROVE  Fits(wire'[c], length'[c])
  <2>1. /\ wire[c] # <<>>
        /\ wire'[c] = Tail(wire[c])
        /\ \/ Head(wire[c]).kind = "length" /\ length'[c] = Head(wire[c]).msg
           \/ Head(wire[c]).kind = "data" /\ length'[c] = None
    BY <1>3 DEF Frames, Base, TypeOK, ReadLength, ReadData
  <2>2. CASE Head(wire[c]).kind = "length" /\ length'[c] = Head(wire[c]).msg
    <3>1. Fits(Tail(wire[c]), Head(wire[c]).msg)
      BY <1>1, <2>1, <2>2, TailWhole
    <3> QED
      BY <2>1, <2>2, <3>1
  <2>3. CASE Head(wire[c]).kind = "data" /\ length'[c] = None
    <3>1. Fits(Tail(wire[c]), None)
      BY <1>1, <2>1, <2>3, TailWhole
    <3> QED
      BY <2>1, <2>3, <3>1
  <2> QED
    BY <2>1, <2>2, <2>3
<1>4. CASE ReadLength(c) \/ ReadData(c)
  <2>1. FramesWhole'
    BY <1>2, <1>3, <1>4 DEF Frames, FramesWhole
  <2>2. remote'[c] = "open"
    BY <1>2, <1>4 DEF ReadLength, ReadData
  <2>3. WritesFit'
    BY <1>1, <1>2, <1>3, <1>4, <2>2 DEF Frames, Base, TypeOK, WritesFit, Held
  <2> QED
    BY <2>1, <2>3
<1>5. CASE ReadFails(c)
  <2>1. wire'[c] = <<>> /\ length'[c] = None /\ remote'[c] = "closed"
    BY <1>5 DEF Frames, Base, TypeOK, ReadFails
  <2>2. FramesWhole'
    BY <1>2, <2>1, EmptyWhole DEF Frames, FramesWhole
  <2>3. WritesFit'
    <3>1. entry # None => entry \in Conns
      BY DEF Frames, Base, TypeOK
    <3>2. AtBoundary(wire'[c], length'[c])
      BY <2>1, EmptyWhole
    <3>3. \A d \in Conns : AtBoundary(wire[d], length[d])
                            => AtBoundary(wire'[d], length'[d])
      BY <1>2, <3>2
    <3>4. \A d \in Conns : remote'[d] # "open" => wire'[d] = <<>> /\ length'[d] = None
      BY <1>2 DEF Frames, WritesFit
    <3>5. at[Sender] = "data" /\ remote'[conn[Sender]] = "open"
            => InMessage(wire'[conn[Sender]], length'[conn[Sender]], msg)
      BY <1>1, <1>2, <2>1 DEF Frames, WritesFit, Held
    <3> HIDE DEF Fits
    <3> QED
      BY <1>1, <3>1, <3>3, <3>4, <3>5 DEF Frames, WritesFit, Held
  <2> QED
    BY <2>2, <2>3
<1> QED
  BY <1>4, <1>5 DEF PeerReads

LEMMA FramesEnding ==
  ASSUME Frames, Stop \/ PeerStops \/ PeerStarts
  PROVE  FramesWhole' /\ WritesFit'
<1> USE Apart DEF calls, sizes
<1>1. CASE Stop
  BY <1>1 DEF Frames, FramesWhole, WritesFit, Stop, peerVars
<1>2. CASE PeerStops
  <2>1. /\ \A c \in Conns : wire'[c] = <<>> /\ length'[c] = None /\ remote'[c] # "open"
        /\ UNCHANGED <<entry, at, conn, msg>>
    BY <1>2 DEF PeerStops
  <2>2. FramesWhole'
    BY <2>1, EmptyWhole DEF FramesWhole
  <2>3. /\ entry # None => entry \in Conns
        /\ \A g \in Goroutines : Held(g) => conn[g] \in Conns
    BY DEF Frames, Base, TypeOK, Owned
  <2>4. WritesFit'
    BY <2>1, <2>3, EmptyWhole DEF WritesFit, Held
  <2> QED
    BY <2>2, <2>4
<1>3. CASE PeerStarts
  BY <1>3 DEF Frames, FramesWhole, WritesFit, PeerStarts
<1> QED
  BY <1>1, <1>2, <1>3

LEMMA FramesStep == Frames /\ [Next]_vars => Frames'
<1> SUFFICES ASSUME Frames, [Next]_vars PROVE Frames'
  OBVIOUS
<1>1. CASE SendStep
  BY <1>1, Apart, FramesDialling, FramesSending, FramesWriting, BaseStep
  DEF SendStep, Frames
<1>2. CASE Send \/ Stop \/ PeerStops \/ PeerStarts
  BY <1>2, FramesSending, FramesEnding, BaseStep DEF Frames
<1>3. ASSUME NEW c \in Conns, HandleConnection(c) \/ PeerReads(c)
      PROVE  Frames'
  BY <1>3, Apart, FramesDialling, FramesHandling, FramesReading, BaseStep
  DEF HandleConnection, Frames
<1>4. CASE UNCHANGED vars
  BY <1>4, BaseStep DEF Frames, FramesWhole, WritesFit, vars, peerVars, calls, sizes
<1> QED
  BY <1>1, <1>2, <1>3, <1>4 DEF Next

(***************************************************************************)
(* The receiver takes no part of a message for a part of another: a        *)
(* connection on which a write was cut off (p2p.go:153-166) is not written *)
(* to again, whichever connection is registered by then.                   *)
(***************************************************************************)
THEOREM ReadsWholeMessages == Spec => []FramesWhole
<1>1. Frames => FramesWhole
  BY DEF Frames
<1> QED
  BY <1>1, FramesInit, FramesStep, PTL DEF Spec
=============================================================================
