--------------------------- MODULE SnapshotProofs ---------------------------
(***************************************************************************)
(* Proofs about Snapshot, for any ring, any triggers and any number of     *)
(* laps and starts.                                                        *)
(*                                                                         *)
(* That no token is counted twice rests on the way of the tokens: they     *)
(* only travel from a process to its successor (PathInv), whose connection *)
(* nobody reads while one of them is counted.  That a complete snapshot    *)
(* was started by all rests on the way of the markers (MarkerInv): where   *)
(* there is a marker, or a handler with its id, or a closed channel, the   *)
(* sender has started the snapshot.  That no process is two laps ahead     *)
(* rests on the one token (LapInv): on one edge of the ring it is owed to  *)
(* the next process, on the others nothing is.  That a snapshot misses one *)
(* token at most rests on RecordInv: as long as it can be reached and the  *)
(* channel is open, only the token that was recorded but not counted when  *)
(* it started is missing.                                                  *)
(***************************************************************************)
EXTENDS Snapshot, FiniteSetTheorems, TLAPS

LEMMA MessageTypes ==
  /\ Token \in Message
  /\ \A i \in Nat : packMessage(i) \in Message
  /\ \A i \in Nat : packMessage(i) # Token
  /\ \A i \in Nat : packMessage(i).type = "marker"
BY FlagsAssumption DEF Token, Message, packMessage, Marker

\* What has not been lost from the end of a sequence.
LEMMA PrefixType ==
  ASSUME NEW S, NEW c \in Seq(S), NEW k \in 0..Len(c)
  PROVE  /\ SubSeq(c, 1, k) \in Seq(S)
         /\ Len(SubSeq(c, 1, k)) = k
         /\ \A i \in 1..k : i \in 1..Len(c) /\ SubSeq(c, 1, k)[i] = c[i]
OBVIOUS

LEMMA InitTypes == Init => TypeOK
<1> SUFFICES ASSUME Init PROVE TypeOK
  OBVIOUS
<1>1. State \in [Process -> Nat] /\ HasToken \in [Process -> BOOLEAN]
  BY DEF Init
<1>2. step \in [Process -> Step]
  BY DEF Init, Step
<1>3. channel \in [Process -> [Process -> Seq(Message)]]
      /\ broken \subseteq Process \X Process
  BY DEF Init
<1>4. reader \in [Process -> [Process -> Handler]]
  BY DEF Init, Handler, Reading
<1>5. objects \in [Process -> Seq(SnapshotState)]
  BY DEF Init
<1>6. /\ Snapshots \in [Process -> SUBSET [id: Nat, object: Nat]]
      /\ \A p \in Process : Current(p) \subseteq 1..Len(objects[p])
      /\ \A s, p \in Process : reader[s][p].at # "close"
  BY DEF Init, Current, Reading
<1>7. /\ markersDue \in [Process -> SUBSET Nat]
      /\ \A p \in Process : markersDue[p] \subseteq 1..Len(objects[p])
      /\ waiting \subseteq Process
      /\ completed \in [Process -> SUBSET Nat]
  BY DEF Init
<1> QED
  BY <1>1, <1>2, <1>3, <1>4, <1>5, <1>6, <1>7 DEF TypeOK

-----------------------------------------------------------------------------
(***************************************************************************)
(* What recordMessage and initializeSnapshot do to the objects.            *)
(***************************************************************************)
LEMMA RecordFacts ==
  ASSUME TypeOK, NEW s \in Process, NEW d \in Process, recordMessage(s, d)
  PROVE  /\ objects' \in [Process -> Seq(SnapshotState)]
         /\ \A p \in Process : Len(objects'[p]) = Len(objects[p])
         /\ \A p \in Process : p # d => objects'[p] = objects[p]
         /\ \A p \in Process : \A k \in 1..Len(objects[p]) :
              /\ objects'[p][k].ID = objects[p][k].ID
              /\ objects'[p][k].State = objects[p][k].State
              /\ objects'[p][k].ClosedChannels = objects[p][k].ClosedChannels
         /\ \A k \in 1..Len(objects[d]) :
              objects'[d][k].RecordedMessages \in
                {objects[d][k].RecordedMessages, objects[d][k].RecordedMessages + 1}
<1> DEFINE Recorded(k) ==
      IF k \in Current(d) /\ s \notin objects[d][k].ClosedChannels
      THEN OneMore(d, k) ELSE objects[d][k]
    new == [k \in DOMAIN objects[d] |-> Recorded(k)]
<1>1. objects' = [objects EXCEPT ![d] = new]
  BY DEF recordMessage, TypeOK
<1>2. objects[d] \in Seq(SnapshotState) /\ objects \in [Process -> Seq(SnapshotState)]
      /\ DOMAIN objects[d] = 1..Len(objects[d]) /\ Len(objects[d]) \in Nat
  BY DEF TypeOK
<1>3. ASSUME NEW k \in 1..Len(objects[d])
      PROVE  /\ Recorded(k) \in SnapshotState
             /\ Recorded(k).ID = objects[d][k].ID
             /\ Recorded(k).State = objects[d][k].State
             /\ Recorded(k).ClosedChannels = objects[d][k].ClosedChannels
             /\ Recorded(k).RecordedMessages \in
                  {objects[d][k].RecordedMessages, objects[d][k].RecordedMessages + 1}
  <2>1. objects[d][k] \in SnapshotState
    BY <1>2
  <2> QED
    BY <2>1 DEF SnapshotState, OneMore
<1> HIDE DEF Recorded
<1>4. new \in Seq(SnapshotState) /\ Len(new) = Len(objects[d])
      /\ \A k \in 1..Len(objects[d]) : new[k] = Recorded(k)
  BY <1>2, <1>3
<1> HIDE DEF new
<1>5. /\ objects'[d] = new
      /\ \A p \in Process : p # d => objects'[p] = objects[p]
      /\ objects' \in [Process -> Seq(SnapshotState)]
  BY <1>1, <1>2, <1>4
<1>6. \A p \in Process : Len(objects'[p]) = Len(objects[p])
  BY <1>4, <1>5
<1>7. \A k \in 1..Len(objects[d]) : objects'[d][k] = Recorded(k)
  BY <1>4, <1>5
<1>8. \A k \in 1..Len(objects[d]) :
        /\ objects'[d][k].ID = objects[d][k].ID
        /\ objects'[d][k].State = objects[d][k].State
        /\ objects'[d][k].ClosedChannels = objects[d][k].ClosedChannels
        /\ objects'[d][k].RecordedMessages \in
             {objects[d][k].RecordedMessages, objects[d][k].RecordedMessages + 1}
  BY <1>3, <1>7
<1>9. ASSUME NEW p \in Process, NEW k \in 1..Len(objects[p])
      PROVE  /\ objects'[p][k].ID = objects[p][k].ID
             /\ objects'[p][k].State = objects[p][k].State
             /\ objects'[p][k].ClosedChannels = objects[p][k].ClosedChannels
  <2>1. CASE p = d
    BY <1>8, <2>1
  <2>2. CASE p # d
    BY <1>5, <2>2
  <2> QED
    BY <2>1, <2>2
<1> QED
  BY <1>5, <1>6, <1>8, <1>9

LEMMA InitializeFacts ==
  ASSUME TypeOK, NEW p \in Process, NEW i \in Nat, initializeSnapshot(p, i)
  PROVE  /\ objects' \in [Process -> Seq(SnapshotState)]
         /\ Len(objects'[p]) = Len(objects[p]) + 1
         /\ objects'[p][Len(objects[p]) + 1] = NewSnapshot(p, i)
         /\ \A k \in 1..Len(objects[p]) : objects'[p][k] = objects[p][k]
         /\ \A q \in Process : q # p => objects'[q] = objects[q]
         /\ Snapshots' \in [Process -> SUBSET [id: Nat, object: Nat]]
         /\ \A q \in Process : \A e \in Snapshots'[q] :
              e \in Snapshots[q]
                \/ (q = p /\ e.id = i /\ e.object = Len(objects[p]) + 1)
         /\ markersDue' \in [Process -> SUBSET Nat]
         /\ \A q \in Process : \A k \in markersDue'[q] :
              k \in markersDue[q] \/ (q = p /\ k = Len(objects[p]) + 1)
<1>1. /\ objects[p] \in Seq(SnapshotState) /\ objects \in [Process -> Seq(SnapshotState)]
      /\ Len(objects[p]) \in Nat
      /\ Snapshots \in [Process -> SUBSET [id: Nat, object: Nat]]
      /\ markersDue \in [Process -> SUBSET Nat]
  BY DEF TypeOK
<1>2. NewSnapshot(p, i) \in SnapshotState
  BY DEF NewSnapshot, SnapshotState, TypeOK
<1>3. /\ objects' = [objects EXCEPT ![p] = Append(@, NewSnapshot(p, i))]
      /\ Snapshots' = [Snapshots EXCEPT ![p] =
           {e \in @ : e.id # i} \cup {[id |-> i, object |-> Len(objects[p]) + 1]}]
      /\ markersDue' = [markersDue EXCEPT ![p] = @ \cup {Len(objects[p]) + 1}]
  BY DEF initializeSnapshot
<1>4. Append(objects[p], NewSnapshot(p, i)) \in Seq(SnapshotState)
  BY <1>1, <1>2
<1>5. /\ objects' \in [Process -> Seq(SnapshotState)]
      /\ objects'[p] = Append(objects[p], NewSnapshot(p, i))
      /\ \A q \in Process : q # p => objects'[q] = objects[q]
  BY <1>1, <1>3, <1>4
<1>6. /\ Len(objects'[p]) = Len(objects[p]) + 1
      /\ objects'[p][Len(objects[p]) + 1] = NewSnapshot(p, i)
      /\ \A k \in 1..Len(objects[p]) : objects'[p][k] = objects[p][k]
  BY <1>1, <1>2, <1>5
<1> DEFINE K == Len(objects[p]) + 1
<1>7. K \in Nat
  BY <1>1
<1>8. /\ Snapshots' = [Snapshots EXCEPT ![p] =
           {e \in @ : e.id # i} \cup {[id |-> i, object |-> K]}]
      /\ markersDue' = [markersDue EXCEPT ![p] = @ \cup {K}]
  BY <1>3
<1> HIDE DEF K
<1>9. Snapshots' \in [Process -> SUBSET [id: Nat, object: Nat]]
  BY <1>1, <1>7, <1>8
<1>10. \A q \in Process : \A e \in Snapshots'[q] :
         e \in Snapshots[q] \/ (q = p /\ e.id = i /\ e.object = K)
  <2> SUFFICES ASSUME NEW q \in Process, NEW e \in Snapshots'[q]
               PROVE  e \in Snapshots[q] \/ (q = p /\ e.id = i /\ e.object = K)
    OBVIOUS
  <2>1. CASE q = p
    BY <1>1, <1>8, <2>1
  <2>2. CASE q # p
    BY <1>1, <1>8, <2>2
  <2> QED
    BY <2>1, <2>2
<1>11. /\ markersDue' \in [Process -> SUBSET Nat]
       /\ \A q \in Process : \A k \in markersDue'[q] :
            k \in markersDue[q] \/ (q = p /\ k = K)
  BY <1>1, <1>7, <1>8
<1> QED
  BY <1>5, <1>6, <1>9, <1>10, <1>11 DEF K

\* What CloseChannel does to the object the handler holds.
Held(s, d) == reader[s][d].object

ClosedNow(s, d) == objects[d][Held(s, d)].ClosedChannels \cup {s}

LEMMA CloseFacts ==
  ASSUME TypeOK, NEW s \in Process, NEW d \in Process, CloseChannel(s, d)
  PROVE  /\ reader[s][d].at = "close"
         /\ Held(s, d) \in 1..Len(objects[d])
         /\ objects' \in [Process -> Seq(SnapshotState)]
         /\ \A p \in Process : Len(objects'[p]) = Len(objects[p])
         /\ \A p \in Process : p # d => objects'[p] = objects[p]
         /\ \A j \in 1..Len(objects[d]) :
              j # Held(s, d) => objects'[d][j] = objects[d][j]
         /\ objects'[d][Held(s, d)].ID = objects[d][Held(s, d)].ID
         /\ objects'[d][Held(s, d)].State = objects[d][Held(s, d)].State
         /\ objects'[d][Held(s, d)].RecordedMessages
              = objects[d][Held(s, d)].RecordedMessages
         /\ objects'[d][Held(s, d)].ClosedChannels = ClosedNow(s, d)
         /\ \A p \in Process : Snapshots'[p] \subseteq Snapshots[p]
         /\ \A p \in Process : \A j \in completed'[p] :
              \/ j \in completed[p]
              \/ p = d /\ j = Held(s, d) /\ AllClosed(d, ClosedNow(s, d))
         /\ completed' \in [Process -> SUBSET Nat]
         /\ Snapshots' \in [Process -> SUBSET [id: Nat, object: Nat]]
<1> DEFINE k == reader[s][d].object
           closed == objects[d][k].ClosedChannels \cup {s}
<1>1. /\ reader[s][d].at = "close"
      /\ \/ s \in objects[d][k].ClosedChannels
            /\ UNCHANGED <<objects, Snapshots, completed>>
         \/ /\ objects' = [objects EXCEPT ![d][k].ClosedChannels = closed]
            /\ \/ /\ AllClosed(d, closed)
                  /\ completed' = [completed EXCEPT ![d] = @ \cup {k}]
                  /\ Snapshots' = [Snapshots EXCEPT ![d] =
                                     {e \in @ : e.id # reader[s][d].id}]
               \/ UNCHANGED <<Snapshots, completed>>
  BY DEF CloseChannel
<1>2. k \in 1..Len(objects[d]) /\ k \in Nat
  BY <1>1 DEF TypeOK
<1>3. /\ objects \in [Process -> Seq(SnapshotState)]
      /\ objects[d] \in Seq(SnapshotState)
      /\ objects[d][k] \in SnapshotState
      /\ Snapshots \in [Process -> SUBSET [id: Nat, object: Nat]]
      /\ completed \in [Process -> SUBSET Nat]
  BY <1>2 DEF TypeOK
<1>4. closed \in SUBSET Process
  BY <1>3 DEF SnapshotState
<1> HIDE DEF k
<1>5. CASE s \in objects[d][k].ClosedChannels
           /\ UNCHANGED <<objects, Snapshots, completed>>
  <2>1. closed = objects[d][k].ClosedChannels
    BY <1>5
  <2> QED
    BY <1>1, <1>2, <1>3, <1>5, <2>1 DEF k, Held, ClosedNow
<1>6. CASE objects' = [objects EXCEPT ![d][k].ClosedChannels = closed]
  <2> DEFINE new == [objects[d][k] EXCEPT !.ClosedChannels = closed]
  <2>1. /\ new \in SnapshotState /\ new.ID = objects[d][k].ID
        /\ new.State = objects[d][k].State
        /\ new.RecordedMessages = objects[d][k].RecordedMessages
        /\ new.ClosedChannels = closed
    <3> HIDE DEF closed
    <3> QED
      BY <1>3, <1>4 DEF SnapshotState
  <2>2. objects' = [objects EXCEPT ![d] = [objects[d] EXCEPT ![k] = new]]
    BY <1>6
  <2> HIDE DEF new, closed
  <2>3. /\ [objects[d] EXCEPT ![k] = new] \in Seq(SnapshotState)
        /\ Len([objects[d] EXCEPT ![k] = new]) = Len(objects[d])
        /\ [objects[d] EXCEPT ![k] = new][k] = new
        /\ \A j \in 1..Len(objects[d]) : j # k =>
             [objects[d] EXCEPT ![k] = new][j] = objects[d][j]
    BY <1>2, <1>3, <2>1
  <2>4. /\ objects'[d] = [objects[d] EXCEPT ![k] = new]
        /\ \A p \in Process : p # d => objects'[p] = objects[p]
        /\ objects' \in [Process -> Seq(SnapshotState)]
    BY <1>3, <2>2, <2>3
  <2>5. \A p \in Process : Len(objects'[p]) = Len(objects[p])
    BY <2>3, <2>4
  <2>6. /\ \A p \in Process : Snapshots'[p] \subseteq Snapshots[p]
        /\ \A p \in Process : \A j \in completed'[p] :
             j \in completed[p] \/ (p = d /\ j = k /\ AllClosed(d, closed))
        /\ completed' \in [Process -> SUBSET Nat]
        /\ Snapshots' \in [Process -> SUBSET [id: Nat, object: Nat]]
    <3> HIDE DEF AllClosed
    <3>0. \/ s \in objects[d][k].ClosedChannels /\ UNCHANGED <<Snapshots, completed>>
          \/ /\ AllClosed(d, closed)
             /\ completed' = [completed EXCEPT ![d] = @ \cup {k}]
             /\ Snapshots' = [Snapshots EXCEPT ![d] = {e \in @ : e.id # reader[s][d].id}]
          \/ UNCHANGED <<Snapshots, completed>>
      BY <1>1 DEF k, closed
    <3>1. CASE UNCHANGED <<Snapshots, completed>>
      BY <1>3, <3>1
    <3>2. CASE /\ AllClosed(d, closed)
               /\ completed' = [completed EXCEPT ![d] = @ \cup {k}]
               /\ Snapshots' = [Snapshots EXCEPT ![d] = {e \in @ : e.id # reader[s][d].id}]
      <4>1. \A p \in Process : Snapshots'[p] \subseteq Snapshots[p]
        BY <1>3, <3>2
      <4>2. Snapshots' \in [Process -> SUBSET [id: Nat, object: Nat]]
        BY <1>3, <3>2
      <4>3. completed' \in [Process -> SUBSET Nat]
        BY <1>2, <1>3, <3>2
      <4>4. \A p \in Process : \A j \in completed'[p] :
              j \in completed[p] \/ (p = d /\ j = k)
        BY <1>3, <3>2
      <4> QED
        BY <3>2, <4>1, <4>2, <4>3, <4>4
    <3> QED
      BY <3>0, <3>1, <3>2
  <2> QED
    BY <1>1, <1>2, <2>1, <2>3, <2>4, <2>5, <2>6 DEF k, closed, Held, ClosedNow
<1> QED
  BY <1>1, <1>5, <1>6

-----------------------------------------------------------------------------
(***************************************************************************)
(* Every variable keeps its type.                                          *)
(***************************************************************************)

\* The parts of TypeOK that tie other variables to the number of objects.
Pointers ==
  /\ \A p \in Process : Current(p) \subseteq 1..Len(objects[p])
  /\ \A s, p \in Process : reader[s][p].at = "close" =>
       reader[s][p].object \in 1..Len(objects[p])
  /\ \A p \in Process : markersDue[p] \subseteq 1..Len(objects[p])

\* More objects, and pointers to old ones or to a new one.
LEMMA PointersStay ==
  ASSUME TypeOK, \A p \in Process : Len(objects'[p]) = Len(objects[p]),
         \A p \in Process : Snapshots'[p] \subseteq Snapshots[p],
         \A p \in Process : markersDue'[p] \subseteq markersDue[p],
         \A s, p \in Process : reader'[s][p].at = "close" =>
           reader'[s][p].object \in 1..Len(objects[p])
  PROVE  Pointers'
<1>1. \A p \in Process : Current(p)' \subseteq Current(p)
  BY DEF Current
<1> QED
  BY <1>1 DEF TypeOK, Pointers

LEMMA InitializePointers ==
  ASSUME TypeOK, NEW p \in Process, NEW i \in Nat, initializeSnapshot(p, i),
         \A s, q \in Process : reader'[s][q].at = "close" => reader'[s][q] = reader[s][q]
  PROVE  Pointers'
<1> DEFINE K == Len(objects[p]) + 1
<1>1. /\ Len(objects'[p]) = K
      /\ \A q \in Process : q # p => objects'[q] = objects[q]
      /\ \A q \in Process : \A e \in Snapshots'[q] :
           e \in Snapshots[q] \/ (q = p /\ e.object = K)
      /\ \A q \in Process : \A k \in markersDue'[q] :
           k \in markersDue[q] \/ (q = p /\ k = K)
  BY InitializeFacts
<1>2. \A q \in Process : Len(objects[q]) \in Nat
  BY DEF TypeOK
<1>3. /\ K \in 1..Len(objects'[p])
      /\ \A q \in Process : 1..Len(objects[q]) \subseteq 1..Len(objects'[q])
  BY <1>1, <1>2
<1> HIDE DEF K
<1>4. \A q \in Process : Current(q)' \subseteq 1..Len(objects'[q])
  <2> SUFFICES ASSUME NEW q \in Process, NEW e \in Snapshots'[q]
               PROVE  e.object \in 1..Len(objects'[q])
    BY DEF Current
  <2>1. CASE e \in Snapshots[q]
    <3>1. e.object \in Current(q)
      BY <2>1 DEF Current
    <3> QED
      BY <1>3, <3>1 DEF TypeOK
  <2>2. CASE q = p /\ e.object = K
    BY <1>3, <2>2
  <2> QED
    BY <1>1, <2>1, <2>2
<1>5. \A q \in Process : markersDue'[q] \subseteq 1..Len(objects'[q])
  BY <1>1, <1>3 DEF TypeOK
<1>6. \A s, q \in Process : reader'[s][q].at = "close" =>
        reader'[s][q].object \in 1..Len(objects'[q])
  BY <1>3 DEF TypeOK
<1> QED
  BY <1>4, <1>5, <1>6 DEF Pointers

(***************************************************************************)
(* What a write and a break do to the connections.                         *)
(***************************************************************************)
LEMMA WriteFacts ==
  ASSUME TypeOK, NEW p \in Process, WriteToken(p)
  PROVE  /\ \/ channel' = channel
            \/ channel' = [channel EXCEPT ![p][Successor[p]] = Append(@, Token)]
         /\ \/ channel' = channel /\ step' = step
            \/ step' = [step EXCEPT ![p] = "idle"]
<1>1. /\ channel \in [Process -> [Process -> Seq(Message)]]
      /\ Successor[p] \in Process
  BY RingAssumption DEF TypeOK
<1>2. CASE WriteFails(p)
  BY <1>2 DEF WriteFails
<1>3. CASE /\ channel' = [channel EXCEPT ![p][Successor[p]] =
                           Written(p, Successor[p], Token)]
           /\ step' = [step EXCEPT ![p] = "idle"]
  <2>1. Written(p, Successor[p], Token) \in
          {channel[p][Successor[p]], Append(channel[p][Successor[p]], Token)}
    BY DEF Written
  <2>2. CASE Written(p, Successor[p], Token) = channel[p][Successor[p]]
    <3>1. channel' = channel
      BY <1>1, <1>3, <2>2
    <3> QED
      BY <1>3, <3>1
  <2>3. CASE Written(p, Successor[p], Token) = Append(channel[p][Successor[p]], Token)
    <3>1. channel' = [channel EXCEPT ![p][Successor[p]] = Append(@, Token)]
      BY <1>1, <1>3, <2>3
    <3> QED
      BY <1>3, <3>1
  <2> QED
    BY <2>1, <2>2, <2>3
<1>4. CASE channel' = channel /\ step' = [step EXCEPT ![p] = "idle"]
  BY <1>4
<1> QED
  BY <1>2, <1>3, <1>4 DEF WriteToken

LEMMA BreakFacts ==
  ASSUME TypeOK, NEW s \in Process, NEW d \in Process, BreakConnection(s, d)
  PROVE  /\ channel' \in [Process -> [Process -> Seq(Message)]]
         /\ \E k \in 0..Len(channel[s][d]) :
              channel'[s][d] = SubSeq(channel[s][d], 1, k)
         /\ \A t, q \in Process : t # s \/ q # d => channel'[t][q] = channel[t][q]
<1>1. channel \in [Process -> [Process -> Seq(Message)]]
  BY DEF TypeOK
<1>2. PICK k \in 0..Len(channel[s][d]) :
        channel' = [channel EXCEPT ![s][d] = SubSeq(@, 1, k)]
  BY DEF BreakConnection
<1> DEFINE rest == SubSeq(channel[s][d], 1, k)
<1>3. rest \in Seq(Message)
  BY <1>1, PrefixType
<1>4. channel' = [channel EXCEPT ![s] = [channel[s] EXCEPT ![d] = rest]]
  BY <1>1, <1>2
<1> HIDE DEF rest
<1>5. /\ channel' \in [Process -> [Process -> Seq(Message)]]
      /\ channel'[s][d] = rest
      /\ \A t, q \in Process : t # s \/ q # d => channel'[t][q] = channel[t][q]
  BY <1>1, <1>3, <1>4
<1> QED
  BY <1>5 DEF rest

LEMMA TokenStepTypes ==
  ASSUME TypeOK, NEW p \in Process, TokenStep(p)
  PROVE  TypeOK'
<1>1. State' \in [Process -> Nat]
  <2>1. CASE State' = [State EXCEPT ![p] = @ + 1]
    BY <2>1 DEF TypeOK
  <2> QED
    BY <2>1 DEF TypeOK, TokenStep, ProcessToken, ReleaseToken, WriteToken
<1>2. HasToken' \in [Process -> BOOLEAN]
  BY DEF TypeOK, TokenStep, ProcessToken, ReleaseToken, WriteToken
<1>3. step' \in [Process -> Step]
  BY WriteFacts DEF TypeOK, TokenStep, ProcessToken, ReleaseToken, Step
<1>4. channel' \in [Process -> [Process -> Seq(Message)]]
  <2>1. Successor[p] \in Process /\ channel[p][Successor[p]] \in Seq(Message)
    BY RingAssumption DEF TypeOK
  <2>2. Append(channel[p][Successor[p]], Token) \in Seq(Message)
    BY <2>1, MessageTypes
  <2>3. channel' = channel
        \/ channel' = [channel EXCEPT ![p][Successor[p]] = Append(@, Token)]
    BY WriteFacts DEF TokenStep, ProcessToken, ReleaseToken
  <2>4. channel \in [Process -> [Process -> Seq(Message)]]
    BY DEF TypeOK
  <2> DEFINE more == Append(channel[p][Successor[p]], Token)
             row == [channel[p] EXCEPT ![Successor[p]] = more]
  <2>5. CASE channel' = [channel EXCEPT ![p][Successor[p]] = Append(@, Token)]
    <3>1. channel' = [channel EXCEPT ![p] = row]
      BY <2>4, <2>5
    <3> HIDE DEF more
    <3>2. more \in Seq(Message)
      BY <2>2 DEF more
    <3>3. row \in [Process -> Seq(Message)]
      BY <2>1, <2>4, <3>2
    <3> HIDE DEF row
    <3> QED
      BY <2>4, <3>1, <3>3
  <2> QED
    BY <2>3, <2>4, <2>5
<1>5. UNCHANGED <<broken, reader, snapshotVars, waiting, completed>>
  BY DEF TokenStep, ProcessToken, ReleaseToken, WriteToken
<1> QED
  BY <1>1, <1>2, <1>3, <1>4, <1>5 DEF TypeOK, snapshotVars, Current

\* The types of reader after a step of a handler.
LEMMA ReaderTypes ==
  ASSUME reader \in [Process -> [Process -> Handler]], NEW s \in Process,
         NEW d \in Process, NEW h \in Handler,
         reader' = [reader EXCEPT ![s][d] = h]
  PROVE  /\ reader' \in [Process -> [Process -> Handler]]
         /\ reader'[s][d] = h
         /\ \A t, q \in Process : reader'[t][q] = reader[t][q]
                                    \/ (t = s /\ q = d /\ reader'[t][q] = h)
OBVIOUS

LEMMA StepTypes == TypeOK /\ [Next]_vars => TypeOK'
<1> SUFFICES ASSUME TypeOK, [Next]_vars PROVE TypeOK'
  OBVIOUS
<1>1. ASSUME NEW p \in Process, TokenStep(p) PROVE TypeOK'
  BY <1>1, TokenStepTypes
<1>2. ASSUME NEW p \in Process, TriggerSnapshot(p) PROVE TypeOK'
  <2>1. SnapshotID[p] \in Nat
    BY FlagsAssumption
  <2>2. initializeSnapshot(p, SnapshotID[p])
        /\ UNCHANGED <<State, HasToken, step, channel, broken, reader, completed>>
        /\ waiting' \subseteq waiting
    BY <1>2 DEF TriggerSnapshot, tokenVars
  <2>3. Pointers'
    BY <2>1, <2>2, InitializePointers
  <2>4. /\ objects' \in [Process -> Seq(SnapshotState)]
        /\ Snapshots' \in [Process -> SUBSET [id: Nat, object: Nat]]
        /\ markersDue' \in [Process -> SUBSET Nat]
    BY <2>1, <2>2, InitializeFacts
  <2> QED
    BY <2>2, <2>3, <2>4 DEF TypeOK, Pointers
<1>3. ASSUME NEW p \in Process, SendMarkers(p) PROVE TypeOK'
  <2>1. PICK k \in markersDue[p] :
          /\ markersDue' = [markersDue EXCEPT ![p] = @ \ {k}]
          /\ channel' = [channel EXCEPT ![p] =
               [d \in Process |-> IF d = p THEN @[d]
                                  ELSE Written(p, d, packMessage(objects[p][k].ID))]]
          /\ UNCHANGED <<tokenVars, broken, reader, objects, Snapshots, waiting, completed>>
    BY <1>3 DEF SendMarkers
  <2>2. objects[p][k].ID \in Nat
    <3>1. k \in 1..Len(objects[p]) /\ objects[p] \in Seq(SnapshotState)
      BY <2>1 DEF TypeOK
    <3>2. objects[p][k] \in SnapshotState
      BY <3>1
    <3> QED
      BY <3>2 DEF SnapshotState
  <2>3. \A d \in Process :
          Written(p, d, packMessage(objects[p][k].ID)) \in Seq(Message)
    BY <2>2, MessageTypes DEF TypeOK, Written
  <2>4. channel' \in [Process -> [Process -> Seq(Message)]]
    BY <2>1, <2>3 DEF TypeOK
  <2>5. markersDue' \in [Process -> SUBSET Nat]
        /\ \A q \in Process : markersDue'[q] \subseteq markersDue[q]
    BY <2>1 DEF TypeOK
  <2>6. Pointers'
    BY <2>1, <2>5, PointersStay DEF TypeOK
  <2> QED
    BY <2>1, <2>4, <2>5, <2>6 DEF TypeOK, tokenVars, Pointers
<1>4. ASSUME NEW s \in Process, NEW d \in Process, ReceiveToken(s, d) PROVE TypeOK'
  <2>1. Tail(channel[s][d]) \in Seq(Message)
    BY <1>4 DEF ReceiveToken, CanRead, TypeOK
  <2>2. channel' \in [Process -> [Process -> Seq(Message)]]
    BY <1>4, <2>1 DEF ReceiveToken, TypeOK
  <2>3. step' \in [Process -> Step]
    BY <1>4 DEF ReceiveToken, TypeOK, Step
  <2>4. objects' \in [Process -> Seq(SnapshotState)]
        /\ \A p \in Process : Len(objects'[p]) = Len(objects[p])
    BY <1>4, RecordFacts DEF ReceiveToken
  <2>5. Pointers'
    BY <1>4, <2>4, PointersStay DEF ReceiveToken, TypeOK
  <2> QED
    BY <1>4, <2>2, <2>3, <2>4, <2>5 DEF ReceiveToken, TypeOK, Pointers
<1>5. ASSUME NEW s \in Process, NEW d \in Process, ReceiveMarker(s, d) PROVE TypeOK'
  <2> DEFINE i == Head(channel[s][d]).id
             found == {e.object : e \in {x \in Snapshots[d] : x.id = i}}
  <2>1. /\ channel[s][d] # <<>>
        /\ channel' = [channel EXCEPT ![s][d] = Tail(@)]
        /\ \/ \E k \in found :
                reader' = [reader EXCEPT ![s][d] = [at |-> "close", id |-> i, object |-> k]]
           \/ reader' = [reader EXCEPT ![s][d] = [at |-> "start", id |-> i, object |-> 0]]
        /\ UNCHANGED <<tokenVars, broken, snapshotVars, waiting, completed>>
    BY <1>5 DEF ReceiveMarker, CanRead
  <2>2. channel[s][d] \in Seq(Message)
    BY DEF TypeOK
  <2>3. Head(channel[s][d]) \in Message /\ Tail(channel[s][d]) \in Seq(Message)
    BY <2>1, <2>2
  <2>4. i \in Nat
    BY <2>3 DEF Message
  <2>5. found \subseteq Current(d) /\ found \subseteq Nat
    BY DEF Current, TypeOK
  <2> HIDE DEF i, found
  <2>6. PICK h \in Handler :
          /\ reader' = [reader EXCEPT ![s][d] = h]
          /\ h.at = "close" => h.object \in Current(d)
    <3>1. CASE \E k \in found :
                 reader' = [reader EXCEPT ![s][d] = [at |-> "close", id |-> i, object |-> k]]
      <4>1. PICK k \in found :
              reader' = [reader EXCEPT ![s][d] = [at |-> "close", id |-> i, object |-> k]]
        BY <3>1
      <4>2. [at |-> "close", id |-> i, object |-> k] \in Handler
        BY <2>4, <2>5 DEF Handler
      <4> QED
        BY <2>5, <4>1, <4>2
    <3>2. CASE reader' = [reader EXCEPT ![s][d] = [at |-> "start", id |-> i, object |-> 0]]
      <4>1. [at |-> "start", id |-> i, object |-> 0] \in Handler
        BY <2>4 DEF Handler
      <4> QED
        BY <3>2, <4>1
    <3> QED
      BY <2>1, <3>1, <3>2
  <2>7. /\ reader' \in [Process -> [Process -> Handler]]
        /\ \A t, q \in Process : reader'[t][q] = reader[t][q]
                                   \/ (t = s /\ q = d /\ reader'[t][q] = h)
    BY <2>6, ReaderTypes DEF TypeOK
  <2>8. Pointers'
    <3>1. ASSUME NEW t \in Process, NEW q \in Process, reader'[t][q].at = "close"
          PROVE  reader'[t][q].object \in 1..Len(objects[q])
      <4>1. CASE reader'[t][q] = reader[t][q]
        BY <3>1, <4>1 DEF TypeOK
      <4>2. CASE t = s /\ q = d /\ reader'[t][q] = h
        BY <2>6, <3>1, <4>2 DEF TypeOK
      <4> QED
        BY <2>7, <4>1, <4>2
    <3> QED
      BY <2>1, <3>1, PointersStay DEF snapshotVars
  <2>9. channel' \in [Process -> [Process -> Seq(Message)]]
    BY <2>1, <2>3 DEF TypeOK
  <2> QED
    BY <2>1, <2>7, <2>8, <2>9 DEF TypeOK, tokenVars, snapshotVars, Pointers
<1>6. ASSUME NEW s \in Process, NEW d \in Process, StartSnapshot(s, d) PROVE TypeOK'
  <2>1. reader[s][d] \in Handler /\ reader[s][d].id \in Nat
    BY DEF TypeOK, Handler
  <2> DEFINE h == [reader[s][d] EXCEPT !.at = "find"]
  <2>2. h \in Handler /\ h.at = "find"
    BY <2>1 DEF Handler
  <2>3. reader' = [reader EXCEPT ![s][d] = h]
    BY <1>6 DEF StartSnapshot, TypeOK
  <2> HIDE DEF h
  <2>4. /\ reader' \in [Process -> [Process -> Handler]]
        /\ \A t, q \in Process : reader'[t][q] = reader[t][q]
                                   \/ (t = s /\ q = d /\ reader'[t][q] = h)
    BY <2>2, <2>3, ReaderTypes DEF TypeOK
  <2>5. \A t, q \in Process : reader'[t][q].at = "close" => reader'[t][q] = reader[t][q]
    BY <2>2, <2>4
  <2>6. Pointers'
    BY <1>6, <2>1, <2>5, InitializePointers DEF StartSnapshot
  <2>7. /\ objects' \in [Process -> Seq(SnapshotState)]
        /\ Snapshots' \in [Process -> SUBSET [id: Nat, object: Nat]]
        /\ markersDue' \in [Process -> SUBSET Nat]
    BY <1>6, <2>1, InitializeFacts DEF StartSnapshot
  <2> QED
    BY <1>6, <2>4, <2>6, <2>7 DEF StartSnapshot, TypeOK, tokenVars, Pointers
<1>7. ASSUME NEW s \in Process, NEW d \in Process, FindSnapshot(s, d) PROVE TypeOK'
  <2>1. PICK e \in Snapshots[d] :
          /\ reader' = [reader EXCEPT ![s][d].at = "close", ![s][d].object = e.object]
          /\ UNCHANGED <<tokenVars, channel, broken, snapshotVars, waiting, completed>>
    BY <1>7 DEF FindSnapshot
  <2>2. e.object \in Current(d) /\ e.object \in Nat
    BY DEF TypeOK, Current
  <2> DEFINE h == [reader[s][d] EXCEPT !.at = "close", !.object = e.object]
  <2>3. h \in Handler /\ h.object = e.object
    <3>1. reader[s][d] \in Handler
      BY DEF TypeOK
    <3> QED
      BY <2>2, <3>1 DEF Handler
  <2>4. reader' = [reader EXCEPT ![s][d] = h]
    BY <2>1 DEF TypeOK
  <2> HIDE DEF h
  <2>5. /\ reader' \in [Process -> [Process -> Handler]]
        /\ \A t, q \in Process : reader'[t][q] = reader[t][q]
                                   \/ (t = s /\ q = d /\ reader'[t][q] = h)
    BY <2>3, <2>4, ReaderTypes DEF TypeOK
  <2>6. Pointers'
    <3>1. \A t, q \in Process : reader'[t][q].at = "close" =>
            reader'[t][q].object \in 1..Len(objects[q])
      BY <2>2, <2>3, <2>5 DEF TypeOK
    <3> QED
      BY <2>1, <3>1, PointersStay DEF snapshotVars
  <2> QED
    BY <2>1, <2>5, <2>6 DEF TypeOK, tokenVars, snapshotVars, Pointers
<1>8. ASSUME NEW s \in Process, NEW d \in Process, CloseChannel(s, d) PROVE TypeOK'
  <2>1. /\ objects' \in [Process -> Seq(SnapshotState)]
        /\ \A p \in Process : Len(objects'[p]) = Len(objects[p])
        /\ \A p \in Process : Snapshots'[p] \subseteq Snapshots[p]
        /\ completed' \in [Process -> SUBSET Nat]
        /\ Snapshots' \in [Process -> SUBSET [id: Nat, object: Nat]]
    BY <1>8, CloseFacts
  <2>2. /\ reader' = [reader EXCEPT ![s][d] = Reading]
        /\ UNCHANGED <<tokenVars, channel, broken, markersDue, waiting>>
    BY <1>8 DEF CloseChannel
  <2>3. Reading \in Handler /\ Reading.at = "read"
    BY DEF Reading, Handler
  <2>4. /\ reader' \in [Process -> [Process -> Handler]]
        /\ \A t, q \in Process : reader'[t][q] = reader[t][q]
                                   \/ (t = s /\ q = d /\ reader'[t][q] = Reading)
    BY <2>2, <2>3, ReaderTypes DEF TypeOK
  <2>5. Pointers'
    <3>1. ASSUME NEW t \in Process, NEW q \in Process, reader'[t][q].at = "close"
          PROVE  reader'[t][q].object \in 1..Len(objects[q])
      <4>1. reader'[t][q] = reader[t][q]
        BY <2>3, <2>4, <3>1
      <4> QED
        BY <3>1, <4>1 DEF TypeOK
    <3> QED
      BY <2>1, <2>2, <3>1, PointersStay
  <2> QED
    BY <2>1, <2>2, <2>4, <2>5 DEF TypeOK, tokenVars, Pointers
<1>9. CASE UNCHANGED vars
  BY <1>9 DEF TypeOK, vars, tokenVars, snapshotVars, Current
<1>10. ASSUME NEW s \in Process, NEW d \in Process, BreakConnection(s, d)
       PROVE  TypeOK'
  <2>1. channel' \in [Process -> [Process -> Seq(Message)]]
    BY <1>10, BreakFacts
  <2>2. /\ broken' \subseteq Process \X Process
        /\ UNCHANGED <<tokenVars, reader, snapshotVars, waiting, completed>>
    BY <1>10 DEF BreakConnection, TypeOK
  <2> QED
    BY <2>1, <2>2 DEF TypeOK, tokenVars, snapshotVars, Current
<1> QED
  BY <1>1, <1>2, <1>3, <1>4, <1>5, <1>6, <1>7, <1>8, <1>9, <1>10
  DEF Next, ReaderStep

(***************************************************************************)
(* Every reachable state is typed; in particular no handler holds, and no  *)
(* goroutine sends, an object that was not made.                           *)
(***************************************************************************)
THEOREM TypeCorrect == Spec => []TypeOK
BY InitTypes, StepTypes, PTL DEF Spec

-----------------------------------------------------------------------------
(***************************************************************************)
(* What a step does to a connection.                                       *)
(***************************************************************************)
LEMMA ChannelFacts ==
  ASSUME TypeOK, [Next]_vars, NEW s \in Process, NEW d \in Process
  PROVE  \/ channel'[s][d] = channel[s][d]
         \/ channel[s][d] # <<>> /\ channel'[s][d] = Tail(channel[s][d])
         \/ d = Successor[s] /\ channel'[s][d] = Append(channel[s][d], Token)
         \/ /\ d # s
            /\ \E k \in markersDue[s] :
                 channel'[s][d] = Append(channel[s][d], packMessage(objects[s][k].ID))
         \/ \E k \in 0..Len(channel[s][d]) :
              channel'[s][d] = SubSeq(channel[s][d], 1, k)
<1>1. channel \in [Process -> [Process -> Seq(Message)]]
  BY DEF TypeOK
<1>2. CASE UNCHANGED channel
  BY <1>2
<1>3. ASSUME NEW p \in Process, WriteToken(p)
      PROVE  \/ channel'[s][d] = channel[s][d]
             \/ d = Successor[s] /\ channel'[s][d] = Append(channel[s][d], Token)
  <2>1. \/ channel' = channel
        \/ channel' = [channel EXCEPT ![p][Successor[p]] = Append(@, Token)]
    BY <1>3, WriteFacts
  <2>2. CASE channel' = [channel EXCEPT ![p][Successor[p]] = Append(@, Token)]
    <3>1. CASE s = p /\ d = Successor[p]
      BY <1>1, <2>2, <3>1
    <3>2. CASE s # p \/ d # Successor[p]
      BY <1>1, <2>2, <3>2
    <3> QED
      BY <3>1, <3>2
  <2> QED
    BY <2>1, <2>2
<1>4. ASSUME NEW p \in Process, SendMarkers(p)
      PROVE  \/ channel'[s][d] = channel[s][d]
             \/ /\ d # s
                /\ \E k \in markersDue[s] : channel'[s][d] =
                     Append(channel[s][d], packMessage(objects[s][k].ID))
  <2>1. PICK k \in markersDue[p] :
          channel' = [channel EXCEPT ![p] =
            [q \in Process |-> IF q = p THEN @[q]
                               ELSE Written(p, q, packMessage(objects[p][k].ID))]]
    BY <1>4 DEF SendMarkers
  <2>2. CASE s = p /\ d # p
    BY <1>1, <2>1, <2>2 DEF Written
  <2>3. CASE s # p \/ d = p
    BY <1>1, <2>1, <2>3
  <2> QED
    BY <2>2, <2>3
<1>5. ASSUME NEW t \in Process, NEW q \in Process,
             ReceiveToken(t, q) \/ ReceiveMarker(t, q)
      PROVE  \/ channel'[s][d] = channel[s][d]
             \/ channel[s][d] # <<>> /\ channel'[s][d] = Tail(channel[s][d])
  <2>1. channel[t][q] # <<>> /\ channel' = [channel EXCEPT ![t][q] = Tail(@)]
    BY <1>5 DEF ReceiveToken, ReceiveMarker, CanRead
  <2>2. CASE s = t /\ d = q
    BY <1>1, <2>1, <2>2
  <2>3. CASE s # t \/ d # q
    BY <1>1, <2>1, <2>3
  <2> QED
    BY <2>2, <2>3
<1>6. ASSUME NEW t \in Process, NEW q \in Process,
             StartSnapshot(t, q) \/ FindSnapshot(t, q) \/ CloseChannel(t, q)
      PROVE  UNCHANGED channel
  BY <1>6 DEF StartSnapshot, FindSnapshot, CloseChannel
<1>7. ASSUME NEW p \in Process, ProcessToken(p) \/ ReleaseToken(p) \/ TriggerSnapshot(p)
      PROVE  UNCHANGED channel
  BY <1>7 DEF ProcessToken, ReleaseToken, TriggerSnapshot
<1>8. ASSUME NEW t \in Process, NEW q \in Process, BreakConnection(t, q)
      PROVE  \/ channel'[s][d] = channel[s][d]
             \/ \E k \in 0..Len(channel[s][d]) :
                  channel'[s][d] = SubSeq(channel[s][d], 1, k)
  BY <1>8, BreakFacts
<1> QED
  BY <1>2, <1>3, <1>4, <1>5, <1>6, <1>7, <1>8 DEF Next, ReaderStep, TokenStep, vars

-----------------------------------------------------------------------------
(***************************************************************************)
(* Tokens travel from a process to its successor.                          *)
(***************************************************************************)
Allowed(s, d) == {m \in Message : m = Token => Successor[s] = d}

PathInv == \A s, d \in Process : channel[s][d] \in Seq(Allowed(s, d))

LEMMA PathInit == Init => PathInv
BY DEF Init, PathInv

LEMMA PathStep == TypeOK /\ PathInv /\ [Next]_vars => PathInv'
<1> SUFFICES ASSUME TypeOK, PathInv, [Next]_vars, NEW s \in Process, NEW d \in Process
             PROVE  channel'[s][d] \in Seq(Allowed(s, d))
  BY DEF PathInv
<1> DEFINE S == Allowed(s, d)
<1>1. channel[s][d] \in Seq(S)
  BY DEF PathInv
<1>2. d = Successor[s] => Token \in S
  BY MessageTypes DEF Allowed
<1>3. ASSUME NEW k \in markersDue[s]
      PROVE  packMessage(objects[s][k].ID) \in S
  <2>1. k \in 1..Len(objects[s]) /\ objects[s] \in Seq(SnapshotState)
    BY DEF TypeOK
  <2>2. objects[s][k] \in SnapshotState
    BY <2>1
  <2>3. objects[s][k].ID \in Nat
    BY <2>2 DEF SnapshotState
  <2> QED
    BY <2>3, MessageTypes DEF Allowed
<1> HIDE DEF S
<1>4. CASE channel[s][d] # <<>> /\ channel'[s][d] = Tail(channel[s][d])
  BY <1>1, <1>4 DEF S
<1>5. CASE d = Successor[s] /\ channel'[s][d] = Append(channel[s][d], Token)
  <2>1. Append(channel[s][d], Token) \in Seq(S)
    BY <1>1, <1>2, <1>5
  <2> QED
    BY <1>5, <2>1 DEF S
<1>6. CASE \E k \in markersDue[s] : channel'[s][d] =
             Append(channel[s][d], packMessage(objects[s][k].ID))
  <2>1. PICK k \in markersDue[s] : channel'[s][d] =
          Append(channel[s][d], packMessage(objects[s][k].ID))
    BY <1>6
  <2>2. packMessage(objects[s][k].ID) \in S
    BY <1>3
  <2>3. Append(channel[s][d], packMessage(objects[s][k].ID)) \in Seq(S)
    BY <1>1, <2>2
  <2> QED
    BY <2>1, <2>3 DEF S
<1>7. CASE channel'[s][d] = channel[s][d]
  BY <1>1, <1>7 DEF S
<1>8. ASSUME NEW k \in 0..Len(channel[s][d]), channel'[s][d] = SubSeq(channel[s][d], 1, k)
      PROVE  channel'[s][d] \in Seq(S)
  BY <1>1, <1>8, PrefixType
<1> QED
  BY <1>4, <1>5, <1>6, <1>7, <1>8, ChannelFacts DEF S

-----------------------------------------------------------------------------
(***************************************************************************)
(* No token is counted twice.  A token is recorded in a step that makes it *)
(* a received one: the process was not counting another, as tokens come    *)
(* over one connection that is not read meanwhile.                         *)
(***************************************************************************)
LEMMA CountStep ==
  ASSUME TypeOK, PathInv, NoTokenCountedTwice, [Next]_vars
  PROVE  NoTokenCountedTwice'
<1>1. \A p \in Process : \A k \in 1..Len(objects[p]) :
        /\ objects[p][k].State \in Nat /\ objects[p][k].RecordedMessages \in Nat
        /\ objects[p][k].State + objects[p][k].RecordedMessages <= Received(p)
  <2> SUFFICES ASSUME NEW p \in Process, NEW k \in 1..Len(objects[p])
               PROVE  /\ objects[p][k].State \in Nat
                      /\ objects[p][k].RecordedMessages \in Nat
    BY DEF NoTokenCountedTwice
  <2>1. objects[p] \in Seq(SnapshotState)
    BY DEF TypeOK
  <2>2. objects[p][k] \in SnapshotState
    BY <2>1
  <2> QED
    BY <2>2 DEF SnapshotState
<1>2. State \in [Process -> Nat] /\ step \in [Process -> Step]
  BY DEF TypeOK
<1>3. \A p \in Process : Received(p) \in Nat
  BY <1>2 DEF Received
<1>4. ASSUME UNCHANGED objects, \A p \in Process : Received(p)' = Received(p)
      PROVE  NoTokenCountedTwice'
  BY <1>4 DEF NoTokenCountedTwice
<1>5. ASSUME NEW p \in Process, TokenStep(p) PROVE NoTokenCountedTwice'
  <2>1. UNCHANGED objects
    BY <1>5 DEF TokenStep, ProcessToken, ReleaseToken, WriteToken, snapshotVars
  <2>2. ASSUME NEW q \in Process PROVE Received(q)' = Received(q)
    <3>1. CASE ProcessToken(p)
      <4>1. /\ step[p] = "received" /\ State' = [State EXCEPT ![p] = @ + 1]
            /\ step' = [step EXCEPT ![p] = "holding"]
        BY <3>1 DEF ProcessToken
      <4> QED
        BY <1>2, <4>1 DEF Received
    <3>2. CASE ReleaseToken(p)
      BY <1>2, <3>2 DEF Received, ReleaseToken
    <3>3. CASE WriteToken(p)
      BY <1>2, <3>3, WriteFacts DEF Received, WriteToken
    <3> QED
      BY <1>5, <3>1, <3>2, <3>3 DEF TokenStep
  <2> QED
    BY <1>4, <2>1, <2>2
<1>6. ASSUME NEW p \in Process, NEW i \in Nat, initializeSnapshot(p, i),
             UNCHANGED tokenVars
      PROVE  NoTokenCountedTwice'
  <2>1. \A q \in Process : Received(q)' = Received(q)
    BY <1>6 DEF Received, tokenVars
  <2>2. /\ Len(objects'[p]) = Len(objects[p]) + 1
        /\ objects'[p][Len(objects[p]) + 1] = NewSnapshot(p, i)
        /\ \A k \in 1..Len(objects[p]) : objects'[p][k] = objects[p][k]
        /\ \A q \in Process : q # p => objects'[q] = objects[q]
        /\ Len(objects[p]) \in Nat
    <3>1. Len(objects[p]) \in Nat
      BY DEF TypeOK
    <3> QED
      BY <1>6, <3>1, InitializeFacts
  <2>3. NewSnapshot(p, i).State + NewSnapshot(p, i).RecordedMessages <= Received(p)
    BY <1>2 DEF NewSnapshot, Received
  <2> SUFFICES ASSUME NEW q \in Process, NEW k \in 1..Len(objects'[q])
               PROVE  objects'[q][k].State + objects'[q][k].RecordedMessages
                        <= Received(q)
    BY <2>1 DEF NoTokenCountedTwice
  <2>4. CASE q # p
    BY <1>1, <2>2, <2>4
  <2>5. CASE q = p /\ k \in 1..Len(objects[p])
    BY <1>1, <2>2, <2>5
  <2>6. CASE q = p /\ k = Len(objects[p]) + 1
    BY <2>2, <2>3, <2>6
  <2>7. q = p => k \in 1..Len(objects[p]) \/ k = Len(objects[p]) + 1
    BY <2>2
  <2> QED
    BY <2>4, <2>5, <2>6, <2>7
<1>7. ASSUME NEW s \in Process, NEW d \in Process, ReceiveToken(s, d)
      PROVE  NoTokenCountedTwice'
  <2>1. Successor[s] = d
    <3>1. channel[s][d] # <<>> /\ Head(channel[s][d]) = Token
      BY <1>7 DEF ReceiveToken, CanRead
    <3>2. channel[s][d] \in Seq(Allowed(s, d))
      BY DEF PathInv
    <3>3. Head(channel[s][d]) \in Allowed(s, d)
      BY <3>1, <3>2
    <3> QED
      BY <3>1, <3>3 DEF Allowed
  <2>2. step[d] # "received"
    BY <1>7, <2>1 DEF ReceiveToken, CanRead, Busy
  <2>3. State' = State /\ step' = [step EXCEPT ![d] = "received"]
    BY <1>7 DEF ReceiveToken
  <2>4. Received(d)' = Received(d) + 1
        /\ \A q \in Process : q # d => Received(q)' = Received(q)
    BY <1>2, <2>2, <2>3 DEF Received
  <2>5. /\ \A p \in Process : Len(objects'[p]) = Len(objects[p])
        /\ \A p \in Process : p # d => objects'[p] = objects[p]
        /\ \A k \in 1..Len(objects[d]) :
             /\ objects'[d][k].State = objects[d][k].State
             /\ objects'[d][k].RecordedMessages \in
                  {objects[d][k].RecordedMessages, objects[d][k].RecordedMessages + 1}
    BY <1>7, RecordFacts DEF ReceiveToken
  <2> SUFFICES ASSUME NEW q \in Process, NEW k \in 1..Len(objects[q])
               PROVE  objects'[q][k].State + objects'[q][k].RecordedMessages
                        <= Received(q)'
    BY <2>5 DEF NoTokenCountedTwice
  <2>6. CASE q # d
    BY <1>1, <2>4, <2>5, <2>6
  <2>7. CASE q = d
    <3>1. /\ objects[d][k].State \in Nat /\ objects[d][k].RecordedMessages \in Nat
          /\ objects[d][k].State + objects[d][k].RecordedMessages <= Received(d)
      BY <1>1, <2>7
    <3>2. objects'[d][k].State = objects[d][k].State
          /\ objects'[d][k].RecordedMessages \in
               {objects[d][k].RecordedMessages, objects[d][k].RecordedMessages + 1}
      BY <2>5, <2>7
    <3>3. Received(d) \in Nat /\ Received(d)' = Received(d) + 1
      BY <1>3, <2>4
    <3>4. CASE objects'[d][k].RecordedMessages = objects[d][k].RecordedMessages
      BY <2>7, <3>1, <3>2, <3>3, <3>4
    <3>5. CASE objects'[d][k].RecordedMessages = objects[d][k].RecordedMessages + 1
      <4>1. objects[d][k].State + (objects[d][k].RecordedMessages + 1)
              <= Received(d) + 1
        BY <3>1, <3>3
      <4>2. objects'[d][k].State + objects'[d][k].RecordedMessages
              = objects[d][k].State + (objects[d][k].RecordedMessages + 1)
        BY <3>2, <3>5
      <4>3. Received(q)' = Received(d) + 1
        BY <2>7, <3>3
      <4> QED
        BY <2>7, <4>1, <4>2, <4>3
    <3> QED
      BY <3>2, <3>4, <3>5
  <2> QED
    BY <2>6, <2>7
<1>8. ASSUME NEW s \in Process, NEW d \in Process, CloseChannel(s, d)
      PROVE  NoTokenCountedTwice'
  <2> DEFINE k == Held(s, d)
  <2>1. /\ k \in 1..Len(objects[d])
        /\ \A p \in Process : Len(objects'[p]) = Len(objects[p])
        /\ \A p \in Process : p # d => objects'[p] = objects[p]
        /\ \A j \in 1..Len(objects[d]) : j # k => objects'[d][j] = objects[d][j]
        /\ objects'[d][k].State = objects[d][k].State
        /\ objects'[d][k].RecordedMessages = objects[d][k].RecordedMessages
    BY <1>8, CloseFacts
  <2> HIDE DEF k
  <2>2. \A q \in Process : Received(q)' = Received(q)
    BY <1>8 DEF CloseChannel, Received, tokenVars
  <2>3. ASSUME NEW q \in Process, NEW j \in 1..Len(objects[q])
        PROVE  objects'[q][j].State + objects'[q][j].RecordedMessages <= Received(q)
    <3>1. CASE q # d
      BY <1>1, <2>1, <3>1
    <3>2. CASE q = d /\ j # k
      BY <1>1, <2>1, <3>2
    <3>3. CASE q = d /\ j = k
      BY <1>1, <2>1, <3>3
    <3> QED
      BY <3>1, <3>2, <3>3
  <2> QED
    BY <2>1, <2>2, <2>3 DEF NoTokenCountedTwice
<1>9. ASSUME NEW s \in Process, NEW d \in Process, ReceiveMarker(s, d) \/ FindSnapshot(s, d)
      PROVE  NoTokenCountedTwice'
  BY <1>4, <1>9 DEF ReceiveMarker, FindSnapshot, snapshotVars, tokenVars, Received
<1>10. ASSUME NEW s \in Process, NEW d \in Process, StartSnapshot(s, d)
       PROVE  NoTokenCountedTwice'
  <2>1. reader[s][d].id \in Nat
    BY DEF TypeOK, Handler
  <2> QED
    BY <1>6, <1>10, <2>1 DEF StartSnapshot
<1>11. ASSUME NEW p \in Process, TriggerSnapshot(p) PROVE NoTokenCountedTwice'
  BY <1>6, <1>11, FlagsAssumption DEF TriggerSnapshot
<1>12. ASSUME NEW p \in Process, SendMarkers(p) PROVE NoTokenCountedTwice'
  BY <1>4, <1>12 DEF SendMarkers, tokenVars, Received
<1>13. CASE UNCHANGED vars
  BY <1>4, <1>13 DEF vars, tokenVars, snapshotVars, Received
<1>14. ASSUME NEW s \in Process, NEW d \in Process, BreakConnection(s, d)
       PROVE  NoTokenCountedTwice'
  BY <1>4, <1>14 DEF BreakConnection, snapshotVars, tokenVars, Received
<1> QED
  BY <1>5, <1>7, <1>8, <1>9, <1>10, <1>11, <1>12, <1>13, <1>14 DEF Next, ReaderStep

(***************************************************************************)
(* A snapshot never adds up to more tokens than its process has received,  *)
(* in any ring and however the handlers and the token interleave.          *)
(***************************************************************************)
THEOREM CountedOnce == Spec => []NoTokenCountedTwice
<1>1. Init => NoTokenCountedTwice
  BY DEF Init, NoTokenCountedTwice
<1>2. TypeOK /\ PathInv /\ NoTokenCountedTwice /\ [Next]_vars => NoTokenCountedTwice'
  BY CountStep
<1> QED
  BY <1>1, <1>2, PathInit, PathStep, TypeCorrect, PTL DEF Spec

-----------------------------------------------------------------------------
(***************************************************************************)
(* Objects stay where they are and keep their ids; a channel closes only   *)
(* in the object its handler holds.                                        *)
(***************************************************************************)
Kept(p) == \A k \in 1..Len(objects[p]) :
  k \in 1..Len(objects'[p]) /\ objects'[p][k].ID = objects[p][k].ID

Old(p, k) ==
  /\ k \in 1..Len(objects[p])
  /\ objects'[p][k].ID = objects[p][k].ID
  /\ \/ objects'[p][k].ClosedChannels = objects[p][k].ClosedChannels
     \/ \E s \in Process :
          /\ reader[s][p].at = "close" /\ reader[s][p].object = k
          /\ objects'[p][k].ClosedChannels = objects[p][k].ClosedChannels \cup {s}

New(p, k) ==
  /\ k = Len(objects[p]) + 1
  /\ objects'[p][k].ClosedChannels = {}
  /\ \/ objects'[p][k].ID = SnapshotID[p]
     \/ \E s \in Process :
          reader[s][p].at = "start" /\ objects'[p][k].ID = reader[s][p].id

LEMMA ObjectsFacts ==
  ASSUME TypeOK, [Next]_vars, NEW p \in Process
  PROVE  /\ Kept(p)
         /\ \A k \in 1..Len(objects'[p]) : Old(p, k) \/ New(p, k)
<1>1. Len(objects[p]) \in Nat
  BY DEF TypeOK
<1>2. CASE UNCHANGED objects
  BY <1>2 DEF Kept, Old
<1>3. ASSUME NEW q \in Process, NEW i \in Nat, initializeSnapshot(q, i),
             \/ i = SnapshotID[q]
             \/ \E s \in Process : reader[s][q].at = "start" /\ i = reader[s][q].id
      PROVE  Kept(p) /\ \A k \in 1..Len(objects'[p]) : Old(p, k) \/ New(p, k)
  <2>1. /\ Len(objects'[q]) = Len(objects[q]) + 1
        /\ objects'[q][Len(objects[q]) + 1] = NewSnapshot(q, i)
        /\ \A k \in 1..Len(objects[q]) : objects'[q][k] = objects[q][k]
        /\ q # p => objects'[p] = objects[p]
    BY <1>3, InitializeFacts
  <2>2. CASE q # p
    BY <2>1, <2>2 DEF Kept, Old
  <2>3. CASE q = p
    <3>1. Kept(p)
      BY <1>1, <2>1, <2>3 DEF Kept
    <3>2. \A k \in 1..Len(objects[p]) : Old(p, k)
      BY <2>1, <2>3 DEF Old
    <3>3. New(p, Len(objects[p]) + 1)
      BY <1>3, <2>1, <2>3 DEF New, NewSnapshot
    <3>4. \A k \in 1..Len(objects'[p]) :
            k \in 1..Len(objects[p]) \/ k = Len(objects[p]) + 1
      BY <1>1, <2>1, <2>3
    <3> QED
      BY <3>1, <3>2, <3>3, <3>4
  <2> QED
    BY <2>2, <2>3
<1>4. ASSUME NEW s \in Process, NEW d \in Process, ReceiveToken(s, d)
      PROVE  Kept(p) /\ \A k \in 1..Len(objects'[p]) : Old(p, k) \/ New(p, k)
  <2>1. /\ Len(objects'[p]) = Len(objects[p])
        /\ \A k \in 1..Len(objects[p]) :
             /\ objects'[p][k].ID = objects[p][k].ID
             /\ objects'[p][k].ClosedChannels = objects[p][k].ClosedChannels
    BY <1>4, RecordFacts DEF ReceiveToken
  <2> QED
    BY <2>1 DEF Kept, Old
<1>5. ASSUME NEW s \in Process, NEW d \in Process, CloseChannel(s, d)
      PROVE  Kept(p) /\ \A k \in 1..Len(objects'[p]) : Old(p, k) \/ New(p, k)
  <2> DEFINE k == Held(s, d)
  <2>0. reader[s][d].at = "close"
    BY <1>5 DEF CloseChannel
  <2>1. /\ \A q \in Process : Len(objects'[q]) = Len(objects[q])
        /\ \A q \in Process : q # d => objects'[q] = objects[q]
        /\ \A j \in 1..Len(objects[d]) : j # k => objects'[d][j] = objects[d][j]
    BY <1>5, CloseFacts
  <2>2. /\ objects'[d][k].ID = objects[d][k].ID
        /\ objects'[d][k].ClosedChannels = objects[d][k].ClosedChannels \cup {s}
    BY <1>5, CloseFacts DEF ClosedNow
  <2> HIDE DEF k
  <2> SUFFICES ASSUME NEW j \in 1..Len(objects[p])
               PROVE  objects'[p][j].ID = objects[p][j].ID /\ Old(p, j)
    BY <2>1 DEF Kept
  <2>3. CASE p # d \/ j # k
    BY <2>1, <2>3 DEF Old
  <2>4. CASE p = d /\ j = k
    BY <2>0, <2>1, <2>2, <2>4 DEF Old, k, Held
  <2> QED
    BY <2>3, <2>4
<1>6. ASSUME NEW s \in Process, NEW d \in Process, StartSnapshot(s, d)
      PROVE  Kept(p) /\ \A k \in 1..Len(objects'[p]) : Old(p, k) \/ New(p, k)
  <2>1. reader[s][d].id \in Nat
    BY DEF TypeOK, Handler
  <2> QED
    BY <1>3, <1>6, <2>1 DEF StartSnapshot
<1>7. ASSUME NEW q \in Process, TriggerSnapshot(q)
      PROVE  Kept(p) /\ \A k \in 1..Len(objects'[p]) : Old(p, k) \/ New(p, k)
  BY <1>3, <1>7, FlagsAssumption DEF TriggerSnapshot
<1>8. ASSUME NEW q \in Process, NEW s \in Process,
             \/ TokenStep(q) \/ SendMarkers(q) \/ BreakConnection(s, q)
             \/ ReceiveMarker(s, q) \/ FindSnapshot(s, q)
      PROVE  UNCHANGED objects
  BY <1>8 DEF TokenStep, ProcessToken, ReleaseToken, WriteToken, SendMarkers,
              BreakConnection, ReceiveMarker, FindSnapshot, snapshotVars
<1> QED
  BY <1>2, <1>4, <1>5, <1>6, <1>7, <1>8 DEF Next, ReaderStep, vars, snapshotVars

-----------------------------------------------------------------------------
(***************************************************************************)
(* Who has started a snapshot: every process whose marker is on its way or *)
(* with a handler, or whose channel is closed.  The ids fit the 30 bits    *)
(* that a marker has for them.                                             *)
(***************************************************************************)
Marked(s, d, i) == s # d /\ Started(s, i)

Sent(s, d) == {m \in Message : m.type = "marker" => Marked(s, d, m.id)}

MarkerInv ==
  /\ \A p \in Process : \A k \in 1..Len(objects[p]) : objects[p][k].ID < IdSpace
  /\ \A s, d \in Process : channel[s][d] \in Seq(Sent(s, d))
  /\ \A s, d \in Process :
       reader[s][d].at # "read" => Marked(s, d, reader[s][d].id)
  /\ \A p \in Process : \A e \in Snapshots[p] : objects[p][e.object].ID = e.id
  /\ \A s, d \in Process : reader[s][d].at = "close" =>
       objects[d][reader[s][d].object].ID = reader[s][d].id
  /\ \A p \in Process : \A k \in 1..Len(objects[p]) :
       \A s \in objects[p][k].ClosedChannels : Marked(s, p, objects[p][k].ID)
  /\ \A p \in Process : \A k \in completed[p] :
       k \in 1..Len(objects[p]) /\ Process \ {p} \subseteq objects[p][k].ClosedChannels

-----------------------------------------------------------------------------
\* What a step does to a handler.
LEMMA ReaderFacts ==
  ASSUME TypeOK, [Next]_vars, NEW s \in Process, NEW d \in Process,
         reader'[s][d] # reader[s][d], reader'[s][d].at # "read"
  PROVE  /\ \/ reader[s][d].at # "read" /\ reader'[s][d].id = reader[s][d].id
            \/ /\ channel[s][d] # <<>>
               /\ Head(channel[s][d]).type = "marker"
               /\ reader'[s][d].id = Head(channel[s][d]).id
         /\ reader'[s][d].at = "close" =>
              \E e \in Snapshots[d] :
                /\ e.id = reader'[s][d].id
                /\ e.object = reader'[s][d].object
<1>1. /\ reader \in [Process -> [Process -> Handler]]
      /\ reader[s][d] \in Handler
  BY DEF TypeOK
<1>2. ASSUME NEW t \in Process, NEW q \in Process, NEW h,
             reader' = [reader EXCEPT ![t][q] = h]
      PROVE  t = s /\ q = d /\ reader'[s][d] = h
  <2>1. CASE t = s /\ q = d
    BY <1>1, <1>2, <2>1
  <2>2. CASE t # s \/ q # d
    BY <1>1, <1>2, <2>2
  <2> QED
    BY <2>1, <2>2
<1>3. ASSUME NEW t \in Process, NEW q \in Process, ReceiveMarker(t, q)
      PROVE  /\ channel[s][d] # <<>>
             /\ Head(channel[s][d]).type = "marker"
             /\ reader'[s][d].id = Head(channel[s][d]).id
             /\ reader'[s][d].at = "close" =>
                  \E e \in Snapshots[d] :
                    e.id = reader'[s][d].id /\ e.object = reader'[s][d].object
  <2> DEFINE i == Head(channel[t][q]).id
             found == {e.object : e \in {x \in Snapshots[q] : x.id = i}}
  <2>1. /\ channel[t][q] # <<>> /\ Head(channel[t][q]).type = "marker"
        /\ \/ \E k \in found : reader' = [reader EXCEPT ![t][q] =
                                 [at |-> "close", id |-> i, object |-> k]]
           \/ reader' = [reader EXCEPT ![t][q] = [at |-> "start", id |-> i, object |-> 0]]
    BY <1>3 DEF ReceiveMarker, CanRead
  <2>2. CASE reader' = [reader EXCEPT ![t][q] = [at |-> "start", id |-> i, object |-> 0]]
    <3>1. t = s /\ q = d /\ reader'[s][d] = [at |-> "start", id |-> i, object |-> 0]
      BY <1>2, <2>2
    <3> QED
      BY <2>1, <3>1
  <2>3. ASSUME NEW k \in found, reader' = [reader EXCEPT ![t][q] =
                                  [at |-> "close", id |-> i, object |-> k]]
        PROVE  /\ t = s /\ q = d /\ reader'[s][d].id = i
               /\ \E e \in Snapshots[d] : e.id = i /\ e.object = reader'[s][d].object
    <3>1. t = s /\ q = d /\ reader'[s][d] = [at |-> "close", id |-> i, object |-> k]
      BY <1>2, <2>3
    <3>2. \E e \in Snapshots[q] : e.id = i /\ e.object = k
      OBVIOUS
    <3> QED
      BY <3>1, <3>2
  <2> QED
    BY <2>1, <2>2, <2>3
<1>4. ASSUME NEW t \in Process, NEW q \in Process, StartSnapshot(t, q)
      PROVE  /\ reader[s][d].at # "read" /\ reader'[s][d].id = reader[s][d].id
             /\ reader'[s][d].at # "close"
  <2>1. reader[t][q].at = "start"
        /\ reader' = [reader EXCEPT ![t][q] = [reader[t][q] EXCEPT !.at = "find"]]
    BY <1>4 DEF StartSnapshot
  <2>2. t = s /\ q = d /\ reader'[s][d] = [reader[t][q] EXCEPT !.at = "find"]
    BY <1>2, <2>1
  <2> QED
    BY <1>1, <2>1, <2>2 DEF Handler
<1>5. ASSUME NEW t \in Process, NEW q \in Process, FindSnapshot(t, q)
      PROVE  /\ reader[s][d].at # "read" /\ reader'[s][d].id = reader[s][d].id
             /\ \E e \in Snapshots[d] :
                  e.id = reader'[s][d].id /\ e.object = reader'[s][d].object
  <2>1. PICK e \in Snapshots[q] :
          /\ reader[t][q].at = "find" /\ e.id = reader[t][q].id
          /\ reader' = [reader EXCEPT ![t][q].at = "close", ![t][q].object = e.object]
    BY <1>5 DEF FindSnapshot
  <2> DEFINE h == [reader[t][q] EXCEPT !.at = "close", !.object = e.object]
  <2>2. reader' = [reader EXCEPT ![t][q] = h]
    BY <1>1, <2>1
  <2>3. reader[t][q] \in Handler
    BY <1>1
  <2>4. h.id = reader[t][q].id /\ h.object = e.object
    BY <2>3 DEF Handler
  <2> HIDE DEF h
  <2>5. t = s /\ q = d /\ reader'[s][d] = h
    BY <1>2, <2>2
  <2> QED
    BY <2>1, <2>4, <2>5
<1>6. ASSUME NEW t \in Process, NEW q \in Process, CloseChannel(t, q)
      PROVE  FALSE
  <2>1. reader' = [reader EXCEPT ![t][q] = Reading]
    BY <1>6 DEF CloseChannel
  <2>2. reader'[s][d] = Reading
    BY <1>2, <2>1
  <2> QED
    BY <2>2 DEF Reading
<1>7. ASSUME NEW p \in Process, NEW t \in Process,
             \/ TokenStep(p) \/ TriggerSnapshot(p) \/ SendMarkers(p)
             \/ ReceiveToken(t, p) \/ BreakConnection(t, p)
      PROVE  FALSE
  BY <1>7 DEF TokenStep, ProcessToken, ReleaseToken, WriteToken, TriggerSnapshot,
              SendMarkers, ReceiveToken, BreakConnection
<1> QED
  BY <1>3, <1>4, <1>5, <1>6, <1>7 DEF Next, ReaderStep, vars

\* What a step adds to the map of snapshots, and to the complete ones.
LEMMA SnapshotsFacts ==
  ASSUME TypeOK, [Next]_vars, NEW p \in Process
  PROVE  /\ \A e \in Snapshots'[p] :
              e \in Snapshots[p] \/ objects'[p][e.object].ID = e.id
         /\ \A k \in completed'[p] :
              \/ k \in completed[p]
              \/ k \in 1..Len(objects[p]) /\ AllClosed(p, objects'[p][k].ClosedChannels)
<1>1. ASSUME NEW q \in Process, NEW i \in Nat, initializeSnapshot(q, i)
      PROVE  \A e \in Snapshots'[p] :
               e \in Snapshots[p] \/ objects'[p][e.object].ID = e.id
  <2>1. /\ objects'[q][Len(objects[q]) + 1] = NewSnapshot(q, i)
        /\ \A e \in Snapshots'[p] :
             \/ e \in Snapshots[p]
             \/ p = q /\ e.id = i /\ e.object = Len(objects[q]) + 1
    BY <1>1, InitializeFacts
  <2>2. NewSnapshot(q, i).ID = i
    BY DEF NewSnapshot
  <2> QED
    BY <2>1, <2>2
<1>2. ASSUME NEW s \in Process, NEW d \in Process, StartSnapshot(s, d)
      PROVE  /\ \A e \in Snapshots'[p] :
                  e \in Snapshots[p] \/ objects'[p][e.object].ID = e.id
             /\ UNCHANGED completed
  <2>1. reader[s][d].id \in Nat
    BY DEF TypeOK, Handler
  <2> QED
    BY <1>1, <1>2, <2>1 DEF StartSnapshot
<1>3. ASSUME NEW q \in Process, TriggerSnapshot(q)
      PROVE  /\ \A e \in Snapshots'[p] :
                  e \in Snapshots[p] \/ objects'[p][e.object].ID = e.id
             /\ UNCHANGED completed
  BY <1>1, <1>3, FlagsAssumption DEF TriggerSnapshot
<1>4. ASSUME NEW s \in Process, NEW d \in Process, CloseChannel(s, d)
      PROVE  /\ Snapshots'[p] \subseteq Snapshots[p]
             /\ \A k \in completed'[p] :
                  \/ k \in completed[p]
                  \/ k \in 1..Len(objects[p]) /\ AllClosed(p, objects'[p][k].ClosedChannels)
  <2> DEFINE j == Held(s, d)
             closed == ClosedNow(s, d)
  <2>1. /\ j \in 1..Len(objects[d])
        /\ objects'[d][j].ClosedChannels = closed
        /\ \A q \in Process : Snapshots'[q] \subseteq Snapshots[q]
        /\ \A q \in Process : \A k \in completed'[q] :
             k \in completed[q] \/ (q = d /\ k = j /\ AllClosed(d, closed))
    BY <1>4, CloseFacts
  <2> HIDE DEF j, closed
  <2> QED
    BY <2>1
<1>5. ASSUME NEW q \in Process, NEW s \in Process,
             \/ TokenStep(q) \/ SendMarkers(q) \/ ReceiveToken(s, q)
             \/ ReceiveMarker(s, q) \/ FindSnapshot(s, q) \/ BreakConnection(s, q)
      PROVE  UNCHANGED <<Snapshots, completed>>
  BY <1>5 DEF TokenStep, ProcessToken, ReleaseToken, WriteToken, SendMarkers,
              ReceiveToken, ReceiveMarker, FindSnapshot, BreakConnection, snapshotVars
<1>6. CASE UNCHANGED <<Snapshots, completed>>
  BY <1>6
<1> QED
  BY <1>2, <1>3, <1>4, <1>5, <1>6 DEF Next, ReaderStep, vars, snapshotVars

-----------------------------------------------------------------------------
(***************************************************************************)
(* Every step keeps MarkerInv.  What has been started stays started.       *)
(***************************************************************************)
LEMMA MarkedStays ==
  ASSUME TypeOK, [Next]_vars, NEW s \in Process, NEW d, NEW i, Marked(s, d, i)
  PROVE  Marked(s, d, i)'
<1>1. PICK k \in 1..Len(objects[s]) : objects[s][k].ID = i
  BY DEF Marked, Started
<1>2. k \in 1..Len(objects'[s]) /\ objects'[s][k].ID = i
  BY <1>1, ObjectsFacts DEF Kept
<1> QED
  BY <1>2 DEF Marked, Started

LEMMA MarkerInit == Init => MarkerInv
BY DEF Init, MarkerInv, Reading

LEMMA IdsStep ==
  ASSUME TypeOK, MarkerInv, [Next]_vars, \A p \in Process : SnapshotID[p] < IdSpace,
         NEW p \in Process, NEW k \in 1..Len(objects'[p])
  PROVE  objects'[p][k].ID < IdSpace
<1>1. CASE Old(p, k)
  BY <1>1 DEF Old, MarkerInv
<1>2. ASSUME NEW s \in Process, reader[s][p].at = "start"
      PROVE  reader[s][p].id < IdSpace
  <2>1. PICK j \in 1..Len(objects[s]) : objects[s][j].ID = reader[s][p].id
    BY <1>2 DEF MarkerInv, Marked, Started
  <2> QED
    BY <2>1 DEF MarkerInv
<1>3. CASE New(p, k)
  BY <1>2, <1>3 DEF New
<1> QED
  BY <1>1, <1>3, ObjectsFacts

LEMMA ChannelStep ==
  ASSUME TypeOK, MarkerInv, [Next]_vars, NEW s \in Process, NEW d \in Process
  PROVE  channel'[s][d] \in Seq(Sent(s, d)')
<1>1. PICK S : S = Sent(s, d)'
  OBVIOUS
<1>2. Sent(s, d) \subseteq S
  <2> SUFFICES ASSUME NEW m \in Sent(s, d) PROVE m \in S
    OBVIOUS
  <2>1. m.type = "marker" => Marked(s, d, m.id)'
    BY MarkedStays DEF Sent
  <2> QED
    BY <1>1, <2>1 DEF Sent
<1>3. channel[s][d] \in Seq(S)
  <2>1. channel[s][d] \in Seq(Sent(s, d))
    BY DEF MarkerInv
  <2> QED
    BY <1>2, <2>1
<1>4. Token \in S
  BY <1>1, MessageTypes DEF Sent, Token
<1>5. ASSUME NEW k \in markersDue[s], d # s
      PROVE  packMessage(objects[s][k].ID) \in S
  <2>1. k \in 1..Len(objects[s]) /\ objects[s] \in Seq(SnapshotState)
    BY DEF TypeOK
  <2>2. objects[s][k] \in SnapshotState
    BY <2>1
  <2>3. objects[s][k].ID \in Nat /\ objects[s][k].ID < IdSpace
    BY <2>1, <2>2 DEF SnapshotState, MarkerInv
  <2>4. objects[s][k].ID % IdSpace = objects[s][k].ID
    BY <2>3, FlagsAssumption
  <2>5. packMessage(objects[s][k].ID) \in Message
        /\ packMessage(objects[s][k].ID).id = objects[s][k].ID
    BY <2>3, <2>4, MessageTypes DEF packMessage, Marker
  <2>6. Marked(s, d, objects[s][k].ID)
    BY <1>5, <2>1 DEF Marked, Started
  <2>7. Marked(s, d, packMessage(objects[s][k].ID).id)
    BY <2>5, <2>6
  <2>8. packMessage(objects[s][k].ID) \in Sent(s, d)
    BY <2>5, <2>7 DEF Sent
  <2> QED
    BY <1>2, <2>8
<1>6. ASSUME channel'[s][d] = channel[s][d]
      PROVE  channel'[s][d] \in Seq(S)
  BY <1>3, <1>6
<1>7. ASSUME channel[s][d] # <<>>, channel'[s][d] = Tail(channel[s][d])
      PROVE  channel'[s][d] \in Seq(S)
  BY <1>3, <1>7
<1>8. ASSUME channel'[s][d] = Append(channel[s][d], Token)
      PROVE  channel'[s][d] \in Seq(S)
  <2>1. Append(channel[s][d], Token) \in Seq(S)
    BY <1>3, <1>4
  <2> QED
    BY <1>8, <2>1
<1>9. ASSUME d # s,
             \E k \in markersDue[s] :
               channel'[s][d] = Append(channel[s][d], packMessage(objects[s][k].ID))
      PROVE  channel'[s][d] \in Seq(S)
  <2>1. PICK k \in markersDue[s] :
          channel'[s][d] = Append(channel[s][d], packMessage(objects[s][k].ID))
    BY <1>9
  <2>2. packMessage(objects[s][k].ID) \in S
    BY <1>5, <1>9
  <2>3. Append(channel[s][d], packMessage(objects[s][k].ID)) \in Seq(S)
    BY <1>3, <2>2
  <2> QED
    BY <2>1, <2>3
<1>11. ASSUME NEW k \in 0..Len(channel[s][d]), channel'[s][d] = SubSeq(channel[s][d], 1, k)
       PROVE  channel'[s][d] \in Seq(S)
  BY <1>3, <1>11, PrefixType
<1>10. channel'[s][d] \in Seq(S)
  BY <1>6, <1>7, <1>8, <1>9, <1>11, ChannelFacts
<1> QED
  BY <1>1, <1>10

\* The map has the objects under their ids.
LEMMA MapStep ==
  ASSUME TypeOK, MarkerInv, [Next]_vars, NEW p \in Process, NEW e \in Snapshots'[p]
  PROVE  objects'[p][e.object].ID = e.id
<1>1. ASSUME e \in Snapshots[p]
      PROVE  objects'[p][e.object].ID = e.id
  <2>1. e.object \in 1..Len(objects[p])
    <3>1. e.object \in Current(p)
      BY <1>1 DEF Current
    <3> QED
      BY <3>1 DEF TypeOK
  <2>2. objects'[p][e.object].ID = objects[p][e.object].ID
    BY <2>1, ObjectsFacts DEF Kept
  <2> QED
    BY <1>1, <2>2 DEF MarkerInv
<1> QED
  BY <1>1, SnapshotsFacts

LEMMA ReaderStepKeeps ==
  ASSUME TypeOK, MarkerInv, [Next]_vars, NEW s \in Process, NEW d \in Process,
         reader'[s][d].at # "read"
  PROVE  /\ Marked(s, d, reader[s][d].id)'
         /\ reader'[s][d].at = "close" =>
              objects'[d][reader'[s][d].object].ID = reader'[s][d].id
<1>1. PICK h : h = reader'[s][d]
  OBVIOUS
<1>2. Marked(s, d, h.id)
  <2>1. CASE reader'[s][d] = reader[s][d]
    BY <1>1, <2>1 DEF MarkerInv
  <2>2. CASE reader[s][d].at # "read" /\ h.id = reader[s][d].id
    BY <2>2 DEF MarkerInv
  <2>3. CASE /\ channel[s][d] # <<>>
             /\ Head(channel[s][d]).type = "marker"
             /\ h.id = Head(channel[s][d]).id
    <3>1. channel[s][d] \in Seq(Sent(s, d))
      BY DEF MarkerInv
    <3>2. Head(channel[s][d]) \in Sent(s, d)
      BY <2>3, <3>1
    <3> QED
      BY <2>3, <3>2 DEF Sent
  <2> QED
    BY <1>1, <2>1, <2>2, <2>3, ReaderFacts
<1>3. Marked(s, d, h.id)'
  BY <1>2, MarkedStays
<1>4. ASSUME h.at = "close"
      PROVE  objects'[d][h.object].ID = h.id
  <2>1. ASSUME reader'[s][d] = reader[s][d]
        PROVE  objects'[d][h.object].ID = h.id
    <3>1. h.object \in 1..Len(objects[d]) /\ objects[d][h.object].ID = h.id
      BY <1>1, <1>4, <2>1 DEF TypeOK, MarkerInv
    <3> QED
      BY <3>1, ObjectsFacts DEF Kept
  <2>2. ASSUME NEW e \in Snapshots[d], e.id = h.id, e.object = h.object
        PROVE  objects'[d][h.object].ID = h.id
    <3>1. e.object \in Current(d) /\ objects[d][e.object].ID = e.id
      BY DEF Current, MarkerInv
    <3>2. e.object \in 1..Len(objects[d])
      BY <3>1 DEF TypeOK
    <3> QED
      BY <2>2, <3>1, <3>2, ObjectsFacts DEF Kept
  <2> QED
    BY <1>1, <1>4, <2>1, <2>2, ReaderFacts
<1>5. Marked(s, d, reader[s][d].id)'
  BY <1>1, <1>3 DEF Marked, Started
<1> QED
  BY <1>1, <1>4, <1>5

LEMMA ClosedStep ==
  ASSUME TypeOK, MarkerInv, [Next]_vars, NEW p \in Process,
         NEW k \in 1..Len(objects'[p]), NEW s \in objects'[p][k].ClosedChannels
  PROVE  Marked(s, p, objects[p][k].ID)'
<1>1. Old(p, k)
  BY ObjectsFacts DEF New
<1>2. s \in Process /\ Marked(s, p, objects[p][k].ID)
  <2>1. k \in 1..Len(objects[p]) /\ objects[p] \in Seq(SnapshotState)
    BY <1>1 DEF Old, TypeOK
  <2>2. objects[p][k] \in SnapshotState
    BY <2>1
  <2>3. CASE s \in objects[p][k].ClosedChannels
    BY <2>1, <2>2, <2>3 DEF MarkerInv, SnapshotState
  <2>4. CASE s \in Process /\ reader[s][p].at = "close" /\ reader[s][p].object = k
    BY <2>4 DEF MarkerInv
  <2> QED
    BY <1>1, <2>3, <2>4 DEF Old
<1>3. PICK i : i = objects[p][k].ID
  OBVIOUS
<1>4. Marked(s, p, i)'
  BY <1>2, <1>3, MarkedStays
<1>5. objects'[p][k].ID = i
  BY <1>1, <1>3 DEF Old
<1> QED
  BY <1>4, <1>5 DEF Marked, Started

LEMMA CompleteStep ==
  ASSUME TypeOK, MarkerInv, [Next]_vars, NEW p \in Process, NEW k \in completed'[p]
  PROVE  /\ k \in 1..Len(objects'[p])
         /\ Process \ {p} \subseteq objects'[p][k].ClosedChannels
<1>1. k \in 1..Len(objects[p])
  BY SnapshotsFacts DEF MarkerInv
<1>2. k \in 1..Len(objects'[p])
  BY <1>1, ObjectsFacts DEF Kept
<1>3. Len(objects[p]) \in Nat
  BY DEF TypeOK
<1>4. Old(p, k)
  BY <1>1, <1>2, <1>3, ObjectsFacts DEF New
<1>5. CASE k \in completed[p]
  BY <1>2, <1>4, <1>5 DEF Old, MarkerInv
<1>6. CASE AllClosed(p, objects'[p][k].ClosedChannels)
  <2> DEFINE C == objects'[p][k].ClosedChannels
             Others == Process \ {p}
  <2>1. C \subseteq Process
    <3>1. objects'[p] \in Seq(SnapshotState)
      BY StepTypes DEF TypeOK
    <3>2. objects'[p][k] \in SnapshotState
      BY <1>2, <3>1
    <3> QED
      BY <3>2 DEF SnapshotState
  <2>2. \A s \in C : s # p
    BY <1>2, ClosedStep DEF Marked
  <2>3. C \in SUBSET Others
    BY <2>1, <2>2
  <2>4. IsFiniteSet(Others)
    BY RingAssumption, FS_RemoveElement
  <2>5. Cardinality(C) = Cardinality(Others)
    BY <1>6 DEF AllClosed
  <2> HIDE DEF C, Others
  <2>6. C = Others
    BY <2>3, <2>4, <2>5, FS_Subset
  <2> QED
    BY <1>2, <2>6 DEF C, Others
<1> QED
  BY <1>5, <1>6, SnapshotsFacts

LEMMA MarkerStep ==
  ASSUME TypeOK, MarkerInv, [Next]_vars, \A p \in Process : SnapshotID[p] < IdSpace
  PROVE  MarkerInv'
<1>1. \A p \in Process : \A k \in 1..Len(objects'[p]) : objects'[p][k].ID < IdSpace
  BY IdsStep
<1>2. \A s, d \in Process : channel'[s][d] \in Seq(Sent(s, d)')
  BY ChannelStep
<1>3. \A s, d \in Process : reader'[s][d].at # "read" =>
        /\ Marked(s, d, reader[s][d].id)'
        /\ reader'[s][d].at = "close" =>
             objects'[d][reader'[s][d].object].ID = reader'[s][d].id
  BY ReaderStepKeeps
<1>4. \A p \in Process : \A e \in Snapshots'[p] : objects'[p][e.object].ID = e.id
  BY MapStep
<1>5. \A p \in Process : \A k \in 1..Len(objects'[p]) :
        \A s \in objects'[p][k].ClosedChannels : Marked(s, p, objects[p][k].ID)'
  BY ClosedStep
<1>6. \A p \in Process : \A k \in completed'[p] :
        /\ k \in 1..Len(objects'[p])
        /\ Process \ {p} \subseteq objects'[p][k].ClosedChannels
  BY CompleteStep
<1> QED
  BY <1>1, <1>2, <1>3, <1>4, <1>5, <1>6 DEF MarkerInv

(***************************************************************************)
(* A snapshot that a process logs as complete has been started by all,     *)
(* provided the ids given with -p fit the bits that a marker has for them. *)
(***************************************************************************)
THEOREM CompleteIsStarted ==
  ASSUME \A p \in Process : SnapshotID[p] < IdSpace
  PROVE  Spec => []CompleteMeansStarted
<1>1. TypeOK /\ MarkerInv /\ [Next]_vars => MarkerInv'
  BY MarkerStep
<1>2. MarkerInv => CompleteMeansStarted
  <2> SUFFICES ASSUME MarkerInv, NEW p \in Process, NEW q \in Process,
                      NEW k \in completed[p]
               PROVE  Started(q, objects[p][k].ID)
    BY DEF CompleteMeansStarted
  <2>1. /\ k \in 1..Len(objects[p])
        /\ Process \ {p} \subseteq objects[p][k].ClosedChannels
    BY DEF MarkerInv
  <2>2. CASE q = p
    BY <2>1, <2>2 DEF Started
  <2>3. CASE q # p
    BY <2>1, <2>3 DEF MarkerInv, Marked
  <2> QED
    BY <2>2, <2>3
<1> QED
  BY <1>1, <1>2, MarkerInit, TypeCorrect, PTL DEF Spec

-----------------------------------------------------------------------------
(***************************************************************************)
(* The token goes round.  Each process p owes its successor the tokens it  *)
(* has counted and the successor has not, the one that Initial had without *)
(* counting it included: one if the token is on its way from the count of  *)
(* p to that of the successor, and also when it was put away there, none   *)
(* otherwise.                                                              *)
(***************************************************************************)
TokensIn(c) == {i \in 1..Len(c) : c[i] = Token}
Lone(c) == \A i, j \in TokensIn(c) : i = j

Owed(p) == State[p] + (IF p = Initial THEN 1 ELSE 0) - State[Successor[p]]

Carries(p) == step[p] \in {"start", "started", "holding", "sending"}
Edge(p) == channel[p][Successor[p]]
Travels(p) == TokensIn(Edge(p)) # {}
Arrived(p) == step[Successor[p]] = "received"

EdgeInv(p) ==
  /\ Owed(p) \in {0, 1}
  /\ Carries(p) \/ Travels(p) \/ Arrived(p) => Owed(p) = 1
  /\ ~(Carries(p) /\ Travels(p))
  /\ ~(Carries(p) /\ Arrived(p))
  /\ ~(Travels(p) /\ Arrived(p))
  /\ Lone(Edge(p))

LapInv ==
  /\ \A p \in Process : EdgeInv(p)
  /\ \A p, q \in Process : Owed(p) = 1 /\ Owed(q) = 1 => p = q

\* The successors of all processes are all processes.
LEMMA Predecessor ==
  ASSUME NEW p \in Process
  PROVE  \E s \in Process : Successor[s] = p
<1> DEFINE ring == {Successor[s] : s \in Process}
<1>1. ring \in SUBSET Process /\ ring # {} /\ \A q \in ring : Successor[q] \in ring
  BY RingAssumption
<1>2. ring = Process
  BY <1>1, OneRingAssumption
<1> QED
  BY <1>2

LEMMA TailTokens ==
  ASSUME NEW c \in Seq(Message), c # <<>>, Lone(c)
  PROVE  /\ Lone(Tail(c))
         /\ TokensIn(Tail(c)) # {} => TokensIn(c) # {}
         /\ Head(c) = Token => TokensIn(c) # {} /\ TokensIn(Tail(c)) = {}
<1>1. /\ Len(c) \in Nat \ {0} /\ Len(Tail(c)) = Len(c) - 1
      /\ Head(c) = c[1]
      /\ \A i \in 1..Len(Tail(c)) : Tail(c)[i] = c[i + 1]
  OBVIOUS
<1>2. \A i \in TokensIn(Tail(c)) : i \in Nat /\ i >= 1 /\ i + 1 \in TokensIn(c)
  BY <1>1 DEF TokensIn
<1>3. Lone(Tail(c))
  BY <1>2 DEF Lone
<1>4. Head(c) = Token => 1 \in TokensIn(c)
  BY <1>1 DEF TokensIn
<1>5. Head(c) = Token => TokensIn(Tail(c)) = {}
  BY <1>2, <1>4 DEF Lone
<1> QED
  BY <1>2, <1>3, <1>4, <1>5

LEMMA AppendTokens ==
  ASSUME NEW c \in Seq(Message), NEW m \in Message
  PROVE  /\ m # Token => TokensIn(Append(c, m)) = TokensIn(c)
         /\ TokensIn(c) = {} => Lone(Append(c, m))
<1>1. /\ Len(c) \in Nat /\ Len(Append(c, m)) = Len(c) + 1
      /\ Append(c, m)[Len(c) + 1] = m
      /\ \A i \in 1..Len(c) : Append(c, m)[i] = c[i]
  OBVIOUS
<1>2. \A i \in 1..Len(Append(c, m)) : i \in 1..Len(c) \/ i = Len(c) + 1
  BY <1>1
<1>3. \A i \in 1..Len(c) : i \in 1..Len(Append(c, m)) /\ i # Len(c) + 1
  BY <1>1
<1>4. m # Token => TokensIn(Append(c, m)) = TokensIn(c)
  BY <1>1, <1>2, <1>3 DEF TokensIn
<1>5. \A i \in TokensIn(Append(c, m)) : i \in TokensIn(c) \/ i = Len(c) + 1
  BY <1>1, <1>2 DEF TokensIn
<1> QED
  BY <1>4, <1>5 DEF Lone

LEMMA EdgeTypes ==
  ASSUME TypeOK, NEW p \in Process
  PROVE  /\ Successor[p] \in Process /\ Successor[p] # p
         /\ Edge(p) \in Seq(Message)
         /\ State[p] \in Nat /\ State[Successor[p]] \in Nat
         /\ step[p] \in Step
         /\ Owed(p) \in Int
<1>1. Successor[p] \in Process /\ Successor[p] # p
  BY RingAssumption
<1>2. State[p] \in Nat /\ State[Successor[p]] \in Nat /\ step[p] \in Step
  BY <1>1 DEF TypeOK
<1>3. Edge(p) \in Seq(Message)
  BY <1>1 DEF TypeOK, Edge
<1>4. Owed(p) \in Int
  BY <1>2 DEF Owed
<1> QED
  BY <1>1, <1>2, <1>3, <1>4

\* Connections that nothing but markers enter or leave, or that break.
LEMMA MarkersOnly ==
  ASSUME TypeOK, LapInv, UNCHANGED State,
         \A p \in Process : Carries(p)' = Carries(p) /\ Arrived(p)' = Arrived(p),
         \A p \in Process :
           \/ Edge(p)' = Edge(p)
           \/ Edge(p) # <<>> /\ Head(Edge(p)) # Token /\ Edge(p)' = Tail(Edge(p))
           \/ \E m \in Message : m # Token /\ Edge(p)' = Append(Edge(p), m)
           \/ \E k \in 0..Len(Edge(p)) : Edge(p)' = SubSeq(Edge(p), 1, k)
  PROVE  LapInv'
<1>1. \A p \in Process : Owed(p)' = Owed(p)
  BY DEF Owed
<1>2. ASSUME NEW p \in Process
      PROVE  Lone(Edge(p)') /\ (TokensIn(Edge(p)') # {} => TokensIn(Edge(p)) # {})
  <2>1. Edge(p) \in Seq(Message) /\ Lone(Edge(p))
    BY EdgeTypes DEF LapInv, EdgeInv
  <2>2. CASE Edge(p)' = Edge(p)
    BY <2>1, <2>2
  <2>3. CASE Edge(p) # <<>> /\ Head(Edge(p)) # Token /\ Edge(p)' = Tail(Edge(p))
    BY <2>1, <2>3, TailTokens
  <2>4. CASE \E m \in Message : m # Token /\ Edge(p)' = Append(Edge(p), m)
    <3>1. PICK m \in Message : m # Token /\ Edge(p)' = Append(Edge(p), m)
      BY <2>4
    <3>2. TokensIn(Append(Edge(p), m)) = TokensIn(Edge(p))
      BY <2>1, <3>1, AppendTokens
    <3> QED
      BY <2>1, <3>1, <3>2 DEF Lone
  <2>5. ASSUME NEW k \in 0..Len(Edge(p)), Edge(p)' = SubSeq(Edge(p), 1, k)
        PROVE  TokensIn(Edge(p)') \subseteq TokensIn(Edge(p))
    <3>1. /\ Len(SubSeq(Edge(p), 1, k)) = k
          /\ \A i \in 1..k : i \in 1..Len(Edge(p)) /\ SubSeq(Edge(p), 1, k)[i] = Edge(p)[i]
      BY <2>1, PrefixType
    <3> QED
      BY <2>5, <3>1 DEF TokensIn
  <2>6. CASE \E k \in 0..Len(Edge(p)) : Edge(p)' = SubSeq(Edge(p), 1, k)
    BY <2>1, <2>5, <2>6 DEF Lone
  <2> QED
    BY <2>2, <2>3, <2>4, <2>6
<1>3. \A p \in Process : EdgeInv(p)'
  BY <1>1, <1>2 DEF LapInv, EdgeInv, Travels
<1> QED
  BY <1>1, <1>3 DEF LapInv

LEMMA ReceiveLaps ==
  ASSUME TypeOK, PathInv, LapInv,
         NEW s \in Process, NEW d \in Process, ReceiveToken(s, d)
  PROVE  LapInv'
<1>1. /\ channel[s][d] # <<>> /\ Head(channel[s][d]) = Token
      /\ channel' = [channel EXCEPT ![s][d] = Tail(@)]
      /\ step' = [step EXCEPT ![d] = "received"] /\ State' = State
  BY DEF ReceiveToken, CanRead
<1>2. Successor[s] = d
  <2>1. channel[s][d] \in Seq(Allowed(s, d))
    BY DEF PathInv
  <2>2. Head(channel[s][d]) \in Allowed(s, d)
    BY <1>1, <2>1
  <2> QED
    BY <1>1, <2>2 DEF Allowed
<1>3. /\ Edge(s)' = Tail(Edge(s)) /\ Edge(s) # <<>> /\ Head(Edge(s)) = Token
      /\ \A p \in Process : p # s => Edge(p)' = Edge(p)
  BY <1>1, <1>2, RingAssumption DEF Edge, TypeOK
<1>4. Edge(s) \in Seq(Message) /\ Lone(Edge(s))
  BY EdgeTypes DEF LapInv, EdgeInv
<1>5. Travels(s) /\ ~Travels(s)' /\ Lone(Edge(s)')
  BY <1>3, <1>4, TailTokens DEF Travels
<1>6. \A p \in Process : Owed(p)' = Owed(p)
  BY <1>1 DEF Owed
<1>7. step \in [Process -> Step] /\ d # s
  BY <1>2, RingAssumption DEF TypeOK
<1>8. ASSUME NEW p \in Process, p # s
      PROVE  EdgeInv(p)'
  <2>1. Owed(p) = 0 /\ ~Carries(p) /\ ~Travels(p) /\ ~Arrived(p) /\ Lone(Edge(p))
    BY <1>5, <1>8 DEF LapInv, EdgeInv
  <2>2. ~Carries(p)'
    BY <1>1, <1>7, <2>1 DEF Carries
  <2>3. ~Arrived(p)'
    <3>1. Successor[p] \in Process /\ Successor[p] # d
      BY <1>2, <1>8, RingAssumption
    <3> QED
      BY <1>1, <1>7, <2>1, <3>1 DEF Arrived
  <2>4. ~Travels(p)' /\ Lone(Edge(p)')
    BY <1>3, <1>8, <2>1 DEF Travels
  <2> QED
    BY <1>6, <2>1, <2>2, <2>3, <2>4 DEF EdgeInv
<1>9. EdgeInv(s)'
  <2>1. Owed(s) = 1 /\ ~Carries(s)
    BY <1>5 DEF LapInv, EdgeInv
  <2>2. ~Carries(s)'
    BY <1>1, <1>7, <2>1 DEF Carries
  <2> QED
    BY <1>5, <1>6, <2>1, <2>2 DEF EdgeInv
<1> QED
  BY <1>6, <1>8, <1>9 DEF LapInv

LEMMA ProcessLaps ==
  ASSUME TypeOK, LapInv, NEW p \in Process, ProcessToken(p)
  PROVE  LapInv'
<1>1. /\ step[p] = "received" /\ step' = [step EXCEPT ![p] = "holding"]
      /\ State' = [State EXCEPT ![p] = @ + 1] /\ channel' = channel
  BY DEF ProcessToken
<1>2. PICK s \in Process : Successor[s] = p
  BY Predecessor
<1>3. p # s /\ \A q \in Process : Successor[q] = p => q = s
  BY <1>2, RingAssumption
<1>4. Arrived(s) /\ Owed(s) = 1 /\ ~Travels(s)
  BY <1>1, <1>2 DEF Arrived, LapInv, EdgeInv
<1>5. ASSUME NEW q \in Process, q # s
      PROVE  Owed(q) = 0 /\ ~Carries(q) /\ ~Travels(q) /\ ~Arrived(q)
  BY <1>4, <1>5 DEF LapInv, EdgeInv
<1>6. State \in [Process -> Nat] /\ step \in [Process -> Step]
  BY DEF TypeOK
<1>7. /\ Owed(s)' = 0 /\ Owed(p)' = 1
      /\ \A q \in Process : q # s /\ q # p => Owed(q)' = 0
  <2>1. Owed(p)' = Owed(p) + 1
    <3>1. Successor[p] \in Process /\ Successor[p] # p
      BY RingAssumption
    <3> QED
      BY <1>1, <1>6, <3>1 DEF Owed
  <2>2. Owed(s)' = Owed(s) - 1
    BY <1>1, <1>2, <1>3, <1>6 DEF Owed
  <2>3. ASSUME NEW q \in Process, q # s, q # p
        PROVE  Owed(q)' = Owed(q)
    <3>1. Successor[q] \in Process /\ Successor[q] # p
      BY <1>3, <2>3, RingAssumption
    <3> QED
      BY <1>1, <1>6, <2>3, <3>1 DEF Owed
  <2> QED
    BY <1>3, <1>4, <1>5, <2>1, <2>2, <2>3
<1>8. \A q \in Process : ~Travels(q)' /\ Lone(Edge(q)')
  BY <1>1, <1>4, <1>5 DEF Travels, Edge, LapInv, EdgeInv
<1>9. ASSUME NEW q \in Process PROVE ~Arrived(q)'
  <2>1. CASE q = s
    BY <1>1, <1>2, <1>6, <2>1 DEF Arrived
  <2>2. CASE q # s
    <3>1. Successor[q] \in Process /\ Successor[q] # p
      BY <1>3, <2>2, RingAssumption
    <3> QED
      BY <1>1, <1>5, <1>6, <2>2, <3>1 DEF Arrived
  <2> QED
    BY <2>1, <2>2
<1>10. ASSUME NEW q \in Process, q # p PROVE ~Carries(q)'
  <2>1. ~Carries(q)
    BY <1>4, <1>5 DEF LapInv, EdgeInv
  <2> QED
    BY <1>1, <1>6, <1>10, <2>1 DEF Carries
<1>11. \A q \in Process : EdgeInv(q)'
  BY <1>7, <1>8, <1>9, <1>10 DEF EdgeInv
<1>12. \A q, r \in Process : Owed(q)' = 1 /\ Owed(r)' = 1 => q = r
  BY <1>7
<1> QED
  BY <1>11, <1>12 DEF LapInv

LEMMA WriteLaps ==
  ASSUME TypeOK, LapInv, NEW p \in Process, WriteToken(p)
  PROVE  LapInv'
<1>0. CASE channel' = channel /\ step' = step
  <2>1. UNCHANGED State
    BY DEF WriteToken
  <2> QED
    BY <1>0, <2>1, MarkersOnly DEF Edge, Carries, Arrived
<1> SUFFICES ASSUME step' = [step EXCEPT ![p] = "idle"] PROVE LapInv'
  BY <1>0, WriteFacts
<1>1. /\ step[p] \in {"started", "sending"} /\ step' = [step EXCEPT ![p] = "idle"]
      /\ State' = State
      /\ \/ channel' = channel
         \/ channel' = [channel EXCEPT ![p][Successor[p]] = Append(@, Token)]
  BY WriteFacts DEF WriteToken
<1>2. Carries(p) /\ Owed(p) = 1 /\ ~Travels(p) /\ ~Arrived(p) /\ Lone(Edge(p))
  BY <1>1 DEF Carries, LapInv, EdgeInv
<1>3. /\ Edge(p)' = Edge(p) \/ Edge(p)' = Append(Edge(p), Token)
      /\ \A q \in Process : q # p => Edge(q)' = Edge(q)
  <2>1. /\ channel \in [Process -> [Process -> Seq(Message)]]
        /\ \A q \in Process : Successor[q] \in Process
    BY RingAssumption DEF TypeOK
  <2>2. CASE channel' = channel
    BY <2>2 DEF Edge
  <2>3. CASE channel' = [channel EXCEPT ![p][Successor[p]] = Append(@, Token)]
    BY <2>1, <2>3 DEF Edge
  <2> QED
    BY <1>1, <2>2, <2>3
<1>4. \A q \in Process : Owed(q)' = Owed(q)
  BY <1>1 DEF Owed
<1>5. step \in [Process -> Step] /\ \A q \in Process : Successor[q] \in Process
  BY RingAssumption DEF TypeOK
<1>6. /\ ~Carries(p)'
      /\ \A q \in Process : Carries(q)' => Carries(q)
      /\ \A q \in Process : Arrived(q)' => Arrived(q)
  BY <1>1, <1>5 DEF Carries, Arrived
<1>7. Lone(Edge(p)')
  <2>1. Edge(p) \in Seq(Message)
    BY EdgeTypes
  <2>2. Lone(Append(Edge(p), Token))
    BY <1>2, <2>1, AppendTokens, MessageTypes DEF Travels
  <2> QED
    BY <1>2, <1>3, <2>2
<1>8. EdgeInv(p)'
  BY <1>2, <1>4, <1>6, <1>7 DEF EdgeInv
<1>9. ASSUME NEW q \in Process, q # p PROVE EdgeInv(q)'
  BY <1>3, <1>4, <1>6, <1>9 DEF LapInv, EdgeInv, Travels
<1> QED
  BY <1>4, <1>8, <1>9 DEF LapInv

\* Steps of the handlers and of sendMarkers move markers only.
LEMMA MarkerLaps ==
  ASSUME TypeOK, LapInv, UNCHANGED <<State, step>>,
         NEW p \in Process, NEW s \in Process,
         \/ TriggerSnapshot(p) \/ SendMarkers(p)
         \/ ReceiveMarker(s, p) \/ StartSnapshot(s, p) \/ FindSnapshot(s, p)
         \/ CloseChannel(s, p)
  PROVE  LapInv'
<1>1. \A q \in Process : Carries(q)' = Carries(q) /\ Arrived(q)' = Arrived(q)
  BY DEF Carries, Arrived
<1>2. channel \in [Process -> [Process -> Seq(Message)]]
      /\ \A q \in Process : Successor[q] \in Process /\ Successor[q] # q
  BY RingAssumption DEF TypeOK
<1>3. CASE UNCHANGED channel
  BY <1>1, <1>3, MarkersOnly DEF Edge
<1>4. CASE ReceiveMarker(s, p)
  <2>1. /\ channel[s][p] # <<>> /\ Head(channel[s][p]).type = "marker"
        /\ channel' = [channel EXCEPT ![s][p] = Tail(@)]
    BY <1>4 DEF ReceiveMarker, CanRead
  <2>2. Head(channel[s][p]) # Token
    BY <2>1 DEF Token
  <2>3. ASSUME NEW q \in Process
        PROVE  \/ Edge(q)' = Edge(q)
               \/ Edge(q) # <<>> /\ Head(Edge(q)) # Token /\ Edge(q)' = Tail(Edge(q))
    <3>1. CASE q = s /\ Successor[q] = p
      BY <1>2, <2>1, <2>2, <3>1 DEF Edge
    <3>2. CASE q # s \/ Successor[q] # p
      BY <1>2, <2>1, <3>2 DEF Edge
    <3> QED
      BY <3>1, <3>2
  <2> QED
    BY <1>1, <2>3, MarkersOnly
<1>5. CASE SendMarkers(p)
  <2>1. PICK k \in markersDue[p] :
          channel' = [channel EXCEPT ![p] =
            [d \in Process |-> IF d = p THEN @[d]
                               ELSE Written(p, d, packMessage(objects[p][k].ID))]]
    BY <1>5 DEF SendMarkers
  <2> DEFINE m == packMessage(objects[p][k].ID)
  <2>2. m \in Message /\ m # Token
    <3>1. k \in 1..Len(objects[p]) /\ objects[p] \in Seq(SnapshotState)
      BY DEF TypeOK
    <3>2. objects[p][k] \in SnapshotState
      BY <3>1
    <3>3. objects[p][k].ID \in Nat
      BY <3>2 DEF SnapshotState
    <3> QED
      BY <3>3, MessageTypes
  <2>3. ASSUME NEW q \in Process
        PROVE  Edge(q)' = Edge(q) \/ Edge(q)' = Append(Edge(q), m)
    <3>1. CASE q = p
      BY <1>2, <2>1, <3>1 DEF Edge, Written
    <3>2. CASE q # p
      BY <1>2, <2>1, <3>2 DEF Edge
    <3> QED
      BY <3>1, <3>2
  <2> HIDE DEF m
  <2> QED
    BY <1>1, <2>2, <2>3, MarkersOnly
<1>6. TriggerSnapshot(p) \/ StartSnapshot(s, p) \/ FindSnapshot(s, p) \/ CloseChannel(s, p)
        => UNCHANGED channel
  BY DEF TriggerSnapshot, StartSnapshot, FindSnapshot, CloseChannel
<1> QED
  BY <1>3, <1>4, <1>5, <1>6

LEMMA LapStep == TypeOK /\ PathInv /\ LapInv /\ [Next]_vars => LapInv'
<1> SUFFICES ASSUME TypeOK, PathInv, LapInv, [Next]_vars PROVE LapInv'
  OBVIOUS
<1>1. ASSUME NEW p \in Process, ReleaseToken(p) PROVE LapInv'
  <2>1. /\ step[p] \in {"start", "holding"} /\ State' = State /\ channel' = channel
        /\ step' = [step EXCEPT ![p] = IF @ = "start" THEN "started" ELSE "sending"]
        /\ step \in [Process -> Step]
    BY <1>1 DEF ReleaseToken, TypeOK
  <2>2. ASSUME NEW q \in Process
        PROVE  Carries(q)' = Carries(q) /\ Arrived(q)' = Arrived(q)
    BY <2>1, RingAssumption DEF Carries, Arrived
  <2> QED
    BY <2>1, <2>2, MarkersOnly DEF Edge
<1>2. ASSUME NEW p \in Process, TokenStep(p) PROVE LapInv'
  BY <1>1, <1>2, ProcessLaps, WriteLaps DEF TokenStep
<1>3. ASSUME NEW p \in Process, TriggerSnapshot(p) \/ SendMarkers(p) PROVE LapInv'
  <2>1. UNCHANGED <<State, step>>
    BY <1>3 DEF TriggerSnapshot, SendMarkers, tokenVars
  <2> QED
    BY <1>3, <2>1, MarkerLaps
<1>4. ASSUME NEW s \in Process, NEW d \in Process,
             \/ ReceiveMarker(s, d) \/ StartSnapshot(s, d) \/ FindSnapshot(s, d)
             \/ CloseChannel(s, d)
      PROVE  LapInv'
  <2>1. UNCHANGED <<State, step>>
    BY <1>4 DEF ReceiveMarker, StartSnapshot, FindSnapshot, CloseChannel, tokenVars
  <2> QED
    BY <1>4, <2>1, MarkerLaps
<1>5. CASE UNCHANGED vars
  <2>1. UNCHANGED <<State, step, channel>>
    BY <1>5 DEF vars, tokenVars
  <2>2. \A q \in Process : Carries(q)' = Carries(q) /\ Arrived(q)' = Arrived(q)
    BY <2>1 DEF Carries, Arrived
  <2> QED
    BY <2>1, <2>2, MarkersOnly DEF Edge
<1>6. ASSUME NEW s \in Process, NEW d \in Process, BreakConnection(s, d)
      PROVE  LapInv'
  <2>1. UNCHANGED <<State, step>>
    BY <1>6 DEF BreakConnection, tokenVars
  <2>2. \A q \in Process : Carries(q)' = Carries(q) /\ Arrived(q)' = Arrived(q)
    BY <2>1 DEF Carries, Arrived
  <2>3. ASSUME NEW q \in Process
        PROVE  \/ Edge(q)' = Edge(q)
               \/ \E k \in 0..Len(Edge(q)) : Edge(q)' = SubSeq(Edge(q), 1, k)
    <3>1. Successor[q] \in Process
      BY RingAssumption
    <3> QED
      BY <1>6, <3>1, BreakFacts DEF Edge
  <2> QED
    BY <2>1, <2>2, <2>3, MarkersOnly
<1> QED
  BY <1>2, <1>3, <1>4, <1>5, <1>6, ReceiveLaps DEF Next, ReaderStep

LEMMA LapInit == Init => LapInv
<1> SUFFICES ASSUME Init PROVE LapInv
  OBVIOUS
<1>1. \A p \in Process : Owed(p) = IF p = Initial THEN 1 ELSE 0
  BY RingAssumption DEF Init, Owed
<1>2. ASSUME NEW p \in Process
      PROVE  /\ ~Travels(p) /\ ~Arrived(p) /\ Lone(Edge(p))
             /\ Carries(p) => p = Initial
  <2>1. Edge(p) = <<>> /\ Successor[p] \in Process
    BY RingAssumption DEF Init, Edge
  <2>2. TokensIn(Edge(p)) = {}
    BY <2>1 DEF TokensIn
  <2>3. ~Arrived(p) /\ (Carries(p) => p = Initial)
    BY <2>1 DEF Init, Arrived, Carries
  <2> QED
    BY <2>2, <2>3 DEF Travels, Lone
<1>3. \A p \in Process : EdgeInv(p)
  BY <1>1, <1>2 DEF EdgeInv
<1> QED
  BY <1>1, <1>3 DEF LapInv

(***************************************************************************)
(* Along the ring from the successor of Initial to Initial itself the      *)
(* counts never grow, and from Initial to its successor they grow by at    *)
(* most one.                                                               *)
(***************************************************************************)
LEMMA LapsFollow == TypeOK /\ LapInv => LapsInStep
<1> SUFFICES ASSUME TypeOK, LapInv PROVE LapsInStep
  OBVIOUS
<1> DEFINE first == Successor[Initial]
<1>1. /\ Initial \in Process
      /\ \A p \in Process : Successor[p] \in Process
      /\ State \in [Process -> Nat]
  BY RingAssumption DEF TypeOK
<1>2. ASSUME NEW p \in Process
      PROVE  /\ p # Initial => State[Successor[p]] <= State[p]
             /\ p = Initial => /\ State[p] <= State[Successor[p]]
                               /\ State[Successor[p]] <= State[p] + 1
  <2>1. Owed(p) \in {0, 1} /\ State[p] \in Nat /\ State[Successor[p]] \in Nat
    BY <1>1 DEF LapInv, EdgeInv
  <2> QED
    BY <2>1 DEF Owed
<1>3. \A p \in Process : State[p] <= State[first]
  <2> DEFINE low == {p \in Process : State[p] <= State[first]}
  <2>1. first \in low
    BY <1>1
  <2>2. ASSUME NEW p \in low PROVE Successor[p] \in low
    <3>1. CASE p = Initial
      BY <2>1, <3>1
    <3>2. CASE p # Initial
      BY <1>1, <1>2, <3>2
    <3> QED
      BY <3>1, <3>2
  <2>3. low = Process
    BY <2>1, <2>2, OneRingAssumption
  <2> QED
    BY <2>3
<1>4. \A p \in Process : State[Initial] <= State[p]
  <2> DEFINE less == {p \in Process : State[p] < State[Initial]}
  <2>1. ASSUME NEW p \in less PROVE Successor[p] \in less
    <3>1. p # Initial
      BY <1>1
    <3> QED
      BY <1>1, <1>2, <3>1
  <2>2. Initial \notin less
    BY <1>1
  <2>3. less = {}
    BY <1>1, <2>1, <2>2, OneRingAssumption
  <2> QED
    BY <1>1, <2>3
<1>5. ASSUME NEW p \in Process, NEW q \in Process
      PROVE  State[p] <= State[q] + 1
  <2>1. /\ State[p] <= State[first] /\ State[first] <= State[Initial] + 1
        /\ State[Initial] <= State[q]
    BY <1>1, <1>2, <1>3, <1>4
  <2> QED
    BY <1>1, <2>1
<1> QED
  BY <1>5 DEF LapsInStep

(***************************************************************************)
(* No process is ever more than one lap ahead of another, in a ring of any *)
(* size: there is one token, and no step of a snapshot makes another.      *)
(***************************************************************************)
THEOREM TokenGoesRound == Spec => []LapsInStep
<1>1. TypeOK /\ LapInv => LapsInStep
  BY LapsFollow
<1> QED
  BY <1>1, LapInit, LapStep, PathInit, PathStep, TypeCorrect, PTL DEF Spec

-----------------------------------------------------------------------------
(***************************************************************************)
(* At most one token is lost to a snapshot.  As long as the channel of the *)
(* predecessor is open and the snapshot can still be reached, from the map *)
(* or by the handler of that channel, only the token that was recorded but *)
(* not yet counted when the snapshot started is missing in it.  A handler  *)
(* that holds a snapshot reads no token, so that the snapshot may have     *)
(* been replaced in the map without missing another one.                   *)
(***************************************************************************)
Holds(s, p, k) == reader[s][p].at = "close" /\ reader[s][p].object = k

MissesOne(p, k) ==
  objects[p][k].State + objects[p][k].RecordedMessages >= Received(p) - 1

RecordInv ==
  /\ \A s \in Process : Arrived(s) => reader[s][Successor[s]].at = "read"
  /\ \A s, p \in Process : \A k \in 1..Len(objects[p]) :
       /\ Successor[s] = p
       /\ s \notin objects[p][k].ClosedChannels
       /\ k \in Current(p) \/ Holds(s, p, k)
       => MissesOne(p, k)

LEMMA RecordedWhenCurrent ==
  ASSUME TypeOK, NEW s \in Process, NEW d \in Process, recordMessage(s, d),
         NEW k \in 1..Len(objects[d]), k \in Current(d),
         s \notin objects[d][k].ClosedChannels
  PROVE  objects'[d][k].RecordedMessages = objects[d][k].RecordedMessages + 1
<1>1. objects \in [Process -> Seq(SnapshotState)] /\ objects[d] \in Seq(SnapshotState)
      /\ DOMAIN objects[d] = 1..Len(objects[d])
  BY DEF TypeOK
<1>2. objects[d][k] \in SnapshotState
  BY <1>1
<1>3. objects'[d][k] = OneMore(d, k)
  BY <1>1 DEF recordMessage
<1> QED
  BY <1>2, <1>3 DEF OneMore, SnapshotState

LEMMA CountTypes ==
  ASSUME TypeOK, NEW p \in Process
  PROVE  /\ Received(p) \in Nat /\ State[p] \in Nat
         /\ \A k \in 1..Len(objects[p]) :
              objects[p][k].State \in Nat /\ objects[p][k].RecordedMessages \in Nat
<1>1. State[p] \in Nat /\ Received(p) \in Nat /\ objects[p] \in Seq(SnapshotState)
  BY DEF TypeOK, Received
<1>2. \A k \in 1..Len(objects[p]) : objects[p][k] \in SnapshotState
  BY <1>1
<1> QED
  BY <1>1, <1>2 DEF SnapshotState

\* Nothing is counted, received or recorded; handlers and the map move on.
LEMMA RecordStays ==
  ASSUME RecordInv,
         \A p \in Process : Received(p)' = Received(p),
         \A s \in Process : Arrived(s)' => Arrived(s),
         \A s \in Process : Arrived(s) =>
           reader'[s][Successor[s]].at = "read" \/ reader[s][Successor[s]].at # "read",
         \A p \in Process : \A k \in 1..Len(objects'[p]) :
           \/ /\ k \in 1..Len(objects[p])
              /\ objects'[p][k].State = objects[p][k].State
              /\ objects'[p][k].RecordedMessages = objects[p][k].RecordedMessages
              /\ objects[p][k].ClosedChannels \subseteq objects'[p][k].ClosedChannels
              /\ k \in Current(p)' => k \in Current(p)
              /\ \A s \in Process : Holds(s, p, k)' => k \in Current(p) \/ Holds(s, p, k)
           \/ objects'[p][k].State + objects'[p][k].RecordedMessages >= Received(p) - 1
  PROVE  RecordInv'
<1>1. ASSUME NEW s \in Process, Arrived(s)'
      PROVE  reader'[s][Successor[s]].at = "read"
  BY <1>1 DEF RecordInv
<1>2. ASSUME NEW s \in Process, NEW p \in Process, NEW k \in 1..Len(objects'[p]),
             Successor[s] = p, s \notin objects'[p][k].ClosedChannels,
             k \in Current(p)' \/ Holds(s, p, k)'
      PROVE  MissesOne(p, k)'
  <2>1. CASE objects'[p][k].State + objects'[p][k].RecordedMessages >= Received(p) - 1
    BY <2>1 DEF MissesOne
  <2>2. CASE /\ k \in 1..Len(objects[p])
             /\ objects'[p][k].State = objects[p][k].State
             /\ objects'[p][k].RecordedMessages = objects[p][k].RecordedMessages
             /\ objects[p][k].ClosedChannels \subseteq objects'[p][k].ClosedChannels
             /\ k \in Current(p)' => k \in Current(p)
             /\ \A t \in Process : Holds(t, p, k)' => k \in Current(p) \/ Holds(t, p, k)
    <3>1. s \notin objects[p][k].ClosedChannels /\ (k \in Current(p) \/ Holds(s, p, k))
      BY <1>2, <2>2
    <3>2. MissesOne(p, k)
      BY <1>2, <2>2, <3>1 DEF RecordInv
    <3> QED
      BY <2>2, <3>2 DEF MissesOne
  <2> QED
    BY <2>1, <2>2
<1> QED
  BY <1>1, <1>2 DEF RecordInv

LEMMA HoldsFacts ==
  ASSUME TypeOK, [Next]_vars, NEW s \in Process, NEW p \in Process, NEW k, Holds(s, p, k)'
  PROVE  k \in Current(p) \/ Holds(s, p, k)
<1>1. CASE reader'[s][p] = reader[s][p]
  BY <1>1 DEF Holds
<1>2. CASE reader'[s][p] # reader[s][p]
  <2>1. reader'[s][p].at = "close" /\ reader'[s][p].object = k
    BY DEF Holds
  <2>2. \E e \in Snapshots[p] : e.object = reader'[s][p].object
    BY <1>2, <2>1, ReaderFacts
  <2> QED
    BY <2>1, <2>2 DEF Current
<1> QED
  BY <1>1, <1>2

\* The handler of the predecessor reads on only when the token has been sent.
LEMMA ReaderWaits ==
  ASSUME TypeOK, [Next]_vars, NEW s \in Process, Arrived(s),
         reader[s][Successor[s]].at = "read"
  PROVE  reader'[s][Successor[s]].at = "read"
<1> DEFINE d == Successor[s]
<1>1. reader \in [Process -> [Process -> Handler]] /\ d \in Process
  BY RingAssumption DEF TypeOK
<1>2. Busy(s, d)
  BY DEF Arrived, Busy
<1>3. ASSUME NEW t \in Process, NEW q \in Process, t # s \/ q # d,
             NEW h, reader' = [reader EXCEPT ![t][q] = h]
      PROVE  reader'[s][d] = reader[s][d]
  BY <1>1, <1>3
<1> HIDE DEF d
<1>4. ASSUME NEW t \in Process, NEW q \in Process, ReceiveMarker(t, q)
      PROVE  reader'[s][d] = reader[s][d]
  <2>1. t # s \/ q # d
    BY <1>2, <1>4 DEF ReceiveMarker, CanRead
  <2>2. \E h : reader' = [reader EXCEPT ![t][q] = h]
    BY <1>4 DEF ReceiveMarker
  <2> QED
    BY <1>3, <2>1, <2>2
<1>5. ASSUME NEW t \in Process, NEW q \in Process, StartSnapshot(t, q)
      PROVE  reader'[s][d] = reader[s][d]
  <2>1. /\ reader[t][q].at = "start"
        /\ reader' = [reader EXCEPT ![t][q] = [reader[t][q] EXCEPT !.at = "find"]]
    BY <1>5 DEF StartSnapshot
  <2>2. t # s \/ q # d
    BY <2>1 DEF d
  <2> QED
    BY <1>3, <2>1, <2>2
<1>6. ASSUME NEW t \in Process, NEW q \in Process, FindSnapshot(t, q)
      PROVE  reader'[s][d] = reader[s][d]
  <2>1. PICK e \in Snapshots[q] :
          /\ reader[t][q].at = "find"
          /\ reader' = [reader EXCEPT ![t][q].at = "close", ![t][q].object = e.object]
    BY <1>6 DEF FindSnapshot
  <2>2. reader' = [reader EXCEPT ![t][q] =
                     [reader[t][q] EXCEPT !.at = "close", !.object = e.object]]
    BY <1>1, <2>1
  <2>3. t # s \/ q # d
    BY <2>1 DEF d
  <2> QED
    BY <1>3, <2>2, <2>3
<1>7. ASSUME NEW t \in Process, NEW q \in Process, CloseChannel(t, q)
      PROVE  reader'[s][d].at = "read"
  <2>1. reader' = [reader EXCEPT ![t][q] = Reading]
    BY <1>7 DEF CloseChannel
  <2>2. CASE t = s /\ q = d
    BY <1>1, <2>1, <2>2 DEF Reading
  <2>3. CASE t # s \/ q # d
    BY <1>3, <2>1, <2>3 DEF d
  <2> QED
    BY <2>2, <2>3
<1>8. ASSUME NEW t \in Process, NEW p \in Process,
             \/ TokenStep(p) \/ TriggerSnapshot(p) \/ SendMarkers(p)
             \/ ReceiveToken(t, p) \/ BreakConnection(t, p)
      PROVE  reader'[s][d] = reader[s][d]
  BY <1>8 DEF TokenStep, ProcessToken, ReleaseToken, WriteToken, TriggerSnapshot,
              SendMarkers, ReceiveToken, BreakConnection
<1>9. CASE UNCHANGED vars
  BY <1>9 DEF vars
<1> QED
  BY <1>4, <1>5, <1>6, <1>7, <1>8, <1>9 DEF Next, ReaderStep, d

LEMMA ReceiveRecords ==
  ASSUME TypeOK, PathInv, RecordInv, [Next]_vars,
         NEW s \in Process, NEW d \in Process, ReceiveToken(s, d)
  PROVE  RecordInv'
<1>1. /\ reader[s][d].at = "read" /\ ~Busy(s, d) /\ channel[s][d] # <<>>
      /\ Head(channel[s][d]) = Token
      /\ recordMessage(s, d) /\ step' = [step EXCEPT ![d] = "received"]
      /\ State' = State /\ reader' = reader /\ Snapshots' = Snapshots
  BY DEF ReceiveToken, CanRead
<1>2. Successor[s] = d
  <2>1. channel[s][d] \in Seq(Allowed(s, d))
    BY DEF PathInv
  <2>2. Head(channel[s][d]) \in Allowed(s, d)
    BY <1>1, <2>1
  <2> QED
    BY <1>1, <2>2 DEF Allowed
<1>3. step \in [Process -> Step] /\ step[d] # "received"
  BY <1>1, <1>2 DEF TypeOK, Busy
<1>4. /\ Received(d)' = Received(d) + 1
      /\ \A p \in Process : p # d => Received(p)' = Received(p)
  <2>1. State[d] \in Nat
    BY DEF TypeOK
  <2> QED
    BY <1>1, <1>3, <2>1 DEF Received
<1>5. /\ \A p \in Process : Len(objects'[p]) = Len(objects[p])
      /\ \A p \in Process : p # d => objects'[p] = objects[p]
      /\ \A k \in 1..Len(objects[d]) :
           /\ objects'[d][k].State = objects[d][k].State
           /\ objects'[d][k].ClosedChannels = objects[d][k].ClosedChannels
  BY <1>1, RecordFacts
<1>6. ASSUME NEW t \in Process, Arrived(t)'
      PROVE  reader'[t][Successor[t]].at = "read"
  <2>1. CASE t = s
    BY <1>1, <1>2, <2>1
  <2>2. CASE t # s
    <3>1. Successor[t] \in Process /\ Successor[t] # d
      BY <1>2, <2>2, RingAssumption
    <3>2. Arrived(t)
      BY <1>1, <1>3, <1>6, <3>1 DEF Arrived
    <3> QED
      BY <1>1, <3>2 DEF RecordInv
  <2> QED
    BY <2>1, <2>2
<1>7. ASSUME NEW t \in Process, NEW p \in Process, NEW k \in 1..Len(objects'[p]),
             Successor[t] = p, t \notin objects'[p][k].ClosedChannels,
             k \in Current(p)' \/ Holds(t, p, k)'
      PROVE  MissesOne(p, k)'
  <2>1. k \in 1..Len(objects[p]) /\ (k \in Current(p) \/ Holds(t, p, k))
    BY <1>1, <1>5, <1>7 DEF Current, Holds
  <2>2. CASE p # d
    <3>1. MissesOne(p, k)
      BY <1>5, <1>7, <2>1, <2>2 DEF RecordInv
    <3> QED
      BY <1>4, <1>5, <2>2, <3>1 DEF MissesOne
  <2>3. CASE p = d
    <3>1. t = s
      BY <1>2, <1>7, <2>3, RingAssumption
    <3>2. k \in Current(d) /\ s \notin objects[d][k].ClosedChannels
      BY <1>1, <1>5, <1>7, <2>1, <2>3, <3>1 DEF Holds
    <3>3. objects'[d][k].RecordedMessages = objects[d][k].RecordedMessages + 1
      BY <1>1, <2>1, <2>3, <3>2, RecordedWhenCurrent
    <3>4. MissesOne(d, k)
      BY <1>2, <2>1, <2>3, <3>2 DEF RecordInv
    <3>5. /\ objects[d][k].State \in Nat /\ objects[d][k].RecordedMessages \in Nat
          /\ Received(d) \in Nat
      BY <2>1, <2>3, CountTypes
    <3>6. objects'[d][k].State = objects[d][k].State
      BY <1>5, <2>1, <2>3
    <3>7. \A a, b, r \in Nat : a + b >= r - 1 => a + (b + 1) >= (r + 1) - 1
      OBVIOUS
    <3>8. objects[d][k].State + (objects[d][k].RecordedMessages + 1)
            >= (Received(d) + 1) - 1
      BY <3>4, <3>5, <3>7 DEF MissesOne
    <3> QED
      BY <1>4, <2>3, <3>3, <3>6, <3>8 DEF MissesOne
  <2> QED
    BY <2>2, <2>3
<1> QED
  BY <1>6, <1>7 DEF RecordInv

\* The other steps of a handler, and what happens to the map, lose nothing.
LEMMA OtherRecords ==
  ASSUME TypeOK, RecordInv, [Next]_vars,
         \A p \in Process : Received(p)' = Received(p),
         \A s \in Process : Arrived(s)' => Arrived(s),
         \A p \in Process : \A k \in 1..Len(objects'[p]) :
           \/ /\ k \in 1..Len(objects[p])
              /\ objects'[p][k].State = objects[p][k].State
              /\ objects'[p][k].RecordedMessages = objects[p][k].RecordedMessages
              /\ objects[p][k].ClosedChannels \subseteq objects'[p][k].ClosedChannels
              /\ k \in Current(p)' => k \in Current(p)
           \/ objects'[p][k].State + objects'[p][k].RecordedMessages >= Received(p) - 1
  PROVE  RecordInv'
<1>1. \A s \in Process : Arrived(s) =>
        reader'[s][Successor[s]].at = "read" \/ reader[s][Successor[s]].at # "read"
  BY ReaderWaits
<1>2. \A p \in Process : \A k : \A s \in Process :
        Holds(s, p, k)' => k \in Current(p) \/ Holds(s, p, k)
  BY HoldsFacts
<1> QED
  BY <1>1, <1>2, RecordStays

LEMMA RecordStep == TypeOK /\ PathInv /\ RecordInv /\ [Next]_vars => RecordInv'
<1> SUFFICES ASSUME TypeOK, PathInv, RecordInv, [Next]_vars PROVE RecordInv'
  OBVIOUS
<1>1. step \in [Process -> Step] /\ State \in [Process -> Nat]
      /\ \A p \in Process : Successor[p] \in Process
  BY RingAssumption DEF TypeOK
<1>2. ASSUME UNCHANGED <<State, step>>
      PROVE  /\ \A p \in Process : Received(p)' = Received(p)
             /\ \A s \in Process : Arrived(s)' => Arrived(s)
  BY <1>2 DEF Received, Arrived
<1>3. ASSUME UNCHANGED <<objects, Snapshots>>,
             \A p \in Process : Received(p)' = Received(p),
             \A s \in Process : Arrived(s)' => Arrived(s)
      PROVE  RecordInv'
  BY <1>3, OtherRecords DEF Current
<1>4. ASSUME NEW p \in Process, TokenStep(p) PROVE RecordInv'
  <2>1. UNCHANGED <<objects, Snapshots>>
    BY <1>4 DEF TokenStep, ProcessToken, ReleaseToken, WriteToken, snapshotVars
  <2>2. \A s \in Process : Arrived(s)' => Arrived(s)
    BY <1>1, <1>4, WriteFacts DEF TokenStep, ProcessToken, ReleaseToken, Arrived
  <2>3. ASSUME NEW q \in Process PROVE Received(q)' = Received(q)
    <3>1. CASE ProcessToken(p)
      <4>1. /\ step[p] = "received" /\ State' = [State EXCEPT ![p] = @ + 1]
            /\ step' = [step EXCEPT ![p] = "holding"]
        BY <3>1 DEF ProcessToken
      <4> QED
        BY <1>1, <4>1 DEF Received
    <3>2. CASE ReleaseToken(p)
      BY <1>1, <3>2 DEF Received, ReleaseToken
    <3>3. CASE WriteToken(p)
      BY <1>1, <3>3, WriteFacts DEF Received, WriteToken
    <3> QED
      BY <1>4, <3>1, <3>2, <3>3 DEF TokenStep
  <2> QED
    BY <1>3, <2>1, <2>2, <2>3
<1>5. ASSUME NEW p \in Process, NEW i \in Nat, initializeSnapshot(p, i),
             UNCHANGED tokenVars
      PROVE  RecordInv'
  <2>1. /\ Len(objects'[p]) = Len(objects[p]) + 1
        /\ objects'[p][Len(objects[p]) + 1] = NewSnapshot(p, i)
        /\ \A k \in 1..Len(objects[p]) : objects'[p][k] = objects[p][k]
        /\ \A q \in Process : q # p => objects'[q] = objects[q]
        /\ \A q \in Process : \A e \in Snapshots'[q] :
             e \in Snapshots[q] \/ (q = p /\ e.object = Len(objects[p]) + 1)
        /\ Len(objects[p]) \in Nat
    <3>1. TypeOK /\ objects[p] \in Seq(SnapshotState)
      BY <1>1 DEF TypeOK
    <3> QED
      BY <1>5, <3>1, InitializeFacts
  <2>2. NewSnapshot(p, i).State + NewSnapshot(p, i).RecordedMessages >= Received(p) - 1
    BY <1>1 DEF NewSnapshot, Received
  <2>3. ASSUME NEW q \in Process, NEW k \in 1..Len(objects'[q])
        PROVE  \/ /\ k \in 1..Len(objects[q])
                  /\ objects'[q][k] = objects[q][k]
                  /\ k \in Current(q)' => k \in Current(q)
               \/ objects'[q][k].State + objects'[q][k].RecordedMessages
                    >= Received(q) - 1
    <3>1. CASE q # p
      BY <2>1, <3>1 DEF Current
    <3>2. CASE q = p /\ k \in 1..Len(objects[p])
      <4>1. k # Len(objects[p]) + 1
        BY <2>1, <3>2
      <4> QED
        BY <2>1, <3>2, <4>1 DEF Current
    <3>3. CASE q = p /\ k = Len(objects[p]) + 1
      BY <2>1, <2>2, <3>3
    <3>4. q = p => k \in 1..Len(objects[p]) \/ k = Len(objects[p]) + 1
      BY <2>1
    <3> QED
      BY <3>1, <3>2, <3>3, <3>4
  <2>4. UNCHANGED <<State, step>>
    BY <1>5 DEF tokenVars
  <2> QED
    BY <1>2, <2>3, <2>4, OtherRecords
<1>6. ASSUME NEW s \in Process, NEW d \in Process, CloseChannel(s, d)
      PROVE  RecordInv'
  <2> DEFINE j == Held(s, d)
             closed == ClosedNow(s, d)
  <2>1. /\ \A p \in Process : Len(objects'[p]) = Len(objects[p])
        /\ \A p \in Process : p # d => objects'[p] = objects[p]
        /\ \A k \in 1..Len(objects[d]) : k # j => objects'[d][k] = objects[d][k]
        /\ objects'[d][j].State = objects[d][j].State
        /\ objects'[d][j].RecordedMessages = objects[d][j].RecordedMessages
        /\ objects'[d][j].ClosedChannels = closed
        /\ \A p \in Process : Snapshots'[p] \subseteq Snapshots[p]
    BY <1>6, CloseFacts
  <2>2. objects[d][j].ClosedChannels \subseteq closed
    BY DEF ClosedNow
  <2> HIDE DEF j, closed
  <2>3. \A p \in Process : \A k : k \in Current(p)' => k \in Current(p)
    BY <2>1 DEF Current
  <2>4. ASSUME NEW p \in Process, NEW k \in 1..Len(objects'[p])
        PROVE  /\ k \in 1..Len(objects[p])
               /\ objects'[p][k].State = objects[p][k].State
               /\ objects'[p][k].RecordedMessages = objects[p][k].RecordedMessages
               /\ objects[p][k].ClosedChannels \subseteq objects'[p][k].ClosedChannels
    <3>1. CASE p # d
      BY <2>1, <3>1
    <3>2. CASE p = d /\ k # j
      BY <2>1, <3>2
    <3>3. CASE p = d /\ k = j
      BY <2>1, <2>2, <3>3
    <3> QED
      BY <3>1, <3>2, <3>3
  <2>5. UNCHANGED <<State, step>>
    BY <1>6 DEF CloseChannel, tokenVars
  <2> QED
    BY <1>2, <2>3, <2>4, <2>5, OtherRecords
<1>7. ASSUME NEW s \in Process, NEW d \in Process, ReceiveMarker(s, d) \/ FindSnapshot(s, d)
      PROVE  RecordInv'
  BY <1>2, <1>3, <1>7 DEF ReceiveMarker, FindSnapshot, snapshotVars, tokenVars
<1>8. ASSUME NEW s \in Process, NEW d \in Process, StartSnapshot(s, d)
      PROVE  RecordInv'
  <2>1. reader[s][d].id \in Nat
    BY DEF TypeOK, Handler
  <2> QED
    BY <1>5, <1>8, <2>1 DEF StartSnapshot
<1>9. ASSUME NEW p \in Process, TriggerSnapshot(p) PROVE RecordInv'
  BY <1>5, <1>9, FlagsAssumption DEF TriggerSnapshot
<1>10. ASSUME NEW p \in Process, SendMarkers(p) PROVE RecordInv'
  BY <1>2, <1>3, <1>10 DEF SendMarkers, tokenVars
<1>11. CASE UNCHANGED vars
  BY <1>2, <1>3, <1>11 DEF vars, tokenVars, snapshotVars
<1>12. ASSUME NEW s \in Process, NEW d \in Process, BreakConnection(s, d)
       PROVE  RecordInv'
  BY <1>2, <1>3, <1>12 DEF BreakConnection, snapshotVars, tokenVars
<1> QED
  BY <1>4, <1>6, <1>7, <1>8, <1>9, <1>10, <1>11, <1>12, ReceiveRecords
  DEF Next, ReaderStep

LEMMA RecordInit == Init => RecordInv
<1> SUFFICES ASSUME Init PROVE RecordInv
  OBVIOUS
<1>1. \A s \in Process : Arrived(s) => reader[s][Successor[s]].at = "read"
  BY RingAssumption DEF Init, Arrived, Reading
<1>2. \A p \in Process : 1..Len(objects[p]) = {}
  BY DEF Init
<1> QED
  BY <1>1, <1>2 DEF RecordInv

(***************************************************************************)
(* When the predecessor's channel of a snapshot closes, at most one of the *)
(* tokens counted so far is missing in it, in any ring and also when the   *)
(* snapshot has been replaced in the map: only the handler that holds it   *)
(* closes the channel.                                                     *)
(***************************************************************************)
THEOREM LosesOneToken == Spec => AtMostOneTokenLost
<1>1. ASSUME TypeOK, RecordInv, [Next]_vars,
             NEW s \in Process, NEW p \in Process, NEW k \in 1..Len(objects[p]),
             Successor[s] = p, s \notin objects[p][k].ClosedChannels,
             s \in objects'[p][k].ClosedChannels
      PROVE  objects[p][k].State + objects[p][k].RecordedMessages >= State[p] - 1
  <2>1. k \in 1..Len(objects'[p]) /\ Old(p, k)
    <3>1. Len(objects[p]) \in Nat
      BY <1>1 DEF TypeOK
    <3>2. k \in 1..Len(objects'[p]) /\ k # Len(objects[p]) + 1
      BY <1>1, <3>1, ObjectsFacts DEF Kept
    <3> QED
      BY <1>1, <3>2, ObjectsFacts DEF New
  <2>2. Holds(s, p, k)
    BY <1>1, <2>1 DEF Old, Holds
  <2>3. MissesOne(p, k)
    BY <1>1, <2>2 DEF RecordInv
  <2>4. Received(p) >= State[p] /\ Received(p) \in Nat
    BY <1>1 DEF Received, TypeOK
  <2>5. /\ objects[p][k].State \in Nat /\ objects[p][k].RecordedMessages \in Nat
        /\ State[p] \in Nat
    BY <1>1, CountTypes
  <2> QED
    BY <2>3, <2>4, <2>5 DEF MissesOne
<1>2. TypeOK /\ RecordInv /\ [Next]_vars =>
        [\A s, p \in Process : \A k \in 1..Len(objects[p]) :
           /\ Successor[s] = p
           /\ s \notin objects[p][k].ClosedChannels
           /\ s \in objects'[p][k].ClosedChannels
           => objects[p][k].State + objects[p][k].RecordedMessages >= State[p] - 1]_vars
  BY <1>1
<1> QED
  BY <1>2, RecordInit, RecordStep, PathInit, PathStep, TypeCorrect, PTL
     DEF Spec, AtMostOneTokenLost
=============================================================================
