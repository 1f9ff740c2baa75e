------------------------------ MODULE Snapshot ------------------------------
(***************************************************************************)
(* Chandy-Lamport snapshots of a token ring (lab2/src/main.go and          *)
(* lab2/src/snapshot.go).                                                  *)
(*                                                                         *)
(* Every process has a goroutine per incoming connection (handleConnection)*)
(* and one per snapshot it started (sendMarkers); the one that waits for   *)
(* the trigger state and, at first, main make two more.  An action is what *)
(* such a goroutine does between two points where others can be seen to    *)
(* run: the token is recorded, counted, held and written in steps of their *)
(* own, and handleMarker looks a snapshot up, creates it, looks it up      *)
(* again and closes a channel in steps of their own, because it takes no   *)
(* lock around them.                                                       *)
(*                                                                         *)
(* A SnapshotState is an object that a goroutine may still hold after the  *)
(* map has another one for its id, so objects are numbered per process.    *)
(***************************************************************************)
EXTENDS Integers, FiniteSets, Sequences

CONSTANTS Process,      \* the lines of the hosts file
          Successor,    \* Process.Successor
          Initial,      \* the process started with -x
          Trigger,      \* Trigger[p]: the -s of p; -1 for none
          SnapshotID,   \* SnapshotID[p]: the -p of p
          IdSpace,      \* 2^30 in the code: packMessage keeps 30 bits
          Fragile,      \* the connections that may break: pairs of processes
          MaxLaps,      \* bound on the laps of the token
          MaxStarts     \* bound on the snapshots a process starts

ASSUME RingAssumption ==
  /\ IsFiniteSet(Process)
  /\ Successor \in [Process -> Process]
  /\ \A p, q \in Process : Successor[p] = Successor[q] => p = q
  /\ \A p \in Process : Successor[p] # p
  /\ Initial \in Process

\* main makes p % n + 1 the successor of p: one ring through all processes.
ASSUME OneRingAssumption ==
  \A ring \in SUBSET Process :
    ring # {} /\ (\A p \in ring : Successor[p] \in ring) => ring = Process

ASSUME FlagsAssumption ==
  /\ Trigger \in [Process -> Int]
  /\ SnapshotID \in [Process -> Nat]
  /\ IdSpace \in Nat \ {0}
  /\ Fragile \subseteq Process \X Process
  /\ MaxLaps \in Nat \ {0}
  /\ MaxStarts \in Nat

VARIABLES
  State,        \* Process.State
  HasToken,     \* Process.HasToken
  step,         \* where the goroutine is that has the token
  channel,      \* channel[s][d]: what s wrote to its connection to d
  broken,       \* the connections that have broken; none is dialled again
  reader,       \* reader[s][d]: handleMarker's progress on that connection
  objects,      \* the SnapshotStates of a process, in order of creation
  Snapshots,    \* Process.Snapshots: the current [id, object] pairs
  markersDue,   \* the objects whose sendMarkers has not yet run
  waiting,      \* the trigger goroutines still polling State
  completed     \* the objects logged as "complete"

tokenVars == <<State, HasToken, step>>
snapshotVars == <<objects, Snapshots, markersDue>>
vars == <<tokenVars, channel, broken, reader, snapshotVars, waiting, completed>>

Token == [type |-> "token", id |-> 0]
Marker(i) == [type |-> "marker", id |-> i]

Message == [type: {"token", "marker"}, id: Nat]

(***************************************************************************)
(* A handler is reading ("read"), about to start the snapshot it did not   *)
(* find ("start"), about to look it up again ("find"), or about to close   *)
(* its channel in the object it found ("close").                           *)
(***************************************************************************)
Handler == [at: {"read", "start", "find", "close"}, id: Nat, object: Nat]
Reading == [at |-> "read", id |-> 0, object |-> 0]

\* What the token's goroutine does next; "idle" when the token is elsewhere.
Step == {"start", "started", "idle", "received", "holding", "sending"}

SnapshotState == [ID: Nat, State: Nat, HasToken: BOOLEAN,
                  ClosedChannels: SUBSET Process, RecordedMessages: Nat]

Current(p) == {e.object : e \in Snapshots[p]}

Init ==
  /\ State = [p \in Process |-> 0]
  /\ HasToken = [p \in Process |-> p = Initial]
  /\ step = [p \in Process |-> IF p = Initial THEN "start" ELSE "idle"]
  /\ channel = [s \in Process |-> [d \in Process |-> <<>>]]
  /\ broken = {}
  /\ reader = [s \in Process |-> [d \in Process |-> Reading]]
  /\ objects = [p \in Process |-> <<>>]
  /\ Snapshots = [p \in Process |-> {}]
  /\ markersDue = [p \in Process |-> {}]
  /\ waiting = {p \in Process : Trigger[p] >= 0}
  /\ completed = [p \in Process |-> {}]

-----------------------------------------------------------------------------
(***************************************************************************)
(* The token.  handleConnection records it in every active snapshot whose  *)
(* channel is open; processToken then counts it, sleeps, and sendToken     *)
(* clears HasToken and writes it to the successor.  All of that runs in    *)
(* the goroutine of the predecessor's connection, which reads nothing      *)
(* else meanwhile.  Only tokens are recorded, and only the predecessor     *)
(* sends them, so that RecordedMessages is a number here.                  *)
(***************************************************************************)
Busy(s, d) == Successor[s] = d /\ step[d] \in {"received", "holding", "sending"}

CanRead(s, d) ==
  /\ reader[s][d].at = "read"
  /\ ~Busy(s, d)
  /\ channel[s][d] # <<>>

OneMore(p, k) == [objects[p][k] EXCEPT !.RecordedMessages = @ + 1]

recordMessage(s, d) ==
  objects' = [objects EXCEPT ![d] =
    [k \in DOMAIN objects[d] |->
       IF k \in Current(d) /\ s \notin objects[d][k].ClosedChannels
       THEN OneMore(d, k) ELSE objects[d][k]]]

ReceiveToken(s, d) ==
  /\ CanRead(s, d)
  /\ Head(channel[s][d]) = Token
  /\ channel' = [channel EXCEPT ![s][d] = Tail(@)]
  /\ recordMessage(s, d)
  /\ step' = [step EXCEPT ![d] = "received"]
  /\ UNCHANGED <<State, HasToken, broken, reader, Snapshots, markersDue, waiting,
                 completed>>

\* Mutant: the token is recorded again when it is counted.
ProcessTokenRecording(p) ==
  /\ step[p] = "received"
  /\ State' = [State EXCEPT ![p] = @ + 1]
  /\ step' = [step EXCEPT ![p] = "holding"]
  /\ \E s \in Process : Successor[s] = p /\ recordMessage(s, p)
  /\ UNCHANGED <<HasToken, channel, broken, reader, Snapshots, markersDue, waiting,
                 completed>>

ProcessToken(p) ==
  /\ step[p] = "received"
  /\ State' = [State EXCEPT ![p] = @ + 1]
  /\ step' = [step EXCEPT ![p] = "holding"]
  /\ UNCHANGED <<HasToken, channel, broken, reader, snapshotVars, waiting, completed>>

\* sendToken up to the write, called by processToken or, once, by main.
ReleaseToken(p) ==
  /\ step[p] \in {"start", "holding"}
  /\ HasToken' = [HasToken EXCEPT ![p] = FALSE]
  /\ step' = [step EXCEPT ![p] = IF @ = "start" THEN "started" ELSE "sending"]
  /\ UNCHANGED <<State, channel, broken, reader, snapshotVars, waiting, completed>>

\* After MaxLaps laps the token is put away: the snapshots run on without it.
PutAway(p) == p = Initial /\ State[p] >= MaxLaps

(***************************************************************************)
(* The write of sendToken.  It fails on a connection that has broken, and  *)
(* is tried again a second later, on the same connection, for ever; a      *)
(* write the sender's own system still accepted after the break is lost.   *)
(***************************************************************************)
WriteFails(p) == <<p, Successor[p]>> \in broken /\ UNCHANGED <<channel, step>>

\* What reaches a connection that has broken is lost.
Written(s, d, m) ==
  IF <<s, d>> \in broken THEN channel[s][d] ELSE Append(channel[s][d], m)

\* Mutant: a write that is repeated although it went through.
WriteTokenTwice(p) ==
  /\ step[p] \in {"started", "sending"}
  /\ \/ WriteFails(p)
     \/ /\ channel' = IF PutAway(p) THEN channel
                      ELSE [channel EXCEPT ![p][Successor[p]] =
                              Written(p, Successor[p], Token)]
        /\ step' = [step EXCEPT ![p] = IF @ = "started" THEN "sending" ELSE "idle"]
  /\ UNCHANGED <<State, HasToken, broken, reader, snapshotVars, waiting, completed>>

WriteToken(p) ==
  /\ step[p] \in {"started", "sending"}
  /\ \/ WriteFails(p)
     \/ /\ channel' = IF PutAway(p) THEN channel
                      ELSE [channel EXCEPT ![p][Successor[p]] =
                              Written(p, Successor[p], Token)]
        /\ step' = [step EXCEPT ![p] = "idle"]
  /\ UNCHANGED <<State, HasToken, broken, reader, snapshotVars, waiting, completed>>

\* A connection breaks, and what is under way on it arrives up to a point.
BreakConnection(s, d) ==
  /\ <<s, d>> \in Fragile \ broken
  /\ broken' = broken \cup {<<s, d>>}
  /\ \E k \in 0..Len(channel[s][d]) :
       channel' = [channel EXCEPT ![s][d] = SubSeq(@, 1, k)]
  /\ UNCHANGED <<tokenVars, reader, snapshotVars, waiting, completed>>

-----------------------------------------------------------------------------
(***************************************************************************)
(* initializeSnapshot, under p.mutex: a new object, even when the map has  *)
(* one for this id, and a goroutine that will send the markers after the   *)
(* delay given by -m.                                                      *)
(***************************************************************************)
NewSnapshot(p, i) ==
  [ID |-> i, State |-> State[p], HasToken |-> HasToken[p],
   ClosedChannels |-> {}, RecordedMessages |-> 0]

initializeSnapshot(p, i) ==
  LET k == Len(objects[p]) + 1
  IN /\ Len(objects[p]) < MaxStarts
     /\ objects' = [objects EXCEPT ![p] = Append(@, NewSnapshot(p, i))]
     /\ Snapshots' = [Snapshots EXCEPT ![p] =
                        {e \in @ : e.id # i} \cup {[id |-> i, object |-> k]}]
     /\ markersDue' = [markersDue EXCEPT ![p] = @ \cup {k}]

(***************************************************************************)
(* The goroutine main starts after sendToken: State only grows, so that    *)
(* testing it and starting the snapshot are one step.                      *)
(***************************************************************************)
TriggerSnapshot(p) ==
  /\ p \in waiting
  /\ step[p] \notin {"start", "started"}
  /\ State[p] >= Trigger[p]
  /\ waiting' = waiting \ {p}
  /\ initializeSnapshot(p, SnapshotID[p])
  /\ UNCHANGED <<tokenVars, channel, broken, reader, completed>>

(***************************************************************************)
(* sendMarkers.  The writes to the different connections are one step: a   *)
(* reader may take its marker as late as it likes.  One that fails is      *)
(* skipped.  packMessage keeps the low bits of the id.                     *)
(***************************************************************************)
\* Mutant: the bits of the type are not masked off again.
packMessageSigned(i) == Marker(i - IdSpace)

packMessage(i) == Marker(i % IdSpace)

SendMarkers(p) ==
  \E k \in markersDue[p] :
    /\ markersDue' = [markersDue EXCEPT ![p] = @ \ {k}]
    /\ channel' = [channel EXCEPT ![p] =
         [d \in Process |-> IF d = p THEN @[d]
                            ELSE Written(p, d, packMessage(objects[p][k].ID))]]
    /\ UNCHANGED <<tokenVars, broken, reader, objects, Snapshots, waiting,
                   completed>>

-----------------------------------------------------------------------------
\* handleMarker reads p.Snapshots, without a lock.
ReceiveMarker(s, d) ==
  LET i == Head(channel[s][d]).id
      found == {e.object : e \in {x \in Snapshots[d] : x.id = i}}
  IN /\ CanRead(s, d)
     /\ Head(channel[s][d]).type = "marker"
     /\ channel' = [channel EXCEPT ![s][d] = Tail(@)]
     /\ \/ \E k \in found :
             reader' = [reader EXCEPT ![s][d] =
                          [at |-> "close", id |-> i, object |-> k]]
        \/ /\ found = {}
           /\ reader' = [reader EXCEPT ![s][d] =
                           [at |-> "start", id |-> i, object |-> 0]]
     /\ UNCHANGED <<tokenVars, broken, snapshotVars, waiting, completed>>

StartSnapshot(s, d) ==
  /\ reader[s][d].at = "start"
  /\ initializeSnapshot(d, reader[s][d].id)
  /\ reader' = [reader EXCEPT ![s][d].at = "find"]
  /\ UNCHANGED <<tokenVars, channel, broken, waiting, completed>>

(***************************************************************************)
(* The second lookup; the entry may have been replaced.  One that has been *)
(* deleted would be a nil dereference, which ends the process: no step of  *)
(* the handler.  It takes a sender that started the snapshot three times,  *)
(* since the objects that were completed before had its channel closed.    *)
(***************************************************************************)
FindSnapshot(s, d) ==
  \E e \in Snapshots[d] :
    /\ reader[s][d].at = "find"
    /\ e.id = reader[s][d].id
    /\ reader' = [reader EXCEPT ![s][d].at = "close", ![s][d].object = e.object]
    /\ UNCHANGED <<tokenVars, channel, broken, snapshotVars, waiting, completed>>

\* Mutants: a process counts itself, as closed or as a connection.
AllButOneClosed(d, closed) == Cardinality(closed) + 1 = Cardinality(Process \ {d})
SelfClosedToo(d, closed) == Cardinality(closed) = Cardinality(Process)

AllClosed(d, closed) == Cardinality(closed) = Cardinality(Process \ {d})

(***************************************************************************)
(* The rest of handleMarker, under snapshot.mutex.  delete removes what    *)
(* the map has for the id, whichever object that is.                       *)
(***************************************************************************)
CloseChannel(s, d) ==
  LET k == reader[s][d].object
      closed == objects[d][k].ClosedChannels \cup {s}
  IN /\ reader[s][d].at = "close"
     /\ reader' = [reader EXCEPT ![s][d] = Reading]
     /\ \/ /\ s \in objects[d][k].ClosedChannels
           /\ UNCHANGED <<objects, Snapshots, completed>>
        \/ /\ s \notin objects[d][k].ClosedChannels
           /\ objects' = [objects EXCEPT ![d][k].ClosedChannels = closed]
           /\ \/ /\ AllClosed(d, closed)
                 /\ completed' = [completed EXCEPT ![d] = @ \cup {k}]
                 /\ Snapshots' = [Snapshots EXCEPT ![d] =
                                    {e \in @ : e.id # reader[s][d].id}]
              \/ /\ ~AllClosed(d, closed)
                 /\ UNCHANGED <<Snapshots, completed>>
     /\ UNCHANGED <<tokenVars, channel, broken, markersDue, waiting>>

-----------------------------------------------------------------------------
ReaderStep(s, d) ==
  \/ ReceiveToken(s, d)
  \/ ReceiveMarker(s, d)
  \/ StartSnapshot(s, d)
  \/ FindSnapshot(s, d)
  \/ CloseChannel(s, d)

TokenStep(p) == ProcessToken(p) \/ ReleaseToken(p) \/ WriteToken(p)

Next ==
  \/ \E p \in Process : TokenStep(p) \/ TriggerSnapshot(p) \/ SendMarkers(p)
  \/ \E s, d \in Process : ReaderStep(s, d) \/ BreakConnection(s, d)

Spec == Init /\ [][Next]_vars

-----------------------------------------------------------------------------
(***************************************************************************)
(* Types of the fields of Process and SnapshotState.  An object is never   *)
(* looked up, sent or closed before it has been made.                      *)
(***************************************************************************)
TypeOK ==
  /\ State \in [Process -> Nat]
  /\ HasToken \in [Process -> BOOLEAN]
  /\ step \in [Process -> Step]
  /\ channel \in [Process -> [Process -> Seq(Message)]]
  /\ broken \subseteq Process \X Process
  /\ reader \in [Process -> [Process -> Handler]]
  /\ objects \in [Process -> Seq(SnapshotState)]
  /\ Snapshots \in [Process -> SUBSET [id: Nat, object: Nat]]
  /\ \A p \in Process : Current(p) \subseteq 1..Len(objects[p])
  /\ \A s, p \in Process : reader[s][p].at = "close" =>
       reader[s][p].object \in 1..Len(objects[p])
  /\ markersDue \in [Process -> SUBSET Nat]
  /\ \A p \in Process : markersDue[p] \subseteq 1..Len(objects[p])
  /\ waiting \subseteq Process
  /\ completed \in [Process -> SUBSET Nat]

(***************************************************************************)
(* The token goes round: no process is ever more than one lap ahead of     *)
(* another, whatever the snapshots do meanwhile (processToken, sendToken). *)
(***************************************************************************)
LapsInStep == \A p, q \in Process : State[p] <= State[q] + 1

(***************************************************************************)
(* A snapshot counts no token twice, once in the recorded State and once   *)
(* among the recorded messages: the two never add up to more tokens than   *)
(* the process has received.  recordMessage and processToken are separate  *)
(* critical sections between which initializeSnapshot may run.             *)
(***************************************************************************)
Received(p) == State[p] + IF step[p] = "received" THEN 1 ELSE 0

NoTokenCountedTwice ==
  \A p \in Process : \A k \in 1..Len(objects[p]) :
    objects[p][k].State + objects[p][k].RecordedMessages <= Received(p)

(***************************************************************************)
(* When the channel of the predecessor closes, at most one of the tokens   *)
(* received by then is in neither the recorded State nor RecordedMessages: *)
(* the one being counted when the snapshot started, after recordMessage    *)
(* and before State++.  (The comment on RecordedMessages, "Stores messages *)
(* received on each channel", promises that there is none.)                *)
(***************************************************************************)
AtMostOneTokenLost ==
  [][\A s, p \in Process : \A k \in 1..Len(objects[p]) :
       /\ Successor[s] = p
       /\ s \notin objects[p][k].ClosedChannels
       /\ s \in objects'[p][k].ClosedChannels
       => objects[p][k].State + objects[p][k].RecordedMessages >= State[p] - 1]_vars

(***************************************************************************)
(* A process logs a snapshot as complete only when every other process has *)
(* started it, although an object may have been replaced in the map while  *)
(* handleMarker held it.                                                   *)
(***************************************************************************)
Started(p, i) == \E k \in 1..Len(objects[p]) : objects[p][k].ID = i

CompleteMeansStarted ==
  \A p, q \in Process : \A k \in completed[p] : Started(q, objects[p][k].ID)

(***************************************************************************)
(* When every marker has been sent and handled, a process that started a   *)
(* snapshot once, and that all others have started whose connections to it *)
(* are whole, has logged it as complete: no closed channel is forgotten    *)
(* unless handleMarker replaces the object it is remembered in.            *)
(***************************************************************************)
Completed(p, i) == \E k \in completed[p] : objects[p][k].ID = i

StartedOnce(p, i) ==
  \E k \in 1..Len(objects[p]) :
    \A j \in 1..Len(objects[p]) : objects[p][j].ID = i <=> j = k

MarkersHandled ==
  \A p \in Process :
    /\ markersDue[p] = {}
    /\ \A s \in Process : channel[s][p] = <<>> /\ reader[s][p] = Reading

StartedOnceCompletes ==
  MarkersHandled =>
    \A p \in Process : \A k \in 1..Len(objects[p]) :
      LET i == objects[p][k].ID
      IN /\ StartedOnce(p, i)
         /\ \A q \in Process \ {p} : Started(q, i) /\ <<q, p>> \notin broken
         => Completed(p, i)

(***************************************************************************)
(* "Check if all channels are closed; if so, print completion message"     *)
(* (snapshot.go:65): once a process has logged every channel of a snapshot *)
(* as closed, it has logged the snapshot as complete.  It is false: the    *)
(* channels may have been closed in different objects for one id.          *)
(***************************************************************************)
ClosedChannels(p, i) ==
  UNION {objects[p][k].ClosedChannels :
           k \in {j \in 1..Len(objects[p]) : objects[p][j].ID = i}}

AllClosedMeansComplete ==
  \A p \in Process : \A k \in 1..Len(objects[p]) :
    LET i == objects[p][k].ID
    IN ClosedChannels(p, i) = Process \ {p} => Completed(p, i)
=============================================================================
