--------------------------- MODULE OracleService ---------------------------
(***************************************************************************)
(* What the oracle promises to the users of its contract.  A request is    *)
(* asked once; it is answered at most once, after it was asked, and its    *)
(* answer stays; a client that reports an answer reports that of its own   *)
(* request.  Nothing is promised about whether a request is answered.      *)
(***************************************************************************)
CONSTANTS Clients, Id, Answers, None

VARIABLES asked,     \* the requests
          answered,  \* the answers, each with its request
          heard      \* what a client has reported, or None

vars == <<asked, answered, heard>>

Reply == [id: Id, answer: Answers]

Init ==
  /\ asked = {}
  /\ answered = {}
  /\ heard = [c \in Clients |-> None]

Ask(i) ==
  /\ i \notin asked
  /\ asked' = asked \cup {i}
  /\ UNCHANGED <<answered, heard>>

Answer(r) ==
  /\ r.id \in asked
  /\ \A other \in answered : other.id # r.id
  /\ answered' = answered \cup {r}
  /\ UNCHANGED <<asked, heard>>

Hear(c, r) ==
  /\ heard[c] = None
  /\ heard' = [heard EXCEPT ![c] = r]
  /\ UNCHANGED <<asked, answered>>

Next ==
  \/ \E i \in Id : Ask(i)
  \/ \E r \in Reply : Answer(r)
  \/ \E c \in Clients, r \in answered : Hear(c, r)

Spec == Init /\ [][Next]_vars
=============================================================================
