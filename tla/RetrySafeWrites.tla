--------------------------- MODULE RetrySafeWrites ---------------------------
(***************************************************************************)
(* What an Idempotency-Key promises the clients of the notes API, with no   *)
(* Redis, no lease and no handler in sight: attempts that carry the same    *)
(* key perform at most one write between them, and an attempt is told "ok"  *)
(* only when a write for its key and its body has been made.                *)
(*                                                                         *)
(* The promise for a key ends once its store entry has been lost (`excused' *)
(* collects those keys): from then on a second write is possible.           *)
(* Idempotency.tla is shown to implement this module.                       *)
(***************************************************************************)
CONSTANTS Requests, Keys, NoKey, KeyOf, BodyOf, Statuses

VARIABLES
  writes,    \* the attempts whose write took effect
  told,      \* told[r]: the status the client of r was answered, or "none"
  excused    \* the keys whose promise has been given up

vars == <<writes, told, excused>>

Untold == "none"

Init ==
  /\ writes = {}
  /\ told = [r \in Requests |-> Untold]
  /\ excused = {}

SameKey(r, s) == KeyOf[r] \in Keys /\ KeyOf[r] = KeyOf[s]

Excuse(k) ==
  /\ excused' = excused \cup {k}
  /\ UNCHANGED <<writes, told>>

Write(r) ==
  /\ r \notin writes
  /\ \A s \in writes : SameKey(s, r) => KeyOf[r] \in excused
  /\ writes' = writes \cup {r}
  /\ UNCHANGED <<told, excused>>

\* "ok" needs a write of the attempt itself or of one with its key and body.
Backed(r) ==
  \E w \in writes : w = r \/ (SameKey(w, r) /\ BodyOf[w] = BodyOf[r])

Tell(r, status) ==
  /\ told[r] = Untold
  /\ status = "ok" => Backed(r)
  /\ told' = [told EXCEPT ![r] = status]
  /\ UNCHANGED <<writes, excused>>

Next ==
  \/ \E k \in Keys : Excuse(k)
  \/ \E r \in Requests : Write(r)
  \/ \E r \in Requests, status \in Statuses : Tell(r, status)

Spec == Init /\ [][Next]_vars
=============================================================================
