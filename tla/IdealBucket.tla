----------------------------- MODULE IdealBucket -----------------------------
(***************************************************************************)
(* What the in-memory rate limiter promises each client: one token bucket    *)
(* that is always there. It begins full, gains one unit per tick up to its   *)
(* capacity, and a request costs Price units; a request is refused when the  *)
(* bucket holds less, and only then.                                         *)
(***************************************************************************)
EXTENDS Naturals

CONSTANTS
  Calls,      \* requests of the client
  Capacity,   \* units of a full bucket
  Price       \* units that a request takes

VARIABLES
  time,
  tokens,     \* units in the bucket
  answer      \* what the request that was answered last was told

NoAnswer == [call |-> {}, admitted |-> FALSE]

Init == time = 0 /\ tokens = Capacity /\ answer = NoAnswer

Ask == answer' = NoAnswer /\ UNCHANGED <<time, tokens>>

Admit(c) ==
  /\ tokens >= Price
  /\ tokens' = tokens - Price
  /\ answer' = [call |-> {c}, admitted |-> TRUE]
  /\ UNCHANGED time

Refuse(c) ==
  /\ tokens < Price
  /\ answer' = [call |-> {c}, admitted |-> FALSE]
  /\ UNCHANGED <<time, tokens>>

Tick ==
  /\ time' = time + 1
  /\ tokens' = IF tokens < Capacity THEN tokens + 1 ELSE tokens
  /\ UNCHANGED answer

Next == Ask \/ Tick \/ \E c \in Calls : Admit(c) \/ Refuse(c)

Spec == Init /\ [][Next]_<<time, tokens, answer>>
=============================================================================
