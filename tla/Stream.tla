------------------------------- MODULE Stream -------------------------------
(***************************************************************************)
(* What a pipeline of channels promises to the loop that ranges over its     *)
(* end: each value once, in some order, and the end of the loop after all.   *)
(***************************************************************************)
CONSTANT Values

VARIABLES
  times,   \* times[v]: how often v was delivered
  ended

Init == times = [v \in Values |-> 0] /\ ended = FALSE

Deliver(v) ==
  /\ ~ended /\ times[v] = 0
  /\ times' = [times EXCEPT ![v] = 1]
  /\ UNCHANGED ended

End ==
  /\ ~ended /\ \A v \in Values : times[v] = 1
  /\ ended' = TRUE
  /\ UNCHANGED times

Next == End \/ \E v \in Values : Deliver(v)

Spec == Init /\ [][Next]_<<times, ended>>
=============================================================================
