-------------------------------- MODULE Maps --------------------------------
(***************************************************************************)
(* What a Go map and a table with a key have in common: a function whose     *)
(* domain grows and shrinks.                                                 *)
(***************************************************************************)

\* m[k] = x.
Assign(m, k, x) == [j \in DOMAIN m \cup {k} |-> IF j = k THEN x ELSE m[j]]

\* delete(m, k).
Without(m, k) == [j \in DOMAIN m \ {k} |-> m[j]]
=============================================================================
