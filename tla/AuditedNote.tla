---------------------------- MODULE AuditedNote ----------------------------
(***************************************************************************)
(* What the Day 35 README promises of a note and its audit trail: "every     *)
(* note create/update/patch/delete runs inside one Postgres transaction      *)
(* alongside an audit_logs insert. Either both, or neither."                 *)
(***************************************************************************)
EXTENDS Naturals, Sequences

VARIABLES
  version,   \* committed writes of the note, so far
  gone,      \* the note has been deleted
  trail      \* the committed audit entries of the note, oldest first

Init == version = 0 /\ gone = FALSE /\ trail = <<>>

\* The note changes and its audit entry appears, in one step.
Write(op) ==
  /\ IF op = "create" THEN version = 0 ELSE version > 0 /\ ~gone
  /\ version' = version + 1
  /\ gone' = (op = "delete")
  /\ trail' = Append(trail, op)

Next == \E op \in {"create", "update", "delete"} : Write(op)

Spec == Init /\ [][Next]_<<version, gone, trail>>
=============================================================================
