---------------------------- MODULE MCNotesCache ----------------------------
\* Small instances of NotesCache for model checking.
EXTENDS NotesCache, TLC

CONSTANTS c1, c2, c3, p1, p2

\* Two calls meet on one replica, a third is served by another.
TwoReplicas == c1 :> {p1} @@ c2 :> {p1} @@ c3 :> {p2}
=============================================================================
