----------------------------- MODULE NotesTable -----------------------------
(***************************************************************************)
(* The notes of one user in Postgres and the audit trail of what was done to *)
(* them, as transactions write them (Day 35, internal/notes/service.go and   *)
(* repository.go, internal/audit/repository.go). A note is its version, an   *)
(* entry says which version a transaction made of which note.                *)
(***************************************************************************)
EXTENDS Integers, FiniteSets

CONSTANTS
  Writers,     \* requests that write, on any replica
  OldNotes,    \* notes that are there at the start
  MaxNotes,    \* bound: ids of notes
  MaxWrites    \* bound: transactions begun

ASSUME NotesAssumption ==
  OldNotes \in Nat /\ MaxNotes \in Nat /\ OldNotes <= MaxNotes /\ MaxWrites \in Nat

Ids == 1 .. MaxNotes
Kinds == {"create", "update", "delete"}
NewTx(kind, at, note) == [kind |-> kind, at |-> at, note |-> note, changed |-> FALSE, entry |-> 0]
NoTx == NewTx("none", 0, 0)

VARIABLES
  version,    \* version[i]: the committed version of note i, 0 if it is not there
  hits,       \* notes whose committed title contains the searched text
  nextNote,   \* what the sequences of the two tables give next
  nextEntry,
  clock,      \* transactions begun so far: their start times
  tx,         \* tx[w]: the transaction of writer w
  trail       \* committed entries; until is when the transaction ended

table == <<version, hits, nextNote, nextEntry, clock, tx, trail>>

TableInit ==
  /\ version = [i \in Ids |-> IF i <= OldNotes THEN 1 ELSE 0]
  /\ hits \in SUBSET (1 .. OldNotes)
  /\ nextNote = OldNotes + 1 /\ nextEntry = OldNotes + 1
  /\ clock = 0
  /\ tx = [w \in Writers |-> NoTx]
  /\ trail = {[id |-> i, at |-> 0, note |-> i, version |-> 1, until |-> 0] : i \in 1 .. OldNotes}

-----------------------------------------------------------------------------
\* BEGIN of a transaction: now() in it is the time of this step.
Begin(w) ==
  /\ tx[w] = NoTx /\ clock < MaxWrites
  /\ clock' = clock + 1
  /\ \/ tx' = [tx EXCEPT ![w] = NewTx("create", clock + 1, 0)]
     \/ \E i \in Ids, kind \in {"update", "delete"} :
          tx' = [tx EXCEPT ![w] = NewTx(kind, clock + 1, i)]
  /\ UNCHANGED <<version, hits, nextNote, nextEntry, trail>>

\* Another transaction has changed the row that w is about to change.
Locked(w) == \E v \in Writers \ {w} : tx[v].changed /\ tx[v].note = tx[w].note

\* repository.Create, Update, Patch and Delete. A change of a row that another
\* transaction has changed waits for it.
Change(w) ==
  /\ ~tx[w].changed
  /\ \/ /\ tx[w].kind = "create" /\ nextNote \in Ids
        /\ tx' = [tx EXCEPT ![w] = [@ EXCEPT !.note = nextNote, !.changed = TRUE]]
        /\ nextNote' = nextNote + 1
     \/ /\ tx[w].kind \in {"update", "delete"}
        /\ version[tx[w].note] # 0 /\ ~Locked(w)
        /\ tx' = [tx EXCEPT ![w].changed = TRUE]
        /\ UNCHANGED nextNote
  /\ UNCHANGED <<version, hits, nextEntry, clock, trail>>

\* A plausible mistake in Log: the entry is inserted with the pool instead of the transaction's runner.
Log_OutsideTx(w) ==
  /\ tx[w].changed /\ tx[w].entry = 0
  /\ tx' = [tx EXCEPT ![w].entry = nextEntry]
  /\ trail' = trail \cup {[id |-> nextEntry, at |-> tx[w].at, note |-> tx[w].note,
                           version |-> version[tx[w].note] + 1, until |-> clock]}
  /\ nextEntry' = nextEntry + 1
  /\ UNCHANGED <<version, hits, nextNote, clock>>

\* audit.Log, in the same transaction.
Log(w) ==
  /\ tx[w].changed /\ tx[w].entry = 0
  /\ tx' = [tx EXCEPT ![w].entry = nextEntry]
  /\ nextEntry' = nextEntry + 1
  /\ UNCHANGED <<version, hits, nextNote, clock, trail>>

\* A plausible mistake in Commit: the entries of a deleted note go with it, ON
\* DELETE CASCADE.
Commit_Cascades(w) ==
  /\ tx[w].entry # 0 /\ tx[w].kind = "delete"
  /\ version' = [version EXCEPT ![tx[w].note] = 0]
  /\ trail' = {e \in trail : e.note # tx[w].note}
  /\ tx' = [tx EXCEPT ![w] = NoTx]
  /\ UNCHANGED <<hits, nextNote, nextEntry, clock>>

\* COMMIT. The new title contains the searched text, or does not.
Commit(w) ==
  LET i == tx[w].note IN
  /\ tx[w].entry # 0
  /\ version' = [version EXCEPT ![i] = IF tx[w].kind = "delete" THEN 0 ELSE @ + 1]
  /\ hits' \in IF tx[w].kind = "delete" THEN {hits \ {i}} ELSE {hits \cup {i}, hits \ {i}}
  /\ trail' = trail \cup {[id |-> tx[w].entry, at |-> tx[w].at, note |-> i,
                           version |-> version[i] + 1, until |-> clock]}
  /\ tx' = [tx EXCEPT ![w] = NoTx]
  /\ UNCHANGED <<nextNote, nextEntry, clock>>

\* ROLLBACK: no row had the id, a statement or COMMIT failed, the request was
\* cancelled or its replica died. The sequences do not go back.
Rollback(w) ==
  /\ tx[w] # NoTx
  /\ tx' = [tx EXCEPT ![w] = NoTx]
  /\ UNCHANGED <<version, hits, nextNote, nextEntry, clock, trail>>

Write(w) == Begin(w) \/ Change(w) \/ Log(w) \/ Commit(w) \/ Rollback(w)
=============================================================================
