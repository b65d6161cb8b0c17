------------------------------ MODULE Listings ------------------------------
(***************************************************************************)
(* Readers of the notes and the trail while others write (Day 35): a client  *)
(* that walks the pages of GET /notes (internal/notes/handler.go, cursor.go, *)
(* repository.go), or one GET /audit?include=notes by one of its three       *)
(* strategies (internal/audit/handler.go, repository.go). A behaviour has    *)
(* one reader.                                                               *)
(***************************************************************************)
EXTENDS NotesTable, Sequences

CONSTANT MaxLimit   \* the greatest limit a client may ask for

ASSUME LimitAssumption == MaxLimit \in Nat \ {0}

Limits == 1 .. MaxLimit
Strategies == {"join", "in_batch", "naive"}
NoCursor == 0   \* encodeCursor gives no cursor for it, decodeCursor gives it for none

VARIABLES
  reader,      \* "walk" or the strategy of the listing
  desc,        \* the walk's sort order is descending
  searching,   \* the walk asks for notes that match
  cursor,      \* what the last page said where to go on
  done,        \* the last page had no next_cursor
  pages,       \* the pages so far, each the set of the ids on it
  late,        \* history: ids of which there was no note to list when the walk passed them
  listing,     \* "new", "listed", "answered" or "failed"
  entries,     \* the entries that were read
  shown,       \* shown[e]: the version that goes with entry e, 0 for no note
  lost         \* history: entries whose note could not be fetched

choices == <<reader, desc, searching>>
walk == <<cursor, done, pages, late>>
answer == <<listing, entries, shown, lost>>
vars == <<table, choices, walk, answer>>

Init ==
  /\ TableInit
  /\ reader \in {"walk"} \cup Strategies
  /\ desc \in BOOLEAN /\ searching \in BOOLEAN
  /\ reader # "walk" => desc /\ ~searching
  /\ cursor = NoCursor /\ done = FALSE /\ pages = <<>> /\ late = {}
  /\ listing = "new" /\ entries = {} /\ shown = [e \in {} |-> 0] /\ lost = {}

-----------------------------------------------------------------------------
(* The walk.                                                                *)

\* WHERE user_id, and LOWER(title) LIKE.
Visible == {i \in Ids : version[i] # 0 /\ (searching => i \in hits)}

\* ORDER BY id, DESC or ASC: i is listed before j.
Precedes(i, j) == IF desc THEN i > j ELSE i < j

\* A plausible mistake in After: id <= $n, id >= $n.
After_Inclusive(i, c) == c # NoCursor => ~Precedes(i, c)

\* AND id < $n, or id > $n, when there is a cursor: i is after c.
After(i, c) == c # NoCursor => Precedes(c, i)

\* A plausible mistake in Cursors: the cursor is the row that LIMIT + 1 fetched.
Cursors_NextRow(items, rest) ==
  IF items = rest
  THEN {NoCursor}
  ELSE {i \in rest \ items : \A j \in rest \ items : ~Precedes(j, i)}

\* What the page gives for the next one: the last id on it, if there are more.
Cursors(items, rest) ==
  IF items = rest THEN {NoCursor} ELSE {i \in items : \A j \in items : ~Precedes(i, j)}

\* GET /notes: LIMIT + 1 rows are fetched and the first limit of them kept. A
\* page that fails or is lost is asked for again.
Page(limit) ==
  LET rest == {i \in Visible : After(i, cursor)} IN
  \E items \in SUBSET rest :
    /\ reader = "walk" /\ ~done
    /\ \A i \in items, j \in rest \ items : Precedes(i, j)
    /\ Cardinality(items) = limit \/ (items = rest /\ Cardinality(items) <= limit)
    /\ cursor' \in Cursors(items, rest)
    /\ done' = (cursor' = NoCursor)
    /\ pages' = Append(pages, items)
    /\ late' = late \cup {i \in Ids \ Visible : After(i, cursor) /\ (done' \/ ~After(i, cursor'))}
    /\ UNCHANGED <<choices, answer, table>>

-----------------------------------------------------------------------------
(* The listings of the trail.                                               *)

\* A plausible mistake in Newer: ORDER BY created_at, id.
Newer_Reversed(e, f) == e.at < f.at \/ (e.at = f.at /\ e.id < f.id)

\* ORDER BY created_at DESC, id DESC: e is listed before f.
Newer(e, f) == e.at > f.at \/ (e.at = f.at /\ e.id > f.id)

\* LIMIT: the first entries in that order.
Newest(limit) ==
  {S \in SUBSET trail :
     /\ \A e \in S, f \in trail \ S : Newer(e, f)
     /\ Cardinality(S) = limit \/ (S = trail /\ Cardinality(S) <= limit)}

\* A plausible mistake in OneByOne: strategyFn gives ListWithNotesNaive for in_batch.
OneByOne_Too == reader \in {"naive", "in_batch"}

\* strategyFn.
OneByOne == reader = "naive"
Batched == reader = "in_batch" /\ ~OneByOne

\* The note that goes with an entry now, if it is still there.
Note(e) == version[e.note]

\* List, the first statement of in_batch and of naive.
List(limit) ==
  /\ (OneByOne \/ Batched) /\ listing = "new"
  /\ \/ entries' \in Newest(limit) /\ listing' = "listed"
     \/ listing' = "failed" /\ UNCHANGED entries
  /\ UNCHANGED <<choices, walk, shown, lost, table>>

\* ListWithNotesJoin: one statement.
Join(limit) ==
  /\ reader = "join" /\ listing = "new"
  /\ \/ /\ entries' \in Newest(limit) /\ listing' = "answered"
        /\ shown' = [e \in entries' |-> Note(e)]
     \/ listing' = "failed" /\ UNCHANGED <<entries, shown>>
  /\ UNCHANGED <<choices, walk, lost, table>>

\* The second statement of ListWithNotesInBatch: the notes of all entries.
FetchAll ==
  /\ Batched /\ listing = "listed"
  /\ \/ shown' = [e \in entries |-> Note(e)] /\ listing' = "answered"
     \/ listing' = "failed" /\ UNCHANGED shown
  /\ UNCHANGED <<choices, walk, entries, lost, table>>

\* fetchOneNote for the next entry: ListWithNotesNaive goes on when it fails.
FetchOne ==
  \E e \in entries \ DOMAIN shown :
    /\ OneByOne /\ listing = "listed"
    /\ \A f \in entries \ (DOMAIN shown \cup {e}) : Newer(e, f)
    /\ \E n \in {Note(e), 0} :
         /\ shown' = [f \in DOMAIN shown \cup {e} |-> IF f = e THEN n ELSE shown[f]]
         /\ lost' = IF n = Note(e) THEN lost ELSE lost \cup {e}
    /\ UNCHANGED <<choices, walk, listing, entries, table>>

\* The loop of ListWithNotesNaive ends.
Answer ==
  /\ OneByOne /\ listing = "listed" /\ DOMAIN shown = entries
  /\ listing' = "answered"
  /\ UNCHANGED <<choices, walk, entries, shown, lost, table>>

-----------------------------------------------------------------------------
Read == FetchAll \/ FetchOne \/ Answer \/ \E limit \in Limits : Page(limit) \/ List(limit) \/ Join(limit)

Next == Read \/ \E w \in Writers : Write(w) /\ UNCHANGED <<choices, walk, answer>>

Spec == Init /\ [][Next]_vars

-----------------------------------------------------------------------------
(* Properties.                                                              *)

Entry == [id : Nat \ {0}, at : Nat, note : Ids, version : Nat \ {0}, until : Nat]

\* Types.
TypeOK ==
  /\ version \in [Ids -> Nat] /\ hits \subseteq Ids
  /\ nextNote \in Nat \ {0} /\ nextEntry \in Nat \ {0} /\ clock \in Nat
  /\ tx \in [Writers -> [kind : Kinds \cup {"none"}, at : Nat, note : Ids \cup {0},
                         changed : BOOLEAN, entry : Nat]]
  /\ trail \subseteq Entry
  /\ reader \in {"walk"} \cup Strategies /\ desc \in BOOLEAN /\ searching \in BOOLEAN
  /\ cursor \in Ids \cup {NoCursor} /\ done \in BOOLEAN
  /\ pages \in Seq(SUBSET Ids) /\ late \subseteq Ids
  /\ listing \in {"new", "listed", "answered", "failed"}
  /\ entries \subseteq trail /\ lost \subseteq entries
  /\ shown \in [DOMAIN shown -> Nat] /\ DOMAIN shown \subseteq entries

\* Whatever is created and deleted between two pages, a later page lists only
\* what comes after an earlier one, and so no note twice (Day_26 README,
\* "stable pagination").
PagesInOrder ==
  \A k, l \in 1 .. Len(pages) : k < l =>
    \A i \in pages[k], j \in pages[l] : Precedes(i, j)

\* When a page has no next_cursor, every note there is was on some page, except
\* those that were not there yet, or did not match, when the walk passed them.
MissesOnlyLate ==
  done => Visible \subseteq late \cup UNION {pages[k] : k \in 1 .. Len(pages)}

\* A note shown with an entry is one that the entry's change has been made to,
\* never an older one, and a deletion never has one; an entry is shown without
\* a note only when that was deleted, or fetching it failed in the naive loop.
NoteFitsEntry ==
  \A e \in DOMAIN shown :
    /\ shown[e] # 0 => shown[e] >= e.version
    /\ shown[e] = 0 => version[e.note] = 0 \/ e \in lost

\* The join and the batch show one state of each note, however many of its
\* entries are listed and whatever commits between their statements.
OneStatePerNote ==
  reader # "naive" => \A e, f \in DOMAIN shown : e.note = f.note => shown[e] = shown[f]

\* created_at is the start of a transaction. A listing that shows one change of a
\* note and leaves a later change of it out does so only when the transaction of
\* the later one had begun first, and waited for the earlier one.
NewestFirst ==
  [][\A e \in entries', f \in trail \ entries' :
       entries # entries' /\ e.note = f.note /\ e.version < f.version
         => f.at <= e.at /\ e.until <= f.until]_vars
=============================================================================
