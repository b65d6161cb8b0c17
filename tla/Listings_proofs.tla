--------------------------- MODULE Listings_proofs ---------------------------
(***************************************************************************)
(* Proofs about Listings, for every set of writers, every number of notes    *)
(* and transactions, and every limit.                                        *)
(***************************************************************************)
EXTENDS Listings, SequenceTheorems, TLAPS

USE NotesAssumption, LimitAssumption

Tx == {t \in [kind : Kinds \cup {"none"}, at : Nat, note : Ids \cup {0}, changed : BOOLEAN, entry : Nat] :
         /\ t.kind \in {"update", "delete"} \/ t.changed => t.note \in Ids
         /\ t.entry # 0 => t.changed}

TableTypes ==
  /\ version \in [Ids -> Nat] /\ hits \subseteq Ids
  /\ nextNote \in Nat \ {0} /\ nextEntry \in Nat \ {0} /\ clock \in Nat
  /\ tx \in [Writers -> Tx]
  /\ trail \subseteq Entry

WalkTypes ==
  /\ desc \in BOOLEAN /\ searching \in BOOLEAN
  /\ cursor \in Ids \cup {NoCursor} /\ done \in BOOLEAN
  /\ pages \in Seq(SUBSET Ids) /\ late \subseteq Ids

AnswerTypes ==
  /\ reader \in {"walk"} \cup Strategies
  /\ listing \in {"new", "listed", "answered", "failed"}
  /\ entries \subseteq trail /\ lost \subseteq entries
  /\ shown \in [DOMAIN shown -> Nat] /\ DOMAIN shown \subseteq entries
  /\ listing = "new" => entries = {} /\ DOMAIN shown = {} /\ lost = {}

reading == <<choices, walk, answer>>

\* The steps of readers leave the table alone, and those of writers the readers;
\* a walk does not list, and a listing does not walk.
LEMMA Steps ==
  ASSUME [Next]_vars
  PROVE  \/ \E w \in Writers : Write(w) /\ UNCHANGED reading
         \/ \E limit \in Limits : Page(limit)
         \/ \E limit \in Limits : List(limit) \/ Join(limit)
         \/ FetchAll \/ FetchOne \/ Answer
         \/ UNCHANGED <<table, reading>>
BY DEF Next, Read, vars, reading, table, choices, walk, answer

LEMMA NoTxTyped == NoTx \in Tx /\ ~NoTx.changed /\ NoTx.entry = 0
BY DEF NoTx, NewTx, Tx, Kinds

LEMMA NewTxTyped ==
  ASSUME NEW kind \in Kinds, NEW at \in Nat, NEW i \in Ids \cup {0}, kind = "create" \/ i \in Ids
  PROVE  /\ NewTx(kind, at, i) \in Tx
         /\ ~NewTx(kind, at, i).changed /\ NewTx(kind, at, i).entry = 0
BY DEF NewTx, Tx

LEMMA InitTable == Init => TableTypes
<1> SUFFICES ASSUME Init PROVE TableTypes OBVIOUS
<1> USE DEF Init, TableInit, Ids
<1>1. version \in [Ids -> Nat]
  OBVIOUS
<1>2. tx \in [Writers -> Tx]
  BY NoTxTyped
<1>3. trail \subseteq Entry
  BY DEF Entry
<1> QED
  BY <1>1, <1>2, <1>3 DEF TableTypes

\* What each step of a transaction does to it.
LEMMA BeginStep ==
  ASSUME TableTypes, NEW w \in Writers, Begin(w)
  PROVE  /\ UNCHANGED <<version, hits, nextNote, nextEntry, trail>> /\ clock' = clock + 1
         /\ \E new \in Tx : ~new.changed /\ new.entry = 0 /\ tx' = [tx EXCEPT ![w] = new]
<1>1. UNCHANGED <<version, hits, nextNote, nextEntry, trail>> /\ clock' = clock + 1
  BY DEF Begin
<1>2. clock + 1 \in Nat /\ "create" \in Kinds /\ "update" \in Kinds /\ "delete" \in Kinds
  BY DEF TableTypes, Kinds
<1>3. CASE tx' = [tx EXCEPT ![w] = NewTx("create", clock + 1, 0)]
  BY <1>1, <1>2, <1>3, NewTxTyped
<1>4. ASSUME NEW i \in Ids, NEW kind \in {"update", "delete"},
             tx' = [tx EXCEPT ![w] = NewTx(kind, clock + 1, i)]
      PROVE  \E new \in Tx : ~new.changed /\ new.entry = 0 /\ tx' = [tx EXCEPT ![w] = new]
  BY <1>2, <1>4, NewTxTyped
<1> QED
  BY <1>1, <1>3, <1>4 DEF Begin

LEMMA ChangeStep ==
  ASSUME TableTypes, NEW w \in Writers, Change(w)
  PROVE  /\ UNCHANGED <<version, hits, nextEntry, clock, trail>>
         /\ ~tx[w].changed /\ tx[w].entry = 0
         /\ \E new \in Tx :
              /\ tx' = [tx EXCEPT ![w] = new]
              /\ new.changed /\ new.entry = 0 /\ new.kind = tx[w].kind
              /\ \/ /\ new.kind = "create" /\ new.note = nextNote
                    /\ nextNote \in Ids /\ nextNote' = nextNote + 1
                 \/ /\ new.kind \in {"update", "delete"} /\ new.note = tx[w].note
                    /\ version[new.note] # 0 /\ ~Locked(w) /\ nextNote' = nextNote
<1> DEFINE t == tx[w]
<1>1. t \in Tx /\ ~t.changed /\ t.entry = 0
  BY DEF Change, TableTypes, Tx
<1>2. UNCHANGED <<version, hits, nextEntry, clock, trail>>
  BY DEF Change
<1>3. CASE /\ t.kind = "create" /\ nextNote \in Ids /\ nextNote' = nextNote + 1
           /\ tx' = [tx EXCEPT ![w] = [t EXCEPT !.note = nextNote, !.changed = TRUE]]
  <2> DEFINE new == [t EXCEPT !.note = nextNote, !.changed = TRUE]
  <2>1. new \in Tx /\ new.changed /\ new.entry = 0 /\ new.kind = "create" /\ new.note = nextNote
    BY <1>1, <1>3 DEF Tx
  <2> QED
    BY <1>1, <1>2, <1>3, <2>1
<1>4. CASE /\ t.kind \in {"update", "delete"} /\ version[t.note] # 0 /\ ~Locked(w)
           /\ tx' = [tx EXCEPT ![w] = [t EXCEPT !.changed = TRUE]] /\ nextNote' = nextNote
  <2> DEFINE new == [t EXCEPT !.changed = TRUE]
  <2>1. new \in Tx /\ new.changed /\ new.entry = 0 /\ new.kind = t.kind /\ new.note = t.note
    BY <1>1, <1>4 DEF Tx
  <2> QED
    BY <1>1, <1>2, <1>4, <2>1
<1> QED
  BY <1>3, <1>4 DEF Change, TableTypes

LEMMA LogStep ==
  ASSUME TableTypes, NEW w \in Writers, Log(w)
  PROVE  /\ UNCHANGED <<version, hits, nextNote, clock, trail>> /\ nextEntry' = nextEntry + 1
         /\ \E new \in Tx : /\ tx' = [tx EXCEPT ![w] = new]
                            /\ tx[w].changed /\ new.changed /\ new.kind = tx[w].kind
                            /\ new.note = tx[w].note /\ new.at = tx[w].at
<1> DEFINE t == tx[w]
           new == [t EXCEPT !.entry = nextEntry]
<1>1. t \in Tx /\ t.changed /\ nextEntry \in Nat
  BY DEF Log, TableTypes
<1>2. new \in Tx /\ new.changed /\ new.kind = t.kind /\ new.note = t.note /\ new.at = t.at
  BY <1>1 DEF Tx
<1>3. tx' = [tx EXCEPT ![w] = new]
  BY DEF Log, TableTypes
<1> QED
  BY <1>1, <1>2, <1>3 DEF Log

\* The entry that a committed transaction leaves.
Committed(w) == [id |-> tx[w].entry, at |-> tx[w].at, note |-> tx[w].note,
                 version |-> version[tx[w].note] + 1, until |-> clock]

LEMMA CommitStep ==
  ASSUME TableTypes, NEW w \in Writers, Commit(w)
  PROVE  /\ UNCHANGED <<nextNote, nextEntry, clock>>
         /\ tx[w] \in Tx /\ tx[w].changed /\ tx[w].entry # 0 /\ tx[w].note \in Ids
         /\ tx' = [tx EXCEPT ![w] = NoTx]
         /\ trail' = trail \cup {Committed(w)} /\ Committed(w) \in Entry
         /\ version' \in [Ids -> Nat] /\ hits' \subseteq Ids
         /\ version' = [version EXCEPT ![tx[w].note] =
                          IF tx[w].kind = "delete" THEN 0 ELSE version[tx[w].note] + 1]
<1>1. UNCHANGED <<nextNote, nextEntry, clock>> /\ tx[w].entry # 0 /\ tx' = [tx EXCEPT ![w] = NoTx]
  BY DEF Commit
<1>2. tx[w] \in Tx /\ tx[w].changed /\ tx[w].note \in Ids /\ version[tx[w].note] \in Nat
  BY <1>1 DEF TableTypes, Tx
<1>3. trail' = trail \cup {Committed(w)}
  BY DEF Commit, Committed
<1>4. Committed(w) \in Entry
  BY <1>1, <1>2 DEF Committed, Entry, TableTypes, Tx
<1>5. version' = [version EXCEPT ![tx[w].note] =
                     IF tx[w].kind = "delete" THEN 0 ELSE version[tx[w].note] + 1]
  BY <1>2 DEF Commit, TableTypes
<1>6. version' \in [Ids -> Nat]
  BY <1>2, <1>5 DEF TableTypes
<1>7. hits' \subseteq Ids
  BY <1>2 DEF Commit, TableTypes
<1> QED
  BY <1>1, <1>2, <1>3, <1>4, <1>5, <1>6, <1>7

LEMMA WriteTable == ASSUME TableTypes, NEW w \in Writers, Write(w) PROVE TableTypes'
<1>1. CASE Begin(w)
  BY <1>1, BeginStep DEF TableTypes
<1>2. CASE Change(w)
  BY <1>2, ChangeStep DEF TableTypes
<1>3. CASE Log(w)
  BY <1>3, LogStep DEF TableTypes
<1>4. CASE Commit(w)
  BY <1>4, CommitStep, NoTxTyped DEF TableTypes
<1>5. CASE Rollback(w)
  BY <1>5, NoTxTyped DEF Rollback, TableTypes
<1> QED
  BY <1>1, <1>2, <1>3, <1>4, <1>5 DEF Write

-----------------------------------------------------------------------------
(* The walk. What it has seen is on its side of the cursor, in order, and    *)
(* everything on that side was seen or was not there; none of this depends   *)
(* on what the writers do in between.                                        *)

Rest == {i \in Visible : After(i, cursor)}

OnPages == UNION {pages[k] : k \in 1 .. Len(pages)}

Behind ==
  /\ cursor = NoCursor => done \/ pages = <<>>
  /\ cursor # NoCursor => \A k \in 1 .. Len(pages) : \A i \in pages[k] : ~Precedes(cursor, i)

NothingPassed == \A i \in Ids : done \/ ~After(i, cursor) => i \in late \cup OnPages

WalkInv == WalkTypes /\ Behind /\ PagesInOrder /\ NothingPassed

LEMMA InitWalk == Init => WalkInv
<1> SUFFICES ASSUME Init PROVE WalkInv OBVIOUS
<1>1. WalkTypes
  <2>1. desc \in BOOLEAN /\ searching \in BOOLEAN /\ cursor = NoCursor /\ done = FALSE
    BY DEF Init
  <2>2. pages = <<>> /\ late = {}
    BY DEF Init
  <2>3. pages \in Seq(SUBSET Ids) /\ late \subseteq Ids
    BY <2>2
  <2> QED
    BY <2>1, <2>3 DEF WalkTypes
<1>3. Behind /\ PagesInOrder
  BY DEF Init, Behind, PagesInOrder
<1>2. NothingPassed
  BY DEF Init, NothingPassed, After
<1> QED
  BY <1>1, <1>2, <1>3 DEF WalkInv

\* The rows of a page, and where it says to go on.
LEMMA PageStep ==
  ASSUME WalkTypes, NEW limit \in Limits, Page(limit)
  PROVE  /\ UNCHANGED <<choices, answer, table>> /\ ~done
         /\ cursor' \in Ids \cup {NoCursor} /\ done' = (cursor' = NoCursor)
         /\ late' = late \cup {i \in Ids \ Visible : After(i, cursor) /\ (done' \/ ~After(i, cursor'))}
         /\ \E items \in SUBSET Rest :
              /\ pages' = Append(pages, items)
              /\ cursor' = NoCursor => items = Rest
              /\ cursor' # NoCursor => /\ cursor' \in items
                                       /\ \A i \in items : ~Precedes(cursor', i)
                                       /\ \A j \in Rest \ items : Precedes(cursor', j)
<1>1. PICK items \in SUBSET Rest :
        /\ ~done
        /\ \A i \in items, j \in Rest \ items : Precedes(i, j)
        /\ cursor' \in Cursors(items, Rest)
        /\ done' = (cursor' = NoCursor)
        /\ pages' = Append(pages, items)
        /\ late' = late \cup {i \in Ids \ Visible : After(i, cursor) /\ (done' \/ ~After(i, cursor'))}
        /\ UNCHANGED <<choices, answer, table>>
  BY DEF Page, Rest
<1>2. Rest \subseteq Ids /\ NoCursor \notin Ids
  BY DEF Rest, Visible, NoCursor, Ids
<1>3. CASE items = Rest
  BY <1>1, <1>2, <1>3 DEF Cursors
<1>4. CASE items # Rest
  <2>1. cursor' \in items /\ \A i \in items : ~Precedes(cursor', i)
    BY <1>1, <1>4, Zenon DEF Cursors, Precedes
  <2> QED
    BY <1>1, <1>2, <2>1
<1> QED
  BY <1>3, <1>4

LEMMA Appended ==
  ASSUME NEW items \in SUBSET Ids, pages \in Seq(SUBSET Ids), pages' = Append(pages, items)
  PROVE  /\ pages' \in Seq(SUBSET Ids) /\ Len(pages) \in Nat /\ Len(pages') = Len(pages) + 1
         /\ \A k \in 1 .. Len(pages) : pages'[k] = pages[k]
         /\ pages'[Len(pages) + 1] = items
         /\ OnPages' = OnPages \cup items
<1>1. /\ pages' \in Seq(SUBSET Ids) /\ Len(pages) \in Nat /\ Len(pages') = Len(pages) + 1
      /\ \A k \in 1 .. Len(pages) : pages'[k] = pages[k]
      /\ pages'[Len(pages) + 1] = items
  OBVIOUS
<1>2. 1 .. Len(pages') = 1 .. Len(pages) \cup {Len(pages) + 1}
  BY <1>1
<1>3. OnPages' = OnPages \cup items
  BY <1>1, <1>2 DEF OnPages
<1> QED
  BY <1>1, <1>3

LEMMA PageWalk ==
  ASSUME WalkInv, NEW limit \in Limits, Page(limit)
  PROVE  WalkInv'
<1> USE DEF WalkInv
<1>1. PICK items \in SUBSET Rest :
        /\ pages' = Append(pages, items)
        /\ cursor' = NoCursor => items = Rest
        /\ cursor' # NoCursor => /\ cursor' \in items
                                 /\ \A i \in items : ~Precedes(cursor', i)
                                 /\ \A j \in Rest \ items : Precedes(cursor', j)
  BY PageStep
<1>2. /\ cursor' \in Ids \cup {NoCursor} /\ done' = (cursor' = NoCursor) /\ ~done
      /\ late' = late \cup {i \in Ids \ Visible : After(i, cursor) /\ (done' \/ ~After(i, cursor'))}
      /\ desc' = desc /\ searching' = searching
  BY PageStep DEF choices
<1>3. items \in SUBSET Ids /\ \A i \in items : After(i, cursor)
  BY DEF Rest, Visible
<1>4. /\ pages' \in Seq(SUBSET Ids) /\ Len(pages) \in Nat /\ Len(pages') = Len(pages) + 1
      /\ \A k \in 1 .. Len(pages) : pages'[k] = pages[k]
      /\ pages'[Len(pages) + 1] = items
      /\ OnPages' = OnPages \cup items
  BY <1>1, <1>3, Appended DEF WalkTypes
<1>5. WalkTypes'
  BY <1>2, <1>4 DEF WalkTypes
<1>6. ASSUME NEW k \in 1 .. Len(pages), NEW i \in pages[k]
      PROVE  cursor # NoCursor /\ cursor \in Int /\ i \in Int /\ ~Precedes(cursor, i)
  <2>1. cursor # NoCursor
    BY <1>2 DEF Behind
  <2> QED
    BY <1>6, <2>1 DEF Behind, WalkTypes, Ids, NoCursor
<1>7. Behind'
  <2>1. ASSUME cursor' # NoCursor, NEW k \in 1 .. Len(pages'), NEW i \in pages'[k]
        PROVE  ~Precedes(cursor, i)'
    <3>1. CASE k = Len(pages) + 1
      BY <1>1, <1>2, <1>4, <2>1, <3>1 DEF Precedes
    <3>2. CASE k \in 1 .. Len(pages)
      <4>1. i \in pages[k]
        BY <1>4, <2>1, <3>2
      <4>2. cursor # NoCursor /\ cursor \in Int /\ i \in Int /\ ~Precedes(cursor, i)
        BY <1>6, <3>2, <4>1
      <4>3. cursor' \in Int /\ Precedes(cursor, cursor')
        <5>1. cursor' \in items
          BY <1>1, <2>1
        <5>2. cursor' \in Ids /\ After(cursor', cursor)
          BY <1>3, <5>1
        <5> QED
          BY <4>2, <5>2 DEF After, Ids
      <4> QED
        BY <1>2, <4>2, <4>3 DEF Precedes
    <3> QED
      BY <1>4, <2>1, <3>1, <3>2
  <2>2. cursor' = NoCursor => done'
    BY <1>2
  <2> QED
    BY <2>1, <2>2 DEF Behind
<1>8. PagesInOrder'
  <2>1. ASSUME NEW k \in 1 .. Len(pages'), NEW l \in 1 .. Len(pages'), k < l,
               NEW i \in pages'[k], NEW j \in pages'[l]
        PROVE  Precedes(i, j)'
    <3>1. k \in 1 .. Len(pages) /\ i \in pages[k]
      BY <1>4, <2>1
    <3>2. CASE l \in 1 .. Len(pages)
      <4>1. Precedes(i, j)
        BY <1>4, <2>1, <3>1, <3>2 DEF PagesInOrder
      <4> QED
        BY <1>2, <4>1 DEF Precedes
    <3>3. CASE l = Len(pages) + 1
      <4>1. j \in items /\ j \in Int
        BY <1>3, <1>4, <2>1, <3>3 DEF Ids
      <4>2. cursor # NoCursor /\ cursor \in Int /\ i \in Int /\ ~Precedes(cursor, i)
        BY <1>6, <3>1
      <4>3. Precedes(cursor, j)
        BY <1>3, <4>1, <4>2 DEF After
      <4> QED
        BY <1>2, <4>1, <4>2, <4>3 DEF Precedes
    <3> QED
      BY <1>4, <2>1, <3>2, <3>3
  <2> QED
    BY <2>1 DEF PagesInOrder
<1>9. NothingPassed'
  <2>1. ASSUME NEW i \in Ids, done' \/ ~After(i, cursor)'
        PROVE  i \in late' \cup OnPages'
    <3>1. CASE ~After(i, cursor)
      BY <1>2, <1>4, <3>1 DEF NothingPassed
    <3>2. CASE After(i, cursor) /\ i \notin Visible
      BY <1>2, <2>1, <3>2 DEF After, Precedes
    <3>3. CASE After(i, cursor) /\ i \in Visible
      <4>1. i \in Rest
        BY <3>3 DEF Rest
      <4>2. CASE done'
        BY <1>1, <1>2, <1>4, <4>1, <4>2
      <4>3. CASE ~done'
        <5>1. cursor' # NoCursor /\ ~Precedes(cursor', i)
          BY <1>2, <2>1, <4>3 DEF After, Precedes
        <5> QED
          BY <1>1, <1>4, <4>1, <5>1
      <4> QED
        BY <4>2, <4>3
    <3> QED
      BY <3>1, <3>2, <3>3
  <2> QED
    BY <2>1 DEF NothingPassed
<1> QED
  BY <1>5, <1>7, <1>8, <1>9

LEMMA WalkUnread ==
  ASSUME WalkInv, UNCHANGED <<choices, walk>>
  PROVE  WalkInv'
BY DEF WalkInv, WalkTypes, Behind, PagesInOrder, NothingPassed, OnPages, After, Precedes, choices, walk

LEMMA StepWalk == ASSUME WalkInv, [Next]_vars PROVE WalkInv'
<1>1. (\E limit \in Limits : Page(limit)) \/ UNCHANGED <<choices, walk>>
  BY Steps DEF reading, List, Join, FetchAll, FetchOne, Answer
<1> QED
  BY <1>1, PageWalk, WalkUnread

\* No note is listed twice, and pages come in order, whatever is written.
THEOREM StablePages == Spec => []PagesInOrder
<1>1. WalkInv /\ [Next]_vars => WalkInv'
  BY StepWalk
<1>2. WalkInv => PagesInOrder
  BY DEF WalkInv
<1> QED
  BY InitWalk, <1>1, <1>2, PTL DEF Spec

\* A walk that ended has passed every note that was there when it passed.
THEOREM CompleteWalk == Spec => []MissesOnlyLate
<1>1. WalkInv /\ [Next]_vars => WalkInv'
  BY StepWalk
<1>2. WalkInv => MissesOnlyLate
  BY DEF WalkInv, NothingPassed, OnPages, MissesOnlyLate, Visible
<1> QED
  BY InitWalk, <1>1, <1>2, PTL DEF Spec

-----------------------------------------------------------------------------
(* The table and its trail. Two transactions that changed a row are of       *)
(* different notes, so that the versions of a note and their entries come    *)
(* in the order of the commits, and a deleted note does not come back.       *)

\* What the sequence has not given yet is not in use.
Numbered ==
  /\ \A i \in Ids : version[i] # 0 => i < nextNote
  /\ \A e \in trail : e.note < nextNote
  /\ \A w \in Writers : tx[w].changed => tx[w].note < nextNote

\* An entry is of a version that its note has had.
Recorded == \A e \in trail : version[e.note] # 0 => version[e.note] >= e.version

\* A transaction that created a note is the only one that knows of it; any
\* other change is of a note that is there.
Changing ==
  \A w \in Writers : tx[w].changed =>
    IF tx[w].kind = "create"
    THEN version[tx[w].note] = 0 /\ \A e \in trail : e.note # tx[w].note
    ELSE version[tx[w].note] # 0

Exclusive ==
  \A v, w \in Writers : v # w /\ tx[v].changed /\ tx[w].changed => tx[v].note # tx[w].note

InCommitOrder ==
  /\ \A e \in trail : e.until <= clock
  /\ \A e, f \in trail : e.note = f.note /\ e.version < f.version => e.until <= f.until

TableInv == TableTypes /\ Numbered /\ Recorded /\ Changing /\ Exclusive /\ InCommitOrder

LEMMA InitTableInv == Init => TableInv
<1> SUFFICES ASSUME Init PROVE TableInv OBVIOUS
<1>1. /\ \A w \in Writers : ~tx[w].changed
      /\ version = [i \in Ids |-> IF i <= OldNotes THEN 1 ELSE 0] /\ nextNote = OldNotes + 1 /\ clock = 0
      /\ trail = {[id |-> i, at |-> 0, note |-> i, version |-> 1, until |-> 0] : i \in 1 .. OldNotes}
  BY NoTxTyped DEF Init, TableInit
<1>2. \A e \in trail : e.note \in 1 .. OldNotes /\ e.version = 1 /\ e.until = 0
  BY <1>1
<1>3. Numbered
  BY <1>1, <1>2 DEF Numbered, Ids
<1>4. Recorded
  BY <1>1, <1>2 DEF Recorded, Ids
<1>5. Changing /\ Exclusive
  BY <1>1 DEF Changing, Exclusive
<1>6. InCommitOrder
  BY <1>1, <1>2 DEF InCommitOrder
<1> QED
  BY <1>3, <1>4, <1>5, <1>6, InitTable DEF TableInv

\* A step that neither changes a row nor commits.
LEMMA QuietStep ==
  ASSUME TableInv, NEW w \in Writers, NEW new \in Tx, tx' = [tx EXCEPT ![w] = new],
         new.changed => tx[w].changed /\ new.kind = tx[w].kind /\ new.note = tx[w].note,
         UNCHANGED <<version, nextNote, trail>>, clock' \in Nat, clock' >= clock
  PROVE  Numbered' /\ Recorded' /\ Changing' /\ Exclusive' /\ InCommitOrder'
<1> USE DEF TableInv
<1>1. \A v \in Writers : tx'[v].changed =>
        tx[v].changed /\ tx'[v].kind = tx[v].kind /\ tx'[v].note = tx[v].note
  BY DEF TableTypes
<1>2. Numbered' /\ Recorded'
  BY <1>1 DEF Numbered, Recorded
<1>3. Changing' /\ Exclusive'
  BY <1>1 DEF Changing, Exclusive
<1>4. \A e \in trail : e.until \in Nat
  BY DEF TableTypes, Entry
<1>5. InCommitOrder'
  BY <1>4 DEF InCommitOrder, TableTypes
<1> QED
  BY <1>2, <1>3, <1>5

LEMMA ChangeKeeps ==
  ASSUME TableInv, NEW w \in Writers, Change(w)
  PROVE  Numbered' /\ Recorded' /\ Changing' /\ Exclusive' /\ InCommitOrder'
<1> USE DEF TableInv
<1>1. UNCHANGED <<version, clock, trail>> /\ ~tx[w].changed
  BY ChangeStep
<1>2. PICK new \in Tx :
        /\ tx' = [tx EXCEPT ![w] = new] /\ new.changed
        /\ \/ /\ new.kind = "create" /\ new.note = nextNote
              /\ nextNote \in Ids /\ nextNote' = nextNote + 1
           \/ /\ new.kind \in {"update", "delete"} /\ new.note = tx[w].note
              /\ version[new.note] # 0 /\ ~Locked(w) /\ nextNote' = nextNote
  BY ChangeStep
<1>3. tx'[w] = new /\ \A v \in Writers \ {w} : tx'[v] = tx[v]
  BY <1>2 DEF TableTypes
<1>4. new.note \in Ids /\ new.note \in Int /\ nextNote \in Int
  BY <1>2 DEF Tx, Ids, TableTypes
<1>5. /\ \A e \in trail : e.note \in Int /\ e.note < nextNote
      /\ \A v \in Writers : tx[v].changed => tx[v].note \in Int /\ tx[v].note < nextNote
      /\ \A i \in Ids : version[i] # 0 => i < nextNote
  BY DEF Numbered, TableTypes, Entry, Tx, Ids
<1>6. nextNote' \in Int /\ nextNote' >= nextNote /\ new.note < nextNote'
  BY <1>2, <1>4, <1>5
<1>7. Numbered'
  <2>1. \A i \in Ids : version'[i] # 0 => i < nextNote'
    BY <1>1, <1>4, <1>5, <1>6 DEF Ids
  <2>2. \A e \in trail' : e.note < nextNote'
    BY <1>1, <1>4, <1>5, <1>6
  <2>3. \A v \in Writers : tx'[v].changed => tx'[v].note < nextNote'
    BY <1>3, <1>4, <1>5, <1>6
  <2> QED
    BY <2>1, <2>2, <2>3 DEF Numbered
<1>8. Recorded' /\ InCommitOrder'
  BY <1>1 DEF Recorded, InCommitOrder
<1>9. Changing'
  <2>1. IF new.kind = "create"
        THEN version[new.note] = 0 /\ \A e \in trail : e.note # new.note
        ELSE version[new.note] # 0
    BY <1>2, <1>4, <1>5
  <2> QED
    BY <1>1, <1>3, <2>1 DEF Changing
<1>10. Exclusive'
  <2>1. \A v \in Writers \ {w} : tx[v].changed => tx[v].note # new.note
    BY <1>2, <1>4, <1>5 DEF Locked
  <2> QED
    BY <1>3, <2>1 DEF Exclusive
<1> QED
  BY <1>7, <1>8, <1>9, <1>10

\* A deleted note, or one that is not there yet, has no change but its creation.
LEMMA CommitsOn ==
  ASSUME TableInv, NEW w \in Writers, tx[w].changed, NEW e \in trail, e.note = tx[w].note
  PROVE  tx[w].kind # "create" /\ version[e.note] # 0 /\ e.version <= version[e.note]
BY DEF TableInv, Changing, Recorded, TableTypes, Entry

LEMMA CommitKeeps ==
  ASSUME TableInv, NEW w \in Writers, Commit(w)
  PROVE  Numbered' /\ Recorded' /\ Changing' /\ Exclusive' /\ InCommitOrder'
<1> USE DEF TableInv
<1> DEFINE i == tx[w].note
           c == Committed(w)
<1>1. /\ UNCHANGED <<nextNote, clock>> /\ tx[w].changed /\ i \in Ids
      /\ tx' = [tx EXCEPT ![w] = NoTx]
      /\ trail' = trail \cup {c} /\ c \in Entry
      /\ version' = [version EXCEPT ![i] = IF tx[w].kind = "delete" THEN 0 ELSE version[i] + 1]
  BY CommitStep
<1>2. /\ c.note = i /\ c.version = version[i] + 1 /\ c.until = clock
      /\ i \in Int /\ version[i] \in Nat /\ clock \in Nat /\ nextNote \in Int
  BY <1>1 DEF Committed, TableTypes, Ids
<1>3. \A v \in Writers : tx'[v].changed => v # w /\ tx'[v] = tx[v] /\ tx[v].note # i
  <2>1. tx'[w] = NoTx /\ \A v \in Writers \ {w} : tx'[v] = tx[v]
    BY <1>1 DEF TableTypes
  <2> QED
    BY <1>1, <2>1, NoTxTyped DEF Exclusive
<1>4. /\ version'[i] = IF tx[w].kind = "delete" THEN 0 ELSE version[i] + 1
      /\ \A j \in Ids \ {i} : version'[j] = version[j]
  BY <1>1 DEF TableTypes
<1>5. i < nextNote
  BY <1>1 DEF Numbered
<1>6. \A e \in trail : e.note = i => e.version <= version[i]
  BY <1>1, CommitsOn
<1>7. \A e \in trail : e.note \in Ids /\ e.version \in Nat /\ e.until \in Nat
  BY DEF TableTypes, Entry
<1> HIDE DEF i, c
<1>8. Numbered'
  <2>1. \A j \in Ids : version'[j] # 0 => j < nextNote'
    BY <1>1, <1>4, <1>5 DEF Numbered
  <2>2. \A e \in trail' : e.note < nextNote'
    BY <1>1, <1>2, <1>5 DEF Numbered
  <2>3. \A v \in Writers : tx'[v].changed => tx'[v].note < nextNote'
    BY <1>1, <1>3 DEF Numbered
  <2> QED
    BY <2>1, <2>2, <2>3 DEF Numbered
<1>9. Recorded'
  <2>1. ASSUME NEW e \in trail, version'[e.note] # 0 PROVE version'[e.note] >= e.version
    <3>1. CASE e.note = i
      BY <1>2, <1>4, <1>6, <1>7, <2>1, <3>1
    <3>2. CASE e.note # i
      BY <1>4, <1>7, <2>1, <3>2 DEF Recorded
    <3> QED
      BY <3>1, <3>2
  <2>2. version'[c.note] # 0 => version'[c.note] >= c.version
    BY <1>2, <1>4
  <2> QED
    BY <1>1, <2>1, <2>2 DEF Recorded
<1>10. Changing'
  <2>1. ASSUME NEW v \in Writers, tx'[v].changed
        PROVE  IF tx'[v].kind = "create"
               THEN version'[tx'[v].note] = 0 /\ \A e \in trail' : e.note # tx'[v].note
               ELSE version'[tx'[v].note] # 0
    <3>1. tx'[v] = tx[v] /\ tx[v].changed /\ tx[v].note # i /\ tx[v].note \in Ids
      BY <1>3, <2>1 DEF TableTypes, Tx
    <3>2. version'[tx[v].note] = version[tx[v].note]
      BY <1>4, <3>1
    <3>3. \A e \in trail' : e \in trail \/ e.note # tx[v].note
      BY <1>1, <1>2, <3>1
    <3> QED
      BY <3>1, <3>2, <3>3 DEF Changing
  <2> QED
    BY <2>1 DEF Changing
<1>11. Exclusive'
  BY <1>3 DEF Exclusive
<1>12. InCommitOrder'
  <2>1. \A e \in trail' : e.until <= clock'
    BY <1>1, <1>2 DEF InCommitOrder
  <2>2. ASSUME NEW e \in trail', NEW f \in trail', e.note = f.note, e.version < f.version
        PROVE  e.until <= f.until
    <3>1. CASE f = c
      BY <1>1, <1>2, <2>1, <3>1
    <3>2. CASE e = c /\ f \in trail
      BY <1>2, <1>6, <1>7, <2>2, <3>2
    <3>3. CASE e \in trail /\ f \in trail
      BY <2>2, <3>3 DEF InCommitOrder
    <3> QED
      BY <1>1, <3>1, <3>2, <3>3
  <2> QED
    BY <2>1, <2>2 DEF InCommitOrder
<1> QED
  BY <1>8, <1>9, <1>10, <1>11, <1>12

LEMMA WriteKeeps == ASSUME TableInv, NEW w \in Writers, Write(w) PROVE TableInv'
<1>1. TableTypes /\ clock \in Nat
  BY DEF TableInv, TableTypes
<1>2. TableTypes'
  BY <1>1, WriteTable
<1>3. Numbered' /\ Recorded' /\ Changing' /\ Exclusive' /\ InCommitOrder'
  <2>1. CASE Begin(w)
    BY <1>1, <2>1, BeginStep, QuietStep
  <2>2. CASE Change(w)
    BY <2>2, ChangeKeeps
  <2>3. CASE Log(w)
    BY <1>1, <2>3, LogStep, QuietStep
  <2>4. CASE Commit(w)
    BY <2>4, CommitKeeps
  <2>5. CASE Rollback(w)
    <3>1. tx' = [tx EXCEPT ![w] = NoTx] /\ UNCHANGED <<version, nextNote, trail, clock>>
      BY <2>5 DEF Rollback
    <3>2. clock' \in Nat /\ clock' >= clock
      BY <1>1, <3>1
    <3> QED
      BY <3>1, <3>2, NoTxTyped, QuietStep
  <2> QED
    BY <2>1, <2>2, <2>3, <2>4, <2>5 DEF Write
<1> QED
  BY <1>2, <1>3 DEF TableInv

LEMMA StepTable == ASSUME TableInv, [Next]_vars PROVE TableInv'
<1>1. CASE UNCHANGED table
  BY <1>1 DEF table, TableInv, TableTypes, Numbered, Recorded, Changing, Exclusive, InCommitOrder
<1>2. (\E w \in Writers : Write(w)) \/ UNCHANGED table
  BY Steps DEF Page, List, Join, FetchAll, FetchOne, Answer
<1> QED
  BY <1>1, <1>2, WriteKeeps

-----------------------------------------------------------------------------
(* The listings of the trail.                                               *)

LEMMA InitAnswer == Init => AnswerTypes /\ DOMAIN shown = {}
BY DEF Init, AnswerTypes, Strategies

\* The trail only grows, a deleted note of an entry does not come back, and
\* writers leave the reader alone.
LEMMA TrailGrows ==
  ASSUME TableInv, NEW w \in Writers, Write(w)
  PROVE  /\ trail \subseteq trail'
         /\ \A e \in trail : version[e.note] = 0 => version'[e.note] = 0
<1>1. TableTypes
  BY DEF TableInv
<1>2. CASE Commit(w)
  <2>1. /\ tx[w].changed /\ trail' = trail \cup {Committed(w)}
        /\ version' = [version EXCEPT ![tx[w].note] =
                         IF tx[w].kind = "delete" THEN 0 ELSE version[tx[w].note] + 1]
    BY <1>1, <1>2, CommitStep
  <2>2. \A e \in trail : version[e.note] = 0 => e.note # tx[w].note
    BY <2>1, CommitsOn
  <2>3. \A e \in trail : e.note \in Ids
    BY <1>1 DEF TableTypes, Entry
  <2> QED
    BY <1>1, <2>1, <2>2, <2>3 DEF TableTypes
<1>3. CASE ~Commit(w)
  <2>1. UNCHANGED <<trail, version>>
    BY <1>3 DEF Write, Begin, Change, Log, Rollback
  <2> QED
    BY <2>1
<1> QED
  BY <1>2, <1>3

AnswerInv == TableInv /\ AnswerTypes /\ NoteFitsEntry /\ OneStatePerNote

LEMMA InitAnswerInv == Init => AnswerInv
BY InitTableInv, InitAnswer DEF AnswerInv, NoteFitsEntry, OneStatePerNote

LEMMA WriteAnswer ==
  ASSUME AnswerInv, NEW w \in Writers, Write(w), UNCHANGED reading
  PROVE  AnswerTypes' /\ NoteFitsEntry' /\ OneStatePerNote'
<1> USE DEF AnswerInv
<1>1. /\ trail \subseteq trail'
      /\ \A e \in trail : version[e.note] = 0 => version'[e.note] = 0
  BY TrailGrows
<1>2. UNCHANGED <<reader, listing, entries, shown, lost>>
  BY DEF reading, choices, answer
<1>3. AnswerTypes'
  BY <1>1, <1>2 DEF AnswerTypes
<1>4. NoteFitsEntry'
  BY <1>1, <1>2 DEF NoteFitsEntry, AnswerTypes
<1>5. OneStatePerNote'
  BY <1>2 DEF OneStatePerNote
<1> QED
  BY <1>3, <1>4, <1>5

\* Every entry of an answer with the note it has now, as join and in_batch show it.
LEMMA AllAtOnce ==
  ASSUME AnswerInv, UNCHANGED table, UNCHANGED <<choices, lost>>, listing' = "answered",
         entries' \subseteq trail, lost \subseteq entries',
         shown' = [e \in entries' |-> Note(e)]
  PROVE  AnswerTypes' /\ NoteFitsEntry' /\ OneStatePerNote'
<1> USE DEF AnswerInv
<1>1. UNCHANGED <<version, trail, reader, lost>>
  BY DEF table, choices
<1>2. /\ DOMAIN shown' = entries'
      /\ \A e \in entries' : shown'[e] = version[e.note] /\ e.note \in Ids /\ shown'[e] \in Nat
  BY DEF Note, TableInv, TableTypes, Entry
<1>3. AnswerTypes'
  <2>1. shown' \in [DOMAIN shown' -> Nat]
    BY <1>2
  <2> QED
    BY <1>1, <1>2, <2>1 DEF AnswerTypes
<1>4. NoteFitsEntry'
  BY <1>1, <1>2 DEF NoteFitsEntry, TableInv, Recorded
<1>5. OneStatePerNote'
  BY <1>2 DEF OneStatePerNote
<1> QED
  BY <1>3, <1>4, <1>5

LEMMA ListAnswer ==
  ASSUME AnswerInv, NEW limit \in Limits, List(limit) \/ Join(limit)
  PROVE  AnswerTypes' /\ NoteFitsEntry' /\ OneStatePerNote'
<1> USE DEF AnswerInv
<1>1. /\ UNCHANGED table /\ UNCHANGED <<reader, lost>> /\ UNCHANGED choices
      /\ entries = {} /\ DOMAIN shown = {} /\ lost = {}
  BY DEF List, Join, choices, AnswerTypes
<1>2. UNCHANGED <<version, trail>>
  BY <1>1 DEF table
<1>3. CASE List(limit)
  <2>1. shown' = shown /\ entries' \subseteq trail /\ listing' \in {"listed", "failed"}
    BY <1>1, <1>3 DEF List, Newest
  <2> QED
    BY <1>1, <1>2, <2>1 DEF AnswerTypes, NoteFitsEntry, OneStatePerNote
<1>4. CASE Join(limit) /\ listing' = "failed"
  <2>1. shown' = shown /\ entries' = entries
    BY <1>4 DEF Join
  <2> QED
    BY <1>1, <1>2, <1>4, <2>1 DEF AnswerTypes, NoteFitsEntry, OneStatePerNote
<1>5. CASE Join(limit) /\ listing' # "failed"
  <2>1. /\ entries' \subseteq trail /\ listing' = "answered"
        /\ shown' = [e \in entries' |-> Note(e)]
    BY <1>5 DEF Join, Newest
  <2> QED
    BY <1>1, <2>1, AllAtOnce
<1> QED
  BY <1>3, <1>4, <1>5

LEMMA FetchAnswer ==
  ASSUME AnswerInv, FetchAll
  PROVE  AnswerTypes' /\ NoteFitsEntry' /\ OneStatePerNote'
<1> USE DEF AnswerInv
<1>1. UNCHANGED table /\ UNCHANGED choices /\ UNCHANGED <<reader, entries, lost>>
  BY DEF FetchAll, choices
<1>2. CASE listing' = "failed" /\ shown' = shown
  BY <1>1, <1>2 DEF AnswerTypes, NoteFitsEntry, OneStatePerNote, table
<1>3. CASE listing' = "answered" /\ shown' = [e \in entries |-> Note(e)]
  <2>1. entries' \subseteq trail /\ lost \subseteq entries'
    BY <1>1 DEF AnswerTypes
  <2> QED
    BY <1>1, <1>3, <2>1, AllAtOnce
<1> QED
  BY <1>2, <1>3 DEF FetchAll

LEMMA FetchOneAnswer ==
  ASSUME AnswerInv, FetchOne
  PROVE  AnswerTypes' /\ NoteFitsEntry' /\ OneStatePerNote'
<1> USE DEF AnswerInv
<1> DEFINE Fetched(e, n) ==
      /\ OneByOne /\ listing = "listed"
      /\ shown' = [f \in DOMAIN shown \cup {e} |-> IF f = e THEN n ELSE shown[f]]
      /\ lost' = IF n = Note(e) THEN lost ELSE lost \cup {e}
      /\ UNCHANGED <<choices, walk, listing, entries, table>>
<1>0. PICK e \in entries \ DOMAIN shown : \E n \in {Note(e), 0} : Fetched(e, n)
  BY DEF FetchOne
<1>1. PICK n \in {Note(e), 0} : Fetched(e, n)
  BY <1>0
<1>2. UNCHANGED <<version, trail, reader, listing, entries>>
  BY <1>1 DEF table, choices
<1>3. e \in trail /\ e.note \in Ids /\ version[e.note] \in Nat /\ n \in Nat
  BY <1>1 DEF AnswerTypes, TableInv, TableTypes, Entry, Note
<1>4. /\ DOMAIN shown' = DOMAIN shown \cup {e} /\ shown'[e] = n
      /\ \A f \in DOMAIN shown : shown'[f] = shown[f]
  BY <1>1
<1>5. AnswerTypes'
  <2>1. shown' \in [DOMAIN shown' -> Nat]
    BY <1>1, <1>3, <1>4 DEF AnswerTypes
  <2>2. lost' \subseteq entries' /\ DOMAIN shown' \subseteq entries'
    BY <1>1, <1>2, <1>4 DEF AnswerTypes
  <2> QED
    BY <1>1, <1>2, <2>1, <2>2 DEF AnswerTypes
<1>6. NoteFitsEntry'
  <2>1. n # 0 => n >= e.version
    BY <1>1, <1>3 DEF Note, TableInv, Recorded
  <2>2. n = 0 => version[e.note] = 0 \/ e \in lost'
    BY <1>1 DEF Note
  <2>3. lost \subseteq lost'
    BY <1>1
  <2> QED
    BY <1>2, <1>4, <2>1, <2>2, <2>3 DEF NoteFitsEntry
<1>7. OneStatePerNote'
  BY <1>1, <1>2 DEF OneStatePerNote, OneByOne
<1> QED
  BY <1>5, <1>6, <1>7

LEMMA StepAnswer == ASSUME AnswerInv, [Next]_vars PROVE AnswerInv'
<1>1. TableInv'
  BY StepTable DEF AnswerInv
<1>2. AnswerTypes' /\ NoteFitsEntry' /\ OneStatePerNote'
  <2>1. CASE UNCHANGED <<version, trail, reader, entries, shown, lost>> /\ listing' \in {listing, "answered"}
    BY <2>1 DEF AnswerInv, AnswerTypes, NoteFitsEntry, OneStatePerNote
  <2>2. CASE \E limit \in Limits : Page(limit)
    BY <2>1, <2>2 DEF Page, choices, answer, table
  <2>3. CASE Answer
    BY <2>1, <2>3 DEF Answer, choices, table
  <2>4. CASE UNCHANGED <<table, reading>>
    BY <2>1, <2>4 DEF table, reading, choices, answer
  <2> QED
    BY <2>2, <2>3, <2>4, Steps, WriteAnswer, ListAnswer, FetchAnswer, FetchOneAnswer
<1> QED
  BY <1>1, <1>2 DEF AnswerInv

\* Types.
THEOREM ListingTypes == Spec => []TypeOK
<1>1. WalkInv /\ AnswerInv => TypeOK
  BY DEF WalkInv, WalkTypes, AnswerInv, AnswerTypes, TableInv, TableTypes, Tx, TypeOK
<1> QED
  BY <1>1, InitWalk, StepWalk, InitAnswerInv, StepAnswer, PTL DEF Spec

\* An entry is shown with a version at least that of its change, and without a
\* note only when that is gone or its fetch failed.
THEOREM FittingNotes == Spec => []NoteFitsEntry
<1>1. AnswerInv => NoteFitsEntry
  BY DEF AnswerInv
<1> QED
  BY <1>1, InitAnswerInv, StepAnswer, PTL DEF Spec

\* The join and the batch show one state of each note.
THEOREM OneState == Spec => []OneStatePerNote
<1>1. AnswerInv => OneStatePerNote
  BY DEF AnswerInv
<1> QED
  BY <1>1, InitAnswerInv, StepAnswer, PTL DEF Spec

\* What a listing leaves out behind something older had begun before it.
THEOREM NewestByStart == Spec => NewestFirst
<1> DEFINE Omits == \A e \in entries', f \in trail \ entries' :
                      entries # entries' /\ e.note = f.note /\ e.version < f.version
                        => f.at <= e.at /\ e.until <= f.until
<1>1. ASSUME AnswerInv, [Next]_vars PROVE [Omits]_vars
  <2> SUFFICES ASSUME NEW e \in entries', NEW f \in trail \ entries', entries # entries',
                      e.note = f.note, e.version < f.version
               PROVE  f.at <= e.at /\ e.until <= f.until
    OBVIOUS
  <2>1. PICK limit \in Limits : List(limit) \/ Join(limit)
    BY <1>1, Steps DEF Page, FetchAll, FetchOne, Answer, reading, answer
  <2>2. entries' \in Newest(limit)
    BY <2>1 DEF List, Join
  <2>3. e \in trail /\ Newer(e, f)
    BY <2>2 DEF Newest
  <2>4. e.at \in Nat /\ f.at \in Nat
    BY <1>1, <2>3 DEF AnswerInv, TableInv, TableTypes, Entry
  <2> QED
    BY <1>1, <2>3, <2>4 DEF Newer, AnswerInv, TableInv, InCommitOrder
<1> QED
  BY <1>1, InitAnswerInv, StepAnswer, PTL DEF Spec, NewestFirst
=============================================================================
