-------------------------- MODULE NotesCache_proofs --------------------------
(***************************************************************************)
(* Proofs about NotesCache, for every finite set of concurrent calls, every  *)
(* set of replicas, any number of writes and any combination of faults.      *)
(***************************************************************************)
EXTENDS NotesCache, FiniteSetTheorems, TLAPS

\* The bound on writes leaves room for those in flight.
BudgetOK == version + Cardinality(Writers) <= MaxVersion

\* Nothing is newer than the row, and no Get began after a later write.
BoundsOK ==
  /\ cache <= version /\ acked <= version
  /\ \A c \in Calls : val[c] <= version /\ floor[c] <= acked

\* What a Get is about to cache or answer is current, or overlapped a commit.
HeldOK == \A c \in Calls : Holds(c) => val[c] = version \/ val[c] \in excused

\* Once a write has been answered, an older entry has an excuse even if other
\* writes are still about to invalidate it.
SinceAckOK == cache # Empty /\ cache < acked => cache \in excused

Open(c) == pc[c] \in {"change", "log", "commit"}
Changed(c) == pc[c] \in {"log", "commit"}

\* An open transaction holds the audit entry of its own write once logged.
EntryOK ==
  \A c \in Calls : /\ Open(c) => op[c] \in Ops
                   /\ pc[c] # "commit" => tx[c] = <<>>
                   /\ pc[c] = "commit" => tx[c] = <<op[c]>>

\* Only one Create has drawn the identity of the note, which has no row yet.
CreateOK ==
  /\ version > 0 => used
  /\ \A c \in Calls : Open(c) /\ op[c] = "create" => used /\ version = 0
  /\ \A c, d \in Calls : Open(c) /\ op[c] = "create" /\ Open(d) /\ op[d] = "create" => c = d

\* A transaction that has changed the row found it, and is alone.
LockOK ==
  /\ \A c \in Calls : Changed(c) /\ op[c] # "create" => Exists
  /\ \A c, d \in Calls : Changed(c) /\ Changed(d) => c = d

IInv == TypeOK /\ BudgetOK /\ BoundsOK /\ HeldOK /\ StaleHasCause /\ SinceAckOK
        /\ FreshAnswers /\ EntryOK /\ CreateOK /\ LockOK

LEMMA InitInv == Init => IInv
<1> SUFFICES ASSUME Init PROVE IInv OBVIOUS
<1>1. Writers = {}
  BY DEF Init, Writers
<1>2. BudgetOK
  BY <1>1, FS_EmptySet, MaxVersionAssumption DEF BudgetOK, Init
<1>3. TypeOK
  <2>1. <<>> \in Seq(Ops) /\ 0 \in Versions
    BY MaxVersionAssumption DEF Versions
  <2>2. RowOK
    BY <2>1 DEF Init, RowOK, Empty
  <2>3. CallsOK
    BY <2>1 DEF Init, CallsOK
  <2>4. HistoryOK
    BY <2>1 DEF Init, HistoryOK
  <2> QED
    BY <2>2, <2>3, <2>4 DEF TypeOK
<1> QED
  BY <1>2, <1>3 DEF Init, IInv, BoundsOK, HeldOK, Holds, StaleHasCause, SinceAckOK, FreshAnswers,
     EntryOK, CreateOK, LockOK, Open, Changed, Empty

LEMMA CommitInBounds ==
  ASSUME IInv, NEW c \in Calls, Commit(c)
  PROVE  version + 1 \in Versions /\ Cardinality(Writers) \in Nat \ {0}
         /\ c \in Writers
<1>1. IsFiniteSet(Writers)
  BY CallsAssumption, FS_Subset DEF Writers
<1>2. c \in Writers
  BY DEF IInv, EntryOK, Open, Commit, Writers, Ops
<1>3. Cardinality(Writers) \in Nat /\ Cardinality(Writers) # 0
  BY <1>1, <1>2, FS_CardinalityType, FS_EmptySet
<1> QED
  BY <1>2, <1>3, MaxVersionAssumption DEF IInv, BudgetOK, TypeOK, RowOK, Versions

\* The row, the entry and the flights keep their types.
LEMMA StepRow == IInv /\ [Next]_vars => RowOK'
<1> SUFFICES ASSUME IInv, [Next]_vars PROVE RowOK' OBVIOUS
<1> USE MaxVersionAssumption DEF IInv, TypeOK, RowOK, CallsOK, HistoryOK, row, calls, history, Goto, Return, Ops
<1>1. ASSUME NEW c \in Calls, NEW p \in Replicas, Get(c, p) PROVE RowOK'
  BY <1>1 DEF Get
<1>2. ASSUME NEW c \in Calls, NEW p \in Replicas, NEW o \in Ops, BeginWrite(c, p, o) PROVE RowOK'
  BY <1>2 DEF BeginWrite
<1>3. ASSUME NEW c \in Calls, Do(c) PROVE RowOK'
  <2>1. UNCHANGED <<version, gone, used, trail, cache>>
    BY <1>3 DEF Do
  <2>2. flight' \in [Replicas -> Calls \cup {NoCall}]
    BY <1>3 DEF Do
  <2> QED
    BY <2>1, <2>2
<1>4. ASSUME NEW c \in Calls, ReadRow(c) PROVE RowOK'
  BY <1>4 DEF ReadRow
<1>5. ASSUME NEW c \in Calls, QueryFails(c) PROVE RowOK'
  BY <1>5 DEF QueryFails
<1>6. ASSUME NEW c \in Calls, FlightEnds(c) PROVE RowOK'
  BY <1>6 DEF FlightEnds
<1>7. ASSUME NEW c \in Calls, Fill(c) PROVE RowOK'
  BY <1>7 DEF Fill
<1>8. ASSUME NEW c \in Calls, Change(c) PROVE RowOK'
  BY <1>8 DEF Change
<1>9. ASSUME NEW c \in Calls, Log(c) PROVE RowOK'
  BY <1>9 DEF Log
<1>10. ASSUME NEW c \in Calls, TxFails(c) PROVE RowOK'
  BY <1>10 DEF TxFails
<1>11. ASSUME NEW c \in Calls, Commit(c) PROVE RowOK'
  <2>1. version' \in Versions /\ gone' \in BOOLEAN
    BY <1>11, CommitInBounds DEF Commit
  <2>2. trail' \in Seq(Ops)
    <3>1. tx[c] \in Seq(Ops) /\ trail \in Seq(Ops) /\ trail' = trail \o tx[c]
      BY <1>11 DEF Commit
    <3> QED
      BY <3>1
  <2>3. UNCHANGED <<used, cache, flight>>
    BY <1>11 DEF Commit
  <2> QED
    BY <2>1, <2>2, <2>3
<1>12. ASSUME NEW c \in Calls, Invalidate(c) PROVE RowOK'
  BY <1>12 DEF Invalidate, Versions, Empty
<1>13. CASE Expire
  BY <1>13 DEF Expire, Versions, Empty
<1>14. ASSUME NEW p \in Replicas, Crash(p) PROVE RowOK'
  BY <1>14 DEF Crash
<1>15. CASE UNCHANGED vars
  BY <1>15 DEF vars
<1> QED
  BY <1>1, <1>2, <1>3, <1>4, <1>5, <1>6, <1>7, <1>8, <1>9, <1>10, <1>11, <1>12, <1>13, <1>14, <1>15 DEF Next

\* The calls in flight keep their types.
LEMMA StepCalls == IInv /\ [Next]_vars => CallsOK'
<1> SUFFICES ASSUME IInv, [Next]_vars PROVE CallsOK' OBVIOUS
<1> USE MaxVersionAssumption DEF IInv, TypeOK, RowOK, CallsOK, HistoryOK, row, calls, history, Goto, Return
<1>1. ASSUME NEW c \in Calls, NEW p \in Replicas, Get(c, p) PROVE CallsOK'
  <2>1. CASE UNCHANGED calls
    BY <2>1
  <2>2. CASE /\ pc' = [pc EXCEPT ![c] = "do"]
             /\ at' = [at EXCEPT ![c] = p]
             /\ floor' = [floor EXCEPT ![c] = acked]
             /\ UNCHANGED <<op, tx, val>>
    BY <2>2
  <2> QED
    BY <1>1, <2>1, <2>2 DEF Get
<1>2. ASSUME NEW c \in Calls, NEW p \in Replicas, NEW o \in Ops, BeginWrite(c, p, o) PROVE CallsOK'
  BY <1>2 DEF BeginWrite
<1>3. ASSUME NEW c \in Calls, Do(c) PROVE CallsOK'
  BY <1>3 DEF Do
<1>4. ASSUME NEW c \in Calls, ReadRow(c) PROVE CallsOK'
  BY <1>4 DEF ReadRow, Exists, Versions
<1>5. ASSUME NEW c \in Calls, QueryFails(c) PROVE CallsOK'
  BY <1>5 DEF QueryFails, Versions
<1>6. ASSUME NEW c \in Calls, FlightEnds(c) PROVE CallsOK'
  <2>1. CASE pc[c] = "read"
    BY <1>6, <2>1 DEF FlightEnds
  <2>2. CASE pc[c] = "absent"
    <3>1. Return(Sharers(c))
      BY <1>6, <2>2 DEF FlightEnds
    <3> QED
      BY <3>1 DEF Versions
  <2> QED
    BY <1>6, <2>1, <2>2 DEF FlightEnds
<1>7. ASSUME NEW c \in Calls, Fill(c) PROVE CallsOK'
  BY <1>7 DEF Fill, Versions
<1>8. ASSUME NEW c \in Calls, Change(c) PROVE CallsOK'
  <2>1. CASE Goto(c, "log")
    BY <2>1
  <2>2. CASE Return({c})
    BY <2>2 DEF Versions
  <2> QED
    BY <1>8, <2>1, <2>2 DEF Change
<1>9. ASSUME NEW c \in Calls, Log(c) PROVE CallsOK'
  <2>1. tx' \in [Calls -> Seq(Ops)]
    <3>1. tx[c] \in Seq(Ops) /\ op[c] \in Ops
      BY <1>9 DEF Log, EntryOK, Open
    <3> QED
      BY <1>9, <3>1 DEF Log
  <2>2. pc' = [pc EXCEPT ![c] = "commit"] /\ UNCHANGED <<at, op, val, floor>>
    BY <1>9 DEF Log
  <2> QED
    BY <2>1, <2>2
<1>10. ASSUME NEW c \in Calls, TxFails(c) PROVE CallsOK'
  BY <1>10 DEF TxFails, Versions
<1>11. ASSUME NEW c \in Calls, Commit(c) PROVE CallsOK'
  <2>1. version + 1 \in Versions /\ version + 1 > 0
    BY <1>11, CommitInBounds DEF Versions
  <2>2. CASE Return({c})
    BY <2>2 DEF Versions
  <2>3. CASE /\ pc' = [pc EXCEPT ![c] = "invalidate"]
             /\ val' = [val EXCEPT ![c] = version + 1]
             /\ tx' = [tx EXCEPT ![c] = <<>>]
             /\ UNCHANGED <<at, op, floor>>
    BY <2>1, <2>3
  <2> QED
    BY <1>11, <2>2, <2>3 DEF Commit
<1>12. ASSUME NEW c \in Calls, Invalidate(c) PROVE CallsOK'
  BY <1>12 DEF Invalidate, Versions
<1>13. CASE Expire
  BY <1>13 DEF Expire
<1>14. ASSUME NEW p \in Replicas, Crash(p) PROVE CallsOK'
  BY <1>14 DEF Crash, Versions
<1>15. CASE UNCHANGED vars
  BY <1>15 DEF vars
<1> QED
  BY <1>1, <1>2, <1>3, <1>4, <1>5, <1>6, <1>7, <1>8, <1>9, <1>10, <1>11, <1>12, <1>13, <1>14, <1>15 DEF Next

\* The history variables keep their types.
LEMMA StepHistory == IInv /\ [Next]_vars => HistoryOK'
<1> SUFFICES ASSUME IInv, [Next]_vars PROVE HistoryOK' OBVIOUS
<1> USE MaxVersionAssumption DEF IInv, TypeOK, RowOK, CallsOK, HistoryOK, row, calls, history, Goto, Return, Newer
<1>1. ASSUME NEW c \in Calls, NEW p \in Replicas, Get(c, p) PROVE HistoryOK'
  BY <1>1 DEF Get
<1>2. ASSUME NEW c \in Calls, NEW p \in Replicas, NEW o \in Ops, BeginWrite(c, p, o) PROVE HistoryOK'
  BY <1>2 DEF BeginWrite
<1>3. ASSUME NEW c \in Calls, Do(c) PROVE HistoryOK'
  BY <1>3 DEF Do
<1>4. ASSUME NEW c \in Calls, ReadRow(c) PROVE HistoryOK'
  BY <1>4 DEF ReadRow
<1>5. ASSUME NEW c \in Calls, QueryFails(c) PROVE HistoryOK'
  BY <1>5 DEF QueryFails
<1>6. ASSUME NEW c \in Calls, FlightEnds(c) PROVE HistoryOK'
  BY <1>6 DEF FlightEnds
<1>7. ASSUME NEW c \in Calls, Fill(c) PROVE HistoryOK'
  BY <1>7 DEF Fill
<1>8. ASSUME NEW c \in Calls, Change(c) PROVE HistoryOK'
  BY <1>8 DEF Change
<1>9. ASSUME NEW c \in Calls, Log(c) PROVE HistoryOK'
  BY <1>9 DEF Log
<1>10. ASSUME NEW c \in Calls, TxFails(c) PROVE HistoryOK'
  BY <1>10 DEF TxFails
<1>11. ASSUME NEW c \in Calls, Commit(c) PROVE HistoryOK'
  <2>1. version + 1 \in Versions
    BY <1>11, CommitInBounds
  <2>2. Overlapped \subseteq Versions /\ Cached \subseteq Versions
    BY DEF Overlapped, Cached
  <2> QED
    BY <1>11, <2>1, <2>2 DEF Commit
<1>12. ASSUME NEW c \in Calls, Invalidate(c) PROVE HistoryOK'
  BY <1>12 DEF Invalidate, Cached
<1>13. CASE Expire
  BY <1>13 DEF Expire
<1>14. ASSUME NEW p \in Replicas, Crash(p) PROVE HistoryOK'
  BY <1>14 DEF Crash, Cached
<1>15. CASE UNCHANGED vars
  BY <1>15 DEF vars
<1> QED
  BY <1>1, <1>2, <1>3, <1>4, <1>5, <1>6, <1>7, <1>8, <1>9, <1>10, <1>11, <1>12, <1>13, <1>14, <1>15 DEF Next

\* A step that adds no writer and commits nothing keeps within the bound.
LEMMA FewerWriters ==
  ASSUME IInv, Writers' \subseteq Writers, version' = version
  PROVE  BudgetOK'
<1>1. IsFiniteSet(Writers)
  BY CallsAssumption, FS_Subset DEF Writers
<1>2. Cardinality(Writers') <= Cardinality(Writers) /\ IsFiniteSet(Writers')
  BY <1>1, FS_Subset
<1>3. Cardinality(Writers) \in Nat /\ Cardinality(Writers') \in Nat
  BY <1>1, <1>2, FS_CardinalityType
<1> QED
  BY <1>2, <1>3, MaxVersionAssumption DEF IInv, BudgetOK, TypeOK, RowOK, Versions

\* The bound on writes holds.
LEMMA StepBudget == IInv /\ [Next]_vars => BudgetOK'
<1> SUFFICES ASSUME IInv, [Next]_vars PROVE BudgetOK' OBVIOUS
<1> USE MaxVersionAssumption DEF IInv, TypeOK, RowOK, CallsOK, HistoryOK, row, calls, history, Goto, Return
<1>1. ASSUME NEW c \in Calls, NEW p \in Replicas, Get(c, p) PROVE BudgetOK'
  BY <1>1, FewerWriters DEF Get, Writers
<1>2. ASSUME NEW c \in Calls, NEW p \in Replicas, NEW o \in Ops, BeginWrite(c, p, o) PROVE BudgetOK'
  <2>1. IsFiniteSet(Writers)
    BY CallsAssumption, FS_Subset DEF Writers
  <2>2. Writers' \subseteq Writers \cup {c}
    BY <1>2 DEF BeginWrite, Writers
  <2>3. IsFiniteSet(Writers \cup {c}) /\ Cardinality(Writers \cup {c}) <= Cardinality(Writers) + 1
    <3>1. IsFiniteSet(Writers \cup {c}) /\ Cardinality(Writers) \in Nat
      BY <2>1, FS_AddElement, FS_CardinalityType
    <3>2. Cardinality(Writers \cup {c}) = IF c \in Writers THEN Cardinality(Writers) ELSE Cardinality(Writers) + 1
      BY <2>1, FS_AddElement
    <3> QED
      BY <3>1, <3>2
  <2>4. IsFiniteSet(Writers') /\ Cardinality(Writers') <= Cardinality(Writers \cup {c})
    BY <2>2, <2>3, FS_Subset
  <2>5. Cardinality(Writers) \in Nat /\ Cardinality(Writers') \in Nat
        /\ Cardinality(Writers \cup {c}) \in Nat
    BY <2>1, <2>3, <2>4, FS_CardinalityType
  <2>6. version + Cardinality(Writers) < MaxVersion /\ version' = version /\ version \in Nat
    BY <1>2 DEF BeginWrite, Versions
  <2> QED
    BY <2>3, <2>4, <2>5, <2>6 DEF BudgetOK
<1>3. ASSUME NEW c \in Calls, Do(c) PROVE BudgetOK'
  BY <1>3, FewerWriters DEF Do, Writers
<1>4. ASSUME NEW c \in Calls, ReadRow(c) PROVE BudgetOK'
  BY <1>4, FewerWriters DEF ReadRow, Writers
<1>5. ASSUME NEW c \in Calls, QueryFails(c) PROVE BudgetOK'
  BY <1>5, FewerWriters DEF QueryFails, Writers
<1>6. ASSUME NEW c \in Calls, FlightEnds(c) PROVE BudgetOK'
  <2>1. CASE pc[c] = "read"
    BY <1>6, <2>1, FewerWriters DEF FlightEnds, Writers, Sharers
  <2>2. CASE pc[c] = "absent"
    <3>1. Return(Sharers(c)) /\ version' = version
      BY <1>6, <2>2 DEF FlightEnds
    <3> QED
      BY <3>1, FewerWriters DEF Writers
  <2> QED
    BY <1>6, <2>1, <2>2 DEF FlightEnds
<1>7. ASSUME NEW c \in Calls, Fill(c) PROVE BudgetOK'
  BY <1>7, FewerWriters DEF Fill, Writers
<1>8. ASSUME NEW c \in Calls, Change(c) PROVE BudgetOK'
  BY <1>8, FewerWriters DEF Change, Writers
<1>9. ASSUME NEW c \in Calls, Log(c) PROVE BudgetOK'
  BY <1>9, FewerWriters DEF Log, Writers
<1>10. ASSUME NEW c \in Calls, TxFails(c) PROVE BudgetOK'
  BY <1>10, FewerWriters DEF TxFails, Writers
<1>11. ASSUME NEW c \in Calls, Commit(c) PROVE BudgetOK'
  <2>1. Writers' \subseteq Writers \ {c}
    BY <1>11 DEF Commit, Writers
  <2>2. IsFiniteSet(Writers)
    BY CallsAssumption, FS_Subset DEF Writers
  <2>3. c \in Writers /\ Cardinality(Writers) \in Nat
    BY <1>11, CommitInBounds
  <2>4. IsFiniteSet(Writers \ {c}) /\ Cardinality(Writers \ {c}) = Cardinality(Writers) - 1
    BY <2>2, <2>3, FS_RemoveElement
  <2>5. IsFiniteSet(Writers') /\ Cardinality(Writers') <= Cardinality(Writers) - 1
    BY <2>1, <2>4, FS_Subset
  <2>6. Cardinality(Writers') \in Nat
    BY <2>5, FS_CardinalityType
  <2>7. version' = version + 1 /\ version \in Nat
    BY <1>11 DEF Commit, Versions
  <2>8. version + Cardinality(Writers) <= MaxVersion
    BY DEF BudgetOK
  <2> QED
    BY <2>3, <2>5, <2>6, <2>7, <2>8 DEF BudgetOK
<1>12. ASSUME NEW c \in Calls, Invalidate(c) PROVE BudgetOK'
  BY <1>12, FewerWriters DEF Invalidate, Writers
<1>13. CASE Expire
  BY <1>13, FewerWriters DEF Expire, Writers
<1>14. ASSUME NEW p \in Replicas, Crash(p) PROVE BudgetOK'
  BY <1>14, FewerWriters DEF Crash, Writers
<1>15. CASE UNCHANGED vars
  BY <1>15, FewerWriters DEF vars, Writers
<1> QED
  BY <1>1, <1>2, <1>3, <1>4, <1>5, <1>6, <1>7, <1>8, <1>9, <1>10, <1>11, <1>12, <1>13, <1>14, <1>15 DEF Next

\* Versions and floors that calls only keep, drop or take over stay in bounds.
LEMMA StaysBelow ==
  ASSUME BoundsOK, version \in Nat, acked \in Nat, cache' = cache, version \in Nat,
         version' = version \/ version' = version + 1,
         acked' = acked \/ acked' = version',
         \A d \in Calls : val[d] \in Nat /\ floor[d] \in Nat,
         cache \in Nat,
         \A d \in Calls : val'[d] = 0 \/ val'[d] = version' \/ \E e \in Calls : val'[d] = val[e],
         \A d \in Calls : floor'[d] = 0 \/ floor'[d] = floor[d] \/ floor'[d] = acked
  PROVE  BoundsOK'
<1>1. acked <= acked' /\ version <= version' /\ acked' <= version' /\ acked' \in Nat /\ version' \in Nat
  BY DEF BoundsOK
<1>2. ASSUME NEW d \in Calls PROVE val'[d] <= version'
  <2>1. CASE \E e \in Calls : val'[d] = val[e]
    BY <1>1, <2>1 DEF BoundsOK
  <2> QED
    BY <1>1, <2>1
<1>3. ASSUME NEW d \in Calls PROVE floor'[d] <= acked'
  <2>1. CASE floor'[d] = floor[d]
    BY <1>1, <2>1 DEF BoundsOK
  <2> QED
    BY <1>1, <2>1
<1>4. cache' <= version'
  BY <1>1 DEF BoundsOK
<1> QED
  BY <1>1, <1>2, <1>3, <1>4 DEF BoundsOK

\* A step that opens no transaction keeps what is known of Creates.
LEMMA SameCreates ==
  ASSUME CreateOK, version' = version, used' = used,
         \A d \in Calls : Open(d)' => Open(d) /\ op'[d] = op[d]
  PROVE  CreateOK'
BY DEF CreateOK

\* A step in which no transaction changes the row keeps its lock.
LEMMA SameLock ==
  ASSUME LockOK, version' = version, gone' = gone,
         \A d \in Calls : Changed(d)' => Changed(d) /\ op'[d] = op[d]
  PROVE  LockOK'
BY DEF LockOK, Exists

\* Nothing gets ahead of the row.
LEMMA StepBounds == IInv /\ [Next]_vars => BoundsOK'
<1> SUFFICES ASSUME IInv, [Next]_vars PROVE BoundsOK' OBVIOUS
<1> USE MaxVersionAssumption DEF IInv, TypeOK, RowOK, CallsOK, HistoryOK, row, calls, history, Goto, Return, BoundsOK, Versions, Newer, Empty
<1>1. ASSUME NEW c \in Calls, NEW p \in Replicas, Get(c, p) PROVE BoundsOK'
  <2>1. UNCHANGED <<version, cache, acked>>
    BY <1>1 DEF Get
  <2>2. \A d \in Calls : val'[d] = 0 \/ \E e \in Calls : val'[d] = val[e]
    BY <1>1 DEF Get
  <2>3. \A d \in Calls : floor'[d] = 0 \/ floor'[d] = floor[d] \/ floor'[d] = acked
    BY <1>1 DEF Get
  <2> QED
    BY <2>1, <2>2, <2>3, StaysBelow
<1>2. ASSUME NEW c \in Calls, NEW p \in Replicas, NEW o \in Ops, BeginWrite(c, p, o) PROVE BoundsOK'
  BY <1>2 DEF BeginWrite
<1>3. ASSUME NEW c \in Calls, Do(c) PROVE BoundsOK'
  BY <1>3 DEF Do
<1>4. ASSUME NEW c \in Calls, ReadRow(c) PROVE BoundsOK'
  BY <1>4 DEF ReadRow
<1>5. ASSUME NEW c \in Calls, QueryFails(c) PROVE BoundsOK'
  BY <1>5 DEF QueryFails
<1>6. ASSUME NEW c \in Calls, FlightEnds(c) PROVE BoundsOK'
  <2>1. UNCHANGED <<version, cache, acked>>
    BY <1>6 DEF FlightEnds
  <2>2. \A d \in Calls : val'[d] = 0 \/ \E e \in Calls : val'[d] = val[e]
    BY <1>6 DEF FlightEnds
  <2>3. \A d \in Calls : floor'[d] = 0 \/ floor'[d] = floor[d] \/ floor'[d] = acked
    BY <1>6 DEF FlightEnds
  <2> QED
    BY <2>1, <2>2, <2>3, StaysBelow
<1>7. ASSUME NEW c \in Calls, Fill(c) PROVE BoundsOK'
  BY <1>7 DEF Fill
<1>8. ASSUME NEW c \in Calls, Change(c) PROVE BoundsOK'
  <2>1. UNCHANGED <<version, cache, acked>>
    BY <1>8 DEF Change
  <2>2. \A d \in Calls : val'[d] = 0 \/ \E e \in Calls : val'[d] = val[e]
    BY <1>8 DEF Change
  <2>3. \A d \in Calls : floor'[d] = 0 \/ floor'[d] = floor[d] \/ floor'[d] = acked
    BY <1>8 DEF Change
  <2> QED
    BY <2>1, <2>2, <2>3, StaysBelow
<1>9. ASSUME NEW c \in Calls, Log(c) PROVE BoundsOK'
  BY <1>9 DEF Log
<1>10. ASSUME NEW c \in Calls, TxFails(c) PROVE BoundsOK'
  BY <1>10 DEF TxFails
<1>11. ASSUME NEW c \in Calls, Commit(c) PROVE BoundsOK'
  <2>1. version' = version + 1 /\ cache' = cache
    BY <1>11 DEF Commit
  <2>2. acked' = acked \/ acked' = version'
    BY <1>11, <2>1 DEF Commit
  <2>3. \A d \in Calls : val'[d] = 0 \/ val'[d] = version' \/ \E e \in Calls : val'[d] = val[e]
    BY <1>11, <2>1 DEF Commit
  <2>4. \A d \in Calls : floor'[d] = 0 \/ floor'[d] = floor[d] \/ floor'[d] = acked
    BY <1>11 DEF Commit
  <2> QED
    BY <2>1, <2>2, <2>3, <2>4, StaysBelow
<1>12. ASSUME NEW c \in Calls, Invalidate(c) PROVE BoundsOK'
  BY <1>12 DEF Invalidate
<1>13. CASE Expire
  BY <1>13 DEF Expire
<1>14. ASSUME NEW p \in Replicas, Crash(p) PROVE BoundsOK'
  BY <1>14 DEF Crash
<1>15. CASE UNCHANGED vars
  BY <1>15 DEF vars
<1> QED
  BY <1>1, <1>2, <1>3, <1>4, <1>5, <1>6, <1>7, <1>8, <1>9, <1>10, <1>11, <1>12, <1>13, <1>14, <1>15 DEF Next

\* What Gets hold stays current or excused.
LEMMA StepHeld == IInv /\ [Next]_vars => HeldOK'
<1> SUFFICES ASSUME IInv, [Next]_vars PROVE HeldOK' OBVIOUS
<1> USE MaxVersionAssumption DEF IInv, TypeOK, RowOK, CallsOK, HistoryOK, row, calls, history, Goto, Return, HeldOK, Holds
<1>1. ASSUME NEW c \in Calls, NEW p \in Replicas, Get(c, p) PROVE HeldOK'
  BY <1>1 DEF Get
<1>2. ASSUME NEW c \in Calls, NEW p \in Replicas, NEW o \in Ops, BeginWrite(c, p, o) PROVE HeldOK'
  BY <1>2 DEF BeginWrite
<1>3. ASSUME NEW c \in Calls, Do(c) PROVE HeldOK'
  BY <1>3 DEF Do
<1>4. ASSUME NEW c \in Calls, ReadRow(c) PROVE HeldOK'
  BY <1>4 DEF ReadRow
<1>5. ASSUME NEW c \in Calls, QueryFails(c) PROVE HeldOK'
  BY <1>5 DEF QueryFails
<1>6. ASSUME NEW c \in Calls, FlightEnds(c) PROVE HeldOK'
  BY <1>6 DEF FlightEnds, Sharers
<1>7. ASSUME NEW c \in Calls, Fill(c) PROVE HeldOK'
  BY <1>7 DEF Fill
<1>8. ASSUME NEW c \in Calls, Change(c) PROVE HeldOK'
  <2> SUFFICES ASSUME NEW d \in Calls, Holds(d)' PROVE val'[d] = version' \/ val'[d] \in excused'
    BY DEF HeldOK
  <2>1. Holds(d) /\ val'[d] = val[d] /\ UNCHANGED <<version, excused>>
    BY <1>8 DEF Change
  <2> QED
    BY <2>1
<1>9. ASSUME NEW c \in Calls, Log(c) PROVE HeldOK'
  BY <1>9 DEF Log
<1>10. ASSUME NEW c \in Calls, TxFails(c) PROVE HeldOK'
  BY <1>10 DEF TxFails
<1>11. ASSUME NEW c \in Calls, Commit(c) PROVE HeldOK'
  <2> SUFFICES ASSUME NEW d \in Calls, Holds(d)' PROVE val'[d] \in excused'
    BY DEF HeldOK
  <2>1. Holds(d) /\ val'[d] = val[d]
    BY <1>11 DEF Commit
  <2>2. excused \cup Overlapped \subseteq excused'
    BY <1>11 DEF Commit
  <2> QED
    BY <2>1, <2>2 DEF Overlapped
<1>12. ASSUME NEW c \in Calls, Invalidate(c) PROVE HeldOK'
  BY <1>12 DEF Invalidate
<1>13. CASE Expire
  BY <1>13 DEF Expire
<1>14. ASSUME NEW p \in Replicas, Crash(p) PROVE HeldOK'
  BY <1>14 DEF Crash
<1>15. CASE UNCHANGED vars
  BY <1>15 DEF vars
<1> QED
  BY <1>1, <1>2, <1>3, <1>4, <1>5, <1>6, <1>7, <1>8, <1>9, <1>10, <1>11, <1>12, <1>13, <1>14, <1>15 DEF Next

\* A stale entry keeps its cause.
LEMMA StepStale == IInv /\ [Next]_vars => StaleHasCause'
<1> SUFFICES ASSUME IInv, [Next]_vars PROVE StaleHasCause' OBVIOUS
<1> USE MaxVersionAssumption DEF IInv, TypeOK, RowOK, CallsOK, HistoryOK, row, calls, history, Goto, Return, StaleHasCause, Empty
<1>1. ASSUME NEW c \in Calls, NEW p \in Replicas, Get(c, p) PROVE StaleHasCause'
  BY <1>1 DEF Get
<1>2. ASSUME NEW c \in Calls, NEW p \in Replicas, NEW o \in Ops, BeginWrite(c, p, o) PROVE StaleHasCause'
  BY <1>2 DEF BeginWrite
<1>3. ASSUME NEW c \in Calls, Do(c) PROVE StaleHasCause'
  BY <1>3 DEF Do
<1>4. ASSUME NEW c \in Calls, ReadRow(c) PROVE StaleHasCause'
  BY <1>4 DEF ReadRow
<1>5. ASSUME NEW c \in Calls, QueryFails(c) PROVE StaleHasCause'
  BY <1>5 DEF QueryFails, Sharers
<1>6. ASSUME NEW c \in Calls, FlightEnds(c) PROVE StaleHasCause'
  <2>1. UNCHANGED <<version, cache, excused>>
    BY <1>6 DEF FlightEnds
  <2>2. ASSUME NEW d \in Calls, pc[d] = "invalidate" PROVE pc'[d] = "invalidate"
    <3>1. d \notin Sharers(c)
      BY <1>6, <2>2 DEF FlightEnds, Sharers
    <3>2. pc'[d] = pc[d]
      BY <1>6, <3>1 DEF FlightEnds
    <3> QED
      BY <2>2, <3>2
  <2> QED
    BY <2>1, <2>2
<1>7. ASSUME NEW c \in Calls, Fill(c) PROVE StaleHasCause'
  BY <1>7 DEF Fill, HeldOK, Holds
<1>8. ASSUME NEW c \in Calls, Change(c) PROVE StaleHasCause'
  BY <1>8 DEF Change
<1>9. ASSUME NEW c \in Calls, Log(c) PROVE StaleHasCause'
  BY <1>9 DEF Log
<1>10. ASSUME NEW c \in Calls, TxFails(c) PROVE StaleHasCause'
  BY <1>10 DEF TxFails
<1>11. ASSUME NEW c \in Calls, Commit(c) PROVE StaleHasCause'
  <2>1. version' = version + 1 /\ cache' = cache
    BY <1>11 DEF Commit
  <2>2. CASE pc' = [pc EXCEPT ![c] = "invalidate"]
    BY <2>2
  <2>3. CASE Cached \subseteq excused'
    BY <2>1, <2>3 DEF Cached
  <2>4. CASE op[c] = "create"
    BY <1>11, <2>1, <2>4 DEF Commit, CreateOK, Open, BoundsOK, Versions
  <2> QED
    BY <1>11, <2>2, <2>3, <2>4 DEF Commit
<1>12. ASSUME NEW c \in Calls, Invalidate(c) PROVE StaleHasCause'
  BY <1>12 DEF Invalidate, Cached
<1>13. CASE Expire
  BY <1>13 DEF Expire
<1>14. ASSUME NEW p \in Replicas, Crash(p) PROVE StaleHasCause'
  <2>1. CASE \E d \in Calls : at[d] = p /\ pc[d] = "invalidate"
    BY <1>14, <2>1 DEF Crash, Cached
  <2>2. CASE ~ \E d \in Calls : at[d] = p /\ pc[d] = "invalidate"
    BY <1>14, <2>2 DEF Crash
  <2> QED
    BY <2>1, <2>2
<1>15. CASE UNCHANGED vars
  BY <1>15 DEF vars
<1> QED
  BY <1>1, <1>2, <1>3, <1>4, <1>5, <1>6, <1>7, <1>8, <1>9, <1>10, <1>11, <1>12, <1>13, <1>14, <1>15 DEF Next

\* An entry older than an answered write is excused.
LEMMA StepSinceAck == IInv /\ [Next]_vars => SinceAckOK'
<1> SUFFICES ASSUME IInv, [Next]_vars PROVE SinceAckOK' OBVIOUS
<1> USE MaxVersionAssumption DEF IInv, TypeOK, RowOK, CallsOK, HistoryOK, row, calls, history, Goto, Return, SinceAckOK, Empty, Versions
<1>1. ASSUME NEW c \in Calls, NEW p \in Replicas, Get(c, p) PROVE SinceAckOK'
  BY <1>1 DEF Get
<1>2. ASSUME NEW c \in Calls, NEW p \in Replicas, NEW o \in Ops, BeginWrite(c, p, o) PROVE SinceAckOK'
  BY <1>2 DEF BeginWrite
<1>3. ASSUME NEW c \in Calls, Do(c) PROVE SinceAckOK'
  BY <1>3 DEF Do
<1>4. ASSUME NEW c \in Calls, ReadRow(c) PROVE SinceAckOK'
  BY <1>4 DEF ReadRow
<1>5. ASSUME NEW c \in Calls, QueryFails(c) PROVE SinceAckOK'
  BY <1>5 DEF QueryFails
<1>6. ASSUME NEW c \in Calls, FlightEnds(c) PROVE SinceAckOK'
  BY <1>6 DEF FlightEnds
<1>7. ASSUME NEW c \in Calls, Fill(c) PROVE SinceAckOK'
  BY <1>7 DEF Fill, HeldOK, Holds, BoundsOK
<1>8. ASSUME NEW c \in Calls, Change(c) PROVE SinceAckOK'
  BY <1>8 DEF Change
<1>9. ASSUME NEW c \in Calls, Log(c) PROVE SinceAckOK'
  BY <1>9 DEF Log
<1>10. ASSUME NEW c \in Calls, TxFails(c) PROVE SinceAckOK'
  BY <1>10 DEF TxFails
<1>11. ASSUME NEW c \in Calls, Commit(c) PROVE SinceAckOK'
  <2>1. CASE op[c] = "create"
    BY <1>11, <2>1 DEF Commit, CreateOK, Open, BoundsOK
  <2>2. CASE acked' = acked
    BY <1>11, <2>2 DEF Commit
  <2> QED
    BY <1>11, <2>1, <2>2 DEF Commit
<1>12. ASSUME NEW c \in Calls, Invalidate(c) PROVE SinceAckOK'
  BY <1>12 DEF Invalidate, Cached
<1>13. CASE Expire
  BY <1>13 DEF Expire
<1>14. ASSUME NEW p \in Replicas, Crash(p) PROVE SinceAckOK'
  BY <1>14 DEF Crash, Cached
<1>15. CASE UNCHANGED vars
  BY <1>15 DEF vars
<1> QED
  BY <1>1, <1>2, <1>3, <1>4, <1>5, <1>6, <1>7, <1>8, <1>9, <1>10, <1>11, <1>12, <1>13, <1>14, <1>15 DEF Next

\* Only excused versions are answered late.
LEMMA StepFresh == IInv /\ [Next]_vars => FreshAnswers'
<1> SUFFICES ASSUME IInv, [Next]_vars PROVE FreshAnswers' OBVIOUS
<1> USE MaxVersionAssumption DEF IInv, TypeOK, RowOK, CallsOK, HistoryOK, row, calls, history, Goto, Return, FreshAnswers, Versions
<1>1. ASSUME NEW c \in Calls, NEW p \in Replicas, Get(c, p) PROVE FreshAnswers'
  BY <1>1 DEF Get, SinceAckOK
<1>2. ASSUME NEW c \in Calls, NEW p \in Replicas, NEW o \in Ops, BeginWrite(c, p, o) PROVE FreshAnswers'
  BY <1>2 DEF BeginWrite
<1>3. ASSUME NEW c \in Calls, Do(c) PROVE FreshAnswers'
  BY <1>3 DEF Do
<1>4. ASSUME NEW c \in Calls, ReadRow(c) PROVE FreshAnswers'
  BY <1>4 DEF ReadRow
<1>5. ASSUME NEW c \in Calls, QueryFails(c) PROVE FreshAnswers'
  BY <1>5 DEF QueryFails
<1>6. ASSUME NEW c \in Calls, FlightEnds(c) PROVE FreshAnswers'
  <2>1. ASSUME NEW d \in Calls, val[c] < floor[d] PROVE val[c] \in excused
    <3>1. val[c] = version \/ val[c] \in excused
      BY <1>6 DEF FlightEnds, HeldOK, Holds
    <3>2. floor[d] <= acked /\ acked <= version
      BY DEF BoundsOK
    <3> QED
      BY <2>1, <3>1, <3>2
  <2>2. late' \subseteq late \cup {val[c]} /\ excused' = excused
    BY <1>6 DEF FlightEnds
  <2>3. late' # late => \E d \in Calls : val[c] < floor[d]
    BY <1>6 DEF FlightEnds, Sharers
  <2> QED
    BY <2>1, <2>2, <2>3
<1>7. ASSUME NEW c \in Calls, Fill(c) PROVE FreshAnswers'
  <2>1. val[c] < floor[c] => val[c] \in excused
    <3>1. val[c] = version \/ val[c] \in excused
      BY <1>7 DEF Fill, HeldOK, Holds
    <3>2. floor[c] <= acked /\ acked <= version
      BY DEF BoundsOK
    <3> QED
      BY <3>1, <3>2
  <2> QED
    BY <1>7, <2>1 DEF Fill
<1>8. ASSUME NEW c \in Calls, Change(c) PROVE FreshAnswers'
  BY <1>8 DEF Change
<1>9. ASSUME NEW c \in Calls, Log(c) PROVE FreshAnswers'
  BY <1>9 DEF Log
<1>10. ASSUME NEW c \in Calls, TxFails(c) PROVE FreshAnswers'
  BY <1>10 DEF TxFails
<1>11. ASSUME NEW c \in Calls, Commit(c) PROVE FreshAnswers'
  BY <1>11 DEF Commit
<1>12. ASSUME NEW c \in Calls, Invalidate(c) PROVE FreshAnswers'
  BY <1>12 DEF Invalidate
<1>13. CASE Expire
  BY <1>13 DEF Expire
<1>14. ASSUME NEW p \in Replicas, Crash(p) PROVE FreshAnswers'
  BY <1>14 DEF Crash
<1>15. CASE UNCHANGED vars
  BY <1>15 DEF vars
<1> QED
  BY <1>1, <1>2, <1>3, <1>4, <1>5, <1>6, <1>7, <1>8, <1>9, <1>10, <1>11, <1>12, <1>13, <1>14, <1>15 DEF Next

\* The audit rows of a transaction are its own.
LEMMA StepEntry == IInv /\ [Next]_vars => EntryOK'
<1> SUFFICES ASSUME IInv, [Next]_vars PROVE EntryOK' OBVIOUS
<1> USE MaxVersionAssumption DEF IInv, TypeOK, RowOK, CallsOK, HistoryOK, row, calls, history, Goto, Return, EntryOK, Open
<1>1. ASSUME NEW c \in Calls, NEW p \in Replicas, Get(c, p) PROVE EntryOK'
  BY <1>1 DEF Get
<1>2. ASSUME NEW c \in Calls, NEW p \in Replicas, NEW o \in Ops, BeginWrite(c, p, o) PROVE EntryOK'
  BY <1>2 DEF BeginWrite
<1>3. ASSUME NEW c \in Calls, Do(c) PROVE EntryOK'
  BY <1>3 DEF Do
<1>4. ASSUME NEW c \in Calls, ReadRow(c) PROVE EntryOK'
  BY <1>4 DEF ReadRow
<1>5. ASSUME NEW c \in Calls, QueryFails(c) PROVE EntryOK'
  BY <1>5 DEF QueryFails
<1>6. ASSUME NEW c \in Calls, FlightEnds(c) PROVE EntryOK'
  <2>1. CASE pc[c] = "read"
    BY <1>6, <2>1 DEF FlightEnds, Sharers
  <2>2. CASE pc[c] = "absent"
    <3>1. Return(Sharers(c))
      BY <1>6, <2>2 DEF FlightEnds
    <3> QED
      BY <3>1
  <2> QED
    BY <1>6, <2>1, <2>2 DEF FlightEnds
<1>7. ASSUME NEW c \in Calls, Fill(c) PROVE EntryOK'
  BY <1>7 DEF Fill
<1>8. ASSUME NEW c \in Calls, Change(c) PROVE EntryOK'
  BY <1>8 DEF Change
<1>9. ASSUME NEW c \in Calls, Log(c) PROVE EntryOK'
  <2>1. tx[c] = <<>> /\ pc[c] = "log" /\ op[c] \in Ops
    BY <1>9 DEF Log
  <2>2. Append(tx[c], op[c]) = <<op[c]>>
    BY <2>1
  <2>3. tx'[c] = <<op[c]>> /\ pc'[c] = "commit" /\ op' = op
    BY <1>9, <2>2 DEF Log
  <2>4. \A d \in Calls \ {c} : tx'[d] = tx[d] /\ pc'[d] = pc[d]
    BY <1>9 DEF Log
  <2> QED
    BY <2>1, <2>3, <2>4
<1>10. ASSUME NEW c \in Calls, TxFails(c) PROVE EntryOK'
  BY <1>10 DEF TxFails
<1>11. ASSUME NEW c \in Calls, Commit(c) PROVE EntryOK'
  <2>1. \A d \in Calls \ {c} : tx'[d] = tx[d] /\ pc'[d] = pc[d] /\ op'[d] = op[d]
    BY <1>11 DEF Commit
  <2>2. ~Open(c)' /\ pc'[c] # "commit"
    BY <1>11 DEF Commit
  <2> QED
    BY <1>11, <2>1, <2>2 DEF Commit
<1>12. ASSUME NEW c \in Calls, Invalidate(c) PROVE EntryOK'
  BY <1>12 DEF Invalidate
<1>13. CASE Expire
  BY <1>13 DEF Expire
<1>14. ASSUME NEW p \in Replicas, Crash(p) PROVE EntryOK'
  BY <1>14 DEF Crash
<1>15. CASE UNCHANGED vars
  BY <1>15 DEF vars
<1> QED
  BY <1>1, <1>2, <1>3, <1>4, <1>5, <1>6, <1>7, <1>8, <1>9, <1>10, <1>11, <1>12, <1>13, <1>14, <1>15 DEF Next

\* One Create per identity.
LEMMA StepCreate == IInv /\ [Next]_vars => CreateOK'
<1> SUFFICES ASSUME IInv, [Next]_vars PROVE CreateOK' OBVIOUS
<1> USE MaxVersionAssumption DEF IInv, TypeOK, RowOK, CallsOK, HistoryOK, row, calls, history, Goto, Return, CreateOK, Open, Versions
<1>1. ASSUME NEW c \in Calls, NEW p \in Replicas, Get(c, p) PROVE CreateOK'
  <2>1. \A d \in Calls : Open(d)' => Open(d) /\ op'[d] = op[d]
    BY <1>1 DEF Get
  <2>2. UNCHANGED <<version, gone, used>>
    BY <1>1 DEF Get
  <2> QED
    BY <2>1, <2>2, SameCreates
<1>2. ASSUME NEW c \in Calls, NEW p \in Replicas, NEW o \in Ops, BeginWrite(c, p, o) PROVE CreateOK'
  <2>1. \A d \in Calls \ {c} : pc'[d] = pc[d] /\ op'[d] = op[d]
    BY <1>2 DEF BeginWrite
  <2>2. op'[c] = o /\ pc'[c] = "change" /\ version' = version
    BY <1>2 DEF BeginWrite
  <2>3. o = "create" => ~used /\ used'
    BY <1>2 DEF BeginWrite
  <2>4. used => used'
    BY <1>2 DEF BeginWrite
  <2>5. ASSUME NEW d \in Calls \ {c}, Open(d)', op'[d] = "create" PROVE used /\ version = 0 /\ o # "create"
    BY <2>1, <2>3, <2>5
  <2>6. o = "create" => version = 0
    BY <2>3
  <2>7. \A d \in Calls : Open(d)' /\ op'[d] = "create" => used' /\ version' = 0
    BY <2>2, <2>3, <2>4, <2>5, <2>6
  <2>8. \A d, e \in Calls : Open(d)' /\ op'[d] = "create" /\ Open(e)' /\ op'[e] = "create" => d = e
    BY <2>1, <2>2, <2>5
  <2> QED
    BY <2>2, <2>4, <2>7, <2>8
<1>3. ASSUME NEW c \in Calls, Do(c) PROVE CreateOK'
  <2>1. \A d \in Calls : Open(d)' => Open(d) /\ op'[d] = op[d]
    BY <1>3 DEF Do
  <2>2. UNCHANGED <<version, gone, used>>
    BY <1>3 DEF Do
  <2> QED
    BY <2>1, <2>2, SameCreates
<1>4. ASSUME NEW c \in Calls, ReadRow(c) PROVE CreateOK'
  <2>1. \A d \in Calls : Open(d)' => Open(d) /\ op'[d] = op[d]
    BY <1>4 DEF ReadRow
  <2>2. UNCHANGED <<version, gone, used>>
    BY <1>4 DEF ReadRow
  <2> QED
    BY <2>1, <2>2, SameCreates
<1>5. ASSUME NEW c \in Calls, QueryFails(c) PROVE CreateOK'
  <2>1. \A d \in Calls : Open(d)' => Open(d) /\ op'[d] = op[d]
    BY <1>5 DEF QueryFails
  <2>2. UNCHANGED <<version, gone, used>>
    BY <1>5 DEF QueryFails
  <2> QED
    BY <2>1, <2>2, SameCreates
<1>6. ASSUME NEW c \in Calls, FlightEnds(c) PROVE CreateOK'
  <2>1. \A d \in Calls : Open(d)' => Open(d) /\ op'[d] = op[d]
    BY <1>6 DEF FlightEnds
  <2>2. UNCHANGED <<version, gone, used>>
    BY <1>6 DEF FlightEnds
  <2> QED
    BY <2>1, <2>2, SameCreates
<1>7. ASSUME NEW c \in Calls, Fill(c) PROVE CreateOK'
  <2>1. \A d \in Calls : Open(d)' => Open(d) /\ op'[d] = op[d]
    BY <1>7 DEF Fill
  <2>2. UNCHANGED <<version, gone, used>>
    BY <1>7 DEF Fill
  <2> QED
    BY <2>1, <2>2, SameCreates
<1>8. ASSUME NEW c \in Calls, Change(c) PROVE CreateOK'
  <2>1. \A d \in Calls : Open(d)' => Open(d) /\ op'[d] = op[d]
    BY <1>8 DEF Change
  <2>2. UNCHANGED <<version, gone, used>>
    BY <1>8 DEF Change
  <2> QED
    BY <2>1, <2>2, SameCreates
<1>9. ASSUME NEW c \in Calls, Log(c) PROVE CreateOK'
  <2>1. \A d \in Calls : Open(d)' => Open(d) /\ op'[d] = op[d]
    BY <1>9 DEF Log
  <2>2. UNCHANGED <<version, gone, used>>
    BY <1>9 DEF Log
  <2> QED
    BY <2>1, <2>2, SameCreates
<1>10. ASSUME NEW c \in Calls, TxFails(c) PROVE CreateOK'
  <2>1. \A d \in Calls : Open(d)' => Open(d) /\ op'[d] = op[d]
    BY <1>10 DEF TxFails
  <2>2. UNCHANGED <<version, gone, used>>
    BY <1>10 DEF TxFails
  <2> QED
    BY <2>1, <2>2, SameCreates
<1>11. ASSUME NEW c \in Calls, Commit(c) PROVE CreateOK'
  <2>1. \A d \in Calls \ {c} : pc'[d] = pc[d] /\ op'[d] = op[d]
    BY <1>11 DEF Commit
  <2>2. ~Open(c)' /\ Open(c) /\ used' = used /\ pc[c] = "commit" /\ version' = version + 1
    BY <1>11 DEF Commit
  <2>3. op[c] # "create" => version > 0
    BY <2>2 DEF LockOK, Changed, Exists
  <2>4. used
    BY <2>2, <2>3
  <2>5. \A d \in Calls \ {c} : Open(d) => op[d] # "create"
    BY <2>2, <2>3
  <2> QED
    BY <2>1, <2>2, <2>4, <2>5
<1>12. ASSUME NEW c \in Calls, Invalidate(c) PROVE CreateOK'
  <2>1. \A d \in Calls : Open(d)' => Open(d) /\ op'[d] = op[d]
    BY <1>12 DEF Invalidate
  <2>2. UNCHANGED <<version, gone, used>>
    BY <1>12 DEF Invalidate
  <2> QED
    BY <2>1, <2>2, SameCreates
<1>13. CASE Expire
  BY <1>13 DEF Expire
<1>14. ASSUME NEW p \in Replicas, Crash(p) PROVE CreateOK'
  <2>1. \A d \in Calls : Open(d)' => Open(d) /\ op'[d] = op[d]
    BY <1>14 DEF Crash
  <2>2. UNCHANGED <<version, gone, used>>
    BY <1>14 DEF Crash
  <2> QED
    BY <2>1, <2>2, SameCreates
<1>15. CASE UNCHANGED vars
  BY <1>15 DEF vars
<1> QED
  BY <1>1, <1>2, <1>3, <1>4, <1>5, <1>6, <1>7, <1>8, <1>9, <1>10, <1>11, <1>12, <1>13, <1>14, <1>15 DEF Next

\* The row has one writer at a time.
LEMMA StepLock == IInv /\ [Next]_vars => LockOK'
<1> SUFFICES ASSUME IInv, [Next]_vars PROVE LockOK' OBVIOUS
<1> USE MaxVersionAssumption DEF IInv, TypeOK, RowOK, CallsOK, HistoryOK, row, calls, history, Goto, Return, LockOK, Changed, Exists, Versions
<1>1. ASSUME NEW c \in Calls, NEW p \in Replicas, Get(c, p) PROVE LockOK'
  <2>1. \A d \in Calls : Changed(d)' => Changed(d) /\ op'[d] = op[d]
    BY <1>1 DEF Get
  <2>2. UNCHANGED <<version, gone, used>>
    BY <1>1 DEF Get
  <2> QED
    BY <2>1, <2>2, SameLock
<1>2. ASSUME NEW c \in Calls, NEW p \in Replicas, NEW o \in Ops, BeginWrite(c, p, o) PROVE LockOK'
  <2>1. \A d \in Calls : Changed(d)' => Changed(d) /\ op'[d] = op[d]
    BY <1>2 DEF BeginWrite
  <2>2. UNCHANGED <<version, gone>>
    BY <1>2 DEF BeginWrite
  <2> QED
    BY <2>1, <2>2, SameLock
<1>3. ASSUME NEW c \in Calls, Do(c) PROVE LockOK'
  <2>1. \A d \in Calls : Changed(d)' => Changed(d) /\ op'[d] = op[d]
    BY <1>3 DEF Do
  <2>2. UNCHANGED <<version, gone, used>>
    BY <1>3 DEF Do
  <2> QED
    BY <2>1, <2>2, SameLock
<1>4. ASSUME NEW c \in Calls, ReadRow(c) PROVE LockOK'
  <2>1. \A d \in Calls : Changed(d)' => Changed(d) /\ op'[d] = op[d]
    BY <1>4 DEF ReadRow
  <2>2. UNCHANGED <<version, gone, used>>
    BY <1>4 DEF ReadRow
  <2> QED
    BY <2>1, <2>2, SameLock
<1>5. ASSUME NEW c \in Calls, QueryFails(c) PROVE LockOK'
  <2>1. \A d \in Calls : Changed(d)' => Changed(d) /\ op'[d] = op[d]
    BY <1>5 DEF QueryFails
  <2>2. UNCHANGED <<version, gone, used>>
    BY <1>5 DEF QueryFails
  <2> QED
    BY <2>1, <2>2, SameLock
<1>6. ASSUME NEW c \in Calls, FlightEnds(c) PROVE LockOK'
  <2>1. \A d \in Calls : Changed(d)' => Changed(d) /\ op'[d] = op[d]
    BY <1>6 DEF FlightEnds
  <2>2. UNCHANGED <<version, gone, used>>
    BY <1>6 DEF FlightEnds
  <2> QED
    BY <2>1, <2>2, SameLock
<1>7. ASSUME NEW c \in Calls, Fill(c) PROVE LockOK'
  <2>1. \A d \in Calls : Changed(d)' => Changed(d) /\ op'[d] = op[d]
    BY <1>7 DEF Fill
  <2>2. UNCHANGED <<version, gone, used>>
    BY <1>7 DEF Fill
  <2> QED
    BY <2>1, <2>2, SameLock
<1>8. ASSUME NEW c \in Calls, Change(c) PROVE LockOK'
  <2>1. CASE Goto(c, "log") /\ op[c] # "create" /\ Exists /\ ~RowLocked(c)
    BY <1>8, <2>1 DEF RowLocked, Change
  <2>2. CASE Goto(c, "log") /\ op[c] = "create"
    <3>1. version = 0
      BY <1>8, <2>2 DEF Change, CreateOK, Open
    <3>2. \A d \in Calls \ {c} : ~Changed(d)
      BY <1>8, <2>2, <3>1 DEF Change, CreateOK, Open
    <3> QED
      BY <1>8, <2>2, <3>2 DEF Change
  <2>3. CASE Return({c})
    BY <1>8, <2>3 DEF Change
  <2> QED
    BY <1>8, <2>1, <2>2, <2>3 DEF Change
<1>9. ASSUME NEW c \in Calls, Log(c) PROVE LockOK'
  <2>1. \A d \in Calls : Changed(d)' => Changed(d) /\ op'[d] = op[d]
    BY <1>9 DEF Log
  <2>2. UNCHANGED <<version, gone, used>>
    BY <1>9 DEF Log
  <2> QED
    BY <2>1, <2>2, SameLock
<1>10. ASSUME NEW c \in Calls, TxFails(c) PROVE LockOK'
  <2>1. \A d \in Calls : Changed(d)' => Changed(d) /\ op'[d] = op[d]
    BY <1>10 DEF TxFails
  <2>2. UNCHANGED <<version, gone, used>>
    BY <1>10 DEF TxFails
  <2> QED
    BY <2>1, <2>2, SameLock
<1>11. ASSUME NEW c \in Calls, Commit(c) PROVE LockOK'
  <2>1. \A d \in Calls \ {c} : pc'[d] = pc[d] /\ op'[d] = op[d]
    BY <1>11 DEF Commit
  <2>2. ~Changed(c)' /\ Changed(c)
    BY <1>11 DEF Commit
  <2> QED
    BY <2>1, <2>2
<1>12. ASSUME NEW c \in Calls, Invalidate(c) PROVE LockOK'
  <2>1. \A d \in Calls : Changed(d)' => Changed(d) /\ op'[d] = op[d]
    BY <1>12 DEF Invalidate
  <2>2. UNCHANGED <<version, gone, used>>
    BY <1>12 DEF Invalidate
  <2> QED
    BY <2>1, <2>2, SameLock
<1>13. CASE Expire
  BY <1>13 DEF Expire
<1>14. ASSUME NEW p \in Replicas, Crash(p) PROVE LockOK'
  <2>1. \A d \in Calls : Changed(d)' => Changed(d) /\ op'[d] = op[d]
    BY <1>14 DEF Crash
  <2>2. UNCHANGED <<version, gone, used>>
    BY <1>14 DEF Crash
  <2> QED
    BY <2>1, <2>2, SameLock
<1>15. CASE UNCHANGED vars
  BY <1>15 DEF vars
<1> QED
  BY <1>1, <1>2, <1>3, <1>4, <1>5, <1>6, <1>7, <1>8, <1>9, <1>10, <1>11, <1>12, <1>13, <1>14, <1>15 DEF Next

LEMMA InductiveStep == IInv /\ [Next]_vars => IInv'
<1> SUFFICES ASSUME IInv, [Next]_vars PROVE IInv' OBVIOUS
<1>1. TypeOK'
  BY StepRow, StepCalls, StepHistory DEF TypeOK
<1> QED
  BY <1>1, StepBudget, StepBounds, StepHeld, StepStale, StepSinceAck, StepFresh, StepEntry, StepCreate, StepLock DEF IInv

\* The strengthened invariant holds in every reachable state.
THEOREM CacheInvariance == Spec => []IInv
BY InitInv, InductiveStep, PTL DEF Spec

\* Type correctness (TypeOK), among it that only a note that was found is on
\* its way to the cache (service.go:44-51).
THEOREM CacheTypes == Spec => []TypeOK
<1>1. IInv => TypeOK BY DEF IInv
<1> QED BY CacheInvariance, <1>1, PTL

\* Commit before DEL leaves a stale entry only in the window between the two,
\* or after an overlap or a lost invalidation (service.go:70-130).
THEOREM StaleOnlyWithCause == Spec => []StaleHasCause
<1>1. IInv => StaleHasCause BY DEF IInv
<1> QED BY CacheInvariance, <1>1, PTL

\* A Get that begins after a write was answered returns that write or a later
\* one, unless the version it returns overlapped a commit or missed its DEL
\* (service.go:34-55).
THEOREM FreshReads == Spec => []FreshAnswers
<1>1. IInv => FreshAnswers BY DEF IInv
<1> QED BY CacheInvariance, <1>1, PTL

\* A write and its audit entry are one step of the promise, whatever fails
\* between them (dbtx.go:39-57, audit/repository.go:29-47).
THEOREM TrailKept == Spec => KeepsTrail
<1> DEFINE avars == <<version, gone, trail>>
<1>1. Init => AuditPromise!Init
  BY DEF Init, AuditPromise!Init
<1>2. IInv /\ [Next]_vars => [AuditPromise!Next]_avars
  <2> SUFFICES ASSUME IInv, [Next]_vars PROVE [AuditPromise!Next]_avars OBVIOUS
  <2>1. ASSUME NEW c \in Calls, Commit(c) PROVE AuditPromise!Next
    <3>1. op[c] \in Ops /\ tx[c] = <<op[c]>>
          /\ IF op[c] = "create" THEN version = 0 ELSE version > 0 /\ ~gone
      BY <2>1 DEF Commit, IInv, EntryOK, CreateOK, LockOK, Open, Changed, Exists
    <3>2. trail' = Append(trail, op[c])
      BY <2>1, <3>1 DEF Commit, IInv, TypeOK, RowOK
    <3>3. version' = version + 1 /\ gone' = (op[c] = "delete")
      BY <2>1 DEF Commit
    <3> QED
      BY <3>1, <3>2, <3>3 DEF AuditPromise!Next, AuditPromise!Write, Ops
  <2>2. CASE UNCHANGED avars
    BY <2>2
  <2>3. UNCHANGED avars \/ \E c \in Calls : Commit(c)
    <3>1. ASSUME NEW c \in Calls, NEW p \in Replicas,
                 Get(c, p) \/ \E o \in Ops : BeginWrite(c, p, o) PROVE UNCHANGED avars
      BY <3>1 DEF Get, BeginWrite, row
    <3>2. ASSUME NEW c \in Calls,
                 Do(c) \/ ReadRow(c) \/ QueryFails(c) \/ FlightEnds(c) \/ Fill(c)
          PROVE  UNCHANGED avars
      BY <3>2 DEF Do, ReadRow, QueryFails, FlightEnds, Fill, row
    <3>3. ASSUME NEW c \in Calls, Change(c) \/ Log(c) \/ TxFails(c) \/ Invalidate(c)
          PROVE  UNCHANGED avars
      BY <3>3 DEF Change, Log, TxFails, Invalidate, row
    <3>4. CASE Expire \/ \E p \in Replicas : Crash(p)
      BY <3>4 DEF Expire, Crash, row
    <3>5. CASE UNCHANGED vars
      BY <3>5 DEF vars
    <3> HIDE DEF avars
    <3> QED
      BY <3>1, <3>2, <3>3, <3>4, <3>5 DEF Next
  <2> QED
    BY <2>1, <2>2, <2>3
<1> QED
  BY CacheInvariance, <1>1, <1>2, PTL DEF Spec, KeepsTrail, AuditPromise!Spec
=============================================================================
