-------------------------- MODULE Exercises_proofs --------------------------
(***************************************************************************)
(* Proofs about the programs that MCExercises runs, for any number of items, *)
(* goroutines, jobs, users, accounts and to-dos: a part for each, with its   *)
(* inductive invariant, and at the end what holds of them all.               *)
(***************************************************************************)
EXTENDS MCExercises, FiniteSetTheorems, SequenceTheorems, TLAPS

-----------------------------------------------------------------------------
(* Day 37, fan-out and fan-in.                                              *)

\* Types.
FanType ==
  /\ next \in 1 .. Items + 1
  /\ held \in [Squarers -> 0 .. Items] /\ relayed \in [Squarers -> 0 .. Items]
  /\ squares \subseteq Squarers /\ relays \subseteq Squarers
  /\ got \in [Values -> Nat]
  /\ nums \in BOOLEAN /\ results \in BOOLEAN /\ ranging \in BOOLEAN

\* A stage ends after the one before it, with nothing in its hands.
Order ==
  /\ ~nums => next \notin Values
  /\ \A s \in Squarers : s \notin squares => ~nums /\ held[s] = Nothing
  /\ \A s \in Squarers : s \notin relays => s \notin squares /\ relayed[s] = Nothing
  /\ ~results => relays = {}
  /\ ~ranging => ~results

\* A value that was not emitted is nowhere.
Unsent ==
  \A v \in Values : v >= next =>
    got[v] = 0 /\ \A s \in Squarers : held[s] # v /\ relayed[s] # v

\* A value that was emitted is in one place at least,
Kept ==
  \A v \in Values : v < next =>
    got[v] = 1 \/ \E s \in Squarers : held[s] = v \/ relayed[s] = v

\* and in one place at most.
Single ==
  /\ \A v \in Values : got[v] \in {0, 1}
  /\ \A s \in Squarers :
       /\ held[s] # Nothing => got[held[s]] = 0 /\ \A t \in Squarers : relayed[t] # held[s]
       /\ relayed[s] # Nothing => got[relayed[s]] = 0
  /\ \A s, t \in Squarers :
       /\ held[s] = held[t] /\ held[s] # Nothing => s = t
       /\ relayed[s] = relayed[t] /\ relayed[s] # Nothing => s = t

FanInv == FanType /\ Order /\ Unsent /\ Kept /\ Single

\* The pipeline begins with every value unsent.
LEMMA FanStart == FanInit => FanInv
BY FanInAssumption DEF FanInit, FanInv, FanType, Order, Unsent, Kept, Single, Values, Nothing

\* Every step keeps the types.
LEMMA FanTypes == FanType /\ [FanNext]_fanVars => FanType'
<1> SUFFICES ASSUME FanType, [FanNext]_fanVars PROVE FanType' OBVIOUS
<1> USE FanInAssumption DEF FanType, Values, Nothing
<1>1. ASSUME NEW s \in Squarers, Emit(s) PROVE FanType'
  BY <1>1 DEF Emit
<1>2. ASSUME NEW s \in Squarers, Square(s) PROVE FanType'
  BY <1>2 DEF Square
<1>3. ASSUME NEW s \in Squarers, SquareEnds(s) PROVE FanType'
  BY <1>3 DEF SquareEnds
<1>4. ASSUME NEW s \in Squarers, Relay(s) PROVE FanType'
  BY <1>4 DEF Relay
<1>5. ASSUME NEW s \in Squarers, RelayEnds(s) PROVE FanType'
  BY <1>5 DEF RelayEnds
<1>6. CASE EmitEnds \/ Coordinate \/ MainEnds \/ UNCHANGED fanVars
  BY <1>6 DEF EmitEnds, Coordinate, MainEnds, fanVars
<1> QED
  BY <1>1, <1>2, <1>3, <1>4, <1>5, <1>6 DEF FanNext

\* The stages end in the order of the pipeline, whoever steps.
LEMMA FanOrder == FanType /\ Order /\ [FanNext]_fanVars => Order'
<1> SUFFICES ASSUME FanType, Order, [FanNext]_fanVars PROVE Order' OBVIOUS
<1> USE FanInAssumption DEF FanType, Order, Values, Nothing
<1>1. ASSUME NEW s \in Squarers, Emit(s) PROVE Order'
  BY <1>1 DEF Emit
<1>2. ASSUME NEW s \in Squarers, Square(s) PROVE Order'
  BY <1>2 DEF Square
<1>3. ASSUME NEW s \in Squarers, SquareEnds(s) PROVE Order'
  BY <1>3 DEF SquareEnds
<1>4. ASSUME NEW s \in Squarers, Relay(s) PROVE Order'
  BY <1>4 DEF Relay
<1>5. ASSUME NEW s \in Squarers, RelayEnds(s) PROVE Order'
  BY <1>5 DEF RelayEnds
<1>6. CASE EmitEnds \/ Coordinate \/ MainEnds \/ UNCHANGED fanVars
  BY <1>6 DEF EmitEnds, Coordinate, MainEnds, fanVars
<1> QED
  BY <1>1, <1>2, <1>3, <1>4, <1>5, <1>6 DEF FanNext

\* Emit, Square and Relay move a value from one place to the next; no other step
\* moves any.
LEMMA FanValues == FanInv /\ [FanNext]_fanVars => Unsent' /\ Kept' /\ Single'
<1> SUFFICES ASSUME FanInv, [FanNext]_fanVars PROVE Unsent' /\ Kept' /\ Single' OBVIOUS
<1> USE FanInAssumption DEF FanInv, FanType, Values, Nothing
<1>1. ASSUME NEW s \in Squarers, Emit(s) PROVE Unsent' /\ Kept' /\ Single'
  <2>1. /\ next' = next + 1 /\ next \in Values /\ held[s] = 0
        /\ held' \in [Squarers -> 0 .. Items] /\ held'[s] = next
        /\ \A t \in Squarers : t # s => held'[t] = held[t]
        /\ relayed' = relayed /\ got' = got
    BY <1>1 DEF Emit
  <2>2. got[next] = 0 /\ \A t \in Squarers : held[t] # next /\ relayed[t] # next
    BY <2>1 DEF Unsent
  <2>3. Unsent'
    BY <2>1, <2>2 DEF Unsent
  <2>4. Kept'
    BY <2>1, <2>2 DEF Kept
  <2>5. Single'
    <3>1. \A v \in Values : got[v] \in {0, 1}
      BY DEF Single
    <3>2. \A t \in Squarers : held'[t] # Nothing =>
            got[held'[t]] = 0 /\ \A u \in Squarers : relayed[u] # held'[t]
      <4> SUFFICES ASSUME NEW t \in Squarers, held'[t] # Nothing
                   PROVE  got[held'[t]] = 0 /\ \A u \in Squarers : relayed[u] # held'[t]
        OBVIOUS
      <4>1. CASE t = s
        BY <2>1, <2>2, <4>1
      <4>2. CASE t # s
        BY <2>1, <4>2 DEF Single
      <4> QED
        BY <4>1, <4>2
    <3>3. \A t \in Squarers : relayed[t] # Nothing => got[relayed[t]] = 0
      BY DEF Single
    <3>4. \A t, u \in Squarers : held'[t] = held'[u] /\ held'[t] # Nothing => t = u
      <4> SUFFICES ASSUME NEW t \in Squarers, NEW u \in Squarers,
                          held'[t] = held'[u], held'[t] # Nothing
                   PROVE  t = u
        OBVIOUS
      <4>1. CASE t = s \/ u = s
        BY <2>1, <2>2, <4>1
      <4>2. CASE t # s /\ u # s
        BY <2>1, <4>2 DEF Single
      <4> QED
        BY <4>1, <4>2
    <3>5. \A t, u \in Squarers : relayed[t] = relayed[u] /\ relayed[t] # Nothing => t = u
      BY DEF Single
    <3> QED
      BY <2>1, <3>1, <3>2, <3>3, <3>4, <3>5 DEF Single
  <2> QED
    BY <2>3, <2>4, <2>5
<1>2. ASSUME NEW s \in Squarers, Square(s) PROVE Unsent' /\ Kept' /\ Single'
  <2> DEFINE v0 == held[s]
  <2>1. /\ v0 # 0 /\ relayed[s] = 0 /\ next' = next /\ got' = got
        /\ held'[s] = 0 /\ relayed'[s] = v0
        /\ \A t \in Squarers : t # s => held'[t] = held[t] /\ relayed'[t] = relayed[t]
    BY <1>2 DEF Square
  <2>2. got[v0] = 0 /\ \A t \in Squarers : relayed[t] # v0 /\ (t # s => held[t] # v0)
    BY <2>1 DEF Single
  <2>3. Unsent'
    BY <2>1 DEF Unsent
  <2>4. Kept'
    <3> SUFFICES ASSUME NEW v \in Values, v < next
                 PROVE  got[v] = 1 \/ \E t \in Squarers : held'[t] = v \/ relayed'[t] = v
      BY <2>1 DEF Kept
    <3>1. CASE got[v] = 1
      BY <3>1
    <3>2. ASSUME NEW t \in Squarers, held[t] = v \/ relayed[t] = v
          PROVE  \E u \in Squarers : held'[u] = v \/ relayed'[u] = v
      BY <2>1, <3>2
    <3> QED
      BY <3>1, <3>2 DEF Kept
  <2>5. Single'
    <3> HIDE DEF v0
    <3>1. \A t \in Squarers : held'[t] # v0
      BY <2>1, <2>2
    <3>2. \A t \in Squarers : held'[t] # Nothing => t # s /\ held'[t] = held[t]
      BY <2>1
    <3>3. \A t \in Squarers : relayed'[t] = IF t = s THEN v0 ELSE relayed[t]
      BY <2>1
    <3>4. \A t \in Squarers : held'[t] # Nothing =>
            got[held'[t]] = 0 /\ \A u \in Squarers : relayed'[u] # held'[t]
      BY <3>1, <3>2, <3>3 DEF Single
    <3>5. \A t \in Squarers : relayed'[t] # Nothing => got[relayed'[t]] = 0
      BY <2>2, <3>3 DEF Single
    <3>6. \A t, u \in Squarers : held'[t] = held'[u] /\ held'[t] # Nothing => t = u
      BY <3>2 DEF Single
    <3>7. \A t, u \in Squarers : relayed'[t] = relayed'[u] /\ relayed'[t] # Nothing => t = u
      BY <2>2, <3>3 DEF Single
    <3>8. \A v \in Values : got[v] \in {0, 1}
      BY DEF Single
    <3> QED
      BY <2>1, <3>4, <3>5, <3>6, <3>7, <3>8 DEF Single
  <2> QED
    BY <2>3, <2>4, <2>5
<1>3. ASSUME NEW s \in Squarers, Relay(s) PROVE Unsent' /\ Kept' /\ Single'
  <2> DEFINE v0 == relayed[s]
  <2>1. /\ v0 # 0 /\ v0 \in Values /\ next' = next /\ held' = held
        /\ \A t \in Squarers : relayed'[t] = IF t = s THEN 0 ELSE relayed[t]
        /\ \A v \in Values : got'[v] = IF v = v0 THEN got[v] + 1 ELSE got[v]
    BY <1>3 DEF Relay
  <2>2. got[v0] = 0 /\ \A t \in Squarers : held[t] # v0 /\ (t # s => relayed[t] # v0)
    <3>1. got[v0] = 0 /\ \A t \in Squarers : t # s => relayed[t] # v0
      BY <2>1 DEF Single
    <3>2. \A t \in Squarers : held[t] # v0
      BY <2>1 DEF Single
    <3> QED
      BY <3>1, <3>2
  <2> HIDE DEF v0
  <2>3. Unsent'
    <3>1. v0 < next
      BY <2>1, <1>3 DEF Unsent, v0
    <3> QED
      BY <2>1, <3>1 DEF Unsent
  <2>4. Kept'
    <3> SUFFICES ASSUME NEW v \in Values, v < next
                 PROVE  got'[v] = 1 \/ \E t \in Squarers : held'[t] = v \/ relayed'[t] = v
      BY <2>1 DEF Kept
    <3>1. CASE v = v0
      BY <2>1, <2>2, <3>1
    <3>2. CASE v # v0 /\ got[v] = 1
      BY <2>1, <3>2
    <3>3. ASSUME v # v0, NEW t \in Squarers, held[t] = v \/ relayed[t] = v
          PROVE  held'[t] = v \/ relayed'[t] = v
      BY <2>1, <3>3 DEF v0
    <3> QED
      BY <3>1, <3>2, <3>3 DEF Kept
  <2>5. Single'
    <3>1. \A v \in Values : got'[v] \in {0, 1}
      BY <2>1, <2>2 DEF Single
    <3>2. \A t \in Squarers : held[t] # Nothing =>
            got'[held[t]] = 0 /\ \A u \in Squarers : relayed'[u] # held[t]
      BY <2>1, <2>2 DEF Single
    <3>3. \A t \in Squarers : relayed'[t] # Nothing => got'[relayed'[t]] = 0
      BY <2>1, <2>2 DEF Single
    <3>4. \A t, u \in Squarers : held[t] = held[u] /\ held[t] # Nothing => t = u
      BY DEF Single
    <3>5. \A t, u \in Squarers : relayed'[t] = relayed'[u] /\ relayed'[t] # Nothing => t = u
      BY <2>1 DEF Single
    <3> QED
      BY <2>1, <3>1, <3>2, <3>3, <3>4, <3>5 DEF Single
  <2> QED
    BY <2>3, <2>4, <2>5
<1>4. ASSUME UNCHANGED <<next, held, relayed, got>> PROVE Unsent' /\ Kept' /\ Single'
  BY <1>4 DEF Unsent, Kept, Single
<1> QED
  BY <1>1, <1>2, <1>3, <1>4
  DEF FanNext, SquareEnds, RelayEnds, EmitEnds, Coordinate, MainEnds, fanVars

\* The invariant of the pipeline is inductive.
LEMMA FanStep == FanInv /\ [FanNext]_fanVars => FanInv'
BY FanTypes, FanOrder, FanValues DEF FanInv

LEMMA FanInvariance == FanSpec => []FanInv
BY FanStart, FanStep, PTL DEF FanSpec

\* main has left its loop only after the coordinator closed the results, and that
\* after everybody else.
LEMMA FanImplies == FanInv => NothingLeaks
BY FanInAssumption DEF FanInv, FanType, Order, NothingLeaks

\* At the start main has received nothing.
LEMMA PromiseStart == FanInit => Promise!Init
BY DEF FanInit, Promise!Init

\* A step of the pipeline is a delivery, the end of the stream, or invisible.
LEMMA PromiseStep == FanInv /\ [FanNext]_fanVars => [Promise!Next]_<<got, ~ranging>>
<1> SUFFICES ASSUME FanInv, [FanNext]_fanVars PROVE [Promise!Next]_<<got, ~ranging>> OBVIOUS
<1> USE FanInAssumption DEF FanInv, FanType, Values, Nothing
<1>1. ASSUME NEW s \in Squarers, Relay(s) PROVE Promise!Deliver(relayed[s]) /\ relayed[s] \in Values
  <2>1. relayed[s] \in Values /\ got[relayed[s]] = 0
    BY <1>1 DEF Relay, Single
  <2>2. got' = [got EXCEPT ![relayed[s]] = 1]
    BY <1>1, <2>1 DEF Relay
  <2> QED
    BY <1>1, <2>1, <2>2 DEF Relay, Promise!Deliver
<1>2. CASE MainEnds
  <2>1. ~nums /\ \A s \in Squarers : held[s] = 0 /\ relayed[s] = 0
    BY <1>2 DEF MainEnds, Order
  <2>2. \A v \in Values : v < next
    BY <2>1 DEF Order
  <2>3. \A v \in Values : got[v] = 1
    BY <2>1, <2>2 DEF Kept
  <2> QED
    BY <1>2, <2>3 DEF MainEnds, Promise!Next, Promise!End
<1>3. CASE UNCHANGED <<got, ranging>>
  BY <1>3
<1>4. \/ \E s \in Squarers : Relay(s)
      \/ MainEnds
      \/ UNCHANGED <<got, ranging>>
  BY DEF FanNext, Emit, Square, SquareEnds, RelayEnds, EmitEnds, Coordinate, fanVars
<1> QED
  BY <1>1, <1>2, <1>3, <1>4 DEF Promise!Next

\* When the loop of main ends, the generator, every worker, every relay and the
\* coordinator have ended before it.
THEOREM FanLeavesNothing == FanSpec => []NothingLeaks
BY FanInvariance, FanImplies, PTL

\* What main receives is a stream of 1 .. Items: no value is lost, none comes
\* twice, and the loop does not end before the last.
THEOREM FanDelivers == FanSpec => DeliversStream
BY PromiseStart, PromiseStep, FanInvariance, PTL DEF FanSpec, DeliversStream, Promise!Spec

-----------------------------------------------------------------------------
(* cmd/errgroup.                                                            *)

Outstanding == {"new", "started"}

\* The group has an error from the moment that anybody can be cancelled, and
\* the bad URL has not come through without.
FetchInv ==
  /\ fetching \in [Urls -> Outstanding \cup {"ok", "boom", "context canceled"}]
  /\ groupErr \in {"nil", "boom"}
  /\ cancelled => groupErr = "boom"
  /\ fetching[BadUrl] \notin Outstanding => groupErr = "boom"
  /\ waited => fetching[BadUrl] \notin Outstanding

LEMMA FetchStart == GroupsInit => FetchInv
BY GroupsAssumption DEF GroupsInit, FetchInv, Outstanding

\* Only a failure cancels, and it sets the error of the group first.
LEMMA FetchStep == FetchInv /\ [FetchNext]_fetchVars => FetchInv'
<1> SUFFICES ASSUME FetchInv, [FetchNext]_fetchVars PROVE FetchInv' OBVIOUS
<1> USE GroupsAssumption DEF FetchInv, Outstanding
<1>1. ASSUME NEW u \in Urls, GoFetch(u) PROVE FetchInv'
  BY <1>1 DEF GoFetch
<1>2. ASSUME NEW u \in Urls, Fetch(u) PROVE FetchInv'
  <2>1. CASE u = BadUrl /\ Fail(u, "boom")
    BY <1>2, <2>1 DEF Fetch, Fail
  <2>2. CASE u # BadUrl /\ fetching' = [fetching EXCEPT ![u] = "ok"]
             /\ UNCHANGED <<cancelled, groupErr, waited>>
    BY <1>2, <2>2 DEF Fetch
  <2>3. CASE cancelled /\ Fail(u, "context canceled")
    BY <1>2, <2>3 DEF Fetch, Fail
  <2> QED
    BY <1>2, <2>1, <2>2, <2>3 DEF Fetch
<1>3. CASE WaitFetches
  BY <1>3 DEF WaitFetches
<1>4. CASE UNCHANGED fetchVars
  BY <1>4 DEF fetchVars
<1> QED
  BY <1>1, <1>2, <1>3, <1>4 DEF FetchNext

-----------------------------------------------------------------------------
(* cmd/errgroup_limit.                                                      *)

Active == {k \in Jobs : job[k] \notin {"new", "over"}}
Inside == {k \in Jobs : job[k] \in {"load", "swap", "work"}}

JobTypes ==
  /\ job \in [Jobs -> {"new", "add", "load", "swap", "work", "left", "over"}]
  /\ mine \in [Jobs -> Nat] /\ old \in [Jobs -> Nat]
  /\ inflight \in Nat /\ peak \in Nat /\ highest \in Nat

\* The counter counts, and the group keeps to its limit.
Slots == inflight = Cardinality(Inside) /\ Cardinality(Active) <= Limit

\* The peak may lag behind the highest value only while a job that has seen that
\* value has still to record it.
Recorded ==
  /\ peak <= highest
  /\ \A j \in Jobs : mine[j] <= highest /\ (job[j] = "swap" => old[j] < mine[j])
  /\ peak = highest \/ \E j \in Jobs : job[j] \in {"load", "swap"} /\ mine[j] = highest

LimitInv == JobTypes /\ Slots /\ Recorded

\* The sets that are counted are finite.
LEMMA FiniteJobs ==
  /\ IsFiniteSet(Active) /\ IsFiniteSet(Inside)
  /\ IsFiniteSet(Active)' /\ IsFiniteSet(Inside)'
BY GroupsAssumption, FS_Subset DEF Active, Inside

LEMMA LimitStart == GroupsInit => LimitInv
<1> SUFFICES ASSUME GroupsInit PROVE LimitInv OBVIOUS
<1>1. Active = {} /\ Inside = {}
  BY DEF GroupsInit, Active, Inside
<1>2. Slots
  BY <1>1, FS_EmptySet, GroupsAssumption DEF Slots, GroupsInit
<1>3. JobTypes /\ Recorded
  BY DEF GroupsInit, JobTypes, Recorded
<1> QED
  BY <1>2, <1>3 DEF LimitInv

\* A job that is inside is counted.
LEMMA SomeoneInside ==
  ASSUME Slots, JobTypes, NEW j \in Jobs, job[j] = "work" PROVE inflight > 0
<1>1. j \in Inside
  BY DEF Inside
<1>2. Cardinality(Inside) \in Nat /\ Cardinality(Inside) # 0
  BY <1>1, FiniteJobs, FS_CardinalityType, FS_EmptySet
<1> QED
  BY <1>2 DEF Slots

\* The counter does not fall below zero: who leaves is counted in it.
LEMMA JobTypesStep == JobTypes /\ Slots /\ [LimitNext]_limitVars => JobTypes'
<1> SUFFICES ASSUME JobTypes, Slots, [LimitNext]_limitVars PROVE JobTypes' OBVIOUS
<1> USE DEF JobTypes, At
<1>1. ASSUME NEW j \in Jobs, GoJob(j) PROVE JobTypes'
  BY <1>1 DEF GoJob
<1>2. ASSUME NEW j \in Jobs, Enter(j) PROVE JobTypes'
  BY <1>2 DEF Enter
<1>3. ASSUME NEW j \in Jobs, LoadPeak(j) PROVE JobTypes'
  BY <1>3 DEF LoadPeak
<1>4. ASSUME NEW j \in Jobs, SwapPeak(j) PROVE JobTypes'
  <2>1. peak' \in Nat /\ UNCHANGED <<mine, old, inflight, highest>>
    BY <1>4 DEF SwapPeak
  <2>2. job' \in [Jobs -> {"new", "add", "load", "swap", "work", "left", "over"}]
    BY <1>4 DEF SwapPeak
  <2> QED
    BY <2>1, <2>2
<1>5. ASSUME NEW j \in Jobs, Leave(j) PROVE JobTypes'
  <2>1. inflight > 0
    BY <1>5, SomeoneInside DEF Leave
  <2> QED
    BY <1>5, <2>1 DEF Leave
<1>6. ASSUME NEW j \in Jobs, Release(j) PROVE JobTypes'
  BY <1>6 DEF Release
<1>7. CASE UNCHANGED limitVars
  BY <1>7 DEF limitVars
<1> QED
  BY <1>1, <1>2, <1>3, <1>4, <1>5, <1>6, <1>7 DEF LimitNext

\* A job enters and leaves the counter and its slot one at a time.
LEMMA SlotsStep == JobTypes /\ Slots /\ [LimitNext]_limitVars => Slots'
<1> SUFFICES ASSUME JobTypes, Slots, [LimitNext]_limitVars PROVE Slots' OBVIOUS
<1> USE DEF At
<1>0. /\ Limit \in Nat /\ Cardinality(Active) \in Nat /\ Cardinality(Inside) \in Nat
      /\ job \in [Jobs -> {"new", "add", "load", "swap", "work", "left", "over"}]
  BY FiniteJobs, FS_CardinalityType, GroupsAssumption DEF JobTypes
<1>1. ASSUME NEW j \in Jobs, GoJob(j) PROVE Slots'
  <2>1. Active' = Active \cup {j} /\ Inside' = Inside
    BY <1>0, <1>1 DEF GoJob, Active, Inside
  <2>2. Cardinality(Active) < Limit /\ inflight' = inflight
    BY <1>1 DEF GoJob, Active
  <2>3. Cardinality(Active \cup {j}) \in {Cardinality(Active), Cardinality(Active) + 1}
    BY FiniteJobs, FS_AddElement
  <2>4. Cardinality(Active \cup {j}) <= Limit
    BY <1>0, <2>2, <2>3
  <2> QED
    BY <2>1, <2>2, <2>4 DEF Slots
<1>2. ASSUME NEW j \in Jobs, Enter(j) PROVE Slots'
  <2>1. Active' = Active /\ Inside' = Inside \cup {j} /\ j \notin Inside
    BY <1>0, <1>2 DEF Enter, Active, Inside
  <2>2. Cardinality(Inside \cup {j}) = Cardinality(Inside) + 1
    BY <2>1, FiniteJobs, FS_AddElement
  <2> QED
    BY <1>2, <2>1, <2>2 DEF Slots, Enter
<1>3. ASSUME NEW j \in Jobs, LoadPeak(j) \/ SwapPeak(j) PROVE Slots'
  <2>1. UNCHANGED inflight /\ Active' = Active /\ Inside' = Inside
    <3>1. CASE LoadPeak(j)
      BY <1>0, <3>1 DEF LoadPeak, Active, Inside
    <3>2. CASE SwapPeak(j)
      BY <1>0, <3>2 DEF SwapPeak, Active, Inside
    <3> QED
      BY <1>3, <3>1, <3>2
  <2> QED
    BY <2>1 DEF Slots
<1>4. ASSUME NEW j \in Jobs, Leave(j) PROVE Slots'
  <2>1. Active' = Active /\ Inside' = Inside \ {j} /\ j \in Inside
    BY <1>0, <1>4 DEF Leave, Active, Inside
  <2>2. Cardinality(Inside \ {j}) = Cardinality(Inside) - 1
    BY <2>1, FiniteJobs, FS_RemoveElement
  <2> QED
    BY <1>4, <2>1, <2>2 DEF Slots, Leave
<1>5. ASSUME NEW j \in Jobs, Release(j) PROVE Slots'
  <2>1. Active' = Active \ {j} /\ Inside' = Inside /\ inflight' = inflight
    BY <1>0, <1>5 DEF Release, Active, Inside
  <2>2. Cardinality(Active \ {j}) <= Cardinality(Active)
    BY FiniteJobs, FS_Subset
  <2>3. Cardinality(Active \ {j}) \in Nat
    BY FiniteJobs, FS_Subset, FS_CardinalityType
  <2> QED
    BY <1>0, <2>1, <2>2, <2>3 DEF Slots
<1>6. CASE UNCHANGED limitVars
  BY <1>6 DEF limitVars, Slots, Active, Inside
<1> QED
  BY <1>1, <1>2, <1>3, <1>4, <1>5, <1>6 DEF LimitNext

\* The compare-and-swap records the highest value or leaves it to a job that goes
\* round again.
LEMMA RecordedStep == LimitInv /\ [LimitNext]_limitVars => Recorded'
<1> SUFFICES ASSUME LimitInv, [LimitNext]_limitVars PROVE Recorded' OBVIOUS
<1> USE DEF LimitInv, JobTypes, At
<1>1. ASSUME NEW j \in Jobs, Enter(j) PROVE Recorded'
  <2>1. /\ peak' = peak /\ old' = old /\ mine'[j] = inflight + 1 /\ job'[j] = "load"
        /\ \A k \in Jobs \ {j} : mine'[k] = mine[k] /\ job'[k] = job[k]
        /\ job[j] = "add" /\ highest' >= highest /\ highest' >= inflight + 1
        /\ highest' = highest \/ highest' = inflight + 1
    BY <1>1 DEF Enter
  <2>2. /\ highest' \in Nat /\ peak \in Nat /\ highest \in Nat /\ inflight \in Nat
        /\ \A k \in Jobs : mine[k] \in Nat
    BY JobTypesStep
  <2>3. peak' <= highest'
    BY <2>1, <2>2 DEF Recorded
  <2>4. ASSUME NEW k \in Jobs PROVE mine'[k] <= highest' /\ (job'[k] = "swap" => old'[k] < mine'[k])
    BY <2>1, <2>2 DEF Recorded
  <2>5. peak' = highest' \/ \E k \in Jobs : job'[k] \in {"load", "swap"} /\ mine'[k] = highest'
    BY <2>1 DEF Recorded
  <2> QED
    BY <2>3, <2>4, <2>5 DEF Recorded
<1>2. ASSUME NEW j \in Jobs, LoadPeak(j) PROVE Recorded'
  <2>1. /\ UNCHANGED <<peak, mine, highest>> /\ old'[j] = peak
        /\ \A k \in Jobs \ {j} : old'[k] = old[k] /\ job'[k] = job[k]
        /\ IF mine[j] <= peak THEN job'[j] = "work" ELSE job'[j] = "swap"
    BY <1>2 DEF LoadPeak
  <2>2. ASSUME NEW k \in Jobs PROVE mine[k] <= highest /\ (job'[k] = "swap" => old'[k] < mine[k])
    <3>1. CASE k = j
      BY <2>1, <3>1 DEF Recorded
    <3>2. CASE k # j
      BY <2>1, <3>2 DEF Recorded
    <3> QED
      BY <3>1, <3>2
  <2>3. peak = highest \/ \E k \in Jobs : job'[k] \in {"load", "swap"} /\ mine[k] = highest
    <3>1. CASE mine[j] <= peak
      BY <2>1, <3>1 DEF Recorded
    <3>2. CASE ~(mine[j] <= peak)
      BY <2>1, <3>2 DEF Recorded
    <3> QED
      BY <3>1, <3>2
  <2> QED
    BY <2>1, <2>2, <2>3 DEF Recorded
<1>3. ASSUME NEW j \in Jobs, SwapPeak(j) PROVE Recorded'
  <2>1. CASE peak # old[j]
    <3>1. /\ UNCHANGED <<peak, mine, old, highest>> /\ job'[j] = "load"
          /\ \A k \in Jobs \ {j} : job'[k] = job[k]
      BY <1>3, <2>1 DEF SwapPeak
    <3> QED
      BY <3>1 DEF Recorded
  <2>2. CASE peak = old[j]
    <3>1. /\ UNCHANGED <<mine, old, highest>> /\ job'[j] = "work" /\ peak' = mine[j]
          /\ \A k \in Jobs \ {j} : job'[k] = job[k] /\ job[j] = "swap"
      BY <1>3, <2>2 DEF SwapPeak
    <3>2. old[j] < mine[j] /\ mine[j] <= highest
      BY <1>3 DEF SwapPeak, Recorded
    <3>3. peak # highest
      BY <2>2, <3>2
    <3>4. peak' = highest' \/ \E k \in Jobs : job'[k] \in {"load", "swap"} /\ mine'[k] = highest'
      BY <3>1, <3>3 DEF Recorded
    <3> QED
      BY <3>1, <3>2, <3>4 DEF Recorded
  <2> QED
    BY <2>1, <2>2
<1>4. ASSUME NEW j \in Jobs, GoJob(j) \/ Leave(j) \/ Release(j) PROVE Recorded'
  <2>1. /\ UNCHANGED <<mine, old, peak, highest>>
        /\ job[j] \notin {"load", "swap"} /\ job'[j] \notin {"load", "swap"}
        /\ \A k \in Jobs \ {j} : job'[k] = job[k]
    BY <1>4 DEF GoJob, Leave, Release
  <2> QED
    BY <2>1 DEF Recorded
<1>5. CASE UNCHANGED limitVars
  BY <1>5 DEF limitVars, Recorded
<1> QED
  BY <1>1, <1>2, <1>3, <1>4, <1>5 DEF LimitNext

\* When all jobs are over none is left to record, so the peak is the highest value.
LEMMA GroupsImply == FetchInv /\ LimitInv => FirstErrorWins /\ PeakIsTrue
<1> SUFFICES ASSUME FetchInv, LimitInv PROVE FirstErrorWins /\ PeakIsTrue OBVIOUS
<1>1. FirstErrorWins
  BY DEF FetchInv, FirstErrorWins
<1>2. inflight <= Limit
  <2>1. Inside \subseteq Active
    BY DEF Inside, Active
  <2>2. /\ Cardinality(Inside) <= Cardinality(Active)
        /\ Cardinality(Inside) \in Nat /\ Cardinality(Active) \in Nat
    BY <2>1, FiniteJobs, FS_Subset, FS_CardinalityType
  <2> QED
    BY <2>2, GroupsAssumption DEF LimitInv, Slots
<1>3. JobsOver => peak = highest
  BY DEF LimitInv, Recorded, JobsOver
<1> QED
  BY <1>1, <1>2, <1>3 DEF PeakIsTrue

-----------------------------------------------------------------------------
(* Day 38, leaks.                                                           *)

\* There is nothing in the channel before the goroutine has ended.
LeaksInv ==
  /\ form \in Forms /\ buffer \in Nat
  /\ worker # "ended" => buffer = 0

LEMMA LeaksStart == LeaksInit => LeaksInv
BY DEF LeaksInit, LeaksInv

\* A send leaves a value behind only when the goroutine ends with it.
LEMMA LeaksStep == LeaksInv /\ [LeaksNext]_leakVars => LeaksInv'
<1> SUFFICES ASSUME LeaksInv, [LeaksNext]_leakVars PROVE LeaksInv' OBVIOUS
<1> USE DEF LeaksInv
<1>1. CASE Work
  BY <1>1 DEF Work
<1>2. CASE StopWork
  BY <1>2 DEF StopWork
<1>3. CASE Send
  BY <1>3 DEF Send
<1>4. CASE Receive
  <2>1. buffer' = buffer - 1 /\ buffer > 0 /\ form' = form /\ worker' = worker
    BY <1>4 DEF Receive
  <2> QED
    BY <2>1
<1>5. CASE CallerLeaves
  BY <1>5 DEF CallerLeaves
<1>6. CASE Cancel
  BY <1>6 DEF Cancel
<1>7. CASE UNCHANGED leakVars
  BY <1>7 DEF leakVars
<1> QED
  BY <1>1, <1>2, <1>3, <1>4, <1>5, <1>6, <1>7 DEF LeaksNext

\* Where the channel has room it is still empty when the goroutine sends.
LEMMA LeaksImply == LeaksInv => OnlyTheLeakingLeak
BY DEF LeaksInv, OnlyTheLeakingLeak, Leaked, Capacity

-----------------------------------------------------------------------------
(* Day 36 and 39, counters.                                                 *)

\* The increments that are still to be done.
Remaining == {r \in Goroutines \X (1 .. Each) : r[2] <= todo[r[1]]}
Owed == Cardinality(Remaining)

CountTypes ==
  /\ sync \in {"none", "mutex", "atomic"}
  /\ todo \in [Goroutines -> 0 .. Each] /\ read \in [Goroutines -> Nat]
  /\ counter \in Nat

\* Who has read has an increment to do, and under a mutex holds it and has read
\* what is still there.
Readers ==
  \A g \in Goroutines : read[g] # NotRead =>
    /\ todo[g] > 0 /\ sync # "atomic"
    /\ sync = "mutex" => mutex = g /\ read[g] = counter

\* Neither the counter nor what anybody has read is ahead of the increments that
\* were done; with synchronisation the counter is never behind.
Counting ==
  /\ counter + Owed <= Total /\ (sync # "none" => counter + Owed = Total)
  /\ \A g \in Goroutines : read[g] # NotRead => read[g] + Owed <= Total
  /\ Owed < Total => counter >= 1

CountInv == CountTypes /\ Readers /\ Counting

\* A step that takes one increment away leaves one less to be done.
LEMMA RemainingFinite ==
  ASSUME CountTypes
  PROVE  /\ IsFiniteSet(Remaining) /\ Owed \in Nat
         /\ Owed <= Total /\ Total \in Nat /\ Total >= 1
         /\ (\A g \in Goroutines : todo[g] = Each) => Owed = Total
         /\ (\A g \in Goroutines : todo[g] = 0) => Owed = 0
<1> DEFINE All == Goroutines \X (1 .. Each)
<1>1. /\ IsFiniteSet(1 .. Each) /\ Cardinality(1 .. Each) = Each /\ Each \in Nat
  BY CountersAssumption, FS_Interval
<1>2. IsFiniteSet(All) /\ Cardinality(All) = Total
  BY <1>1, CountersAssumption, FS_Product DEF Total
<1>3. Remaining \subseteq All
  BY DEF Remaining
<1> HIDE DEF All
<1>4. IsFiniteSet(Remaining) /\ Owed <= Total
  BY <1>2, <1>3, FS_Subset DEF Owed
<1>5. Owed \in Nat /\ Total \in Nat
  BY <1>2, <1>4, FS_CardinalityType DEF Owed
<1>6. Total >= 1
  <2>1. PICK g \in Goroutines : TRUE
    BY CountersAssumption
  <2>2. <<g, 1>> \in All
    BY CountersAssumption DEF All
  <2> QED
    BY <1>2, <1>5, <2>2, FS_EmptySet
<1>7. ASSUME \A g \in Goroutines : todo[g] = Each PROVE Owed = Total
  <2>1. Remaining = All
    BY <1>1, <1>7 DEF Remaining, All
  <2> QED
    BY <1>2, <2>1 DEF Owed
<1>8. ASSUME \A g \in Goroutines : todo[g] = 0 PROVE Owed = 0
  <2>1. Remaining = {}
    BY <1>1, <1>8 DEF Remaining
  <2> QED
    BY <2>1, FS_EmptySet DEF Owed
<1> QED
  BY <1>4, <1>5, <1>6, <1>7, <1>8

\* An increment of one goroutine leaves one less to be done by all.
LEMMA OneLess ==
  ASSUME CountTypes, NEW g \in Goroutines, todo[g] > 0, todo' = [todo EXCEPT ![g] = @ - 1]
  PROVE  Owed' = Owed - 1
<1> DEFINE last == <<g, todo[g]>>
<1>1. todo[g] \in 1 .. Each
  BY CountersAssumption DEF CountTypes
<1>2. last \in Remaining
  BY <1>1 DEF Remaining
<1>3. Remaining' = Remaining \ {last}
  <2>1. ASSUME NEW r \in Goroutines \X (1 .. Each)
        PROVE  r[2] <= todo'[r[1]] <=> r[2] <= todo[r[1]] /\ r # last
    <3>1. /\ r[1] \in Goroutines /\ r[2] \in Nat /\ r = <<r[1], r[2]>>
          /\ todo[r[1]] \in Nat /\ todo[g] \in Nat
      BY CountersAssumption DEF CountTypes
    <3>2. CASE r[1] = g
      BY <1>1, <3>1, <3>2 DEF CountTypes
    <3>3. CASE r[1] # g
      BY <3>1, <3>3 DEF CountTypes
    <3> QED
      BY <3>2, <3>3
  <2> QED
    BY <2>1 DEF Remaining
<1> HIDE DEF last
<1> QED
  BY <1>2, <1>3, RemainingFinite, FS_RemoveElement DEF Owed

LEMMA CountStart == CountersInit => CountInv
<1> SUFFICES ASSUME CountersInit PROVE CountInv OBVIOUS
<1>1. NotRead \in Nat
  BY CountersAssumption, FS_CardinalityType DEF NotRead
<1>2. CountTypes
  <2>1. todo \in [Goroutines -> 0 .. Each]
    <3>1. Each \in 0 .. Each
      BY CountersAssumption
    <3> QED
      BY <3>1 DEF CountersInit
  <2>2. read \in [Goroutines -> Nat]
    BY <1>1 DEF CountersInit
  <2> QED
    BY <2>1, <2>2 DEF CountersInit, CountTypes
<1>3. Readers
  BY DEF CountersInit, Readers
<1>4. Owed = Total /\ Total \in Nat
  BY <1>2, RemainingFinite DEF CountersInit
<1>5. Counting
  <2>1. counter = 0 /\ \A g \in Goroutines : read[g] = NotRead
    BY DEF CountersInit
  <2> QED
    BY <1>4, <2>1 DEF Counting
<1> QED
  BY <1>2, <1>3, <1>5 DEF CountInv

\* A store makes one increment done, and puts the counter one above what was read.
LEMMA CountStep == CountInv /\ [CountNext]_countVars => CountInv'
<1> SUFFICES ASSUME CountInv, [CountNext]_countVars PROVE CountInv' OBVIOUS
<1>0. /\ CountTypes /\ Readers /\ Counting
      /\ Owed \in Nat /\ Total \in Nat /\ NotRead = Total + 1 /\ counter \in Nat
  BY RemainingFinite DEF CountInv, CountTypes, NotRead, Total
<1> HIDE DEF NotRead, Total
<1>1. ASSUME NEW g \in Goroutines, Lock(g) PROVE CountInv'
  <2>1. CountTypes'
    BY <1>0, <1>1 DEF CountTypes, Lock
  <2>2. Readers'
    BY <1>0, <1>1, CountersAssumption DEF Readers, Lock
  <2>3. Counting'
    BY <1>0, <1>1 DEF Counting, Lock, Owed, Remaining
  <2> QED
    BY <2>1, <2>2, <2>3 DEF CountInv
<1>2. ASSUME NEW g \in Goroutines, Load(g) PROVE CountInv'
  <2>1. /\ read' = [read EXCEPT ![g] = counter] /\ UNCHANGED <<sync, todo, counter, mutex>>
        /\ todo[g] > 0 /\ (sync = "none" \/ (sync = "mutex" /\ mutex = g))
    BY <1>2 DEF Load, MayRead
  <2>2. CountTypes'
    BY <1>0, <2>1 DEF CountTypes
  <2>3. Readers'
    BY <1>0, <2>1 DEF Readers, CountTypes
  <2>4. Owed' = Owed
    BY <2>1 DEF Owed, Remaining
  <2>5. Counting'
    BY <1>0, <2>1, <2>4 DEF Counting, CountTypes
  <2> QED
    BY <2>2, <2>3, <2>5 DEF CountInv
<1>3. ASSUME NEW g \in Goroutines, Store(g) PROVE CountInv'
  <2>1. /\ read[g] # NotRead /\ counter' = read[g] + 1
        /\ read' = [read EXCEPT ![g] = NotRead] /\ todo' = [todo EXCEPT ![g] = @ - 1]
        /\ mutex' = IF mutex = g THEN NoOne ELSE mutex
        /\ sync' = sync /\ todo[g] > 0
    BY <1>0, <1>3 DEF Store, Readers
  <2>2. Owed' = Owed - 1
    BY <1>0, <2>1, OneLess
  <2>3. CountTypes'
    <3>1. read' \in [Goroutines -> Nat] /\ counter' \in Nat
      BY <1>0, <2>1 DEF CountTypes
    <3>2. todo' \in [Goroutines -> 0 .. Each]
      BY <1>0, <2>1, CountersAssumption DEF CountTypes
    <3> QED
      BY <1>0, <2>1, <3>1, <3>2 DEF CountTypes
  <2>4. Readers'
    <3> SUFFICES ASSUME NEW h \in Goroutines, read'[h] # NotRead
                 PROVE  /\ todo'[h] > 0 /\ sync' # "atomic"
                        /\ sync' = "mutex" => mutex' = h /\ read'[h] = counter'
      BY DEF Readers
    <3>1. h # g /\ read'[h] = read[h] /\ todo'[h] = todo[h]
      BY <1>0, <2>1 DEF CountTypes
    <3> QED
      BY <1>0, <2>1, <3>1 DEF Readers
  <2>5. Counting'
    <3>1. read[g] \in Nat /\ read[g] + Owed <= Total /\ (sync # "none" => read[g] = counter)
      BY <1>0, <2>1 DEF Counting, CountTypes, Readers
    <3>2. \A h \in Goroutines : read'[h] # NotRead => read'[h] = read[h] /\ read[h] # NotRead
      BY <1>0, <2>1 DEF CountTypes
    <3>3. \A h \in Goroutines : read[h] \in Nat
      BY <1>0 DEF CountTypes
    <3>4. \A h \in Goroutines : read'[h] # NotRead => read'[h] + Owed' <= Total
      BY <1>0, <2>2, <3>2, <3>3 DEF Counting
    <3>5. counter' + Owed' <= Total /\ counter' >= 1
      BY <1>0, <2>1, <2>2, <3>1
    <3>6. sync' # "none" => counter' + Owed' = Total
      BY <1>0, <2>1, <2>2, <3>1 DEF Counting
    <3> QED
      BY <3>4, <3>5, <3>6 DEF Counting
  <2> QED
    BY <2>3, <2>4, <2>5 DEF CountInv
<1>4. ASSUME NEW g \in Goroutines, Add(g) PROVE CountInv'
  <2>1. /\ sync = "atomic" /\ todo[g] > 0 /\ counter' = counter + 1
        /\ todo' = [todo EXCEPT ![g] = @ - 1] /\ UNCHANGED <<sync, read, mutex>>
    BY <1>4 DEF Add
  <2>2. Owed' = Owed - 1
    BY <1>0, <2>1, OneLess
  <2>3. \A h \in Goroutines : read[h] = NotRead
    BY <1>0, <2>1 DEF Readers
  <2>4. CountTypes'
    <3>1. todo' \in [Goroutines -> 0 .. Each]
      BY <1>0, <2>1, CountersAssumption DEF CountTypes
    <3> QED
      BY <1>0, <2>1, <3>1 DEF CountTypes
  <2>5. Readers' 
    BY <2>1, <2>3 DEF Readers
  <2>6. Counting'
    BY <1>0, <2>1, <2>2, <2>3 DEF Counting
  <2> QED
    BY <2>4, <2>5, <2>6 DEF CountInv
<1>5. CASE UNCHANGED countVars
  BY <1>5 DEF countVars, CountInv, CountTypes, Readers, Counting, Owed, Remaining
<1> QED
  BY <1>1, <1>2, <1>3, <1>4, <1>5 DEF CountNext

\* When nothing is left to be done, the safe counters are at the total.
LEMMA CountImplies == CountInv => CountIsRight
<1> SUFFICES ASSUME CountInv, Counted
             PROVE  IF sync = "none" THEN counter \in 1 .. Total ELSE counter = Total
  BY DEF CountIsRight
<1>1. Owed = 0 /\ Total \in Nat /\ Total >= 1 /\ counter \in Nat
  BY RemainingFinite DEF Counted, CountInv, CountTypes
<1> QED
  BY <1>1 DEF CountInv, Counting

-----------------------------------------------------------------------------
(* Day 36, sync.Once.                                                       *)

\* initExpensive ran once as soon as anybody entered Do, one goroutine at most is
\* in it, and the value is there when Do is done.
OnceInv ==
  /\ once \in {"new", "running", "done"}
  /\ getting \in [Goroutines -> {"new", "initialising", "singleton"}]
  /\ once = "new" => initCt = 0
  /\ once # "new" => initCt = 1
  /\ once = "done" => value = "singleton"
  /\ \A g \in Goroutines : getting[g] = "initialising" =>
       once = "running" /\ \A h \in Goroutines : getting[h] = "initialising" => h = g

LEMMA OnceStart == CountersInit => OnceInv
BY DEF CountersInit, OnceInv

\* Do lets one goroutine through.
LEMMA OnceStep == OnceInv /\ [OnceNext]_onceVars => OnceInv'
<1> SUFFICES ASSUME OnceInv, [OnceNext]_onceVars PROVE OnceInv' OBVIOUS
<1> USE DEF OnceInv
<1>1. ASSUME NEW g \in Goroutines, DoFirst(g) PROVE OnceInv'
  BY <1>1 DEF DoFirst
<1>2. ASSUME NEW g \in Goroutines, Initialised(g) PROVE OnceInv'
  BY <1>2 DEF Initialised
<1>3. ASSUME NEW g \in Goroutines, DoLate(g) PROVE OnceInv'
  BY <1>3 DEF DoLate
<1>4. CASE UNCHANGED onceVars
  BY <1>4 DEF onceVars
<1> QED
  BY <1>1, <1>2, <1>3, <1>4 DEF OnceNext

LEMMA OnceImplies == OnceInv => OnceIsRight
<1> SUFFICES ASSUME OnceInv PROVE OnceIsRight OBVIOUS
<1>1. initCt <= 1
  BY DEF OnceInv
<1>2. ASSUME NEW g \in Goroutines PROVE getting[g] # ""
  BY DEF OnceInv
<1> QED
  BY <1>1, <1>2 DEF OnceIsRight

-----------------------------------------------------------------------------
(* Day 37, the pool of workers.                                             *)

\* A job that was offered is with one worker, or was processed once.
PoolInv ==
  /\ offered \in 1 .. PoolJobs + 1
  /\ does \in [Workers -> 0 .. PoolJobs + 1] /\ processed \in [1 .. PoolJobs -> {0, 1}]
  /\ \A w \in Workers : does[w] \in 1 .. PoolJobs =>
       /\ does[w] < offered /\ processed[does[w]] = 0
       /\ \A v \in Workers : does[v] = does[w] => v = w
  /\ \A j \in 1 .. PoolJobs :
       /\ processed[j] = 1 => j < offered
       /\ processed[j] = 0 /\ j < offered => \E w \in Workers : does[w] = j
  /\ closed => offered > PoolJobs
  /\ dismantled => offered > PoolJobs /\ \A w \in Workers : does[w] = Gone

LEMMA PoolStart == BoundedInit => PoolInv
BY BoundedAssumption DEF BoundedInit, PoolInv, Idle

\* A job goes from main to one worker, and from it to the results, once.
LEMMA PoolStep == PoolInv /\ [PoolNext]_poolVars => PoolInv'
<1> SUFFICES ASSUME PoolInv, [PoolNext]_poolVars PROVE PoolInv' OBVIOUS
<1> USE BoundedAssumption DEF PoolInv, Idle, Gone
<1>1. ASSUME NEW w \in Workers, Offer(w) PROVE PoolInv'
  <2>1. /\ offered \in 1 .. PoolJobs /\ offered' = offered + 1 /\ does[w] = 0 /\ does'[w] = offered
        /\ \A v \in Workers \ {w} : does'[v] = does[v]
        /\ does' \in [Workers -> 0 .. PoolJobs + 1]
        /\ UNCHANGED <<closed, processed, dismantled>>
    BY <1>1 DEF Offer
  <2>2. ~closed /\ ~dismantled
    BY <2>1
  <2>3. \A v \in Workers : does[v] # offered
    BY <2>1
  <2>4. processed[offered] = 0
    BY <2>1
  <2>5. ASSUME NEW v \in Workers, does'[v] \in 1 .. PoolJobs
        PROVE  /\ does'[v] < offered' /\ processed[does'[v]] = 0
               /\ \A u \in Workers : does'[u] = does'[v] => u = v
    <3>1. CASE v = w
      BY <2>1, <2>3, <2>4, <3>1
    <3>2. CASE v # w
      BY <2>1, <2>3, <2>5, <3>2
    <3> QED
      BY <3>1, <3>2
  <2>6. ASSUME NEW j \in 1 .. PoolJobs
        PROVE  /\ processed[j] = 1 => j < offered'
               /\ processed[j] = 0 /\ j < offered' => \E v \in Workers : does'[v] = j
    <3>1. CASE j = offered
      BY <2>1, <2>4, <3>1
    <3>2. CASE j # offered
      BY <2>1, <3>2
    <3> QED
      BY <3>1, <3>2
  <2> QED
    BY <2>1, <2>2, <2>5, <2>6
<1>2. ASSUME NEW w \in Workers, Process(w) PROVE PoolInv'
  <2> DEFINE j0 == does[w]
  <2>1. /\ j0 \in 1 .. PoolJobs /\ does'[w] = 0
        /\ \A v \in Workers \ {w} : does'[v] = does[v]
        /\ does' \in [Workers -> 0 .. PoolJobs + 1]
        /\ UNCHANGED <<offered, closed, dismantled>>
    BY <1>2 DEF Process
  <2>2. j0 < offered /\ processed[j0] = 0 /\ \A v \in Workers : does[v] = j0 => v = w
    BY <2>1
  <2>3. /\ processed' \in [1 .. PoolJobs -> {0, 1}] /\ processed'[j0] = 1
        /\ \A j \in (1 .. PoolJobs) \ {j0} : processed'[j] = processed[j]
    BY <1>2, <2>1, <2>2 DEF Process
  <2>4. ~dismantled
    BY <2>1
  <2> HIDE DEF j0
  <2>5. ASSUME NEW v \in Workers, does'[v] \in 1 .. PoolJobs
        PROVE  /\ does'[v] < offered' /\ processed'[does'[v]] = 0
               /\ \A u \in Workers : does'[u] = does'[v] => u = v
    <3>1. v # w /\ does'[v] = does[v] /\ does[v] # j0
      BY <2>1, <2>2, <2>5
    <3>2. \A u \in Workers : does'[u] = does'[v] => u # w
      BY <2>1, <2>5
    <3> QED
      BY <2>1, <2>3, <2>5, <3>1, <3>2
  <2>6. ASSUME NEW j \in 1 .. PoolJobs
        PROVE  /\ processed'[j] = 1 => j < offered'
               /\ processed'[j] = 0 /\ j < offered' => \E v \in Workers : does'[v] = j
    <3>1. CASE j = j0
      BY <2>1, <2>2, <2>3, <3>1
    <3>2. CASE j # j0
      <4>1. \A v \in Workers : does[v] = j => does'[v] = j
        BY <2>1, <3>2 DEF j0
      <4> QED
        BY <2>1, <2>3, <3>2, <4>1
    <3> QED
      BY <3>1, <3>2
  <2> QED
    BY <2>1, <2>3, <2>4, <2>5, <2>6
<1>3. ASSUME NEW w \in Workers, WorkerExits(w) PROVE PoolInv'
  <2>1. /\ does[w] = 0 /\ does'[w] = PoolJobs + 1 /\ closed
        /\ \A v \in Workers \ {w} : does'[v] = does[v]
        /\ does' \in [Workers -> 0 .. PoolJobs + 1]
        /\ UNCHANGED <<offered, closed, processed, dismantled>>
    BY <1>3 DEF WorkerExits
  <2>2. \A v \in Workers : does'[v] \in 1 .. PoolJobs => v # w
    BY <2>1
  <2>3. \A v \in Workers, j \in 1 .. PoolJobs : does'[v] = j <=> does[v] = j
    BY <2>1
  <2>4. ~dismantled
    BY <2>1
  <2> QED
    BY <2>1, <2>2, <2>3, <2>4
<1>4. CASE CloseJobs
  BY <1>4 DEF CloseJobs
<1>5. CASE WaitWorkers
  BY <1>5 DEF WaitWorkers
<1>6. CASE UNCHANGED poolVars
  BY <1>6 DEF poolVars
<1> QED
  BY <1>1, <1>2, <1>3, <1>4, <1>5, <1>6 DEF PoolNext

\* When the workers are gone no job is with any of them, so each was processed.
LEMMA PoolImplies == PoolInv => PoolIsDone
BY BoundedAssumption DEF PoolInv, PoolIsDone, Gone

-----------------------------------------------------------------------------
(* Day 37, the weighted semaphore.                                          *)

Indexes == 1 .. Len(Costs)
Holders == {i \in Indexes : at[i] \in {"held", "works", "left"}}
Working == {i \in Indexes : at[i] = "works"}

\* The tokens that job i needs, and those that are out.
TokensOf(i) == {i} \X (1 .. Costs[i])
Spent == {t \in Indexes \X (1 .. Budget) : t[1] \in Holders /\ t[2] <= Costs[t[1]]}

SemTypes ==
  /\ asking \in Nat \ {0} /\ tokens \in Nat /\ running \in Nat
  /\ at \in [Indexes -> {"new", "held", "works", "left", "done"}]
  /\ saw \in [Indexes -> Nat]

\* Every token is with the semaphore or with one job, and each job that holds
\* any has all that it needs.
Ledger ==
  /\ tokens + Cardinality(Spent) = Budget
  /\ \A i \in Holders : Costs[i] <= Budget

\* The counter counts the jobs between Start and Finish, and a job of the whole
\* budget saw no other.
Alone ==
  /\ running = Cardinality(Working)
  /\ \A i \in Indexes : Costs[i] = Budget => saw[i] <= 1

SemInv == SemTypes /\ Ledger /\ Alone

LEMMA CostsAreNumbers == \A i \in Indexes : Costs[i] \in Nat /\ Costs[i] >= 1
BY BoundedAssumption DEF Indexes

\* The sets that are counted are finite.
LEMMA FiniteSpent ==
  /\ IsFiniteSet(Spent) /\ IsFiniteSet(Spent)' /\ IsFiniteSet(Working)
  /\ Cardinality(Spent) \in Nat /\ Cardinality(Spent)' \in Nat /\ Cardinality(Working) \in Nat
<1>1. Len(Costs) \in Nat
  BY BoundedAssumption
<1>2. IsFiniteSet(Indexes) /\ IsFiniteSet(1 .. Budget)
  BY <1>1, BoundedAssumption, FS_Interval DEF Indexes
<1>3. IsFiniteSet(Indexes \X (1 .. Budget))
  BY <1>2, FS_Product
<1>4. /\ Spent \subseteq Indexes \X (1 .. Budget) /\ Spent' \subseteq Indexes \X (1 .. Budget)
      /\ Working \subseteq Indexes
  BY DEF Spent, Working
<1>5. IsFiniteSet(Spent) /\ IsFiniteSet(Spent)' /\ IsFiniteSet(Working)
  BY <1>2, <1>3, <1>4, FS_Subset
<1> QED
  BY <1>5, FS_CardinalityType

\* The tokens of a job, none of which is in the set, add its cost to the size.
LEMMA MoreTokens ==
  ASSUME NEW A, IsFiniteSet(A), NEW i \in Indexes, A \cap TokensOf(i) = {}
  PROVE  Cardinality(A \cup TokensOf(i)) = Cardinality(A) + Costs[i]
<1> DEFINE n == Costs[i]
           T == TokensOf(i)
<1>0. n \in Nat /\ n >= 1
  BY CostsAreNumbers
<1> HIDE DEF n
<1>1. IsFiniteSet(1 .. n) /\ Cardinality(1 .. n) = n
  BY <1>0, FS_Interval
<1>2. IsFiniteSet({i}) /\ Cardinality({i}) = 1
  BY FS_Singleton
<1>3. IsFiniteSet(T) /\ Cardinality(T) = n
  <2> DEFINE one == {i}
             all == 1 .. n
  <2>1. IsFiniteSet(one) /\ IsFiniteSet(all) /\ Cardinality(one) = 1 /\ Cardinality(all) = n
    BY <1>1, <1>2
  <2> HIDE DEF one, all
  <2>2. IsFiniteSet(one \X all) /\ Cardinality(one \X all) = Cardinality(one) * Cardinality(all)
    BY <2>1, FS_Product
  <2>3. Cardinality(one \X all) = n
    BY <1>0, <2>1, <2>2
  <2> QED
    BY <2>2, <2>3 DEF TokensOf, n, one, all
<1>4. A \cap T = {}
  OBVIOUS
<1> HIDE DEF T
<1>5. Cardinality(A \cup T) = Cardinality(A) + Cardinality(T) - Cardinality(A \cap T)
  BY <1>3, FS_Union
<1>6. Cardinality(A) \in Nat /\ Cardinality(A \cap T) = 0
  BY <1>4, FS_CardinalityType, FS_EmptySet
<1> QED
  BY <1>0, <1>3, <1>5, <1>6 DEF n, T

\* What a step that changes the place of one job does to the tokens that are out.
LEMMA SpentMoves ==
  ASSUME SemTypes, NEW i \in Indexes, Costs[i] <= Budget,
         at' \in [Indexes -> {"new", "held", "works", "left", "done"}],
         \A j \in Indexes \ {i} : at'[j] = at[j]
  PROVE  /\ i \notin Holders /\ i \in Holders' => Cardinality(Spent)' = Cardinality(Spent) + Costs[i]
         /\ i \in Holders /\ i \notin Holders' => Cardinality(Spent) = Cardinality(Spent)' + Costs[i]
         /\ (i \in Holders <=> i \in Holders') => Cardinality(Spent)' = Cardinality(Spent)
<1>1. ASSUME NEW t \in Indexes \X (1 .. Budget)
      PROVE  /\ t \in TokensOf(i) <=> t[1] = i /\ t[2] <= Costs[i]
             /\ t[1] # i => (t \in Spent <=> t \in Spent')
             /\ t[1] = i => (t \in Spent <=> i \in Holders /\ t \in TokensOf(i))
             /\ t[1] = i => (t \in Spent' <=> i \in Holders' /\ t \in TokensOf(i))
  <2>1. t[1] \in Indexes /\ t[2] \in 1 .. Budget /\ t = <<t[1], t[2]>>
    OBVIOUS
  <2>2. t \in TokensOf(i) <=> t[1] = i /\ t[2] <= Costs[i]
    BY <2>1, BoundedAssumption, CostsAreNumbers DEF TokensOf
  <2>3. t[1] # i => (t[1] \in Holders <=> t[1] \in Holders')
    BY <2>1 DEF Holders
  <2> QED
    BY <2>1, <2>2, <2>3 DEF Spent
<1>2. TokensOf(i) \subseteq Indexes \X (1 .. Budget)
  BY BoundedAssumption, CostsAreNumbers DEF TokensOf
<1>3. Spent \subseteq Indexes \X (1 .. Budget) /\ Spent' \subseteq Indexes \X (1 .. Budget)
  BY DEF Spent
<1>4. ASSUME i \notin Holders, i \in Holders' PROVE Cardinality(Spent)' = Cardinality(Spent) + Costs[i]
  <2>1. Spent' = Spent \cup TokensOf(i) /\ Spent \cap TokensOf(i) = {}
    BY <1>1, <1>2, <1>3, <1>4
  <2> QED
    BY <2>1, MoreTokens, FiniteSpent
<1>5. ASSUME i \in Holders, i \notin Holders' PROVE Cardinality(Spent) = Cardinality(Spent)' + Costs[i]
  <2>1. Spent = Spent' \cup TokensOf(i) /\ Spent' \cap TokensOf(i) = {}
    BY <1>1, <1>2, <1>3, <1>5
  <2> QED
    BY <2>1, MoreTokens, FiniteSpent
<1>6. ASSUME i \in Holders <=> i \in Holders' PROVE Cardinality(Spent)' = Cardinality(Spent)
  <2>1. Spent' = Spent
    BY <1>1, <1>2, <1>3, <1>6
  <2> QED
    BY <2>1
<1> QED
  BY <1>4, <1>5, <1>6

LEMMA SemStart == BoundedInit => SemInv
<1> SUFFICES ASSUME BoundedInit PROVE SemInv OBVIOUS
<1>1. SemTypes
  BY BoundedAssumption DEF BoundedInit, SemTypes, Indexes
<1>2. Holders = {} /\ Spent = {} /\ Working = {}
  BY DEF BoundedInit, Holders, Spent, Working, Indexes
<1>3. Ledger
  BY <1>2, FS_EmptySet, BoundedAssumption DEF BoundedInit, Ledger
<1>4. Alone
  BY <1>2, FS_EmptySet DEF BoundedInit, Alone, Indexes
<1> QED
  BY <1>1, <1>3, <1>4 DEF SemInv

\* While a job that needs the whole budget holds it, no other job holds anything.
LEMMA HugeHoldsAll ==
  ASSUME SemTypes, Ledger, NEW i \in Holders, Costs[i] = Budget, NEW j \in Holders
  PROVE  j = i
<1> SUFFICES ASSUME j # i PROVE FALSE OBVIOUS
<1>1. i \in Indexes /\ j \in Indexes
  BY DEF Holders
<1>2. TokensOf(i) \subseteq Spent
  BY <1>1, BoundedAssumption, CostsAreNumbers DEF TokensOf, Spent
<1>3. <<j, 1>> \in Spent \ TokensOf(i)
  BY <1>1, BoundedAssumption, CostsAreNumbers DEF TokensOf, Spent, Ledger
<1>4. Cardinality({} \cup TokensOf(i)) = Budget
  BY <1>1, MoreTokens, FS_EmptySet, BoundedAssumption
<1>5. Cardinality(TokensOf(i)) = Budget /\ {} \cup TokensOf(i) = TokensOf(i)
  BY <1>4
<1>6. Cardinality(Spent) >= Budget /\ Cardinality(Spent) # Budget
  BY <1>2, <1>3, <1>5, FS_Subset, FiniteSpent
<1> QED
  BY <1>6, FiniteSpent, BoundedAssumption DEF Ledger, SemTypes

\* Tokens are only taken when there are enough, so two holders share the budget.
LEMMA SemStep == SemInv /\ [SemNext]_semVars => SemInv'
<1> SUFFICES ASSUME SemInv, [SemNext]_semVars PROVE SemInv' OBVIOUS
<1>0. SemTypes /\ Ledger /\ Alone /\ Budget \in Nat
  BY BoundedAssumption DEF SemInv
<1>1. CASE Acquire
  <2>1. /\ asking \in Indexes /\ Costs[asking] <= tokens /\ tokens' = tokens - Costs[asking]
        /\ at[asking] = "new" /\ at' = [at EXCEPT ![asking] = "held"] /\ asking' = asking + 1
        /\ UNCHANGED <<running, saw>>
    BY <1>0, <1>1, BoundedAssumption DEF Acquire, Goes, SemTypes, Indexes
  <2>2. Costs[asking] \in Nat /\ Costs[asking] <= Budget
    BY <1>0, <2>1, CostsAreNumbers, FiniteSpent DEF Ledger, SemTypes
  <2>3. SemTypes'
    BY <1>0, <2>1, <2>2 DEF SemTypes
  <2>4. asking \notin Holders /\ Holders' = Holders \cup {asking} /\ Working' = Working
    BY <1>0, <2>1 DEF SemTypes, Holders, Working
  <2>5. Cardinality(Spent)' = Cardinality(Spent) + Costs[asking]
    BY <1>0, <2>1, <2>2, <2>3, <2>4, SpentMoves DEF SemTypes
  <2>6. Ledger'
    BY <1>0, <2>1, <2>2, <2>4, <2>5, FiniteSpent DEF Ledger, SemTypes
  <2>7. Alone'
    BY <1>0, <2>1, <2>4 DEF Alone
  <2> QED
    BY <2>3, <2>6, <2>7 DEF SemInv
<1>2. ASSUME NEW i \in Indexes, Start(i) PROVE SemInv'
  <2>1. /\ at[i] = "held" /\ at' = [at EXCEPT ![i] = "works"] /\ running' = running + 1
        /\ saw' = [saw EXCEPT ![i] = running + 1] /\ UNCHANGED <<asking, tokens>>
    BY <1>2 DEF Start, Goes
  <2>2. SemTypes'
    BY <1>0, <2>1 DEF SemTypes
  <2>3. i \in Holders /\ Holders' = Holders /\ i \notin Working /\ Working' = Working \cup {i}
    BY <1>0, <2>1 DEF SemTypes, Holders, Working
  <2>4. Cardinality(Spent)' = Cardinality(Spent)
    BY <1>0, <2>1, <2>2, <2>3, SpentMoves DEF SemTypes, Ledger
  <2>5. Ledger'
    BY <1>0, <2>1, <2>3, <2>4 DEF Ledger
  <2>6. running' = Cardinality(Working')
    BY <1>0, <2>1, <2>3, FiniteSpent, FS_AddElement DEF Alone
  <2>7. ASSUME Costs[i] = Budget PROVE running = 0
    <3>1. Working = {}
      BY <1>0, <2>3, <2>7, HugeHoldsAll DEF Working, Holders
    <3> QED
      BY <1>0, <3>1, FS_EmptySet DEF Alone
  <2>8. Alone'
    BY <1>0, <2>1, <2>6, <2>7 DEF Alone, SemTypes
  <2> QED
    BY <2>2, <2>5, <2>8 DEF SemInv
<1>3. ASSUME NEW i \in Indexes, Finish(i) PROVE SemInv'
  <2>1. /\ at[i] = "works" /\ at' = [at EXCEPT ![i] = "left"] /\ running' = running - 1
        /\ UNCHANGED <<asking, tokens, saw>>
    BY <1>3 DEF Finish, Goes
  <2>2. i \in Holders /\ Holders' = Holders /\ i \in Working /\ Working' = Working \ {i}
    BY <1>0, <2>1 DEF SemTypes, Holders, Working
  <2>3. running' = Cardinality(Working') /\ running' \in Nat
    <3>1. Cardinality(Working) # 0 /\ Cardinality(Working) \in Nat
      BY <2>2, FiniteSpent, FS_EmptySet
    <3>2. Cardinality(Working \ {i}) = Cardinality(Working) - 1
      BY <2>2, FiniteSpent, FS_RemoveElement
    <3> QED
      BY <1>0, <2>1, <2>2, <3>1, <3>2 DEF Alone
  <2>4. SemTypes'
    BY <1>0, <2>1, <2>3 DEF SemTypes
  <2>5. Cardinality(Spent)' = Cardinality(Spent)
    BY <1>0, <2>1, <2>2, <2>4, SpentMoves DEF SemTypes, Ledger
  <2>6. Ledger'
    BY <1>0, <2>1, <2>2, <2>5 DEF Ledger
  <2>7. Alone'
    BY <1>0, <2>1, <2>3 DEF Alone
  <2> QED
    BY <2>4, <2>6, <2>7 DEF SemInv
<1>4. ASSUME NEW i \in Indexes, GiveBack(i) PROVE SemInv'
  <2>1. /\ at[i] = "left" /\ at' = [at EXCEPT ![i] = "done"] /\ tokens' = tokens + Costs[i]
        /\ UNCHANGED <<asking, running, saw>>
    BY <1>4 DEF GiveBack, Goes
  <2>2. i \in Holders /\ Holders' = Holders \ {i} /\ Working' = Working
    BY <1>0, <2>1 DEF SemTypes, Holders, Working
  <2>3. Costs[i] \in Nat
    BY CostsAreNumbers
  <2>4. SemTypes'
    BY <1>0, <2>1, <2>3 DEF SemTypes
  <2>5. Cardinality(Spent) = Cardinality(Spent)' + Costs[i]
    BY <1>0, <2>1, <2>2, <2>4, SpentMoves DEF SemTypes, Ledger
  <2>6. Ledger'
    BY <1>0, <2>1, <2>2, <2>3, <2>5, FiniteSpent DEF Ledger, SemTypes
  <2>7. Alone'
    BY <1>0, <2>1, <2>2 DEF Alone
  <2> QED
    BY <2>4, <2>6, <2>7 DEF SemInv
<1>5. CASE UNCHANGED semVars
  BY <1>0, <1>5
  DEF semVars, SemInv, SemTypes, Ledger, Alone, Holders, Working, Spent
<1> QED
  BY <1>1, <1>2, <1>3, <1>4, <1>5 DEF SemNext, Indexes

LEMMA SemImplies == SemInv => HugeRunsAlone
<1> SUFFICES ASSUME SemInv PROVE HugeRunsAlone OBVIOUS
<1>1. \A i \in Indexes : Costs[i] = Budget => saw[i] <= 1
  BY DEF SemInv, Alone
<1>2. ASSUME SemOver PROVE tokens = Budget
  <2>1. Spent = {}
    BY <1>2 DEF SemOver, Spent, Holders, Indexes
  <2> QED
    BY <2>1, FS_EmptySet, BoundedAssumption DEF SemInv, Ledger, SemTypes
<1> QED
  BY <1>1, <1>2 DEF HugeRunsAlone, Indexes

-----------------------------------------------------------------------------
(* Days 3 to 6, users.                                                      *)

AnyName == Names \cup {"", "Mamun", "Ada"}

UserTypes ==
  /\ nextUser \in Nat \ {0}
  /\ \A i \in DOMAIN users : users[i] \in [id : Nat, name : AnyName]
  /\ putting \in [Clients -> [id : Nat, name : AnyName, wanted : AnyName]]
  /\ DOMAIN users \cup left \subseteq 0 .. nextUser - 1

\* A user is under its id, or it was deleted under a PUT of Day 3, and that one
\* writes to an id that was given, or to id 0 after a deletion.
Filed ==
  /\ \A i \in DOMAIN users :
       IF i \in left THEN userForm = "day 3" /\ users[i].id = Zero ELSE users[i].id = i
  /\ Zero \in DOMAIN users => left # {}
  /\ \A c \in Clients : putting[c] # NotPutting =>
       /\ userForm = "day 3"
       /\ IF putting[c].id = Zero THEN left # {} ELSE putting[c].id \in DOMAIN users \cup left

UsersInv == UserTypes /\ Filed /\ (userForm = "day 6" => PutReturnsUpdated)

LEMMA UsersStart == UsersInit => UsersInv
<1> SUFFICES ASSUME UsersInit PROVE UsersInv OBVIOUS
<1> USE DEF Zero
<1>1. /\ nextUser = 3 /\ DOMAIN users = 1 .. 2 /\ left = {}
      /\ putting = [c \in Clients |-> NotPutting]
      /\ \A i \in 1 .. 2 : users[i] = User(i, IF i = 1 THEN "Mamun" ELSE "Ada")
  BY DEF UsersInit
<1>2. UserTypes
  <2>1. \A i \in 1 .. 2 : users[i] \in [id : Nat, name : AnyName]
    <3> SUFFICES ASSUME NEW i \in 1 .. 2 PROVE users[i] \in [id : Nat, name : AnyName] OBVIOUS
    <3> DEFINE name == IF i = 1 THEN "Mamun" ELSE "Ada"
    <3>1. name \in AnyName /\ i \in Nat
      BY DEF AnyName
    <3> HIDE DEF name
    <3>2. users[i] = [id |-> i, name |-> name]
      BY <1>1 DEF User, name
    <3> QED
      BY <3>1, <3>2
  <2>2. NotPutting \in [id : Nat, name : AnyName, wanted : AnyName]
    BY DEF NotPutting, AnyName
  <2> QED
    BY <1>1, <2>1, <2>2 DEF UserTypes
<1>4. Filed
  <2>1. \A i \in 1 .. 2 : users[i].id = i
    BY <1>1 DEF User
  <2> QED
    BY <1>1, <2>1 DEF Filed
<1>3. PutReturnsUpdated
  BY DEF UsersInit, PutReturnsUpdated
<1> QED
  BY <1>2, <1>3, <1>4 DEF UsersInv

\* Nobody writes to an id that was never given, and only the PUT of Day 3 to one
\* that was deleted.
LEMMA UsersStep == UsersInv /\ [UsersNext]_userVars => UsersInv'
<1> SUFFICES ASSUME UsersInv, [UsersNext]_userVars PROVE UsersInv' OBVIOUS
<1> USE DEF Zero
<1>0. UserTypes /\ Filed
  BY DEF UsersInv
<1>1. ASSUME NEW name \in Names, CreateUser(name) PROVE UsersInv'
  <2> DEFINE new == User(nextUser, name)
  <2>1. /\ DOMAIN users' = DOMAIN users \cup {nextUser} /\ users'[nextUser] = new
        /\ \A j \in DOMAIN users \ {nextUser} : users'[j] = users[j]
        /\ nextUser' = nextUser + 1 /\ UNCHANGED <<userForm, putting, left, reply>>
    BY <1>1 DEF CreateUser, Assign
  <2>2. nextUser \notin DOMAIN users \cup left /\ nextUser \in Nat \ {0}
    BY <1>0 DEF UserTypes
  <2>3. new \in [id : Nat, name : AnyName] /\ new.id = nextUser
    BY <1>0 DEF UserTypes, User, AnyName
  <2> HIDE DEF new
  <2>4. UserTypes'
    BY <1>0, <2>1, <2>3 DEF UserTypes
  <2>5. Filed'
    <3>1. ASSUME NEW i \in DOMAIN users'
          PROVE  IF i \in left THEN userForm = "day 3" /\ users'[i].id = Zero ELSE users'[i].id = i
      <4>1. CASE i = nextUser
        BY <2>1, <2>2, <2>3, <4>1
      <4>2. CASE i # nextUser
        BY <1>0, <2>1, <4>2 DEF Filed
      <4> QED
        BY <4>1, <4>2
    <3>2. Zero \in DOMAIN users' => left # {}
      BY <1>0, <2>1, <2>2 DEF Filed
    <3>3. \A c \in Clients : putting[c] # NotPutting =>
            /\ userForm = "day 3"
            /\ IF putting[c].id = Zero THEN left # {} ELSE putting[c].id \in DOMAIN users' \cup left
      BY <1>0, <2>1 DEF Filed
    <3> QED
      BY <2>1, <3>1, <3>2, <3>3 DEF Filed
  <2> QED
    BY <2>1, <2>4, <2>5 DEF UsersInv, PutReturnsUpdated
<1>2. ASSUME NEW i \in 1 .. MaxUsers, DeleteUserEntry(i) PROVE UsersInv'
  <2>1. /\ DOMAIN users' = DOMAIN users \ {i} /\ \A j \in DOMAIN users \ {i} : users'[j] = users[j]
        /\ left' = left \cup {i} /\ i \in DOMAIN users
        /\ UNCHANGED <<userForm, nextUser, putting, reply>>
    BY <1>2 DEF DeleteUserEntry, Without
  <2>2. UserTypes'
    BY <1>0, <2>1 DEF UserTypes
  <2>3. Filed'
    BY <1>0, <2>1 DEF Filed
  <2> QED
    BY <2>1, <2>2, <2>3 DEF UsersInv, PutReturnsUpdated
<1>3. ASSUME NEW i \in 1 .. MaxUsers, NEW name \in Names, PutMissing(i, name) PROVE UsersInv'
  <2>1. reply'.status = "not found" /\ UNCHANGED <<userForm, users, nextUser, putting, left>>
    BY <1>3 DEF PutMissing
  <2> QED
    BY <1>0, <2>1 DEF UsersInv, UserTypes, Filed, PutReturnsUpdated
<1>4. ASSUME NEW i \in 1 .. MaxUsers, NEW name \in Names, Put(i, name) PROVE UsersInv'
  <2>1. /\ users' = [users EXCEPT ![i].name = name] /\ i \in DOMAIN users /\ userForm = "day 6"
        /\ reply' = [status |-> "ok", name |-> users'[i].name, wanted |-> name]
        /\ UNCHANGED <<userForm, nextUser, putting, left>>
    BY <1>4 DEF Put
  <2>2. users[i] \in [id : Nat, name : AnyName] /\ name \in AnyName
    BY <1>0, <2>1 DEF UserTypes, AnyName
  <2>3. /\ DOMAIN users' = DOMAIN users /\ users'[i].name = name /\ users'[i].id = users[i].id
        /\ users'[i] \in [id : Nat, name : AnyName]
        /\ \A j \in DOMAIN users \ {i} : users'[j] = users[j]
    BY <2>1, <2>2
  <2>4. UserTypes'
    BY <1>0, <2>1, <2>3 DEF UserTypes
  <2>5. Filed'
    BY <1>0, <2>1, <2>3 DEF Filed
  <2>6. PutReturnsUpdated'
    BY <2>1, <2>3 DEF PutReturnsUpdated
  <2> QED
    BY <2>4, <2>5, <2>6 DEF UsersInv
<1>5. ASSUME NEW c \in Clients, NEW i \in 1 .. MaxUsers, NEW name \in Names, PutReads(c, i, name)
      PROVE  UsersInv'
  <2> DEFINE p == [id |-> users[i].id, name |-> users[i].name, wanted |-> name]
  <2>1. /\ putting' = [putting EXCEPT ![c] = p] /\ userForm = "day 3" /\ i \in DOMAIN users
        /\ UNCHANGED <<userForm, users, nextUser, left, reply>>
    BY <1>5 DEF PutReads
  <2>2. p \in [id : Nat, name : AnyName, wanted : AnyName] /\ p.id = users[i].id
    BY <1>0, <2>1 DEF UserTypes, AnyName
  <2> HIDE DEF p
  <2>3. putting' \in [Clients -> [id : Nat, name : AnyName, wanted : AnyName]]
    BY <1>0, <2>1, <2>2 DEF UserTypes
  <2>4. UserTypes'
    BY <1>0, <2>1, <2>3 DEF UserTypes
  <2>5. IF p.id = Zero THEN left # {} ELSE p.id \in DOMAIN users \cup left
    <3>1. CASE i \in left
      BY <1>0, <2>1, <2>2, <3>1 DEF Filed
    <3>2. CASE i \notin left
      <4>1. p.id = i
        BY <1>0, <2>1, <2>2, <3>2 DEF Filed
      <4> QED
        BY <1>0, <2>1, <4>1 DEF Filed
    <3> QED
      BY <3>1, <3>2
  <2>6. putting'[c] = p /\ \A d \in Clients \ {c} : putting'[d] = putting[d]
    BY <1>0, <2>1 DEF UserTypes
  <2>7. Filed'
    BY <1>0, <2>1, <2>5, <2>6 DEF Filed
  <2> QED
    BY <2>1, <2>4, <2>7 DEF UsersInv, PutReturnsUpdated
<1>6. ASSUME NEW c \in Clients, PutWrites(c) PROVE UsersInv'
  <2> DEFINE k == putting[c].id
             found == IF k \in DOMAIN users THEN users[k] ELSE User(Zero, "")
             x == [found EXCEPT !.name = putting[c].wanted]
  <2>1. /\ putting[c] # NotPutting /\ users' = Assign(users, k, x)
        /\ putting' = [putting EXCEPT ![c] = NotPutting]
        /\ UNCHANGED <<userForm, nextUser, left, userCalls>>
    BY <1>6 DEF PutWrites
  <2>2. /\ userForm = "day 3" /\ k \in Nat /\ putting[c].wanted \in AnyName
        /\ IF k = Zero THEN left # {} ELSE k \in DOMAIN users \cup left
    BY <1>0, <2>1 DEF Filed, UserTypes
  <2>3. found \in [id : Nat, name : AnyName] /\ (k \notin DOMAIN users => found.id = Zero)
    BY <1>0 DEF UserTypes, User, AnyName
  <2>4. x \in [id : Nat, name : AnyName] /\ x.id = IF k \in DOMAIN users THEN users[k].id ELSE Zero
    <3> HIDE DEF found
    <3>1. x \in [id : Nat, name : AnyName] /\ x.id = found.id
      BY <2>2, <2>3
    <3> QED
      BY <2>3, <3>1 DEF found
  <2> HIDE DEF k, found, x
  <2>5. /\ DOMAIN users' = DOMAIN users \cup {k} /\ users'[k] = x
        /\ \A j \in DOMAIN users \ {k} : users'[j] = users[j]
    BY <2>1 DEF Assign
  <2>6. k \in 0 .. nextUser - 1
    <3>1. left # {} => 0 \in 0 .. nextUser - 1
      BY <1>0 DEF UserTypes
    <3> QED
      BY <1>0, <2>2, <3>1 DEF UserTypes
  <2>7. /\ putting' \in [Clients -> [id : Nat, name : AnyName, wanted : AnyName]]
        /\ \A d \in Clients : putting'[d] # NotPutting => putting'[d] = putting[d] /\ d # c
    BY <1>0, <2>1 DEF UserTypes, NotPutting, AnyName
  <2>8. UserTypes'
    BY <1>0, <2>1, <2>4, <2>5, <2>6, <2>7 DEF UserTypes
  <2>9. Filed'
    <3>1. ASSUME NEW i \in DOMAIN users'
          PROVE  IF i \in left THEN userForm = "day 3" /\ users'[i].id = Zero ELSE users'[i].id = i
      <4>1. CASE i = k /\ k \notin DOMAIN users
        BY <2>2, <2>4, <2>5, <4>1
      <4>2. CASE i \in DOMAIN users
        BY <1>0, <2>4, <2>5, <4>2 DEF Filed
      <4> QED
        BY <2>5, <4>1, <4>2
    <3>2. Zero \in DOMAIN users' => left # {}
      BY <1>0, <2>2, <2>5 DEF Filed
    <3>3. ASSUME NEW d \in Clients, putting'[d] # NotPutting
          PROVE  /\ userForm = "day 3"
                 /\ IF putting'[d].id = Zero THEN left # {}
                    ELSE putting'[d].id \in DOMAIN users' \cup left
      BY <1>0, <2>5, <2>7, <3>3 DEF Filed
    <3> QED
      BY <2>1, <3>1, <3>2, <3>3 DEF Filed
  <2> QED
    BY <2>1, <2>2, <2>8, <2>9 DEF UsersInv
<1>7. CASE UNCHANGED userVars
  BY <1>7 DEF userVars, UsersInv, UserTypes, Filed, PutReturnsUpdated
<1> QED
  BY <1>1, <1>2, <1>3, <1>4, <1>5, <1>6, <1>7 DEF UsersNext

LEMMA UsersImply == UsersInv => UsersAreRight
BY DEF UsersInv, Filed, UsersAreRight

-----------------------------------------------------------------------------
(* Day 35, accounts.                                                        *)

\* The rows are what was registered, normalised, with one row for an email, and with
\* passwords that bcrypt takes as a whole; ids are not given twice.
AccountRows ==
  /\ nextAccount \in Nat /\ \A i \in DOMAIN asked : i \in Nat /\ i < nextAccount
  /\ \A i \in DOMAIN asked : First72[asked[i].password] = asked[i].password
  /\ DOMAIN accounts \subseteq DOMAIN asked
  /\ \A i \in DOMAIN accounts :
       accounts[i].email = Lower[asked[i].email] /\ accounts[i].password = asked[i].password
  /\ \A i, j \in DOMAIN accounts : accounts[i].email = accounts[j].email => i = j

\* What a call carries: the email it was given, normalised, and accounts that
\* were registered with it and with what bcrypt sees of its password.
Carries(k) ==
  /\ k.at \in {"create", "find"} => k.email = Lower[k.typed]
  /\ k.at = "create" => k.password \in Passwords
  /\ k.at = "find" =>
       k.due \subseteq {i \in DOMAIN asked :
                          Lower[asked[i].email] = k.email /\ asked[i].password = First72[k.password]}
  /\ k.at = "issue" =>
       /\ k.id \in DOMAIN asked
       /\ Lower[asked[k.id].email] = k.email /\ k.email = Lower[k.typed]
       /\ asked[k.id].password = First72[k.password]

\* A token names an account that was registered, and its email.
Tokens == \A t \in signed : t.uid \in DOMAIN asked /\ t.email = Lower[asked[t.uid].email]

\* The answers are right when they are given, and stay right.
Answers ==
  /\ answered.to = "login" /\ answered.status = "ok" =>
       /\ answered.uid \in DOMAIN asked
       /\ Lower[asked[answered.uid].email] = Lower[answered.typed]
       /\ asked[answered.uid].password = First72[answered.password]
  /\ answered.to = "login" /\ answered.status = "unauthorized" =>
       answered.due \subseteq DOMAIN asked /\ answered.due \cap DOMAIN accounts = {}
  /\ answered.to = "me" /\ answered.status = "ok" => answered.email = answered.token.email

CallsCarry == DOMAIN call = Callers /\ \A c \in Callers : Carries(call[c])

AccountsInv == AccountRows /\ CallsCarry /\ Tokens /\ Answers

LEMMA AccountsStart == AccountsInit => AccountsInv
BY DEF AccountsInit, AccountsInv, AccountRows, CallsCarry, Carries, Tokens, Answers, NoCall, NoAnswer

\* A step that leaves the accounts alone, whose calls and answer are sound.
LEMMA CallMoves ==
  ASSUME AccountsInv, NEW c \in Callers, NEW state, call' = [call EXCEPT ![c] = state],
         Carries(state), UNCHANGED asked
  PROVE  CallsCarry'
<1>1. DOMAIN call' = Callers /\ \A d \in Callers : call'[d] = IF d = c THEN state ELSE call[d]
  BY DEF AccountsInv, CallsCarry
<1>2. \A d \in Callers : Carries(call'[d])
  BY <1>1 DEF AccountsInv, CallsCarry
<1> QED
  BY <1>1, <1>2 DEF CallsCarry, Carries

\* The answers that say nothing of an account.
LEMMA PlainAnswer ==
  ASSUME answered'.to # "login" \/ answered'.status \notin {"ok", "unauthorized"},
         answered'.to # "me" \/ answered'.status # "ok"
  PROVE  Answers'
BY DEF Answers

\* A call that fails changes no account, and its answer promises nothing.
LEMMA CallFails ==
  ASSUME AccountsInv, NEW c \in Callers, HashFails(c) \/ AccountCallFails(c)
  PROVE  AccountsInv'
<1>1. /\ call' = [call EXCEPT ![c] = NoCall] /\ answered'.status = "error"
      /\ UNCHANGED <<accounts, nextAccount, signed, asked>>
  BY DEF HashFails, AccountCallFails, Answer
<1>2. AccountRows' /\ Tokens'
  BY <1>1 DEF AccountsInv, AccountRows, Tokens
<1>3. CallsCarry'
  BY <1>1, CallMoves DEF Carries, NoCall
<1>4. Answers'
  BY <1>1, PlainAnswer
<1> QED
  BY <1>2, <1>3, <1>4 DEF AccountsInv

\* What a call carries from its beginning is right.
LEMMA CallBegins ==
  ASSUME AccountsInv, NEW c \in Callers, NEW e \in Spellings, NEW p \in Passwords,
         Register(c, e, p) \/ Login(c, e, p)
  PROVE  AccountsInv'
<1> DEFINE creates == [at |-> "create", email |-> Lower[e], typed |-> e, password |-> p]
           due == {i \in welcome \cap DOMAIN accounts :
                     Lower[asked[i].email] = Lower[e] /\ asked[i].password \in {p, First72[p]}}
           finds == [at |-> "find", email |-> Lower[e], typed |-> e, password |-> p, due |-> due]
<1>1. /\ \E k \in {creates, finds} : call' = [call EXCEPT ![c] = k]
      /\ UNCHANGED <<accounts, nextAccount, signed, asked, answered>>
  BY DEF Register, Login, Begin, normalizeEmail
<1>2. AccountRows' /\ Tokens' /\ Answers'
  BY <1>1 DEF AccountsInv, AccountRows, Tokens, Answers
<1>3. Carries(creates)
  BY DEF Carries
<1>4. Carries(finds)
  <2>1. due \subseteq {i \in DOMAIN asked :
                         Lower[asked[i].email] = Lower[e] /\ asked[i].password = First72[p]}
    BY DEF AccountsInv, AccountRows
  <2> HIDE DEF due
  <2> QED
    BY <2>1 DEF Carries
<1> HIDE DEF creates, finds
<1>5. CallsCarry'
  BY <1>1, <1>3, <1>4, CallMoves
<1> QED
  BY <1>2, <1>5 DEF AccountsInv

\* A row is inserted only when there is none with its email.
LEMMA AccountCreated ==
  ASSUME AccountsInv, NEW c \in Callers, Create(c)
  PROVE  AccountsInv'
<1> DEFINE k == call[c]
           n == nextAccount
<1>0. k.email = Lower[k.typed] /\ AccountRows /\ n \in Nat /\ n \notin DOMAIN asked
  BY DEF Create, AccountsInv, AccountRows, CallsCarry, Carries
<1>5. First72[k.password] = k.password
  BY AccountsAssumption DEF Create, AccountsInv, CallsCarry, Carries
<1>1. /\ nextAccount' = n + 1 /\ signed' = signed /\ call' = [call EXCEPT ![c] = NoCall]
      /\ answered'.to = "register"
  BY DEF Create, Answer
<1>2. Answers'
  BY <1>1, PlainAnswer
<1>3. CASE UNCHANGED <<accounts, asked>>
  <2>1. AccountRows' /\ Tokens'
    BY <1>0, <1>1, <1>3 DEF AccountsInv, AccountRows, Tokens
  <2>2. CallsCarry'
    BY <1>1, <1>3, CallMoves DEF Carries, NoCall
  <2> QED
    BY <1>2, <2>1, <2>2 DEF AccountsInv
<1>4. CASE /\ HasEmail(k.email) = {}
           /\ accounts' = Assign(accounts, n, Account(k.email, k.password))
           /\ asked' = Assign(asked, n, Account(k.typed, k.password))
  <2> HIDE DEF n, k
  <2>1. /\ DOMAIN accounts' = DOMAIN accounts \cup {n} /\ DOMAIN asked' = DOMAIN asked \cup {n}
        /\ \A i \in DOMAIN accounts \ {n} : accounts'[i] = accounts[i]
        /\ \A i \in DOMAIN asked \ {n} : asked'[i] = asked[i]
        /\ accounts'[n].email = k.email /\ accounts'[n].password = k.password
        /\ asked'[n].email = k.typed /\ asked'[n].password = k.password
    BY <1>4 DEF Assign, Account
  <2>2. \A i \in DOMAIN accounts : accounts[i].email # k.email
    BY <1>4 DEF HasEmail
  <2>3. n \notin DOMAIN accounts /\ DOMAIN accounts \subseteq DOMAIN asked
    BY <1>0 DEF AccountRows
  <2>4. AccountRows'
    <3>1. nextAccount' \in Nat /\ \A i \in DOMAIN asked' : i \in Nat /\ i < nextAccount'
      BY <1>0, <1>1, <2>1 DEF AccountRows, n
    <3>2. \A i \in DOMAIN accounts' :
            /\ accounts'[i].email = Lower[asked'[i].email]
            /\ accounts'[i].password = asked'[i].password
      BY <1>0, <2>1, <2>3 DEF AccountRows
    <3>3. \A i, j \in DOMAIN accounts' : accounts'[i].email = accounts'[j].email => i = j
      BY <1>0, <2>1, <2>2, <2>3 DEF AccountRows
    <3>4. \A i \in DOMAIN asked' : First72[asked'[i].password] = asked'[i].password
      BY <1>0, <1>5, <2>1 DEF AccountRows
    <3> QED
      BY <2>1, <2>3, <3>1, <3>2, <3>3, <3>4 DEF AccountRows
  <2>5. Tokens'
    BY <1>0, <1>1, <2>1 DEF AccountsInv, Tokens
  <2>6. CallsCarry'
    <3>1. ASSUME NEW d \in Callers PROVE Carries(call[d])'
      <4>1. CASE d = c
        BY <1>1, <4>1 DEF AccountsInv, CallsCarry, Carries, NoCall
      <4>2. CASE d # c
        <5>1. call'[d] = call[d] /\ Carries(call[d])
          BY <1>1, <4>2 DEF AccountsInv, CallsCarry
        <5> QED
          BY <1>0, <2>1, <5>1 DEF Carries
      <4> QED
        BY <4>1, <4>2
    <3> QED
      BY <1>1, <3>1 DEF AccountsInv, CallsCarry
  <2> QED
    BY <1>2, <2>4, <2>5, <2>6 DEF AccountsInv
<1> QED
  BY <1>3, <1>4 DEF Create

\* A login that finds no row turns nobody away who has an account, and one that
\* finds a row has the right one.
LEMMA LoginLooks ==
  ASSUME AccountsInv, NEW c \in Callers, GetByEmail(c)
  PROVE  AccountsInv'
<1> DEFINE k == call[c]
<1>0. /\ k.at = "find" /\ k.email = Lower[k.typed] /\ AccountRows
      /\ k.due \subseteq {i \in DOMAIN asked :
                            Lower[asked[i].email] = k.email /\ asked[i].password = First72[k.password]}
  BY DEF GetByEmail, AccountsInv, CallsCarry, Carries
<1>1. UNCHANGED <<accounts, nextAccount, signed, asked>>
  BY DEF GetByEmail
<1>2. AccountRows' /\ Tokens'
  BY <1>1 DEF AccountsInv, AccountRows, Tokens
<1>3. CASE (\A i \in HasEmail(k.email) : accounts[i].password # First72[k.password]) /\ Reject(c)
  <2>1. /\ call' = [call EXCEPT ![c] = NoCall]
        /\ answered' = [to |-> "login", status |-> "unauthorized", due |-> k.due]
    BY <1>3 DEF Reject, Answer
  <2> HIDE DEF k
  <2>2. k.due \cap DOMAIN accounts = {}
    <3> SUFFICES ASSUME NEW i \in k.due, i \in DOMAIN accounts PROVE FALSE OBVIOUS
    <3>1. accounts[i].email = k.email /\ accounts[i].password = First72[k.password]
      BY <1>0 DEF AccountRows
    <3> QED
      BY <1>3, <3>1 DEF HasEmail
  <2>3. Answers'
    BY <1>0, <1>1, <2>1, <2>2 DEF Answers
  <2>4. CallsCarry'
    BY <1>1, <2>1, CallMoves DEF Carries, NoCall
  <2> QED
    BY <1>2, <2>3, <2>4 DEF AccountsInv
<1>4. ASSUME NEW i \in HasEmail(k.email), accounts[i].password = First72[k.password],
             UNCHANGED answered,
             call' = [call EXCEPT ![c] = [at |-> "issue", id |-> i, email |-> accounts[i].email,
                                          typed |-> k.typed, password |-> k.password]]
      PROVE  AccountsInv'
  <2> DEFINE issues == [at |-> "issue", id |-> i, email |-> accounts[i].email,
                        typed |-> k.typed, password |-> k.password]
  <2> HIDE DEF k
  <2>1. /\ i \in DOMAIN asked /\ accounts[i].email = k.email
        /\ asked[i].password = First72[k.password]
        /\ Lower[asked[i].email] = k.email
    BY <1>0, <1>4 DEF HasEmail, AccountRows
  <2>2. Carries(issues)
    BY <1>0, <2>1 DEF Carries
  <2>3. CallsCarry'
    BY <1>1, <1>4, <2>2, CallMoves
  <2>4. Answers'
    BY <1>1, <1>4 DEF AccountsInv, Answers
  <2> QED
    BY <1>2, <2>3, <2>4 DEF AccountsInv
<1> QED
  BY <1>3, <1>4 DEF GetByEmail, CheckPassword

\* A token is signed for the account whose row was read.
LEMMA LoginAnswers ==
  ASSUME AccountsInv, NEW c \in Callers, Issue(c)
  PROVE  AccountsInv'
<1> DEFINE k == call[c]
<1>0. /\ k.at = "issue" /\ k.id \in DOMAIN asked /\ asked[k.id].password = First72[k.password]
      /\ Lower[asked[k.id].email] = k.email /\ k.email = Lower[k.typed]
  BY DEF Issue, AccountsInv, CallsCarry, Carries
<1>1. /\ UNCHANGED <<accounts, nextAccount, asked>> /\ call' = [call EXCEPT ![c] = NoCall]
      /\ \/ /\ signed' = signed \cup {[uid |-> k.id, email |-> k.email]}
            /\ answered' = [to |-> "login", status |-> "ok", uid |-> k.id,
                            typed |-> k.typed, password |-> k.password]
         \/ signed' = signed /\ answered' = [to |-> "login", status |-> "error"]
  BY DEF Issue, Answer
<1> HIDE DEF k
<1>2. AccountRows'
  BY <1>1 DEF AccountsInv, AccountRows
<1>3. Tokens'
  <2>1. ASSUME NEW t \in signed' PROVE t.uid \in DOMAIN asked /\ t.email = Lower[asked[t.uid].email]
    <3>1. CASE t \in signed
      BY <3>1 DEF AccountsInv, Tokens
    <3>2. CASE t = [uid |-> k.id, email |-> k.email]
      BY <1>0, <3>2
    <3> QED
      BY <1>1, <3>1, <3>2
  <2> QED
    BY <1>1, <2>1 DEF Tokens
<1>4. CallsCarry'
  BY <1>1, CallMoves DEF Carries, NoCall
<1>5. Answers'
  <2>1. CASE answered' = [to |-> "login", status |-> "error"]
    BY <2>1, PlainAnswer
  <2>2. CASE answered' = [to |-> "login", status |-> "ok", uid |-> k.id,
                          typed |-> k.typed, password |-> k.password]
    BY <1>0, <1>1, <2>2 DEF Answers
  <2> QED
    BY <1>1, <2>1, <2>2
<1> QED
  BY <1>2, <1>3, <1>4, <1>5 DEF AccountsInv

\* The invariant of the accounts is inductive.
LEMMA AccountsStep == AccountsInv /\ [AccountsNext]_accountVars => AccountsInv'
<1> SUFFICES ASSUME AccountsInv, [AccountsNext]_accountVars PROVE AccountsInv' OBVIOUS
<1>1. ASSUME NEW t \in signed, Me(t) PROVE AccountsInv'
  <2>1. UNCHANGED <<accounts, nextAccount, call, signed, asked>>
    BY <1>1 DEF Me
  <2>2. AccountRows' /\ Tokens' /\ CallsCarry'
    BY <2>1 DEF AccountsInv, AccountRows, Tokens, CallsCarry, Carries
  <2>3. CASE \E s \in {"unauthorized", "error"} : answered' = [to |-> "me", status |-> s]
    <3>1. Answers'
      BY <2>3, PlainAnswer
    <3> QED
      BY <2>2, <3>1 DEF AccountsInv
  <2>4. CASE /\ t.uid \in DOMAIN accounts
             /\ answered' = [to |-> "me", status |-> "ok", token |-> t,
                             email |-> accounts[t.uid].email]
    <3>1. accounts[t.uid].email = t.email
      BY <2>4 DEF AccountsInv, AccountRows, Tokens
    <3>2. Answers'
      BY <2>4, <3>1 DEF Answers
    <3> QED
      BY <2>2, <3>2 DEF AccountsInv
  <2> QED
    BY <1>1, <2>3, <2>4 DEF Me
<1>2. ASSUME NEW i \in DOMAIN accounts, AccountDeleted(i) PROVE AccountsInv'
  <2>1. /\ DOMAIN accounts' = DOMAIN accounts \ {i}
        /\ \A j \in DOMAIN accounts \ {i} : accounts'[j] = accounts[j]
        /\ UNCHANGED <<nextAccount, call, signed, asked, answered>>
    BY <1>2 DEF AccountDeleted, Without
  <2>2. AccountRows'
    BY <2>1 DEF AccountsInv, AccountRows
  <2>3. CallsCarry' /\ Tokens'
    BY <2>1 DEF AccountsInv, Tokens, CallsCarry, Carries
  <2>4. Answers'
    BY <2>1 DEF AccountsInv, Answers
  <2> QED
    BY <2>2, <2>3, <2>4 DEF AccountsInv
<1>3. CASE UNCHANGED accountVars
  BY <1>3 DEF accountVars, AccountsInv, AccountRows, Tokens, CallsCarry, Carries, Answers
<1> QED
  BY <1>1, <1>2, <1>3, CallFails, CallBegins, AccountCreated, LoginLooks, LoginAnswers
  DEF AccountsNext

LEMMA AccountsImply == AccountsInv => AccountsAreRight
<1> SUFFICES ASSUME AccountsInv PROVE AccountsAreRight OBVIOUS
<1>1. \A i, j \in DOMAIN accounts : Lower[asked[i].email] = Lower[asked[j].email] => i = j
  BY DEF AccountsInv, AccountRows
<1> QED
  BY <1>1 DEF AccountsInv, Answers, AccountsAreRight

-----------------------------------------------------------------------------
(* The ids of a set in order.                                               *)

\* Renaming the elements of a set keeps their number.
LEMMA SameSize ==
  ASSUME NEW S, IsFiniteSet(S), NEW g, \A i, j \in S : g[i] = g[j] => i = j
  PROVE  IsFiniteSet({g[i] : i \in S}) /\ Cardinality({g[i] : i \in S}) = Cardinality(S)
<1> DEFINE T == {g[i] : i \in S}
           h == [i \in S |-> g[i]]
<1>1. h \in Bijection(S, T)
  BY DEF Bijection, Injection, Surjection, IsInjective
<1>2. ExistsBijection(S, T)
  BY <1>1 DEF ExistsBijection
<1> QED
  BY <1>2, FS_Bijection

\* Of two members of a finite set the smaller one has the smaller rank.
LEMMA RanksGrow ==
  ASSUME NEW S \in SUBSET Nat, IsFiniteSet(S)
  PROVE  /\ Cardinality(S) \in Nat
         /\ \A i \in S : Rank(S, i) \in 0 .. Cardinality(S) - 1
         /\ \A i, j \in S : i < j => Rank(S, i) < Rank(S, j)
<1> DEFINE below(i) == {j \in S : j < i}
<1>1. Cardinality(S) \in Nat
  BY FS_CardinalityType
<1>2. ASSUME NEW i \in S
      PROVE  IsFiniteSet(below(i)) /\ Rank(S, i) = Cardinality(below(i)) /\ Rank(S, i) \in Nat
  <2>1. IsFiniteSet(below(i)) /\ Rank(S, i) = Cardinality(below(i))
    BY FS_Subset DEF Rank
  <2> QED
    BY <2>1, FS_CardinalityType
<1>3. ASSUME NEW i \in S PROVE Rank(S, i) < Cardinality(S)
  <2>1. below(i) \in SUBSET S /\ i \in S /\ i \notin below(i)
    OBVIOUS
  <2>2. Cardinality(below(i)) <= Cardinality(S) /\ Cardinality(below(i)) # Cardinality(S)
    BY <2>1, FS_Subset
  <2> HIDE DEF below
  <2> QED
    BY <1>1, <1>2, <2>2
<1>4. ASSUME NEW i \in S, NEW j \in S, i < j PROVE Rank(S, i) < Rank(S, j)
  <2>0. \A k \in S : k \in Nat
    OBVIOUS
  <2>1. below(i) \in SUBSET below(j) /\ i \in below(j) /\ i \notin below(i)
    <3>1. \A k \in S : k < i => k < j
      BY <1>4, <2>0
    <3>2. ~(i < i)
      BY <2>0
    <3> QED
      BY <1>4, <3>1, <3>2
  <2>2. IsFiniteSet(below(j))
    BY <1>2
  <2> HIDE DEF below
  <2>3. Cardinality(below(i)) <= Cardinality(below(j)) /\ Cardinality(below(i)) # Cardinality(below(j))
    BY <2>1, <2>2, FS_Subset
  <2> QED
    BY <1>2, <2>3
<1> HIDE DEF below
<1> QED
  BY <1>1, <1>2, <1>3, <1>4

\* Every place in the order is taken by one element.
LEMMA NthElement ==
  ASSUME NEW S \in SUBSET Nat, IsFiniteSet(S), NEW n \in 1 .. Cardinality(S)
  PROVE  /\ Ascending(S)[n] \in S /\ Rank(S, Ascending(S)[n]) = n - 1
         /\ \A i \in S : Rank(S, i) = n - 1 => i = Ascending(S)[n]
<1> DEFINE top == Cardinality(S)
           r == [i \in S |-> Rank(S, i)]
<1>1. top \in Nat /\ n \in Nat /\ n - 1 \in 0 .. top - 1
  BY RanksGrow
<1>2. r \in [S -> 0 .. top - 1]
  BY RanksGrow
<1>3. \A i, j \in S : r[i] = r[j] => i = j
  <2> SUFFICES ASSUME NEW i \in S, NEW j \in S, Rank(S, i) = Rank(S, j) PROVE i = j OBVIOUS
  <2>1. i \in Nat /\ j \in Nat /\ Rank(S, i) \in Nat
    BY RanksGrow
  <2>2. ~(i < j) /\ ~(j < i)
    BY <2>1, RanksGrow
  <2> QED
    BY <2>1, <2>2
<1> HIDE DEF top
<1>4. IsFiniteSet(0 .. top - 1) /\ Cardinality(0 .. top - 1) = top
  <2>1. 0 \in Int /\ top - 1 \in Int
    BY <1>1
  <2> QED
    BY <1>1, <2>1, FS_Interval
<1>5. r \in Injection(S, 0 .. top - 1)
  BY <1>2, <1>3 DEF Injection, IsInjective
<1>6. r \in Surjection(S, 0 .. top - 1)
  <2> HIDE DEF r
  <2> QED
    BY <1>4, <1>5, FS_Injection DEF top
<1>7. \E i \in S : Rank(S, i) = n - 1
  BY <1>1, <1>6 DEF Surjection
<1>8. Ascending(S)[n] = CHOOSE i \in S : Rank(S, i) = n - 1
  BY DEF Ascending
<1>9. Ascending(S)[n] \in S /\ Rank(S, Ascending(S)[n]) = n - 1
  BY <1>7, <1>8
<1> QED
  BY <1>3, <1>9

\* Renaming the elements of a set in order keeps their places.
LEMMA SameRank ==
  ASSUME NEW S \in SUBSET Nat, IsFiniteSet(S), NEW g, \A i \in S : g[i] \in Nat,
         \A i, j \in S : i < j => g[i] < g[j], NEW i \in S
  PROVE  Rank({g[j] : j \in S}, g[i]) = Rank(S, i)
<1> DEFINE below == {j \in S : j < i}
<1>1. \A j, k \in S : g[j] = g[k] => j = k
  <2> SUFFICES ASSUME NEW j \in S, NEW k \in S, g[j] = g[k] PROVE j = k OBVIOUS
  <2>1. j \in Nat /\ k \in Nat /\ g[j] \in Nat /\ ~(j < k) /\ ~(k < j)
    OBVIOUS
  <2> QED
    BY <2>1
<1>2. {l \in {g[j] : j \in S} : l < g[i]} = {g[j] : j \in below}
  <2>1. ASSUME NEW j \in S PROVE g[j] < g[i] <=> j < i
    <3>1. j \in Nat /\ i \in Nat /\ g[j] \in Nat /\ g[i] \in Nat
      OBVIOUS
    <3>2. j < i => g[j] < g[i]
      OBVIOUS
    <3>3. i < j => g[i] < g[j]
      OBVIOUS
    <3> QED
      BY <3>1, <3>2, <3>3
  <2> QED
    BY <2>1
<1>3. IsFiniteSet(below) /\ \A j, k \in below : g[j] = g[k] => j = k
  BY <1>1, FS_Subset
<1>4. Rank(S, i) = Cardinality(below)
  BY DEF Rank
<1> HIDE DEF below
<1>5. Cardinality({g[j] : j \in below}) = Cardinality(below)
  BY <1>3, SameSize
<1> QED
  BY <1>2, <1>4, <1>5 DEF Rank

\* The first n elements of a set, in order, are the ids of its beginning.
LEMMA Beginning ==
  ASSUME NEW S \in SUBSET Nat, IsFiniteSet(S), NEW n \in Nat
  PROVE  LET F == {k \in S : Rank(S, k) < n} IN
         /\ Cardinality(F) = IF n < Cardinality(S) THEN n ELSE Cardinality(S)
         /\ IsFiniteSet(F)
         /\ \A k \in F : Rank(F, k) = Rank(S, k)
<1> DEFINE F == {k \in S : Rank(S, k) < n}
           r == [k \in F |-> Rank(S, k)]
<1>1. F \in SUBSET S /\ IsFiniteSet(F)
  BY FS_Subset
<1>2. ASSUME NEW k \in F PROVE Rank(F, k) = Rank(S, k)
  <2>1. \A l \in S : l < k => Rank(S, l) < n
    <3> SUFFICES ASSUME NEW l \in S, l < k PROVE Rank(S, l) < n OBVIOUS
    <3>1. Rank(S, l) < Rank(S, k) /\ Rank(S, l) \in Nat /\ Rank(S, k) \in Nat /\ Rank(S, k) < n
      BY RanksGrow
    <3> QED
      BY <3>1
  <2>2. {l \in F : l < k} = {l \in S : l < k}
    BY <2>1
  <2> QED
    BY <2>2 DEF Rank
<1>3. Cardinality(S) \in Nat /\ \A k \in S : Rank(S, k) \in 0 .. Cardinality(S) - 1
  BY RanksGrow
<1>4. CASE n < Cardinality(S)
  <2>1. r \in [F -> 0 .. n - 1]
    <3> SUFFICES ASSUME NEW k \in F PROVE Rank(S, k) \in 0 .. n - 1 OBVIOUS
    <3>1. Rank(S, k) \in Nat /\ Rank(S, k) < n
      BY <1>3
    <3> QED
      BY <3>1
  <2>2. \A k, l \in F : r[k] = r[l] => k = l
    <3> SUFFICES ASSUME NEW k \in F, NEW l \in F, Rank(S, k) = Rank(S, l) PROVE k = l OBVIOUS
    <3>1. k \in Nat /\ l \in Nat /\ Rank(S, k) \in Nat /\ ~(k < l) /\ ~(l < k)
      BY RanksGrow
    <3> QED
      BY <3>1
  <2>3. \A m \in 0 .. n - 1 : \E k \in F : r[k] = m
    <3> SUFFICES ASSUME NEW m \in 0 .. n - 1 PROVE \E k \in F : r[k] = m OBVIOUS
    <3>1. m + 1 \in 1 .. Cardinality(S)
      BY <1>3, <1>4
    <3>2. \E k \in S : Rank(S, k) = m
      <4>1. /\ Ascending(S)[m + 1] \in S
            /\ Rank(S, Ascending(S)[m + 1]) = (m + 1) - 1
        BY <3>1, NthElement
      <4>2. (m + 1) - 1 = m
        OBVIOUS
      <4> QED
        BY <4>1, <4>2
    <3> QED
      BY <3>2
  <2>4. r \in Bijection(F, 0 .. n - 1)
    BY <2>1, <2>2, <2>3 DEF Bijection, Injection, Surjection, IsInjective
  <2> HIDE DEF F
  <2>5. Cardinality(0 .. n - 1) = Cardinality(F)
    BY <1>1, <2>4, FS_Bijection DEF ExistsBijection
  <2>6. Cardinality(0 .. n - 1) = n
    <3>1. 0 \in Int /\ n - 1 \in Int
      OBVIOUS
    <3> QED
      BY <3>1, FS_Interval
  <2> QED
    BY <1>1, <1>2, <1>4, <2>5, <2>6 DEF F
<1>5. CASE ~(n < Cardinality(S))
  <2>1. F = S
    <3>1. \A k \in S : Rank(S, k) < n
      <4> SUFFICES ASSUME NEW k \in S PROVE Rank(S, k) < n OBVIOUS
      <4>1. Rank(S, k) \in Nat /\ Rank(S, k) < Cardinality(S)
        BY <1>3
      <4> QED
        BY <1>3, <1>5, <4>1
    <3> QED
      BY <3>1
  <2> HIDE DEF F
  <2> QED
    BY <1>1, <1>2, <1>5, <2>1 DEF F
<1> QED
  BY <1>4, <1>5

-----------------------------------------------------------------------------
(* Day 16, the two repositories.                                            *)

\* The two have the same to-dos, item by item, under ids that grow together, and
\* no title twice.
Twins ==
  /\ nextID \in Nat \ {0} /\ identity \in Nat
  /\ DOMAIN twin = 1 .. nextID - 1
  /\ \A i \in DOMAIN twin : twin[i] \in Nat /\ twin[i] < identity
  /\ \A i, j \in DOMAIN twin : i < j => twin[i] < twin[j]
  /\ DOMAIN items \subseteq DOMAIN twin
  /\ DOMAIN rows = {twin[i] : i \in DOMAIN items}
  /\ \A i \in DOMAIN items : rows[twin[i]] = items[i]
  /\ \A i, j \in DOMAIN items : items[i].title = items[j].title => i = j

\* Two answers that differ in the ids only, which are those of twins.
Alike(a, b, ids) ==
  /\ a.status = b.status
  /\ DOMAIN a.todos = DOMAIN b.todos
  /\ \A n \in DOMAIN a.todos :
       /\ a.todos[n].id \in DOMAIN ids /\ ids[a.todos[n].id] = b.todos[n].id
       /\ a.todos[n].todo = b.todos[n].todo

TodosInv == Twins /\ Alike(inMemory, inTable, twin)

LEMMA TodosStart == TodosInit => TodosInv
<1> SUFFICES ASSUME TodosInit PROVE TodosInv OBVIOUS
<1>1. /\ nextID = 1 /\ identity = 1 /\ items = << >> /\ rows = << >> /\ twin = << >>
      /\ inMemory = Refusal("none") /\ inTable = Refusal("none")
  BY DEF TodosInit
<1>2. Twins
  BY <1>1 DEF Twins
<1>3. Alike(inMemory, inTable, twin)
  BY <1>1 DEF Alike, Refusal
<1> QED
  BY <1>2, <1>3 DEF TodosInv

LEMMA TodosImply == TodosInv => Interchangeable
<1> SUFFICES ASSUME TodosInv PROVE Interchangeable OBVIOUS
<1>1. \A i \in DOMAIN twin : i < nextID
  BY DEF TodosInv, Twins
<1>2. /\ DOMAIN rows = {twin[i] : i \in DOMAIN items}
      /\ \A i \in DOMAIN items : rows[twin[i]] = items[i]
  BY DEF TodosInv, Twins
<1>3. \A n \in DOMAIN inMemory.todos : Same(inMemory.todos[n].id, inTable.todos[n].id)
  BY <1>1 DEF TodosInv, Alike, Same
<1> QED
  BY <1>2, <1>3 DEF TodosInv, Alike, Interchangeable

-----------------------------------------------------------------------------
(* One item and its row.                                                    *)

\* Two items have two rows.
LEMMA TwinsDiffer ==
  ASSUME Twins, NEW i \in DOMAIN twin, NEW j \in DOMAIN twin, twin[i] = twin[j]
  PROVE  i = j
<1>1. i \in Nat /\ j \in Nat /\ twin[i] \in Nat /\ ~(i < j) /\ ~(j < i)
  BY DEF Twins
<1> QED
  BY <1>1

\* A request finds an item in memory if it finds its row in the table.
LEMMA TwinOf ==
  ASSUME Twins, NEW i \in 1 .. nextID
  PROVE  /\ i \in DOMAIN items <=> Twin(i) \in DOMAIN rows
         /\ i \in DOMAIN items => i \in DOMAIN twin /\ Twin(i) = twin[i] /\ rows[Twin(i)] = items[i]
<1>1. CASE i < nextID
  <2>1. i \in DOMAIN twin /\ Twin(i) = twin[i]
    BY <1>1 DEF Twins, Twin
  <2>2. twin[i] \in DOMAIN rows => i \in DOMAIN items
    BY <2>1, TwinsDiffer DEF Twins
  <2> QED
    BY <2>1, <2>2 DEF Twins
<1>2. CASE i = nextID
  <2>1. i \notin DOMAIN twin /\ Twin(i) = identity
    BY <1>2 DEF Twins, Twin
  <2>2. identity \notin DOMAIN rows
    BY DEF Twins
  <2> QED
    BY <2>1, <2>2 DEF Twins
<1>3. i < nextID \/ i = nextID
  BY DEF Twins
<1> QED
  BY <1>1, <1>2, <1>3

\* The search for the title and the constraint see the same.
LEMMA TakenIsNotUnique ==
  ASSUME Twins, NEW i \in DOMAIN items, NEW t
  PROVE  Unique([rows EXCEPT ![twin[i]] = t]) <=> ~titleTaken(t.title, i)
<1> DEFINE new == [rows EXCEPT ![twin[i]] = t]
<1>1. /\ DOMAIN new = DOMAIN rows /\ twin[i] \in DOMAIN rows /\ new[twin[i]] = t
      /\ \A j \in DOMAIN items \ {i} : twin[j] \in DOMAIN rows /\ new[twin[j]] = items[j]
  <2>1. \A j \in DOMAIN items \ {i} : twin[j] # twin[i]
    BY TwinsDiffer DEF Twins
  <2> QED
    BY <2>1 DEF Twins
<1> HIDE DEF new
<1>2. ASSUME titleTaken(t.title, i) PROVE ~Unique(new)
  <2>1. PICK j \in DOMAIN items \ {i} : items[j].title = t.title
    BY <1>2 DEF titleTaken
  <2>2. twin[j] # twin[i]
    BY TwinsDiffer DEF Twins
  <2> QED
    BY <1>1, <2>1, <2>2 DEF Unique
<1>3. ASSUME ~titleTaken(t.title, i) PROVE Unique(new)
  <2> SUFFICES ASSUME NEW k \in DOMAIN new, NEW l \in DOMAIN new, new[k].title = new[l].title
               PROVE  k = l
    BY DEF Unique
  <2>1. PICK j \in DOMAIN items, m \in DOMAIN items : k = twin[j] /\ l = twin[m]
    BY <1>1 DEF Twins
  <2>2. CASE j = i /\ m # i
    BY <1>1, <1>3, <2>1, <2>2 DEF titleTaken
  <2>3. CASE j # i /\ m = i
    BY <1>1, <1>3, <2>1, <2>3 DEF titleTaken
  <2>4. CASE j # i /\ m # i
    <3>1. items[j].title = items[m].title
      BY <1>1, <2>1, <2>4
    <3> QED
      BY <2>1, <3>1 DEF Twins
  <2> QED
    BY <2>1, <2>2, <2>3, <2>4
<1> QED
  BY <1>2, <1>3 DEF new

\* The mutex check of the map and the unique index of the table refuse the same
\* titles.
LEMMA NewTitle ==
  ASSUME Twins, NEW t
  PROVE  Unique(Assign(rows, identity, t)) <=> ~titleTaken(t.title, 0)
<1> DEFINE new == Assign(rows, identity, t)
<1>1. /\ DOMAIN new = DOMAIN rows \cup {identity} /\ new[identity] = t
      /\ \A j \in DOMAIN items : twin[j] \in DOMAIN new /\ new[twin[j]] = items[j] /\ twin[j] # identity
      /\ \A j \in DOMAIN items : j # 0
  BY DEF Twins, Assign
<1> HIDE DEF new
<1>2. ASSUME titleTaken(t.title, 0) PROVE ~Unique(new)
  <2>1. PICK j \in DOMAIN items \ {0} : items[j].title = t.title
    BY <1>2 DEF titleTaken
  <2> QED
    BY <1>1, <2>1 DEF Unique
<1>3. ASSUME ~titleTaken(t.title, 0) PROVE Unique(new)
  <2> SUFFICES ASSUME NEW k \in DOMAIN new, NEW l \in DOMAIN new, new[k].title = new[l].title
               PROVE  k = l
    BY DEF Unique
  <2>1. k = identity \/ \E j \in DOMAIN items : k = twin[j]
    BY <1>1 DEF Twins
  <2>2. l = identity \/ \E j \in DOMAIN items : l = twin[j]
    BY <1>1 DEF Twins
  <2>3. \A j \in DOMAIN items : new[twin[j]].title # t.title
    BY <1>1, <1>3 DEF titleTaken
  <2>4. \A j, m \in DOMAIN items : new[twin[j]].title = new[twin[m]].title => j = m
    <3>1. \A j, m \in DOMAIN items : items[j].title = items[m].title => j = m
      BY DEF Twins
    <3> QED
      BY <1>1, <3>1
  <2> QED
    BY <1>1, <2>1, <2>2, <2>3, <2>4
<1> QED
  BY <1>2, <1>3 DEF new

\* Both refuse, or both show an item and its row.
LEMMA BothRefuse ==
  ASSUME NEW s, NEW ids PROVE Alike(Refusal(s), Refusal(s), ids)
BY DEF Alike, Refusal

\* An item and its row are shown alike.
LEMMA BothShow ==
  ASSUME NEW s, NEW m, NEW r, NEW ids, NEW i \in DOMAIN ids, m[i] = r[ids[i]]
  PROVE  Alike(Found(s, m, <<i>>), Found(s, r, <<ids[i]>>), ids)
<1>1. DOMAIN <<i>> = {1} /\ <<i>>[1] = i /\ DOMAIN <<ids[i]>> = {1} /\ <<ids[i]>>[1] = ids[i]
  OBVIOUS
<1> QED
  BY <1>1 DEF Alike, Found

-----------------------------------------------------------------------------
(* The requests.                                                            *)

\* A request that changes neither store leaves them twins, also when the table has
\* used up an id.
LEMMA TwinsStay ==
  ASSUME Twins, UNCHANGED <<items, nextID, rows, twin>>, identity' \in {identity, identity + 1}
  PROVE  Twins'
<1>1. identity' \in Nat /\ \A i \in DOMAIN twin : twin[i] < identity'
  BY DEF Twins
<1> QED
  BY <1>1 DEF Twins

\* A create is refused by both, or gives both a new to-do.
LEMMA CreateBoth ==
  ASSUME Twins, NEW t, MemoryCreate(t), TableCreate(t),
         twin' = IF nextID' # nextID THEN Assign(twin, nextID, identity) ELSE twin
  PROVE  TodosInv'
<1>1. identity' = identity + 1
  BY DEF TableCreate
<1>2. CASE titleTaken(t.title, 0)
  <2>1. inMemory' = Refusal("conflict") /\ UNCHANGED <<items, nextID>>
    BY <1>2 DEF MemoryCreate, MemoryFails
  <2>2. inTable' = Refusal("conflict") /\ UNCHANGED rows
    BY <1>2, NewTitle DEF TableCreate, TableFails
  <2>3. twin' = twin
    BY <2>1
  <2>4. Twins'
    BY <1>1, <2>1, <2>2, <2>3, TwinsStay
  <2> QED
    BY <2>1, <2>2, <2>4, BothRefuse DEF TodosInv
<1>3. CASE ~titleTaken(t.title, 0)
  <2> DEFINE i == nextID
             k == identity
  <2>1. /\ items' = Assign(items, i, t) /\ nextID' = nextID + 1
        /\ inMemory' = Found("created", items', <<i>>)
    BY <1>3 DEF MemoryCreate
  <2>2. rows' = Assign(rows, k, t) /\ inTable' = Found("created", rows', <<k>>)
    BY <1>3, NewTitle DEF TableCreate
  <2>3. /\ i \in Nat \ {0} /\ k \in Nat /\ i \notin DOMAIN twin
        /\ DOMAIN items \subseteq DOMAIN twin
        /\ \A j \in DOMAIN twin : twin[j] \in Nat /\ twin[j] < k
    BY DEF Twins
  <2>4. twin' = Assign(twin, i, k)
    BY <2>1, <2>3
  <2> HIDE DEF i, k
  <2>5. /\ DOMAIN items' = DOMAIN items \cup {i} /\ items'[i] = t
        /\ \A j \in DOMAIN items \ {i} : items'[j] = items[j]
    BY <2>1 DEF Assign
  <2>6. /\ DOMAIN rows' = DOMAIN rows \cup {k} /\ rows'[k] = t
        /\ \A l \in DOMAIN rows \ {k} : rows'[l] = rows[l]
    BY <2>2 DEF Assign
  <2>7. /\ DOMAIN twin' = DOMAIN twin \cup {i} /\ twin'[i] = k
        /\ \A j \in DOMAIN twin \ {i} : twin'[j] = twin[j]
    BY <2>4 DEF Assign
  <2>8. Twins'
    <3>1. /\ nextID' \in Nat \ {0} /\ identity' \in Nat /\ identity' = k + 1
          /\ DOMAIN twin' = 1 .. nextID' - 1
      <4>1. DOMAIN twin = 1 .. i - 1 /\ nextID' = i + 1 /\ identity' = k + 1
        BY <1>1, <2>1 DEF Twins, i, k
      <4>2. 1 .. nextID' - 1 = (1 .. i - 1) \cup {i}
        BY <2>3, <4>1
      <4>3. nextID' \in Nat \ {0} /\ identity' \in Nat
        BY <2>3, <4>1
      <4>4. DOMAIN twin' = 1 .. nextID' - 1
        BY <2>7, <4>1, <4>2
      <4> QED
        BY <4>1, <4>3, <4>4
    <3>2. \A j \in DOMAIN twin' : twin'[j] \in Nat /\ twin'[j] < identity'
      BY <2>3, <2>7, <3>1
    <3>3. ASSUME NEW j \in DOMAIN twin', NEW m \in DOMAIN twin', j < m PROVE twin'[j] < twin'[m]
      <4>1. \A n \in DOMAIN twin : n < i /\ n \in Nat
        BY DEF Twins, i
      <4>2. j # i
        BY <2>3, <2>7, <3>3, <4>1
      <4>3. CASE m = i
        BY <2>3, <2>7, <4>2, <4>3
      <4>4. CASE m # i
        BY <2>3, <2>7, <3>3, <4>2, <4>4 DEF Twins
      <4> QED
        BY <4>3, <4>4
    <3>4. DOMAIN items' \subseteq DOMAIN twin'
      BY <2>3, <2>5, <2>7
    <3>5. DOMAIN rows' = {twin'[j] : j \in DOMAIN items'}
      BY <2>3, <2>5, <2>6, <2>7 DEF Twins
    <3>6. \A j \in DOMAIN items' : rows'[twin'[j]] = items'[j]
      BY <2>3, <2>5, <2>6, <2>7 DEF Twins
    <3>7. ASSUME NEW j \in DOMAIN items', NEW m \in DOMAIN items', items'[j].title = items'[m].title
          PROVE  j = m
      <4>1. \A n \in DOMAIN items : items[n].title # t.title
        BY <1>3 DEF titleTaken, Twins
      <4>2. \A n \in DOMAIN items : items'[n] = items[n]
        BY <2>3, <2>5
      <4> QED
        BY <2>5, <3>7, <4>1, <4>2 DEF Twins
    <3> QED
      BY <3>1, <3>2, <3>3, <3>4, <3>5, <3>6, <3>7 DEF Twins
  <2>9. Alike(inMemory', inTable', twin')
    <3>1. i \in DOMAIN twin' /\ items'[i] = rows'[twin'[i]] /\ twin'[i] = k
      BY <2>5, <2>6, <2>7
    <3>2. Alike(Found("created", items', <<i>>), Found("created", rows', <<twin'[i]>>), twin')
      BY <3>1, BothShow
    <3> QED
      BY <2>1, <2>2, <3>1, <3>2
  <2> QED
    BY <2>8, <2>9 DEF TodosInv
<1> QED
  BY <1>2, <1>3

\* Both find a to-do, or neither does.
LEMMA GetBoth ==
  ASSUME Twins, NEW i \in 1 .. nextID, MemoryGet(i), TableGet(Twin(i)), twin' = twin
  PROVE  TodosInv'
<1>1. UNCHANGED <<items, nextID, rows, identity>>
  BY DEF MemoryGet, TableGet
<1>2. Twins'
  BY <1>1, TwinsStay
<1>3. CASE i \in DOMAIN items
  <2>1. /\ inMemory' = Found("ok", items, <<i>>) /\ inTable' = Found("ok", rows, <<twin[i]>>)
        /\ i \in DOMAIN twin /\ items[i] = rows[twin[i]]
    BY <1>3, TwinOf DEF MemoryGet, TableGet
  <2> QED
    BY <1>2, <2>1, BothShow DEF TodosInv
<1>4. CASE i \notin DOMAIN items
  <2>1. inMemory' = Refusal("not found") /\ inTable' = Refusal("not found")
    BY <1>4, TwinOf DEF MemoryGet, TableGet
  <2> QED
    BY <1>2, <2>1, BothRefuse DEF TodosInv
<1> QED
  BY <1>3, <1>4

\* Both delete a to-do, or neither has it.
LEMMA DeleteBoth ==
  ASSUME Twins, NEW i \in 1 .. nextID, MemoryDelete(i), TableDelete(Twin(i)), twin' = twin
  PROVE  TodosInv'
<1>1. identity' = identity
  BY DEF TableDelete
<1>2. CASE i \in DOMAIN items
  <2>1. /\ items' = Without(items, i) /\ rows' = Without(rows, twin[i]) /\ nextID' = nextID
        /\ inMemory' = Refusal("no content") /\ inTable' = Refusal("no content")
    BY <1>2, TwinOf DEF MemoryDelete, TableDelete
  <2>2. /\ DOMAIN items' = DOMAIN items \ {i} /\ DOMAIN rows' = DOMAIN rows \ {twin[i]}
        /\ \A j \in DOMAIN items \ {i} : items'[j] = items[j]
        /\ \A k \in DOMAIN rows \ {twin[i]} : rows'[k] = rows[k]
    BY <2>1 DEF Without
  <2>3. \A j \in DOMAIN items \ {i} : twin[j] # twin[i]
    BY <1>2, TwinsDiffer DEF Twins
  <2>4. DOMAIN rows' = {twin[j] : j \in DOMAIN items'}
    BY <2>2, <2>3 DEF Twins
  <2>5. \A j \in DOMAIN items' : rows'[twin[j]] = items'[j]
    BY <2>2, <2>3 DEF Twins
  <2>6. Twins'
    <3>1. /\ DOMAIN items' \subseteq DOMAIN twin
          /\ \A j, m \in DOMAIN items' : items'[j].title = items'[m].title => j = m
      BY <2>2 DEF Twins
    <3>2. /\ nextID \in Nat \ {0} /\ identity \in Nat /\ DOMAIN twin = 1 .. nextID - 1
          /\ \A j \in DOMAIN twin : twin[j] \in Nat /\ twin[j] < identity
          /\ \A j, m \in DOMAIN twin : j < m => twin[j] < twin[m]
      BY DEF Twins
    <3>3. nextID' = nextID
      BY <2>1
    <3> QED
      BY <1>1, <2>4, <2>5, <3>1, <3>2, <3>3 DEF Twins
  <2> QED
    BY <2>1, <2>6, BothRefuse DEF TodosInv
<1>3. CASE i \notin DOMAIN items
  <2>1. /\ UNCHANGED <<items, nextID, rows>>
        /\ inMemory' = Refusal("not found") /\ inTable' = Refusal("not found")
    BY <1>3, TwinOf DEF MemoryDelete, TableDelete, MemoryFails, TableFails
  <2>2. Twins'
    BY <1>1, <2>1, TwinsStay
  <2> QED
    BY <2>1, <2>2, BothRefuse DEF TodosInv
<1> QED
  BY <1>2, <1>3

\* An update or a patch that sets title and done gives both the same to-do, or is
\* refused by both.
LEMMA SetBoth ==
  ASSUME Twins, NEW i \in 1 .. nextID, NEW t, MemoryUpdate(i, t), TableSets(Twin(i), t), twin' = twin
  PROVE  TodosInv'
<1>1. identity' = identity
  BY DEF TableSets
<1>2. CASE i \in DOMAIN items /\ ~titleTaken(t.title, i)
  <2>1. /\ items' = [items EXCEPT ![i] = t] /\ nextID' = nextID
        /\ inMemory' = Found("ok", items', <<i>>)
    BY <1>2 DEF MemoryUpdate, MemoryWrites
  <2>2. /\ rows' = [rows EXCEPT ![twin[i]] = t] /\ i \in DOMAIN twin
        /\ inTable' = Found("ok", rows', <<twin[i]>>) /\ twin[i] \in DOMAIN rows
    BY <1>2, TwinOf, TakenIsNotUnique DEF TableSets
  <2>3. /\ DOMAIN items' = DOMAIN items /\ DOMAIN rows' = DOMAIN rows
        /\ items'[i] = t /\ rows'[twin[i]] = t
        /\ \A j \in DOMAIN items \ {i} : items'[j] = items[j]
        /\ \A k \in DOMAIN rows \ {twin[i]} : rows'[k] = rows[k]
    BY <1>2, <2>1, <2>2
  <2>4. \A j \in DOMAIN items \ {i} : twin[j] # twin[i]
    BY <1>2, TwinsDiffer DEF Twins
  <2>5. \A j \in DOMAIN items' : rows'[twin[j]] = items'[j]
    BY <2>3, <2>4 DEF Twins
  <2>6. ASSUME NEW j \in DOMAIN items', NEW m \in DOMAIN items', items'[j].title = items'[m].title
        PROVE  j = m
    <3>1. \A n \in DOMAIN items \ {i} : items'[n].title # t.title
      BY <1>2, <2>3 DEF titleTaken
    <3>2. CASE j = i \/ m = i
      BY <2>3, <2>6, <3>1, <3>2
    <3>3. CASE j # i /\ m # i
      BY <2>3, <2>6, <3>3 DEF Twins
    <3> QED
      BY <3>2, <3>3
  <2>7. Twins'
    BY <1>1, <2>1, <2>3, <2>5, <2>6 DEF Twins
  <2>8. Alike(Found("ok", items', <<i>>), Found("ok", rows', <<twin[i]>>), twin)
    BY <2>2, <2>3, BothShow
  <2> QED
    BY <2>1, <2>2, <2>7, <2>8 DEF TodosInv
<1>3. ASSUME NEW s, inMemory' = Refusal(s), inTable' = Refusal(s), UNCHANGED <<items, nextID, rows>>
      PROVE  TodosInv'
  <2>1. Twins'
    BY <1>1, <1>3, TwinsStay
  <2> QED
    BY <1>3, <2>1, BothRefuse DEF TodosInv
<1>4. CASE i \in DOMAIN items /\ titleTaken(t.title, i)
  <2>1. /\ UNCHANGED <<items, nextID, rows>>
        /\ inMemory' = Refusal("conflict") /\ inTable' = Refusal("conflict")
    BY <1>4, TwinOf, TakenIsNotUnique DEF MemoryUpdate, TableSets, MemoryFails, TableFails
  <2> QED
    BY <1>3, <2>1
<1>5. CASE i \notin DOMAIN items
  <2>1. /\ UNCHANGED <<items, nextID, rows>>
        /\ inMemory' = Refusal("not found") /\ inTable' = Refusal("not found")
    BY <1>5, TwinOf DEF MemoryUpdate, TableSets, MemoryFails, TableFails
  <2> QED
    BY <1>3, <2>1
<1> QED
  BY <1>2, <1>4, <1>5

\* A patch is an update with what it leaves out taken from the item.
LEMMA PatchBoth ==
  ASSUME Twins, NEW i \in 1 .. nextID, NEW p, MemoryPatch(i, p), TablePatch(Twin(i), p), twin' = twin
  PROVE  TodosInv'
<1> DEFINE item == IF i \in DOMAIN items THEN items[i] ELSE p
           t == [title |-> IF p.title = Absent THEN item.title ELSE p.title,
                 done |-> IF p.done = Absent THEN item.done ELSE p.done]
<1>1. TableSets(Twin(i), t)
  BY TwinOf DEF TablePatch, Coalesce
<1>2. i \in DOMAIN items => (titleTaken(t.title, i) <=> p.title # Absent /\ titleTaken(p.title, i))
  <2>1. i \in DOMAIN items => ~titleTaken(items[i].title, i)
    BY DEF titleTaken, Twins
  <2> QED
    BY <2>1
<1>3. MemoryUpdate(i, t)
  BY <1>2 DEF MemoryPatch, MemoryUpdate
<1> HIDE DEF t
<1> QED
  BY <1>1, <1>3, SetBoth

\* The list in memory, cut after it was sorted, and the rows that LIMIT lets
\* through, sorted, are the same twins.
LEMMA CutsAgree ==
  ASSUME Twins, NEW S \in SUBSET DOMAIN items, NEW limit \in Nat
  PROVE  LET T == {twin[i] : i \in S}
             out == Ascending(S)
             cut == IF limit > 0 /\ Len(out) > limit THEN SubSeq(out, 1, limit) ELSE out
             first == {k \in T : limit > 0 => Rank(T, k) < limit}
         IN  /\ DOMAIN cut = DOMAIN Ascending(first)
             /\ \A n \in DOMAIN cut : cut[n] \in S /\ twin[cut[n]] = Ascending(first)[n]
<1> DEFINE T == {twin[i] : i \in S}
           out == Ascending(S)
           cut == IF limit > 0 /\ Len(out) > limit THEN SubSeq(out, 1, limit) ELSE out
           first == {k \in T : limit > 0 => Rank(T, k) < limit}
           size == Cardinality(S)
           shown == IF limit > 0 /\ size > limit THEN limit ELSE size
<1>1. S \in SUBSET Nat /\ IsFiniteSet(S)
  <2>1. S \in SUBSET (1 .. nextID - 1) /\ nextID - 1 \in Int /\ 1 \in Int
    BY DEF Twins
  <2>2. IsFiniteSet(1 .. nextID - 1)
    BY <2>1, FS_Interval
  <2> QED
    BY <2>1, <2>2, FS_Subset
<1>2. size \in Nat /\ \A i \in S : Rank(S, i) \in 0 .. size - 1
  BY <1>1, RanksGrow
<1>3. T \in SUBSET Nat /\ IsFiniteSet(T) /\ Cardinality(T) = size
  <2>1. \A i, j \in S : twin[i] = twin[j] => i = j
    BY TwinsDiffer DEF Twins
  <2>2. IsFiniteSet(T) /\ Cardinality(T) = size
    BY <1>1, <2>1, SameSize
  <2> QED
    BY <2>2 DEF Twins
<1>4. ASSUME NEW i \in S PROVE Rank(T, twin[i]) = Rank(S, i)
  <2>1. (\A j \in S : twin[j] \in Nat) /\ (\A j, k \in S : j < k => twin[j] < twin[k])
    BY DEF Twins
  <2> QED
    BY <1>1, <2>1, SameRank
<1>5. out \in Seq(S) /\ Len(out) = size /\ \A n \in 1 .. size : out[n] \in S /\ Rank(S, out[n]) = n - 1
  <2>1. \A n \in 1 .. size : out[n] \in S /\ Rank(S, out[n]) = n - 1
    BY <1>1, NthElement
  <2>2. DOMAIN out = 1 .. size /\ out = [n \in 1 .. size |-> out[n]]
    BY DEF Ascending
  <2> HIDE DEF out, size
  <2>3. out \in [1 .. size -> S]
    BY <2>1, <2>2
  <2> QED
    BY <1>2, <2>1, <2>3
<1>6. /\ cut \in Seq(S) /\ DOMAIN cut = 1 .. shown
      /\ \A n \in 1 .. shown : cut[n] \in S /\ Rank(S, cut[n]) = n - 1
  <2> HIDE DEF out, size
  <2>1. CASE limit > 0 /\ size > limit
    <3>1. cut = SubSeq(out, 1, limit) /\ shown = limit
      BY <1>5, <2>1
    <3>2. \A n \in 1 .. limit : n \in 1 .. size
      BY <1>2, <2>1
    <3>3. /\ SubSeq(out, 1, limit) \in Seq(S) /\ Len(SubSeq(out, 1, limit)) = limit
          /\ \A n \in 1 .. limit : SubSeq(out, 1, limit)[n] = out[n]
      BY <1>5, <2>1, <3>2, SubSeqProperties
    <3> QED
      BY <1>5, <3>1, <3>2, <3>3
  <2>2. CASE ~(limit > 0 /\ size > limit)
    <3>1. cut = out /\ shown = size
      BY <1>5, <2>2
    <3> QED
      BY <1>5, <3>1
  <2> QED
    BY <2>1, <2>2
<1>7. /\ first \in SUBSET Nat /\ IsFiniteSet(first) /\ Cardinality(first) = shown
      /\ \A k \in first : Rank(first, k) = Rank(T, k)
      /\ \A k \in T : k \in first <=> (limit > 0 => Rank(T, k) < limit)
  <2> HIDE DEF T
  <2>1. CASE limit > 0
    <3>1. first = {k \in T : Rank(T, k) < limit}
      BY <2>1
    <3> HIDE DEF first, size
    <3>2. /\ Cardinality(first) = IF limit < Cardinality(T) THEN limit ELSE Cardinality(T)
          /\ IsFiniteSet(first) /\ \A k \in first : Rank(first, k) = Rank(T, k)
      BY <1>3, <3>1, Beginning
    <3>3. Cardinality(first) = shown
      BY <1>2, <1>3, <2>1, <3>2
    <3> QED
      BY <1>3, <2>1, <3>1, <3>2, <3>3
  <2>2. CASE ~(limit > 0)
    <3>1. first = T
      BY <2>2
    <3> QED
      BY <1>3, <2>2, <3>1
  <2> QED
    BY <2>1, <2>2
<1>8. DOMAIN Ascending(first) = 1 .. shown
  <2> HIDE DEF first, shown
  <2> QED
    BY <1>7 DEF Ascending
<1>9. ASSUME NEW n \in 1 .. shown PROVE cut[n] \in S /\ twin[cut[n]] = Ascending(first)[n]
  <2>1. cut[n] \in S /\ Rank(S, cut[n]) = n - 1
    BY <1>6
  <2> HIDE DEF cut
  <2>2. twin[cut[n]] \in T /\ Rank(T, twin[cut[n]]) = n - 1
    BY <1>4, <2>1
  <2>3. limit > 0 => n - 1 < limit
    BY <1>2
  <2> HIDE DEF T, shown
  <2>4. twin[cut[n]] \in first /\ Rank(first, twin[cut[n]]) = n - 1
    BY <1>7, <2>2, <2>3
  <2> HIDE DEF first
  <2>5. n \in 1 .. Cardinality(first)
    BY <1>7
  <2>6. \A k \in first : Rank(first, k) = n - 1 => k = Ascending(first)[n]
    BY <1>7, <2>5, NthElement
  <2> QED
    BY <2>1, <2>4, <2>6
<1> HIDE DEF cut, first, shown
<1>10. DOMAIN cut = DOMAIN Ascending(first)
  BY <1>6, <1>8
<1>11. \A n \in DOMAIN cut : cut[n] \in S /\ twin[cut[n]] = Ascending(first)[n]
  BY <1>6, <1>9
<1> QED
  BY <1>10, <1>11 DEF cut, first

\* A listing of the rows is the listing of the items: the filters pass twins, ranks
\* are kept by twins, and so are the first of them.
LEMMA ListBoth ==
  ASSUME Twins, NEW f \in Filter, MemoryList(f), TableList(f), twin' = twin
  PROVE  TodosInv'
<1> DEFINE S == {i \in DOMAIN items : /\ f.done # Absent => items[i].done = f.done
                                      /\ f.search # Absent => <<items[i].title, f.search>> \in Matching}
           done == {k \in DOMAIN rows : f.done = Absent \/ rows[k].done = f.done}
           like == {k \in DOMAIN rows : f.search = Absent \/ <<rows[k].title, f.search>> \in Matching}
           T == {twin[i] : i \in S}
           out == Ascending(S)
           cut == IF f.limit > 0 /\ Len(out) > f.limit THEN SubSeq(out, 1, f.limit) ELSE out
           first == {k \in T : f.limit > 0 => Rank(T, k) < f.limit}
<1>1. /\ UNCHANGED <<items, nextID, rows, identity>> /\ inMemory' = Found("ok", items, cut)
  BY DEF MemoryList, TableList
<1>2. done \cap like = T
  <2>1. DOMAIN rows = {twin[i] : i \in DOMAIN items} /\ \A i \in DOMAIN items : rows[twin[i]] = items[i]
    BY DEF Twins
  <2>2. done \cap like \subseteq T
    BY <2>1
  <2>3. T \subseteq done \cap like
    BY <2>1
  <2> QED
    BY <2>2, <2>3
<1>3. inTable' = Found("ok", rows, Ascending(first))
  <2>1. inTable' = Found("ok", rows, Ascending({k \in done \cap like :
                                      f.limit > 0 => Rank(done \cap like, k) < f.limit}))
    BY DEF TableList
  <2> HIDE DEF done, like, T
  <2> QED
    BY <1>2, <2>1
<1>4. /\ DOMAIN cut = DOMAIN Ascending(first)
      /\ \A n \in DOMAIN cut : cut[n] \in S /\ twin[cut[n]] = Ascending(first)[n]
  <2>1. S \in SUBSET DOMAIN items /\ f.limit \in Nat
    BY DEF Filter
  <2> HIDE DEF S
  <2> QED
    BY <2>1, CutsAgree
<1> HIDE DEF first, cut
<1>5. \A n \in DOMAIN cut : /\ cut[n] \in DOMAIN twin
                            /\ items[cut[n]] = rows[Ascending(first)[n]]
  BY <1>4 DEF Twins
<1>6. Alike(inMemory', inTable', twin)
  BY <1>1, <1>3, <1>4, <1>5 DEF Alike, Found
<1> QED
  BY <1>1, <1>6, TwinsStay DEF TodosInv

\* The invariant of the two repositories is inductive.
LEMMA TodosStep == TodosInv /\ [TodosNext]_todoVars => TodosInv'
<1> SUFFICES ASSUME TodosInv, [TodosNext]_todoVars PROVE TodosInv' OBVIOUS
<1>1. Twins /\ Alike(inMemory, inTable, twin)
  BY DEF TodosInv
<1>2. CASE TodosNext
  <2>1. Request /\ twin' = IF nextID' # nextID THEN Assign(twin, nextID, identity) ELSE twin
    BY <1>2 DEF TodosNext
  <2>2. CASE \E t \in Todo : MemoryCreate(t) /\ TableCreate(t)
    BY <1>1, <2>1, <2>2, CreateBoth
  <2>3. CASE \E f \in Filter : MemoryList(f) /\ TableList(f)
    <3>1. twin' = twin
      BY <2>1, <2>3 DEF MemoryList
    <3> QED
      BY <1>1, <2>3, <3>1, ListBoth
  <2>4. ASSUME NEW i \in 1 .. nextID, MemoryGet(i), TableGet(Twin(i)) PROVE TodosInv'
    <3>1. twin' = twin
      BY <2>1, <2>4 DEF MemoryGet
    <3> QED
      BY <1>1, <2>4, <3>1, GetBoth
  <2>5. ASSUME NEW i \in 1 .. nextID, MemoryDelete(i), TableDelete(Twin(i)) PROVE TodosInv'
    <3>1. twin' = twin
      BY <2>1, <2>5 DEF MemoryDelete, MemoryFails
    <3> QED
      BY <1>1, <2>5, <3>1, DeleteBoth
  <2>6. ASSUME NEW i \in 1 .. nextID, NEW t \in Todo, MemoryUpdate(i, t), TableUpdate(Twin(i), t)
        PROVE  TodosInv'
    <3>1. twin' = twin
      BY <2>1, <2>6 DEF MemoryUpdate, MemoryFails, MemoryWrites
    <3>2. TableSets(Twin(i), t)
      BY <2>6 DEF TableUpdate
    <3> QED
      BY <1>1, <2>6, <3>1, <3>2, SetBoth
  <2>7. ASSUME NEW i \in 1 .. nextID, NEW p \in Change, Patch(i, p) PROVE TodosInv'
    <3>1. CASE /\ inMemory' = Refusal("bad request") /\ inTable' = Refusal("bad request")
               /\ UNCHANGED <<items, nextID, rows, identity>>
      BY <1>1, <2>1, <3>1, TwinsStay, BothRefuse DEF TodosInv
    <3>2. CASE MemoryPatch(i, p) /\ TablePatch(Twin(i), p)
      <4>1. twin' = twin
        BY <2>1, <3>2 DEF MemoryPatch, MemoryFails, MemoryWrites
      <4> QED
        BY <1>1, <3>2, <4>1, PatchBoth
    <3> QED
      BY <2>7, <3>1, <3>2 DEF Patch
  <2> QED
    BY <2>1, <2>2, <2>3, <2>4, <2>5, <2>6, <2>7 DEF Request
<1>3. CASE UNCHANGED todoVars
  BY <1>1, <1>3 DEF todoVars, TodosInv, Twins, Alike
<1> QED
  BY <1>2, <1>3

-----------------------------------------------------------------------------
(* All programs.                                                            *)

\* What holds of each program, together.
ExercisesInv ==
  /\ FanInv /\ FetchInv /\ LimitInv /\ LeaksInv /\ CountInv /\ OnceInv
  /\ PoolInv /\ SemInv /\ UsersInv /\ AccountsInv /\ TodosInv

\* One program moves at a time, and the others stay as they are.
ProgramsStep ==
  /\ [FanNext]_fanVars /\ [FetchNext]_fetchVars /\ [LimitNext]_limitVars
  /\ [LeaksNext]_leakVars /\ [CountNext]_countVars /\ [OnceNext]_onceVars
  /\ [PoolNext]_poolVars /\ [SemNext]_semVars
  /\ [UsersNext]_userVars /\ [TodosNext]_todoVars /\ [AccountsNext]_accountVars

LEMMA OneAtATime == [Next]_exercises => ProgramsStep
<1> SUFFICES ASSUME [Next]_exercises PROVE ProgramsStep OBVIOUS
<1> USE DEF ProgramsStep, groupVars, goroutineVars, boundedVars, storeVars
<1>1. CASE FanNext /\ UNCHANGED <<groupVars, goroutineVars, boundedVars, storeVars, second>>
  BY <1>1
<1>2. CASE Second("errgroup") /\ FetchNext
             /\ UNCHANGED <<limitVars, goroutineVars, boundedVars, storeVars>>
  BY <1>2 DEF Second
<1>3. CASE Second("errgroup_limit") /\ LimitNext
             /\ UNCHANGED <<fetchVars, goroutineVars, boundedVars, storeVars>>
  BY <1>3 DEF Second
<1>4. CASE Second("leaks") /\ LeaksNext
             /\ UNCHANGED <<groupVars, countVars, onceVars, boundedVars, storeVars>>
  BY <1>4 DEF Second
<1>5. CASE Second("counters") /\ CountNext
             /\ UNCHANGED <<groupVars, leakVars, onceVars, boundedVars, storeVars>>
  BY <1>5 DEF Second
<1>6. CASE Second("once") /\ OnceNext
             /\ UNCHANGED <<groupVars, leakVars, countVars, boundedVars, storeVars>>
  BY <1>6 DEF Second
<1>7. CASE Second("workerpool") /\ PoolNext
             /\ UNCHANGED <<groupVars, goroutineVars, semVars, storeVars>>
  BY <1>7 DEF Second
<1>8. CASE Second("semaphore") /\ SemNext
             /\ UNCHANGED <<groupVars, goroutineVars, poolVars, storeVars>>
  BY <1>8 DEF Second
<1>9. CASE Second("users") /\ UsersNext
             /\ UNCHANGED <<groupVars, goroutineVars, boundedVars, todoVars, accountVars>>
  BY <1>9 DEF Second
<1>10. CASE Second("todos") /\ TodosNext
              /\ UNCHANGED <<groupVars, goroutineVars, boundedVars, userVars, accountVars>>
  BY <1>10 DEF Second
<1>11. CASE Second("accounts") /\ AccountsNext
              /\ UNCHANGED <<groupVars, goroutineVars, boundedVars, userVars, todoVars>>
  BY <1>11 DEF Second
<1>12. CASE UNCHANGED exercises
  BY <1>12 DEF exercises
<1> QED
  BY <1>1, <1>2, <1>3, <1>4, <1>5, <1>6, <1>7, <1>8, <1>9, <1>10, <1>11, <1>12 DEF Next

LEMMA ExercisesStart == Init => ExercisesInv
BY FanStart, FetchStart, LimitStart, LeaksStart, CountStart, OnceStart, PoolStart, SemStart,
   UsersStart, AccountsStart, TodosStart
DEF Init, ExercisesInv

\* The invariants of the programs hold side by side.
LEMMA ExercisesStep == ExercisesInv /\ [Next]_exercises => ExercisesInv'
<1> SUFFICES ASSUME ExercisesInv, [Next]_exercises PROVE ExercisesInv' OBVIOUS
<1>1. ProgramsStep
  BY OneAtATime
<1>2. FanInv'
  BY <1>1, FanStep DEF ProgramsStep, ExercisesInv
<1>3. FetchInv' /\ LimitInv'
  BY <1>1, FetchStep, JobTypesStep, SlotsStep, RecordedStep DEF ProgramsStep, ExercisesInv, LimitInv
<1>4. LeaksInv' /\ CountInv' /\ OnceInv' /\ PoolInv' /\ SemInv'
  BY <1>1, LeaksStep, CountStep, OnceStep, PoolStep, SemStep DEF ProgramsStep, ExercisesInv
<1>5. UsersInv' /\ AccountsInv' /\ TodosInv'
  BY <1>1, UsersStep, AccountsStep, TodosStep DEF ProgramsStep, ExercisesInv
<1> QED
  BY <1>2, <1>3, <1>4, <1>5 DEF ExercisesInv

LEMMA ExercisesInvariance == Spec => []ExercisesInv
BY ExercisesStart, ExercisesStep, PTL DEF Spec

\* Every program prints what its comments say, and leaves behind what they say:
\* for every number of goroutines, and every order in which they run.
THEOREM ExercisesAreRight == Spec => []ResultsAreRight
<1>1. ExercisesInv => ResultsAreRight
  BY FanImplies, GroupsImply, LeaksImply, CountImplies, OnceImplies, PoolImplies, SemImplies,
     UsersImply, AccountsImply
  DEF ExercisesInv, ResultsAreRight
<1> QED
  BY <1>1, ExercisesInvariance, PTL

\* The two repositories of the to-dos give the same answers to the same requests,
\* but for the ids, and have the same contents, however many requests there are.
THEOREM RepositoriesAreTwins == Spec => []Interchangeable
<1>1. ExercisesInv => Interchangeable
  BY TodosImply DEF ExercisesInv
<1> QED
  BY <1>1, ExercisesInvariance, PTL

\* The pipeline implements the stream in every program that begins with it.
THEOREM ExercisesDeliver == Spec => DeliversStream
<1>1. Init => Promise!Init
  BY PromiseStart DEF Init
<1>2. ExercisesInv /\ [Next]_exercises => [Promise!Next]_<<got, ~ranging>>
  BY OneAtATime, PromiseStep DEF ExercisesInv, ProgramsStep
<1> QED
  BY <1>1, <1>2, ExercisesInvariance, PTL DEF Spec, DeliversStream, Promise!Spec
=============================================================================
