-------------------------- MODULE TokenBucket_proofs --------------------------
(***************************************************************************)
(* Proofs about TokenBucket, for every set of calls, burst, rate, ttl,       *)
(* ticker and delay.                                                         *)
(***************************************************************************)
EXTENDS TokenBucket, TLAPS

USE BucketAssumption, CleanupAssumption, BoundsAssumption

\* The bucket the client is served from: its visitor's, or the full one that
\* the next request would get.
Held == IF visitor = NoLimiter THEN Capacity ELSE level[visitor]

\* A call takes its token, and cleanup its tick, within Delay.
InTime ==
  /\ \A c \in Calls : lim[c] # NoLimiter => began[c] <= lastSeen /\ time <= began[c] + Delay
  /\ cleanup = "running" /\ tick # NoTick => time <= tick + Delay

\* A bucket that was not used for a while has filled up by as much.
Refilled ==
  visitor # NoLimiter
    => level[visitor] = Capacity \/ level[visitor] >= time - lastSeen - Delay

\* What the client still holds and what it spent are covered by the burst and
\* the time that passed.
Covered ==
  /\ from <= time => spent + Held <= Capacity + (time - from)
  /\ time < from => spent = 0

\* While cleanup runs, it has seen every tick but the one in the channel: a
\* visitor that is still in the map was not stale at the last tick it saw.
Swept ==
  cleanup = "running" =>
    /\ time < nextTick /\ nextTick <= time + Interval
    /\ tick # NoTick => tick = nextTick - Interval
    /\ visitor # NoLimiter /\ tick = NoTick => nextTick <= lastSeen + Ttl + Interval
    /\ visitor # NoLimiter /\ tick # NoTick => tick <= lastSeen + Ttl + Interval

LEMMA CapacityNat == Capacity \in Nat
BY DEF Capacity

Answers == [call : SUBSET Calls, admitted : BOOLEAN]

LEMMA AnswersTyped == NoAnswer \in Answers
                      /\ \A c \in Calls, b \in BOOLEAN : [call |-> {c}, admitted |-> b] \in Answers
<1>1. {} \in SUBSET Calls /\ \A c \in Calls : {c} \in SUBSET Calls
  OBVIOUS
<1> QED
  BY <1>1 DEF NoAnswer, Answers

LEMMA InitTypes == Init => TypeOK /\ InTime
<1> SUFFICES ASSUME Init PROVE TypeOK /\ InTime OBVIOUS
<1>1. level \in [Limiters -> 0 .. Capacity] /\ lim \in [Calls -> 0 .. made] /\ began \in [Calls -> 0 .. time]
  BY CapacityNat DEF Init, NoLimiter
<1>2. answer \in [call : SUBSET Calls, admitted : BOOLEAN]
  BY AnswersTyped DEF Init, Answers
<1>3. TypeOK
  <2>1. /\ time \in 0 .. MaxTime /\ visitor \in 0 .. made /\ made \in 0 .. MaxLimiters
        /\ lastSeen \in 0 .. time /\ from \in 0 .. MaxTime /\ spent \in Nat
        /\ tick \in {NoTick} \cup 0 .. time /\ nextTick \in Nat
    BY DEF Init, NoLimiter
  <2>2. cleanup \in {"running", "gone"} /\ stop \in BOOLEAN
    BY DEF Init
  <2> QED
    BY <1>1, <1>2, <2>1, <2>2 DEF TypeOK
<1>4. InTime
  BY DEF Init, InTime
<1> QED
  BY <1>3, <1>4

\* The types, which bound what a limiter holds, and the delays.
LEMMA StepTypes == TypeOK /\ InTime /\ [Next]_vars => TypeOK' /\ InTime'
<1> SUFFICES ASSUME TypeOK, InTime, [Next]_vars PROVE TypeOK' /\ InTime' OBVIOUS
<1> USE CapacityNat DEF TypeOK, InTime, NoLimiter, NoTick, NoAnswer, Limiters, calls, sweeper,
        history, limiters
<1>1. ASSUME NEW c \in Calls, Get(c) PROVE TypeOK' /\ InTime'
  <2>1. /\ visitor' \in 1 .. made' /\ made' \in made .. MaxLimiters
        /\ level' \in [Limiters -> 0 .. Capacity]
    <3>1. CASE visitor # NoLimiter /\ UNCHANGED <<visitor, made, level>>
      BY <3>1
    <3>2. CASE /\ visitor = NoLimiter /\ made < MaxLimiters
               /\ made' = made + 1
               /\ visitor' = made + 1
               /\ level' = [level EXCEPT ![made + 1] = Capacity]
      <4>1. made + 1 \in Limiters /\ Capacity \in 0 .. Capacity
        BY <3>2
      <4>2. level' \in [Limiters -> 0 .. Capacity]
        BY <3>2, <4>1
      <4> QED
        BY <3>2, <4>1, <4>2
    <3> QED
      BY <1>1, <3>1, <3>2 DEF Get
  <2>2. /\ lim' = [lim EXCEPT ![c] = visitor'] /\ began' = [began EXCEPT ![c] = time]
        /\ lastSeen' = time /\ answer' = NoAnswer
        /\ UNCHANGED <<time, tick, nextTick, cleanup, stop, from, spent>>
    BY <1>1 DEF Get, Touch
  <2>3. lim' \in [Calls -> 0 .. made'] /\ began' \in [Calls -> 0 .. time]
    BY <2>1, <2>2
  <2>4. answer' \in [call : SUBSET Calls, admitted : BOOLEAN]
    BY <2>2, AnswersTyped DEF Answers
  <2>5. InTime'
    BY <2>2
  <2>6. TypeOK'
    <3>1. /\ visitor' \in 0 .. made' /\ made' \in 0 .. MaxLimiters /\ lastSeen' \in 0 .. time'
          /\ level' \in [Limiters -> 0 .. Capacity]
      BY <2>1, <2>2
    <3>2. /\ time' \in 0 .. MaxTime /\ tick' \in {NoTick} \cup 0 .. time' /\ nextTick' \in Nat
          /\ cleanup' \in {"running", "gone"} /\ stop' \in BOOLEAN
          /\ from' \in 0 .. MaxTime /\ spent' \in Nat
      BY <2>2
    <3> QED
      BY <2>2, <2>3, <2>4, <3>1, <3>2
  <2> QED
    BY <2>5, <2>6
<1>2. ASSUME NEW c \in Calls, Allow(c) PROVE TypeOK' /\ InTime'
  <2>1. /\ lim' = [lim EXCEPT ![c] = NoLimiter]
        /\ UNCHANGED <<time, visitor, lastSeen, made, began, tick, nextTick, cleanup, stop, from>>
    BY <1>2 DEF Allow
  <2>2. lim[c] \in Limiters /\ level[lim[c]] \in 0 .. Capacity
    BY <1>2 DEF Allow, Take, TakeNone
  <2>3. level' \in [Limiters -> 0 .. Capacity] /\ spent' \in Nat
    <3>1. CASE Take(c)
      BY <2>2, <3>1 DEF Take
    <3>2. CASE TakeNone(c)
      BY <3>2 DEF TakeNone
    <3> QED
      BY <1>2, <3>1, <3>2 DEF Allow
  <2>4. answer' \in [call : SUBSET Calls, admitted : BOOLEAN]
    <3>1. answer' = [call |-> {c}, admitted |-> TRUE] \/ answer' = [call |-> {c}, admitted |-> FALSE]
      BY <1>2 DEF Allow, Take, TakeNone
    <3> QED
      BY <3>1, AnswersTyped DEF Answers
  <2>5. TypeOK'
    BY <2>1, <2>3, <2>4
  <2>6. InTime'
    BY <2>1
  <2> QED
    BY <2>5, <2>6
<1>3. CASE Sweep
  BY <1>3 DEF Sweep
<1>4. CASE Stop
  BY <1>4 DEF Stop
<1>5. CASE CleanupReturns
  BY <1>5 DEF CleanupReturns
<1>6. CASE Tick
  <2>1. /\ time' = time + 1 /\ time < MaxTime
        /\ UNCHANGED <<visitor, lastSeen, made, lim, began, cleanup, stop, from, spent, answer>>
    BY <1>6 DEF Tick
  <2>2. level' \in [Limiters -> 0 .. Capacity]
    BY <1>6 DEF Tick, Refill
  <2>3. /\ tick' \in {tick, time + 1}
        /\ nextTick' \in Nat
        /\ cleanup = "gone" \/ tick' = tick \/ tick = NoTick
    BY <1>6 DEF Tick, Fires
  <2>4. TypeOK'
    BY <2>1, <2>2, <2>3
  <2>5. \A c \in Calls : lim[c] # NoLimiter => time + 1 <= began[c] + Delay
    BY <1>6 DEF Tick, Overdue
  <2>6. cleanup = "running" /\ tick # NoTick => time + 1 <= tick + Delay
    BY <1>6 DEF Tick, Overdue
  <2>7. cleanup = "running" /\ tick' # NoTick => time + 1 <= tick' + Delay
    <3>1. time \in Nat /\ tick \in Int
      OBVIOUS
    <3>2. CASE tick' = tick
      BY <2>6, <3>2
    <3>3. CASE tick = NoTick /\ tick' = time + 1
      BY <3>1, <3>3
    <3> QED
      BY <2>3, <3>2, <3>3
  <2> QED
    BY <2>1, <2>4, <2>5, <2>7
<1>7. CASE UNCHANGED vars
  BY <1>7 DEF vars
<1> QED
  BY <1>1, <1>2, <1>3, <1>4, <1>5, <1>6, <1>7 DEF Next

LEMMA Timing == Spec => [](TypeOK /\ InTime)
BY InitTypes, StepTypes, PTL DEF Spec

\* What the limiter's variables can be (TypeOK, ratelimit.go:12-35): no bucket
\* ever holds more than the burst.
THEOREM BucketTypes == Spec => []TypeOK
BY Timing, PTL

-----------------------------------------------------------------------------
\* A stale visitor has no request in flight, if the ttl is not shorter than the
\* delay.
LEMMA StaleIsUnused ==
  ASSUME Delay <= Ttl, TypeOK, InTime, Sweep, visitor # NoLimiter, Stale(tick)
  PROVE  \A c \in Calls : lim[c] = NoLimiter
<1> SUFFICES ASSUME NEW c \in Calls, lim[c] # NoLimiter PROVE FALSE OBVIOUS
<1>1. began[c] <= lastSeen /\ time <= began[c] + Delay
  BY DEF InTime
<1>2. lastSeen < tick - Ttl /\ tick <= time
  BY DEF Stale, Sweep, TypeOK, NoTick
<1>3. began[c] \in Nat /\ lastSeen \in Nat /\ tick \in Int /\ time \in Nat
  BY DEF TypeOK, NoTick
<1> QED
  BY <1>1, <1>2, <1>3

LEMMA StepSame ==
  ASSUME Delay <= Ttl
  PROVE  TypeOK /\ InTime /\ SameBucket /\ [Next]_vars => SameBucket'
<1> SUFFICES ASSUME TypeOK, InTime, SameBucket, [Next]_vars PROVE SameBucket' OBVIOUS
<1> USE DEF SameBucket, NoLimiter, calls, limiters
<1>1. ASSUME NEW c \in Calls, Get(c) PROVE SameBucket'
  <2>1. lim' = [lim EXCEPT ![c] = visitor'] /\ (visitor # NoLimiter => visitor' = visitor)
    BY <1>1 DEF Get
  <2>2. \A d \in Calls : lim[d] # NoLimiter => visitor # NoLimiter
    OBVIOUS
  <2> QED
    BY <2>1, <2>2 DEF TypeOK
<1>2. ASSUME NEW c \in Calls, Allow(c) PROVE SameBucket'
  BY <1>2 DEF Allow, TypeOK
<1>3. CASE Sweep
  <2>1. CASE visitor # NoLimiter /\ Stale(tick)
    BY <1>3, <2>1, StaleIsUnused DEF Sweep
  <2>2. CASE ~(visitor # NoLimiter /\ Stale(tick))
    BY <1>3, <2>2 DEF Sweep
  <2> QED
    BY <2>1, <2>2
<1>4. CASE Stop \/ CleanupReturns \/ Tick
  BY <1>4 DEF Stop, CleanupReturns, Tick
<1>5. CASE UNCHANGED vars
  BY <1>5 DEF vars
<1> QED
  BY <1>1, <1>2, <1>3, <1>4, <1>5 DEF Next

\* Requests in flight share one bucket (SameBucket): cleanup evicts no visitor
\* between a get and its Allow (ratelimit.go:37-62, 74-96).
THEOREM OneBucket == ASSUME Delay <= Ttl PROVE Spec => []SameBucket
<1>1. Init => SameBucket
  BY DEF Init, SameBucket
<1> QED
  BY <1>1, StepSame, Timing, PTL DEF Spec

-----------------------------------------------------------------------------
Inv == TypeOK /\ InTime /\ SameBucket /\ Refilled /\ Covered

LEMMA StepRefilled ==
  TypeOK /\ InTime /\ SameBucket /\ Refilled /\ [Next]_vars => Refilled'
<1> SUFFICES ASSUME TypeOK, InTime, SameBucket, Refilled, [Next]_vars PROVE Refilled' OBVIOUS
<1> USE CapacityNat DEF TypeOK, Refilled, NoLimiter, Limiters, limiters
<1>1. ASSUME NEW c \in Calls, Get(c) PROVE Refilled'
  <2>1. lastSeen' = time /\ time' = time
    BY <1>1 DEF Get, Touch
  <2>2. CASE visitor # NoLimiter
    <3>1. visitor' = visitor /\ level' = level
      BY <1>1, <2>2 DEF Get
    <3>2. level[visitor] \in Nat
      BY <2>2
    <3> QED
      BY <2>1, <3>1, <3>2
  <2>3. CASE visitor = NoLimiter
    <3>1. visitor' \in Limiters /\ level'[visitor'] = Capacity
      BY <1>1, <2>3 DEF Get
    <3> QED
      BY <3>1
  <2> QED
    BY <2>2, <2>3
<1>2. ASSUME NEW c \in Calls, Allow(c) PROVE Refilled'
  <2>1. lim[c] # NoLimiter /\ lim[c] = visitor /\ UNCHANGED <<time, visitor, lastSeen>>
    BY <1>2 DEF Allow, Take, TakeNone, SameBucket
  <2>2. time <= lastSeen + Delay
    BY <2>1 DEF InTime
  <2>3. level'[visitor] \in Nat
    <3>1. level[visitor] \in Nat
      BY <2>1
    <3>2. CASE Take(c)
      BY <2>1, <3>1, <3>2 DEF Take
    <3>3. CASE TakeNone(c)
      BY <3>1, <3>3 DEF TakeNone
    <3> QED
      BY <1>2, <3>2, <3>3 DEF Allow
  <2> QED
    BY <2>1, <2>2, <2>3
<1>3. CASE Sweep
  BY <1>3 DEF Sweep
<1>4. CASE Stop \/ CleanupReturns
  BY <1>4 DEF Stop, CleanupReturns
<1>5. CASE Tick
  <2>1. time' = time + 1 /\ UNCHANGED <<visitor, lastSeen>>
    BY <1>5 DEF Tick
  <2>2. visitor # NoLimiter => level'[visitor] = Refill(level[visitor]) /\ level[visitor] \in 0 .. Capacity
    BY <1>5 DEF Tick
  <2> QED
    BY <2>1, <2>2 DEF Refill
<1>6. CASE UNCHANGED vars
  BY <1>6 DEF vars
<1> QED
  BY <1>1, <1>2, <1>3, <1>4, <1>5, <1>6 DEF Next

\* What a step does to the bucket the client is served from. The eviction of a
\* visitor leaves it as it was: full.
LEMMA HeldChanges ==
  ASSUME Capacity + Delay <= Ttl, Inv
  PROVE  /\ Held \in 0 .. Capacity
         /\ \A c \in Calls : Get(c) => Held' = Held
         /\ \A c \in Calls : Allow(c) /\ Take(c) => Held >= Period /\ Held' = Held - Period
         /\ \A c \in Calls : Allow(c) /\ TakeNone(c) => Held < Period /\ Held' = Held
         /\ Sweep \/ Stop \/ CleanupReturns \/ UNCHANGED vars => Held' = Held
         /\ Tick => Held' = Refill(Held)
<1> USE CapacityNat DEF Inv, TypeOK, NoLimiter, Limiters, limiters
<1>1. Held \in 0 .. Capacity
  BY DEF Held
<1>2. ASSUME NEW c \in Calls, Get(c) PROVE Held' = Held
  <2>1. CASE visitor # NoLimiter
    BY <1>2, <2>1 DEF Get, Held
  <2>2. CASE visitor = NoLimiter
    <3>1. visitor' \in Limiters /\ level'[visitor'] = Capacity
      BY <1>2, <2>2 DEF Get
    <3> QED
      BY <2>2, <3>1 DEF Held
  <2> QED
    BY <2>1, <2>2
<1>3. ASSUME NEW c \in Calls, Allow(c), Take(c) PROVE Held >= Period /\ Held' = Held - Period
  <2>1. visitor = lim[c] /\ visitor # NoLimiter /\ visitor \in Limiters /\ visitor' = visitor
    BY <1>3 DEF Allow, Take, SameBucket
  <2>2. level[visitor] >= Period /\ level'[visitor] = level[visitor] - Period
    BY <1>3, <2>1 DEF Take
  <2> QED
    BY <2>1, <2>2 DEF Held
<1>4. ASSUME NEW c \in Calls, Allow(c), TakeNone(c) PROVE Held < Period /\ Held' = Held
  BY <1>4 DEF Allow, TakeNone, SameBucket, Held
<1>5. ASSUME Sweep PROVE Held' = Held
  <2>1. CASE visitor # NoLimiter /\ Stale(tick)
    <3>1. visitor' = NoLimiter
      BY <1>5, <2>1 DEF Sweep
    <3>2. lastSeen + Ttl < time
      <4>1. lastSeen < tick - Ttl /\ tick <= time /\ tick \in Int
        BY <1>5, <2>1 DEF Sweep, Stale, NoTick
      <4> QED
        BY <4>1
    <3>3. level[visitor] \in 0 .. Capacity
      BY <2>1
    <3>4. level[visitor] = Capacity
      BY <2>1, <3>2, <3>3 DEF Refilled
    <3> QED
      BY <2>1, <3>1, <3>4 DEF Held
  <2>2. CASE ~(visitor # NoLimiter /\ Stale(tick))
    BY <1>5, <2>2 DEF Sweep, Held
  <2> QED
    BY <2>1, <2>2
<1>6. ASSUME Stop \/ CleanupReturns \/ UNCHANGED vars PROVE Held' = Held
  BY <1>6 DEF Stop, CleanupReturns, vars, Held
<1>7. ASSUME Tick PROVE Held' = Refill(Held)
  BY <1>7 DEF Tick, Refill, Held
<1> QED
  BY <1>1, <1>2, <1>3, <1>4, <1>5, <1>6, <1>7

LEMMA StepCovered ==
  ASSUME Capacity + Delay <= Ttl
  PROVE  Inv /\ [Next]_vars => Covered'
<1> SUFFICES ASSUME Inv, [Next]_vars PROVE Covered' OBVIOUS
<1> USE CapacityNat DEF Covered, history
<1>1. /\ Held \in 0 .. Capacity /\ spent \in Nat /\ from \in Nat /\ time \in Nat
      /\ Covered
  BY HeldChanges DEF Inv, TypeOK
<1>2. ASSUME NEW c \in Calls, Get(c) PROVE Covered'
  <2>1. Held' = Held /\ UNCHANGED <<time, from, spent>>
    BY <1>2, HeldChanges DEF Get
  <2> QED
    BY <1>1, <2>1
<1>3. ASSUME NEW c \in Calls, Allow(c) PROVE Covered'
  <2>1. UNCHANGED <<time, from>>
    BY <1>3 DEF Allow
  <2>2. CASE Take(c)
    <3>1. Held >= Period /\ Held' = Held - Period
      BY <1>3, <2>2, HeldChanges
    <3>2. spent' = IF from <= time THEN spent + Period ELSE spent
      BY <2>2 DEF Take
    <3> QED
      BY <1>1, <2>1, <3>1, <3>2
  <2>3. CASE TakeNone(c)
    <3>1. Held' = Held /\ spent' = spent
      BY <1>3, <2>3, HeldChanges DEF TakeNone
    <3> QED
      BY <1>1, <2>1, <3>1
  <2> QED
    BY <1>3, <2>2, <2>3 DEF Allow
<1>4. CASE Sweep \/ Stop \/ CleanupReturns \/ UNCHANGED vars
  <2>1. Held' = Held /\ UNCHANGED <<time, from, spent>>
    BY <1>4, HeldChanges DEF Sweep, Stop, CleanupReturns, vars
  <2> QED
    BY <1>1, <2>1
<1>5. CASE Tick
  <2>1. Held' = Refill(Held) /\ time' = time + 1 /\ UNCHANGED <<from, spent>>
    BY <1>5, HeldChanges DEF Tick
  <2>2. Held' \in 0 .. Capacity /\ Held' <= Held + 1
    BY <1>1, <2>1 DEF Refill
  <2> HIDE DEF Held
  <2>3. CASE from <= time
    BY <1>1, <2>1, <2>2, <2>3
  <2>4. CASE time < from
    BY <1>1, <2>1, <2>2, <2>4
  <2> QED
    BY <1>1, <2>3, <2>4
<1> QED
  BY <1>2, <1>3, <1>4, <1>5 DEF Next

LEMMA Invariance == ASSUME Capacity + Delay <= Ttl PROVE Spec => []Inv
<1>1. Delay <= Ttl
  BY CapacityNat
<1>2. Init => Inv
  <2> SUFFICES ASSUME Init PROVE Inv OBVIOUS
  <2>1. SameBucket /\ Refilled
    BY DEF Init, SameBucket, Refilled
  <2>2. Covered
    BY CapacityNat DEF Init, Covered, Held
  <2> QED
    BY <2>1, <2>2, InitTypes DEF Inv
<1>3. Inv /\ [Next]_vars => Inv'
  BY <1>1, StepTypes, StepSame, StepRefilled, StepCovered DEF Inv
<1> QED
  BY <1>2, <1>3, PTL DEF Spec

\* The rate limit (WithinRate, ratelimit.go:49-62): whatever stretch of time is
\* watched, the client is admitted at most its burst and its rate, evictions
\* included, if a visitor's ttl is long enough for its bucket to fill.
THEOREM RateHolds == ASSUME Capacity + Delay <= Ttl PROVE Spec => []WithinRate
<1>1. Inv => WithinRate
  <2> SUFFICES ASSUME Inv, from <= time PROVE spent <= Capacity + (time - from)
    BY DEF WithinRate
  <2>1. Held \in Nat /\ spent \in Nat /\ spent + Held <= Capacity + (time - from)
        /\ from \in Nat /\ time \in Nat
    BY HeldChanges, CapacityNat DEF Inv, TypeOK, Covered
  <2> QED
    BY <2>1, CapacityNat
<1> QED
  BY <1>1, Invariance, PTL

\* The limiter implements the bucket that is always there (EvictionIsHarmless,
\* ratelimit.go:37-62, 74-96): a request is refused exactly when that bucket
\* has no token, evictions or not, if the ttl is long enough for it to fill.
THEOREM ImplementsBucket == ASSUME Capacity + Delay <= Ttl PROVE Spec => EvictionIsHarmless
<1>1. Init => Ideal!Init
  BY DEF Init, Ideal!Init, NoAnswer, Ideal!NoAnswer, NoLimiter
<1>2. Inv /\ [Next]_vars => [Ideal!Next]_<<time, Held, answer>>
  <2> SUFFICES ASSUME Inv, [Next]_vars PROVE [Ideal!Next]_<<time, Held, answer>> OBVIOUS
  <2>1. ASSUME NEW c \in Calls, Get(c) PROVE Ideal!Ask
    <3>1. Held' = Held /\ time' = time /\ answer' = NoAnswer
      BY <2>1, HeldChanges DEF Get
    <3> QED
      BY <3>1 DEF Ideal!Ask, Held, NoAnswer, Ideal!NoAnswer
  <2>2. ASSUME NEW c \in Calls, Allow(c) PROVE Ideal!Admit(c) \/ Ideal!Refuse(c)
    <3>1. CASE Take(c)
      <4>1. /\ Held >= Period /\ Held' = Held - Period
            /\ time' = time /\ answer' = [call |-> {c}, admitted |-> TRUE]
        BY <2>2, <3>1, HeldChanges DEF Allow, Take
      <4> QED
        BY <4>1 DEF Ideal!Admit, Held
    <3>2. CASE TakeNone(c)
      <4>1. /\ Held < Period /\ Held' = Held
            /\ time' = time /\ answer' = [call |-> {c}, admitted |-> FALSE]
        BY <2>2, <3>2, HeldChanges DEF Allow, TakeNone
      <4> QED
        BY <4>1 DEF Ideal!Refuse, Held
    <3> QED
      BY <2>2, <3>1, <3>2 DEF Allow
  <2>3. CASE Sweep \/ Stop \/ CleanupReturns \/ UNCHANGED vars
    <3>1. Held' = Held
      BY <2>3, HeldChanges
    <3>2. UNCHANGED <<time, answer>>
      BY <2>3 DEF Sweep, Stop, CleanupReturns, vars, history
    <3> QED
      BY <3>1, <3>2
  <2>4. CASE Tick
    <3>1. time' = time + 1 /\ Held' = Refill(Held) /\ answer' = answer
      BY <2>4, HeldChanges DEF Tick, history
    <3> QED
      BY <3>1 DEF Ideal!Next, Ideal!Tick, Refill, Held
  <2> QED
    BY <2>1, <2>2, <2>3, <2>4 DEF Next, Ideal!Next
<1> QED
  BY <1>1, <1>2, Invariance, PTL DEF Spec, EvictionIsHarmless, Ideal!Spec, Held

-----------------------------------------------------------------------------
LEMMA StepSwept ==
  ASSUME Delay < Interval
  PROVE  TypeOK /\ InTime /\ Swept /\ [Next]_vars => Swept'
<1> SUFFICES ASSUME TypeOK, InTime, Swept, [Next]_vars, cleanup' = "running" PROVE Swept'
  BY DEF Swept
<1> USE DEF Swept, NoLimiter, NoTick, limiters, sweeper, calls, history
<1>1. /\ time \in Nat /\ lastSeen \in Nat /\ lastSeen <= time /\ nextTick \in Nat
      /\ tick \in Int /\ tick <= time /\ (tick # NoTick => tick \in Nat)
  BY DEF TypeOK
<1>2. ASSUME NEW c \in Calls, Get(c) PROVE Swept'
  <2>1. lastSeen' = time /\ UNCHANGED <<time, tick, nextTick, cleanup>>
    BY <1>2 DEF Get, Touch
  <2> QED
    BY <1>1, <2>1
<1>3. ASSUME NEW c \in Calls, Allow(c) PROVE Swept'
  BY <1>3 DEF Allow
<1>4. CASE Sweep
  <2>1. /\ cleanup = "running" /\ tick # NoTick /\ tick' = NoTick
        /\ UNCHANGED <<time, lastSeen, nextTick>>
    BY <1>4 DEF Sweep
  <2>2. visitor' # NoLimiter => tick <= lastSeen + Ttl
    BY <1>1, <1>4 DEF Sweep, Stale
  <2> QED
    BY <1>1, <2>1, <2>2
<1>5. CASE Stop \/ CleanupReturns
  BY <1>5 DEF Stop, CleanupReturns
<1>6. CASE Tick
  <2>1. cleanup = "running" /\ time' = time + 1 /\ UNCHANGED <<visitor, lastSeen>>
    BY <1>6 DEF Tick
  <2>2. CASE time + 1 = nextTick
    <3>1. tick = NoTick
      <4> SUFFICES ASSUME tick # NoTick PROVE FALSE OBVIOUS
      <4>1. tick = nextTick - Interval /\ ~(tick + Delay <= time)
        BY <1>6, <2>1 DEF Tick, Overdue
      <4> QED
        BY <1>1, <2>2, <4>1
    <3>2. nextTick' = nextTick + Interval /\ tick' = nextTick
      BY <1>6, <2>1, <2>2, <3>1 DEF Tick, Fires
    <3> QED
      BY <1>1, <2>1, <2>2, <3>1, <3>2
  <2>3. CASE time + 1 # nextTick
    <3>1. UNCHANGED <<tick, nextTick>>
      BY <1>6, <2>3 DEF Tick, Fires
    <3> QED
      BY <1>1, <2>1, <2>3, <3>1
  <2> QED
    BY <2>2, <2>3
<1>7. CASE UNCHANGED vars
  BY <1>7 DEF vars
<1> QED
  BY <1>2, <1>3, <1>4, <1>5, <1>6, <1>7 DEF Next

\* The map does not grow for ever (IdleIsForgotten, ratelimit.go:74-96): an
\* idle visitor is gone in time, if cleanup keeps up with its ticker.
THEOREM IdleForgotten == ASSUME Delay < Interval PROVE Spec => []IdleIsForgotten
<1>1. Init => Swept
  BY DEF Init, Swept, NoTick
<1>2. TypeOK /\ InTime /\ Swept => IdleIsForgotten
  <2> SUFFICES ASSUME TypeOK, InTime, Swept, cleanup = "running", visitor # NoLimiter
               PROVE  time <= lastSeen + Ttl + Interval + Delay
    BY DEF IdleIsForgotten
  <2>1. /\ time \in Nat /\ lastSeen \in Nat /\ nextTick \in Nat /\ tick \in Int
    BY DEF TypeOK, NoTick
  <2>2. CASE tick = NoTick
    BY <2>1, <2>2 DEF Swept
  <2>3. CASE tick # NoTick
    BY <2>1, <2>3 DEF Swept, InTime
  <2> QED
    BY <2>2, <2>3
<1> QED
  BY <1>1, <1>2, StepSwept, Timing, PTL DEF Spec
=============================================================================
