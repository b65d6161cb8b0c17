----------------------------- MODULE TokenBucket -----------------------------
(***************************************************************************)
(* The in-memory rate limiter of Day 35 (internal/ratelimit/ratelimit.go),    *)
(* seen by one client: its visitor in the map, the limiters that requests     *)
(* hold, the cleanup goroutine with its ticker, and Stop. Visitors of other   *)
(* clients are independent. The token bucket itself is golang.org/x/time/     *)
(* rate: Period ticks make one token, so a bucket is counted in ticks.        *)
(***************************************************************************)
EXTENDS Integers

CONSTANTS
  Calls,        \* requests of the client that may be in flight at once
  Burst,        \* tokens of a full bucket
  Period,       \* ticks per token: 1 / rate
  Ttl,          \* how long a visitor may be idle
  Interval,     \* period of the cleanup's ticker
  Delay,        \* how long a runnable goroutine may have to wait
  MaxTime,      \* bound: ticks modelled
  MaxLimiters   \* bound: limiters created for this client

ASSUME BucketAssumption == Burst \in Nat \ {0} /\ Period \in Nat \ {0}
ASSUME CleanupAssumption == Ttl \in Nat /\ Interval \in Nat \ {0} /\ Delay \in Nat
ASSUME BoundsAssumption == MaxTime \in Nat /\ MaxLimiters \in Nat

Capacity == Burst * Period

NoAnswer == [call |-> {}, admitted |-> FALSE]

Limiters == 1 .. MaxLimiters
NoLimiter == 0
NoTick == -1

VARIABLES
  time,
  visitor,    \* the limiter of the client's visitor in the map, or NoLimiter
  lastSeen,   \* the visitor's lastSeen
  made,       \* limiters created so far
  level,      \* level[l]: what the bucket of limiter l holds
  lim,        \* lim[c]: the limiter call c has got from the map, or NoLimiter
  began,      \* began[c]: when it got it
  tick,       \* the time in the ticker's channel, or NoTick
  nextTick,   \* when the ticker fires next
  cleanup,    \* the cleanup goroutine: "running" or "gone"
  stop,       \* the stop channel is closed
  from,       \* history: when the stretch of time begins that is watched
  spent,      \* history: units that admitted requests took in it
  answer      \* history: what the request that was answered last was told

limiters == <<visitor, lastSeen, made, level>>
calls == <<lim, began>>
sweeper == <<tick, nextTick, cleanup, stop>>
history == <<from, spent, answer>>
vars == <<time, visitor, lastSeen, made, level, lim, began, tick, nextTick,
          cleanup, stop, from, spent, answer>>

Init ==
  /\ time = 0
  /\ visitor = NoLimiter /\ lastSeen = 0 /\ made = 0
  /\ level = [l \in Limiters |-> Capacity]
  /\ lim = [c \in Calls |-> NoLimiter]
  /\ began = [c \in Calls |-> 0]
  /\ tick = NoTick /\ nextTick = Interval
  /\ cleanup = "running" /\ stop = FALSE
  /\ from \in 0 .. MaxTime /\ spent = 0
  /\ answer = NoAnswer

\* A goroutine that became runnable at t has waited as long as it may.
Overdue(t) == t + Delay <= time

-----------------------------------------------------------------------------
(* Plausible mistakes in this code, each under the name of the operator it  *)
(* would replace.                                                           *)

\* lastSeen is set when the visitor is created only.
Touch_Once == lastSeen' = IF visitor = NoLimiter THEN time ELSE lastSeen

\* The cutoff is one interval ago instead of one ttl.
Stale_Interval(now) == lastSeen < now - Interval

\* time.NewTimer instead of time.NewTicker: it fires once.
Fires_Once ==
  \/ /\ cleanup = "running" /\ time + 1 = nextTick
     /\ tick' = time + 1 /\ UNCHANGED nextTick
  \/ /\ cleanup = "gone" \/ time + 1 # nextTick
     /\ UNCHANGED <<tick, nextTick>>

\* lastSeen is taken for the time at which the visitor expires.
Touch_Expiry == lastSeen' = time + Ttl

\* The new visitor is not stored in the map.
Get_Unstored(c) ==
  /\ lim[c] = NoLimiter
  /\ made < MaxLimiters
  /\ made' = made + 1
  /\ level' = [level EXCEPT ![made + 1] = Capacity]
  /\ lim' = [lim EXCEPT ![c] = made + 1]
  /\ began' = [began EXCEPT ![c] = time]
  /\ answer' = NoAnswer
  /\ UNCHANGED <<time, visitor, lastSeen, sweeper, from, spent>>

-----------------------------------------------------------------------------
\* v.lastSeen = time.Now().
Touch == lastSeen' = time

\* Memory.get, under the mutex: the visitor's limiter, or a new, full one.
Get(c) ==
  /\ lim[c] = NoLimiter
  /\ \/ visitor # NoLimiter /\ UNCHANGED <<visitor, made, level>>
     \/ /\ visitor = NoLimiter /\ made < MaxLimiters
        /\ made' = made + 1
        /\ visitor' = made + 1
        /\ level' = [level EXCEPT ![made + 1] = Capacity]
  /\ lim' = [lim EXCEPT ![c] = visitor']
  /\ began' = [began EXCEPT ![c] = time]
  /\ Touch
  /\ answer' = NoAnswer
  /\ UNCHANGED <<time, sweeper, from, spent>>

\* Limiter.Allow of the limiter that call c holds: one token, if there is one.
Take(c) ==
  /\ lim[c] # NoLimiter /\ level[lim[c]] >= Period
  /\ level' = [level EXCEPT ![lim[c]] = @ - Period]
  /\ spent' = IF from <= time THEN spent + Period ELSE spent
  /\ answer' = [call |-> {c}, admitted |-> TRUE]

TakeNone(c) ==
  /\ lim[c] # NoLimiter /\ level[lim[c]] < Period
  /\ answer' = [call |-> {c}, admitted |-> FALSE]
  /\ UNCHANGED <<level, spent>>

\* Memory.Allow, on the limiter without the mutex of the map. The rest of it
\* only computes headers.
Allow(c) ==
  /\ Take(c) \/ TakeNone(c)
  /\ lim' = [lim EXCEPT ![c] = NoLimiter]
  /\ UNCHANGED <<time, visitor, lastSeen, made, began, sweeper, from>>

-----------------------------------------------------------------------------
\* v.lastSeen.Before(cutoff), for a tick that fired at now.
Stale(now) == lastSeen < now - Ttl

\* cleanup receives a tick: a visitor that is stale leaves the map.
Sweep ==
  /\ cleanup = "running" /\ tick # NoTick
  /\ visitor' = IF visitor # NoLimiter /\ Stale(tick) THEN NoLimiter ELSE visitor
  /\ tick' = NoTick
  /\ UNCHANGED <<time, lastSeen, made, level, calls, nextTick, cleanup, stop, history>>

\* Memory.Stop, at the end of main.
Stop ==
  /\ ~stop /\ stop' = TRUE
  /\ UNCHANGED <<time, limiters, calls, tick, nextTick, cleanup, history>>

\* cleanup sees the closed channel and returns.
CleanupReturns ==
  /\ stop /\ cleanup = "running"
  /\ cleanup' = "gone"
  /\ UNCHANGED <<time, limiters, calls, tick, nextTick, stop, history>>

-----------------------------------------------------------------------------
\* Tokens are refilled up to the burst.
Refill(n) == IF n < Capacity THEN n + 1 ELSE n

\* The ticker fires into a channel that holds one tick, and drops others; it is
\* stopped when cleanup returns.
Fires ==
  \/ /\ cleanup = "running" /\ time + 1 = nextTick
     /\ nextTick' = nextTick + Interval
     /\ tick' = IF tick = NoTick THEN time + 1 ELSE tick
  \/ /\ cleanup = "gone" \/ time + 1 # nextTick
     /\ UNCHANGED <<tick, nextTick>>

\* Time passes. Goroutines that can run do so within Delay.
Tick ==
  /\ time < MaxTime
  /\ \A c \in Calls : lim[c] # NoLimiter => ~Overdue(began[c])
  /\ cleanup = "running" /\ tick # NoTick => ~Overdue(tick)
  /\ time' = time + 1
  /\ level' = [l \in Limiters |-> Refill(level[l])]
  /\ Fires
  /\ UNCHANGED <<visitor, lastSeen, made, calls, cleanup, stop, history>>

Next ==
  \/ \E c \in Calls : Get(c) \/ Allow(c)
  \/ Sweep \/ Stop \/ CleanupReturns \/ Tick

Spec == Init /\ [][Next]_vars

-----------------------------------------------------------------------------
TypeOK ==
  /\ time \in 0 .. MaxTime
  /\ visitor \in 0 .. made /\ made \in 0 .. MaxLimiters
  /\ lastSeen \in 0 .. time
  /\ level \in [Limiters -> 0 .. Capacity]
  /\ lim \in [Calls -> 0 .. made]
  /\ began \in [Calls -> 0 .. time]
  /\ tick \in {NoTick} \cup 0 .. time
  /\ nextTick \in Nat
  /\ cleanup \in {"running", "gone"} /\ stop \in BOOLEAN
  /\ from \in 0 .. MaxTime /\ spent \in Nat
  /\ answer \in [call : SUBSET Calls, admitted : BOOLEAN]

\* "burst = how big a sudden spike you tolerate, rate = the long-run average":
\* in every stretch of time the client is admitted at most Burst requests and
\* one per Period, although its visitor is evicted and made anew meanwhile.
WithinRate == from <= time => spent <= Capacity + (time - from)

\* The requests in flight take their tokens from one bucket: cleanup never
\* evicts a visitor between a request's get and its Allow.
SameBucket == \A c \in Calls : lim[c] # NoLimiter => lim[c] = visitor

\* The map does not grow for ever: an idle visitor is gone one interval of the
\* ticker after its ttl.
IdleIsForgotten ==
  cleanup = "running" /\ visitor # NoLimiter
    => time <= lastSeen + Ttl + Interval + Delay

\* "An evicted client just starts fresh. No correctness loss.": the map with
\* its cleanup cannot be told from a bucket that is always there.
Ideal == INSTANCE IdealBucket
  WITH Price <- Period,
       tokens <- IF visitor = NoLimiter THEN Capacity ELSE level[visitor]

EvictionIsHarmless == Ideal!Spec
=============================================================================
