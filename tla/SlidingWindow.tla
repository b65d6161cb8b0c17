---------------------------- MODULE SlidingWindow ----------------------------
(***************************************************************************)
(* One bucket of the Day 35 distributed rate limiter (internal/ratelimit/     *)
(* redis.go): the sorted set that the Lua script keeps in Redis, and the      *)
(* decisions it takes for requests on any replica. Redis runs the script      *)
(* atomically, but the timestamp is read on the replica beforehand: it may    *)
(* be up to Skew behind the moment the script runs (a delay, a clock that is  *)
(* behind, a resend), and timestamps may reach Redis out of order.            *)
(***************************************************************************)
EXTENDS Integers, FiniteSets

CONSTANTS
  Window,       \* the window, in milliseconds
  Limit,        \* requests per window
  Second,       \* milliseconds per second
  Skew,         \* how far a timestamp may be behind when the script runs
  MaxTime,      \* bound: milliseconds modelled
  MaxRequests   \* bound: requests modelled

ASSUME WindowAssumption == Window \in Nat \ {0}
ASSUME LimitAssumption == Limit \in Nat \ {0}
ASSUME SecondAssumption == Second \in Nat \ {0}
ASSUME SkewAssumption == Skew \in Nat
ASSUME BoundsAssumption == MaxTime \in Nat /\ MaxRequests \in Nat

VARIABLES
  time,       \* the clock of Redis
  log,        \* the sorted set: members with their scores
  expireAt,   \* when the key expires, set by PEXPIRE
  waiting,    \* requests that were sent to Redis and have no reply yet
  members,    \* history: unique members drawn so far
  admitted,   \* history: the requests that were let through
  decision    \* history: the decision of the last step, with its timestamp

vars == <<time, log, expireAt, waiting, members, admitted, decision>>

Undecided == [by |-> "nobody", allowed |-> FALSE, remaining |-> 0, retry |-> 0, now |-> 0]

Init ==
  /\ time = 0
  /\ log = {}
  /\ expireAt = 0
  /\ waiting = {}
  /\ members = 0
  /\ admitted = {}
  /\ decision = Undecided

\* A member of the sorted set; a resent script carries the same one again.
Entry(i, now) == [id |-> i, at |-> now]

-----------------------------------------------------------------------------
(* Plausible mistakes in this code, each under the name of the operator it  *)
(* would replace.                                                           *)

\* ZREMRANGEBYSCORE key -inf (now - window: the bound itself stays.
Surviving_Exclusive(S, now) == {e \in S : e.at >= now - Window}

\* A refused client is always told the whole window.
RetryAfter_WholeWindow(S, now) == Window

\* "if count > limit": one request too many.
Script_OffByOne(S, e) ==
  LET kept == {f \in S : f.at > e.at - Window}
      count == Cardinality(kept)
  IN [log |-> IF count > Limit THEN kept ELSE kept \cup {e},
      allowed |-> count <= Limit,
      remaining |-> IF count > Limit THEN 0 ELSE Limit - (count + 1),
      retry |-> 0]

\* ZADD before the count: a denied request is logged as well.
Script_LogsDenied(S, e) ==
  LET kept == {f \in S : f.at > e.at - Window}
      count == Cardinality(kept)
  IN [log |-> kept \cup {e}, allowed |-> count < Limit,
      remaining |-> IF count < Limit THEN Limit - (count + 1) ELSE 0, retry |-> 0]

\* PEXPIRE only when the key is created.
Runs_ExpireOnce(out) ==
  /\ log' = out.log
  /\ expireAt' = IF out.allowed /\ log = {} THEN time + Window ELSE expireAt
  /\ UNCHANGED time

-----------------------------------------------------------------------------
\* ZREMRANGEBYSCORE key -inf now - window.
Surviving(S, now) == {e \in S : e.at > now - Window}

\* ZRANGE key 0 0: the entry with the lowest score.
Oldest(S) == CHOOSE e \in S : \A f \in S : e.at <= f.at

\* The reply to a denied request: the time until the oldest entry leaves.
RetryAfter(S, now) ==
  LET retry == Oldest(S).at + Window - now IN IF retry < 0 THEN 0 ELSE retry

\* One run of the script for the request of entry e: the set it leaves, whether
\* ZADD and PEXPIRE ran, and its reply.
Script(S, e) ==
  LET kept == Surviving(S, e.at)
      count == Cardinality(kept)
  IN IF count >= Limit
       THEN [log |-> kept, allowed |-> FALSE, remaining |-> 0,
             retry |-> RetryAfter(kept, e.at)]
       ELSE [log |-> kept \cup {e}, allowed |-> TRUE,
             remaining |-> Limit - (count + 1), retry |-> 0]

\* The timestamps a request may carry when its script runs.
Timestamps == {n \in 0 .. time : n + Skew >= time}

\* The script has run: its set, and the expiry that an admitted entry renews.
Runs(out) ==
  /\ log' = out.log
  /\ expireAt' = IF out.allowed THEN time + Window ELSE expireAt
  /\ UNCHANGED time

\* Redis.Allow returns, and the middleware serves the request if it may.
Reply(e, out) ==
  /\ decision' = [by |-> "script", allowed |-> out.allowed, remaining |-> out.remaining,
                  retry |-> out.retry, now |-> e.at]
  /\ admitted' = IF out.allowed THEN admitted \cup {e} ELSE admitted

\* An error of the Redis call: the request is denied for a whole window.
Denied(now) ==
  [by |-> "error", allowed |-> FALSE, remaining |-> 0, retry |-> Window, now |-> now]

NoReply == decision' = Undecided /\ UNCHANGED admitted

-----------------------------------------------------------------------------
\* Redis.Allow.
Allow(now) ==
  LET e == Entry(members + 1, now)
      out == Script(log, e)
  IN
  /\ members < MaxRequests
  /\ members' = members + 1
  /\ Runs(out) /\ Reply(e, out)
  /\ UNCHANGED waiting

\* The request is lost on its way to Redis.
RequestLost(now) ==
  /\ members < MaxRequests
  /\ members' = members + 1
  /\ waiting' = waiting \cup {Entry(members + 1, now)}
  /\ NoReply
  /\ UNCHANGED <<time, log, expireAt>>

\* The script runs, but its reply is lost.
ReplyLost(now) ==
  LET e == Entry(members + 1, now) IN
  /\ members < MaxRequests
  /\ members' = members + 1
  /\ waiting' = waiting \cup {e}
  /\ Runs(Script(log, e)) /\ NoReply

\* The client library sends the script again, with the same timestamp and
\* member, and the reply arrives, or is lost again.
Resend(e) ==
  LET out == Script(log, e) IN
  /\ e \in waiting /\ e.at \in Timestamps
  /\ Runs(out) /\ Reply(e, out)
  /\ waiting' = waiting \ {e}
  /\ UNCHANGED members

ResendLost(e) ==
  /\ e \in waiting /\ e.at \in Timestamps
  /\ Runs(Script(log, e)) /\ NoReply
  /\ UNCHANGED <<waiting, members>>

\* The library gives up: the request is denied.
RedisFails(e) ==
  /\ e \in waiting
  /\ waiting' = waiting \ {e}
  /\ decision' = Denied(e.at)
  /\ UNCHANGED <<time, log, expireAt, members, admitted>>

\* Time passes; a key whose expiry has passed is gone.
Tick ==
  /\ time < MaxTime
  /\ time' = time + 1
  /\ log' = IF time + 1 > expireAt THEN {} ELSE log
  /\ decision' = Undecided
  /\ UNCHANGED <<expireAt, waiting, members, admitted>>

Next ==
  \/ \E now \in Timestamps : Allow(now) \/ RequestLost(now) \/ ReplyLost(now)
  \/ \E e \in waiting : Resend(e) \/ ResendLost(e) \/ RedisFails(e)
  \/ Tick

Spec == Init /\ [][Next]_vars

-----------------------------------------------------------------------------
Entries == [id : 1 .. members, at : 0 .. time]

TypeOK ==
  /\ time \in 0 .. MaxTime
  /\ log \subseteq Entries /\ waiting \subseteq Entries /\ admitted \subseteq Entries
  /\ expireAt \in 0 .. time + Window
  /\ members \in 0 .. MaxRequests
  /\ decision \in [by : {"nobody", "script", "error"}, allowed : BOOLEAN,
                   remaining : 0 .. Limit - 1, retry : 0 .. Window + Skew, now : 0 .. time]

\* Requests admitted with a timestamp in the half-open interval (from, to].
Between(from, to) == {e \in admitted : from < e.at /\ e.at <= to}

\* The limit holds across replicas: whatever the order in which requests reach
\* Redis, and whichever replies are lost or scripts resent, no interval that is
\* as long as the window less the skew holds more than Limit admitted requests.
WithinLimit ==
  \A from \in - Window .. MaxTime :
    Cardinality(Between(from, from + Window - Skew)) <= Limit

\* A bucket stores at most Limit entries, and expires a window after the last
\* admission: nothing is stored for clients that stopped calling.
BoundedMemory ==
  /\ Cardinality(log) <= Limit
  /\ log # {} => time <= expireAt /\ expireAt <= time + Window

\* Would the script admit a request with this timestamp?
Open(now) == Cardinality(Surviving(log, now)) < Limit

Refused == decision.by = "script" /\ ~decision.allowed

\* The delay the script computes for a refused request is enough: if nothing
\* else is admitted meanwhile, the same client is admitted after it.
RetrySuffices == Refused => Open(decision.now + decision.retry)

\* It is not longer than needed either: one millisecond earlier it would still
\* be refused.
RetryIsTight == Refused => ~Open(decision.now + decision.retry - 1)

\* The Retry-After header of the middleware: the delay rounded to the nearest
\* second, and at least one.
RetryHeader(retry) ==
  LET secs == (2 * retry + Second) \div (2 * Second)
  IN IF secs < 1 THEN 1 ELSE secs

\* The header says the same in whole seconds: the client that waits that long
\* is early by at most half a second.
HeaderSuffices ==
  Refused => Open(decision.now + RetryHeader(decision.retry) * Second + Second \div 2)

\* What a refused client is told is right: the delay is what it takes, and the
\* header is no more than half a second short of it.
DelayIsRight == RetrySuffices /\ RetryIsTight /\ HeaderSuffices
=============================================================================
