--------------------------- MODULE ServerLifecycle ---------------------------
(***************************************************************************)
(* One replica of the Day 35 server from start to exit (main.go): opening    *)
(* the pools, serving, a signal, http.Server.Shutdown with its deadline, and *)
(* the deferred calls, while requests are at any point of their handlers.    *)
(* The requests are attempts at one write with one Idempotency-Key: they     *)
(* pass the rate limit and the guard, write to Postgres, and save the        *)
(* response in Redis. Meanwhile clients hang up, handlers panic, Redis        *)
(* commands fail with or without effect, and the record of the key expires.  *)
(***************************************************************************)
EXTENDS Naturals, Sequences

CONSTANT Requests

VARIABLES
  main,       \* where main is
  deferred,   \* the deferred calls, the last one first
  open,       \* the pools that are open, of "db" and "redis"
  backend,    \* RATE_LIMIT_BACKEND
  notified,   \* signals go to the context, between NotifyContext and stop
  ctxDone,    \* the context is done
  listener,   \* the goroutine of ListenAndServe
  pc,         \* where the handler of each request is
  gone,       \* requests whose client hung up
  guarded,    \* requests that know that they reserved the key
  record,     \* the record of the key: "none", "pending", "done"
  holder,     \* history: who made the record while it is pending, else {}
  left,       \* history: requests that reserved the key and do not save
  disturbed,  \* history: the record expired, or Reserve failed although Redis
              \* was open and the client there
  writes,     \* history: committed writes
  answered,   \* history: requests whose client has the answer
  signalled,  \* history: a signal was sent
  outcome     \* history: "clean", "forced" or "failed", how main came to return

process == <<main, deferred, open, notified, ctxDone, listener>>
key == <<guarded, record, holder, left, disturbed>>
requests == <<pc, gone, key, writes, answered>>
vars == <<process, backend, requests, signalled, outcome>>

Init ==
  /\ main = "openDB" /\ deferred = <<>> /\ open = {}
  /\ backend \in {"memory", "redis"}
  /\ notified = FALSE /\ ctxDone = FALSE /\ listener = "none"
  /\ pc = [r \in Requests |-> "away"]
  /\ gone = {} /\ guarded = {} /\ record = "none" /\ holder = {} /\ left = {}
  /\ disturbed = FALSE /\ writes = 0 /\ answered = {}
  /\ signalled = FALSE /\ outcome = "none"

Alive == main # "exited"
Running == {r \in Requests : pc[r] \notin {"away", "over"}}

-----------------------------------------------------------------------------
(* main.                                                                    *)

\* An error before the server is set up: main logs it and returns.
GiveUp == main' = "return" /\ outcome' = "failed"

\* openDB closes what it opened when the ping fails.
OpenDB ==
  /\ main = "openDB"
  /\ \/ /\ open' = open \cup {"db"} /\ deferred' = <<"db">> \o deferred
        /\ main' = "migrate" /\ UNCHANGED outcome
     \/ GiveUp /\ UNCHANGED <<open, deferred>>
  /\ UNCHANGED <<backend, notified, ctxDone, listener, requests, signalled>>

RunMigrations ==
  /\ main = "migrate"
  /\ \/ main' = "openRedis" /\ UNCHANGED outcome
     \/ GiveUp
  /\ UNCHANGED <<deferred, open, backend, notified, ctxDone, listener, requests, signalled>>

\* A plausible mistake in OpenRedis: nobody closes the client.
OpenRedis_NoDefer ==
  /\ main = "openRedis"
  /\ open' = open \cup {"redis"} /\ main' = "setup"
  /\ UNCHANGED <<deferred, outcome, backend, notified, ctxDone, listener, requests, signalled>>

OpenRedis ==
  /\ main = "openRedis"
  /\ \/ /\ open' = open \cup {"redis"} /\ deferred' = <<"redis">> \o deferred
        /\ main' = "setup" /\ UNCHANGED outcome
     \/ GiveUp /\ UNCHANGED <<open, deferred>>
  /\ UNCHANGED <<backend, notified, ctxDone, listener, requests, signalled>>

\* The limiters, NotifyContext, and the goroutine that serves.
Setup ==
  /\ main = "setup"
  /\ deferred' = <<"stop", "limiters">> \o deferred
  /\ notified' = TRUE /\ listener' = "starting"
  /\ main' = "wait"
  /\ UNCHANGED <<open, backend, ctxDone, requests, signalled, outcome>>

\* A plausible mistake in Shutdown: main returns once the context is done.
Shutdown_Not ==
  /\ main = "wait" /\ ctxDone
  /\ main' = "return" /\ outcome' = "failed"
  /\ UNCHANGED <<listener, deferred, open, backend, notified, ctxDone, requests, signalled>>

\* <-ctx.Done(), and Shutdown begins: the listener is closed.
Shutdown ==
  /\ main = "wait" /\ ctxDone
  /\ deferred' = <<"cancel">> \o deferred
  /\ listener' = IF listener = "listening" THEN "closed" ELSE listener
  /\ main' = "shutdown"
  /\ UNCHANGED <<open, backend, notified, ctxDone, requests, signalled, outcome>>

\* A plausible mistake in Drained: a request counts until its write is made.
Drained_EarlySave ==
  /\ main = "shutdown" /\ \A r \in Running : pc[r] \in {"save", "return"}
  /\ main' = "return" /\ outcome' = "clean"
  /\ UNCHANGED <<deferred, open, backend, notified, ctxDone, listener, requests, signalled>>

\* No connection is active any more: Shutdown returns nil.
Drained ==
  /\ main = "shutdown" /\ Running = {}
  /\ main' = "return" /\ outcome' = "clean"
  /\ UNCHANGED <<deferred, open, backend, notified, ctxDone, listener, requests, signalled>>

\* A plausible mistake in Deadline: Shutdown gets context.Background().
Deadline_None == FALSE

\* HTTP_SHUTDOWN_TIMEOUT is over: Shutdown gives up and main returns.
Deadline ==
  /\ main = "shutdown"
  /\ main' = "return" /\ outcome' = "forced"
  /\ UNCHANGED <<deferred, open, backend, notified, ctxDone, listener, requests, signalled>>

\* main returns: the deferred calls run, then the process exits.
Return ==
  /\ main = "return"
  /\ IF deferred = <<>>
     THEN main' = "exited" /\ UNCHANGED <<deferred, open, notified>>
     ELSE /\ deferred' = Tail(deferred)
          /\ open' = open \ {Head(deferred)}
          /\ notified' = (notified /\ Head(deferred) # "stop")
          /\ UNCHANGED main
  /\ UNCHANGED <<backend, ctxDone, listener, requests, signalled, outcome>>

-----------------------------------------------------------------------------
(* The goroutine that serves.                                               *)

\* ListenAndServe, unless Shutdown was called before.
Listen ==
  /\ Alive /\ listener = "starting"
  /\ listener' = IF main \in {"shutdown", "return"} THEN "closed" ELSE "listening"
  /\ UNCHANGED <<main, deferred, open, backend, notified, ctxDone, requests, signalled, outcome>>

\* It cannot listen, or Accept fails: the goroutine calls stop.
ServeFails ==
  /\ Alive /\ listener \in {"starting", "listening"}
  /\ listener' = "failed"
  /\ notified' = FALSE /\ ctxDone' = TRUE
  /\ UNCHANGED <<main, deferred, open, backend, requests, signalled, outcome>>

-----------------------------------------------------------------------------
(* Requests. Their contexts are cancelled when the client hangs up, and not  *)
(* by Shutdown.                                                              *)

Go(r, to) == pc' = [pc EXCEPT ![r] = to]
NoProcess == UNCHANGED <<process, backend, signalled, outcome>>

\* A command of r reaches Redis.
Reaches(r) == "redis" \in open /\ r \notin gone

Accept(r) ==
  /\ Alive /\ pc[r] = "away" /\ listener = "listening"
  /\ Go(r, "limit")
  /\ NoProcess /\ UNCHANGED <<gone, key, writes, answered>>

\* RateLimit and RequireAuth admit or refuse; the Redis limiter refuses when
\* Redis cannot be asked.
Limit(r) ==
  /\ Alive /\ pc[r] = "limit"
  /\ \/ (backend = "redis" => Reaches(r)) /\ Go(r, "reserve")
     \/ Go(r, "return")
  /\ NoProcess /\ UNCHANGED <<gone, key, writes, answered>>

\* r makes a pending record.
Pend(r) == record = "none" /\ record' = "pending" /\ holder' = {r}

\* A plausible mistake in SetNX: a pending record is taken over.
SetNX_TakesOver(r) ==
  /\ Alive /\ pc[r] = "reserve" /\ Reaches(r)
  /\ IF record # "done"
     THEN /\ Go(r, "write") /\ guarded' = guarded \cup {r}
          /\ record' = "pending" /\ holder' = {r}
     ELSE Go(r, "lookup") /\ UNCHANGED <<guarded, record, holder>>
  /\ NoProcess /\ UNCHANGED <<gone, left, disturbed, writes, answered>>

\* Reserve asks for the key, and the handler runs when it was free.
SetNX(r) ==
  /\ Alive /\ pc[r] = "reserve" /\ Reaches(r)
  /\ \/ Pend(r) /\ guarded' = guarded \cup {r} /\ Go(r, "write")
     \/ record # "none" /\ Go(r, "lookup") /\ UNCHANGED <<guarded, record, holder>>
  /\ NoProcess /\ UNCHANGED <<gone, left, disturbed, writes, answered>>

\* Reserve looks at the record that is there: a pending one is a 409, a done one
\* is replayed, and for one that is gone by now the handler runs unguarded.
Lookup(r) ==
  /\ Alive /\ pc[r] = "lookup" /\ Reaches(r)
  /\ Go(r, IF record = "none" THEN "write" ELSE "return")
  /\ NoProcess /\ UNCHANGED <<gone, key, writes, answered>>

\* A command of Reserve fails, a SETNX maybe after its effect: the middleware
\* runs the handler unguarded.
ReserveFails(r) ==
  /\ Alive /\ pc[r] \in {"reserve", "lookup"}
  /\ \/ UNCHANGED <<record, holder, left>>
     \/ pc[r] = "reserve" /\ "redis" \in open /\ Pend(r) /\ left' = left \cup {r}
  /\ disturbed' = (disturbed \/ Reaches(r))
  /\ Go(r, "write")
  /\ NoProcess /\ UNCHANGED <<gone, guarded, writes, answered>>

\* The client library resends a SETNX whose answer was lost, and the second one
\* finds the record of the first.
SetNXResent(r) ==
  /\ Alive /\ pc[r] = "reserve" /\ Reaches(r)
  /\ Pend(r) /\ left' = left \cup {r} /\ Go(r, "lookup")
  /\ NoProcess /\ UNCHANGED <<gone, guarded, disturbed, writes, answered>>

\* One transaction, or an error; without its client r commits nothing any more.
Commits(r) ==
  writes' \in IF "db" \in open /\ r \notin gone THEN {writes, writes + 1} ELSE {writes}

\* The handler returns, with or without a write.
Write(r) ==
  /\ Alive /\ pc[r] = "write"
  /\ Commits(r)
  /\ Go(r, IF r \in guarded THEN "save" ELSE "return")
  /\ NoProcess /\ UNCHANGED <<gone, key, answered>>

\* The panic unwinds through the guard, which does not save; Recover answers 500.
HandlerPanics(r) ==
  /\ Alive /\ pc[r] = "write"
  /\ Commits(r)
  /\ left' = left \cup ({r} \cap guarded)
  /\ Go(r, "return")
  /\ NoProcess /\ UNCHANGED <<gone, guarded, record, holder, disturbed, answered>>

\* Save, whatever the status.
Save(r) ==
  /\ Alive /\ pc[r] = "save" /\ Reaches(r)
  /\ record' = "done" /\ holder' = {}
  /\ Go(r, "return")
  /\ NoProcess /\ UNCHANGED <<gone, guarded, left, disturbed, writes, answered>>

\* Save fails, maybe after its effect; the middleware only logs it.
SaveFails(r) ==
  /\ Alive /\ pc[r] = "save"
  /\ \/ UNCHANGED <<record, holder>>
     \/ "redis" \in open /\ record' = "done" /\ holder' = {}
  /\ left' = left \cup {r}
  /\ Go(r, "return")
  /\ NoProcess /\ UNCHANGED <<gone, guarded, disturbed, writes, answered>>

\* The handler chain returns and the server flushes the response.
Reply(r) ==
  /\ Alive /\ pc[r] = "return"
  /\ answered' = answered \cup ({r} \ gone)
  /\ Go(r, "over")
  /\ NoProcess /\ UNCHANGED <<gone, key, writes>>

Middleware(r) ==
  SetNX(r) \/ Lookup(r) \/ ReserveFails(r) \/ SetNXResent(r) \/ Save(r) \/ SaveFails(r)

Handle(r) == Limit(r) \/ Middleware(r) \/ Write(r) \/ HandlerPanics(r) \/ Reply(r)

\* The client hangs up, or the connection breaks.
HangUp(r) ==
  /\ Alive /\ r \in Running \ gone
  /\ gone' = gone \cup {r}
  /\ NoProcess /\ UNCHANGED <<pc, key, writes, answered>>

\* The lease of a pending record or the TTL of a done one is over.
RecordExpires ==
  /\ Alive /\ record # "none"
  /\ record' = "none" /\ holder' = {} /\ disturbed' = TRUE
  /\ NoProcess /\ UNCHANGED <<pc, gone, guarded, left, writes, answered>>

-----------------------------------------------------------------------------
(* The operating system.                                                    *)

\* SIGINT or SIGTERM: the context is done, again and again; where nothing is
\* notified the process dies.
Signal ==
  /\ Alive
  /\ signalled' = TRUE
  /\ IF notified THEN ctxDone' = TRUE /\ UNCHANGED main ELSE main' = "exited" /\ UNCHANGED ctxDone
  /\ UNCHANGED <<deferred, open, backend, notified, listener, requests, outcome>>

\* SIGKILL, or the machine.
Kill ==
  /\ Alive
  /\ main' = "exited"
  /\ UNCHANGED <<deferred, open, backend, notified, ctxDone, listener, requests, signalled, outcome>>

-----------------------------------------------------------------------------
Main ==
  OpenDB \/ RunMigrations \/ OpenRedis \/ Setup \/ Shutdown \/ Drained \/ Deadline \/ Return

Next ==
  \/ Main \/ Listen \/ ServeFails \/ Signal \/ Kill \/ RecordExpires
  \/ \E r \in Requests : Accept(r) \/ Handle(r) \/ HangUp(r)

\* What main does after a signal takes its time, but is not stopped: no call in
\* it waits for a handler longer than the deadline. Nothing is assumed of
\* handlers, of the set-up, or of signals.
Fairness == WF_vars(Shutdown) /\ WF_vars(Drained \/ Deadline) /\ WF_vars(Return)

Spec == Init /\ [][Next]_vars /\ Fairness

-----------------------------------------------------------------------------
(* Properties.                                                              *)

Pools == {"db", "redis"}
Places == {"openDB", "migrate", "openRedis", "setup", "wait", "shutdown", "return", "exited"}

\* Types; and a pool is open if and only if its Close is deferred.
TypeOK ==
  /\ main \in Places
  /\ deferred \in Seq(Pools \cup {"limiters", "stop", "cancel"})
  /\ open = {p \in Pools : \E k \in DOMAIN deferred : deferred[k] = p}
  /\ backend \in {"memory", "redis"} /\ notified \in BOOLEAN /\ ctxDone \in BOOLEAN
  /\ listener \in {"none", "starting", "listening", "closed", "failed"}
  /\ pc \in [Requests -> {"away", "limit", "reserve", "lookup", "write", "save", "return", "over"}]
  /\ gone \subseteq Requests /\ guarded \subseteq Requests /\ answered \subseteq Requests
  /\ holder \subseteq Requests /\ left \subseteq Requests /\ disturbed \in BOOLEAN
  /\ record \in {"none", "pending", "done"} /\ writes \in Nat
  /\ signalled \in BOOLEAN /\ outcome \in {"none", "clean", "forced", "failed"}

\* No handler finds Postgres or Redis closed, unless the deadline passed with it
\* still running.
PoolsOutliveHandlers ==
  outcome # "forced" /\ Alive /\ Running # {} => open = Pools

\* "shutdown clean" means what it says (Day_14 README, "drains in-flight
\* requests"): every request that was accepted has been answered, unless its client
\* hung up; and a key that stays pending is one whose reservation was lost before,
\* by a panic, a Save that failed or a SETNX without its answer, and not cut off by
\* the shutdown.
CleanMeansComplete ==
  outcome = "clean" =>
    /\ \A r \in Requests : pc[r] # "away" => r \in answered \cup gone
    /\ record = "pending" => holder \cap left # {}

\* The write is made at most once, unless the key was disturbed, which is the guard's
\* own exception (Idempotency), or the shutdown was forced: Redis is closed before
\* Postgres, and in between a late attempt runs unguarded.
WritesOnce == writes > 1 => disturbed \/ (outcome = "forced" /\ "redis" \notin open)

\* A signal ends the process, whatever the handlers do.
SignalEndsProcess == signalled ~> main = "exited"
=============================================================================
