----------------------- MODULE ServerLifecycle_proofs -----------------------
(***************************************************************************)
(* Proofs about ServerLifecycle, for every set of requests.                  *)
(***************************************************************************)
EXTENDS ServerLifecycle, SequenceTheorems, TLAPS

\* Types of main and the server, without the stack of deferred calls.
MainTyped ==
  /\ main \in Places
  /\ open \subseteq Pools
  /\ backend \in {"memory", "redis"} /\ notified \in BOOLEAN /\ ctxDone \in BOOLEAN
  /\ listener \in {"none", "starting", "listening", "closed", "failed"}
  /\ signalled \in BOOLEAN /\ outcome \in {"none", "clean", "forced", "failed"}

\* Types of the requests and their key.
RequestsTyped ==
  /\ pc \in [Requests -> {"away", "limit", "reserve", "lookup", "write", "save", "return", "over"}]
  /\ gone \subseteq Requests /\ guarded \subseteq Requests /\ answered \subseteq Requests
  /\ holder \subseteq Requests /\ left \subseteq Requests /\ disturbed \in BOOLEAN
  /\ record \in {"none", "pending", "done"} /\ writes \in Nat

Typed == MainTyped /\ RequestsTyped

LEMMA InitTyped == Init => Typed
<1> SUFFICES ASSUME Init PROVE Typed OBVIOUS
<1>1. pc \in [Requests -> {"away", "limit", "reserve", "lookup", "write", "save", "return", "over"}]
  BY DEF Init
<1>2. /\ writes \in Nat /\ open \subseteq Pools
      /\ gone \subseteq Requests /\ guarded \subseteq Requests /\ answered \subseteq Requests
      /\ holder \subseteq Requests /\ left \subseteq Requests
  BY DEF Init
<1>3. disturbed \in BOOLEAN /\ notified \in BOOLEAN /\ ctxDone \in BOOLEAN /\ signalled \in BOOLEAN
  BY DEF Init
<1>4. /\ main \in Places /\ backend \in {"memory", "redis"} /\ record \in {"none", "pending", "done"}
      /\ listener \in {"none", "starting", "listening", "closed", "failed"}
      /\ outcome \in {"none", "clean", "forced", "failed"}
  BY DEF Init, Places
<1> QED
  BY <1>1, <1>2, <1>3, <1>4 DEF Typed, MainTyped, RequestsTyped

\* main, the server and the operating system leave the requests alone.
LEMMA MainOnly ==
  ASSUME Main \/ Listen \/ ServeFails \/ Signal \/ Kill
  PROVE  UNCHANGED requests
<1>1. CASE Main
  BY <1>1 DEF Main, OpenDB, RunMigrations, OpenRedis, Setup, Shutdown, Drained, Deadline, Return
<1>2. CASE Listen \/ ServeFails \/ Signal \/ Kill
  BY <1>2 DEF Listen, ServeFails, Signal, Kill
<1> QED
  BY <1>1, <1>2

\* What a request does is its own: main and the server go on as they were.
LEMMA RequestsOnly ==
  ASSUME NEW r \in Requests, Accept(r) \/ Handle(r) \/ HangUp(r)
  PROVE  Alive /\ NoProcess
<1>1. CASE Accept(r) \/ Limit(r) \/ Write(r) \/ HandlerPanics(r) \/ Reply(r) \/ HangUp(r)
  BY <1>1 DEF Accept, Limit, Write, HandlerPanics, Reply, HangUp
<1>2. CASE Middleware(r)
  BY <1>2 DEF Middleware, SetNX, Lookup, ReserveFails, SetNXResent, Save, SaveFails
<1> QED
  BY <1>1, <1>2 DEF Handle

LEMMA StepTyped == Typed /\ [Next]_vars => Typed'
<1> SUFFICES ASSUME Typed, [Next]_vars PROVE Typed' OBVIOUS
<1>1. CASE Main \/ Listen \/ ServeFails \/ Signal \/ Kill
  <2>0. RequestsTyped'
    BY <1>1, MainOnly DEF Typed, RequestsTyped, requests, key
  <2> USE DEF Typed, MainTyped, Places, Pools
  <2>1. CASE OpenDB
    BY <2>0, <2>1 DEF OpenDB, GiveUp
  <2>2. CASE RunMigrations
    BY <2>0, <2>2 DEF RunMigrations, GiveUp
  <2>3. CASE OpenRedis
    BY <2>0, <2>3 DEF OpenRedis, GiveUp
  <2>4. CASE Setup
    BY <2>0, <2>4 DEF Setup
  <2>5. CASE Shutdown
    BY <2>0, <2>5 DEF Shutdown
  <2>6. CASE Drained
    BY <2>0, <2>6 DEF Drained
  <2>7. CASE Deadline
    BY <2>0, <2>7 DEF Deadline
  <2>8. CASE Return
    BY <2>0, <2>8 DEF Return
  <2>9. CASE Listen
    BY <2>0, <2>9 DEF Listen
  <2>10. CASE ServeFails
    BY <2>0, <2>10 DEF ServeFails
  <2>11. CASE Signal
    BY <2>0, <2>11 DEF Signal
  <2>12. CASE Kill
    BY <2>0, <2>12 DEF Kill
  <2> QED
    BY <1>1, <2>1, <2>2, <2>3, <2>4, <2>5, <2>6, <2>7, <2>8, <2>9, <2>10, <2>11, <2>12 DEF Main
<1>3. ASSUME NEW r \in Requests, Accept(r) \/ Handle(r) \/ HangUp(r) PROVE Typed'
  <2>0. MainTyped'
    BY <1>3, RequestsOnly DEF NoProcess, process, Typed, MainTyped
  <2> USE DEF Typed, RequestsTyped, Go, Pend, Commits, key
  <2>1. CASE Accept(r)
    BY <2>0, <2>1 DEF Accept
  <2>2. CASE Limit(r)
    BY <2>0, <2>2 DEF Limit
  <2>3. CASE SetNX(r)
    BY <2>0, <2>3 DEF SetNX
  <2>4. CASE Lookup(r)
    BY <2>0, <2>4 DEF Lookup
  <2>5. CASE ReserveFails(r)
    BY <2>0, <2>5 DEF ReserveFails
  <2>6. CASE SetNXResent(r)
    BY <2>0, <2>6 DEF SetNXResent
  <2>7. CASE Write(r)
    BY <2>0, <2>7 DEF Write
  <2>8. CASE HandlerPanics(r)
    BY <2>0, <2>8 DEF HandlerPanics
  <2>9. CASE Save(r)
    BY <2>0, <2>9 DEF Save
  <2>10. CASE SaveFails(r)
    BY <2>0, <2>10 DEF SaveFails
  <2>11. CASE Reply(r)
    BY <2>0, <2>11 DEF Reply
  <2>12. CASE HangUp(r)
    BY <2>0, <2>12 DEF HangUp
  <2> QED
    BY <1>3, <2>1, <2>2, <2>3, <2>4, <2>5, <2>6, <2>7, <2>8, <2>9, <2>10, <2>11, <2>12
    DEF Handle, Middleware
<1>4. CASE RecordExpires
  <2>1. MainTyped'
    BY <1>4 DEF RecordExpires, NoProcess, process, Typed, MainTyped
  <2>2. RequestsTyped'
    BY <1>4 DEF RecordExpires, Typed, RequestsTyped
  <2> QED
    BY <2>1, <2>2 DEF Typed
<1>5. CASE UNCHANGED vars
  BY <1>5 DEF vars, process, requests, key, Typed, MainTyped, RequestsTyped
<1> QED
  BY <1>1, <1>3, <1>4, <1>5 DEF Next

-----------------------------------------------------------------------------
(* The deferred calls.                                                      *)

S0 == <<>>
S1 == <<"db">>
S2 == <<"redis", "db">>
S3 == <<"limiters", "redis", "db">>
S4 == <<"stop", "limiters", "redis", "db">>
S5 == <<"cancel", "stop", "limiters", "redis", "db">>

\* What is deferred where main is, and what is open with it.
Stack ==
  /\ \/ deferred = S0 /\ open = {}
     \/ deferred = S1 /\ open = {"db"}
     \/ deferred \in {S2, S3, S4, S5} /\ open = Pools
  /\ main = "openDB" => deferred = S0
  /\ main \in {"migrate", "openRedis"} => deferred = S1
  /\ main = "setup" => deferred = S2
  /\ main = "wait" => deferred = S4
  /\ main = "shutdown" => deferred = S5

LEMMA Pops ==
  /\ Tail(S1) = S0 /\ Head(S1) = "db"
  /\ Tail(S2) = S1 /\ Head(S2) = "redis"
  /\ Tail(S3) = S2 /\ Head(S3) = "limiters"
  /\ Tail(S4) = S3 /\ Head(S4) = "stop"
  /\ Tail(S5) = S4 /\ Head(S5) = "cancel"
BY DEF S0, S1, S2, S3, S4, S5

LEMMA Pushes ==
  /\ <<"db">> \o S0 = S1
  /\ <<"redis">> \o S1 = S2
  /\ <<"stop", "limiters">> \o S2 = S4
  /\ <<"cancel">> \o S4 = S5
<1> DEFINE T == Seq({"db", "redis", "limiters", "stop", "cancel"})
<1> USE DEF S0, S1, S2, S3, S4, S5
<1>1. ASSUME NEW s \in T, NEW t \in T, NEW u \in T,
             Len(u) = Len(s) + Len(t),
             \A i \in 1 .. Len(u) : u[i] = IF i <= Len(s) THEN s[i] ELSE t[i - Len(s)]
      PROVE  s \o t = u
  <2>1. s \o t \in T /\ Len(s \o t) = Len(u)
    BY <1>1, ConcatProperties
  <2>2. \A i \in 1 .. Len(u) : (s \o t)[i] = u[i]
    BY <1>1, ConcatProperties
  <2> QED
    BY <2>1, <2>2, SeqEqual
<1>2. <<"db">> \o S0 = S1
  <2>1. <<"db">> \in T /\ S0 \in T /\ S1 \in T
    OBVIOUS
  <2>2. Len(S1) = Len(<<"db">>) + Len(S0)
    OBVIOUS
  <2>3. \A i \in 1 .. Len(S1) : S1[i] = IF i <= Len(<<"db">>) THEN <<"db">>[i] ELSE S0[i - Len(<<"db">>)]
    OBVIOUS
  <2> QED
    BY <2>1, <2>2, <2>3, <1>1
<1>3. <<"redis">> \o S1 = S2
  <2>1. <<"redis">> \in T /\ S1 \in T /\ S2 \in T
    OBVIOUS
  <2>2. Len(S2) = Len(<<"redis">>) + Len(S1)
    OBVIOUS
  <2>3. \A i \in 1 .. Len(S2) : S2[i] = IF i <= Len(<<"redis">>) THEN <<"redis">>[i] ELSE S1[i - Len(<<"redis">>)]
    OBVIOUS
  <2> QED
    BY <2>1, <2>2, <2>3, <1>1
<1>4. <<"stop", "limiters">> \o S2 = S4
  <2>1. <<"stop", "limiters">> \in T /\ S2 \in T /\ S4 \in T
    OBVIOUS
  <2>2. Len(S4) = Len(<<"stop", "limiters">>) + Len(S2)
    OBVIOUS
  <2>3. \A i \in 1 .. Len(S4) : S4[i] = IF i <= Len(<<"stop", "limiters">>) THEN <<"stop", "limiters">>[i] ELSE S2[i - Len(<<"stop", "limiters">>)]
    OBVIOUS
  <2> QED
    BY <2>1, <2>2, <2>3, <1>1
<1>5. <<"cancel">> \o S4 = S5
  <2>1. <<"cancel">> \in T /\ S4 \in T /\ S5 \in T
    OBVIOUS
  <2>2. Len(S5) = Len(<<"cancel">>) + Len(S4)
    OBVIOUS
  <2>3. \A i \in 1 .. Len(S5) : S5[i] = IF i <= Len(<<"cancel">>) THEN <<"cancel">>[i] ELSE S4[i - Len(<<"cancel">>)]
    OBVIOUS
  <2> QED
    BY <2>1, <2>2, <2>3, <1>1
<1> QED
  BY <1>2, <1>3, <1>4, <1>5

LEMMA StackDistinct == S1 # S0 /\ S2 # S0 /\ S3 # S0 /\ S4 # S0 /\ S5 # S0
BY DEF S0, S1, S2, S3, S4, S5

LEMMA StackTypes ==
  ASSUME Stack
  PROVE  /\ deferred \in Seq(Pools \cup {"limiters", "stop", "cancel"})
         /\ open = {p \in Pools : \E k \in DOMAIN deferred : deferred[k] = p}
<1> USE DEF Pools, S0, S1, S2, S3, S4, S5
<1>1. CASE deferred = S0 /\ open = {}
  BY <1>1
<1>2. CASE deferred = S1 /\ open = {"db"}
  BY <1>2
<1>3. CASE deferred = S2 /\ open = Pools
  BY <1>3
<1>4. CASE deferred = S3 /\ open = Pools
  BY <1>4
<1>5. CASE deferred = S4 /\ open = Pools
  BY <1>5
<1>6. CASE deferred = S5 /\ open = Pools
  BY <1>6
<1> QED
  BY <1>1, <1>2, <1>3, <1>4, <1>5, <1>6 DEF Stack

LEMMA StepStack == Typed /\ Stack /\ [Next]_vars => Stack'
<1> SUFFICES ASSUME Typed, Stack, [Next]_vars PROVE Stack' OBVIOUS
<1> USE DEF Stack, process
<1>1. CASE OpenDB
  BY <1>1, Pushes, StackDistinct DEF OpenDB, GiveUp
<1>2. CASE RunMigrations
  BY <1>2 DEF RunMigrations, GiveUp
<1>3. CASE OpenRedis
  BY <1>3, Pushes, StackDistinct DEF OpenRedis, GiveUp, Pools
<1>4. CASE Setup
  BY <1>4, Pushes, StackDistinct DEF Setup
<1>5. CASE Shutdown
  BY <1>5, Pushes, StackDistinct DEF Shutdown
<1>6. CASE Return
  <2>1. CASE deferred = S0
    BY <1>6, <2>1 DEF Return, S0
  <2>2. CASE deferred = S1 /\ open = {"db"}
    BY <1>6, <2>2, Pops, StackDistinct DEF Return, S0
  <2>3. CASE deferred = S2 /\ open = Pools
    BY <1>6, <2>3, Pops, StackDistinct DEF Return, S0, Pools
  <2>4. CASE deferred \in {S3, S4, S5} /\ open = Pools
    BY <1>6, <2>4, Pops, StackDistinct DEF Return, S0, Pools
  <2> QED
    BY <2>1, <2>2, <2>3, <2>4
<1>7. CASE Drained \/ Deadline \/ Listen \/ ServeFails \/ Signal \/ Kill
  BY <1>7 DEF Drained, Deadline, Listen, ServeFails, Signal, Kill
<1>8. ASSUME NEW r \in Requests, Accept(r) \/ Handle(r) \/ HangUp(r) PROVE Stack'
  BY <1>8, RequestsOnly DEF NoProcess
<1>10. CASE RecordExpires
  BY <1>10 DEF RecordExpires, NoProcess
<1>9. CASE UNCHANGED vars
  BY <1>9 DEF vars
<1> QED
  BY <1>1, <1>2, <1>3, <1>4, <1>5, <1>6, <1>7, <1>8, <1>9, <1>10 DEF Next, Main

LEMMA Stacked == Spec => [](Typed /\ Stack)
<1>1. Init => Stack
  BY DEF Init, Stack, S0
<1> QED
  BY <1>1, InitTyped, StepTyped, StepStack, PTL DEF Spec

\* Types; a pool is open if and only if its Close is deferred.
THEOREM LifecycleTypes == Spec => []TypeOK
<1>1. Typed /\ Stack => TypeOK
  BY StackTypes DEF Typed, MainTyped, RequestsTyped, TypeOK
<1> QED
  BY <1>1, Stacked, PTL

-----------------------------------------------------------------------------
(* Where main is, and what may still run.                                   *)

Starts == {"openDB", "migrate", "openRedis", "setup"}
Idle == \A r \in Requests : pc[r] \in {"away", "over"}

\* Nothing is served before the set-up, nor after it failed, nor after a shutdown
\* that was clean.
Phases ==
  /\ main \in Starts \/ outcome = "failed" => listener = "none" /\ Idle
  /\ outcome = "clean" => listener # "listening" /\ Idle
  /\ main = "shutdown" => listener # "listening"
  /\ main = "return" => outcome # "none"
  /\ outcome # "none" => main \in {"return", "exited"}

LEMMA InitPhases == Init => Phases
BY DEF Init, Phases, Idle

LEMMA IdleRunning == Running = {} <=> Idle
BY DEF Running, Idle

LEMMA StepPhases == Typed /\ Phases /\ [Next]_vars => Phases'
<1> SUFFICES ASSUME Typed, Phases, [Next]_vars PROVE Phases' OBVIOUS
<1> USE DEF Phases, Starts, Idle, process, requests
<1>1. CASE OpenDB \/ RunMigrations \/ OpenRedis
  BY <1>1 DEF OpenDB, RunMigrations, OpenRedis, GiveUp
<1>2. CASE Setup \/ Shutdown \/ Deadline
  BY <1>2 DEF Setup, Shutdown, Deadline
<1>3. CASE Drained
  BY <1>3, IdleRunning DEF Drained
<1>4. CASE Return
  BY <1>4 DEF Return
<1>5. CASE Listen \/ ServeFails \/ Signal \/ Kill
  BY <1>5 DEF Listen, ServeFails, Signal, Kill, Alive
<1>6. ASSUME NEW r \in Requests, Accept(r) PROVE Phases'
  BY <1>6 DEF Accept, NoProcess, Alive
<1>7. ASSUME NEW r \in Requests, Handle(r) \/ HangUp(r) PROVE Phases'
  <2>1. UNCHANGED <<main, listener, outcome>>
    BY <1>7, RequestsOnly DEF NoProcess
  <2>2. ~Idle
    BY <1>7 DEF Handle, Middleware, Limit, SetNX, Lookup, ReserveFails, SetNXResent, Write,
                HandlerPanics, Save, SaveFails, Reply, HangUp, Running
  <2>3. CASE Handle(r)
    BY <2>1, <2>2
  <2>4. CASE HangUp(r)
    BY <2>1, <2>2
  <2> QED
    BY <1>7, <2>3, <2>4
<1>8. CASE RecordExpires
  BY <1>8 DEF RecordExpires, NoProcess
<1>9. CASE UNCHANGED vars
  BY <1>9 DEF vars
<1> QED
  BY <1>1, <1>2, <1>3, <1>4, <1>5, <1>6, <1>7, <1>8, <1>9 DEF Next, Main

\* No handler meets a closed pool, unless the shutdown was forced.
LEMMA OpenWhileRunning ==
  Typed /\ Stack /\ Phases /\ outcome # "forced" /\ Alive /\ ~Idle => open = Pools
<1> SUFFICES ASSUME Typed, Stack, Phases, outcome # "forced", Alive, ~Idle PROVE open = Pools OBVIOUS
<1>1. main \in {"wait", "shutdown"}
  BY DEF Typed, MainTyped, RequestsTyped, Phases, Places, Starts, Alive
<1> QED
  BY <1>1, StackDistinct DEF Stack, S1, S4, S5

\* Postgres and Redis are open under every handler, unless main gave up waiting.
THEOREM PoolsStayOpen == Spec => []PoolsOutliveHandlers
<1>1. Typed /\ Stack /\ Phases => PoolsOutliveHandlers
  BY OpenWhileRunning, IdleRunning DEF PoolsOutliveHandlers
<1> QED
  BY <1>1, InitPhases, StepPhases, Stacked, PTL DEF Spec

-----------------------------------------------------------------------------
(* The key and its write.                                                   *)

\* The shutdown was forced, and Redis is closed.
Closed == outcome = "forced" /\ "redis" \notin open

\* What WritesOnce excepts.
Excused == disturbed \/ Closed

\* A request that is over was answered, or nobody waits for it.
Told == \A r \in Requests : pc[r] = "over" => r \in answered \cup gone

\* A pending key has somebody who will save, or one who left it behind.
Owned ==
  record = "pending" =>
    \E h \in holder : h \in left \/ (h \in guarded /\ pc[h] \in {"write", "save"})

\* One request reserves the key, and it has the write to itself.
Guard ==
  /\ \A r, s \in guarded : r = s
  /\ record = "none" => guarded = {}
  /\ guarded = {} => writes = 0
  /\ \A r \in Requests : pc[r] = "write" => r \in guarded \cup gone
  /\ \A r \in guarded : pc[r] \in {"write", "save", "return", "over"}
  /\ \A r \in guarded : pc[r] = "write" => writes = 0
  /\ \A r \in Requests : pc[r] = "lookup" => record # "none"
  /\ writes <= 1

Key == Told /\ Owned /\ (Excused \/ Guard)
Before == Typed /\ Stack /\ Phases /\ Key

LEMMA InitKey == Init => Key
<1> SUFFICES ASSUME Init PROVE Key OBVIOUS
<1>1. Told /\ Owned
  BY DEF Init, Told, Owned
<1>2. Guard
  BY DEF Init, Guard
<1> QED
  BY <1>1, <1>2 DEF Key

LEMMA ProcessSteps ==
  ASSUME Typed, Phases, Main \/ Listen \/ ServeFails \/ Signal \/ Kill \/ UNCHANGED vars
  PROVE  UNCHANGED requests /\ (Closed => Closed')
<1> USE DEF Phases, Closed, process
<1>1. CASE OpenDB \/ RunMigrations \/ OpenRedis
  BY <1>1 DEF OpenDB, RunMigrations, OpenRedis, GiveUp
<1>2. CASE Setup \/ Shutdown \/ Drained \/ Deadline
  BY <1>2 DEF Setup, Shutdown, Drained, Deadline
<1>3. CASE Return
  BY <1>3 DEF Return
<1>4. CASE Listen \/ ServeFails \/ Signal \/ Kill \/ UNCHANGED vars
  BY <1>4 DEF Listen, ServeFails, Signal, Kill, vars
<1> QED
  BY <1>1, <1>2, <1>3, <1>4 DEF Main

LEMMA ProcessKey ==
  ASSUME Key, UNCHANGED requests, Closed => Closed'
  PROVE  Key'
<1> USE DEF requests, key
<1>1. Told'
  BY DEF Key, Told
<1>2. Owned'
  BY DEF Key, Owned
<1>3. CASE Excused
  BY <1>1, <1>2, <1>3 DEF Key, Excused
<1>4. CASE Guard
  <2>1. Guard'
    BY <1>4 DEF Guard
  <2> QED
    BY <1>1, <1>2, <2>1 DEF Key
<1> QED
  BY <1>3, <1>4 DEF Key

\* Without its client, or with Redis closed under it, a request is excused or gone.
LEMMA OutOfReach ==
  ASSUME Before, Alive, NEW r \in Requests, pc[r] \notin {"away", "over"}, ~Reaches(r)
  PROVE  Closed \/ r \in gone
BY OpenWhileRunning DEF Before, Idle, Reaches, Closed, Pools

\* Told and Owned survive what a request does.
LEMMA RequestTold ==
  ASSUME Before, NEW r \in Requests, Accept(r) \/ Handle(r) \/ HangUp(r)
  PROVE  Told'
<1> USE DEF Before, Key, Told, Typed, MainTyped, RequestsTyped, NoProcess, Go, key
<1>1. CASE Accept(r) \/ Limit(r)
  BY <1>1 DEF Accept, Limit
<1>2. CASE SetNX(r) \/ Lookup(r)
  BY <1>2 DEF SetNX, Lookup
<1>3. CASE ReserveFails(r) \/ SetNXResent(r)
  BY <1>3 DEF ReserveFails, SetNXResent
<1>4. CASE Write(r) \/ HandlerPanics(r)
  BY <1>4 DEF Write, HandlerPanics
<1>5. CASE Save(r) \/ SaveFails(r)
  BY <1>5 DEF Save, SaveFails
<1>6. CASE Reply(r)
  BY <1>6 DEF Reply
<1>7. CASE HangUp(r)
  BY <1>7 DEF HangUp
<1> QED
  BY <1>1, <1>2, <1>3, <1>4, <1>5, <1>6, <1>7 DEF Handle, Middleware

LEMMA RequestOwned ==
  ASSUME Before, NEW r \in Requests, Accept(r) \/ Handle(r) \/ HangUp(r)
  PROVE  Owned'
<1> USE DEF Before, Key, Owned, Typed, MainTyped, RequestsTyped, NoProcess, Go, key
<1>1. CASE Accept(r) \/ Limit(r) \/ Lookup(r) \/ Reply(r) \/ HangUp(r)
  <2>1. /\ UNCHANGED key
        /\ pc' = pc \/ (pc[r] \notin {"write", "save"} /\ \E to : pc' = [pc EXCEPT ![r] = to])
    <3>1. CASE Accept(r) \/ Limit(r)
      BY <3>1 DEF Accept, Limit
    <3>2. CASE Lookup(r) \/ Reply(r) \/ HangUp(r)
      BY <3>2 DEF Lookup, Reply, HangUp
    <3> QED
      BY <1>1, <3>1, <3>2
  <2> QED
    BY <2>1
<1>2. CASE SetNX(r)
  <2>1. CASE Pend(r)
    BY <1>2, <2>1 DEF SetNX, Pend
  <2>2. CASE ~Pend(r)
    BY <1>2, <2>2 DEF SetNX
  <2> QED
    BY <2>1, <2>2
<1>3. CASE ReserveFails(r) \/ SetNXResent(r)
  <2>1. CASE UNCHANGED <<record, holder, left>>
    BY <1>3, <2>1 DEF ReserveFails, SetNXResent, Pend
  <2>2. CASE holder' = {r} /\ left' = left \cup {r}
    BY <2>2
  <2> QED
    BY <1>3, <2>1, <2>2 DEF ReserveFails, SetNXResent, Pend
<1>4. CASE Write(r)
  BY <1>4 DEF Write
<1>5. CASE HandlerPanics(r)
  BY <1>5 DEF HandlerPanics
<1>6. CASE Save(r)
  BY <1>6 DEF Save
<1>7. CASE SaveFails(r)
  BY <1>7 DEF SaveFails
<1> QED
  BY <1>1, <1>2, <1>3, <1>4, <1>5, <1>6, <1>7 DEF Handle, Middleware

\* So does Guard, until its exception holds.
LEMMA RequestGuard ==
  ASSUME Before, Guard, NEW r \in Requests, Accept(r) \/ Handle(r) \/ HangUp(r)
  PROVE  Excused' \/ Guard'
<1> USE DEF Before, Typed, MainTyped, RequestsTyped, NoProcess, Go, key, process
<1>0. Alive /\ Closed' = Closed /\ (disturbed => disturbed')
  <2>1. Alive /\ Closed' = Closed
    BY RequestsOnly DEF Closed
  <2>2. disturbed => disturbed'
    BY DEF Accept, Handle, Middleware, Limit, SetNX, Lookup, ReserveFails, SetNXResent, Write,
           HandlerPanics, Save, SaveFails, Reply, HangUp
  <2> QED
    BY <2>1, <2>2
<1>1. CASE Accept(r) \/ Limit(r) \/ Reply(r) \/ HangUp(r)
  <2>1. /\ UNCHANGED <<key, writes>> /\ gone \subseteq gone'
        /\ \/ pc' = pc \/ pc' = [pc EXCEPT ![r] = "over"]
           \/ /\ pc[r] \in {"away", "limit"}
              /\ \E to \in {"limit", "reserve", "return"} : pc' = [pc EXCEPT ![r] = to]
    BY <1>1 DEF Accept, Limit, Reply, HangUp
  <2> QED
    BY <2>1 DEF Guard
<1>2. CASE SetNX(r)
  <2>1. CASE Pend(r)
    <3>1. guarded = {} /\ guarded' = {r} /\ writes = 0 /\ record' = "pending"
      BY <1>2, <2>1 DEF SetNX, Pend, Guard
    <3> QED
      BY <1>2, <3>1 DEF SetNX, Guard
  <2>2. CASE ~Pend(r)
    BY <1>2, <2>2 DEF SetNX, Guard
  <2> QED
    BY <2>1, <2>2
<1>3. CASE Lookup(r)
  BY <1>3 DEF Lookup, Guard
<1>4. CASE ReserveFails(r)
  <2>1. CASE Reaches(r)
    BY <1>4, <2>1 DEF ReserveFails, Excused
  <2>2. CASE ~Reaches(r)
    <3>1. Closed \/ r \in gone
      BY <1>0, <1>4, <2>2, OutOfReach DEF ReserveFails
    <3>2. /\ record' = "none" => record = "none"
          /\ record = "none" \/ record' = record
          /\ UNCHANGED <<gone, guarded, writes>> /\ pc' = [pc EXCEPT ![r] = "write"]
          /\ pc[r] \in {"reserve", "lookup"}
      BY <1>4 DEF ReserveFails, Pend
    <3>3. CASE r \in gone
      BY <3>2, <3>3 DEF Guard
    <3> QED
      BY <1>0, <3>1, <3>3 DEF Excused
  <2> QED
    BY <2>1, <2>2
<1>5. CASE SetNXResent(r)
  <2>1. record' = "pending"
    BY <1>5 DEF SetNXResent, Pend
  <2> QED
    BY <1>5, <2>1 DEF SetNXResent, Guard
<1>6. CASE Write(r) \/ HandlerPanics(r)
  <2>1. /\ pc[r] = "write" /\ UNCHANGED <<gone, guarded, record>>
        /\ \E to \in {"save", "return"} : pc' = [pc EXCEPT ![r] = to]
        /\ writes' = writes \/ (r \notin gone /\ writes' = writes + 1)
    BY <1>6 DEF Write, HandlerPanics, Commits
  <2>2. CASE writes' = writes
    BY <2>1, <2>2 DEF Guard
  <2>3. CASE r \notin gone /\ writes' = writes + 1
    <3>1. r \in guarded /\ writes = 0 /\ writes' = 1
      BY <2>1, <2>3 DEF Guard
    <3> QED
      BY <2>1, <3>1 DEF Guard
  <2> QED
    BY <2>1, <2>2, <2>3
<1>7. CASE Save(r) \/ SaveFails(r)
  <2>1. /\ UNCHANGED <<gone, guarded, writes>> /\ pc' = [pc EXCEPT ![r] = "return"]
        /\ record' = record \/ record' = "done"
    BY <1>7 DEF Save, SaveFails
  <2> QED
    BY <2>1 DEF Guard
<1> QED
  BY <1>1, <1>2, <1>3, <1>4, <1>5, <1>6, <1>7 DEF Handle, Middleware

LEMMA RequestKey ==
  ASSUME Before, NEW r \in Requests, Accept(r) \/ Handle(r) \/ HangUp(r)
  PROVE  Key'
<1>1. CASE Excused
  <2>1. Excused'
    <3>1. Closed' = Closed
      BY RequestsOnly DEF NoProcess, process, Closed
    <3>2. disturbed => disturbed'
      BY DEF Accept, Handle, Middleware, Limit, SetNX, Lookup, ReserveFails, SetNXResent, Write,
             HandlerPanics, Save, SaveFails, Reply, HangUp, key
    <3> QED
      BY <1>1, <3>1, <3>2 DEF Excused
  <2> QED
    BY <2>1, RequestTold, RequestOwned DEF Key
<1>2. CASE Guard
  BY <1>2, RequestTold, RequestOwned, RequestGuard DEF Key
<1> QED
  BY <1>1, <1>2 DEF Before, Key

LEMMA StepKey == Before /\ [Next]_vars => Key'
<1> SUFFICES ASSUME Before, [Next]_vars PROVE Key' OBVIOUS
<1>1. CASE Main \/ Listen \/ ServeFails \/ Signal \/ Kill \/ UNCHANGED vars
  <2>1. UNCHANGED requests /\ (Closed => Closed')
    BY <1>1, ProcessSteps DEF Before
  <2> QED
    BY <2>1, ProcessKey DEF Before
<1>2. ASSUME NEW r \in Requests, Accept(r) \/ Handle(r) \/ HangUp(r) PROVE Key'
  BY <1>2, RequestKey
<1>3. CASE RecordExpires
  <2>1. Told' /\ Owned' /\ Excused'
    BY <1>3 DEF RecordExpires, Before, Key, Told, Owned, Excused
  <2> QED
    BY <2>1 DEF Key
<1> QED
  BY <1>1, <1>2, <1>3 DEF Next

LEMMA LifecycleInvariance == Spec => []Before
<1>1. Init => Before
  BY InitTyped, InitPhases, InitKey DEF Before, Init, Stack, S0
<1>2. Before /\ [Next]_vars => Before'
  BY StepTyped, StepStack, StepPhases, StepKey DEF Before
<1> QED
  BY <1>1, <1>2, PTL DEF Spec

\* After a clean shutdown every accepted request was answered, unless its client hung
\* up, and a key is pending only because its reservation was lost before: to a panic, a
\* Save that failed, or a SETNX without its answer.
THEOREM CleanShutdown == Spec => []CleanMeansComplete
<1>1. ASSUME Before, outcome = "clean" PROVE \A r \in Requests : pc[r] \in {"away", "over"}
  BY <1>1 DEF Before, Phases, Idle
<1>2. Before => CleanMeansComplete
  BY <1>1 DEF Before, Key, Told, Owned, Typed, MainTyped, RequestsTyped, CleanMeansComplete
<1> QED
  BY <1>2, LifecycleInvariance, PTL

\* The requests make one write between them, unless the record of their key expired,
\* Reserve failed on an open Redis, or a forced shutdown closed Redis under them.
THEOREM OneWrite == Spec => []WritesOnce
<1>1. Before => WritesOnce
  BY DEF Before, Key, Guard, Excused, Closed, Typed, MainTyped, RequestsTyped, WritesOnce
<1> QED
  BY <1>1, LifecycleInvariance, PTL
=============================================================================
