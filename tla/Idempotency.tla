----------------------------- MODULE Idempotency -----------------------------
(***************************************************************************)
(* The Idempotency-Key middleware of the Day 35 notes API                   *)
(* (internal/idempotency): concurrent attempts of clients that retry POST,  *)
(* PUT and PATCH requests, the record each key has in Redis, the handler    *)
(* that runs behind the middleware and commits one database write, and the  *)
(* failures the code meets: slow handlers that outlive the lease, panics,   *)
(* a replica that dies, a client that hangs up (r.Context() is cancelled)   *)
(* and Redis commands that fail, applied or not.                            *)
(***************************************************************************)
EXTENDS FiniteSets

CONSTANTS
  Requests,   \* the attempts; each is one HTTP request
  Keys,       \* scoped keys, "idem:user:<id>:<key>"
  NoKey,      \* the key of an attempt the middleware passes through
  Bodies,     \* request bodies, up to their SHA-256
  TooLarge,   \* a body above MaxBody
  KeyOf,      \* KeyOf[r]: the scoped key attempt r carries
  BodyOf,     \* BodyOf[r]: the body of attempt r
  Faults      \* which of FaultKinds may happen

FaultKinds == {"lease", "ttl", "panic", "crash", "hangup", "redis"}

ASSUME KeysAssumption == NoKey \notin Keys
ASSUME BodiesAssumption == TooLarge \notin Bodies
ASSUME AttemptsAssumption ==
  /\ KeyOf \in [Requests -> Keys \cup {NoKey}]
  /\ BodyOf \in [Requests -> Bodies \cup {TooLarge}]
ASSUME FaultsAssumption == Faults \subseteq FaultKinds

VARIABLES
  pc,         \* where each attempt's goroutine is
  redis,      \* redis[k]: the record of key k
  committed,  \* the attempts whose database write is committed
  result,     \* result[r]: the status the handler of r gave (the recorder)
  answer,     \* answer[r]: the response written for r and who produced it
  hungup,     \* attempts whose client is gone: their context is cancelled
  disturbed   \* history: keys whose record expired, or a Redis command failed

vars == <<pc, redis, committed, result, answer, hungup, disturbed>>

-----------------------------------------------------------------------------
\* Records of the store (store.go, Record).
Absent == [state |-> "absent"]
Pending(body) == [state |-> "pending", body |-> body]
Done(body, status) == [state |-> "done", body |-> body, status |-> status]

HandlerStatus == {"ok", "rejected", "failed"}     \* 2xx, 4xx, 5xx
GuardStatus == {"409", "422", "413"}

Record ==
  {Absent} \cup [state : {"pending"}, body : Bodies]
           \cup [state : {"done"}, body : Bodies, status : HandlerStatus]

Unanswered == [from |-> "nobody", status |-> "none"]
Answer == [from : {"nobody", "handler", "replay", "guard", "recover"},
           status : HandlerStatus \cup GuardStatus \cup {"none"}]

Keyed(r) == KeyOf[r] # NoKey
Running == {"leased", "open"}
Over == {"finished", "dead"}

Init ==
  /\ pc = [r \in Requests |-> "new"]
  /\ redis = [k \in Keys |-> Absent]
  /\ committed = {}
  /\ result = [r \in Requests |-> "none"]
  /\ answer = [r \in Requests |-> Unanswered]
  /\ hungup = {}
  /\ disturbed = {}

Goto(r, place) == pc' = [pc EXCEPT ![r] = place]
Reply(r, from, status) ==
  answer' = [answer EXCEPT ![r] = [from |-> from, status |-> status]]

-----------------------------------------------------------------------------
(* Plausible mistakes in this code, each under the name of the action it    *)
(* would replace: the properties below tell every one of them apart.        *)

\* Reserve writes with SET instead of SETNX.
SetNX_Overwrites(r) ==
  /\ pc[r] = "reserve" /\ r \notin hungup
  /\ redis' = [redis EXCEPT ![KeyOf[r]] = Pending(BodyOf[r])]
  /\ Goto(r, "leased")
  /\ UNCHANGED <<committed, result, answer, hungup, disturbed>>

\* Reserve does not compare the body hashes.
Lookup_AnyBody(r) ==
  LET rec == redis[KeyOf[r]] IN
  /\ pc[r] = "lookup" /\ r \notin hungup
  /\ \/ rec = Absent /\ Goto(r, "open") /\ UNCHANGED answer
     \/ /\ rec # Absent
        /\ Goto(r, "finished")
        /\ IF rec.state = "pending" THEN Reply(r, "guard", "409")
                                    ELSE Reply(r, "replay", rec.status)
  /\ UNCHANGED <<redis, committed, result, hungup, disturbed>>

\* ErrPending falls into the branch that fails open.
Lookup_PendingRuns(r) ==
  LET rec == redis[KeyOf[r]] IN
  /\ pc[r] = "lookup" /\ r \notin hungup
  /\ \/ rec.state # "done" /\ Goto(r, "open") /\ UNCHANGED answer
     \/ /\ rec.state = "done"
        /\ Goto(r, "finished")
        /\ IF rec.body = BodyOf[r] THEN Reply(r, "replay", rec.status)
                                   ELSE Reply(r, "guard", "422")
  /\ UNCHANGED <<redis, committed, result, hungup, disturbed>>

\* Instead of a 409, an attempt waits for the record of the first one.
Lookup_WaitsForDone(r) ==
  LET rec == redis[KeyOf[r]] IN
  /\ pc[r] = "lookup" /\ r \notin hungup /\ rec.state = "done"
  /\ Goto(r, "finished")
  /\ IF rec.body = BodyOf[r] THEN Reply(r, "replay", rec.status)
                             ELSE Reply(r, "guard", "422")
  /\ UNCHANGED <<redis, committed, result, hungup, disturbed>>

\* The response is sent with the default 200, not the recorder's status.
WriteResponse_DefaultStatus(r) ==
  /\ pc[r] = "reply"
  /\ Goto(r, "save")
  /\ Reply(r, "handler", "ok")
  /\ UNCHANGED <<redis, committed, result, hungup, disturbed>>

\* The record is saved with a status that was never set.
Save_UnsetStatus(r) ==
  /\ pc[r] = "save" /\ r \notin hungup
  /\ redis' = [redis EXCEPT ![KeyOf[r]] = Done(BodyOf[r], "none")]
  /\ Goto(r, "finished")
  /\ UNCHANGED <<committed, result, answer, hungup, disturbed>>

\* The lease is put on the done record and the pending one has no expiry.
LeaseExpires_DoneOnly(k) ==
  /\ redis[k].state = "done"
  /\ redis' = [redis EXCEPT ![k] = Absent]
  /\ disturbed' = disturbed \cup {k}
  /\ UNCHANGED <<pc, committed, result, answer, hungup>>

-----------------------------------------------------------------------------
\* middleware.go: the checks before the store is asked.
PassThrough(r) ==
  /\ pc[r] = "new" /\ ~Keyed(r)
  /\ Goto(r, "open")
  /\ UNCHANGED <<redis, committed, result, answer, hungup, disturbed>>

RejectLargeBody(r) ==
  /\ pc[r] = "new" /\ Keyed(r) /\ BodyOf[r] = TooLarge
  /\ Goto(r, "finished")
  /\ Reply(r, "guard", "413")
  /\ UNCHANGED <<redis, committed, result, hungup, disturbed>>

HashBody(r) ==
  /\ pc[r] = "new" /\ Keyed(r) /\ BodyOf[r] # TooLarge
  /\ Goto(r, "reserve")
  /\ UNCHANGED <<redis, committed, result, answer, hungup, disturbed>>

-----------------------------------------------------------------------------
\* store.go, Reserve: SETNX, then GET when the key is taken.
SetNX(r) ==
  LET k == KeyOf[r] IN
  /\ pc[r] = "reserve" /\ r \notin hungup
  /\ \/ /\ redis[k] = Absent
        /\ redis' = [redis EXCEPT ![k] = Pending(BodyOf[r])]
        /\ Goto(r, "leased")
     \/ /\ redis[k] # Absent
        /\ Goto(r, "lookup")
        /\ UNCHANGED redis
  /\ UNCHANGED <<committed, result, answer, hungup, disturbed>>

\* The GET of a taken key, and the middleware's switch on what it returns.
\* A record that is gone by now is an error to Reserve, and every error but
\* ErrPending and ErrMismatch lets the handler run without a lease.
Lookup(r) ==
  LET rec == redis[KeyOf[r]] IN
  /\ pc[r] = "lookup" /\ r \notin hungup
  /\ \/ /\ rec = Absent
        /\ Goto(r, "open")
        /\ UNCHANGED answer
     \/ /\ rec # Absent
        /\ Goto(r, "finished")
        /\ \/ rec.body # BodyOf[r] /\ Reply(r, "guard", "422")
           \/ /\ rec.body = BodyOf[r] /\ rec.state = "pending"
              /\ Reply(r, "guard", "409")
           \/ /\ rec.body = BodyOf[r] /\ rec.state = "done"
              /\ Reply(r, "replay", rec.status)
  /\ UNCHANGED <<redis, committed, result, hungup, disturbed>>

\* Reserve's commands fail: the context is cancelled, or Redis does not
\* answer. A SETNX without an answer may have been applied. The middleware
\* fails open: it logs and runs the handler, and no record will be saved.
ReserveFails(r) ==
  LET k == KeyOf[r] IN
  /\ pc[r] \in {"reserve", "lookup"}
  /\ r \in hungup \/ "redis" \in Faults
  /\ \/ UNCHANGED redis
     \/ /\ "redis" \in Faults /\ pc[r] = "reserve" /\ redis[k] = Absent
        /\ redis' = [redis EXCEPT ![k] = Pending(BodyOf[r])]
  /\ Goto(r, "open")
  /\ disturbed' = disturbed \cup {k}
  /\ UNCHANGED <<committed, result, answer, hungup>>

\* The client library resends a SETNX whose answer was lost: the second one
\* finds the record of the first, which nobody holds now.
SetNXResent(r) ==
  LET k == KeyOf[r] IN
  /\ "redis" \in Faults
  /\ pc[r] = "reserve" /\ r \notin hungup /\ redis[k] = Absent
  /\ redis' = [redis EXCEPT ![k] = Pending(BodyOf[r])]
  /\ Goto(r, "lookup")
  /\ UNCHANGED <<committed, result, answer, hungup, disturbed>>

-----------------------------------------------------------------------------
\* The handler behind the middleware: at most one database transaction, under
\* the request's context, then a response into the recorder (leased) or
\* straight to the client (open).
CommitWrite(r) ==
  /\ pc[r] \in Running /\ r \notin committed /\ r \notin hungup
  /\ committed' = committed \cup {r}
  /\ UNCHANGED <<pc, redis, result, answer, hungup, disturbed>>

HandlerReturns(r, status) ==
  /\ pc[r] \in Running
  /\ status = "ok" => r \in committed
  /\ status = "rejected" => r \notin committed
  /\ result' = [result EXCEPT ![r] = status]
  /\ \/ /\ pc[r] = "leased"
        /\ Goto(r, "reply")
        /\ UNCHANGED answer
     \/ /\ pc[r] = "open"
        /\ Goto(r, "finished")
        /\ Reply(r, "handler", status)
  /\ UNCHANGED <<redis, committed, hungup, disturbed>>

\* The panic unwinds through the middleware, which neither saves nor
\* releases; the Recover middleware outside it answers 500.
HandlerPanics(r) ==
  /\ "panic" \in Faults
  /\ pc[r] \in Running
  /\ Goto(r, "finished")
  /\ Reply(r, "recover", "failed")
  /\ UNCHANGED <<redis, committed, result, hungup, disturbed>>

-----------------------------------------------------------------------------
\* middleware.go: copy the recorded response to the client, then save it.
WriteResponse(r) ==
  /\ pc[r] = "reply"
  /\ Goto(r, "save")
  /\ Reply(r, "handler", result[r])
  /\ UNCHANGED <<redis, committed, result, hungup, disturbed>>

Save(r) ==
  LET k == KeyOf[r] IN
  /\ pc[r] = "save" /\ r \notin hungup
  /\ redis' = [redis EXCEPT ![k] = Done(BodyOf[r], result[r])]
  /\ Goto(r, "finished")
  /\ UNCHANGED <<committed, result, answer, hungup, disturbed>>

\* The SET fails, with or without effect; the middleware only logs it.
SaveFails(r) ==
  LET k == KeyOf[r] IN
  /\ pc[r] = "save"
  /\ r \in hungup \/ "redis" \in Faults
  /\ \/ UNCHANGED redis
     \/ /\ "redis" \in Faults
        /\ redis' = [redis EXCEPT ![k] = Done(BodyOf[r], result[r])]
  /\ Goto(r, "finished")
  /\ UNCHANGED <<committed, result, answer, hungup, disturbed>>

-----------------------------------------------------------------------------
\* The environment: Redis key expiry, clients, replicas.
LeaseExpires(k) ==
  /\ "lease" \in Faults
  /\ redis[k].state = "pending"
  /\ redis' = [redis EXCEPT ![k] = Absent]
  /\ disturbed' = disturbed \cup {k}
  /\ UNCHANGED <<pc, committed, result, answer, hungup>>

RecordExpires(k) ==
  /\ "ttl" \in Faults
  /\ redis[k].state = "done"
  /\ redis' = [redis EXCEPT ![k] = Absent]
  /\ disturbed' = disturbed \cup {k}
  /\ UNCHANGED <<pc, committed, result, answer, hungup>>

HangUp(r) ==
  /\ "hangup" \in Faults
  /\ pc[r] \notin Over \cup {"new"} /\ r \notin hungup
  /\ hungup' = hungup \cup {r}
  /\ UNCHANGED <<pc, redis, committed, result, answer, disturbed>>

\* The process serving r dies: nothing after this point of r happens.
Crash(r) ==
  /\ "crash" \in Faults
  /\ pc[r] \notin Over \cup {"new"}
  /\ Goto(r, "dead")
  /\ UNCHANGED <<redis, committed, result, answer, hungup, disturbed>>

-----------------------------------------------------------------------------
Arrive(r) == PassThrough(r) \/ RejectLargeBody(r) \/ HashBody(r)

Middleware(r) ==
  \/ SetNX(r) \/ Lookup(r) \/ ReserveFails(r) \/ SetNXResent(r)
  \/ WriteResponse(r) \/ Save(r) \/ SaveFails(r)

Handler(r) ==
  \/ CommitWrite(r)
  \/ \E status \in HandlerStatus : HandlerReturns(r, status)
  \/ HandlerPanics(r)

Environment ==
  \/ \E k \in Keys : LeaseExpires(k) \/ RecordExpires(k)
  \/ \E r \in Requests : HangUp(r) \/ Crash(r)

\* Every attempt has been made and is over; only expiry could still happen.
Quiescent == (\A r \in Requests : pc[r] \in Over) /\ UNCHANGED vars

Next ==
  \/ \E r \in Requests : Arrive(r) \/ Middleware(r) \/ Handler(r)
  \/ Environment
  \/ Quiescent

Spec == Init /\ [][Next]_vars

\* A goroutine that can run does, and Redis expires a lease that is due.
Fairness ==
  /\ \A r \in Requests :
       /\ WF_vars(Middleware(r))
       /\ WF_vars(\E status \in HandlerStatus : HandlerReturns(r, status))
  /\ \A k \in Keys : WF_vars(LeaseExpires(k))

FairSpec == Spec /\ Fairness

-----------------------------------------------------------------------------
TypeOK ==
  /\ pc \in [Requests -> {"new", "reserve", "lookup", "leased", "open",
                          "reply", "save", "finished", "dead"}]
  /\ redis \in [Keys -> Record]
  /\ committed \subseteq Requests
  /\ result \in [Requests -> HandlerStatus \cup {"none"}]
  /\ answer \in [Requests -> Answer]
  /\ hungup \subseteq Requests
  /\ disturbed \subseteq Keys

SameKey(r, s) == Keyed(r) /\ KeyOf[r] = KeyOf[s]

\* At most one write per key: attempts that carry one Idempotency-Key commit
\* at most one database write between them as long as the key's record has
\* not expired and Reserve has not failed for it, whatever else goes wrong
\* (panics, crashes, hang-ups, failed saves, other bodies, any concurrency).
AtMostOneWrite ==
  \A r, s \in committed :
    SameKey(r, s) /\ KeyOf[r] \notin disturbed => r = s

\* What a retry is replayed is what a handler answered to an attempt with the
\* same key and the same body, and a replayed 2xx has a committed write behind
\* it. No fault is excepted: not a late Save, not a reclaimed lease.
ReplayIsGenuine ==
  \A r \in Requests :
    answer[r].from = "replay" =>
      \E s \in Requests :
        /\ SameKey(r, s) /\ BodyOf[s] = BodyOf[r]
        /\ result[s] = answer[r].status
        /\ answer[r].status = "ok" => s \in committed

\* A saved response is final: until the key is disturbed, no later Save, of
\* whatever attempt, replaces the record that replays are answered from.
SavedResponseIsFinal ==
  [][\A k \in Keys :
       redis[k].state = "done" /\ k \notin disturbed' => redis'[k] = redis[k]]_vars

\* A crashed, panicked or hung-up attempt cannot block its key for ever: every
\* pending record is saved over or reclaimed.
PendingIsResolved ==
  \A k \in Keys : redis[k].state = "pending" ~> redis[k].state # "pending"

\* Every attempt that was made ends: answered, or dead with its replica.
AttemptEnds == \A r \in Requests : pc[r] = "reserve" ~> pc[r] \in Over

\* Nobody waits for ever, neither an attempt for the store nor a key for an
\* attempt that died.
Progress == AttemptEnds /\ PendingIsResolved

Abstract == INSTANCE RetrySafeWrites
  WITH writes <- committed,
       told <- [r \in Requests |-> answer[r].status],
       excused <- disturbed,
       Statuses <- HandlerStatus \cup GuardStatus

\* The middleware implements the promise of RetrySafeWrites.
KeepsPromise == Abstract!Spec
=============================================================================
