-------------------------- MODULE Idempotency_proofs --------------------------
(***************************************************************************)
(* Proofs about Idempotency, for every set of attempts, keys and bodies and *)
(* every combination of faults.                                             *)
(***************************************************************************)
EXTENDS Idempotency, TLAPS

\* An attempt owns its key from the SETNX it won, and for good once its write
\* is committed.
Owner(r) ==
  Keyed(r) /\ (pc[r] \in {"leased", "reply", "save"} \/ r \in committed)

\* Where an attempt is fixes what it carries and what it has produced.
Stages ==
  \A r \in Requests :
    /\ pc[r] \in {"reserve", "lookup", "leased", "reply", "save"}
         => Keyed(r) /\ BodyOf[r] \in Bodies
    /\ pc[r] \in {"new", "reserve", "lookup"} => r \notin committed
    /\ pc[r] \in {"new", "reserve", "lookup", "leased", "open"}
         => result[r] = "none"
    /\ pc[r] \in {"reply", "save"}
         => result[r] \in HandlerStatus /\ (result[r] = "ok" => r \in committed)
    /\ pc[r] \notin {"save", "finished", "dead"} => answer[r] = Unanswered
    /\ answer[r].from = "replay" => answer[r].status \in HandlerStatus

\* A key that is not disturbed is owned once, and owned only while its record
\* is there; an attempt that holds the lease finds it pending.
Ownership ==
  \A r \in Requests : Keyed(r) /\ KeyOf[r] \notin disturbed =>
    /\ pc[r] # "open"
    /\ Owner(r) \/ pc[r] = "lookup" => redis[KeyOf[r]] # Absent
    /\ pc[r] \in {"leased", "reply", "save"}
         => redis[KeyOf[r]].state = "pending"
    /\ \A s \in Requests : Owner(r) /\ Owner(s) /\ SameKey(r, s) => r = s

\* A saved record is the response of an attempt with the record's body.
RecordsAreGenuine ==
  \A k \in Keys : redis[k].state = "done" =>
    \E s \in Requests :
      /\ KeyOf[s] = k /\ BodyOf[s] = redis[k].body
      /\ result[s] = redis[k].status
      /\ redis[k].status = "ok" => s \in committed

IInv == TypeOK /\ Stages /\ Ownership /\ RecordsAreGenuine /\ ReplayIsGenuine

-----------------------------------------------------------------------------
\* What Record and its three shapes are, in the form the steps below use.
LEMMA RecordShapes ==
  /\ Absent \in Record /\ Absent.state = "absent"
  /\ \A b \in Bodies : /\ Pending(b) \in Record /\ Pending(b) # Absent
                       /\ Pending(b).state = "pending" /\ Pending(b).body = b
  /\ \A b \in Bodies, st \in HandlerStatus :
       /\ Done(b, st) \in Record /\ Done(b, st) # Absent
       /\ Done(b, st).state = "done" /\ Done(b, st).body = b
       /\ Done(b, st).status = st
  /\ \A rec \in Record : rec = Absent <=> rec.state = "absent"
  /\ \A rec \in Record : rec.state \in {"absent", "pending", "done"}
  /\ \A rec \in Record : rec.state = "done" => rec.status \in HandlerStatus
BY DEF Record, Absent, Pending, Done, HandlerStatus

LEMMA KeyedAttempts ==
  \A r \in Requests :
    /\ Keyed(r) <=> KeyOf[r] \in Keys
    /\ BodyOf[r] # TooLarge <=> BodyOf[r] \in Bodies
BY KeysAssumption, BodiesAssumption, AttemptsAssumption DEF Keyed

\* Init establishes the inductive invariant.
LEMMA InitInv == Init => IInv
<1> SUFFICES ASSUME Init PROVE IInv OBVIOUS
<1>1. TypeOK
  BY RecordShapes DEF Init, TypeOK, Answer, Unanswered
<1>2. Stages
  BY DEF Init, Stages, Unanswered
<1>3. Ownership
  BY DEF Init, Ownership, Owner
<1>4. RecordsAreGenuine
  BY DEF Init, RecordsAreGenuine, Absent
<1>5. ReplayIsGenuine
  BY DEF Init, ReplayIsGenuine, Unanswered
<1> QED BY <1>1, <1>2, <1>3, <1>4, <1>5 DEF IInv

\* What an attempt between HashBody and its end may write to the store.
LEMMA Carried ==
  IInv => \A r \in Requests :
    /\ pc[r] \in {"reserve", "lookup", "leased", "reply", "save"}
         => KeyOf[r] \in Keys /\ Pending(BodyOf[r]) \in Record
    /\ pc[r] \in {"reply", "save"}
         => Done(BodyOf[r], result[r]) \in Record /\ result[r] \in HandlerStatus
BY RecordShapes, KeyedAttempts DEF IInv, Stages

\* Every variable keeps its type, by every action.
LEMMA StepType == IInv /\ [Next]_vars => TypeOK'
<1> SUFFICES ASSUME IInv, [Next]_vars PROVE TypeOK' OBVIOUS
<1> USE Carried DEF IInv, TypeOK, Goto, Reply, Answer, HandlerStatus, GuardStatus
<1>1. ASSUME NEW r \in Requests, Arrive(r) PROVE TypeOK'
  BY <1>1 DEF Arrive, PassThrough, RejectLargeBody, HashBody
<1>2. ASSUME NEW r \in Requests, SetNX(r) PROVE TypeOK'
  BY <1>2 DEF SetNX
<1>3. ASSUME NEW r \in Requests, Lookup(r) PROVE TypeOK'
  <2> DEFINE found == redis[KeyOf[r]]
  <2>1. Keyed(r) /\ KeyOf[r] \in Keys /\ found \in Record
    BY <1>3, KeyedAttempts DEF Lookup, Stages
  <2>2. found.state = "done" => found.status \in HandlerStatus
    BY <2>1, RecordShapes
  <2>3. \/ UNCHANGED answer
        \/ \E from \in {"guard", "replay"}, status \in HandlerStatus \cup GuardStatus :
             answer' = [answer EXCEPT ![r] = [from |-> from, status |-> status]]
    BY <1>3, <2>2 DEF Lookup
  <2>4. answer' \in [Requests -> Answer]
    BY <2>3
  <2>5. pc' \in [Requests -> {"new", "reserve", "lookup", "leased", "open",
                             "reply", "save", "finished", "dead"}]
    BY <1>3 DEF Lookup
  <2> QED
    BY <1>3, <2>4, <2>5 DEF Lookup
<1>4. ASSUME NEW r \in Requests, ReserveFails(r) PROVE TypeOK'
  BY <1>4 DEF ReserveFails
<1>5. ASSUME NEW r \in Requests, SetNXResent(r) PROVE TypeOK'
  BY <1>5 DEF SetNXResent
<1>6. ASSUME NEW r \in Requests, WriteResponse(r) PROVE TypeOK'
  BY <1>6 DEF WriteResponse
<1>7. ASSUME NEW r \in Requests, Save(r) \/ SaveFails(r) PROVE TypeOK'
  <2>1. CASE Save(r)
    BY <2>1 DEF Save
  <2>2. CASE SaveFails(r)
    BY <2>2 DEF SaveFails
  <2> QED
    BY <1>7, <2>1, <2>2
<1>8. ASSUME NEW r \in Requests, Handler(r) PROVE TypeOK'
  <2>1. CASE CommitWrite(r)
    BY <2>1 DEF CommitWrite
  <2>2. ASSUME NEW status \in HandlerStatus, HandlerReturns(r, status) PROVE TypeOK'
    <3>1. \/ UNCHANGED answer
          \/ answer' = [answer EXCEPT ![r] = [from |-> "handler", status |-> status]]
      BY <2>2 DEF HandlerReturns
    <3>2. answer' \in [Requests -> Answer]
      BY <3>1
    <3>3. result' \in [Requests -> HandlerStatus \cup {"none"}]
      BY <2>2 DEF HandlerReturns
    <3> QED
      BY <2>2, <3>2, <3>3 DEF HandlerReturns
  <2>3. CASE HandlerPanics(r)
    BY <2>3 DEF HandlerPanics
  <2> QED
    BY <1>8, <2>1, <2>2, <2>3 DEF Handler
<1>9. CASE Environment
  BY <1>9, RecordShapes DEF Environment, LeaseExpires, RecordExpires, HangUp, Crash
<1>10. CASE UNCHANGED vars
  BY <1>10 DEF vars
<1> QED
  BY <1>1, <1>2, <1>3, <1>4, <1>5, <1>6, <1>7, <1>8, <1>9, <1>10
  DEF Next, Middleware, Quiescent
\* What an attempt carries and has produced follows it through every action.
LEMMA StepStages == IInv /\ [Next]_vars => Stages'
<1> SUFFICES ASSUME IInv, [Next]_vars PROVE Stages' OBVIOUS
<1> USE KeyedAttempts DEF IInv, TypeOK, Stages, Goto, Reply, Unanswered
<1>1. ASSUME NEW r \in Requests, Arrive(r) PROVE Stages'
  BY <1>1 DEF Arrive, PassThrough, RejectLargeBody, HashBody
<1>2. ASSUME NEW r \in Requests, SetNX(r) PROVE Stages'
  BY <1>2 DEF SetNX
<1>3. ASSUME NEW r \in Requests, Lookup(r) PROVE Stages'
  <2>1. pc[r] = "lookup" /\ \E place \in {"open", "finished"} : pc' = [pc EXCEPT ![r] = place]
    BY <1>3 DEF Lookup
  <2>2. pc' = [pc EXCEPT ![r] = "open"] => UNCHANGED answer
    BY <1>3 DEF Lookup
  <2>3. \A s \in Requests : s # r => answer'[s] = answer[s]
    BY <1>3 DEF Lookup
  <2>5. answer'[r].from = "replay" => answer'[r].status \in HandlerStatus
    <3>1. redis[KeyOf[r]] \in Record
      BY <1>3 DEF Lookup
    <3> QED BY <1>3, <3>1, RecordShapes DEF Lookup
  <2>4. UNCHANGED <<redis, committed, result, hungup, disturbed>>
    BY <1>3 DEF Lookup
  <2> QED
    BY <2>1, <2>2, <2>3, <2>4, <2>5
<1>4. ASSUME NEW r \in Requests, ReserveFails(r) PROVE Stages'
  BY <1>4 DEF ReserveFails
<1>5. ASSUME NEW r \in Requests, SetNXResent(r) PROVE Stages'
  BY <1>5 DEF SetNXResent
<1>6. ASSUME NEW r \in Requests, WriteResponse(r) PROVE Stages'
  BY <1>6 DEF WriteResponse
<1>7. ASSUME NEW r \in Requests, Save(r) \/ SaveFails(r) PROVE Stages'
  BY <1>7 DEF Save, SaveFails
<1>8. ASSUME NEW r \in Requests, CommitWrite(r) PROVE Stages'
  BY <1>8 DEF CommitWrite, Running
<1>9. ASSUME NEW r \in Requests, NEW status \in HandlerStatus,
             HandlerReturns(r, status)
      PROVE  Stages'
  BY <1>9 DEF HandlerReturns, Running
<1>10. ASSUME NEW r \in Requests, HandlerPanics(r) PROVE Stages'
  BY <1>10 DEF HandlerPanics, Running
<1>11. CASE Environment
  BY <1>11 DEF Environment, LeaseExpires, RecordExpires, HangUp, Crash, Over
<1>12. CASE UNCHANGED vars
  BY <1>12 DEF vars
<1> QED
  BY <1>1, <1>2, <1>3, <1>4, <1>5, <1>6, <1>7, <1>8, <1>9, <1>10, <1>11, <1>12
  DEF Next, Middleware, Handler, Quiescent

\* A key that is not disturbed keeps its one owner.
LEMMA StepOwnership == IInv /\ [Next]_vars => Ownership'
<1> SUFFICES ASSUME IInv, [Next]_vars PROVE Ownership' OBVIOUS
<1> USE RecordShapes, KeyedAttempts
    DEF IInv, TypeOK, Stages, Ownership, Owner, SameKey, Goto
<1>1. ASSUME NEW r \in Requests, Arrive(r) PROVE Ownership'
  BY <1>1 DEF Arrive, PassThrough, RejectLargeBody, HashBody
<1>2. ASSUME NEW r \in Requests, SetNX(r) PROVE Ownership'
  BY <1>2 DEF SetNX
<1>3. ASSUME NEW r \in Requests, Lookup(r) PROVE Ownership'
  BY <1>3 DEF Lookup
<1>4. ASSUME NEW r \in Requests, ReserveFails(r) PROVE Ownership'
  BY <1>4 DEF ReserveFails
<1>5. ASSUME NEW r \in Requests, SetNXResent(r) PROVE Ownership'
  BY <1>5 DEF SetNXResent
<1>6. ASSUME NEW r \in Requests, WriteResponse(r) PROVE Ownership'
  BY <1>6 DEF WriteResponse
<1>7. ASSUME NEW r \in Requests, Save(r) \/ SaveFails(r) PROVE Ownership'
  BY <1>7 DEF Save, SaveFails
<1>8. ASSUME NEW r \in Requests, CommitWrite(r) PROVE Ownership'
  BY <1>8 DEF CommitWrite, Running
<1>9. ASSUME NEW r \in Requests, NEW status \in HandlerStatus,
             HandlerReturns(r, status)
      PROVE  Ownership'
  BY <1>9 DEF HandlerReturns, Running
<1>10. ASSUME NEW r \in Requests, HandlerPanics(r) PROVE Ownership'
  BY <1>10 DEF HandlerPanics, Running
<1>11. CASE Environment
  BY <1>11 DEF Environment, LeaseExpires, RecordExpires, HangUp, Crash, Over
<1>12. CASE UNCHANGED vars
  BY <1>12 DEF vars
<1> QED
  BY <1>1, <1>2, <1>3, <1>4, <1>5, <1>6, <1>7, <1>8, <1>9, <1>10, <1>11, <1>12
  DEF Next, Middleware, Handler, Quiescent
\* A handler's status, once recorded, and a committed write are never undone.
LEMMA ResultsAreKept ==
  IInv /\ [Next]_vars =>
    /\ \A s \in Requests : result[s] \in HandlerStatus => result'[s] = result[s]
    /\ committed \subseteq committed'
<1> SUFFICES ASSUME IInv, [Next]_vars
             PROVE  /\ \A s \in Requests :
                         result[s] \in HandlerStatus => result'[s] = result[s]
                    /\ committed \subseteq committed'
  OBVIOUS
<1>1. ASSUME NEW r \in Requests, NEW status \in HandlerStatus,
             HandlerReturns(r, status)
      PROVE  /\ \A s \in Requests :
                  result[s] \in HandlerStatus => result'[s] = result[s]
             /\ committed \subseteq committed'
  BY <1>1 DEF HandlerReturns, Running, IInv, TypeOK, Stages, HandlerStatus
<1>2. ASSUME NEW r \in Requests, CommitWrite(r)
      PROVE  UNCHANGED result /\ committed \subseteq committed'
  BY <1>2 DEF CommitWrite
<1>3. ASSUME NEW r \in Requests, Arrive(r) \/ Middleware(r) \/ HandlerPanics(r)
      PROVE  UNCHANGED <<result, committed>>
  BY <1>3 DEF Arrive, PassThrough, RejectLargeBody, HashBody, Middleware, SetNX,
     Lookup, ReserveFails, SetNXResent, WriteResponse, Save, SaveFails, HandlerPanics
<1>4. Environment => UNCHANGED <<result, committed>>
  BY DEF Environment, LeaseExpires, RecordExpires, HangUp, Crash
<1> QED
  BY <1>1, <1>2, <1>3, <1>4 DEF Next, Handler, Quiescent, vars

\* Only a save makes a record "done", with the response of the saving attempt.
LEMMA DoneComesFromSave ==
  IInv /\ [Next]_vars =>
    \A k \in Keys : redis'[k].state = "done" =>
      \/ redis'[k] = redis[k]
      \/ \E r \in Requests : /\ pc[r] = "save" /\ KeyOf[r] = k
                            /\ redis'[k] = Done(BodyOf[r], result[r])
<1> DEFINE Fresh(k) == \/ redis'[k] = redis[k]
                       \/ \E r \in Requests : /\ pc[r] = "save" /\ KeyOf[r] = k
                              /\ redis'[k] = Done(BodyOf[r], result[r])
<1> SUFFICES ASSUME IInv, [Next]_vars, NEW k \in Keys, redis'[k].state = "done"
             PROVE  Fresh(k)
  OBVIOUS
<1> USE RecordShapes, KeyedAttempts DEF IInv, TypeOK, Stages
<1>1. ASSUME NEW r \in Requests, Save(r) \/ SaveFails(r) PROVE Fresh(k)
  <2>1. UNCHANGED redis
        \/ redis' = [redis EXCEPT ![KeyOf[r]] = Done(BodyOf[r], result[r])]
    BY <1>1 DEF Save, SaveFails
  <2> QED BY <1>1, <2>1 DEF Save, SaveFails
<1>2. ASSUME NEW r \in Requests, SetNX(r) \/ ReserveFails(r) \/ SetNXResent(r)
      PROVE  Fresh(k)
  <2>1. UNCHANGED redis \/ redis' = [redis EXCEPT ![KeyOf[r]] = Pending(BodyOf[r])]
    BY <1>2 DEF SetNX, ReserveFails, SetNXResent
  <2>2. BodyOf[r] \in Bodies \/ UNCHANGED redis
    BY <1>2 DEF SetNX, ReserveFails, SetNXResent
  <2> QED BY <2>1, <2>2
<1>3. ASSUME NEW r \in Requests,
             Arrive(r) \/ Lookup(r) \/ WriteResponse(r) \/ Handler(r)
      PROVE  UNCHANGED redis
  BY <1>3 DEF Arrive, PassThrough, RejectLargeBody, HashBody, Lookup,
     WriteResponse, Handler, CommitWrite, HandlerReturns, HandlerPanics
<1>4. ASSUME Environment PROVE Fresh(k)
  BY <1>4 DEF Environment, LeaseExpires, RecordExpires, HangUp, Crash
<1> QED
  BY <1>1, <1>2, <1>3, <1>4 DEF Next, Middleware, Quiescent, vars

\* Records stay genuine: an old one by ResultsAreKept, a new one by its save.
LEMMA StepRecords == IInv /\ [Next]_vars => RecordsAreGenuine'
<1> SUFFICES ASSUME IInv, [Next]_vars, NEW k \in Keys, redis'[k].state = "done"
             PROVE  \E s \in Requests :
                      /\ KeyOf[s] = k /\ BodyOf[s] = redis'[k].body
                      /\ result'[s] = redis'[k].status
                      /\ redis'[k].status = "ok" => s \in committed'
  BY DEF RecordsAreGenuine
<1>1. CASE redis'[k] = redis[k]
  <2>1. redis[k] \in Record /\ redis[k].status \in HandlerStatus
    BY <1>1, RecordShapes DEF IInv, TypeOK
  <2>2. PICK s \in Requests :
          /\ KeyOf[s] = k /\ BodyOf[s] = redis[k].body
          /\ result[s] = redis[k].status
          /\ redis[k].status = "ok" => s \in committed
    BY <1>1 DEF IInv, RecordsAreGenuine
  <2> QED
    BY <1>1, <2>1, <2>2, ResultsAreKept
<1>2. ASSUME NEW r \in Requests, pc[r] = "save", KeyOf[r] = k,
             redis'[k] = Done(BodyOf[r], result[r])
      PROVE  \E s \in Requests :
                      /\ KeyOf[s] = k /\ BodyOf[s] = redis'[k].body
                      /\ result'[s] = redis'[k].status
                      /\ redis'[k].status = "ok" => s \in committed'
  <2>1. /\ BodyOf[r] \in Bodies /\ result[r] \in HandlerStatus
        /\ result[r] = "ok" => r \in committed
    BY <1>2 DEF IInv, Stages
  <2>2. redis'[k].body = BodyOf[r] /\ redis'[k].status = result[r]
    BY <1>2, <2>1, RecordShapes
  <2> QED
    BY <1>2, <2>1, <2>2, ResultsAreKept
<1> QED
  BY <1>1, <1>2, DoneComesFromSave

\* A replay is answered from a record; nothing answers twice.
LEMMA StepReplay == IInv /\ [Next]_vars => ReplayIsGenuine'
<1> SUFFICES ASSUME IInv, [Next]_vars,
                    NEW r \in Requests, answer'[r].from = "replay"
             PROVE  \E s \in Requests :
                      /\ SameKey(r, s) /\ BodyOf[s] = BodyOf[r]
                      /\ result'[s] = answer'[r].status
                      /\ answer'[r].status = "ok" => s \in committed'
  BY DEF ReplayIsGenuine, SameKey, Keyed
<1> USE DEF IInv, TypeOK
<1>1. CASE answer'[r] = answer[r]
  <2>1. PICK s \in Requests :
          /\ SameKey(r, s) /\ BodyOf[s] = BodyOf[r]
          /\ result[s] = answer[r].status
          /\ answer[r].status = "ok" => s \in committed
    BY <1>1 DEF ReplayIsGenuine
  <2>2. result[s] \in HandlerStatus
    BY <1>1, <2>1 DEF Stages
  <2> QED
    BY <1>1, <2>1, <2>2, ResultsAreKept
<1>2. CASE Lookup(r) /\ answer'[r] # answer[r]
  <2> DEFINE k == KeyOf[r]
  <2>1. k \in Keys /\ redis[k] \in Record /\ redis[k].state = "done"
        /\ redis[k].body = BodyOf[r] /\ answer'[r].status = redis[k].status
    BY <1>2, KeyedAttempts, RecordShapes DEF Lookup, Reply, Stages
  <2>2. PICK s \in Requests :
          /\ KeyOf[s] = k /\ BodyOf[s] = redis[k].body
          /\ result[s] = redis[k].status
          /\ redis[k].status = "ok" => s \in committed
    BY <2>1 DEF RecordsAreGenuine
  <2>3. UNCHANGED <<result, committed>>
    BY <1>2 DEF Lookup
  <2> QED
    BY <2>1, <2>2, <2>3, KeyedAttempts DEF SameKey
<1>3. CASE answer'[r] # answer[r] /\ ~Lookup(r)
  <2>1. ASSUME NEW q \in Requests, Lookup(q), q # r PROVE FALSE
    BY <2>1, <1>3 DEF Lookup, Reply
  <2>2. ASSUME NEW q \in Requests, Arrive(q) PROVE FALSE
    BY <2>2, <1>3 DEF Arrive, PassThrough, RejectLargeBody, HashBody, Reply
  <2>3. ASSUME NEW q \in Requests, Middleware(q), ~Lookup(q) PROVE FALSE
    BY <2>3, <1>3 DEF Middleware, SetNX, ReserveFails, SetNXResent,
       WriteResponse, Save, SaveFails, Reply
  <2>4. ASSUME NEW q \in Requests, Handler(q) PROVE FALSE
    BY <2>4, <1>3 DEF Handler, CommitWrite, HandlerReturns, HandlerPanics, Reply
  <2>5. Environment => FALSE
    BY <1>3 DEF Environment, LeaseExpires, RecordExpires, HangUp, Crash
  <2> QED
    BY <1>3, <2>1, <2>2, <2>3, <2>4, <2>5 DEF Next, Quiescent, vars
<1> QED
  BY <1>1, <1>2, <1>3

-----------------------------------------------------------------------------
\* The inductive invariant holds of every behaviour.
THEOREM Invariance == Spec => []IInv
<1>1. IInv /\ [Next]_vars => IInv'
  BY StepType, StepStages, StepOwnership, StepRecords, StepReplay DEF IInv
<1> QED
  BY InitInv, <1>1, PTL DEF Spec

\* Every variable has its type (Redis holds records, answers are answers).
THEOREM TypeCorrect == Spec => []TypeOK
BY Invariance, PTL DEF IInv

\* At most one write per undisturbed Idempotency-Key: middleware.go may run the
\* handlers of two attempts at one key only after the key's record has expired
\* or Reserve has failed for that key.
THEOREM OneWritePerKey == Spec => []AtMostOneWrite
<1>1. IInv => AtMostOneWrite
  BY DEF IInv, TypeOK, Ownership, Owner, AtMostOneWrite, SameKey, Keyed
<1> QED
  BY Invariance, <1>1, PTL

\* Replays are genuine under every fault the middleware meets.
THEOREM GenuineReplays == Spec => []ReplayIsGenuine
BY Invariance, PTL DEF IInv

\* Save never replaces a saved response of an undisturbed key.
THEOREM FinalResponses == Spec => SavedResponseIsFinal
<1> DEFINE Final == \A k \in Keys :
             redis[k].state = "done" /\ k \notin disturbed' => redis'[k] = redis[k]
<1>1. IInv /\ [Next]_vars => Final
  <2> SUFFICES ASSUME IInv, [Next]_vars, NEW k \in Keys,
                      redis[k].state = "done", k \notin disturbed'
               PROVE  redis'[k] = redis[k]
    OBVIOUS
  <2> USE KeyedAttempts, RecordShapes DEF IInv, TypeOK, Stages, Ownership
  <2>1. ASSUME NEW r \in Requests, Save(r) \/ SaveFails(r) PROVE redis'[k] = redis[k]
    <3>1. k \notin disturbed /\ pc[r] = "save"
      BY <2>1 DEF Save, SaveFails
    <3>2. KeyOf[r] # k
      BY <3>1
    <3> QED BY <2>1, <3>2 DEF Save, SaveFails
  <2>2. ASSUME NEW r \in Requests, SetNX(r) \/ ReserveFails(r) \/ SetNXResent(r)
        PROVE  redis'[k] = redis[k]
    BY <2>2 DEF SetNX, ReserveFails, SetNXResent
  <2>3. ASSUME NEW r \in Requests,
               Arrive(r) \/ Lookup(r) \/ WriteResponse(r) \/ Handler(r)
        PROVE  UNCHANGED redis
    BY <2>3 DEF Arrive, PassThrough, RejectLargeBody, HashBody, Lookup,
       WriteResponse, Handler, CommitWrite, HandlerReturns, HandlerPanics
  <2>4. ASSUME Environment PROVE redis'[k] = redis[k]
    BY <2>4 DEF Environment, LeaseExpires, RecordExpires, HangUp, Crash
  <2> QED
    BY <2>1, <2>2, <2>3, <2>4 DEF Next, Middleware, Quiescent, vars
<1>2. [][Final]_vars => SavedResponseIsFinal
  BY PTL DEF SavedResponseIsFinal
<1> QED
  BY Invariance, <1>1, <1>2, PTL DEF Spec
-----------------------------------------------------------------------------
\* A reply to an attempt not yet answered is a Tell of the promise, provided
\* that an "ok" has its write.
LEMMA ReplyIsTell ==
  ASSUME IInv, NEW r \in Requests, NEW from, NEW status \in HandlerStatus \cup GuardStatus,
         answer[r] = Unanswered, Reply(r, from, status),
         UNCHANGED <<committed, disturbed>>,
         status = "ok" => Abstract!Backed(r)
  PROVE  Abstract!Next
<1>1. [q \in Requests |-> answer'[q].status]
        = [[q \in Requests |-> answer[q].status] EXCEPT ![r] = status]
  BY DEF IInv, TypeOK, Reply
<1>2. Abstract!Tell(r, status)
  BY <1>1 DEF Abstract!Tell, Abstract!Untold, Unanswered
<1> QED
  BY <1>2 DEF Abstract!Next

\* The middleware implements RetrySafeWrites, whatever fails: every step is a
\* write, an answer or an excuse of the promise, or invisible to it.
THEOREM ImplementsPromise == Spec => KeepsPromise
<1>1. Init => Abstract!Init
  BY DEF Init, Abstract!Init, Abstract!Untold, Unanswered
<1>2. IInv /\ IInv' /\ [Next]_vars => [Abstract!Next]_(Abstract!vars)
  <2> SUFFICES ASSUME IInv, IInv', [Next]_vars
               PROVE  [Abstract!Next]_(Abstract!vars)
    OBVIOUS
  <2>1. ASSUME NEW r \in Requests, Arrive(r) PROVE [Abstract!Next]_(Abstract!vars)
    <3>1. CASE RejectLargeBody(r)
      BY <3>1, ReplyIsTell DEF RejectLargeBody, IInv, Stages, GuardStatus
    <3> QED
      BY <2>1, <3>1 DEF Arrive, PassThrough, HashBody, Abstract!vars
  <2>2. ASSUME NEW r \in Requests, SetNX(r) \/ SetNXResent(r) \/ Save(r) \/ SaveFails(r)
        PROVE  UNCHANGED Abstract!vars
    BY <2>2 DEF SetNX, SetNXResent, Save, SaveFails, Abstract!vars
  <2>3. ASSUME NEW r \in Requests, Lookup(r) PROVE [Abstract!Next]_(Abstract!vars)
    <3>1. answer[r] = Unanswered /\ UNCHANGED <<committed, disturbed, result>>
      BY <2>3 DEF Lookup, IInv, Stages
    <3>2. CASE UNCHANGED answer
      BY <3>1, <3>2 DEF Abstract!vars
    <3>3. CASE Reply(r, "guard", "422") \/ Reply(r, "guard", "409")
      BY <3>1, <3>3, ReplyIsTell DEF GuardStatus
    <3>4. CASE Reply(r, "replay", redis[KeyOf[r]].status)
               /\ redis[KeyOf[r]].state = "done"
      <4>1. redis[KeyOf[r]].status \in HandlerStatus
        BY <2>3, <3>4, RecordShapes, KeyedAttempts DEF Lookup, IInv, TypeOK, Stages
      <4>2. answer'[r].from = "replay" /\ answer'[r].status = redis[KeyOf[r]].status
        BY <3>4 DEF Reply, IInv, TypeOK
      <4>3. redis[KeyOf[r]].status = "ok" => Abstract!Backed(r)
        BY <3>1, <4>2, KeyedAttempts DEF IInv, ReplayIsGenuine, SameKey, Abstract!Backed, Abstract!SameKey
      <4> QED BY <3>1, <3>4, <4>1, <4>3, ReplyIsTell
    <3> QED
      BY <2>3, <3>2, <3>3, <3>4 DEF Lookup
  <2>4. ASSUME NEW r \in Requests, ReserveFails(r) PROVE Abstract!Next
    BY <2>4, KeyedAttempts DEF ReserveFails, IInv, Stages, Abstract!Next, Abstract!Excuse
  <2>5. ASSUME NEW r \in Requests, WriteResponse(r) PROVE Abstract!Next
    BY <2>5, ReplyIsTell DEF WriteResponse, IInv, Stages, Abstract!Backed
  <2>6. ASSUME NEW r \in Requests, CommitWrite(r) PROVE Abstract!Next
    <3>1. \A s \in committed : Abstract!SameKey(s, r) => KeyOf[r] \in disturbed
      <4> SUFFICES ASSUME NEW s \in committed, KeyOf[r] \in Keys, KeyOf[s] = KeyOf[r],
                          KeyOf[r] \notin disturbed
                   PROVE  FALSE
        BY DEF Abstract!SameKey
      <4>1. s \in Requests /\ s # r /\ {r, s} \subseteq committed'
        BY <2>6 DEF CommitWrite, IInv, TypeOK
      <4>2. KeyOf[r] \notin disturbed' /\ Keyed(r) /\ Keyed(s)
        BY <2>6, KeyedAttempts, <4>1 DEF CommitWrite
      <4> QED
        BY <4>1, <4>2 DEF IInv, Ownership, Owner, SameKey
    <3> QED
      BY <2>6, <3>1 DEF CommitWrite, Abstract!Next, Abstract!Write
  <2>7. ASSUME NEW r \in Requests, NEW status \in HandlerStatus, HandlerReturns(r, status)
        PROVE  [Abstract!Next]_(Abstract!vars)
    <3>1. CASE UNCHANGED answer
      BY <2>7, <3>1 DEF HandlerReturns, Abstract!vars
    <3>2. CASE Reply(r, "handler", status)
      BY <2>7, <3>2, ReplyIsTell DEF HandlerReturns, Running, IInv, Stages, Abstract!Backed
    <3> QED
      BY <2>7, <3>1, <3>2 DEF HandlerReturns
  <2>8. ASSUME NEW r \in Requests, HandlerPanics(r) PROVE Abstract!Next
    BY <2>8, ReplyIsTell DEF HandlerPanics, Running, IInv, Stages, HandlerStatus
  <2>9. CASE Environment
    BY <2>9 DEF Environment, LeaseExpires, RecordExpires, HangUp, Crash,
       Abstract!Next, Abstract!Excuse, Abstract!vars
  <2>10. CASE UNCHANGED vars
    BY <2>10 DEF vars, Abstract!vars
  <2> QED
    BY <2>1, <2>2, <2>3, <2>4, <2>5, <2>6, <2>7, <2>8, <2>9, <2>10
    DEF Next, Middleware, Handler, Quiescent
<1> QED
  BY Invariance, <1>1, <1>2, PTL DEF Spec, KeepsPromise, Abstract!Spec
=============================================================================
