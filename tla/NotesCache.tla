----------------------------- MODULE NotesCache -----------------------------
(***************************************************************************)
(* One note of the Day 35 API (internal/notes): its row and audit trail in   *)
(* Postgres, its entry in Redis, and the Get, Create, Update/Patch and       *)
(* Delete calls of any clients on any replicas. A Get is cache-aside with a  *)
(* singleflight group per replica; a write is one transaction, followed by   *)
(* the DEL of the entry. Rows and keys of other notes are independent.       *)
(* The contents of a note are abstracted to its version: how many writes of  *)
(* it have been committed.                                                   *)
(***************************************************************************)
EXTENDS Naturals, Sequences, FiniteSets

CONSTANTS
  Calls,        \* service calls that may be in flight at once
  NoCall,
  Replicas,     \* processes of the API, each with a singleflight group
  NoReplica,
  Serves,       \* Serves[c]: bound: the replicas that call c may be sent to
  MaxVersion,   \* bound: writes of the note
  Faults        \* what may fail: "redis", "db", "ack", "crash"

ASSUME CallsAssumption == IsFiniteSet(Calls)
ASSUME NoCallAssumption == NoCall \notin Calls
ASSUME NoReplicaAssumption == NoReplica \notin Replicas
ASSUME ServesAssumption == Serves \in [Calls -> SUBSET Replicas]
ASSUME MaxVersionAssumption == MaxVersion \in Nat

Versions == 0 .. MaxVersion
Empty == 0           \* no entry: a version that is cached is positive
Ops == {"create", "update", "delete"}

VARIABLES
  version,   \* committed writes of the note
  gone,      \* the row has been deleted
  trail,     \* committed audit entries of the note, in order of commit
  used,      \* the identity value has been drawn by a Create
  cache,     \* the version the Redis entry holds, or Empty
  flight,    \* flight[p]: the Get that runs the shared query of replica p
  pc,        \* pc[c]: where call c is
  at,        \* at[c]: the replica that serves call c
  op,        \* op[c]: which write call c is
  tx,        \* tx[c]: the audit rows inserted by the open transaction of c
  val,       \* val[c]: the version call c has read or written
  floor,     \* history: floor[c] is acked when Get c began
  acked,     \* history: the newest version whose write was answered
  excused,   \* history: versions an overlap or a fault may have left behind
  late       \* history: versions answered to a Get although older than its floor

row == <<version, gone, trail, used>>
calls == <<pc, at, op, tx, val, floor>>
history == <<acked, excused, late>>
vars == <<version, gone, trail, used, cache, flight, pc, at, op, tx, val,
          floor, acked, excused, late>>

Init ==
  /\ version = 0 /\ gone = FALSE /\ trail = <<>> /\ used = FALSE
  /\ cache = Empty
  /\ flight = [p \in Replicas |-> NoCall]
  /\ pc = [c \in Calls |-> "idle"]
  /\ at = [c \in Calls |-> NoReplica]
  /\ op = [c \in Calls |-> "none"]
  /\ tx = [c \in Calls |-> <<>>]
  /\ val = [c \in Calls |-> 0]
  /\ floor = [c \in Calls |-> 0]
  /\ acked = 0
  /\ excused = {}
  /\ late = {}

Exists == version > 0 /\ ~gone
Newer(v, w) == IF v > w THEN v ELSE w

Goto(c, place) ==
  /\ pc' = [pc EXCEPT ![c] = place]
  /\ UNCHANGED <<at, op, tx, val, floor>>

\* The calls of D are over and their local variables gone.
Return(D) ==
  /\ pc' = [c \in Calls |-> IF c \in D THEN "idle" ELSE pc[c]]
  /\ at' = [c \in Calls |-> IF c \in D THEN NoReplica ELSE at[c]]
  /\ op' = [c \in Calls |-> IF c \in D THEN "none" ELSE op[c]]
  /\ tx' = [c \in Calls |-> IF c \in D THEN <<>> ELSE tx[c]]
  /\ val' = [c \in Calls |-> IF c \in D THEN 0 ELSE val[c]]
  /\ floor' = [c \in Calls |-> IF c \in D THEN 0 ELSE floor[c]]

\* The Gets that share the query of c: c and those that joined its flight.
Sharers(c) == {c} \cup {d \in Calls : at[d] = at[c] /\ pc[d] = "wait"}

\* A call with a version of the row that it has not used yet.
Holds(c) == pc[c] \in {"read", "absent", "fill"}

\* The entry of the note, if there is one, may stay although it is old.
Cached == {cache} \ {Empty}

-----------------------------------------------------------------------------
(* Plausible mistakes in this code, each under the name of the action it    *)
(* would replace.                                                           *)

\* The leader returns without releasing the Gets that joined its flight.
FlightEnds_LeaderOnly(c) ==
  /\ pc[c] \in {"read", "absent"}
  /\ flight' = [flight EXCEPT ![at[c]] = NoCall]
  /\ IF pc[c] = "read" THEN Goto(c, "fill") ELSE Return({c})
  /\ UNCHANGED <<row, cache, history>>

\* The error of the shared query is ignored, its zero note cached.
FlightEnds_IgnoresError(c) ==
  /\ pc[c] \in {"read", "absent"}
  /\ flight' = [flight EXCEPT ![at[c]] = NoCall]
  /\ pc' = [d \in Calls |-> IF d \in Sharers(c) THEN "fill" ELSE pc[d]]
  /\ val' = [d \in Calls |-> IF d \in Sharers(c) THEN val[c] ELSE val[d]]
  /\ UNCHANGED <<row, cache, at, op, tx, floor, history>>

\* audit.Log runs on the pool's connection instead of the transaction's.
Log_OutsideTx(c) ==
  /\ pc[c] = "log"
  /\ trail' = Append(trail, op[c])
  /\ Goto(c, "commit")
  /\ UNCHANGED <<version, gone, used, cache, flight, history>>

\* A write that forgets to invalidate.
Commit_NoInvalidate(c) ==
  /\ pc[c] = "commit"
  /\ version' = version + 1
  /\ gone' = (op[c] = "delete")
  /\ trail' = trail \o tx[c]
  /\ acked' = version + 1
  /\ excused' = excused \cup {val[d] : d \in {e \in Calls : Holds(e)}}
  /\ Return({c})
  /\ UNCHANGED <<used, cache, flight, late>>

\* The write answers at once and the entry is deleted in the background.
Commit_AnswersFirst(c) ==
  /\ pc[c] = "commit"
  /\ version' = version + 1
  /\ gone' = (op[c] = "delete")
  /\ trail' = trail \o tx[c]
  /\ acked' = version + 1
  /\ pc' = [pc EXCEPT ![c] = "invalidate"]
  /\ val' = [val EXCEPT ![c] = version + 1]
  /\ tx' = [tx EXCEPT ![c] = <<>>]
  /\ excused' = excused \cup {val[d] : d \in {e \in Calls : Holds(e)}}
  /\ UNCHANGED <<used, cache, flight, at, op, floor, late>>

\* Entries are set without an expiry.
Expire_Never == FALSE /\ UNCHANGED vars

-----------------------------------------------------------------------------
\* Service.Get up to the cache: a hit is answered at once, a miss goes on, and
\* so does a failed or undecodable GET.
Get(c, p) ==
  /\ pc[c] = "idle" /\ p \in Serves[c]
  /\ \/ /\ cache # Empty
        /\ late' = IF cache < acked THEN late \cup {cache} ELSE late
        /\ UNCHANGED calls
     \/ /\ cache = Empty \/ "redis" \in Faults
        /\ pc' = [pc EXCEPT ![c] = "do"]
        /\ at' = [at EXCEPT ![c] = p]
        /\ floor' = [floor EXCEPT ![c] = acked]
        /\ UNCHANGED <<op, tx, val, late>>
  /\ UNCHANGED <<row, cache, flight, acked, excused>>

\* singleflight.Group.Do: lead the query of this replica, or join the one that
\* is in flight.
Do(c) ==
  LET p == at[c] IN
  /\ pc[c] = "do"
  /\ \/ flight[p] = NoCall /\ flight' = [flight EXCEPT ![p] = c] /\ Goto(c, "query")
     \/ flight[p] # NoCall /\ UNCHANGED flight /\ Goto(c, "wait")
  /\ UNCHANGED <<row, cache, history>>

\* repo.Get of the leader: the committed row, if there is one.
ReadRow(c) ==
  /\ pc[c] = "query"
  /\ pc' = [pc EXCEPT ![c] = IF Exists THEN "read" ELSE "absent"]
  /\ val' = [val EXCEPT ![c] = version]
  /\ UNCHANGED <<row, cache, flight, at, op, tx, floor, history>>

\* The query fails, or the request of the leader is cancelled: everyone who
\* shares it gets the error.
QueryFails(c) ==
  /\ pc[c] = "query" /\ "db" \in Faults
  /\ flight' = [flight EXCEPT ![at[c]] = NoCall]
  /\ Return(Sharers(c))
  /\ UNCHANGED <<row, cache, history>>

\* The flight lands: everyone who shares it gets the note, or ErrNotFound.
FlightEnds(c) ==
  /\ pc[c] \in {"read", "absent"}
  /\ flight' = [flight EXCEPT ![at[c]] = NoCall]
  /\ \/ /\ pc[c] = "read"
        /\ pc' = [d \in Calls |-> IF d \in Sharers(c) THEN "fill" ELSE pc[d]]
        /\ val' = [d \in Calls |-> IF d \in Sharers(c) THEN val[c] ELSE val[d]]
        /\ UNCHANGED <<at, op, tx, floor, late>>
     \/ /\ pc[c] = "absent"
        /\ late' = IF \E d \in Sharers(c) : val[c] < floor[d]
                     THEN late \cup {val[c]} ELSE late
        /\ Return(Sharers(c))
  /\ UNCHANGED <<row, cache, acked, excused>>

\* cache.SetJSON of the leader and of each Get that joined it, then the answer.
\* A SET that fails is only logged.
Fill(c) ==
  /\ pc[c] = "fill"
  /\ \/ cache' = val[c]
     \/ "redis" \in Faults /\ UNCHANGED cache
  /\ late' = IF val[c] < floor[c] THEN late \cup {val[c]} ELSE late
  /\ Return({c})
  /\ UNCHANGED <<row, flight, acked, excused>>

-----------------------------------------------------------------------------
\* Writes there are, and writes that may still be committed.
Writers == {c \in Calls : op[c] # "none" /\ pc[c] # "invalidate"}

\* Create, Update, Patch or Delete: InTx begins a transaction. One Create draws
\* the identity value of this note.
BeginWrite(c, p, o) ==
  /\ pc[c] = "idle" /\ p \in Serves[c] /\ version + Cardinality(Writers) < MaxVersion
  /\ o = "create" => ~used
  /\ used' = (used \/ o = "create")
  /\ pc' = [pc EXCEPT ![c] = "change"]
  /\ at' = [at EXCEPT ![c] = p]
  /\ op' = [op EXCEPT ![c] = o]
  /\ UNCHANGED <<version, gone, trail, cache, flight, tx, val, floor, history>>

\* Another transaction holds the lock of the row.
RowLocked(c) == \E d \in Calls \ {c} : pc[d] \in {"log", "commit"}

\* repo.Create, Update, Patch or Delete inside the transaction: it waits for
\* the row's lock; no row is ErrNotFound and a rollback.
Change(c) ==
  /\ pc[c] = "change"
  /\ \/ op[c] = "create" /\ Goto(c, "log")
     \/ op[c] # "create" /\ Exists /\ ~RowLocked(c) /\ Goto(c, "log")
     \/ op[c] # "create" /\ ~Exists /\ Return({c})
  /\ UNCHANGED <<row, cache, flight, history>>

\* audit.Log: RunnerFor finds the transaction in the context.
Log(c) ==
  /\ pc[c] = "log"
  /\ tx' = [tx EXCEPT ![c] = Append(@, op[c])]
  /\ pc' = [pc EXCEPT ![c] = "commit"]
  /\ UNCHANGED <<row, cache, flight, at, op, val, floor, history>>

\* A statement or the commit fails, the request is cancelled or its handler
\* panics: InTxOpts rolls back and the call returns the error.
TxFails(c) ==
  /\ pc[c] \in {"change", "log", "commit"} /\ "db" \in Faults
  /\ Return({c})
  /\ UNCHANGED <<row, cache, flight, history>>

\* The versions that overlap a commit: Gets hold them, and will SET or answer
\* them after it.
Overlapped == {val[d] : d \in {e \in Calls : Holds(e)}}

\* Postgres commits. Create answers; the others go on to invalidate. When the
\* acknowledgement is lost, Commit is an error and nothing is invalidated.
Commit(c) ==
  /\ pc[c] = "commit"
  /\ version' = version + 1
  /\ gone' = (op[c] = "delete")
  /\ trail' = trail \o tx[c]
  /\ \/ /\ op[c] = "create"
        /\ acked' = Newer(acked, version + 1)
        /\ excused' = excused \cup Overlapped
        /\ Return({c})
     \/ /\ op[c] # "create"
        /\ pc' = [pc EXCEPT ![c] = "invalidate"]
        /\ val' = [val EXCEPT ![c] = version + 1]
        /\ tx' = [tx EXCEPT ![c] = <<>>]
        /\ excused' = excused \cup Overlapped
        /\ UNCHANGED <<at, op, floor, acked>>
     \/ /\ "ack" \in Faults
        /\ excused' = excused \cup Overlapped \cup Cached
        /\ UNCHANGED acked
        /\ Return({c})
  /\ UNCHANGED <<used, cache, flight, late>>

\* Service.invalidate, then the answer. A DEL that fails is only logged.
Invalidate(c) ==
  /\ pc[c] = "invalidate"
  /\ \/ cache' = Empty /\ UNCHANGED excused
     \/ "redis" \in Faults /\ UNCHANGED cache /\ excused' = excused \cup Cached
  /\ acked' = Newer(acked, val[c])
  /\ Return({c})
  /\ UNCHANGED <<row, flight, late>>

-----------------------------------------------------------------------------
\* The entry's expiry (the TTL SetJSON gave it, with its jitter) passes.
Expire ==
  /\ cache # Empty
  /\ cache' = Empty
  /\ UNCHANGED <<row, flight, calls, history>>

\* A replica dies: its calls are gone, its transactions rolled back.
Crash(p) ==
  LET D == {c \in Calls : at[c] = p} IN
  /\ "crash" \in Faults /\ D # {}
  /\ Return(D)
  /\ flight' = [flight EXCEPT ![p] = NoCall]
  /\ excused' = IF \E c \in D : pc[c] = "invalidate"
                  THEN excused \cup Cached ELSE excused
  /\ UNCHANGED <<row, cache, acked, late>>

-----------------------------------------------------------------------------
ReadStep(c) == Do(c) \/ ReadRow(c) \/ QueryFails(c) \/ FlightEnds(c) \/ Fill(c)
WriteStep(c) == Change(c) \/ Log(c) \/ TxFails(c) \/ Commit(c) \/ Invalidate(c)

Next ==
  \/ \E c \in Calls :
       \/ \E p \in Replicas : Get(c, p) \/ \E o \in Ops : BeginWrite(c, p, o)
       \/ Do(c) \/ ReadRow(c) \/ QueryFails(c) \/ FlightEnds(c) \/ Fill(c)
       \/ Change(c) \/ Log(c) \/ TxFails(c) \/ Commit(c) \/ Invalidate(c)
  \/ Expire
  \/ \E p \in Replicas : Crash(p)

Spec == Init /\ [][Next]_vars

\* A call that runs takes its next step (the Redis client and the HTTP server
\* bound each by a timeout), and an entry with an expiry expires.
Fairness ==
  /\ \A c \in Calls : WF_vars(ReadStep(c)) /\ WF_vars(WriteStep(c))
  /\ WF_vars(Expire)

FairSpec == Spec /\ Fairness

-----------------------------------------------------------------------------
RowOK ==
  /\ version \in Versions /\ gone \in BOOLEAN /\ used \in BOOLEAN
  /\ trail \in Seq(Ops)
  /\ cache \in Versions
  /\ flight \in [Replicas -> Calls \cup {NoCall}]

\* Only a note that was found goes on to be cached.
CallsOK ==
  /\ pc \in [Calls -> {"idle", "do", "wait", "query", "read", "absent", "fill",
                       "change", "log", "commit", "invalidate"}]
  /\ at \in [Calls -> Replicas \cup {NoReplica}]
  /\ op \in [Calls -> Ops \cup {"none"}]
  /\ tx \in [Calls -> Seq(Ops)]
  /\ val \in [Calls -> Versions]
  /\ floor \in [Calls -> Versions]
  /\ \A c \in Calls : pc[c] \in {"read", "fill"} => val[c] > 0

HistoryOK ==
  /\ acked \in Versions
  /\ excused \subseteq Versions /\ late \subseteq Versions

TypeOK == RowOK /\ CallsOK /\ HistoryOK

\* The entry is older than the row only in the window between a commit and its
\* DEL, or when a Get overlapped the commit or an invalidation was lost: the
\* order "commit, then delete" leaves no other way to stale data.
StaleHasCause ==
  cache # Empty /\ cache # version /\ cache \notin excused
    => \E c \in Calls : pc[c] = "invalidate"

\* A Get that begins after a write was answered returns that write or a later
\* one, from the cache, from its own query or from a flight it joined, unless
\* the version it returns overlapped a commit or missed an invalidation.
FreshAnswers == late \subseteq excused

\* Every note write and its audit entry are committed together, in the order
\* of the row's versions, whatever fails half way.
AuditPromise == INSTANCE AuditedNote
KeepsTrail == AuditPromise!Spec

\* The TTL bounds staleness: once no more writes come, the entry is absent or
\* right from some time on, whichever overlaps and faults there were.
CacheConverges == <>[](cache \in {Empty, version})

\* A Get that has begun is answered, whether it leads the query of its replica
\* or waits for another Get's, and whichever of them fails.
GetsEnd == \A c \in Calls : pc[c] = "do" ~> pc[c] = "idle"

\* What service.go promises its readers in the end, under any fault: an answer
\* to every Get that has begun, and an entry that stops being stale.
CacheSettles == CacheConverges /\ GetsEnd

\* "Next reader misses, reads new value, refills.": the window in which the
\* entry is stale lasts from a commit to its DEL, as the Day 32 README words it.
WindowCloses ==
  (\A c \in Calls : pc[c] # "invalidate") => cache \in {Empty, version}
=============================================================================
