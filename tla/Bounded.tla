------------------------------- MODULE Bounded -------------------------------
(***************************************************************************)
(* The bounds of Day 37 that are built by hand: a pool of workers on one     *)
(* channel (cmd/workerpool), whose context is never cancelled, and a         *)
(* weighted semaphore (cmd/semaphore, golang.org/x/sync/semaphore), which    *)
(* one goroutine acquires from and many release to.                          *)
(***************************************************************************)
EXTENDS Naturals, Sequences, FiniteSets

CONSTANTS
  Workers,
  PoolJobs,   \* the producer sends 1 .. PoolJobs
  Costs,      \* Costs[i]: tokens of the i-th job of the semaphore
  Budget      \* all tokens

ASSUME BoundedAssumption ==
  PoolJobs \in Nat /\ Costs \in Seq(Nat \ {0}) /\ Budget \in Nat

Idle == 0
Gone == PoolJobs + 1

VARIABLES
  offered,    \* the job the producer sends next
  closed,     \* close(jobs)
  does,       \* does[w]: the job worker w works on, Idle or Gone
  processed,  \* processed[j]: how often
  dismantled, \* wg.Wait() has returned
  asking,     \* the job main acquires for, or one more than there are
  tokens,     \* what the semaphore has left
  at,         \* at[i]: where the goroutine of job i is
  running,    \* the atomic counter inflight
  saw         \* saw[i]: inflight as job i printed it

poolVars == <<offered, closed, does, processed, dismantled>>
semVars == <<asking, tokens, at, running, saw>>

BoundedInit ==
  /\ offered = 1 /\ closed = FALSE /\ dismantled = FALSE
  /\ does = [w \in Workers |-> Idle] /\ processed = [j \in 1 .. PoolJobs |-> 0]
  /\ asking = 1 /\ tokens = Budget /\ running = 0
  /\ at = [i \in 1 .. Len(Costs) |-> "new"] /\ saw = [i \in 1 .. Len(Costs) |-> 0]

-----------------------------------------------------------------------------
\* jobs <- Job{ID: i}, to a worker in its select.
Offer(w) ==
  /\ offered <= PoolJobs /\ does[w] = Idle
  /\ does' = [does EXCEPT ![w] = offered]
  /\ offered' = offered + 1
  /\ UNCHANGED <<closed, processed, dismantled>>

Process(w) ==
  /\ does[w] \in 1 .. PoolJobs
  /\ processed' = [processed EXCEPT ![does[w]] = @ + 1]
  /\ does' = [does EXCEPT ![w] = Idle]
  /\ UNCHANGED <<offered, closed, dismantled>>

CloseJobs ==
  /\ offered > PoolJobs /\ ~closed
  /\ closed' = TRUE
  /\ UNCHANGED <<offered, does, processed, dismantled>>

\* ok is false: the channel is closed, and nothing is left in it.
WorkerExits(w) ==
  /\ closed /\ does[w] = Idle
  /\ does' = [does EXCEPT ![w] = Gone]
  /\ UNCHANGED <<offered, closed, processed, dismantled>>

WaitWorkers ==
  /\ closed /\ ~dismantled /\ \A w \in Workers : does[w] = Gone
  /\ dismantled' = TRUE
  /\ UNCHANGED <<offered, closed, does, processed>>

PoolNext ==
  \/ CloseJobs \/ WaitWorkers
  \/ \E w \in Workers : Offer(w) \/ Process(w) \/ WorkerExits(w)

-----------------------------------------------------------------------------
Goes(i, from, to) == at[i] = from /\ at' = [at EXCEPT ![i] = to]

\* sem.Acquire blocks main, and with it all later jobs, until there is room.
Acquire ==
  /\ asking <= Len(Costs) /\ Costs[asking] <= tokens
  /\ tokens' = tokens - Costs[asking]
  /\ Goes(asking, "new", "held")
  /\ asking' = asking + 1
  /\ UNCHANGED <<running, saw>>

\* n := atomic.AddInt64(&inflight, 1)
Start(i) ==
  /\ Goes(i, "held", "works")
  /\ running' = running + 1
  /\ saw' = [saw EXCEPT ![i] = running + 1]
  /\ UNCHANGED <<asking, tokens>>

\* The deferred calls run last first: the counter, then sem.Release.
Finish(i) ==
  /\ Goes(i, "works", "left")
  /\ running' = running - 1
  /\ UNCHANGED <<asking, tokens, saw>>

GiveBack(i) ==
  /\ Goes(i, "left", "done")
  /\ tokens' = tokens + Costs[i]
  /\ UNCHANGED <<asking, running, saw>>

SemNext == Acquire \/ \E i \in 1 .. Len(Costs) : Start(i) \/ Finish(i) \/ GiveBack(i)

SemOver == \A i \in 1 .. Len(Costs) : at[i] = "done"

-----------------------------------------------------------------------------
\* When main goes on, every job was processed, once, and all workers are gone.
PoolIsDone == dismantled => \A j \in 1 .. PoolJobs : processed[j] = 1

\* A job that costs the whole budget prints that it runs alone, and the semaphore has all of its tokens
\* back at the end.
HugeRunsAlone ==
  /\ \A i \in 1 .. Len(Costs) : Costs[i] = Budget => saw[i] <= 1
  /\ SemOver => tokens = Budget
=============================================================================
