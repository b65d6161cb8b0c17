------------------------------- MODULE Groups -------------------------------
(***************************************************************************)
(* The errgroups of Day 37: fetches of which the first error cancels the     *)
(* others (cmd/errgroup), and jobs of which at most Limit run at a time and  *)
(* that record how many did (cmd/errgroup_limit). Go, Wait and the limit are *)
(* golang.org/x/sync/errgroup's.                                             *)
(***************************************************************************)
EXTENDS Integers, FiniteSets

CONSTANTS
  Urls,    \* what is fetched
  BadUrl,  \* the one that answers with an error
  Jobs,
  Limit    \* of the goroutines of the second group

ASSUME GroupsAssumption == BadUrl \in Urls /\ IsFiniteSet(Jobs) /\ Limit \in Nat

VARIABLES
  fetching,   \* fetching[u]: "new", "started", "ok" or how it failed
  cancelled,  \* the group's context is done
  groupErr,   \* the error that Wait returns
  waited,     \* Wait has returned
  job,        \* job[j]: where the goroutine of j is
  mine,       \* mine[j]: inflight when j began (n)
  old,        \* old[j]: the peak that j has read
  inflight,
  peak,
  highest     \* history: the greatest value of inflight

fetchVars == <<fetching, cancelled, groupErr, waited>>
limitVars == <<job, mine, old, inflight, peak, highest>>

GroupsInit ==
  /\ fetching = [u \in Urls |-> "new"] /\ cancelled = FALSE /\ groupErr = "nil" /\ waited = FALSE
  /\ job = [j \in Jobs |-> "new"] /\ mine = [j \in Jobs |-> 0] /\ old = [j \in Jobs |-> 0]
  /\ inflight = 0 /\ peak = 0 /\ highest = 0

-----------------------------------------------------------------------------
(* cmd/errgroup.                                                            *)

\* g.Go, in the loop of main.
GoFetch(u) ==
  /\ fetching[u] = "new"
  /\ fetching' = [fetching EXCEPT ![u] = "started"]
  /\ UNCHANGED <<cancelled, groupErr, waited>>

\* A plausible mistake in Fail: the last error wins.
Fail_Last(u, err) ==
  /\ fetching' = [fetching EXCEPT ![u] = err]
  /\ groupErr' = err /\ cancelled' = TRUE
  /\ UNCHANGED waited

\* The function given to Go returns an error: the first one is kept, and cancels.
Fail(u, err) ==
  /\ fetching' = [fetching EXCEPT ![u] = err]
  /\ groupErr' = IF groupErr = "nil" THEN err ELSE groupErr
  /\ cancelled' = TRUE
  /\ UNCHANGED waited

\* fetch: its select takes whichever is ready, the timer or the context.
Fetch(u) ==
  /\ fetching[u] = "started"
  /\ \/ u = BadUrl /\ Fail(u, "boom")
     \/ /\ u # BadUrl
        /\ fetching' = [fetching EXCEPT ![u] = "ok"]
        /\ UNCHANGED <<cancelled, groupErr, waited>>
     \/ cancelled /\ Fail(u, "context canceled")

WaitFetches ==
  /\ ~waited /\ \A u \in Urls : fetching[u] \notin {"new", "started"}
  /\ waited' = TRUE /\ cancelled' = TRUE
  /\ UNCHANGED <<fetching, groupErr>>

FetchNext == WaitFetches \/ \E u \in Urls : GoFetch(u) \/ Fetch(u)

-----------------------------------------------------------------------------
(* cmd/errgroup_limit.                                                      *)

At(j, from, to) == job[j] = from /\ job' = [job EXCEPT ![j] = to]

\* g.Go blocks while Limit goroutines of the group have not returned.
GoJob(j) ==
  /\ Cardinality({k \in Jobs : job[k] \notin {"new", "over"}}) < Limit
  /\ At(j, "new", "add")
  /\ UNCHANGED <<mine, old, inflight, peak, highest>>

\* n := atomic.AddInt64(&inflight, 1)
Enter(j) ==
  /\ At(j, "add", "load")
  /\ inflight' = inflight + 1
  /\ mine' = [mine EXCEPT ![j] = inflight + 1]
  /\ highest' = IF inflight + 1 > highest THEN inflight + 1 ELSE highest
  /\ UNCHANGED <<old, peak>>

\* old := atomic.LoadInt64(&peak), and n <= old.
LoadPeak(j) ==
  /\ At(j, "load", IF mine[j] <= peak THEN "work" ELSE "swap")
  /\ old' = [old EXCEPT ![j] = peak]
  /\ UNCHANGED <<mine, inflight, peak, highest>>

\* A plausible mistake in SwapPeak: atomic.StoreInt64(&peak, n).
SwapPeak_Store(j) ==
  /\ At(j, "swap", "work")
  /\ peak' = mine[j]
  /\ UNCHANGED <<mine, old, inflight, highest>>

\* atomic.CompareAndSwapInt64(&peak, old, n), or the loop goes round again.
SwapPeak(j) ==
  /\ \/ peak = old[j] /\ peak' = mine[j] /\ At(j, "swap", "work")
     \/ peak # old[j] /\ UNCHANGED peak /\ At(j, "swap", "load")
  /\ UNCHANGED <<mine, old, inflight, highest>>

\* defer atomic.AddInt64(&inflight, -1)
Leave(j) ==
  /\ At(j, "work", "left")
  /\ inflight' = inflight - 1
  /\ UNCHANGED <<mine, old, peak, highest>>

\* The function has returned and the group's slot is free.
Release(j) == At(j, "left", "over") /\ UNCHANGED <<mine, old, inflight, peak, highest>>

LimitNext ==
  \E j \in Jobs : GoJob(j) \/ Enter(j) \/ LoadPeak(j) \/ SwapPeak(j) \/ Leave(j) \/ Release(j)

JobsOver == \A j \in Jobs : job[j] = "over"

-----------------------------------------------------------------------------
\* Wait returns the error of the bad URL, and not that of a fetch it cancelled.
FirstErrorWins == waited => groupErr = "boom"

\* The peak that main prints is the true one, and within the limit.
PeakIsTrue == inflight <= Limit /\ (JobsOver => peak = highest)
=============================================================================
