-------------------------------- MODULE Leaks --------------------------------
(***************************************************************************)
(* A goroutine that works for a caller who may leave, in the five forms of   *)
(* Day 38: leakingFetch and fixedFetch (cmd/leak), and the three handlers of *)
(* cmd/pprof_server.                                                         *)
(***************************************************************************)
EXTENDS Naturals

Forms == {"leakingFetch", "fixedFetch", "leakingHandler", "fixedHandler", "respectingHandler"}

VARIABLES
  form,     \* which of them it is
  worker,   \* the goroutine: "working", "sending", "ended"
  caller,   \* "selecting", "got" or "left"
  buffer,   \* results in the channel
  ctx       \* the context is done

leakVars == <<form, worker, caller, buffer, ctx>>

LeaksInit ==
  /\ form \in Forms
  /\ worker = "working" /\ caller = "selecting" /\ buffer = 0 /\ ctx = FALSE

\* A plausible mistake in Capacity: the fix is forgotten in one place.
Capacity_OneForgotten == IF form \in {"leakingFetch", "leakingHandler", "fixedFetch"} THEN 0 ELSE 1

\* make(chan Result), or make(chan Result, 1).
Capacity == IF form \in {"leakingFetch", "leakingHandler"} THEN 0 ELSE 1

\* The handlers that do not wait for the result.
Waits == form \notin {"leakingHandler", "fixedHandler"}

\* The work is done: time.Sleep, or time.After.
Work == worker = "working" /\ worker' = "sending" /\ UNCHANGED <<form, caller, buffer, ctx>>

\* respectingHandler's goroutine selects on its context too.
StopWork ==
  /\ form = "respectingHandler" /\ worker = "working" /\ ctx
  /\ worker' = "ended"
  /\ UNCHANGED <<form, caller, buffer, ctx>>

\* ch <- Result on a channel with room, or to a caller that waits.
Send ==
  /\ worker = "sending"
  /\ IF Capacity > buffer
     THEN buffer' = buffer + 1 /\ UNCHANGED caller
     ELSE Waits /\ caller = "selecting" /\ caller' = "got" /\ UNCHANGED buffer
  /\ worker' = "ended"
  /\ UNCHANGED <<form, ctx>>

Receive ==
  /\ Waits /\ caller = "selecting" /\ buffer > 0
  /\ buffer' = buffer - 1 /\ caller' = "got"
  /\ UNCHANGED <<form, worker, ctx>>

\* case <-ctx.Done(), or a return without waiting; respectingHandler has a
\* deferred cancel.
CallerLeaves ==
  /\ caller = "selecting" /\ (Waits => ctx)
  /\ caller' = "left"
  /\ UNCHANGED <<form, worker, buffer, ctx>>

\* The caller's context is cancelled, or its deadline passes.
Cancel == ~ctx /\ ctx' = TRUE /\ UNCHANGED <<form, worker, caller, buffer>>

LeaksNext == Work \/ StopWork \/ Send \/ Receive \/ CallerLeaves \/ Cancel

\* The goroutine is blocked for ever.
Leaked == worker = "sending" /\ caller # "selecting" /\ Capacity = buffer
LeaksOver == caller # "selecting" /\ (worker = "ended" \/ Leaked)

-----------------------------------------------------------------------------
\* A goroutine is left behind in the two leaking forms only, however the
\* cancellation, the work and the select fall together.
OnlyTheLeakingLeak == Leaked => form \in {"leakingFetch", "leakingHandler"}
=============================================================================
