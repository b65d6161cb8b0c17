-------------------------------- MODULE FanIn --------------------------------
(***************************************************************************)
(* Fan-out and fan-in over unbuffered channels (Day 37, cmd/fanout_fanin):   *)
(* a generator, workers that square, a relay for each worker and a           *)
(* coordinator in Merge, and main, which ranges over the result. The         *)
(* pipeline of Day 36 is the same with one worker and without Merge. A value *)
(* stands for its square.                                                    *)
(***************************************************************************)
EXTENDS Integers

CONSTANTS
  Items,     \* the generator emits 1 .. Items
  Squarers   \* the workers, and their relays

ASSUME FanInAssumption == Items \in Nat /\ Squarers # {}

Values == 1 .. Items
Nothing == 0

VARIABLES
  next,      \* what the generator sends next
  nums,      \* the generator's channel is open
  held,      \* held[s]: the value worker s has received and not sent
  squares,   \* the workers whose channel is open
  relayed,   \* relayed[s]: the value the relay of s has received and not sent
  relays,    \* the relays that have not called Done
  results,   \* the channel of Merge is open
  got,       \* got[v]: how often main has received v
  ranging    \* main is in its loop

fanVars == <<next, nums, held, squares, relayed, relays, results, got, ranging>>

FanInit ==
  /\ next = 1 /\ nums = TRUE
  /\ held = [s \in Squarers |-> Nothing] /\ squares = Squarers
  /\ relayed = [s \in Squarers |-> Nothing] /\ relays = Squarers
  /\ results = TRUE /\ got = [v \in Values |-> 0] /\ ranging = TRUE

-----------------------------------------------------------------------------
\* A send on an unbuffered channel is a step of both sides.

\* out <- i: one of the workers that wait receives it.
Emit(s) ==
  /\ next \in Values /\ s \in squares /\ held[s] = Nothing
  /\ held' = [held EXCEPT ![s] = next]
  /\ next' = next + 1
  /\ UNCHANGED <<nums, squares, relayed, relays, results, got, ranging>>

\* A plausible mistake in EmitEnds: the generator returns without closing out.
EmitEnds_Open == FALSE

EmitEnds ==
  /\ next \notin Values /\ nums
  /\ nums' = FALSE
  /\ UNCHANGED <<next, held, squares, relayed, relays, results, got, ranging>>

\* out <- v * v, to the relay of the same worker.
Square(s) ==
  /\ held[s] # Nothing /\ s \in relays /\ relayed[s] = Nothing
  /\ relayed' = [relayed EXCEPT ![s] = held[s]]
  /\ held' = [held EXCEPT ![s] = Nothing]
  /\ UNCHANGED <<next, nums, squares, relays, results, got, ranging>>

\* range in ends: close(out).
SquareEnds(s) ==
  /\ s \in squares /\ held[s] = Nothing /\ ~nums
  /\ squares' = squares \ {s}
  /\ UNCHANGED <<next, nums, held, relayed, relays, results, got, ranging>>

\* out <- v, to main.
Relay(s) ==
  /\ relayed[s] # Nothing /\ results /\ ranging
  /\ got' = [got EXCEPT ![relayed[s]] = @ + 1]
  /\ relayed' = [relayed EXCEPT ![s] = Nothing]
  /\ UNCHANGED <<next, nums, held, squares, relays, results, ranging>>

\* range ch ends: wg.Done().
RelayEnds(s) ==
  /\ s \in relays /\ s \notin squares /\ relayed[s] = Nothing
  /\ relays' = relays \ {s}
  /\ UNCHANGED <<next, nums, held, squares, relayed, results, got, ranging>>

\* A plausible mistake in Coordinate: it waits for one relay only, as wg.Add(1)
\* before the loop would make it do.
Coordinate_First ==
  /\ relays # Squarers /\ results
  /\ results' = FALSE
  /\ UNCHANGED <<next, nums, held, squares, relayed, relays, got, ranging>>

\* wg.Wait(); close(out).
Coordinate ==
  /\ relays = {} /\ results
  /\ results' = FALSE
  /\ UNCHANGED <<next, nums, held, squares, relayed, relays, got, ranging>>

\* range results ends.
MainEnds ==
  /\ ~results /\ ranging
  /\ ranging' = FALSE
  /\ UNCHANGED <<next, nums, held, squares, relayed, relays, results, got>>

FanNext ==
  \/ EmitEnds \/ Coordinate \/ MainEnds
  \/ \E s \in Squarers : Emit(s) \/ Square(s) \/ SquareEnds(s) \/ Relay(s) \/ RelayEnds(s)

\* A goroutine that can go on does.
FanSpec == FanInit /\ [][FanNext]_fanVars /\ WF_fanVars(FanNext)

-----------------------------------------------------------------------------
\* When main leaves its loop no goroutine is left: all others have ended.
NothingLeaks == ~ranging => ~nums /\ squares = {} /\ relays = {} /\ ~results

\* main gets a stream of the values: each once, and the end of its
\* loop after all of them.
Promise == INSTANCE Stream WITH times <- got, ended <- ~ranging
DeliversStream == Promise!Spec
=============================================================================
