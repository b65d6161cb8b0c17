------------------------------ MODULE Counters ------------------------------
(***************************************************************************)
(* Goroutines that increment one counter (Day 36, cmd/mutex; Day 39, race):  *)
(* without synchronisation, with a mutex, or atomically. And goroutines that *)
(* ask for one value that sync.Once initialises (Day 36, cmd/once).          *)
(***************************************************************************)
EXTENDS Naturals, FiniteSets

CONSTANTS
  Goroutines,
  Each           \* increments of each

NoOne == "no one"

ASSUME CountersAssumption ==
  /\ IsFiniteSet(Goroutines) /\ Goroutines # {} /\ NoOne \notin Goroutines
  /\ Each \in Nat \ {0}

VARIABLES
  sync,      \* "none", "mutex" or "atomic"
  todo,      \* todo[g]: increments that g has to do
  read,      \* read[g]: what g has read and not yet written back, or NotRead
  counter,
  mutex,     \* who holds it
  once,      \* "new", "running" or "done"
  getting,   \* getting[g]: "new", "initialising" or what Get returned
  value,     \* the package's variable
  initCt     \* how often the init function ran

countVars == <<sync, todo, read, counter, mutex>>
onceVars == <<once, getting, value, initCt>>

NotRead == Cardinality(Goroutines) * Each + 1

CountersInit ==
  /\ sync \in {"none", "mutex", "atomic"}
  /\ todo = [g \in Goroutines |-> Each] /\ read = [g \in Goroutines |-> NotRead]
  /\ counter = 0 /\ mutex = NoOne
  /\ once = "new" /\ getting = [g \in Goroutines |-> "new"] /\ value = "" /\ initCt = 0

-----------------------------------------------------------------------------
\* mu.Lock().
Lock(g) ==
  /\ sync = "mutex" /\ todo[g] > 0 /\ mutex = NoOne
  /\ mutex' = g
  /\ UNCHANGED <<sync, todo, read, counter>>

\* A plausible mistake in MayRead: the increment is before mu.Lock().
MayRead_Unlocked(g) == sync # "atomic"

MayRead(g) == sync = "none" \/ (sync = "mutex" /\ mutex = g)

\* c.n++ reads, and writes; nothing orders the two against those of others.
Load(g) ==
  /\ MayRead(g) /\ todo[g] > 0 /\ read[g] = NotRead
  /\ read' = [read EXCEPT ![g] = counter]
  /\ UNCHANGED <<sync, todo, counter, mutex>>

Store(g) ==
  /\ read[g] # NotRead
  /\ counter' = read[g] + 1
  /\ read' = [read EXCEPT ![g] = NotRead]
  /\ todo' = [todo EXCEPT ![g] = @ - 1]
  /\ mutex' = IF mutex = g THEN NoOne ELSE mutex
  /\ UNCHANGED sync

\* atomic.AddInt64.
Add(g) ==
  /\ sync = "atomic" /\ todo[g] > 0
  /\ counter' = counter + 1
  /\ todo' = [todo EXCEPT ![g] = @ - 1]
  /\ UNCHANGED <<sync, read, mutex>>

CountNext == \E g \in Goroutines : Lock(g) \/ Load(g) \/ Store(g) \/ Add(g)

Counted == \A g \in Goroutines : todo[g] = 0

-----------------------------------------------------------------------------
\* once.Do by the first caller.
DoFirst(g) ==
  /\ once = "new" /\ getting[g] = "new"
  /\ once' = "running" /\ initCt' = initCt + 1
  /\ getting' = [getting EXCEPT ![g] = "initialising"]
  /\ UNCHANGED value

\* initExpensive has slept, and returns.
Initialised(g) ==
  /\ getting[g] = "initialising"
  /\ value' = "singleton" /\ once' = "done"
  /\ getting' = [getting EXCEPT ![g] = "singleton"]
  /\ UNCHANGED initCt

\* once.Do by the others waits until the first is done.
DoLate(g) ==
  /\ once = "done" /\ getting[g] = "new"
  /\ getting' = [getting EXCEPT ![g] = value]
  /\ UNCHANGED <<once, value, initCt>>

OnceNext == \E g \in Goroutines : DoFirst(g) \/ Initialised(g) \/ DoLate(g)

OnceOver == \A g \in Goroutines : getting[g] \notin {"new", "initialising"}

-----------------------------------------------------------------------------
Total == Cardinality(Goroutines) * Each

\* With a mutex, or atomically, no increment is lost; without, never more is
\* counted than was done, and never nothing.
CountIsRight ==
  Counted => IF sync = "none" THEN counter \in 1 .. Total ELSE counter = Total

\* The init function runs once, and nobody sees the value before.
OnceIsRight == initCt <= 1 /\ \A g \in Goroutines : getting[g] # ""
=============================================================================
