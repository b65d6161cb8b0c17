----------------------------- MODULE MCExercises -----------------------------
(***************************************************************************)
(* The small programs of the course for TLC (the stores of Days 3 to 16, the *)
(* accounts of Day 35, the exercises of Days 36 to 39): first the fan-in,    *)
(* then one of the others, so that their state spaces add up instead of      *)
(* multiplying.                                                              *)
(***************************************************************************)
EXTENDS FanIn, Groups, Leaks, Counters, Bounded, Users, Todos, Accounts

VARIABLE second   \* the program after the fan-in

\* The jobs of the semaphore: small and huge ones.
SmallAndHuge == <<1, 1, 2, 1, 3>>

\* Two titles, one of which contains the fragment that is searched for.
OneMatches == {<<"buy milk", "milk">>}

groupVars == <<fetchVars, limitVars>>
goroutineVars == <<leakVars, countVars, onceVars>>
boundedVars == <<poolVars, semVars>>
storeVars == <<userVars, todoVars, accountVars>>

\* Two ways to type one email, and another one.
LowerCase == [e \in {"a@x", "A@x", "b@x"} |-> IF e = "A@x" THEN "a@x" ELSE e]

\* "longer" begins with the 72 bytes of "full".
PasswordPrefix == [p \in {"pw", "full", "longer"} |-> IF p = "longer" THEN "full" ELSE p]

exercises == <<fanVars, groupVars, goroutineVars, boundedVars, storeVars, second>>

Init ==
  /\ FanInit /\ GroupsInit /\ LeaksInit /\ CountersInit /\ BoundedInit /\ UsersInit /\ TodosInit
  /\ AccountsInit
  /\ second \in {"errgroup", "errgroup_limit", "leaks", "counters", "once", "workerpool",
                 "semaphore", "users", "todos", "accounts"}
  /\ second # "leaks" => form = "fixedFetch"
  /\ second # "counters" => sync = "mutex"
  /\ second # "users" => userForm = "day 6"

Second(name) == ~ranging /\ second = name /\ UNCHANGED <<fanVars, second>>

Next ==
  \/ FanNext /\ UNCHANGED <<groupVars, goroutineVars, boundedVars, storeVars, second>>
  \/ Second("errgroup") /\ FetchNext
       /\ UNCHANGED <<limitVars, goroutineVars, boundedVars, storeVars>>
  \/ Second("errgroup_limit") /\ LimitNext
       /\ UNCHANGED <<fetchVars, goroutineVars, boundedVars, storeVars>>
  \/ Second("leaks") /\ LeaksNext
       /\ UNCHANGED <<groupVars, countVars, onceVars, boundedVars, storeVars>>
  \/ Second("counters") /\ CountNext
       /\ UNCHANGED <<groupVars, leakVars, onceVars, boundedVars, storeVars>>
  \/ Second("once") /\ OnceNext
       /\ UNCHANGED <<groupVars, leakVars, countVars, boundedVars, storeVars>>
  \/ Second("workerpool") /\ PoolNext
       /\ UNCHANGED <<groupVars, goroutineVars, semVars, storeVars>>
  \/ Second("semaphore") /\ SemNext
       /\ UNCHANGED <<groupVars, goroutineVars, poolVars, storeVars>>
  \/ Second("users") /\ UsersNext
       /\ UNCHANGED <<groupVars, goroutineVars, boundedVars, todoVars, accountVars>>
  \/ Second("todos") /\ TodosNext
       /\ UNCHANGED <<groupVars, goroutineVars, boundedVars, userVars, accountVars>>
  \/ Second("accounts") /\ AccountsNext
       /\ UNCHANGED <<groupVars, goroutineVars, boundedVars, userVars, todoVars>>

\* A goroutine that can go on does.
Spec == Init /\ [][Next]_exercises /\ WF_exercises(Next)

SecondOver ==
  CASE second = "errgroup" -> waited
    [] second = "errgroup_limit" -> JobsOver
    [] second = "leaks" -> LeaksOver
    [] second = "once" -> OnceOver
    [] second = "counters" -> Counted
    [] second = "workerpool" -> dismantled
    [] second = "semaphore" -> SemOver
    [] second = "users" -> UsersOver
    [] second = "todos" -> TodosOver
    [] second = "accounts" -> AccountsOver

-----------------------------------------------------------------------------
\* What the programs print, and what they leave behind, is what their comments
\* say: the loop over the fan-in ends with no goroutine left ("Clean shutdown"),
\* Wait returns the original error, the peak is true, fixedFetch does not leak,
\* the safe counters are exact, the init function runs once, the pool has done
\* every job, a huge job of the semaphore runs alone, a user stays deleted, and
\* an email has one account that its owner can log in to.
ResultsAreRight ==
  /\ NothingLeaks
  /\ FirstErrorWins
  /\ PeakIsTrue
  /\ OnlyTheLeakingLeak
  /\ CountIsRight
  /\ OnceIsRight
  /\ PoolIsDone
  /\ HugeRunsAlone
  /\ UsersAreRight
  /\ AccountsAreRight

\* Every program comes to its end: none is ever stuck.
ExercisesEnd == <>(~ranging /\ SecondOver)
=============================================================================
