-------------------------------- MODULE Todos --------------------------------
(***************************************************************************)
(* The two repositories of the to-do API of Day 16, which "should be         *)
(* behaviourally interchangeable" (internal/todo/repository.go): the map     *)
(* behind a mutex, and the Postgres table with its unique titles. Every      *)
(* request is given to both. A failing database has no counterpart in        *)
(* memory and is left out; searches have no wildcard of LIKE in them.        *)
(***************************************************************************)
EXTENDS Naturals, Sequences, FiniteSets, Maps

CONSTANTS
  Titles,
  Searches,     \* what a listing may search for
  Matching,     \* the pairs of a title and a search that it contains
  MaxTodoCalls  \* bound: requests

Absent == "absent"            \* a nil pointer in a request
Done == {"done", "open"}
Todo == [title : Titles, done : Done]
Change == [title : Titles \cup {Absent}, done : Done \cup {Absent}]
Filter == [done : Done \cup {Absent}, search : Searches \cup {Absent}, limit : 0 .. 2]

VARIABLES
  items, nextID,      \* InMemoryRepository
  rows, identity,     \* the table and its identity sequence
  inMemory, inTable,  \* what the two answer to the last request
  twin,               \* history: twin[i] is the row of the item i
  todoCalls

todoVars == <<items, nextID, rows, identity, inMemory, inTable, twin, todoCalls>>

Refusal(status) == [status |-> status, todos |-> << >>]
Found(status, table, ids) ==
  [status |-> status, todos |-> [n \in DOMAIN ids |-> [id |-> ids[n], todo |-> table[ids[n]]]]]

TodosInit ==
  /\ items = << >> /\ nextID = 1 /\ rows = << >> /\ identity = 1 /\ twin = << >>
  /\ inMemory = Refusal("none") /\ inTable = Refusal("none") /\ todoCalls = 0

\* The ids of S in order: the n-th has n - 1 before it.
Rank(S, i) == Cardinality({j \in S : j < i})
Ascending(S) == [n \in 1 .. Cardinality(S) |-> CHOOSE i \in S : Rank(S, i) = n - 1]

-----------------------------------------------------------------------------
(* InMemoryRepository.                                                      *)

\* A plausible mistake in titleTaken: excludeID is forgotten.
titleTaken_AnyRow(title, excludeID) == \E i \in DOMAIN items : items[i].title = title

titleTaken(title, excludeID) == \E i \in DOMAIN items \ {excludeID} : items[i].title = title

MemoryFails(status) == inMemory' = Refusal(status) /\ UNCHANGED <<items, nextID>>

MemoryCreate(t) ==
  \/ titleTaken(t.title, 0) /\ MemoryFails("conflict")
  \/ /\ ~titleTaken(t.title, 0)
     /\ items' = Assign(items, nextID, t)
     /\ nextID' = nextID + 1
     /\ inMemory' = Found("created", items', <<nextID>>)

MemoryGet(i) ==
  /\ inMemory' = IF i \in DOMAIN items THEN Found("ok", items, <<i>>) ELSE Refusal("not found")
  /\ UNCHANGED <<items, nextID>>

MemoryWrites(i, t) ==
  /\ items' = [items EXCEPT ![i] = t]
  /\ inMemory' = Found("ok", items', <<i>>)
  /\ UNCHANGED nextID

MemoryUpdate(i, t) ==
  \/ i \notin DOMAIN items /\ MemoryFails("not found")
  \/ i \in DOMAIN items /\ titleTaken(t.title, i) /\ MemoryFails("conflict")
  \/ i \in DOMAIN items /\ ~titleTaken(t.title, i) /\ MemoryWrites(i, t)

MemoryPatch(i, p) ==
  LET clash == p.title # Absent /\ titleTaken(p.title, i)
  IN \/ i \notin DOMAIN items /\ MemoryFails("not found")
     \/ i \in DOMAIN items /\ clash /\ MemoryFails("conflict")
     \/ /\ i \in DOMAIN items /\ ~clash
        /\ MemoryWrites(i, [title |-> IF p.title = Absent THEN items[i].title ELSE p.title,
                            done |-> IF p.done = Absent THEN items[i].done ELSE p.done])

MemoryDelete(i) ==
  \/ i \notin DOMAIN items /\ MemoryFails("not found")
  \/ /\ i \in DOMAIN items
     /\ items' = Without(items, i)
     /\ inMemory' = Refusal("no content")
     /\ UNCHANGED nextID

\* Filtered, sorted by id, and cut when there is a limit.
MemoryList(f) ==
  LET passes(i) == /\ f.done # Absent => items[i].done = f.done
                   /\ f.search # Absent => <<items[i].title, f.search>> \in Matching
      out == Ascending({i \in DOMAIN items : passes(i)})
  IN /\ inMemory' = Found("ok", items, IF f.limit > 0 /\ Len(out) > f.limit
                                       THEN SubSeq(out, 1, f.limit) ELSE out)
     /\ UNCHANGED <<items, nextID>>

-----------------------------------------------------------------------------
(* PostgresRepository, one statement each.                                  *)

\* The constraint todos_title_unique.
Unique(table) == \A k, l \in DOMAIN table : table[k].title = table[l].title => k = l

TableFails(status) == inTable' = Refusal(status) /\ UNCHANGED rows

\* INSERT: the identity is drawn before the constraint is checked.
TableCreate(t) ==
  /\ identity' = identity + 1
  /\ \/ ~Unique(Assign(rows, identity, t)) /\ TableFails("conflict")
     \/ /\ Unique(Assign(rows, identity, t))
        /\ rows' = Assign(rows, identity, t)
        /\ inTable' = Found("created", rows', <<identity>>)

TableGet(k) ==
  /\ inTable' = IF k \in DOMAIN rows THEN Found("ok", rows, <<k>>) ELSE Refusal("not found")
  /\ UNCHANGED <<rows, identity>>

\* UPDATE ... WHERE id = k RETURNING: no row, a row, or SQLSTATE 23505.
TableSets(k, t) ==
  /\ \/ k \notin DOMAIN rows /\ TableFails("not found")
     \/ k \in DOMAIN rows /\ ~Unique([rows EXCEPT ![k] = t]) /\ TableFails("conflict")
     \/ /\ k \in DOMAIN rows /\ Unique([rows EXCEPT ![k] = t])
        /\ rows' = [rows EXCEPT ![k] = t]
        /\ inTable' = Found("ok", rows', <<k>>)
  /\ UNCHANGED identity

TableUpdate(k, t) == TableSets(k, t)

Coalesce(given, column) == IF given = Absent THEN column ELSE given

TablePatch(k, p) ==
  LET old == IF k \in DOMAIN rows THEN rows[k] ELSE p
  IN TableSets(k, [title |-> Coalesce(p.title, old.title), done |-> Coalesce(p.done, old.done)])

TableDelete(k) ==
  /\ \/ k \notin DOMAIN rows /\ TableFails("not found")
     \/ /\ k \in DOMAIN rows
        /\ rows' = Without(rows, k)
        /\ inTable' = Refusal("no content")
  /\ UNCHANGED identity

\* WHERE with the conditions that are given, ORDER BY id, LIMIT if there is one.
TableList(f) ==
  LET done == {k \in DOMAIN rows : f.done = Absent \/ rows[k].done = f.done}
      like == {k \in DOMAIN rows : f.search = Absent \/ <<rows[k].title, f.search>> \in Matching}
      first == {k \in done \cap like :
                  f.limit > 0 => Rank(done \cap like, k) < f.limit}
  IN /\ inTable' = Found("ok", rows, Ascending(first))
     /\ UNCHANGED <<rows, identity>>

-----------------------------------------------------------------------------
\* A request names an item that was created, and its row, or one that never was.
Twin(i) == IF i < nextID THEN twin[i] ELSE identity

\* Service.Patch refuses a request that changes nothing.
Patch(i, p) ==
  \/ /\ p.title = Absent /\ p.done = Absent
     /\ inMemory' = Refusal("bad request") /\ inTable' = Refusal("bad request")
     /\ UNCHANGED <<items, nextID, rows, identity>>
  \/ /\ p.title # Absent \/ p.done # Absent
     /\ MemoryPatch(i, p) /\ TablePatch(Twin(i), p)

Request ==
  \/ \E t \in Todo : MemoryCreate(t) /\ TableCreate(t)
  \/ \E f \in Filter : MemoryList(f) /\ TableList(f)
  \/ \E i \in 1 .. nextID :
       \/ MemoryGet(i) /\ TableGet(Twin(i))
       \/ MemoryDelete(i) /\ TableDelete(Twin(i))
       \/ \E t \in Todo : MemoryUpdate(i, t) /\ TableUpdate(Twin(i), t)
       \/ \E p \in Change : Patch(i, p)

TodosNext ==
  /\ todoCalls < MaxTodoCalls /\ todoCalls' = todoCalls + 1
  /\ Request
  /\ twin' = IF nextID' # nextID THEN Assign(twin, nextID, identity) ELSE twin

TodosOver == todoCalls = MaxTodoCalls

-----------------------------------------------------------------------------
Same(i, k) == i < nextID /\ twin[i] = k

\* The repositories are interchangeable but for the ids they give: they refuse
\* the same requests for the same reason, answer the same to the others, lists
\* in the same order, and end up with the same contents.
Interchangeable ==
  /\ inMemory.status = inTable.status
  /\ DOMAIN inMemory.todos = DOMAIN inTable.todos
  /\ \A n \in DOMAIN inMemory.todos :
       /\ Same(inMemory.todos[n].id, inTable.todos[n].id)
       /\ inMemory.todos[n].todo = inTable.todos[n].todo
  /\ DOMAIN rows = {twin[i] : i \in DOMAIN items}
  /\ \A i \in DOMAIN items : rows[twin[i]] = items[i]
=============================================================================
