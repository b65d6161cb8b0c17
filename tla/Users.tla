-------------------------------- MODULE Users --------------------------------
(***************************************************************************)
(* The users of Days 3 to 6, in a map behind a mutex: main.go of Day 3,      *)
(* whose PUT takes the mutex twice, and of Day 6 (the same as Day 5), whose  *)
(* PUT takes it once. A name stands for what a request may change.           *)
(***************************************************************************)
EXTENDS Naturals, Maps

CONSTANTS
  UserForms,    \* of "day 3", "day 6"
  Clients,
  Names,
  MaxUsers,     \* bound: users created
  MaxUserCalls  \* bound: requests that change something

Zero == 0
NotPutting == [id |-> Zero, name |-> "", wanted |-> ""]

VARIABLES
  userForm,
  users,      \* the map: users[i] has an id and a name
  nextUser,   \* nextID
  putting,    \* putting[c]: the user that the PUT of c has read, and its input
  left,       \* history: ids that were deleted
  userCalls,
  reply       \* history: the last answer to a PUT, with the name it asked for

userVars == <<userForm, users, nextUser, putting, left, userCalls, reply>>

User(i, name) == [id |-> i, name |-> name]

UsersInit ==
  /\ userForm \in UserForms
  /\ users = [i \in 1 .. 2 |-> User(i, IF i = 1 THEN "Mamun" ELSE "Ada")]   \* main's seed
  /\ nextUser = 3
  /\ putting = [c \in Clients |-> NotPutting]
  /\ left = {} /\ userCalls = 0
  /\ reply = [status |-> "none", name |-> "", wanted |-> ""]

Calls == userCalls < MaxUserCalls /\ userCalls' = userCalls + 1

-----------------------------------------------------------------------------
\* POST: userStore.create.
CreateUser(name) ==
  /\ Calls /\ nextUser <= MaxUsers
  /\ users' = Assign(users, nextUser, User(nextUser, name))
  /\ nextUser' = nextUser + 1
  /\ UNCHANGED <<userForm, putting, left, reply>>

\* DELETE: userStore.delete.
DeleteUserEntry(i) ==
  /\ Calls /\ i \in DOMAIN users
  /\ users' = Without(users, i)
  /\ left' = left \cup {i}
  /\ UNCHANGED <<userForm, nextUser, putting, reply>>

PutMissing(i, name) ==
  /\ Calls /\ i \notin DOMAIN users
  /\ reply' = [status |-> "not found", name |-> "", wanted |-> name]
  /\ UNCHANGED <<userForm, users, nextUser, putting, left>>

\* A plausible mistake in Put: as in Day 3, it does not look.
Put_Blind(i, name) ==
  /\ userForm = "day 6" /\ Calls
  /\ users' = Assign(users, i,
       [(IF i \in DOMAIN users THEN users[i] ELSE User(Zero, "")) EXCEPT !.name = name])
  /\ reply' = [status |-> "ok", name |-> name, wanted |-> name]
  /\ UNCHANGED <<userForm, nextUser, putting, left>>

\* PUT of Day 6: userStore.update looks the user up and writes it back.
Put(i, name) ==
  /\ userForm = "day 6" /\ Calls /\ i \in DOMAIN users
  /\ users' = [users EXCEPT ![i].name = name]
  /\ reply' = [status |-> "ok", name |-> users'[i].name, wanted |-> name]
  /\ UNCHANGED <<userForm, nextUser, putting, left>>

\* PUT of Day 3: store.get, before the body is decoded. The id of the user that
\* was read is the one that is written, which differs when a zero User was read.
PutReads(c, i, name) ==
  /\ userForm = "day 3" /\ Calls /\ putting[c] = NotPutting /\ i \in DOMAIN users
  /\ putting' = [putting EXCEPT ![c] = [id |-> users[i].id, name |-> users[i].name, wanted |-> name]]
  /\ UNCHANGED <<userForm, users, nextUser, left, reply>>

\* store.update does not look whether the user is there: it changes the name of
\* whatever the map has under the id, the zero User too. The answer is what was read.
PutWrites(c) ==
  LET p == putting[c]
      found == IF p.id \in DOMAIN users THEN users[p.id] ELSE User(Zero, "")
  IN /\ p # NotPutting
     /\ users' = Assign(users, p.id, [found EXCEPT !.name = p.wanted])
     /\ reply' = [status |-> "ok", name |-> p.name, wanted |-> p.wanted]
     /\ putting' = [putting EXCEPT ![c] = NotPutting]
     /\ UNCHANGED <<userForm, nextUser, left, userCalls>>

UsersNext ==
  \/ \E name \in Names : CreateUser(name)
  \/ \E i \in 1 .. MaxUsers : DeleteUserEntry(i)
  \/ \E i \in 1 .. MaxUsers, name \in Names : PutMissing(i, name) \/ Put(i, name)
  \/ \E c \in Clients, i \in 1 .. MaxUsers, name \in Names : PutReads(c, i, name)
  \/ \E c \in Clients : PutWrites(c)

UsersSpec == UsersInit /\ [][UsersNext]_userVars

UsersOver == userCalls = MaxUserCalls /\ \A c \in Clients : putting[c] = NotPutting

-----------------------------------------------------------------------------
\* "On success, return 200 with the updated user" (Day 3, TASKS.md).
PutReturnsUpdated == reply.status = "ok" => reply.name = reply.wanted

\* Day 6 keeps that, and files every user under its own id for as long as it
\* is there. In Day 3 a user that was deleted under a PUT may come back without
\* its id, and a PUT on that one files it under id 0; nothing else is amiss.
UsersAreRight ==
  /\ userForm = "day 6" => PutReturnsUpdated
  /\ \A i \in DOMAIN users :
       IF i \in left THEN userForm = "day 3" /\ users[i].id = Zero ELSE users[i].id = i
  /\ Zero \in DOMAIN users => left # {}
=============================================================================
