------------------------------- MODULE Accounts -------------------------------
(***************************************************************************)
(* The accounts of Day 35: registration, login and GET /me, with callers    *)
(* that overlap. A password that bcrypt takes stands for its hash as well;   *)
(* an access token is what Issue signs, the id and the email of the user.    *)
(* What becomes of the refresh token of a login is in RefreshTokens.         *)
(***************************************************************************)
EXTENDS Naturals, Maps

CONSTANTS
  Callers,
  Spellings,       \* the emails that are typed in, valid as emails
  Lower,           \* Lower[e]: e in lower case
  Passwords,       \* of 8 characters or more
  TooLong,         \* of more than the 72 bytes that bcrypt takes
  First72,         \* First72[p]: the first 72 bytes of p, which is all that a
                   \* comparison with a hash looks at
  MaxAccountCalls  \* bound: requests

ASSUME AccountsAssumption ==
  /\ Lower \in [Spellings -> Spellings] /\ \A e \in Spellings : Lower[Lower[e]] = Lower[e]
  /\ TooLong \subseteq Passwords
  /\ First72 \in [Passwords -> Passwords] /\ \A p \in Passwords \ TooLong : First72[p] = p

NoCall == [at |-> "idle"]
NoAnswer == [to |-> "nobody"]

VARIABLES
  accounts,      \* the table users: accounts[i] has an email and a password
  nextAccount,   \* its identity column
  call,          \* call[c]: where the call of c is, and what it carries
  signed,         \* the access tokens that were handed out
  accountCalls,
  asked,         \* history: the registration that each account comes from
  welcome,       \* history: the accounts that were answered with a 201
  answered       \* history: the last answer

accountVars ==
  <<accounts, nextAccount, call, signed, accountCalls, asked, welcome, answered>>

Account(e, p) == [email |-> e, password |-> p]
HasEmail(e) == {i \in DOMAIN accounts : accounts[i].email = e}

AccountsInit ==
  /\ accounts = [i \in {} |-> Account("", "")] /\ nextAccount = 1
  /\ call = [c \in Callers |-> NoCall]
  /\ signed = {} /\ accountCalls = 0
  /\ asked = [i \in {} |-> Account("", "")] /\ welcome = {} /\ answered = NoAnswer

\* No email that passed the validator has spaces around it; its case is what may differ.
normalizeEmail(e) == Lower[e]

Begin(c, state) ==
  /\ call[c] = NoCall /\ accountCalls < MaxAccountCalls
  /\ accountCalls' = accountCalls + 1
  /\ call' = [call EXCEPT ![c] = state]

Answer(c, what) == answered' = what /\ call' = [call EXCEPT ![c] = NoCall]

-----------------------------------------------------------------------------
\* Service.Register, up to its INSERT.
Register(c, e, p) ==
  /\ Begin(c, [at |-> "create", email |-> normalizeEmail(e), typed |-> e, password |-> p])
  /\ UNCHANGED <<accounts, nextAccount, signed, asked, welcome, answered>>

\* HashPassword refuses what is longer than bcrypt's limit: a 500. (The validator, which
\* counts characters, refuses most of it before.)
HashFails(c) ==
  /\ call[c].at = "create" /\ call[c].password \in TooLong
  /\ Answer(c, [to |-> "register", status |-> "error"])
  /\ UNCHANGED <<accounts, nextAccount, signed, accountCalls, asked, welcome>>

\* The INSERT, under UNIQUE (email): a 201, or a 409; a refused one takes an id as well.
\* When its acknowledgement is lost the row is there and the answer is a 500.
Create(c) ==
  LET k == call[c]  i == nextAccount IN
  /\ k.at = "create" /\ k.password \notin TooLong
  /\ nextAccount' = i + 1
  /\ \/ /\ HasEmail(k.email) # {}
        /\ Answer(c, [to |-> "register", status |-> "conflict"])
        /\ UNCHANGED <<accounts, asked, welcome>>
     \/ /\ HasEmail(k.email) = {}
        /\ accounts' = Assign(accounts, i, Account(k.email, k.password))
        /\ asked' = Assign(asked, i, Account(k.typed, k.password))
        /\ \E told \in {"created", "error"} :
             /\ welcome' = IF told = "created" THEN welcome \cup {i} ELSE welcome
             /\ Answer(c, [to |-> "register", status |-> told])
  /\ UNCHANGED <<signed, accountCalls>>

\* bcrypt.CompareHashAndPassword: a login may send a password of any length.
CheckPassword(hash, plain) == hash = First72[plain]

\* Service.Login: a call that begins now is due an answer from the accounts that
\* were welcomed before.
Login(c, e, p) ==
  /\ Begin(c, [at |-> "find", email |-> normalizeEmail(e), typed |-> e, password |-> p,
               due |-> {i \in welcome \cap DOMAIN accounts :
                          Lower[asked[i].email] = Lower[e] /\ asked[i].password \in {p, First72[p]}}])
  /\ UNCHANGED <<accounts, nextAccount, signed, asked, welcome, answered>>

Reject(c) == Answer(c, [to |-> "login", status |-> "unauthorized", due |-> call[c].due])

\* GetByEmail, and CheckPassword on the copy of the row: a missing user and a
\* wrong password get the same answer.
GetByEmail(c) ==
  LET k == call[c] IN
  /\ k.at = "find"
  /\ \/ /\ \A i \in HasEmail(k.email) : ~CheckPassword(accounts[i].password, k.password)
        /\ Reject(c)
     \/ \E i \in HasEmail(k.email) :
          /\ CheckPassword(accounts[i].password, k.password)
          /\ call' = [call EXCEPT ![c] =
               [at |-> "issue", id |-> i, email |-> accounts[i].email, typed |-> k.typed,
                password |-> k.password]]
          /\ UNCHANGED answered
  /\ UNCHANGED <<accounts, nextAccount, signed, accountCalls, asked, welcome>>

\* Issue, and the refresh token, whose INSERT fails when the user is gone.
Issue(c) ==
  LET k == call[c] IN
  /\ k.at = "issue"
  /\ \/ /\ k.id \in DOMAIN accounts
        /\ signed' = signed \cup {[uid |-> k.id, email |-> k.email]}
        /\ Answer(c, [to |-> "login", status |-> "ok", uid |-> k.id,
                      typed |-> k.typed, password |-> k.password])
     \/ /\ k.id \notin DOMAIN accounts
        /\ Answer(c, [to |-> "login", status |-> "error"])
        /\ UNCHANGED signed
  /\ UNCHANGED <<accounts, nextAccount, accountCalls, asked, welcome>>

\* GET /me behind RequireAuth: a token that expired is refused, and so is one
\* whose user is gone; any other shows the user with its id.
Me(t) ==
  /\ t \in signed
  /\ accountCalls < MaxAccountCalls /\ accountCalls' = accountCalls + 1
  /\ \/ \E s \in {"unauthorized", "error"} : answered' = [to |-> "me", status |-> s]
     \/ /\ t.uid \in DOMAIN accounts
        /\ answered' = [to |-> "me", status |-> "ok", token |-> t, email |-> accounts[t.uid].email]
  /\ UNCHANGED <<accounts, nextAccount, call, signed, asked, welcome>>

\* A call ends before its next statement: a cancelled context or a database error.
AccountCallFails(c) ==
  /\ call[c] # NoCall
  /\ Answer(c, [to |-> "anyone", status |-> "error"])
  /\ UNCHANGED <<accounts, nextAccount, signed, accountCalls, asked, welcome>>

\* No endpoint deletes a user; an operator may.
AccountDeleted(i) ==
  /\ i \in DOMAIN accounts
  /\ accounts' = Without(accounts, i)
  /\ UNCHANGED <<nextAccount, call, signed, accountCalls, asked, welcome, answered>>

AccountsNext ==
  \/ \E c \in Callers, e \in Spellings, p \in Passwords : Register(c, e, p) \/ Login(c, e, p)
  \/ \E c \in Callers :
       HashFails(c) \/ Create(c) \/ GetByEmail(c) \/ Issue(c) \/ AccountCallFails(c)
  \/ \E t \in signed : Me(t)
  \/ \E i \in DOMAIN accounts : AccountDeleted(i)

AccountsOver == accountCalls = MaxAccountCalls /\ \A c \in Callers : call[c] = NoCall

-----------------------------------------------------------------------------
\* However an email is typed, and whichever registrations overlap, are refused
\* or lose their acknowledgement: there is one account for it; a login reaches
\* the account that was registered with that email and with the first 72 bytes of that
\* password, and one that was told of its account before it began is not turned away;
\* and a token never shows another account than the one it was issued for.
AccountsAreRight ==
  /\ \A i, j \in DOMAIN accounts :
       Lower[asked[i].email] = Lower[asked[j].email] => i = j
  /\ answered.to = "login" /\ answered.status = "ok" =>
       LET a == asked[answered.uid] IN
         Lower[a.email] = Lower[answered.typed] /\ a.password = First72[answered.password]
  /\ answered.to = "login" /\ answered.status = "unauthorized" =>
       answered.due \cap DOMAIN accounts = {}
  /\ answered.to = "me" /\ answered.status = "ok" => answered.email = answered.token.email
=============================================================================
