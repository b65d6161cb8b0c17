---------------------------- MODULE RefreshTokens ----------------------------
(***************************************************************************)
(* Refresh-token rotation of the Day 35 API (internal/auth): the rows of    *)
(* refresh_tokens, and the Login, Refresh and Logout calls that work on     *)
(* them. No call runs in a transaction: each statement is a step of its     *)
(* own, calls of any clients and replicas interleave between statements,    *)
(* and a call may end after any of them (a database error, a cancelled      *)
(* context, a replica that dies).                                           *)
(***************************************************************************)
EXTENDS Naturals

CONSTANTS
  Users,
  NoUser,       \* the owner of a row that is not there
  Calls,        \* service calls that may be in flight at once
  MaxTokens,    \* bound: rows ever inserted
  Expiring,     \* bound: the rows whose expires_at may pass
  Leaving       \* bound: the users an operator may delete

ASSUME UsersAssumption == NoUser \notin Users
ASSUME MaxTokensAssumption == MaxTokens \in Nat

Ids == 1 .. MaxTokens
NoId == 0

VARIABLES
  users,       \* rows of users
  owner,       \* owner[i]: user_id of row i, or NoUser
  revoked,     \* rows whose revoked_at is set
  replacedBy,  \* replacedBy[i]: replaced_by_id of row i, or NoId
  expired,     \* rows whose expires_at has passed
  inserted,    \* the identity sequence: ids 1 .. inserted are used
  issued,      \* tokens whose plaintext a client was given
  pc,          \* pc[c]: where call c is
  tok,         \* tok[c]: the row of the token call c was presented
  fresh,       \* fresh[c]: the row call c has created
  who,         \* who[c]: the user call c acts for
  parent,      \* history: the token a token was obtained with
  session,     \* history: the login a token descends from
  contended,   \* history: sessions in which two calls overlapped
  reused,      \* history: sessions in which a reuse was detected and acted on
  closed       \* history: sessions whose usable token a logout has revoked

table == <<users, owner, revoked, replacedBy, expired, inserted>>
calls == <<pc, tok, fresh, who>>
history == <<parent, session, contended, reused, closed>>
vars == <<users, owner, revoked, replacedBy, expired, inserted, issued,
          pc, tok, fresh, who, parent, session, contended, reused, closed>>

Init ==
  /\ users = Users
  /\ owner = [i \in Ids |-> NoUser]
  /\ revoked = {}
  /\ replacedBy = [i \in Ids |-> NoId]
  /\ expired = {}
  /\ inserted = 0
  /\ issued = {}
  /\ pc = [c \in Calls |-> "idle"]
  /\ tok = [c \in Calls |-> NoId]
  /\ fresh = [c \in Calls |-> NoId]
  /\ who = [c \in Calls |-> NoUser]
  /\ parent = [i \in Ids |-> NoId]
  /\ session = [i \in Ids |-> NoId]
  /\ contended = {}
  /\ reused = {}
  /\ closed = {}

Goto(c, place) ==
  /\ pc' = [pc EXCEPT ![c] = place]
  /\ UNCHANGED <<tok, fresh, who>>

\* The call returns: its local variables are gone.
Return(c) ==
  /\ pc' = [pc EXCEPT ![c] = "idle"]
  /\ tok' = [tok EXCEPT ![c] = NoId]
  /\ fresh' = [fresh EXCEPT ![c] = NoId]
  /\ who' = [who EXCEPT ![c] = NoUser]

\* The rows WHERE clauses can see, and RefreshToken.IsActive.
Row(i) == owner[i] # NoUser
IsActive(i) == Row(i) /\ i \notin revoked /\ i \notin expired

\* A mistake: the family of a token is taken to be every token of its user.
Family_WholeUser(start) == {i \in Ids : Row(i) /\ owner[i] = owner[start]}

\* The recursive query of RevokeFamilyDescendants: the least set of rows that
\* holds the start and, with a row, the row that replaced it.
Closed(S) == \A i \in S : replacedBy[i] \in Ids => replacedBy[i] \in S
Family(start) ==
  {i \in Ids : Row(i) /\ \A S \in SUBSET Ids : start \in S /\ Closed(S) => i \in S}

\* A call on a token overlaps another call on a token of the same session.
Overlaps(c, t) ==
  \E d \in Calls \ {c} : /\ pc[d] # "idle" /\ tok[d] # NoId
                         /\ session[tok[d]] = session[t]

Present(c, t) == pc[c] = "idle" /\ t \in issued

\* The call goes on with the row it has read.
Hold(c, t, place) ==
  /\ pc' = [pc EXCEPT ![c] = place]
  /\ tok' = [tok EXCEPT ![c] = t]
  /\ who' = [who EXCEPT ![c] = owner[t]]
  /\ contended' = IF Overlaps(c, t) THEN contended \cup {session[t]} ELSE contended
  /\ UNCHANGED fresh

-----------------------------------------------------------------------------
(* Plausible mistakes in this code, each under the name of the action it    *)
(* would replace.                                                           *)

\* Revoke without "AND revoked_at IS NULL".
RevokeOld_Unconditional(c) ==
  LET t == tok[c] IN
  /\ pc[c] = "retire"
  /\ revoked' = revoked \cup {t}
  /\ replacedBy' = [replacedBy EXCEPT ![t] = fresh[c]]
  /\ Goto(c, "respond")
  /\ UNCHANGED <<users, owner, expired, inserted, issued, history>>

\* Refresh answers without revoking the token it was presented.
RevokeOld_Forgotten(c) ==
  /\ pc[c] = "retire"
  /\ Goto(c, "respond")
  /\ UNCHANGED <<table, issued, history>>

\* Refresh revokes the presented token without recording its successor.
RevokeOld_NoSuccessor(c) ==
  /\ pc[c] = "retire"
  /\ revoked' = revoked \cup ({tok[c]} \cap {i \in Ids : Row(i)})
  /\ Goto(c, "respond")
  /\ UNCHANGED <<users, owner, replacedBy, expired, inserted, issued, history>>

\* Revoke(new, &old) instead of Revoke(old, &new).
RevokeOld_Swapped(c) ==
  /\ pc[c] = "retire"
  /\ revoked' = revoked \cup {fresh[c]}
  /\ replacedBy' = [replacedBy EXCEPT ![fresh[c]] = tok[c]]
  /\ Goto(c, "respond")
  /\ UNCHANGED <<users, owner, expired, inserted, issued, history>>

\* The error of refreshRepo.Create is ignored and the pair handed out.
CreateRefused_Ignored(c) ==
  /\ pc[c] = "create" /\ who[c] \notin users
  /\ Goto(c, "respond")
  /\ UNCHANGED <<table, issued, history>>

-----------------------------------------------------------------------------
\* Service.Login, up to the token it creates; a wrong email or password ends
\* the call without a trace.
BeginLogin(c, u) ==
  /\ pc[c] = "idle" /\ u \in users
  /\ pc' = [pc EXCEPT ![c] = "create"]
  /\ who' = [who EXCEPT ![c] = u]
  /\ UNCHANGED <<table, issued, tok, fresh, history>>

\* Service.Refresh: GetByHash, then the branches on the row it returned; a
\* token without a row, or an expired one, is a 401 at once.
BeginRefresh(c, t) ==
  /\ Present(c, t)
  /\ \/ Row(t) /\ t \in revoked /\ Hold(c, t, "reuse")
     \/ IsActive(t) /\ Hold(c, t, "user")
     \/ ~Row(t) /\ UNCHANGED <<calls, contended>>
     \/ t \notin revoked /\ t \in expired /\ UNCHANGED <<calls, contended>>
  /\ UNCHANGED <<table, issued, parent, session, reused, closed>>

\* The presented token had been revoked: RevokeFamilyDescendants, then 401.
RevokeFamilyDescendants(c) ==
  /\ pc[c] = "reuse"
  /\ revoked' = revoked \cup Family(tok[c])
  /\ reused' = reused \cup {session[tok[c]]}
  /\ Return(c)
  /\ UNCHANGED <<users, owner, replacedBy, expired, inserted, issued,
                 parent, session, contended, closed>>

\* GetByID of the token's user; a user that is gone gets the token revoked.
CheckUser(c) ==
  /\ pc[c] = "user"
  /\ Goto(c, IF who[c] \in users THEN "create" ELSE "revoke")
  /\ UNCHANGED <<table, issued, history>>

\* refreshRepo.Create, of Login and of Refresh.
CreateToken(c) ==
  LET i == inserted + 1 IN
  /\ pc[c] = "create" /\ inserted < MaxTokens
  /\ who[c] \in users
  /\ inserted' = i
  /\ owner' = [owner EXCEPT ![i] = who[c]]
  /\ fresh' = [fresh EXCEPT ![c] = i]
  /\ pc' = [pc EXCEPT ![c] = IF tok[c] = NoId THEN "respond" ELSE "retire"]
  /\ parent' = [parent EXCEPT ![i] = tok[c]]
  /\ session' = [session EXCEPT ![i] = IF tok[c] = NoId THEN i ELSE session[tok[c]]]
  /\ UNCHANGED <<users, revoked, replacedBy, expired, issued, tok, who, contended, reused, closed>>

\* The foreign key refuses a token for a user that is gone (500).
CreateRefused(c) ==
  /\ pc[c] = "create" /\ who[c] \notin users
  /\ Return(c)
  /\ UNCHANGED <<table, issued, history>>

\* refreshRepo.Revoke(old, &new): no row is updated when it is revoked already,
\* which is not an error.
RevokeOld(c) ==
  LET t == tok[c] IN
  /\ pc[c] = "retire"
  /\ \/ /\ Row(t) /\ t \notin revoked
        /\ revoked' = revoked \cup {t}
        /\ replacedBy' = [replacedBy EXCEPT ![t] = fresh[c]]
     \/ /\ ~Row(t) \/ t \in revoked
        /\ UNCHANGED <<revoked, replacedBy>>
  /\ Goto(c, "respond")
  /\ UNCHANGED <<users, owner, expired, inserted, issued, history>>

\* The handler writes the pair of tokens to the client.
Respond(c) ==
  /\ pc[c] = "respond"
  /\ issued' = issued \cup {fresh[c]}
  /\ Return(c)
  /\ UNCHANGED <<table, history>>

\* Service.Logout: GetByHash; a missing or revoked token is a 204 at once.
BeginLogout(c, t) ==
  /\ Present(c, t)
  /\ \/ Row(t) /\ t \notin revoked /\ Hold(c, t, "logout")
     \/ ~Row(t) /\ UNCHANGED <<calls, contended>>
     \/ t \in revoked /\ UNCHANGED <<calls, contended>>
  /\ UNCHANGED <<table, issued, parent, session, reused, closed>>

\* Revoke(id, nil), of Logout and of a Refresh whose user is gone.
RevokeOnly(c) ==
  LET t == tok[c] IN
  /\ pc[c] \in {"logout", "revoke"}
  /\ \/ /\ Row(t) /\ t \notin revoked
        /\ revoked' = revoked \cup {t}
        /\ closed' = closed \cup {session[t]}
     \/ /\ ~Row(t) \/ t \in revoked
        /\ UNCHANGED <<revoked, closed>>
  /\ Return(c)
  /\ UNCHANGED <<users, owner, replacedBy, expired, inserted, issued,
                 parent, session, contended, reused>>

\* A call ends before its next step: an error, a cancelled context, a crash,
\* or a response that does not reach its client.
CallEnds(c) ==
  /\ pc[c] # "idle"
  /\ Return(c)
  /\ UNCHANGED <<table, issued, history>>

-----------------------------------------------------------------------------
\* expires_at passes.
TokenExpires(i) ==
  /\ i \in Expiring /\ Row(i) /\ i \notin expired
  /\ expired' = expired \cup {i}
  /\ UNCHANGED <<users, owner, revoked, replacedBy, inserted, issued, calls, history>>

\* No endpoint deletes a user; an operator may, and ON DELETE CASCADE takes
\* the user's tokens along.
DeleteUser(u) ==
  /\ u \in Leaving \cap users
  /\ users' = users \ {u}
  /\ owner' = [i \in Ids |-> IF owner[i] = u THEN NoUser ELSE owner[i]]
  /\ UNCHANGED <<revoked, replacedBy, expired, inserted, issued, calls, history>>

-----------------------------------------------------------------------------
Next ==
  \/ \E c \in Calls :
       \/ \E u \in Users : BeginLogin(c, u)
       \/ \E t \in Ids : BeginRefresh(c, t) \/ BeginLogout(c, t)
       \/ RevokeFamilyDescendants(c) \/ CheckUser(c) \/ CreateToken(c) \/ CreateRefused(c)
       \/ RevokeOld(c) \/ Respond(c) \/ RevokeOnly(c) \/ CallEnds(c)
  \/ \E i \in Ids : TokenExpires(i)
  \/ \E u \in Users : DeleteUser(u)

Spec == Init /\ [][Next]_vars

-----------------------------------------------------------------------------
TableOK ==
  /\ users \subseteq Users
  /\ owner \in [Ids -> Users \cup {NoUser}]
  /\ revoked \subseteq Ids /\ expired \subseteq Ids
  /\ replacedBy \in [Ids -> Ids \cup {NoId}]
  /\ inserted \in 0 .. MaxTokens
  /\ issued \subseteq 1 .. inserted

CallsOK ==
  /\ pc \in [Calls -> {"idle", "reuse", "user", "create", "retire", "respond",
                       "logout", "revoke"}]
  /\ tok \in [Calls -> Ids \cup {NoId}]
  /\ fresh \in [Calls -> Ids \cup {NoId}]
  /\ who \in [Calls -> Users \cup {NoUser}]

HistoryOK ==
  /\ parent \in [Ids -> Ids \cup {NoId}]
  /\ session \in [Ids -> Ids \cup {NoId}]
  /\ contended \subseteq Ids \cup {NoId}
  /\ reused \subseteq Ids \cup {NoId} /\ closed \subseteq Ids \cup {NoId}

TypeOK == TableOK /\ CallsOK /\ HistoryOK

\* The rotation chain that the recursive query walks goes from a revoked token
\* to a younger one obtained with it, in the same session: it has no cycle, so
\* the query ends, and it never leaves the session. Two Refresh calls that
\* revoke one token must not relink it.
ChainsAreSound ==
  \A i \in Ids : replacedBy[i] # NoId =>
    /\ i \in revoked
    /\ replacedBy[i] > i
    /\ parent[replacedBy[i]] = i
    /\ session[replacedBy[i]] = session[i]

\* A client that has been given a new token can no longer use the old one,
\* however many refreshes of it ran at once and whichever of them failed.
RefreshRetiresOld ==
  \A i \in issued :
    parent[i] # NoId => ~Row(parent[i]) \/ parent[i] \in revoked

\* Reuse in one session (one device) never logs out another: what a step
\* revokes belongs to the session of the token some call was presented.
OnlyOwnSession ==
  [][\A i \in revoked' \ revoked :
       \E c \in Calls : tok[c] # NoId /\ session[tok[c]] = session[i]]_vars

\* A link of the chain, once set, is final: history is not rewritten.
LinksAreFinal ==
  [][\A i \in Ids : replacedBy[i] # NoId => replacedBy'[i] = replacedBy[i]]_vars

\* What a step does to the table is sound: it revokes in one session only, and
\* adds to the history of a chain without changing it.
StepsAreSound == OnlyOwnSession /\ LinksAreFinal

\* The tokens of a session its clients could use now.
Usable(s) == {i \in issued : session[i] = s /\ IsActive(i)}

AtMostOne(S) == \A i, j \in S : i = j

\* Rotation: as long as the calls of a session do not overlap, its clients hold
\* at most one usable token, whatever calls fail half way.
HoldsOneToken == \A s \in Ids \ contended : AtMostOne(Usable(s))

\* Reuse detection and logout: as long as the calls of a session do not
\* overlap, neither leaves a usable token behind, then or later.
EndedStaysEnded == \A s \in (reused \cup closed) \ contended : Usable(s) = {}

\* "reuse detection kills the family": once every call is over, no token of a
\* session in which a reuse was detected is usable.
ReuseEndsFamily ==
  (\A c \in Calls : pc[c] = "idle") => \A s \in reused : Usable(s) = {}
=============================================================================
