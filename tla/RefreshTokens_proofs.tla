------------------------- MODULE RefreshTokens_proofs -------------------------
(***************************************************************************)
(* Proofs about RefreshTokens, for every set of users and of concurrent     *)
(* calls and every number of tokens.                                        *)
(***************************************************************************)
EXTENDS RefreshTokens, WellFoundedInduction, TLAPS

\* What a call in flight knows about the rows it works on.
Knows(c) ==
  /\ pc[c] \in {"reuse", "user", "retire", "logout", "revoke"}
       => tok[c] \in 1 .. inserted
  /\ tok[c] \in 0 .. inserted
  /\ pc[c] = "create" => who[c] \in Users
  /\ pc[c] = "user" => who[c] \in Users
  /\ pc[c] = "retire" =>
       /\ fresh[c] \in 1 .. inserted /\ fresh[c] > tok[c]
       /\ parent[fresh[c]] = tok[c] /\ session[fresh[c]] = session[tok[c]]
  /\ pc[c] = "respond" =>
       /\ fresh[c] \in 1 .. inserted
       /\ parent[fresh[c]] # NoId =>
            ~Row(parent[fresh[c]]) \/ parent[fresh[c]] \in revoked

CallsKnow == \A c \in Calls : Knows(c)

\* Nothing is known of a row before it is inserted.
Unused ==
  \A i \in Ids : i > inserted => owner[i] = NoUser /\ i \notin revoked
                                 /\ replacedBy[i] = NoId

\* Links and parents lead to rows that were inserted.
Inserted ==
  \A i \in Ids : /\ replacedBy[i] \in 0 .. inserted
                 /\ i <= inserted => parent[i] \in 0 .. inserted

RInv == TypeOK /\ CallsKnow /\ Unused /\ Inserted /\ ChainsAreSound /\ RefreshRetiresOld

LEMMA IdsAreNumbers == Ids \subseteq Nat /\ NoId \notin Ids /\ \A n \in Nat : 1 .. n \subseteq Nat
BY MaxTokensAssumption DEF Ids, NoId

LEMMA RInit == Init => RInv
BY MaxTokensAssumption
DEF Init, RInv, TypeOK, TableOK, CallsOK, HistoryOK, CallsKnow, Knows, Unused, Inserted, ChainsAreSound, RefreshRetiresOld, Ids, NoId

\* The rows keep their types.
LEMMA StepTable == RInv /\ [Next]_vars => TableOK'
<1> SUFFICES ASSUME RInv, [Next]_vars PROVE TableOK' OBVIOUS
<1> USE MaxTokensAssumption, UsersAssumption
    DEF RInv, TypeOK, TableOK, CallsOK, CallsKnow, Knows, table, calls, history, Goto, Return, Hold, NoId
<1>1. ASSUME NEW c \in Calls, NEW u \in Users, BeginLogin(c, u) PROVE TableOK'
  BY <1>1 DEF BeginLogin
<1>2. ASSUME NEW c \in Calls, NEW t \in Ids, BeginRefresh(c, t) PROVE TableOK'
  BY <1>2 DEF BeginRefresh, Present, IsActive
<1>3. ASSUME NEW c \in Calls, NEW t \in Ids, BeginLogout(c, t) PROVE TableOK'
  BY <1>3 DEF BeginLogout, Present
<1>4. ASSUME NEW c \in Calls, RevokeFamilyDescendants(c) PROVE TableOK'
  BY <1>4 DEF RevokeFamilyDescendants, Family
<1>5. ASSUME NEW c \in Calls, CheckUser(c) PROVE TableOK'
  BY <1>5 DEF CheckUser
<1>6. ASSUME NEW c \in Calls, CreateToken(c) PROVE TableOK'
  <2>1. inserted + 1 \in Ids /\ inserted' = inserted + 1
    BY <1>6 DEF CreateToken, Ids
  <2>2. issued' \subseteq 1 .. inserted' /\ inserted' \in 0 .. MaxTokens
    BY <1>6, <2>1 DEF CreateToken, Ids
  <2>3. owner' \in [Ids -> Users \cup {NoUser}]
    BY <1>6, <2>1 DEF CreateToken
  <2> QED
    BY <1>6, <2>2, <2>3 DEF CreateToken
<1>7. ASSUME NEW c \in Calls, CreateRefused(c) \/ CallEnds(c) PROVE TableOK'
  BY <1>7 DEF CreateRefused, CallEnds
<1>8. ASSUME NEW c \in Calls, RevokeOld(c) PROVE TableOK'
  BY <1>8 DEF RevokeOld
<1>9. ASSUME NEW c \in Calls, Respond(c) PROVE TableOK'
  BY <1>9 DEF Respond
<1>10. ASSUME NEW c \in Calls, RevokeOnly(c) PROVE TableOK'
  BY <1>10 DEF RevokeOnly
<1>11. ASSUME NEW i \in Ids, TokenExpires(i) PROVE TableOK'
  BY <1>11 DEF TokenExpires
<1>12. ASSUME NEW u \in Users, DeleteUser(u) PROVE TableOK'
  BY <1>12 DEF DeleteUser
<1>13. CASE UNCHANGED vars
  BY <1>13 DEF vars
<1> QED
  BY <1>1, <1>2, <1>3, <1>4, <1>5, <1>6, <1>7, <1>8, <1>9, <1>10, <1>11, <1>12, <1>13
  DEF Next

\* The calls in flight keep their types.
LEMMA StepCallsType == RInv /\ [Next]_vars => CallsOK'
<1> SUFFICES ASSUME RInv, [Next]_vars PROVE CallsOK' OBVIOUS
<1> USE MaxTokensAssumption, UsersAssumption
    DEF RInv, TypeOK, TableOK, CallsOK, table, calls, history, Goto, Return, Hold, NoId
<1>1. ASSUME NEW c \in Calls, NEW u \in Users, BeginLogin(c, u) PROVE CallsOK'
  BY <1>1 DEF BeginLogin
<1>2. ASSUME NEW c \in Calls, NEW t \in Ids, BeginRefresh(c, t) PROVE CallsOK'
  BY <1>2 DEF BeginRefresh, Present, IsActive
<1>3. ASSUME NEW c \in Calls, NEW t \in Ids, BeginLogout(c, t) PROVE CallsOK'
  BY <1>3 DEF BeginLogout, Present
<1>4. ASSUME NEW c \in Calls, RevokeFamilyDescendants(c) PROVE CallsOK'
  BY <1>4 DEF RevokeFamilyDescendants, Family
<1>5. ASSUME NEW c \in Calls, CheckUser(c) PROVE CallsOK'
  BY <1>5 DEF CheckUser
<1>6. ASSUME NEW c \in Calls, CreateToken(c) PROVE CallsOK'
  <2>1. inserted + 1 \in Ids
    BY <1>6 DEF CreateToken, Ids
  <2>2. fresh' \in [Calls -> Ids \cup {NoId}]
    BY <1>6, <2>1 DEF CreateToken
  <2>3. pc' = [pc EXCEPT ![c] = "respond"] \/ pc' = [pc EXCEPT ![c] = "retire"]
    BY <1>6 DEF CreateToken
  <2>4. UNCHANGED <<tok, who>>
    BY <1>6 DEF CreateToken
  <2> QED
    BY <2>2, <2>3, <2>4
<1>7. ASSUME NEW c \in Calls, CreateRefused(c) \/ CallEnds(c) PROVE CallsOK'
  BY <1>7 DEF CreateRefused, CallEnds
<1>8. ASSUME NEW c \in Calls, RevokeOld(c) PROVE CallsOK'
  BY <1>8 DEF RevokeOld
<1>9. ASSUME NEW c \in Calls, Respond(c) PROVE CallsOK'
  BY <1>9 DEF Respond
<1>10. ASSUME NEW c \in Calls, RevokeOnly(c) PROVE CallsOK'
  BY <1>10 DEF RevokeOnly
<1>11. ASSUME NEW i \in Ids, TokenExpires(i) PROVE CallsOK'
  BY <1>11 DEF TokenExpires
<1>12. ASSUME NEW u \in Users, DeleteUser(u) PROVE CallsOK'
  BY <1>12 DEF DeleteUser
<1>13. CASE UNCHANGED vars
  BY <1>13 DEF vars
<1> QED
  BY <1>1, <1>2, <1>3, <1>4, <1>5, <1>6, <1>7, <1>8, <1>9, <1>10, <1>11, <1>12, <1>13
  DEF Next

\* The history variables keep their types.
LEMMA StepHistory == RInv /\ [Next]_vars => HistoryOK'
<1> SUFFICES ASSUME RInv, [Next]_vars PROVE HistoryOK' OBVIOUS
<1> USE MaxTokensAssumption, UsersAssumption
    DEF RInv, TypeOK, TableOK, CallsOK, HistoryOK, CallsKnow, Knows, table, calls, history, Goto, Return, Hold, NoId
<1>1. ASSUME NEW c \in Calls, NEW u \in Users, BeginLogin(c, u) PROVE HistoryOK'
  BY <1>1 DEF BeginLogin
<1>2. ASSUME NEW c \in Calls, NEW t \in Ids, BeginRefresh(c, t) PROVE HistoryOK'
  BY <1>2 DEF BeginRefresh, Present, IsActive
<1>3. ASSUME NEW c \in Calls, NEW t \in Ids, BeginLogout(c, t) PROVE HistoryOK'
  BY <1>3 DEF BeginLogout, Present
<1>4. ASSUME NEW c \in Calls, RevokeFamilyDescendants(c) PROVE HistoryOK'
  <2>1. tok[c] \in Ids
    BY <1>4 DEF RevokeFamilyDescendants, CallsKnow, Knows, Ids
  <2> QED
    BY <1>4, <2>1 DEF RevokeFamilyDescendants
<1>5. ASSUME NEW c \in Calls, CheckUser(c) PROVE HistoryOK'
  BY <1>5 DEF CheckUser
<1>6. ASSUME NEW c \in Calls, CreateToken(c) PROVE HistoryOK'
  <2>1. UNCHANGED <<contended, reused, closed>>
    BY <1>6 DEF CreateToken
  <2>2. parent' \in [Ids -> Ids \cup {NoId}]
    BY <1>6 DEF CreateToken
  <2>3. session' \in [Ids -> Ids \cup {NoId}]
    <3>1. inserted + 1 \in Ids
      BY <1>6 DEF CreateToken, Ids
    <3>2. tok[c] = NoId \/ session[tok[c]] \in Ids \cup {NoId}
      OBVIOUS
    <3>3. PICK v \in Ids \cup {NoId} : session' = [session EXCEPT ![inserted + 1] = v]
      BY <1>6, <3>1, <3>2 DEF CreateToken
    <3> QED BY <3>3
  <2> QED
    BY <2>1, <2>2, <2>3
<1>7. ASSUME NEW c \in Calls, CreateRefused(c) \/ CallEnds(c) PROVE HistoryOK'
  BY <1>7 DEF CreateRefused, CallEnds
<1>8. ASSUME NEW c \in Calls, RevokeOld(c) PROVE HistoryOK'
  BY <1>8 DEF RevokeOld
<1>9. ASSUME NEW c \in Calls, Respond(c) PROVE HistoryOK'
  BY <1>9 DEF Respond
<1>10. ASSUME NEW c \in Calls, RevokeOnly(c) PROVE HistoryOK'
  <2>1. tok[c] \in Ids
    BY <1>10 DEF RevokeOnly, CallsKnow, Knows, Ids
  <2> QED
    BY <1>10, <2>1 DEF RevokeOnly
<1>11. ASSUME NEW i \in Ids, TokenExpires(i) PROVE HistoryOK'
  BY <1>11 DEF TokenExpires
<1>12. ASSUME NEW u \in Users, DeleteUser(u) PROVE HistoryOK'
  BY <1>12 DEF DeleteUser
<1>13. CASE UNCHANGED vars
  BY <1>13 DEF vars
<1> QED
  BY <1>1, <1>2, <1>3, <1>4, <1>5, <1>6, <1>7, <1>8, <1>9, <1>10, <1>11, <1>12, <1>13
  DEF Next

\* What a call knows stays true while the table only grows and its variables
\* stay as they are.
LEMMA KnowledgePersists ==
  ASSUME NEW d \in Calls, Knows(d), Inserted, inserted \in 0 .. MaxTokens,
         pc'[d] = pc[d], tok'[d] = tok[d], fresh'[d] = fresh[d], who'[d] = who[d],
         inserted' \in inserted .. MaxTokens, revoked \subseteq revoked',
         \A i \in 1 .. inserted : parent'[i] = parent[i] /\ session'[i] = session[i] /\ (Row(i)' => Row(i))
  PROVE  Knows(d)'
<1> USE MaxTokensAssumption DEF Ids, NoId, Row
<1>1. tok[d] \in 0 .. inserted'
  BY DEF Knows
<1>2. ASSUME pc[d] = "retire"
      PROVE  /\ fresh[d] \in 1 .. inserted' /\ fresh[d] > tok[d]
             /\ parent'[fresh[d]] = tok[d] /\ session'[fresh[d]] = session'[tok[d]]
  <2>1. fresh[d] \in 1 .. inserted /\ tok[d] \in 1 .. inserted
    BY <1>2 DEF Knows
  <2>2. /\ parent'[fresh[d]] = parent[fresh[d]]
        /\ session'[fresh[d]] = session[fresh[d]] /\ session'[tok[d]] = session[tok[d]]
    BY <2>1
  <2> QED
    BY <1>2, <2>1, <2>2 DEF Knows
<1>3. ASSUME pc[d] = "respond"
      PROVE  /\ fresh[d] \in 1 .. inserted'
             /\ parent'[fresh[d]] # NoId =>
                  ~Row(parent[fresh[d]])' \/ parent'[fresh[d]] \in revoked'
  <2>1. fresh[d] \in 1 .. inserted /\ parent[fresh[d]] \in 0 .. inserted
    BY <1>3 DEF Knows, Inserted
  <2>2. parent'[fresh[d]] = parent[fresh[d]]
    BY <2>1
  <2>3. ASSUME parent[fresh[d]] # NoId, ~Row(parent[fresh[d]])
        PROVE  ~Row(parent[fresh[d]])'
    BY <2>1, <2>2, <2>3
  <2> QED
    BY <1>3, <2>1, <2>2, <2>3 DEF Knows
<1> QED
  BY <1>1, <1>2, <1>3 DEF Knows

\* A call keeps knowing the rows it works on, whatever other calls do.
LEMMA StepCalls == RInv /\ [Next]_vars => CallsKnow'
<1> SUFFICES ASSUME RInv, [Next]_vars PROVE CallsKnow' OBVIOUS
<1> USE MaxTokensAssumption, UsersAssumption
    DEF RInv, TypeOK, TableOK, CallsOK, HistoryOK, Ids, NoId, table, calls, history, Goto, Return, Hold, CallsKnow, Knows, Inserted, Row
<1>1. ASSUME NEW c \in Calls, NEW u \in Users, BeginLogin(c, u) PROVE CallsKnow'
  BY <1>1 DEF BeginLogin
<1>2. ASSUME NEW c \in Calls, NEW t \in Ids, BeginRefresh(c, t) PROVE CallsKnow'
  <2>1. UNCHANGED <<table, issued, parent, session, fresh>> /\ t \in 1 .. inserted
    BY <1>2 DEF BeginRefresh, Present
  <2>2. CASE UNCHANGED calls
    BY <2>1, <2>2
  <2>3. CASE Hold(c, t, "reuse") /\ Row(t)
    BY <2>1, <2>3
  <2>4. CASE Hold(c, t, "user") /\ Row(t)
    BY <2>1, <2>4
  <2> QED
    BY <1>2, <2>2, <2>3, <2>4 DEF BeginRefresh, IsActive
<1>3. ASSUME NEW c \in Calls, NEW t \in Ids, BeginLogout(c, t) PROVE CallsKnow'
  <2>1. UNCHANGED <<table, issued, parent, session, fresh>> /\ t \in 1 .. inserted
    BY <1>3 DEF BeginLogout, Present
  <2>2. CASE UNCHANGED calls
    BY <2>1, <2>2
  <2>3. CASE Hold(c, t, "logout") /\ Row(t)
    BY <2>1, <2>3
  <2> QED
    BY <1>3, <2>2, <2>3 DEF BeginLogout
<1>4. ASSUME NEW c \in Calls, RevokeFamilyDescendants(c) PROVE CallsKnow'
  BY <1>4 DEF RevokeFamilyDescendants, Family
<1>5. ASSUME NEW c \in Calls, CheckUser(c) PROVE CallsKnow'
  BY <1>5 DEF CheckUser
<1>6. ASSUME NEW c \in Calls, CreateToken(c) PROVE CallsKnow'
  <2>1. ASSUME NEW d \in Calls, d # c PROVE Knows(d)'
    <3>1. /\ pc'[d] = pc[d] /\ tok'[d] = tok[d] /\ fresh'[d] = fresh[d] /\ who'[d] = who[d]
          /\ revoked' = revoked
      BY <1>6, <2>1 DEF CreateToken
    <3>2. /\ inserted' \in inserted .. MaxTokens
          /\ \A i \in 1 .. inserted : parent'[i] = parent[i] /\ session'[i] = session[i] /\ (Row(i)' => Row(i))
      BY <1>6 DEF CreateToken
    <3>3. Knows(d)
      BY DEF RInv, CallsKnow
    <3> HIDE DEF Knows, Inserted
    <3> QED
      BY <3>1, <3>2, <3>3, KnowledgePersists
  <2>2. Knows(c)'
    <3>1. pc'[c] = IF tok[c] = NoId THEN "respond" ELSE "retire"
      BY <1>6 DEF CreateToken
    <3>2. /\ inserted' = inserted + 1 /\ fresh'[c] = inserted + 1
          /\ tok'[c] = tok[c] /\ parent'[inserted + 1] = tok[c]
      BY <1>6 DEF CreateToken
    <3>3. tok[c] # NoId => session'[inserted + 1] = session'[tok[c]]
      BY <1>6 DEF CreateToken
    <3>4. tok[c] \in 0 .. inserted
      BY DEF RInv, CallsKnow
    <3> QED
      BY <3>1, <3>2, <3>3, <3>4
  <2> QED
    BY <2>1, <2>2 DEF CallsKnow
<1>7. ASSUME NEW c \in Calls, CreateRefused(c) \/ CallEnds(c) PROVE CallsKnow'
  <2>1. UNCHANGED <<table, issued, parent, session>> /\ Return(c)
    BY <1>7 DEF CreateRefused, CallEnds
  <2> QED
    BY <2>1
<1>8. ASSUME NEW c \in Calls, RevokeOld(c) PROVE CallsKnow'
  <2>1. ASSUME NEW d \in Calls, d # c PROVE Knows(d)'
    <3>1. /\ pc'[d] = pc[d] /\ UNCHANGED <<tok, fresh, who, inserted, parent, session, owner>>
      BY <1>8, <2>1 DEF RevokeOld
    <3>2. revoked \subseteq revoked'
      BY <1>8 DEF RevokeOld
    <3>3. Knows(d)
      BY DEF RInv, CallsKnow
    <3> HIDE DEF Knows, Inserted
    <3> QED
      BY <3>1, <3>2, <3>3, KnowledgePersists
  <2>2. Knows(c)'
    <3>1. /\ pc'[c] = "respond" /\ UNCHANGED <<tok, fresh, inserted, parent, owner>>
          /\ ~Row(tok[c]) \/ tok[c] \in revoked'
      BY <1>8 DEF RevokeOld
    <3>2. fresh[c] \in 1 .. inserted /\ parent[fresh[c]] = tok[c] /\ tok[c] \in 0 .. inserted
      BY <1>8 DEF RevokeOld
    <3> QED
      BY <3>1, <3>2
  <2> QED
    BY <2>1, <2>2 DEF CallsKnow
<1>9. ASSUME NEW c \in Calls, Respond(c) PROVE CallsKnow'
  BY <1>9 DEF Respond
<1>10. ASSUME NEW c \in Calls, RevokeOnly(c) PROVE CallsKnow'
  BY <1>10 DEF RevokeOnly
<1>11. ASSUME NEW i \in Ids, TokenExpires(i) PROVE CallsKnow'
  BY <1>11 DEF TokenExpires
<1>12. ASSUME NEW u \in Users, DeleteUser(u) PROVE CallsKnow'
  BY <1>12 DEF DeleteUser
<1>13. CASE UNCHANGED vars
  BY <1>13 DEF vars
<1> QED
  BY <1>1, <1>2, <1>3, <1>4, <1>5, <1>6, <1>7, <1>8, <1>9, <1>10, <1>11, <1>12, <1>13
  DEF Next

\* A row that is not inserted is not touched.
LEMMA StepUnused == RInv /\ [Next]_vars => Unused'
<1> SUFFICES ASSUME RInv, [Next]_vars PROVE Unused' OBVIOUS
<1> USE MaxTokensAssumption, UsersAssumption
    DEF RInv, TypeOK, TableOK, CallsOK, HistoryOK, Ids, NoId, table, calls, history, Goto, Return, Hold, CallsKnow, Knows, Unused, Inserted, Row
<1>1. ASSUME NEW c \in Calls, NEW u \in Users, BeginLogin(c, u) PROVE Unused'
  BY <1>1 DEF BeginLogin
<1>2. ASSUME NEW c \in Calls, NEW t \in Ids, BeginRefresh(c, t) PROVE Unused'
  BY <1>2 DEF BeginRefresh, Present, IsActive
<1>3. ASSUME NEW c \in Calls, NEW t \in Ids, BeginLogout(c, t) PROVE Unused'
  BY <1>3 DEF BeginLogout, Present
<1>4. ASSUME NEW c \in Calls, RevokeFamilyDescendants(c) PROVE Unused'
  BY <1>4 DEF RevokeFamilyDescendants, Family
<1>5. ASSUME NEW c \in Calls, CheckUser(c) PROVE Unused'
  BY <1>5 DEF CheckUser
<1>6. ASSUME NEW c \in Calls, CreateToken(c) PROVE Unused'
  BY <1>6 DEF CreateToken
<1>7. ASSUME NEW c \in Calls, CreateRefused(c) \/ CallEnds(c) PROVE Unused'
  BY <1>7 DEF CreateRefused, CallEnds
<1>8. ASSUME NEW c \in Calls, RevokeOld(c) PROVE Unused'
  BY <1>8 DEF RevokeOld
<1>9. ASSUME NEW c \in Calls, Respond(c) PROVE Unused'
  BY <1>9 DEF Respond
<1>10. ASSUME NEW c \in Calls, RevokeOnly(c) PROVE Unused'
  BY <1>10 DEF RevokeOnly
<1>11. ASSUME NEW i \in Ids, TokenExpires(i) PROVE Unused'
  BY <1>11 DEF TokenExpires
<1>12. ASSUME NEW u \in Users, DeleteUser(u) PROVE Unused'
  BY <1>12 DEF DeleteUser
<1>13. CASE UNCHANGED vars
  BY <1>13 DEF vars
<1> QED
  BY <1>1, <1>2, <1>3, <1>4, <1>5, <1>6, <1>7, <1>8, <1>9, <1>10, <1>11, <1>12, <1>13
  DEF Next

\* Links lead to rows that were inserted.
LEMMA StepInserted == RInv /\ [Next]_vars => Inserted'
<1> SUFFICES ASSUME RInv, [Next]_vars PROVE Inserted' OBVIOUS
<1> USE MaxTokensAssumption, UsersAssumption
    DEF RInv, TypeOK, TableOK, CallsOK, HistoryOK, Ids, NoId, table, calls, history, Goto, Return, Hold, CallsKnow, Knows, Inserted
<1>1. ASSUME NEW c \in Calls, NEW u \in Users, BeginLogin(c, u) PROVE Inserted'
  BY <1>1 DEF BeginLogin
<1>2. ASSUME NEW c \in Calls, NEW t \in Ids, BeginRefresh(c, t) PROVE Inserted'
  BY <1>2 DEF BeginRefresh, Present, IsActive
<1>3. ASSUME NEW c \in Calls, NEW t \in Ids, BeginLogout(c, t) PROVE Inserted'
  BY <1>3 DEF BeginLogout, Present
<1>4. ASSUME NEW c \in Calls, RevokeFamilyDescendants(c) PROVE Inserted'
  BY <1>4 DEF RevokeFamilyDescendants, Family
<1>5. ASSUME NEW c \in Calls, CheckUser(c) PROVE Inserted'
  BY <1>5 DEF CheckUser
<1>6. ASSUME NEW c \in Calls, CreateToken(c) PROVE Inserted'
  BY <1>6 DEF CreateToken
<1>7. ASSUME NEW c \in Calls, CreateRefused(c) \/ CallEnds(c) PROVE Inserted'
  BY <1>7 DEF CreateRefused, CallEnds
<1>8. ASSUME NEW c \in Calls, RevokeOld(c) PROVE Inserted'
  <2>1. fresh[c] \in 1 .. inserted /\ UNCHANGED <<inserted, parent>>
    BY <1>8 DEF RevokeOld
  <2>2. \A i \in Ids : replacedBy'[i] = replacedBy[i] \/ replacedBy'[i] = fresh[c]
    BY <1>8 DEF RevokeOld
  <2> QED
    BY <2>1, <2>2
<1>9. ASSUME NEW c \in Calls, Respond(c) PROVE Inserted'
  BY <1>9 DEF Respond
<1>10. ASSUME NEW c \in Calls, RevokeOnly(c) PROVE Inserted'
  BY <1>10 DEF RevokeOnly
<1>11. ASSUME NEW i \in Ids, TokenExpires(i) PROVE Inserted'
  BY <1>11 DEF TokenExpires
<1>12. ASSUME NEW u \in Users, DeleteUser(u) PROVE Inserted'
  BY <1>12 DEF DeleteUser
<1>13. CASE UNCHANGED vars
  BY <1>13 DEF vars
<1> QED
  BY <1>1, <1>2, <1>3, <1>4, <1>5, <1>6, <1>7, <1>8, <1>9, <1>10, <1>11, <1>12, <1>13
  DEF Next

\* The rotation chains stay sound.
LEMMA StepChains == RInv /\ [Next]_vars => ChainsAreSound'
<1> SUFFICES ASSUME RInv, [Next]_vars PROVE ChainsAreSound' OBVIOUS
<1> USE MaxTokensAssumption, UsersAssumption
    DEF RInv, TypeOK, TableOK, CallsOK, HistoryOK, Ids, NoId, table, calls, history, Goto, Return, Hold, CallsKnow, Knows, Unused, Inserted, ChainsAreSound
<1>1. ASSUME NEW c \in Calls, NEW u \in Users, BeginLogin(c, u) PROVE ChainsAreSound'
  BY <1>1 DEF BeginLogin
<1>2. ASSUME NEW c \in Calls, NEW t \in Ids, BeginRefresh(c, t) PROVE ChainsAreSound'
  BY <1>2 DEF BeginRefresh, Present, IsActive
<1>3. ASSUME NEW c \in Calls, NEW t \in Ids, BeginLogout(c, t) PROVE ChainsAreSound'
  BY <1>3 DEF BeginLogout, Present
<1>4. ASSUME NEW c \in Calls, RevokeFamilyDescendants(c) PROVE ChainsAreSound'
  BY <1>4 DEF RevokeFamilyDescendants, Family
<1>5. ASSUME NEW c \in Calls, CheckUser(c) PROVE ChainsAreSound'
  BY <1>5 DEF CheckUser
<1>6. ASSUME NEW c \in Calls, CreateToken(c) PROVE ChainsAreSound'
  BY <1>6 DEF CreateToken
<1>7. ASSUME NEW c \in Calls, CreateRefused(c) \/ CallEnds(c) PROVE ChainsAreSound'
  BY <1>7 DEF CreateRefused, CallEnds
<1>8. ASSUME NEW c \in Calls, RevokeOld(c) PROVE ChainsAreSound'
  <2> DEFINE t == tok[c]
  <2>1. UNCHANGED <<parent, session>>
    BY <1>8 DEF RevokeOld
  <2>2. CASE UNCHANGED <<revoked, replacedBy>>
    BY <2>1, <2>2
  <2>3. CASE revoked' = revoked \cup {t}
             /\ replacedBy' = [replacedBy EXCEPT ![t] = fresh[c]]
    <3>1. /\ t \in Ids /\ fresh[c] > t /\ parent[fresh[c]] = t
          /\ session[fresh[c]] = session[t]
      BY <1>8 DEF RevokeOld
    <3>2. \A i \in Ids : replacedBy'[i] = IF i = t THEN fresh[c] ELSE replacedBy[i]
      BY <2>3
    <3> QED
      BY <2>1, <2>3, <3>1, <3>2
  <2> QED
    BY <1>8, <2>2, <2>3 DEF RevokeOld
<1>9. ASSUME NEW c \in Calls, Respond(c) PROVE ChainsAreSound'
  BY <1>9 DEF Respond
<1>10. ASSUME NEW c \in Calls, RevokeOnly(c) PROVE ChainsAreSound'
  BY <1>10 DEF RevokeOnly
<1>11. ASSUME NEW i \in Ids, TokenExpires(i) PROVE ChainsAreSound'
  BY <1>11 DEF TokenExpires
<1>12. ASSUME NEW u \in Users, DeleteUser(u) PROVE ChainsAreSound'
  BY <1>12 DEF DeleteUser
<1>13. CASE UNCHANGED vars
  BY <1>13 DEF vars
<1> QED
  BY <1>1, <1>2, <1>3, <1>4, <1>5, <1>6, <1>7, <1>8, <1>9, <1>10, <1>11, <1>12, <1>13
  DEF Next

\* The parent of a token that was handed out stays retired.
LEMMA StepRetires == RInv /\ [Next]_vars => RefreshRetiresOld'
<1> SUFFICES ASSUME RInv, [Next]_vars PROVE RefreshRetiresOld' OBVIOUS
<1> USE MaxTokensAssumption, UsersAssumption
    DEF RInv, TypeOK, TableOK, CallsOK, HistoryOK, Ids, NoId, table, calls, history, Goto, Return, Hold, CallsKnow, Knows, Inserted, RefreshRetiresOld, Row
<1>1. ASSUME NEW c \in Calls, NEW u \in Users, BeginLogin(c, u) PROVE RefreshRetiresOld'
  BY <1>1 DEF BeginLogin
<1>2. ASSUME NEW c \in Calls, NEW t \in Ids, BeginRefresh(c, t) PROVE RefreshRetiresOld'
  BY <1>2 DEF BeginRefresh, Present, IsActive
<1>3. ASSUME NEW c \in Calls, NEW t \in Ids, BeginLogout(c, t) PROVE RefreshRetiresOld'
  BY <1>3 DEF BeginLogout, Present
<1>4. ASSUME NEW c \in Calls, RevokeFamilyDescendants(c) PROVE RefreshRetiresOld'
  BY <1>4 DEF RevokeFamilyDescendants, Family
<1>5. ASSUME NEW c \in Calls, CheckUser(c) PROVE RefreshRetiresOld'
  BY <1>5 DEF CheckUser
<1>6. ASSUME NEW c \in Calls, CreateToken(c) PROVE RefreshRetiresOld'
  BY <1>6 DEF CreateToken
<1>7. ASSUME NEW c \in Calls, CreateRefused(c) \/ CallEnds(c) PROVE RefreshRetiresOld'
  BY <1>7 DEF CreateRefused, CallEnds
<1>8. ASSUME NEW c \in Calls, RevokeOld(c) PROVE RefreshRetiresOld'
  BY <1>8 DEF RevokeOld
<1>9. ASSUME NEW c \in Calls, Respond(c) PROVE RefreshRetiresOld'
  <2>1. /\ UNCHANGED <<owner, parent, revoked>>
        /\ issued' = issued \cup {fresh[c]}
    BY <1>9 DEF Respond
  <2>2. parent[fresh[c]] # NoId => ~Row(parent[fresh[c]]) \/ parent[fresh[c]] \in revoked
    BY <1>9 DEF Respond
  <2> QED
    BY <2>1, <2>2
<1>10. ASSUME NEW c \in Calls, RevokeOnly(c) PROVE RefreshRetiresOld'
  BY <1>10 DEF RevokeOnly
<1>11. ASSUME NEW i \in Ids, TokenExpires(i) PROVE RefreshRetiresOld'
  BY <1>11 DEF TokenExpires
<1>12. ASSUME NEW u \in Users, DeleteUser(u) PROVE RefreshRetiresOld'
  BY <1>12 DEF DeleteUser
<1>13. CASE UNCHANGED vars
  BY <1>13 DEF vars
<1> QED
  BY <1>1, <1>2, <1>3, <1>4, <1>5, <1>6, <1>7, <1>8, <1>9, <1>10, <1>11, <1>12, <1>13
  DEF Next
-----------------------------------------------------------------------------
THEOREM RotationInvariance == Spec => []RInv
<1>1. RInv /\ [Next]_vars => RInv'
  BY StepTable, StepCallsType, StepHistory, StepCalls, StepUnused, StepInserted,
     StepChains, StepRetires
  DEF RInv, TypeOK
<1> QED
  BY RInit, <1>1, PTL DEF Spec

\* The rows, the calls and the history keep their types.
THEOREM RotationTypes == Spec => []TypeOK
BY RotationInvariance, PTL DEF RInv

\* However Refresh calls interleave and fail, the links that
\* RevokeFamilyDescendants follows lead from revoked tokens to younger tokens of
\* the same session: its recursive query always ends.
THEOREM SoundChains == Spec => []ChainsAreSound
BY RotationInvariance, PTL DEF RInv

\* A client given a new token by Service.Refresh holds an old one that is revoked.
THEOREM OldTokenRetired == Spec => []RefreshRetiresOld
BY RotationInvariance, PTL DEF RInv

\* Revoke never rewrites a link (its "AND revoked_at IS NULL").
THEOREM FinalLinks == Spec => LinksAreFinal
<1> DEFINE Final == \A i \in Ids : replacedBy[i] # NoId => replacedBy'[i] = replacedBy[i]
<1>1. RInv /\ [Next]_vars => Final
  <2> SUFFICES ASSUME RInv, [Next]_vars, NEW i \in Ids, replacedBy[i] # NoId
               PROVE  replacedBy'[i] = replacedBy[i]
    OBVIOUS
  <2>1. i \in revoked
    BY DEF RInv, ChainsAreSound
  <2>2. ASSUME NEW c \in Calls, RevokeOld(c) PROVE replacedBy'[i] = replacedBy[i]
    BY <2>1, <2>2 DEF RevokeOld, RInv, TypeOK, TableOK
  <2>3. ASSUME NEW c \in Calls, ~RevokeOld(c),
               \/ \E u \in Users : BeginLogin(c, u)
               \/ \E t \in Ids : BeginRefresh(c, t) \/ BeginLogout(c, t)
               \/ RevokeFamilyDescendants(c) \/ CheckUser(c)
               \/ CreateToken(c) \/ CreateRefused(c)
               \/ Respond(c) \/ RevokeOnly(c) \/ CallEnds(c)
        PROVE  UNCHANGED replacedBy
    BY <2>3 DEF BeginLogin, BeginRefresh, BeginLogout, RevokeFamilyDescendants, CheckUser,
       CreateToken, CreateRefused, Respond, RevokeOnly, CallEnds, table
  <2>4. ASSUME NEW j \in Ids, TokenExpires(j) PROVE UNCHANGED replacedBy
    BY <2>4 DEF TokenExpires
  <2>5. ASSUME NEW u \in Users, DeleteUser(u) PROVE UNCHANGED replacedBy
    BY <2>5 DEF DeleteUser
  <2> QED
    BY <2>2, <2>3, <2>4, <2>5 DEF Next, vars
<1>2. [][Final]_vars => LinksAreFinal
  BY PTL DEF LinksAreFinal
<1> QED
  BY RotationInvariance, <1>1, <1>2, PTL DEF Spec

\* The family of a token lies within its session: the set of rows of a session
\* is closed under the links.
LEMMA FamilyWithinSession ==
  ASSUME RInv, NEW t \in Ids, NEW i \in Family(t)
  PROVE  i \in Ids /\ session[i] = session[t]
<1> DEFINE S == {x \in Ids : session[x] = session[t]}
<1>1. S \in SUBSET Ids /\ t \in S
  OBVIOUS
<1>2. Closed(S)
  BY DEF Closed, RInv, ChainsAreSound, NoId, Ids
<1> QED
  BY <1>1, <1>2 DEF Family

\* No step of Login, Refresh or Logout revokes a token of a session other than
\* the one its call was presented a token of.
THEOREM SessionsIndependent == Spec => OnlyOwnSession
<1> DEFINE Own == \A i \in revoked' \ revoked :
             \E c \in Calls : tok[c] # NoId /\ session[tok[c]] = session[i]
<1>1. RInv /\ [Next]_vars => Own
  <2> SUFFICES ASSUME RInv, [Next]_vars, NEW i \in revoked' \ revoked
               PROVE  \E c \in Calls : tok[c] # NoId /\ session[tok[c]] = session[i]
    OBVIOUS
  <2>1. ASSUME NEW c \in Calls, RevokeFamilyDescendants(c)
        PROVE  tok[c] # NoId /\ session[tok[c]] = session[i]
    <3>1. tok[c] \in 1 .. inserted /\ inserted \in 0 .. MaxTokens
      BY <2>1 DEF RevokeFamilyDescendants, RInv, TypeOK, TableOK, CallsKnow, Knows
    <3>2. tok[c] \in Ids
      BY <3>1, MaxTokensAssumption DEF Ids
    <3>3. i \in Family(tok[c])
      BY <2>1 DEF RevokeFamilyDescendants
    <3> QED
      BY <3>2, <3>3, FamilyWithinSession, IdsAreNumbers
  <2>2. ASSUME NEW c \in Calls, RevokeOld(c) \/ RevokeOnly(c)
        PROVE  tok[c] # NoId /\ i = tok[c]
    BY <2>2 DEF RevokeOld, RevokeOnly, RInv, CallsKnow, Knows, NoId
  <2>3. ASSUME NEW c \in Calls,
               \/ \E u \in Users : BeginLogin(c, u)
               \/ \E t \in Ids : BeginRefresh(c, t) \/ BeginLogout(c, t)
               \/ CheckUser(c) \/ CreateToken(c) \/ CreateRefused(c)
               \/ Respond(c) \/ CallEnds(c)
        PROVE  UNCHANGED revoked
    BY <2>3 DEF BeginLogin, BeginRefresh, BeginLogout, CheckUser,
       CreateToken, CreateRefused, Respond, CallEnds, table
  <2>4. ASSUME NEW j \in Ids, TokenExpires(j) PROVE UNCHANGED revoked
    BY <2>4 DEF TokenExpires
  <2>5. ASSUME NEW u \in Users, DeleteUser(u) PROVE UNCHANGED revoked
    BY <2>5 DEF DeleteUser
  <2> QED
    BY <2>1, <2>2, <2>3, <2>4, <2>5 DEF Next, vars
<1>2. [][Own]_vars => OnlyOwnSession
  BY PTL DEF OnlyOwnSession
<1> QED
  BY RotationInvariance, <1>1, <1>2, PTL DEF Spec

\* No step of Login, Refresh or Logout reaches another session or changes the
\* history of a chain.
THEOREM SoundSteps == Spec => StepsAreSound
BY FinalLinks, SessionsIndependent DEF StepsAreSound

-----------------------------------------------------------------------------
(* Sessions whose calls do not overlap. The last token of such a session is  *)
(* reached from every other one that was issued in it, which is revoked; and *)
(* there is none once a reuse was detected or a logout acted.                *)

\* The call works on a token that it was presented.
Busy(c) == pc[c] # "idle" /\ tok[c] # NoId

Creates(c) == pc[c] \in {"retire", "respond"}

\* The tokens of a session are of one user.
Owners ==
  /\ \A i, j \in 1 .. inserted : session[i] = session[j] => owner[i] = owner[j]
  /\ \A i \in Ids : owner[i] \in users \cup {NoUser}
  /\ \A c \in Calls : Busy(c) /\ who[c] \in users => owner[tok[c]] = who[c]

Sessions ==
  /\ \A i \in 1 .. inserted : session[i] \in 1 .. inserted
  /\ reused \cup closed \subseteq 1 .. inserted

\* A token that a call created is its own until it is handed out; that of a
\* login is alone in its session.
FreshKnown ==
  \A c \in Calls :
    /\ pc[c] = "idle" => tok[c] = NoId
    /\ Busy(c) => tok[c] \in issued
    /\ Creates(c) =>
         /\ fresh[c] \in 1 .. inserted /\ fresh[c] \notin issued
         /\ tok[c] # NoId => session[fresh[c]] = session[tok[c]]
         /\ tok[c] = NoId =>
              \A j \in 1 .. inserted : j # fresh[c] => session[j] # session[fresh[c]]

FreshOwn == \A c, d \in Calls : c # d /\ Creates(c) /\ Creates(d) => fresh[c] # fresh[d]

Overlapping ==
  \A c, d \in Calls : c # d /\ Busy(c) /\ Busy(d) /\ session[tok[c]] = session[tok[d]]
    => session[tok[c]] \in contended

\* What a call found active, or created, is not revoked before it says so.
Alive ==
  \A c \in Calls :
    /\ Creates(c) /\ session[fresh[c]] \notin contended => fresh[c] \notin revoked
    /\ pc[c] \in {"user", "create", "retire", "logout", "revoke"} /\ tok[c] # NoId
       /\ session[tok[c]] \notin contended => tok[c] \notin revoked
    /\ pc[c] = "reuse" => tok[c] \in revoked

\* A token that clients have, or are about to, and may use until it expires.
Head(x) ==
  /\ Row(x) /\ x \notin revoked
  /\ x \in issued \/ \E c \in Calls : pc[c] = "respond" /\ fresh[c] = x

\* Every other token of its session leads to it, and the session goes on.
Last(x) ==
  /\ session[x] \notin reused \cup closed
  /\ \A j \in issued : j # x /\ session[j] = session[x] =>
       j \in revoked /\ replacedBy[j] \in issued \cup {x}

HeadIsLast == \A x \in Ids : Head(x) /\ session[x] \notin contended => Last(x)

SInv ==
  /\ RInv /\ Owners /\ Sessions /\ FreshKnown /\ FreshOwn /\ Overlapping /\ Alive
  /\ HeadIsLast

LEMMA SInit == Init => SInv
<1> SUFFICES ASSUME Init PROVE SInv OBVIOUS
<1>1. RInv
  BY RInit
<1>2. inserted = 0 /\ issued = {} /\ \A c \in Calls : pc[c] = "idle"
  BY DEF Init
<1>3. Owners /\ Sessions
  BY <1>2, MaxTokensAssumption DEF Init, Owners, Sessions, Busy
<1>4. FreshKnown /\ FreshOwn /\ Overlapping /\ Alive
  BY <1>2 DEF Init, FreshKnown, FreshOwn, Overlapping, Alive, Busy, Creates
<1>5. HeadIsLast
  BY <1>2 DEF HeadIsLast, Head
<1> QED
  BY <1>1, <1>3, <1>4, <1>5 DEF SInv

LEMMA Facts ==
  ASSUME SInv
  PROVE  /\ inserted \in Nat /\ MaxTokens \in Nat /\ 1 .. inserted \subseteq Ids
         /\ issued \subseteq 1 .. inserted
         /\ \A c \in Calls : /\ tok[c] # NoId => tok[c] \in 1 .. inserted /\ tok[c] \in Ids
                             /\ pc[c] = "idle" => tok[c] = NoId
BY MaxTokensAssumption DEF SInv, RInv, TypeOK, TableOK, CallsKnow, Knows, FreshKnown, Ids, NoId

\* A new row, of the user its call acts for, in the session its call works on.
LEMMA NewRow ==
  ASSUME SInv, NEW c \in Calls, CreateToken(c)
  PROVE  /\ UNCHANGED <<users, revoked, replacedBy, issued, tok, who, contended, reused, closed>>
         /\ inserted' = inserted + 1 /\ inserted + 1 \in Ids
         /\ pc[c] = "create" /\ who[c] \in users
         /\ \A d \in Calls : IF d = c THEN fresh'[d] = inserted + 1 /\ Creates(d)' /\ pc'[d] # "idle"
                                        /\ pc'[d] = IF tok[d] = NoId THEN "respond" ELSE "retire"
                            ELSE fresh'[d] = fresh[d] /\ pc'[d] = pc[d]
         /\ \A j \in Ids : j # inserted + 1 => owner'[j] = owner[j] /\ session'[j] = session[j]
         /\ owner'[inserted + 1] = who[c]
         /\ session'[inserted + 1] = IF tok[c] = NoId THEN inserted + 1 ELSE session[tok[c]]
<1> USE DEF SInv, RInv, TypeOK, TableOK, CallsOK, HistoryOK
<1>1. inserted + 1 \in Ids /\ inserted' = inserted + 1
  BY MaxTokensAssumption DEF CreateToken, Ids
<1>2. /\ UNCHANGED <<users, revoked, replacedBy, issued, tok, who, contended, reused, closed>>
      /\ pc[c] = "create" /\ who[c] \in users
  BY DEF CreateToken
<1>3. \A d \in Calls : IF d = c THEN fresh'[d] = inserted + 1 /\ Creates(d)' /\ pc'[d] # "idle"
                                  /\ pc'[d] = IF tok[d] = NoId THEN "respond" ELSE "retire"
                      ELSE fresh'[d] = fresh[d] /\ pc'[d] = pc[d]
  BY DEF CreateToken, Creates
<1>4. /\ owner'[inserted + 1] = who[c]
      /\ \A j \in Ids : j # inserted + 1 => owner'[j] = owner[j]
  BY <1>1 DEF CreateToken
<1>5. /\ session'[inserted + 1] = IF tok[c] = NoId THEN inserted + 1 ELSE session[tok[c]]
      /\ \A j \in Ids : j # inserted + 1 => session'[j] = session[j]
  BY <1>1 DEF CreateToken
<1> QED
  BY <1>1, <1>2, <1>3, <1>4, <1>5

\* Sessions are named by the login's token.
LEMMA StepSessions == SInv /\ [Next]_vars => Sessions'
<1> SUFFICES ASSUME SInv, [Next]_vars PROVE Sessions' OBVIOUS
<1> USE MaxTokensAssumption, UsersAssumption, Facts
    DEF SInv, RInv, TypeOK, TableOK, CallsOK, HistoryOK, Sessions, CallsKnow, Knows, table, calls, history, Goto, Return, Hold, NoId
<1>1. ASSUME NEW c \in Calls, NEW u \in Users, BeginLogin(c, u) PROVE Sessions'
  BY <1>1 DEF BeginLogin
<1>2. ASSUME NEW c \in Calls, NEW t \in Ids, BeginRefresh(c, t) PROVE Sessions'
  BY <1>2 DEF BeginRefresh, Present, IsActive
<1>3. ASSUME NEW c \in Calls, NEW t \in Ids, BeginLogout(c, t) PROVE Sessions'
  BY <1>3 DEF BeginLogout, Present
<1>4. ASSUME NEW c \in Calls, RevokeFamilyDescendants(c) PROVE Sessions'
  BY <1>4 DEF RevokeFamilyDescendants
<1>5. ASSUME NEW c \in Calls, CheckUser(c) PROVE Sessions'
  BY <1>5 DEF CheckUser
<1>6. ASSUME NEW c \in Calls, CreateToken(c) PROVE Sessions'
  BY <1>6, NewRow
<1>7. ASSUME NEW c \in Calls, CreateRefused(c) \/ CallEnds(c) PROVE Sessions'
  BY <1>7 DEF CreateRefused, CallEnds
<1>8. ASSUME NEW c \in Calls, RevokeOld(c) PROVE Sessions'
  BY <1>8 DEF RevokeOld
<1>9. ASSUME NEW c \in Calls, Respond(c) PROVE Sessions'
  BY <1>9 DEF Respond
<1>10. ASSUME NEW c \in Calls, RevokeOnly(c) PROVE Sessions'
  BY <1>10 DEF RevokeOnly
<1>11. ASSUME NEW i \in Ids, TokenExpires(i) PROVE Sessions'
  BY <1>11 DEF TokenExpires
<1>12. ASSUME NEW u \in Users, DeleteUser(u) PROVE Sessions'
  BY <1>12 DEF DeleteUser
<1>13. CASE UNCHANGED vars
  BY <1>13 DEF vars
<1> QED
  BY <1>1, <1>2, <1>3, <1>4, <1>5, <1>6, <1>7, <1>8, <1>9, <1>10, <1>11, <1>12, <1>13
  DEF Next

\* A session stays with its user.
LEMMA StepOwners == SInv /\ [Next]_vars => Owners'
<1> SUFFICES ASSUME SInv, [Next]_vars PROVE Owners' OBVIOUS
<1> USE MaxTokensAssumption, UsersAssumption, Facts
    DEF SInv, RInv, TypeOK, TableOK, CallsOK, HistoryOK, Owners, Sessions, Busy, Row, CallsKnow, Knows, table, calls, history, Goto, Return, Hold, NoId
<1>1. ASSUME NEW c \in Calls, NEW u \in Users, BeginLogin(c, u) PROVE Owners'
  BY <1>1 DEF BeginLogin
<1>2. ASSUME NEW c \in Calls, NEW t \in Ids, BeginRefresh(c, t) PROVE Owners'
  BY <1>2 DEF BeginRefresh, Present, IsActive
<1>3. ASSUME NEW c \in Calls, NEW t \in Ids, BeginLogout(c, t) PROVE Owners'
  BY <1>3 DEF BeginLogout, Present
<1>4. ASSUME NEW c \in Calls, RevokeFamilyDescendants(c) PROVE Owners'
  BY <1>4 DEF RevokeFamilyDescendants
<1>5. ASSUME NEW c \in Calls, CheckUser(c) PROVE Owners'
  BY <1>5 DEF CheckUser
<1>6. ASSUME NEW c \in Calls, CreateToken(c) PROVE Owners'
  <2>1. \A j \in 1 .. inserted : j \in Ids /\ j # inserted + 1
    OBVIOUS
  <2>2. \A j \in 1 .. inserted : session'[inserted + 1] = session[j] => owner[j] = who[c]
    BY <1>6, <2>1, NewRow
  <2>3. \A j, k \in 1 .. inserted' : session'[j] = session'[k] => owner'[j] = owner'[k]
    BY <1>6, <2>1, <2>2, NewRow
  <2>4. \A j \in Ids : owner'[j] \in users' \cup {NoUser}
    BY <1>6, NewRow
  <2>5. \A d \in Calls : Busy(d)' /\ who'[d] \in users' => owner'[tok'[d]] = who'[d]
    BY <1>6, <2>1, NewRow
  <2> QED
    BY <2>3, <2>4, <2>5
<1>7. ASSUME NEW c \in Calls, CreateRefused(c) \/ CallEnds(c) PROVE Owners'
  BY <1>7 DEF CreateRefused, CallEnds
<1>8. ASSUME NEW c \in Calls, RevokeOld(c) PROVE Owners'
  BY <1>8 DEF RevokeOld
<1>9. ASSUME NEW c \in Calls, Respond(c) PROVE Owners'
  BY <1>9 DEF Respond
<1>10. ASSUME NEW c \in Calls, RevokeOnly(c) PROVE Owners'
  BY <1>10 DEF RevokeOnly
<1>11. ASSUME NEW i \in Ids, TokenExpires(i) PROVE Owners'
  BY <1>11 DEF TokenExpires
<1>12. ASSUME NEW u \in Users, DeleteUser(u) PROVE Owners'
  BY <1>12 DEF DeleteUser
<1>13. CASE UNCHANGED vars
  BY <1>13 DEF vars
<1> QED
  BY <1>1, <1>2, <1>3, <1>4, <1>5, <1>6, <1>7, <1>8, <1>9, <1>10, <1>11, <1>12, <1>13
  DEF Next

\* A created token stays with its call until it is handed out.
LEMMA StepFresh == SInv /\ [Next]_vars => FreshKnown'
<1> SUFFICES ASSUME SInv, [Next]_vars PROVE FreshKnown' OBVIOUS
<1> USE MaxTokensAssumption, UsersAssumption, Facts
    DEF SInv, RInv, TypeOK, TableOK, CallsOK, HistoryOK, FreshKnown, FreshOwn, Sessions, Busy, Creates, CallsKnow, Knows, table, calls, history, Goto, Return, Hold, NoId
<1>1. ASSUME NEW c \in Calls, NEW u \in Users, BeginLogin(c, u) PROVE FreshKnown'
  BY <1>1 DEF BeginLogin
<1>2. ASSUME NEW c \in Calls, NEW t \in Ids, BeginRefresh(c, t) PROVE FreshKnown'
  BY <1>2 DEF BeginRefresh, Present, IsActive
<1>3. ASSUME NEW c \in Calls, NEW t \in Ids, BeginLogout(c, t) PROVE FreshKnown'
  BY <1>3 DEF BeginLogout, Present
<1>4. ASSUME NEW c \in Calls, RevokeFamilyDescendants(c) PROVE FreshKnown'
  BY <1>4 DEF RevokeFamilyDescendants
<1>5. ASSUME NEW c \in Calls, CheckUser(c) PROVE FreshKnown'
  BY <1>5 DEF CheckUser
<1>6. ASSUME NEW c \in Calls, CreateToken(c) PROVE FreshKnown'
  <2>1. \A j \in 1 .. inserted : j \in Ids /\ j # inserted + 1
    OBVIOUS
  <2>2. ASSUME NEW d \in Calls, d # c, Creates(d)
        PROVE  /\ fresh'[d] \in 1 .. inserted' /\ fresh'[d] \notin issued'
               /\ tok'[d] # NoId => session'[fresh'[d]] = session'[tok'[d]]
               /\ tok'[d] = NoId =>
                    \A j \in 1 .. inserted' : j # fresh'[d] => session'[j] # session'[fresh'[d]]
    <3>1. /\ fresh'[d] = fresh[d] /\ tok'[d] = tok[d] /\ fresh[d] \in 1 .. inserted
          /\ session'[fresh[d]] = session[fresh[d]] /\ fresh[d] \notin issued
          /\ inserted' = inserted + 1 /\ issued' = issued
      BY <1>6, <2>1, <2>2, NewRow
    <3>2. tok[d] # NoId => session'[fresh[d]] = session'[tok[d]]
      BY <1>6, <2>1, <2>2, <3>1, NewRow
    <3>3. ASSUME tok[d] = NoId PROVE session'[inserted + 1] # session[fresh[d]]
      BY <1>6, <2>1, <2>2, <3>1, <3>3, NewRow
    <3>4. ASSUME tok[d] = NoId, NEW j \in 1 .. inserted, j # fresh[d] PROVE session'[j] # session[fresh[d]]
      BY <1>6, <2>1, <2>2, <3>4, NewRow
    <3> QED
      BY <3>1, <3>2, <3>3, <3>4
  <2>3. /\ fresh'[c] \in 1 .. inserted' /\ fresh'[c] \notin issued'
        /\ tok'[c] # NoId => session'[fresh'[c]] = session'[tok'[c]]
    BY <1>6, <2>1, NewRow
  <2>4. tok'[c] = NoId => \A j \in 1 .. inserted' : j # fresh'[c] => session'[j] # session'[fresh'[c]]
    BY <1>6, <2>1, NewRow
  <2>5. ASSUME NEW d \in Calls
        PROVE  (pc'[d] = "idle" => tok'[d] = NoId) /\ (Busy(d)' => tok'[d] \in issued')
    BY <1>6, NewRow
  <2>6. \A d \in Calls : Creates(d)' => d = c \/ Creates(d)
    BY <1>6, NewRow
  <2> QED
    BY <2>2, <2>3, <2>4, <2>5, <2>6
<1>7. ASSUME NEW c \in Calls, CreateRefused(c) \/ CallEnds(c) PROVE FreshKnown'
  BY <1>7 DEF CreateRefused, CallEnds
<1>8. ASSUME NEW c \in Calls, RevokeOld(c) PROVE FreshKnown'
  BY <1>8 DEF RevokeOld
<1>9. ASSUME NEW c \in Calls, Respond(c) PROVE FreshKnown'
  BY <1>9 DEF Respond
<1>10. ASSUME NEW c \in Calls, RevokeOnly(c) PROVE FreshKnown'
  BY <1>10 DEF RevokeOnly
<1>11. ASSUME NEW i \in Ids, TokenExpires(i) PROVE FreshKnown'
  BY <1>11 DEF TokenExpires
<1>12. ASSUME NEW u \in Users, DeleteUser(u) PROVE FreshKnown'
  BY <1>12 DEF DeleteUser
<1>13. CASE UNCHANGED vars
  BY <1>13 DEF vars
<1> QED
  BY <1>1, <1>2, <1>3, <1>4, <1>5, <1>6, <1>7, <1>8, <1>9, <1>10, <1>11, <1>12, <1>13
  DEF Next

\* Two calls never create one token.
LEMMA StepOwn == SInv /\ [Next]_vars => FreshOwn'
<1> SUFFICES ASSUME SInv, [Next]_vars PROVE FreshOwn' OBVIOUS
<1> USE MaxTokensAssumption, UsersAssumption, Facts
    DEF SInv, RInv, TypeOK, TableOK, CallsOK, HistoryOK, FreshKnown, FreshOwn, Creates, table, calls, history, Goto, Return, Hold, NoId
<1>1. ASSUME NEW c \in Calls, NEW u \in Users, BeginLogin(c, u) PROVE FreshOwn'
  BY <1>1 DEF BeginLogin
<1>2. ASSUME NEW c \in Calls, NEW t \in Ids, BeginRefresh(c, t) PROVE FreshOwn'
  BY <1>2 DEF BeginRefresh, Present, IsActive
<1>3. ASSUME NEW c \in Calls, NEW t \in Ids, BeginLogout(c, t) PROVE FreshOwn'
  BY <1>3 DEF BeginLogout, Present
<1>4. ASSUME NEW c \in Calls, RevokeFamilyDescendants(c) PROVE FreshOwn'
  BY <1>4 DEF RevokeFamilyDescendants
<1>5. ASSUME NEW c \in Calls, CheckUser(c) PROVE FreshOwn'
  BY <1>5 DEF CheckUser
<1>6. ASSUME NEW c \in Calls, CreateToken(c) PROVE FreshOwn'
  BY <1>6 DEF CreateToken
<1>7. ASSUME NEW c \in Calls, CreateRefused(c) \/ CallEnds(c) PROVE FreshOwn'
  BY <1>7 DEF CreateRefused, CallEnds
<1>8. ASSUME NEW c \in Calls, RevokeOld(c) PROVE FreshOwn'
  BY <1>8 DEF RevokeOld
<1>9. ASSUME NEW c \in Calls, Respond(c) PROVE FreshOwn'
  BY <1>9 DEF Respond
<1>10. ASSUME NEW c \in Calls, RevokeOnly(c) PROVE FreshOwn'
  BY <1>10 DEF RevokeOnly
<1>11. ASSUME NEW i \in Ids, TokenExpires(i) PROVE FreshOwn'
  BY <1>11 DEF TokenExpires
<1>12. ASSUME NEW u \in Users, DeleteUser(u) PROVE FreshOwn'
  BY <1>12 DEF DeleteUser
<1>13. CASE UNCHANGED vars
  BY <1>13 DEF vars
<1> QED
  BY <1>1, <1>2, <1>3, <1>4, <1>5, <1>6, <1>7, <1>8, <1>9, <1>10, <1>11, <1>12, <1>13
  DEF Next

\* Calls that overlap leave their session contended.
LEMMA StepOverlapping == SInv /\ [Next]_vars => Overlapping'
<1> SUFFICES ASSUME SInv, [Next]_vars PROVE Overlapping' OBVIOUS
<1> USE MaxTokensAssumption, UsersAssumption, Facts
    DEF SInv, RInv, TypeOK, TableOK, CallsOK, HistoryOK, Overlapping, Busy, Overlaps, FreshKnown, table, calls, history, Goto, Return, Hold, NoId
<1>1. ASSUME NEW c \in Calls, NEW u \in Users, BeginLogin(c, u) PROVE Overlapping'
  BY <1>1 DEF BeginLogin
<1>2. ASSUME NEW c \in Calls, NEW t \in Ids, BeginRefresh(c, t) PROVE Overlapping'
  BY <1>2 DEF BeginRefresh, Present, IsActive
<1>3. ASSUME NEW c \in Calls, NEW t \in Ids, BeginLogout(c, t) PROVE Overlapping'
  BY <1>3 DEF BeginLogout, Present
<1>4. ASSUME NEW c \in Calls, RevokeFamilyDescendants(c) PROVE Overlapping'
  BY <1>4 DEF RevokeFamilyDescendants
<1>5. ASSUME NEW c \in Calls, CheckUser(c) PROVE Overlapping'
  BY <1>5 DEF CheckUser
<1>6. ASSUME NEW c \in Calls, CreateToken(c) PROVE Overlapping'
  BY <1>6 DEF CreateToken
<1>7. ASSUME NEW c \in Calls, CreateRefused(c) \/ CallEnds(c) PROVE Overlapping'
  BY <1>7 DEF CreateRefused, CallEnds
<1>8. ASSUME NEW c \in Calls, RevokeOld(c) PROVE Overlapping'
  BY <1>8 DEF RevokeOld
<1>9. ASSUME NEW c \in Calls, Respond(c) PROVE Overlapping'
  BY <1>9 DEF Respond
<1>10. ASSUME NEW c \in Calls, RevokeOnly(c) PROVE Overlapping'
  BY <1>10 DEF RevokeOnly
<1>11. ASSUME NEW i \in Ids, TokenExpires(i) PROVE Overlapping'
  BY <1>11 DEF TokenExpires
<1>12. ASSUME NEW u \in Users, DeleteUser(u) PROVE Overlapping'
  BY <1>12 DEF DeleteUser
<1>13. CASE UNCHANGED vars
  BY <1>13 DEF vars
<1> QED
  BY <1>1, <1>2, <1>3, <1>4, <1>5, <1>6, <1>7, <1>8, <1>9, <1>10, <1>11, <1>12, <1>13
  DEF Next

\* A call that works on a token of the session in which another one creates a
\* token overlaps it.
LEMMA Meets ==
  ASSUME SInv, NEW c \in Calls, NEW d \in Calls, c # d, Busy(c), Creates(d),
         session[fresh[d]] = session[tok[c]]
  PROVE  session[tok[c]] \in contended
<1>1. tok[c] \in issued /\ tok[c] \in 1 .. inserted /\ fresh[d] \notin issued
  BY Facts DEF SInv, FreshKnown, Busy
<1>2. tok[d] # NoId
  BY <1>1 DEF SInv, FreshKnown
<1>3. Busy(d) /\ session[tok[d]] = session[tok[c]]
  BY <1>2 DEF SInv, FreshKnown, Busy, Creates
<1> QED
  BY <1>3 DEF SInv, Overlapping

\* A call does not revoke what another one of its session counts on, unless
\* they overlap.
LEMMA RevokeSpares ==
  ASSUME SInv, NEW c \in Calls, Busy(c), NEW R,
         \A i \in R : i \in Ids /\ session[i] = session[tok[c]],
         revoked' = revoked \cup R
  PROVE  \A d \in Calls \ {c} :
           /\ Creates(d) /\ session[fresh[d]] \notin contended => fresh[d] \notin revoked'
           /\ pc[d] \in {"user", "create", "retire", "logout", "revoke"} /\ tok[d] # NoId
              /\ session[tok[d]] \notin contended => tok[d] \notin revoked'
           /\ pc[d] = "reuse" => tok[d] \in revoked'
<1> TAKE d \in Calls \ {c}
<1>1. ASSUME Creates(d), session[fresh[d]] \notin contended PROVE fresh[d] \notin revoked'
  <2>1. fresh[d] \notin revoked
    BY <1>1 DEF SInv, Alive
  <2>2. fresh[d] \notin R
    BY <1>1, Meets
  <2> QED
    BY <2>1, <2>2
<1>2. ASSUME pc[d] \in {"user", "create", "retire", "logout", "revoke"}, tok[d] # NoId,
             session[tok[d]] \notin contended
      PROVE  tok[d] \notin revoked'
  <2>1. tok[d] \notin revoked
    BY <1>2 DEF SInv, Alive
  <2>2. Busy(d)
    BY <1>2 DEF Busy
  <2>3. tok[d] \notin R
    BY <1>2, <2>2 DEF SInv, Overlapping
  <2> QED
    BY <2>1, <2>3
<1>3. pc[d] = "reuse" => tok[d] \in revoked'
  BY DEF SInv, Alive
<1> QED
  BY <1>1, <1>2, <1>3

\* What the three actions that revoke do.
LEMMA Revoking ==
  ASSUME SInv, NEW c \in Calls,
         RevokeFamilyDescendants(c) \/ RevokeOld(c) \/ RevokeOnly(c)
  PROVE  /\ Busy(c) /\ tok[c] \in Ids /\ tok[c] \in issued
         /\ UNCHANGED <<issued, session, contended, owner>>
         /\ \A d \in Calls \ {c} : /\ pc'[d] = pc[d] /\ tok'[d] = tok[d] /\ fresh'[d] = fresh[d]
         /\ \E R : /\ revoked' = revoked \cup R
                   /\ \A i \in R : i \in Ids /\ session[i] = session[tok[c]]
                   /\ R = {} \/ R = {tok[c]} \/ (pc[c] = "reuse" /\ R = Family(tok[c]))
<1> USE DEF SInv, RInv, TypeOK, TableOK, CallsOK
<1>1. Busy(c) /\ tok[c] \in Ids /\ tok[c] \in issued
  <2>1. pc[c] # "idle" /\ tok[c] \in 1 .. inserted
    BY DEF RevokeFamilyDescendants, RevokeOld, RevokeOnly, CallsKnow, Knows
  <2> QED
    BY <2>1, Facts, IdsAreNumbers DEF Busy, FreshKnown
<1>2. UNCHANGED <<issued, session, contended, owner>>
  BY DEF RevokeFamilyDescendants, RevokeOld, RevokeOnly, history
<1>3. \A d \in Calls \ {c} : /\ pc'[d] = pc[d] /\ tok'[d] = tok[d] /\ fresh'[d] = fresh[d]
  BY DEF RevokeFamilyDescendants, RevokeOld, RevokeOnly, Return, Goto
<1>4. CASE RevokeFamilyDescendants(c)
  <2>1. revoked' = revoked \cup Family(tok[c]) /\ pc[c] = "reuse"
    BY <1>4 DEF RevokeFamilyDescendants
  <2>2. \A i \in Family(tok[c]) : i \in Ids /\ session[i] = session[tok[c]]
    BY <1>1, FamilyWithinSession
  <2> QED
    BY <1>1, <1>2, <1>3, <2>1, <2>2
<1>5. CASE RevokeOld(c) \/ RevokeOnly(c)
  <2>1. revoked' = revoked \/ revoked' = revoked \cup {tok[c]}
    BY <1>5 DEF RevokeOld, RevokeOnly
  <2>2. CASE revoked' = revoked
    <3>1. revoked' = revoked \cup {}
      BY <2>2
    <3> QED
      BY <1>1, <1>2, <1>3, <3>1
  <2>3. CASE revoked' = revoked \cup {tok[c]}
    BY <1>1, <1>2, <1>3, <2>3
  <2> QED
    BY <2>1, <2>2, <2>3
<1> QED
  BY <1>4, <1>5

\* What a call found active or created stays so.
LEMMA StepAlive == SInv /\ [Next]_vars => Alive'
<1> SUFFICES ASSUME SInv, [Next]_vars PROVE Alive' OBVIOUS
<1>0. \A d \in Calls : /\ tok[d] # NoId => tok[d] \in 1 .. inserted /\ tok[d] \in Ids
                       /\ pc[d] = "idle" => tok[d] = NoId
  BY Facts
<1> USE Facts DEF SInv, RInv, TypeOK, TableOK, CallsOK, HistoryOK, table, calls, history, Goto, Return, Hold, Alive, Creates
<1>1. ASSUME NEW c \in Calls, NEW u \in Users, BeginLogin(c, u) PROVE Alive'
  <2>1. tok[c] = NoId /\ pc' = [pc EXCEPT ![c] = "create"]
    BY <1>0, <1>1 DEF BeginLogin
  <2>2. UNCHANGED <<tok, fresh, session, contended, revoked>>
    BY <1>1 DEF BeginLogin
  <2> QED
    BY <2>1, <2>2
<1>2. ASSUME NEW c \in Calls, NEW t \in Ids, BeginRefresh(c, t) PROVE Alive'
  BY <1>2 DEF BeginRefresh, Present, IsActive
<1>3. ASSUME NEW c \in Calls, NEW t \in Ids, BeginLogout(c, t) PROVE Alive'
  BY <1>3 DEF BeginLogout, Present
<1>4. ASSUME NEW c \in Calls, RevokeFamilyDescendants(c) PROVE Alive'
  <2>1. Busy(c) /\ tok[c] \in issued /\ UNCHANGED <<session, contended>>
        /\ \A d \in Calls \ {c} : pc'[d] = pc[d] /\ tok'[d] = tok[d] /\ fresh'[d] = fresh[d]
    BY <1>4, Revoking
  <2>2. PICK R : /\ revoked' = revoked \cup R
                 /\ \A i \in R : i \in Ids /\ session[i] = session[tok[c]]
    BY <1>4, Revoking
  <2>3. \A d \in Calls \ {c} :
           /\ Creates(d) /\ session[fresh[d]] \notin contended => fresh[d] \notin revoked'
           /\ pc[d] \in {"user", "create", "retire", "logout", "revoke"} /\ tok[d] # NoId
              /\ session[tok[d]] \notin contended => tok[d] \notin revoked'
           /\ pc[d] = "reuse" => tok[d] \in revoked'
    BY <2>1, <2>2, RevokeSpares
  <2>4. pc'[c] = "idle"
    BY <1>4 DEF RevokeFamilyDescendants
  <2> QED
    BY <2>1, <2>3, <2>4
<1>5. ASSUME NEW c \in Calls, CheckUser(c) PROVE Alive'
  BY <1>5 DEF CheckUser
<1>6. ASSUME NEW c \in Calls, CreateToken(c) PROVE Alive'
  <2>1. \A d \in Calls : fresh[d] \in 1 .. inserted /\ Creates(d) => fresh[d] \in Ids /\ fresh[d] # inserted + 1
    OBVIOUS
  <2>2. \A d \in Calls : Creates(d) => fresh[d] \in 1 .. inserted
    BY DEF FreshKnown
  <2>3. inserted + 1 \notin revoked
    BY <1>6, NewRow DEF Unused
  <2>4. ASSUME NEW d \in Calls, tok[d] # NoId PROVE session'[tok[d]] = session[tok[d]]
    <3>1. tok[d] \in 1 .. inserted
      BY <1>0, <2>4
    <3>2. tok[d] \in Ids /\ tok[d] # inserted + 1
      BY <3>1
    <3> QED
      BY <1>6, <3>2, NewRow
  <2>5. \A d \in Calls \ {c} : Creates(d) => session'[fresh[d]] = session[fresh[d]]
    BY <1>6, <2>1, <2>2, NewRow
  <2>6. ASSUME NEW d \in Calls, d # c
        PROVE  /\ Creates(d)' /\ (session[fresh[d]] \notin contended)' => (fresh[d] \notin revoked)'
               /\ pc'[d] \in {"user", "create", "retire", "logout", "revoke"} /\ tok'[d] # NoId
                  /\ (session[tok[d]] \notin contended)' => (tok[d] \notin revoked)'
               /\ pc'[d] = "reuse" => (tok[d] \in revoked)'
    BY <1>6, <2>4, <2>5, <2>6, NewRow
  <2>7. /\ (fresh[c] \notin revoked)' /\ pc'[c] # "reuse"
        /\ tok'[c] # NoId /\ (session[tok[c]] \notin contended)' => (tok[c] \notin revoked)'
    BY <1>6, <2>3, <2>4, NewRow
  <2> QED
    BY <2>6, <2>7
<1>7. ASSUME NEW c \in Calls, CreateRefused(c) \/ CallEnds(c) PROVE Alive'
  BY <1>7 DEF CreateRefused, CallEnds
<1>8. ASSUME NEW c \in Calls, RevokeOld(c) PROVE Alive'
  <2>1. Busy(c) /\ tok[c] \in issued /\ UNCHANGED <<session, contended>>
        /\ \A d \in Calls \ {c} : pc'[d] = pc[d] /\ tok'[d] = tok[d] /\ fresh'[d] = fresh[d]
    BY <1>8, Revoking
  <2>2. PICK R : /\ revoked' = revoked \cup R
                 /\ \A i \in R : i \in Ids /\ session[i] = session[tok[c]]
    BY <1>8, Revoking
  <2>3. \A d \in Calls \ {c} :
           /\ Creates(d) /\ session[fresh[d]] \notin contended => fresh[d] \notin revoked'
           /\ pc[d] \in {"user", "create", "retire", "logout", "revoke"} /\ tok[d] # NoId
              /\ session[tok[d]] \notin contended => tok[d] \notin revoked'
           /\ pc[d] = "reuse" => tok[d] \in revoked'
    BY <2>1, <2>2, RevokeSpares
  <2>4. /\ pc'[c] = "respond"
        /\ session'[fresh'[c]] \notin contended' => fresh'[c] \notin revoked'
    <3>1. pc[c] = "retire" /\ pc'[c] = "respond" /\ fresh'[c] = fresh[c] /\ revoked' \subseteq revoked \cup {tok[c]}
      BY <1>8 DEF RevokeOld
    <3>2. fresh[c] \notin issued
      BY <3>1 DEF FreshKnown
    <3> QED
      BY <2>1, <3>1, <3>2
  <2> QED
    BY <2>1, <2>3, <2>4
<1>9. ASSUME NEW c \in Calls, Respond(c) PROVE Alive'
  BY <1>9 DEF Respond
<1>10. ASSUME NEW c \in Calls, RevokeOnly(c) PROVE Alive'
  <2>1. Busy(c) /\ tok[c] \in issued /\ UNCHANGED <<session, contended>>
        /\ \A d \in Calls \ {c} : pc'[d] = pc[d] /\ tok'[d] = tok[d] /\ fresh'[d] = fresh[d]
    BY <1>10, Revoking
  <2>2. PICK R : /\ revoked' = revoked \cup R
                 /\ \A i \in R : i \in Ids /\ session[i] = session[tok[c]]
    BY <1>10, Revoking
  <2>3. \A d \in Calls \ {c} :
           /\ Creates(d) /\ session[fresh[d]] \notin contended => fresh[d] \notin revoked'
           /\ pc[d] \in {"user", "create", "retire", "logout", "revoke"} /\ tok[d] # NoId
              /\ session[tok[d]] \notin contended => tok[d] \notin revoked'
           /\ pc[d] = "reuse" => tok[d] \in revoked'
    BY <2>1, <2>2, RevokeSpares
  <2>4. pc'[c] = "idle"
    BY <1>10 DEF RevokeOnly
  <2> QED
    BY <2>1, <2>3, <2>4
<1>11. ASSUME NEW i \in Ids, TokenExpires(i) PROVE Alive'
  BY <1>11 DEF TokenExpires
<1>12. ASSUME NEW u \in Users, DeleteUser(u) PROVE Alive'
  BY <1>12 DEF DeleteUser
<1>13. CASE UNCHANGED vars
  BY <1>13 DEF vars
<1> QED
  BY <1>1, <1>2, <1>3, <1>4, <1>5, <1>6, <1>7, <1>8, <1>9, <1>10, <1>11, <1>12, <1>13
  DEF Next

\* A set of numbers up to n has a greatest element.
LEMMA Greatest ==
  ASSUME NEW n \in Nat, NEW T \in SUBSET (1 .. n), T # {}
  PROVE  \E m \in T : \A k \in T : k <= m
<1> DEFINE D == {n - k : k \in T}
           R == OpToRel(<, Nat)
<1>1. D \subseteq Nat /\ D # {}
  <2>1. \A k \in T : n - k \in Nat
    OBVIOUS
  <2>2. PICK k \in T : TRUE
    OBVIOUS
  <2> QED
    BY <2>1, <2>2
<1>2. IsWellFoundedOn(R, Nat)
  BY NatLessThanWellFounded
<1>3. \A x, y \in Nat : x < y => <<x, y>> \in R
  BY DEF OpToRel
<1> HIDE DEF R
<1>4. PICK x \in D : \A y \in D : ~ (<<y, x>> \in R)
  BY <1>1, <1>2, WFMin
<1>5. PICK m \in T : x = n - m
  BY <1>4
<1>6. ASSUME NEW k \in T, k > m PROVE FALSE
  <2>1. n - k \in D /\ n - k < x /\ x \in Nat /\ n - k \in Nat
    BY <1>1, <1>5, <1>6
  <2> QED
    BY <1>3, <1>4, <2>1
<1> QED
  BY <1>6

\* The recursive query reaches the last token of a session from every other one
\* that was issued in it: the greatest token it would reach instead has a
\* successor.
LEMMA Reached ==
  ASSUME SInv, NEW t \in issued, NEW y \in issued, Row(y), session[y] = session[t], Last(y)
  PROVE  y \in Family(t)
<1> USE DEF SInv, RInv
<1>1. issued \subseteq 1 .. inserted /\ inserted \in Nat /\ \A i \in issued : i \in Ids
  <2>1. issued \subseteq 1 .. inserted /\ inserted \in Nat /\ 1 .. inserted \subseteq Ids
    BY Facts
  <2> QED
    BY <2>1, Zenon
<1>2. SUFFICES ASSUME NEW S \in SUBSET Ids, t \in S, Closed(S), y \notin S
               PROVE  FALSE
  BY <1>1 DEF Family
<1> DEFINE M == {i \in S : i \in issued /\ session[i] = session[t]}
<1>3. M \subseteq 1 .. inserted /\ M # {}
  <2>1. t \in M
    BY <1>2
  <2>2. M \subseteq 1 .. inserted
    BY <1>1
  <2> QED
    BY <2>1, <2>2
<1>4. PICK m \in M : \A k \in M : k <= m
  BY <1>1, <1>3, Greatest
<1>5. replacedBy[m] \in issued /\ m \in Ids /\ m \in issued
  BY <1>1, <1>2, <1>4 DEF Last
<1>6. replacedBy[m] > m /\ session[replacedBy[m]] = session[m] /\ replacedBy[m] \in Ids
  BY <1>1, <1>5, IdsAreNumbers DEF ChainsAreSound
<1>7. replacedBy[m] \in M
  BY <1>2, <1>4, <1>5, <1>6 DEF Closed
<1>8. replacedBy[m] <= m /\ m \in Int /\ replacedBy[m] \in Int
  BY <1>1, <1>3, <1>4, <1>5, <1>7
<1> QED
  BY <1>6, <1>8

\* A step that revokes nothing, issues nothing and brings no call to its response.
LEMMA QuietHead ==
  ASSUME SInv, UNCHANGED <<issued, revoked, session, replacedBy, reused, closed>>,
         contended \subseteq contended', \A x \in Ids : Row(x)' => Row(x),
         \A c \in Calls : pc'[c] = "respond" => pc[c] = "respond" /\ fresh'[c] = fresh[c]
  PROVE  HeadIsLast'
BY DEF SInv, HeadIsLast, Head, Last

\* Two tokens of one session that clients may use, or soon may, are one, unless
\* calls of the session overlap.
LEMMA HeadsMeet ==
  ASSUME SInv, NEW c \in Calls, Busy(c), NEW x \in Ids, Head(x), x \notin issued,
         session[x] = session[tok[c]], \A d \in Calls : pc[d] = "respond" /\ fresh[d] = x => d # c
  PROVE  session[x] \in contended
<1>1. PICK d \in Calls : pc[d] = "respond" /\ fresh[d] = x
  BY DEF Head
<1>2. d # c /\ Creates(d)
  BY <1>1 DEF Creates
<1> QED
  BY <1>1, <1>2, Meets

\* A step that revokes tokens of a session leaves the others as they were.
LEMMA OtherSession ==
  ASSUME SInv, NEW s, NEW x \in Ids, session[x] # s, Last(x),
         revoked \subseteq revoked', UNCHANGED <<issued, session>>,
         reused' \subseteq reused \cup {s}, closed' \subseteq closed \cup {s},
         \A j \in issued : session[j] # s => replacedBy'[j] = replacedBy[j]
  PROVE  Last(x)'
BY DEF Last

LEMMA StepHead == SInv /\ [Next]_vars => HeadIsLast'
<1> SUFFICES ASSUME SInv, [Next]_vars PROVE HeadIsLast' OBVIOUS
<1>0. /\ issued \subseteq 1 .. inserted /\ \A i \in issued : i \in Ids
      /\ \A c \in Calls : /\ tok[c] # NoId => tok[c] \in Ids
                          /\ Creates(c) => fresh[c] \in Ids /\ fresh[c] \in 1 .. inserted
  <2>1. issued \subseteq 1 .. inserted /\ 1 .. inserted \subseteq Ids
    BY Facts
  <2> QED
    BY <2>1, Facts, Zenon DEF SInv, FreshKnown
<1> USE DEF table, calls, history, Goto, Return, Hold, Row
<1>1. ASSUME NEW c \in Calls, NEW u \in Users, BeginLogin(c, u) PROVE HeadIsLast'
  BY <1>1, QuietHead DEF BeginLogin, SInv, RInv, TypeOK, CallsOK, TableOK
<1>2. ASSUME NEW c \in Calls, NEW t \in Ids, BeginRefresh(c, t) PROVE HeadIsLast'
  BY <1>2, QuietHead DEF BeginRefresh, Present, IsActive, SInv, RInv, TypeOK, CallsOK, TableOK
<1>3. ASSUME NEW c \in Calls, NEW t \in Ids, BeginLogout(c, t) PROVE HeadIsLast'
  BY <1>3, QuietHead DEF BeginLogout, Present, SInv, RInv, TypeOK, CallsOK, TableOK
<1>4. ASSUME NEW c \in Calls, RevokeFamilyDescendants(c) PROVE HeadIsLast'
  <2> DEFINE t == tok[c]
  <2>1. /\ Busy(c) /\ t \in issued /\ t \in Ids /\ UNCHANGED <<issued, session, contended, owner>>
        /\ \A d \in Calls \ {c} : pc'[d] = pc[d] /\ fresh'[d] = fresh[d]
    BY <1>4, Revoking
  <2>2. /\ revoked' = revoked \cup Family(t) /\ pc[c] = "reuse" /\ pc'[c] = "idle"
        /\ reused' = reused \cup {session[t]} /\ closed' = closed /\ replacedBy' = replacedBy
    BY <1>4 DEF RevokeFamilyDescendants, SInv, RInv, TypeOK, CallsOK
  <2>3. ASSUME NEW x \in Ids, Head(x)', session[x] \notin contended
        PROVE  Last(x)'
    <3>1. Head(x) /\ x \notin Family(t)
      BY <2>1, <2>2, <2>3 DEF Head
    <3>2. Last(x)
      BY <2>3, <3>1 DEF SInv, HeadIsLast
    <3>3. session[x] # session[t]
      <4>1. CASE x \in issued
        BY <2>1, <3>1, <3>2, <4>1, Reached DEF Head
      <4>2. CASE x \notin issued
        BY <2>1, <2>2, <2>3, <3>1, <4>2, HeadsMeet
      <4> QED
        BY <4>1, <4>2
    <3> QED
      BY <2>1, <2>2, <3>2, <3>3, OtherSession
  <2> QED
    BY <2>1, <2>3 DEF HeadIsLast
<1>5. ASSUME NEW c \in Calls, CheckUser(c) PROVE HeadIsLast'
  BY <1>5, QuietHead DEF CheckUser, SInv, RInv, TypeOK, CallsOK, TableOK
<1>6. ASSUME NEW c \in Calls, CreateToken(c) PROVE HeadIsLast'
  <2> DEFINE i == inserted + 1
  <2>1. \A j \in 1 .. inserted : j \in Ids /\ j # i /\ session[j] \in 1 .. inserted /\ session[j] # i
    BY <1>0, Facts DEF SInv, Sessions
  <2>2. /\ UNCHANGED <<revoked, replacedBy, issued, contended, reused, closed>> /\ i \in Ids
        /\ \A j \in Ids : j # i => owner'[j] = owner[j] /\ session'[j] = session[j]
    BY <1>6, NewRow
  <2>3. ASSUME NEW x \in Ids, Head(x)', session'[x] \notin contended
        PROVE  Last(x)'
    <3>1. CASE x # i
      <4>1. Head(x) /\ session'[x] = session[x]
        BY <1>6, <2>2, <2>3, <3>1, NewRow DEF Head
      <4>2. Last(x)
        BY <2>3, <4>1 DEF SInv, HeadIsLast
      <4> QED
        BY <1>0, <2>1, <2>2, <4>1, <4>2 DEF Last
    <3>2. CASE x = i
      <4>1. x \notin issued /\ \A d \in Calls \ {c} : pc[d] = "respond" => fresh[d] # i
        BY <1>0, <2>1, <3>2 DEF Creates
      <4>2. pc'[c] = "respond"
        BY <1>6, <2>2, <2>3, <3>2, <4>1, NewRow DEF Head
      <4>3. session'[i] = i
        BY <1>6, <4>2, NewRow
      <4>4. i \notin reused \cup closed
        BY <2>1 DEF SInv, Sessions
      <4>5. \A j \in issued : session'[j] # i
        BY <1>0, <2>1, <2>2
      <4> QED
        BY <2>2, <3>2, <4>3, <4>4, <4>5 DEF Last
    <3> QED
      BY <3>1, <3>2
  <2> QED
    BY <2>2, <2>3 DEF HeadIsLast
<1>7. ASSUME NEW c \in Calls, CreateRefused(c) \/ CallEnds(c) PROVE HeadIsLast'
  BY <1>7, QuietHead DEF CreateRefused, CallEnds, SInv, RInv, TypeOK, CallsOK, TableOK
<1>8. ASSUME NEW c \in Calls, RevokeOld(c) PROVE HeadIsLast'
  <2> DEFINE t == tok[c]
             f == fresh[c]
  <2>1. /\ Busy(c) /\ t \in issued /\ t \in Ids /\ UNCHANGED <<issued, session, contended, owner>>
        /\ \A d \in Calls \ {c} : pc'[d] = pc[d] /\ fresh'[d] = fresh[d]
    BY <1>8, Revoking
  <2>2. /\ pc[c] = "retire" /\ pc'[c] = "respond" /\ fresh'[c] = f /\ UNCHANGED <<reused, closed>>
        /\ \/ UNCHANGED <<revoked, replacedBy>> /\ (owner[t] = NoUser \/ t \in revoked)
           \/ /\ revoked' = revoked \cup {t} /\ owner[t] # NoUser /\ t \notin revoked
              /\ replacedBy' = [replacedBy EXCEPT ![t] = f]
    BY <1>8 DEF RevokeOld, SInv, RInv, TypeOK, CallsOK
  <2>3. /\ f \in Ids /\ f \in 1 .. inserted /\ t \in 1 .. inserted /\ f \notin issued
        /\ session[f] = session[t]
    BY <1>0, <2>1, <2>2 DEF SInv, FreshKnown, Busy, Creates
  <2>4. owner[f] = owner[t] /\ (session[t] \notin contended => t \notin revoked)
    BY <2>1, <2>2, <2>3 DEF SInv, Owners, Alive, Busy
  <2>5. \A x \in Ids : Head(x)' /\ x # f => Head(x)
    BY <2>1, <2>2 DEF Head
  <2>6. \A d \in Calls : pc[d] = "respond" => d # c
    BY <2>2
  <2>7. CASE UNCHANGED <<revoked, replacedBy>> /\ (owner[t] = NoUser \/ t \in revoked)
    <3>1. ASSUME NEW x \in Ids, Head(x)', session[x] \notin contended
          PROVE  Last(x)'
      <4>1. x # f
        BY <2>1, <2>3, <2>4, <2>7, <3>1 DEF Head
      <4>2. Last(x)
        BY <2>5, <3>1, <4>1 DEF SInv, HeadIsLast
      <4> QED
        BY <2>1, <2>2, <2>7, <4>2 DEF Last
    <3> QED
      BY <2>1, <3>1 DEF HeadIsLast
  <2>8. CASE /\ revoked' = revoked \cup {t} /\ owner[t] # NoUser /\ t \notin revoked
             /\ replacedBy' = [replacedBy EXCEPT ![t] = f]
    <3>1. \A j \in Ids : replacedBy'[j] = IF j = t THEN f ELSE replacedBy[j]
      BY <2>1, <2>8 DEF SInv, RInv, TypeOK, TableOK
    <3>2. ASSUME NEW x \in Ids, Head(x)', session[x] \notin contended
          PROVE  Last(x)'
      <4>1. session[x] = session[t] => Last(t)
        BY <2>1, <2>8, <3>2 DEF SInv, HeadIsLast, Head
      <4>2. CASE x = f
        <5>1. Last(t)
          BY <2>3, <4>1, <4>2
        <5>2. session[f] \notin reused \cup closed
          BY <2>3, <5>1 DEF Last
        <5>3. ASSUME NEW j \in issued, j # f, session[j] = session[f]
              PROVE  j \in revoked' /\ replacedBy'[j] \in issued \cup {f}
          BY <1>0, <2>1, <2>3, <2>8, <3>1, <5>1, <5>3 DEF Last
        <5> QED
          BY <2>1, <2>2, <4>2, <5>2, <5>3 DEF Last
      <4>3. CASE x # f
        <5>1. Head(x) /\ x # t
          BY <2>5, <2>8, <3>2, <4>3 DEF Head
        <5>2. Last(x)
          BY <3>2, <5>1 DEF SInv, HeadIsLast
        <5>3. session[x] # session[t]
          <6>1. CASE x \in issued
            BY <4>1, <5>1, <6>1 DEF Last, Head
          <6>2. CASE x \notin issued
            BY <2>1, <2>6, <3>2, <5>1, <6>2, HeadsMeet
          <6> QED
            BY <6>1, <6>2
        <5>4. \A j \in issued : session[j] # session[t] => replacedBy'[j] = replacedBy[j]
          BY <1>0, <3>1
        <5>5. UNCHANGED <<issued, session, reused, closed>> /\ revoked \subseteq revoked'
          BY <2>1, <2>2, <2>8
        <5> QED
          BY <5>2, <5>3, <5>4, <5>5, OtherSession
      <4> QED
        BY <4>2, <4>3
    <3> QED
      BY <2>1, <3>2 DEF HeadIsLast
  <2> QED
    BY <2>2, <2>7, <2>8
<1>9. ASSUME NEW c \in Calls, Respond(c) PROVE HeadIsLast'
  <2> DEFINE f == fresh[c]
  <2>1. /\ pc[c] = "respond" /\ pc'[c] = "idle" /\ issued' = issued \cup {f}
        /\ UNCHANGED <<owner, revoked, replacedBy, session, contended, reused, closed>>
        /\ \A d \in Calls \ {c} : pc'[d] = pc[d] /\ fresh'[d] = fresh[d]
    BY <1>9 DEF Respond, SInv, RInv, TypeOK, CallsOK
  <2>2. f \in Ids /\ f \in 1 .. inserted /\ Creates(c) /\ f \notin issued
    BY <1>0, <2>1 DEF Creates, SInv, FreshKnown
  <2>3. ASSUME NEW x \in Ids, Head(x)', session[x] \notin contended
        PROVE  Last(x)'
    <3>1. Head(x) /\ Last(x) /\ x \in 1 .. inserted
      <4>1. Head(x)
        BY <2>1, <2>3 DEF Head
      <4>2. x \in 1 .. inserted
        BY <1>0, <4>1 DEF Head, Creates
      <4> QED
        BY <2>3, <4>1, <4>2 DEF SInv, HeadIsLast
    <3>2. ASSUME x # f, session[x] = session[f] PROVE FALSE
      <4>1. Head(f)
        <5>1. f \notin revoked
          BY <2>2, <2>3, <3>2 DEF SInv, Alive
        <5>2. owner[f] = owner[x]
          BY <2>2, <3>1, <3>2 DEF SInv, Owners
        <5> QED
          BY <2>1, <3>1, <5>1, <5>2 DEF Head
      <4>2. Last(f)
        BY <2>2, <2>3, <3>2, <4>1 DEF SInv, HeadIsLast
      <4>3. x \notin issued
        BY <3>1, <3>2, <4>2 DEF Last, Head
      <4>4. tok[c] # NoId /\ session[f] = session[tok[c]]
        BY <2>2, <3>1, <3>2 DEF SInv, FreshKnown
      <4>5. Busy(c)
        BY <2>1, <4>4 DEF Busy
      <4>6. session[x] \in contended
        BY <3>1, <3>2, <4>3, <4>4, <4>5, HeadsMeet
      <4> QED
        BY <2>3, <4>6
    <3> QED
      BY <2>1, <3>1, <3>2 DEF Last
  <2> QED
    BY <2>1, <2>3 DEF HeadIsLast
<1>10. ASSUME NEW c \in Calls, RevokeOnly(c) PROVE HeadIsLast'
  <2> DEFINE t == tok[c]
  <2>1. /\ Busy(c) /\ t \in issued /\ t \in Ids /\ UNCHANGED <<issued, session, contended, owner>>
        /\ \A d \in Calls \ {c} : pc'[d] = pc[d] /\ fresh'[d] = fresh[d]
    BY <1>10, Revoking
  <2>2. /\ pc[c] \in {"logout", "revoke"} /\ pc'[c] = "idle" /\ UNCHANGED <<reused, replacedBy>>
        /\ \/ UNCHANGED <<revoked, closed>>
           \/ /\ revoked' = revoked \cup {t} /\ closed' = closed \cup {session[t]}
              /\ owner[t] # NoUser /\ t \notin revoked
    BY <1>10 DEF RevokeOnly, SInv, RInv, TypeOK, CallsOK
  <2>3. CASE UNCHANGED <<revoked, closed>>
    BY <2>1, <2>2, <2>3, QuietHead
  <2>4. CASE /\ revoked' = revoked \cup {t} /\ closed' = closed \cup {session[t]}
             /\ owner[t] # NoUser /\ t \notin revoked
    <3>1. ASSUME NEW x \in Ids, Head(x)', session[x] \notin contended
          PROVE  Last(x)'
      <4>1. Head(x) /\ x # t
        BY <2>1, <2>2, <2>4, <3>1 DEF Head
      <4>2. Last(x)
        BY <3>1, <4>1 DEF SInv, HeadIsLast
      <4>3. session[x] # session[t]
        <5>1. CASE x \in issued
          BY <2>1, <2>4, <4>1, <4>2, <5>1 DEF Last
        <5>2. CASE x \notin issued
          BY <2>1, <2>2, <3>1, <4>1, <5>2, HeadsMeet
        <5> QED
          BY <5>1, <5>2
      <4> QED
        BY <2>1, <2>2, <2>4, <4>2, <4>3, OtherSession
    <3> QED
      BY <2>1, <3>1 DEF HeadIsLast
  <2> QED
    BY <2>2, <2>3, <2>4
<1>11. ASSUME NEW i \in Ids, TokenExpires(i) PROVE HeadIsLast'
  BY <1>11, QuietHead DEF TokenExpires, SInv, RInv, TypeOK, CallsOK, TableOK
<1>12. ASSUME NEW u \in Users, DeleteUser(u) PROVE HeadIsLast'
  BY <1>12, QuietHead DEF DeleteUser, SInv, RInv, TypeOK, CallsOK, TableOK
<1>13. CASE UNCHANGED vars
  BY <1>13, QuietHead DEF vars
<1> QED
  BY <1>1, <1>2, <1>3, <1>4, <1>5, <1>6, <1>7, <1>8, <1>9, <1>10, <1>11, <1>12, <1>13
  DEF Next

THEOREM SessionInvariance == Spec => []SInv
<1>1. SInv /\ [Next]_vars => SInv'
  <2>1. SInv /\ [Next]_vars => RInv'
    BY StepTable, StepCallsType, StepHistory, StepCalls, StepUnused, StepInserted,
       StepChains, StepRetires
    DEF SInv, RInv, TypeOK
  <2> QED
    BY <2>1, StepOwners, StepSessions, StepFresh, StepOwn, StepOverlapping, StepAlive, StepHead
    DEF SInv
<1> QED
  BY SInit, <1>1, PTL DEF Spec

LEMMA UsableIsLast ==
  ASSUME SInv, NEW s, s \notin contended, NEW i \in Usable(s)
  PROVE  i \in issued /\ session[i] = s /\ Last(i)
<1>1. i \in issued /\ session[i] = s /\ Head(i)
  BY DEF Usable, IsActive, Head
<1>2. issued \subseteq 1 .. inserted /\ 1 .. inserted \subseteq Ids
  BY Facts
<1>3. i \in Ids
  BY <1>1, <1>2, Zenon
<1> QED
  BY <1>1, <1>3 DEF SInv, HeadIsLast

\* As long as the calls of a session do not overlap, its clients hold at most
\* one usable token.
THEOREM OneToken == Spec => []HoldsOneToken
<1>1. SInv => HoldsOneToken
  BY UsableIsLast DEF HoldsOneToken, AtMostOne, Usable, IsActive, Last
<1> QED
  BY SessionInvariance, <1>1, PTL

\* As long as they do not overlap, a session in which a reuse was detected, or
\* whose token a logout revoked, has no usable token any more.
THEOREM EndedSessions == Spec => []EndedStaysEnded
<1>1. SInv => EndedStaysEnded
  BY UsableIsLast DEF EndedStaysEnded, Usable, Last
<1> QED
  BY SessionInvariance, <1>1, PTL
=============================================================================
