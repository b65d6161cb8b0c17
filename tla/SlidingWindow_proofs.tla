------------------------- MODULE SlidingWindow_proofs -------------------------
(***************************************************************************)
(* Proofs about SlidingWindow, for every window, limit and skew.             *)
(***************************************************************************)
EXTENDS SlidingWindow, FiniteSetTheorems, WellFoundedInduction, TLAPS

\* A set of entries the script may be given.
Stored(S) == /\ IsFiniteSet(S) /\ Cardinality(S) <= Limit
             /\ \A e \in S : e.at \in Nat

\* No entry outlives the key, and the key is there while it has entries.
KeyOK == /\ \A e \in log : e.at + Window <= expireAt
         /\ log # {} => time <= expireAt

\* The set remembers every admitted request whose window is not over.
Remembered == \A e \in admitted : e.at + Window > time => e \in log

WInv == TypeOK /\ Stored(log) /\ KeyOK /\ Remembered /\ WithinLimit /\ RetrySuffices
        /\ RetryIsTight

USE WindowAssumption, LimitAssumption, SkewAssumption, SecondAssumption, BoundsAssumption

\* A set of numbers that is not empty has a least element.
LEMMA LeastNumber ==
  ASSUME NEW T \in SUBSET Nat, T # {}
  PROVE  \E x \in T : \A y \in T : x <= y
<1> DEFINE R == {ss \in Nat \X Nat : ss[1] < ss[2]}
<1>1. IsWellFoundedOn(R, Nat)
  BY NatLessThanWellFounded DEF OpToRel
<1> HIDE DEF R
<1>2. \E x \in T : \A y \in T : ~ (<<y, x>> \in R)
  BY <1>1, WFMin
<1> USE DEF R
<1>3. \A x, y \in Nat : y < x => <<y, x>> \in R
  OBVIOUS
<1> HIDE DEF R
<1>4. PICK x \in T : \A y \in T : ~ (<<y, x>> \in R)
  BY <1>2
<1>5. ASSUME NEW y \in T PROVE x <= y
  <2>1. x \in Nat /\ y \in Nat /\ ~ (<<y, x>> \in R)
    BY <1>4
  <2>2. ~ (y < x)
    BY <1>3, <2>1
  <2> QED
    BY <2>1, <2>2
<1> QED
  BY <1>5

\* The oldest entry of a set exists.
LEMMA OldestEntry ==
  ASSUME NEW S, S # {}, \A e \in S : e.at \in Nat
  PROVE  Oldest(S) \in S /\ \A f \in S : Oldest(S).at <= f.at
<1>1. PICK x \in {e.at : e \in S} : \A y \in {e.at : e \in S} : x <= y
  <2>1. {e.at : e \in S} \in SUBSET Nat /\ {e.at : e \in S} # {}
    OBVIOUS
  <2> QED
    BY <2>1, LeastNumber
<1>2. \E e \in S : \A f \in S : e.at <= f.at
  BY <1>1
<1> QED
  BY <1>2 DEF Oldest

LEMMA SurvivingStored ==
  ASSUME NEW S, Stored(S), NEW now \in Nat
  PROVE  LET kept == Surviving(S, now)
         IN  /\ IsFiniteSet(kept) /\ Cardinality(kept) \in Nat
             /\ Cardinality(kept) <= Limit /\ kept \subseteq S
<1>1. Surviving(S, now) \in SUBSET S
  BY DEF Surviving
<1>2. Cardinality(S) \in Nat /\ Cardinality(Surviving(S, now)) \in Nat
      /\ IsFiniteSet(Surviving(S, now)) /\ Cardinality(Surviving(S, now)) <= Cardinality(S)
  BY <1>1, FS_Subset, FS_CardinalityType DEF Stored
<1> QED
  BY <1>1, <1>2 DEF Stored

\* What one run of the script returns: it keeps the entries that survive, adds
\* the request's own only when there is room, and a refused request is told how
\* long until there is.
LEMMA ScriptRun ==
  ASSUME NEW S, Stored(S), NEW e, e.at \in Nat
  PROVE  LET out == Script(S, e)
         IN  /\ Stored(out.log)
             /\ Surviving(S, e.at) \subseteq out.log
             /\ out.log \subseteq S \cup {e}
             /\ out.allowed \in BOOLEAN /\ out.remaining \in 0 .. Limit - 1 /\ out.retry \in Nat
             /\ out.allowed => e \in out.log /\ out.retry = 0
             /\ ~out.allowed => /\ out.log \subseteq S
                                /\ \E f \in S : out.retry <= f.at + Window - e.at
                                /\ Cardinality(Surviving(out.log, e.at + out.retry)) < Limit
                                /\ ~(Cardinality(Surviving(out.log, e.at + out.retry - 1)) < Limit)
<1> DEFINE kept == Surviving(S, e.at)
           out == Script(S, e)
<1>1. /\ IsFiniteSet(kept) /\ Cardinality(kept) \in Nat /\ Cardinality(kept) <= Limit
      /\ kept \subseteq S
  BY SurvivingStored
<1>2. CASE Cardinality(kept) >= Limit
  <2>1. out = [log |-> kept, allowed |-> FALSE, remaining |-> 0, retry |-> RetryAfter(kept, e.at)]
    BY <1>2 DEF Script
  <2>2. kept # {} /\ \A f \in kept : f.at \in Nat /\ f.at > e.at - Window
    BY <1>1, <1>2, FS_EmptySet DEF Stored, Surviving
  <2>3. Oldest(kept) \in kept /\ \A f \in kept : Oldest(kept).at <= f.at
    BY <2>2, OldestEntry
  <2>5. Oldest(kept).at \in Nat /\ Oldest(kept).at > e.at - Window
    BY <2>2, <2>3
  <2> DEFINE oldest == Oldest(kept)
  <2> HIDE DEF kept, oldest
  <2>4. RetryAfter(kept, e.at) = oldest.at + Window - e.at
    BY <2>5 DEF RetryAfter, oldest
  <2>6. Surviving(kept, e.at + RetryAfter(kept, e.at)) \in SUBSET (kept \ {oldest})
    BY <2>4, <2>5 DEF Surviving, oldest
  <2>7. IsFiniteSet(kept \ {oldest}) /\ Cardinality(kept \ {oldest}) = Cardinality(kept) - 1
    BY <1>1, <2>3, FS_RemoveElement DEF oldest
  <2>8. Cardinality(Surviving(kept, e.at + RetryAfter(kept, e.at))) <= Cardinality(kept) - 1
        /\ Cardinality(Surviving(kept, e.at + RetryAfter(kept, e.at))) \in Nat
    BY <2>6, <2>7, FS_Subset, FS_CardinalityType
  <2>9. Cardinality(Surviving(kept, e.at + RetryAfter(kept, e.at))) < Limit
    BY <1>1, <2>8
  <2>10. Stored(kept)
    BY <1>1, <2>2 DEF Stored
  <2>11. RetryAfter(kept, e.at) \in Nat
    BY <2>4, <2>5 DEF oldest
  <2>12. kept = Surviving(S, e.at)
    BY DEF kept
  <2>13. Surviving(kept, e.at + RetryAfter(kept, e.at) - 1) = kept
    <3>1. \A f \in kept : f.at \in Nat /\ oldest.at <= f.at
      BY <2>2, <2>3 DEF oldest, kept
    <3>2. oldest.at \in Nat
      BY <2>5 DEF oldest
    <3> QED
      BY <2>4, <3>1, <3>2 DEF Surviving
  <2>14. ~(Cardinality(Surviving(kept, e.at + RetryAfter(kept, e.at) - 1)) < Limit)
    BY <1>1, <1>2, <2>13
  <2> QED
    BY <1>1, <2>1, <2>3, <2>4, <2>5, <2>9, <2>10, <2>11, <2>12, <2>14 DEF oldest
<1>3. CASE ~(Cardinality(kept) >= Limit)
  <2>1. out = [log |-> kept \cup {e}, allowed |-> TRUE,
               remaining |-> Limit - (Cardinality(kept) + 1), retry |-> 0]
    BY <1>3 DEF Script
  <2>2. IsFiniteSet(kept \cup {e})
        /\ Cardinality(kept \cup {e}) \in Nat
        /\ Cardinality(kept \cup {e}) <= Cardinality(kept) + 1
    <3>1. IsFiniteSet(kept \cup {e})
          /\ Cardinality(kept \cup {e}) =
             IF e \in kept THEN Cardinality(kept) ELSE Cardinality(kept) + 1
      BY <1>1, FS_AddElement
    <3> QED
      BY <1>1, <3>1
  <2>3. Stored(kept \cup {e})
    <3>1. \A f \in kept \cup {e} : f.at \in Nat
      BY <1>1 DEF Stored
    <3>2. Cardinality(kept \cup {e}) <= Limit
      BY <1>1, <1>3, <2>2
    <3> QED
      BY <2>2, <3>1, <3>2 DEF Stored
  <2>4. kept = Surviving(S, e.at) /\ kept \subseteq S
    BY <1>1
  <2>5. Limit - (Cardinality(kept) + 1) \in 0 .. Limit - 1
    BY <1>1, <1>3
  <2> HIDE DEF kept
  <2> QED
    BY <2>1, <2>3, <2>4, <2>5
<1> QED
  BY <1>2, <1>3

\* A decision there may be after a step of a request with timestamp now.
Decisions(now) == [by : {"nobody", "script"}, allowed : BOOLEAN,
                   remaining : 0 .. Limit - 1, retry : 0 .. Window + Skew, now : {0, now}]

\* What a run of the script for the request of entry e does to the bucket.
Effect(e) ==
  /\ time' = time
  /\ members' \in {members, members + 1} /\ members' <= MaxRequests
  /\ e \in [id : 1 .. members', at : 0 .. time] /\ e.at + Skew >= time
  /\ waiting' \subseteq waiting \cup {e}
  /\ Stored(log')
  /\ Surviving(log, e.at) \subseteq log'
  /\ log' \subseteq log \cup {e}
  /\ expireAt' = time + Window \/ (expireAt' = expireAt /\ log' \subseteq log)
  /\ \/ admitted' = admitted
     \/ admitted' = admitted \cup {e} /\ e \in log'
  /\ decision' \in Decisions(e.at)
  /\ Refused' => /\ decision'.now = e.at
                 /\ Cardinality(Surviving(log', e.at + decision'.retry)) < Limit
                 /\ ~(Cardinality(Surviving(log', e.at + decision'.retry - 1)) < Limit)

\* A run whose reply arrives, or is lost, has that effect.
LEMMA RunEffect ==
  ASSUME WInv, NEW e, Runs(Script(log, e)), Reply(e, Script(log, e)) \/ NoReply,
         members' \in {members, members + 1}, members' <= MaxRequests,
         e \in [id : 1 .. members', at : 0 .. time], e.at + Skew >= time,
         waiting' \subseteq waiting \cup {e}
  PROVE  Effect(e)
<1> DEFINE out == Script(log, e)
<1>1. e.at \in Nat /\ time \in Nat /\ e.at <= time /\ time <= e.at + Skew /\ Stored(log)
  BY DEF WInv, TypeOK
<1>2. \A f \in log : f.at <= time /\ f.at \in Nat
  BY DEF WInv, TypeOK, Entries
<1>3. /\ Stored(out.log) /\ Surviving(log, e.at) \subseteq out.log
      /\ out.log \subseteq log \cup {e}
      /\ out.allowed \in BOOLEAN /\ out.remaining \in 0 .. Limit - 1 /\ out.retry \in Nat
      /\ out.allowed => e \in out.log /\ out.retry = 0
      /\ ~out.allowed => /\ out.log \subseteq log
                         /\ \E f \in log : out.retry <= f.at + Window - e.at
                         /\ Cardinality(Surviving(out.log, e.at + out.retry)) < Limit
                         /\ ~(Cardinality(Surviving(out.log, e.at + out.retry - 1)) < Limit)
  BY <1>1, ScriptRun
<1>4. Runs(out) /\ (Reply(e, out) \/ NoReply)
  OBVIOUS
<1> HIDE DEF out
<1>5. out.retry \in 0 .. Window + Skew
  <2>1. CASE out.allowed
    BY <1>3, <2>1
  <2>2. CASE ~out.allowed
    <3>1. PICK f \in log : out.retry <= f.at + Window - e.at
      BY <1>3, <2>2
    <3>2. f.at <= time /\ f.at \in Nat
      BY <1>2
    <3> QED
      BY <1>1, <1>3, <3>1, <3>2
  <2> QED
    BY <1>3, <2>1, <2>2
<1>6. log' = out.log /\ time' = time
      /\ (expireAt' = time + Window \/ (expireAt' = expireAt /\ log' \subseteq log))
  BY <1>3, <1>4 DEF Runs
<1>7. CASE Reply(e, out)
  <2>1. decision' = [by |-> "script", allowed |-> out.allowed, remaining |-> out.remaining,
                     retry |-> out.retry, now |-> e.at]
    BY <1>7 DEF Reply
  <2>2. Refused' => /\ decision'.now = e.at
                    /\ Cardinality(Surviving(log', e.at + decision'.retry)) < Limit
                    /\ ~(Cardinality(Surviving(log', e.at + decision'.retry - 1)) < Limit)
    BY <1>3, <1>6, <2>1 DEF Refused
  <2>3. \/ admitted' = admitted
        \/ admitted' = admitted \cup {e} /\ e \in log'
    BY <1>3, <1>6, <1>7 DEF Reply
  <2>4. decision' \in Decisions(e.at)
    BY <1>3, <1>5, <2>1 DEF Decisions
  <2> QED
    BY <1>3, <1>6, <2>2, <2>3, <2>4 DEF Effect
<1>8. CASE NoReply
  <2>1. decision' = Undecided /\ admitted' = admitted
    BY <1>8 DEF NoReply
  <2>2. ~Refused'
    BY <2>1 DEF Refused, Undecided
  <2>3. decision' \in Decisions(e.at)
    BY <1>1, <2>1 DEF Decisions, Undecided
  <2> QED
    BY <1>3, <1>6, <2>1, <2>2, <2>3 DEF Effect
<1> QED
  BY <1>4, <1>7, <1>8

\* Every step of a request that runs the script.
Sends(now) == Allow(now) \/ ReplyLost(now)
Resends(e) == Resend(e) \/ ResendLost(e)

LEMMA SendEffect ==
  ASSUME WInv, NEW now \in Timestamps, Sends(now)
  PROVE  Effect(Entry(members + 1, now))
<1> DEFINE e == Entry(members + 1, now)
<1>1. now \in 0 .. time /\ now + Skew >= time /\ members \in Nat
  BY DEF Timestamps, WInv, TypeOK
<1>2. members < MaxRequests /\ members' = members + 1
  BY DEF Sends, Allow, ReplyLost
<1>3. e \in [id : 1 .. members', at : 0 .. time] /\ e.at = now
  BY <1>1, <1>2 DEF Entry
<1>4. waiting' \subseteq waiting \cup {e} /\ Runs(Script(log, e))
      /\ (Reply(e, Script(log, e)) \/ NoReply)
  BY DEF Sends, Allow, ReplyLost
<1>5. members' \in {members, members + 1} /\ members' <= MaxRequests
  BY <1>1, <1>2
<1> HIDE DEF e
<1>6. Effect(e)
  BY <1>1, <1>3, <1>4, <1>5, RunEffect
<1> QED
  BY <1>6 DEF e

LEMMA ResendEffect ==
  ASSUME WInv, NEW e \in waiting, Resends(e)
  PROVE  Effect(e)
<1>1. e.at + Skew >= time /\ members' = members /\ waiting' \subseteq waiting \cup {e}
      /\ Runs(Script(log, e)) /\ (Reply(e, Script(log, e)) \/ NoReply)
  BY DEF Resends, Resend, ResendLost, Timestamps
<1>2. e \in [id : 1 .. members', at : 0 .. time] /\ members' <= MaxRequests
  BY <1>1 DEF WInv, TypeOK, Entries
<1> QED
  BY <1>1, <1>2, RunEffect

LEMMA WInit == Init => WInv
<1> SUFFICES ASSUME Init PROVE WInv OBVIOUS
<1>1. TypeOK
  BY DEF Init, TypeOK, Undecided, Entries
<1>2. Stored(log)
  BY FS_EmptySet DEF Init, Stored
<1>3. WithinLimit
  <2>1. \A a, b : Between(a, b) = {}
    BY DEF Init, Between
  <2> QED
    BY <2>1, FS_EmptySet DEF WithinLimit
<1> QED
  BY <1>1, <1>2, <1>3 DEF Init, WInv, KeyOK, Remembered, RetrySuffices, RetryIsTight, Refused, Undecided

\* A run of the script keeps the invariant.
LEMMA EffectKeeps ==
  ASSUME WInv, NEW e, Effect(e)
  PROVE  WInv'
<1> DEFINE now == e.at
<1>1. /\ now \in Nat /\ time \in Nat /\ now <= time /\ time <= now + Skew
      /\ members \in Nat /\ expireAt \in 0 .. time + Window
      /\ time \in 0 .. MaxTime /\ members \in 0 .. MaxRequests
      /\ members' \in Nat /\ members <= members'
  BY DEF Effect, WInv, TypeOK
<1>2. e \in [id : 1 .. members', at : 0 .. time]
  BY DEF Effect
<1>3. Entries \subseteq [id : 1 .. members', at : 0 .. time]
  BY <1>1 DEF Entries
<1>4. TypeOK'
  <2>1. Entries' = [id : 1 .. members', at : 0 .. time]
    BY DEF Effect, Entries
  <2>2. log' \subseteq Entries' /\ waiting' \subseteq Entries' /\ admitted' \subseteq Entries'
    BY <1>2, <1>3, <2>1 DEF Effect, WInv, TypeOK
  <2>3. time' \in 0 .. MaxTime /\ members' \in 0 .. MaxRequests /\ expireAt' \in 0 .. time' + Window
    BY <1>1 DEF Effect
  <2>4. decision' \in [by : {"nobody", "script", "error"}, allowed : BOOLEAN,
                      remaining : 0 .. Limit - 1, retry : 0 .. Window + Skew, now : 0 .. time']
    BY <1>1 DEF Effect, Decisions
  <2> QED
    BY <2>2, <2>3, <2>4 DEF TypeOK
<1>5. Stored(log')
  BY DEF Effect
<1>6. KeyOK'
  <2>1. \A f \in log' : f.at \in Nat /\ f.at <= time
    BY <1>2, <1>4 DEF TypeOK, Entries, Effect
  <2>2. CASE expireAt' = time + Window
    BY <1>1, <2>1, <2>2 DEF KeyOK, Effect
  <2>3. CASE expireAt' = expireAt /\ log' \subseteq log
    BY <1>1, <2>3 DEF KeyOK, Effect, WInv
  <2> QED
    BY <2>2, <2>3 DEF Effect
<1>7. Remembered'
  <2> SUFFICES ASSUME NEW f \in admitted', f.at + Window > time PROVE f \in log'
    BY DEF Remembered, Effect
  <2>1. CASE f \in admitted
    <3>1. f \in log /\ f.at \in Nat
      BY <2>1 DEF WInv, Remembered, TypeOK, Entries
    <3>2. f \in Surviving(log, now)
      BY <1>1, <3>1 DEF Surviving
    <3> QED
      BY <3>2 DEF Effect
  <2>2. CASE f \notin admitted
    BY <2>2 DEF Effect
  <2> QED
    BY <2>1, <2>2
<1>8. WithinLimit'
  <2> SUFFICES ASSUME NEW from \in - Window .. MaxTime
               PROVE  Cardinality(Between(from, from + Window - Skew)') <= Limit
    BY DEF WithinLimit
  <2> DEFINE B == Between(from, from + Window - Skew)
  <2>1. CASE B' = B
    BY <2>1 DEF WInv, WithinLimit
  <2>2. CASE B' # B
    <3>1. from < now /\ now <= from + Window - Skew
      BY <1>2, <2>2 DEF Effect, Between
    <3>2. \A f \in B' : f \in admitted' /\ f.at > from /\ f.at \in Nat
      BY <1>4 DEF Between, TypeOK, Entries
    <3>3. B' \in SUBSET log'
      <4> SUFFICES ASSUME NEW f \in B' PROVE f \in log'
        OBVIOUS
      <4>1. f \in admitted' /\ f.at > from /\ f.at \in Nat
        BY <3>2
      <4> HIDE DEF B
      <4>2. f.at + Window > time
        BY <1>1, <3>1, <4>1
      <4> QED
        BY <1>7, <4>1, <4>2 DEF Remembered, Effect
    <3>4. IsFiniteSet(log') /\ Cardinality(log') <= Limit /\ Cardinality(log') \in Nat
      BY <1>5, FS_CardinalityType DEF Stored
    <3> HIDE DEF B
    <3>5. Cardinality(B') <= Cardinality(log') /\ IsFiniteSet(B')
      BY <3>3, <3>4, FS_Subset
    <3>6. Cardinality(B') \in Nat
      BY <3>5, FS_CardinalityType
    <3>7. Cardinality(B') <= Limit
      BY <3>4, <3>5, <3>6
    <3> QED
      BY <3>7 DEF B
  <2> QED
    BY <2>1, <2>2
<1>9. RetrySuffices' /\ RetryIsTight'
  BY DEF RetrySuffices, RetryIsTight, Open, Effect
<1> QED
  BY <1>4, <1>5, <1>6, <1>7, <1>8, <1>9 DEF WInv, Stored

\* So do a request that is lost, one that fails, and the passing of time.
LEMMA LostKeeps ==
  ASSUME WInv, NEW now \in Timestamps, RequestLost(now)
  PROVE  WInv'
<1>1. /\ members' = members + 1 /\ members < MaxRequests /\ members \in Nat
      /\ waiting' = waiting \cup {Entry(members + 1, now)}
      /\ decision' = Undecided /\ UNCHANGED <<time, log, expireAt, admitted>>
  BY DEF RequestLost, NoReply, WInv, TypeOK
<1>2. TypeOK'
  <2>1. Entries \subseteq Entries'
    BY <1>1 DEF Entries
  <2>2. Entry(members + 1, now) \in Entries'
    BY <1>1 DEF Entries, Entry, Timestamps
  <2>3. log' \subseteq Entries' /\ waiting' \subseteq Entries' /\ admitted' \subseteq Entries'
    BY <1>1, <2>1, <2>2 DEF WInv, TypeOK
  <2>4. decision' \in [by : {"nobody", "script", "error"}, allowed : BOOLEAN,
                      remaining : 0 .. Limit - 1, retry : 0 .. Window + Skew, now : 0 .. time']
    BY <1>1 DEF Undecided, WInv, TypeOK
  <2>5. members' \in 0 .. MaxRequests
    BY <1>1
  <2> QED
    BY <1>1, <2>3, <2>4, <2>5 DEF WInv, TypeOK
<1>3. RetrySuffices' /\ RetryIsTight'
  BY <1>1 DEF RetrySuffices, RetryIsTight, Refused, Undecided
<1> QED
  BY <1>1, <1>2, <1>3 DEF WInv, Stored, KeyOK, Remembered, WithinLimit, Between

LEMMA FailsKeeps ==
  ASSUME WInv, NEW e \in waiting, RedisFails(e)
  PROVE  WInv'
<1>1. decision' = [by |-> "error", allowed |-> FALSE, remaining |-> 0, retry |-> Window, now |-> e.at]
  BY DEF RedisFails, Denied
<1>2. UNCHANGED <<time, log, expireAt, members, admitted>> /\ waiting' \subseteq waiting
  BY DEF RedisFails
<1>3. TypeOK'
  <2>1. e.at \in 0 .. time /\ Window \in 0 .. Window + Skew /\ 0 \in 0 .. Limit - 1
    BY DEF WInv, TypeOK, Entries
  <2>2. decision' \in [by : {"nobody", "script", "error"}, allowed : BOOLEAN,
                      remaining : 0 .. Limit - 1, retry : 0 .. Window + Skew, now : 0 .. time']
    BY <1>1, <1>2, <2>1
  <2> QED
    BY <1>2, <2>2 DEF WInv, TypeOK, Entries
<1>4. RetrySuffices' /\ RetryIsTight'
  BY <1>1 DEF RetrySuffices, RetryIsTight, Refused
<1> QED
  BY <1>2, <1>3, <1>4 DEF WInv, Stored, KeyOK, Remembered, WithinLimit, Between

LEMMA TickKeeps == ASSUME WInv, Tick PROVE WInv'
<1>1. /\ time \in Nat /\ time' = time + 1 /\ time' \in 0 .. MaxTime
      /\ expireAt \in Nat /\ UNCHANGED <<expireAt, waiting, members, admitted>>
  BY DEF Tick, WInv, TypeOK
<1>2. decision' = Undecided
  BY DEF Tick
<1>3. log' \subseteq log /\ (time + 1 <= expireAt => log' = log) /\ (time + 1 > expireAt => log' = {})
  BY <1>1 DEF Tick
<1>4. TypeOK'
  <2>1. Entries \subseteq Entries'
    BY <1>1 DEF Entries
  <2>2. expireAt' \in 0 .. time' + Window
    BY <1>1 DEF WInv, TypeOK
  <2>3. decision' \in [by : {"nobody", "script", "error"}, allowed : BOOLEAN,
                      remaining : 0 .. Limit - 1, retry : 0 .. Window + Skew, now : 0 .. time']
    BY <1>1, <1>2 DEF Undecided
  <2>4. members' \in 0 .. MaxRequests /\ log' \subseteq Entries' /\ waiting' \subseteq Entries'
        /\ admitted' \subseteq Entries'
    BY <1>1, <1>3, <2>1 DEF WInv, TypeOK
  <2> QED
    BY <1>1, <2>2, <2>3, <2>4 DEF TypeOK
<1>5. Stored(log')
  BY <1>3, FS_EmptySet DEF WInv, Stored, Tick
<1>6. KeyOK'
  BY <1>1, <1>3 DEF WInv, KeyOK
<1>7. Remembered'
  <2> SUFFICES ASSUME NEW e \in admitted, e.at + Window > time + 1 PROVE e \in log'
    BY <1>1 DEF Remembered
  <2>1. e.at \in Nat
    BY DEF WInv, TypeOK, Entries
  <2>2. e \in log
    BY <1>1, <2>1 DEF WInv, Remembered
  <2>3. e.at + Window <= expireAt
    BY <2>2 DEF WInv, KeyOK
  <2>4. time + 1 <= expireAt
    BY <1>1, <2>1, <2>3
  <2> QED
    BY <1>3, <2>2, <2>4
<1>8. WithinLimit'
  BY <1>1 DEF WInv, WithinLimit, Between
<1>9. RetrySuffices' /\ RetryIsTight'
  BY <1>2 DEF RetrySuffices, RetryIsTight, Refused, Undecided
<1> QED
  BY <1>4, <1>5, <1>6, <1>7, <1>8, <1>9 DEF WInv, Stored

\* The strengthened invariant holds in every reachable state.
THEOREM WindowInvariance == Spec => []WInv
<1>1. WInv /\ [Next]_vars => WInv'
  <2> SUFFICES ASSUME WInv, [Next]_vars PROVE WInv' OBVIOUS
  <2>1. CASE UNCHANGED vars
    BY <2>1 DEF vars, WInv, TypeOK, Entries, Stored, KeyOK, Remembered, WithinLimit, Between,
       RetrySuffices, RetryIsTight, Refused, Open, Surviving
  <2>2. CASE Tick
    BY <2>2, TickKeeps
  <2>3. ASSUME NEW now \in Timestamps, RequestLost(now) PROVE WInv'
    BY <2>3, LostKeeps
  <2>4. ASSUME NEW now \in Timestamps, Allow(now) \/ ReplyLost(now) PROVE WInv'
    BY <2>4, SendEffect, EffectKeeps DEF Sends
  <2>5. ASSUME NEW e \in waiting, Resend(e) \/ ResendLost(e) PROVE WInv'
    BY <2>5, ResendEffect, EffectKeeps DEF Resends
  <2>6. ASSUME NEW e \in waiting, RedisFails(e) PROVE WInv'
    BY <2>6, FailsKeeps
  <2> QED
    BY <2>1, <2>2, <2>3, <2>4, <2>5, <2>6 DEF Next
<1> QED
  BY WInit, <1>1, PTL DEF Spec

\* Type correctness (TypeOK): the reply decoded by Redis.Allow is in range, its
\* delay at most the window and the skew (redis.go:52-74).
THEOREM WindowTypes == Spec => []TypeOK
<1>1. WInv => TypeOK BY DEF WInv
<1> QED BY WindowInvariance, <1>1, PTL

\* The limit holds across replicas (WithinLimit): no interval as long as the
\* window less the skew holds more than Limit admitted requests, however the
\* requests are reordered, resent or lost (redis.go:14-37).
THEOREM LimitHolds == Spec => []WithinLimit
<1>1. WInv => WithinLimit BY DEF WInv
<1> QED BY WindowInvariance, <1>1, PTL

\* A bucket stays small and has an expiry (BoundedMemory, redis.go:21-35).
THEOREM MemoryBounded == Spec => []BoundedMemory
<1>1. WInv => BoundedMemory
  BY DEF WInv, Stored, KeyOK, BoundedMemory, TypeOK
<1> QED BY WindowInvariance, <1>1, PTL

\* A refused request is told a delay after which there is room (RetrySuffices,
\* redis.go:24-31).
THEOREM DelaySuffices == Spec => []RetrySuffices
<1>1. WInv => RetrySuffices BY DEF WInv
<1> QED BY WindowInvariance, <1>1, PTL

\* Nor is the delay longer than needed (RetryIsTight, redis.go:24-31): a client
\* that comes back one millisecond earlier is refused again.
THEOREM DelayIsTight == Spec => []RetryIsTight
<1>1. WInv => RetryIsTight BY DEF WInv
<1> QED BY WindowInvariance, <1>1, PTL

LEMMA Quotient ==
  ASSUME NEW a \in Nat, NEW b \in Nat \ {0}, NEW q \in Int, q = a \div b
  PROVE  q >= 0 /\ a < b * q + b
OBVIOUS

\* Rounding to the nearest multiple is off by half of it at most.
LEMMA RoundedDelay ==
  ASSUME NEW retry \in Nat
  PROVE  /\ RetryHeader(retry) \in Nat
         /\ retry <= RetryHeader(retry) * Second + Second \div 2
<1> DEFINE secs == (2 * retry + Second) \div (2 * Second)
<1>1. secs \in Nat /\ 2 * retry + Second < (2 * Second) * secs + 2 * Second
  <2>1. 2 * retry + Second \in Nat /\ 2 * Second \in Nat \ {0}
    OBVIOUS
  <2>2. secs \in Int
    BY <2>1
  <2> HIDE DEF secs
  <2>3. secs = (2 * retry + Second) \div (2 * Second)
    BY DEF secs
  <2> DEFINE a == 2 * retry + Second
             b == 2 * Second
  <2>4. a \in Nat /\ b \in Nat \ {0} /\ secs = a \div b
    BY <2>1, <2>3
  <2> HIDE DEF a, b
  <2>5. secs >= 0 /\ a < b * secs + b
    BY <2>2, <2>4, Quotient
  <2> QED
    BY <2>2, <2>5 DEF a, b
<1>2. RetryHeader(retry) \in Nat /\ secs <= RetryHeader(retry)
  BY <1>1 DEF RetryHeader
<1>3. \A m, n \in Nat : m <= n => m * Second <= n * Second
  OBVIOUS
<1> HIDE DEF secs
<1>4. secs * Second <= RetryHeader(retry) * Second /\ RetryHeader(retry) * Second \in Nat
  BY <1>1, <1>2, <1>3
<1>5. (2 * Second) * secs = 2 * (secs * Second) /\ secs * Second \in Nat
  BY <1>1
<1>6. Second \div 2 \in Nat /\ Second <= 2 * (Second \div 2) + 1
  OBVIOUS
<1> QED
  BY <1>1, <1>2, <1>4, <1>5, <1>6

\* A refused client is told how long it takes, no more and no less, and its
\* Retry-After header (middleware/ratelimit.go:27-33) is at most half a second
\* short of it (DelayIsRight).
THEOREM RightDelay == Spec => []DelayIsRight
<1>1. WInv => DelayIsRight
  <2> SUFFICES ASSUME WInv, Refused PROVE HeaderSuffices
    BY DEF WInv, DelayIsRight, HeaderSuffices
  <2> DEFINE told == decision.now + decision.retry
             after == decision.now + RetryHeader(decision.retry) * Second + Second \div 2
  <2>1. decision.now \in Nat /\ decision.retry \in Nat
    BY DEF WInv, TypeOK
  <2>2. told \in Nat /\ after \in Int /\ told <= after
    BY <2>1, RoundedDelay
  <2>3. Cardinality(Surviving(log, told)) < Limit
    BY DEF WInv, RetrySuffices, Open
  <2>4. Stored(log)
    BY DEF WInv
  <2> HIDE DEF told, after
  <2>5. IsFiniteSet(Surviving(log, told)) /\ Cardinality(Surviving(log, told)) \in Nat
    BY <2>2, <2>4, SurvivingStored
  <2>6. Surviving(log, after) \in SUBSET Surviving(log, told)
    BY <2>2, <2>4 DEF Surviving, Stored
  <2>7. Cardinality(Surviving(log, after)) <= Cardinality(Surviving(log, told))
        /\ Cardinality(Surviving(log, after)) \in Nat
    BY <2>5, <2>6, FS_Subset, FS_CardinalityType
  <2>8. Cardinality(Surviving(log, after)) < Limit
    BY <2>3, <2>5, <2>7
  <2> QED
    BY <2>8 DEF HeaderSuffices, Open, after
<1> QED BY WindowInvariance, <1>1, PTL
=============================================================================
