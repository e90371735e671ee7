------------------------ MODULE Authenticator_proofs ------------------------
(***************************************************************************)
(* Proofs about Authenticator, for any realms, stacks of checkers, user    *)
(* names, limits and periods.                                              *)
(***************************************************************************)
EXTENDS Authenticator, FiniteSetTheorems, TLAPS

\* The histories of one user name: events are numbered from zero.
Histories ==
    {f \in SUBSET (Times \X Nat) : IsFiniteSet(f) /\ \A e \in f : e[2] < Cardinality(f)}

Counts == [Names -> Histories]

\* An AuthInfo, given the users that were verified so far.
InfoSet == [user : verified \cup {NoUser}, blocks : SUBSET Names, fails : Counts \cup {<<>>}]

\* The users that are logged in come from checkers of their realm.
OwnChecker ==
    \A r \in Realms : SomeUser(r) =>
        /\ r \in DOMAIN Stack
        /\ info[r].user[2] \in Stacked(r)

AuthInv ==
    /\ info \in [Realms -> InfoSet]
    /\ \A r \in Realms : info[r] # NoInfo => info[r].fails \in Counts
    /\ time \in Times
    /\ OwnChecker

\* One more event is one the history does not hold yet.
LEMMA HistoryGrows ==
    ASSUME NEW f \in Histories, time \in Times
    PROVE  /\ WithEvent(f) \in Histories
           /\ <<time, Cardinality(f)>> \notin f
           /\ Cardinality(WithEvent(f)) = Cardinality(f) + 1
<1> DEFINE e == <<time, Cardinality(f)>>
<1>1. IsFiniteSet(f) /\ Cardinality(f) \in Nat /\ f \in SUBSET (Times \X Nat)
  BY FS_CardinalityType DEF Histories
<1>2. e \notin f
  BY <1>1 DEF Histories
<1>3. IsFiniteSet(WithEvent(f)) /\ Cardinality(WithEvent(f)) = Cardinality(f) + 1
  BY <1>1, <1>2, FS_AddElement DEF WithEvent
<1>4. \A d \in WithEvent(f) : d \in Times \X Nat /\ d[2] < Cardinality(f) + 1
  <2>1. \A d \in f : d \in Times \X Nat /\ d[2] < Cardinality(f)
    BY <1>1 DEF Histories
  <2> QED
    BY <2>1, <1>1 DEF WithEvent
<1> QED
  BY <1>2, <1>3, <1>4 DEF Histories

LEMMA CountStays ==
    ASSUME NEW ai \in InfoSet, ai.fails \in Counts, NEW n \in Names, time \in Times
    PROVE  /\ CountFail(ai, n) = [ai EXCEPT !.fails = [ai.fails EXCEPT ![n] = WithEvent(ai.fails[n])]]
           /\ CountFail(ai, n).fails \in Counts
<1>1. WithEvent(ai.fails[n]) \in Histories
  BY HistoryGrows DEF Counts
<1>2. CountFail(ai, n) = [ai EXCEPT !.fails = [ai.fails EXCEPT ![n] = WithEvent(ai.fails[n])]]
  BY DEF CountFail, InfoSet, Counts
<1> QED
  BY <1>1, <1>2 DEF Counts, InfoSet

LEMMA NeverCounted == {} \in Histories /\ Never \in Counts
BY FS_EmptySet DEF Never, Counts, Histories

LEMMA AuthInit == Init => AuthInv
BY AuthAssumption DEF Init, AuthInv, InfoSet, NoInfo, NoUser, Times, OwnChecker, SomeUser

\* What a blocked name's AuthInfo, a found one and a new one have in common.
LEMMA UnblockedInfo ==
    ASSUME AuthInv, NEW r \in Realms, NEW n \in Names
    PROVE  /\ Unblocked(r, n) \in InfoSet
           /\ Unblocked(r, n).fails \in Counts
           /\ Unblocked(r, n).user = info[r].user
<1>1. CASE n \in info[r].blocks
  <2>1. info[r] # NoInfo /\ info[r] \in InfoSet /\ info[r].fails \in Counts
    BY <1>1 DEF AuthInv, NoInfo
  <2>2. CountFail(info[r], n).fails \in Counts
        /\ CountFail(info[r], n) =
             [info[r] EXCEPT !.fails = [info[r].fails EXCEPT ![n] = WithEvent(info[r].fails[n])]]
    BY <2>1, CountStays DEF AuthInv
  <2> QED
    BY <1>1, <2>1, <2>2 DEF Unblocked, InfoSet
<1>2. CASE n \notin info[r].blocks /\ info[r] = NoInfo
  <2>1. Never \in Counts
    BY NeverCounted
  <2> QED
    BY <1>2, <2>1 DEF Unblocked, InfoOf, NewInfo, NoInfo, InfoSet
<1>3. CASE n \notin info[r].blocks /\ info[r] # NoInfo
  BY <1>3 DEF Unblocked, InfoOf, AuthInv, InfoSet
<1> QED
  BY <1>1, <1>2, <1>3

\* Replacing one AuthInfo by another good one.
LEMMA AuthReplace ==
    ASSUME AuthInv, NEW r \in Realms, NEW ai, info' = [info EXCEPT ![r] = ai],
           verified \subseteq verified', time' = time,
           ai \in InfoSet', ai.fails \in Counts,
           ai.user # NoUser => r \in DOMAIN Stack /\ ai.user[2] \in Stacked(r)
    PROVE  AuthInv'
<1>1. \A q \in Realms : info[q] \in InfoSet'
  BY DEF AuthInv, InfoSet
<1>2. info' \in [Realms -> InfoSet']
  BY <1>1 DEF AuthInv
<1>3. \A q \in Realms : info'[q] = IF q = r THEN ai ELSE info[q]
  BY DEF AuthInv
<1> QED
  BY <1>2, <1>3 DEF AuthInv, OwnChecker, SomeUser, InfoSet

LEMMA AuthLogin ==
    ASSUME AuthInv, NEW r \in Realms, NEW n \in Names, NEW p \in Pws, Login(r, n, p)
    PROVE  AuthInv'
<1>1. CASE LoginNoRealm(r, n, p) \/ LoginBlocked(r, n, p)
  BY <1>1 DEF LoginNoRealm, LoginBlocked, AuthInv, InfoSet, OwnChecker, SomeUser
<1>2. CASE LoginAccepted(r, n, p)
  <2>1. PICK i \in Accepting(r, n, p) :
           /\ info' = [info EXCEPT ![r] = [Unblocked(r, n) EXCEPT !.user = <<n, Stack[r][i]>>]]
           /\ verified' = verified \cup {<<n, Stack[r][i]>>}
    BY <1>2 DEF LoginAccepted, Answer
  <2> DEFINE ai == [Unblocked(r, n) EXCEPT !.user = <<n, Stack[r][i]>>]
  <2>5. info' = [info EXCEPT ![r] = ai]
    BY <2>1
  <2>2. ai \in InfoSet' /\ ai.fails \in Counts /\ ai.user = <<n, Stack[r][i]>>
    BY <2>1, UnblockedInfo DEF InfoSet
  <2> HIDE DEF ai
  <2>3. r \in DOMAIN Stack /\ Stack[r][i] \in Stacked(r)
    BY <1>2, <2>1 DEF LoginAccepted, MayAsk, HasCheckers, Accepting, Stacked
  <2>4. time' = time
    BY <1>2 DEF LoginAccepted
  <2>6. verified \subseteq verified' /\ ai.user[2] \in Stacked(r)
    BY <2>1, <2>2, <2>3
  <2> QED
    BY <2>2, <2>3, <2>4, <2>5, <2>6, AuthReplace
<1>3. CASE LoginRefused(r, n, p)
  <2> DEFINE ai == Unblocked(r, n)
  <2>1. /\ ai \in InfoSet /\ ai.fails \in Counts /\ ai.user = info[r].user
        /\ time \in Times
    BY UnblockedInfo DEF AuthInv
  <2>2. verified' = verified /\ time' = time
    BY <1>3 DEF LoginRefused
  <2> HIDE DEF ai
  <2>3. /\ CountFail(ai, n) \in InfoSet /\ CountFail(ai, n).fails \in Counts
        /\ CountFail(ai, n).user = info[r].user
    BY <2>1, CountStays DEF InfoSet
  <2>4. [ai EXCEPT !.blocks = @ \cup {n}] \in InfoSet
    BY <2>1 DEF InfoSet
  <2>5. PICK new \in {CountFail(ai, n), [ai EXCEPT !.blocks = @ \cup {n}]} :
           info' = [info EXCEPT ![r] = new]
    BY <1>3 DEF LoginRefused, Answer, ai
  <2>6. new \in InfoSet' /\ new.fails \in Counts /\ new.user = info[r].user
    BY <2>1, <2>2, <2>3, <2>4, <2>5 DEF InfoSet
  <2> QED
    BY <2>2, <2>5, <2>6, AuthReplace DEF AuthInv, OwnChecker, SomeUser
<1> QED
  BY <1>1, <1>2, <1>3 DEF Login

LEMMA AuthSilent ==
    ASSUME AuthInv, NEW r \in Realms, SilentLogin(r)
    PROVE  AuthInv'
<1>1. PICK q \in Realms :
         /\ SomeUser(q) /\ info[q].user[2] \in Stacked(r)
         /\ info' = [info EXCEPT ![r].user = info[q].user]
  BY DEF SilentLogin, Eligible
<1>2. verified' = verified /\ time' = time
  BY DEF SilentLogin
<1>3. info[r] # NoInfo /\ r \in DOMAIN Stack
  BY DEF SilentLogin, SilentReady, HasCheckers
<1> DEFINE ai == [info[r] EXCEPT !.user = info[q].user]
<1>4. ai \in InfoSet' /\ ai.fails \in Counts /\ ai.user = info[q].user
  BY <1>2, <1>3 DEF AuthInv, InfoSet
<1>5. info' = [info EXCEPT ![r] = ai]
  BY <1>1
<1> QED
  BY <1>1, <1>2, <1>3, <1>4, <1>5, AuthReplace

LEMMA AuthLogout ==
    ASSUME AuthInv, NEW r \in Realms, Logout(r)
    PROVE  AuthInv'
<1> DEFINE ai == [info[r] EXCEPT !.user = NoUser]
<1>1. info[r] # NoInfo
  BY DEF Logout, SomeUser, NoInfo
<1>2. verified' = verified /\ time' = time /\ info' = [info EXCEPT ![r] = ai]
  BY DEF Logout
<1>3. ai \in InfoSet' /\ ai.fails \in Counts /\ ai.user = NoUser
  BY <1>1, <1>2 DEF AuthInv, InfoSet
<1> QED
  BY <1>2, <1>3, AuthReplace

LEMMA AuthStep == AuthInv /\ [Next]_avars => AuthInv'
<1> SUFFICES ASSUME AuthInv, [Next]_avars PROVE AuthInv'
  OBVIOUS
<1>1. CASE Elapse
  BY <1>1, AuthAssumption DEF Elapse, AuthInv, InfoSet, OwnChecker, SomeUser, Times
<1>2. CASE UNCHANGED avars
  BY <1>2 DEF avars, AuthInv, InfoSet, OwnChecker, SomeUser
<1> QED
  BY <1>1, <1>2, AuthLogin, AuthSilent, AuthLogout DEF Next

\* Whoever is logged in for a realm was accepted in this session by a checker
\* of that realm: for every configuration, with silent logins.
THEOREM UserWasCheckedCorrect == Spec => []UserWasChecked
<1>1. AuthInv => UserWasChecked
  BY DEF AuthInv, InfoSet, OwnChecker, UserWasChecked, SomeUser
<1> QED
  BY <1>1, AuthInit, AuthStep, PTL DEF Spec

-----------------------------------------------------------------------------
(* Failed logins.  The limiter counts f, the checkers refused p; a name     *)
(* that is not blocked is no refusal ahead in the periods that go on.       *)

Past(f) == \A e \in f : e[1] <= time

Current(s) == s <= time /\ time <= s + Period - Res

Bounded(f, p) ==
    /\ f \in Histories /\ p \in Histories /\ Past(f) /\ Past(p)
    /\ \A s \in Times :
          /\ Cardinality(Within(f, s)) <= Limit
          /\ Cardinality(Within(p, s)) <= Cardinality(Within(f, s)) + 1

Level(f, p) ==
    \A s \in Times : Current(s) => Cardinality(Within(p, s)) <= Cardinality(Within(f, s))

LimitInv ==
    /\ failures \in [Realms -> Counts]
    /\ \A r \in Realms, n \in Names :
          /\ Bounded(InfoOf(r).fails[n], failures[r][n])
          /\ n \notin info[r].blocks => Level(InfoOf(r).fails[n], failures[r][n])

LEMMA WithinFinite ==
    ASSUME NEW f \in Histories, NEW s \in Times
    PROVE  IsFiniteSet(Within(f, s)) /\ Cardinality(Within(f, s)) \in Nat
<1>1. IsFiniteSet(f) /\ Within(f, s) \in SUBSET f
  BY DEF Histories, Within
<1> QED
  BY <1>1, FS_Subset, FS_CardinalityType

\* An event counts in the periods that go on, and in no other.
LEMMA WithinGrows ==
    ASSUME time \in Times, NEW f \in Histories, Past(f), NEW s \in Times
    PROVE  /\ Past(WithEvent(f))
           /\ Cardinality(Within(WithEvent(f), s)) =
                IF Current(s) THEN Cardinality(Within(f, s)) + 1 ELSE Cardinality(Within(f, s))
<1> DEFINE e == <<time, Cardinality(f)>>
<1>1. e \notin f /\ WithEvent(f) = f \cup {e}
  BY HistoryGrows DEF WithEvent
<1>2. Past(WithEvent(f))
  BY <1>1, AuthAssumption DEF Past, Times
<1>3. CASE Current(s)
  <2>1. Within(WithEvent(f), s) = Within(f, s) \cup {e} /\ e \notin Within(f, s)
    BY <1>1, <1>3 DEF Within, Current
  <2> QED
    BY <1>2, <1>3, <2>1, WithinFinite, FS_AddElement
<1>4. CASE ~Current(s)
  <2>1. Within(WithEvent(f), s) = Within(f, s)
    BY <1>1, <1>4 DEF Within, Current
  <2> QED
    BY <1>2, <1>4, <2>1
<1> QED
  BY <1>3, <1>4

LEMMA DivisionFacts ==
    ASSUME NEW a \in Int, NEW n \in Int, 0 < n
    PROVE  a \div n \in Int /\ a % n \in 0 .. n - 1 /\ a = n * (a \div n) + (a % n)
OBVIOUS

LEMMA SmallerFactor ==
    ASSUME NEW n \in Int, 0 < n, NEW q \in Int, NEW p \in Int, p <= q - 1
    PROVE  n * p <= n * q - n
<1>1. PICK d \in Nat : q = (p + 1) + d
  <2>1. q - (p + 1) \in Nat /\ q = (p + 1) + (q - (p + 1))
    OBVIOUS
  <2> QED
    BY <2>1
<1>2. n * q = n * p + n + n * d
  BY <1>1
<1>3. n * d >= 0
  BY <1>1
<1>4. n * q \in Int /\ n * p \in Int /\ n * d \in Int
  BY <1>1
<1> QED
  BY <1>2, <1>3, <1>4

\* The ticks of a period: no fewer seconds than the period, none of them lost.
LEMMA Ticks ==
    /\ Res \in Nat \ {0} /\ NCounts \in Nat
    /\ Period <= NCounts * Res
    /\ Res <= Period
<1> DEFINE a == Period + MaxCounts - 1
           b == Period + Res - 1
<1>1. a \in Int /\ MaxCounts \in Int /\ 0 < MaxCounts /\ Period \in Int /\ 0 < Period
  BY AuthAssumption
<1>2. Res \in Int /\ a % MaxCounts \in 0 .. MaxCounts - 1 /\ a = MaxCounts * Res + (a % MaxCounts)
  BY <1>1, DivisionFacts DEF Res
<1>3. 0 < Res
  <2> SUFFICES ASSUME Res <= 0 PROVE FALSE
    BY <1>2
  <2>1. MaxCounts * Res <= MaxCounts * 1 - MaxCounts
    BY <1>1, <1>2, SmallerFactor
  <2>2. MaxCounts * Res \in Int
    BY <1>1, <1>2
  <2> QED
    BY <1>1, <1>2, <2>1, <2>2
<1>4. Res <= Period
  <2> SUFFICES ASSUME Period <= Res - 1 PROVE FALSE
    BY <1>1, <1>2
  <2>1. MaxCounts * Period <= MaxCounts * Res - MaxCounts
    BY <1>1, <1>2, SmallerFactor
  <2>2. PICK c \in Nat : MaxCounts = c + 1
    <3>1. MaxCounts - 1 \in Nat /\ MaxCounts = (MaxCounts - 1) + 1
      BY <1>1
    <3> QED
      BY <3>1
  <2>3. PICK d \in Nat : Period = d + 1
    <3>1. Period - 1 \in Nat /\ Period = (Period - 1) + 1
      BY <1>1
    <3> QED
      BY <3>1
  <2>4. MaxCounts * Period = c * d + c + d + 1 /\ c * d \in Nat
    BY <2>2, <2>3
  <2>5. MaxCounts * Res \in Int
    BY <1>1, <1>2
  <2> QED
    BY <1>1, <1>2, <2>1, <2>2, <2>3, <2>4, <2>5
<1>5. b \in Int /\ NCounts \in Int /\ b % Res \in 0 .. Res - 1 /\ b = Res * NCounts + (b % Res)
  BY <1>1, <1>2, <1>3, DivisionFacts DEF NCounts
<1>6. Res * NCounts \in Int /\ NCounts * Res = Res * NCounts
  BY <1>2, <1>5
<1>7. 0 <= NCounts
  <2> SUFFICES ASSUME NCounts <= 0 - 1 PROVE FALSE
    BY <1>5
  <2>1. Res * NCounts <= Res * 0 - Res
    BY <1>2, <1>3, <1>5, SmallerFactor
  <2> QED
    BY <1>1, <1>2, <1>5, <1>6, <2>1
<1> QED
  BY <1>1, <1>2, <1>3, <1>4, <1>5, <1>6, <1>7

\* No tick forgets an event while a time of Period - Res seconds goes on.
LEMMA TickKept ==
    ASSUME NEW s \in Nat, NEW k \in Nat, NEW t \in Nat,
           s <= k, k <= t, t <= s + Period - Res
    PROVE  Tick(k) <= Tick(t) /\ Tick(k) + NCounts > Tick(t)
<1> DEFINE p == k \div Res
           q == t \div Res
<1>1. /\ Res \in Int /\ 0 < Res /\ NCounts \in Int /\ Period \in Int
      /\ Period <= Res * NCounts /\ Res * NCounts \in Int
  BY Ticks, AuthAssumption
<1>2. p \in Int /\ k % Res \in 0 .. Res - 1 /\ k = Res * p + (k % Res)
  BY <1>1, DivisionFacts
<1>3. q \in Int /\ t % Res \in 0 .. Res - 1 /\ t = Res * q + (t % Res)
  BY <1>1, DivisionFacts
<1> HIDE DEF p, q
<1>4. Res * p \in Int /\ Res * q \in Int
  BY <1>1, <1>2, <1>3
<1>5. p <= q
  <2> SUFFICES ASSUME q <= p - 1 PROVE FALSE
    BY <1>2, <1>3
  <2>1. Res * q <= Res * p - Res
    BY <1>1, <1>2, <1>3, SmallerFactor
  <2> QED
    BY <1>1, <1>2, <1>3, <1>4, <2>1
<1>6. q < p + NCounts
  <2> SUFFICES ASSUME p + NCounts <= q PROVE FALSE
    BY <1>1, <1>2, <1>3
  <2>1. Res * (p + NCounts) <= Res * (q + 1) - Res
    BY <1>1, <1>2, <1>3, SmallerFactor
  <2>2. Res * (p + NCounts) = Res * p + Res * NCounts /\ Res * (q + 1) = Res * q + Res
    BY <1>1, <1>2, <1>3
  <2> QED
    BY <1>1, <1>2, <1>3, <1>4, <2>1, <2>2
<1> QED
  BY <1>5, <1>6 DEF Tick, p, q

\* A history with room has room in every period that goes on.
LEMMA RoomWithin ==
    ASSUME time \in Times, NEW f \in Histories, Past(f),
           Cardinality(InPeriod(f, time)) < Limit, NEW s \in Times, Current(s)
    PROVE  Cardinality(Within(f, s)) < Limit
<1>1. IsFiniteSet(f) /\ f \in SUBSET (Times \X Nat)
  BY DEF Histories
<1>2. Within(f, s) \in SUBSET InPeriod(f, time)
  <2> SUFFICES ASSUME NEW e \in f, s <= e[1]
               PROVE  Tick(e[1]) <= Tick(time) /\ Tick(e[1]) + NCounts > Tick(time)
    BY DEF Within, InPeriod
  <2>1. e[1] \in Nat /\ e[1] <= time /\ s \in Nat /\ time \in Nat
    BY <1>1, AuthAssumption DEF Past, Times
  <2> QED
    BY <2>1, TickKept DEF Current
<1>3. InPeriod(f, time) \in SUBSET f
  BY DEF InPeriod
<1>4. IsFiniteSet(InPeriod(f, time)) /\ Cardinality(InPeriod(f, time)) \in Nat
  BY <1>1, <1>3, FS_Subset, FS_CardinalityType
<1> QED
  BY <1>2, <1>4, WithinFinite, FS_Subset, AuthAssumption

\* Counting a failure makes up for the refusal that blocked.
LEMMA CountingUnblocks ==
    ASSUME time \in Times, NEW f, NEW p, Bounded(f, p),
           Cardinality(InPeriod(f, time)) < Limit
    PROVE  Bounded(WithEvent(f), p) /\ Level(WithEvent(f), p)
<1>1. f \in Histories /\ p \in Histories /\ Past(f) /\ Past(p)
  BY DEF Bounded
<1>2. WithEvent(f) \in Histories /\ Past(WithEvent(f))
  BY <1>1, HistoryGrows, WithinGrows
<1>3. ASSUME NEW s \in Times
      PROVE  /\ Cardinality(Within(WithEvent(f), s)) <= Limit
             /\ Cardinality(Within(p, s)) <= Cardinality(Within(WithEvent(f), s)) + 1
             /\ Current(s) => Cardinality(Within(p, s)) <= Cardinality(Within(WithEvent(f), s))
  <2>1. /\ Cardinality(Within(f, s)) \in Nat /\ Cardinality(Within(p, s)) \in Nat
        /\ Cardinality(Within(f, s)) <= Limit
        /\ Cardinality(Within(p, s)) <= Cardinality(Within(f, s)) + 1
    BY <1>1, WithinFinite DEF Bounded
  <2>2. Current(s) => Cardinality(Within(f, s)) < Limit
    BY <1>1, RoomWithin
  <2>3. Cardinality(Within(WithEvent(f), s)) =
          IF Current(s) THEN Cardinality(Within(f, s)) + 1 ELSE Cardinality(Within(f, s))
    BY <1>1, WithinGrows
  <2> QED
    BY <2>1, <2>2, <2>3, AuthAssumption
<1> QED
  BY <1>1, <1>2, <1>3 DEF Bounded, Level

\* A refusal of a name that is not blocked is counted, or blocks.
LEMMA RefusalCounted ==
    ASSUME time \in Times, NEW f, NEW p, Bounded(f, p), Level(f, p)
    PROVE  /\ Cardinality(InPeriod(f, time)) < Limit =>
                Bounded(WithEvent(f), WithEvent(p)) /\ Level(WithEvent(f), WithEvent(p))
           /\ Bounded(f, WithEvent(p))
<1>1. f \in Histories /\ p \in Histories /\ Past(f) /\ Past(p)
  BY DEF Bounded
<1>2. /\ WithEvent(f) \in Histories /\ Past(WithEvent(f))
      /\ WithEvent(p) \in Histories /\ Past(WithEvent(p))
  BY <1>1, HistoryGrows, WithinGrows
<1>3. ASSUME NEW s \in Times
      PROVE  /\ Cardinality(Within(f, s)) \in Nat /\ Cardinality(Within(p, s)) \in Nat
             /\ Cardinality(Within(f, s)) <= Limit
             /\ Cardinality(Within(p, s)) <= Cardinality(Within(f, s)) + 1
             /\ Current(s) => Cardinality(Within(p, s)) <= Cardinality(Within(f, s))
             /\ Cardinality(Within(WithEvent(p), s)) =
                  IF Current(s) THEN Cardinality(Within(p, s)) + 1 ELSE Cardinality(Within(p, s))
             /\ Cardinality(Within(WithEvent(f), s)) =
                  IF Current(s) THEN Cardinality(Within(f, s)) + 1 ELSE Cardinality(Within(f, s))
  BY <1>1, WithinFinite, WithinGrows DEF Bounded, Level
<1>4. ASSUME Cardinality(InPeriod(f, time)) < Limit, NEW s \in Times
      PROVE  Current(s) => Cardinality(Within(f, s)) < Limit
  BY <1>1, <1>4, RoomWithin
<1>5. ASSUME Cardinality(InPeriod(f, time)) < Limit, NEW s \in Times
      PROVE  /\ Cardinality(Within(WithEvent(f), s)) <= Limit
             /\ Cardinality(Within(WithEvent(p), s)) <= Cardinality(Within(WithEvent(f), s)) + 1
             /\ Current(s) => Cardinality(Within(WithEvent(p), s)) <= Cardinality(Within(WithEvent(f), s))
  BY <1>3, <1>4, <1>5, AuthAssumption
<1>6. Cardinality(InPeriod(f, time)) < Limit =>
        Bounded(WithEvent(f), WithEvent(p)) /\ Level(WithEvent(f), WithEvent(p))
  BY <1>2, <1>5 DEF Bounded, Level
<1>7. ASSUME NEW s \in Times
      PROVE  Cardinality(Within(WithEvent(p), s)) <= Cardinality(Within(f, s)) + 1
  BY <1>3
<1>8. Bounded(f, WithEvent(p))
  BY <1>1, <1>2, <1>3, <1>7 DEF Bounded
<1> QED
  BY <1>6, <1>8

LEMMA LimitInit == Init => LimitInv
<1> SUFFICES ASSUME Init PROVE LimitInv
  OBVIOUS
<1>1. /\ failures \in [Realms -> Counts]
      /\ \A r \in Realms, n \in Names : failures[r][n] = {} /\ InfoOf(r).fails[n] = {}
  BY NeverCounted DEF Init, InfoOf, NewInfo, Never
<1>2. ASSUME NEW s \in Times PROVE Within({}, s) = {}
  BY DEF Within
<1>3. Bounded({}, {}) /\ Level({}, {})
  BY <1>2, NeverCounted, FS_EmptySet, AuthAssumption DEF Bounded, Level, Past
<1> QED
  BY <1>1, <1>3 DEF LimitInv

\* A step that replaces the AuthInfo of one realm concerns one name at most.
LEMMA LimitReplace ==
    ASSUME AuthInv, LimitInv, NEW r \in Realms, NEW n \in Names, NEW ai, NEW p \in Histories,
           info' = [info EXCEPT ![r] = ai], ai # NoInfo,
           failures' = [failures EXCEPT ![r] = [@ EXCEPT ![n] = p]], time' = time,
           \A m \in Names \ {n} : /\ ai.fails[m] = InfoOf(r).fails[m]
                                  /\ m \in ai.blocks <=> m \in info[r].blocks,
           Bounded(ai.fails[n], p), n \notin ai.blocks => Level(ai.fails[n], p)
    PROVE  LimitInv'
<1>1. info'[r] = ai /\ \A q \in Realms \ {r} : info'[q] = info[q]
  BY DEF AuthInv
<1>2. failures' \in [Realms -> Counts]
  BY DEF LimitInv, Counts
<1>3. \A f, h : (Bounded(f, h) => Bounded(f, h)') /\ (Level(f, h) => Level(f, h)')
  BY DEF Bounded, Level, Past, Current
<1>4. ASSUME NEW q \in Realms, NEW m \in Names, q # r \/ m # n
      PROVE  /\ Bounded(InfoOf(q)'.fails[m], failures'[q][m])
             /\ m \notin info'[q].blocks => Level(InfoOf(q)'.fails[m], failures'[q][m])
  <2>1. failures'[q][m] = failures[q][m]
    BY <1>4 DEF LimitInv, Counts
  <2>2. InfoOf(q)'.fails[m] = InfoOf(q).fails[m]
    BY <1>1, <1>4 DEF InfoOf
  <2>3. m \in info'[q].blocks <=> m \in info[q].blocks
    BY <1>1, <1>4
  <2> QED
    BY <2>1, <2>2, <2>3 DEF LimitInv
<1>5. InfoOf(r)' = ai /\ failures'[r][n] = p
  BY <1>1 DEF InfoOf, LimitInv, Counts
<1>6. ASSUME NEW q \in Realms, NEW m \in Names
      PROVE  /\ Bounded(InfoOf(q)'.fails[m], failures'[q][m])
             /\ m \notin info'[q].blocks => Level(InfoOf(q)'.fails[m], failures'[q][m])
  BY <1>1, <1>4, <1>5
<1>7. \A q \in Realms, m \in Names :
         /\ Bounded(InfoOf(q).fails[m], failures[q][m])'
         /\ m \notin info'[q].blocks => Level(InfoOf(q).fails[m], failures[q][m])'
  <2> SUFFICES ASSUME NEW q \in Realms, NEW m \in Names
               PROVE  /\ Bounded(InfoOf(q).fails[m], failures[q][m])'
                      /\ m \notin info'[q].blocks => Level(InfoOf(q).fails[m], failures[q][m])'
    OBVIOUS
  <2> QED
    BY <1>6, time' = time DEF Bounded, Level, Past, Current
<1> QED
  BY <1>2, <1>7 DEF LimitInv

\* Every other step keeps the histories and the blocks.
LEMMA LimitUnchanged ==
    ASSUME AuthInv, LimitInv, failures' = failures, time' = time,
           \A r \in Realms : InfoOf(r)'.fails = InfoOf(r).fails /\ info'[r].blocks = info[r].blocks
    PROVE  LimitInv'
BY DEF LimitInv, Bounded, Level, Past, Current

\* What the checkers are asked with: nothing but a paid block differs.
LEMMA LimitUnblocked ==
    ASSUME AuthInv, LimitInv, NEW r \in Realms, NEW n \in Names, MayAsk(r, n)
    PROVE  /\ Unblocked(r, n) # NoInfo /\ Unblocked(r, n) \in InfoSet /\ Unblocked(r, n).fails \in Counts
           /\ n \notin Unblocked(r, n).blocks
           /\ \A m \in Names \ {n} : /\ Unblocked(r, n).fails[m] = InfoOf(r).fails[m]
                                     /\ m \in Unblocked(r, n).blocks <=> m \in info[r].blocks
           /\ Bounded(Unblocked(r, n).fails[n], failures[r][n])
           /\ Level(Unblocked(r, n).fails[n], failures[r][n])
<1> DEFINE ai == Unblocked(r, n)
<1>1. ai \in InfoSet /\ ai.fails \in Counts
  BY UnblockedInfo
<1>2. <<>> \notin Counts \/ Names = {}
  BY DEF Counts
<1>3. ai # NoInfo
  BY <1>1, <1>2 DEF NoInfo
<1>4. CASE n \in info[r].blocks
  <2>1. info[r] # NoInfo /\ info[r] \in InfoSet /\ info[r].fails \in Counts /\ InfoOf(r) = info[r]
    BY <1>4 DEF AuthInv, NoInfo, InfoOf
  <2>2. time \in Times
    BY DEF AuthInv
  <2>3. /\ ai.blocks = info[r].blocks \ {n}
        /\ ai.fails = [info[r].fails EXCEPT ![n] = WithEvent(info[r].fails[n])]
    <3>1. ai = [CountFail(info[r], n) EXCEPT !.blocks = @ \ {n}]
      BY <1>4 DEF Unblocked
    <3>2. CountFail(info[r], n) =
            [info[r] EXCEPT !.fails = [info[r].fails EXCEPT ![n] = WithEvent(info[r].fails[n])]]
      BY <2>1, <2>2, CountStays
    <3> QED
      BY <2>1, <3>1, <3>2 DEF InfoSet
  <2>4. /\ ai.blocks = info[r].blocks \ {n} /\ ai.fails[n] = WithEvent(info[r].fails[n])
        /\ \A m \in Names \ {n} : ai.fails[m] = info[r].fails[m]
    BY <2>1, <2>3 DEF InfoSet, Counts
  <2>5. Cardinality(InPeriod(info[r].fails[n], time)) < Limit
    BY <1>4 DEF MayAsk, Room
  <2>6. Bounded(info[r].fails[n], failures[r][n])
    BY <1>4, <2>1 DEF LimitInv
  <2>7. /\ Bounded(WithEvent(info[r].fails[n]), failures[r][n])
        /\ Level(WithEvent(info[r].fails[n]), failures[r][n])
    BY <2>2, <2>5, <2>6, CountingUnblocks
  <2> QED
    BY <1>1, <1>3, <2>1, <2>4, <2>7
<1>5. CASE n \notin info[r].blocks
  <2>1. ai = InfoOf(r)
    BY <1>5 DEF Unblocked
  <2>2. InfoOf(r).blocks = info[r].blocks
    <3>1. info[r] = NoInfo => info[r].blocks = {}
      BY DEF NoInfo
    <3> QED
      BY <3>1 DEF InfoOf, NewInfo
  <2>3. Bounded(InfoOf(r).fails[n], failures[r][n]) /\ Level(InfoOf(r).fails[n], failures[r][n])
    BY <1>5 DEF LimitInv
  <2> QED
    BY <1>1, <1>3, <1>5, <2>1, <2>2, <2>3
<1> QED
  BY <1>4, <1>5

LEMMA LimitAccepted ==
    ASSUME AuthInv, LimitInv, NEW r \in Realms, NEW n \in Names, NEW p \in Pws, LoginAccepted(r, n, p)
    PROVE  LimitInv'
<1>1. PICK i \in Accepting(r, n, p) :
         info' = [info EXCEPT ![r] = [Unblocked(r, n) EXCEPT !.user = <<n, Stack[r][i]>>]]
  BY DEF LoginAccepted, Answer
<1> DEFINE ai == [Unblocked(r, n) EXCEPT !.user = <<n, Stack[r][i]>>]
<1>2. info' = [info EXCEPT ![r] = ai]
  BY <1>1
<1>3. MayAsk(r, n) /\ failures' = failures /\ time' = time
  BY DEF LoginAccepted
<1>4. /\ ai # NoInfo /\ ai.fails = Unblocked(r, n).fails /\ ai.blocks = Unblocked(r, n).blocks
  BY <1>3, LimitUnblocked DEF InfoSet, NoInfo, NoUser
<1>5. failures[r][n] \in Histories
  BY DEF LimitInv, Counts
<1>6. failures' = [failures EXCEPT ![r] = [@ EXCEPT ![n] = failures[r][n]]]
  BY <1>3 DEF LimitInv, Counts
<1>7. /\ \A m \in Names \ {n} : /\ ai.fails[m] = InfoOf(r).fails[m]
                                /\ m \in ai.blocks <=> m \in info[r].blocks
      /\ Bounded(ai.fails[n], failures[r][n]) /\ Level(ai.fails[n], failures[r][n])
  BY <1>3, <1>4, LimitUnblocked
<1> HIDE DEF ai
<1> QED
  BY <1>2, <1>3, <1>4, <1>5, <1>6, <1>7, LimitReplace

LEMMA LimitRefused ==
    ASSUME AuthInv, LimitInv, NEW r \in Realms, NEW n \in Names, NEW p \in Pws, LoginRefused(r, n, p)
    PROVE  LimitInv'
<1> DEFINE ai == Unblocked(r, n)
           h == WithEvent(failures[r][n])
<1>1. MayAsk(r, n) /\ time' = time /\ time \in Times
  BY DEF LoginRefused, AuthInv
<1>2. /\ ai # NoInfo /\ ai \in InfoSet /\ ai.fails \in Counts /\ n \notin ai.blocks
      /\ \A m \in Names \ {n} : /\ ai.fails[m] = InfoOf(r).fails[m]
                                /\ m \in ai.blocks <=> m \in info[r].blocks
      /\ Bounded(ai.fails[n], failures[r][n]) /\ Level(ai.fails[n], failures[r][n])
  BY <1>1, LimitUnblocked
<1>3. failures' = [failures EXCEPT ![r] = [@ EXCEPT ![n] = h]]
  BY DEF LoginRefused
<1>4. h \in Histories
  BY <1>1, HistoryGrows DEF LimitInv, Counts
<1>5. Room(ai, n) <=> Cardinality(InPeriod(ai.fails[n], time)) < Limit
  BY DEF Room
<1>6. CASE Room(ai, n)
  <2> DEFINE new == CountFail(ai, n)
  <2>1. info' = [info EXCEPT ![r] = new]
    BY <1>6 DEF LoginRefused, Answer
  <2>2. new = [ai EXCEPT !.fails = [ai.fails EXCEPT ![n] = WithEvent(ai.fails[n])]]
    BY <1>1, <1>2, CountStays
  <2>3. /\ new.blocks = ai.blocks /\ new.fails[n] = WithEvent(ai.fails[n])
        /\ \A m \in Names \ {n} : new.fails[m] = ai.fails[m]
        /\ new.fails \in Counts
    BY <1>1, <1>2, <2>2, CountStays DEF InfoSet, Counts
  <2>4. new # NoInfo
    BY <2>3 DEF NoInfo, Counts
  <2>5. Bounded(new.fails[n], h) /\ Level(new.fails[n], h)
    BY <1>1, <1>2, <1>5, <1>6, <2>3, RefusalCounted
  <2>6. \A m \in Names \ {n} : /\ new.fails[m] = InfoOf(r).fails[m]
                               /\ m \in new.blocks <=> m \in info[r].blocks
    BY <1>2, <2>3
  <2> HIDE DEF new, h
  <2> QED
    BY <1>1, <1>3, <1>4, <2>1, <2>4, <2>5, <2>6, LimitReplace
<1>7. CASE ~Room(ai, n)
  <2> DEFINE new == [ai EXCEPT !.blocks = @ \cup {n}]
  <2>1. info' = [info EXCEPT ![r] = new]
    BY <1>7 DEF LoginRefused, Answer
  <2>2. new.fails = ai.fails /\ new.blocks = ai.blocks \cup {n}
    BY <1>2 DEF InfoSet
  <2>3. new # NoInfo
    BY <2>2 DEF NoInfo
  <2>4. Bounded(new.fails[n], h) /\ n \in new.blocks
    BY <1>1, <1>2, <2>2, RefusalCounted
  <2>5. \A m \in Names \ {n} : /\ new.fails[m] = InfoOf(r).fails[m]
                               /\ m \in new.blocks <=> m \in info[r].blocks
    BY <1>2, <2>2
  <2> HIDE DEF new, h
  <2> QED
    BY <1>1, <1>3, <1>4, <2>1, <2>3, <2>4, <2>5, LimitReplace
<1> QED
  BY <1>6, <1>7

\* A user that comes or goes changes neither.
LEMMA LimitUser ==
    ASSUME AuthInv, LimitInv, NEW r \in Realms, info[r] # NoInfo, NEW u,
           info' = [info EXCEPT ![r] = [@ EXCEPT !.user = u]], failures' = failures, time' = time
    PROVE  LimitInv'
<1>1. info[r] \in InfoSet /\ info[r].fails \in Counts
  BY DEF AuthInv
<1>2. \A q \in Realms : info'[q] = IF q = r THEN [info[r] EXCEPT !.user = u] ELSE info[q]
  BY DEF AuthInv
<1>3. \A q \in Realms : info'[q].blocks = info[q].blocks /\ InfoOf(q)'.fails = InfoOf(q).fails
  <2>1. \A q \in Realms \ {r} : info'[q] = info[q] /\ InfoOf(q)' = InfoOf(q)
    BY <1>2 DEF InfoOf
  <2>2. /\ info'[r].blocks = info[r].blocks /\ info'[r].fails = info[r].fails
    BY <1>1, <1>2 DEF InfoSet
  <2>3. CASE Names = {}
    BY <2>1, <2>2, <2>3, <1>1 DEF InfoOf, NewInfo, NoInfo, Never, Counts
  <2>4. CASE Names # {}
    <3>1. info'[r] # NoInfo
      BY <1>1, <2>2, <2>4 DEF NoInfo, Counts
    <3> QED
      BY <2>1, <2>2, <3>1 DEF InfoOf
  <2> QED
    BY <2>3, <2>4
<1> QED
  BY <1>3, LimitUnchanged

LEMMA LimitElapse ==
    ASSUME AuthInv, LimitInv, Elapse
    PROVE  LimitInv'
<1>1. time' = time + 1 /\ info' = info /\ failures' = failures /\ time \in Times
  BY DEF Elapse, AuthInv
<1>2. ASSUME NEW f, NEW p, Bounded(f, p)
      PROVE  Bounded(f, p)'
  <2>1. Past(f)' /\ Past(p)'
    BY <1>1, <1>2, AuthAssumption DEF Bounded, Past, Times, Histories
  <2> QED
    BY <1>2, <2>1 DEF Bounded
<1>3. ASSUME NEW f, NEW p, Bounded(f, p), Level(f, p)
      PROVE  Level(f, p)'
  <2> SUFFICES ASSUME NEW s \in Times, Current(s)'
               PROVE  Cardinality(Within(p, s)) <= Cardinality(Within(f, s))
    BY DEF Level
  <2>1. CASE s <= time
    BY <1>1, <1>3, <2>1, AuthAssumption, Ticks DEF Level, Current, Times
  <2>2. CASE s = time + 1
    <3>1. Within(p, s) = {} /\ Within(f, s) = {}
      BY <1>1, <1>3, <2>2, AuthAssumption DEF Within, Bounded, Past, Times, Histories
    <3> QED
      BY <3>1, FS_EmptySet
  <2> QED
    BY <1>1, <2>1, <2>2, AuthAssumption DEF Current, Times
<1> QED
  BY <1>1, <1>2, <1>3 DEF LimitInv, InfoOf

LEMMA LimitStep == AuthInv /\ LimitInv /\ [Next]_avars => LimitInv'
<1> SUFFICES ASSUME AuthInv, LimitInv, [Next]_avars PROVE LimitInv'
  OBVIOUS
<1>1. ASSUME NEW r \in Realms, NEW n \in Names, NEW p \in Pws, Login(r, n, p)
      PROVE  LimitInv'
  <2>1. CASE LoginNoRealm(r, n, p) \/ LoginBlocked(r, n, p)
    BY <2>1, LimitUnchanged DEF LoginNoRealm, LoginBlocked, InfoOf
  <2> QED
    BY <1>1, <2>1, LimitAccepted, LimitRefused DEF Login
<1>2. ASSUME NEW r \in Realms, SilentLogin(r)
      PROVE  LimitInv'
  <2>1. info[r] # NoInfo /\ failures' = failures /\ time' = time
    BY <1>2 DEF SilentLogin, SilentReady
  <2>2. PICK u \in Eligible(r) : info' = [info EXCEPT ![r] = [@ EXCEPT !.user = u]]
    BY <1>2 DEF SilentLogin
  <2> QED
    BY <2>1, <2>2, LimitUser
<1>3. ASSUME NEW r \in Realms, Logout(r)
      PROVE  LimitInv'
  <2>1. info[r] # NoInfo
    BY <1>3 DEF Logout, SomeUser, NoInfo
  <2>2. info' = [info EXCEPT ![r] = [@ EXCEPT !.user = NoUser]] /\ failures' = failures /\ time' = time
    BY <1>3 DEF Logout
  <2> QED
    BY <2>1, <2>2, LimitUser
<1>4. CASE UNCHANGED avars
  BY <1>4, LimitUnchanged DEF avars, InfoOf
<1> QED
  BY <1>1, <1>2, <1>3, <1>4, LimitElapse DEF Next

\* The checkers refuse at most one login more than the limit in any time that
\* is shorter than the period by less than a tick: for every limit, period,
\* length of the ring and history of logins, blocks and their ends.
THEOREM AtMostOneMoreCorrect == Spec => []AtMostOneMore
<1>1. AuthInv /\ LimitInv => AtMostOneMore
  <2> SUFFICES ASSUME LimitInv, NEW r \in Realms, NEW n \in Names, NEW s \in Times
               PROVE  Cardinality(Within(failures[r][n], s)) <= Limit + 1
    BY DEF AtMostOneMore
  <2>1. Bounded(InfoOf(r).fails[n], failures[r][n])
    BY DEF LimitInv
  <2>2. /\ Cardinality(Within(InfoOf(r).fails[n], s)) \in Nat
        /\ Cardinality(Within(failures[r][n], s)) \in Nat
    BY <2>1, WithinFinite DEF Bounded
  <2> QED
    BY <2>1, <2>2, AuthAssumption DEF Bounded
<1> QED
  BY <1>1, AuthInit, AuthStep, LimitInit, LimitStep, PTL DEF Spec

=============================================================================
