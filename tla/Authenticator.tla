--------------------------- MODULE Authenticator ---------------------------
(***************************************************************************)
(* The authentication state of one session, authenticator.c: who is logged *)
(* in for which realm, which user names are blocked, and the failed logins *)
(* counted for them.  Every operation holds authlock from start to end.    *)
(*                                                                         *)
(* The limiter of failed logins is the sliding window of WindowLimit with  *)
(* one limit (RateLimit implements it when its callers hold a lock, as     *)
(* here).  It counts in ticks: at most MaxCounts of them make a period, so *)
(* that a tick of the default period of 900 seconds is 2 seconds long.     *)
(***************************************************************************)
EXTENDS Naturals, Sequences, FiniteSets

CONSTANTS
    Realms,     \* realm names that are asked for
    Names, Pws, \* user names and passwords that are tried
    Stack,      \* the configured realms: realm -> sequence of checker names
    Accepts,    \* the registered checkers: name -> set of <<name, password>>
    Limit,      \* failed logins allowed ...
    Period,     \* ... within this many seconds
    MaxCounts,  \* MAXCOUNTS, the most ticks of a period: 512 in the code
    MaxTime     \* bound: the last second of the clock

Stacked(r) == {Stack[r][i] : i \in DOMAIN Stack[r]}

ASSUME AuthAssumption ==
    /\ DOMAIN Stack \subseteq Realms
    /\ \A c \in DOMAIN Accepts : Accepts[c] \subseteq Names \X Pws
    /\ Limit \in Nat \ {0} /\ Period \in Nat \ {0} /\ MaxTime \in Nat
    /\ MaxCounts \in Nat \ {0}

VARIABLES
    info,       \* info[r]: the AuthInfo of realm r, or NoInfo
    time,       \* CLOCK_MONOTONIC in seconds
    \* observed only
    outcome,    \* what the last login returned: 1, 0 or "blocked" (-1)
    verified,   \* <<user name, checker name>> some checker accepted so far
    failures    \* failures[r][n]: the logins for n that all checkers of realm r
                \* were asked about and refused

avars == <<info, time, outcome, verified, failures>>

Times  == 0 .. MaxTime
Never  == [n \in Names |-> {}]
NoUser == <<>>
NoInfo == [user |-> NoUser, blocks |-> {}, fails |-> <<>>]

\* The AuthInfo that getAuthInfo() and getLimits() create when there is none.
NewInfo == [user |-> NoUser, blocks |-> {}, fails |-> Never]

InfoOf(r) == IF info[r] = NoInfo THEN NewInfo ELSE info[r]

\* A user is a pair of its name and the name of the checker that accepted it.
SomeUser(r) == info[r].user # NoUser

TypeOK ==
    /\ \A r \in Realms : info[r] # NoInfo =>
          /\ info[r].user = NoUser \/ info[r].user \in Names \X DOMAIN Accepts
          /\ info[r].blocks \subseteq Names
          /\ info[r].fails \in [Names -> SUBSET (Times \X Nat)]
    /\ time \in Times
    /\ outcome \in {"none", "ok", "failed", "blocked"}

Init ==
    /\ info = [r \in Realms |-> NoInfo]
    /\ time = 0
    /\ outcome = "none"
    /\ verified = {}
    /\ failures = [r \in Realms |-> Never]

-----------------------------------------------------------------------------
(* RateLimit_check() on the failed logins of one AuthInfo.  A history is    *)
(* the set of the events counted so far, each its time and its number.      *)

\* The seconds of a tick, and the ticks of the period, rounded up both.
Res     == (Period + MaxCounts - 1) \div MaxCounts
NCounts == (Period + Res - 1) \div Res

Tick(t) == t \div Res

\* What is left of a history at time t: the events of the last NCounts ticks.
InPeriod(f, t) == {e \in f : Tick(e[1]) <= Tick(t) /\ Tick(e[1]) + NCounts > Tick(t)}

Room(ai, n) == Cardinality(InPeriod(ai.fails[n], time)) < Limit

WithEvent(f) == f \cup {<<time, Cardinality(f)>>}

CountFail(ai, n) == [ai EXCEPT !.fails[n] = WithEvent(@)]

-----------------------------------------------------------------------------
(* Operations.                                                             *)

\* The realm is configured and somebody can be asked.
HasCheckers(r) == r \in DOMAIN Stack /\ Stack[r] # <<>>

\* The checkers of the realm that accept the credentials; a name on the stack
\* that is not registered is passed over.
Accepting(r, n, p) ==
    {i \in DOMAIN Stack[r] : Stack[r][i] \in DOMAIN Accepts
                             /\ <<n, p>> \in Accepts[Stack[r][i]]}

Answer(r, ai, result) ==
    /\ info' = [info EXCEPT ![r] = ai]
    /\ outcome' = result

\* No such realm, or nobody to ask.
LoginNoRealm(r, n, p) ==
    /\ ~HasCheckers(r)
    /\ outcome' = "failed"
    /\ UNCHANGED <<info, time, verified, failures>>

\* The name is blocked and stays so: no checker is asked.
LoginBlocked(r, n, p) ==
    /\ HasCheckers(r)
    /\ n \in info[r].blocks /\ ~Room(info[r], n)
    /\ outcome' = "blocked"
    /\ UNCHANGED <<info, time, verified, failures>>

\* Mutant: lifting a block is free.
UnblockedFree(r, n) == [InfoOf(r) EXCEPT !.blocks = @ \ {n}]

\* The AuthInfo with which the checkers are asked: a block that is over is
\* lifted, at the price of one counted failure.
Unblocked(r, n) ==
    IF n \in info[r].blocks
      THEN [CountFail(info[r], n) EXCEPT !.blocks = @ \ {n}]
      ELSE InfoOf(r)

MayAsk(r, n) ==
    /\ HasCheckers(r)
    /\ n \in info[r].blocks => Room(info[r], n)

\* The first checker that accepts ends the search.
LoginAccepted(r, n, p) ==
    /\ MayAsk(r, n)
    /\ \E i \in Accepting(r, n, p) :
          /\ \A j \in Accepting(r, n, p) : i <= j
          /\ Answer(r, [Unblocked(r, n) EXCEPT !.user = <<n, Stack[r][i]>>], "ok")
          /\ verified' = verified \cup {<<n, Stack[r][i]>>}
    /\ UNCHANGED <<time, failures>>

LoginRefused(r, n, p) ==
    /\ MayAsk(r, n)
    /\ Accepting(r, n, p) = {}
    /\ LET ai == Unblocked(r, n)
       IN IF Room(ai, n)
            THEN Answer(r, CountFail(ai, n), "failed")
            ELSE Answer(r, [ai EXCEPT !.blocks = @ \cup {n}], "blocked")
    /\ failures' = [failures EXCEPT ![r][n] = WithEvent(@)]
    /\ UNCHANGED <<time, verified>>

Login(r, n, p) ==
    \/ LoginNoRealm(r, n, p) \/ LoginBlocked(r, n, p)
    \/ LoginAccepted(r, n, p) \/ LoginRefused(r, n, p)

\* Mutant: the checker does not matter for a silent login.
EligibleAny(r) == {info[q].user : q \in {q \in Realms : SomeUser(q)}}

\* The users of all realms that silentLogin() may take over for realm r.
Eligible(r) ==
    {info[q].user : q \in {q \in Realms : SomeUser(q) /\ info[q].user[2] \in Stacked(r)}}

SilentReady(r) ==
    /\ info[r] # NoInfo /\ ~SomeUser(r)
    /\ HasCheckers(r)
    /\ Eligible(r) # {}

\* The order of the hash table decides which one it is.
SilentLogin(r) ==
    /\ SilentReady(r)
    /\ \E u \in Eligible(r) : info' = [info EXCEPT ![r].user = u]
    /\ UNCHANGED <<time, outcome, verified, failures>>

Logout(r) ==
    /\ SomeUser(r)
    /\ info' = [info EXCEPT ![r].user = NoUser]
    /\ UNCHANGED <<time, outcome, verified, failures>>

Elapse ==
    /\ time < MaxTime
    /\ time' = time + 1
    /\ UNCHANGED <<info, outcome, verified, failures>>

Next ==
    \/ \E r \in Realms :
          \/ \E n \in Names, p \in Pws : Login(r, n, p)
          \/ SilentLogin(r)
          \/ Logout(r)
    \/ Elapse

Spec == Init /\ [][Next]_avars

-----------------------------------------------------------------------------
(* Properties.                                                             *)

\* Whoever is logged in for a realm was accepted, in this session, by one of
\* the checkers of that realm, under the name it is logged in with: silent
\* logins, blocks, repeated logins and logouts in any order included.
UserWasChecked ==
    \A r \in Realms : SomeUser(r) =>
        /\ info[r].user \in verified
        /\ r \in DOMAIN Stack
        /\ info[r].user[2] \in Stacked(r)

\* The events from second s on for as long as the limiter surely remembers s:
\* for the period less what a tick is longer than a second.
Within(f, s) == {e \in f : s <= e[1] /\ e[1] <= s + Period - Res}

\* Within any time shorter than the period by less than a tick, the checkers
\* refuse at most one login more than the limit: the one that finds the limit
\* reached, and blocks.  Lifting a block does not open the way for another
\* one.  (The sample configuration, line 66, promises one less: "when it is
\* reached, no more logins are performed"; and the first failures of a period
\* of more than MaxCounts seconds can be forgotten before it is over.)
AtMostOneMore ==
    \A r \in Realms, n \in Names, s \in Times :
        Cardinality(Within(failures[r][n], s)) <= Limit + 1

=============================================================================
