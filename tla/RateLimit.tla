----------------------------- MODULE RateLimit -----------------------------
(***************************************************************************)
(* The rate limiter, ratelimit.c: for every limit and id a ring of         *)
(* counters, one per tick, that is turned forward when the id is checked.  *)
(* It serves session creation (one limiter for all worker threads, with a  *)
(* mutex of its own) and failed logins (one per session and realm, used    *)
(* with authlock held).                                                    *)
(***************************************************************************)
EXTENDS Integers, Sequences, FiniteSetsExt

CONSTANTS
    Ids,        \* the ids that are limited
    Limits,     \* a sequence of records [seconds, limit]
    Threads,    \* the threads calling RateLimit_check()
    CallerLock, \* do the callers hold a lock around RateLimit_check()?
    MaxCounts,  \* MAXCOUNTS, the largest ring: 512 in the code
    Wrap,       \* the range of uint16_t: 65536 in the code
    MaxTime     \* bound: the last second of the clock

ASSUME RateAssumption ==
    /\ \A i \in DOMAIN Limits : Limits[i].seconds \in 1 .. Wrap - 1
                                /\ Limits[i].limit \in 1 .. Wrap - 1
    /\ CallerLock \in BOOLEAN
    /\ MaxCounts \in Nat \ {0} /\ Wrap \in Nat /\ Wrap > MaxCounts
    /\ MaxTime \in Nat

VARIABLES
    time,       \* CLOCK_MONOTONIC in seconds
    entries,    \* entries[i][id]: the Entry of limit i for id, or NoEntry
    call,       \* each thread's call: its id and the clock value it has read
    \* observed only
    clock,      \* the clock value of the last check that was decided
    verdict,    \* the last check that was decided: <<id, clock value, ok>>
    grants      \* grants[id][s]: checks granted with clock value s

rvars == <<time, entries, call, clock, verdict, grants>>

NoEntry   == [last |-> 0, total |-> -1, countpos |-> 0, counts |-> <<>>]
NoVerdict == <<>>
NoCall    == <<>>

\* RateLimitOpts_addLimit
Res(i)     == (Limits[i].seconds + MaxCounts - 1) \div MaxCounts
NCounts(i) == (Limits[i].seconds + Res(i) - 1) \div Res(i)

Sum(f, S) == MapThenSumSet(LAMBDA k : f[k], S)

EntryOK(i, e) ==
    \/ e = NoEntry
    \/ /\ e.last \in 0 .. Wrap - 1
       /\ e.countpos \in 0 .. NCounts(i) - 1
       /\ e.counts \in [0 .. NCounts(i) - 1 -> 0 .. Limits[i].limit]
       /\ e.total = Sum(e.counts, DOMAIN e.counts)
       /\ e.total <= Limits[i].limit

\* The counters stay in range, and total is the sum of the ring.
TypeOK ==
    /\ time \in 0 .. MaxTime
    /\ \A i \in DOMAIN Limits, x \in Ids : EntryOK(i, entries[i][x])
    /\ call \in [Threads -> [id : Ids, ts : 0 .. MaxTime] \cup {NoCall}]

Init ==
    /\ time = 0
    /\ entries = [i \in DOMAIN Limits |-> [x \in Ids |-> NoEntry]]
    /\ call = [t \in Threads |-> NoCall]
    /\ clock = 0 /\ verdict = NoVerdict
    /\ grants = [x \in Ids |-> [s \in 0 .. MaxTime |-> 0]]

-----------------------------------------------------------------------------
(* checkLimit()                                                            *)

\* expired(): `now - e->last` is computed in int, so that it is negative once
\* the clock wrapped around.
Expired(i, e, now) == e # NoEntry /\ now - e.last >= NCounts(i)

NewEntry(i, now) ==
    [last |-> now, total |-> 0, countpos |-> 0,
     counts |-> [k \in 0 .. NCounts(i) - 1 |-> 0]]

\* Mutant: the ring moves on, the counters it comes to are kept.
TurnKeeps(i, e, now) ==
    [e EXCEPT !.last = now,
              !.countpos = (e.countpos + ((now - e.last) % Wrap)) % NCounts(i)]

\* Mutant: the counter the ring starts from is dropped too.
TurnDropsOneMore(i, e, now) ==
    LET steps   == (now - e.last) % Wrap
        dropped == {(e.countpos + k) % NCounts(i) :
                       k \in 0 .. (IF steps < NCounts(i) THEN steps ELSE NCounts(i))}
    IN IF steps = 0 THEN e
       ELSE [last     |-> now,
             total    |-> e.total - Sum(e.counts, dropped),
             countpos |-> (e.countpos + steps) % NCounts(i),
             counts   |-> [k \in DOMAIN e.counts |->
                              IF k \in dropped THEN 0 ELSE e.counts[k]]]

\* `for (; e->last != now; ++e->last)`: the ring moves on by one counter per
\* tick, modulo 2^16, and the counters it comes to are dropped from the total.
Turn(i, e, now) ==
    LET steps   == (now - e.last) % Wrap
        dropped == {(e.countpos + k) % NCounts(i) :
                       k \in 1 .. (IF steps < NCounts(i) THEN steps ELSE NCounts(i))}
    IN [last     |-> now,
        total    |-> e.total - Sum(e.counts, dropped),
        countpos |-> (e.countpos + steps) % NCounts(i),
        counts   |-> [k \in DOMAIN e.counts |->
                         IF k \in dropped THEN 0 ELSE e.counts[k]]]

Count(e) == [e EXCEPT !.total = @ + 1, !.counts[e.countpos] = @ + 1]

\* The entry of id after the ring was turned; what is left to do is to count.
Current(i, x, sec) ==
    LET now == (sec \div Res(i)) % Wrap
        e   == entries[i][x]
    IN Turn(i, IF e = NoEntry THEN NewEntry(i, now) ELSE e, now)

HasRoom(i, e) == e.total < Limits[i].limit

CheckLimit(i, x, sec) ==
    LET cur == Current(i, x, sec)
    IN [y \in Ids |->
          IF y = x
            THEN IF HasRoom(i, cur) THEN Count(cur) ELSE cur
            ELSE IF Expired(i, entries[i][y], (sec \div Res(i)) % Wrap)
            THEN NoEntry
            ELSE entries[i][y]]

-----------------------------------------------------------------------------
(* RateLimit_check()                                                       *)

\* The caller's lock, if it has one, is taken; clock_gettime() comes before
\* pthread_mutex_lock().
ReadClock(t, x) ==
    /\ call[t] = NoCall
    /\ CallerLock => \A u \in Threads : call[u] = NoCall
    /\ call' = [call EXCEPT ![t] = [id |-> x, ts |-> time]]
    /\ UNCHANGED <<time, entries, clock, verdict, grants>>

\* All limits are checked, and count, even when one of them refuses.
Check(t) ==
    LET x   == call[t].id
        sec == call[t].ts
        ok  == \A i \in DOMAIN Limits : HasRoom(i, Current(i, x, sec))
    IN /\ call[t] # NoCall
       /\ entries' = [i \in DOMAIN Limits |-> CheckLimit(i, x, sec)]
       /\ call' = [call EXCEPT ![t] = NoCall]
       /\ clock' = sec
       /\ verdict' = <<x, sec, ok>>
       /\ grants' = IF ok THEN [grants EXCEPT ![x][sec] = @ + 1] ELSE grants
       /\ UNCHANGED time

Elapse ==
    /\ time < MaxTime
    /\ time' = time + 1
    /\ UNCHANGED <<entries, call, clock, verdict, grants>>

Next ==
    \/ \E t \in Threads : (\E x \in Ids : ReadClock(t, x)) \/ Check(t)
    \/ Elapse

Spec == Init /\ [][Next]_rvars

-----------------------------------------------------------------------------
(* Properties.                                                             *)

\* The tick, not reduced modulo 2^16, that an entry was last turned to, as far
\* as an observer at time clock can tell.
LastTick(i, e) ==
    LET cur == clock \div Res(i) IN cur - ((cur - e.last) % Wrap)

\* What the ring of an entry says about the ticks of the current window.
RingLog(i, x) ==
    LET e    == entries[i][x]
        last == LastTick(i, e)
        n    == NCounts(i)
    IN [k \in 0 .. MaxTime |->
          IF e = NoEntry \/ k > last \/ k + n <= last \/ k + n <= clock \div Res(i)
            THEN 0
            ELSE e.counts[(e.countpos - (last - k)) % n]]

Window == INSTANCE WindowLimit WITH
    Rates <- [i \in DOMAIN Limits |-> [limit |-> Limits[i].limit,
                                      res   |-> Res(i),
                                      width |-> NCounts(i)]],
    Times <- 0 .. MaxTime,
    log   <- [i \in DOMAIN Limits |-> [x \in Ids |-> RingLog(i, x)]]

\* The rings of checkLimit() are a sliding window over the checks of every id:
\* lazy turning, purging of expired entries and reuse of counters never show,
\* as long as an id is not absent for 2^16 ticks.
ImplementsWindow == Window!Spec

GrantedIn(x, from, to) == Sum(grants[x], {s \in 0 .. MaxTime : from <= s /\ s <= to})

\* No id is granted more than limit checks within any period shorter than the
\* configured one by less than a tick (with one second per counter: within the
\* configured period, as the sample configuration says).
AtMostRounded ==
    \A i \in DOMAIN Limits, x \in Ids, s \in 0 .. MaxTime :
        GrantedIn(x, s, s + Limits[i].seconds - Res(i)) <= Limits[i].limit

=============================================================================
