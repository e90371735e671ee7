---------------------------- MODULE WindowLimit ----------------------------
(***************************************************************************)
(* What a rate limiter promises: a check at time t is granted when, for    *)
(* every limit, fewer than `limit` checks were counted for this id in the  *)
(* last `width` ticks of `res` seconds.  Every limit with room counts the  *)
(* check, granted or not.  Ids do not influence one another.               *)
(***************************************************************************)
EXTENDS Naturals, FiniteSetsExt

CONSTANTS Ids,      \* whatever is limited: remote hosts, user names
          Rates,    \* a sequence of records [limit, res, width]
          Times     \* 0 .. the latest time of a check

VARIABLES clock,    \* the time of the last check
          log,      \* log[i][id][k]: checks counted by limit i in tick k
          verdict   \* the last check: <<id, time, granted>>

wvars == <<clock, log, verdict>>

NoVerdict == <<>>

\* The ticks that limit i looks at, at time t.
Window(i, t) ==
    {k \in Times : k <= t \div Rates[i].res /\ k + Rates[i].width > t \div Rates[i].res}

Counted(i, id, t) == MapThenSumSet(LAMBDA k : log[i][id][k], Window(i, t))

Room(i, id, t) == Counted(i, id, t) < Rates[i].limit

Init ==
    /\ clock = 0
    /\ log = [i \in DOMAIN Rates |-> [id \in Ids |-> [k \in Times |-> 0]]]
    /\ verdict = NoVerdict

Check(id, t) ==
    /\ t >= clock
    /\ clock' = t
    /\ verdict' = <<id, t, \A i \in DOMAIN Rates : Room(i, id, t)>>
    /\ log' = [i \in DOMAIN Rates |-> [x \in Ids |-> [k \in Times |->
                 IF k \notin Window(i, t) THEN 0
                 ELSE IF x = id /\ k = t \div Rates[i].res /\ Room(i, id, t)
                 THEN log[i][x][k] + 1
                 ELSE log[i][x][k]]]]

Next == \E id \in Ids, t \in Times : Check(id, t)

Spec == Init /\ [][Next]_wvars

=============================================================================
