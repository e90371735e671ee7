------------------------------- MODULE MCRate -------------------------------
(***************************************************************************)
(* Instances of RateLimit for TLC.  MaxCounts and Wrap are scaled down     *)
(* from 512 and 65536 so that rings with several seconds per counter, and  *)
(* the wrap-around of the tick counter, happen within a few seconds.       *)
(***************************************************************************)
EXTENDS RateLimit

\* With MaxCounts = 2: one second per counter, and two seconds per counter.
TwoLimits == <<[seconds |-> 2, limit |-> 1], [seconds |-> 4, limit |-> 2]>>

\* One second per counter.
FineLimit == <<[seconds |-> 3, limit |-> 2]>>

=============================================================================
