----------------------------- MODULE MCSession -----------------------------
(***************************************************************************)
(* The sessions meet in one bucket, where they can disturb each other; the *)
(* other bucket stays empty.  Records in the same bucket are               *)
(* interchangeable, and so are threads.  A behaviour is about the table of  *)
(* sessions or about the properties of one of them.                         *)
(***************************************************************************)
EXTENDS SessionStore, SessionProps, TLC

MCHash == [s \in Sessions |-> 1]
Sym == Permutations(Threads) \cup Permutations(Sessions) \cup Permutations(PThreads)

StoreUnused == live = {} /\ now = 0 /\ \A t \in Threads : pc[t] = "idle"

\* Nothing is claimed about properties any more once requests overlapped that
\* change them.
Claimed == overlap # "others"

\* How many sessions the clients learn of, before the last requests.
Issued == Cardinality(cookies) <= 2

MCInit == Init /\ PropInit
MCNext == \/ Next /\ requests = 0 /\ UNCHANGED propVars
          \/ PropNext /\ StoreUnused /\ UNCHANGED vars
MCSpec == MCInit /\ [][MCNext]_<<vars, propVars>>
=============================================================================
