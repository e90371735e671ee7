------------------------------ MODULE MCLogin ------------------------------
(***************************************************************************)
(* An instance of LoginFlow for TLC: three realms, two of which have their *)
(* checker in common.                                                      *)
(***************************************************************************)
EXTENDS LoginFlow, TLC

ThreeRealms == {"Wiki", "Mail", "Files"}
TabsStack   == [r \in ThreeRealms |-> IF r = "Mail" THEN <<"pam">> ELSE <<"ldap">>]
MCAccepts   == [c \in {"ldap", "pam"} |-> {<<"ann", "a">>}]

Symmetry == Permutations(Threads)

\* Where requests overlap nothing is claimed: two GETs of them are looked at.
OverlapEarly == overlap => gets <= 2

=============================================================================
