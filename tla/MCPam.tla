------------------------------- MODULE MCPam -------------------------------
(***************************************************************************)
(* Instances of PamChecker for TLC: two workers, a user with one good      *)
(* password, a user PAM accepts with any password, and one it never        *)
(* accepts; a name and a password of two lines.                            *)
(***************************************************************************)
EXTENDS PamChecker

CONSTANTS alice, guest, nobody, good, bad

MCLines == {alice, guest, nobody, good, bad}
MCUsers == {<<alice>>, <<guest>>, <<nobody, alice>>}
MCPws   == {<<good>>, <<bad>>, <<good, bad>>}
MCValid == {alice, guest} \X {good} \cup {guest} \X MCLines

\* A smaller instance for the liveness run with failures.
OneUser  == {<<alice>>}
OnePw    == {<<good>>}
OneValid == {<<alice, good>>}

=============================================================================
