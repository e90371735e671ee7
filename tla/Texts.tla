------------------------------- MODULE Texts --------------------------------
(***************************************************************************)
(* A text that reaches swad from outside: the value of a header, a path, a *)
(* body, an address.  It is a sequence of symbols that grows by a chunk at  *)
(* a time, so that the pure functions of the modules that extend this one  *)
(* are checked on every text up to a length; kind says what it is a text of.*)
(***************************************************************************)
EXTENDS Naturals, Sequences

CONSTANTS Chunks,      \* Chunks[k]: what a text of kind k is made of
          MaxText      \* bound: MaxText[k] pieces at most

VARIABLES kind, text, pieces

textVars == <<kind, text, pieces>>
NoKind == "none"

TextInit == kind = NoKind /\ text = <<>> /\ pieces = 0

TextNext ==
    \/ /\ kind = NoKind
       /\ kind' \in DOMAIN Chunks
       /\ UNCHANGED <<text, pieces>>
    \/ /\ kind # NoKind /\ pieces < MaxText[kind]
       /\ \E c \in Chunks[kind] : text' = text \o c
       /\ pieces' = pieces + 1 /\ UNCHANGED kind

\* The index of the first symbol c in s, or one past the end: strcspn().
IndexOf(s, c) ==
    LET find[i \in 1 .. Len(s) + 1] ==
            IF i > Len(s) THEN i ELSE IF s[i] = c THEN i ELSE find[i + 1]
    IN find[1]

\* The pieces of s between the symbols c.
SplitAt(s, c) ==
    LET split[i \in 0 .. Len(s)] ==
            IF i = 0 THEN <<<<>>>>
            ELSE LET p == split[i - 1]
                 IN IF s[i] = c THEN Append(p, <<>>)
                    ELSE [p EXCEPT ![Len(p)] = Append(@, s[i])]
    IN split[Len(s)]

\* The last n elements of s.
LastOf(s, n) == IF Len(s) <= n THEN s ELSE SubSeq(s, Len(s) - n + 1, Len(s))
=============================================================================
