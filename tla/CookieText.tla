----------------------------- MODULE CookieText -----------------------------
(***************************************************************************)
(* Cookies (middleware/cookies.c): the field Cookie of a request is read    *)
(* into a table, and what handlers set is sent with the response.  The      *)
(* session of a client hangs on getting its cookie back.  A symbol is a     *)
(* byte.                                                                    *)
(***************************************************************************)
EXTENDS UrlText

CONSTANT MaxCookieName     \* the room for a name (2048), its end included

Semicolon == 59
NoCookie == <<0>>          \* the null pointer, which no C string is

\* Mutant: a space after a semicolon belongs to the name.
SkipNothing(s, i) == i

\* The position after spaces from i on.
SkipSpaces(s, i) == CHOOSE j \in i .. Len(s) + 1 :
                        /\ \A k \in i .. j - 1 : s[k] = Space
                        /\ j <= Len(s) => s[j] # Space

\* The cookie that starts at i: its first "=" counts, wherever it is.
Piece(s, i) == LET rest == SubSeq(s, i, Len(s))
               IN [d |-> IndexOf(rest, Semicolon) - 1, eq |-> IndexOf(rest, Equals) - 1]

Usable(p) == p.eq > 0 /\ p.eq < MaxCookieName /\ p.eq < p.d

\* The loop of MW_Cookies(): the cookies in the order they are put in the
\* table.  It ends at the first piece that is empty.
MW_Cookies(s) ==
    LET read[i \in 1 .. Len(s) + 1] ==
            IF i > Len(s) THEN <<>>
            ELSE LET p == Piece(s, i)
                     next == IF i + p.d <= Len(s) THEN SkipSpaces(s, i + p.d + 1) ELSE Len(s) + 1
                     cookie == [name |-> SubSeq(s, i, i + p.eq - 1),
                                value |-> SubSeq(s, i + p.eq + 1, i + p.d - 1)]
                 IN IF p.d = 0 THEN <<>>
                    ELSE (IF Usable(p) THEN <<cookie>> ELSE <<>>) \o read[next]
    IN read[SkipSpaces(s, 1)]

\* Cookies_getCookie(): the table keeps the last one of a name.
Cookies_getCookie(cookies, name) ==
    LET at == {i \in DOMAIN cookies : cookies[i].name = name}
    IN IF at = {} THEN NoCookie ELSE cookies[CHOOSE i \in at : \A j \in at : j <= i].value

\* What a client sends back of a field Set-Cookie.
CookiePair(name, value) == name \o <<Equals>> \o value

-----------------------------------------------------------------------------
(* Properties.                                                             *)

Sid == <<115>>
SidValue == <<118, Equals>>       \* base64 text may end in "="
Separator == <<Semicolon, Space>>
NoEmptyPiece(s) == \A i \in DOMAIN SplitAt(s, Semicolon) :
                       \E j \in DOMAIN SplitAt(s, Semicolon)[i] : SplitAt(s, Semicolon)[i][j] # Space

\* The cookie that swad set is read back among any cookies of other
\* applications on the host: behind them unless they have an empty piece, and
\* in front of them unless they use its name.
CookieComesBack ==
    kind = "cookie" /\ text # <<>> =>
        LET mine == CookiePair(Sid, SidValue)
            Get(s) == Cookies_getCookie(MW_Cookies(s), Sid)
        IN /\ Get(mine) = SidValue
           /\ NoEmptyPiece(text) => Get(text \o Separator \o mine) = SidValue
           /\ Get(text) = NoCookie => Get(mine \o Separator \o text) = SidValue
=============================================================================
