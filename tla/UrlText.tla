------------------------------ MODULE UrlText -------------------------------
(***************************************************************************)
(* Text on its way through forms and links: percent encoding (urlencode.c)  *)
(* and the check of UTF-8 (utf8.c).  A symbol is a byte.                    *)
(***************************************************************************)
EXTENDS Texts

Space == 32
Percent == 37
Ampersand == 38
Plus == 43
Equals == 61
QuestionMark == 63

Upper == 65 .. 90
Digits == 48 .. 57
Unreserved == Upper \cup Digits \cup (97 .. 122) \cup {45, 46, 95, 126}
HexDigits == Digits \cup (65 .. 70)
HexValue(c) == IF c \in Digits THEN c - 48 ELSE c - 55
HexDigit(v) == IF v > 9 THEN v + 55 ELSE v + 48

\* What a C string says: everything before the first 0.
CString(s) == SubSeq(s, 1, IndexOf(s, 0) - 1)

\* urldecode()
Urldecode(s) ==
    LET decode[i \in 1 .. Len(s) + 3] ==
            IF i > Len(s) THEN <<>>
            ELSE IF s[i] = Plus THEN <<Space>> \o decode[i + 1]
            ELSE IF s[i] = Percent /\ i + 2 <= Len(s) /\ {s[i + 1], s[i + 2]} \subseteq HexDigits
              THEN <<16 * HexValue(s[i + 1]) + HexValue(s[i + 2])>> \o decode[i + 3]
            ELSE <<s[i]>> \o decode[i + 1]
    IN CString(decode[1])

\* Mutant: only what separates parameters is encoded.
UrlencodeSome(s) ==
    LET encode[i \in 0 .. Len(s)] ==
            IF i = 0 THEN <<>>
            ELSE encode[i - 1] \o (IF s[i] \in {Ampersand, Equals}
                                     THEN <<Percent, HexDigit(s[i] \div 16), HexDigit(s[i] % 16)>>
                                     ELSE <<s[i]>>)
    IN encode[Len(s)]

\* urlencodeto()
Urlencode(s) ==
    LET encode[i \in 0 .. Len(s)] ==
            IF i = 0 THEN <<>>
            ELSE encode[i - 1] \o (IF s[i] \in Unreserved THEN <<s[i]>>
                                   ELSE <<Percent, HexDigit(s[i] \div 16), HexDigit(s[i] % 16)>>)
    IN encode[Len(s)]

-----------------------------------------------------------------------------

Continues(c) == c \in 128 .. 191
Leads(c) == c \in 192 .. 247
More(c) == IF c < 224 THEN 1 ELSE IF c < 240 THEN 2 ELSE 3

\* A character of several bytes starts at i and is all there.
Whole(s, i) == /\ Leads(s[i]) /\ i + More(s[i]) <= Len(s)
               /\ \A b \in 1 .. More(s[i]) : Continues(s[i + b])

\* utf8_sanitize(): a byte that does not belong to a character is replaced.
\* utf8_check() accepts what would not be changed.
Utf8_sanitize(s) ==
    LET clean[i \in 1 .. Len(s) + 1] ==
            IF i > Len(s) THEN <<>>
            ELSE IF s[i] < 128 THEN <<s[i]>> \o clean[i + 1]
            ELSE IF Whole(s, i) THEN SubSeq(s, i, i + More(s[i])) \o clean[i + More(s[i]) + 1]
            ELSE <<QuestionMark>> \o clean[i + 1]
    IN clean[1]

-----------------------------------------------------------------------------
(* Properties.                                                             *)

\* Every byte is a character, or it is one of the bytes that a lead asks for,
\* and there are as many of those as it asks for.
WellFormed(s) ==
    \A i \in DOMAIN s :
        /\ s[i] < 248
        /\ Leads(s[i]) => /\ i + More(s[i]) <= Len(s)
                          /\ \A b \in 1 .. More(s[i]) : Continues(s[i + b])
        /\ Continues(s[i]) => \E j \in 1 .. i - 1 : Leads(s[j]) /\ i - j <= More(s[j])

\* Sanitizing keeps every byte of a text that is well-formed, makes any other
\* one well-formed, and never touches a plain character.
Sanitizes(s) ==
    LET clean == Utf8_sanitize(s)
    IN /\ WellFormed(clean) /\ Len(clean) = Len(s)
       /\ WellFormed(s) <=> clean = s
       /\ \A i \in DOMAIN s : clean[i] \in {s[i], QuestionMark}
                              /\ (s[i] < 128 => clean[i] = s[i])
=============================================================================
