------------------------------- MODULE Params -------------------------------
(***************************************************************************)
(* The parameters of a request: of the form in its body                     *)
(* (middleware/formdata.c) and of the query in its path                     *)
(* (middleware/pathparser.c).  A form is a sequence of names and values and *)
(* a mark whether all of it was valid UTF-8.                                *)
(***************************************************************************)
EXTENDS UrlText, FiniteSetsExt

CONSTANTS MaxFormParams,   \* MAXPARAM of formdata.c (64) ...
          MaxQueryParams   \* ... and of pathparser.c (32)

ASSUME ParamsAssumption == MaxFormParams \in Nat \ {0} /\ MaxQueryParams \in Nat \ {0}

NoValue == <<0>>           \* the null pointer, which no C string is

\* One parameter: its name ends at the first "=", if there is one.
Param(s) == LET eq == IndexOf(s, Equals)
            IN [name |-> Urldecode(SubSeq(s, 1, eq - 1)),
                value |-> IF eq > Len(s) THEN NoValue ELSE Urldecode(SubSeq(s, eq + 1, Len(s)))]

\* Mutant: what is sent is checked instead of what it says.
ValidatedEarly(s) ==
    LET p == Param(Utf8_sanitize(CString(s)))
    IN [param |-> p, valid |-> Utf8_sanitize(CString(s)) = CString(s)]

\* One parameter of a form, as FDV_UTF8_SANITIZE leaves it.
Validated(s) ==
    LET p == Param(s)
        name == Utf8_sanitize(p.name)
        value == IF p.value = NoValue THEN NoValue ELSE Utf8_sanitize(p.value)
    IN [param |-> [name |-> name, value |-> value],
        valid |-> name = p.name /\ value = p.value]

\* The loop of MW_FormData() over a body that is a form and not empty.
MW_FormData(body) ==
    LET parse[i \in 1 .. Len(body) + 2, n \in 0 .. MaxFormParams] ==
            IF i > Len(body) \/ n = MaxFormParams THEN [params |-> <<>>, valid |-> TRUE]
            ELSE LET d == IndexOf(SubSeq(body, i, Len(body)), Ampersand)
                     p == Validated(SubSeq(body, i, i + d - 2))
                     more == parse[i + d, n + 1]
                 IN [params |-> <<p.param>> \o more.params, valid |-> p.valid /\ more.valid]
    IN parse[1, 0]

Positions(params, name) == {i \in DOMAIN params : params[i].name = name}

\* FormData_single()
FormData_single(form, name) ==
    LET at == Positions(form.params, name)
    IN IF Cardinality(at) = 1 THEN form.params[CHOOSE i \in at : TRUE].value ELSE NoValue

\* MW_PathParser(): the path, and the parameters of its query.  An "&" at the
\* end starts one more here, without a name.
MW_PathParser(reqPath) ==
    LET q == IndexOf(reqPath, QuestionMark)
        parse[i \in 1 .. Len(reqPath) + 1, n \in 0 .. MaxQueryParams] ==
            IF i > Len(reqPath) \/ n = MaxQueryParams THEN <<>>
            ELSE LET rest == SubSeq(reqPath, i + 1, Len(reqPath))
                     d == IndexOf(rest, Ampersand)
                 IN <<Param(SubSeq(rest, 1, d - 1))>> \o parse[i + d, n + 1]
    IN [path |-> Urldecode(SubSeq(reqPath, 1, q - 1)), params |-> parse[q, 0]]

\* PathParser_param() from the first one on, and QueryParam_value()
PathParser_param(parser, name) ==
    LET at == Positions(parser.params, name)
    IN IF at = {} THEN NoValue ELSE parser.params[Min(at)].value

-----------------------------------------------------------------------------
(* Properties.                                                             *)

\* The parameters a text of kind "params" stands for, and how they are sent.
Sent == LET piece == SplitAt(text, 0)
        IN [i \in 1 .. Len(piece) \div 2 |-> [name |-> piece[2 * i - 1], value |-> piece[2 * i]]]
Joined(params, last) ==
    LET join[i \in 0 .. last] ==
            IF i = 0 THEN <<>>
            ELSE join[i - 1] \o (IF i = 1 THEN <<>> ELSE <<Ampersand>>)
                 \o Urlencode(params[i].name) \o <<Equals>> \o Urlencode(params[i].value)
    IN join[last]
FirstOf(s, n) == SubSeq(s, 1, IF Len(s) < n THEN Len(s) ELSE n)
Cleaned(params) == [i \in DOMAIN params |-> [name |-> Utf8_sanitize(params[i].name),
                                             value |-> Utf8_sanitize(params[i].value)]]

\* Parameters come back from a form and from a query as they were sent, up to
\* the number there is room for, whatever their names and values are made of:
\* percent signs, separators and bytes that are no characters included.  A
\* handler gets the value of a name that occurs once, and the first one from a
\* query.
ParamsRoundTrip ==
    kind = "params" /\ Sent # <<>> =>
        LET form == MW_FormData(Joined(Sent, Len(Sent)))
            parser == MW_PathParser(<<47, QuestionMark>> \o Joined(Sent, Len(Sent)))
        IN /\ form.params = Cleaned(FirstOf(Sent, MaxFormParams))
           /\ parser.params = FirstOf(Sent, MaxQueryParams) /\ parser.path = <<47>>
           /\ PathParser_param(parser, Sent[1].name) = Sent[1].value
           /\ \A i \in DOMAIN form.params :
                 LET p == form.params[i] IN
                   FormData_single(form, p.name)
                     = IF \E j \in DOMAIN form.params \ {i} : form.params[j].name = p.name
                         THEN NoValue ELSE p.value

\* Whatever a body says, in whichever encoding: the names and values that
\* handlers get from it are well-formed UTF-8, and the form is marked as valid
\* iff nothing had to be replaced.  Nothing is replaced without need, in texts
\* of any bytes.
FormIsUtf8 ==
    /\ kind = "utf8" => Sanitizes(text)
    /\ kind = "body" =>
        LET form == MW_FormData(text)
        IN /\ \A i \in DOMAIN form.params :
                /\ WellFormed(form.params[i].name)
                /\ form.params[i].value # NoValue => WellFormed(form.params[i].value)
           /\ form.valid <=> \A i \in DOMAIN form.params :
                LET raw == Param(SplitAt(text, Ampersand)[i])
                IN WellFormed(raw.name) /\ (raw.value # NoValue => WellFormed(raw.value))
=============================================================================
