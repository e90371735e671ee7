---------------------------- MODULE TemplateText ----------------------------
(***************************************************************************)
(* Templates (template.c) and the escaping of HTML (htmlescape.c): the login *)
(* page is made of a template and variables, some of which say what a client *)
(* sent.  A symbol is a byte.                                               *)
(***************************************************************************)
EXTENDS UrlText, SequencesExt

CONSTANTS TmplVars,        \* the variables: [name -> [val, filter]]
          MaxVarName       \* the room for a name (64), its end included

Lt == 60
Gt == 62
DoubleQuote == 34
Apostrophe == 39
Newline == 10

\* Mutant: a quote is passed on.
HtmlEntityNoQuote(c) ==
    CASE c = Ampersand -> <<38, 97, 109, 112, 59>>
      [] c = Lt -> <<38, 108, 116, 59>>
      [] c = Gt -> <<38, 103, 116, 59>>
      [] OTHER -> <<c>>

\* What one byte becomes: &amp; &lt; &gt; &quot; &#39; or itself.
HtmlEntity(c) ==
    CASE c = Ampersand -> <<38, 97, 109, 112, 59>>
      [] c = Lt -> <<38, 108, 116, 59>>
      [] c = Gt -> <<38, 103, 116, 59>>
      [] c = DoubleQuote -> <<38, 113, 117, 111, 116, 59>>
      [] c = Apostrophe -> <<38, 35, 51, 57, 59>>
      [] OTHER -> <<c>>

\* htmlescapeto(), which may write a line break as <br>.
Htmlescape(s, newline) ==
    FlattenSeq([i \in DOMAIN s |-> IF newline /\ s[i] = Newline THEN <<60, 98, 114, 62>>
                                   ELSE HtmlEntity(s[i])])

\* processVar()
ProcessVar(var) ==
    CASE var.filter = "none" -> var.val
      [] var.filter = "html" -> Htmlescape(var.val, FALSE)
      [] var.filter = "htmlnl" -> Htmlescape(var.val, TRUE)
      [] var.filter = "url" -> Urlencode(var.val)

PercentsAt(s, i) == i + 1 <= Len(s) /\ s[i] = Percent /\ s[i + 1] = Percent

\* Where the name that starts at i ends, or 0 if it does not or is too long.
NameEnd(s, i) ==
    LET ends == {e \in i .. Len(s) : e - i < MaxVarName - 1 /\ PercentsAt(s, e)}
    IN IF ends = {} THEN 0 ELSE CHOOSE e \in ends : \A f \in ends : e <= f

\* Mutant: what was put in is read again as a part of the template.
SubstituteAgain(name, rest) ==
    IF name \in DOMAIN TmplVars
      THEN IF PercentsAt(ProcessVar(TmplVars[name]), 1)
             THEN ProcessVar(TmplVars[SubSeq(ProcessVar(TmplVars[name]), 3, 3)]) \o rest
             ELSE ProcessVar(TmplVars[name]) \o rest
      ELSE rest

\* A variable is replaced by its value, and by nothing if it is not set.
Substitute(name, rest) ==
    IF name \in DOMAIN TmplVars THEN ProcessVar(TmplVars[name]) \o rest ELSE rest

\* Template_process(): of three percent signs the last two can start a name.
Template_process(tmpl) ==
    LET process[i \in 1 .. Len(tmpl) + 1] ==
            IF i > Len(tmpl) THEN <<>>
            ELSE IF PercentsAt(tmpl, i) /\ i + 2 <= Len(tmpl) /\ tmpl[i + 2] # Percent
              THEN LET e == NameEnd(tmpl, i + 2)
                   IN IF e = 0 THEN <<Percent, Percent>> \o process[i + 2]
                      ELSE Substitute(SubSeq(tmpl, i + 2, e - 1), process[e + 2])
            ELSE <<tmpl[i]>> \o process[i + 1]
    IN process[1]

-----------------------------------------------------------------------------
(* Properties.                                                             *)

\* The pieces of a template between pairs of percent signs.
Parts(s) ==
    LET split[i \in 1 .. Len(s) + 1] ==
            IF i > Len(s) THEN <<<<>>>>
            ELSE IF PercentsAt(s, i) THEN <<<<>>>> \o split[i + 2]
            ELSE [split[i + 1] EXCEPT ![1] = <<s[i]>> \o @]
    IN split[1]

\* Every name is closed, fits, and is not confused by a third percent sign.
Plainly(s) == /\ Len(Parts(s)) % 2 = 1
              /\ \A i \in 1 .. Len(s) - 2 : ~(PercentsAt(s, i) /\ s[i + 2] = Percent)
              /\ \A i \in DOMAIN Parts(s) : i % 2 = 0 => Len(Parts(s)[i]) \in 1 .. MaxVarName - 2

\* A page says what its template says, with every variable in place of its
\* name and nothing else changed: what a value holds is never taken for a part
\* of the template, even if it looks like one.
TemplateMeans ==
    kind = "tmpl" /\ Plainly(text) =>
        Template_process(text) =
            FlattenSeq([i \in DOMAIN Parts(text) |->
                            IF i % 2 = 1 THEN Parts(text)[i]
                            ELSE IF Parts(text)[i] \in DOMAIN TmplVars
                              THEN ProcessVar(TmplVars[Parts(text)[i]])
                            ELSE <<>>])

Markup == {Lt, Gt, DoubleQuote, Apostrophe}
Entities == {HtmlEntity(c) : c \in Markup \cup {Ampersand}}

\* An escaped value is inert in a page: it holds no markup, every ampersand in
\* it starts an entity, and it still says what the value says.
EscapedIsInert ==
    kind = "html" =>
        LET e == Htmlescape(text, FALSE)
            StartsAt(i, ent) == SubSeq(e, i, IF i + Len(ent) - 1 < Len(e) THEN i + Len(ent) - 1 ELSE Len(e)) = ent
            unescape[i \in 1 .. Len(e) + 1] ==
                IF i > Len(e) THEN <<>>
                ELSE IF e[i] # Ampersand THEN <<e[i]>> \o unescape[i + 1]
                ELSE LET c == CHOOSE c \in Markup \cup {Ampersand} : StartsAt(i, HtmlEntity(c))
                     IN <<c>> \o unescape[i + Len(HtmlEntity(c))]
        IN /\ \A i \in DOMAIN e : /\ e[i] \notin Markup
                                  /\ e[i] = Ampersand => \E ent \in Entities : StartsAt(i, ent)
           /\ unescape[1] = text
=============================================================================
