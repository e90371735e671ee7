----------------------------- MODULE MCMessage -----------------------------
(***************************************************************************)
(* One HTTP message: a request that is received, a response that is built   *)
(* and sent, or one of the texts that swad takes from a message or puts     *)
(* into one.                                                                *)
(***************************************************************************)
EXTENDS RequestParser, ResponseHeaders, ProxyList, IpAddr, Params, CookieText, TemplateText

MCDigits == [n \in BodySizes |-> IF n < 10 THEN 1 ELSE 2]
MCHash == [n \in HdrNames |-> IF n \in {"connection", "x", "keep-alive", "content-encoding"} THEN 1 ELSE 0]
MCFields == [name : {"x", "cache-control"}, len : 1 .. 2]

\* What texts are made of, by kind.
MCChunks ==
  [xff |-> {<<"a">>, <<":", "a">>, <<"[">>, <<":", ":", "a", "]">>, <<",">>, <<" ">>, <<"|">>},
   fwd |-> {<<"for=", "a">>, <<"p">>, <<":">>, <<";">>, <<",">>, <<"|">>, <<Quote>>, <<Backslash>>},
   xffEntries |-> {<<"a">>, <<",", " ", "b">>, <<",", "[", ":", ":", "a", "]">>,
                   <<"|", "b", ":", "a">>, <<"|", "[", ":", ":", "b", "]", ":", "a">>},
   fwdEntries |-> {<<"for=", "a">>, <<",", "for=", Quote, "b", ":", "p", Quote>>,
                   <<",", " ", "p", ";", "for=", "a">>, <<"|", "for=", "b">>},
   addr |-> {<<0>>, <<1>>, <<9>>, <<Colon>>, <<0, Colon>>, <<Dot, 1>>, <<Slash>>},
   params |-> {<<Ampersand>>, <<Equals>>, <<Percent>>, <<Plus>>, <<97>>, <<195>>, <<0>>,
               <<0, 97, 0>>, <<52, 49>>},
   body |-> {<<Ampersand>>, <<Equals>>, <<97>>, <<Percent, 67, 51>>, <<Percent>>, <<65, 57>>,
             <<195>>, <<169>>, <<0>>},
   utf8 |-> {<<63>>, <<128>>, <<191>>, <<195>>, <<226>>, <<240>>, <<248>>},
   cookie |-> {<<97>>, <<Equals>>, <<Semicolon>>, <<Space>>, <<115, Equals>>, <<115>>},
   tmpl |-> {<<Percent>>, <<Percent, Percent>>, <<97>>, <<98>>, <<Newline>>},
   html |-> {<<97, 109, 112, 59>>, <<Ampersand>>, <<Lt>>, <<Gt>>, <<Apostrophe>>,
             <<DoubleQuote>>, <<35, 51, 57, 59>>, <<Newline>>}]
MCMaxText == [xff |-> 5, fwd |-> 4, xffEntries |-> 6, fwdEntries |-> 5, addr |-> 6,
              params |-> 5, body |-> 5, utf8 |-> 5, cookie |-> 6, tmpl |-> 6, html |-> 4]

\* Values that look like parts of a template.
MCTmplVars == (<<97>> :> [val |-> <<Percent, Percent, 98, Percent, Percent>>, filter |-> "none"])
           @@ (<<98>> :> [val |-> <<Percent, Lt, Newline>>, filter |-> "htmlnl"])
           @@ (<<97, 98>> :> [val |-> <<Percent, Lt>>, filter |-> "url"])

vars == <<parserVars, respVars, textVars>>

Init == /\ ParserInit
        /\ RespInit
        /\ TextInit

NoRequest == recvState = "method"
NoResponse == respState = "build" /\ puts = 0

Next == \/ ParserNext /\ NoResponse /\ kind = NoKind /\ UNCHANGED <<respVars, textVars>>
        \/ RespNext /\ NoRequest /\ kind = NoKind /\ UNCHANGED <<parserVars, textVars>>
        \/ TextNext /\ NoRequest /\ NoResponse /\ UNCHANGED <<parserVars, respVars>>

Spec == Init /\ [][Next]_vars
=============================================================================
