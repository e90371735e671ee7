----------------------------- MODULE ProxyList ------------------------------
(***************************************************************************)
(* The addresses a request came through (proxylist.c), read from           *)
(* X-Forwarded-For or Forwarded fields, and the one of them that counts as  *)
(* the remote: new sessions are limited by it, and the log names it.        *)
(*                                                                          *)
(* Symbols: a lower case letter is an address without special characters,   *)
(* "for=" the name of that parameter, "|" the end of a field when another   *)
(* one of the same name follows.                                            *)
(***************************************************************************)
EXTENDS Texts, FiniteSetsExt

CONSTANTS MaxVals,     \* the room in hdrVal[] (16) ...
          MaxAddrs     \* ... and in addr[] (16)

ASSUME ProxyAssumption == MaxVals \in Nat \ {0} /\ MaxAddrs \in Nat \ {0}

Quote == "\""
Backslash == "\\"

-----------------------------------------------------------------------------

\* stripRfc7239(), one symbol: a `;` starts the next parameter and takes the
\* symbol after it along, in quotes as well.
StripStep(s, e, i) ==
    IF s.end > 0 THEN s
    ELSE IF s.esc THEN [s EXCEPT !.esc = FALSE]
    ELSE CASE e[i] = Quote -> [s EXCEPT !.quote = ~@]
           [] e[i] = Backslash -> [s EXCEPT !.esc = TRUE]
           [] e[i] = ";" -> IF ~s.quote /\ e[s.comp] = "for="
                              THEN [s EXCEPT !.end = i]
                              ELSE [s EXCEPT !.comp = i + 1, !.esc = TRUE]
           [] OTHER -> s

\* stripRfc7239(): the value of the first parameter `for`.
StripRfc7239(e) ==
    LET scan[i \in 0 .. Len(e)] ==
            IF i = 0 THEN [comp |-> 1, quote |-> FALSE, esc |-> FALSE, end |-> 0]
            ELSE StripStep(scan[i - 1], e, i)
        Value(comp, end) == IF comp <= end /\ e[comp] = "for=" THEN SubSeq(e, comp + 1, end)
                            ELSE <<>>
        Found(s) == Value(s.comp, IF s.end > 0 THEN s.end - 1 ELSE Len(e))
    IN Found(scan[Len(e)])

\* parseEntry(), one symbol c.
EntryTake(s, c) == [s EXCEPT !.buf = Append(@, c)]
EntryPlain(s, c) == [s EXCEPT !.buf = Append(@, c), !.bracket = IF @ = 0 THEN 0 - 1 ELSE @,
                              !.esc = FALSE]
EntryStep(s, c) ==
    IF s.done THEN s
    ELSE IF s.esc THEN EntryPlain(s, c)
    ELSE CASE c = Backslash -> [s EXCEPT !.esc = TRUE]
           [] c = Quote -> s
           [] c = "[" /\ s.bracket >= 0 -> [s EXCEPT !.bracket = @ + 1]
           [] c = "]" /\ s.bracket > 0 ->
                [s EXCEPT !.bracket = @ - 1, !.done = s.bracket = 1]
           [] c \in {"[", "]"} -> EntryTake(s, c)
           [] c = ":" -> EntryPlain([s EXCEPT !.lastcolon = Len(s.buf), !.ncolons = @ + 1], c)
           [] OTHER -> EntryPlain(s, c)

\* parseEntry(): quotes, brackets and a port are removed; <<>> if there is no
\* address.
EntryAddr(e) ==
    LET scan[i \in 0 .. Len(e)] ==
            IF i = 0 THEN [buf |-> <<>>, esc |-> FALSE, bracket |-> 0, ncolons |-> 0,
                           lastcolon |-> 0, done |-> FALSE]
            ELSE EntryStep(scan[i - 1], e[i])
        WithoutPort(s) == IF s.ncolons = 1 THEN SubSeq(s.buf, 1, s.lastcolon) ELSE s.buf
    IN WithoutPort(scan[Len(e)])
ParseEntry(entry, rfc) == EntryAddr(IF rfc THEN StripRfc7239(entry) ELSE entry)

\* escaped(): an odd number of backslashes stands before symbol i.
Escaped(buf, i) ==
    LET n == i - 1 - Max({0} \cup {j \in 1 .. i - 1 : buf[j] # Backslash}) IN n % 2 = 1

\* The entry after the last comma at a place that is not within quotes.
LastEntry(buf, open, closed) ==
    LET Start(c) == Min({i \in c + 1 .. Len(buf) + 1 : i > Len(buf) \/ buf[i] # " "})
        After(c) == IF c = 0 THEN [ok |-> closed, left |-> 0, entry |-> buf]
                    ELSE [ok |-> TRUE, left |-> c - 1, entry |-> SubSeq(buf, Start(c), Len(buf))]
    IN After(Max({0} \cup {i \in DOMAIN buf \ open : buf[i] = ","}))

Quotes(buf, from, to) ==
    Cardinality({j \in from .. to : buf[j] = Quote /\ ~Escaped(buf, j)})

\* Mutant: quotes are counted from the begin, as one would read.
HdrEntryForward(buf, rfc) ==
    LastEntry(buf, {i \in DOMAIN buf : rfc /\ Quotes(buf, 1, i) % 2 = 1},
              ~rfc \/ Quotes(buf, 1, Len(buf)) % 2 = 0)

\* hdrEntry(): the last entry, and how much of the value is left before it.
\* Quotes are counted from the end, so that nothing to the left matters.
HdrEntry(buf, rfc) ==
    LastEntry(buf, {i \in DOMAIN buf : rfc /\ Quotes(buf, i, Len(buf)) % 2 = 1},
              ~rfc \/ Quotes(buf, 1, Len(buf)) % 2 = 0)

\* parseHdrVal(): up to n addresses, the last one first, until an entry is bad.
ParseHdrVal(val, n, rfc) ==
    LET parse[len \in 0 .. Len(val), m \in 0 .. n] ==
            IF len = 0 \/ m = 0 THEN [addr |-> <<>>, ok |-> TRUE]
            ELSE LET Before(a, rest) == [addr |-> <<a>> \o rest.addr, ok |-> rest.ok]
                     With(a, left) == IF a = <<>> THEN [addr |-> <<>>, ok |-> FALSE]
                                      ELSE Before(a, parse[left, m - 1])
                     Of(h) == With(IF h.ok THEN ParseEntry(h.entry, rfc) ELSE <<>>, h.left)
                 IN Of(HdrEntry(SubSeq(val, 1, len), rfc))
    IN parse[Len(val), n]

\* Mutant: the begin of the ring is not followed by its end.
RingStays(vals, k) ==
    LET last == (Len(vals) - 1) % MaxVals
        slot == IF k <= last THEN last - k ELSE 0
    IN vals[Max({i \in DOMAIN vals : (i - 1) % MaxVals = slot})]

\* The value k places before the last one, from the ring hdrVal[].
Ring(vals, k) ==
    LET slot == (((Len(vals) - 1) % MaxVals) + MaxVals - k) % MaxVals
    IN vals[Max({i \in DOMAIN vals : (i - 1) % MaxVals = slot})]

\* proxyAddr(): the addresses of all fields of one name, in order.
ProxyAddr(vals, rfc) ==
    LET count == IF Len(vals) > MaxVals THEN MaxVals ELSE Len(vals)
        walk[k \in 0 .. count, n \in 0 .. MaxAddrs] ==
            IF k = count THEN <<>>
            ELSE LET With(p, m) == IF ~p.ok \/ p.addr = <<>> \/ m = 0 THEN p.addr
                                   ELSE p.addr \o walk[k + 1, m]
                     Of(p) == With(p, n - Len(p.addr))
                 IN Of(ParseHdrVal(Ring(vals, k), n, rfc))
        Reversed(s) == [i \in DOMAIN s |-> s[Len(s) + 1 - i]]
    IN Reversed(walk[0, MaxAddrs])

\* ProxyList_get(): hdrs[rfc] are the fields of either name, trust the names
\* that may be used and pref the one that is tried first.
ProxyList_get(hdrs, trust, pref, remote) ==
    LET Of(rfc) == IF rfc \in trust THEN ProxyAddr(hdrs[rfc], rfc) ELSE <<>>
        first == Of(pref)
    IN Append(IF first # <<>> THEN first ELSE Of(~pref), remote)

ProxyList_firstTrusted(list, ntrusted) ==
    IF Len(list) > ntrusted + 1 THEN Len(list) - ntrusted ELSE 1

-----------------------------------------------------------------------------
(* Properties.                                                             *)

\* Fields made of any symbols, and those made of whole entries.
IsProxyText == kind \in {"xff", "fwd"}
IsEntriesText == kind \in {"xffEntries", "fwdEntries"}
Rfc == kind \in {"fwd", "fwdEntries"}
Vals == IF text = <<>> THEN <<>> ELSE SplitAt(text, "|")

\* What a proxy does to the fields: it adds the address it was called from to
\* the last one, or in a field of its own.
Entry(a) == IF Rfc THEN <<"for=", Quote, "[", ":", ":", a, "]", Quote, ";", "p">> ELSE <<a>>
Shown(a) == IF Rfc THEN <<":", ":", a>> ELSE <<a>>
Forwarded(vals, a, own) ==
    IF own \/ vals = <<>> THEN Append(vals, Entry(a))
    ELSE [vals EXCEPT ![Len(vals)] = IF @ = <<>> THEN Entry(a) ELSE @ \o <<",", " ">> \o Entry(a)]

\* The client chooses nothing that counts: behind one or two trusted proxies,
\* whatever fields it sends itself (quotes, escapes and empty entries that are
\* never closed included), the first trusted entry is the address it called
\* the first proxy from, and without a trusted proxy it is the remote end.
ClientCannotChoose ==
    IsProxyText => \A own \in BOOLEAN :
        LET v1 == Forwarded(Vals, "r", own)
            v2 == Forwarded(v1, "s", own)
            List(v, remote) == ProxyList_get([x \in BOOLEAN |-> IF x = Rfc THEN v ELSE <<>>],
                                             {Rfc}, Rfc, remote)
            First(l, n) == l[ProxyList_firstTrusted(l, n)]
        IN /\ First(List(Vals, <<"c">>), 0) = <<"c">>
           /\ First(List(v1, <<"s">>), 1) = Shown("r")
           /\ First(List(v2, <<"t">>), 2) = Shown("r")

\* The forms of an entry that holds the name x, with its address.
FormsOf(x) == IF Rfc
  THEN {<<<<"for=", x>>, <<x>>>>, <<<<"for=", Quote, x, ":", "p", Quote>>, <<x>>>>,
        <<<<"p", ";", "for=", x>>, <<x>>>>}
  ELSE {<<<<x>>, <<x>>>>, <<<<x, ":", "a">>, <<x>>>>,
        <<<<"[", ":", ":", x, "]">>, <<":", ":", x>>>>,
        <<<<"[", ":", ":", x, "]", ":", "a">>, <<":", ":", x>>>>}
Forms == FormsOf("a") \cup FormsOf("b")

Trim(e) == IF e # <<>> /\ e[1] = " " THEN Tail(e) ELSE e
Entries(v) == [i \in DOMAIN SplitAt(v, ",") |-> IF i = 1 THEN SplitAt(v, ",")[1]
                                               ELSE Trim(SplitAt(v, ",")[i])]
Known(e) == {f[2] : f \in {f \in Forms : f[1] = e}}
AllKnown(v) == \A i \in DOMAIN Entries(v) : Known(Entries(v)[i]) # {}
AddrsOf(v) == [i \in DOMAIN Entries(v) |-> CHOOSE a \in Known(Entries(v)[i]) : TRUE]

\* Fields made of entries of the usual forms give all their addresses in the
\* order in which proxies added them: the last ones if there are more fields
\* than hdrVal[] or more addresses than addr[] has room for.
ListedInOrder ==
    (IsProxyText \/ IsEntriesText) /\ Vals # <<>> /\ (\A i \in DOMAIN Vals : AllKnown(Vals[i])) =>
        LET vals == LastOf(Vals, MaxVals)
            all[i \in 0 .. Len(vals)] == IF i = 0 THEN <<>> ELSE all[i - 1] \o AddrsOf(vals[i])
        IN ProxyAddr(Vals, Rfc) = LastOf(all[Len(vals)], MaxAddrs)

=============================================================================
