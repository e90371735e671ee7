------------------------------- MODULE Config -------------------------------
(***************************************************************************)
(* The configuration (config.c): the arguments of the command line are read *)
(* first and then the lines of a file, which must not override them; the    *)
(* service is set up from the result (Startup).                             *)
(*                                                                          *)
(* A word of the command line is a sequence of characters.  A line of the   *)
(* file is a record: a section with its name, a key with a value, or one    *)
(* that is skipped (empty, a comment, malformed or too long).  A limit is a *)
(* pair of seconds and a number, with 0 for a part that is out of range.    *)
(***************************************************************************)
EXTENDS Naturals, Integers, Sequences, FiniteSets, FiniteSetsExt

CONSTANTS
    Words,           \* words of the command line
    Users, Groups,   \* known users: word -> [uid, gid], known groups: word -> gid
    Files,           \* what a file is made of: sets of lines, one of which is used
    ServerKeys,      \* settings of a server that have one value
    Invalid,         \* a value that is refused
    NoName,          \* no name: the default server
    Default,         \* the value of what was not set
    LimitRoom,       \* limits that a list has room for: 8 in the code
    CheckerRoom,     \* checkers that the line of a realm may name: 8 in the code
    MaxRead          \* bound: options and lines that are read, by member of Files

ASSUME WordAssumption == Words \subseteq Seq(STRING)
ASSUME ConfigAssumption == LimitRoom \in Nat \ {0} /\ CheckerRoom \in Nat \ {0}
                           /\ MaxRead \in [Files -> Nat]

\* What intArg() lets limitsArg() take, and 0.
LimitSecs == 0 .. 86400
LimitNums == 0 .. 1024
LimitVals == LimitSecs \X LimitNums

\* No checker and no realm is named like one of the two limits.
ASSUME LineAssumption ==
    \A f \in Files : \A l \in f :
        /\ l.is \in {"section", "setting", "skip"}
        /\ l.is = "section" =>
             l.section \in {"global", "checkers", "realms", "server", "invalid"}
        /\ l.is = "setting" => l.limit \in BOOLEAN
        /\ l.is = "setting" /\ (l.limit \/ l.key \in {"session_limit", "login_fail_limit"}) =>
             l.val \in LimitVals

ASSUME ServerAssumption == "listen" \notin ServerKeys

\* Ids of the system are unsigned; -1 is none.
ASSUME UserAssumption == /\ \A w \in DOMAIN Users : Users[w].uid \in Nat /\ Users[w].gid \in Nat
                         /\ \A w \in DOMAIN Groups : Groups[w] \in Nat

VARIABLES
    phase,           \* "args", "file", "exit", "undefined", then the ones of Startup
    vocabulary,      \* the member of Files that is used
    needargs,        \* flags that wait for an argument
    seen,            \* flags that may be given only once and were given
    escapedash,
    uid, gid, resolveHosts, pidfile,
    sessionLimits, loginLimits,
    cfgCheckers, cfgRealms, cfgServers,
    section,
    server,          \* the index of the server whose section is read
    \* observed only
    flags,           \* the flags with an argument, in the order given
    used,            \* the arguments, with the flag each was used for
    said             \* the lines of the file, each with the section it was read in

argVars == <<needargs, seen, escapedash, flags, used>>
runasVars == <<uid, gid, resolveHosts, pidfile>>
listVars == <<sessionLimits, loginLimits, cfgCheckers, cfgRealms>>
serverVars == <<cfgServers, section, server>>
configVars == <<phase, vocabulary, argVars, runasVars, listVars, serverVars, said>>

NewServer(name) == [name |-> name, set |-> [k \in ServerKeys |-> Default], listen |-> <<>>]

\* Config_init() up to the arguments
ConfigInit ==
    /\ phase = "args" /\ vocabulary \in Files
    /\ needargs = <<>> /\ seen = {} /\ escapedash = FALSE
    /\ uid = -1 /\ gid = -1 /\ resolveHosts = -1 /\ pidfile = Default
    /\ sessionLimits = <<>> /\ loginLimits = <<>> /\ cfgCheckers = <<>> /\ cfgRealms = <<>>
    /\ cfgServers = <<NewServer(NoName)>> /\ server = 1 /\ section = "global"
    /\ flags = <<>> /\ used = <<>> /\ said = <<>>

ReadMore == Len(flags) + Len(used) + Len(said) < MaxRead[vocabulary]

-----------------------------------------------------------------------------
(* The command line.  An option is read by an operator on a record of what  *)
(* readArguments() works on, and ok says whether to go on.                  *)

ArgState == [queue |-> needargs, seen |-> seen, uid |-> uid, gid |-> gid,
             resolve |-> resolveHosts, flags |-> flags, used |-> used, ok |-> TRUE, stop |-> FALSE]

\* parseUser() and parseGroup(); the group of the user is only a default.
ParseUser(a, op) ==
    IF op \notin DOMAIN Users THEN [a EXCEPT !.ok = FALSE]
    ELSE [a EXCEPT !.uid = Users[op].uid, !.gid = IF @ = -1 THEN Users[op].gid ELSE @]
ParseGroup(a, op) ==
    IF op \notin DOMAIN Groups THEN [a EXCEPT !.ok = FALSE] ELSE [a EXCEPT !.gid = Groups[op]]

\* addArg() inserts at the begin and optArg() takes from the end.
Waiting(q) == [flag |-> Head(q), rest |-> Tail(q)]

\* optArg(), with cfgfile left out
OptArg(a, op) ==
    IF a.queue = <<>> THEN [a EXCEPT !.ok = FALSE]
    ELSE LET w == Waiting(a.queue)
             b == [a EXCEPT !.queue = w.rest, !.used = Append(@, [flag |-> w.flag, op |-> op])]
         IN CASE w.flag = "u" -> ParseUser(b, op)
              [] w.flag = "g" -> ParseGroup(b, op)
              [] OTHER -> b

\* One letter of a word of flags.  A letter that is no flag, or one that was
\* given before, begins an argument; so does p, which is never made to wait for one.
FlagStep(a, w, i) ==
    LET b == [a EXCEPT !.seen = @ \cup ({w[i]} \cap {"c", "g", "p", "u"})]
    IN IF ~a.ok \/ a.stop THEN a
       ELSE IF w[i] \in a.seen \/ w[i] \notin {"c", "g", "u", "R", "r", "f", "v", "h", "V"}
         THEN [OptArg(b, SubSeq(w, i, Len(w))) EXCEPT !.stop = TRUE]
       ELSE CASE w[i] \in {"c", "g", "u"} -> [b EXCEPT !.queue = Append(@, w[i]),
                                                       !.flags = Append(@, w[i])]
              [] w[i] \in {"R", "r"} -> [b EXCEPT !.resolve = IF w[i] = "r" THEN 1 ELSE 0]
              [] w[i] \in {"h", "V"} -> [b EXCEPT !.ok = FALSE]
              [] OTHER -> b

\* The flags in one word, after its dash.
FlagWord(w) ==
    LET read[i \in 1 .. Len(w)] ==
            IF i = 1 THEN [ArgState EXCEPT !.ok = needargs = <<>>] ELSE FlagStep(read[i - 1], w, i)
    IN read[Len(w)]

BeginsWithDash(w) == ~escapedash /\ Len(w) > 1 /\ w[1] = "-"

\* The loop of readArguments() for one word.
ReadArgument(w) ==
    /\ phase = "args" /\ ReadMore
    /\ IF BeginsWithDash(w) /\ w = <<"-", "-">>
         THEN escapedash' = TRUE /\ UNCHANGED <<phase, runasVars, needargs, seen, flags, used>>
         ELSE LET a == IF BeginsWithDash(w) THEN FlagWord(w)
                       ELSE IF ~escapedash /\ needargs # <<>> THEN OptArg(ArgState, w)
                       ELSE [ArgState EXCEPT !.ok = FALSE]
              IN /\ phase' = IF a.ok THEN "args" ELSE "exit"
                 /\ needargs' = a.queue /\ seen' = a.seen
                 /\ uid' = a.uid /\ gid' = a.gid /\ resolveHosts' = a.resolve
                 /\ flags' = a.flags /\ used' = a.used
                 /\ UNCHANGED <<escapedash, pidfile>>
    /\ UNCHANGED <<vocabulary, listVars, serverVars, said>>

\* No more words.
ArgumentsDone ==
    /\ phase = "args"
    /\ phase' = IF needargs = <<>> THEN "file" ELSE "exit"
    /\ UNCHANGED <<vocabulary, argVars, runasVars, listVars, serverVars, said>>

-----------------------------------------------------------------------------
(* The file.                                                               *)

\* Mutant: limits of 0 seconds are let in.
LimitsArgZero(val) == val[2] > 0

\* limitsArg() accepts the value.
LimitsArg(val) == val[1] > 0 /\ val[2] > 0

\* Where a list of limits ends up after one more value.
WithLimit(list, val) ==
    IF LimitsArg(val) THEN Append(list, val) ELSE list

\* Mutant: the file has the last word.
MaySetUserAlways == TRUE

MaySetUser == uid < 0

\* readOption()
ReadOption(l) ==
    LET asUser == IF l.key = "user" /\ MaySetUser THEN ParseUser(ArgState, l.val) ELSE ArgState
        a == IF l.key = "group" /\ gid < 0 THEN ParseGroup(ArgState, l.val) ELSE asUser
    IN /\ uid' = a.uid /\ gid' = a.gid
       /\ pidfile' = IF l.key = "pidfile" /\ pidfile = Default THEN l.val ELSE pidfile
       /\ resolveHosts' = IF l.key = "resolveHosts" /\ resolveHosts < 0 /\ l.val # Invalid
                            THEN l.val ELSE resolveHosts
       /\ sessionLimits' = IF l.key = "session_limit" THEN WithLimit(sessionLimits, l.val)
                           ELSE sessionLimits
       /\ loginLimits' = IF l.key = "login_fail_limit" THEN WithLimit(loginLimits, l.val)
                         ELSE loginLimits
       /\ UNCHANGED <<cfgCheckers, cfgRealms, serverVars>>

\* readChecker(), with the arguments left out
ReadChecker(l) ==
    /\ cfgCheckers' = Append(cfgCheckers, [name |-> l.key, class |-> l.val])
    /\ UNCHANGED <<runasVars, sessionLimits, loginLimits, cfgRealms, serverVars>>

\* Mutant: the limit goes to the realm that was read last.
RealmIndexLast(name) == Len(cfgRealms)

\* The first realm of that name, or 0.
RealmIndex(name) ==
    LET at == {i \in DOMAIN cfgRealms : cfgRealms[i].name = name}
    IN IF at = {} THEN 0 ELSE Min(at)

\* What an entry of a realm's limits holds after limitsArg(): what it did not
\* set is what the memory held before.
RealmLimit(val) ==
    {<<s, n>> : s \in IF val[1] > 0 THEN {val[1]} ELSE {0, 1},
                n \in IF val[1] > 0 /\ val[2] > 0 THEN {val[2]} ELSE {0, 1}}

\* readRealm(): a line for a limit of a realm counts even if it is invalid.
ReadRealm(l) ==
    /\ IF l.limit
         THEN LET i == RealmIndex(l.key)
              IN IF i = 0 THEN UNCHANGED cfgRealms
                 ELSE \E e \in RealmLimit(l.val) :
                        cfgRealms' = [cfgRealms EXCEPT ![i].limits = Append(@, e)]
         ELSE cfgRealms' = Append(cfgRealms, [name |-> l.key, checkers |-> l.val, limits |-> <<>>])
    /\ UNCHANGED <<runasVars, sessionLimits, loginLimits, cfgCheckers, serverVars>>

\* readServer(): a prefix that is invalid removes the one that was set.
ReadServer(l) ==
    /\ cfgServers' =
         IF l.key = "listen" THEN [cfgServers EXCEPT ![server].listen = Append(@, l.val)]
         ELSE IF l.key \notin ServerKeys THEN cfgServers
         ELSE IF l.val # Invalid THEN [cfgServers EXCEPT ![server].set[l.key] = l.val]
         ELSE IF l.key = "nat64_prefix" THEN [cfgServers EXCEPT ![server].set[l.key] = Default]
         ELSE cfgServers
    /\ UNCHANGED <<runasVars, listVars, section, server>>

\* Mutant: only servers with a name are looked for.
ServerIndexNamed(name) ==
    LET at == {i \in DOMAIN cfgServers : name # NoName /\ cfgServers[i].name = name}
    IN IF at = {} THEN 0 ELSE Min(at)

\* The server of that name, or 0.
ServerIndex(name) ==
    LET at == {i \in DOMAIN cfgServers : cfgServers[i].name = name}
    IN IF at = {} THEN 0 ELSE Min(at)

\* readSection() and getServer(); an empty name stands for the default server,
\* and a section that is not known is invalid.
ReadSection(l) ==
    LET name == IF l.name = "" THEN NoName ELSE l.name
        i == ServerIndex(name)
    IN /\ section' = l.section
       /\ IF l.section # "server" THEN UNCHANGED <<cfgServers, server>>
          ELSE IF i > 0 THEN server' = i /\ UNCHANGED cfgServers
          ELSE /\ cfgServers' = Append(cfgServers, NewServer(name))
               /\ server' = Len(cfgServers')
       /\ UNCHANGED <<runasVars, listVars>>

HasRoom(list) == Len(list) < LimitRoom

\* The line makes the code write past an array.  Its tests for a full one
\* compare the number of elements with the size in bytes (of 2 or 8 for each),
\* so that they come too late: the first limit too much of a realm overwrites
\* the number of its first limit and a part of the pointer to the name of its
\* first checker, one in the section global other static variables, and the
\* first checker too much of a realm the stack.  (A limit of a realm takes a
\* place, that is read later, also when nothing is written.)
PastRoom(l) ==
    /\ l.is = "setting"
    /\ \/ /\ section = "global" /\ l.key = "session_limit"
          /\ ~HasRoom(sessionLimits) /\ l.val[1] > 0
       \/ /\ section = "global" /\ l.key = "login_fail_limit"
          /\ ~HasRoom(loginLimits) /\ l.val[1] > 0
       \/ /\ section = "realms" /\ l.limit
          /\ RealmIndex(l.key) > 0 /\ ~HasRoom(cfgRealms[RealmIndex(l.key)].limits)
       \/ section = "realms" /\ ~l.limit /\ ~(Len(l.val) <= CheckerRoom)

\* One round of readConfigFile()
ReadLine(l) ==
    /\ phase = "file" /\ l \in vocabulary /\ ReadMore /\ ~PastRoom(l)
    /\ \/ l.is = "section" /\ ReadSection(l)
       \/ l.is = "setting" /\ section = "global" /\ ReadOption(l)
       \/ l.is = "setting" /\ section = "checkers" /\ ReadChecker(l)
       \/ l.is = "setting" /\ section = "realms" /\ ReadRealm(l)
       \/ l.is = "setting" /\ section = "server" /\ ReadServer(l)
       \/ /\ l.is = "skip" \/ (l.is = "setting" /\ section = "invalid")
          /\ UNCHANGED <<runasVars, listVars, serverVars>>
    /\ said' = Append(said, [line |-> l, in |-> section])
    /\ UNCHANGED <<phase, vocabulary, argVars>>

\* From then on the language defines nothing: swad may crash, or go on with any
\* configuration.  The phase "undefined" stands for all of it.
ReadPastRoom(l) ==
    /\ phase = "file" /\ l \in vocabulary /\ ReadMore /\ PastRoom(l)
    /\ phase' = "undefined"
    /\ said' = Append(said, [line |-> l, in |-> section])
    /\ UNCHANGED <<vocabulary, argVars, runasVars, listVars, serverVars>>

=============================================================================
