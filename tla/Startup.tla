------------------------------ MODULE Startup -------------------------------
(***************************************************************************)
(* Start and stop of the service (main.c): prestartup() sets up the session *)
(* store, the authenticator and the servers from the configuration.  It     *)
(* runs alone, before there is any other thread.                            *)
(***************************************************************************)
EXTENDS Config

CONSTANT SessionDefaults     \* the limits of MW_Session_init() when none is set

ASSUME DefaultsAssumption == \A i \in DOMAIN SessionDefaults :
                                SessionDefaults[i][1] > 0 /\ SessionDefaults[i][2] > 0

VARIABLES
    createLimits,            \* limits for new sessions ...
    defaultLimits,           \* ... and for failed logins in any realm
    regCheckers,             \* names of registered checkers
    regRealms,               \* registered realms: name -> [checkers, limits]
    started                  \* the servers that run: the number of each in the
                             \* configuration -> the options it was created with

startVars == <<createLimits, defaultLimits, regCheckers, regRealms, started>>
serviceVars == <<configVars, startVars>>

ServiceInit ==
    /\ ConfigInit
    /\ createLimits = <<>> /\ defaultLimits = <<>> /\ regCheckers = {} /\ regRealms = <<>>
    /\ started = <<>>

\* The numbers are passed on in 16 bits.
InEffect(list) == [i \in DOMAIN list |-> <<list[i][1] % 65536, list[i][2] % 65536>>]

\* RateLimitOpts_addLimit() divides by a number that is 0 for 0 seconds.
Divides(list) == \A i \in DOMAIN list : InEffect(list)[i][1] > 0

AllDivide == /\ Divides(sessionLimits) /\ Divides(loginLimits)
             /\ \A i \in DOMAIN cfgRealms : Divides(cfgRealms[i].limits)

\* Authenticator_registerRealm() replaces a realm of the same name.
Registered(name) == Max({i \in DOMAIN cfgRealms : cfgRealms[i].name = name})

\* The options for HttpServer_create()
ServerOpts(i) == [set |-> cfgServers[i].set, listen |-> cfgServers[i].listen,
                  numericHosts |-> resolveHosts # 1]

\* prestartup() with all loops, where up are the servers that can be created.
Prestartup(up) ==
    /\ phase = "file" /\ AllDivide
    /\ createLimits' = IF sessionLimits = <<>> THEN SessionDefaults ELSE InEffect(sessionLimits)
    /\ defaultLimits' = InEffect(loginLimits)
    /\ regCheckers' = {cfgCheckers[i].name :
                          i \in {i \in DOMAIN cfgCheckers : cfgCheckers[i].class = "pam"}}
    /\ regRealms' = [name \in {cfgRealms[i].name : i \in DOMAIN cfgRealms} |->
                        [checkers |-> cfgRealms[Registered(name)].checkers,
                         limits   |-> InEffect(cfgRealms[Registered(name)].limits)]]
    /\ started' = [i \in up |-> ServerOpts(i)]
    /\ phase' = IF up = {} THEN "failed" ELSE "running"
    /\ UNCHANGED <<vocabulary, argVars, runasVars, listVars, serverVars, said>>

PrestartupCrash ==
    /\ phase = "file" /\ ~AllDivide
    /\ phase' = "crashed"
    /\ UNCHANGED <<vocabulary, argVars, runasVars, listVars, serverVars, said, startVars>>

\* shutdown(): the servers first, then the authenticator and the sessions.
Shutdown ==
    /\ phase = "running"
    /\ phase' = "down" /\ started' = <<>> /\ regCheckers' = {} /\ regRealms' = <<>>
    /\ createLimits' = <<>> /\ defaultLimits' = <<>>
    /\ UNCHANGED <<vocabulary, argVars, runasVars, listVars, serverVars, said>>

ServiceNext ==
    \/ \E w \in Words : ReadArgument(w) /\ UNCHANGED startVars
    \/ ArgumentsDone /\ UNCHANGED startVars
    \/ \E l \in vocabulary : (ReadLine(l) \/ ReadPastRoom(l)) /\ UNCHANGED startVars
    \/ \E up \in SUBSET DOMAIN cfgServers : Prestartup(up)
    \/ PrestartupCrash
    \/ Shutdown

ServiceSpec == ServiceInit /\ [][ServiceNext]_serviceVars

-----------------------------------------------------------------------------
(* Properties.                                                             *)

FlagsUsed == {used[i].flag : i \in DOMAIN used}
ArgOf(flag) == used[CHOOSE i \in DOMAIN used : used[i].flag = flag].op
IsGlobal(i, key) == said[i].in = "global" /\ said[i].line.is = "setting" /\ said[i].line.key = key
SaidGlobal(key, ok) == {said[i].line.val : i \in {i \in DOMAIN said : IsGlobal(i, key)}} \cap ok

GroupsOf(g) == {w \in DOMAIN Groups : Groups[w] = g}

\* Every flag of the command line gets its own argument, in the order given,
\* before swad goes on, and what they say is what it runs as: the file cannot
\* change it.  A user always comes with a group, and with its own group unless
\* another one was asked for, which is then the one it gets.
RunsAsTold ==
    phase \notin {"args", "exit", "undefined"} =>
        /\ [i \in DOMAIN used |-> used[i].flag] = flags
        /\ "u" \in FlagsUsed => uid = Users[ArgOf("u")].uid
        /\ "g" \in FlagsUsed => gid = Groups[ArgOf("g")]
        /\ uid >= 0 => /\ gid >= 0
                       /\ "g" \in FlagsUsed \/ SaidGlobal("group", GroupsOf(gid)) # {}
                            \/ gid \in {Users[w].gid : w \in {w \in DOMAIN Users : Users[w].uid = uid}}
        /\ uid < 0 => "u" \notin FlagsUsed /\ SaidGlobal("user", DOMAIN Users) = {}

\* A line that says what no limit can be, or none that fits 16 bits.
BadLimit(val) == val[1] = 0 \/ val[1] > 65535 \/ val[2] = 0
LimitLine(i) == /\ said[i].line.is = "setting"
                /\ \/ said[i].in = "realms" /\ said[i].line.limit
                   \/ said[i].in = "global" /\ said[i].line.key \in {"session_limit", "login_fail_limit"}

NoBadLimit ==
    \A i \in DOMAIN said : LimitLine(i) /\ (said[i].in = "realms" \/ said[i].line.val[1] > 65535)
                             => ~BadLimit(said[i].line.val)

\* The lines for one list of limits.
GlobalLines(key) == {i \in DOMAIN said : IsGlobal(i, key)}
LinesLimiting(name) == {i \in DOMAIN said : /\ said[i].in = "realms" /\ said[i].line.is = "setting"
                                             /\ said[i].line.limit /\ said[i].line.key = name}

\* No list is given more limits, and no realm more checkers, than there is
\* room for.
NotTooMany ==
    /\ \A key \in {"session_limit", "login_fail_limit"} : Cardinality(GlobalLines(key)) <= LimitRoom
    /\ \A i \in DOMAIN said : said[i].in = "realms" /\ said[i].line.is = "setting" =>
          IF said[i].line.limit THEN Cardinality(LinesLimiting(said[i].line.key)) <= LimitRoom
                                ELSE Len(said[i].line.val) <= CheckerRoom

ListsInEffect == {createLimits, defaultLimits} \cup {regRealms[r].limits : r \in DOMAIN regRealms}

\* With limits of less than 65536 seconds, up to 8 in each list, and without
\* invalid limits for realms, the service comes up, and every limit in effect
\* allows something and ends; other invalid lines do no harm.
LimitsInEffect ==
    NoBadLimit /\ NotTooMany =>
        /\ phase \notin {"crashed", "undefined"}
        /\ phase = "running" =>
             \A list \in ListsInEffect : \A i \in DOMAIN list : list[i][1] > 0 /\ list[i][2] > 0

\* The lines that make a realm, and those that limit it from then on.
RealmLines(name) == {i \in DOMAIN said : /\ said[i].in = "realms" /\ said[i].line.is = "setting"
                                         /\ ~said[i].line.limit /\ said[i].line.key = name}
LimitLines(name) == {i \in DOMAIN said : /\ said[i].in = "realms" /\ said[i].line.is = "setting"
                                         /\ said[i].line.limit /\ said[i].line.key = name
                                         /\ \E j \in RealmLines(name) : j < i}

CheckersSaid == {said[i].line.key : i \in {i \in DOMAIN said : /\ said[i].in = "checkers"
                                                               /\ said[i].line.is = "setting"
                                                               /\ said[i].line.val = "pam"}}
RealmsSaid == {said[i].line.key : i \in {i \in DOMAIN said : /\ said[i].line.is = "setting"
                                                             /\ i \in RealmLines(said[i].line.key)}}
\* The list holds what the lines say, in their order.
AsSaidIn(list, lines) ==
    /\ Len(list) = Cardinality(lines)
    /\ \A i \in lines : list[Cardinality({j \in lines : j <= i})] = said[i].line.val

RealmAsSaid(r) ==
    /\ regRealms[r].checkers = said[Max(RealmLines(r))].line.val
    /\ /\ Cardinality(RealmLines(r)) = 1
       /\ \A i \in LimitLines(r) : ~BadLimit(said[i].line.val)
       => AsSaidIn(regRealms[r].limits, LimitLines(r))

\* The realms that run are the ones of the file, each with the checkers its
\* last line names and, if there is one line for it, with the limits that
\* follow, in order and none of another realm; and all checkers of the file
\* are registered.
RealmsAsConfigured ==
    phase = "running" => /\ regCheckers = CheckersSaid /\ DOMAIN regRealms = RealmsSaid
                         /\ \A r \in DOMAIN regRealms : RealmAsSaid(r)

\* The server that a line is about.
ServerOf(i) ==
    LET at == {j \in 1 .. i - 1 : said[j].line.is = "section" /\ said[j].line.section = "server"}
    IN IF at = {} \/ said[Max(at)].line.name = "" THEN NoName ELSE said[Max(at)].line.name
Said(name, key) == {i \in DOMAIN said : /\ said[i].in = "server" /\ said[i].line.is = "setting"
                                        /\ said[i].line.key = key /\ ServerOf(i) = name}
SaidValid(name, key) == {i \in Said(name, key) : said[i].line.val # Invalid}

\* The last valid value said for a server.  (A prefix for NAT64 is also reset by
\* an invalid value.)
LastSaid(name, k) ==
    LET counts == IF k = "nat64_prefix" THEN Said(name, k) ELSE SaidValid(name, k)
        v == said[Max(counts)].line.val
    IN IF counts = {} \/ v = Invalid THEN Default ELSE v

ServerAsSaid(name, options) ==
    /\ AsSaidIn(options.listen, Said(name, "listen"))
    /\ \A k \in ServerKeys : options.set[k] = LastSaid(name, k)

\* The default server comes first, a name means one server however often its
\* section is opened, and every server, as it is configured and as it is
\* started, has the last valid value said in its own sections and listens
\* where they say, in their order.
ServersAsConfigured ==
    phase # "undefined" =>
        /\ cfgServers[1].name = NoName
        /\ \A i, j \in DOMAIN cfgServers : cfgServers[i].name = cfgServers[j].name => i = j
        /\ \A i \in DOMAIN cfgServers : ServerAsSaid(cfgServers[i].name, cfgServers[i])
        /\ \A i \in DOMAIN started : ServerAsSaid(cfgServers[i].name, started[i])

=============================================================================
