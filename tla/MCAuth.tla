------------------------------- MODULE MCAuth -------------------------------
(***************************************************************************)
(* An instance of Startup and Authenticator for TLC: command lines and      *)
(* files of several kinds are read and the service is started; with one of  *)
(* the files, sessions log in.  There, realms Wiki and Mail share the       *)
(* checker `pam`, which Wiki asks after one of its own and one that is not  *)
(* registered; Typo is not configured.                                      *)
(***************************************************************************)
EXTENDS Authenticator, Startup

AllRealms == {"Wiki", "Mail", "Typo"}

MCStack ==
    [r \in {"Wiki", "Mail"} |->
        IF r = "Wiki" THEN <<"ldap", "gone", "pam">> ELSE <<"pam">>]

MCAccepts ==
    [c \in {"ldap", "pam"} |->
        IF c = "ldap" THEN {<<"ann", "a">>} ELSE {<<"ann", "b">>}]

MCDefaults == <<<<5, 3>>, <<60, 5>>, <<3600, 25>>>>

MCWords == {<<"-", "u">>, <<"-", "u", "x">>, <<"-", "g">>, <<"-", "g", "u">>, <<"-", "r">>,
            <<"-", "p">>, <<"-", "-">>, <<"-", "h">>, <<"x">>, <<"y">>, <<"z">>}
MCUsers == [w \in {<<"x">>, <<"y">>} |-> IF w = <<"x">> THEN [uid |-> 1, gid |-> 1]
                                         ELSE [uid |-> 2, gid |-> 2]]
MCGroups == [w \in {<<"x">>, <<"u">>} |-> IF w = <<"x">> THEN 1 ELSE 3]

Section(s) == [is |-> "section", section |-> s, name |-> NoName]
ServerSection(n) == [is |-> "section", section |-> "server", name |-> n]
Setting(k, v) == [is |-> "setting", key |-> k, val |-> v, limit |-> FALSE]
RealmLimitLine(k, v) == [is |-> "setting", key |-> k, val |-> v, limit |-> TRUE]
Skip == [is |-> "skip"]

GlobalFile ==
    {Setting("user", <<"x">>), Setting("user", <<"y">>), Setting("user", <<"z">>),
     Setting("group", <<"u">>), Setting("group", <<"z">>), Setting("pidfile", "pid"),
     Setting("resolveHosts", 0), Setting("resolveHosts", Invalid), Section("invalid"),
     Setting("session_limit", <<5, 1>>), Setting("session_limit", <<0, 1>>),
     Setting("login_fail_limit", <<65536, 1>>), Skip}
RealmsFile ==
    {Section("realms"), Setting("r", <<"a">>), Setting("r", <<"b">>),
     Setting("q", <<"a">>), Setting("q", <<"a", "b", "a", "b">>), RealmLimitLine("r", <<5, 1>>), RealmLimitLine("r", <<5, 0>>),
     RealmLimitLine("q", <<6, 2>>)}
ServersFile ==
    {ServerSection("a"), ServerSection(NoName), ServerSection(""), Setting("listen", 1),
     Setting("listen", 2),
     Setting("port", 1), Setting("port", Invalid),
     Setting("nat64_prefix", 1), Setting("nat64_prefix", Invalid)}

\* The file with which sessions log in.
ServiceLines == <<Section("checkers"), Setting("ldap", "pam"), Setting("pam", "pam"),
                  Section("realms"), Setting("Wiki", MCStack["Wiki"]), Setting("Mail", MCStack["Mail"])>>
ServiceFile == {ServiceLines[i] : i \in DOMAIN ServiceLines}
MCFiles == {GlobalFile, RealmsFile, ServersFile, ServiceFile}

MCRead == [f \in MCFiles |-> IF f = GlobalFile THEN 4 ELSE IF f = ServiceFile THEN 6 ELSE 5]

\* That file is read in its order, the others in any order; options are given
\* with the one they have to do with, and "--" ends a case.
OfInterest == /\ vocabulary = ServiceFile => \A i \in DOMAIN said : said[i].line = ServiceLines[i]
              /\ vocabulary # GlobalFile => phase # "exit" /\ flags = <<>> /\ resolveHosts = -1
              /\ escapedash => phase = "args" \/ phase = "exit"
AsService == phase = "running" /\ vocabulary = ServiceFile /\ Len(said) = Len(ServiceLines)

MCInit == Init /\ ServiceInit
\* MW_Session_done() deletes all sessions.
MCNext == \/ ServiceNext /\ phase' # "down" /\ OfInterest' /\ UNCHANGED avars
          \/ /\ Shutdown
             /\ info' = [r \in Realms |-> NoInfo] /\ failures' = [r \in Realms |-> Never]
             /\ outcome' = "none" /\ verified' = {} /\ UNCHANGED time
          \/ Next /\ AsService /\ UNCHANGED serviceVars
MCSpec == MCInit /\ [][MCNext]_<<avars, serviceVars>>

=============================================================================
