---------------------------- MODULE SessionProps ----------------------------
(***************************************************************************)
(* The memory behind the properties of one session.  Session_getProp()     *)
(* hands out a bare pointer and Session_setProp() frees what was there; the *)
(* handlers keep such pointers over several steps, and requests of one      *)
(* session run on several threads.  LoginFlow models what the properties    *)
(* say; this module models who owns them.                                   *)
(*                                                                          *)
(* The objects a property has held are numbered; 0 is a null pointer.  A    *)
(* request is the list of the accesses that are left of its handler: `get`  *)
(* a pointer, `use` it (if it is one), `set` a copy, `clear`, and the calls  *)
(* into the authenticator.  What static strings are stored is left out.     *)
(***************************************************************************)
EXTENDS Naturals, Sequences

CONSTANTS PThreads,      \* worker threads
          MaxRequests    \* bound: requests in a behaviour

Keys == {"form", "realm", "arealm", "rdr", "ardr", "name", "csrf",
         "table",        \* SESSKEY of the authenticator
         "user",         \* the User in the table
         "referrer"}

VARIABLES value,         \* value[k]: the object property k points to
          last,          \* the number of the last object made for k
          gone,         \* the objects of k given back so far
          steps, ptr,    \* per thread: what is left of its request, its pointers
          \* observed only
          requests,
          misused,       \* was an object used or freed after it was gone?
          overlap        \* which requests have run at the same time: "none",
                         \* "checks" of a session with a table, or "others"

objVars == <<value, last, gone>>
propVars == <<objVars, steps, ptr, requests, misused, overlap>>

Nothing == [k \in Keys |-> 0]

PropInit == /\ value = Nothing /\ last = Nothing /\ gone = [k \in Keys |-> {}]
            /\ steps = [t \in PThreads |-> <<>>] /\ ptr = [t \in PThreads |-> Nothing]
            /\ requests = 0 /\ misused = FALSE /\ overlap = "none"

-----------------------------------------------------------------------------
(* The handlers as lists of accesses.                                      *)

\* Authenticator_create(): getAuthInfos() looks the table up and makes one if
\* there is none.
AuthCreate == <<<<"get", "table">>, <<"ensure", "table">>>>

RootHandler == AuthCreate \o <<<<"user", "root">>>>
RootAllowed == <<<<"use", "user">>>>
RootDenied  == <<<<"set", "arealm">>, <<"set", "ardr">>>>

\* Mutant: the property is cleared before its value was copied.
UpdateSessionEarly ==
    <<<<"set", "form">>, <<"get", "arealm">>, <<"get", "realm">>, <<"clear", "arealm">>,
      <<"use", "realm">>, <<"use", "arealm">>, <<"set", "realm">>, <<"get", "ardr">>,
      <<"use", "ardr">>, <<"set", "rdr">>, <<"clear", "ardr">>>>

UpdateSession ==
    <<<<"set", "form">>, <<"get", "arealm">>, <<"get", "realm">>, <<"use", "arealm">>,
      <<"use", "realm">>, <<"other", "name">>, <<"use", "arealm">>, <<"set", "realm">>,
      <<"clear", "arealm">>, <<"get", "ardr">>, <<"use", "ardr">>, <<"set", "rdr">>,
      <<"clear", "ardr">>>>

\* The template keeps pointers and is processed at the end; MW_Session() then
\* replaces the referrer, without a lock.
Replace == <<<<"free", "referrer">>, <<"store", "referrer">>>>

ShowForm   == UpdateSession \o AuthCreate \o <<<<"use", "realm">>, <<"user", "form">>>>
ShowSilent == <<<<"read", "user">>, <<"deref", "user">>, <<"use", "realm">>,
                <<"get", "rdr">>, <<"use", "rdr">>>> \o Replace
ShowLogin  == <<<<"get", "name">>, <<"set", "csrf">>, <<"use", "name">>, <<"use", "csrf">>,
                <<"use", "realm">>>> \o Replace
ShowLogout == <<<<"use", "user">>, <<"set", "csrf">>, <<"use", "user">>, <<"use", "csrf">>,
                <<"use", "realm">>>> \o Replace

\* MW_CSRFProtect() and doLogin() with one of the two buttons.
Protect == <<<<"get", "csrf">>, <<"use", "csrf">>, <<"clear", "csrf">>,
             <<"get", "realm">>, <<"get", "form">>>>
DoLogin == Protect \o <<<<"get", "rdr">>>> \o AuthCreate \o <<<<"use", "realm">>, <<"login", "user">>>>
DoLogout == Protect \o AuthCreate \o <<<<"use", "realm">>, <<"user", "logout">>>>
LoginOk     == <<<<"use", "realm">>, <<"set", "name">>, <<"use", "rdr">>>>
LoginFailed == <<<<"use", "realm">>, <<"set", "arealm">>, <<"use", "rdr">>, <<"set", "ardr">>,
                 <<"use", "realm">>, <<"set", "name">>, <<"use", "form">>>>
LogoutDone  == <<<<"logout", "user">>, <<"get", "rdr">>, <<"use", "rdr">>>>
BackToForm  == <<<<"use", "form">>>>

\* A form without a button, a usable name or a usable password
DoNothing == Protect \o BackToForm

\* How a request goes on after Authenticator_user().
Then(who, found) ==
    CASE who = "root"   -> IF found THEN RootAllowed ELSE RootDenied
      [] who = "form"   -> IF found THEN ShowLogout ELSE <<<<"silent", "user">>>>
      [] who = "logout" -> IF found THEN LogoutDone ELSE BackToForm

-----------------------------------------------------------------------------
(* The accesses.                                                           *)

Bad(k, n) == n # 0 /\ n \in gone[k]

Step(t, op) == steps[t] # <<>> /\ ~misused /\ Head(steps[t])[1] = op
Key(t) == Head(steps[t])[2]
Go(t, rest) == steps' = [steps EXCEPT ![t] = rest]
OnStep(t) == Go(t, Tail(steps[t])) /\ UNCHANGED <<requests, overlap>>
Point(t, k, n) == ptr' = [ptr EXCEPT ![t][k] = n]

\* Session_getProp() for most, and the unlocked read of a pointer.
GetProp(t) ==
    /\ Step(t, "get")
    /\ Point(t, Key(t), value[Key(t)])
    /\ OnStep(t) /\ UNCHANGED <<objVars, misused>>

Use(t) ==
    /\ Step(t, "use") \/ Step(t, "deref")
    /\ misused' = \/ Bad(Key(t), ptr[t][Key(t)])
                  \/ Head(steps[t])[1] = "deref" /\ ptr[t][Key(t)] = 0
    /\ OnStep(t) /\ UNCHANGED <<objVars, ptr>>

\* What becomes of the objects when property k gets a new one, or none; the
\* deleter of the table deletes the user in it.
Replaced(k, new) ==
    LET owned == IF k = "table" THEN {"user"} ELSE {}
    IN /\ last' = [last EXCEPT ![k] = IF new THEN @ + 1 ELSE @]
       /\ value' = [j \in Keys |-> IF j = k /\ new THEN last[k] + 1
                                  ELSE IF j \in owned \cup {k} THEN 0 ELSE value[j]]
       /\ gone' = [j \in Keys |-> IF j \in owned \cup {k} THEN gone[j] \cup ({value[j]} \ {0})
                                                       ELSE gone[j]]

\* Session_setProp(), under the lock of the session.
SetProp(t) ==
    /\ Step(t, "set")
    /\ Replaced(Key(t), TRUE)
    /\ Point(t, Key(t), last[Key(t)] + 1)
    /\ misused' = Bad(Key(t), value[Key(t)])
    /\ OnStep(t)

ClearProp(t) ==
    /\ Step(t, "clear")
    /\ Replaced(Key(t), FALSE)
    /\ misused' = Bad(Key(t), value[Key(t)])
    /\ OnStep(t) /\ UNCHANGED ptr

\* A form of another realm than the last one forgets the user name.
OtherRealm(t) ==
    /\ Step(t, "other")
    /\ Replaced("name", FALSE) \/ UNCHANGED objVars
    /\ OnStep(t) /\ UNCHANGED <<ptr, misused>>

EnsureTable(t) ==
    /\ Step(t, "ensure")
    /\ IF ptr[t]["table"] # 0 THEN UNCHANGED <<objVars, ptr>>
       ELSE Replaced("table", TRUE) /\ Point(t, "table", last["table"] + 1)
    /\ OnStep(t) /\ UNCHANGED misused

\* The last lines of MW_Session(): free() and a new copy.
FreeReferrer(t) ==
    /\ Step(t, "free")
    /\ gone' = [gone EXCEPT ![Key(t)] = @ \cup ({value[Key(t)]} \ {0})]
    /\ misused' = Bad(Key(t), value[Key(t)])
    /\ OnStep(t) /\ UNCHANGED <<value, last, ptr>>

StoreReferrer(t) ==
    /\ Step(t, "store")
    /\ last' = [last EXCEPT ![Key(t)] = @ + 1]
    /\ value' = [value EXCEPT ![Key(t)] = last[Key(t)] + 1]
    /\ OnStep(t) /\ UNCHANGED <<gone, ptr, misused>>

-----------------------------------------------------------------------------
(* The authenticator, under authlock.                                      *)

Table(t) == misused' = Bad("table", ptr[t]["table"])

\* Authenticator_user(): the pointer outlives the lock.
AuthenticatorUser(t) ==
    /\ Step(t, "user") \/ Step(t, "read")
    /\ Table(t)
    /\ Point(t, "user", value["user"])
    /\ Go(t, IF Head(steps[t])[1] = "read" THEN Tail(steps[t])
             ELSE Then(Key(t), value["user"] # 0))
    /\ UNCHANGED <<objVars, requests, overlap>>

\* The user of another realm is copied, or somebody logged in meanwhile.
AuthenticatorSilentLogin(t) ==
    /\ Step(t, "silent")
    /\ Table(t)
    /\ \/ Go(t, ShowSilent) /\ (IF value["user"] = 0 THEN Replaced("user", TRUE)
                                                     ELSE UNCHANGED objVars)
       \/ value["user"] = 0 /\ Go(t, ShowLogin) /\ UNCHANGED objVars
    /\ UNCHANGED <<ptr, requests, overlap>>

AuthenticatorLogin(t) ==
    /\ Step(t, "login")
    /\ Table(t)
    /\ \/ Replaced("user", TRUE) /\ Go(t, LoginOk)
       \/ UNCHANGED objVars /\ Go(t, LoginFailed)
    /\ UNCHANGED <<ptr, requests, overlap>>

AuthenticatorLogout(t) ==
    /\ Step(t, "logout")
    /\ Table(t)
    /\ IF value["user"] = 0 THEN UNCHANGED objVars ELSE Replaced("user", FALSE)
    /\ OnStep(t) /\ UNCHANGED ptr

-----------------------------------------------------------------------------

\* A thread takes up a request.  A POST whose token is not the session's ends
\* after it was compared.
BeginRequest(t, list) ==
    /\ steps[t] = <<>> /\ ~misused /\ requests < MaxRequests
    /\ Go(t, list) /\ ptr' = [ptr EXCEPT ![t] = Nothing]
    /\ requests' = requests + 1
    /\ LET others == {u \in PThreads : steps[u] # <<>>}
           checks == /\ list = RootHandler /\ value["table"] # 0
                     /\ \A u \in others : steps[u][Len(steps[u])] \in
                           {<<"user", "root">>, <<"use", "user">>, <<"set", "ardr">>}
       IN overlap' = IF others = {} \/ overlap = "others" THEN overlap
                     ELSE IF checks THEN "checks" ELSE "others"
    /\ UNCHANGED <<objVars, misused>>

Requests == {RootHandler, ShowForm, <<<<"get", "csrf">>, <<"use", "csrf">>>>}
            \cup (IF value["csrf"] = 0 THEN {} ELSE {DoLogin, DoLogout, DoNothing})

PropNext ==
    \E t \in PThreads :
        \/ \E list \in Requests : BeginRequest(t, list)
        \/ GetProp(t) \/ Use(t) \/ SetProp(t) \/ ClearProp(t) \/ OtherRealm(t)
        \/ EnsureTable(t) \/ FreeReferrer(t) \/ StoreReferrer(t)
        \/ AuthenticatorUser(t) \/ AuthenticatorSilentLogin(t)
        \/ AuthenticatorLogin(t) \/ AuthenticatorLogout(t)

PropSpec == PropInit /\ [][PropNext]_propVars

\* No object of a session is used or freed after it was freed as long as its
\* requests come one after the other, and neither when checks (GET /) of a
\* session that has a table of logins run at the same time, allowed or denied.
\* (A form or a login at the same time as anything else of the session can free
\* what the other request still uses.)
PropsOwned == misused => overlap = "others"

=============================================================================
