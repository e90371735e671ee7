----------------------------- MODULE LoginFlow -----------------------------
(***************************************************************************)
(* The two endpoints of swad working on one session: GET / (root.c), GET   *)
(* and POST of the login route (login.c) behind the CSRF protection        *)
(* (csrfprotect.c), on top of Authenticator.  Requests of one session run  *)
(* on several worker threads: every access to a property of the session is *)
(* a step, and so is every call of an operation of Authenticator.          *)
(***************************************************************************)
EXTENDS Authenticator

CONSTANTS
    Threads,    \* worker threads
    Rdrs,       \* redirect targets that are asked for
    None,       \* a property or parameter that is not set
    DefaultRealm,
    MaxForms,   \* bound: answers to GETs of the login route in a behaviour
    MaxGets     \* bound: GET requests in a behaviour

ASSUME FlowAssumption ==
    /\ None \notin Realms /\ None \notin 1 .. MaxForms
    /\ DefaultRealm \in Realms
    /\ MaxForms \in Nat /\ MaxGets \in Nat

VARIABLES
    prop,       \* the session's properties (the SK_* keys and the CSRF token)
    job,        \* job[t]: the request a thread works on, or Idle
    \* observed only
    forms,      \* the answers to GETs of the login route, in order: forms, or
                \* redirects after a silent login; a form's number is its token
    gets,       \* number of GET requests so far
    used,       \* tokens that a POST was let through with, as a sequence
    attempts,   \* the logins and logouts performed: form, realm, name, result
    overlap     \* have two requests been worked on at the same time?

fvars == <<prop, job, forms, gets, used, attempts, overlap>>
vars  == <<avars, fvars>>

Keys == {"authRealm", "authRdr", "realm", "rdr", "user", "error", "csrf"}
Idle == [pc |-> "idle", realm |-> None, rdr |-> None, name |-> None, pw |-> None,
         error |-> None, form |-> 0]

Pcs == {"idle", "denied", "denyRdr",
        "compare", "dropUser", "dropError", "storeRealm", "dropAuthRealm",
        "readRdr", "storeRdr", "dropAuthRdr",
        "show", "silent", "redirect", "readError", "readUser", "loginForm", "logoutForm",
        "clearToken", "readRealm", "login", "ask", "logout",
        "done", "doneUser", "failed", "failRdr", "failError", "failUser"}

\* loginHandler_realm()
RealmOr(r) == IF r = None THEN DefaultRealm ELSE r

FlowTypeOK ==
    /\ DOMAIN prop = Keys
    /\ {prop[k] : k \in {"authRealm", "realm"}} \subseteq Realms \cup {None}
    /\ {prop[k] : k \in {"authRdr", "rdr"}} \subseteq Rdrs \cup {None}
    /\ prop["csrf"] \in 1 .. MaxForms \cup {None}
    /\ \A t \in Threads : job[t].pc \in Pcs /\ job[t].form \in 0 .. Len(forms)

FlowInit ==
    /\ Init
    /\ prop = [k \in Keys |-> None]
    /\ job = [t \in Threads |-> Idle]
    /\ forms = <<>> /\ gets = 0 /\ used = <<>> /\ attempts = {} /\ overlap = FALSE

Goto(t, pc) == job' = [job EXCEPT ![t].pc = pc]
Finish(t)   == job' = [job EXCEPT ![t] = Idle]

At(t, pc) == job[t].pc = pc /\ UNCHANGED <<gets, used, overlap>>

\* Session_setProp() at a step of the request.
SetAt(t, pc, k, v) ==
    /\ At(t, pc)
    /\ prop' = [prop EXCEPT ![k] = v]
    /\ UNCHANGED <<avars, forms, attempts>>

\* A step that only reads properties, or asks for the user of a realm.
ReadAt(t, pc) == At(t, pc) /\ UNCHANGED <<avars, prop, forms, attempts>>

-----------------------------------------------------------------------------
(* GET /: rootHandler()                                                    *)

\* A request is taken up by thread t.
Begin(t, j) ==
    /\ job[t] = Idle
    /\ job' = [job EXCEPT ![t] = j]
    /\ overlap' = (overlap \/ \E u \in Threads : job[u] # Idle)

Get(t, pc, r, d) ==
    /\ gets < MaxGets
    /\ gets' = gets + 1
    /\ Begin(t, [Idle EXCEPT !.pc = pc, !.realm = r, !.rdr = d])
    /\ UNCHANGED <<avars, prop, forms, used, attempts>>

\* 200 for a user of the realm.
RootOk(t, asked) ==
    /\ job[t] = Idle /\ SomeUser(RealmOr(asked))
    /\ UNCHANGED vars

\* 403 with a redirect to the login route for all others.
RootDenied(t, asked, d) ==
    /\ ~SomeUser(RealmOr(asked))
    /\ Get(t, "denied", RealmOr(asked), d)

RootStoreRealm(t) == SetAt(t, "denied", "authRealm", job[t].realm) /\ Goto(t, "denyRdr")

RootStoreRdr(t) == SetAt(t, "denyRdr", "authRdr", job[t].rdr) /\ Finish(t)

-----------------------------------------------------------------------------
(* GET of the login route: updateSession(), showForm()                     *)

\* The realm an earlier request left in the session wins over the parameter.
FormGet(t, asked, d) ==
    Get(t, "compare",
        IF prop["authRealm"] # None THEN prop["authRealm"] ELSE RealmOr(asked), d)

\* Mutant: error message and user name of another realm stay.
CompareNot(t) == ReadAt(t, "compare") /\ Goto(t, "storeRealm")

\* For another realm than the one in the session, the user name and the error
\* message there are dropped.
CompareRealm(t) ==
    /\ ReadAt(t, "compare")
    /\ Goto(t, IF prop["realm"] \notin {None, job[t].realm} THEN "dropUser" ELSE "storeRealm")

DropUser(t)  == SetAt(t, "dropUser", "user", None) /\ Goto(t, "dropError")
DropError(t) == SetAt(t, "dropError", "error", None) /\ Goto(t, "storeRealm")

\* Mutant: the realm in the session is the first one that was asked for.
StoreRealmOnce(t) ==
    /\ SetAt(t, "storeRealm", "realm", IF prop["realm"] = None THEN job[t].realm ELSE prop["realm"])
    /\ Goto(t, "dropAuthRealm")

StoreRealm(t) == SetAt(t, "storeRealm", "realm", job[t].realm) /\ Goto(t, "dropAuthRealm")

DropAuthRealm(t) == SetAt(t, "dropAuthRealm", "authRealm", None) /\ Goto(t, "readRdr")

\* The same for the redirect target.
ReadRdr(t) ==
    /\ ReadAt(t, "readRdr")
    /\ job' = [job EXCEPT ![t].pc = "storeRdr",
                          ![t].rdr = IF prop["authRdr"] # None
                                       THEN prop["authRdr"] ELSE @]

StoreRdr(t)    == SetAt(t, "storeRdr", "rdr", job[t].rdr) /\ Goto(t, "dropAuthRdr")
DropAuthRdr(t) == SetAt(t, "dropAuthRdr", "authRdr", None) /\ Goto(t, "show")

\* Authenticator_user(): a user gets the logout form.
ShowUser(t) ==
    /\ ReadAt(t, "show")
    /\ Goto(t, IF SomeUser(job[t].realm) THEN "logoutForm" ELSE "silent")

\* A silent login succeeds, or somebody logged in meanwhile: a redirect and no
\* form, the token of the last one stays valid.
ShowSilent(t) ==
    /\ At(t, "silent")
    /\ \/ SilentLogin(job[t].realm)
       \/ SomeUser(job[t].realm) /\ UNCHANGED avars
    /\ Goto(t, "redirect")
    /\ UNCHANGED <<prop, forms, attempts>>

ShowLogin(t) ==
    /\ ReadAt(t, "silent")
    /\ ~SilentReady(job[t].realm) /\ ~SomeUser(job[t].realm)
    /\ Goto(t, "readError")

\* The login form shows the error message and the user name.
ReadError(t) ==
    /\ ReadAt(t, "readError")
    /\ job' = [job EXCEPT ![t].pc = "readUser", ![t].error = prop["error"]]

ReadUser(t) ==
    /\ ReadAt(t, "readUser")
    /\ job' = [job EXCEPT ![t].pc = "loginForm", ![t].name = prop["user"]]

\* The answer: a redirect, or a form with a new token that replaces the old one
\* (CSRFProtect_token()).
AnswerAt(t, pc, k, v) ==
    /\ At(t, pc)
    /\ Len(forms) < MaxForms
    /\ forms' = Append(forms, [kind |-> pc, realm |-> job[t].realm,
                               user |-> job[t].name, error |-> job[t].error])
    /\ prop' = [prop EXCEPT ![k] = v]
    /\ Finish(t)
    /\ UNCHANGED <<avars, attempts>>

Redirect(t) == AnswerAt(t, "redirect", "error", None)

Render(t) == \E pc \in {"loginForm", "logoutForm"} : AnswerAt(t, pc, "csrf", Len(forms) + 1)

-----------------------------------------------------------------------------
(* POST of the login route: MW_CSRFProtect(), doLogin()                    *)

\* A form is sent with a user name and a password.  A token that is not the
\* current one is answered with 403 and changes nothing.
Post(t, f, n, p) ==
    /\ prop["csrf"] = f
    /\ Begin(t, [Idle EXCEPT !.pc = "clearToken", !.form = f, !.name = n, !.pw = p])
    /\ used' = Append(used, f)
    /\ UNCHANGED <<avars, prop, forms, gets, attempts>>

\* Mutant: the token stays valid.
ClearNoToken(t) == ReadAt(t, "clearToken") /\ Goto(t, "readRealm")

ClearToken(t) == SetAt(t, "clearToken", "csrf", None) /\ Goto(t, "readRealm")

\* doLogin() reads the realm from the session.  The login form has been
\* rendered, so there is one.
ReadRealm(t) ==
    /\ ReadAt(t, "readRealm")
    /\ job' = [job EXCEPT ![t].pc = "login", ![t].realm = prop["realm"]]

\* No button, no user name or password, or one that is too long: the token is
\* spent and the client is sent back to the form.
PostIncomplete(t) == ReadAt(t, "login") /\ Finish(t)

\* The button `login` of the login form: the target of the redirect is read ...
PressLogin(t) ==
    /\ ReadAt(t, "login")
    /\ forms[job[t].form].kind = "loginForm"
    /\ job' = [job EXCEPT ![t].pc = "ask", ![t].rdr = prop["rdr"]]

Attempted(t, result) ==
    attempts' = attempts \cup {[form |-> job[t].form, realm |-> job[t].realm,
                                name |-> job[t].name, result |-> result]}

\* ... and the credentials are checked.
PostLogin(t) ==
    /\ At(t, "ask")
    /\ Login(job[t].realm, job[t].name, job[t].pw)
    /\ Goto(t, IF outcome' = "ok" THEN "done" ELSE "failed")
    /\ Attempted(t, outcome')
    /\ UNCHANGED <<prop, forms>>

DoneError(t) == SetAt(t, "done", "error", None) /\ Goto(t, "doneUser")
DoneUser(t)  == SetAt(t, "doneUser", "user", job[t].name) /\ Finish(t)

\* The next GET of the login route shows the form for this realm again.
FailRealm(t) == SetAt(t, "failed", "authRealm", job[t].realm) /\ Goto(t, "failRdr")
FailRdr(t)   == SetAt(t, "failRdr", "authRdr", job[t].rdr) /\ Goto(t, "failError")
FailError(t) == SetAt(t, "failError", "error", "failed") /\ Goto(t, "failUser")
FailUser(t)  == SetAt(t, "failUser", "user", job[t].name) /\ Finish(t)

\* The button `logout` of the other form: if there is a user, it is logged out.
PressLogout(t) ==
    /\ ReadAt(t, "login")
    /\ forms[job[t].form].kind = "logoutForm"
    /\ IF SomeUser(job[t].realm) THEN Goto(t, "logout") ELSE Finish(t)

PostLogout(t) ==
    /\ At(t, "logout")
    /\ IF SomeUser(job[t].realm) THEN Logout(job[t].realm) ELSE UNCHANGED avars
    /\ Attempted(t, "logout")
    /\ Finish(t)
    /\ UNCHANGED <<prop, forms>>

-----------------------------------------------------------------------------
FlowNext ==
    \E t \in Threads :
        \/ \E r \in Realms \cup {None} : RootOk(t, r)
        \/ \E r \in Realms \cup {None}, d \in Rdrs : RootDenied(t, r, d) \/ FormGet(t, r, d)
        \/ RootStoreRealm(t) \/ RootStoreRdr(t)
        \/ CompareRealm(t) \/ DropUser(t) \/ DropError(t) \/ StoreRealm(t) \/ DropAuthRealm(t)
        \/ ReadRdr(t) \/ StoreRdr(t) \/ DropAuthRdr(t)
        \/ ShowUser(t) \/ ShowSilent(t) \/ ShowLogin(t) \/ ReadError(t) \/ ReadUser(t)
        \/ Redirect(t) \/ Render(t)
        \/ \E f \in DOMAIN forms, n \in Names, p \in Pws : Post(t, f, n, p)
        \/ ClearToken(t) \/ ReadRealm(t)
        \/ PostIncomplete(t) \/ PressLogin(t) \/ PostLogin(t) \/ PressLogout(t) \/ PostLogout(t)
        \/ DoneError(t) \/ DoneUser(t)
        \/ FailRealm(t) \/ FailRdr(t) \/ FailError(t) \/ FailUser(t)

FlowSpec == FlowInit /\ [][FlowNext]_vars

-----------------------------------------------------------------------------
(* Properties.                                                             *)

\* Credentials are checked for the realm whose form they were entered into, not
\* for one that another request left in the session since.
FormRealmHonoured ==
    \A a \in attempts : forms[a.form].kind = "loginForm" => a.realm = forms[a.form].realm

\* For requests one after the other, a login or logout is performed for the realm
\* of the form that was sent.  Only a silent login in between can change it, as
\* it answers without a form and a new token.
FormRealmKept ==
    overlap \/ \A a \in attempts :
        \/ a.realm = forms[a.form].realm
        \/ \E i \in DOMAIN forms : i > a.form /\ forms[i].kind = "redirect"

\* A form can be sent once: of requests one after the other, MW_CSRFProtect()
\* lets one through for every token.
TokenOnce == overlap \/ \A i, j \in DOMAIN used : used[i] = used[j] => i = j

\* For requests one after the other, an error message on a form belongs to a
\* failed login for the realm of this form, under the name the form shows with
\* it.  (A name without a message may also be the one of a user who logged in.)
ErrorIsMine ==
    overlap \/ \A i \in DOMAIN forms : forms[i].error # None =>
        \E a \in attempts : /\ a.realm = forms[i].realm
                            /\ a.name = forms[i].user
                            /\ a.result \in {"failed", "blocked"}

=============================================================================
