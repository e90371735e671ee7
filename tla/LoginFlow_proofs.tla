--------------------------- MODULE LoginFlow_proofs ---------------------------
(***************************************************************************)
(* Proofs about LoginFlow, for any realms, names, passwords and bounds.    *)
(* What the module promises, it promises for requests one after the other, *)
(* so most of the invariant speaks of them: at most one thread is at work, *)
(* and what it has read from the session is still there.                   *)
(***************************************************************************)
EXTENDS LoginFlow, TLAPS

Values == Realms \cup Rdrs \cup Names \cup {None, "failed"} \cup 1 .. MaxForms

\* The values that a property of the session can have.
Kept(k) ==
    CASE k \in {"authRealm", "realm"} -> Realms \cup {None}
      [] k \in {"authRdr", "rdr"}     -> Rdrs \cup {None}
      [] OTHER                        -> Values

Props == {p \in [Keys -> Values] : \A k \in Keys : p[k] \in Kept(k)}

Jobs == [pc : Pcs, realm : Realms \cup {None}, rdr : Rdrs \cup {None}, name : Values,
         pw : Pws \cup {None}, error : Values, form : Nat]

Answers == [kind : {"loginForm", "logoutForm", "redirect"}, realm : Realms \cup {None},
            user : Values, error : Values]

\* The steps of a GET of the login route before the realm is stored, and after.
Choosing == {"compare", "dropUser", "dropError", "storeRealm"}
Asking   == {"dropAuthRealm", "readRdr", "storeRdr", "dropAuthRdr", "show", "silent",
             "redirect", "readError", "readUser", "loginForm", "logoutForm"}

\* The steps of a POST: up to the realm being read, with it, and after a failure.
Opening == {"clearToken", "readRealm"}
Trying  == {"login", "ask", "logout"}
Failing == {"failed", "failRdr", "failError", "failUser"}

\* A job that posts has a form that was shown.
Sent == Opening \cup Trying \cup Failing \cup {"done", "doneUser"}

FlowTypes ==
    /\ prop \in Props
    /\ prop["csrf"] \in 1 .. Len(forms) \cup {None}
    /\ job \in [Threads -> Jobs]
    /\ \A t \in Threads : job[t].pc \in Sent => job[t].form \in 1 .. Len(forms)
    /\ forms \in Seq(Answers) /\ Len(forms) <= MaxForms
    /\ used \in Seq(Nat) /\ \A i \in DOMAIN used : used[i] \in 1 .. Len(forms)
    /\ \A a \in attempts : a.form \in 1 .. Len(forms)
    /\ overlap \in BOOLEAN

\* At most one thread works.
Alone == \A t, u \in Threads : job[t] # Idle /\ job[u] # Idle => t = u

\* The thread at work; where there is none, any of them.
Working(t) == job[t] # Idle \/ \A u \in Threads : job[u] = Idle

\* A form that was shown for a realm, or after which a silent login happened.
Stands(f, r) ==
    \/ forms[f].realm = r
    \/ \E i \in DOMAIN forms : i > f /\ forms[i].kind = "redirect"

\* A login for realm r under name n failed.
Blamed(r, n) ==
    \E a \in attempts : a.realm = r /\ a.name = n /\ a.result \in {"failed", "blocked"}

\* A request that has chosen a realm finds it in the session.
RealmKept(j) ==
    /\ j.pc \in Choosing \cup Asking \cup Trying \cup Failing => j.realm # None
    /\ j.pc \in Asking \cup Trying \cup Failing => j.realm = prop["realm"]
    /\ j.pc \in Opening => prop["realm"] # None

\* A form on its way back still stands, and so does the last one shown.
FormStands(j) ==
    /\ j.pc \in Opening \cup Trying => Stands(j.form, prop["realm"])
    /\ prop["csrf"] # None =>
          /\ prop["realm"] # None
          /\ Stands(prop["csrf"], prop["realm"]) \/ j.pc \in Asking

\* The token in the session was never used, or is about to be cleared.
TokenFresh(j) == \A i \in DOMAIN used : used[i] = prop["csrf"] => j.pc = "clearToken"

\* An error message in the session belongs to the realm and the name there, but
\* for the steps that put them there one by one, or take them away; and a failed
\* login is behind every message on its way there, or to a form.
ErrorKept(j) ==
    /\ prop["error"] # None =>
          /\ prop["realm"] # None
          /\ Blamed(prop["realm"], prop["user"]) \/ j.pc \in {"dropError", "failUser"}
          /\ j.pc = "storeRealm" => j.realm = prop["realm"]
          /\ j.pc # "doneUser"
    /\ j.pc \in Failing => Blamed(j.realm, j.name)
    /\ j.error # None => \/ j.pc = "readUser" /\ Blamed(prop["realm"], prop["user"])
                         \/ j.pc = "loginForm" /\ Blamed(j.realm, j.name)

Fits(j) == RealmKept(j) /\ FormStands(j) /\ TokenFresh(j) /\ ErrorKept(j)

\* What the properties say of the past.
AttemptsFit == \A a \in attempts : Stands(a.form, a.realm)
UsedOnce    == \A i, j \in DOMAIN used : used[i] = used[j] => i = j
ErrorsFit   == \A i \in DOMAIN forms :
                  forms[i].error # None => Blamed(forms[i].realm, forms[i].user)

Past == AttemptsFit /\ UsedOnce /\ ErrorsFit

OneByOne == Alone /\ Past /\ \A t \in Threads : Working(t) => Fits(job[t])

FlowInv == FlowTypes /\ (overlap \/ OneByOne)

-----------------------------------------------------------------------------
(* Types.                                                                  *)

LEMMA IdleJob == Idle \in Jobs /\ Idle.pc = "idle" /\ Idle.error = None /\ Idle.pc \notin Sent
BY DEF Idle, Jobs, Pcs, Values, Sent, Opening, Trying, Failing

LEMMA FlowInitInv == FlowInit => FlowInv
<1> SUFFICES ASSUME FlowInit PROVE FlowInv
  OBVIOUS
<1> USE FlowAssumption DEF FlowInit
<1>2. FlowTypes
  <2>1. prop \in Props /\ prop["csrf"] = None
    BY DEF Props, Kept, Values, Keys
  <2>2. \A t \in Threads : job[t] = Idle /\ job[t].pc \notin Sent
    BY IdleJob
  <2>3. job \in [Threads -> Jobs]
    BY IdleJob
  <2>4. forms \in Seq(Answers) /\ Len(forms) <= MaxForms
    OBVIOUS
  <2>5. used \in Seq(Nat) /\ \A i \in DOMAIN used : used[i] \in 1 .. Len(forms)
    OBVIOUS
  <2>6. (\A a \in attempts : a.form \in 1 .. Len(forms)) /\ overlap \in BOOLEAN
    OBVIOUS
  <2> HIDE DEF FlowInit
  <2> QED
    BY <2>1, <2>2, <2>3, <2>4, <2>5, <2>6 DEF FlowTypes
<1>3. Fits(Idle)
  BY IdleJob DEF Fits, RealmKept, FormStands, TokenFresh, ErrorKept, Choosing, Asking, Opening, Trying,
                 Failing, Keys
<1>4. Alone /\ Past
  BY DEF Alone, Past, AttemptsFit, UsedOnce, ErrorsFit
<1>5. \A t \in Threads : job[t] = Idle
  OBVIOUS
<1> QED
  BY <1>2, <1>3, <1>4, <1>5 DEF FlowInv, OneByOne

\* A request goes on with job j, and no form is shown.
LEMMA MoveTypes ==
    ASSUME FlowTypes, NEW t \in Threads, NEW j \in Jobs, job' = [job EXCEPT ![t] = j],
           j.pc \in Sent => j.form \in 1 .. Len(forms),
           UNCHANGED <<forms, used>>, overlap' \in BOOLEAN,
           \A a \in attempts' : a \in attempts \/ a.form \in 1 .. Len(forms),
           prop' \in Props, prop'["csrf"] \in {prop["csrf"], None}
    PROVE  FlowTypes'
BY FlowAssumption DEF FlowTypes

\* The answer to a GET of the login route.
LEMMA AnswerTypes ==
    ASSUME FlowTypes, NEW t \in Threads, NEW pc \in {"loginForm", "logoutForm", "redirect"},
           NEW k, NEW v, AnswerAt(t, pc, k, v),
           \/ k = "error" /\ v = None
           \/ k = "csrf" /\ v = Len(forms) + 1
    PROVE  FlowTypes'
<1> USE FlowAssumption
<1> DEFINE a == [kind |-> pc, realm |-> job[t].realm, user |-> job[t].name, error |-> job[t].error]
<1>1. /\ Len(forms) < MaxForms /\ forms' = Append(forms, a) /\ job' = [job EXCEPT ![t] = Idle]
      /\ prop' = [prop EXCEPT ![k] = v] /\ UNCHANGED <<used, attempts, overlap>>
  BY DEF AnswerAt, At, Finish
<1>2. a \in Answers /\ job \in [Threads -> Jobs]
  BY DEF Answers, Jobs, FlowTypes
<1> HIDE DEF a
<1>3. /\ forms' \in Seq(Answers) /\ Len(forms') = Len(forms) + 1
      /\ Len(forms) \in Nat /\ Len(forms') <= MaxForms
      /\ Len(forms) + 1 \in 1 .. MaxForms
  BY <1>1, <1>2 DEF FlowTypes
<1>4. 1 .. Len(forms) \subseteq 1 .. Len(forms')
  BY <1>3
<1>5. /\ \A u \in Threads : job'[u] = IF u = t THEN Idle ELSE job[u]
      /\ job' \in [Threads -> Jobs]
  BY <1>1, <1>2, IdleJob
<1>6. prop' \in Props /\ prop'["csrf"] \in {prop["csrf"], Len(forms) + 1}
  <2>1. CASE k = "error" /\ v = None
    BY <1>1, <2>1 DEF FlowTypes, Props, Keys, Kept, Values
  <2>2. CASE k = "csrf" /\ v = Len(forms) + 1
    BY <1>1, <1>3, <2>2 DEF FlowTypes, Props, Keys, Kept, Values
  <2> QED
    BY <2>1, <2>2
<1> QED
  BY <1>1, <1>3, <1>4, <1>5, <1>6, IdleJob DEF FlowTypes

\* A request begins.
LEMMA GetTypes ==
    ASSUME FlowTypes, NEW t \in Threads, NEW pc \in {"denied", "compare"}, NEW r \in Realms,
           NEW d \in Rdrs, Get(t, pc, r, d)
    PROVE  FlowTypes'
<1> DEFINE j == [Idle EXCEPT !.pc = pc, !.realm = r, !.rdr = d]
<1>1. j \in Jobs /\ j.pc \notin Sent
  BY DEF Idle, Jobs, Pcs, Values, Sent, Opening, Trying, Failing
<1>2. job' = [job EXCEPT ![t] = j] /\ overlap' \in BOOLEAN /\ UNCHANGED <<prop, forms, used, attempts>>
  BY DEF Get, Begin, FlowTypes
<1> HIDE DEF j
<1> QED
  BY <1>1, <1>2, MoveTypes DEF FlowTypes

LEMMA PostTypes ==
    ASSUME FlowTypes, NEW t \in Threads, NEW f \in DOMAIN forms, NEW n \in Names, NEW p \in Pws,
           Post(t, f, n, p)
    PROVE  FlowTypes'
<1> DEFINE j == [Idle EXCEPT !.pc = "clearToken", !.form = f, !.name = n, !.pw = p]
<1>1. f \in 1 .. Len(forms) /\ f \in Nat
  BY DEF FlowTypes
<1>2. j \in Jobs /\ j.form = f
  BY <1>1 DEF Idle, Jobs, Pcs, Values
<1>3. /\ job' = [job EXCEPT ![t] = j] /\ overlap' \in BOOLEAN /\ UNCHANGED <<prop, forms, attempts>>
      /\ used' = Append(used, f)
  BY DEF Post, Begin, FlowTypes
<1> HIDE DEF j
<1>4. used' \in Seq(Nat) /\ \A i \in DOMAIN used' : used'[i] \in 1 .. Len(forms)
  BY <1>1, <1>3 DEF FlowTypes
<1> QED
  BY <1>1, <1>2, <1>3, <1>4 DEF FlowTypes

\* What a login returns if it does not succeed.
LEMMA LoginResults ==
    ASSUME NEW r, NEW n, NEW p, Login(r, n, p), outcome' # "ok"
    PROVE  outcome' \in {"failed", "blocked"}
BY DEF Login, LoginNoRealm, LoginBlocked, LoginAccepted, LoginRefused, Answer

\* A login or logout is performed.
LEMMA TryStep ==
    ASSUME FlowTypes, NEW t \in Threads, PostLogin(t) \/ PostLogout(t)
    PROVE  \E j, result :
              /\ j \in Jobs
              /\ job' = [job EXCEPT ![t] = j] /\ Attempted(t, result)
              /\ UNCHANGED <<prop, forms, used, overlap>>
              /\ job[t].pc \in {"ask", "logout"}
              /\ \/ j = Idle
                 \/ /\ j.pc \in {"done", "failed"} /\ j.form = job[t].form
                    /\ j.realm = job[t].realm /\ j.name = job[t].name /\ j.error = job[t].error
                    /\ j.pc = "failed" => result \in {"failed", "blocked"}
<1>1. CASE PostLogin(t)
  <2> DEFINE pc == IF outcome' = "ok" THEN "done" ELSE "failed"
             j == [job[t] EXCEPT !.pc = pc]
  <2>1. /\ j \in Jobs /\ j.pc = pc /\ j.form = job[t].form
        /\ j.realm = job[t].realm /\ j.name = job[t].name /\ j.error = job[t].error
    BY DEF FlowTypes, Jobs, Pcs
  <2>2. job' = [job EXCEPT ![t] = j]
    BY <1>1 DEF PostLogin, Goto, FlowTypes, Jobs
  <2>3. pc = "failed" => outcome' \in {"failed", "blocked"}
    BY <1>1, LoginResults DEF PostLogin
  <2>4. /\ Attempted(t, outcome') /\ job[t].pc = "ask"
        /\ UNCHANGED <<prop, forms, used, overlap>>
    BY <1>1 DEF PostLogin, At
  <2> HIDE DEF j
  <2> QED
    BY <2>1, <2>2, <2>3, <2>4
<1>2. CASE PostLogout(t)
  BY <1>2, IdleJob DEF PostLogout, At, Finish
<1> QED
  BY <1>1, <1>2

LEMMA TryTypes ==
    ASSUME FlowTypes, NEW t \in Threads, PostLogin(t) \/ PostLogout(t)
    PROVE  FlowTypes'
<1>1. PICK j, result :
         /\ j \in Jobs
         /\ job' = [job EXCEPT ![t] = j] /\ Attempted(t, result)
         /\ UNCHANGED <<prop, forms, used, overlap>>
         /\ job[t].pc \in {"ask", "logout"}
         /\ j = Idle \/ j.form = job[t].form
  BY TryStep
<1>2. job[t].form \in 1 .. Len(forms)
  BY <1>1 DEF FlowTypes, Sent, Trying
<1>3. \A a \in attempts' : a \in attempts \/ a.form \in 1 .. Len(forms)
  BY <1>1, <1>2 DEF Attempted
<1> QED
  BY <1>1, <1>2, <1>3, IdleJob, MoveTypes DEF FlowTypes

\* The steps that only read.
Reading(t) ==
    \/ CompareRealm(t) \/ ReadRdr(t) \/ ShowUser(t) \/ ShowLogin(t)
    \/ ReadError(t) \/ ReadUser(t) \/ ReadRealm(t)
    \/ PostIncomplete(t) \/ PressLogin(t) \/ PressLogout(t)

\* What they do to the request: i becomes j.
Moves(i, j) ==
    \/ i.pc = "login" /\ j = Idle
    \/ /\ j.form = i.form /\ j.name = i.name /\ j.realm = i.realm /\ j.error = i.error
       /\ \/ i.pc = "compare" /\ j.pc = "dropUser"
          \/ i.pc = "compare" /\ j.pc = "storeRealm" /\ prop["realm"] \in {None, i.realm}
          \/ i.pc = "readRdr" /\ j.pc = "storeRdr"
          \/ i.pc = "show" /\ j.pc \in {"logoutForm", "silent"}
          \/ i.pc = "silent" /\ j.pc = "readError"
          \/ i.pc = "login" /\ j.pc \in {"ask", "logout"}
    \/ /\ i.pc = "readError" /\ j.pc = "readUser"
       /\ j.realm = i.realm /\ j.error = prop["error"]
    \/ /\ i.pc = "readUser" /\ j.pc = "loginForm"
       /\ j.realm = i.realm /\ j.error = i.error /\ j.name = prop["user"]
    \/ /\ i.pc = "readRealm" /\ j.pc = "login" /\ j.form = i.form
       /\ j.realm = prop["realm"] /\ j.error = i.error

LEMMA ReadStep ==
    ASSUME FlowTypes, NEW t \in Threads, Reading(t)
    PROVE  /\ UNCHANGED <<prop, forms, attempts, used, overlap>>
           /\ \E j \in Jobs : job' = [job EXCEPT ![t] = j] /\ Moves(job[t], j)
<1>j. job[t] \in Jobs /\ prop \in Props /\ job \in [Threads -> Jobs]
  BY DEF FlowTypes
<1>v. /\ prop["error"] \in Values /\ prop["user"] \in Values
      /\ {prop["realm"]} \subseteq Realms \cup {None} /\ {prop["rdr"], prop["authRdr"]} \subseteq Rdrs \cup {None}
  BY <1>j DEF Props, Keys, Kept
<1>u. ASSUME NEW at, ReadAt(t, at)
      PROVE  job[t].pc = at /\ UNCHANGED <<prop, forms, attempts, used, overlap>>
  BY <1>u DEF ReadAt, At
<1>g. ASSUME NEW pc \in Pcs, Goto(t, pc)
      PROVE  /\ [job[t] EXCEPT !.pc = pc] \in Jobs
             /\ job' = [job EXCEPT ![t] = [job[t] EXCEPT !.pc = pc]]
  BY <1>j, <1>g DEF Goto, Jobs
<1>1. CASE CompareRealm(t)
  <2>1. PICK pc \in {"dropUser", "storeRealm"} :
           /\ ReadAt(t, "compare") /\ Goto(t, pc)
           /\ pc = "storeRealm" => prop["realm"] \in {None, job[t].realm}
    BY <1>1 DEF CompareRealm
  <2> DEFINE j == [job[t] EXCEPT !.pc = pc]
  <2>2. /\ j \in Jobs /\ j.pc = pc /\ job' = [job EXCEPT ![t] = j]
        /\ j.form = job[t].form /\ j.name = job[t].name /\ j.realm = job[t].realm
        /\ j.error = job[t].error
    <3>1. pc \in Pcs
      BY DEF Pcs
    <3>2. j \in Jobs /\ job' = [job EXCEPT ![t] = j]
      BY <2>1, <3>1, <1>g
    <3> QED
      BY <3>1, <3>2, <1>j DEF Jobs
  <2> HIDE DEF j
  <2> QED
    BY <2>1, <2>2, <1>u DEF Moves
<1>2. CASE ReadRdr(t)
  <2> DEFINE j == [job[t] EXCEPT !.pc = "storeRdr",
                                 !.rdr = IF prop["authRdr"] # None THEN prop["authRdr"] ELSE @]
  <2>1. /\ j \in Jobs /\ j.pc = "storeRdr" /\ j.form = job[t].form /\ j.name = job[t].name
        /\ j.realm = job[t].realm /\ j.error = job[t].error /\ job' = [job EXCEPT ![t] = j]
    BY <1>2, <1>j, <1>v DEF ReadRdr, Jobs, Pcs
  <2>2. ReadAt(t, "readRdr")
    BY <1>2 DEF ReadRdr
  <2> HIDE DEF j
  <2> QED
    BY <2>1, <2>2, <1>u DEF Moves
<1>3. CASE ShowUser(t) \/ ShowLogin(t)
  <2>1. PICK at \in {"show", "silent"}, pc \in {"logoutForm", "silent", "readError"} :
           /\ ReadAt(t, at) /\ Goto(t, pc)
           /\ \/ at = "show" /\ pc \in {"logoutForm", "silent"}
              \/ at = "silent" /\ pc = "readError"
    <3>1. CASE ShowUser(t)
      BY <3>1 DEF ShowUser
    <3>2. CASE ShowLogin(t)
      BY <3>2 DEF ShowLogin
    <3> QED
      BY <1>3, <3>1, <3>2
  <2> DEFINE j == [job[t] EXCEPT !.pc = pc]
  <2>2. /\ j \in Jobs /\ j.pc = pc /\ job' = [job EXCEPT ![t] = j]
        /\ j.form = job[t].form /\ j.name = job[t].name /\ j.realm = job[t].realm
        /\ j.error = job[t].error
    <3>1. pc \in Pcs
      BY DEF Pcs
    <3>2. j \in Jobs /\ job' = [job EXCEPT ![t] = j]
      BY <2>1, <3>1, <1>g
    <3> QED
      BY <3>1, <3>2, <1>j DEF Jobs
  <2> HIDE DEF j
  <2> QED
    BY <2>1, <2>2, <1>u DEF Moves
<1>4. CASE ReadError(t)
  <2> DEFINE j == [job[t] EXCEPT !.pc = "readUser", !.error = prop["error"]]
  <2>1. /\ j \in Jobs /\ j.pc = "readUser" /\ j.realm = job[t].realm /\ j.error = prop["error"]
        /\ job' = [job EXCEPT ![t] = j]
    BY <1>4, <1>j, <1>v DEF ReadError, Jobs, Pcs
  <2>2. ReadAt(t, "readError")
    BY <1>4 DEF ReadError
  <2> HIDE DEF j
  <2> QED
    BY <2>1, <2>2, <1>u DEF Moves
<1>5. CASE ReadUser(t)
  <2> DEFINE j == [job[t] EXCEPT !.pc = "loginForm", !.name = prop["user"]]
  <2>1. /\ j \in Jobs /\ j.pc = "loginForm" /\ j.realm = job[t].realm /\ j.error = job[t].error
        /\ j.name = prop["user"] /\ job' = [job EXCEPT ![t] = j]
    BY <1>5, <1>j, <1>v DEF ReadUser, Jobs, Pcs
  <2>2. ReadAt(t, "readUser")
    BY <1>5 DEF ReadUser
  <2> HIDE DEF j
  <2> QED
    BY <2>1, <2>2, <1>u DEF Moves
<1>6. CASE ReadRealm(t)
  <2> DEFINE j == [job[t] EXCEPT !.pc = "login", !.realm = prop["realm"]]
  <2>1. /\ j \in Jobs /\ j.pc = "login" /\ j.form = job[t].form /\ j.error = job[t].error
        /\ j.realm = prop["realm"] /\ job' = [job EXCEPT ![t] = j]
    BY <1>6, <1>j, <1>v DEF ReadRealm, Jobs, Pcs
  <2>2. ReadAt(t, "readRealm")
    BY <1>6 DEF ReadRealm
  <2> HIDE DEF j
  <2> QED
    BY <2>1, <2>2, <1>u DEF Moves
<1>7. CASE PressLogin(t)
  <2> DEFINE j == [job[t] EXCEPT !.pc = "ask", !.rdr = prop["rdr"]]
  <2>1. /\ j \in Jobs /\ j.pc = "ask" /\ j.form = job[t].form /\ j.name = job[t].name
        /\ j.realm = job[t].realm /\ j.error = job[t].error /\ job' = [job EXCEPT ![t] = j]
    BY <1>7, <1>j, <1>v DEF PressLogin, Jobs, Pcs
  <2>2. ReadAt(t, "login")
    BY <1>7 DEF PressLogin
  <2> HIDE DEF j
  <2> QED
    BY <2>1, <2>2, <1>u DEF Moves
<1>8. CASE PostIncomplete(t) \/ PressLogout(t)
  <2>1. ReadAt(t, "login") /\ (Finish(t) \/ Goto(t, "logout"))
    BY <1>8 DEF PostIncomplete, PressLogout
  <2>2. CASE Finish(t)
    BY <2>1, <2>2, <1>u, IdleJob DEF Finish, Moves
  <2>3. CASE Goto(t, "logout")
    <3> DEFINE j == [job[t] EXCEPT !.pc = "logout"]
    <3>1. /\ j \in Jobs /\ j.pc = "logout" /\ job' = [job EXCEPT ![t] = j]
          /\ j.form = job[t].form /\ j.name = job[t].name /\ j.realm = job[t].realm
          /\ j.error = job[t].error
      BY <2>3, <1>j, <1>g DEF Jobs, Pcs
    <3> HIDE DEF j
    <3> QED
      BY <2>1, <3>1, <1>u DEF Moves
  <2> QED
    BY <2>1, <2>2, <2>3
<1> QED
  BY <1>1, <1>2, <1>3, <1>4, <1>5, <1>6, <1>7, <1>8 DEF Reading

LEMMA ReadTypes ==
    ASSUME FlowTypes, NEW t \in Threads, Reading(t)
    PROVE  FlowTypes'
<1>1. PICK j \in Jobs : job' = [job EXCEPT ![t] = j] /\ Moves(job[t], j)
  BY ReadStep
<1>2. UNCHANGED <<prop, forms, attempts, used, overlap>>
  BY ReadStep
<1>3. \/ j = Idle
      \/ j.pc \notin Sent
      \/ j.form = job[t].form /\ job[t].pc \in Sent
  <2>1. /\ "login" \in Sent /\ "readRealm" \in Sent
        /\ \A pc \in {"dropUser", "storeRealm", "storeRdr", "logoutForm", "silent", "readError",
                     "readUser", "loginForm"} : pc \notin Sent
    BY DEF Sent, Opening, Trying, Failing
  <2>2. \/ j = Idle
        \/ j.pc \in {"dropUser", "storeRealm", "storeRdr", "logoutForm", "silent", "readError",
                   "readUser", "loginForm"}
        \/ job[t].pc \in {"login", "readRealm"} /\ j.form = job[t].form
    BY <1>1 DEF Moves
  <2> QED
    BY <2>1, <2>2
<1> QED
  BY <1>1, <1>2, <1>3, IdleJob, MoveTypes DEF FlowTypes

\* The steps that set a property, each with the property, its value and the next step.
SetSteps(t) ==
    {<<"denied", "authRealm", job[t].realm, "denyRdr">>,
     <<"denyRdr", "authRdr", job[t].rdr, "idle">>,
     <<"dropUser", "user", None, "dropError">>,
     <<"dropError", "error", None, "storeRealm">>,
     <<"storeRealm", "realm", job[t].realm, "dropAuthRealm">>,
     <<"dropAuthRealm", "authRealm", None, "readRdr">>,
     <<"storeRdr", "rdr", job[t].rdr, "dropAuthRdr">>,
     <<"dropAuthRdr", "authRdr", None, "show">>,
     <<"clearToken", "csrf", None, "readRealm">>,
     <<"done", "error", None, "doneUser">>,
     <<"doneUser", "user", job[t].name, "idle">>,
     <<"failed", "authRealm", job[t].realm, "failRdr">>,
     <<"failRdr", "authRdr", job[t].rdr, "failError">>,
     <<"failError", "error", "failed", "failUser">>,
     <<"failUser", "user", job[t].name, "idle">>}

Setting(t) ==
    \/ RootStoreRealm(t) \/ RootStoreRdr(t)
    \/ DropUser(t) \/ DropError(t) \/ StoreRealm(t) \/ DropAuthRealm(t)
    \/ StoreRdr(t) \/ DropAuthRdr(t) \/ ClearToken(t)
    \/ DoneError(t) \/ DoneUser(t)
    \/ FailRealm(t) \/ FailRdr(t) \/ FailError(t) \/ FailUser(t)

LEMMA SetStep ==
    ASSUME FlowTypes, NEW t \in Threads, Setting(t)
    PROVE  \E s \in SetSteps(t), j \in Jobs :
              /\ job[t].pc = s[1] /\ prop' = [prop EXCEPT ![s[2]] = s[3]]
              /\ UNCHANGED <<forms, attempts, used, overlap>>
              /\ job' = [job EXCEPT ![t] = j]
              /\ IF s[4] = "idle"
                   THEN j = Idle
                   ELSE /\ j.pc = s[4] /\ j.form = job[t].form /\ j.name = job[t].name
                        /\ j.realm = job[t].realm /\ j.error = job[t].error
<1>1. PICK s \in SetSteps(t) : /\ SetAt(t, s[1], s[2], s[3])
                              /\ IF s[4] = "idle" THEN Finish(t) ELSE Goto(t, s[4])
  <2>1. CASE RootStoreRealm(t) \/ RootStoreRdr(t)
    BY <2>1 DEF SetSteps, RootStoreRealm, RootStoreRdr
  <2>2. CASE DropUser(t) \/ DropError(t) \/ StoreRealm(t) \/ DropAuthRealm(t)
    BY <2>2 DEF SetSteps, DropUser, DropError, StoreRealm, DropAuthRealm
  <2>3. CASE StoreRdr(t) \/ DropAuthRdr(t) \/ ClearToken(t)
    BY <2>3 DEF SetSteps, StoreRdr, DropAuthRdr, ClearToken
  <2>4. CASE DoneError(t) \/ DoneUser(t)
    BY <2>4 DEF SetSteps, DoneError, DoneUser
  <2>5. CASE FailRealm(t) \/ FailRdr(t) \/ FailError(t) \/ FailUser(t)
    BY <2>5 DEF SetSteps, FailRealm, FailRdr, FailError, FailUser
  <2> QED
    BY <2>1, <2>2, <2>3, <2>4, <2>5 DEF Setting
<1>2. /\ job[t].pc = s[1] /\ prop' = [prop EXCEPT ![s[2]] = s[3]]
      /\ UNCHANGED <<forms, attempts, used, overlap>>
  BY <1>1 DEF SetAt, At
<1>3. CASE s[4] = "idle"
  BY <1>1, <1>2, <1>3, IdleJob DEF Finish
<1>4. CASE s[4] # "idle"
  <2> DEFINE j == [job[t] EXCEPT !.pc = s[4]]
  <2>1. s[4] \in Pcs
    BY DEF SetSteps, Pcs
  <2>2. /\ j \in Jobs /\ j.pc = s[4] /\ j.form = job[t].form /\ j.name = job[t].name
        /\ j.realm = job[t].realm /\ j.error = job[t].error
    BY <2>1 DEF FlowTypes, Jobs
  <2>3. job' = [job EXCEPT ![t] = j]
    BY <1>1, <1>4 DEF Goto, FlowTypes
  <2> HIDE DEF j
  <2> QED
    BY <1>2, <1>4, <2>2, <2>3
<1> QED
  BY <1>3, <1>4

LEMMA SetTypes ==
    ASSUME FlowTypes, NEW t \in Threads, Setting(t)
    PROVE  FlowTypes'
<1>1. PICK s \in SetSteps(t), j \in Jobs :
         /\ job[t].pc = s[1] /\ prop' = [prop EXCEPT ![s[2]] = s[3]]
         /\ UNCHANGED <<forms, attempts, used, overlap>>
         /\ job' = [job EXCEPT ![t] = j]
         /\ IF s[4] = "idle" THEN j = Idle ELSE j.pc = s[4] /\ j.form = job[t].form
  BY SetStep
<1>2. job[t] \in Jobs /\ prop \in Props
  BY DEF FlowTypes
<1>3. s[2] \in Keys /\ s[3] \in Kept(s[2]) /\ (s[2] = "csrf" => s[3] = None)
  BY <1>2 DEF SetSteps, Keys, Kept, Values, Jobs
<1>4. s[4] \in Sent => s[1] \in Sent
  BY DEF SetSteps, Sent, Opening, Trying, Failing
<1>5. prop' \in Props /\ prop'["csrf"] \in {prop["csrf"], None}
  <2>1. Kept(s[2]) \subseteq Values
    BY DEF Kept, Values
  <2> QED
    BY <1>1, <1>2, <1>3, <2>1 DEF Props, Keys
<1>6. j.pc \in Sent => j.form \in 1 .. Len(forms)
  BY <1>1, <1>4, IdleJob DEF FlowTypes
<1> QED
  BY <1>1, <1>5, <1>6, MoveTypes DEF FlowTypes

\* Who takes a step, and which.
LEMMA FlowSteps ==
    ASSUME FlowTypes, FlowNext
    PROVE  \/ UNCHANGED vars
           \/ \E t \in Threads :
                 \/ \E pc \in {"denied", "compare"}, r \in Realms, d \in Rdrs : Get(t, pc, r, d)
                 \/ \E f \in DOMAIN forms, n \in Names, p \in Pws : Post(t, f, n, p)
                 \/ Setting(t) \/ Reading(t)
                 \/ ShowSilent(t) \/ Redirect(t) \/ Render(t) \/ PostLogin(t) \/ PostLogout(t)
<1>1. PICK t \in Threads :
        \/ \E r \in Realms \cup {None} : RootOk(t, r)
        \/ \E r \in Realms \cup {None}, d \in Rdrs : RootDenied(t, r, d) \/ FormGet(t, r, d)
        \/ \E f \in DOMAIN forms, n \in Names, p \in Pws : Post(t, f, n, p)
        \/ Setting(t) \/ Reading(t)
        \/ ShowSilent(t) \/ Redirect(t) \/ Render(t) \/ PostLogin(t) \/ PostLogout(t)
  BY DEF FlowNext, Setting, Reading
<1>2. CASE \E r \in Realms \cup {None} : RootOk(t, r)
  BY <1>2 DEF RootOk
<1>3. CASE \E r \in Realms \cup {None}, d \in Rdrs : RootDenied(t, r, d) \/ FormGet(t, r, d)
  <2>1. \A r \in Realms \cup {None} : RealmOr(r) \in Realms
    BY FlowAssumption DEF RealmOr
  <2>2. prop["authRealm"] \in Realms \cup {None}
    BY DEF FlowTypes, Props, Keys, Kept
  <2> QED
    BY <1>3, <2>1, <2>2 DEF RootDenied, FormGet
<1> QED
  BY <1>1, <1>2, <1>3

\* A silent login leaves the request where the redirect is sent.
LEMMA SilentStep ==
    ASSUME FlowTypes, NEW t \in Threads, ShowSilent(t)
    PROVE  /\ job[t].pc = "silent" /\ UNCHANGED <<prop, forms, attempts, used, overlap>>
           /\ \E j \in Jobs :
                 /\ job' = [job EXCEPT ![t] = j] /\ j.pc = "redirect" /\ j.form = job[t].form
                 /\ j.realm = job[t].realm /\ j.name = job[t].name /\ j.error = job[t].error
<1> DEFINE j == [job[t] EXCEPT !.pc = "redirect"]
<1>1. /\ j \in Jobs /\ j.pc = "redirect" /\ j.form = job[t].form
      /\ j.realm = job[t].realm /\ j.name = job[t].name /\ j.error = job[t].error
      /\ job' = [job EXCEPT ![t] = j]
  BY DEF ShowSilent, Goto, FlowTypes, Jobs, Pcs
<1>2. job[t].pc = "silent" /\ UNCHANGED <<prop, forms, attempts, used, overlap>>
  BY DEF ShowSilent, At
<1> HIDE DEF j
<1> QED
  BY <1>1, <1>2

LEMMA FlowTypesStep == FlowTypes /\ [FlowNext]_vars => FlowTypes'
<1> SUFFICES ASSUME FlowTypes, [FlowNext]_vars PROVE FlowTypes'
  OBVIOUS
<1>1. CASE UNCHANGED vars
  BY <1>1 DEF vars, fvars, FlowTypes, Props
<1>2. CASE FlowNext /\ ~UNCHANGED vars
  <2>1. PICK t \in Threads :
          \/ \E pc \in {"denied", "compare"}, r \in Realms, d \in Rdrs : Get(t, pc, r, d)
          \/ \E f \in DOMAIN forms, n \in Names, p \in Pws : Post(t, f, n, p)
          \/ Setting(t) \/ Reading(t)
          \/ ShowSilent(t) \/ Redirect(t) \/ Render(t) \/ PostLogin(t) \/ PostLogout(t)
    BY <1>2, FlowSteps
  <2>2. CASE ShowSilent(t)
    BY <2>2, SilentStep, MoveTypes DEF FlowTypes, Sent, Opening, Trying, Failing
  <2>3. CASE Redirect(t) \/ Render(t)
    BY <2>3, AnswerTypes DEF Redirect, Render
  <2> QED
    BY <2>1, <2>2, <2>3, GetTypes, PostTypes, SetTypes, ReadTypes, TryTypes
<1> QED
  BY <1>1, <1>2

-----------------------------------------------------------------------------
(* Requests one after the other.                                           *)

\* It is enough to look at the request that takes the step.
LEMMA OneStep ==
    ASSUME FlowTypes, OneByOne, NEW t \in Threads, Working(t),
           NEW j \in Jobs, job' = [job EXCEPT ![t] = j], Fits(j)', Past'
    PROVE  OneByOne'
<1>1. \A u \in Threads : u # t => job[u] = Idle
  BY DEF Working, OneByOne, Alone
<1>2. \A u \in Threads : job'[u] = IF u = t THEN j ELSE Idle
  BY <1>1 DEF FlowTypes
<1>3. Alone'
  BY <1>2 DEF Alone
<1>4. ASSUME NEW u \in Threads, Working(u)' PROVE Fits(job[u])'
  <2>1. job'[u] = j
    BY <1>2, <1>4 DEF Working
  <2> QED
    BY <2>1
<1> QED
  BY <1>3, <1>4 DEF OneByOne

\* A step that leaves the session's properties and the past alone.
LEMMA QuietStep ==
    ASSUME FlowTypes, OneByOne, NEW t \in Threads, Working(t),
           NEW j \in Jobs, job' = [job EXCEPT ![t] = j], Fits(j),
           UNCHANGED <<prop, forms, used, attempts>>
    PROVE  OneByOne'
<1>1. Fits(j)'
  BY DEF Fits, RealmKept, FormStands, TokenFresh, ErrorKept, Stands, Blamed
<1>2. Past'
  BY DEF OneByOne, Past, AttemptsFit, UsedOnce, ErrorsFit, Stands, Blamed
<1> QED
  BY <1>1, <1>2, OneStep

\* A GET or POST is taken up while no other is worked on.
LEMMA BeginAlone ==
    ASSUME FlowTypes, OneByOne, NEW t \in Threads, NEW j, Begin(t, j), ~overlap'
    PROVE  job' = [job EXCEPT ![t] = j] /\ Working(t) /\ Fits(Idle)
BY DEF Begin, FlowTypes, Working, OneByOne

LEMMA GetAlone ==
    ASSUME FlowTypes, OneByOne, ~overlap', NEW t \in Threads,
           NEW pc \in {"denied", "compare"}, NEW r \in Realms, NEW d \in Rdrs, Get(t, pc, r, d)
    PROVE  OneByOne'
<1> DEFINE j == [Idle EXCEPT !.pc = pc, !.realm = r, !.rdr = d]
<1>1. j \in Jobs /\ j.pc = pc /\ j.realm = r /\ j.error = None
  BY DEF Idle, Jobs, Pcs, Values
<1>2. Begin(t, j) /\ UNCHANGED <<prop, forms, used, attempts>>
  BY DEF Get
<1> HIDE DEF j
<1>3. job' = [job EXCEPT ![t] = j] /\ Working(t) /\ Fits(Idle)
  BY <1>2, BeginAlone
<1>4. Fits(j)
  BY <1>1, <1>3, IdleJob, FlowAssumption
     DEF Fits, RealmKept, FormStands, TokenFresh, ErrorKept, Choosing, Asking, Opening, Trying, Failing
<1> QED
  BY <1>1, <1>2, <1>3, <1>4, QuietStep

LEMMA PostAlone ==
    ASSUME FlowTypes, OneByOne, ~overlap', NEW t \in Threads,
           NEW f \in DOMAIN forms, NEW n \in Names, NEW p \in Pws, Post(t, f, n, p)
    PROVE  OneByOne'
<1> DEFINE j == [Idle EXCEPT !.pc = "clearToken", !.form = f, !.name = n, !.pw = p]
<1>1. f \in Nat /\ f \in 1 .. MaxForms
  BY FlowAssumption DEF FlowTypes
<1>2. j \in Jobs /\ j.pc = "clearToken" /\ j.form = f /\ j.error = None
  BY <1>1 DEF Idle, Jobs, Pcs, Values
<1>3. Begin(t, j) /\ prop["csrf"] = f /\ used' = Append(used, f)
      /\ UNCHANGED <<prop, forms, attempts>>
  BY DEF Post
<1> HIDE DEF j
<1>4. job' = [job EXCEPT ![t] = j] /\ Working(t) /\ Fits(Idle)
  BY <1>3, BeginAlone
<1>5. prop["csrf"] # None
  BY <1>1, <1>3, FlowAssumption
<1>6. prop["realm"] # None /\ Stands(f, prop["realm"])
  BY <1>3, <1>4, <1>5, IdleJob DEF Fits, FormStands, Asking
<1>7. Fits(j)'
  <2>1. RealmKept(j)'
    BY <1>2, <1>3, <1>6 DEF RealmKept, Choosing, Asking, Opening, Trying, Failing
  <2>2. FormStands(j)'
    BY <1>2, <1>3, <1>6 DEF FormStands, Stands
  <2>3. TokenFresh(j)'
    BY <1>2 DEF TokenFresh
  <2>4. ErrorKept(j)'
    BY <1>2, <1>3, <1>4, IdleJob DEF Fits, ErrorKept, Blamed, Failing
  <2> QED
    BY <2>1, <2>2, <2>3, <2>4 DEF Fits
<1>8. AttemptsFit' /\ ErrorsFit'
  BY <1>3 DEF OneByOne, Past, AttemptsFit, ErrorsFit, Stands, Blamed
<1>9. UsedOnce'
  <2>1. \A i \in DOMAIN used : used[i] # f
    BY <1>3, <1>4, IdleJob DEF Fits, TokenFresh
  <2>2. /\ Len(used) \in Nat /\ DOMAIN used = 1 .. Len(used)
        /\ DOMAIN used' = 1 .. Len(used) + 1 /\ used'[Len(used) + 1] = f
        /\ \A i \in 1 .. Len(used) : used'[i] = used[i]
    BY <1>1, <1>3 DEF FlowTypes
  <2>3. \A i, k \in 1 .. Len(used) : used[i] = used[k] => i = k
    BY <2>2 DEF OneByOne, Past, UsedOnce
  <2> QED
    BY <2>1, <2>2, <2>3 DEF UsedOnce
<1> QED
  BY <1>2, <1>4, <1>7, <1>8, <1>9, OneStep DEF Past

\* What the invariant says of a request that is worked on.
LEMMA FitsNow ==
    ASSUME FlowTypes, OneByOne, NEW t \in Threads, job[t].pc # "idle"
    PROVE  Working(t) /\ Fits(job[t])
BY IdleJob DEF Working, OneByOne

LEMMA ReadAlone ==
    ASSUME FlowTypes, OneByOne, NEW t \in Threads, Reading(t)
    PROVE  OneByOne'
<1>1. PICK j \in Jobs : job' = [job EXCEPT ![t] = j] /\ Moves(job[t], j)
  BY ReadStep
<1>2. UNCHANGED <<prop, forms, attempts, used>>
  BY ReadStep
<1>3. /\ job[t].pc \in {"login", "compare", "readRdr", "show", "silent", "readError", "readUser",
                        "readRealm"}
  BY <1>1 DEF Moves
<1>4. Working(t) /\ Fits(job[t])
  BY <1>3, FitsNow
<1>5. Fits(j)
  <2> USE <1>1, <1>3, <1>4 DEF Fits
  <2>1. RealmKept(j)
    BY IdleJob DEF Moves, RealmKept, Choosing, Asking, Opening, Trying, Failing
  <2>2. FormStands(j)
    BY IdleJob DEF Moves, FormStands, Asking, Opening, Trying
  <2>3. TokenFresh(j)
    BY IdleJob DEF Moves, TokenFresh
  <2>4. ErrorKept(j)
    BY IdleJob DEF Moves, ErrorKept, RealmKept, Choosing, Asking, Failing
  <2> QED
    BY <2>1, <2>2, <2>3, <2>4
<1> QED
  BY <1>1, <1>2, <1>4, <1>5, QuietStep

LEMMA SilentAlone ==
    ASSUME FlowTypes, OneByOne, NEW t \in Threads, ShowSilent(t)
    PROVE  OneByOne'
<1>1. PICK j \in Jobs :
         /\ job' = [job EXCEPT ![t] = j] /\ j.pc = "redirect" /\ j.realm = job[t].realm
         /\ j.error = job[t].error
  BY SilentStep
<1>2. job[t].pc = "silent" /\ UNCHANGED <<prop, forms, attempts, used>>
  BY SilentStep
<1>3. Working(t) /\ Fits(job[t])
  BY <1>2, FitsNow
<1>4. Fits(j)
  BY <1>1, <1>2, <1>3 DEF Fits, RealmKept, FormStands, TokenFresh, ErrorKept, Choosing, Asking,
                          Opening, Trying, Failing
<1> QED
  BY <1>1, <1>2, <1>3, <1>4, QuietStep

LEMMA SetAlone ==
    ASSUME FlowTypes, OneByOne, NEW t \in Threads, Setting(t)
    PROVE  OneByOne'
<1>1. PICK s \in SetSteps(t), j \in Jobs :
         /\ job[t].pc = s[1] /\ prop' = [prop EXCEPT ![s[2]] = s[3]]
         /\ UNCHANGED <<forms, attempts, used>>
         /\ job' = [job EXCEPT ![t] = j]
         /\ IF s[4] = "idle"
              THEN j = Idle
              ELSE /\ j.pc = s[4] /\ j.form = job[t].form /\ j.name = job[t].name
                   /\ j.realm = job[t].realm /\ j.error = job[t].error
  BY SetStep
<1>2. s[1] # "idle"
  BY DEF SetSteps
<1>3. Working(t) /\ Fits(job[t])
  BY <1>1, <1>2, FitsNow
<1>4. Past'
  BY <1>1 DEF OneByOne, Past, AttemptsFit, UsedOnce, ErrorsFit, Stands, Blamed
<1>5. Fits(j)'
  <2>p. DOMAIN prop = Keys /\ \A i \in DOMAIN used : used[i] # None
    BY FlowAssumption DEF FlowTypes, Props
  <2>k. \A k \in Keys : prop'[k] = IF k = s[2] THEN s[3] ELSE prop[k]
    BY <1>1, <2>p
  <2>v. /\ prop'["realm"] = IF s[2] = "realm" THEN s[3] ELSE prop["realm"]
        /\ prop'["csrf"] = IF s[2] = "csrf" THEN s[3] ELSE prop["csrf"]
        /\ prop'["user"] = IF s[2] = "user" THEN s[3] ELSE prop["user"]
        /\ prop'["error"] = IF s[2] = "error" THEN s[3] ELSE prop["error"]
    BY <2>k DEF Keys
  <2>s. ASSUME NEW f, NEW r, Stands(f, r) PROVE Stands(f, r)'
    BY <1>1, <2>s DEF Stands
  <2>b. ASSUME NEW r, NEW n, Blamed(r, n) PROVE Blamed(r, n)'
    BY <1>1, <2>b DEF Blamed
  <2>1. RealmKept(j)'
    BY <1>1, <1>3, <2>v, IdleJob
       DEF SetSteps, Fits, RealmKept, FormStands, Choosing, Asking, Opening, Trying, Failing
  <2>2. FormStands(j)'
    BY <1>1, <1>3, <2>v, <2>s, IdleJob
       DEF SetSteps, Fits, RealmKept, FormStands, Stands, Choosing, Asking, Opening, Trying, Failing
  <2>3. TokenFresh(j)'
    BY <1>1, <1>3, <2>v, <2>p, IdleJob DEF SetSteps, Fits, TokenFresh
  <2>4. ErrorKept(j)'
    BY <1>1, <1>3, <2>v, <2>b, IdleJob
       DEF SetSteps, Fits, RealmKept, ErrorKept, Blamed, Choosing, Asking, Failing
  <2> QED
    BY <2>1, <2>2, <2>3, <2>4 DEF Fits
<1> QED
  BY <1>1, <1>3, <1>4, <1>5, OneStep

\* The answer to a GET of the login route, with what it says of a failed login.
LEMMA AnswerAlone ==
    ASSUME FlowTypes, OneByOne, NEW t \in Threads, Redirect(t) \/ Render(t)
    PROVE  OneByOne'
<1> USE FlowAssumption
<1>1. PICK pc \in {"loginForm", "logoutForm", "redirect"}, k \in Keys, v \in Values \cup {Len(forms) + 1} :
         /\ AnswerAt(t, pc, k, v)
         /\ \/ pc = "redirect" /\ k = "error" /\ v = None
            \/ k = "csrf" /\ v = Len(forms) + 1
  <2>1. CASE Redirect(t)
    BY <2>1 DEF Redirect, Keys, Values
  <2>2. CASE Render(t)
    BY <2>2 DEF Render, Keys
  <2> QED
    BY <2>1, <2>2
<1> DEFINE a == [kind |-> pc, realm |-> job[t].realm, user |-> job[t].name, error |-> job[t].error]
<1>2. /\ job[t].pc = pc /\ forms' = Append(forms, a) /\ job' = [job EXCEPT ![t] = Idle]
      /\ prop' = [prop EXCEPT ![k] = v] /\ UNCHANGED <<used, attempts>>
  BY <1>1 DEF AnswerAt, At, Finish
<1>3. Working(t) /\ Fits(job[t])
  BY <1>2, FitsNow
<1>4. /\ a.kind = pc /\ a.realm = prop["realm"] /\ a.realm # None
      /\ a.error # None => Blamed(a.realm, a.user)
  BY <1>2, <1>3 DEF Fits, RealmKept, ErrorKept, Asking
<1> HIDE DEF a
<1> DEFINE n == Len(forms) + 1
<1>5. /\ Len(forms) \in Nat /\ DOMAIN forms = 1 .. Len(forms) /\ DOMAIN forms' = 1 .. n
      /\ forms'[n] = a /\ \A i \in 1 .. Len(forms) : forms'[i] = forms[i]
  BY <1>2 DEF FlowTypes
<1>6. /\ prop'["realm"] = prop["realm"] /\ prop'["user"] = prop["user"]
      /\ \/ pc = "redirect" /\ prop'["error"] = None /\ prop'["csrf"] = prop["csrf"]
         \/ prop'["error"] = prop["error"] /\ prop'["csrf"] = n
  BY <1>1, <1>2 DEF FlowTypes, Props, Keys
<1>7. ASSUME NEW f \in 1 .. Len(forms), NEW r, Stands(f, r)
      PROVE  Stands(f, r)'
  BY <1>5, <1>7 DEF Stands
<1>8. FormStands(Idle)'
  <2>1. CASE pc = "redirect" /\ prop'["csrf"] = prop["csrf"]
    <3>1. ASSUME prop["csrf"] # None
          PROVE  Stands(prop["csrf"], prop["realm"])'
      <4>1. prop["csrf"] \in 1 .. Len(forms)
        BY <3>1 DEF FlowTypes
      <4>2. n \in DOMAIN forms' /\ n > prop["csrf"] /\ forms'[n].kind = "redirect"
        BY <4>1, <1>4, <1>5, <2>1
      <4> QED
        BY <4>2, <2>1 DEF Stands
    <3> QED
      BY <3>1, <2>1, <1>4, <1>6, IdleJob DEF FormStands, Opening, Trying
  <2>2. CASE prop'["csrf"] = n
    <3>1. Stands(prop["csrf"], prop["realm"])'
      BY <2>2, <1>4, <1>5, <1>6 DEF Stands
    <3> QED
      BY <3>1, <1>4, <1>6, IdleJob DEF FormStands, Opening, Trying
  <2> QED
    BY <2>1, <2>2, <1>6
<1>9. TokenFresh(Idle)'
  <2>1. \A i \in DOMAIN used : used[i] # n
    BY <1>5 DEF FlowTypes
  <2> QED
    BY <2>1, <1>2, <1>3, <1>6 DEF Fits, TokenFresh
<1>10. Fits(Idle)'
  <2>1. RealmKept(Idle)'
    BY IdleJob DEF RealmKept, Choosing, Asking, Opening, Trying, Failing
  <2>2. ErrorKept(Idle)'
    BY <1>2, <1>3, <1>6, IdleJob DEF Fits, ErrorKept, Blamed, Failing
  <2> QED
    BY <2>1, <2>2, <1>8, <1>9 DEF Fits
<1>11. AttemptsFit'
  BY <1>2, <1>7 DEF OneByOne, Past, AttemptsFit, FlowTypes
<1>12. ErrorsFit'
  BY <1>2, <1>4, <1>5 DEF OneByOne, Past, ErrorsFit, Blamed
<1>13. UsedOnce'
  BY <1>2 DEF OneByOne, Past, UsedOnce
<1> QED
  BY <1>2, <1>3, <1>10, <1>11, <1>12, <1>13, IdleJob, OneStep DEF Past

\* A login or logout is for the realm of a form that stands.
LEMMA TryAlone ==
    ASSUME FlowTypes, OneByOne, NEW t \in Threads, PostLogin(t) \/ PostLogout(t)
    PROVE  OneByOne'
<1>1. PICK j, result :
         /\ j \in Jobs
         /\ job' = [job EXCEPT ![t] = j] /\ Attempted(t, result)
         /\ UNCHANGED <<prop, forms, used>>
         /\ job[t].pc \in {"ask", "logout"}
         /\ \/ j = Idle
            \/ /\ j.pc \in {"done", "failed"}
               /\ j.realm = job[t].realm /\ j.name = job[t].name /\ j.error = job[t].error
               /\ j.pc = "failed" => result \in {"failed", "blocked"}
  BY TryStep
<1>2. Working(t) /\ Fits(job[t])
  BY <1>1, FitsNow
<1> DEFINE a == [form |-> job[t].form, realm |-> job[t].realm, name |-> job[t].name, result |-> result]
<1>3. /\ attempts' = attempts \cup {a}
      /\ a.form = job[t].form /\ a.realm = job[t].realm /\ a.name = job[t].name /\ a.result = result
  BY <1>1 DEF Attempted
<1> HIDE DEF a
<1>4. Stands(a.form, a.realm)
  BY <1>1, <1>2, <1>3 DEF Fits, RealmKept, FormStands, Trying
<1>5. ASSUME NEW r, NEW n, Blamed(r, n) PROVE Blamed(r, n)'
  BY <1>3, <1>5 DEF Blamed
<1>6. j.pc = "failed" => Blamed(j.realm, j.name)'
  BY <1>1, <1>3, IdleJob DEF Blamed
<1>7. Fits(j)'
  <2>1. RealmKept(j)'
    BY <1>1, <1>2, IdleJob DEF Fits, RealmKept, Choosing, Asking, Opening, Trying, Failing
  <2>2. FormStands(j)'
    BY <1>1, <1>2, IdleJob DEF Fits, FormStands, Stands, Asking, Opening, Trying
  <2>3. TokenFresh(j)'
    BY <1>1, <1>2 DEF Fits, TokenFresh
  <2>4. ErrorKept(j)'
    BY <1>1, <1>2, <1>5, <1>6, IdleJob DEF Fits, ErrorKept, Failing
  <2> QED
    BY <2>1, <2>2, <2>3, <2>4 DEF Fits
<1>8. AttemptsFit'
  BY <1>1, <1>3, <1>4 DEF OneByOne, Past, AttemptsFit, Stands
<1>9. ErrorsFit'
  BY <1>1, <1>5 DEF OneByOne, Past, ErrorsFit
<1>10. UsedOnce'
  BY <1>1 DEF OneByOne, Past, UsedOnce
<1> QED
  BY <1>1, <1>2, <1>7, <1>8, <1>9, <1>10, OneStep DEF Past

LEMMA FlowStep == FlowInv /\ [FlowNext]_vars => FlowInv'
<1> SUFFICES ASSUME FlowInv, [FlowNext]_vars PROVE FlowInv'
  OBVIOUS
<1>1. FlowTypes /\ FlowTypes'
  BY FlowTypesStep DEF FlowInv
<1>2. CASE overlap'
  BY <1>1, <1>2 DEF FlowInv
<1>3. CASE UNCHANGED vars
  <2>1. UNCHANGED <<prop, job, forms, used, attempts, overlap>>
    BY <1>3 DEF vars, fvars
  <2>2. ASSUME OneByOne PROVE OneByOne'
    BY <2>1, <2>2 DEF OneByOne, Alone, Past, AttemptsFit, UsedOnce, ErrorsFit, Stands, Blamed, Working,
          Fits, RealmKept, FormStands, TokenFresh, ErrorKept
  <2> QED
    BY <1>1, <2>1, <2>2 DEF FlowInv
<1>4. CASE FlowNext /\ ~UNCHANGED vars /\ ~overlap'
  <2>1. PICK t \in Threads :
          \/ \E pc \in {"denied", "compare"}, r \in Realms, d \in Rdrs : Get(t, pc, r, d)
          \/ \E f \in DOMAIN forms, n \in Names, p \in Pws : Post(t, f, n, p)
          \/ Setting(t) \/ Reading(t)
          \/ ShowSilent(t) \/ Redirect(t) \/ Render(t) \/ PostLogin(t) \/ PostLogout(t)
    BY <1>1, <1>4, FlowSteps
  <2>2. ~overlap
    <3>1. ASSUME NEW j, Begin(t, j) PROVE ~overlap
      BY <1>4, <3>1 DEF Begin
    <3>2. Setting(t) => overlap' = overlap
      BY <1>1, SetStep
    <3>3. Reading(t) => overlap' = overlap
      BY <1>1, ReadStep
    <3>4. ShowSilent(t) \/ Redirect(t) \/ Render(t) \/ PostLogin(t) \/ PostLogout(t) => overlap' = overlap
      BY DEF ShowSilent, Redirect, Render, PostLogin, PostLogout, AnswerAt, At
    <3> QED
      BY <1>4, <2>1, <3>1, <3>2, <3>3, <3>4 DEF Get, Post
  <2>3. OneByOne
    BY <2>2 DEF FlowInv
  <2>4. OneByOne'
    BY <1>1, <1>4, <2>1, <2>3, GetAlone, PostAlone, SetAlone, ReadAlone, SilentAlone, AnswerAlone, TryAlone
  <2> QED
    BY <1>1, <2>4 DEF FlowInv
<1> QED
  BY <1>2, <1>3, <1>4

LEMMA FlowInvCorrect == FlowSpec => []FlowInv
BY FlowInitInv, FlowStep, PTL DEF FlowSpec

\* The realm a login or logout is performed for is the one of the form that was
\* sent (updateSession() and doLogin(), by way of the session), unless a silent
\* login answered in between.
THEOREM FormRealmKeptCorrect == FlowSpec => []FormRealmKept
<1>1. FlowInv => FormRealmKept
  BY DEF FlowInv, OneByOne, Past, AttemptsFit, Stands, FormRealmKept
<1> QED
  BY <1>1, FlowInvCorrect, PTL

\* MW_CSRFProtect() lets a request through once for every token.
THEOREM TokenOnceCorrect == FlowSpec => []TokenOnce
<1>1. FlowInv => TokenOnce
  BY DEF FlowInv, OneByOne, Past, UsedOnce, TokenOnce
<1> QED
  BY <1>1, FlowInvCorrect, PTL

\* A form with an error message shows the name of a login that failed, and failed
\* for the realm of this form (updateSession() forgets the ones of another).
THEOREM ErrorIsMineCorrect == FlowSpec => []ErrorIsMine
<1>1. FlowInv => ErrorIsMine
  BY DEF FlowInv, OneByOne, Past, ErrorsFit, Blamed, ErrorIsMine
<1> QED
  BY <1>1, FlowInvCorrect, PTL

=============================================================================
