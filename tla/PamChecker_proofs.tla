-------------------------- MODULE PamChecker_proofs --------------------------
(***************************************************************************)
(* Proofs about PamChecker, for any number of workers, users and passwords *)
(* and any set of accepted credentials.                                    *)
(***************************************************************************)
EXTENDS PamChecker, TLAPS

-----------------------------------------------------------------------------
(* Type correctness.  What the controlling thread writes to the helper     *)
(* comes from the shared slot, which is empty until the first login: the   *)
(* type invariant needs to know when it is filled.                         *)

Talking == {"sendUser", "readReply", "sendPw", "readResult"}

CredSet == \A w \in Workers : wpc[w] \notin {"idle", "queued"} => cred[w] # NoAnswer

SlotSet ==
    /\ (request > 0 \/ tpc = "lock") => (slot # NoAnswer \/ stoprq)
    /\ tpc \in Talking => slot # NoAnswer

TypeInv == TypeOK /\ CredSet /\ SlotSet

\* The empty answer is not a pair.
LEMMA NoAnswerIsNoCred == NoAnswer \notin Creds
<1> SUFFICES ASSUME NEW u \in Users, NEW p \in Pws, NoAnswer = <<u, p>>
             PROVE  FALSE
  BY DEF Creds
<1>1. Len(<<u, p>>) = 2 /\ Len(NoAnswer) = 0
  BY DEF NoAnswer
<1> QED
  BY <1>1

LEMMA TypeInit == Init => TypeInv
<1> SUFFICES ASSUME Init PROVE TypeInv
  OBVIOUS
<1> USE DEF Init
<1>1. TypeOK
  <2>1. toChild \in Seq(ToChildMsg) /\ fromChild \in Seq(FromChildMsg)
    OBVIOUS
  <2>2. answer \in [Workers -> (Creds \X BOOLEAN) \cup {NoAnswer}]
    OBVIOUS
  <2> QED
    BY <2>1, <2>2 DEF TypeOK, WorkerPcs, ThreadPcs, ChildPcs
<1>2. CredSet
  BY DEF CredSet
<1>3. SlotSet
  BY DEF SlotSet, Talking
<1> QED
  BY <1>1, <1>2, <1>3 DEF TypeInv

\* The steps of a worker before check(), and the signal it gets.
Around(w) == Queue(w) \/ Interrupt(w)

\* A worker's steps keep the type invariant.
LEMMA TypeWorker ==
    ASSUME TypeInv, NEW w \in Workers,
           \/ \E c \in Creds : Login(w, c)
           \/ Around(w)
           \/ Worker(w)
    PROVE  TypeInv'
<1> USE DEF TypeInv, TypeOK, CredSet, SlotSet, Talking, WorkerPcs, slotVars,
        workerVars, threadVars, childVars
<1>1. ASSUME NEW c \in Creds, Login(w, c) PROVE TypeInv'
  <2>1. c # NoAnswer
    BY NoAnswerIsNoCred
  <2> QED
    BY <1>1, <2>1 DEF Login
<1>2. CASE Around(w)
  <2>1. CASE Queue(w)
    BY <2>1 DEF Queue
  <2>2. CASE AwaitInterrupted(w)
    BY <2>2 DEF AwaitInterrupted, Return
  <2>3. CASE InterruptLost(w)
    BY <2>3 DEF InterruptLost
  <2> QED
    BY <1>2, <2>1, <2>2, <2>3 DEF Around, Interrupt
<1>3. CASE ProbeAlive(w)
  BY <1>3 DEF ProbeAlive
<1>4. CASE ProbeDead(w)
  BY <1>4 DEF ProbeDead, Return
<1>5. CASE Submit(w)
  BY <1>5 DEF Submit
<1>6. CASE SubmitUnlock(w)
  BY <1>6 DEF SubmitUnlock
<1>7. CASE AwaitResponse(w)
  BY <1>7 DEF AwaitResponse
<1>8. CASE Fetch(w)
  BY <1>8 DEF Fetch
<1>9. CASE FetchUnlock(w)
  BY <1>9 DEF FetchUnlock, Return
<1> QED
  BY <1>1, <1>2, <1>3, <1>4, <1>5, <1>6, <1>7, <1>8, <1>9 DEF Worker

\* The controlling thread's steps keep the type invariant.
LEMMA TypePamThread ==
    ASSUME TypeInv, PamThread
    PROVE  TypeInv'
<1> USE DEF TypeInv, TypeOK, CredSet, SlotSet, Talking, ThreadPcs, ChildPcs,
        slotVars, workerVars, threadVars, childVars
<1>1. CASE Start
  BY <1>1 DEF Start
<1>2. CASE StartFails
  BY <1>2 DEF StartFails
<1>3. CASE Top
  BY <1>3 DEF Top
<1>4. CASE Wait
  BY <1>4 DEF Wait
<1>5. CASE Lock
  <2>1. tpc = "lock" /\ tpc' \in {"broken", "sendUser"} /\ lock' = "pamThread" /\ ok' = FALSE
    BY <1>5 DEF Lock
  <2>2. UNCHANGED <<authlock, request, response, slot, stoprq, workerVars, childExited,
                    sigchld, childVars, mpc>>
    BY <1>5 DEF Lock
  <2>3. TypeOK'
    <3>1. tpc' \in ThreadPcs /\ lock' \in Workers \cup {"free", "pamThread"} /\ ok' \in BOOLEAN
      BY <2>1
    <3>2. UNCHANGED <<authlock, request, response, slot, stoprq, wpc, cred, result, answer,
                      irq, childExited, sigchld, cpc, cuser, toChild, fromChild, mpc>>
      BY <2>2
    <3> QED
      BY <3>1, <3>2
  <2>4. CredSet'
    BY <2>2
  <2>5. SlotSet'
    <3>1. tpc' \in Talking => slot # NoAnswer
      <4>1. CASE stoprq \/ childExited
        BY <1>5, <4>1 DEF Lock
      <4>2. CASE ~(stoprq \/ childExited)
        BY <2>1, <4>2
      <4> QED
        BY <4>1, <4>2
    <3> QED
      BY <2>1, <2>2, <3>1
  <2> QED
    BY <2>3, <2>4, <2>5
<1>6. ASSUME tpc \in Talking
      PROVE  /\ [kind |-> "user", val |-> slot[1]] \in ToChildMsg
             /\ [kind |-> "pw", val |-> slot[2]] \in ToChildMsg
  BY <1>6 DEF Creds, ToChildMsg
<1>7. CASE SendUser
  BY <1>6, <1>7 DEF SendUser, Write
<1>8. CASE SendPw
  BY <1>6, <1>8 DEF SendPw, Write
<1>9. CASE ReadReply
  BY <1>9 DEF ReadReply, Read
<1>10. CASE ReadResult
  BY <1>10 DEF ReadResult, Read
<1>11. CASE Post
  BY <1>11 DEF Post
<1>12. CASE Unlock
  BY <1>12 DEF Unlock
<1>13. CASE Broken
  BY <1>13 DEF Broken
<1>14. CASE Reap
  BY <1>14 DEF Reap
<1>15. CASE Handlechild
  <2>1. tpc' = tpc \/ tpc' = "broken"
    BY <1>15 DEF Handlechild
  <2>2. /\ sigchld' = FALSE /\ childExited' = TRUE
        /\ UNCHANGED <<authlock, lock, request, response, slotVars, workerVars,
                       childVars, mpc>>
    BY <1>15 DEF Handlechild
  <2>3. TypeOK'
    <3>1. tpc' \in ThreadPcs
      BY <2>1
    <3>2. sigchld' \in BOOLEAN /\ childExited' \in BOOLEAN
      BY <2>2
    <3>3. UNCHANGED <<authlock, lock, request, response, slot, ok, stoprq, wpc,
                      cred, result, answer, irq, cpc, cuser, toChild, fromChild, mpc>>
      BY <2>2
    <3> QED
      BY <3>1, <3>2, <3>3
  <2>4. CredSet'
    BY <2>2
  <2>5. SlotSet'
    BY <2>1, <2>2
  <2> QED
    BY <2>3, <2>4, <2>5
<1> QED
  BY <1>1, <1>2, <1>3, <1>4, <1>5, <1>7, <1>8, <1>9, <1>10, <1>11, <1>12,
     <1>13, <1>14, <1>15 DEF PamThread

\* The helper's steps keep the type invariant.
LEMMA TypeChild ==
    ASSUME TypeInv, Child \/ ChildDies \/ ChildStalls
    PROVE  TypeInv'
<1> USE DEF TypeInv, TypeOK, CredSet, SlotSet, ChildPcs, slotVars, workerVars,
        threadVars, childVars
<1>1. CASE ChildRead
  <2>1. Head(toChild) \in ToChildMsg
    BY <1>1 DEF ChildRead
  <2>2. Head(toChild).kind = "user" => FirstLine(Head(toChild).val) \in Lines
    BY <2>1, PamAssumption DEF ToChildMsg, FirstLine
  <2>3. cuser' \in Lines \cup {NoAnswer} /\ cpc' \in ChildPcs /\ sigchld' \in BOOLEAN
    BY <1>1, <2>2 DEF ChildRead, Exit
  <2>4. toChild' \in Seq(ToChildMsg)
    BY <1>1 DEF ChildRead
  <2> QED
    BY <1>1, <2>3, <2>4 DEF ChildRead
<1>2. CASE ChildPrompt
  BY <1>2 DEF ChildPrompt, Reply, FromChildMsg
<1>3. CASE ChildNoPrompt
  BY <1>3 DEF ChildNoPrompt, Verdict, Reply, FromChildMsg
<1>4. CASE ChildPassword
  BY <1>4 DEF ChildPassword, Verdict, Reply, FromChildMsg
<1>5. CASE ChildEof
  BY <1>5 DEF ChildEof, Exit
<1>6. CASE ChildDies
  BY <1>6 DEF ChildDies, Exit
<1>7. CASE ChildStalls
  BY <1>7 DEF ChildStalls
<1> QED
  BY <1>1, <1>2, <1>3, <1>4, <1>5, <1>6, <1>7 DEF Child

\* So do shutdown and stuttering.
LEMMA TypeMain ==
    ASSUME TypeInv, Shutdown \/ Stop \/ Join \/ Terminated \/ UNCHANGED vars
    PROVE  TypeInv'
<1> USE DEF TypeInv, TypeOK, CredSet, SlotSet, slotVars, workerVars,
        threadVars, childVars
<1>1. CASE Shutdown
  BY <1>1 DEF Shutdown
<1>2. CASE Stop
  BY <1>2 DEF Stop
<1>3. CASE Join
  BY <1>3 DEF Join
<1>4. CASE Terminated \/ UNCHANGED vars
  BY <1>4 DEF Terminated, vars
<1> QED
  BY <1>1, <1>2, <1>3, <1>4

LEMMA TypeStep == TypeInv /\ [Next]_vars => TypeInv'
BY TypeWorker, TypePamThread, TypeChild, TypeMain DEF Next, Around

\* Every variable of the checker keeps its type, in particular everything
\* written to the helper is a user name or a password that was handed over.
THEOREM TypeCorrect == Spec => []TypeOK
<1>1. TypeInv => TypeOK
  BY DEF TypeInv
<1> QED
  BY <1>1, TypeInit, TypeStep, PTL DEF Spec

-----------------------------------------------------------------------------
(* No false accept, as long as no worker is interrupted while it waits.    *)
(* The argument is a token: the request posted in check() turns into the   *)
(* controlling thread being busy and then into the response, and there is  *)
(* one only while the owner of authlock waits for it.                      *)

Busy == Talking \cup {"lock", "post"}

Waiting(w) == wpc[w] \in {"submitted", "await"}

\* Inside check(), or next to it.
Inside(w) == wpc[w] \notin {"idle", "queued"}

\* Only the owner of authlock is inside check(), and nobody is after shutdown
\* began.
OneHolder ==
    /\ \A w \in Workers : Inside(w) => authlock = w
    /\ mpc # "up" => \A w \in Workers : wpc[w] = "idle"

\* There is at most one token, and none unless a worker waits for it.
OneToken ==
    mpc = "up" =>
        /\ request + response <= 1
        /\ tpc \in Busy => request + response = 0
        /\ (tpc \in Busy \/ request + response > 0) => \E w \in Workers : Waiting(w)

\* While a worker waits, the slot holds what it asked for.
SlotIsMine == \A w \in Workers : Waiting(w) => slot = cred[w]

UserMsg == [kind |-> "user", val |-> slot[1]]
PwMsg   == [kind |-> "pw", val |-> slot[2]]

\* The helper has the thread's request and has not answered it yet ...
Asked ==
    /\ fromChild = <<>>
    /\ \/ tpc = "readReply" /\ cpc = "idle" /\ toChild = <<UserMsg>>
       \/ tpc = "readReply" /\ cpc = "auth" /\ toChild = <<>> /\ cuser = FirstLine(slot[1])
       \/ tpc = "readResult" /\ cpc = "pw" /\ toChild = <<PwMsg>> /\ cuser = FirstLine(slot[1])

\* ... it asked for the password ...
Prompted ==
    /\ cpc = "pw" /\ toChild = <<>> /\ cuser = FirstLine(slot[1])
    /\ \/ tpc = "readReply" /\ fromChild = <<"P">>
       \/ tpc = "sendPw" /\ fromChild = <<>>

\* ... it never comes back ...
Stalled ==
    /\ cpc = "stalled"
    /\ \/ toChild = <<>> /\ fromChild = <<>>
       \/ tpc = "readReply" /\ toChild = <<>> /\ fromChild = <<"P">>
       \/ tpc = "readResult" /\ toChild = <<PwMsg>> /\ fromChild = <<>>

\* ... it decided.
Answered ==
    /\ tpc \in {"readReply", "readResult"} /\ cpc = "idle" /\ toChild = <<>>
    /\ \E m \in {"0", "1"} : fromChild = <<m>> /\ (m = "1" => Accepted(slot))

\* What the pipes and the helper hold, by where the controlling thread is.
Dialogue ==
    /\ tpc = "start" => cpc = "none" /\ toChild = <<>> /\ fromChild = <<>>
    /\ mpc = "up" /\ tpc \in {"top", "wait", "lock", "sendUser", "readReply", "sendPw",
                              "readResult", "post", "unlock"} =>
         IF cpc = "dead"
           THEN fromChild = <<"1">> /\ tpc \in {"readReply", "readResult"}
                  => Accepted(slot)
           ELSE IF tpc \in {"readReply", "sendPw", "readResult"}
           THEN Asked \/ Prompted \/ Stalled \/ Answered
           ELSE cpc = "idle" /\ toChild = <<>> /\ fromChild = <<>>

\* What ok stands for, by where the request is.
OkMeans ==
    mpc = "up" =>
        /\ tpc \in Talking => ~ok
        /\ tpc = "post" /\ ok => Accepted(slot)
        /\ \A w \in Workers :
              /\ (Waiting(w) /\ response > 0) \/ wpc[w] = "fetch"
                   => (ok => Accepted(cred[w]))
              /\ wpc[w] = "fetched" => (result[w] => Accepted(cred[w]))

SafeInv ==
    /\ TypeInv /\ OneHolder /\ OneToken /\ SlotIsMine /\ Dialogue /\ OkMeans
    /\ NoFalseAccept

LEMMA SafeInit == Init => SafeInv
<1> SUFFICES ASSUME Init PROVE SafeInv
  OBVIOUS
<1>1. TypeInv
  BY TypeInit
<1>2. OneHolder /\ OneToken /\ SlotIsMine /\ Dialogue /\ OkMeans /\ NoFalseAccept
  BY DEF Init, OneHolder, Inside, OneToken, SlotIsMine, Dialogue, OkMeans, NoFalseAccept,
     Waiting, Busy, Talking
<1> QED
  BY <1>1, <1>2 DEF SafeInv

\* Two workers are never inside check() at once.
LEMMA OthersIdle ==
    ASSUME OneHolder, NEW w \in Workers, Inside(w), NEW v \in Workers, v # w
    PROVE  ~Inside(v)
BY DEF OneHolder, Inside

\* The helper makes one line of what it reads.
LEMMA FirstLineIsLine == \A t \in Users \cup Pws : FirstLine(t) \in Lines
BY PamAssumption DEF FirstLine

\* Steps of a worker that leave the shared variables of the controlling thread
\* and the helper alone keep the dialogue as it is.
LEMMA DialogueStable ==
    ASSUME Dialogue, UNCHANGED <<mpc, tpc, cpc, cuser, toChild, fromChild, slot>>
    PROVE  Dialogue'
BY DEF Dialogue, Asked, Prompted, Stalled, Answered, UserMsg, PwMsg

\* A worker's step that returns r from check(): a success is a valid one.
LEMMA SafeReturn ==
    ASSUME SafeInv, TypeInv', NEW w \in Workers, NEW r \in BOOLEAN,
           Inside(w), Return(w, r), r => Accepted(cred[w]),
           mpc = "up" => (request + response = 0 /\ tpc \notin Busy),
           UNCHANGED <<request, response, slotVars, cred, result, threadVars,
                       childVars, mpc>>
    PROVE  SafeInv'
<1> USE DEF SafeInv, TypeInv, TypeOK, Return, slotVars, threadVars, childVars
<1>1. OneHolder'
  BY OthersIdle DEF Inside, OneHolder
<1>2. OneToken'
  BY DEF OneToken, Busy, Talking
<1>3. SlotIsMine'
  BY DEF SlotIsMine, Waiting
<1>4. Dialogue'
  BY DialogueStable
<1>5. OkMeans'
  BY DEF OkMeans, Waiting
<1>6. NoFalseAccept'
  BY DEF NoFalseAccept
<1> QED
  BY <1>1, <1>2, <1>3, <1>4, <1>5, <1>6

\* While the owner of authlock is inside check() but does not wait, there is
\* no request, no response and the controlling thread has nothing to do.
LEMMA NoTokenAround ==
    ASSUME SafeInv, NEW w \in Workers, Inside(w), ~Waiting(w)
    PROVE  mpc = "up" /\ request = 0 /\ response = 0 /\ tpc \notin Busy
<1>1. mpc = "up"
  BY DEF SafeInv, OneHolder, Inside
<1>2. \A v \in Workers : ~Waiting(v)
  BY OthersIdle DEF Inside, SafeInv, Waiting
<1> QED
  BY <1>1, <1>2 DEF SafeInv, OneToken, TypeInv, TypeOK

LEMMA SafeWorker ==
    ASSUME SafeInv, TypeInv', NEW w \in Workers,
           (\E c \in Creds : Login(w, c)) \/ Around(w) \/ Worker(w),
           ~MayInterrupt
    PROVE  SafeInv'
<1> USE DEF SafeInv, TypeInv, TypeOK, slotVars, workerVars, threadVars, childVars
<1>1. ASSUME NEW c \in Creds, Login(w, c) PROVE SafeInv'
  <2> USE <1>1 DEF Login
  <2>1. \A v \in Workers : ~Inside(v)
    BY PamAssumption DEF OneHolder, Inside
  <2>2. OneHolder'
    BY <2>1 DEF OneHolder, Inside
  <2>3. OneToken'
    BY <2>1 DEF OneToken, Busy, Talking, Waiting
  <2>4. SlotIsMine'
    BY <2>1 DEF SlotIsMine, Waiting
  <2>5. Dialogue'
    BY DialogueStable
  <2>6. OkMeans'
    BY <2>1 DEF OkMeans, Waiting, Talking
  <2>7. NoFalseAccept'
    BY DEF NoFalseAccept
  <2> QED
    BY <2>2, <2>3, <2>4, <2>5, <2>6, <2>7
<1>2. CASE ProbeAlive(w)
  <2> USE <1>2 DEF ProbeAlive
  <2>1. OneHolder' /\ SlotIsMine' /\ NoFalseAccept'
    BY DEF OneHolder, Inside, SlotIsMine, Waiting, NoFalseAccept
  <2>2. OneToken'
    BY NoTokenAround DEF Inside, OneToken, Busy, Talking, Waiting
  <2>3. Dialogue'
    BY DialogueStable
  <2>4. OkMeans'
    BY DEF OkMeans, Waiting, Talking
  <2> QED
    BY <2>1, <2>2, <2>3, <2>4
<1>3. CASE ProbeDead(w)
  <2>1. Inside(w) /\ ~Waiting(w)
    BY <1>3 DEF Inside, ProbeDead, Waiting
  <2>2. mpc = "up" /\ request = 0 /\ response = 0 /\ tpc \notin Busy
    BY <2>1, NoTokenAround
  <2>3. Return(w, FALSE) /\ UNCHANGED <<request, response, slotVars, cred, result,
                                        threadVars, childVars, mpc>>
    BY <1>3 DEF ProbeDead
  <2>4. request + response = 0
    BY <2>2
  <2> HIDE DEF SafeInv, TypeInv, TypeOK, slotVars, threadVars, childVars
  <2> QED
    BY <2>1, <2>2, <2>3, <2>4, SafeReturn, Zenon
<1>4. CASE Submit(w)
  <2> USE <1>4 DEF Submit
  <2>1. mpc = "up" /\ request = 0 /\ response = 0 /\ tpc \notin Busy
    BY NoTokenAround DEF Inside, Waiting
  <2>2. OneHolder' /\ NoFalseAccept'
    BY DEF OneHolder, Inside, NoFalseAccept
  <2>3. OneToken'
    BY <2>1 DEF OneToken, Busy, Talking, Waiting
  <2>4. SlotIsMine'
    BY OthersIdle DEF Inside, SlotIsMine, Waiting
  <2>5. Dialogue'
    BY <2>1 DEF Dialogue, Busy, Talking
  <2>6. OkMeans'
    BY <2>1 DEF OkMeans, Waiting, Busy, Talking
  <2> QED
    BY <2>2, <2>3, <2>4, <2>5, <2>6
<1>5. CASE SubmitUnlock(w)
  <2> USE <1>5 DEF SubmitUnlock
  <2>1. OneHolder' /\ SlotIsMine' /\ NoFalseAccept'
    BY DEF OneHolder, Inside, SlotIsMine, Waiting, NoFalseAccept
  <2>2. OneToken'
    BY DEF OneToken, Busy, Talking, Waiting
  <2>3. Dialogue'
    BY DialogueStable
  <2>4. OkMeans'
    BY DEF OkMeans, Waiting, Talking
  <2> QED
    BY <2>1, <2>2, <2>3, <2>4
<1>6. CASE AwaitResponse(w)
  <2> USE <1>6 DEF AwaitResponse
  <2>1. mpc = "up" /\ request = 0 /\ response = 1 /\ tpc \notin Busy
    BY DEF OneHolder, Inside, OneToken
  <2>2. OneHolder' /\ SlotIsMine' /\ NoFalseAccept'
    BY DEF OneHolder, Inside, SlotIsMine, Waiting, NoFalseAccept
  <2>3. OneToken'
    BY <2>1 DEF OneToken, Busy, Talking
  <2>4. Dialogue'
    BY DialogueStable
  <2>5. OkMeans'
    BY <2>1 DEF OkMeans, Waiting, Busy, Talking
  <2> QED
    BY <2>2, <2>3, <2>4, <2>5
<1>7. CASE Fetch(w)
  <2> USE <1>7 DEF Fetch
  <2>1. mpc = "up" /\ request = 0 /\ response = 0 /\ tpc \notin Busy
    BY NoTokenAround DEF Inside, Waiting
  <2>2. OneHolder' /\ SlotIsMine' /\ NoFalseAccept'
    BY DEF OneHolder, Inside, SlotIsMine, Waiting, NoFalseAccept
  <2>3. OneToken'
    BY <2>1 DEF OneToken, Busy, Talking
  <2>4. Dialogue'
    BY DialogueStable
  <2>5. OkMeans'
    BY <2>1 DEF OkMeans, Waiting, Busy, Talking
  <2> QED
    BY <2>2, <2>3, <2>4, <2>5
<1>8. CASE FetchUnlock(w)
  <2>1. Inside(w) /\ ~Waiting(w)
    BY <1>8 DEF Inside, FetchUnlock, Waiting
  <2>2. mpc = "up" /\ request = 0 /\ response = 0 /\ tpc \notin Busy
    BY <2>1, NoTokenAround
  <2>3. result[w] \in BOOLEAN /\ (result[w] => Accepted(cred[w]))
    BY <1>8, <2>2 DEF FetchUnlock, OkMeans
  <2> QED
    BY <1>8, <2>1, <2>2, <2>3, SafeReturn DEF FetchUnlock
<1>9. CASE Around(w)
  <2>1. /\ wpc[w] = "idle" /\ wpc' = [wpc EXCEPT ![w] = "queued"] /\ mpc = "up"
        /\ UNCHANGED <<authlock, request, response, slot, ok, cred, result, answer, tpc,
                       cpc, cuser, toChild, fromChild, mpc>>
    BY <1>9 DEF Around, Queue, Interrupt, AwaitInterrupted, InterruptLost
  <2>2. /\ \A v \in Workers : /\ Inside(v)' <=> Inside(v)
                              /\ Waiting(v)' <=> Waiting(v)
                              /\ wpc'[v] = "fetch" <=> wpc[v] = "fetch"
                              /\ wpc'[v] = "fetched" <=> wpc[v] = "fetched"
    BY <2>1 DEF Inside, Waiting
  <2>3. OneHolder' /\ SlotIsMine' /\ NoFalseAccept'
    BY <2>1, <2>2 DEF OneHolder, Inside, SlotIsMine, NoFalseAccept
  <2>4. OneToken'
    BY <2>1, <2>2 DEF OneToken
  <2>5. Dialogue'
    BY <2>1, DialogueStable
  <2>6. OkMeans'
    BY <2>1, <2>2 DEF OkMeans
  <2> QED
    BY <2>3, <2>4, <2>5, <2>6
<1> QED
  BY <1>1, <1>2, <1>3, <1>4, <1>5, <1>6, <1>7, <1>8, <1>9 DEF Worker

\* What the controlling thread and the helper never touch.
LEMMA ThreadFrame ==
    ASSUME SafeInv, TypeInv', UNCHANGED <<authlock, slot, workerVars, mpc>>,
           OneToken', Dialogue', OkMeans'
    PROVE  SafeInv'
<1> USE DEF workerVars
<1>1. OneHolder' /\ NoFalseAccept'
  BY DEF SafeInv, OneHolder, Inside, NoFalseAccept
<1>2. SlotIsMine'
  BY DEF SafeInv, SlotIsMine, Waiting
<1> QED
  BY <1>1, <1>2 DEF SafeInv

\* Steps of the controlling thread that neither take a request nor give a
\* response nor set ok keep the token and the meaning of ok.
LEMMA TokenStable ==
    ASSUME SafeInv, UNCHANGED <<request, response, ok, slot, workerVars, mpc>>,
           tpc' \in Busy => tpc \in Busy,
           tpc' \in Talking => tpc \in Talking,
           tpc' = "post" => tpc = "post"
    PROVE  OneToken' /\ OkMeans'
<1> USE DEF SafeInv, workerVars, Waiting
<1>1. OneToken'
  BY DEF OneToken, Busy, Talking
<1>2. OkMeans'
  BY DEF OkMeans, Busy, Talking
<1> QED
  BY <1>1, <1>2

LEMMA SafePamThread ==
    ASSUME SafeInv, TypeInv', PamThread
    PROVE  SafeInv'
<1> USE DEF slotVars, workerVars, threadVars, childVars
<1>1. CASE Start
  <2>1. OneToken' /\ OkMeans'
    BY <1>1, TokenStable DEF Start, Busy, Talking
  <2>2. Dialogue'
    BY <1>1 DEF Start, SafeInv, Dialogue
  <2> QED
    BY <1>1, <2>1, <2>2, ThreadFrame DEF Start
<1>2. CASE StartFails
  <2>1. OneToken' /\ OkMeans'
    BY <1>2, TokenStable DEF StartFails, Busy, Talking
  <2>2. Dialogue'
    BY <1>2 DEF StartFails, SafeInv, Dialogue
  <2> QED
    BY <1>2, <2>1, <2>2, ThreadFrame DEF StartFails
<1>3. CASE Top
  <2>1. OneToken' /\ OkMeans'
    BY <1>3, TokenStable DEF Top, Busy, Talking
  <2>2. Dialogue'
    BY <1>3 DEF Top, SafeInv, Dialogue
  <2> QED
    BY <1>3, <2>1, <2>2, ThreadFrame DEF Top
<1>4. CASE Wait
  <2>1. OneToken'
    BY <1>4 DEF Wait, SafeInv, TypeInv, TypeOK, OneToken, Busy, Talking, Waiting
  <2>2. OkMeans'
    BY <1>4 DEF Wait, SafeInv, OkMeans, Talking, Waiting
  <2>3. Dialogue'
    BY <1>4 DEF Wait, SafeInv, Dialogue
  <2> QED
    BY <1>4, <2>1, <2>2, <2>3, ThreadFrame DEF Wait
<1>5. CASE Lock
  <2>1. OneToken'
    BY <1>5 DEF Lock, SafeInv, OneToken, Busy, Talking, Waiting
  <2>2. OkMeans'
    BY <1>5 DEF Lock, SafeInv, OkMeans, Talking, Waiting
  <2>3. Dialogue'
    BY <1>5 DEF Lock, SafeInv, Dialogue
  <2> QED
    BY <1>5, <2>1, <2>2, <2>3, ThreadFrame DEF Lock
<1>6. CASE SendUser
  <2>1. OneToken' /\ OkMeans'
    BY <1>6, TokenStable DEF SendUser, Write, Busy, Talking
  <2>2. Dialogue'
    <3>1. CASE cpc = "dead"
      BY <1>6, <3>1 DEF SendUser, Write, SafeInv, Dialogue
    <3>2. CASE cpc # "dead" /\ mpc = "up"
      <4>1. cpc = "idle" /\ toChild = <<>> /\ fromChild = <<>>
        BY <1>6, <3>2 DEF SendUser, SafeInv, Dialogue
      <4>2. toChild' = <<UserMsg>>
        BY <1>6, <3>2, <4>1 DEF SendUser, Write, UserMsg
      <4>3. Asked'
        BY <1>6, <3>2, <4>1, <4>2 DEF SendUser, Write, Asked, UserMsg
      <4> QED
        BY <1>6, <3>2, <4>3 DEF SendUser, Write, Dialogue
    <3>3. CASE mpc # "up"
      BY <1>6, <3>3 DEF SendUser, Write, Dialogue
    <3> QED
      BY <3>1, <3>2, <3>3
  <2> QED
    BY <1>6, <2>1, <2>2, ThreadFrame DEF SendUser, Write
<1>7. CASE SendPw
  <2>1. OneToken' /\ OkMeans'
    BY <1>7, TokenStable DEF SendPw, Write, Busy, Talking
  <2>2. Dialogue'
    <3>1. CASE cpc = "dead"
      BY <1>7, <3>1 DEF SendPw, Write, SafeInv, Dialogue
    <3>2. CASE cpc # "dead" /\ mpc = "up"
      <4>0. Prompted \/ Stalled
        BY <1>7, <3>2 DEF SendPw, SafeInv, Dialogue, Asked, Answered
      <4>1. toChild = <<>>
        BY <1>7, <4>0 DEF SendPw, Prompted, Stalled
      <4>2. toChild' = <<PwMsg>>
        BY <1>7, <3>2, <4>1 DEF SendPw, Write, PwMsg
      <4>3. (Asked \/ Stalled)'
        BY <1>7, <3>2, <4>0, <4>2 DEF SendPw, Write, Asked, Prompted, Stalled, PwMsg
      <4> QED
        BY <1>7, <3>2, <4>3 DEF SendPw, Write, Dialogue
    <3>3. CASE mpc # "up"
      BY <1>7, <3>3 DEF SendPw, Write, Dialogue
    <3> QED
      BY <3>1, <3>2, <3>3
  <2> QED
    BY <1>7, <2>1, <2>2, ThreadFrame DEF SendPw, Write
<1>8. ASSUME tpc \in {"readReply", "readResult"}, mpc = "up", fromChild = <<"1">>
      PROVE  Accepted(slot)
  BY <1>8 DEF SafeInv, Dialogue, Asked, Prompted, Stalled, Answered
<1>9. ASSUME tpc \in Busy, mpc = "up", NEW w \in Workers
      PROVE  wpc[w] # "fetch" /\ response = 0
  <2>1. PICK v \in Workers : Waiting(v)
    BY <1>9 DEF SafeInv, OneToken
  <2>2. response = 0
    BY <1>9 DEF SafeInv, TypeInv, TypeOK, OneToken
  <2> QED
    BY <2>1, <2>2, OthersIdle DEF Inside, SafeInv, Waiting
<1>10. CASE ReadReply
  <2> USE <1>10 DEF ReadReply, Read
  <2>1. OneToken'
    BY DEF SafeInv, OneToken, Busy, Talking, Waiting
  <2>2. mpc = "up" => ~ok
    BY DEF SafeInv, OkMeans, Talking
  <2>3. mpc = "up" => (ok' <=> fromChild = <<"1">>)
    BY <2>2
  <2>4. OkMeans'
    <3>1. mpc = "up" /\ tpc' \in Talking => ~ok'
      BY <2>3 DEF Talking
    <3>2. mpc = "up" /\ tpc' = "post" /\ ok' => Accepted(slot')
      BY <2>3, <1>8
    <3>3. ASSUME mpc = "up", NEW w \in Workers
          PROVE  /\ wpc'[w] # "fetch" /\ response' = 0
                 /\ wpc'[w] = "fetched" => (result'[w] => Accepted(cred'[w]))
      BY <3>3, <1>9 DEF SafeInv, OkMeans, Busy, Talking
    <3> QED
      BY <3>1, <3>2, <3>3 DEF OkMeans
  <2>5. Dialogue'
    <3>1. CASE mpc # "up" \/ cpc = "dead"
      BY <3>1 DEF Dialogue
    <3>2. CASE mpc = "up" /\ cpc # "dead"
      <4>1. Prompted \/ Stalled \/ Answered
        BY <3>2 DEF SafeInv, Dialogue, Asked
      <4>2. CASE Prompted
        BY <3>2, <4>2 DEF Dialogue, Prompted
      <4>3. CASE Answered
        BY <3>2, <4>3 DEF Dialogue, Answered
      <4>4. CASE Stalled
        BY <3>2, <4>4 DEF Dialogue, Stalled
      <4> QED
        BY <4>1, <4>2, <4>3, <4>4
    <3> QED
      BY <3>1, <3>2
  <2> QED
    BY <2>1, <2>4, <2>5, ThreadFrame
<1>11. CASE ReadResult
  <2> USE <1>11 DEF ReadResult, Read
  <2>1. OneToken'
    BY DEF SafeInv, OneToken, Busy, Talking, Waiting
  <2>2. mpc = "up" => ~ok
    BY DEF SafeInv, OkMeans, Talking
  <2>3. mpc = "up" => (ok' <=> fromChild = <<"1">>)
    BY <2>2
  <2>4. OkMeans'
    <3>1. mpc = "up" /\ tpc' \in Talking => ~ok'
      BY <2>3 DEF Talking
    <3>2. mpc = "up" /\ tpc' = "post" /\ ok' => Accepted(slot')
      BY <2>3, <1>8
    <3>3. ASSUME mpc = "up", NEW w \in Workers
          PROVE  /\ wpc'[w] # "fetch" /\ response' = 0
                 /\ wpc'[w] = "fetched" => (result'[w] => Accepted(cred'[w]))
      BY <3>3, <1>9 DEF SafeInv, OkMeans, Busy, Talking
    <3> QED
      BY <3>1, <3>2, <3>3 DEF OkMeans
  <2>5. Dialogue'
    BY DEF SafeInv, Dialogue, Asked, Prompted, Stalled, Answered
  <2> QED
    BY <2>1, <2>4, <2>5, ThreadFrame
<1>12. CASE Post
  <2> USE <1>12 DEF Post
  <2>1. OneToken'
    BY DEF SafeInv, OneToken, TypeInv, TypeOK, Busy, Talking, Waiting
  <2>2. OkMeans'
    <3>1. mpc = "up" => \A w \in Workers : Waiting(w) => (ok => Accepted(cred[w]))
      BY DEF SafeInv, OkMeans, SlotIsMine
    <3> QED
      BY <3>1 DEF SafeInv, OkMeans, Waiting, Talking
  <2>3. Dialogue'
    BY DEF SafeInv, Dialogue
  <2> QED
    BY <2>1, <2>2, <2>3, ThreadFrame
<1>13. CASE Unlock
  <2>1. OneToken' /\ OkMeans'
    BY <1>13, TokenStable DEF Unlock, Busy, Talking
  <2>2. Dialogue'
    BY <1>13 DEF Unlock, SafeInv, Dialogue
  <2> QED
    BY <1>13, <2>1, <2>2, ThreadFrame DEF Unlock
<1>14. CASE Broken
  <2>1. OneToken' /\ OkMeans'
    BY <1>14, TokenStable DEF Broken, Busy, Talking
  <2>2. Dialogue'
    BY <1>14 DEF Broken, SafeInv, Dialogue
  <2> QED
    BY <1>14, <2>1, <2>2, ThreadFrame DEF Broken
<1>15. CASE Reap
  <2>1. OneToken' /\ OkMeans'
    BY <1>15, TokenStable DEF Reap, Busy, Talking
  <2>2. Dialogue'
    BY <1>15 DEF Reap, SafeInv, Dialogue
  <2> QED
    BY <1>15, <2>1, <2>2, ThreadFrame DEF Reap
<1>16. CASE Handlechild
  <2>1. tpc' = tpc \/ tpc' = "broken"
    BY <1>16 DEF Handlechild
  <2>2. UNCHANGED <<authlock, lock, request, response, slotVars, workerVars,
                    childVars, mpc>>
    BY <1>16 DEF Handlechild
  <2>3. OneToken' /\ OkMeans'
    BY <2>1, <2>2, TokenStable DEF Busy, Talking
  <2>4. Dialogue'
    <3>1. CASE tpc' = tpc
      BY <2>2, <3>1, DialogueStable DEF SafeInv
    <3>2. CASE tpc' = "broken"
      BY <3>2 DEF Dialogue
    <3> QED
      BY <2>1, <3>1, <3>2
  <2> QED
    BY <2>2, <2>3, <2>4, ThreadFrame
<1> QED
  BY <1>1, <1>2, <1>3, <1>4, <1>5, <1>6, <1>7, <1>10, <1>11, <1>12, <1>13,
     <1>14, <1>15, <1>16 DEF PamThread

\* What the helper's steps leave alone; that they are steps of the dialogue
\* is shown for each of them.
LEMMA ChildFrame ==
    ASSUME SafeInv, TypeInv', Dialogue',
           UNCHANGED <<authlock, request, response, slotVars, workerVars, tpc, mpc>>
    PROVE  SafeInv'
<1>1. OneToken' /\ OkMeans'
  BY TokenStable DEF slotVars
<1> QED
  BY <1>1, ThreadFrame DEF slotVars

LEMMA SafeChild ==
    ASSUME SafeInv, TypeInv', Child \/ ChildDies \/ ChildStalls
    PROVE  SafeInv'
<1> USE DEF threadVars
<1>1. CASE ChildRead
  <2> USE <1>1 DEF ChildRead
  <2>1. CASE mpc = "up" /\ tpc = "readReply"
    <3>1. toChild = <<UserMsg>> /\ fromChild = <<>>
      BY <2>1 DEF SafeInv, Dialogue, Asked, Prompted, Stalled, Answered
    <3>2. Head(toChild).kind = "user" /\ Head(toChild).val = slot[1]
      BY <3>1 DEF UserMsg
    <3>3. Asked'
      BY <2>1, <3>1, <3>2 DEF Asked, slotVars
    <3>4. Dialogue'
      BY <2>1, <3>2, <3>3 DEF Dialogue
    <3> QED
      BY <3>4, ChildFrame
  <2>2. CASE mpc # "up" \/ tpc # "readReply"
    <3>1. Dialogue'
      BY <2>2 DEF SafeInv, Dialogue, Asked, Prompted, Stalled, Answered
    <3> QED
      BY <3>1, ChildFrame
  <2> QED
    BY <2>1, <2>2
<1>2. CASE ChildPrompt
  <2> USE <1>2 DEF ChildPrompt, Reply
  <2>1. mpc = "up" /\ tpc = "readReply" => Prompted'
    BY DEF SafeInv, Dialogue, Asked, Prompted, Stalled, Answered, slotVars
  <2>2. Dialogue'
    BY <2>1 DEF SafeInv, Dialogue, Asked, Prompted, Stalled, Answered
  <2> QED
    BY <2>2, ChildFrame
<1>3. CASE ChildNoPrompt
  <2> USE <1>3 DEF ChildNoPrompt, Verdict, Reply
  <2>1. mpc = "up" /\ tpc = "readReply" => Answered'
    <3>1. SUFFICES ASSUME mpc = "up", tpc = "readReply" PROVE Answered'
      OBVIOUS
    <3>2. toChild = <<>> /\ fromChild = <<>> /\ cuser = FirstLine(slot[1])
      BY <3>1 DEF SafeInv, Dialogue, Asked, Prompted, Stalled, Answered
    <3>3. slot \in Creds
      BY <3>1 DEF SafeInv, TypeInv, SlotSet, TypeOK, Talking
    <3>4. slot[2] \in Pws /\ slot = <<slot[1], slot[2]>>
      BY <3>3 DEF Creds
    <3>5. PICK v \in BOOLEAN :
             /\ \A p \in Lines : (<<cuser, p>> \in Valid) = v
             /\ fromChild' = Append(fromChild, IF v THEN "1" ELSE "0")
      OBVIOUS
    <3>6. v => Accepted(slot)
      BY <3>2, <3>4, <3>5, FirstLineIsLine DEF Accepted, AsRead
    <3>7. \E m \in {"0", "1"} : fromChild' = <<m>> /\ (m = "1" => Accepted(slot))
      BY <3>2, <3>5, <3>6
    <3> QED
      BY <3>1, <3>2, <3>7 DEF Answered, slotVars
  <2>2. Dialogue'
    BY <2>1 DEF SafeInv, Dialogue, Asked, Prompted, Stalled, Answered
  <2> QED
    BY <2>2, ChildFrame
<1>4. CASE ChildPassword
  <2> USE <1>4 DEF ChildPassword, Verdict, Reply
  <2>1. mpc = "up" /\ tpc = "readResult" => Answered'
    <3>1. SUFFICES ASSUME mpc = "up", tpc = "readResult" PROVE Answered'
      OBVIOUS
    <3>2. toChild = <<PwMsg>> /\ fromChild = <<>> /\ cuser = FirstLine(slot[1])
      BY <3>1 DEF SafeInv, Dialogue, Asked, Prompted, Stalled, Answered
    <3>3. slot \in Creds
      BY <3>1 DEF SafeInv, TypeInv, SlotSet, TypeOK, Talking
    <3>4. Head(toChild).val = slot[2] /\ slot = <<slot[1], slot[2]>>
      BY <3>2, <3>3 DEF Creds, PwMsg
    <3>5. \E m \in {"0", "1"} : fromChild' = <<m>> /\ (m = "1" => Accepted(slot))
      BY <3>2, <3>4 DEF Accepted, AsRead
    <3> QED
      BY <3>1, <3>2, <3>5 DEF Answered, slotVars
  <2>2. Dialogue'
    BY <2>1 DEF SafeInv, Dialogue, Asked, Prompted, Stalled, Answered
  <2> QED
    BY <2>2, ChildFrame
<1>5. CASE ChildEof
  <2>1. Dialogue'
    BY <1>5 DEF ChildEof, Exit, Dialogue
  <2> QED
    BY <1>5, <2>1, ChildFrame DEF ChildEof
<1>6. CASE ChildDies
  <2>1. Dialogue'
    BY <1>6 DEF ChildDies, Exit, SafeInv, Dialogue, Asked, Prompted, Stalled, Answered, slotVars
  <2> QED
    BY <1>6, <2>1, ChildFrame DEF ChildDies
<1>7. CASE ChildStalls
  <2>1. /\ cpc \in {"auth", "pw"} /\ cpc' = "stalled"
        /\ UNCHANGED <<tpc, toChild, fromChild, slot, mpc>>
    BY <1>7 DEF ChildStalls, slotVars
  <2>2. Dialogue'
    BY <2>1 DEF SafeInv, Dialogue, Asked, Prompted, Stalled, Answered, PwMsg
  <2> QED
    BY <1>7, <2>2, ChildFrame DEF ChildStalls
<1> QED
  BY <1>1, <1>2, <1>3, <1>4, <1>5, <1>6, <1>7 DEF Child

LEMMA SafeMain ==
    ASSUME SafeInv, TypeInv', Shutdown \/ Stop \/ Join \/ Terminated \/ UNCHANGED vars
    PROVE  SafeInv'
<1> USE DEF slotVars, workerVars, threadVars, childVars
<1>1. CASE Shutdown \/ Stop \/ Join
  <2>1. mpc' # "up" /\ UNCHANGED <<tpc, cpc, toChild, fromChild, authlock, slot, workerVars>>
    BY <1>1 DEF Shutdown, Stop, Join
  <2>2. \A w \in Workers : wpc[w] = "idle"
    BY <1>1 DEF Shutdown, Stop, Join, SafeInv, OneHolder, Inside
  <2>3. OneHolder' /\ OneToken' /\ SlotIsMine' /\ OkMeans' /\ NoFalseAccept'
    BY <2>1, <2>2 DEF SafeInv, OneHolder, Inside, OneToken, SlotIsMine, OkMeans,
       NoFalseAccept, Waiting
  <2>4. Dialogue'
    BY <2>1 DEF SafeInv, Dialogue
  <2> QED
    BY <2>3, <2>4 DEF SafeInv
<1>2. CASE Terminated \/ UNCHANGED vars
  <2>1. OneToken' /\ OkMeans'
    BY <1>2, TokenStable DEF Terminated, vars
  <2>2. Dialogue'
    BY <1>2, DialogueStable DEF Terminated, vars, SafeInv
  <2> QED
    BY <1>2, <2>1, <2>2, ThreadFrame DEF Terminated, vars
<1> QED
  BY <1>1, <1>2

LEMMA SafeStep == ~MayInterrupt /\ SafeInv /\ [Next]_vars => SafeInv'
<1> SUFFICES ASSUME ~MayInterrupt, SafeInv, [Next]_vars PROVE SafeInv'
  OBVIOUS
<1>1. TypeInv'
  BY TypeStep DEF SafeInv
<1> QED
  BY <1>1, SafeWorker, SafePamThread, SafeChild, SafeMain DEF Next, Around

\* Where no login is cancelled while it waits for PAM, check() never returns
\* success for credentials PAM does not accept: for any number of workers, at
\* any time of the helper's death, on every system's pthread_kill().
THEOREM NoFalseAcceptCorrect == ~MayInterrupt => (Spec => []NoFalseAccept)
<1> SUFFICES ASSUME ~MayInterrupt PROVE Spec => []NoFalseAccept
  OBVIOUS
<1>1. SafeInv /\ [Next]_vars => SafeInv'
  BY SafeStep
<1>2. SafeInv => NoFalseAccept
  BY DEF SafeInv
<1> QED
  BY <1>1, <1>2, SafeInit, PTL DEF Spec

-----------------------------------------------------------------------------
(* The credentials in the slot.  During shutdown no worker waits, so the    *)
(* token argument must show that the controlling thread reads none then.   *)

\* After shutdown began the thread talks no more: what wakes it up is the
\* request posted with stoprq, which it sees before it looks at the slot.
Quiet == mpc # "up" => /\ tpc \notin Talking
                       /\ ~stoprq => request = 0 /\ tpc # "lock"

LEMMA QuietStep == SafeInv /\ Quiet /\ [Next]_vars => Quiet'
<1> SUFFICES ASSUME SafeInv, Quiet, [Next]_vars PROVE Quiet'
  OBVIOUS
<1> USE DEF Quiet, Talking
<1>1. ASSUME NEW w \in Workers,
             (\E c \in Creds : Login(w, c)) \/ Around(w) \/ Worker(w)
      PROVE  Quiet'
  <2>1. mpc' = mpc /\ tpc' = tpc /\ stoprq' = stoprq
    BY <1>1 DEF Login, Around, Queue, Interrupt,
   AwaitInterrupted, InterruptLost, Worker, ProbeAlive, ProbeDead, Submit,
       SubmitUnlock, AwaitResponse, Fetch, FetchUnlock, slotVars, threadVars
  <2>2. mpc # "up" => request' = request
    BY <1>1 DEF SafeInv, OneHolder, Inside, Login, Around, Queue, Interrupt,
   AwaitInterrupted, InterruptLost, Worker, ProbeAlive,
       ProbeDead, Submit, SubmitUnlock, AwaitResponse, Fetch, FetchUnlock
  <2> QED
    BY <2>1, <2>2
<1>2. CASE PamThread
  BY <1>2 DEF PamThread, Start, StartFails, Top, Wait, Lock, SendUser, ReadReply,
     SendPw, ReadResult, Post, Unlock, Broken, Reap, Handlechild, Write, Read,
     slotVars, SafeInv, TypeInv, TypeOK
<1>3. CASE Child \/ ChildDies \/ ChildStalls
  BY <1>3 DEF Child, ChildDies, ChildStalls, ChildRead, ChildPrompt, ChildNoPrompt, Verdict,
     Reply, ChildPassword, ChildEof, Exit, slotVars, threadVars
<1>4. CASE Shutdown
  <2>1. \A w \in Workers : ~Waiting(w)
    BY <1>4 DEF Shutdown, Waiting
  <2>2. tpc \notin Busy /\ request = 0
    BY <1>4, <2>1 DEF Shutdown, SafeInv, OneToken, TypeInv, TypeOK
  <2> QED
    BY <1>4, <2>2 DEF Shutdown, slotVars, threadVars, Busy
<1>5. CASE Stop \/ Join \/ Terminated \/ UNCHANGED vars
  BY <1>5 DEF Stop, Join, Terminated, vars, slotVars, threadVars
<1> QED
  BY <1>1, <1>2, <1>3, <1>4, <1>5 DEF Next, Around

\* Where no login is cancelled while it waits for PAM, the controlling thread
\* reads a name and a password only while the worker they belong to is inside
\* check() and keeps them: for any number of workers, shutdown included.
THEOREM SlotLentCorrect == ~MayInterrupt => (Spec => []SlotLent)
<1> SUFFICES ASSUME ~MayInterrupt PROVE Spec => []SlotLent
  OBVIOUS
<1>1. Init => Quiet
  BY DEF Init, Quiet
<1>2. SafeInv /\ Quiet /\ [Next]_vars => (SafeInv /\ Quiet)'
  BY SafeStep, QuietStep
<1>3. SafeInv /\ Quiet => SlotLent
  BY DEF SafeInv, Quiet, OneToken, SlotIsMine, Waiting, Busy, Talking, SlotLent
<1> QED
  BY <1>1, <1>2, <1>3, SafeInit, PTL DEF Spec

-----------------------------------------------------------------------------
(* Lockstep and the right answer.  While the helper lives, the thread finds *)
(* both pipes empty and the helper waiting whenever no dialogue goes on.    *)

InDialogue == {"readReply", "sendPw", "readResult"}
Alive      == {"idle", "auth", "pw"}

OneMessage == Len(toChild) + Len(fromChild) <= 1

Pipes ==
    /\ OneMessage
    /\ sigchld \/ childExited => cpc = "dead"
    /\ cpc = "none" => tpc \in {"start", "dead"}
    /\ tpc = "dead" => cpc \in {"none", "dead"}
    /\ cpc # "dead" /\ tpc \notin InDialogue =>
          cpc \in {"none", "idle"} /\ toChild = <<>> /\ fromChild = <<>>

\* What all steps below may rely on.
LockInv == SafeInv /\ Quiet /\ Pipes

\* In a dialogue with a living helper, at most one message is on its way.
Short ==
    tpc \in InDialogue /\ cpc # "dead" =>
        mpc = "up" /\ cpc \in Alive \cup {"stalled"} /\ OneMessage

LEMMA DialogueShort == SafeInv /\ Quiet => Short
<1> SUFFICES ASSUME SafeInv, Quiet, tpc \in InDialogue, cpc # "dead"
             PROVE  mpc = "up" /\ cpc \in Alive \cup {"stalled"} /\ OneMessage
  BY DEF Short
<1>1. mpc = "up" /\ (Asked \/ Prompted \/ Stalled \/ Answered)
  BY DEF SafeInv, Quiet, Dialogue, InDialogue, Talking
<1>2. Len(<<>>) = 0 /\ \A m : Len(<<m>>) = 1
  OBVIOUS
<1>3. CASE Asked
  <2>1. Len(toChild) <= 1 /\ Len(toChild) \in Nat /\ Len(fromChild) = 0 /\ cpc \in Alive
    BY <1>2, <1>3 DEF Asked, Alive
  <2> QED
    BY <1>1, <2>1 DEF OneMessage
<1>4. CASE Prompted \/ Answered
  <2>1. toChild = <<>> /\ cpc \in Alive
    BY <1>4 DEF Prompted, Answered, Alive
  <2>2. PICK m : fromChild = <<>> \/ fromChild = <<m>>
    BY <1>4 DEF Prompted, Answered
  <2>3. Len(toChild) = 0
    BY <1>2, <2>1
  <2>4. CASE fromChild = <<>>
    <3>1. Len(fromChild) = 0
      BY <1>2, <2>4
    <3> QED
      BY <1>1, <2>1, <2>3, <3>1 DEF OneMessage
  <2>5. CASE fromChild = <<m>>
    <3>1. Len(fromChild) = 1
      BY <1>2, <2>5
    <3> QED
      BY <1>1, <2>1, <2>3, <3>1 DEF OneMessage
  <2> QED
    BY <2>2, <2>4, <2>5
<1>5. CASE Stalled
  <2>1. \/ Len(toChild) = 0 /\ Len(fromChild) = 0
        \/ Len(toChild) = 0 /\ Len(fromChild) = 1
        \/ Len(toChild) = 1 /\ Len(fromChild) = 0
    BY <1>2, <1>5 DEF Stalled
  <2>2. OneMessage
    <3>1. CASE Len(toChild) = 0 /\ Len(fromChild) = 0
      BY <3>1 DEF OneMessage
    <3>2. CASE Len(toChild) = 0 /\ Len(fromChild) = 1
      BY <3>2 DEF OneMessage
    <3>3. CASE Len(toChild) = 1 /\ Len(fromChild) = 0
      BY <3>3 DEF OneMessage
    <3> QED
      BY <2>1, <3>1, <3>2, <3>3
  <2>3. cpc \in Alive \cup {"stalled"}
    BY <1>5 DEF Stalled
  <2> QED
    BY <1>1, <2>2, <2>3
<1> QED
  BY <1>1, <1>3, <1>4, <1>5

LEMMA PipesStep ==
    ASSUME LockInv, SafeInv', Quiet', [Next]_vars
    PROVE  Pipes'
<1> USE DEF LockInv, InDialogue, Alive
<1>1. CASE UNCHANGED <<tpc, cpc, toChild, fromChild, sigchld, childExited>>
  BY <1>1 DEF Pipes, OneMessage
<1>2. ASSUME NEW w \in Workers,
             (\E c \in Creds : Login(w, c)) \/ Around(w) \/ Worker(w)
      PROVE  Pipes'
  BY <1>1, <1>2 DEF Login, Around, Queue, Interrupt,
   AwaitInterrupted, InterruptLost, Worker, ProbeAlive, ProbeDead, Submit,
     SubmitUnlock, AwaitResponse, Fetch, FetchUnlock, threadVars, childVars
<1>3. CASE Shutdown \/ Stop \/ Join \/ Terminated \/ UNCHANGED vars
  BY <1>1, <1>3 DEF Shutdown, Stop, Join, Terminated, vars, threadVars, childVars
<1>4. toChild \in Seq(ToChildMsg) /\ fromChild \in Seq(FromChildMsg)
  BY DEF SafeInv, TypeInv, TypeOK
<1>5. cpc' # "dead" /\ tpc' \in InDialogue => OneMessage'
  <2>1. Short'
    BY DialogueShort, PTL
  <2> QED
    BY <2>1 DEF Short
<1>6. CASE PamThread
  <2>1. CASE Start \/ StartFails
    <3>1. cpc = "none" /\ toChild = <<>> /\ fromChild = <<>> /\ ~sigchld /\ ~childExited
      BY <2>1 DEF Start, StartFails, Pipes, SafeInv, Dialogue
    <3>2. /\ UNCHANGED <<toChild, fromChild, sigchld, childExited>>
          /\ \/ tpc' = "top" /\ cpc' = "idle"
             \/ tpc' = "dead" /\ cpc' = cpc
      BY <2>1 DEF Start, StartFails, childVars
    <3>3. OneMessage'
      <4>1. toChild' = <<>> /\ fromChild' = <<>>
        BY <3>1, <3>2
      <4>2. Len(toChild') = 0 /\ Len(fromChild') = 0
        BY <4>1
      <4> QED
        BY <4>2 DEF OneMessage
    <3> QED
      BY <3>1, <3>2, <3>3 DEF Pipes
  <2>2. CASE Top \/ Wait \/ Lock \/ Post \/ Unlock \/ Broken \/ Reap
    <3>1. UNCHANGED <<cpc, toChild, fromChild, sigchld, childExited>>
      BY <2>2 DEF Top, Wait, Lock, Post, Unlock, Broken, Reap, childVars
    <3>2. tpc \notin InDialogue /\ tpc # "start" /\ tpc # "dead"
      BY <2>2 DEF Top, Wait, Lock, Post, Unlock, Broken, Reap
    <3>3. tpc' = "dead" => cpc = "dead"
      BY <2>2 DEF Top, Wait, Lock, Post, Unlock, Broken, Reap
    <3> QED
      BY <3>1, <3>2, <3>3 DEF Pipes, OneMessage
  <2>3. CASE SendUser \/ SendPw
    <3>1. UNCHANGED <<cpc, fromChild, sigchld, childExited>> /\ tpc \notin {"start", "dead"}
      BY <2>3 DEF SendUser, SendPw, Write
    <3>2. IF cpc = "dead" THEN tpc' = "broken" /\ toChild' = toChild
                          ELSE tpc' \in InDialogue
      BY <2>3 DEF SendUser, SendPw, Write
    <3> QED
      BY <1>5, <3>1, <3>2 DEF Pipes, OneMessage
  <2>4. CASE ReadReply \/ ReadResult
    <3>1. /\ fromChild' = <<>> /\ UNCHANGED <<cpc, toChild, sigchld, childExited>>
          /\ fromChild # <<>> \/ (cpc = "dead" /\ tpc \in {"readReply", "readResult"})
          /\ tpc' \in {"post", "sendPw"} /\ tpc \in {"readReply", "readResult"}
          /\ tpc' = "sendPw" \/ fromChild # <<"P">> \/ tpc = "readResult"
      BY <2>4 DEF ReadReply, ReadResult, Read
    <3>2. OneMessage'
      BY <1>4, <3>1 DEF Pipes, OneMessage
    <3>3. CASE cpc = "dead" \/ tpc' = "sendPw"
      BY <3>1, <3>2, <3>3 DEF Pipes
    <3>4. CASE cpc # "dead" /\ tpc' = "post"
      <4>1. mpc = "up" /\ (Asked \/ Prompted \/ Stalled \/ Answered)
        BY <3>1, <3>4 DEF SafeInv, Quiet, Dialogue, Talking
      <4>2. Answered
        BY <2>4, <3>1, <3>4, <4>1 DEF ReadReply, ReadResult, Read, Asked, Prompted, Stalled
      <4> QED
        BY <3>1, <3>2, <3>4, <4>2 DEF Answered, Pipes
    <3> QED
      BY <3>1, <3>3, <3>4
  <2>5. CASE Handlechild
    <3>1. cpc = "dead" /\ UNCHANGED <<cpc, toChild, fromChild>> /\ sigchld' = FALSE
      BY <2>5 DEF Handlechild, Pipes, childVars
    <3> QED
      BY <3>1 DEF Pipes, OneMessage
  <2> QED
    BY <1>6, <2>1, <2>2, <2>3, <2>4, <2>5 DEF PamThread
<1>7. CASE ChildRead \/ ChildEof \/ ChildDies
  <2>1. /\ UNCHANGED <<tpc, childExited, fromChild>>
        /\ toChild' = toChild \/ (toChild # <<>> /\ toChild' = <<>>)
        /\ cpc' = "dead" \/ (cpc' = "auth" /\ toChild # <<>> /\ sigchld' = sigchld)
        /\ cpc # "dead"
    BY <1>7 DEF ChildRead, ChildEof, ChildDies, Exit
  <2>2. OneMessage'
    BY <1>4, <2>1 DEF Pipes, OneMessage
  <2>3. cpc' # "dead" => tpc \in InDialogue
    BY <2>1 DEF Pipes
  <2>4. sigchld' \/ childExited' => cpc' = "dead"
    BY <2>1 DEF Pipes
  <2> QED
    BY <2>1, <2>2, <2>3, <2>4 DEF Pipes
<1>8. CASE ChildPrompt \/ ChildNoPrompt \/ ChildPassword
  <2>1. /\ UNCHANGED <<tpc, childExited, sigchld>> /\ cpc' \in Alive /\ cpc \in {"auth", "pw"}
    BY <1>8 DEF ChildPrompt, ChildNoPrompt, ChildPassword, Verdict, Reply, threadVars
  <2>2. tpc \in InDialogue
    BY <2>1 DEF Pipes
  <2> QED
    BY <1>5, <2>1, <2>2 DEF Pipes
<1>9. CASE ChildStalls
  <2>1. UNCHANGED <<tpc, toChild, fromChild, sigchld, childExited>> /\ cpc \in {"auth", "pw"}
        /\ cpc' = "stalled"
    BY <1>9 DEF ChildStalls, threadVars
  <2> QED
    BY <2>1 DEF Pipes, OneMessage
<1> QED
  BY <1>2, <1>3, <1>6, <1>7, <1>8, <1>9 DEF Next, Child, Around

LEMMA LockStep == ~MayInterrupt /\ LockInv /\ [Next]_vars => LockInv'
BY SafeStep, QuietStep, PipesStep DEF LockInv

LEMMA LockInit == Init => LockInv
<1> SUFFICES ASSUME Init PROVE Quiet /\ Pipes
  BY SafeInit DEF LockInv
<1> QED
  BY DEF Init, Quiet, Pipes, OneMessage

\* At most one message is in the two pipes, and every request starts on empty
\* ones: for any number of workers, through the helper's death and shutdown.
THEOREM LockstepCorrect == ~MayInterrupt => (Spec => []Lockstep)
<1> SUFFICES ASSUME ~MayInterrupt PROVE Spec => []Lockstep
  OBVIOUS
<1>1. LockInv => Lockstep
  BY DEF LockInv, Pipes, OneMessage, InDialogue, Lockstep
<1>2. LockInv /\ [Next]_vars => LockInv'
  BY LockStep
<1> QED
  BY <1>1, <1>2, LockInit, PTL DEF Spec

\* What ok stands for until the helper dies: PAM's verdict, neither more nor
\* less, from the helper's line through the controlling thread to the worker.
Going == cpc \in Alive \/ tpc = "start"

Ready(w) == (Waiting(w) /\ response > 0) \/ wpc[w] = "fetch"

Verdicts ==
    Going =>
        /\ tpc \in {"readReply", "readResult"} /\ fromChild \in {<<"0">>, <<"1">>}
             => (fromChild = <<"1">> <=> Accepted(slot))
        /\ tpc = "post" => (ok <=> Accepted(slot))
        /\ \A w \in Workers :
              /\ Ready(w) => (ok <=> Accepted(cred[w]))
              /\ wpc[w] = "fetched" => (result[w] <=> Accepted(cred[w]))
              /\ answer[w] # NoAnswer => (answer[w][2] <=> Accepted(answer[w][1]))

LEMMA GoingBefore ==
    ASSUME LockInv, [Next]_vars, Going'
    PROVE  Going
BY DEF LockInv, Pipes, Going, Alive, Next, Login, Around, Queue, Interrupt,
   AwaitInterrupted, InterruptLost, Worker, ProbeAlive, ProbeDead,
   Submit, SubmitUnlock, AwaitResponse, Fetch, FetchUnlock, PamThread, Start, StartFails, Top,
   Wait, Lock, SendUser, SendPw, Write, ReadReply, ReadResult, Read, Post, Unlock, Broken,
   Reap, Handlechild, Child, ChildDies, ChildStalls, ChildRead, ChildPrompt, ChildNoPrompt, Verdict,
   Reply, ChildPassword, ChildEof, Exit, Shutdown, Stop, Join, Terminated, vars, childVars,
   threadVars

\* While the controlling thread is busy, no answer is ready.
LEMMA BusyNotReady ==
    ASSUME SafeInv, tpc \in Busy, NEW w \in Workers
    PROVE  ~Ready(w)
<1>1. CASE mpc = "up"
  <2>1. PICK v \in Workers : Waiting(v)
    BY <1>1 DEF SafeInv, OneToken
  <2>2. response = 0
    BY <1>1 DEF SafeInv, TypeInv, TypeOK, OneToken
  <2> QED
    BY <2>1, <2>2, OthersIdle DEF Inside, SafeInv, Waiting, Ready
<1>2. CASE mpc # "up"
  BY <1>2 DEF SafeInv, OneHolder, Inside, Ready, Waiting
<1> QED
  BY <1>1, <1>2

LEMMA VerdictsThread ==
    ASSUME LockInv, Verdicts, Going, PamThread
    PROVE  Verdicts'
<1> USE DEF LockInv
<1>1. UNCHANGED <<slot, wpc, cred, result, answer>> /\ mpc' = mpc
  BY DEF PamThread, Start, StartFails, Top, Wait, Lock, SendUser, SendPw, Write, ReadReply,
     ReadResult, Read, Post, Unlock, Broken, Reap, Handlechild, slotVars, workerVars
\* A step that neither sets ok nor posts: what is to be shown of it.
<1>2. ASSUME ok' = ok, response' = response, tpc' # "post",
             tpc' \in {"readReply", "readResult"} =>
                 fromChild' \notin {<<"0">>, <<"1">>} \/ (tpc' = tpc /\ fromChild' = fromChild)
      PROVE  Verdicts'
  BY <1>1, <1>2 DEF Verdicts, Ready, Waiting
<1>3. CASE Start \/ StartFails \/ Top \/ Wait \/ Unlock \/ Broken \/ Reap
  <2>1. /\ ok' = ok /\ response' = response /\ tpc' # "post"
        /\ tpc' \notin {"readReply", "readResult"}
    BY <1>3 DEF Start, StartFails, Top, Wait, Unlock, Broken, Reap, slotVars
  <2> QED
    BY <1>2, <2>1
<1>4. CASE Lock
  <2>1. /\ tpc' \in {"broken", "sendUser"} /\ response' = response /\ tpc \in Busy
    BY <1>4 DEF Lock, Busy
  <2> QED
    BY <1>1, <2>1, BusyNotReady DEF Verdicts, Ready, Waiting
<1>5. CASE SendUser \/ SendPw
  <2>1. /\ ok' = ok /\ response' = response /\ tpc' # "post" /\ fromChild' = fromChild
        /\ tpc' = "broken" \/ cpc # "dead"
    BY <1>5 DEF SendUser, SendPw, Write, slotVars
  <2>2. cpc # "dead" => fromChild = <<>>
    <3>1. CASE SendUser
      BY <3>1 DEF SendUser, Pipes, InDialogue
    <3>2. CASE SendPw
      BY <3>2 DEF SendPw, SafeInv, Quiet, Talking, Dialogue, Asked, Prompted, Stalled, Answered
    <3> QED
      BY <1>5, <3>1, <3>2
  <2> QED
    BY <1>2, <2>1, <2>2
<1>6. CASE ReadReply \/ ReadResult
  <2>1. /\ tpc \in Talking /\ tpc \in Busy /\ cpc # "dead"
        /\ tpc' \in {"post", "sendPw"} /\ response' = response /\ fromChild # <<>>
        /\ ok' = (ok \/ fromChild = <<"1">>)
        /\ tpc' = "post" => fromChild # <<"P">> \/ tpc = "readResult"
    BY <1>6 DEF ReadReply, ReadResult, Read, Talking, Busy, Going, Alive
  <2>2. mpc = "up" /\ ~ok
    BY <2>1 DEF Quiet, SafeInv, OkMeans
  <2>3. tpc' = "post" => (ok' <=> Accepted(slot))
    <3>1. SUFFICES ASSUME tpc' = "post" PROVE ok' <=> Accepted(slot)
      OBVIOUS
    <3>2. Asked \/ Prompted \/ Answered
      BY <1>6, <2>1, <2>2 DEF SafeInv, Dialogue, ReadReply, ReadResult,
         Stalled, Going, Alive
    <3>3. Answered
      BY <2>1, <3>1, <3>2 DEF Asked, Prompted, Stalled
    <3>4. fromChild \in {<<"0">>, <<"1">>} /\ tpc \in {"readReply", "readResult"}
      BY <3>3 DEF Answered
    <3>5. fromChild = <<"1">> <=> Accepted(slot)
      BY <3>4 DEF Verdicts
    <3> QED
      BY <2>1, <2>2, <3>5
  <2> QED
    BY <1>1, <2>1, <2>3, BusyNotReady DEF Verdicts, Ready, Waiting
<1>7. CASE Post
  <2>1. tpc = "post" /\ tpc' = "unlock" /\ ok' = ok /\ tpc \in Busy
    BY <1>7 DEF Post, slotVars, Busy
  <2>2. ASSUME NEW w \in Workers, Ready(w)' PROVE ok <=> Accepted(cred[w])
    <3>1. Waiting(w)
      BY <1>1, <2>1, <2>2, BusyNotReady DEF Ready, Waiting
    <3>2. slot = cred[w]
      BY <3>1 DEF SafeInv, SlotIsMine
    <3> QED
      BY <2>1, <3>2 DEF Verdicts
  <2> QED
    BY <1>1, <2>1, <2>2 DEF Verdicts
<1>8. CASE Handlechild
  <2>1. cpc = "dead" /\ cpc' = cpc /\ (tpc' = tpc \/ tpc' = "broken")
    BY <1>8 DEF Handlechild, Pipes, childVars
  <2>2. tpc # "start"
    BY <2>1 DEF SafeInv, Dialogue
  <2> QED
    BY <2>1, <2>2 DEF Verdicts, Going, Alive
<1> QED
  BY <1>3, <1>4, <1>5, <1>6, <1>7, <1>8 DEF PamThread

LEMMA VerdictsWorker ==
    ASSUME LockInv, Verdicts, Going, ~MayInterrupt, NEW w \in Workers,
           (\E c \in Creds : Login(w, c)) \/ Around(w) \/ Worker(w)
    PROVE  Verdicts'
<1> USE DEF LockInv
<1>1. UNCHANGED <<ok, stoprq, tpc, cpc, fromChild>>
  BY DEF Login, Around, Queue, Interrupt,
   AwaitInterrupted, InterruptLost, Worker, ProbeAlive, ProbeDead, Submit, SubmitUnlock,
     AwaitResponse, Fetch, FetchUnlock, slotVars, threadVars, childVars
<1>2. wpc \in [Workers -> WorkerPcs] /\ cred \in [Workers -> Creds \cup {NoAnswer}]
      /\ result \in [Workers -> BOOLEAN] /\ response \in Nat
      /\ answer \in [Workers -> (Creds \X BOOLEAN) \cup {NoAnswer}]
  BY DEF SafeInv, TypeInv, TypeOK
<1>4. CASE \E c \in Creds : Login(w, c)
  <2>1. PICK c \in Creds : Login(w, c)
    BY <1>4
  <2>2. /\ wpc' = [wpc EXCEPT ![w] = "probe"] /\ cred' = [cred EXCEPT ![w] = c]
        /\ answer' = [answer EXCEPT ![w] = NoAnswer]
        /\ UNCHANGED <<slot, result, response>>
    BY <2>1 DEF Login, slotVars
  <2> QED
    BY <1>1, <1>2, <2>2 DEF Verdicts, Ready, Waiting
<1>5. CASE ProbeAlive(w) \/ SubmitUnlock(w)
  <2>1. /\ UNCHANGED <<slot, result, response, cred, answer>>
        /\ \/ wpc[w] = "probe" /\ wpc' = [wpc EXCEPT ![w] = "submit"]
           \/ wpc[w] = "submitted" /\ wpc' = [wpc EXCEPT ![w] = "await"]
    BY <1>5 DEF ProbeAlive, SubmitUnlock, slotVars
  <2> QED
    BY <1>1, <1>2, <2>1 DEF Verdicts, Ready, Waiting
<1>6. CASE ProbeDead(w)
  <2>1. tpc = "dead"
    BY <1>6 DEF ProbeDead
  <2> QED
    BY <2>1 DEF Going, Alive, Pipes
<1>7. CASE Submit(w)
  <2>1. /\ wpc[w] = "submit" /\ wpc' = [wpc EXCEPT ![w] = "submitted"]
        /\ UNCHANGED <<result, response, cred, answer>>
    BY <1>7 DEF Submit
  <2>2. \A v \in Workers : ~Waiting(v)
    BY <2>1, OthersIdle DEF Inside, SafeInv, Waiting
  <2>3. mpc = "up"
    BY <2>1 DEF SafeInv, OneHolder, Inside
  <2>4. tpc \notin Busy /\ response = 0
    BY <1>2, <2>2, <2>3 DEF SafeInv, OneToken, TypeInv, TypeOK
  <2> QED
    BY <1>1, <1>2, <2>1, <2>4 DEF Verdicts, Ready, Waiting, Busy, Talking
<1>8. CASE AwaitResponse(w)
  <2>1. /\ wpc[w] = "await" /\ response > 0 /\ response' = response - 1
        /\ wpc' = [wpc EXCEPT ![w] = "fetch"] /\ UNCHANGED <<slot, result, cred, answer>>
    BY <1>8 DEF AwaitResponse, slotVars
  <2>2. \A v \in Workers \ {w} : ~Ready(v)'
    BY <1>2, <2>1, OthersIdle DEF Inside, SafeInv, Ready, Waiting
  <2>3. Ready(w)
    BY <2>1 DEF Ready, Waiting
  <2>4. \A v \in Workers : wpc'[v] = "fetched" => wpc[v] = "fetched"
    BY <1>2, <2>1
  <2> QED
    BY <1>1, <2>1, <2>2, <2>3, <2>4 DEF Verdicts
<1>9. CASE Fetch(w)
  <2>1. /\ wpc[w] = "fetch" /\ result' = [result EXCEPT ![w] = ok]
        /\ wpc' = [wpc EXCEPT ![w] = "fetched"] /\ UNCHANGED <<slot, response, cred, answer>>
    BY <1>9 DEF Fetch, slotVars
  <2>2. Ready(w) /\ ok \in BOOLEAN
    BY <2>1 DEF Ready, SafeInv, TypeInv, TypeOK
  <2>3. \A v \in Workers : Ready(v)' => Ready(v)
    BY <1>2, <2>1 DEF Ready, Waiting
  <2>4. \A v \in Workers : wpc'[v] = "fetched" => (result'[v] <=> Accepted(cred[v]))
    BY <1>2, <2>1, <2>2 DEF Verdicts
  <2> QED
    BY <1>1, <2>1, <2>3, <2>4 DEF Verdicts
<1>10. CASE FetchUnlock(w)
  <2>1. /\ wpc[w] = "fetched" /\ wpc' = [wpc EXCEPT ![w] = "idle"]
        /\ answer' = [answer EXCEPT ![w] = <<cred[w], result[w]>>]
        /\ UNCHANGED <<slot, response, cred, result>>
    BY <1>10 DEF FetchUnlock, Return, slotVars
  <2>2. \A v \in Workers : /\ Ready(v)' => Ready(v)
                           /\ wpc'[v] = "fetched" => wpc[v] = "fetched"
    BY <1>2, <2>1 DEF Ready, Waiting
  <2>3. \A v \in Workers : answer'[v] # NoAnswer => (answer'[v][2] <=> Accepted(answer'[v][1]))
    <3>1. answer'[w][2] <=> Accepted(answer'[w][1])
      BY <1>2, <2>1 DEF Verdicts
    <3>2. \A v \in Workers \ {w} : answer'[v] = answer[v]
      BY <1>2, <2>1
    <3> QED
      BY <3>1, <3>2 DEF Verdicts
  <2> QED
    BY <1>1, <2>1, <2>2, <2>3 DEF Verdicts
<1>11. CASE Around(w)
  <2>1. /\ wpc[w] = "idle" /\ wpc' = [wpc EXCEPT ![w] = "queued"]
        /\ UNCHANGED <<slot, response, cred, result, answer>>
    BY <1>11 DEF Around, Queue, Interrupt, AwaitInterrupted, InterruptLost, slotVars
  <2>2. \A v \in Workers : /\ Ready(v)' => Ready(v)
                           /\ wpc'[v] = "fetched" => wpc[v] = "fetched"
    BY <1>2, <2>1 DEF Ready, Waiting
  <2> QED
    BY <1>1, <2>1, <2>2 DEF Verdicts
<1> QED
  BY <1>4, <1>5, <1>6, <1>7, <1>8, <1>9, <1>10, <1>11 DEF Worker

LEMMA VerdictsChild ==
    ASSUME LockInv, Verdicts, Going, Child \/ ChildDies \/ ChildStalls, Going'
    PROVE  Verdicts'
<1> USE DEF LockInv
<1>1. UNCHANGED <<slot, ok, response, wpc, cred, result, answer, tpc, mpc>>
  BY DEF Child, ChildDies, ChildStalls, ChildRead, ChildPrompt, ChildNoPrompt, ChildPassword, Verdict, Reply,
     ChildEof, slotVars, workerVars, threadVars
\* All that is to be shown is about the line the helper writes.
<1>2. ASSUME tpc \in {"readReply", "readResult"} /\ fromChild' \in {<<"0">>, <<"1">>} =>
                (fromChild' = <<"1">> <=> Accepted(slot))
      PROVE  Verdicts'
  BY <1>1, <1>2 DEF Verdicts, Ready, Waiting
<1>3. CASE ChildRead \/ ChildEof \/ ChildDies \/ ChildStalls
  <2>1. fromChild' = fromChild
    BY <1>3 DEF ChildRead, ChildEof, ChildDies, ChildStalls
  <2> QED
    BY <1>2, <2>1 DEF Verdicts
<1>4. CASE ChildPrompt \/ ChildNoPrompt \/ ChildPassword
  <2>1. SUFFICES ASSUME tpc \in {"readReply", "readResult"}, fromChild' \in {<<"0">>, <<"1">>}
                 PROVE  fromChild' = <<"1">> <=> Accepted(slot)
    BY <1>2
  <2>2. cpc \in {"auth", "pw"}
    BY <1>4 DEF ChildPrompt, ChildNoPrompt, ChildPassword
  <2>3. mpc = "up" /\ (Asked \/ Prompted \/ Stalled \/ Answered)
    BY <2>1, <2>2 DEF SafeInv, Quiet, Dialogue, Talking
  <2>4. slot \in Creds
    BY <2>1 DEF SafeInv, TypeInv, SlotSet, TypeOK, Talking
  <2>5. slot[2] \in Pws /\ slot = <<slot[1], slot[2]>>
    BY <2>4 DEF Creds
  <2>6. CASE ChildPrompt
    <3>1. fromChild = <<>> /\ fromChild' = Append(fromChild, "P")
      BY <2>1, <2>3, <2>6 DEF ChildPrompt, Reply, Asked, Prompted, Stalled, Answered
    <3> QED
      BY <2>1, <3>1
  <2>7. CASE ChildNoPrompt
    <3>1. fromChild = <<>> /\ cuser = FirstLine(slot[1])
      BY <2>1, <2>3, <2>7 DEF ChildNoPrompt, Asked, Prompted, Stalled, Answered
    <3>2. PICK v \in BOOLEAN :
             /\ \A p \in Lines : (<<cuser, p>> \in Valid) = v
             /\ fromChild' = Append(fromChild, IF v THEN "1" ELSE "0")
      BY <2>7 DEF ChildNoPrompt, Verdict, Reply
    <3>3. v <=> Accepted(slot)
      BY <2>5, <3>1, <3>2, FirstLineIsLine DEF Accepted, AsRead
    <3>4. fromChild' = <<"1">> <=> v
      BY <3>1, <3>2
    <3> QED
      BY <3>3, <3>4
  <2>8. CASE ChildPassword
    <3>1. toChild = <<PwMsg>> /\ fromChild = <<>> /\ cuser = FirstLine(slot[1])
      BY <2>3, <2>8 DEF ChildPassword, Asked, Prompted, Stalled, Answered, SafeInv, Dialogue
    <3>2. Head(toChild).kind = "pw" /\ Head(toChild).val = slot[2]
      BY <3>1 DEF PwMsg
    <3>3. fromChild' = Append(fromChild, IF Accepted(slot) THEN "1" ELSE "0")
      BY <2>5, <2>8, <3>1, <3>2 DEF Accepted, AsRead, ChildPassword, Verdict, Reply
    <3> QED
      BY <3>1, <3>3
  <2> QED
    BY <1>4, <2>6, <2>7, <2>8
<1> QED
  BY <1>3, <1>4 DEF Child

LEMMA VerdictsStep == ~MayInterrupt /\ LockInv /\ Verdicts /\ [Next]_vars => Verdicts'
<1> SUFFICES ASSUME ~MayInterrupt, LockInv, Verdicts, [Next]_vars, Going' PROVE Verdicts'
  BY DEF Verdicts
<1>1. Going
  BY GoingBefore
<1>2. CASE Shutdown \/ Stop \/ Join \/ Terminated \/ UNCHANGED vars
  <2>1. UNCHANGED <<slot, ok, response, wpc, cred, result, answer, tpc, cpc, fromChild>>
    BY <1>2 DEF Shutdown, Stop, Join, Terminated, vars, slotVars, workerVars, threadVars, childVars
  <2> QED
    BY <1>1, <2>1 DEF Verdicts, Ready, Waiting
<1> QED
  BY <1>1, <1>2, VerdictsThread, VerdictsWorker, VerdictsChild DEF Next, Around

\* As long as the helper lives and no check is cancelled, check() returns PAM's
\* verdict on the credentials it was called with, for every worker.
THEOREM RightAnswerCorrect == ~MayInterrupt => (Spec => []RightAnswer)
<1> SUFFICES ASSUME ~MayInterrupt PROVE Spec => []RightAnswer
  OBVIOUS
<1>1. Init => Verdicts
  BY DEF Init, Verdicts, Ready, Waiting
<1>2. LockInv /\ Verdicts /\ [Next]_vars => (LockInv /\ Verdicts)'
  BY LockStep, VerdictsStep
<1>3. LockInv /\ Verdicts => RightAnswer
  <2> SUFFICES ASSUME LockInv, Verdicts, NEW w \in Workers, answer[w] # NoAnswer,
                      cpc \in {"idle", "auth", "pw"}
               PROVE  answer[w][2] = Accepted(answer[w][1])
    BY DEF RightAnswer
  <2>1. answer[w][2] \in BOOLEAN
    BY DEF LockInv, SafeInv, TypeInv, TypeOK
  <2>2. answer[w][2] <=> Accepted(answer[w][1])
    BY DEF Verdicts, Going, Alive
  <2> QED
    BY <2>1, <2>2 DEF Accepted
<1> QED
  BY <1>1, <1>2, <1>3, LockInit, PTL DEF Spec

=============================================================================
