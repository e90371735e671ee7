----------------------------- MODULE PamChecker -----------------------------
(***************************************************************************)
(* The PAM credential checker of swad.                                     *)
(*                                                                         *)
(* A worker thread of the HTTP server that performs a login holds authlock *)
(* (Authenticator_login) and calls check().  check() hands the user name   *)
(* and password to one controlling thread (pamthreadproc) over two         *)
(* semaphores and a mutex.  The controlling thread talks over two pipes to *)
(* the helper process swad_pam, which runs the PAM conversation.  The      *)
(* helper may die (SIGCHLD) or stall in a PAM module, a worker may be      *)
(* interrupted (its job was cancelled), and the last checker destroyed     *)
(* stops the thread.                                                       *)
(*                                                                         *)
(* Names and passwords come from a form and may hold newlines, while the   *)
(* dialogue on the pipes ends each of them with one.  So a text is the     *)
(* sequence of its lines here, and PAM decides about lines.                *)
(***************************************************************************)
EXTENDS Naturals, Sequences

CONSTANTS
    Workers,        \* the threads of the pool that run logins
    Lines,          \* texts without a newline
    Users, Pws,     \* user names and passwords that are tried: sequences of lines
    Valid,          \* the pairs <<user, password>> of lines that PAM accepts
    ChildMayDie,    \* may the helper fail to start, crash or be killed?
    ChildMayStall,  \* may a PAM module never come back?
    EsrchAfterExit, \* does pthread_kill() say ESRCH for a thread that ended?
    MayInterrupt,   \* may the job of a worker be cancelled, by one signal to it?
    MaxPending      \* bound: semaphore tokens outstanding when a login begins

ASSUME PamAssumption ==
    /\ Users \subseteq Seq(Lines) \ {<<>>}
    /\ Pws \subseteq Seq(Lines) \ {<<>>}
    /\ Valid \subseteq Lines \X Lines
    /\ ChildMayDie \in BOOLEAN /\ ChildMayStall \in BOOLEAN
    /\ EsrchAfterExit \in BOOLEAN
    /\ MayInterrupt \in BOOLEAN
    /\ MaxPending \in Nat \ {0}
    /\ {"free", "pamThread"} \cap Workers = {}

VARIABLES
    \* shared between the workers and the controlling thread
    authlock,   \* owner of Authenticator's authlock
    lock,       \* owner of pamThread->lock
    request,    \* value of the semaphore pamThread->request
    response,   \* value of the semaphore pamThread->response
    slot,       \* pamThread->user and pamThread->pw
    ok,         \* pamThread->ok
    stoprq,     \* pamThread->stoprq
    \* the workers
    wpc,        \* where each worker is in check()
    cred,       \* the credentials each worker is checking
    result,     \* the local variable ok of check()
    answer,     \* the last thing check() returned to each worker
    irq,        \* the signal that cancels each worker's job: "unsent" or "spent"
    \* the controlling thread
    tpc,
    childExited,
    sigchld,    \* a SIGCHLD is pending for the controlling thread
    \* the helper process and the pipes
    cpc,
    cuser,      \* the user name the helper authenticates
    toChild,    \* writefd: what the helper has not read yet
    fromChild,  \* readfd: what the controlling thread has not read yet
    \* the main thread
    mpc

workerVars == <<wpc, cred, result, answer, irq>>
threadVars == <<tpc, childExited, sigchld>>
childVars  == <<cpc, cuser, toChild, fromChild>>
slotVars   == <<slot, ok, stoprq>>
vars == <<authlock, lock, request, response, slotVars, workerVars,
          threadVars, childVars, mpc>>

Creds    == Users \X Pws
NoAnswer == <<>>

\* What is left of a text that is cut at its first newline.
FirstLine(text) == text[1]

\* The credentials that the helper makes of those of a request.
AsRead(c) == <<FirstLine(c[1]), FirstLine(c[2])>>

Accepted(c) == AsRead(c) \in Valid

\* Messages on the pipes, each ended by a newline: "service:user" and "password"
\* to the helper, with all lines they have; "P" (prompt), "1" (accepted), "0"
\* (rejected) back.
ToChildMsg   == [kind : {"user"}, val : Users] \cup [kind : {"pw"}, val : Pws]
FromChildMsg == {"P", "1", "0"}

WorkerPcs == {"idle", "queued", "probe", "submit", "submitted", "await", "fetch", "fetched"}
ThreadPcs == {"start", "top", "wait", "lock", "sendUser", "readReply", "sendPw",
              "readResult", "post", "unlock", "broken", "reap", "dead"}
ChildPcs  == {"none", "idle", "auth", "pw", "stalled", "dead"}

TypeOK ==
    /\ authlock \in Workers \cup {"free"}
    /\ lock \in Workers \cup {"free", "pamThread"}
    /\ request \in Nat
    /\ response \in Nat
    /\ slot \in Creds \cup {NoAnswer}
    /\ ok \in BOOLEAN
    /\ stoprq \in BOOLEAN
    /\ wpc \in [Workers -> WorkerPcs]
    /\ cred \in [Workers -> Creds \cup {NoAnswer}]
    /\ result \in [Workers -> BOOLEAN]
    /\ answer \in [Workers -> (Creds \X BOOLEAN) \cup {NoAnswer}]
    /\ irq \in [Workers -> {"unsent", "spent"}]
    /\ tpc \in ThreadPcs
    /\ childExited \in BOOLEAN
    /\ sigchld \in BOOLEAN
    /\ cpc \in ChildPcs
    /\ cuser \in Lines \cup {NoAnswer}
    /\ toChild \in Seq(ToChildMsg)
    /\ fromChild \in Seq(FromChildMsg)
    /\ mpc \in {"up", "stopping", "join", "done"}

\* PamThread_create: the structure is zeroed, both semaphores start at 0.
Init ==
    /\ authlock = "free" /\ lock = "free"
    /\ request = 0 /\ response = 0
    /\ slot = NoAnswer /\ ok = FALSE /\ stoprq = FALSE
    /\ wpc = [w \in Workers |-> "idle"]
    /\ cred = [w \in Workers |-> NoAnswer]
    /\ result = [w \in Workers |-> FALSE]
    /\ answer = [w \in Workers |-> NoAnswer]
    /\ irq = [w \in Workers |-> "unsent"]
    /\ tpc = "start" /\ childExited = FALSE /\ sigchld = FALSE
    /\ cpc = "none" /\ cuser = NoAnswer /\ toChild = <<>> /\ fromChild = <<>>
    /\ mpc = "up"

-----------------------------------------------------------------------------
(* Workers: Authenticator_login() around check().                          *)

\* check() returns r; Authenticator_login releases authlock.
Return(w, r) ==
    /\ wpc' = [wpc EXCEPT ![w] = "idle"]
    /\ answer' = [answer EXCEPT ![w] = <<cred[w], r>>]
    /\ authlock' = "free"

\* Authenticator_login() is called in a new job, and waits for authlock.
Queue(w) ==
    /\ wpc[w] = "idle" /\ mpc = "up"
    /\ wpc' = [wpc EXCEPT ![w] = "queued"]
    /\ irq' = [irq EXCEPT ![w] = "unsent"]
    /\ UNCHANGED <<authlock, lock, request, response, slotVars, cred, result,
                   answer, threadVars, childVars, mpc>>

\* authlock is taken, and check() called with the credentials of the request.
Login(w, c) ==
    /\ wpc[w] = "queued"
    /\ authlock = "free"
    /\ request + response < MaxPending
    /\ authlock' = w
    /\ wpc' = [wpc EXCEPT ![w] = "probe"]
    /\ cred' = [cred EXCEPT ![w] = c]
    /\ answer' = [answer EXCEPT ![w] = NoAnswer]
    /\ UNCHANGED <<lock, request, response, slotVars, result, irq, threadVars,
                   childVars, mpc>>

\* pthread_kill(handle, 0): for a thread that ended but was not joined some
\* systems say ESRCH, others report success.
ProbeAlive(w) ==
    /\ wpc[w] = "probe"
    /\ tpc = "dead" => ~EsrchAfterExit
    /\ wpc' = [wpc EXCEPT ![w] = "submit"]
    /\ UNCHANGED <<authlock, lock, request, response, slotVars, cred, result,
                   answer, irq, threadVars, childVars, mpc>>

ProbeDead(w) ==
    /\ wpc[w] = "probe"
    /\ tpc = "dead" /\ EsrchAfterExit
    /\ Return(w, FALSE)
    /\ UNCHANGED <<lock, request, response, slotVars, cred, result, irq,
                   threadVars, childVars, mpc>>

Submit(w) ==
    /\ wpc[w] = "submit"
    /\ lock = "free"
    /\ lock' = w
    /\ slot' = cred[w]
    /\ request' = request + 1
    /\ wpc' = [wpc EXCEPT ![w] = "submitted"]
    /\ UNCHANGED <<authlock, response, ok, stoprq, cred, result, answer, irq,
                   threadVars, childVars, mpc>>

SubmitUnlock(w) ==
    /\ wpc[w] = "submitted"
    /\ lock' = IF lock = w THEN "free" ELSE lock
    /\ wpc' = [wpc EXCEPT ![w] = "await"]
    /\ UNCHANGED <<authlock, request, response, slotVars, cred, result, answer,
                   irq, threadVars, childVars, mpc>>

\* Mutant: the semaphore is only tried, and the result is fetched anyway.
AwaitResponseTry(w) ==
    /\ wpc[w] = "await"
    /\ response' = IF response > 0 THEN response - 1 ELSE 0
    /\ wpc' = [wpc EXCEPT ![w] = "fetch"]
    /\ UNCHANGED <<authlock, lock, request, slotVars, cred, result, answer, irq,
                   threadVars, childVars, mpc>>

AwaitResponse(w) ==
    /\ wpc[w] = "await"
    /\ response > 0
    /\ response' = response - 1
    /\ wpc' = [wpc EXCEPT ![w] = "fetch"]
    /\ UNCHANGED <<authlock, lock, request, slotVars, cred, result, answer, irq,
                   threadVars, childVars, mpc>>

\* The job was cancelled: sem_wait() fails and check() returns 0.
AwaitInterrupted(w) ==
    /\ MayInterrupt /\ irq[w] = "unsent"
    /\ wpc[w] = "await"
    /\ irq' = [irq EXCEPT ![w] = "spent"]
    /\ Return(w, FALSE)
    /\ UNCHANGED <<lock, request, response, slotVars, cred, result, threadVars,
                   childVars, mpc>>

\* The signal is sent once.  pthread_mutex_lock() goes on after it, and so does a
\* thread it hits between two calls, just before sem_wait() as well.
InterruptLost(w) ==
    /\ MayInterrupt /\ irq[w] = "unsent"
    /\ wpc[w] # "idle"
    /\ irq' = [irq EXCEPT ![w] = "spent"]
    /\ UNCHANGED <<authlock, lock, request, response, slotVars, wpc, cred, result,
                   answer, threadVars, childVars, mpc>>

\* The timeout of the job.
Interrupt(w) == AwaitInterrupted(w) \/ InterruptLost(w)

Fetch(w) ==
    /\ wpc[w] = "fetch"
    /\ lock = "free"
    /\ lock' = w
    /\ result' = [result EXCEPT ![w] = ok]
    /\ wpc' = [wpc EXCEPT ![w] = "fetched"]
    /\ UNCHANGED <<authlock, request, response, slotVars, cred, answer, irq,
                   threadVars, childVars, mpc>>

FetchUnlock(w) ==
    /\ wpc[w] = "fetched"
    /\ lock' = IF lock = w THEN "free" ELSE lock
    /\ Return(w, result[w])
    /\ UNCHANGED <<request, response, slotVars, cred, result, irq, threadVars,
                   childVars, mpc>>

Worker(w) ==
    \/ ProbeAlive(w) \/ ProbeDead(w) \/ Submit(w) \/ SubmitUnlock(w)
    \/ AwaitResponse(w) \/ Fetch(w) \/ FetchUnlock(w)

-----------------------------------------------------------------------------
(* The controlling thread: pamthreadproc().                                *)

\* Signal handler installed, pipes created, helper forked.
Start ==
    /\ tpc = "start"
    /\ tpc' = "top" /\ cpc' = "idle"
    /\ UNCHANGED <<authlock, lock, request, response, slotVars, workerVars,
                   childExited, sigchld, cuser, toChild, fromChild, mpc>>

StartFails ==
    /\ tpc = "start" /\ ChildMayDie
    /\ tpc' = "dead"
    /\ UNCHANGED <<authlock, lock, request, response, slotVars, workerVars,
                   childExited, sigchld, childVars, mpc>>

Top ==
    /\ tpc = "top"
    /\ tpc' = IF childExited THEN "broken" ELSE "wait"
    /\ UNCHANGED <<authlock, lock, request, response, slotVars, workerVars,
                   childExited, sigchld, childVars, mpc>>

\* Mutant: does not wait for a request.
WaitNoRequest ==
    /\ tpc = "wait"
    /\ request' = request - 1
    /\ tpc' = "lock"
    /\ UNCHANGED <<authlock, lock, response, slotVars, workerVars,
                   childExited, sigchld, childVars, mpc>>

Wait ==
    /\ tpc = "wait" /\ request > 0
    /\ request' = request - 1
    /\ tpc' = "lock"
    /\ UNCHANGED <<authlock, lock, response, slotVars, workerVars,
                   childExited, sigchld, childVars, mpc>>

Lock ==
    /\ tpc = "lock" /\ lock = "free"
    /\ lock' = "pamThread"
    /\ ok' = FALSE
    /\ tpc' = IF stoprq \/ childExited THEN "broken" ELSE "sendUser"
    /\ UNCHANGED <<authlock, request, response, slot, stoprq, workerVars,
                   childExited, sigchld, childVars, mpc>>

\* write(): EPIPE once the helper is gone (SIGPIPE is blocked in this thread).
Write(msg, next) ==
    /\ tpc' = IF cpc = "dead" THEN "broken" ELSE next
    /\ toChild' = IF cpc = "dead" THEN toChild ELSE Append(toChild, msg)
    /\ UNCHANGED <<authlock, lock, request, response, slotVars, workerVars,
                   childExited, sigchld, cpc, cuser, fromChild, mpc>>

SendUser == tpc = "sendUser" /\ Write([kind |-> "user", val |-> slot[1]], "readReply")

SendPw == tpc = "sendPw" /\ Write([kind |-> "pw", val |-> slot[2]], "readResult")

\* read() takes all that is there, or sees the end of file of a dead helper;
\* the buffer is then compared as a whole with the one-line messages.
Read ==
    /\ fromChild # <<>> \/ cpc = "dead"
    /\ fromChild' = <<>>
    /\ UNCHANGED <<authlock, lock, request, response, slot, stoprq, workerVars,
                   childExited, sigchld, cpc, cuser, toChild, mpc>>

\* Mutant: a prompt is taken for a verdict.
ReadReplyNoPrompt ==
    /\ tpc = "readReply"
    /\ Read
    /\ ok' = (ok \/ fromChild = <<"1">>)
    /\ tpc' = "post"

\* Mutant: a verdict without a prompt is not looked at.
ReadReplyOnlyPrompt ==
    /\ tpc = "readReply"
    /\ Read
    /\ UNCHANGED ok
    /\ tpc' = IF fromChild = <<"P">> THEN "sendPw" ELSE "post"

ReadReply ==
    /\ tpc = "readReply"
    /\ Read
    /\ ok' = (ok \/ fromChild = <<"1">>)
    /\ tpc' = IF fromChild = <<"P">> THEN "sendPw" ELSE "post"

\* Mutant: all but an explicit rejection is success.
ReadResultNotZero ==
    /\ tpc = "readResult"
    /\ Read
    /\ ok' = (fromChild # <<"0">>)
    /\ tpc' = "post"

ReadResult ==
    /\ tpc = "readResult"
    /\ Read
    /\ ok' = (ok \/ fromChild = <<"1">>)
    /\ tpc' = "post"

\* Mutant: only good news are told.
PostIfOk ==
    /\ tpc = "post"
    /\ response' = IF ok THEN response + 1 ELSE response
    /\ tpc' = "unlock"
    /\ UNCHANGED <<authlock, lock, request, slotVars, workerVars,
                   childExited, sigchld, childVars, mpc>>

Post ==
    /\ tpc = "post"
    /\ response' = response + 1
    /\ tpc' = "unlock"
    /\ UNCHANGED <<authlock, lock, request, slotVars, workerVars,
                   childExited, sigchld, childVars, mpc>>

Unlock ==
    /\ tpc = "unlock"
    /\ lock' = "free"
    /\ tpc' = "top"
    /\ UNCHANGED <<authlock, request, response, slotVars, workerVars,
                   childExited, sigchld, childVars, mpc>>

\* Mutant: the mutex stays locked after the loop.
BrokenKeepsLock ==
    /\ tpc = "broken"
    /\ tpc' = "reap"
    /\ UNCHANGED <<authlock, lock, request, response, slotVars, workerVars,
                   childExited, sigchld, childVars, mpc>>

\* After the loop: unlock, close the pipes.  The loop may have ended with the
\* mutex held by another thread or by none; unlocking it then is undefined
\* and in practice either releases it or does nothing.
Broken ==
    /\ tpc = "broken"
    /\ lock' \in IF lock = "pamThread" THEN {"free"} ELSE {lock, "free"}
    /\ tpc' = "reap"
    /\ UNCHANGED <<authlock, request, response, slotVars, workerVars,
                   childExited, sigchld, childVars, mpc>>

\* waitpid().
Reap ==
    /\ tpc = "reap" /\ cpc = "dead"
    /\ tpc' = "dead"
    /\ UNCHANGED <<authlock, lock, request, response, slotVars, workerVars,
                   childExited, sigchld, childVars, mpc>>

\* handlechild() runs in this thread.  sem_wait() and read() fail with EINTR
\* if it runs while they block; just before the call, the signal is lost.
Handlechild ==
    /\ sigchld
    /\ sigchld' = FALSE /\ childExited' = TRUE
    /\ tpc' \in {tpc} \cup
               IF tpc \in {"wait", "readReply", "readResult"} THEN {"broken"} ELSE {}
    /\ UNCHANGED <<authlock, lock, request, response, slotVars, workerVars,
                   childVars, mpc>>

PamThread ==
    \/ Start \/ StartFails \/ Top \/ Wait \/ Lock \/ SendUser \/ ReadReply \/ SendPw
    \/ ReadResult \/ Post \/ Unlock \/ Broken \/ Reap \/ Handlechild

-----------------------------------------------------------------------------
(* The helper process swad_pam.                                            *)

Exit == cpc' = "dead" /\ sigchld' = TRUE

\* The name of the user to authenticate, up to the first newline; what comes after
\* it is dropped.  A message without a colon ends the helper.
ChildRead ==
    /\ cpc = "idle" /\ toChild # <<>>
    /\ toChild' = <<>>
    /\ IF Head(toChild).kind = "user"
         THEN cpc' = "auth" /\ cuser' = FirstLine(Head(toChild).val) /\ UNCHANGED sigchld
         ELSE Exit /\ UNCHANGED cuser
    /\ UNCHANGED <<authlock, lock, request, response, slotVars, workerVars,
                   tpc, childExited, fromChild, mpc>>

Reply(msg, next) ==
    /\ fromChild' = Append(fromChild, msg)
    /\ cpc' = next
    /\ UNCHANGED <<authlock, lock, request, response, slotVars, workerVars,
                   threadVars, cuser, mpc>>

\* pamconv(): PAM asks for the password.
ChildPrompt ==
    /\ cpc = "auth"
    /\ Reply("P", "pw")
    /\ UNCHANGED toChild

Verdict(good) == Reply(IF good THEN "1" ELSE "0", "idle")

\* PAM decides without asking, where the password makes no difference.
ChildNoPrompt ==
    /\ cpc = "auth"
    /\ \E v \in BOOLEAN :
          /\ \A p \in Lines : (<<cuser, p>> \in Valid) = v
          /\ Verdict(v)
    /\ UNCHANGED toChild

ChildPassword ==
    /\ cpc = "pw" /\ toChild # <<>>
    /\ toChild' = <<>>
    /\ Verdict(/\ Head(toChild).kind = "pw"
               /\ <<cuser, FirstLine(Head(toChild).val)>> \in Valid)

\* A module of PAM never comes back, before or after it asked for the password.
ChildStalls ==
    /\ ChildMayStall
    /\ cpc \in {"auth", "pw"}
    /\ cpc' = "stalled"
    /\ UNCHANGED <<authlock, lock, request, response, slotVars, workerVars,
                   threadVars, cuser, toChild, fromChild, mpc>>

\* read() sees the end of file once the controlling thread closed the pipes.
ChildEof ==
    /\ tpc = "reap" /\ cpc \notin {"stalled", "dead"}
    /\ Exit
    /\ UNCHANGED <<authlock, lock, request, response, slotVars, workerVars,
                   tpc, childExited, cuser, toChild, fromChild, mpc>>

\* The helper crashes, is killed, or execl() failed.
ChildDies ==
    /\ ChildMayDie
    /\ cpc \notin {"none", "dead"}
    /\ Exit
    /\ UNCHANGED <<authlock, lock, request, response, slotVars, workerVars,
                   tpc, childExited, cuser, toChild, fromChild, mpc>>

Child == ChildRead \/ ChildPrompt \/ ChildNoPrompt \/ ChildPassword \/ ChildEof

-----------------------------------------------------------------------------
(* The main thread: PamThread_destroy() of the last checker, called when    *)
(* the thread pool runs no login any more.                                 *)

Shutdown ==
    /\ mpc = "up" /\ \A w \in Workers : wpc[w] = "idle"
    /\ mpc' = "stopping"
    /\ UNCHANGED <<authlock, lock, request, response, slotVars, workerVars,
                   threadVars, childVars>>

\* Mutant: the controlling thread is not woken up.
StopNoPost ==
    /\ mpc = "stopping" /\ lock = "free"
    /\ stoprq' = TRUE
    /\ mpc' = "join"
    /\ UNCHANGED <<authlock, lock, request, response, slot, ok, workerVars,
                   threadVars, childVars>>

\* pthread_kill() never returns less than 0, so this is done for a thread
\* that ended as well.
Stop ==
    /\ mpc = "stopping" /\ lock = "free"
    /\ stoprq' = TRUE /\ request' = request + 1
    /\ mpc' = "join"
    /\ UNCHANGED <<authlock, lock, response, slot, ok, workerVars, threadVars,
                   childVars>>

Join ==
    /\ mpc = "join" /\ tpc = "dead"
    /\ mpc' = "done"
    /\ UNCHANGED <<authlock, lock, request, response, slotVars, workerVars,
                   threadVars, childVars>>

Terminated == mpc = "done" /\ UNCHANGED vars

-----------------------------------------------------------------------------
Next ==
    \/ \E w \in Workers : \/ \E c \in Creds : Login(w, c)
                          \/ Queue(w) \/ Interrupt(w)
                          \/ Worker(w)
    \/ PamThread
    \/ Child \/ ChildDies \/ ChildStalls
    \/ Shutdown \/ Stop \/ Join \/ Terminated

\* The scheduler runs every thread and process that can go on, and signals
\* are delivered.  Nobody has to log in, to cancel, to kill the helper or to
\* stop swad.
Fairness ==
    /\ \A w \in Workers : WF_vars(Worker(w))
    /\ WF_vars(PamThread) /\ WF_vars(Handlechild)
    /\ WF_vars(Child)
    /\ WF_vars(Stop) /\ WF_vars(Join)

Spec     == Init /\ [][Next]_vars
FairSpec == Spec /\ Fairness

\* The timeout of a job sends its one signal, wherever the worker is then.
TimeoutSpec == FairSpec /\ \A w \in Workers : WF_vars(Interrupt(w))

-----------------------------------------------------------------------------
(* Properties.                                                             *)

\* check() never returns success unless PAM accepts the name and password that are
\* in the first lines of those it was called with, whatever the interleaving of
\* workers, controlling thread and helper: no answer reaches the worker of another
\* request.
NoFalseAccept ==
    \A w \in Workers :
        (answer[w] # NoAnswer /\ answer[w][2]) => Accepted(answer[w][1])

\* As long as the helper lives and no check was interrupted, check() returns
\* exactly PAM's verdict on the first lines of the credentials it was called with.
RightAnswer ==
    \A w \in Workers : (answer[w] # NoAnswer /\ cpc \in {"idle", "auth", "pw"}) =>
                          (answer[w][2] = Accepted(answer[w][1]))

\* Controlling thread and helper talk in lockstep: at most one message is in
\* the two pipes, so that a read() never sees two of them at once and strcmp()
\* on the whole buffer is enough, and every request starts on empty pipes.
Lockstep ==
    /\ Len(toChild) + Len(fromChild) <= 1
    /\ tpc \in {"wait", "lock", "sendUser"} /\ cpc # "dead"
         => toChild = <<>> /\ fromChild = <<>> /\ cpc = "idle"

\* The slot lends the controlling thread the worker's own name and password,
\* which the worker frees once check() returned: from the first write to the
\* pipe to the last, the worker they belong to still waits, and no other has
\* put its credentials over them.
SlotLent ==
    tpc \in {"sendUser", "readReply", "sendPw"} =>
        \E w \in Workers : wpc[w] \in {"submitted", "await"} /\ slot = cred[w]

\* A worker that nothing will wake up: the signal of its timeout is spent, and it
\* waits for a response nobody is left to post, or for the mutex the controlling
\* thread holds while it waits for a helper that stalls.
Stranded(w) ==
    /\ irq[w] = "spent"
    /\ \/ /\ wpc[w] = "await" /\ response = 0
          /\ cpc \in {"stalled", "dead"} \/ tpc = "dead"
       \/ /\ wpc[w] \in {"submit", "fetch"} /\ lock = "pamThread"
          /\ cpc = "stalled" /\ tpc \in {"readReply", "readResult"}

\* A login that got authlock comes back, or all logins stop for good behind it.
\* That happens in no other way than by a helper that died or stalls, to a worker
\* whose one interrupt hit it anywhere but in sem_wait().
LoginReturns ==
    \A w \in Workers : []<>(wpc[w] \in {"idle", "queued"}) \/ <>[]Stranded(w)

\* While the helper works, no timeout is needed for a login to come back.  (When
\* it dies, a worker that has submitted its request waits for a response that
\* nobody posts; when it stalls, for one that does not come.)
ReturnsWhileAlive ==
    \A w \in Workers :
        wpc[w] = "probe" ~>
            (wpc[w] = "idle" \/ cpc \in {"stalled", "dead"} \/ tpc = "dead")

\* PamThread_destroy() ends unless the helper stalls: the controlling thread always
\* sees stoprq, gets the helper to exit and can be joined.
ShutdownCompletes == mpc = "stopping" ~> (mpc = "done" \/ cpc = "stalled")

=============================================================================
