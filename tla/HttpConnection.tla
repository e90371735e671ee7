--------------------------- MODULE HttpConnection ---------------------------
(***************************************************************************)
(* The life of one HTTP connection: httpserver.c with the objects it       *)
(* handles, HttpRequest, HttpContext and HttpResponse.  The main thread    *)
(* runs the event handlers, one at a time; a worker thread of the pool     *)
(* runs the pipeline of middlewares and handlers for a request.  The       *)
(* client may stall, trickle data or close the connection at any time.     *)
(*                                                                         *)
(* The event loop, the connections and the thread pool are a library's     *)
(* (poser): PSC_Connection_close() raises `closed` at once; a job that is  *)
(* cancelled or times out is interrupted, and `finished` comes once its    *)
(* worker is through with it.                                              *)
(***************************************************************************)
EXTENDS Naturals

CONSTANTS
    ConnTimeout,    \* CONNTIMEOUT in ticks
    RequestTimeout, \* REQUESTTIMEOUT in ticks
    MaxReqs,        \* bound: requests on the connection
    MaxChunks       \* bound: pieces in which a response body is sent

ASSUME ConnAssumption ==
    /\ ConnTimeout \in Nat \ {0} /\ RequestTimeout \in Nat \ {0}
    /\ MaxReqs \in Nat \ {0} /\ MaxChunks \in Nat

VARIABLES
    conn,       \* the connection: "none", "open" or "closed"
    idle,       \* ticks since ConnectionContext.timer was set
    onClosed,   \* handlers registered for the event `closed`
    named,      \* is the name of the remote host known to the connection?
    host,       \* is it known to the current context?
    onNamed,    \* the contexts registered for the event `nameResolved`
    cur,        \* number of the request on this connection, from 1
    req,        \* req[i]: the HttpRequest of request i
    ctx,        \* ctx[i]: its HttpContext
    ctxConn,    \* is the conn of the current context set?
    ctxResp,    \* the response of the current context
    keep,       \* may the connection be used again after this response?
    resp,       \* resp[r]: the HttpResponse r
    sending,    \* the response that is being sent
    left,       \* pieces of its body not yet handed to the connection
    onSent,     \* the handler registered for its event `sent`
    job,        \* the job: "none", "queued", "running" or "finished"
    jobAge,     \* ticks since it was started
    canceled,   \* was it cancelled, or did it time out?
    onFinished, \* the handler registered for its event `finished`
    \* observed only
    crashed     \* did swad dereference a null pointer?  What follows is then
                \* of no interest

jobVars  == <<job, jobAge, canceled, onFinished>>
nameVars == <<named, host, onNamed>>
respVars == <<ctxResp, keep, resp, sending, left, onSent>>
vars == <<conn, idle, onClosed, nameVars, cur, req, ctx, ctxConn, respVars,
          jobVars, crashed>>

Reqs == 1 .. MaxReqs

\* The response a handler has put into the context of request i, and the one
\* that pipelineJobDone() creates in place of it.
Own(i)  == <<i, "own">>
Late(i) == <<i, "late">>
Null    == <<0, "null">>
Resps   == Reqs \X {"own", "late"}

\* An object that is touched after it was freed becomes "misused".
ObjStates == {"none", "live", "scheduled", "freed", "misused"}

Handlers == {"connClosed", "connectionLost", "connectionClosed",
             "pipelineJobCanceled", "abortSending"}

TypeOK ==
    /\ conn \in {"none", "open", "closed"}
    /\ idle \in 0 .. ConnTimeout
    /\ onClosed \subseteq Handlers
    /\ named \in BOOLEAN /\ host \in BOOLEAN /\ onNamed \subseteq Reqs
    /\ cur \in Reqs
    /\ req \in [Reqs -> ObjStates] /\ ctx \in [Reqs -> ObjStates]
    /\ resp \in [Resps -> ObjStates]
    /\ ctxResp \in Resps \cup {Null} /\ sending \in Resps \cup {Null}
    /\ ctxConn \in BOOLEAN /\ keep \in BOOLEAN
    /\ left \in 0 .. MaxChunks /\ onSent \in {"none", "single", "reuse"}
    /\ job \in {"none", "queued", "running", "finished"}
    /\ jobAge \in 0 .. RequestTimeout
    /\ canceled \in BOOLEAN /\ onFinished \in {"none", "done", "canceled"}
    /\ crashed \in BOOLEAN

Init ==
    /\ conn = "none" /\ idle = 0 /\ onClosed = {}
    /\ named = FALSE /\ host = FALSE /\ onNamed = {}
    /\ cur = 1
    /\ req = [i \in Reqs |-> "none"] /\ ctx = [i \in Reqs |-> "none"]
    /\ resp = [r \in Resps |-> "none"]
    /\ ctxConn = FALSE /\ ctxResp = Null /\ keep = FALSE
    /\ sending = Null /\ left = 0 /\ onSent = "none"
    /\ job = "none" /\ jobAge = 0 /\ canceled = FALSE /\ onFinished = "none"
    /\ crashed = FALSE

-----------------------------------------------------------------------------
(* Operations on an object.                                                *)

\* HttpRequest_deleteLater(), HttpResponse_deleteLater()
Later(s) == CASE s = "live"      -> "scheduled"
              [] s = "scheduled" -> "scheduled"
              [] OTHER           -> "misused"

\* HttpResponse_destroy(): one that is scheduled is left alone.
Destroy(s) == CASE s \in {"live", "scheduled"} -> IF s = "live" THEN "freed" ELSE s
                [] OTHER                       -> "misused"

\* HttpContext_destroy()
Free(s) == IF s = "live" THEN "freed" ELSE "misused"

\* HttpContext_create() wants to be told the name of the remote host unless the
\* context knows it, and HttpContext_destroy() does not want it any more; a
\* context that was told stays registered.
Register(known, set) == IF known THEN set ELSE set \cup {cur}
Unregister(known, set) == IF known THEN set ELSE set \ {cur}

\* PSC_Service_eventsDone()
Purge(f) == [x \in DOMAIN f |-> IF f[x] = "scheduled" THEN "freed" ELSE f[x]]

-----------------------------------------------------------------------------
(* The end of the connection.                                              *)

\* PSC_Connection_close(): the handlers in the set reg run in the order in
\* which they were registered.  By then no response is being sent, or
\* abortSending() is registered.
Close(reg, rq, cx, rs) ==
    LET aborted == "abortSending" \in reg
        lost    == "connectionLost" \in reg
        reused  == aborted /\ onSent = "reuse"
    IN /\ conn' = "closed"
       /\ onClosed' = {} /\ onNamed' = {}
       /\ ctxConn' = (ctxConn /\ "connectionClosed" \notin reg)
       /\ req' = IF lost \/ reused THEN [rq EXCEPT ![cur] = Later(@)] ELSE rq
       /\ IF "pipelineJobCanceled" \in reg
            THEN canceled' = TRUE /\ onFinished' = "canceled"
            ELSE UNCHANGED <<canceled, onFinished>>
       \* abortSending() raises `sent` without a connection
       /\ resp' = IF aborted THEN [rs EXCEPT ![sending] = Later(@)] ELSE rs
       /\ ctx' = IF reused THEN [cx EXCEPT ![cur] = Free(@)] ELSE cx
       /\ sending' = Null /\ left' = 0 /\ onSent' = "none"
       /\ UNCHANGED <<named, host, cur, ctxResp, keep, job, jobAge>>

\* The client closes the connection, or it breaks.
ClientCloses ==
    /\ conn = "open"
    /\ Close(onClosed, req, ctx, resp)
    /\ UNCHANGED <<idle, crashed>>

\* connTimeout()
IdleTimeout ==
    /\ conn = "open" /\ idle = ConnTimeout
    /\ Close(onClosed, req, ctx, resp)
    /\ UNCHANGED <<idle, crashed>>

\* dataReceived() of a request finds a protocol error.
ProtocolError ==
    /\ conn = "open" /\ "connectionLost" \in onClosed
    /\ Close(onClosed, req, ctx, resp)
    /\ idle' = 0
    /\ UNCHANGED crashed

-----------------------------------------------------------------------------
(* Sending a response.                                                     *)

\* pipelineJobDone() from logRequest() on, for response r of request cur: what
\* happens once it is sent, and HttpResponse_send().  logRequest() looks at the
\* response `logged` of the context, which may be none (a null pointer) or
\* freed already (where the outcome of reading it is open).
SendResponse(r, logged, reuse, reg, known, names, cx, rs) ==
    /\ crashed' \in CASE crashed \/ logged = Null -> {TRUE}
                      [] ~crashed /\ logged # Null -> {FALSE, rs[logged] = "freed"}
    /\ resp' = rs
    /\ sending' = r /\ left' \in 0 .. MaxChunks
    /\ onSent' = IF reuse THEN "reuse" ELSE "single"
    /\ onClosed' = (IF reuse THEN reg ELSE reg \ {"connectionClosed"}) \cup {"abortSending"}
    /\ ctx' = IF reuse THEN cx ELSE [cx EXCEPT ![cur] = Free(@)]
    /\ onNamed' = IF reuse THEN names ELSE Unregister(known, names)
    /\ host' = known /\ UNCHANGED named
    /\ req' = IF reuse THEN req ELSE [req EXCEPT ![cur] = Later(@)]

\* sendBody(): the connection has taken what it was given; the next piece.
SendPiece ==
    /\ conn = "open" /\ sending # Null /\ left > 0
    /\ idle' = 0 /\ left' = left - 1
    /\ UNCHANGED <<conn, onClosed, nameVars, cur, req, ctx, ctxConn, ctxResp, keep,
                   resp, sending, onSent, jobVars, crashed>>

\* ... or there is none left, and `sent` is raised: httpResponseSentSingle()
\* closes the connection.
SentSingle ==
    /\ conn = "open" /\ sending # Null /\ left = 0 /\ onSent = "single"
    /\ idle' = 0
    /\ Close(onClosed \ {"abortSending"}, req, ctx,
             [resp EXCEPT ![sending] = Later(@)])
    /\ UNCHANGED crashed

\* Mutant: the context stays registered with the connection.
SentReuseStays ==
    /\ conn = "open" /\ sending # Null /\ left = 0 /\ onSent = "reuse"
    /\ cur < MaxReqs
    /\ idle' = 0
    /\ cur' = cur + 1
    /\ req' = [req EXCEPT ![cur] = Later(@), ![cur + 1] = "live"]
    /\ resp' = [resp EXCEPT ![sending] = Later(@)]
    /\ ctx' = [ctx EXCEPT ![cur] = Free(@)]
    /\ onClosed' = (onClosed \ {"abortSending"}) \cup {"connectionLost"}
    /\ ctxConn' = FALSE /\ ctxResp' = Null /\ keep' = FALSE
    /\ sending' = Null /\ onSent' = "none"
    /\ onNamed' = Unregister(host, onNamed) /\ host' = FALSE
    /\ UNCHANGED <<conn, named, left, jobVars, crashed>>

\* httpResponseSentReuse() waits for the next request.
SentReuse ==
    /\ conn = "open" /\ sending # Null /\ left = 0 /\ onSent = "reuse"
    /\ cur < MaxReqs
    /\ idle' = 0
    /\ cur' = cur + 1
    /\ req' = [req EXCEPT ![cur] = Later(@), ![cur + 1] = "live"]
    /\ resp' = [resp EXCEPT ![sending] = Later(@)]
    /\ ctx' = [ctx EXCEPT ![cur] = Free(@)]
    /\ onClosed' = (onClosed \ {"abortSending", "connectionClosed"})
                      \cup {"connectionLost"}
    /\ ctxConn' = FALSE /\ ctxResp' = Null /\ keep' = FALSE
    /\ sending' = Null /\ onSent' = "none"
    /\ onNamed' = Unregister(host, onNamed) /\ host' = FALSE
    /\ UNCHANGED <<conn, named, left, jobVars, crashed>>

-----------------------------------------------------------------------------
(* Receiving a request.                                                    *)

\* tcpClientConnected()
Connect ==
    /\ conn = "none"
    /\ conn' = "open" /\ idle' = 0
    /\ req' = [req EXCEPT ![1] = "live"]
    /\ onClosed' = {"connClosed", "connectionLost"}
    /\ UNCHANGED <<nameVars, cur, ctx, ctxConn, respVars, jobVars, crashed>>

\* Data that completes no request: connActive() only, as often as the client
\* likes.
Trickle ==
    /\ conn = "open"
    /\ idle' = 0
    /\ UNCHANGED <<conn, onClosed, nameVars, cur, req, ctx, ctxConn, respVars, jobVars,
                   crashed>>

\* The request is complete: it leaves the connection's events, and a context
\* is created that watches the connection.
Received ==
    /\ conn = "open" /\ "connectionLost" \in onClosed
    /\ idle' = 0
    /\ ctxConn' = TRUE

Watching == (onClosed \ {"connectionLost"}) \cup {"connectionClosed"}

\* nameResolved(): the library found the name, once for a connection.  The
\* worker that reads the context's remoteHost meanwhile sees it or a null pointer.
NameResolved ==
    /\ conn = "open" /\ ~named
    /\ named' = TRUE /\ host' = (host \/ cur \in onNamed)
    /\ ctx' = [i \in Reqs |-> IF i \in onNamed /\ ctx[i] # "live" THEN "misused" ELSE ctx[i]]
    /\ UNCHANGED <<conn, idle, onClosed, onNamed, cur, req, ctxConn, respVars, jobVars,
                   crashed>>

\* requestReceived(): the pipeline is to be run by the thread pool.
RequestReceived ==
    /\ Received
    /\ ctx' = [ctx EXCEPT ![cur] = "live"]
    /\ onClosed' = Watching \cup {"pipelineJobCanceled"}
    /\ job' = "queued" /\ jobAge' = 0 /\ canceled' = FALSE /\ onFinished' = "done"
    /\ host' = named /\ onNamed' = Register(named, onNamed)
    /\ UNCHANGED <<conn, named, cur, req, respVars, crashed>>

\* requestReceived(): a bad request, no such route or method, or the pool is
\* full.  The response is put into the context and sent at once.
RequestRefused ==
    /\ Received
    /\ ctxResp' = Own(cur) /\ keep' \in BOOLEAN
    /\ SendResponse(Own(cur), Own(cur), keep', Watching, named, Register(named, onNamed),
                    [ctx EXCEPT ![cur] = "live"],
                    [resp EXCEPT ![Own(cur)] = "live"])
    /\ UNCHANGED <<conn, cur, jobVars>>

-----------------------------------------------------------------------------
(* The job: a worker thread of the pool runs the pipeline.                 *)

JobStart ==
    /\ job = "queued" /\ ~canceled
    /\ job' = "running"
    /\ UNCHANGED <<conn, idle, onClosed, nameVars, cur, req, ctx, ctxConn, respVars,
                   jobAge, canceled, onFinished, crashed>>

\* HttpContext_setResponse() by a middleware or handler.  Headers, version and
\* body of request and response, and the status, decide about keep.  Whoever
\* sets a response (session.c:296, csrfprotect.c:46, login.c:106, 123, 155, 203,
\* root.c:79) returns without a call of the next handler, so that none is ever
\* replaced by another one.
JobRespond ==
    /\ job = "running" /\ ctxResp = Null
    /\ ctxResp' = Own(cur) /\ keep' \in BOOLEAN
    /\ resp' = [resp EXCEPT ![Own(cur)] = "live"]
    /\ UNCHANGED <<conn, idle, onClosed, nameVars, cur, req, ctx, ctxConn, sending,
                   left, onSent, jobVars, crashed>>

\* The pipeline is through.  Unless it was interrupted there is a response: the
\* early returns of the handlers (login.c:190, root.c:26 and 35) need a context
\* without a session or path parser, and the pipeline of swad (main.c:31-45)
\* puts these before every handler.
JobEnd ==
    /\ job = "running" /\ (ctxResp # Null \/ canceled)
    /\ job' = "finished"
    /\ UNCHANGED <<conn, idle, onClosed, nameVars, cur, req, ctx, ctxConn, respVars,
                   jobAge, canceled, onFinished, crashed>>

\* PSC_ThreadPool_cancel() of a job that no thread has taken yet.
JobDropped ==
    /\ job = "queued" /\ canceled
    /\ job' = "finished"
    /\ UNCHANGED <<conn, idle, onClosed, nameVars, cur, req, ctx, ctxConn, respVars,
                   jobAge, canceled, onFinished, crashed>>

JobTimeout ==
    /\ job = "running" /\ ~canceled /\ jobAge = RequestTimeout
    /\ canceled' = TRUE
    /\ UNCHANGED <<conn, idle, onClosed, nameVars, cur, req, ctx, ctxConn, respVars,
                   job, jobAge, onFinished, crashed>>

\* pipelineJobDone() for a job that completed: the response of the handler is
\* sent.
PipelineJobDone ==
    /\ job = "finished" /\ onFinished = "done" /\ ~canceled
    /\ SendResponse(ctxResp, ctxResp, keep, onClosed \ {"pipelineJobCanceled"},
                    host, onNamed, ctx, resp)
    /\ job' = "none" /\ onFinished' = "none"
    /\ UNCHANGED <<conn, idle, cur, ctxConn, ctxResp, keep, jobAge,
                   canceled>>

\* ... and for one that timed out: its response, if any, is destroyed, and
\* another one takes its place, but not in the context.
PipelineJobTimedOut ==
    /\ job = "finished" /\ onFinished = "done" /\ canceled
    /\ LET dropped == IF ctxResp = Null THEN resp ELSE [resp EXCEPT ![ctxResp] = Destroy(@)]
       IN SendResponse(Late(cur), ctxResp, FALSE, onClosed \ {"pipelineJobCanceled"},
                       host, onNamed, ctx,
                       [dropped EXCEPT ![Late(cur)] = "live"])
    /\ job' = "none" /\ onFinished' = "none"
    /\ UNCHANGED <<conn, idle, cur, ctxConn, ctxResp, keep, jobAge,
                   canceled>>

\* Mutant: the response is forgotten.
PipelineCanceledKeeps ==
    /\ job = "finished" /\ onFinished = "canceled"
    /\ req' = [req EXCEPT ![cur] = Later(@)]
    /\ ctx' = [ctx EXCEPT ![cur] = Free(@)]
    /\ job' = "none" /\ onFinished' = "none"
    /\ UNCHANGED <<conn, idle, onClosed, nameVars, cur, ctxConn, respVars, jobAge,
                   canceled, crashed>>

\* pipelineCanceledJobDone()
PipelineCanceledJobDone ==
    /\ job = "finished" /\ onFinished = "canceled"
    /\ req' = [req EXCEPT ![cur] = Later(@)]
    /\ resp' = IF ctxResp = Null THEN resp ELSE [resp EXCEPT ![ctxResp] = Destroy(@)]
    /\ ctx' = [ctx EXCEPT ![cur] = Free(@)]
    /\ job' = "none" /\ onFinished' = "none"
    /\ UNCHANGED <<conn, idle, onClosed, nameVars, cur, ctxConn, ctxResp, keep, sending,
                   left, onSent, jobAge, canceled, crashed>>

-----------------------------------------------------------------------------
(* The service loop and time.                                              *)

\* deleteRequest(), deleteResponse()
EventsDone ==
    /\ req' = Purge(req) /\ resp' = Purge(resp)
    /\ <<req', resp'>> # <<req, resp>>
    /\ UNCHANGED <<conn, idle, onClosed, nameVars, cur, ctx, ctxConn, ctxResp, keep,
                   sending, left, onSent, jobVars, crashed>>

\* A timer that is due fires before more time passes.
Tick ==
    /\ conn = "open" \/ (job = "running" /\ ~canceled)
    /\ conn = "open" => idle < ConnTimeout
    /\ (job = "running" /\ ~canceled) => jobAge < RequestTimeout
    /\ idle' = IF conn = "open" THEN idle + 1 ELSE idle
    /\ jobAge' = IF job = "running" /\ ~canceled THEN jobAge + 1 ELSE jobAge
    /\ UNCHANGED <<conn, onClosed, nameVars, cur, req, ctx, ctxConn, respVars, job,
                   canceled, onFinished, crashed>>

Client == Connect \/ Trickle \/ RequestReceived \/ RequestRefused \/ ProtocolError
          \/ SendPiece \/ SentSingle \/ SentReuse \/ ClientCloses

Main == PipelineJobDone \/ PipelineJobTimedOut \/ PipelineCanceledJobDone
        \/ EventsDone

Job == JobStart \/ JobRespond \/ JobEnd \/ JobDropped

Released ==
    /\ conn = "closed" /\ job = "none"
    /\ {req[i] : i \in Reqs} \cup {ctx[i] : i \in Reqs} \cup {resp[r] : r \in Resps}
          \subseteq {"none", "freed"}

Next ==
    \/ Client \/ Main \/ Job \/ NameResolved
    \/ IdleTimeout \/ JobTimeout \/ Tick
    \/ Released /\ UNCHANGED vars

\* The client need not do anything.  The service loop handles every event and
\* timer, and time goes on.  Nothing is assumed of the job: a pipeline waits for
\* mutexes, which a cancellation does not interrupt.
Fairness ==
    /\ WF_vars(Main)
    /\ WF_vars(IdleTimeout) /\ WF_vars(JobTimeout) /\ WF_vars(Tick)

Spec == Init /\ [][Next]_vars /\ Fairness

-----------------------------------------------------------------------------
(* Properties.                                                             *)

\* No object is used after it was freed: neither twice destroyed, nor reached
\* by a handler that is still registered, by the worker, or by what sends a
\* response, whenever the client closes the connection.  A response is never
\* sent to a connection that is gone.
MemorySafe ==
    /\ \A i \in Reqs : "misused" \notin {req[i], ctx[i]}
    /\ \A r \in Resps : resp[r] # "misused"
    /\ job # "none" => ctx[cur] = "live" /\ req[cur] = "live"
    /\ sending # Null => resp[sending] = "live"
    /\ onSent = "reuse" => ctx[cur] = "live" /\ req[cur] = "live"
    /\ "connectionLost" \in onClosed => req[cur] = "live"
    /\ "connectionClosed" \in onClosed => ctx[cur] = "live"
    /\ "pipelineJobCanceled" \in onClosed => job # "none" /\ onFinished = "done"
    /\ onFinished = "done" => conn = "open" /\ ctxConn

\* The server gets rid of the connection, of the job and of every request,
\* context and response it has created for it, whether the client stalls,
\* breaks off or makes errors: unless it goes on sending for ever, as any data
\* starts the timeout of the connection anew (connActive()), or the pool never
\* gets through with the job.
AllReleased ==
    \/ []<><<Trickle>>_vars
    \/ <>[](job \in {"queued", "running"})
    \/ (conn = "open") ~> (Released \/ crashed)

\* A request that takes too long is answered with status 503: logging it does
\* not bring swad down.
TimeoutIsAnswered == ~crashed

=============================================================================
