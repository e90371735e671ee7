------------------------ MODULE HttpConnection_proofs ------------------------
(***************************************************************************)
(* Proofs about HttpConnection, for any number of requests and of pieces   *)
(* of a response, and for any timeouts.                                    *)
(***************************************************************************)
EXTENDS HttpConnection, TLAPS

Good == ObjStates \ {"misused"}

\* The connection is always in one of five phases, which say who may touch the
\* objects of the current request.
Unused ==
    /\ conn = "none" /\ onClosed = {}
    /\ job = "none" /\ onFinished = "none" /\ sending = Null /\ onSent = "none"
    /\ ctxResp = Null /\ cur = 1

\* The request is being received; it is deleted when the connection is lost.
Receiving ==
    /\ conn = "open" /\ onClosed = {"connClosed", "connectionLost"}
    /\ job = "none" /\ onFinished = "none" /\ sending = Null /\ onSent = "none"
    /\ ctxResp = Null /\ req[cur] = "live"

\* What the job has, whether its connection is still there or not.
JobHas ==
    /\ job \in {"queued", "running", "finished"}
    /\ req[cur] = "live" /\ ctx[cur] = "live"
    /\ ctxResp = Null \/ (ctxResp = Own(cur) /\ resp[ctxResp] = "live")
    /\ sending = Null /\ onSent = "none"

\* The pipeline is queued, runs, or has run.
Working ==
    /\ conn = "open" /\ onClosed = {"connClosed", "connectionClosed", "pipelineJobCanceled"}
    /\ JobHas /\ onFinished = "done" /\ ctxConn
    /\ job = "finished" /\ ~canceled => ctxResp # Null

\* A response is being sent, and deleted with the request and the context when
\* this is done or the connection closed.
Sending ==
    /\ conn = "open" /\ job = "none" /\ onFinished = "none"
    /\ sending \in {Own(cur), Late(cur)} /\ resp[sending] = "live"
    /\ \/ /\ onSent = "reuse" /\ req[cur] = "live" /\ ctx[cur] = "live"
          /\ onClosed = {"connClosed", "connectionClosed", "abortSending"}
       \/ /\ onSent = "single"
          /\ onClosed = {"connClosed", "abortSending"}

\* The connection is gone; a job may not have noticed yet.
Gone ==
    /\ conn = "closed" /\ onClosed = {} /\ onNamed = {}
    /\ sending = Null /\ onSent = "none"
    /\ \/ job = "none" /\ onFinished = "none"
       \/ JobHas /\ onFinished = "canceled"

\* Until the name of the remote host is known, a context that waits for it is
\* the current one, and alive.
NamesWaiting ==
    /\ host => named
    /\ ~named => onNamed \subseteq {cur} /\ (cur \in onNamed => ctx[cur] = "live")

ConnTypes ==
    /\ cur \in Reqs /\ named \in BOOLEAN /\ host \in BOOLEAN /\ keep \in BOOLEAN
    /\ req \in [Reqs -> Good] /\ ctx \in [Reqs -> Good] /\ resp \in [Resps -> Good]

ConnInv ==
    /\ ConnTypes /\ NamesWaiting
    /\ Unused \/ Receiving \/ Working \/ Sending \/ Gone

LEMMA RespNames ==
    ASSUME NEW i \in Reqs
    PROVE  /\ Own(i) \in Resps /\ Late(i) \in Resps
           /\ Own(i) # Null /\ Late(i) # Null /\ Own(i) # Late(i)
BY ConnAssumption DEF Own, Late, Resps, Null, Reqs

LEMMA ConnInit == Init => ConnInv
<1> SUFFICES ASSUME Init PROVE ConnInv
  OBVIOUS
<1>1. cur \in Reqs /\ keep = FALSE /\ named = FALSE /\ host = FALSE /\ onNamed = {}
  BY ConnAssumption DEF Init, Reqs
<1>2. req \in [Reqs -> Good] /\ ctx \in [Reqs -> Good] /\ resp \in [Resps -> Good]
  BY DEF Init, Good, ObjStates
<1>3. Unused
  BY DEF Init, Unused
<1> QED
  BY <1>1, <1>2, <1>3 DEF ConnInv, ConnTypes, NamesWaiting

\* What becomes of the objects is never misuse.
LEMMA Objects ==
    /\ Later("live") = "scheduled" /\ Free("live") = "freed" /\ Destroy("live") = "freed"
    /\ {"none", "live", "scheduled", "freed"} \subseteq Good
BY DEF Later, Free, Destroy, Good, ObjStates

\* Purging leaves what lives alone and misuses nothing.
LEMMA PurgeGood ==
    ASSUME NEW S, NEW f \in [S -> Good]
    PROVE  /\ Purge(f) \in [S -> Good]
           /\ \A x \in S : f[x] = "live" => Purge(f)[x] = "live"
BY DEF Purge, Good, ObjStates

-----------------------------------------------------------------------------
(* The end of the connection, from each of the phases it can come in.       *)

LEMMA CloseReceiving ==
    ASSUME ConnInv, Receiving, Close(onClosed, req, ctx, resp)
    PROVE  ConnInv'
<1>1. /\ conn' = "closed" /\ onClosed' = {} /\ onNamed' = {} /\ sending' = Null /\ onSent' = "none"
      /\ req' = [req EXCEPT ![cur] = "scheduled"] /\ resp' = resp /\ ctx' = ctx
      /\ UNCHANGED <<named, host, keep, cur, job, onFinished>>
  BY Objects DEF Receiving, Close
<1>2. Gone'
  BY <1>1 DEF Receiving, Gone
<1>3. ConnTypes' /\ NamesWaiting'
  BY <1>1, Objects DEF ConnInv, ConnTypes, NamesWaiting
<1> QED
  BY <1>2, <1>3 DEF ConnInv

LEMMA CloseWorking ==
    ASSUME ConnInv, Working, Close(onClosed, req, ctx, resp)
    PROVE  ConnInv'
<1>1. /\ conn' = "closed" /\ onClosed' = {} /\ onNamed' = {} /\ sending' = Null /\ onSent' = "none"
      /\ onFinished' = "canceled"
      /\ UNCHANGED <<named, host, keep, cur, job, req, resp, ctx, ctxResp>>
  BY DEF Working, Close
<1>2. Gone'
  BY <1>1 DEF Working, Gone, JobHas, Own
<1>3. ConnTypes' /\ NamesWaiting'
  BY <1>1 DEF ConnInv, ConnTypes, NamesWaiting
<1> QED
  BY <1>2, <1>3 DEF ConnInv

\* While a response is being sent, nothing is left to do for a request and a
\* context that were given up already.
LEMMA CloseSending ==
    ASSUME ConnInv, Sending, Close(onClosed, req, ctx, resp)
    PROVE  ConnInv'
<1>1. /\ conn' = "closed" /\ onClosed' = {} /\ onNamed' = {} /\ sending' = Null /\ onSent' = "none"
      /\ resp' = [resp EXCEPT ![sending] = "scheduled"]
      /\ UNCHANGED <<named, host, keep, cur, job, onFinished>>
  BY Objects DEF Sending, Close
<1>2. Gone'
  BY <1>1 DEF Sending, Gone
<1>3. /\ req' = req \/ req' = [req EXCEPT ![cur] = "scheduled"]
      /\ ctx' = ctx \/ ctx' = [ctx EXCEPT ![cur] = "freed"]
  BY Objects DEF Sending, Close
<1>4. ConnTypes' /\ NamesWaiting'
  BY <1>1, <1>3, Objects DEF ConnInv, ConnTypes, NamesWaiting
<1> QED
  BY <1>2, <1>4 DEF ConnInv

LEMMA CloseAny ==
    ASSUME ConnInv, conn = "open", Close(onClosed, req, ctx, resp)
    PROVE  ConnInv'
BY CloseReceiving, CloseWorking, CloseSending DEF ConnInv, Unused, Gone

-----------------------------------------------------------------------------
(* Sending a response.                                                     *)

\* The response and the context that go into SendResponse() are alive; without
\* reuse the context is freed at once, and no longer waits for a name.
LEMMA SendsResponse ==
    ASSUME ConnTypes, req[cur] = "live", conn' = "open", cur' = cur,
           job' = "none", onFinished' = "none", keep' \in BOOLEAN,
           NEW r \in {Own(cur), Late(cur)}, NEW logged, NEW reuse \in BOOLEAN,
           NEW reg, reg = {"connClosed", "connectionClosed"},
           NEW names, ~named => names \subseteq {cur},
           NEW cx \in [Reqs -> Good], cx[cur] = "live",
           NEW rs \in [Resps -> Good], rs[r] = "live",
           NEW known \in BOOLEAN, known => named,
           SendResponse(r, logged, reuse, reg, known, names, cx, rs)
    PROVE  ConnInv'
<1>1. /\ resp' = rs /\ sending' = r
      /\ onSent' = IF reuse THEN "reuse" ELSE "single"
      /\ onClosed' = (IF reuse THEN reg ELSE reg \ {"connectionClosed"}) \cup {"abortSending"}
      /\ ctx' = IF reuse THEN cx ELSE [cx EXCEPT ![cur] = "freed"]
      /\ onNamed' = IF reuse THEN names ELSE Unregister(known, names)
      /\ host' = known /\ named' = named
      /\ req' = IF reuse THEN req ELSE [req EXCEPT ![cur] = "scheduled"]
  BY Objects DEF SendResponse
<1>2. ConnTypes'
  BY <1>1, Objects DEF ConnTypes
<1>3. NamesWaiting'
  <2>1. CASE reuse
    BY <1>1, <2>1 DEF NamesWaiting
  <2>2. CASE ~reuse
    BY <1>1, <2>2 DEF NamesWaiting, Unregister
  <2> QED
    BY <2>1, <2>2
<1>4. Sending'
  <2>1. CASE reuse
    BY <1>1, <2>1 DEF Sending, Own, Late, ConnTypes
  <2>2. CASE ~reuse
    <3>1. onClosed' = {"connClosed", "abortSending"}
      BY <1>1, <2>2
    <3> QED
      BY <1>1, <2>2, <3>1 DEF Sending, Own, Late
  <2> QED
    BY <2>1, <2>2
<1> QED
  BY <1>2, <1>3, <1>4 DEF ConnInv

LEMMA StepSentSingle ==
    ASSUME ConnInv, SentSingle
    PROVE  ConnInv'
<1>1. Sending /\ onSent = "single" /\ onClosed = {"connClosed", "abortSending"}
  BY DEF ConnInv, SentSingle, Unused, Receiving, Working, JobHas, Sending, Gone
<1>2. /\ conn' = "closed" /\ onClosed' = {} /\ onNamed' = {} /\ sending' = Null /\ onSent' = "none"
      /\ resp' = [resp EXCEPT ![sending] = "scheduled"] /\ req' = req /\ ctx' = ctx
      /\ UNCHANGED <<named, host, keep, cur, job, onFinished>>
  BY <1>1, Objects DEF SentSingle, Close, Sending
<1>3. Gone'
  BY <1>1, <1>2 DEF Sending, Gone
<1>4. ConnTypes' /\ NamesWaiting'
  BY <1>2, Objects DEF ConnInv, ConnTypes, NamesWaiting
<1> QED
  BY <1>3, <1>4 DEF ConnInv

LEMMA StepSentReuse ==
    ASSUME ConnInv, SentReuse
    PROVE  ConnInv'
<1>1. /\ Sending /\ onSent = "reuse" /\ req[cur] = "live" /\ ctx[cur] = "live"
      /\ onClosed = {"connClosed", "connectionClosed", "abortSending"}
  BY DEF ConnInv, SentReuse, Unused, Receiving, Working, JobHas, Sending, Gone
<1>2. cur + 1 \in Reqs /\ cur \in Reqs /\ cur + 1 # cur /\ sending \in Resps
  BY <1>1, RespNames, ConnAssumption DEF ConnInv, ConnTypes, SentReuse, Reqs, Sending
<1>3. /\ conn' = conn /\ cur' = cur + 1 /\ sending' = Null /\ onSent' = "none" /\ ctxResp' = Null
      /\ keep' = FALSE
      /\ req' = [req EXCEPT ![cur] = "scheduled", ![cur + 1] = "live"]
      /\ resp' = [resp EXCEPT ![sending] = "scheduled"]
      /\ ctx' = [ctx EXCEPT ![cur] = "freed"]
      /\ onClosed' = (onClosed \ {"abortSending", "connectionClosed"}) \cup {"connectionLost"}
      /\ onNamed' = Unregister(host, onNamed) /\ host' = FALSE
      /\ UNCHANGED <<named, job, onFinished>>
  BY <1>1, <1>2, Objects DEF SentReuse, jobVars, Sending
<1>4. ConnTypes'
  BY <1>2, <1>3, Objects DEF ConnInv, ConnTypes
<1>5. NamesWaiting'
  BY <1>3 DEF ConnInv, ConnTypes, NamesWaiting, Unregister
<1>6. req'[cur + 1] = "live"
  BY <1>2, <1>3 DEF ConnInv, ConnTypes
<1>7. onClosed' = {"connClosed", "connectionLost"}
  BY <1>1, <1>3
<1>8. Receiving'
  BY <1>1, <1>3, <1>6, <1>7 DEF Receiving, Sending
<1> QED
  BY <1>4, <1>5, <1>8 DEF ConnInv

-----------------------------------------------------------------------------
(* Receiving a request.                                                    *)

LEMMA StepConnect ==
    ASSUME ConnInv, Connect
    PROVE  ConnInv'
<1>1. Unused
  BY DEF ConnInv, Connect, Unused, Receiving, Working, Sending, Gone
<1>2. /\ conn' = "open" /\ req' = [req EXCEPT ![1] = "live"] /\ onClosed' = {"connClosed", "connectionLost"}
      /\ UNCHANGED <<named, host, onNamed, cur, ctx, resp, ctxResp, keep, sending, onSent, job, onFinished>>
  BY DEF Connect, nameVars, respVars, jobVars
<1>3. ConnTypes' /\ NamesWaiting'
  BY <1>2, Objects DEF ConnInv, ConnTypes, NamesWaiting
<1>4. Receiving'
  BY <1>1, <1>2 DEF Unused, Receiving, ConnInv, ConnTypes
<1> QED
  BY <1>3, <1>4 DEF ConnInv

LEMMA ReceivedPhase ==
    ASSUME ConnInv, Received
    PROVE  Receiving /\ conn = "open" /\ Watching = {"connClosed", "connectionClosed"}
BY DEF ConnInv, Received, Unused, Receiving, Working, Sending, Gone, Watching

\* A context that is created waits for the name alone.
LEMMA RegisterNames ==
    ASSUME ConnInv
    PROVE  ~named => Register(named, onNamed) \subseteq {cur}
BY DEF ConnInv, NamesWaiting, Register

LEMMA StepRequestReceived ==
    ASSUME ConnInv, RequestReceived
    PROVE  ConnInv'
<1>1. Receiving /\ conn = "open" /\ Watching = {"connClosed", "connectionClosed"}
  BY ReceivedPhase DEF RequestReceived
<1>2. /\ ctx' = [ctx EXCEPT ![cur] = "live"]
      /\ onClosed' = {"connClosed", "connectionClosed", "pipelineJobCanceled"}
      /\ job' = "queued" /\ canceled' = FALSE /\ onFinished' = "done" /\ ctxConn' = TRUE
      /\ host' = named /\ onNamed' = Register(named, onNamed)
      /\ UNCHANGED <<conn, named, cur, req, ctxResp, keep, resp, sending, onSent>>
  BY <1>1 DEF RequestReceived, Received, respVars
<1>3. ConnTypes' /\ ctx'[cur] = "live"
  BY <1>2, Objects DEF ConnInv, ConnTypes
<1>4. NamesWaiting'
  BY <1>2, <1>3, RegisterNames DEF NamesWaiting
<1>5. Working'
  BY <1>1, <1>2, <1>3 DEF Receiving, Working, JobHas
<1> QED
  BY <1>3, <1>4, <1>5 DEF ConnInv

LEMMA StepRequestRefused ==
    ASSUME ConnInv, RequestRefused
    PROVE  ConnInv'
<1>1. Receiving /\ conn = "open" /\ Watching = {"connClosed", "connectionClosed"}
  BY ReceivedPhase DEF RequestRefused
<1> DEFINE cx == [ctx EXCEPT ![cur] = "live"]
           rs == [resp EXCEPT ![Own(cur)] = "live"]
<1>2. /\ SendResponse(Own(cur), Own(cur), keep', Watching, named, Register(named, onNamed), cx, rs)
      /\ keep' \in BOOLEAN /\ conn' = "open" /\ cur' = cur /\ job' = job /\ onFinished' = onFinished
  BY <1>1 DEF RequestRefused, jobVars
<1>3. ConnTypes /\ Own(cur) \in Resps
  BY RespNames DEF ConnInv, ConnTypes
<1>4. cx \in [Reqs -> Good] /\ cx[cur] = "live"
  BY <1>3, Objects DEF ConnTypes
<1>5. rs \in [Resps -> Good] /\ rs[Own(cur)] = "live"
  BY <1>3, Objects DEF ConnTypes
<1>6. /\ req[cur] = "live" /\ job' = "none" /\ onFinished' = "none" /\ named \in BOOLEAN
  BY <1>1, <1>2, <1>3 DEF Receiving, ConnTypes
<1> HIDE DEF cx, rs
<1> QED
  BY <1>1, <1>2, <1>3, <1>4, <1>5, <1>6, RegisterNames, SendsResponse

-----------------------------------------------------------------------------
(* The job, with and without its connection.                               *)

\* The objects of a job are those of the current request, in either phase.
LEMMA JobPhase ==
    ASSUME ConnInv, job # "none"
    PROVE  /\ JobHas /\ ctxResp \in Resps \cup {Null} /\ (Working \/ Gone)
           /\ onFinished = "done" => Working
           /\ onFinished = "canceled" => Gone
BY RespNames DEF ConnInv, ConnTypes, Unused, Receiving, Working, Sending, Gone, JobHas

LEMMA StepJob ==
    ASSUME ConnInv, Job
    PROVE  ConnInv'
<1>1. /\ JobHas /\ ctxResp \in Resps \cup {Null} /\ (Working \/ Gone)
      /\ ConnTypes /\ NamesWaiting /\ job # "none"
  BY JobPhase DEF Job, JobStart, JobRespond, JobEnd, JobDropped, ConnInv
<1>2. /\ UNCHANGED <<conn, onClosed, named, host, onNamed, cur, req, ctx, ctxConn, sending,
                     onSent, canceled, onFinished>>
      /\ job' \in {"queued", "running", "finished"}
  BY <1>1 DEF Job, JobStart, JobRespond, JobEnd, JobDropped, respVars, nameVars, jobVars, JobHas
<1>3. \/ resp' = resp /\ ctxResp' = ctxResp /\ keep' = keep
      \/ resp' = [resp EXCEPT ![Own(cur)] = "live"] /\ ctxResp' = Own(cur) /\ keep' \in BOOLEAN
  BY DEF Job, JobStart, JobRespond, JobEnd, JobDropped, respVars
<1>4. ConnTypes' /\ NamesWaiting'
  BY <1>1, <1>2, <1>3, Objects DEF ConnTypes, NamesWaiting
<1>5. Own(cur)' = Own(cur) /\ Own(cur) \in Resps
  BY <1>1, <1>2, RespNames DEF Own, ConnTypes
<1>6. JobHas'
  <2>1. ctxResp' = Null \/ (ctxResp' = Own(cur)' /\ resp'[ctxResp'] = "live")
    BY <1>1, <1>3, <1>5 DEF JobHas, ConnTypes
  <2> QED
    BY <1>1, <1>2, <2>1 DEF JobHas
<1>7. job' = "finished" /\ ~canceled' /\ Working => ctxResp' # Null
  BY DEF Job, JobStart, JobRespond, JobEnd, JobDropped, respVars, jobVars, Working
<1>8. Working' \/ Gone'
  BY <1>1, <1>2, <1>6, <1>7 DEF Working, Gone
<1> QED
  BY <1>4, <1>8 DEF ConnInv

LEMMA StepJobDone ==
    ASSUME ConnInv, PipelineJobDone
    PROVE  ConnInv'
<1>1. Working /\ ctxResp = Own(cur) /\ resp[ctxResp] = "live"
  BY JobPhase DEF PipelineJobDone, Working, JobHas
<1>2. onClosed \ {"pipelineJobCanceled"} = {"connClosed", "connectionClosed"}
  BY <1>1 DEF Working
<1>3. /\ req[cur] = "live" /\ ctx[cur] = "live" /\ ConnTypes
      /\ job' = "none" /\ onFinished' = "none" /\ conn' = "open" /\ cur' = cur
  BY <1>1 DEF PipelineJobDone, Working, JobHas, ConnInv
<1>4. /\ keep \in BOOLEAN /\ keep' = keep /\ resp \in [Resps -> Good] /\ ctx \in [Reqs -> Good]
      /\ host \in BOOLEAN /\ (host => named) /\ (~named => onNamed \subseteq {cur})
  BY DEF ConnInv, ConnTypes, NamesWaiting, PipelineJobDone
<1>5. SendResponse(Own(cur), Own(cur), keep, {"connClosed", "connectionClosed"}, host, onNamed, ctx, resp)
  BY <1>1, <1>2 DEF PipelineJobDone
<1> QED
  BY <1>1, <1>3, <1>4, <1>5, SendsResponse

\* The response of a job that timed out is destroyed, and its place taken by
\* another one.
LEMMA StepJobTimedOut ==
    ASSUME ConnInv, PipelineJobTimedOut
    PROVE  ConnInv'
<1>1. Working /\ (ctxResp = Null \/ (ctxResp = Own(cur) /\ resp[ctxResp] = "live"))
  BY JobPhase DEF PipelineJobTimedOut, Working, JobHas
<1>2. onClosed \ {"pipelineJobCanceled"} = {"connClosed", "connectionClosed"}
  BY JobPhase DEF PipelineJobTimedOut, Working
<1> DEFINE dropped == IF ctxResp = Null THEN resp ELSE [resp EXCEPT ![ctxResp] = Destroy(@)]
           rs == [dropped EXCEPT ![Late(cur)] = "live"]
<1>3. /\ req[cur] = "live" /\ ctx[cur] = "live" /\ ConnTypes
      /\ job' = "none" /\ onFinished' = "none" /\ conn' = "open" /\ cur' = cur
  BY JobPhase DEF PipelineJobTimedOut, Working, JobHas, ConnInv
<1>4. /\ keep' \in BOOLEAN /\ resp \in [Resps -> Good] /\ ctx \in [Reqs -> Good] /\ cur \in Reqs
      /\ host \in BOOLEAN /\ (host => named) /\ (~named => onNamed \subseteq {cur})
  BY DEF ConnInv, ConnTypes, NamesWaiting, PipelineJobTimedOut
<1>5. SendResponse(Late(cur), ctxResp, FALSE, {"connClosed", "connectionClosed"}, host, onNamed, ctx, rs)
  BY <1>2 DEF PipelineJobTimedOut
<1>6. dropped \in [Resps -> Good]
  BY <1>1, <1>4, Objects
<1>7. rs \in [Resps -> Good] /\ rs[Late(cur)] = "live"
  BY <1>4, <1>6, RespNames, Objects
<1> DEFINE reuse == FALSE
<1>8. reuse \in BOOLEAN /\ Late(cur) \in {Own(cur), Late(cur)}
  OBVIOUS
<1>9. SendResponse(Late(cur), ctxResp, reuse, {"connClosed", "connectionClosed"}, host, onNamed, ctx, rs)
  BY <1>5
<1> HIDE DEF dropped, rs, reuse
<1> QED
  BY <1>3, <1>4, <1>7, <1>8, <1>9, SendsResponse

LEMMA StepJobCanceled ==
    ASSUME ConnInv, PipelineCanceledJobDone
    PROVE  ConnInv'
<1>1. Gone /\ JobHas
  BY JobPhase DEF PipelineCanceledJobDone
<1>2. /\ req' = [req EXCEPT ![cur] = "scheduled"] /\ ctx' = [ctx EXCEPT ![cur] = "freed"]
      /\ resp' = IF ctxResp = Null THEN resp ELSE [resp EXCEPT ![ctxResp] = "freed"]
      /\ job' = "none" /\ onFinished' = "none"
      /\ UNCHANGED <<conn, onClosed, named, host, onNamed, cur, keep, sending, onSent>>
  BY <1>1, Objects DEF PipelineCanceledJobDone, JobHas, nameVars
<1>3. ConnTypes'
  BY <1>2, Objects DEF ConnInv, ConnTypes
<1>4. Gone'
  BY <1>1, <1>2 DEF Gone
<1>5. NamesWaiting'
  BY <1>1, <1>2 DEF ConnInv, NamesWaiting, Gone
<1> QED
  BY <1>3, <1>4, <1>5 DEF ConnInv

-----------------------------------------------------------------------------
(* The other steps.                                                        *)

\* A name that is resolved reaches living contexts only.
LEMMA StepNameResolved ==
    ASSUME ConnInv, NameResolved
    PROVE  ConnInv'
<1>1. /\ ctx' = [i \in Reqs |-> IF i \in onNamed /\ ctx[i] # "live" THEN "misused" ELSE ctx[i]]
      /\ named' = TRUE /\ host' = (host \/ cur \in onNamed)
      /\ UNCHANGED <<conn, onClosed, onNamed, cur, req, ctxConn, ctxResp, keep, resp, sending,
                     onSent, job, canceled, onFinished>>
  BY DEF NameResolved, respVars, jobVars
<1>2. ctx \in [Reqs -> Good] /\ \A i \in onNamed : ctx[i] = "live"
  BY DEF ConnInv, ConnTypes, NamesWaiting, NameResolved
<1>3. ctx' = ctx
  BY <1>1, <1>2
<1>4. host' \in BOOLEAN
  BY <1>1
<1>5. ConnTypes' /\ NamesWaiting'
  BY <1>1, <1>3, <1>4 DEF ConnInv, ConnTypes, NamesWaiting
<1>6. Unused' \/ Receiving' \/ Working' \/ Sending' \/ Gone'
  BY <1>1, <1>3 DEF ConnInv, NameResolved, Unused, Receiving, Working, JobHas, Sending, Gone, Own, Late
<1> QED
  BY <1>5, <1>6 DEF ConnInv

\* Steps that change nothing a phase depends on.
LEMMA StepElsewhere ==
    ASSUME ConnInv,
           UNCHANGED <<conn, onClosed, nameVars, cur, ctx, ctxConn, ctxResp, keep, sending, onSent,
                       job, onFinished>>,
           \/ req' = req /\ resp' = resp
           \/ req' = Purge(req) /\ resp' = Purge(resp),
           canceled' = canceled \/ canceled'
    PROVE  ConnInv'
<1>1. /\ UNCHANGED <<conn, onClosed, named, host, onNamed, cur, ctx, ctxConn, ctxResp, keep,
                     sending, onSent, job, onFinished>>
      /\ Own(cur)' = Own(cur) /\ Late(cur)' = Late(cur)
  BY DEF nameVars, Own, Late
<1>2. /\ req' \in [Reqs -> Good] /\ resp' \in [Resps -> Good]
      /\ req[cur] = "live" => req'[cur] = "live"
      /\ \A r \in Resps : resp[r] = "live" => resp'[r] = "live"
      /\ cur \in Reqs
  BY PurgeGood DEF ConnInv, ConnTypes
<1>3. ConnTypes' /\ NamesWaiting'
  BY <1>1, <1>2 DEF ConnInv, ConnTypes, NamesWaiting
<1>4. Own(cur) \in Resps /\ Late(cur) \in Resps
  BY <1>2, RespNames
<1>5. CASE Unused \/ Receiving
  BY <1>1, <1>2, <1>3, <1>5 DEF Unused, Receiving, ConnInv
<1>6. JobHas => JobHas'
  BY <1>1, <1>2, <1>4 DEF JobHas
<1>7. CASE Working \/ Gone
  BY <1>1, <1>3, <1>6, <1>7 DEF Working, Gone, ConnInv
<1>8. CASE Sending
  BY <1>1, <1>2, <1>3, <1>4, <1>8 DEF Sending, ConnInv
<1> QED
  BY <1>5, <1>7, <1>8 DEF ConnInv

LEMMA ConnStep == ConnInv /\ [Next]_vars => ConnInv'
<1> SUFFICES ASSUME ConnInv, [Next]_vars PROVE ConnInv'
  OBVIOUS
<1>1. CASE ClientCloses \/ IdleTimeout \/ ProtocolError
  BY <1>1, CloseAny DEF ClientCloses, IdleTimeout, ProtocolError
<1>2. CASE Trickle \/ SendPiece \/ JobTimeout \/ Tick \/ UNCHANGED vars
  <2>1. /\ UNCHANGED <<conn, onClosed, nameVars, cur, ctx, ctxConn, ctxResp, keep, sending, onSent,
                       job, onFinished>>
        /\ req' = req /\ resp' = resp /\ (canceled' = canceled \/ canceled')
    BY <1>2 DEF Trickle, SendPiece, JobTimeout, Tick, vars, respVars, jobVars
  <2> QED
    BY <2>1, StepElsewhere
<1>3. CASE EventsDone
  <2>1. /\ UNCHANGED <<conn, onClosed, nameVars, cur, ctx, ctxConn, ctxResp, keep, sending, onSent,
                       job, onFinished>>
        /\ req' = Purge(req) /\ resp' = Purge(resp) /\ canceled' = canceled
    BY <1>3 DEF EventsDone, jobVars
  <2> QED
    BY <2>1, StepElsewhere
<1> QED
  BY <1>1, <1>2, <1>3, StepSentSingle, StepSentReuse, StepConnect, StepRequestReceived,
     StepRequestRefused, StepJob, StepJobDone, StepJobTimedOut, StepJobCanceled,
     StepNameResolved DEF Next, Client, Main

\* No object of a connection is used after it was freed, no response is sent
\* to a connection that is gone: for any number of requests, whenever the
\* client closes, data stalls, the job times out or the name is resolved.
THEOREM MemorySafeCorrect == Spec => []MemorySafe
<1>1. ConnInv => MemorySafe
  <2> SUFFICES ASSUME ConnInv PROVE MemorySafe
    OBVIOUS
  <2>1. /\ \A i \in Reqs : "misused" \notin {req[i], ctx[i]}
        /\ \A r \in Resps : resp[r] # "misused"
    BY DEF ConnInv, ConnTypes, Good
  <2>2. /\ job # "none" => ctx[cur] = "live" /\ req[cur] = "live"
        /\ sending # Null => resp[sending] = "live"
        /\ onSent = "reuse" => ctx[cur] = "live" /\ req[cur] = "live"
        /\ onFinished = "done" => conn = "open" /\ ctxConn
    BY DEF ConnInv, Unused, Receiving, Working, JobHas, Sending, Gone
  <2>3. /\ "connectionLost" \in onClosed => req[cur] = "live"
        /\ "connectionClosed" \in onClosed => ctx[cur] = "live"
        /\ "pipelineJobCanceled" \in onClosed => job # "none" /\ onFinished = "done"
    BY DEF ConnInv, Unused, Receiving, Working, JobHas, Sending, Gone
  <2> QED
    BY <2>1, <2>2, <2>3 DEF MemorySafe
<1> QED
  BY <1>1, ConnInit, ConnStep, PTL DEF Spec

=============================================================================
