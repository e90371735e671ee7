-------------------------- MODULE ResponseHeaders --------------------------
(***************************************************************************)
(* A response (http/httpresponse.c): handlers and middlewares put fields    *)
(* and a body into it, MW_Compress() (middleware/compress.c), the outermost  *)
(* middleware, may replace the body, and HttpResponse_send() writes the      *)
(* fields to a buffer, whose size it takes from the set, and then sends the  *)
(* body in parts.                                                           *)
(***************************************************************************)
EXTENDS HeaderSet

CONSTANTS RespFields,        \* names and lengths of values handlers use
          BodySizes,         \* sizes a body has, compressed or not
          SizeDigits,        \* how many digits a size takes: a size_t at most 20
          MaxSend,           \* the size of a part: UINT16_MAX
          MaxPuts            \* bound: fields and bodies put by handlers

\* Handlers leave the fields about the body to HttpResponse_passBody() and MW_Compress().
ASSUME RespAssumption ==
    /\ BodySizes \subseteq Nat /\ SizeDigits \in [BodySizes -> 1 .. 20] /\ MaxSend \in Nat \ {0} /\ MaxPuts \in Nat
    /\ {"content-length", "content-encoding", "connection", "keep-alive", "cache-control"} \subseteq HdrNames
    /\ RespFields \subseteq [name : HdrNames \ {"content-length", "content-encoding"}, len : Nat]

VARIABLES respState,         \* "build", "built", "write", "body", "sent" or "aborted"
          respHeaders,
          respBody,          \* bodySize
          puts,              \* observed only: how many fields were put
          hdrIter,           \* the iterator of HttpResponse_send()
          bufSize,           \* bytes allocated for the fields
          written,           \* the fields written so far
          sendPos,
          bodySent           \* observed only: bytes of the body that were sent

respVars == <<respState, respHeaders, respBody, puts, hdrIter, bufSize, written, sendPos, bodySent>>

RespInit == /\ respState = "build" /\ respHeaders = EmptySet /\ respBody = 0 /\ puts = 0
            /\ hdrIter = HeaderSet_all /\ bufSize = 0 /\ written = <<>>
            /\ sendPos = 0 /\ bodySent = 0

Put(hs) == /\ respState = "build" /\ puts < MaxPuts
           /\ respHeaders' = hs /\ puts' = puts + 1
           /\ UNCHANGED <<respState, hdrIter, bufSize, written, sendPos, bodySent>>

\* HttpResponse_create() and MW_Cookies() add a field, all others set it.
AddField(f) == Put(HeaderSet_add(respHeaders, Header(f.name, f.len, f.len))) /\ UNCHANGED respBody
SetField(f) == Put(HeaderSet_set(respHeaders, Header(f.name, f.len, f.len))) /\ UNCHANGED respBody

\* The field that says the size of a body.
ContentLength(size) == Header("content-length", size, SizeDigits[size])

\* Mutant: the size is added to the ones that are there.
PutBodyAdded(hs, size) == HeaderSet_add(hs, ContentLength(size))

\* The fields after HttpResponse_passBody().
PutBody(hs, size) == HeaderSet_set(hs, ContentLength(size))

\* HttpResponse_passBody(); createError() and createRedirect() do the same.
PassBody(size) == Put(PutBody(respHeaders, size)) /\ respBody' = size

\* MW_Compress(): accepted says which encodings the client lists, comp what
\* the compression makes of the body; it is given no more room than the body
\* takes, and its result is used if it needs less.
Compress(accepted, comp) ==
    /\ respState = "build"
    /\ comp <= respBody
    /\ respState' = "built"
    /\ IF respBody > 0 /\ accepted # {} /\ comp < respBody
         THEN /\ respHeaders' = HeaderSet_set(PutBody(respHeaders, comp),
                      IF "gzip" \in accepted THEN Header("content-encoding", "gzip", 4)
                      ELSE Header("content-encoding", "deflate", 7))
              /\ respBody' = comp
         ELSE UNCHANGED <<respHeaders, respBody>>
    /\ UNCHANGED <<puts, hdrIter, bufSize, written, sendPos, bodySent>>

\* pipelineJobDone() says what becomes of the connection.
SetConnection(hs, keep) ==
    IF keep THEN HeaderSet_set(HeaderSet_set(hs, Header("connection", 10, 10)), Header("keep-alive", 20, 20))
    ELSE HeaderSet_set(hs, Header("connection", 5, 5))

\* Then HttpResponse_send() adds Cache-Control unless it is there, asks for the size and allocates.
SendHead ==
    /\ respState = "built"
    /\ \E keep \in BOOLEAN :
         LET c == SetConnection(respHeaders, keep) IN
           respHeaders' = IF HeaderSet_first(c, "cache-control") = NoHeader
                            THEN HeaderSet_add(c, Header("cache-control", 35, 35)) ELSE c
    /\ bufSize' = respHeaders'.size
    /\ hdrIter' = HeaderSet_all
    /\ respState' = "write"
    /\ sendPos' = 0
    /\ UNCHANGED <<respBody, puts, written, bodySent>>

\* The loop over all fields.
WriteField ==
    /\ respState = "write"
    /\ hdrIter' = HeaderIterator_moveNext(respHeaders, hdrIter)
    /\ IF hdrIter'.pos = 0
         THEN respState' = "body" /\ UNCHANGED written
         ELSE /\ written' = Append(written, HeaderIterator_current(respHeaders, hdrIter'))
              /\ UNCHANGED respState
    /\ UNCHANGED <<respHeaders, respBody, puts, bufSize, sendPos, bodySent>>

\* sendBody(), when what was sent last is out: the next part, or the event sent.
SendBody ==
    /\ respState = "body"
    /\ LET remaining == respBody - sendPos
           part == IF remaining > MaxSend THEN MaxSend ELSE remaining
       IN /\ respState' = IF remaining = 0 THEN "sent" ELSE "body"
          /\ sendPos' = sendPos + part
          /\ bodySent' = bodySent + part
    /\ UNCHANGED <<respHeaders, respBody, puts, hdrIter, bufSize, written>>

\* abortSending(): the client closed the connection.
AbortSending ==
    /\ respState = "body"
    /\ respState' = "aborted" /\ sendPos' = 0
    /\ UNCHANGED <<respHeaders, respBody, puts, hdrIter, bufSize, written, bodySent>>

RespNext == \/ \E f \in RespFields : AddField(f) \/ SetField(f)
            \/ \E size \in BodySizes : PassBody(size)
            \/ \E accepted \in SUBSET {"gzip", "deflate"}, comp \in BodySizes : Compress(accepted, comp)
            \/ SendHead \/ WriteField \/ SendBody \/ AbortSending

RespSpec == RespInit /\ [][RespNext]_respVars

-----------------------------------------------------------------------------

Occurs(s, h) == Cardinality({i \in DOMAIN s : s[i] = h})

\* What HttpResponse_send() writes never exceeds the buffer it allocated; when
\* it is done it has filled it, with every field of the set exactly once.
BufferExact ==
    /\ respState = "write" => Bytes(written) <= bufSize
    /\ respState = "body" =>
         /\ Bytes(written) = bufSize /\ Len(written) = respHeaders.count
         /\ \A i \in DOMAIN written :
              Occurs(written, written[i])
                = Occurs(respHeaders.buckets[HdrHash[written[i].name]], written[i])

WrittenAs(n) == {i \in DOMAIN written : written[i].name = n}

\* A response that was sent announced the size of the body that was sent, once
\* and no other size, however often handlers and the compression put one; it
\* announces an encoding at most once.
AnnouncedIsSent ==
    respState = "sent" =>
        /\ Cardinality(WrittenAs("content-encoding")) <= 1
        /\ \A i \in WrittenAs("content-length") : written[i].value = bodySent
        /\ Cardinality(WrittenAs("content-length")) <= 1
        /\ bodySent > 0 => WrittenAs("content-length") # {}

=============================================================================
