--------------------------- MODULE RequestParser ---------------------------
(***************************************************************************)
(* Receiving a request (dataReceived() in http/httprequest.c): the request  *)
(* line, header fields with folded lines, and a body of the length they     *)
(* announce.  The client sends what it likes; the connection delivers       *)
(* lines, and then the body in chunks of any size.                          *)
(*                                                                          *)
(* The value of a field is the sequence of the pieces its lines brought,    *)
(* which are joined by spaces; a piece is a number, Junk (a word that is    *)
(* none) or Blank (nothing).  0 stands for any number that is not positive  *)
(* and MaxBody + 1 for any number that is too large.  A byte of the body is *)
(* its place in what the client sends.                                      *)
(***************************************************************************)
EXTENDS HeaderSet

CONSTANTS MaxBody,       \* MAXBODY
          MaxVal,        \* the room in hdrval
          MaxLines,      \* bound: header lines of a request
          Junk, Blank,
          Unset          \* a byte never written

ASSUME ParserAssumption == /\ MaxBody \in Nat \ {0} /\ MaxVal \in Nat \ {0} /\ MaxLines \in Nat
                           /\ "content-length" \in HdrNames

Methods == {"GET", "POST", "OPTIONS"}
NoBody == {"GET"}        \* also HEAD, DELETE, CONNECT
WithBody == {"POST"}     \* also PUT
Numbers == 0 .. MaxBody + 1
Pieces == Numbers \cup {Junk, Blank}
PieceLen(p) == IF p = Blank THEN 0 ELSE 1

VARIABLES recvState,     \* "method", "headers", "body", "received" or "error"
          meth,
          hdrnm, hdrval, hdrvalpos,  \* the field that is being read
          headers, status,
          bodySize, bodypos, body,
          sent,          \* observed only: the fields the client sent,
          lines,         \* how many lines they took,
          chunks         \* and the chunks of the body

fieldVars == <<hdrnm, hdrval, hdrvalpos>>
bodyVars == <<bodySize, bodypos, body, chunks>>
parserVars == <<recvState, meth, fieldVars, headers, status, bodyVars, sent, lines>>

ParserInit ==
    /\ recvState = "method" /\ meth = "" /\ status = "ok"
    /\ hdrnm = NoKey /\ hdrval = <<>> /\ hdrvalpos = 0 /\ headers = EmptySet
    /\ bodySize = 0 /\ bodypos = 0 /\ body = <<>>
    /\ sent = <<>> /\ lines = 0 /\ chunks = 0

-----------------------------------------------------------------------------

RequestLine(m) ==
    /\ recvState = "method"
    /\ meth' = m /\ recvState' = "headers"
    /\ UNCHANGED <<fieldVars, headers, status, bodyVars, sent, lines>>

\* The protocol error of a line that is too long or malformed, or a folded one
\* without a field: the connection is closed.
BadLine ==
    /\ recvState \in {"method", "headers"}
    /\ recvState' = "error"
    /\ UNCHANGED <<meth, fieldVars, headers, status, bodyVars, sent, lines>>

\* The set once the field that was being read is added.
Committed == IF hdrnm = NoKey THEN headers
             ELSE HeaderSet_add(headers, Header(hdrnm, hdrval, hdrvalpos))

FieldLine(n, p) ==
    /\ recvState = "headers" /\ lines < MaxLines
    /\ headers' = Committed
    /\ hdrnm' = n /\ hdrval' = <<p>> /\ hdrvalpos' = PieceLen(p)
    /\ sent' = Append(sent, [name |-> n, value |-> <<p>>]) /\ lines' = lines + 1
    /\ UNCHANGED <<recvState, meth, status, bodyVars>>

\* The client's view of a folded line: leading blanks vanish.
Folded(v, p) == IF v = <<Blank>> THEN <<p>> ELSE Append(v, p)

Fold(p, room) ==
    /\ recvState = "headers" /\ hdrnm # NoKey /\ lines < MaxLines
    /\ IF room
         THEN /\ hdrval' = IF hdrvalpos > 0 THEN Append(hdrval, p) ELSE <<p>>
              /\ hdrvalpos' = hdrvalpos + (IF hdrvalpos > 0 THEN 1 ELSE 0) + PieceLen(p)
              /\ sent' = [sent EXCEPT ![Len(sent)].value = Folded(@, p)]
              /\ UNCHANGED recvState
         ELSE recvState' = "error" /\ UNCHANGED <<hdrval, hdrvalpos, sent>>
    /\ lines' = lines + 1
    /\ UNCHANGED <<meth, hdrnm, headers, status, bodyVars>>

\* Mutant: the room test forgets the space that joins the pieces.
FoldedLineTight(p) == Fold(p, hdrvalpos + PieceLen(p) <= MaxVal)

FoldedLine(p) ==
    Fold(p, hdrvalpos + (IF hdrvalpos > 0 THEN 1 ELSE 0) + PieceLen(p) <= MaxVal)

\* strtoll(): the number at the begin of a value, and whether anything follows it.
Number(v) == IF v[1] \in Numbers THEN v[1] ELSE 0
RestIgnored(v) == v[1] = Junk    \* mutant: what follows a space is not seen
Rest(v) == Len(v) > 1 \/ v[1] = Junk

\* The tests at the label `received`.
Checked(m, st, size) ==
    IF st = "ok" /\ ((m \in NoBody /\ size > 0) \/ (m \in WithBody /\ size = 0))
      THEN "bad request" ELSE st

Receive(st) == /\ recvState' = "received"
               /\ status' = Checked(meth, st, bodySize)
               /\ UNCHANGED bodyVars

\* The empty line, with hs the fields of the request.
EndOfHeaders(hs) ==
    LET cl == HeaderSet_first(hs, "content-length")
        length == Number(cl.value)
    IN /\ headers' = hs
       /\ CASE cl = NoHeader ->
                 Receive(IF meth \in WithBody THEN "length required" ELSE "ok")
            [] cl # NoHeader /\ length > MaxBody -> Receive("too large")
            [] cl # NoHeader /\ length <= MaxBody /\ (Rest(cl.value) \/ length = 0) ->
                 Receive("bad request")
            [] OTHER ->
                 /\ recvState' = "body"
                 /\ bodySize' = length /\ body' = [i \in 1 .. length |-> Unset]
                 /\ UNCHANGED <<status, bodypos, chunks>>

\* Mutant: the last field is not added.
EmptyLineDrops ==
    /\ recvState = "headers"
    /\ EndOfHeaders(headers)
    /\ hdrnm' = NoKey /\ hdrvalpos' = 0
    /\ UNCHANGED <<meth, hdrval, sent, lines>>

EmptyLine ==
    /\ recvState = "headers"
    /\ EndOfHeaders(Committed)
    /\ hdrnm' = NoKey /\ hdrvalpos' = 0
    /\ UNCHANGED <<meth, hdrval, sent, lines>>

-----------------------------------------------------------------------------

\* How much of a chunk of k bytes belongs to the body.
Taken(k) == IF k > bodySize - bodypos THEN bodySize - bodypos ELSE k

BodyData(k, copied) ==
    /\ recvState = "body"
    /\ body' = [i \in 1 .. bodySize |-> IF i <= copied THEN bodypos + i ELSE body[i]]
    /\ bodypos' = bodypos + Taken(k)
    /\ chunks' = chunks + 1
    /\ IF bodypos' < bodySize
         THEN UNCHANGED <<recvState, status>>
         ELSE recvState' = "received" /\ status' = Checked(meth, status, bodySize)
    /\ UNCHANGED <<meth, fieldVars, headers, bodySize, sent, lines>>

\* A chunk of k bytes; the code copies it to the begin of the body, whatever it
\* has got already.
BodyChunk(k) == BodyData(k, Taken(k))

ParserNext ==
    \/ \E m \in Methods : RequestLine(m)
    \/ BadLine
    \/ \E p \in Pieces : FoldedLine(p) \/ \E n \in HdrNames : FieldLine(n, p)
    \/ EmptyLine
    \/ \E k \in 1 .. MaxBody + 1 : BodyChunk(k)

ParserSpec == ParserInit /\ [][ParserNext]_parserVars

-----------------------------------------------------------------------------

\* Types; what is read of a field fits into hdrval, and a body into its memory.
ParserTypeOK ==
    /\ recvState \in {"method", "headers", "body", "received", "error"}
    /\ meth \in Methods \cup {""}
    /\ hdrnm \in HdrNames \cup {NoKey} /\ hdrval \in Seq(Pieces)
    /\ hdrvalpos \in 0 .. MaxVal
    /\ status \in {"ok", "bad request", "too large", "length required"}
    /\ bodySize \in 0 .. MaxBody /\ bodypos \in 0 .. bodySize
    /\ body \in [1 .. bodySize -> 1 .. MaxBody \cup {Unset}]

\* Where an iterator of HeaderSet_any() gets by moving on, step by step.
Walk(hs, n) == LET at[k \in 0 .. hs.count + 1] ==
                     IF k = 0 THEN HeaderSet_any(n) ELSE HeaderIterator_moveNext(hs, at[k-1])
               IN at

SentAt(n) == {i \in DOMAIN sent : sent[i].name = n}

\* The number of fields with the name n up to the i-th one sent.
UpToSent(n, i) == Cardinality({j \in SentAt(n) : j <= i})

\* Once the headers are read, who walks the fields of a name finds every one the
\* client sent, in order, each with the value its lines make together, and no
\* other: nothing of one field is left in the next, and the last is not forgotten.
HeadersWhole ==
    recvState \in {"body", "received"} =>
        \A n \in HdrNames :
            LET at == Walk(headers, n) IN
            /\ \A i \in SentAt(n) :
                 LET it == at[UpToSent(n, i)] IN
                 it.pos # 0 /\ HeaderIterator_current(headers, it).value = sent[i].value
            /\ at[Cardinality(SentAt(n)) + 1].pos = 0
            /\ HeaderSet_single(headers, n) # NoHeader <=> Cardinality(SentAt(n)) = 1

FirstSent(n, v) == \E i \in SentAt(n) : sent[i].value = v /\ \A j \in SentAt(n) : i <= j

\* A request that is handed on without an error has got exactly the body that
\* its first Content-Length announces, and one if and only if its method asks
\* for it: nothing of it is left in the connection for the next request.  A
\* body that comes in one chunk is stored as it was sent.  (One that comes in
\* several is not, httprequest.c:200: each chunk overwrites the one before.)
BodyAsAnnounced ==
    recvState = "received" /\ status = "ok" =>
        /\ bodypos = bodySize
        /\ meth \in NoBody => SentAt("content-length") = {}
        /\ meth \in WithBody => FirstSent("content-length", <<bodySize>>)
        /\ chunks = 1 => \A i \in 1 .. bodySize : body[i] = i

=============================================================================
