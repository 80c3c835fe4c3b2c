--------------------------- MODULE HttpConnection ---------------------------
(***************************************************************************)
(* HTTP::Connection (Connection.cpp): the coroutine that reads pipelined   *)
(* requests out of its StreamReadBuff and answers them one by one.         *)
(*                                                                         *)
(* The module composes the coroutine with its read buffer (StreamReadBuff) *)
(* and with the sending of responses (Response): an action is one call of  *)
(* the coroutine to StreamReadBuff, or one step of ResponseHandler(), with *)
(* all that the coroutine does until the next one.  Nothing else touches   *)
(* their state, so the finer steps change nothing.  Reads and writes may   *)
(* fail, as the peer, OnStep() or Stop() closes the socket (module Server).*)
(*                                                                         *)
(* The stream is counted in cells, of which a request has some for its     *)
(* request line and headers, the last one with the empty line, and some    *)
(* for its content.                                                        *)
(***************************************************************************)
EXTENDS StreamReadBuff, Response, FiniteSets

CONSTANTS Requests,      \* the requests clients send, a subset of Request
          MaxRequests    \* bound on the requests of a connection

\* type: the way ContentHandler() treats a POST; "rejected" has no length or
\* exceeds MaxPostBodyLength, "whole" is url-encoded or of an unknown type.
Request == [method : {"GET", "POST"}, head : Nat \ {0}, body : Nat,
            type : {"whole", "multipart", "rejected"}, keepAlive : BOOLEAN]

ASSUME RequestAssumption ==
  /\ Requests \subseteq Request /\ MaxRequests \in Nat
  /\ \A r \in Requests : r.method = "GET" => r.body = 0
  /\ \A r \in Requests : r.body <= MaxLen /\ StaticSize <= MaxLen

VARIABLES
  reqs,       \* the requests of the client, in the order it sends them
  pc,         \* where the coroutine is
  cur,        \* the request that is parsed, or NoRequest
  rest,       \* what the rest of a request is parsed as, with NoRequest
  HeaderA,    \* the pointers of HeaderA: in which buffer, and if in ReadBuff at
              \*   which offset; history: the cells there when they were parsed
  content,    \* the cells from ContentBuff to ContentEndBuff
  RemLength,  \* of ContentHandler()
  fed,        \* history: cells given to AppendFormMultipart()
  created,    \* history: arguments of IRespSource::Create()
  mixed       \* history: a content held more cells than its request has

buffVars == <<buff, BuffSize, pos, hist>>
connVars == <<reqs, pc, cur, rest, HeaderA, content, RemLength, fed, created,
              mixed>>
allVars == <<vars, connVars, respVars>>

NoRequest == 0      \* the rest of a request is parsed as a request
NoHeaders == [method |-> "GET", head |-> 1, body |-> 0, type |-> "whole",
              keepAlive |-> FALSE]
PointTo(buffer) == [in |-> buffer, at |-> 0, cells |-> << >>]
Size(r) == r.head + r.body
Start ==            \* the first cell of each request
  LET S[k \in 1 .. Len(reqs) + 1] ==
        IF k = 1 THEN 0 ELSE S[k - 1] + Size(reqs[k - 1])
  IN S
Total == Start[Len(reqs) + 1]
BodyOf(k) == [i \in 1 .. reqs[k].body |-> Start[k] + reqs[k].head + i - 1]

ConnInit ==
  /\ Init /\ RespInit
  /\ \E n \in 0 .. MaxRequests : reqs \in [1 .. n -> Requests]
  /\ pc = "header" /\ cur = NoRequest /\ rest = NoHeaders
  /\ HeaderA = PointTo("nowhere")
  /\ content = << >> /\ RemLength = 0
  /\ fed = << >> /\ created = << >> /\ mixed = FALSE

-----------------------------------------------------------------------------
\* ContinueRead() with room in ReadBuff: async_read_some() returns some cells.
ContinueRead ==
  /\ FreeLength > 0
  /\ \E n \in 1 .. AtMost(FreeLength, Total - received) : OnNewData(n)

\* The coroutine ends: the socket is closed, and IsDeletable=true.
End == pc' = "ended"
\* A read or a write throws, or what a generator waits for.
Writing == phase \in {"headers", "final"} \/ (phase = "block" /\ block # << >>)
Generating == phase = "read" /\ resp.source = "generated"
Suspended ==
  \/ pc \in {"header", "whole_read", "multipart_read"}
  \/ pc = "write" /\ (Writing \/ Generating)
Fail ==
  /\ Suspended /\ End /\ EndResponse
  /\ UNCHANGED <<vars, reqs, cur, rest, HeaderA, content, RemLength, fed,
                 created, mixed>>

-----------------------------------------------------------------------------
(* HeaderHandler().                                                        *)

ReadHeader ==
  /\ pc = "header" /\ Available = 0
  /\ ContinueRead
  /\ UNCHANGED connVars

\* ReadBuff is full: ContinueRead() does not read.  The space in front of the
\* kept data is not used here.
HeaderTooLong ==
  /\ pc = "header" /\ Available = 0 /\ FreeLength = 0
  /\ End
  /\ UNCHANGED <<vars, reqs, cur, rest, HeaderA, content, RemLength, fed,
                 created, mixed>>

ParseStart == ParserPos - RelevantLength
\* The cell with the next empty line.
HeaderEnds == {Start[k] + reqs[k].head - 1 : k \in DOMAIN reqs}
NextHeaderEnd ==
  CHOOSE e \in HeaderEnds : /\ e >= ParserPos
                            /\ \A f \in HeaderEnds : f >= ParserPos => e <= f
EmptyLineIsIn ==
  \E e \in HeaderEnds : e >= ParserPos /\ e < ParserPos + Available

ConsumeHeaders ==
  /\ pc = "header" /\ Available > 0 /\ ~EmptyLineIsIn
  /\ Consume(Available, TRUE)
  /\ UNCHANGED connVars

\* ParseRequestLine() of what begins at ParseStart: the request that does.
RequestAt == {k \in DOMAIN reqs : Start[k] = ParseStart}

\* The lines behind the request line; a head of one cell has both in it.
ParsedHeaders ==
  LET first == IF RelevantLength > 1 THEN FrontSpace + 1 ELSE FrontSpace IN
  [in |-> "ReadBuff", at |-> first,
   cells |-> [i \in 1 .. ReadPos - first |-> buff[first + i - 1]]]

AfterHeaders(r) == IF r.method = "POST" THEN "content" ELSE "respond"

\* ResetRequestData() has left ContentBuff alone.  The first line of the rest of
\* a request may by chance be the request line of any request.
EndHeaders ==
  /\ pc = "header" /\ Available > 0 /\ EmptyLineIsIn
  /\ Consume(NextHeaderEnd + 1 - ParserPos, TRUE)
  /\ HeaderA' = ParsedHeaders'
  /\ \/ \E k \in RequestAt :
          cur' = k /\ rest' = NoHeaders /\ pc' = AfterHeaders(reqs[k])
     \/ /\ RequestAt = {} /\ cur' = NoRequest
        /\ \/ \E r \in Requests \union {NoHeaders} :
                rest' = r /\ pc' = AfterHeaders(r)
           \/ rest' = NoHeaders /\ pc' = "ended"
  /\ UNCHANGED <<reqs, content, RemLength, fed, created, mixed>>

-----------------------------------------------------------------------------
(* ContentHandler().                                                       *)

Req == IF cur = NoRequest THEN rest ELSE reqs[cur]

BeginContent ==
  /\ pc = "content"
  /\ IF Req.type = "rejected"
       THEN pc' = "ended" /\ UNCHANGED <<content, RemLength, fed>>
       ELSE /\ content' = << >> /\ RemLength' = Req.body /\ fed' = << >>
            /\ pc' = IF Req.body = 0 THEN "respond"
                     ELSE IF Req.type = "whole" THEN "whole"
                     ELSE "multipart_begin"
  /\ UNCHANGED <<vars, reqs, cur, rest, HeaderA, created, mixed>>

\* The pointers of HeaderA still show what was parsed.
HeadersIntact ==
  /\ HeaderA.in # "lost"
  /\ HeaderA.in = "ReadBuff" =>
       \A i \in DOMAIN HeaderA.cells :
         buff[HeaderA.at + i - 1] = HeaderA.cells[i]

\* The pointers after a RequestData().  A move within ReadBuff does not tell
\* them; neither does a new ReadBuff, but StaticBuff stays as it is behind it,
\* while an older buffer is deleted.
HeadersAfterRequest ==
  IF HeaderA.in = "ReadBuff" /\ BuffSize' # BuffSize
    THEN PointTo(IF BuffSize = StaticSize /\ HeadersIntact
                   THEN "StaticBuff" ELSE "lost")
    ELSE HeaderA

\* RequestData(), in the loop that reads the whole content.
WholeLengthWithHeaders == Size(Req)          \* a slip: counts the headers, too
WholeLength == Req.body
RequestWhole ==
  /\ pc = "whole"
  /\ RequestData(WholeLength)
  /\ pc' = IF asked' THEN "whole_read" ELSE "whole_take"
  /\ HeaderA' = HeadersAfterRequest
  /\ UNCHANGED <<reqs, cur, rest, content, RemLength, fed, created, mixed>>

ReadWhole ==
  /\ pc = "whole_read"
  /\ ContinueRead
  /\ pc' = "whole"
  /\ UNCHANGED <<reqs, cur, rest, HeaderA, content, RemLength, fed, created,
                 mixed>>

\* The first n cells that are available.
CellsKept(n) ==                              \* a slip: GetRelevantData() used
  [i \in 1 .. n |-> buff[ReadPos - RelevantLength + i - 1]]
Cells(n) == [i \in 1 .. n |-> buff[ReadPos + i - 1]]

\* Everything that is available is taken for the content.
TakeWhole ==
  /\ pc = "whole_take"
  /\ content' = Cells(Available)
  /\ mixed' = (mixed \/ Available > Req.body)
  /\ Consume(Available, TRUE)
  /\ pc' = "respond"
  /\ UNCHANGED <<reqs, cur, rest, HeaderA, RemLength, fed, created>>

\* The headers are copied to PostHeaderBuff, and HeaderA refers to the copy.
HeadersSavedNot == HeaderA                   \* a slip: pointers not offset
HeadersSaved == PointTo(IF HeadersIntact THEN "PostHeaderBuff" ELSE "lost")
BeginMultipart ==
  /\ pc = "multipart_begin"
  /\ HeaderA' = HeadersSaved
  /\ ResetRelevant
  /\ pc' = "multipart"
  /\ UNCHANGED <<reqs, cur, rest, content, RemLength, fed, created, mixed>>

\* How much of what is available belongs to the content.
PartLengthAll == Available                   \* a slip: the next request, too
PartLength == AtMost(Available, RemLength)

FeedMultipart ==
  /\ pc = "multipart"
  /\ fed' = fed \o Cells(PartLength)
  /\ Consume(PartLength, FALSE)
  /\ RemLength' = RemLength - PartLength
  /\ pc' = IF Available < RemLength THEN "multipart_request" ELSE "respond"
  /\ UNCHANGED <<reqs, cur, rest, HeaderA, content, created, mixed>>

RequestMultipart ==
  /\ pc = "multipart_request"
  /\ RequestData(AtMost(RemLength, StaticSize))
  /\ pc' = "multipart_read"
  /\ HeaderA' = HeadersAfterRequest
  /\ UNCHANGED <<reqs, cur, rest, content, RemLength, fed, created, mixed>>

ReadMultipart ==
  /\ pc = "multipart_read"
  /\ ContinueRead
  /\ pc' = "multipart"
  /\ UNCHANGED <<reqs, cur, rest, HeaderA, content, RemLength, fed, created,
                 mixed>>

-----------------------------------------------------------------------------
(* ResponseHandler(), and the end of the loop of ProtocolHandler().        *)

\* Create(), and the headers of its response.
Respond ==
  /\ pc = "respond"
  /\ created' = Append(created, [req |-> cur, headers |-> HeadersIntact,
                                 content |-> content])
  /\ \E r \in Responses : BeginResponse(r)
  /\ pc' = "write"
  /\ UNCHANGED <<vars, reqs, cur, rest, HeaderA, content, RemLength, fed,
                 mixed>>

\* The response is sent; ProtocolHandler() goes on when that is over.
WriteResponse ==
  /\ pc = "write" /\ SendStep
  /\ pc' = IF phase' # "end" THEN "write"
           ELSE IF Continues' THEN "discard" ELSE "ended"
  /\ UNCHANGED <<vars, reqs, cur, rest, HeaderA, content, RemLength, fed,
                 created, mixed>>

\* ResetRelevant() returns at once when nothing is kept.
DiscardFully == Reset                        \* a slip: Reset() called
Discard ==
  \/ ResetRelevant
  \/ (RelevantLength = 0 \/ ReadPos = 0) /\ UNCHANGED vars

\* For the rest of a request, and where HeaderA points to something else, what
\* is found there tells whether the connection goes on.
KeepsAlive ==
  IF cur = NoRequest \/ ~HeadersIntact THEN BOOLEAN ELSE {Req.keepAlive}

EndRequest ==
  /\ pc = "discard"
  /\ EndResponse /\ Discard
  /\ \E keep \in KeepsAlive : pc' = IF keep THEN "header" ELSE "ended"
  /\ cur' = NoRequest /\ rest' = NoHeaders /\ HeaderA' = PointTo("nowhere")
  /\ UNCHANGED <<reqs, content, RemLength, fed, created, mixed>>

-----------------------------------------------------------------------------
Step ==
  \/ ReadHeader \/ HeaderTooLong \/ ConsumeHeaders \/ EndHeaders
  \/ BeginContent \/ RequestWhole \/ ReadWhole \/ TakeWhole
  \/ BeginMultipart \/ FeedMultipart \/ RequestMultipart \/ ReadMultipart

Reading == Step /\ UNCHANGED respVars
Sending == Respond \/ WriteResponse
FileCut == FileTruncated /\ UNCHANGED <<vars, connVars>>

ConnNext == Reading \/ Sending \/ EndRequest \/ Fail \/ FileCut

\* The coroutine runs on as soon as its read or write is over; a client sends
\* what it has begun to send, and accepts its responses.
ConnSpec == ConnInit /\ [][ConnNext]_allVars /\ WF_allVars(Reading \/ Sending \/ EndRequest)

-----------------------------------------------------------------------------
\* Every variable of the coroutine and of its buffer keeps its type; RemLength
\* never becomes negative.
ConnTypeOK ==
  /\ TypeOK /\ RespTypeOK /\ reqs \in Seq(Requests)
  /\ pc \in {"header", "content", "whole", "whole_read", "whole_take",
             "multipart_begin", "multipart", "multipart_request",
             "multipart_read", "respond", "write", "discard", "ended"}
  /\ cur \in {NoRequest} \union DOMAIN reqs
  /\ rest \in Requests \union {NoHeaders}
  /\ HeaderA \in [in : {"nowhere", "ReadBuff", "StaticBuff", "PostHeaderBuff",
                        "lost"}, at : Nat, cells : Seq(Byte)]
  /\ content \in Seq(0 .. Total) /\ fed \in Seq(0 .. Total)
  /\ RemLength \in 0 .. MaxLen /\ mixed \in BOOLEAN

\* As long as no content ran into the request behind it, the response source
\* gets the requests of the client, each once and in their order.
RequestsInOrder ==
  ~mixed => \A i \in DOMAIN created : created[i].req = i

\* The multipart parser gets the content of its request and nothing else,
\* cut anywhere, while the buffer is moved, enlarged and refilled under it.
Fed(k) == /\ Len(fed) <= reqs[k].body /\ Len(fed) + RemLength = reqs[k].body
          /\ fed = SubSeq(BodyOf(k), 1, Len(fed))
MultipartExact ==
  cur # NoRequest /\ Req.method = "POST" /\ Req.type = "multipart"
    /\ pc \notin {"content", "ended"}
    => /\ Fed(cur)
       /\ pc \in {"respond", "write", "discard"} => fed = BodyOf(cur)

\* The content a POST is created with begins with the cells of its own content.
ContentBeginsOwn ==
  \A i \in DOMAIN created :
    LET k == created[i].req IN
    k # NoRequest /\ reqs[k].method = "POST" /\ reqs[k].type = "whole"
      => SubSeq(created[i].content, 1, reqs[k].body) = BodyOf(k)

\* HeaderA shows the headers of its request, unless a content is read as a
\* whole, although the content of a multipart request is moved and read over
\* the bytes they were parsed from.
HeadersInPlace ==
  ~HeadersIntact =>
    Req.method = "POST" /\ Req.type = "whole" /\ Req.body > 0

\* Every request is answered to the end, or the connection is closed, as long as
\* no content swallows a request: the coroutine does not wait for bytes beyond
\* those of the request, and does not spin on a full buffer or an empty block.
Answered == Len(created) = Len(reqs) /\ pc = "header"
AllAnswered == <>(pc = "ended" \/ mixed \/ Answered)

-----------------------------------------------------------------------------
\* IRespSource.h:43 "The objects passed to this method can be modified, and
\* will stay valid until the returned object is destroyed." HeaderA is one.
HeadersStayValid == \A i \in DOMAIN created : created[i].headers
=============================================================================
