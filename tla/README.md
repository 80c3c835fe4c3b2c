# MiniWebSrv in TLA+

TLA+ models of MiniWebSrv, an embeddable HTTP and WebSocket server (C++,
Boost.Asio), with TLC configurations that check them and TLAPS proofs about the
two buffers, the server, the WebSocket connection and the HTTP connection with
its responses. Line numbers refer to `src/MiniWebSrv/HTTP/`.

## 1. The system

One `Server` owns an `io_context` with one background thread. All handlers run
on that thread: accepting, a timer that steps every connection once a second,
the coroutine of each HTTP connection, and the read and write handlers of each
WebSocket. The other threads are the one that calls `Run()` and `Stop()`, and
those of the WebSocket message handlers, which send under a mutex.

| Component | State | Operations | Talks to |
|---|---|---|---|
| `Server` (Server.cpp) | IsRunning, ConnLst, NextConn, counters, acceptor, timer, RunTh, RunMtx | Run, Stop, OnAccept, OnTimer, StopInternal | starts, steps, stops and deletes connections |
| HTTP `Connection` (Connection.cpp) | socket, ReadBuff, WriteBuff, HeaderA, ContentBuff, CurrQuery, CurrResp, SilentTime, NextConn | ProtocolHandler and its three stages; OnStep, Stop | asks the response source for a response, sends it; hands its socket to a WebSocket |
| Responses (RespSources) | position in a string, file, archive entry or generator | GetLength, Read, Upgrade | called by ResponseHandler |
| WebSocket `Connection` (WSConnection.cpp) | SafeStates, SilentTime, fragments, MyHandler, both buffers | OnRead, OnWrite, Send, Close, OnStep, Stop | IMsgHandler (callbacks), IMsgSender (calls from any thread) |
| `StreamReadBuff` | buffer and four positions | Consume, ResetRelevant, Reset, RequestData, GetReadInfo/OnNewData | one user |
| `WriteBuffQueue` | byte ring, heap blocks, queue of blocks | Allocate, Commit, Pop, Release, Reset | one user |
| `QueryParams` | decoder and parser of bodies, parameters, temporary files | AddURLEncoded, AppendFormMultipart, DeleteUploadedFiles | fed by HeaderHandler (query string) and ContentHandler |
| `Header` (Header.cpp, StringUtils) | name and value of a line, pointers into the read buffer | constructor, GetContentType, ParseContentDisposition, GetDateTime, FormatDateTime | made by HeaderHandler and the multipart parser, read by all response sources |
| Response sources (Combiner, Static, FS, Zip, CORS, handshake) | tables, set up once | Create | called by ResponseHandler; the file system, which others write |
| Filters, logs, coroutine helper, demo program | - | - | - |

What is hard here: a completed operation whose handler has not run yet cannot be
cancelled, so Stop(), timeouts and deletion race with it; a socket moves from an
HTTP connection to a WebSocket while a step may delete the former; pointers into
the read buffer live across calls that move it; requests are pipelined and cut
anywhere by the network; two byte allocators are shared by messages of any
length; a response must keep its framing or close the connection; a client may
write its headers in many ways; files change while they are served. Each
of these is a hazard at a line in `PROJECT.json`, with the properties that cover
it or the reason why none does.

What makes each component correct:

* Server: each connection has one owner, goes only when nothing of it runs, and
  is not forgotten; responses are counted once; Stop returns.
* HTTP connection: requests are served once and in order with their own content;
  pointers handed out stay valid; every request is answered or the connection is
  closed; a connection that is kept alive is in step with its client.
* WebSocket: messages are those that were sent, the handler is told once of the
  end, one write at a time, the object outlives its operations.
* Buffers: no byte is lost, repeated, reordered or overwritten while it is used.
* Query parameters: the result is what the client meant, whatever it had to
  escape, wherever the body is cut; no temporary file is lost.
* Headers: what is read in a line is what the client means by it.
* Response sources: a request is answered by the source mounted at its path,
  nothing outside the root is served, "not modified" is true, and the block of
  response headers holds what the response needs.

## 2. Modules

| Module | Models | State and actions against the code |
|---|---|---|
| `StreamReadBuff` | Common/StreamReadBuff.h | The variables are the fields; pointers are offsets. Stream bytes are numbered, a cell holds the number of its byte, so a lost or repeated byte is seen. One action per method; `asked` keeps a caller from requesting twice without reading in between, as every caller does. |
| `WriteBuffQueue` | Common/WriteBuffQueue.h | Memory is one array of cells, the ring first and the heap buffers behind it; cells of no block hold Garbage. Allocate, Commit, Pop, Release, Reset, with the merging of blocks that touch. Pop is not called between Allocate and Commit, which no caller does. The comment of Allocate says so: another Push or Allocate has to wait for the Commit, and Pop does not return the block before it. |
| `ByteFifo` | - | The abstract queue `WriteBuffQueue` implements: bytes leave in the order they were committed, and a block handed out keeps its bytes. |
| `Server` | Server.cpp, the lifecycle of both connection types | An action is one handler, or one step of the thread that calls Run and Stop. An operation is none, pending, or completed with an outcome its handler will see. Connections are heap addresses that are reused. |
| `Response` | the sending half of ResponseHandler, Read() of each response | An action is what runs between two suspensions: fetch a block, or finish writing one. Bodies are sequences of numbered cells. |
| `HttpConnection` | ProtocolHandler, HeaderHandler, ContentHandler, ResponseHandler | EXTENDS the real read buffer and `Response`: an action is one call to the buffer, or one step of the sending, with all that the coroutine does up to the next. A request is a number of cells for its head and for its content. HeaderA is the place its pointers lead to, with the cells that were there when they were parsed, so that a move that overwrites them, or a buffer that is deleted, is seen. What the rest of a swallowed request is parsed as is any request. |
| `WSConnection` | WSConnection.cpp | One action per handler, or critical section of the message handler. A frame has an opcode, FIN, and "too long"; it arrives in two parts, the header and the rest. The write queue is three counters of blocks. |
| `QueryParams` | QueryParams.cpp: the url-encoded decoder, the multipart parser, the file helper | An action is one iteration of the scan loop, or the end of a call. A new request decodes its query string, and leaves its last name in ParseTmp, as the code does. The boundary text and a header line of a part are one symbol each; CR, LF, dashes and what is escaped are symbols of their own. |
| `Headers` | Header.cpp, StringUtils.h, the dates of TimeUtils | Pure operators: a text is a sequence of symbols, a symbol a character or a word in which nothing is looked for. ParseDelimitedKeyValue is its six states, folded over the text; dates are months, their twelve names are written out because the code reads their letters. |
| `Requests` | The reading half of HeaderHandler and ContentHandler, the choosing half of ResponseHandler, Create() of Combiner, FS, Zip, CORS and the handshake, the block of response headers | EXTENDS `Headers`. A client means something, writes it in one of several ways, and keeps a copy of what it gets with its date. The server parses the lines, chooses and opens; others change the file between any two steps. |
| `StreamReadBuffProofs`, `WriteBuffQueueProofs`, `ServerProofs`, `WSConnectionProofs`, `QueryParamsProofs`, `HttpConnectionProofs` | - | The inductive invariant of the module each is named after, and the theorems about it (section 5). |
| `ResponseProofs` | - | The invariant of the sending, which `HttpConnectionProofs` uses. |
| `SequenceLemmas` | - | Lemmas about SubSeq, RemoveAt, Front and FlattenSeq, and `LeastNatural`. |
| `MC*` modules | - | Values of the constants: requests, responses, frames, contents. |

The modules compose as the code does: `HttpConnection` contains `StreamReadBuff`
and `Response`; `Server` has the connections with what the server can see
of them (coroutine running, socket open, SilentTime, NextConn), whose steps are
the ends and progress of what `HttpConnection` and `WSConnection` describe.
`WSConnection` uses the two queues through what `WriteBuffQueue` and
`StreamReadBuff` promise. `Requests` and `HttpConnection` divide one coroutine
between them: the former has what a request means and which response is chosen,
for one request after the other; the latter how the bytes of several requests
and responses follow each other, where any request may get any response.

The reference definitions are the properties': `QueryParams.Meant` is the set of
parameters of a request as the client means it, `Requests.Due` the codes its
path allows, said with the names between slashes where the code compares
characters, and `HeadersReadBack` compares what is read with what was meant.

Operators named with a comment "a slip" are faults a programmer could make in
the operator that follows. Nothing uses them; each shows, put in the place of
that operator, that a property notices it.

## 3. Runs

| Run | Checks | Instance and why it is enough |
|---|---|---|
| `read_buffer` | positions in the buffer, window = stream, room for a request, place of the parser | static size 3, granularity 2, lengths to 4, 6 stream bytes, buffers to 9: moving, growing twice, and rounding all happen |
| `write_queue` | queue states, disjoint blocks, heap ownership, blocks being written, refinement of `ByteFifo` | ring of 4, lengths to 4 (the last only from the heap), 2 heap buffers, 3 blocks: wrap, guard byte, merge, reuse of stored buffers |
| `server` | ownership, counting, deletion, silence, upgrade | 3 addresses, 2 clients, 1 response: an HTTP connection, its WebSocket and the next accept together |
| `websocket` | message assembly, told once, single write, safe deletion, timeout | 10 kinds of frames, 3 events (frames and handler calls), 3 parts in a read |
| `http_connection` | order, content, header pointers, framing, body, answer | 2 requests of 8 kinds, 14 responses with the redirect that never says it is finished, buffer of 4, blocks of 3: contents larger than the buffer, gzip footers over a block boundary |
| `multipart` | parameters and parts exact at the end, no file of the last request left behind | 2 requests, query strings with escaped separators and a last name that looks like a boundary, then an url-encoded content or 2 parts, contents empty or beginning like a boundary, all cuts |
| `requests` | headers mean what was meant, the right source answers, 304 is true, response headers fit | the sources the demo program mounts, with a rewrite and a redirect; 43 meanings in 3 spellings; a file that is changed in the same month or later, made unreadable or removed; preflight lists around the end of the block |

The runs `write_queue` and `requests` check for deadlock: whatever is queued, one
of the calls is possible, and a client that was answered can ask again.
`CHECK_DEADLOCK FALSE` stands in the others, whose system may stop: a
closed connection, a stopped server, a body that is parsed, and for the read
buffer a stream or a memory that is used up.

Bounds: `MaxLen`, `MaxBytes`, `MaxBuff` (read buffer), `MaxHeap`, `MaxQueue`,
`ByteNames` (write queue; names of bytes repeat, three are enough to tell
neighbours apart), `MaxAccepts`, `MaxResponses` and the addresses `Conns`
(server), `MaxEvents`, `MaxRead` (WebSocket), `MaxRequests`, `MaxParts`, `Queries`
(parameters); `MaxVersions` (the file changes once), `MaxMonths` (a change can be
two months behind the beginning, so dates are compared over the end of a year and
over February), `Origins` (eight of the twelve months: each letter that MonthOf
looks at decides), `Years`, `EntriesFrom` (the archive), `Room` (200
characters where the code has 4 KiB by default: a preflight list of 90 to 93
letters fills them to the last, as one of almost 4 KiB does there, which the read
buffer of 16 KiB lets through).
The assumption `WidthAssumption` names the width of `unsigned int`: buffers of
2 GiB are outside the model.

### Where the code does not do what it says

Each of these runs checks one statement taken from the documentation, and TLC
finds a behaviour of the code that contradicts it.

| Run | Statement | What the code does |
|---|---|---|
| `server_stop` | README.md:56, Stop allows 4 seconds for the thread to exit | `NextConn` is null when an accept was already complete, and Stop dereferences it (Server.cpp:144) |
| `websocket_frames` | IMsgHandler.h:22, called when a new message arrives | one frame is handled per read (WSConnection.cpp:237) |
| `http_stale_headers` | IRespSource.h:43, arguments stay valid | HeaderA of a pipelined request points into a buffer whose content RequestData moves (Connection.cpp:293) |
| `http_stored_entry` | IResponse.h:27, the length of the response | the tail of a stored archive entry is not sent (ZipRespSource.cpp:115) |
| `upload_limits` | FileUploadConfig.h:23, larger files abort the parsing | the limits are lost with CurrQuery=QueryParams() before each request, the first one too (Connection.cpp:660) |

Four more disagreements are modelled as the code has them and are not runs; the
properties that meet them name them as exceptions:

* a url-encoded content is everything that is available, the beginning of the next
  request included (Connection.cpp:297), where the comment at :123 says that the
  content is given to the QueryParams object (`mixed`);
* the two characters left for the empty line (:492) are not given to the snprintf()
  that writes it (:540), so a preflight list that leaves one or two cuts it;
* Header.cpp:274 reads February as March, so that a copy of February is confirmed
  although the file was changed in March;
* the comment at StreamReadBuff.h:16 says that the static buffer is used as long as
  it suffices, but ReqDataEndPos grows by the missing length each time a request is
  repeated (:123), so a content that arrives slowly moves to a larger buffer
  without need.

## 4. Fairness

Liveness is stated for three systems, and only what the code schedules itself is
fair, but for one assumption on clients.

* Server: the io_context runs queued handlers, the timer expires, an operation on
  a closed socket completes (asio guarantees it), and the calling thread is
  scheduled. No client is obliged to arrive, speak or close.
* HTTP connection: a coroutine whose read or write is over goes on; for
  `AllAnswered` the client sends what it began and accepts its responses. The
  connection may fail at any suspension, which ends it. A file may be truncated
  at any time and a generator may write any portions.
* WebSocket: queued handlers run and the connection is stepped. The peer is not
  obliged to send, read or close; reads and writes of a closed socket fail.
* `write_queue`, `read_buffer`, `multipart` and `requests` have safety properties
  only.

`SilentIsDeleted` and `UpgradeIsListed` hold while the server runs: Stop() ends
the steps. `OneWriteAtATime` and `DeletedWhenSafe` exclude what the code breaks
for certain: two async_writes started by one StartAsyncWrite() (`split`), and
calls still posted when the object is deleted. The first exclusion is needed
because Pop can give two blocks (WSConnection.cpp:463); both are hazards.
`RequestsInOrder` and `AllAnswered` exclude connections on which a url-encoded
content swallowed a pipelined request (`mixed`), `HeadersFit` the preflight list
that leaves no room for the empty line, `NotModifiedIsTrue` and `HeadersReadBack`
copies of February. `BodyInOrder` allows junk in a file that was truncated while
it was sent. These cases are hazards without a property; each property is about all
other behaviours.

## 5. Proofs

Each theorem states a property that a run checks, for every value of the
constants. No state property is inductive by itself; each module's proofs define a
conjunction that is, `IInv` (`ConnIInv` for the HTTP connection), show that Init
establishes it and that every action keeps it, one lemma per action, and read the
properties off it. TLC has checked each conjunct on the instances of section 3.

| Module | Theorems |
|---|---|
| `StreamReadBuffProofs` | TypeOK, PositionsInBuffer, WindowIsStream, RoomForRequest, ParserNeverRewinds, RequestKeepsPlace |
| `WriteBuffQueueProofs` | TypeOK, StatesInOrder, BlocksApart, HeapOwnedOnce, WritingUntouched, IsByteFifo |
| `ServerProofs` | TypeOK, OneOwner, ResponsesAccounted, DeletedWhenQuiet |
| `WSConnectionProofs` | TypeOK, ToldOnceInTime, OneWriteAtATime, DeletedWhenSafe, MessagesAssembled |
| `QueryParamsProofs` | TypeOK, PartsExact, UploadsReachable; and `Decodes`, what AddURLEncoded() computes |
| `HttpConnectionProofs` | ConnTypeOK, RequestsInOrder, MultipartExact, ContentBeginsOwn, HeadersInPlace, KeptInStep, BodyInOrder |

**Read buffer.** That the cells from the first kept byte to DataEndPos are the
tail of the stream says nothing when positions may cross, and the room for a
request depends on ReqDataEndPos being behind DataEndPos. The four state
properties together are inductive. `MakeRoomIInv` is the heart: the window moves
by the free space in front of it, in the same buffer or a larger one, and each of
its cells keeps its number. `RoundUpBounds` says that rounding up never makes a
new buffer too small. The action properties follow step by step.

**Write queue.** BlocksApart is not inductive: nothing in it keeps the free cells
free. `Ring` says where the ring blocks are: between FIFOUsedBegin and
FIFOFreeBegin, over the end of WriteBuff if need be, and in the order of the
queue. `RingAllocation` shows that each way Allocate() finds room in the ring
(behind the last block, or again from the start) leaves the guard byte,
`RingStepBack` and `RingRelease` that Commit() and Release() move the two pointers
by just the right amount. `Heap` says that a buffer is queued or stored, once. `AllocInv` is
what a Commit() of less than was allocated relies on. BlocksApart follows from the
order in the ring and the distances in the heap (`Apart`).

The refinement needs one thing more, `Filled`: the cells of an allocation hold the
bytes the caller will commit next. Then each operation is one of `ByteFifo`, shown
by one lemma each: Allocate() shows nothing, even where it lengthens a block that
already waits; Commit() appends what the caller wrote, and nothing if all is given
back; Pop() takes all bytes of the first block; Release() drops the oldest write;
Reset() clears both. What waits is the concatenation of the blocks, a recursive function; that
it grows at the end (`FlattenAppend`, `FlattenGrown`) and is cut at the front
(`FlattenHead`, `CutConcat`) is proved once in `SequenceLemmas`. Because blocks lie
apart, what an operation does to one block's cells leaves the others' bytes alone
(`SameStored`, `SameBlocks`).

**Server.** To OneOwner and the count come `Waiting` and `Handed` (an object that
waits for its turn has no successor and has served nothing; a WebSocket is owned by
the list or by the connection it came from), `Accepting` (which connection an
accept belongs to) and `Thread` (which handlers can run at which step of Stop()).
A step moves connections between owners; `CountSplit` and `CountOneMore` say what
that does to the sum of their counts. The sum is the cardinality of the set of
pairs of a connection and one of its responses, so that no recursion is needed.

**WebSocket.** Four parts that need little of each other: the writes and the
blocks they are of; the reads and the frames they complete; who has cleared
MyHandler, and told it; and the messages, where the fragments kept and the messages
delivered together are the data frames consumed, and messages do not overlap.
`DataFrameAssembles` takes one accepted frame through the four cases of its opcode
and FIN.

**Query parameters.** That the results are right when a body has ended says nothing
of the states before. The invariant has two cases. `Rests`: no body is read, and the
parameters are those of the query string. `Reads`: `Layout` tells where each
boundary of the body ends, and `Scanned` where the parser is among them. Two
questions are kept apart. `Placed` is about the scanner: which beginning of a boundary it has matched
(`Matching`: no longer one could be matched, so that looking again at the character
that breaks a match loses nothing, `NoneMissed`), what of it is from earlier calls and is in
ParseTmp (`Pending`), and so how far the content was handed over (`Given`). `Got` is about
the part parser: `InPart` and `InClosing` say what its state must be when it has got
so many cells of a part, of whatever pieces.

Three things make the pieces hard. The end of a header line looks like the
beginning of a boundary, so a part is never handed over in a piece that ends
there (`HeaderPlace`); the four places behind it are the only ones where AppendToCurrentPart() would
not go on correctly, as it does not keep where in a piece the headers began. In front of the first
boundary ParseTmp holds the last name of the query string, two characters count as
matched that never came, and MatchLast cuts five characters off the end of both together
(`AtStart`, `InPreamble`). And behind the last boundary a cut may leave the
CR LF at the very end in ParseTmp for ever; `ScannedWhole` shows that all that
matters was handed over. `HeadingGrown`, `ContentGrown`, `PartGrown` and
`ClosingGrown` are AppendToCurrentPart() in each phase, for a piece of any length;
`ScannedScan`, `ScannedOne`, `ScannedLast`, `ScannedBroken` and `ScannedEnd` are the actions.
`Owned` is the half about files: FileMap names the files of this request, each once,
and no other file is newer than the request.

`Decodes` needs the loop of AddURLEncoded() as a recursive function. It exists
(`DecodeSteps`), and after the characters of each encoded entry it has what the entries up to
it mean; the induction over entries and characters is one over numbers.

This rests on assumptions about what clients send. Contents do not hold the boundary. Header
lines are not other characters of a body. A query string does not end with a
name that holds the text of a header line, CR and LF included: the name is still in ParseTmp when the body
begins, is handed to the part parser in front of the first boundary, and would be read as the headers of a part;
TLC shows that PartsExact fails without this (`NameAssumption`). And
no body is longer than the limit that stands for none.

**HTTP connection.** The invariant relates the coroutine to its buffer by two
numbers, the stream positions of the parser and of the first byte that is kept;
what each method of the buffer does to them is said once (`ConsumeEffect`,
`ReadEffect`, `RequestEffect`, `DropEffect`), on top of the read buffer's own
invariant. `InStream` says that no empty line lies between the two while headers
are read, so that the next one ends the headers of the request that begins there
(`HeaderEndFacts`); `InPlace`, `Parts` and `Taken` where each kind of content is
read; `InTurn` that, while nothing was swallowed, the parser began at the request
whose turn it is. `ParsedTyped` says that the pointers of HeaderA lie in the buffer
when they are parsed, `IntactStays` that what they show stays while the buffer does;
it changes only while a content is read, and then the headers of a multipart request
are in PostHeaderBuff (`Parts`), which `HeadersInPlace` asks for. Where requests begin is a recursive function; that it does what
its definition says, and is ordered, is proved through a least counterexample
(`StartFacts`, `StartOrder`). Below it, `ResponseProofs` relates what a source has
delivered, its place in the source, what is left of the announced length and what
was sent, in each phase. A block of an archive entry is made in up to three turns of a loop,
as `Response` says; `ThreeTurns` proves that the loop is over after three.

`MultipartExact` is about POSTs: a GET has a type as well in the model, which the code does not look at; `fed` is
then still what the last multipart POST left.

Assumed are only the `ASSUME`s of the modules, which TLC evaluates for its
instances (those about query strings and bodies are named above): sizes are naturals and positive where the code divides or allocates by
them, requests and responses are what their types say, the contents of a GET
are empty, there are finitely many connection objects, and one error
message fits into the write buffer. Nothing about 32-bit width is
used: the proofs are about naturals, and `WidthAssumption` is what connects them
with `unsigned int`.

Induction over data is out of the prover's reach, as its induction theorems take an
operator. `LeastNatural` of `SequenceLemmas` stands in for it where a number can be counted
down: a set of natural numbers that is not empty has a least one, so the shortest
sequence for which FlattenSeq would not be a concatenation leads to a contradiction.
`SetInduction` of `QueryParamsProofs` is the same for steps from one
number to the next. They do not help with folds, which take an operator.

Only model-checked: liveness under fairness (`AllAnswered`, `SilentIsDeleted`,
`UpgradeIsListed`, `TimedOutIsDeleted`, `StopReturns`), which is out of the
prover's reach; and `Requests` and `Headers`, whose properties are
about what folds over a text compute.

## 6. Plan

Done in this order: read buffer (with proofs), write queue, server, WebSocket,
HTTP connection, multipart parser, responses; then the url-encoded parameters,
header parsing, the choice of a response and the block of response headers.
To come:

1. Extend the models
   * the WebSocket frame length algorithm (7, 16 and 64 bit forms, masking), against
     the layout of the RFC, and the two buffers inside `WSConnection`;
   * a second Run() after Stop(), whose thread leaves run() at once because the
     io_context stays stopped (Server.cpp:104), and multipart bodies that break off;
   * the map of connections of the server log.
   * bodies that break off need a weaker PartsExact, for the requests before them.
2. Prove more
   * `Requests`: TypeOK, and HeadersFit from what `Headers` computes.

What `Headers` computes for every text is a fold with an operator, out of the
prover's reach, and stays with TLC.

## 7. Not modelled

* Of the request line the method's table of names, the version and the fragment;
  numbers in text (Content-Length is read as what it says); the table of MIME
  types and the choice of a character set; SHA-1 and Base64 of the handshake; the
  names of the response codes.
* The format of archives and of the file system: an archive is a set of entries,
  the file system a set of paths. Symbolic links are left out. `Root / "/x"`
  appends, as in Boost.Filesystem 3.
* Address verdicts of connection filters (the outcome is a free choice), the
  logs (output only), the coroutine helper (it hides a Boost version), the demo
  program but for the sources it mounts, build files and the pages of the Doc
  directory. ParseKeyValue() and the getters of QueryParams have no caller in the
  library or change no state.
* Exceptions other than failed reads, writes, waits and opens, and exhausted
  memory; the leaks of a response or a message handler when an exception passes
  ResponseHandler: a leak has no later step that could go wrong.
* Faults whose bytes the models abstract: the reason of a close frame
  (WSConnection.cpp:424), the long forms of a frame length (:216, :69), the
  header name the preflight answers with (CORSPreflightRespSource.cpp:24 sends
  access-control-request-methods, where browsers expect allow-methods), the
  constructor that moves a string from itself (StaticRespSource.cpp:12), the
  local resource name handed to a response that lives longer
  (CombinerRespSource.cpp:69), and the log's map, which keeps the addresses of
  connections that are gone (OStreamServerLog.cpp:103).

Limits of `Requests`, `Headers` and `QueryParams`, where clients could do more than the
models let them:

* each header is written once, the names in key=value lists in small letters,
  every line ends with CR LF, and every "%" has two digits behind it; a name
  without "=" would swallow the "&" behind it (QueryParams.cpp:138), and blanks
  at the end of a value stay in it (Header.cpp:391), so that "close " would not
  close;
* dates are months: two changes within one are one date, as two within a second
  are for the code; the time of a file never goes back;
* no query string ends with a name that holds a header line (section 5);
* CurrFileSize is not reset for the second file of a body (QueryParams.cpp:40), as
  modelled, but nothing can be said of it while the limits are lost;
* bodies are complete: one that breaks off inside a part leaves FMParseState for
  the next (QueryParams.cpp:292).
