------------------------------ MODULE Requests -------------------------------
(***************************************************************************)
(* What a request means and how it is answered: the header lines read by   *)
(* Connection::HeaderHandler() and ContentHandler() (module Headers), the  *)
(* response source that ResponseHandler(), CORSPreflight and Combiner      *)
(* choose, the look-up of files, archive entries and WebSocket handshakes, *)
(* and the block of response headers.                                      *)
(*                                                                         *)
(* A client with a cache asks for one thing after the other.  Meanwhile    *)
(* others change the file File, in the same month or later, also while it  *)
(* is being opened.  Contents and bodies, and how requests follow each     *)
(* other on a connection, are in HttpConnection and Response.              *)
(***************************************************************************)
EXTENDS Headers, FiniteSetsExt

CONSTANTS
  Meanings,      \* what clients ask for, a subset of Meaning
  Styles,        \* how they write it, a subset of Style
  Holders,       \* Combiner: HolderA, in its order
  Rewrites,      \* Combiner: RewMap, a function on resources
  Root,          \* of FS, a sequence of names
  Tree,          \* "file" or "dir" for each path of the file system
  File,          \* the path of the file that is written
  Entries,       \* the entries of the archive, and the month they are from
  EntriesFrom,
  Room,          \* what extra headers have of MaxHeadersLength - 2 characters
  Origins,       \* the months when it may all begin
  MaxMonths, MaxVersions   \* bounds on the months and the versions of File

\* since: 0, Cached (the date of the copy), or Other (another format).
Cached == 1
Other == 2
Meaning ==
  [method : {"GET", "POST", "OPTIONS", "HEAD"}, resource : Seq(STRING),
   close : BOOLEAN, since : {0, Cached, Other},
   upgrade : BOOLEAN, key : BOOLEAN, version : {"", "8", "13"},
   protocols : Seq(Seq(STRING)),
   asksMethod : BOOLEAN, asksHeaders : Nat,  \* of a preflight; 0 is no list
   content : {"", "FORM_MULTIPART", "URL_ENCODED", "UNKNOWN"},
   length : BOOLEAN, boundary : Seq(STRING),
   name : Seq(STRING), isFile : BOOLEAN, filename : Seq(STRING)]   \* of its part
Style == [capital : BOOLEAN, gap : Seq({" "}), quoted : BOOLEAN, reversed : BOOLEAN]

ASSUME RequestsAssumption ==
  /\ Meanings \subseteq Meaning /\ Styles \subseteq Style
  /\ Holders \in Seq([prefix : Seq(STRING), exact : BOOLEAN,
                      source : {"zip", "generic", "static", "ws", "fs"}])
  /\ Root \in DOMAIN Tree /\ Tree[Root] = "dir"
  /\ File \in DOMAIN Tree /\ Tree[File] = "file"
  /\ EntriesFrom \in Nat \ {0} /\ Origins \subseteq Nat \ {0}
  /\ Room \in Nat /\ MaxMonths \in Nat /\ MaxVersions \in Nat

VARIABLES
  cors,      \* SetCORS()
  begun,     \* the month when it all began
  file,      \* File: its version, the month of its last change, its state
  copy,      \* the client's copy of a file or an entry, with its date
  asked,     \* what the client means
  lines,     \* the header lines it writes, and those of its part
  read,      \* what is read: HeaderA, the content type and boundary, the part
  pc,        \* idle -> sent -> read (-> opening) -> answered or closed -> idle
  resp       \* the response

vars == <<cors, begun, file, copy, asked, lines, read, pc, resp>>

-----------------------------------------------------------------------------
(* How a client writes its headers: each once.                             *)

Word(style, w) == IF style.capital THEN Capital(w) ELSE w
Line(style, name, value) ==
  <<Word(style, name), ":">> \o style.gap \o value \o <<"CR">>
Quoted(style, text) ==
  IF style.quoted \/ text = << >> \/ \E i \in DOMAIN text : text[i] \in {" ", ";"}
    THEN <<Quote>> \o text \o <<Quote>> ELSE text
If(condition, line) == IF condition THEN <<line>> ELSE << >>
Joined(texts) ==
  FlattenSeq([i \in DOMAIN texts |-> IF i = 1 THEN texts[i] ELSE <<",", " ">> \o texts[i]])

TypeText(style, m) ==
  CASE m.content = "FORM_MULTIPART" ->
         <<Word(style, "multipart/form-data"), ";", " ", "boundary", "=">>
           \o Quoted(style, m.boundary)
    [] m.content = "URL_ENCODED" -> <<Word(style, "application/x-www-form-urlencoded")>>
    [] OTHER -> <<"text/plain">>

HeaderLines(style, m, date) ==
  LET all ==
        If(TRUE, Line(style, "host", <<"x">>))
        \o If(m.close, Line(style, "connection", <<Word(style, "close")>>))
        \o If(date # << >>, Line(style, "if-modified-since", date))
        \o If(m.upgrade, Line(style, "upgrade", <<Word(style, "websocket")>>))
        \o If(m.key, Line(style, "sec-websocket-key", <<"key">>))
        \o If(m.version # "", Line(style, "sec-websocket-version", <<m.version>>))
        \o If(m.protocols # << >>,
              Line(style, "sec-websocket-protocol", Joined(m.protocols)))
        \o If(m.asksMethod, Line(style, "access-control-request-method", <<"POST">>))
        \o If(m.asksHeaders > 0, Line(style, "access-control-request-headers",
                                     [i \in 1 .. m.asksHeaders |-> "h"]))
        \o If(m.content # "", Line(style, "content-type", TypeText(style, m)))
        \o If(m.length, Line(style, "content-length", <<"7">>))
  IN IF style.reversed THEN Reverse(all) ELSE all

PartLines(style, m) ==
  If(m.content = "FORM_MULTIPART",
     Line(style, "content-disposition",
          <<"form-data", ";", " ", "name", "=">> \o Quoted(style, m.name)
            \o (IF m.isFile THEN <<";", " ", "filename", "=">> \o Quoted(style, m.filename)
                ELSE << >>)))

-----------------------------------------------------------------------------
(* What the server reads in them.                                          *)

ReadHeaders(ls) == [i \in DOMAIN ls |-> ExtractHeader(ls[i])]
FirstOr(values, default) == IF values = << >> THEN default ELSE values[1]

\* ContentHandler(): what it looks for.  Without a length it gives up.
ContentRead(H) ==
  IF Has(H, "content-type") THEN GetContentType(Values(H, "content-type")[1])
  ELSE [type |-> "UNKNOWN", boundary |-> << >>]
PartRead(H) == ParseContentDisposition(FirstOr(Values(H, "content-disposition"), << >>))
SinceRead(H) ==
  IF Has(H, "if-modified-since") THEN GetDateTime(Values(H, "if-modified-since")[1]) ELSE 0
CloseRead(H) ==
  \E i \in DOMAIN Values(H, "connection") : CmpI(Values(H, "connection")[i], <<"close">>)
ProtocolsRead(H) ==
  IF Has(H, "sec-websocket-protocol")
    THEN ExtractTrimWSTokens(Last(Values(H, "sec-websocket-protocol")), ",") ELSE << >>
IsValidWSReq(H) ==
  /\ Has(H, "upgrade") /\ CmpI(Last(Values(H, "upgrade")), <<"websocket">>)
  /\ Has(H, "sec-websocket-key")
  /\ Has(H, "sec-websocket-version")
  /\ Last(Values(H, "sec-websocket-version")) = <<"13">>

-----------------------------------------------------------------------------
(* The block of response headers.                                          *)

\* A response: code, who answers, the file, the version and the change of the
\* content it has, Last-Modified, sub-protocol, location, and extra headers.
Answer(code, source) ==
  [code |-> code, source |-> source, path |-> << >>, version |-> 0,
   changed |-> 0, date |-> << >>,
   protocol |-> << >>, location |-> << >>, extra |-> << >>]
Header(name, size) == [name |-> name, size |-> size]   \* with ": " and its end
AllowOrigin == Header("access-control-allow-origin", 32)

Dated(answer, month) ==
  [answer EXCEPT !.date = FormatDateTime(month), !.extra = <<Header("last-modified", 46)>>]

\* An extra header is left out if it does not fit.
FitsUnchecked(header, rest) == TRUE          \* a slip: not looked at
FitsTightly(header, rest) == header.size <= rest  \* a slip: no room for its end
Fits(header, rest) == header.size < rest
WriteHeaders(extra, allowed) ==
  LET fixed == IF allowed
                 THEN [names |-> <<AllowOrigin.name>>, rest |-> Room - AllowOrigin.size]
                 ELSE [names |-> << >>, rest |-> Room]
      step(b, h) == IF Fits(h, b.rest)
                      THEN [names |-> Append(b.names, h.name), rest |-> b.rest - h.size]
                      ELSE b
      block == FoldLeft(step, fixed, extra)
  \* The empty line is written by snprintf() into what is left.
  IN [names |-> block.names, ended |-> block.rest > 2, rest |-> block.rest]

-----------------------------------------------------------------------------
(* The response sources.                                                   *)

\* CORSPreflight::Create(); the list is sent back as it came.
IsPreflight(method, H) == method = "OPTIONS" /\ Has(H, "access-control-request-method")
Preflight(H) ==
  LET lists == Values(H, "access-control-request-headers")
      list  == IF lists = << >> THEN << >> ELSE Last(lists)
  IN [Answer(200, "preflight") EXCEPT !.extra =
        <<AllowOrigin, Header("access-control-request-methods", 43)>>
          \o If(list # << >>, Header("access-control-allow-headers", 32 + Len(list)))]

\* Combiner::RSHolder::operator().
TakesAnyBoundary(h, resource) ==             \* a slip: the '/' is not looked for
  IF ~h.exact /\ Len(resource) > Len(h.prefix) THEN IsPrefix(h.prefix, resource)
  ELSE resource = h.prefix
Takes(h, resource) ==
  IF ~h.exact /\ Len(resource) > Len(h.prefix)
    THEN IsPrefix(h.prefix, resource) /\ resource[Len(h.prefix) + 1] = "/"
    ELSE resource = h.prefix

\* FS: the path a resource names, or Missing; ".." leaves a directory.
Missing == << <<"missing">> >>
Exists(path) == path \in DOMAIN Tree /\ (path = File => file.state # "gone")
Canonical(segments) ==
  LET step(p, s) ==
        IF p = Missing \/ Tree[p] # "dir" THEN Missing
        ELSE IF s = <<"..">> THEN (IF p = << >> THEN p ELSE Front(p))
        ELSE IF Exists(Append(p, s)) THEN Append(p, s) ELSE Missing
  IN FoldLeft(step, Root, segments)
ChangedAt(path) == IF path = File THEN file.changed ELSE EntriesFrom

\* FS::Create() and the first part of FS::Response::Response(): 200 here means
\* that the content is still to be opened.
FSCreate(H, rest) ==
  LET target == Canonical(ExtractTokens(rest, "/"))
      since  == SinceRead(H)
  IN IF target = Missing \/ ~IsPrefix(Root, target) THEN Answer(404, "fs")
     ELSE IF Tree[target] = "dir" THEN Answer(403, "fs")
     ELSE IF since = 0 \/ ChangedAt(target) > since
       THEN [Dated(Answer(200, "fs"), ChangedAt(target)) EXCEPT !.path = target]
     ELSE [Dated(Answer(304, "fs"), ChangedAt(target)) EXCEPT !.path = target]

\* Zip::Create(); the content of an entry does not change.
ZipCreate(H, rest) ==
  LET entry == IF rest # << >> THEN Tail(rest) ELSE rest
      found == IF EntriesFrom > SinceRead(H)
                 THEN [Answer(200, "zip") EXCEPT !.version = 1, !.changed = EntriesFrom]
                 ELSE Answer(304, "zip")
  IN IF entry \notin Entries THEN Answer(404, "zip")
     ELSE [Dated(found, EntriesFrom) EXCEPT
             !.extra = Append(@, Header("content-encoding", 24))]

\* WSRespSource::CreateWSResponse() with EchoRespSource::CreateMsgHandler().
\* A slip: the first protocol offered, whatever it is.
ChosenAny(protocols) == IF protocols = << >> THEN << >> ELSE protocols[1]
Chosen(protocols) == IF Contains(protocols, <<"echo">>) THEN <<"echo">> ELSE << >>
WSCreate(H) ==
  LET protocol == Chosen(ProtocolsRead(H))
  IN IF ~IsValidWSReq(H) THEN Answer(403, "ws")
     ELSE [Answer(101, "ws") EXCEPT !.protocol = protocol,
             !.extra = <<Header("sec-websocket-accept", 52), Header("connection", 21),
                         Header("upgrade", 20)>>
                       \o If(protocol # << >>, Header("sec-websocket-protocol", 30))]

\* Combiner::Create(): a redirect, or the first holder that takes the resource.
CombinerCreate(H, resource) ==
  LET rewritten == IF resource \in DOMAIN Rewrites THEN Rewrites[resource].target
                   ELSE resource
      at   == SelectInSeq(Holders, LAMBDA h : Takes(h, rewritten))
      rest == SubSeq(rewritten, Len(Holders[at].prefix) + 1, Len(rewritten))
  IN IF resource \in DOMAIN Rewrites /\ Rewrites[resource].redirect
       THEN [Answer(301, "redirect") EXCEPT !.location = rewritten,
               !.extra = <<Header("location", 22)>>]
     ELSE IF at = 0 THEN Answer(404, "none")
     ELSE CASE Holders[at].source = "fs"  -> FSCreate(H, rest)
            [] Holders[at].source = "zip" -> ZipCreate(H, rest)
            [] Holders[at].source = "ws"  -> WSCreate(H)
            [] OTHER -> Answer(200, Holders[at].source)

-----------------------------------------------------------------------------
(* The steps.                                                              *)

Plain ==
  [method |-> "GET", resource |-> << >>, close |-> FALSE, since |-> 0,
   upgrade |-> FALSE, key |-> FALSE, version |-> "", protocols |-> << >>,
   asksMethod |-> FALSE, asksHeaders |-> 0, content |-> "", length |-> FALSE,
   boundary |-> << >>, name |-> << >>, isFile |-> FALSE, filename |-> << >>]
NoLines == [headers |-> << >>, part |-> << >>]
NothingRead == [HeaderA |-> << >>, content |-> ContentRead(<< >>), part |-> PartRead(<< >>)]
NoCopy == [resource |-> << >>, version |-> 0, changed |-> 0, date |-> << >>]
NoResponse == Answer(0, "none") @@ [block |-> [names |-> << >>, ended |-> FALSE, rest |-> 0]]

Finished(answer, allowed) ==
  [block |-> WriteHeaders(answer.extra, allowed)] @@ [answer EXCEPT !.extra = << >>]

Init ==
  /\ cors \in BOOLEAN
  /\ begun \in Origins
  /\ file = [version |-> 1, changed |-> begun, state |-> "there"]
  /\ copy = NoCopy /\ asked = Plain /\ lines = NoLines
  /\ read = NothingRead /\ pc = "idle" /\ resp = NoResponse

\* What others do meanwhile, now or in a later month.
ChangeFile ==
  /\ \/ /\ file.version < MaxVersions
        /\ \E month \in file.changed .. begun + MaxMonths :
             file' = [version |-> file.version + 1, changed |-> month, state |-> "there"]
     \/ \E state \in {"unreadable", "gone"} :
          file.state = "there" /\ file' = [file EXCEPT !.state = state]
  /\ UNCHANGED <<cors, begun, copy, asked, lines, read, pc, resp>>

\* The client: a request in some form, with the date of its copy if it has one.
DateSent(m) ==
  CASE m.since = 0 -> << >> [] m.since = Cached -> copy.date [] OTHER -> <<"asctime">>
SendRequest ==
  /\ pc = "idle" /\ pc' = "sent"
  /\ \E m \in Meanings, style \in Styles :
       /\ m.since = Cached => copy.resource = m.resource
       /\ asked' = m
       /\ lines' = [headers |-> HeaderLines(style, m, DateSent(m)),
                    part |-> PartLines(style, m)]
  /\ UNCHANGED <<cors, begun, file, copy, read, resp>>

ReceiveResponse ==
  /\ pc \in {"answered", "closed"} /\ pc' = "idle"
  /\ copy' = IF resp.code = 200 /\ resp.date # << >>
               THEN [resource |-> asked.resource, version |-> resp.version,
                     changed |-> resp.changed, date |-> resp.date]
               ELSE copy
  /\ asked' = Plain /\ lines' = NoLines /\ read' = NothingRead /\ resp' = NoResponse
  /\ UNCHANGED <<cors, begun, file>>

\* HeaderHandler() and ContentHandler(); only a POST has a content.
ReadRequest ==
  /\ pc = "sent"
  /\ LET H == ReadHeaders(lines.headers)
         posted == asked.method = "POST"
     IN /\ read' = [HeaderA |-> H,
                    content |-> ContentRead(IF posted THEN H ELSE << >>),
                    part |-> PartRead(ReadHeaders(lines.part))]
        /\ pc' = IF posted /\ ~Has(H, "content-length") THEN "closed" ELSE "read"
  /\ UNCHANGED <<cors, begun, file, copy, asked, lines, resp>>

\* ResponseHandler(): the response is created, and its headers are written.
Respond ==
  /\ pc = "read"
  /\ IF cors /\ IsPreflight(asked.method, read.HeaderA)
       THEN resp' = Finished(Preflight(read.HeaderA), FALSE) /\ pc' = "answered"
       ELSE LET answer == CombinerCreate(read.HeaderA, asked.resource)
            IN IF answer.code = 200 /\ answer.source = "fs"
                 THEN resp' = answer @@ NoResponse /\ pc' = "opening"
                 ELSE resp' = Finished(answer, cors) /\ pc' = "answered"
  /\ UNCHANGED <<cors, begun, file, copy, asked, lines, read>>

\* The rest of FS::Response::Response(): others may have changed the file since
\* its date was read.  What it throws becomes an ErrorRS response.
OpenFile ==
  /\ pc = "opening" /\ pc' = "answered"
  /\ resp' = IF resp.path = File /\ file.state # "there"
               THEN Finished(Answer(500, "error"), cors)
             ELSE Finished([resp EXCEPT
                              !.version = IF resp.path = File THEN file.version ELSE 1,
                              !.changed = ChangedAt(resp.path)], cors)
  /\ UNCHANGED <<cors, begun, file, copy, asked, lines, read>>

Next ==
  \/ ChangeFile
  \/ SendRequest \/ ReceiveResponse
  \/ ReadRequest \/ Respond \/ OpenFile

Spec == Init /\ [][Next]_vars

-----------------------------------------------------------------------------
\* Every variable keeps its type, every header line is recognized, there is a code
\* when there is a response, and the block does not go beyond its room.
TypeOK ==
  /\ file.version \in 1 .. MaxVersions
  /\ file.changed \in begun .. begun + MaxMonths
  /\ copy.version \in 0 .. MaxVersions /\ copy.changed <= begun + MaxMonths
  /\ asked \in Meanings \union {Plain}
  /\ \A i \in DOMAIN read.HeaderA : read.HeaderA[i].IntName \in HeaderNames
  /\ pc \in {"idle", "sent", "read", "opening", "answered", "closed"}
  /\ resp.code \in {0, 101, 200, 301, 304, 403, 404, 500}
  /\ (resp.code # 0) <=> (pc \in {"opening", "answered"})
  /\ resp.block.rest \in 0 .. Room

Answered == pc = "answered"
Read == pc \in {"read", "opening", "answered"}

\* February is taken for March.
TakenFor(month) == IF month % 12 = 1 THEN month + 1 ELSE month
MonthOfCopy ==
  CHOOSE t \in {EntriesFrom} \union (begun .. begun + MaxMonths) : FormatDateTime(t) = copy.date

\* Whatever letters, blanks, quotes and order a client uses, the server reads in
\* its headers what it means: dates (but for February), the sub-protocols in
\* their order, the type and boundary of its content, and the names of its part,
\* quoted ones with blanks and separators inside.
HeadersReadBack ==
  Read =>
    /\ SinceRead(read.HeaderA) =
         IF asked.since = Cached THEN TakenFor(MonthOfCopy) ELSE 0
    /\ CloseRead(read.HeaderA) = asked.close
    /\ ProtocolsRead(read.HeaderA) = asked.protocols
    /\ asked.content # "" =>
         read.content = [type |-> asked.content, boundary |-> asked.boundary]
    /\ read.part = [name |-> asked.name, filename |-> asked.filename,
                    isFile |-> asked.isFile]

\* What is mounted where, by the names between the slashes.
Segments(text) ==
  LET step(s, c) == IF c = "/" THEN Append(s, << >>)
                    ELSE [s EXCEPT ![Len(s)] = Append(@, c)]
  IN FoldLeft(step, << << >> >>, text)
Under(h, segments) ==
  IF h.exact THEN Segments(h.prefix) = segments ELSE IsPrefix(Segments(h.prefix), segments)

\* What a file of Root may be answered with; File may change meanwhile.
FromRoot(names) ==
  LET path == Root \o names
  IN IF Contains(names, <<"..">>) THEN {403, 404}
     ELSE IF path = File THEN {200, 304, 404, 500}
     ELSE IF path \notin DOMAIN Tree THEN {404}
     ELSE IF Tree[path] = "dir" THEN {403} ELSE {200, 304}

\* The codes a request may be answered with, from what it means alone.
Due(m) ==
  LET redirected == m.resource \in DOMAIN Rewrites /\ Rewrites[m.resource].redirect
      target == Segments(IF m.resource \in DOMAIN Rewrites
                           THEN Rewrites[m.resource].target ELSE m.resource)
      takers == {i \in DOMAIN Holders : Under(Holders[i], target)}
      h     == Holders[Min(takers)]
      below == SubSeq(target, Len(Segments(h.prefix)) + 1, Len(target))
  IN IF cors /\ m.method = "OPTIONS" /\ m.asksMethod THEN {200}
     ELSE IF redirected THEN {301}
     ELSE IF takers = {} THEN {404}
     ELSE
       CASE h.source \in {"generic", "static"} -> {200}
       [] h.source = "ws" -> IF m.upgrade /\ m.key /\ m.version = "13" THEN {101} ELSE {403}
       [] h.source = "zip" ->
            IF \E e \in Entries : Segments(e) = below THEN {200, 304} ELSE {404}
       [] h.source = "fs" -> FromRoot(SelectSeq(below, LAMBDA s : s # << >>))

\* A request gets the answer it means, whatever form it has: of the source that is
\* mounted at its path by whole names, nothing from outside Root, an upgrade when
\* and only when it asks for one, with the sub-protocol only if it offers it; a
\* post without a length gets none.
AnsweredAsMeant ==
  /\ Answered =>
       /\ resp.code \in Due(asked)
       /\ resp.code = 101 =>
            resp.protocol = (IF Contains(asked.protocols, <<"echo">>) THEN <<"echo">>
                             ELSE << >>)
       /\ resp.path # << >> => IsStrictPrefix(Root, resp.path)
       /\ (resp.source = "preflight") => cors
  /\ pc = "closed" => asked.method = "POST" /\ ~asked.length

\* "Not modified" is answered only when the client's copy is what the file holds,
\* also if the file was changed while the copy was read; except for two changes in
\* one month (dates tell no more), and for a copy of February, that is taken for
\* one of March.  And a file is not sent again when the copy is what it holds,
\* unless the copy is newer than its date.
VersionAt(path) == IF path = File THEN file.version ELSE 1
CopyIsCurrent(path) ==
  \/ copy.version = VersionAt(path) \/ copy.changed = ChangedAt(path)
  \/ MonthOfCopy % 12 = 1 /\ ChangedAt(path) <= TakenFor(MonthOfCopy)
SentAgainInVain(path) ==
  asked.since = Cached /\ copy.version = VersionAt(path) /\ copy.changed = MonthOfCopy
NotModifiedIsTrue ==
  [][ pc = "read" /\ pc' # "read" =>
        /\ resp'.code = 304 => copy.resource = asked.resource
        /\ resp'.code = 304 /\ resp'.source = "fs" => CopyIsCurrent(resp'.path)
        /\ pc' = "opening" => ~SentAgainInVain(resp'.path) ]_vars

\* With cross-origin calls enabled every response says so once, the error pages
\* and the preflight's too; otherwise none does.  No header a response needs is
\* left out: only the list of a preflight may be, which is as long as the client
\* makes it.  And the block has its empty line, unless such a list leaves no more
\* than two characters.
Occurs(name) ==
  Cardinality({i \in DOMAIN resp.block.names : resp.block.names[i] = name})
Needed ==
  IF resp.code = 101
    THEN {"sec-websocket-accept", "connection", "upgrade"}
           \union {"sec-websocket-protocol" : p \in ToSet(resp.protocol)}
  ELSE IF resp.code = 301 THEN {"location"}
  ELSE IF resp.source = "zip" /\ resp.code # 404
    THEN {"last-modified", "content-encoding"}
  ELSE IF resp.date # << >> THEN {"last-modified"}
  ELSE IF resp.source = "preflight" THEN {"access-control-request-methods"}
  ELSE {}
HeadersFit ==
  Answered =>
    /\ Occurs(AllowOrigin.name) = IF cors THEN 1 ELSE 0
    /\ \A name \in Needed : Occurs(name) = 1
    /\ resp.block.ended \/ (resp.source = "preflight" /\ resp.block.rest \in {1, 2})
=============================================================================
