----------------------------- MODULE QueryParams -----------------------------
(***************************************************************************)
(* HTTP::QueryParams (QueryParams.cpp): the decoder of a query string or   *)
(* an url-encoded content, and the parser of a multipart/form-data body,   *)
(* which arrives cut anywhere and whose parts become parameters and        *)
(* temporary files.                                                        *)
(*                                                                         *)
(* An action is one iteration of the loop of AppendFormMultipart(), or its *)
(* end; the parser is called by one coroutine, so the finer steps change   *)
(* nothing.  Pointers are offsets in the body.  The text of a boundary,    *)
(* and a header line without its end, are one symbol each.                 *)
(***************************************************************************)
EXTENDS Integers, Sequences, SequencesExt, FiniteSetsExt

CONSTANTS Names,        \* names of form fields
          Data,         \* contents of parts, sequences of Symbols
          Queries,      \* query strings as meant: sequences of name and value
          MaxParts,     \* bound on the parts of a body
          MaxRequests,  \* bound on the requests of a connection
          MaxUploadSize, MaxTotalUploadSize,   \* Config::FileUpload
          Unlimited     \* its default, ~(uintmax_t)0

StringHeader(n) == "string " \o n    \* Content-Disposition: form-data; name=n
FileHeader(n) == "file " \o n        \* ... ; filename=...
HeaderLines == {StringHeader(n) : n \in Names} \union {FileHeader(n) : n \in Names}
Symbols == {"CR", "LF", "-", "BOUNDARY", "x"} \union HeaderLines

ASSUME QueryAssumption ==
  /\ Names \subseteq STRING /\ Data \subseteq Seq(Symbols) /\ Symbols \subseteq STRING
  /\ MaxParts \in Nat /\ MaxRequests \in Nat
  /\ MaxUploadSize \in Nat /\ MaxTotalUploadSize \in Nat /\ Unlimited \in Nat \ {0}
  /\ \A d \in Data : \A i \in 1 .. Len(d) : d[i] # "BOUNDARY"
  /\ Queries \subseteq Seq(Seq(STRING) \X Seq(STRING))

\* No query string ends with a name that holds a header line.  (It would be read
\* as one, being left in ParseTmp when the body begins.)
ASSUME NameAssumption ==
  \A q \in Queries \ {<< >>} : \A j \in DOMAIN Last(q)[1] : Last(q)[1][j] \notin HeaderLines

\* A header line tells its kind and its name, and is nothing else of a body.
ASSUME HeaderAssumption ==
  /\ \A m, n \in Names : /\ StringHeader(m) # FileHeader(n)
                         /\ m # n => /\ StringHeader(m) # StringHeader(n)
                                    /\ FileHeader(m) # FileHeader(n)
  /\ HeaderLines \intersect {"CR", "LF", "-", "BOUNDARY", "x"} = {}

BoundaryStr == <<"CR", "LF", "-", "-", "BOUNDARY">>
HeadersEnd == <<"CR", "LF", "CR", "LF">>
None == "none"             \* nullptr
Wild == "wild"             \* an uninitialized CurrFMPart
ASSUME PointerAssumption == Names \intersect {None, Wild} = {}

VARIABLES
  query, parts, body,      \* what the client sends
  requests,                \* number of requests so far
  before,                  \* history: temporary files of earlier requests
  Begin, Pos, ContentBegin,  \* of AppendFormMultipart()
  BoundaryParseCounter, ParseTmp,
  st                       \* the part that is parsed, and all results

vars == <<query, parts, body, requests, before, Begin, Pos, ContentBegin,
          BoundaryParseCounter, ParseTmp, st>>

Map(A, B) == UNION {[D -> B] : D \in SUBSET A}
Stored(map, key, value) ==
  [k \in {key} \union DOMAIN map |-> IF k = key THEN value ELSE map[k]]

\* FMParseState, FMParseCounter, HeaderParseTmp, CurrPartMode, CurrFMPart,
\* ParamMap, FileMap; the files of the file system; and CurrFileS, Params,
\* CurrFileSize, TotalFileSize of TempFileUploadHelper.
Part == [state : {"HEADERSTART", "HEADERS_END", "READ", "FINISHED"},
         counter : 0 .. 4, headers : Seq(STRING),
         isFile : BOOLEAN, target : Names \union {None, Wild},
         ParamMap : Map(Seq(STRING), Seq(STRING)), FileMap : Map(Names, Nat),
         disk : Map(Nat, Seq(STRING)), created : Nat,
         CurrFileS : Nat, limit : Nat, totalLimit : Nat,
         CurrFileSize : Nat, TotalFileSize : Nat]

-----------------------------------------------------------------------------
(* The bodies clients send: complete ones.                                 *)

PartOf == [file : BOOLEAN, name : Names, data : Data]
Text(p) ==
  <<"CR", "LF", IF p.file THEN FileHeader(p.name) ELSE StringHeader(p.name)>>
    \o HeadersEnd \o p.data \o BoundaryStr
Preambles == {<< >>, <<"x", "CR", "LF">>}
Body(preamble, ps) ==
  preamble \o Tail(Tail(BoundaryStr))
    \o FlattenSeq([i \in DOMAIN ps |-> Text(ps[i])]) \o <<"-", "-", "CR", "LF">>

\* A size that is not limited is larger than any body.
ASSUME SizeAssumption ==
  \A n \in 0 .. MaxParts : \A ps \in [1 .. n -> PartOf] : \A pre \in Preambles :
    Len(Body(pre, ps)) <= Unlimited

-----------------------------------------------------------------------------
(* AddURLEncoded().                                                        *)

Code == [c \in {"LF", "CR", "SP", "%", "&", "+", "-", "="} |->
           CASE c = "LF" -> 10 [] c = "CR" -> 13 [] c = "SP" -> 32 [] c = "%" -> 37
             [] c = "&" -> 38 [] c = "+" -> 43 [] c = "-" -> 45 [] c = "=" -> 61]
Digits == <<"0", "1", "2", "3", "4", "5", "6", "7", "8", "9",
            "A", "B", "C", "D", "E", "F">>
MixedDigits == <<"0", "1", "2", "3", "4", "5", "6", "7", "8", "9",
                 "a", "b", "c", "d", "e", "f">>

\* How a client writes a text: a blank as "+", what has a meaning as %XX.
Escaped(c) ==
  IF c = "SP" THEN <<"+">>
  ELSE IF c \in DOMAIN Code
    THEN <<"%", Digits[(Code[c] \div 16) + 1],
           MixedDigits[(Code[c] % 16) + 1]>>
  ELSE <<c>>
EscapedText(text) == FlattenSeq([i \in DOMAIN text |-> Escaped(text[i])])
Pair(p) == EscapedText(p[1]) \o <<"=">> \o EscapedText(p[2])
QueryString(q) ==
  FlattenSeq([i \in DOMAIN q |-> IF i = 1 THEN Pair(q[i]) ELSE <<"&">> \o Pair(q[i])])

GetHexVal(c) ==
  LET At == {d \in DOMAIN Digits : c \in {Digits[d], MixedDigits[d]}}
  IN IF At = {} THEN 0 ELSE (CHOOSE d \in At : TRUE) - 1

\* What is taken at place i of a text: the character, and whether it stood for
\* itself.  Every "%" has two digits behind it.
TakenChar(text, i) ==
  IF text[i] = "+" THEN "SP"
  ELSE IF text[i] = "%"
    THEN CHOOSE c \in DOMAIN Code :
           Code[c] = 16 * GetHexVal(text[i + 1]) + GetHexVal(text[i + 2])
  ELSE text[i]
TakenWidth(c) == IF c = "%" THEN 3 ELSE 1
TakenLiteral(text, i) ==                     \* a slip: an escaped one, too
  [char |-> TakenChar(text, i), next |-> i + TakenWidth(text[i]), literal |-> TRUE]
Taken(text, i) ==
  [char |-> TakenChar(text, i), next |-> i + TakenWidth(text[i]),
   literal |-> text[i] \notin {"+", "%"}]

\* tmp is ParseTmp: the name that is read, and the last one after the loop.
DecodeStep(d, text, i) ==
  LET t == Taken(text, i)
      nameEnds  == ~d.inValue /\ t.literal /\ t.char = "="
      valueEnds == d.inValue /\ t.literal /\ t.char = "&"
  IN
    IF i < d.next THEN d
    ELSE IF nameEnds
      THEN [map |-> Stored(d.map, d.tmp, << >>), tmp |-> d.tmp, inValue |-> TRUE, next |-> t.next]
    ELSE IF valueEnds
      THEN [map |-> d.map, tmp |-> << >>, inValue |-> FALSE, next |-> t.next]
    ELSE IF d.inValue
      THEN [map |-> [d.map EXCEPT ![d.tmp] = Append(@, t.char)], tmp |-> d.tmp,
            inValue |-> TRUE, next |-> t.next]
    ELSE [map |-> d.map, tmp |-> Append(d.tmp, t.char), inValue |-> FALSE, next |-> t.next]
AddURLEncoded(map, text) ==
  LET D[i \in 0 .. Len(text)] ==
        IF i = 0 THEN [map |-> map, tmp |-> << >>, inValue |-> FALSE, next |-> 1]
        ELSE DecodeStep(D[i - 1], text, i)
  IN D[Len(text)]

\* What the query strings decode to in a new QueryParams.
Decoded == [q \in Queries |-> AddURLEncoded(<< >>, QueryString(q))]

-----------------------------------------------------------------------------
(* TempFileUploadHelper.                                                   *)

OnFileEnd(p) == [p EXCEPT !.CurrFileS = 0]

\* CurrFileSize goes on from the file before.
OnNewFile(p) ==
  IF p.limit = 0 \/ p.totalLimit = 0 THEN [p EXCEPT !.CurrFileS = 0]
  ELSE [p EXCEPT !.created = @ + 1, !.CurrFileS = p.created + 1,
                 !.disk = Stored(@, p.created + 1, << >>)]

OnFileData(p, data) ==
  LET size  == p.CurrFileSize + Len(data)
      total == p.TotalFileSize + Len(data)
  IN
  IF p.CurrFileS = 0 THEN p
  ELSE IF size > p.limit THEN [p EXCEPT !.CurrFileSize = size]
  ELSE IF total > p.totalLimit
    THEN [p EXCEPT !.CurrFileSize = size, !.TotalFileSize = total]
  ELSE [p EXCEPT !.CurrFileSize = size, !.TotalFileSize = total,
                 !.disk[p.CurrFileS] = @ \o data]

-----------------------------------------------------------------------------
(* ParseFMHeaders() and AppendToCurrentPart().                             *)

\* The header lines that name a part; the last one counts.
NamingLines(headers) ==
  {i \in DOMAIN headers : /\ headers[i] \in HeaderLines
                          /\ \E j \in DOMAIN headers : j > i /\ headers[j] = "LF"}

NewString(p, n) ==
  [p EXCEPT !.isFile = FALSE, !.target = n, !.ParamMap = Stored(@, <<n>>, << >>)]

\* The file of an earlier part with this name is removed.
RemovedKept(p, n) == p.disk                  \* a slip: remove() forgotten
Removed(p, n) ==
  [f \in DOMAIN p.disk \ {p.FileMap[m] : m \in {n} \intersect DOMAIN p.FileMap}
     |-> p.disk[f]]
NewFile(p, n) ==
  LET new == OnNewFile(p) IN
  IF new.CurrFileS = 0 THEN [new EXCEPT !.isFile = TRUE, !.target = None]
  ELSE [new EXCEPT !.isFile = TRUE, !.target = n,
                   !.disk = Removed(new, n),
                   !.FileMap = Stored(@, n, new.CurrFileS)]

\* What is on disk after the destructor of the connection.
DeleteUploadedFiles(p) ==
  [f \in DOMAIN p.disk \ {p.FileMap[n] : n \in DOMAIN p.FileMap} |-> p.disk[f]]

ParseFMHeaders(p) ==
  LET q    == IF p.isFile THEN OnFileEnd(p) ELSE p
      line == p.headers[CHOOSE i \in NamingLines(p.headers) :
                          \A j \in NamingLines(p.headers) : j <= i]
      name == CHOOSE n \in Names : line \in {StringHeader(n), FileHeader(n)}
  IN
  IF NamingLines(p.headers) = {} THEN [p EXCEPT !.target = None]
  ELSE IF line = FileHeader(name) THEN NewFile(q, name) ELSE NewString(q, name)

\* One character of a part in front of its content.  h is the part, the number
\* of characters used, the offset of the headers, and whether
\* AppendToCurrentPart() has returned.
InHeaderStart(h, c) ==
  CASE h.p.counter = 0 /\ c \in {"CR", "-"} -> [h EXCEPT !.p.counter = 1]
    [] h.p.counter = 1 /\ c = "LF" ->
         [h EXCEPT !.p = [@ EXCEPT !.counter = 0, !.state = "HEADERS_END"],
                   !.from = h.used + 1]
    [] h.p.counter = 1 /\ c = "-" ->
         [h EXCEPT !.p = OnFileEnd([@ EXCEPT !.state = "FINISHED"])]
    [] h.p.counter > 1 -> h
    [] OTHER -> [h EXCEPT !.over = TRUE]

AfterHeaders(h, data) ==
  LET whole == IF h.used > h.from + 4
                 THEN h.p.headers \o SubSeq(data, h.from + 1, h.used + 1)
                 ELSE h.p.headers
      q == ParseFMHeaders([h.p EXCEPT !.headers = whole, !.counter = 4])
  IN IF NamingLines(whole) # {}
       THEN [h EXCEPT !.p = [q EXCEPT !.state = "READ"]]
       ELSE [h EXCEPT !.p = [q EXCEPT !.headers = << >>], !.over = TRUE]

InHeaders(h, c, data) ==
  IF h.p.counter < 4 /\ c = HeadersEnd[h.p.counter + 1]
    THEN IF h.p.counter = 3 THEN AfterHeaders(h, data)
                            ELSE [h EXCEPT !.p.counter = @ + 1]
    ELSE [h EXCEPT !.p.counter = 0]

HeadStep(h, data, i) ==
  IF h.over \/ h.p.state = "READ" THEN h
  ELSE IF h.p.state = "FINISHED" THEN [h EXCEPT !.p = OnFileEnd(@), !.over = TRUE]
  ELSE [ (IF h.p.state = "HEADERSTART" THEN InHeaderStart(h, data[i])
                                       ELSE InHeaders(h, data[i], data))
         EXCEPT !.used = i]
HeadOf(p, data) ==
  LET H[i \in 0 .. Len(data)] ==
        IF i = 0 THEN [p |-> p, used |-> 0, from |-> 0, over |-> FALSE]
        ELSE HeadStep(H[i - 1], data, i)
  IN H[Len(data)]

InContent(p, data) ==
  IF p.target = None THEN p
  ELSE IF p.isFile THEN OnFileData(p, data)
  ELSE [p EXCEPT !.ParamMap[<<p.target>>] = @ \o data]

AppendToCurrentPart(p, data) ==
  IF data = << >> \/ p.state = "FINISHED" THEN p
  ELSE LET h == HeadOf(p, data) IN
    IF h.over THEN h.p
    ELSE IF h.p.state = "READ"
      THEN InContent(h.p, SubSeq(data, h.used + 1, Len(data)))
    ELSE IF h.p.state = "HEADERS_END"
      THEN [h.p EXCEPT !.headers = @ \o SubSeq(data, h.from + 1, Len(data))]
    ELSE h.p

StartNewPart(p) ==
  [p EXCEPT !.state = "HEADERSTART", !.counter = 0, !.headers = << >>]

-----------------------------------------------------------------------------
(* AppendFormMultipart().                                                  *)

\* A fresh QueryParams, with what a move-assignment leaves of the old one:
\* FMParseState is not assigned, FMParseCounter and CurrFMPart are not
\* initialized, and the limits are the default ones.
ResetQuery(p, counter) ==
  [p EXCEPT !.counter = counter, !.headers = << >>, !.isFile = FALSE,
            !.target = Wild, !.ParamMap = << >>, !.FileMap = << >>,
            !.CurrFileS = 0, !.limit = Unlimited, !.totalLimit = Unlimited,
            !.CurrFileSize = 0, !.TotalFileSize = 0]

\* ResetRequestData(), and the request line.  The files of the old FileMap stay.
ReadRequest(q, counter) ==
  [ResetQuery(st, counter) EXCEPT !.ParamMap = Decoded[q].map]

NewRequest ==
  /\ requests < MaxRequests /\ Begin = Len(body)
  /\ requests' = requests + 1 /\ before' = st.created
  /\ Begin' = 0 /\ Pos' = 0 /\ ContentBegin' = 0 /\ BoundaryParseCounter' = 2

\* The body begins with the last name of the query string in ParseTmp.
BeginMultipart ==
  /\ NewRequest
  /\ \E n \in 0 .. MaxParts : parts' \in [1 .. n -> PartOf]
  /\ \E pre \in Preambles : body' = Body(pre, parts')
  /\ query' \in Queries
  /\ ParseTmp' = Decoded[query'].tmp
  /\ \E counter \in 0 .. 4 : st' = ReadRequest(query', counter)

\* An url-encoded content is decoded as a whole, behind the query string.
BeginURLEncoded ==
  /\ NewRequest
  /\ parts' = << >> /\ body' = << >>
  /\ \E q, content \in Queries, counter \in 0 .. 4 :
       LET p == ReadRequest(q, counter)
           d == AddURLEncoded(p.ParamMap, QueryString(content))
       IN /\ query' = q \o content
          /\ ParseTmp' = d.tmp /\ st' = [p EXCEPT !.ParamMap = d.map]

\* The constructors of Connection and of its CurrQuery.
Init ==
  /\ query = << >> /\ parts = << >> /\ body = << >> /\ requests = 0 /\ before = 0
  /\ Begin = 0 /\ Pos = 0 /\ ContentBegin = 0
  /\ BoundaryParseCounter = 2 /\ ParseTmp = << >>
  /\ st = [state |-> "HEADERSTART", counter |-> 0, headers |-> << >>,
           isFile |-> FALSE, target |-> Wild, ParamMap |-> << >>,
           FileMap |-> << >>, disk |-> << >>, created |-> 0, CurrFileS |-> 0,
           limit |-> MaxUploadSize, totalLimit |-> MaxTotalUploadSize,
           CurrFileSize |-> 0, TotalFileSize |-> 0]

frame == <<query, parts, body, requests, before, Begin>>
Cells(from, to) == SubSeq(body, from + 1, to)
InBody == Pos < Len(body)
Current == body[Pos + 1]

ScanContent ==
  /\ InBody /\ BoundaryParseCounter = 0 /\ Current # "CR"
  /\ Pos' = Pos + 1
  /\ UNCHANGED <<frame, ContentBegin, BoundaryParseCounter, ParseTmp, st>>

Matches(c) == c = BoundaryStr[BoundaryParseCounter + 1]

MatchOne ==
  /\ InBody /\ Matches(Current)
  /\ BoundaryParseCounter + 1 < Len(BoundaryStr)
  /\ Pos' = Pos + 1 /\ BoundaryParseCounter' = BoundaryParseCounter + 1
  /\ UNCHANGED <<frame, ContentBegin, ParseTmp, st>>

\* What is left for the current part when its boundary ends at end: the part of
\* ParseTmp, resp. of this call's data, in front of the boundary.
BeforeBoundary(end) ==
  IF end - Begin < Len(BoundaryStr)
    THEN SubSeq(ParseTmp, 1, Len(ParseTmp) + (end - Begin) - Len(BoundaryStr))
    ELSE Cells(ContentBegin, end - Len(BoundaryStr))

MatchLast ==
  /\ InBody /\ Matches(Current)
  /\ BoundaryParseCounter + 1 = Len(BoundaryStr)
  /\ Pos' = Pos + 1 /\ BoundaryParseCounter' = 0
  /\ ParseTmp' = << >> /\ ContentBegin' = Pos + 1
  /\ st' = StartNewPart(AppendToCurrentPart(st, BeforeBoundary(Pos + 1)))
  /\ UNCHANGED frame

\* The character that breaks the match is looked at again: it may begin one.
PosAfterBreakNext == Pos + 1                 \* a slip: it is skipped
PosAfterBreak == Pos
MatchBroken ==
  /\ InBody /\ BoundaryParseCounter > 0 /\ ~Matches(Current)
  /\ st' = AppendToCurrentPart(AppendToCurrentPart(st, ParseTmp),
                               Cells(ContentBegin, Pos))
  /\ ParseTmp' = << >> /\ BoundaryParseCounter' = 0 /\ ContentBegin' = Pos
  /\ Pos' = PosAfterBreak
  /\ UNCHANGED frame

\* The call ends: what may be the beginning of a boundary is kept in ParseTmp.
KeptForLaterAll == Cells(ContentBegin, Pos)  \* a slip: content, too
KeptForLater == Cells(Max({Pos - BoundaryParseCounter, Begin}), Pos)
EndCall ==
  /\ Pos > Begin
  /\ IF BoundaryParseCounter > 0
       THEN /\ st' = AppendToCurrentPart(st,
                       Cells(ContentBegin, Pos - BoundaryParseCounter))
            /\ ParseTmp' = ParseTmp \o KeptForLater
       ELSE /\ st' = AppendToCurrentPart(st, Cells(ContentBegin, Pos))
            /\ UNCHANGED ParseTmp
  /\ Begin' = Pos /\ ContentBegin' = Pos
  /\ UNCHANGED <<query, parts, body, requests, before, Pos, BoundaryParseCounter>>

Next ==
  \/ BeginMultipart \/ BeginURLEncoded
  \/ ScanContent \/ MatchOne \/ MatchLast \/ MatchBroken
  \/ EndCall

Spec == Init /\ [][Next]_vars

-----------------------------------------------------------------------------
\* Every variable keeps its type, no pointer leaves the data of its call, ParseTmp
\* holds no more than the query string's last name and the beginning of a
\* boundary, and CurrFMPart is used only when it was set.
TypeOK ==
  /\ requests \in 0 .. MaxRequests /\ before \in 0 .. st.created /\ parts \in Seq(PartOf)
  /\ body \in Seq(Symbols)
  /\ Begin \in 0 .. Pos /\ Pos \in 0 .. Len(body) /\ ContentBegin \in Begin .. Pos
  /\ BoundaryParseCounter \in 0 .. Len(BoundaryStr) - 1
  /\ query \in Seq(Seq(STRING) \X Seq(STRING)) /\ ParseTmp \in Seq(STRING)
  /\ Len(ParseTmp) < Len(BoundaryStr)
                       + (IF query = << >> THEN 0 ELSE Len(Last(query)[1]))
  /\ st.state \in {"HEADERSTART", "HEADERS_END", "READ", "FINISHED"}
  /\ st.counter \in 0 .. 4 /\ st.headers \in Seq(STRING)
  /\ st.target \in Names \union {None, Wild}
  /\ st.state = "READ" => st.target # Wild
  /\ DOMAIN st.ParamMap \subseteq Seq(STRING) /\ DOMAIN st.FileMap \subseteq Names
  /\ DOMAIN st.disk \subseteq 1 .. st.created

\* What was sent for every name, as parameters or as files; the last one counts.
Sent(ps, isFile) == {i \in DOMAIN ps : ps[i].file = isFile}
Contents(ps, isFile) ==
  [n \in {ps[i].name : i \in Sent(ps, isFile)} |->
     ps[Max({i \in Sent(ps, isFile) : ps[i].name = n})].data]
QueryMeant(q) ==
  Contents([i \in DOMAIN q |-> [file |-> FALSE, name |-> q[i][1], data |-> q[i][2]]], FALSE)

\* The parameters a request means: those of its query string (and of its
\* url-encoded content behind it), and then those of its parts.
Meant(q, ps) ==
  LET sent == [n \in {<<m>> : m \in DOMAIN Contents(ps, FALSE)} |->
                 Contents(ps, FALSE)[n[1]]]
  IN [n \in DOMAIN sent \union DOMAIN QueryMeant(q) |->
        IF n \in DOMAIN sent THEN sent[n] ELSE QueryMeant(q)[n]]

\* At the end of a body every parameter and file has the content that was sent,
\* however the body was cut, whatever beginnings of boundaries its contents hold,
\* whatever was escaped in the query string and whatever name it ended with.
PartsExact ==
  requests > 0 /\ Begin = Len(body) =>
    /\ st.ParamMap = Meant(query, parts)
    /\ [n \in DOMAIN st.FileMap |-> st.disk[st.FileMap[n]]] = Contents(parts, TRUE)
    /\ body # << >> => st.state = "FINISHED" /\ st.CurrFileS = 0

\* Whenever the connection is deleted, also in the middle of a body and when two
\* parts have one name, no temporary file of its last request is left.  (Those of
\* its earlier requests are lost by ResetRequestData().)
UploadsReachable == \A f \in DOMAIN DeleteUploadedFiles(st) : f <= before

-----------------------------------------------------------------------------
\* FileUploadConfig.h:23 "Maximum uploaded file size. If a single file's size
\* grows beyond this limit, the parsing will be aborted."
UploadLimited == \A f \in DOMAIN st.disk : Len(st.disk[f]) <= MaxUploadSize
=============================================================================
