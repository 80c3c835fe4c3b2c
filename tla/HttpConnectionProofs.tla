------------------------ MODULE HttpConnectionProofs ------------------------
(***************************************************************************)
(* For every sequence of requests, every response and every buffer size,   *)
(* however the network cuts the stream: requests are served once and in    *)
(* their order with their own content, the pointers handed out are valid   *)
(* but for contents read as a whole, and a kept connection is in step.     *)
(***************************************************************************)
EXTENDS HttpConnection, StreamReadBuffProofs, ResponseProofs, SequenceLemmas

\* The pointer positions of the coroutine: what is being read at each pc.
InWhole == {"whole", "whole_read", "whole_take"}
InMultipart == {"multipart_begin", "multipart", "multipart_request", "multipart_read"}
InContent == {"content"} \union InWhole \union InMultipart
InAnswer == {"respond", "write", "discard"}

\* The stream position behind the headers of request k.
Parsed(k) == Start[k] + reqs[k].head

\* The parser is within what the client has sent, and in front of the first
\* empty line behind the place where it began.
InStream ==
  /\ 0 <= ParseStart /\ received <= Total
  /\ pc = "header" =>
       /\ cur = NoRequest /\ HeaderA.in = "nowhere"
       /\ \A e \in HeaderEnds : ~(ParseStart <= e /\ e < ParserPos)

\* A content is read from its first cell on; a content that is read as a whole
\* is taken when all of it is there.
InPlace ==
  /\ pc \in InContent => Req.method = "POST"
  /\ pc \in {"content", "multipart_begin"} \union InWhole /\ cur # NoRequest =>
       ParserPos = Parsed(cur)
  /\ pc \in InWhole => Req.type = "whole" /\ Req.body > 0
  /\ pc = "whole_take" => Available >= Req.body

\* The parts that were fed are the beginning of the content.
FedCells ==
  /\ Len(fed) + RemLength = Req.body
  /\ cur # NoRequest => \A i \in 1 .. Len(fed) : fed[i] = Parsed(cur) + i - 1
Parts ==
  /\ pc \in InMultipart => Req.type = "multipart" /\ FedCells
  /\ pc = "multipart_begin" => Len(fed) = 0
  /\ pc \in InMultipart \ {"multipart_begin"} =>
       /\ HeaderA.in = "PostHeaderBuff"
       /\ cur # NoRequest => ParserPos = Parsed(cur) + Len(fed)

\* The content of the request that is answered.
Taken ==
  pc \in InAnswer /\ cur # NoRequest /\ Req.method = "POST" =>
    /\ Req.type = "multipart" => FedCells /\ RemLength = 0
    /\ Req.type = "whole" /\ pc = "respond" =>
         /\ Req.body <= Len(content)
         /\ \A i \in 1 .. Req.body : content[i] = Parsed(cur) + i - 1

\* As long as no content ran into the request behind it, it is the turn of the
\* next request, whose first cell the parser began with.
InTurn ==
  ~mixed =>
    /\ \A i \in DOMAIN created : created[i].req = i
    /\ pc = "header" =>
         Len(created) <= Len(reqs) /\ ParseStart = Start[Len(created) + 1]
    /\ pc \in InContent \union {"respond"} => cur = Len(created) + 1
    /\ pc \in {"write", "discard"} => cur = Len(created) /\ cur # NoRequest
    /\ pc \in InAnswer => ParserPos = Start[cur] + Size(Req)

\* What the response sources got.
CreatedOK ==
  /\ created \in Seq([req : {NoRequest} \union DOMAIN reqs,
                      headers : BOOLEAN,
                      content : Seq(0 .. Total)])
  /\ \A i \in DOMAIN created :
       LET k == created[i].req IN
       k # NoRequest /\ reqs[k].method = "POST" /\ reqs[k].type = "whole" =>
         /\ reqs[k].body <= Len(created[i].content)
         /\ \A j \in 1 .. reqs[k].body : created[i].content[j] = Parsed(k) + j - 1

-----------------------------------------------------------------------------
(* Where the requests begin.                                               *)

\* A client only sends requests, whose heads have at least one cell.
LEMMA RequestFacts ==
  ASSUME reqs \in Seq(Requests), NEW k \in DOMAIN reqs
  PROVE  /\ k \in 1 .. Len(reqs) /\ k \in Nat /\ reqs[k] \in Requests
         /\ reqs[k].head \in Nat /\ reqs[k].head >= 1
         /\ reqs[k].body \in Nat /\ reqs[k].body <= MaxLen
         /\ reqs[k].method \in {"GET", "POST"}
         /\ reqs[k].type \in {"whole", "multipart", "rejected"}
         /\ Size(reqs[k]) = reqs[k].head + reqs[k].body
         /\ reqs[k].method = "GET" => reqs[k].body = 0
<1>1. k \in 1 .. Len(reqs) /\ reqs[k] \in Requests /\ Len(reqs) \in Nat
  OBVIOUS
<1>2. reqs[k] \in Request
  BY <1>1, RequestAssumption
<1>3. /\ reqs[k].head \in Nat \ {0} /\ reqs[k].body \in Nat
      /\ reqs[k].method \in {"GET", "POST"}
      /\ reqs[k].type \in {"whole", "multipart", "rejected"}
  BY <1>2 DEF Request
<1> QED BY <1>1, <1>3, RequestAssumption DEF Size

\* Start is the function its recursive definition describes.
LEMMA StartFacts ==
  ASSUME reqs \in Seq(Requests)
  PROVE  /\ \A k \in 1 .. Len(reqs) + 1 : Start[k] \in Nat
         /\ Start[1] = 0
         /\ \A k \in 1 .. Len(reqs) : Start[k + 1] = Start[k] + Size(reqs[k])
<1> DEFINE N == Len(reqs) + 1
           Next1(f, k) == IF k = 1 THEN 0 ELSE f[k - 1] + Size(reqs[k - 1])
           Has(n) == \E f \in [1 .. n -> Nat] : \A k \in 1 .. n : f[k] = Next1(f, k)
           T == {n \in Nat : n <= N /\ ~Has(n)}
<1>1. N \in Nat /\ N >= 1
  OBVIOUS
<1>2. ASSUME NEW k \in 1 .. Len(reqs) PROVE Size(reqs[k]) \in Nat
  BY RequestFacts
<1>3. Has(0)
  <2> DEFINE f == [k \in 1 .. 0 |-> 0]
  <2>1. f \in [1 .. 0 -> Nat] /\ \A k \in 1 .. 0 : f[k] = Next1(f, k)
    OBVIOUS
  <2> QED BY <2>1
<1>4. ASSUME NEW n \in Nat, n < N, Has(n) PROVE Has(n + 1)
  <2>1. PICK f \in [1 .. n -> Nat] : \A k \in 1 .. n : f[k] = Next1(f, k)
    BY <1>4
  <2> DEFINE v == IF n = 0 THEN 0 ELSE f[n] + Size(reqs[n])
             g == [k \in 1 .. n + 1 |-> IF k = n + 1 THEN v ELSE f[k]]
  <2>2. v \in Nat
    <3>1. CASE n = 0
      BY <3>1
    <3>2. CASE n # 0
      <4>1. n \in 1 .. Len(reqs) /\ n \in 1 .. n
        BY <1>4, <3>2
      <4> QED BY <1>2, <2>1, <4>1
    <3> QED BY <3>1, <3>2
  <2> HIDE DEF v
  <2>3. g \in [1 .. n + 1 -> Nat]
    BY <2>1, <2>2
  <2>4. ASSUME NEW k \in 1 .. n + 1 PROVE g[k] = Next1(g, k)
    <3>1. CASE k = n + 1
      <4>1. n # 0 => g[n] = f[n]
        OBVIOUS
      <4>2. g[k] = v
        BY <3>1
      <4>3. k - 1 = n /\ (k = 1 <=> n = 0)
        BY <3>1
      <4> HIDE DEF g
      <4> QED BY <3>1, <4>1, <4>2, <4>3 DEF v
    <3>2. CASE k # n + 1
      <4>1. k \in 1 .. n /\ (k # 1 => k - 1 \in 1 .. n)
        BY <3>2
      <4>2. g[k] = f[k] /\ (k # 1 => g[k - 1] = f[k - 1])
        BY <4>1
      <4> HIDE DEF g
      <4> QED BY <2>1, <4>1, <4>2
    <3> QED BY <3>1, <3>2
  <2> HIDE DEF g
  <2> QED BY <2>3, <2>4
<1> HIDE DEF Has
<1>5. T = {}
  <2> SUFFICES ASSUME T # {} PROVE FALSE
    OBVIOUS
  <2>1. PICK m \in T : \A n \in T : m <= n
    BY LeastNatural
  <2>2. m \in Nat /\ m <= N /\ ~Has(m)
    OBVIOUS
  <2>3. m # 0
    BY <1>3, <2>2
  <2>4. m - 1 \in Nat /\ m - 1 < N /\ m - 1 <= N /\ (m - 1) + 1 = m
    BY <1>1, <2>2, <2>3
  <2>5. m - 1 \notin T
    BY <2>1, <2>2, <2>4
  <2>6. Has(m - 1)
    BY <2>4, <2>5
  <2> QED BY <1>4, <2>2, <2>4, <2>6
<1>6. PICK f \in [1 .. N -> Nat] : \A k \in 1 .. N : f[k] = Next1(f, k)
  <2>1. Has(N)
    BY <1>1, <1>5
  <2> QED BY <2>1 DEF Has
<1>7. f = [k \in 1 .. N |-> IF k = 1 THEN 0 ELSE f[k - 1] + Size(reqs[k - 1])]
  BY <1>6
<1>8. Start = [k \in 1 .. N |-> IF k = 1 THEN 0 ELSE Start[k - 1] + Size(reqs[k - 1])]
  <2>1. f = [k \in 1 .. Len(reqs) + 1 |->
               IF k = 1 THEN 0 ELSE f[k - 1] + Size(reqs[k - 1])]
    BY <1>7
  <2>2. Start = [k \in 1 .. Len(reqs) + 1 |->
                   IF k = 1 THEN 0 ELSE Start[k - 1] + Size(reqs[k - 1])]
    BY <2>1, Zenon DEF Start
  <2> QED BY <2>2
<1>9. \A k \in 1 .. N : Start[k] = Next1(Start, k)
  BY <1>8
<1> DEFINE U == {n \in Nat : n \in 1 .. N /\ Start[n] # f[n]}
<1>10. U = {}
  <2> SUFFICES ASSUME U # {} PROVE FALSE
    OBVIOUS
  <2>1. PICK m \in U : \A n \in U : m <= n
    BY LeastNatural
  <2>2. m \in 1 .. N /\ m \in Nat /\ Start[m] # f[m]
    OBVIOUS
  <2>3. m # 1
    BY <1>6, <1>9, <2>2
  <2>4. m - 1 \in 1 .. N /\ m - 1 \in Nat /\ m - 1 < m
    BY <1>1, <2>2, <2>3
  <2>5. Start[m - 1] = f[m - 1]
    BY <2>1, <2>2, <2>4
  <2> QED BY <1>6, <1>9, <2>2, <2>3, <2>5
<1>11. \A k \in 1 .. N : Start[k] = f[k] /\ Start[k] \in Nat
  BY <1>1, <1>6, <1>10
<1>12. Start[1] = 0
  BY <1>1, <1>9
<1>13. ASSUME NEW k \in 1 .. Len(reqs) PROVE Start[k + 1] = Start[k] + Size(reqs[k])
  <2>1. k + 1 \in 1 .. N /\ k + 1 # 1 /\ (k + 1) - 1 = k
    OBVIOUS
  <2> QED BY <1>9, <2>1
<1> QED BY <1>11, <1>12, <1>13

\* The requests do not overlap, and the stream ends with the last one.
LEMMA StartOrder ==
  ASSUME reqs \in Seq(Requests), NEW j \in 1 .. Len(reqs), NEW k \in 1 .. Len(reqs) + 1, j < k
  PROVE  Start[j] + Size(reqs[j]) <= Start[k]
<1> DEFINE T == {n \in Nat : j < n /\ n <= Len(reqs) + 1
                             /\ ~(Start[j] + Size(reqs[j]) <= Start[n])}
<1>1. /\ \A n \in 1 .. Len(reqs) + 1 : Start[n] \in Nat
      /\ \A n \in 1 .. Len(reqs) : Start[n + 1] = Start[n] + Size(reqs[n])
      /\ Len(reqs) \in Nat
  BY StartFacts
<1>2. \A n \in 1 .. Len(reqs) : Size(reqs[n]) \in Nat
  BY RequestFacts
<1>3. T = {}
  <2> SUFFICES ASSUME T # {} PROVE FALSE
    OBVIOUS
  <2>1. PICK m \in T : \A n \in T : m <= n
    BY LeastNatural
  <2>2. m \in Nat /\ j < m /\ m <= Len(reqs) + 1 /\ ~(Start[j] + Size(reqs[j]) <= Start[m])
    OBVIOUS
  <2>3. m - 1 \in 1 .. Len(reqs) /\ m - 1 \in Nat /\ (m - 1) + 1 = m
    <3>1. Len(reqs) \in Nat /\ j \in Nat /\ j >= 1
      BY <1>1
    <3> QED BY <2>2, <3>1
  <2>4. Start[m] = Start[m - 1] + Size(reqs[m - 1])
    BY <1>1, <2>3
  <2>5. Start[m - 1] \in Nat /\ Size(reqs[m - 1]) \in Nat /\ Start[j] \in Nat /\ Size(reqs[j]) \in Nat
    <3>1. m - 1 \in 1 .. Len(reqs) + 1 /\ j \in 1 .. Len(reqs) + 1
      BY <1>1, <2>3
    <3>2. Start[m - 1] \in Nat /\ Start[j] \in Nat
      BY <1>1, <3>1
    <3>3. Size(reqs[m - 1]) \in Nat /\ Size(reqs[j]) \in Nat
      BY <1>2, <2>3
    <3> QED BY <3>2, <3>3
  <2>6. j # m - 1
    BY <2>2, <2>4, <2>5
  <2>7. j < m - 1 /\ m - 1 <= Len(reqs) + 1
    BY <2>2, <2>3, <2>6
  <2>8. m - 1 \notin T
    BY <2>1, <2>3
  <2>9. Start[j] + Size(reqs[j]) <= Start[m - 1]
    BY <2>3, <2>7, <2>8
  <2> QED BY <2>2, <2>4, <2>5, <2>9
<1> QED BY <1>1, <1>3, SMTT(30)

\* What begins where, for the requests of the stream.
LEMMA Layout ==
  ASSUME reqs \in Seq(Requests)
  PROVE  /\ Total \in Nat
         /\ \A k \in DOMAIN reqs :
              /\ Start[k] \in Nat /\ Parsed(k) \in Nat
              /\ Start[k] < Parsed(k) /\ Parsed(k) = Start[k] + reqs[k].head
              /\ Start[k + 1] = Parsed(k) + reqs[k].body
              /\ Start[k] + Size(reqs[k]) = Parsed(k) + reqs[k].body
              /\ Parsed(k) + reqs[k].body <= Total
         /\ \A j, k \in DOMAIN reqs : j < k => Parsed(j) + reqs[j].body <= Start[k]
<1>1. Len(reqs) \in Nat /\ DOMAIN reqs = 1 .. Len(reqs)
  OBVIOUS
<1>2. /\ \A k \in 1 .. Len(reqs) + 1 : Start[k] \in Nat
      /\ \A k \in 1 .. Len(reqs) : Start[k + 1] = Start[k] + Size(reqs[k])
  BY StartFacts
<1>3. Total \in Nat
  BY <1>1, <1>2 DEF Total
<1>4. ASSUME NEW k \in DOMAIN reqs
      PROVE  /\ Start[k] \in Nat /\ Parsed(k) \in Nat /\ Start[k] < Parsed(k)
             /\ Parsed(k) = Start[k] + reqs[k].head
             /\ Start[k] + Size(reqs[k]) = Parsed(k) + reqs[k].body
             /\ Start[k + 1] = Parsed(k) + reqs[k].body
  <2>1. Start[k] \in Nat /\ Start[k + 1] = Start[k] + Size(reqs[k])
    BY <1>1, <1>2
  <2> QED BY <2>1, RequestFacts DEF Parsed
<1>5. ASSUME NEW j \in DOMAIN reqs, NEW k \in 1 .. Len(reqs) + 1, j < k
      PROVE  Parsed(j) + reqs[j].body <= Start[k]
  BY <1>1, <1>4, <1>5, StartOrder
<1>6. \A k \in DOMAIN reqs : Parsed(k) + reqs[k].body <= Total
  BY <1>1, <1>5 DEF Total
<1>7. \A j, k \in DOMAIN reqs : j < k => Parsed(j) + reqs[j].body <= Start[k]
  BY <1>1, <1>5
<1> QED BY <1>3, <1>4, <1>6, <1>7

\* An empty line is the last cell of the headers.
LEMMA HeaderEndPlaces ==
  ASSUME reqs \in Seq(Requests)
  PROVE  \A e : e \in HeaderEnds <=> \E k \in DOMAIN reqs : e = Parsed(k) - 1
<1>1. ASSUME NEW k \in DOMAIN reqs PROVE Start[k] + reqs[k].head - 1 = Parsed(k) - 1
  <2>1. Parsed(k) = Start[k] + reqs[k].head /\ Start[k] \in Nat /\ reqs[k].head \in Nat
    BY Layout, RequestFacts
  <2> QED BY <2>1
<1>2. \A e : e \in HeaderEnds <=> \E k \in DOMAIN reqs : e = Start[k] + reqs[k].head - 1
  BY Zenon DEF HeaderEnds
<1> QED BY <1>1, <1>2, Zenon

\* The client's requests are fixed, and so is their layout.
LEMMA LayoutStays ==
  ASSUME UNCHANGED reqs
  PROVE  /\ UNCHANGED <<Start, Total, HeaderEnds>>
         /\ \A k : Parsed(k)' = Parsed(k) /\ BodyOf(k)' = BodyOf(k)
<1>1. Start' = Start
  BY DEF Start
<1> QED BY <1>1 DEF Total, HeaderEnds, Parsed, BodyOf

-----------------------------------------------------------------------------
(* What the methods of the read buffer do to the place of the parser.      *)

\* The place of the parser, what is available, and what was received.
LEMMA Places ==
  ASSUME IInv
  PROVE  /\ Available \in Nat /\ ParserPos \in Int /\ ParseStart \in Int
         /\ ReadPos \in Nat /\ DataEndPos \in Nat /\ RelevantLength \in Nat
         /\ RelevantLength <= ReadPos /\ received \in Nat /\ FreeLength \in Int
         /\ Available = DataEndPos - ReadPos
         /\ ParserPos = received - Available /\ ParserPos + Available = received
         /\ ParseStart = ParserPos - RelevantLength /\ ParseStart <= ParserPos
<1>1. /\ ReadPos \in Nat /\ DataEndPos \in Nat /\ RelevantLength \in Nat /\ received \in Nat
      /\ BuffSize \in Nat /\ RelevantLength <= ReadPos /\ ReadPos <= DataEndPos
  BY DEF IInv, TypeOK, PositionsInBuffer
<1>2. Available \in Nat /\ Available = DataEndPos - ReadPos /\ FreeLength \in Int
  BY <1>1 DEF Available, FreeLength
<1>3. ParserPos = received - Available /\ ParseStart = ParserPos - RelevantLength
  BY DEF ParserPos, ParseStart
<1> QED BY <1>1, <1>2, <1>3

\* The available cells are those of the stream at the parser.
LEMMA CellsFacts ==
  ASSUME IInv, 0 <= ParseStart, NEW n \in 0 .. Available
  PROVE  /\ Len(Cells(n)) = n /\ Cells(n) \in Seq(0 .. received)
         /\ \A i \in 1 .. n : Cells(n)[i] = ParserPos + i - 1
<1>1. /\ Available \in Nat /\ ParserPos \in Nat /\ ReadPos \in Nat /\ DataEndPos \in Nat
      /\ RelevantLength \in Nat /\ RelevantLength <= ReadPos /\ received \in Nat
      /\ Available = DataEndPos - ReadPos /\ ParserPos + Available = received
  BY Places
<1>2. BuffSize \in Nat /\ DataEndPos <= BuffSize
  BY DEF IInv, TypeOK, PositionsInBuffer
<1>3. ASSUME NEW i \in 1 .. n
      PROVE  buff[ReadPos + i - 1] = ParserPos + i - 1 /\ ParserPos + i - 1 \in 0 .. received
  <2>1. /\ ReadPos + i - 1 \in 0 .. BuffSize - 1 /\ FrontSpace <= ReadPos + i - 1
        /\ ReadPos + i - 1 < DataEndPos
    BY <1>1, <1>2 DEF FrontSpace
  <2>2. buff[ReadPos + i - 1] = received - (DataEndPos - (ReadPos + i - 1))
    BY <2>1 DEF IInv, WindowIsStream
  <2> QED BY <1>1, <2>2
<1>4. n \in Nat /\ Cells(n) = [i \in 1 .. n |-> buff[ReadPos + i - 1]]
  BY <1>1 DEF Cells
<1> QED BY <1>3, <1>4

\* Consume() takes the parser on by n cells.
LEMMA ConsumeEffect ==
  ASSUME IInv, NEW n \in 0 .. Available, NEW isRelevant \in BOOLEAN, Consume(n, isRelevant)
  PROVE  /\ IInv' /\ ParserPos' = ParserPos + n /\ received' = received
         /\ ParseStart' = IF isRelevant THEN ParseStart ELSE ParseStart + n
<1>1. n \in Nat /\ AtMost(n, Available) = n
  BY Places DEF AtMost
<1>2. /\ ReadPos' = ReadPos + n /\ DataEndPos' = DataEndPos /\ received' = received
      /\ RelevantLength' = RelevantLength + (IF isRelevant THEN n ELSE 0)
  BY <1>1 DEF Consume
<1>3. IInv'
  BY <1>1, ConsumeIInv
<1>4. ParserPos' = ParserPos + n
  BY <1>1, <1>2, Places DEF ParserPos, Available
<1>5. ParseStart' = ParserPos' - RelevantLength'
  BY DEF ParseStart
<1>6. CASE isRelevant
  BY <1>1, <1>2, <1>3, <1>4, <1>5, <1>6, Places
<1>7. CASE ~isRelevant
  BY <1>1, <1>2, <1>3, <1>4, <1>5, <1>7, Places
<1> QED BY <1>2, <1>3, <1>4, <1>6, <1>7

\* Reading leaves the parser where it is, and stays within the stream.
LEMMA ReadEffect ==
  ASSUME IInv, Total \in Nat, received <= Total, ContinueRead
  PROVE  /\ IInv' /\ ParserPos' = ParserPos /\ ParseStart' = ParseStart /\ received' <= Total
<1>1. PICK n \in 1 .. AtMost(FreeLength, Total - received) : OnNewData(n)
  BY DEF ContinueRead
<1>2. n \in Nat /\ n <= Total - received
  BY Places, <1>1 DEF AtMost
<1>3. IInv'
  BY <1>1, <1>2, OnNewDataIInv
<1>4. /\ received' = received + n /\ DataEndPos' = DataEndPos + n
      /\ ReadPos' = ReadPos /\ RelevantLength' = RelevantLength
  BY <1>1 DEF OnNewData
<1>5. ParserPos' = ParserPos
  BY <1>2, <1>4, Places DEF ParserPos, Available
<1>6. ParseStart' = ParseStart
  BY <1>4, <1>5 DEF ParseStart
<1> QED BY <1>2, <1>3, <1>4, <1>5, <1>6, Places

\* RequestData() leaves the parser where it is, whether it moves the data or not.
LEMMA RequestEffect ==
  ASSUME IInv, NEW n \in 0 .. MaxLen, RequestData(n)
  PROVE  /\ IInv' /\ ParserPos' = ParserPos /\ ParseStart' = ParseStart
         /\ received' = received /\ Available' = Available
         /\ ~asked' => Available >= n
<1>1. IInv'
  BY RequestDataIInv
<1>2. received' = received /\ RelevantLength' = RelevantLength /\ asked' = (Available < n)
  BY DEF RequestData
<1>3. Available' = Available
  <2>1. CASE UNCHANGED <<ReadPos, DataEndPos>>
    BY <2>1 DEF Available
  <2>2. CASE MoveData(GrownSize(n))
    <3>1. ReadPos' = ReadPos - FrontSpace /\ DataEndPos' = DataEndPos - FrontSpace
      BY <2>2 DEF MoveData, MovedEnd
    <3>2. ReadPos \in Nat /\ DataEndPos \in Nat /\ FrontSpace \in Int
      BY Places DEF FrontSpace
    <3>3. Available' = DataEndPos' - ReadPos' /\ Available = DataEndPos - ReadPos
      BY DEF Available
    <3> QED BY <3>1, <3>2, <3>3
  <2> QED BY <2>1, <2>2 DEF RequestData
<1>4. ParserPos' = ParserPos /\ ParseStart' = ParseStart
  BY <1>2, <1>3 DEF ParserPos, ParseStart
<1>5. ~asked' => Available >= n
  <2>1. n \in Int /\ Available \in Int
    BY Places, BuffAssumption
  <2>2. CASE Available < n
    BY <1>2, <2>2
  <2>3. CASE ~(Available < n)
    BY <2>1, <2>3
  <2> QED BY <2>2, <2>3
<1> QED BY <1>1, <1>2, <1>3, <1>4, <1>5

\* Dropping what was kept leaves the parser where it is.
LEMMA DropEffect ==
  ASSUME IInv, Discard
  PROVE  /\ IInv' /\ ParserPos' = ParserPos /\ ParseStart' = ParserPos
         /\ received' = received
<1>1. CASE ResetRelevant
  <2>1. IInv'
    BY <1>1, ResetIInv
  <2>2. /\ RelevantLength' = 0 /\ received' = received
        /\ Available' = Available
    BY <1>1, Places DEF ResetRelevant, Available
  <2>3. ParserPos' = ParserPos
    BY <2>2 DEF ParserPos
  <2> QED BY <2>1, <2>2, <2>3, Places DEF ParseStart
<1>2. CASE (RelevantLength = 0 \/ ReadPos = 0) /\ UNCHANGED vars
  <2>1. IInv' /\ ParserPos' = ParserPos /\ ParseStart' = ParseStart /\ received' = received
    BY <1>2 DEF vars, pos, hist, IInv, TypeOK, PositionsInBuffer, WindowIsStream,
                RoomForRequest, FrontSpace, FreeLength, Available, ParserPos, ParseStart
  <2>2. RelevantLength = 0
    BY <1>2, Places
  <2> QED BY <2>1, <2>2, Places DEF ParseStart
<1> QED BY <1>1, <1>2 DEF Discard

-----------------------------------------------------------------------------
(* The invariant, action by action.                                        *)

ConnIInv ==
  /\ IInv /\ RespIInv /\ ConnTypeOK
  /\ InStream /\ InPlace /\ Parts /\ Taken /\ InTurn /\ CreatedOK
  /\ HeadersInPlace

\* The type of what the coroutine itself keeps.
OwnTypeOK ==
  /\ pc \in {"header", "content", "whole", "whole_read", "whole_take",
             "multipart_begin", "multipart", "multipart_request",
             "multipart_read", "respond", "write", "discard", "ended"}
  /\ cur \in {NoRequest} \union DOMAIN reqs
  /\ rest \in Requests \union {NoHeaders}
  /\ HeaderA \in [in : {"nowhere", "ReadBuff", "StaticBuff", "PostHeaderBuff", "lost"},
                  at : Nat, cells : Seq(Byte)]
  /\ content \in Seq(0 .. Total) /\ fed \in Seq(0 .. Total)
  /\ RemLength \in 0 .. MaxLen /\ mixed \in BOOLEAN

\* The types of the parts are the type of the whole.
LEMMA ConnTyped ==
  /\ ConnIInv => OwnTypeOK /\ reqs \in Seq(Requests)
  /\ IInv' /\ RespIInv' /\ reqs' \in Seq(Requests) /\ OwnTypeOK' => ConnTypeOK'
BY DEF ConnIInv, ConnTypeOK, OwnTypeOK, IInv, RespIInv

\* What holds of the request that is parsed.
LEMMA Current ==
  ASSUME ConnIInv
  PROVE  /\ Req.body \in Nat /\ Req.body <= MaxLen
         /\ Req.method \in {"GET", "POST"}
         /\ Req.type \in {"whole", "multipart", "rejected"}
         /\ Req.method = "GET" => Req.body = 0
         /\ cur # NoRequest =>
              /\ cur \in DOMAIN reqs /\ cur \in 1 .. Len(reqs)
              /\ Parsed(cur) \in Nat /\ Parsed(cur) + Req.body <= Total
              /\ Start[cur] + Size(Req) = Parsed(cur) + Req.body
              /\ Start[cur + 1] = Parsed(cur) + Req.body
         /\ Total \in Nat /\ Len(reqs) \in Nat /\ received <= Total
         /\ ParserPos \in Nat /\ ParseStart \in Nat /\ Len(created) \in Nat
<1>1. /\ reqs \in Seq(Requests) /\ cur \in {NoRequest} \union DOMAIN reqs
      /\ rest \in Requests \union {NoHeaders}
  BY ConnTyped DEF OwnTypeOK
<1>2. ASSUME cur # NoRequest PROVE cur \in DOMAIN reqs
  BY <1>1, <1>2
<1>3. Total \in Nat /\ Len(reqs) \in Nat /\ DOMAIN reqs = 1 .. Len(reqs)
  BY <1>1, Layout
<1>4. received <= Total /\ ParserPos \in Nat /\ ParseStart \in Nat
  BY Places DEF ConnIInv, InStream
<1>5. Len(created) \in Nat
  BY DEF ConnIInv, CreatedOK
<1>6. /\ Req.body \in Nat /\ Req.body <= MaxLen
      /\ Req.method \in {"GET", "POST"}
      /\ Req.type \in {"whole", "multipart", "rejected"}
      /\ Req.method = "GET" => Req.body = 0
  <2>1. CASE cur = NoRequest
    <3>1. rest \in Request /\ rest.body <= MaxLen /\ (rest.method = "GET" => rest.body = 0)
      <4>1. CASE rest \in Requests
        BY <4>1, RequestAssumption
      <4>2. CASE rest = NoHeaders
        BY <4>2, BuffAssumption DEF NoHeaders, Request
      <4> QED BY <1>1, <4>1, <4>2
    <3> QED BY <2>1, <3>1 DEF Req, Request
  <2>2. CASE cur # NoRequest
    BY <1>1, <1>2, <2>2, RequestFacts DEF Req
  <2> QED BY <2>1, <2>2
<1>7. ASSUME cur # NoRequest
      PROVE  /\ Parsed(cur) \in Nat /\ Parsed(cur) + Req.body <= Total
             /\ Start[cur] + Size(Req) = Parsed(cur) + Req.body
             /\ Start[cur + 1] = Parsed(cur) + Req.body
  BY <1>1, <1>2, <1>7, Layout DEF Req
<1> QED BY <1>2, <1>3, <1>4, <1>5, <1>6, <1>7

\* The headers show what they did when neither they nor the buffer change.
LEMMA IntactStays ==
  ASSUME UNCHANGED <<HeaderA, buff>>
  PROVE  HeadersIntact' <=> HeadersIntact
BY DEF HeadersIntact

\* The same request is parsed.
LEMMA ReqStays ==
  ASSUME UNCHANGED <<reqs, cur, rest>>
  PROVE  Req' = Req
BY DEF Req

\* What the response sources got stays as it is.
LEMMA CreatedStays ==
  ASSUME ConnIInv, UNCHANGED <<reqs, created>>
  PROVE  CreatedOK' /\ reqs' \in Seq(Requests)
<1>1. Start' = Start /\ Total' = Total /\ \A k : Parsed(k)' = Parsed(k)
  BY LayoutStays
<1>2. reqs' \in Seq(Requests)
  BY ConnTyped
<1>3. CreatedOK'
  BY <1>1 DEF ConnIInv, CreatedOK
<1> QED BY <1>2, <1>3

\* At its end the connection is done with the requests.
LEMMA EndedStep ==
  ASSUME ConnIInv, IInv', RespIInv', OwnTypeOK', pc' = "ended",
         UNCHANGED <<reqs, cur, rest, HeaderA, created, mixed, buff>>,
         0 <= ParseStart', received' <= Total
  PROVE  ConnIInv'
<1>1. Total' = Total
  BY LayoutStays
<1>2. CreatedOK' /\ reqs' \in Seq(Requests)
  BY CreatedStays
<1>3. ConnTypeOK'
  BY <1>2, ConnTyped
<1>4. InStream' /\ InPlace' /\ Parts' /\ Taken'
  BY <1>1 DEF InStream, InPlace, Parts, Taken, InContent, InWhole, InMultipart, InAnswer
<1>5. InTurn'
  BY DEF ConnIInv, InTurn, InContent, InWhole, InMultipart, InAnswer
<1>6. HeadersInPlace'
  BY IntactStays, ReqStays DEF ConnIInv, HeadersInPlace
<1> QED BY <1>2, <1>3, <1>4, <1>5, <1>6 DEF ConnIInv

\* Receiving, and sending, leave the coroutine where it is.
LEMMA SameStep ==
  ASSUME ConnIInv, IInv', RespIInv', UNCHANGED connVars,
         ParserPos' = ParserPos, ParseStart' = ParseStart, received' <= Total,
         Available' >= Available, UNCHANGED buff \/ HeaderA.in = "nowhere"
  PROVE  ConnIInv'
<1>1. UNCHANGED <<reqs, pc, cur, rest, HeaderA, content, RemLength, fed, created, mixed>>
  BY DEF connVars
<1>2. Start' = Start /\ Total' = Total /\ HeaderEnds' = HeaderEnds
      /\ \A k : Parsed(k)' = Parsed(k)
  BY <1>1, LayoutStays
<1>3. Req' = Req
  BY <1>1 DEF Req
<1>4. CreatedOK' /\ reqs' \in Seq(Requests)
  BY <1>1, CreatedStays
<1>5. OwnTypeOK'
  BY <1>1, <1>2, ConnTyped DEF OwnTypeOK
<1>6. InStream'
  BY <1>1, <1>2 DEF ConnIInv, InStream
<1>7. InPlace'
  <2>1. pc = "whole_take" => Available' >= Req.body
    <3>1. Available \in Int /\ Available' \in Int
      BY DEF ConnIInv, IInv, TypeOK, Available
    <3>2. pc = "whole_take" => Available >= Req.body /\ Req.body \in Nat
      BY Current DEF ConnIInv, InPlace
    <3> QED BY <3>1, <3>2
  <2> QED BY <1>1, <1>2, <1>3, <2>1 DEF ConnIInv, InPlace, Parsed
<1>8. Parts' /\ Taken'
  BY <1>1, <1>2, <1>3 DEF ConnIInv, Parts, Taken, FedCells, Parsed
<1>9. InTurn'
  BY <1>1, <1>2, <1>3 DEF ConnIInv, InTurn
<1>10. HeadersInPlace'
  <2>1. CASE UNCHANGED buff
    BY <1>1, <1>3, <2>1, IntactStays DEF ConnIInv, HeadersInPlace
  <2>2. CASE HeaderA.in = "nowhere"
    BY <1>1, <2>2 DEF HeadersInPlace, HeadersIntact
  <2> QED BY <2>1, <2>2
<1> QED BY <1>4, <1>5, <1>6, <1>7, <1>8, <1>9, <1>10, ConnTyped DEF ConnIInv

\* The buffer does not change by itself.
LEMMA BufferStays ==
  ASSUME IInv, UNCHANGED vars
  PROVE  /\ IInv' /\ ParserPos' = ParserPos /\ ParseStart' = ParseStart
         /\ received' = received /\ Available' = Available
BY DEF vars, pos, hist, IInv, TypeOK, PositionsInBuffer, WindowIsStream,
       RoomForRequest, FrontSpace, FreeLength, Available, ParserPos, ParseStart

\* Nothing happens, or the file that is sent is truncated.
LEMMA QuietStep ==
  ASSUME ConnIInv, UNCHANGED allVars \/ FileCut
  PROVE  ConnIInv'
<1>1. UNCHANGED vars /\ UNCHANGED connVars
  BY DEF allVars, FileCut
<1>2. RespIInv'
  BY RespStays, TruncatedStep DEF allVars, FileCut, ConnIInv
<1>3. /\ IInv' /\ ParserPos' = ParserPos /\ ParseStart' = ParseStart
      /\ received' = received /\ Available' = Available
  BY <1>1, BufferStays DEF ConnIInv
<1>4. Available' >= Available /\ received' <= Total /\ UNCHANGED buff
  BY <1>1, <1>3, Places, Current DEF ConnIInv, vars
<1> QED BY <1>1, <1>2, <1>3, <1>4, SameStep

\* ReadHeader: more of the headers arrives.
LEMMA ReadHeaderStep ==
  ASSUME ConnIInv, ReadHeader, RespIInv'
  PROVE  ConnIInv'
<1>1. UNCHANGED connVars /\ ContinueRead /\ HeaderA.in = "nowhere"
  BY DEF ReadHeader, ConnIInv, InStream
<1>2. IInv' /\ ParserPos' = ParserPos /\ ParseStart' = ParseStart /\ received' <= Total
  BY <1>1, Current, ReadEffect DEF ConnIInv
<1>3. Available' \in Nat /\ Available = 0
  <2>1. ReadPos' \in Nat /\ DataEndPos' \in Nat /\ ReadPos' <= DataEndPos'
    BY <1>2 DEF IInv, TypeOK, PositionsInBuffer
  <2>2. Available' = DataEndPos' - ReadPos'
    BY DEF Available
  <2>3. Available = 0
    BY DEF ReadHeader
  <2>4. DataEndPos' - ReadPos' \in Nat
    <3>1. \A a, b \in Nat : b <= a => a - b \in Nat
      OBVIOUS
    <3> QED BY <2>1, <3>1, Zenon
  <2>5. Available' \in Nat
    BY <2>2, <2>4, Zenon
  <2> QED BY <2>3, <2>5
<1> QED BY <1>1, <1>2, <1>3, SameStep

\* The connection is closed while something is read or written.
LEMMA FailStep ==
  ASSUME ConnIInv, Fail
  PROVE  ConnIInv'
<1>1. /\ UNCHANGED vars /\ pc' = "ended" /\ EndResponse
      /\ UNCHANGED <<reqs, cur, rest, HeaderA, content, RemLength, fed, created, mixed>>
  BY DEF Fail, End
<1>2. /\ IInv' /\ ParseStart' = ParseStart /\ received' = received
  BY <1>1, BufferStays DEF ConnIInv
<1>3. RespIInv'
  BY <1>1, NoResponseStep
<1>4. OwnTypeOK'
  BY <1>1, ConnTyped, LayoutStays DEF OwnTypeOK
<1> QED BY <1>1, <1>2, <1>3, <1>4, EndedStep DEF ConnIInv, InStream, vars

\* HeaderTooLong: the buffer is full of headers.
LEMMA TooLongStep ==
  ASSUME ConnIInv, HeaderTooLong, RespIInv'
  PROVE  ConnIInv'
<1>1. /\ UNCHANGED vars /\ pc' = "ended"
      /\ UNCHANGED <<reqs, cur, rest, HeaderA, content, RemLength, fed, created, mixed>>
  BY DEF HeaderTooLong, End
<1>2. /\ IInv' /\ ParseStart' = ParseStart /\ received' = received
  BY <1>1, BufferStays DEF ConnIInv
<1>3. OwnTypeOK'
  BY <1>1, ConnTyped, LayoutStays DEF OwnTypeOK
<1> QED BY <1>1, <1>2, <1>3, EndedStep DEF ConnIInv, InStream, vars

\* ConsumeHeaders: no empty line has arrived yet.
LEMMA ConsumeHeadersStep ==
  ASSUME ConnIInv, ConsumeHeaders, RespIInv'
  PROVE  ConnIInv'
<1>1. /\ pc = "header" /\ Consume(Available, TRUE) /\ ~EmptyLineIsIn
      /\ UNCHANGED <<reqs, pc, cur, rest, HeaderA, content, RemLength, fed, created, mixed>>
  BY DEF ConsumeHeaders, connVars
<1>2. Available \in 0 .. Available
  BY Places DEF ConnIInv
<1>3. /\ IInv' /\ ParserPos' = ParserPos + Available /\ received' = received
      /\ ParseStart' = ParseStart
  BY <1>1, <1>2, ConsumeEffect DEF ConnIInv
<1>4. Start' = Start /\ Total' = Total /\ HeaderEnds' = HeaderEnds
  BY <1>1, LayoutStays
<1>5. CreatedOK' /\ reqs' \in Seq(Requests)
  BY <1>1, CreatedStays
<1>6. OwnTypeOK'
  BY <1>1, <1>4, ConnTyped DEF OwnTypeOK
<1>7. ASSUME NEW e \in HeaderEnds, ParseStart <= e PROVE ~(e < ParserPos + Available)
  <2>1. ~(e < ParserPos)
    BY <1>1, <1>7 DEF ConnIInv, InStream
  <2>2. e \in Int
    <3>1. PICK k \in DOMAIN reqs : e = Parsed(k) - 1
      BY ConnTyped, HeaderEndPlaces
    <3>2. Parsed(k) \in Nat
      BY ConnTyped, Layout
    <3> QED BY <3>1, <3>2
  <2>3. ParserPos \in Int
    BY Current
  <2>4. e >= ParserPos
    BY <2>1, <2>2, <2>3
  <2> QED BY <1>1, <2>4 DEF EmptyLineIsIn
<1>8. InStream'
  BY <1>1, <1>3, <1>4, <1>7 DEF ConnIInv, InStream
<1>9. InPlace' /\ Parts' /\ Taken'
  BY <1>1 DEF InPlace, Parts, Taken, InContent, InWhole, InMultipart, InAnswer
<1>10. InTurn'
  BY <1>1, <1>3, <1>4 DEF ConnIInv, InTurn, InContent, InWhole, InMultipart, InAnswer
<1>11. HeadersInPlace'
  <2>1. UNCHANGED <<HeaderA, buff>>
    BY <1>1 DEF Consume
  <2> QED BY <1>1, <2>1, IntactStays, ReqStays DEF ConnIInv, HeadersInPlace
<1> QED BY <1>3, <1>5, <1>6, <1>8, <1>9, <1>10, <1>11, ConnTyped DEF ConnIInv

\* The next empty line, when one has arrived, ends the headers of the first
\* request that begins where parsing did.
LEMMA HeaderEndFacts ==
  ASSUME ConnIInv, pc = "header", EmptyLineIsIn
  PROVE  /\ NextHeaderEnd + 1 - ParserPos \in 0 .. Available
         /\ NextHeaderEnd \in Nat
         /\ \E j \in DOMAIN reqs : NextHeaderEnd = Parsed(j) - 1
         /\ \A k \in RequestAt : k \in DOMAIN reqs /\ NextHeaderEnd = Parsed(k) - 1
<1>1. reqs \in Seq(Requests)
  BY ConnTyped
<1>2. \A k \in DOMAIN reqs : Start[k] \in Nat /\ Parsed(k) \in Nat /\ Start[k] < Parsed(k)
                             /\ reqs[k].body \in Nat
  BY <1>1, Layout, RequestFacts
<1>3. \A j, k \in DOMAIN reqs : j < k => Parsed(j) + reqs[j].body <= Start[k]
  BY <1>1, Layout
<1>4. \A e : e \in HeaderEnds <=> \E k \in DOMAIN reqs : e = Parsed(k) - 1
  BY ConnTyped, HeaderEndPlaces
<1>5. ParserPos \in Nat /\ ParseStart \in Nat /\ Available \in Nat /\ ParseStart <= ParserPos
  BY Current, Places DEF ConnIInv
<1> DEFINE T == {e \in HeaderEnds : e >= ParserPos}
<1>6. PICK last \in T : last < ParserPos + Available
  BY DEF EmptyLineIsIn
<1>7. T \in SUBSET Nat
  <2> SUFFICES ASSUME NEW e \in T PROVE e \in Nat
    OBVIOUS
  <2>1. PICK k \in DOMAIN reqs : e = Parsed(k) - 1
    BY <1>4
  <2> QED BY <1>2, <1>5, <2>1
<1>8. PICK m \in T : \A n \in T : m <= n
  BY <1>6, <1>7, LeastNatural
<1>9. NextHeaderEnd \in HeaderEnds /\ NextHeaderEnd >= ParserPos
      /\ \A f \in HeaderEnds : f >= ParserPos => NextHeaderEnd <= f
  BY <1>8 DEF NextHeaderEnd
<1>10. NextHeaderEnd \in Nat /\ NextHeaderEnd <= last /\ last \in Nat
  BY <1>6, <1>7, <1>9
<1>11. NextHeaderEnd + 1 - ParserPos \in 0 .. Available
  BY <1>5, <1>6, <1>9, <1>10
<1>12. PICK j \in DOMAIN reqs : NextHeaderEnd = Parsed(j) - 1
  BY <1>4, <1>9
<1>13. ASSUME NEW k \in RequestAt
       PROVE  k \in DOMAIN reqs /\ NextHeaderEnd = Parsed(k) - 1
  <2>1. k \in DOMAIN reqs /\ Start[k] = ParseStart
    BY DEF RequestAt
  <2>2. Parsed(k) - 1 \in HeaderEnds
    BY <1>4, <2>1
  <2>3. ParseStart <= Parsed(k) - 1
    BY <1>2, <2>1
  <2>4. ~(Parsed(k) - 1 < ParserPos)
    BY <2>2, <2>3 DEF ConnIInv, InStream
  <2>5. Parsed(k) - 1 >= ParserPos
    BY <1>2, <1>5, <2>1, <2>4
  <2>6. Parsed(j) - 1 <= Parsed(k) - 1
    BY <1>9, <1>12, <2>2, <2>5
  <2>7. j \in Nat /\ k \in Nat
    BY <1>1, <2>1
  <2>8. ~(j < k)
    <3>1. Parsed(j) - 1 >= Start[k]
      <4>1. Parsed(j) - 1 >= ParserPos /\ Parsed(j) \in Nat
        BY <1>2, <1>9, <1>12
      <4> QED BY <1>5, <2>1, <4>1
    <3>2. j < k => Parsed(j) + reqs[j].body <= Start[k]
      BY <1>3, <2>1
    <3>3. reqs[j].body \in Nat /\ Parsed(j) \in Nat /\ Start[k] \in Nat
      BY <1>2, <2>1
    <3> QED BY <3>1, <3>2, <3>3
  <2>9. ~(k < j)
    <3>1. k < j => Parsed(k) + reqs[k].body <= Start[j]
      BY <1>3, <2>1
    <3>2. Start[j] < Parsed(j) /\ Start[j] \in Nat /\ Parsed(j) \in Nat
          /\ reqs[k].body \in Nat /\ Parsed(k) \in Nat
      BY <1>2, <2>1
    <3> QED BY <2>6, <3>1, <3>2
  <2> QED BY <1>12, <2>1, <2>7, <2>8, <2>9
<1> QED BY <1>10, <1>11, <1>12, <1>13

\* As long as no content ran into a request, the one that begins where parsing
\* did is the next one.
LEMMA NextInTurn ==
  ASSUME ConnIInv, pc = "header", EmptyLineIsIn, ~mixed
  PROVE  RequestAt = {Len(created) + 1}
<1> DEFINE m == Len(created) + 1
<1>1. reqs \in Seq(Requests) /\ Len(reqs) \in Nat /\ DOMAIN reqs = 1 .. Len(reqs)
  BY ConnTyped
<1>2. Len(created) \in Nat /\ Len(created) <= Len(reqs) /\ ParseStart = Start[m]
  BY Current DEF ConnIInv, InTurn
<1>3. m \in DOMAIN reqs
  <2>1. CASE Len(created) = Len(reqs)
    <3>1. ParseStart = Total
      BY <1>2, <2>1 DEF Total
    <3>2. PICK e \in HeaderEnds : e >= ParserPos
      BY DEF EmptyLineIsIn
    <3>3. PICK i \in DOMAIN reqs : e = Parsed(i) - 1
      BY ConnTyped, HeaderEndPlaces
    <3>4. Parsed(i) \in Nat /\ Parsed(i) <= Total /\ Total \in Nat
      <4>1. /\ Parsed(i) \in Nat /\ Total \in Nat
            /\ Parsed(i) + reqs[i].body <= Total
        BY <1>1, Layout
      <4>2. reqs[i].body \in Nat
        BY <1>1, RequestFacts
      <4> QED BY <4>1, <4>2
    <3>5. ParserPos \in Nat /\ ParseStart <= ParserPos /\ ParseStart \in Nat
      BY Current, Places DEF ConnIInv
    <3>6. Total <= e
      BY <3>1, <3>2, <3>3, <3>4, <3>5
    <3> QED BY <3>3, <3>4, <3>6
  <2>2. CASE Len(created) # Len(reqs)
    BY <1>1, <1>2, <2>2
  <2> QED BY <2>1, <2>2
<1>4. m \in RequestAt
  BY <1>2, <1>3 DEF RequestAt
<1>5. ASSUME NEW k \in RequestAt PROVE k = m
  <2>1. k \in DOMAIN reqs /\ Start[k] = Start[m]
    BY <1>2 DEF RequestAt
  <2>2. ASSUME NEW a \in DOMAIN reqs, NEW b \in DOMAIN reqs, a < b PROVE Start[a] # Start[b]
    <3>1. Parsed(a) + reqs[a].body <= Start[b] /\ Start[a] < Parsed(a)
      BY <1>1, <2>2, Layout
    <3>2. Parsed(a) \in Nat /\ reqs[a].body \in Nat /\ Start[a] \in Nat /\ Start[b] \in Nat
      BY <1>1, Layout, RequestFacts
    <3> QED BY <3>1, <3>2
  <2>3. ~(k < m) /\ ~(m < k)
    BY <1>3, <2>1, <2>2
  <2>4. k \in Nat /\ m \in Nat
    BY <1>1, <1>3, <2>1
  <2> QED BY <2>3, <2>4
<1> QED BY <1>4, <1>5

\* What the headers are parsed as: pointers to the cells they are made of.
ParsedShown ==
  /\ ParsedHeaders \in [in : {"ReadBuff"}, at : Nat, cells : Seq(Byte)]
  /\ \A i \in DOMAIN ParsedHeaders.cells :
       buff[ParsedHeaders.at + i - 1] = ParsedHeaders.cells[i]

\* The headers that are kept lie within the buffer.
LEMMA ParsedTyped == IInv => ParsedShown
<1> SUFFICES ASSUME IInv PROVE ParsedShown
  OBVIOUS
<1> DEFINE first == IF RelevantLength > 1 THEN FrontSpace + 1 ELSE FrontSpace
           cells == [i \in 1 .. ReadPos - first |-> buff[first + i - 1]]
<1>1. ReadPos \in Nat /\ RelevantLength \in Nat /\ RelevantLength <= ReadPos
  BY DEF IInv, TypeOK, PositionsInBuffer
<1>2. BuffSize \in Nat /\ ReadPos <= BuffSize
  BY DEF IInv, TypeOK, PositionsInBuffer
<1>3. first \in Nat /\ first <= ReadPos /\ ReadPos - first \in Nat
  BY <1>1 DEF FrontSpace
<1>4. ParsedHeaders = [in |-> "ReadBuff", at |-> first, cells |-> cells]
  BY DEF ParsedHeaders
<1> HIDE DEF first
<1>5. ASSUME NEW i \in 1 .. ReadPos - first PROVE buff[first + i - 1] \in Byte
  <2>1. first + i - 1 \in 0 .. BuffSize - 1
    BY <1>1, <1>2, <1>3
  <2>2. buff \in [0 .. BuffSize - 1 -> Byte]
    BY DEF IInv, TypeOK
  <2> QED BY <2>1, <2>2
<1>6. /\ cells \in Seq(Byte) /\ DOMAIN cells = 1 .. ReadPos - first
      /\ \A i \in 1 .. ReadPos - first : cells[i] = buff[first + i - 1]
  BY <1>3, <1>5
<1> HIDE DEF cells
<1> QED BY <1>3, <1>4, <1>6 DEF ParsedShown

\* EndHeaders: the headers are complete, and the request line is parsed.
LEMMA EndHeadersStep ==
  ASSUME ConnIInv, EndHeaders, RespIInv'
  PROVE  ConnIInv'
<1> DEFINE n == NextHeaderEnd + 1 - ParserPos
<1>1. /\ pc = "header" /\ EmptyLineIsIn /\ Consume(n, TRUE) /\ HeaderA' = ParsedHeaders'
      /\ UNCHANGED <<reqs, content, RemLength, fed, created, mixed>>
  BY DEF EndHeaders
<1>2. n \in 0 .. Available /\ NextHeaderEnd \in Nat /\ ParserPos \in Nat
  BY <1>1, HeaderEndFacts, Current
<1>3. ParserPos + n = NextHeaderEnd + 1
  BY <1>2
<1> HIDE DEF n
<1>4. /\ IInv' /\ ParserPos' = NextHeaderEnd + 1 /\ received' = received
      /\ ParseStart' = ParseStart
  BY <1>1, <1>2, <1>3, ConsumeEffect DEF ConnIInv
<1>5. Start' = Start /\ Total' = Total /\ \A k : Parsed(k)' = Parsed(k)
  BY <1>1, LayoutStays
<1>6. CreatedOK' /\ reqs' \in Seq(Requests)
  BY <1>1, CreatedStays
<1>7. Total \in Nat /\ DOMAIN reqs = 1 .. Len(reqs) /\ Len(reqs) \in Nat
  BY Current, ConnTyped
<1>8. HeaderA' \in [in : {"ReadBuff"}, at : Nat, cells : Seq(Byte)] /\ HeadersIntact'
  <2>1. ParsedShown'
    BY <1>4, ParsedTyped, PTL
  <2> QED BY <1>1, <2>1 DEF ParsedShown, HeadersIntact
<1>9. ASSUME pc' # "header", cur' \in {NoRequest} \union DOMAIN reqs,
             rest' \in Requests \union {NoHeaders}, pc' \in {"content", "respond", "ended"}
      PROVE  OwnTypeOK' /\ InStream' /\ Parts' /\ HeadersInPlace'
  <2>1. OwnTypeOK'
    BY <1>1, <1>5, <1>8, <1>9, ConnTyped DEF OwnTypeOK
  <2>2. InStream'
    BY <1>4, <1>5, <1>9 DEF ConnIInv, InStream
  <2>3. Parts'
    BY <1>9 DEF Parts, InMultipart
  <2>4. HeadersInPlace'
    BY <1>8 DEF HeadersInPlace
  <2> QED BY <2>1, <2>2, <2>3, <2>4
<1>10. CASE RequestAt = {}
  <2>1. /\ cur' = NoRequest /\ rest' \in Requests \union {NoHeaders}
        /\ pc' \in {AfterHeaders(rest'), "ended"}
    BY <1>10 DEF EndHeaders
  <2>2. pc' \in {"content", "respond", "ended"} /\ (pc' = "content" => rest'.method = "POST")
    BY <2>1 DEF AfterHeaders
  <2>3. mixed
    BY <1>1, <1>10, NextInTurn
  <2>4. InPlace' /\ Taken'
    BY <2>1, <2>2 DEF InPlace, Taken, Req, InContent, InWhole, InMultipart
  <2>5. InTurn'
    BY <1>1, <2>3 DEF InTurn
  <2> QED BY <1>4, <1>6, <1>9, <2>1, <2>2, <2>4, <2>5, ConnTyped DEF ConnIInv
<1>11. CASE RequestAt # {}
  <2>1. PICK k \in RequestAt :
          /\ cur' = k /\ rest' = NoHeaders
          /\ pc' = IF reqs[k].method = "POST" THEN "content" ELSE "respond"
    BY <1>11 DEF EndHeaders, AfterHeaders
  <2>2. k \in DOMAIN reqs /\ NextHeaderEnd = Parsed(k) - 1
    BY <1>1, HeaderEndFacts
  <2>3. /\ Parsed(k) \in Nat /\ Start[k] + Size(reqs[k]) = Parsed(k) + reqs[k].body
        /\ reqs[k].method \in {"GET", "POST"}
        /\ reqs[k].method = "GET" => reqs[k].body = 0
        /\ k \in 1 .. Len(reqs)
    BY <2>2, ConnTyped, Layout, RequestFacts
  <2>4. ParserPos' = Parsed(k)
    BY <1>4, <2>2, <2>3
  <2>5. k # NoRequest
    BY <1>7, <2>3 DEF NoRequest
  <2>6. Req' = reqs[k] /\ Parsed(cur)' = Parsed(k)
    BY <1>1, <1>5, <2>1, <2>5 DEF Req, Parsed
  <2>7. InPlace'
    BY <2>1, <2>4, <2>6 DEF InPlace, InContent, InWhole, InMultipart
  <2>8. Taken'
    BY <2>1, <2>6 DEF Taken, InAnswer
  <2>9. InTurn'
    <3>1. SUFFICES ASSUME ~mixed PROVE InTurn'
      BY <1>1 DEF InTurn
    <3>2. k = Len(created) + 1
      BY <1>1, <3>1, NextInTurn
    <3>3. \A i \in DOMAIN created : created[i].req = i
      BY <3>1 DEF ConnIInv, InTurn
    <3>4. pc' = "respond" => Start[k] + Size(reqs[k]) = Parsed(k)
      BY <2>1, <2>3
    <3>5. cur' = Len(created') + 1 /\ created' = created
      BY <1>1, <2>1, <3>2
    <3>6. pc' = "respond" => ParserPos' = Start'[cur'] + Size(Req')
      BY <1>5, <2>1, <2>4, <2>6, <3>4
    <3> QED BY <2>1, <3>3, <3>5, <3>6 DEF InTurn, InContent, InWhole, InMultipart, InAnswer, Size
  <2> QED BY <1>4, <1>6, <1>9, <2>1, <2>2, <2>7, <2>8, <2>9, ConnTyped DEF ConnIInv
<1> QED BY <1>10, <1>11

\* BeginContent: ContentHandler() looks at the headers.
LEMMA BeginContentStep ==
  ASSUME ConnIInv, BeginContent, RespIInv'
  PROVE  ConnIInv'
<1>1. pc = "content" /\ UNCHANGED vars /\ UNCHANGED <<reqs, cur, rest, HeaderA, created, mixed>>
  BY DEF BeginContent
<1>2. /\ IInv' /\ ParserPos' = ParserPos /\ ParseStart' = ParseStart
      /\ received' = received
  BY <1>1, BufferStays DEF ConnIInv
<1>3. Start' = Start /\ Total' = Total /\ \A k : Parsed(k)' = Parsed(k)
  BY <1>1, LayoutStays
<1>4. Req.method = "POST" /\ (cur # NoRequest => ParserPos = Parsed(cur))
  BY <1>1 DEF ConnIInv, InPlace, InContent
<1>5. /\ Req.body \in Nat /\ Req.body <= MaxLen /\ MaxLen \in Nat
      /\ Req.type \in {"whole", "multipart", "rejected"}
      /\ cur # NoRequest => /\ Parsed(cur) \in Nat
                            /\ Start[cur] + Size(Req) = Parsed(cur) + Req.body
  BY Current, BuffAssumption
<1>6. CASE Req.type = "rejected"
  <2>1. pc' = "ended" /\ UNCHANGED <<content, RemLength, fed>>
    BY <1>6 DEF BeginContent
  <2>2. OwnTypeOK'
    BY <1>1, <1>3, <2>1, ConnTyped DEF OwnTypeOK
  <2> QED BY <1>1, <1>2, <2>1, <2>2, EndedStep DEF ConnIInv, InStream, vars
<1>7. CASE Req.type # "rejected"
  <2>1. /\ content' = << >> /\ RemLength' = Req.body /\ fed' = << >>
        /\ pc' = IF Req.body = 0 THEN "respond"
                 ELSE IF Req.type = "whole" THEN "whole" ELSE "multipart_begin"
    BY <1>7 DEF BeginContent
  <2>2. CreatedOK' /\ reqs' \in Seq(Requests)
    BY <1>1, CreatedStays
  <2>3. Req' = Req /\ Parsed(cur)' = Parsed(cur)
    BY <1>1, <1>3 DEF Req, Parsed
  <2>4. OwnTypeOK'
    <3>1. content' \in Seq(0 .. Total) /\ fed' \in Seq(0 .. Total) /\ RemLength' \in 0 .. MaxLen
      BY <1>5, <2>1
    <3>2. pc' \in {"respond", "whole", "multipart_begin"}
      BY <2>1
    <3> QED BY <1>1, <1>3, <3>1, <3>2, ConnTyped DEF OwnTypeOK
  <2>5. InStream' /\ HeadersInPlace'
    <3>1. pc' # "header"
      BY <2>1
    <3>2. HeadersIntact' <=> HeadersIntact
      BY <1>1, IntactStays DEF vars
    <3> QED BY <1>1, <1>2, <1>3, <2>3, <3>1, <3>2 DEF ConnIInv, InStream, HeadersInPlace
  <2>6. Len(fed') = 0 /\ Len(fed') + RemLength' = Req.body /\ Len(content') = 0
    BY <1>5, <2>1
  <2>7. FedCells'
    <3>1. \A i \in 1 .. Len(fed') : FALSE
      BY <2>6
    <3> QED BY <1>1, <2>3, <2>6, <3>1 DEF FedCells
  <2>8. InPlace'
    BY <1>1, <1>2, <1>4, <1>5, <1>7, <2>1, <2>3 DEF InPlace, InContent, InWhole, InMultipart
  <2>9. Parts'
    BY <1>5, <1>7, <2>1, <2>3, <2>6, <2>7 DEF Parts, InMultipart
  <2>10. Taken'
    <3>1. pc' = "respond" => Req.body = 0 /\ RemLength' = 0
      BY <2>1
    <3>2. pc' \in InAnswer => pc' = "respond"
      BY <2>1 DEF InAnswer
    <3>3. pc' = "respond" => Req.body <= Len(content') /\ \A i \in 1 .. Req.body : FALSE
      BY <1>5, <2>6, <3>1
    <3> QED BY <2>3, <2>7, <3>1, <3>2, <3>3 DEF Taken
  <2>11. InTurn'
    <3>1. ~mixed => /\ \A i \in DOMAIN created : created[i].req = i
                    /\ cur = Len(created) + 1
      BY <1>1 DEF ConnIInv, InTurn, InContent
    <3>2. ~mixed => cur # NoRequest
      BY <3>1, Current DEF NoRequest
    <3>3. cur # NoRequest /\ pc' = "respond" => ParserPos' = Start'[cur'] + Size(Req')
      BY <1>1, <1>2, <1>3, <1>4, <1>5, <2>1, <2>3
    <3> QED BY <1>1, <2>1, <3>1, <3>2, <3>3
            DEF InTurn, InContent, InWhole, InMultipart, InAnswer, Size
  <2> QED BY <1>2, <2>2, <2>4, <2>5, <2>8, <2>9, <2>10, <2>11, ConnTyped DEF ConnIInv
<1> QED BY <1>6, <1>7

\* While a content is read, neither a response source nor the parser of another
\* request is concerned.
LEMMA WithinContent ==
  ASSUME ConnIInv, IInv', RespIInv', OwnTypeOK', pc \in InContent, pc' \in InContent,
         UNCHANGED <<reqs, cur, rest, created, mixed>>, ParseStart' \in Nat,
         received' <= Total, InPlace', Parts', HeadersInPlace'
  PROVE  ConnIInv'
<1>1. Start' = Start /\ Total' = Total
  BY LayoutStays
<1>2. CreatedOK' /\ reqs' \in Seq(Requests)
  BY CreatedStays
<1>3. pc' \notin {"header"} \union InAnswer
  BY DEF InContent, InWhole, InMultipart, InAnswer
<1>4. InStream' /\ Taken'
  BY <1>1, <1>3 DEF InStream, Taken, InAnswer
<1>5. InTurn'
  BY <1>3 DEF ConnIInv, InTurn, InAnswer
<1> QED BY <1>2, <1>4, <1>5, ConnTyped DEF ConnIInv

\* The pointers after a RequestData() and after a copy.
LEMMA PointersTyped ==
  ASSUME OwnTypeOK
  PROVE  /\ HeadersAfterRequest \in
              [in : {"nowhere", "ReadBuff", "StaticBuff", "PostHeaderBuff", "lost"},
               at : Nat, cells : Seq(Byte)]
         /\ HeadersSaved \in [in : {"PostHeaderBuff", "lost"}, at : Nat, cells : Seq(Byte)]
         /\ HeaderA.in = "PostHeaderBuff" => HeadersAfterRequest = HeaderA
<1>1. << >> \in Seq(Byte)
  OBVIOUS
<1> QED BY <1>1 DEF OwnTypeOK, HeadersAfterRequest, HeadersSaved, PointTo

\* RequestWhole: room for the content, unless it is there already.
LEMMA RequestWholeStep ==
  ASSUME ConnIInv, RequestWhole, RespIInv'
  PROVE  ConnIInv'
<1>1. /\ pc = "whole" /\ RequestData(Req.body) /\ HeaderA' = HeadersAfterRequest
      /\ pc' = IF asked' THEN "whole_read" ELSE "whole_take"
      /\ UNCHANGED <<reqs, cur, rest, content, RemLength, fed, created, mixed>>
  BY DEF RequestWhole, WholeLength
<1>2. /\ Req.method = "POST" /\ Req.type = "whole" /\ Req.body > 0
      /\ cur # NoRequest => ParserPos = Parsed(cur)
  BY <1>1 DEF ConnIInv, InPlace, InContent, InWhole
<1>3. Req.body \in 0 .. MaxLen /\ Req.body \in Nat
  BY Current, BuffAssumption
<1>4. /\ IInv' /\ ParserPos' = ParserPos /\ ParseStart' = ParseStart
      /\ received' = received /\ Available' = Available
      /\ ~asked' => Available >= Req.body
  BY <1>1, <1>3, RequestEffect DEF ConnIInv
<1>5. Start' = Start /\ Total' = Total /\ Req' = Req /\ Parsed(cur)' = Parsed(cur)
  BY <1>1, LayoutStays DEF Req, Parsed
<1>6. pc' \in {"whole_read", "whole_take"} /\ (pc' = "whole_take" => ~asked')
  BY <1>1
<1>7. OwnTypeOK'
  BY <1>1, <1>5, <1>6, ConnTyped, PointersTyped DEF OwnTypeOK
<1>8. InPlace'
  BY <1>1, <1>2, <1>4, <1>5 DEF InPlace, InContent, InWhole, InMultipart
<1>9. Parts'
  BY <1>1 DEF Parts, InMultipart
<1>10. pc \in InContent /\ pc' \in InContent /\ HeadersInPlace'
  BY <1>1, <1>2, <1>5 DEF InContent, InWhole, HeadersInPlace
<1> QED BY <1>1, <1>4, <1>7, <1>8, <1>9, <1>10, WithinContent, Current

\* ReadWhole: more of the content arrives.
LEMMA ReadWholeStep ==
  ASSUME ConnIInv, ReadWhole, RespIInv'
  PROVE  ConnIInv'
<1>1. /\ pc = "whole_read" /\ pc' = "whole" /\ ContinueRead
      /\ UNCHANGED <<reqs, cur, rest, HeaderA, content, RemLength, fed, created, mixed>>
  BY DEF ReadWhole
<1>2. /\ Req.method = "POST" /\ Req.type = "whole" /\ Req.body > 0
      /\ cur # NoRequest => ParserPos = Parsed(cur)
  BY <1>1 DEF ConnIInv, InPlace, InContent, InWhole
<1>3. IInv' /\ ParserPos' = ParserPos /\ ParseStart' = ParseStart /\ received' <= Total
  BY <1>1, Current, ReadEffect DEF ConnIInv
<1>4. Start' = Start /\ Total' = Total /\ Req' = Req /\ Parsed(cur)' = Parsed(cur)
  BY <1>1, LayoutStays DEF Req, Parsed
<1>5. OwnTypeOK'
  BY <1>1, <1>4, ConnTyped DEF OwnTypeOK
<1>6. InPlace'
  BY <1>1, <1>2, <1>3, <1>4 DEF InPlace, InContent, InWhole, InMultipart
<1>7. Parts'
  BY <1>1 DEF Parts, InMultipart
<1>8. pc \in InContent /\ pc' \in InContent /\ HeadersInPlace'
  BY <1>1, <1>2, <1>4 DEF InContent, InWhole, HeadersInPlace
<1> QED BY <1>1, <1>3, <1>5, <1>6, <1>7, <1>8, WithinContent, Current

\* TakeWhole: the content is what is available, from its first cell on.
LEMMA TakeWholeStep ==
  ASSUME ConnIInv, TakeWhole, RespIInv'
  PROVE  ConnIInv'
<1>1. /\ pc = "whole_take" /\ pc' = "respond" /\ content' = Cells(Available)
      /\ mixed' = (mixed \/ Available > Req.body) /\ Consume(Available, TRUE)
      /\ UNCHANGED <<reqs, cur, rest, HeaderA, RemLength, fed, created>>
  BY DEF TakeWhole
<1>2. /\ Req.method = "POST" /\ Req.type = "whole" /\ Req.body > 0
      /\ Available >= Req.body
      /\ cur # NoRequest => ParserPos = Parsed(cur)
  BY <1>1 DEF ConnIInv, InPlace, InContent, InWhole
<1>3. /\ Req.body \in Nat /\ Available \in Nat
      /\ received \in Nat /\ received <= Total /\ Total \in Nat
      /\ cur # NoRequest => /\ Parsed(cur) \in Nat
                            /\ Start[cur] + Size(Req) = Parsed(cur) + Req.body
  BY Current, Places DEF ConnIInv
<1>4. Available \in 0 .. Available
  BY <1>3
<1>5. /\ IInv' /\ ParserPos' = ParserPos + Available /\ received' = received
      /\ ParseStart' = ParseStart
  BY <1>1, <1>4, ConsumeEffect DEF ConnIInv
<1>6. /\ Len(Cells(Available)) = Available /\ Cells(Available) \in Seq(0 .. received)
      /\ \A i \in 1 .. Available : Cells(Available)[i] = ParserPos + i - 1
  BY <1>4, CellsFacts DEF ConnIInv, InStream
<1>7. Start' = Start /\ Total' = Total /\ Req' = Req /\ Parsed(cur)' = Parsed(cur)
  BY <1>1, LayoutStays DEF Req, Parsed
<1>8. CreatedOK' /\ reqs' \in Seq(Requests)
  BY <1>1, CreatedStays
<1>9. OwnTypeOK'
  <2>1. Cells(Available) \in Seq(0 .. Total)
    <3>1. 0 .. received \subseteq 0 .. Total
      BY <1>3
    <3> QED BY <1>6, <3>1, SeqMonotonic
  <2>2. mixed' \in BOOLEAN
    BY <1>1
  <2> QED BY <1>1, <1>7, <2>1, <2>2, ConnTyped DEF OwnTypeOK
<1>10. InStream' /\ InPlace' /\ Parts' /\ HeadersInPlace'
  BY <1>1, <1>2, <1>5, <1>7
     DEF ConnIInv, InStream, InPlace, Parts, HeadersInPlace, InContent, InWhole, InMultipart
<1>11. Taken'
  <2>1. ASSUME NEW i \in 1 .. Req.body, cur # NoRequest
        PROVE  content'[i] = Parsed(cur) + i - 1
    <3>1. i \in 1 .. Available
      BY <1>2, <1>3
    <3> QED BY <1>1, <1>2, <1>6, <2>1, <3>1
  <2>2. Req.body <= Len(content')
    BY <1>1, <1>2, <1>3, <1>6
  <2> QED BY <1>1, <1>2, <1>7, <2>1, <2>2 DEF Taken
<1>12. InTurn'
  <2>1. SUFFICES ASSUME ~mixed' PROVE InTurn'
    BY DEF InTurn
  <2>2. ~mixed /\ ~(Available > Req.body)
    BY <1>1, <2>1
  <2>3. Available = Req.body
    BY <1>2, <1>3, <2>2
  <2>4. cur # NoRequest => ParserPos' = Start'[cur'] + Size(Req')
    BY <1>1, <1>2, <1>3, <1>5, <1>7, <2>3
  <2>5. cur = Len(created) + 1 /\ \A i \in DOMAIN created : created[i].req = i
    BY <1>1, <2>2 DEF ConnIInv, InTurn, InContent, InWhole
  <2>6. cur # NoRequest
    BY <2>5, Current DEF NoRequest
  <2> QED BY <1>1, <2>4, <2>5, <2>6
          DEF InTurn, InContent, InWhole, InMultipart, InAnswer, Size
<1> QED BY <1>5, <1>8, <1>9, <1>10, <1>11, <1>12, ConnTyped DEF ConnIInv

\* BeginMultipart: the headers are copied, and no longer kept in the buffer.
LEMMA BeginMultipartStep ==
  ASSUME ConnIInv, BeginMultipart, RespIInv'
  PROVE  ConnIInv'
<1>1. /\ pc = "multipart_begin" /\ pc' = "multipart" /\ HeaderA' = HeadersSaved
      /\ ResetRelevant
      /\ UNCHANGED <<reqs, cur, rest, content, RemLength, fed, created, mixed>>
  BY DEF BeginMultipart
<1>2. /\ Req.method = "POST" /\ Req.type = "multipart" /\ FedCells /\ Len(fed) = 0
      /\ cur # NoRequest => ParserPos = Parsed(cur)
  BY <1>1 DEF ConnIInv, InPlace, Parts, InContent, InMultipart
<1>3. /\ IInv' /\ ParserPos' = ParserPos /\ ParseStart' = ParserPos /\ received' = received
  BY <1>1, DropEffect DEF ConnIInv, Discard
<1>4. Start' = Start /\ Total' = Total /\ Req' = Req /\ Parsed(cur)' = Parsed(cur)
  BY <1>1, LayoutStays DEF Req, Parsed
<1>5. OwnTypeOK'
  BY <1>1, <1>4, ConnTyped, PointersTyped DEF OwnTypeOK
<1>6. HeaderA'.in = "PostHeaderBuff" /\ HeadersInPlace'
  <2>1. HeadersIntact
    BY <1>2 DEF ConnIInv, HeadersInPlace
  <2>2. HeaderA'.in = "PostHeaderBuff"
    BY <1>1, <2>1 DEF HeadersSaved, PointTo
  <2> QED BY <2>2 DEF HeadersInPlace, HeadersIntact
<1>7. InPlace'
  BY <1>1, <1>2, <1>4 DEF InPlace, InContent, InWhole, InMultipart
<1>8. FedCells'
  BY <1>1, <1>2, <1>4 DEF FedCells
<1>9. Parts'
  <2>1. cur # NoRequest => ParserPos' = Parsed(cur)' + Len(fed')
    BY <1>1, <1>2, <1>3, <1>4, Current
  <2> QED BY <1>1, <1>2, <1>4, <1>6, <1>8, <2>1 DEF Parts, InMultipart
<1>10. pc \in InContent /\ pc' \in InContent
  BY <1>1 DEF InContent, InMultipart
<1> QED BY <1>1, <1>3, <1>5, <1>6, <1>7, <1>9, <1>10, WithinContent, Current

\* Where a multipart content is read, and what of it was fed.
LEMMA MultipartFacts ==
  ASSUME ConnIInv, pc \in InMultipart \ {"multipart_begin"}
  PROVE  /\ Req.method = "POST" /\ Req.type = "multipart" /\ HeaderA.in = "PostHeaderBuff"
         /\ Len(fed) + RemLength = Req.body
         /\ fed \in Seq(0 .. Total) /\ Len(fed) \in Nat
         /\ RemLength \in Nat /\ RemLength <= MaxLen
         /\ Available \in Nat /\ ParserPos \in Nat /\ Req.body \in Nat
         /\ cur # NoRequest =>
              /\ ParserPos = Parsed(cur) + Len(fed) /\ Parsed(cur) \in Nat
              /\ \A i \in 1 .. Len(fed) : fed[i] = Parsed(cur) + i - 1
<1>1. /\ Req.method = "POST" /\ Req.type = "multipart" /\ HeaderA.in = "PostHeaderBuff"
      /\ cur # NoRequest => ParserPos = Parsed(cur) + Len(fed)
      /\ FedCells
  BY DEF ConnIInv, InPlace, Parts, InContent
<1>2. fed \in Seq(0 .. Total) /\ RemLength \in 0 .. MaxLen
  BY ConnTyped DEF OwnTypeOK
<1>3. /\ Available \in Nat /\ ParserPos \in Nat /\ Req.body \in Nat
      /\ cur # NoRequest => Parsed(cur) \in Nat
  BY Current, Places DEF ConnIInv
<1>4. RemLength \in Nat /\ RemLength <= MaxLen
  BY <1>2, BuffAssumption
<1> QED BY <1>1, <1>2, <1>3, <1>4 DEF FedCells

\* FeedMultipart: what is there of the content is parsed, and the next request
\* is left in the buffer.
LEMMA FeedMultipartStep ==
  ASSUME ConnIInv, FeedMultipart, RespIInv'
  PROVE  ConnIInv'
<1> DEFINE n == PartLength
           new == Cells(n)
<1>1. /\ pc = "multipart" /\ fed' = fed \o new /\ Consume(n, FALSE)
      /\ RemLength' = RemLength - n
      /\ pc' = IF Available < RemLength THEN "multipart_request" ELSE "respond"
      /\ UNCHANGED <<reqs, cur, rest, HeaderA, content, created, mixed>>
  BY DEF FeedMultipart
<1>2. pc \in InMultipart \ {"multipart_begin"} /\ pc \in InContent
  BY <1>1 DEF InContent, InMultipart
<1>3. /\ Req.method = "POST" /\ Req.type = "multipart" /\ HeaderA.in = "PostHeaderBuff"
      /\ Len(fed) + RemLength = Req.body
      /\ fed \in Seq(0 .. Total) /\ Len(fed) \in Nat
      /\ RemLength \in Nat /\ RemLength <= MaxLen
      /\ Available \in Nat /\ ParserPos \in Nat /\ Req.body \in Nat
      /\ cur # NoRequest =>
           /\ ParserPos = Parsed(cur) + Len(fed) /\ Parsed(cur) \in Nat
           /\ \A i \in 1 .. Len(fed) : fed[i] = Parsed(cur) + i - 1
  BY <1>2, MultipartFacts
<1>4. n \in Nat /\ n <= RemLength /\ n \in 0 .. Available /\ (~(Available < RemLength) => n = RemLength)
  BY <1>3 DEF PartLength, AtMost
<1> HIDE DEF n
<1>5. /\ IInv' /\ ParserPos' = ParserPos + n /\ received' = received
      /\ ParseStart' = ParseStart + n
  BY <1>1, <1>4, ConsumeEffect DEF ConnIInv
<1>6. /\ Len(new) = n /\ new \in Seq(0 .. Total)
      /\ \A i \in 1 .. n : new[i] = ParserPos + i - 1
  <2>1. /\ Len(new) = n /\ new \in Seq(0 .. received)
        /\ \A i \in 1 .. n : new[i] = ParserPos + i - 1
    BY <1>4, CellsFacts DEF ConnIInv, InStream
  <2>2. 0 .. received \subseteq 0 .. Total
    BY Current, Places DEF ConnIInv
  <2> QED BY <2>1, <2>2, SeqMonotonic
<1> HIDE DEF new
<1>7. /\ fed' \in Seq(0 .. Total) /\ Len(fed') = Len(fed) + n
      /\ \A i \in 1 .. Len(fed) + n :
           fed'[i] = IF i <= Len(fed) THEN fed[i] ELSE new[i - Len(fed)]
  <2>1. /\ fed \o new \in Seq(0 .. Total) /\ Len(fed \o new) = Len(fed) + Len(new)
        /\ \A i \in 1 .. Len(fed) + Len(new) :
             (fed \o new)[i] = IF i <= Len(fed) THEN fed[i] ELSE new[i - Len(fed)]
    BY <1>3, <1>6, ConcatProperties
  <2> QED BY <1>1, <1>6, <2>1
<1>8. ASSUME NEW i \in 1 .. Len(fed) + n, cur # NoRequest
      PROVE  fed'[i] = Parsed(cur) + i - 1
  <2>1. CASE i <= Len(fed)
    <3>1. i \in 1 .. Len(fed)
      BY <1>3, <2>1
    <3> QED BY <1>3, <1>7, <1>8, <2>1, <3>1
  <2>2. CASE ~(i <= Len(fed))
    <3>1. i - Len(fed) \in 1 .. n /\ i \in Nat
      BY <1>3, <1>4, <2>2
    <3>2. fed'[i] = new[i - Len(fed)]
      BY <1>7, <2>2
    <3>3. new[i - Len(fed)] = ParserPos + (i - Len(fed)) - 1
      BY <1>6, <3>1
    <3>4. ParserPos + (i - Len(fed)) - 1 = Parsed(cur) + i - 1
      BY <1>3, <1>8, <3>1
    <3> QED BY <3>2, <3>3, <3>4
  <2> QED BY <2>1, <2>2
<1>9. Start' = Start /\ Total' = Total /\ Req' = Req /\ Parsed(cur)' = Parsed(cur)
  BY <1>1, LayoutStays DEF Req, Parsed
<1>10. RemLength' \in 0 .. MaxLen /\ Len(fed') + RemLength' = Req.body
  BY <1>1, <1>3, <1>4, <1>7, BuffAssumption
<1>11. FedCells'
  BY <1>1, <1>7, <1>8, <1>9, <1>10 DEF FedCells
<1>12. OwnTypeOK'
  BY <1>1, <1>7, <1>9, <1>10, ConnTyped DEF OwnTypeOK
<1>13. cur # NoRequest => ParserPos' = Parsed(cur) + Len(fed')
  BY <1>3, <1>4, <1>5, <1>7
<1>14. ParseStart' \in Nat /\ received' <= Total /\ HeadersInPlace'
  BY <1>1, <1>3, <1>4, <1>5, Current DEF HeadersInPlace, HeadersIntact
<1>15. CASE Available < RemLength
  <2>1. pc' = "multipart_request"
    BY <1>1, <1>15
  <2>2. pc' \in InContent
    BY <2>1 DEF InContent, InMultipart
  <2>3. InPlace'
    BY <1>1, <1>3, <1>9, <2>1 DEF InPlace, InContent, InWhole, InMultipart
  <2>4. Parts'
    BY <1>1, <1>3, <1>9, <1>11, <1>13, <2>1 DEF Parts, InMultipart
  <2> QED BY <1>1, <1>2, <1>3, <1>5, <1>12, <1>14, <2>2, <2>3, <2>4, WithinContent
<1>16. CASE ~(Available < RemLength)
  <2>1. pc' = "respond" /\ n = RemLength
    BY <1>1, <1>4, <1>16
  <2>2. RemLength' = 0
    BY <1>1, <1>3, <2>1
  <2>3. CreatedOK' /\ reqs' \in Seq(Requests)
    BY <1>1, CreatedStays
  <2>4. InStream' /\ InPlace' /\ Parts'
    BY <1>1, <1>3, <1>9, <1>14, <2>1
       DEF InStream, InPlace, Parts, InContent, InWhole, InMultipart
  <2>5. Taken'
    BY <1>1, <1>3, <1>9, <1>11, <2>2 DEF Taken
  <2>6. InTurn'
    <3>1. ~mixed => cur = Len(created) + 1 /\ \A i \in DOMAIN created : created[i].req = i
      BY <1>2 DEF ConnIInv, InTurn
    <3>2. ~mixed => cur # NoRequest
      BY <3>1, Current DEF NoRequest
    <3>3. cur # NoRequest => ParserPos' = Parsed(cur) + Req.body
      BY <1>3, <1>10, <1>13, <2>2, <1>7, <1>4
    <3>4. cur # NoRequest => ParserPos' = Start'[cur'] + Size(Req')
      BY <1>1, <1>3, <1>9, <3>3, Current
    <3> QED BY <1>1, <2>1, <3>1, <3>2, <3>4 DEF InTurn, InContent, InWhole, InMultipart, Size
  <2> QED BY <1>5, <1>12, <1>14, <2>3, <2>4, <2>5, <2>6, ConnTyped DEF ConnIInv
<1> QED BY <1>15, <1>16

\* RequestMultipart: room for more of the content. The headers are in their copy.
LEMMA RequestMultipartStep ==
  ASSUME ConnIInv, RequestMultipart, RespIInv'
  PROVE  ConnIInv'
<1> DEFINE n == AtMost(RemLength, StaticSize)
<1>1. /\ pc = "multipart_request" /\ pc' = "multipart_read" /\ RequestData(n)
      /\ HeaderA' = HeadersAfterRequest
      /\ UNCHANGED <<reqs, cur, rest, content, RemLength, fed, created, mixed>>
  BY DEF RequestMultipart
<1>2. pc \in InMultipart \ {"multipart_begin"} /\ pc \in InContent
  BY <1>1 DEF InContent, InMultipart
<1>3. /\ Req.method = "POST" /\ Req.type = "multipart" /\ HeaderA.in = "PostHeaderBuff"
      /\ cur # NoRequest => ParserPos = Parsed(cur) + Len(fed)
      /\ RemLength \in Nat /\ RemLength <= MaxLen
  BY <1>2, MultipartFacts
<1>4. n \in 0 .. MaxLen
  <2>1. StaticSize \in Nat /\ MaxLen \in Nat
    BY BuffAssumption
  <2> QED BY <1>3, <2>1 DEF AtMost
<1> HIDE DEF n
<1>5. /\ IInv' /\ ParserPos' = ParserPos /\ ParseStart' = ParseStart
      /\ received' = received
  BY <1>1, <1>4, RequestEffect DEF ConnIInv
<1>6. Start' = Start /\ Total' = Total /\ Req' = Req /\ Parsed(cur)' = Parsed(cur)
  BY <1>1, LayoutStays DEF Req, Parsed
<1>7. HeaderA' = HeaderA /\ HeadersInPlace'
  <2>1. HeaderA' = HeaderA
    BY <1>1, <1>3, ConnTyped, PointersTyped
  <2> QED BY <1>3, <2>1 DEF HeadersInPlace, HeadersIntact
<1>8. OwnTypeOK'
  BY <1>1, <1>6, <1>7, ConnTyped DEF OwnTypeOK
<1>9. FedCells'
  BY <1>1, <1>2, <1>6 DEF ConnIInv, Parts, FedCells
<1>10. InPlace' /\ Parts'
  BY <1>1, <1>3, <1>5, <1>6, <1>7, <1>9
     DEF InPlace, Parts, InContent, InWhole, InMultipart
<1>11. pc' \in InContent
  BY <1>1 DEF InContent, InMultipart
<1> QED BY <1>1, <1>2, <1>5, <1>7, <1>8, <1>10, <1>11, WithinContent, Current

\* ReadMultipart: more of the content arrives.
LEMMA ReadMultipartStep ==
  ASSUME ConnIInv, ReadMultipart, RespIInv'
  PROVE  ConnIInv'
<1>1. /\ pc = "multipart_read" /\ pc' = "multipart" /\ ContinueRead
      /\ UNCHANGED <<reqs, cur, rest, HeaderA, content, RemLength, fed, created, mixed>>
  BY DEF ReadMultipart
<1>2. pc \in InMultipart \ {"multipart_begin"} /\ pc \in InContent
  BY <1>1 DEF InContent, InMultipart
<1>3. /\ Req.method = "POST" /\ Req.type = "multipart" /\ HeaderA.in = "PostHeaderBuff"
      /\ cur # NoRequest => ParserPos = Parsed(cur) + Len(fed)
  BY <1>2, MultipartFacts
<1>4. IInv' /\ ParserPos' = ParserPos /\ ParseStart' = ParseStart /\ received' <= Total
  BY <1>1, Current, ReadEffect DEF ConnIInv
<1>5. Start' = Start /\ Total' = Total /\ Req' = Req /\ Parsed(cur)' = Parsed(cur)
  BY <1>1, LayoutStays DEF Req, Parsed
<1>6. OwnTypeOK'
  BY <1>1, <1>5, ConnTyped DEF OwnTypeOK
<1>7. FedCells'
  BY <1>1, <1>2, <1>5 DEF ConnIInv, Parts, FedCells
<1>8. InPlace' /\ Parts'
  BY <1>1, <1>3, <1>4, <1>5, <1>7 DEF InPlace, Parts, InContent, InWhole, InMultipart
<1>9. pc' \in InContent /\ HeadersInPlace'
  BY <1>1, <1>3 DEF InContent, InMultipart, HeadersInPlace, HeadersIntact
<1> QED BY <1>1, <1>2, <1>3, <1>4, <1>6, <1>8, <1>9, WithinContent, Current

\* Respond: the request is given to a response source, once and in its turn.
LEMMA RespondStep ==
  ASSUME ConnIInv, Respond
  PROVE  ConnIInv'
<1> DEFINE entry == [req |-> cur, headers |-> HeadersIntact, content |-> content]
           Entry == [req : {NoRequest} \union DOMAIN reqs,
                     headers : BOOLEAN,
                     content : Seq(0 .. Total)]
<1>1. /\ pc = "respond" /\ pc' = "write" /\ created' = Append(created, entry)
      /\ UNCHANGED vars /\ \E r \in Responses : BeginResponse(r)
      /\ UNCHANGED <<reqs, cur, rest, HeaderA, content, RemLength, fed, mixed>>
  BY DEF Respond
<1>2. RespIInv'
  BY <1>1, BeginStep
<1>3. /\ IInv' /\ ParserPos' = ParserPos /\ ParseStart' = ParseStart /\ received' = received
  BY <1>1, BufferStays DEF ConnIInv
<1>4. Start' = Start /\ Total' = Total /\ Req' = Req /\ \A k : Parsed(k)' = Parsed(k)
  BY <1>1, LayoutStays DEF Req
<1>5. reqs' \in Seq(Requests) /\ OwnTypeOK'
  BY <1>1, <1>4, ConnTyped DEF OwnTypeOK
<1>6. InStream' /\ InPlace' /\ Parts' /\ HeadersInPlace'
  <2>1. HeadersIntact' <=> HeadersIntact
    BY <1>1, IntactStays DEF vars
  <2> QED BY <1>1, <1>3, <1>4, <2>1
          DEF ConnIInv, InStream, InPlace, Parts, HeadersInPlace, InContent, InWhole, InMultipart
<1>7. Taken'
  <2>1. pc \in InAnswer
    BY <1>1 DEF InAnswer
  <2>2. Parsed(cur)' = Parsed(cur)
    BY <1>1, <1>4 DEF Parsed
  <2> QED BY <1>1, <1>4, <2>1, <2>2 DEF ConnIInv, Taken, FedCells
<1>8. /\ created \in Seq(Entry) /\ entry \in Entry /\ Len(created) \in Nat
  <2>1. HeadersIntact \in BOOLEAN
    BY DEF HeadersIntact
  <2> HIDE DEF HeadersIntact
  <2> QED BY <2>1, ConnTyped DEF OwnTypeOK, ConnIInv, CreatedOK
<1> HIDE DEF Entry, entry
<1>9. /\ created' \in Seq(Entry) /\ Len(created') = Len(created) + 1
      /\ created'[Len(created) + 1] = entry
      /\ \A i \in 1 .. Len(created) : created'[i] = created[i]
      /\ DOMAIN created' = 1 .. Len(created) + 1 /\ DOMAIN created = 1 .. Len(created)
  BY <1>1, <1>8
<1>10. ASSUME NEW i \in DOMAIN created'
       PROVE  \/ i \in DOMAIN created /\ created'[i] = created[i]
              \/ i = Len(created) + 1 /\ created'[i] = entry
  BY <1>8, <1>9
<1>11. entry.req = cur /\ entry.content = content
  BY DEF entry
<1>12. CreatedOK'
  <2>1. created' \in Seq([req : {NoRequest} \union DOMAIN reqs',
                          headers : BOOLEAN,
                          content : Seq(0 .. Total')])
    BY <1>1, <1>4, <1>9 DEF Entry
  <2>2. ASSUME NEW i \in DOMAIN created', NEW k, k = created'[i].req,
               k # NoRequest, reqs[k].method = "POST", reqs[k].type = "whole"
        PROVE  /\ reqs[k].body <= Len(created'[i].content)
               /\ \A j \in 1 .. reqs[k].body : created'[i].content[j] = Parsed(k) + j - 1
    <3>1. CASE i \in DOMAIN created /\ created'[i] = created[i]
      BY <2>2, <3>1 DEF ConnIInv, CreatedOK
    <3>2. CASE i = Len(created) + 1 /\ created'[i] = entry
      <4>1. k = cur /\ created'[i].content = content
        BY <1>11, <2>2, <3>2
      <4> QED BY <1>1, <2>2, <4>1 DEF ConnIInv, Taken, InAnswer, Req
    <3> QED BY <1>10, <3>1, <3>2
  <2>3. ASSUME NEW i \in DOMAIN created',
               created'[i].req # NoRequest, reqs'[created'[i].req].method = "POST",
               reqs'[created'[i].req].type = "whole"
        PROVE  /\ reqs'[created'[i].req].body <= Len(created'[i].content)
               /\ \A j \in 1 .. reqs'[created'[i].req].body :
                    created'[i].content[j] = Start'[created'[i].req]
                                             + reqs'[created'[i].req].head + j - 1
    <3>1. PICK k : k = created'[i].req
      OBVIOUS
    <3>2. /\ reqs[k].body <= Len(created'[i].content)
          /\ \A j \in 1 .. reqs[k].body : created'[i].content[j] = Parsed(k) + j - 1
      BY <1>1, <2>2, <2>3, <3>1
    <3>3. Parsed(k) = Start'[k] + reqs'[k].head
      BY <1>1, <1>4 DEF Parsed
    <3> QED BY <1>1, <3>1, <3>2, <3>3
  <2> QED BY <2>1, <2>3 DEF CreatedOK, Parsed
<1>13. InTurn'
  <2>1. SUFFICES ASSUME ~mixed PROVE InTurn'
    BY <1>1 DEF InTurn
  <2>2. /\ \A i \in DOMAIN created : created[i].req = i
        /\ cur = Len(created) + 1 /\ ParserPos = Start[cur] + Size(Req)
    BY <1>1, <2>1 DEF ConnIInv, InTurn, InAnswer
  <2>3. \A i \in DOMAIN created' : created'[i].req = i
    BY <1>10, <1>11, <2>2
  <2>4. cur' = Len(created') /\ cur' # NoRequest
    BY <1>1, <1>8, <1>9, <2>2 DEF NoRequest
  <2>5. ParserPos' = Start'[cur'] + Size(Req')
    BY <1>1, <1>3, <1>4, <2>2
  <2> QED BY <1>1, <2>3, <2>4, <2>5 DEF InTurn, InContent, InWhole, InMultipart, Size
<1> QED BY <1>2, <1>3, <1>5, <1>6, <1>7, <1>12, <1>13, ConnTyped DEF ConnIInv

\* WriteResponse: the response goes on, or it is over.
LEMMA WriteResponseStep ==
  ASSUME ConnIInv, WriteResponse
  PROVE  ConnIInv'
<1>1. /\ pc = "write" /\ pc' \in {"write", "discard", "ended"} /\ UNCHANGED vars /\ SendStep
      /\ UNCHANGED <<reqs, cur, rest, HeaderA, content, RemLength, fed, created, mixed>>
  BY DEF WriteResponse
<1>2. RespIInv'
  BY <1>1, SendStepKeeps DEF ConnIInv
<1>3. /\ IInv' /\ ParserPos' = ParserPos /\ ParseStart' = ParseStart /\ received' = received
  BY <1>1, BufferStays DEF ConnIInv
<1>4. Start' = Start /\ Total' = Total /\ Req' = Req /\ Parsed(cur)' = Parsed(cur)
  BY <1>1, LayoutStays DEF Req, Parsed
<1>5. CreatedOK' /\ reqs' \in Seq(Requests)
  BY <1>1, CreatedStays
<1>6. OwnTypeOK'
  BY <1>1, <1>4, ConnTyped DEF OwnTypeOK
<1>7. InStream' /\ InPlace' /\ Parts' /\ HeadersInPlace'
  <2>1. HeadersIntact' <=> HeadersIntact
    BY <1>1, IntactStays DEF vars
  <2> QED BY <1>1, <1>3, <1>4, <2>1
          DEF ConnIInv, InStream, InPlace, Parts, HeadersInPlace, InContent, InWhole, InMultipart
<1>8. Taken'
  BY <1>1, <1>4 DEF ConnIInv, Taken, InAnswer, FedCells
<1>9. InTurn'
  BY <1>1, <1>3, <1>4
     DEF ConnIInv, InTurn, InContent, InWhole, InMultipart, InAnswer, Size
<1> QED BY <1>2, <1>3, <1>5, <1>6, <1>7, <1>8, <1>9, ConnTyped DEF ConnIInv

\* EndRequest: the parser is where the next request begins.
LEMMA EndRequestStep ==
  ASSUME ConnIInv, EndRequest
  PROVE  ConnIInv'
<1>1. /\ pc = "discard" /\ pc' \in {"header", "ended"} /\ EndResponse /\ Discard
      /\ cur' = NoRequest /\ rest' = NoHeaders /\ HeaderA' = PointTo("nowhere")
      /\ UNCHANGED <<reqs, content, RemLength, fed, created, mixed>>
  BY DEF EndRequest
<1>2. RespIInv'
  BY <1>1, NoResponseStep
<1>3. /\ IInv' /\ ParserPos' = ParserPos /\ ParseStart' = ParserPos /\ received' = received
  BY <1>1, DropEffect DEF ConnIInv
<1>4. Start' = Start /\ Total' = Total /\ HeaderEnds' = HeaderEnds
  BY <1>1, LayoutStays
<1>5. CreatedOK' /\ reqs' \in Seq(Requests)
  BY <1>1, CreatedStays
<1>6. OwnTypeOK'
  <2>1. PointTo("nowhere") \in [in : {"nowhere", "ReadBuff", "StaticBuff", "PostHeaderBuff", "lost"},
                               at : Nat, cells : Seq(Byte)]
    BY DEF PointTo
  <2> QED BY <1>1, <1>4, <2>1, ConnTyped DEF OwnTypeOK
<1>7. InStream'
  <2>1. \A e \in HeaderEnds : ~(ParserPos <= e /\ e < ParserPos)
    <3>1. ASSUME NEW e \in HeaderEnds PROVE e \in Int
      <4>1. PICK k \in DOMAIN reqs : e = Parsed(k) - 1
        BY ConnTyped, HeaderEndPlaces
      <4>2. Parsed(k) \in Nat
        BY ConnTyped, Layout
      <4> QED BY <4>1, <4>2
    <3> QED BY <3>1, Current
  <2>2. 0 <= ParserPos /\ received <= Total
    BY Current
  <2> QED BY <1>1, <1>3, <1>4, <2>1, <2>2 DEF InStream, PointTo
<1>8. InPlace' /\ Parts' /\ Taken' /\ HeadersInPlace'
  BY <1>1 DEF InPlace, Parts, Taken, HeadersInPlace, HeadersIntact, PointTo,
              InContent, InWhole, InMultipart, InAnswer
<1>9. InTurn'
  <2>1. SUFFICES ASSUME ~mixed PROVE InTurn'
    BY <1>1 DEF InTurn
  <2>2. /\ \A i \in DOMAIN created : created[i].req = i
        /\ cur = Len(created) /\ cur # NoRequest /\ ParserPos = Start[cur] + Size(Req)
    BY <1>1, <2>1 DEF ConnIInv, InTurn, InAnswer
  <2>3. ParserPos = Start[Len(created) + 1] /\ Len(created) <= Len(reqs)
    BY <2>2, Current
  <2> QED BY <1>1, <1>3, <1>4, <2>2, <2>3 DEF InTurn, InContent, InWhole, InMultipart, InAnswer
<1> QED BY <1>2, <1>3, <1>5, <1>6, <1>7, <1>8, <1>9, ConnTyped DEF ConnIInv

\* A new connection has read nothing.
LEMMA ConnInitIInv == ConnInit => ConnIInv
<1> SUFFICES ASSUME ConnInit PROVE ConnIInv
  OBVIOUS
<1>1. IInv /\ RespIInv
  BY InitIInv, NoResponseStep DEF ConnInit
<1>2. /\ pc = "header" /\ cur = NoRequest /\ rest = NoHeaders /\ HeaderA = PointTo("nowhere")
      /\ content = << >> /\ RemLength = 0 /\ fed = << >> /\ created = << >> /\ mixed = FALSE
  BY DEF ConnInit
<1>3. reqs \in Seq(Requests)
  <2>1. PICK n \in 0 .. MaxRequests : reqs \in [1 .. n -> Requests]
    BY DEF ConnInit
  <2>2. n \in Nat
    BY RequestAssumption
  <2> QED BY <2>1, <2>2
<1>4. ParserPos = 0 /\ ParseStart = 0 /\ received = 0
  <2>1. ReadPos = 0 /\ DataEndPos = 0 /\ RelevantLength = 0 /\ received = 0
    BY DEF ConnInit, Init
  <2> QED BY <2>1 DEF ParserPos, ParseStart, Available
<1>5. /\ Start[1] = 0 /\ Total \in Nat /\ Len(reqs) \in Nat
      /\ \A k \in DOMAIN reqs : Parsed(k) \in Nat
  BY <1>3, StartFacts, Layout
<1>6. Len(created) = 0 /\ DOMAIN created = {} /\ content \in Seq(0 .. Total)
      /\ fed \in Seq(0 .. Total)
  BY <1>2
<1>7. ConnTypeOK
  <2>1. RemLength \in 0 .. MaxLen
    BY <1>2, BuffAssumption
  <2>2. HeaderA \in [in : {"nowhere", "ReadBuff", "StaticBuff", "PostHeaderBuff", "lost"},
                    at : Nat, cells : Seq(Byte)]
    BY <1>2 DEF PointTo
  <2> QED BY <1>1, <1>2, <1>3, <1>6, <2>1, <2>2 DEF ConnTypeOK, IInv, RespIInv
<1>8. InStream
  <2>1. ASSUME NEW e \in HeaderEnds PROVE ~(0 <= e /\ e < 0)
    <3>1. PICK k \in DOMAIN reqs : e = Parsed(k) - 1
      BY <1>3, HeaderEndPlaces
    <3> QED BY <1>5, <3>1
  <2> QED BY <1>2, <1>4, <1>5, <2>1 DEF InStream, PointTo
<1>9. InPlace /\ Parts /\ Taken /\ HeadersInPlace
  BY <1>2 DEF InPlace, Parts, Taken, HeadersInPlace, HeadersIntact, PointTo,
              InContent, InWhole, InMultipart, InAnswer
<1>10. InTurn
  <2>1. Len(created) <= Len(reqs) /\ ParseStart = Start[Len(created) + 1]
    BY <1>4, <1>5, <1>6
  <2> QED BY <1>2, <1>6, <2>1 DEF InTurn, InContent, InWhole, InMultipart, InAnswer
<1>11. CreatedOK
  BY <1>2, <1>6 DEF CreatedOK
<1> QED BY <1>1, <1>7, <1>8, <1>9, <1>10, <1>11 DEF ConnIInv

\* The response does not change while the coroutine reads.
LEMMA ReadingStep ==
  ASSUME ConnIInv, Reading
  PROVE  ConnIInv'
<1>1. Step /\ RespIInv'
  BY RespStays DEF Reading, ConnIInv
<1>2. CASE ReadHeader
  BY <1>1, <1>2, ReadHeaderStep
<1>3. CASE HeaderTooLong
  BY <1>1, <1>3, TooLongStep
<1>4. CASE ConsumeHeaders
  BY <1>1, <1>4, ConsumeHeadersStep
<1>5. CASE EndHeaders
  BY <1>1, <1>5, EndHeadersStep
<1>6. CASE BeginContent
  BY <1>1, <1>6, BeginContentStep
<1>7. CASE RequestWhole
  BY <1>1, <1>7, RequestWholeStep
<1>8. CASE ReadWhole
  BY <1>1, <1>8, ReadWholeStep
<1>9. CASE TakeWhole
  BY <1>1, <1>9, TakeWholeStep
<1>10. CASE BeginMultipart
  BY <1>1, <1>10, BeginMultipartStep
<1>11. CASE FeedMultipart
  BY <1>1, <1>11, FeedMultipartStep
<1>12. CASE RequestMultipart
  BY <1>1, <1>12, RequestMultipartStep
<1>13. CASE ReadMultipart
  BY <1>1, <1>13, ReadMultipartStep
<1> QED BY <1>1, <1>2, <1>3, <1>4, <1>5, <1>6, <1>7, <1>8, <1>9, <1>10, <1>11, <1>12, <1>13
        DEF Step

\* Every step of the connection keeps the invariant.
LEMMA ConnInductive == ConnSpec => []ConnIInv
<1>1. ConnInit => ConnIInv
  BY ConnInitIInv
<1>2. ConnIInv /\ [ConnNext]_allVars => ConnIInv'
  <2> SUFFICES ASSUME ConnIInv, [ConnNext]_allVars PROVE ConnIInv'
    OBVIOUS
  <2>1. CASE Reading
    BY <2>1, ReadingStep
  <2>2. CASE Respond
    BY <2>2, RespondStep
  <2>3. CASE WriteResponse
    BY <2>3, WriteResponseStep
  <2>4. CASE EndRequest
    BY <2>4, EndRequestStep
  <2>5. CASE Fail
    BY <2>5, FailStep
  <2>6. CASE UNCHANGED allVars \/ FileCut
    BY <2>6, QuietStep
  <2> QED BY <2>1, <2>2, <2>3, <2>4, <2>5, <2>6 DEF ConnNext, Sending
<1> QED BY <1>1, <1>2, PTL DEF ConnSpec

-----------------------------------------------------------------------------
(* What it means for the properties of the connection.                     *)

\* The cells of the content of a request.
LEMMA BodyFacts ==
  ASSUME reqs \in Seq(Requests), NEW k \in DOMAIN reqs
  PROVE  /\ BodyOf(k) \in Seq(Nat) /\ Len(BodyOf(k)) = reqs[k].body
         /\ \A i \in 1 .. reqs[k].body : BodyOf(k)[i] = Parsed(k) + i - 1
<1>1. /\ reqs[k].body \in Nat /\ reqs[k].head \in Nat /\ Start[k] \in Nat
      /\ Parsed(k) = Start[k] + reqs[k].head
  BY RequestFacts, Layout
<1>2. ASSUME NEW i \in 1 .. reqs[k].body
      PROVE  /\ Start[k] + reqs[k].head + i - 1 = Parsed(k) + i - 1
             /\ Parsed(k) + i - 1 \in Nat
  BY <1>1
<1> DEFINE n == reqs[k].body
           b == [i \in 1 .. n |-> Parsed(k) + i - 1]
<1>3. BodyOf(k) = b
  BY <1>2 DEF BodyOf
<1>4. n \in Nat /\ \A i \in 1 .. n : Parsed(k) + i - 1 \in Nat
  BY <1>1, <1>2
<1> HIDE DEF n
<1>5. b \in Seq(Nat) /\ Len(b) = n
  BY <1>4
<1>6. \A i \in 1 .. n : b[i] = Parsed(k) + i - 1
  OBVIOUS
<1> HIDE DEF b
<1> QED BY <1>3, <1>5, <1>6 DEF n

\* A sequence that counts on from the content's first cell begins as it does.
LEMMA BeginsAsBody ==
  ASSUME reqs \in Seq(Requests), NEW k \in DOMAIN reqs, NEW X, NEW s \in Seq(X),
         NEW n \in 0 .. reqs[k].body, n <= Len(s),
         \A i \in 1 .. n : s[i] = Parsed(k) + i - 1
  PROVE  SubSeq(s, 1, n) = SubSeq(BodyOf(k), 1, n)
<1> DEFINE b == BodyOf(k)
<1>1. /\ b \in Seq(Nat) /\ Len(b) = reqs[k].body /\ reqs[k].body \in Nat
      /\ \A i \in 1 .. reqs[k].body : b[i] = Parsed(k) + i - 1
  BY BodyFacts, RequestFacts
<1> HIDE DEF b
<1>2. 1 \in 1 .. Len(s) + 1 /\ n \in 1 - 1 .. Len(s) /\ n \in Nat /\ n - 1 + 1 = n
      /\ 1 \in 1 .. Len(b) + 1 /\ n \in 1 - 1 .. Len(b)
  BY <1>1
<1>3. /\ SubSeq(s, 1, n) \in Seq(X) /\ Len(SubSeq(s, 1, n)) = n
      /\ \A j \in 1 .. n : SubSeq(s, 1, n)[j] = s[1 + j - 1]
  BY <1>2, SubSeqFacts
<1>4. /\ SubSeq(b, 1, n) \in Seq(Nat) /\ Len(SubSeq(b, 1, n)) = n
      /\ \A j \in 1 .. n : SubSeq(b, 1, n)[j] = b[1 + j - 1]
  BY <1>1, <1>2, SubSeqFacts, SMTT(30)
<1>5. ASSUME NEW j \in 1 .. n PROVE SubSeq(s, 1, n)[j] = SubSeq(b, 1, n)[j]
  <2>1. 1 + j - 1 = j /\ j \in 1 .. reqs[k].body
    BY <1>1
  <2> QED BY <1>1, <1>3, <1>4, <2>1
<1> DEFINE u == SubSeq(s, 1, n)
           v == SubSeq(b, 1, n)
<1>6. u \in Seq(X \union Nat) /\ v \in Seq(X \union Nat)
  BY <1>3, <1>4, SeqMonotonic
<1>7. Len(u) = Len(v) /\ \A j \in 1 .. Len(u) : u[j] = v[j]
  BY <1>3, <1>4, <1>5
<1> HIDE DEF u, v
<1>8. u = v
  BY <1>6, <1>7, SeqEqual
<1> QED BY <1>8 DEF u, v, b

\* All of a content is the content.
LEMMA WholeBody ==
  ASSUME reqs \in Seq(Requests), NEW k \in DOMAIN reqs
  PROVE  SubSeq(BodyOf(k), 1, reqs[k].body) = BodyOf(k)
<1>1. BodyOf(k) \in Seq(Nat) /\ Len(BodyOf(k)) = reqs[k].body
  BY BodyFacts
<1> QED BY <1>1, WholeSubSeq
\* The multipart parser got the beginning of its content, and all of it when
\* the request is answered.
LEMMA MultipartFromParts == ConnIInv => MultipartExact
<1> SUFFICES ASSUME ConnIInv, cur # NoRequest, Req.method = "POST", Req.type = "multipart",
                    pc \notin {"content", "ended"}
             PROVE  /\ Fed(cur)
                    /\ pc \in {"respond", "write", "discard"} => fed = BodyOf(cur)
  BY DEF MultipartExact
<1>1. reqs \in Seq(Requests) /\ cur \in DOMAIN reqs /\ Req.body \in Nat
  BY ConnTyped, Current
<1>2. fed \in Seq(0 .. Total) /\ Len(fed) \in Nat /\ RemLength \in Nat
  BY ConnTyped, BuffAssumption DEF OwnTypeOK
<1>3. FedCells /\ (pc \in {"respond", "write", "discard"} => RemLength = 0)
  <2>1. pc # "header" /\ pc \notin InWhole
    BY DEF ConnIInv, InStream, InPlace
  <2>2. CASE pc \in InMultipart
    BY <2>2 DEF ConnIInv, Parts, InMultipart
  <2>3. CASE pc \in InAnswer
    BY <2>3 DEF ConnIInv, Taken
  <2> QED BY <2>1, <2>2, <2>3, ConnTyped DEF OwnTypeOK, InWhole, InMultipart, InAnswer
<1>4. Len(fed) \in 0 .. Req.body /\ Len(fed) + RemLength = Req.body
  BY <1>1, <1>2, <1>3 DEF FedCells
<1>5. \A i \in 1 .. Len(fed) : fed[i] = Parsed(cur) + i - 1
  BY <1>3 DEF FedCells
<1>6. SubSeq(fed, 1, Len(fed)) = fed
  BY <1>2, WholeSubSeq
<1>7. fed = SubSeq(BodyOf(cur), 1, Len(fed))
  <2>1. Len(fed) \in 0 .. reqs[cur].body /\ Len(fed) <= Len(fed)
    BY <1>1, <1>2, <1>4 DEF Req
  <2>2. SubSeq(fed, 1, Len(fed)) = SubSeq(BodyOf(cur), 1, Len(fed))
    BY <1>1, <1>2, <1>5, <2>1, BeginsAsBody
  <2> QED BY <1>6, <2>2
<1>8. Fed(cur)
  BY <1>1, <1>4, <1>7 DEF Fed, Req
<1>9. ASSUME pc \in {"respond", "write", "discard"} PROVE fed = BodyOf(cur)
  <2>1. Len(fed) = reqs[cur].body
    BY <1>1, <1>2, <1>3, <1>4, <1>9 DEF Req
  <2>2. SubSeq(BodyOf(cur), 1, Len(fed)) = BodyOf(cur)
    BY <1>1, <2>1, WholeBody
  <2> QED BY <1>7, <2>2
<1> QED BY <1>8, <1>9

\* A content that is given to a response source as a whole begins as its own.
LEMMA OwnFromCreated == ConnIInv => ContentBeginsOwn
<1> SUFFICES ASSUME ConnIInv, NEW i \in DOMAIN created, NEW k, k = created[i].req,
                    k # NoRequest, reqs[k].method = "POST", reqs[k].type = "whole"
             PROVE  SubSeq(created[i].content, 1, reqs[k].body) = BodyOf(k)
  BY DEF ContentBeginsOwn
<1>1. reqs \in Seq(Requests)
  BY ConnTyped
<1>2. /\ k \in DOMAIN reqs /\ created[i].content \in Seq(0 .. Total)
      /\ reqs[k].body <= Len(created[i].content)
      /\ \A j \in 1 .. reqs[k].body : created[i].content[j] = Parsed(k) + j - 1
  <2>1. CreatedOK
    BY DEF ConnIInv
  <2> DEFINE Entry == [req : {NoRequest} \union DOMAIN reqs,
                       headers : BOOLEAN,
                       content : Seq(0 .. Total)]
  <2>2. created[i] \in Entry
    <3>1. created \in Seq(Entry)
      BY <2>1 DEF CreatedOK
    <3> HIDE DEF Entry
    <3> QED BY <3>1
  <2>3. k \in DOMAIN reqs /\ created[i].content \in Seq(0 .. Total)
    BY <2>2
  <2>4. /\ reqs[k].body <= Len(created[i].content)
        /\ \A j \in 1 .. reqs[k].body : created[i].content[j] = Parsed(k) + j - 1
    BY <2>1, Zenon DEF CreatedOK
  <2> QED BY <2>3, <2>4
<1>3. reqs[k].body \in 0 .. reqs[k].body
  BY <1>1, <1>2, RequestFacts
<1>4. SubSeq(created[i].content, 1, reqs[k].body) = SubSeq(BodyOf(k), 1, reqs[k].body)
  BY <1>1, <1>2, <1>3, BeginsAsBody
<1> QED BY <1>1, <1>2, <1>4, WholeBody

\* ConnTypeOK: whatever the requests, the responses and the sizes of the
\* buffers, RemLength of ContentHandler() never becomes negative, and neither do
\* the unsigned lengths of the read buffer below it.
THEOREM SpecConnTypeOK == ConnSpec => []ConnTypeOK
<1>1. ConnIInv => ConnTypeOK
  BY DEF ConnIInv
<1> QED BY <1>1, ConnInductive, PTL

\* RequestsInOrder: as long as ContentHandler() took no more than a content for
\* it, IRespSource::Create() is called for the requests of the client, each once
\* and in their order.
THEOREM SpecRequestsInOrder == ConnSpec => []RequestsInOrder
<1>1. ConnIInv => RequestsInOrder
  BY DEF ConnIInv, InTurn, RequestsInOrder
<1> QED BY <1>1, ConnInductive, PTL

\* MultipartExact: AppendFormMultipart() is given the content of its request and
\* nothing of the next one, however it is cut and wherever the buffer is moved.
THEOREM SpecMultipartExact == ConnSpec => []MultipartExact
BY MultipartFromParts, ConnInductive, PTL

\* ContentBeginsOwn: a content that is read as a whole begins with its own cells,
\* although everything that is available is taken for it.
THEOREM SpecContentBeginsOwn == ConnSpec => []ContentBeginsOwn
BY OwnFromCreated, ConnInductive, PTL

\* HeadersInPlace: the pointers of HeaderA point to what they were parsed from,
\* but for a content that is read as a whole.
THEOREM SpecHeadersInPlace == ConnSpec => []HeadersInPlace
<1>1. ConnIInv => HeadersInPlace
  BY DEF ConnIInv
<1> QED BY <1>1, ConnInductive, PTL

\* KeptInStep: a connection that goes on after ResponseHandler() has sent the
\* body whose length it announced, whichever source it came from.
THEOREM SpecKeptInStep == ConnSpec => []KeptInStep
<1>1. ConnIInv => KeptInStep
  BY InStep DEF ConnIInv
<1> QED BY <1>1, ConnInductive, PTL

\* BodyInOrder: the blocks that ResponseHandler() writes are the body from its
\* beginning, in order and without a gap.
THEOREM SpecBodyInOrder == ConnSpec => []BodyInOrder
<1>1. ConnIInv => BodyInOrder
  BY DEF ConnIInv, RespIInv
<1> QED BY <1>1, ConnInductive, PTL
=============================================================================
