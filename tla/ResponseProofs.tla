--------------------------- MODULE ResponseProofs ---------------------------
(***************************************************************************)
(* For every size of the write buffer and every response: what a source    *)
(* has delivered, what ResponseHandler() has sent and what it thinks is    *)
(* left of the announced length belong together, so that a connection that *)
(* is kept alive is in step with its client.                               *)
(***************************************************************************)
EXTENDS Response, SequenceTheorems, TLAPS

\* How many cells of the body were delivered by Read().
Delivered == Len(sent) + Len(block)

\* What a block may be, and what Read() and RespLength said, in each phase.
Phases ==
  /\ phase # "end" => ~RetVal
  /\ phase \in {"idle", "headers", "read", "end"} => block = << >>
  /\ phase \in {"headers", "read"} => ~IsFinished
  /\ phase = "block" /\ RespLength = Unknown => ~IsFinished
  /\ phase = "final" => RespLength = Unknown /\ place = resp.size
  /\ phase = "read" => RespLength # 0
  /\ phase = "block" /\ resp.source = "generated" /\ IsFinished => RespLength # 0

\* RespLength is what is left of the announced length.
LengthLeft ==
  /\ RespLength = Unknown <=> Announced(resp) = Unknown
  /\ RespLength # Unknown =>
       RespLength = IF Delivered <= Announced(resp)
                      THEN Announced(resp) - Delivered ELSE 0

\* Where a gzip response is when n cells of it were delivered.
Deflated(n, p, state, cpos, over) ==
  /\ state \in {"CS_HEADER", "CS_BODY", "CS_FOOTER"}
  /\ state = "CS_HEADER" => n = 0 /\ p = 0 /\ cpos = 0
  /\ state = "CS_BODY" => n = GzipHeader + p /\ cpos = 0
  /\ state = "CS_FOOTER" => n = GzipHeader + resp.size + cpos /\ p = resp.size
  /\ over => state = "CS_FOOTER" /\ cpos = GzipFooter

\* The same for a stored entry, whose last cells may be taken and forgotten.
Stored(n, p, state, over) ==
  /\ state = "CS_BODYONLY" /\ n <= p
  /\ ~over => n = p

\* The source has delivered as much as was taken from it.
AtPlace ==
  /\ resp.source \in {"string", "message", "file", "generated", "redirect"} =>
       Delivered = place
  /\ resp.source = "deflated" => Deflated(Delivered, place, CState, CStatePos, IsFinished)
  /\ resp.source = "stored" => Stored(Delivered, place, CState, IsFinished)
  /\ resp.source \in {"message", "generated"} /\ IsFinished => place = resp.size

\* A response that was sent without an error has the length the client knows.
LengthTold ==
  phase = "end" /\ RetVal => Announced(resp) \in {Unknown, Len(sent)}

RespIInv ==
  /\ RespTypeOK /\ BodyInOrder
  /\ Phases /\ LengthLeft /\ AtPlace /\ LengthTold

-----------------------------------------------------------------------------
(* Zip::Response::Read().                                                  *)

ZipRecord == [state : {"CS_HEADER", "CS_BODY", "CS_BODYONLY", "CS_FOOTER"},
              pos : 0 .. GzipFooter, comp : 0 .. resp.size, rem : Nat,
              out : Seq(Nat), over : BOOLEAN]

\* The cells of a block that follows base other ones.
Numbered(out, base) == \A i \in 1 .. Len(out) : out[i] = base + i

Zipping ==
  resp \in Response /\ sent \in Seq(Nat) /\ resp.source \in {"deflated", "stored"}

\* Between two turns of its loop.
ZipInv(z) ==
  /\ z \in ZipRecord
  /\ Len(z.out) + z.rem = WriteBuffSize
  /\ Numbered(z.out, Len(sent))
  /\ resp.source = "deflated" =>
       Deflated(Len(sent) + Len(z.out), z.comp, z.state, z.pos, z.over)
  /\ resp.source = "stored" => Stored(Len(sent) + Len(z.out), z.comp, z.state, z.over)

\* Cells appended to a block that continues what was sent.
LEMMA Continued ==
  ASSUME NEW out \in Seq(Nat), NEW base \in Nat, NEW from \in Nat, NEW n \in Nat,
         from = base + Len(out), Numbered(out, base)
  PROVE  /\ out \o Upto(from, n) \in Seq(Nat)
         /\ Len(out \o Upto(from, n)) = Len(out) + n
         /\ Numbered(out \o Upto(from, n), base)
<1> DEFINE t == Upto(from, n)
<1>1. t \in Seq(Nat) /\ Len(t) = n /\ \A i \in 1 .. n : t[i] = from + i
  BY DEF Upto
<1> HIDE DEF t
<1>2. /\ out \o t \in Seq(Nat) /\ Len(out \o t) = Len(out) + Len(t)
      /\ \A i \in 1 .. Len(out) + Len(t) :
           (out \o t)[i] = IF i <= Len(out) THEN out[i] ELSE t[i - Len(out)]
  BY <1>1, ConcatProperties, Zenon
<1>3. ASSUME NEW i \in 1 .. Len(out) + n PROVE (out \o t)[i] = base + i
  <2>1. CASE i <= Len(out)
    BY <1>1, <1>2, <2>1 DEF Numbered
  <2>2. CASE ~(i <= Len(out))
    <3>1. i - Len(out) \in 1 .. n
      BY <2>2
    <3>2. (out \o t)[i] = t[i - Len(out)] /\ t[i - Len(out)] = from + (i - Len(out))
      BY <1>1, <1>2, <2>2, <3>1
    <3> QED BY <3>2
  <2> QED BY <2>1, <2>2
<1>4. Numbered(out \o t, base)
  BY <1>1, <1>2, <1>3 DEF Numbered
<1> QED BY <1>1, <1>2, <1>4 DEF t

\* A turn of the loop keeps the counts and the order of the cells.
LEMMA TurnStep ==
  ASSUME Zipping, NEW z, ZipInv(z)
  PROVE  ZipInv(ZipTurn(z))
<1>1. /\ z.state \in {"CS_HEADER", "CS_BODY", "CS_BODYONLY", "CS_FOOTER"}
      /\ z.pos \in 0 .. GzipFooter /\ z.comp \in 0 .. resp.size /\ z.rem \in Nat
      /\ z.out \in Seq(Nat) /\ z.over \in BOOLEAN /\ z \in ZipRecord
      /\ Len(z.out) + z.rem = WriteBuffSize /\ Len(z.out) \in Nat /\ Len(sent) \in Nat
      /\ Numbered(z.out, Len(sent))
  BY DEF ZipInv, ZipRecord, Zipping
<1>2. /\ resp.source \in {"deflated", "stored"}
      /\ GzipHeader \in Nat /\ GzipHeader <= WriteBuffSize /\ GzipFooter \in Nat
      /\ WriteBuffSize \in Nat /\ resp.size \in Nat
  BY ResponseAssumption DEF Response, Zipping
<1>3. CASE z.over \/ z.rem = 0
  <2>1. ZipTurn(z) = z
    BY <1>3 DEF ZipTurn
  <2> QED BY <2>1
<1>4. CASE ~(z.over \/ z.rem = 0) /\ z.state = "CS_HEADER"
  <2>1. /\ resp.source = "deflated" /\ Len(sent) = 0 /\ Len(z.out) = 0
        /\ z.comp = 0 /\ z.pos = 0 /\ z.rem = WriteBuffSize
    <3>1. resp.source = "deflated"
      BY <1>2, <1>4 DEF ZipInv, Stored
    <3>2. Len(sent) + Len(z.out) = 0 /\ z.comp = 0 /\ z.pos = 0
      BY <1>4, <3>1 DEF ZipInv, Deflated
    <3> QED BY <1>1, <1>2, <3>1, <3>2
  <2> DEFINE o == z.out \o Upto(0, GzipHeader)
  <2>2. /\ o \in Seq(Nat) /\ Len(o) = Len(z.out) + GzipHeader
        /\ Numbered(o, Len(sent))
    <3>1. 0 \in Nat /\ GzipHeader \in Nat /\ Len(sent) \in Nat /\ z.out \in Seq(Nat)
          /\ 0 = Len(sent) + Len(z.out)
      BY <1>1, <1>2, <2>1
    <3>2. Numbered(z.out, Len(sent))
      BY <1>1
    <3> QED BY <3>1, <3>2, Continued
  <2> HIDE DEF o
  <2>3. ZipTurn(z) = [z EXCEPT !.state = "CS_BODY", !.rem = z.rem - GzipHeader, !.out = o]
    BY <1>4 DEF ZipTurn, ZipHeader, o
  <2> DEFINE y == ZipTurn(z)
  <2>4. /\ y.state = "CS_BODY" /\ y.rem = z.rem - GzipHeader /\ y.out = o
        /\ y.pos = z.pos /\ y.comp = z.comp /\ y.over = z.over
    BY <1>1, <2>3 DEF ZipRecord
  <2>5. y \in ZipRecord
    <3>1. z.rem - GzipHeader \in Nat
      BY <1>2, <2>1
    <3> QED BY <1>1, <2>2, <2>3, <3>1 DEF ZipRecord
  <2> HIDE DEF y
  <2>6. Deflated(Len(sent) + Len(y.out), y.comp, y.state, y.pos, y.over)
    BY <1>1, <1>2, <1>4, <2>1, <2>2, <2>4 DEF Deflated
  <2>7. /\ Len(y.out) + y.rem = WriteBuffSize
        /\ Numbered(y.out, Len(sent))
    BY <1>1, <1>2, <2>1, <2>2, <2>4, SMTT(30)
  <2> QED BY <2>1, <2>5, <2>6, <2>7 DEF ZipInv, y
<1>5. CASE ~(z.over \/ z.rem = 0) /\ z.state = "CS_FOOTER"
  <2>1. /\ resp.source = "deflated" /\ z.comp = resp.size
        /\ Len(sent) + Len(z.out) = GzipHeader + resp.size + z.pos
    <3>1. resp.source = "deflated"
      BY <1>2, <1>5 DEF ZipInv, Stored
    <3> QED BY <1>5, <3>1 DEF ZipInv, Deflated
  <2> DEFINE n == Smaller(z.rem, GzipFooter - z.pos)
             o == z.out \o Upto(GzipHeader + resp.size + z.pos, n)
  <2>2. n \in Nat /\ n <= z.rem /\ n <= GzipFooter - z.pos
    BY <1>1, <1>2 DEF Smaller
  <2> HIDE DEF n
  <2>3. /\ o \in Seq(Nat) /\ Len(o) = Len(z.out) + n
        /\ Numbered(o, Len(sent))
    <3> DEFINE from == GzipHeader + resp.size + z.pos
    <3>1. from \in Nat /\ n \in Nat /\ Len(sent) \in Nat /\ z.out \in Seq(Nat)
          /\ from = Len(sent) + Len(z.out)
      BY <1>1, <1>2, <2>1, <2>2
    <3>2. Numbered(z.out, Len(sent))
      BY <1>1
    <3> HIDE DEF from
    <3>3. /\ z.out \o Upto(from, n) \in Seq(Nat)
          /\ Len(z.out \o Upto(from, n)) = Len(z.out) + n
          /\ Numbered(z.out \o Upto(from, n), Len(sent))
      BY <3>1, <3>2, Continued
    <3> QED BY <3>3 DEF from
  <2> HIDE DEF o
  <2>4. ZipTurn(z) = [z EXCEPT !.pos = z.pos + n, !.rem = z.rem - n, !.out = o,
                               !.over = (z.pos + n = GzipFooter)]
    BY <1>5 DEF ZipTurn, ZipFooter, FooterFrom, o, n
  <2> DEFINE y == ZipTurn(z)
  <2>5. /\ y.state = z.state /\ y.rem = z.rem - n /\ y.out = o
        /\ y.pos = z.pos + n /\ y.comp = z.comp /\ (y.over => z.pos + n = GzipFooter)
    BY <1>1, <2>4 DEF ZipRecord
  <2>6. y \in ZipRecord
    <3>1. z.pos + n \in 0 .. GzipFooter /\ z.rem - n \in Nat
      BY <1>1, <1>2, <2>2, SMTT(30)
    <3> HIDE DEF y
    <3> QED BY <1>1, <2>3, <2>4, <3>1 DEF ZipRecord, y
  <2> HIDE DEF y
  <2>7. Deflated(Len(sent) + Len(y.out), y.comp, y.state, y.pos, y.over)
    <3>1. Len(sent) + Len(y.out) = GzipHeader + resp.size + y.pos
      <4>1. Len(sent) + Len(y.out) = (Len(sent) + Len(z.out)) + n
        <5>1. Len(y.out) = Len(z.out) + n
          BY <2>3, <2>5
        <5>2. Len(sent) \in Nat /\ Len(z.out) \in Nat
          BY <1>1
        <5> QED BY <2>2, <5>1, <5>2
      <4>2. (GzipHeader + resp.size + z.pos) + n = GzipHeader + resp.size + y.pos
        BY <1>1, <1>2, <2>2, <2>5
      <4> QED BY <2>1, <4>1, <4>2
    <3>2. y.state = "CS_FOOTER" /\ y.comp = resp.size /\ (y.over => y.pos = GzipFooter)
      BY <1>5, <2>1, <2>5
    <3> QED BY <3>1, <3>2 DEF Deflated
  <2>8. /\ Len(y.out) + y.rem = WriteBuffSize
        /\ Numbered(y.out, Len(sent))
    <3>1. y.rem = z.rem - n /\ Len(y.out) = Len(z.out) + n
      BY <2>3, <2>5
    <3>2. Len(y.out) + y.rem = WriteBuffSize
      BY <1>1, <2>2, <3>1
    <3> QED BY <2>3, <2>5, <3>2
  <2> QED BY <2>1, <2>6, <2>7, <2>8 DEF ZipInv, y
<1>6. CASE ~(z.over \/ z.rem = 0) /\ z.state \in {"CS_BODY", "CS_BODYONLY"}
  <2> DEFINE count == Smaller(z.rem, resp.size - z.comp)
             first == IF z.state = "CS_BODY" THEN GzipHeader + z.comp ELSE z.comp
             o == z.out \o Upto(first, count)
             y == ZipTurn(z)
  <2>1. /\ count \in Nat /\ count <= z.rem /\ count <= resp.size - z.comp
        /\ count < z.rem => z.comp + count = resp.size
    BY <1>1, <1>2 DEF Smaller
  <2>2. /\ first = Len(sent) + Len(z.out) /\ first \in Nat
        /\ z.state = "CS_BODY" => Len(sent) + Len(z.out) = GzipHeader + z.comp
        /\ z.state = "CS_BODYONLY" => Len(sent) + Len(z.out) = z.comp
        /\ z.state = "CS_BODY" <=> resp.source = "deflated"
        /\ z.state = "CS_BODYONLY" <=> resp.source = "stored"
    BY <1>1, <1>2, <1>6 DEF ZipInv, Deflated, Stored
  <2>3. y = ZipBody(z)
    BY <1>6 DEF ZipTurn
  <2>4. /\ count < z.rem /\ z.state = "CS_BODYONLY" =>
             y = [z EXCEPT !.comp = z.comp + count, !.over = TRUE]
        /\ ~(count < z.rem /\ z.state = "CS_BODYONLY") =>
             y = [z EXCEPT !.comp = z.comp + count, !.rem = z.rem - count, !.out = o,
                           !.state = IF count < z.rem THEN "CS_FOOTER" ELSE z.state,
                           !.pos = IF count < z.rem THEN 0 ELSE z.pos]
    BY <2>3 DEF ZipBody
  <2> HIDE DEF count, first, y
  <2>5. /\ o \in Seq(Nat) /\ Len(o) = Len(z.out) + count
        /\ Numbered(o, Len(sent))
    <3>1. Numbered(z.out, Len(sent))
      BY <1>1
    <3>2. Len(sent) \in Nat /\ z.out \in Seq(Nat)
      BY <1>1
    <3> QED BY <2>1, <2>2, <3>1, <3>2, Continued
  <2> HIDE DEF o
  <2>6. CASE count < z.rem /\ z.state = "CS_BODYONLY"
    <3>1. /\ y.state = z.state /\ y.rem = z.rem /\ y.out = z.out
          /\ y.pos = z.pos /\ y.comp = z.comp + count /\ y.over = TRUE
      BY <1>1, <2>4, <2>6 DEF ZipRecord
    <3>2. y \in ZipRecord
      <4>1. z.comp + count \in 0 .. resp.size
        BY <1>1, <1>2, <2>1
      <4> QED BY <1>1, <2>4, <2>6, <4>1 DEF ZipRecord
    <3>3. Stored(Len(sent) + Len(y.out), y.comp, y.state, y.over)
      <4>1. Len(sent) + Len(y.out) <= z.comp /\ z.comp <= y.comp
        <5>1. Len(sent) + Len(y.out) = z.comp
          BY <2>2, <2>6, <3>1
        <5>2. z.comp \in Nat /\ y.comp = z.comp + count
          BY <1>1, <1>2, <3>1
        <5> QED BY <2>1, <5>1, <5>2
      <4>2. y.state = "CS_BODYONLY" /\ y.over
        BY <2>6, <3>1
      <4>3. Len(sent) + Len(y.out) \in Nat /\ z.comp \in Nat /\ y.comp \in Nat
        BY <1>1, <2>1, <3>1
      <4> QED BY <4>1, <4>2, <4>3 DEF Stored
    <3> QED BY <1>1, <2>2, <2>6, <3>1, <3>2, <3>3 DEF ZipInv, y
  <2>7. CASE ~(count < z.rem /\ z.state = "CS_BODYONLY")
    <3> DEFINE s == IF count < z.rem THEN "CS_FOOTER" ELSE z.state
               p == IF count < z.rem THEN 0 ELSE z.pos
    <3>1. /\ y.state = s /\ y.rem = z.rem - count /\ y.out = o
          /\ y.pos = p /\ y.comp = z.comp + count /\ y.over = z.over
      BY <1>1, <2>4, <2>7 DEF ZipRecord
    <3>2. y \in ZipRecord
      <4>1. /\ z.comp + count \in 0 .. resp.size /\ z.rem - count \in Nat
            /\ p \in 0 .. GzipFooter
            /\ s \in {"CS_HEADER", "CS_BODY", "CS_BODYONLY", "CS_FOOTER"}
        BY <1>1, <1>2, <2>1, SMTT(30)
      <4>2. y = [z EXCEPT !.comp = z.comp + count, !.rem = z.rem - count, !.out = o,
                          !.state = s, !.pos = p]
        BY <2>4, <2>7
      <4> HIDE DEF s, p
      <4> QED BY <1>1, <2>5, <4>1, <4>2 DEF ZipRecord
    <3>3. resp.source = "deflated" =>
            Deflated(Len(sent) + Len(y.out), y.comp, y.state, y.pos, y.over)
      <4> SUFFICES ASSUME resp.source = "deflated"
                   PROVE  Deflated(Len(sent) + Len(y.out), y.comp, y.state, y.pos, y.over)
        OBVIOUS
      <4>1. z.state = "CS_BODY" /\ z.pos = 0 /\ ~z.over
        BY <1>6, <2>2 DEF ZipInv, Deflated
      <4>2. Len(sent) + Len(y.out) = GzipHeader + y.comp
        <5>1. Len(sent) + Len(y.out) = (Len(sent) + Len(z.out)) + count
          <6>1. Len(y.out) = Len(z.out) + count
            BY <2>5, <3>1
          <6>2. Len(sent) \in Nat /\ Len(z.out) \in Nat
            BY <1>1
          <6> QED BY <2>1, <6>1, <6>2
        <5>2. (GzipHeader + z.comp) + count = GzipHeader + y.comp
          BY <1>1, <1>2, <2>1, <3>1
        <5> QED BY <2>2, <4>1, <5>1, <5>2
      <4>3. CASE count < z.rem
        <5>1. y.state = "CS_FOOTER" /\ y.comp = resp.size /\ y.pos = 0 /\ ~y.over
          BY <2>1, <3>1, <4>1, <4>3
        <5>2. Len(sent) + Len(y.out) = GzipHeader + resp.size + y.pos
          BY <1>2, <4>2, <5>1
        <5> QED BY <5>1, <5>2 DEF Deflated
      <4>4. CASE ~(count < z.rem)
        <5>1. y.state = "CS_BODY" /\ y.pos = 0 /\ ~y.over
          BY <3>1, <4>1, <4>4
        <5> QED BY <4>2, <5>1 DEF Deflated
      <4> QED BY <4>3, <4>4
    <3>4. resp.source = "stored" =>
            Stored(Len(sent) + Len(y.out), y.comp, y.state, y.over)
      <4> SUFFICES ASSUME resp.source = "stored"
                   PROVE  Stored(Len(sent) + Len(y.out), y.comp, y.state, y.over)
        OBVIOUS
      <4>1. z.state = "CS_BODYONLY" /\ ~(count < z.rem)
        BY <2>2, <2>7
      <4>2. y.state = "CS_BODYONLY"
        BY <3>1, <4>1
      <4>3. Len(sent) + Len(y.out) = y.comp /\ y.comp \in Nat
        <5>1. Len(sent) + Len(y.out) = (Len(sent) + Len(z.out)) + count
          <6>1. Len(y.out) = Len(z.out) + count
            BY <2>5, <3>1
          <6>2. Len(sent) \in Nat /\ Len(z.out) \in Nat
            BY <1>1
          <6> QED BY <2>1, <6>1, <6>2
        <5>2. z.comp \in Nat /\ y.comp = z.comp + count
          BY <1>1, <1>2, <3>1
        <5> QED BY <2>1, <2>2, <4>1, <5>1, <5>2
      <4> QED BY <4>2, <4>3 DEF Stored
    <3>5. /\ Len(y.out) + y.rem = WriteBuffSize
          /\ Numbered(y.out, Len(sent))
      <4>1. y.rem = z.rem - count /\ Len(y.out) = Len(z.out) + count
        BY <2>5, <3>1
      <4>2. Len(y.out) + y.rem = WriteBuffSize
        BY <1>1, <2>1, <4>1
      <4> QED BY <2>5, <3>1, <4>2
    <3> QED BY <3>2, <3>3, <3>4, <3>5 DEF ZipInv, y
  <2> QED BY <2>6, <2>7
<1> QED BY <1>1, <1>3, <1>4, <1>5, <1>6
\* Three turns are the whole loop: it ends with Read() true or TargetBuff full.
LEMMA ThreeTurns ==
  ASSUME Zipping, NEW z, ZipInv(z)
  PROVE  LET last == ZipTurn(ZipTurn(ZipTurn(z))) IN last.over \/ last.rem = 0
<1> DEFINE Done(y) == y.over \/ y.rem = 0
<1>1. ASSUME NEW y, ZipInv(y), Done(y) PROVE Done(ZipTurn(y))
  BY <1>1 DEF ZipTurn
<1>2. ASSUME NEW y, ZipInv(y), y.state = "CS_FOOTER" PROVE Done(ZipTurn(y))
  <2>1. CASE Done(y)
    BY <1>1, <1>2, <2>1
  <2>2. CASE ~Done(y)
    <3> DEFINE n == Smaller(y.rem, GzipFooter - y.pos)
    <3>1. ZipTurn(y).rem = y.rem - n /\ ZipTurn(y).over = (y.pos + n = GzipFooter)
      BY <1>2, <2>2 DEF ZipTurn, ZipFooter, ZipInv, ZipRecord
    <3>2. y.rem \in Nat /\ y.pos \in Int /\ GzipFooter \in Int
      BY <1>2, ResponseAssumption DEF ZipInv, ZipRecord
    <3>3. CASE n = y.rem
      BY <3>1, <3>2, <3>3
    <3>4. CASE n # y.rem
      <4>1. n = GzipFooter - y.pos
        BY <3>4 DEF Smaller
      <4>2. y.pos + n = GzipFooter
        BY <3>2, <4>1
      <4> QED BY <3>1, <4>2
    <3> QED BY <3>3, <3>4
  <2> QED BY <2>1, <2>2
<1>3. ASSUME NEW y, ZipInv(y), y.state \in {"CS_BODY", "CS_BODYONLY"}
      PROVE  Done(ZipTurn(y)) \/ ZipTurn(y).state = "CS_FOOTER"
  <2>1. CASE Done(y)
    BY <1>1, <1>3, <2>1
  <2>2. CASE ~Done(y)
    <3> DEFINE n == Smaller(y.rem, resp.size - y.comp)
    <3>1. ZipTurn(y) = ZipBody(y)
      BY <1>3, <2>2 DEF ZipTurn
    <3>2. y.rem \in Nat /\ y.comp \in Int /\ resp.size \in Int
      BY <1>3 DEF ZipInv, ZipRecord, Zipping, Response
    <3>3. CASE n < y.rem
      BY <3>1, <3>3 DEF ZipBody, ZipInv, ZipRecord
    <3>4. CASE ~(n < y.rem)
      <4>1. n = y.rem
        BY <3>2, <3>4 DEF Smaller
      <4>2. ZipTurn(y).rem = y.rem - n
        BY <1>3, <3>1, <3>4 DEF ZipBody, ZipInv, ZipRecord
      <4> QED BY <3>2, <4>1, <4>2
    <3> QED BY <3>3, <3>4
  <2> QED BY <2>1, <2>2
<1>4. ASSUME NEW y, ZipInv(y), y.state = "CS_HEADER"
      PROVE  Done(ZipTurn(y)) \/ ZipTurn(y).state = "CS_BODY"
  <2>1. CASE Done(y)
    BY <1>1, <1>4, <2>1
  <2>2. CASE ~Done(y)
    BY <1>4, <2>2 DEF ZipTurn, ZipHeader, ZipInv, ZipRecord
  <2> QED BY <2>1, <2>2
<1> HIDE DEF Done
<1>5. ZipInv(ZipTurn(z)) /\ ZipInv(ZipTurn(ZipTurn(z)))
  BY TurnStep
<1>6. z.state \in {"CS_HEADER", "CS_BODY", "CS_BODYONLY", "CS_FOOTER"}
  BY DEF ZipInv, ZipRecord
<1>7. Done(ZipTurn(z)) \/ ZipTurn(z).state \in {"CS_BODY", "CS_FOOTER"}
  BY <1>2, <1>3, <1>4, <1>6
<1>8. Done(ZipTurn(ZipTurn(z))) \/ ZipTurn(ZipTurn(z)).state = "CS_FOOTER"
  BY <1>1, <1>2, <1>3, <1>5, <1>7
<1>9. Done(ZipTurn(ZipTurn(ZipTurn(z))))
  BY <1>1, <1>2, <1>5, <1>8
<1> QED BY <1>9 DEF Done

-----------------------------------------------------------------------------
(* IResponse::Read() of each source.                                       *)

\* What the invariant says when the next block is read.
LEMMA ReadingFacts ==
  ASSUME RespIInv, phase = "read"
  PROVE  /\ block = << >> /\ ~IsFinished /\ Delivered = Len(sent)
         /\ resp \in Response /\ resp.size \in Nat /\ resp.source \in Sources
         /\ sent \in Seq(Nat) /\ Len(sent) \in Nat
         /\ place \in 0 .. resp.size /\ onDisk \in 0 .. resp.size
         /\ CState \in {"CS_HEADER", "CS_BODY", "CS_BODYONLY", "CS_FOOTER"}
         /\ CStatePos \in 0 .. GzipFooter
<1>1. block = << >> /\ ~IsFinished
  BY DEF RespIInv, Phases
<1>2. sent \in Seq(Nat) /\ resp \in Responses \union {NoResponse}
  BY DEF RespIInv, RespTypeOK
<1>3. Len(sent) \in Nat /\ Len(block) = 0
  BY <1>1, <1>2
<1>4. NoResponse \in Response
  BY DEF NoResponse, Response, Sources
<1>5. resp \in Response
  BY <1>2, <1>4, ResponseAssumption
<1>6. resp.size \in Nat /\ resp.source \in Sources
  BY <1>5 DEF Response
<1> QED BY <1>1, <1>2, <1>3, <1>5, <1>6 DEF Delivered, RespIInv, RespTypeOK

\* What Read(max) leaves in the block and in the state of the source.
Fetched(max) ==
  /\ block' \in Seq(Nat) /\ Len(block') <= max
  /\ \A i \in 1 .. Len(block') :
       \/ block'[i] = Len(sent) + i
       \/ resp.source = "file" /\ block'[i] = Junk /\ Len(sent) + i > onDisk
  /\ place' \in 0 .. resp.size /\ CStatePos' \in 0 .. GzipFooter
  /\ CState' \in {"CS_HEADER", "CS_BODY", "CS_BODYONLY", "CS_FOOTER"}
  /\ IsFinished' \in BOOLEAN
  /\ resp.source = "generated" /\ IsFinished' => Len(block') = 0
  /\ resp.source \in {"message", "generated", "redirect"} /\ max > 0 /\ Len(block') = 0
       => place' = resp.size
  /\ AtPlace'

\* A string, an error message, a file, a generator or a redirect: the block begins
\* at place.
LEMMA PlainRead ==
  ASSUME RespIInv, phase = "read", NEW max \in Nat, Read(max),
         UNCHANGED <<resp, onDisk, sent>>,
         resp.source \in {"string", "message", "file", "generated", "redirect"}
  PROVE  Fetched(max)
<1>1. /\ resp.size \in Nat /\ Len(sent) = place /\ place \in 0 .. resp.size
      /\ onDisk \in 0 .. resp.size
      /\ CState \in {"CS_HEADER", "CS_BODY", "CS_BODYONLY", "CS_FOOTER"}
      /\ CStatePos \in 0 .. GzipFooter
  BY ReadingFacts DEF RespIInv, AtPlace
<1>2. PICK n \in Nat :
        /\ n <= max /\ n <= resp.size - place
        /\ place' = place + n /\ IsFinished' \in BOOLEAN
        /\ block' \in Seq(Nat) /\ Len(block') = n
        /\ \A i \in 1 .. n :
             \/ block'[i] = place + i
             \/ resp.source = "file" /\ block'[i] = Junk /\ place + i > onDisk
        /\ resp.source = "generated" /\ IsFinished' => n = 0
        /\ resp.source \in {"message", "generated"} /\ IsFinished' => place + n = resp.size
        /\ resp.source \in {"message", "generated", "redirect"} /\ max > 0 /\ n = 0
             => place = resp.size
        /\ UNCHANGED <<CState, CStatePos>>
  <2> DEFINE n == Smaller(max, resp.size - place)
  <2>1. n \in Nat /\ n <= max /\ n <= resp.size - place
    BY <1>1 DEF Smaller
  <2> HIDE DEF n
  <2>2. CASE resp.source \in {"string", "message"}
    <3>1. ReadString(max)
      BY <2>2 DEF Read
    <3>2. /\ block' = Upto(place, n) /\ place' = place + n
          /\ IsFinished' = (place + n >= resp.size) /\ UNCHANGED <<CState, CStatePos>>
      BY <3>1 DEF ReadString, n
    <3>3. block' \in Seq(Nat) /\ Len(block') = n /\ \A i \in 1 .. n : block'[i] = place + i
      BY <1>1, <2>1, <3>2 DEF Upto
    <3>4. IsFinished' => place + n = resp.size
      <4>1. IsFinished' => place + n >= resp.size
        BY <3>2
      <4> QED BY <1>1, <2>1, <4>1
    <3>5. max > 0 /\ n = 0 => place = resp.size
      BY <1>1 DEF n, Smaller
    <3> QED BY <2>1, <2>2, <3>2, <3>3, <3>4, <3>5
  <2>3. CASE resp.source = "file"
    <3>1. ReadFile(max)
      BY <2>3 DEF Read
    <3>2. /\ block' = [i \in 1 .. n |-> IF place + i <= onDisk THEN place + i ELSE Junk]
          /\ place' = place + n /\ IsFinished' \in BOOLEAN /\ UNCHANGED <<CState, CStatePos>>
      BY <3>1 DEF ReadFile, n
    <3>3. /\ block' \in Seq(Nat) /\ Len(block') = n
          /\ \A i \in 1 .. n : block'[i] = IF place + i <= onDisk THEN place + i ELSE Junk
      BY <1>1, <2>1, <3>2 DEF Junk
    <3>4. \A i \in 1 .. n : block'[i] = place + i \/ (block'[i] = Junk /\ place + i > onDisk)
      BY <1>1, <3>3
    <3> QED BY <2>1, <2>3, <3>2, <3>3, <3>4
  <2>4. CASE resp.source = "generated"
    <3>1. ReadGenerated(max)
      BY <2>4 DEF Read
    <3>2. PICK m \in 1 .. n \union {i \in {0} : place = resp.size} :
            /\ block' = Upto(place, m) /\ place' = place + m
            /\ IsFinished' = (m = 0) /\ UNCHANGED <<CState, CStatePos>>
      BY <3>1 DEF ReadGenerated, n
    <3>3. m \in Nat /\ m <= n /\ (m = 0 => place = resp.size)
      BY <2>1, <3>2
    <3>4. block' \in Seq(Nat) /\ Len(block') = m /\ \A i \in 1 .. m : block'[i] = place + i
      BY <1>1, <3>2, <3>3 DEF Upto
    <3>5. m <= max /\ m <= resp.size - place
      BY <1>1, <2>1, <3>3
    <3>6. IsFinished' => m = 0 /\ place + m = resp.size
      <4>1. IsFinished' => m = 0
        BY <3>2
      <4> QED BY <1>1, <3>3, <4>1
    <3> QED BY <2>4, <3>2, <3>3, <3>4, <3>5, <3>6
  <2>5. CASE resp.source = "redirect"
    <3>1. block' = << >> /\ IsFinished' = FALSE /\ UNCHANGED <<place, CState, CStatePos>>
      BY <2>5 DEF Read, ReadRedirect, sourceVars
    <3>2. block' \in Seq(Nat) /\ Len(block') = 0
      BY <3>1
    <3>3. place = resp.size
      <4>1. resp \in Responses
        BY <2>5 DEF RespIInv, RespTypeOK, NoResponse
      <4>2. resp.size = 0
        BY <2>5, <4>1, ResponseAssumption
      <4> QED BY <1>1, <4>2
    <3>4. 0 <= max /\ 0 <= resp.size - place /\ place = place + 0
      BY <1>1
    <3>5. IsFinished' \in BOOLEAN /\ ~IsFinished'
      BY <3>1, Zenon
    <3>6. place' = place + 0 /\ resp.source # "generated"
      BY <1>1, <2>5, <3>1
    <3> WITNESS 0 \in Nat
    <3> QED BY <3>1, <3>2, <3>3, <3>4, <3>5, <3>6
  <2> QED BY <2>2, <2>3, <2>4, <2>5
<1>3. place' \in 0 .. resp.size /\ Len(sent) + Len(block') = place'
  BY <1>1, <1>2
<1>4. AtPlace'
  BY <1>2, <1>3 DEF AtPlace, Delivered
<1>5. \A i \in 1 .. Len(block') :
        \/ block'[i] = Len(sent) + i
        \/ resp.source = "file" /\ block'[i] = Junk /\ Len(sent) + i > onDisk
  BY <1>1, <1>2
<1>6. resp.source \in {"message", "generated", "redirect"} /\ max > 0 /\ Len(block') = 0
        => place' = resp.size
  BY <1>1, <1>2
<1> QED BY <1>1, <1>2, <1>3, <1>4, <1>5, <1>6 DEF Fetched

\* An archive entry: the loop of Zip::Response::Read() turns from the state it
\* was left in.
LEMMA ZipRead ==
  ASSUME RespIInv, phase = "read", Read(WriteBuffSize),
         UNCHANGED <<resp, onDisk, sent>>, resp.source \in {"deflated", "stored"}
  PROVE  Fetched(WriteBuffSize)
<1> DEFINE start == [state |-> CState, pos |-> CStatePos, comp |-> place,
                     rem |-> WriteBuffSize, out |-> << >>, over |-> FALSE]
           z == ZipTurn(ZipTurn(ZipTurn(start)))
<1>1. /\ resp \in Response /\ resp.size \in Nat /\ sent \in Seq(Nat) /\ Len(sent) \in Nat
      /\ ~IsFinished /\ Delivered = Len(sent) /\ place \in 0 .. resp.size
      /\ CState \in {"CS_HEADER", "CS_BODY", "CS_BODYONLY", "CS_FOOTER"}
      /\ CStatePos \in 0 .. GzipFooter /\ WriteBuffSize \in Nat
  BY ReadingFacts, ResponseAssumption
<1>2. Zipping
  BY <1>1 DEF Zipping
<1>3. ZipInv(start)
  <2>1. << >> \in Seq(Nat) /\ Len(<< >>) = 0
    OBVIOUS
  <2>2. start \in ZipRecord
    BY <1>1, <2>1 DEF ZipRecord
  <2>3. /\ start.state = CState /\ start.pos = CStatePos /\ start.comp = place
        /\ start.rem = WriteBuffSize /\ start.out = << >> /\ start.over = FALSE
    OBVIOUS
  <2> HIDE DEF start
  <2>4. Len(start.out) + start.rem = WriteBuffSize /\ Numbered(start.out, Len(sent))
    BY <1>1, <2>1, <2>3 DEF Numbered
  <2>5. Len(sent) + Len(start.out) = Delivered
    BY <1>1, <2>1, <2>3
  <2>6. resp.source = "deflated" =>
          Deflated(Len(sent) + Len(start.out), start.comp, start.state, start.pos, start.over)
    BY <1>1, <2>3, <2>5 DEF RespIInv, AtPlace, Deflated
  <2>7. resp.source = "stored" =>
          Stored(Len(sent) + Len(start.out), start.comp, start.state, start.over)
    BY <1>1, <2>3, <2>5 DEF RespIInv, AtPlace, Stored
  <2> QED BY <2>2, <2>4, <2>6, <2>7 DEF ZipInv
<1>4. ZipInv(z)
  BY <1>2, <1>3, TurnStep
<1>5. /\ block' = z.out /\ place' = z.comp /\ CState' = z.state /\ CStatePos' = z.pos
      /\ IsFinished' = z.over
  BY DEF Read, ReadZip
<1> HIDE DEF z
<1>6. /\ z \in ZipRecord /\ Len(z.out) + z.rem = WriteBuffSize /\ Numbered(z.out, Len(sent))
      /\ resp.source = "deflated" =>
           Deflated(Len(sent) + Len(z.out), z.comp, z.state, z.pos, z.over)
      /\ resp.source = "stored" => Stored(Len(sent) + Len(z.out), z.comp, z.state, z.over)
  BY <1>4 DEF ZipInv
<1>7. /\ z.state \in {"CS_HEADER", "CS_BODY", "CS_BODYONLY", "CS_FOOTER"}
      /\ z.pos \in 0 .. GzipFooter /\ z.comp \in 0 .. resp.size /\ z.rem \in Nat
      /\ z.out \in Seq(Nat) /\ z.over \in BOOLEAN
  BY <1>6 DEF ZipRecord
<1>8. Len(block') <= WriteBuffSize
  <2>1. Len(z.out) \in Nat
    BY <1>7
  <2> QED BY <1>1, <1>5, <1>6, <1>7, <2>1
<1>9. AtPlace'
  <2>1. Delivered' = Len(sent) + Len(z.out)
    BY <1>5 DEF Delivered
  <2> QED BY <1>5, <1>6, <2>1 DEF AtPlace, Deflated, Stored
<1>10. \A i \in 1 .. Len(block') : block'[i] = Len(sent) + i
  BY <1>5, <1>6 DEF Numbered
<1> QED BY <1>5, <1>7, <1>8, <1>9, <1>10 DEF Fetched

\* Whatever the source is.
LEMMA AnyRead ==
  ASSUME RespIInv, phase = "read", NEW max \in Nat, Read(max),
         UNCHANGED <<resp, onDisk, sent>>,
         resp.source \in {"deflated", "stored"} => max = WriteBuffSize
  PROVE  Fetched(max)
<1>1. resp.source \in Sources
  BY ReadingFacts
<1>2. CASE resp.source \in {"deflated", "stored"}
  BY <1>2, ZipRead
<1>3. CASE resp.source \in {"string", "message", "file", "generated", "redirect"}
  BY <1>3, PlainRead
<1> QED BY <1>1, <1>2, <1>3 DEF Sources

\* A block that was read continues the body.
LEMMA BodyGoesOn ==
  ASSUME RespIInv, phase = "read", NEW max \in Nat, Fetched(max),
         UNCHANGED <<resp, onDisk, sent>>, phase' # "end"
  PROVE  BodyInOrder'
<1> DEFINE Cell(i, x) == x = i \/ (resp.source = "file" /\ x = Junk /\ i > onDisk)
<1>1. sent \in Seq(Nat) /\ block = << >> /\ Len(sent) \in Nat
  BY ReadingFacts
<1>2. sent \o block = sent
  BY <1>1, Zenon, ConcatEmptySeq
<1>3. \A i \in 1 .. Len(sent) : Cell(i, sent[i])
  BY <1>2 DEF RespIInv, BodyInOrder
<1>4. block' \in Seq(Nat) /\ \A i \in 1 .. Len(block') : Cell(Len(sent) + i, block'[i])
  BY DEF Fetched
<1> HIDE DEF Cell
<1>5. /\ Len(sent \o block') = Len(sent) + Len(block')
      /\ \A i \in 1 .. Len(sent) + Len(block') :
           (sent \o block')[i] = IF i <= Len(sent) THEN sent[i] ELSE block'[i - Len(sent)]
  BY <1>1, <1>4, ConcatProperties, Zenon
<1>6. ASSUME NEW i \in 1 .. Len(sent) + Len(block') PROVE Cell(i, (sent \o block')[i])
  <2>1. Len(block') \in Nat
    BY <1>4
  <2>2. CASE i <= Len(sent)
    BY <1>1, <1>3, <1>5, <2>1, <2>2
  <2>3. CASE ~(i <= Len(sent))
    <3>1. i - Len(sent) \in 1 .. Len(block') /\ Len(sent) + (i - Len(sent)) = i
      BY <1>1, <2>1, <2>3
    <3>2. (sent \o block')[i] = block'[i - Len(sent)]
      BY <1>5, <2>3
    <3> QED BY <1>4, <3>1, <3>2
  <2> QED BY <2>2, <2>3
<1>7. \A i \in 1 .. Len(sent \o block') : Cell(i, (sent \o block')[i])
  BY <1>5, <1>6
<1> QED BY <1>7 DEF BodyInOrder, Cell

-----------------------------------------------------------------------------
(* The steps of ResponseHandler().                                         *)

\* GetLength() of each source.
LEMMA AnnouncedFacts ==
  ASSUME NEW r \in Response
  PROVE  /\ r.size \in Nat /\ r.source \in Sources
         /\ Announced(r) \in Nat \union {Unknown}
         /\ Announced(r) = Unknown => r.source \in {"message", "generated", "redirect"}
         /\ r.source \in {"message", "redirect"} => Announced(r) = Unknown
         /\ r.source = "deflated" => Announced(r) = GzipHeader + r.size + GzipFooter
         /\ r.source \in {"string", "file", "stored"} => Announced(r) = r.size
<1>1. r.size \in Nat /\ r.source \in Sources /\ r.length \in Nat \union {Unknown}
  BY DEF Response
<1>2. GzipHeader \in Nat /\ GzipFooter \in Nat
  BY ResponseAssumption
<1>3. CASE r.source = "deflated"
  <2>1. Announced(r) = GzipHeader + r.size + GzipFooter
    BY <1>3 DEF Announced
  <2>2. Announced(r) \in Nat
    BY <1>1, <1>2, <2>1
  <2> QED BY <1>1, <1>3, <2>1, <2>2 DEF Unknown
<1>4. CASE r.source = "generated"
  BY <1>1, <1>4 DEF Announced
<1>5. CASE r.source \in {"message", "redirect"}
  BY <1>1, <1>5 DEF Announced
<1>6. CASE r.source \in {"string", "file", "stored"}
  <2>1. Announced(r) = r.size
    BY <1>6 DEF Announced
  <2> QED BY <1>1, <1>6, <2>1 DEF Unknown
<1> QED BY <1>1, <1>3, <1>4, <1>5, <1>6 DEF Sources

\* The types of what a response is.
LEMMA Typed ==
  ASSUME RespIInv
  PROVE  /\ resp \in Response /\ sent \in Seq(Nat) /\ block \in Seq(Nat)
         /\ Len(sent) \in Nat /\ Len(block) \in Nat /\ Delivered \in Nat
         /\ Delivered = Len(sent) + Len(block)
         /\ RespLength \in Nat \union {Unknown}
         /\ Announced(resp) \in Nat \union {Unknown}
<1>1. /\ sent \in Seq(Nat) /\ block \in Seq(Nat) /\ resp \in Responses \union {NoResponse}
      /\ RespLength \in Nat \union {Unknown}
  BY DEF RespIInv, RespTypeOK
<1>2. NoResponse \in Response
  BY DEF NoResponse, Response, Sources
<1>3. resp \in Response
  BY <1>1, <1>2, ResponseAssumption
<1>4. Len(sent) \in Nat /\ Len(block) \in Nat
  BY <1>1
<1> QED BY <1>1, <1>3, <1>4, AnnouncedFacts DEF Delivered

\* The headers are out: the body follows, unless it is empty.
LEMMA HeadersStep ==
  ASSUME RespIInv, HeadersWritten
  PROVE  RespIInv'
<1>1. /\ phase = "headers" /\ phase' = IF RespLength = 0 THEN "end" ELSE "read"
      /\ UNCHANGED <<resp, RespLength, place, CState, CStatePos, onDisk, IsFinished, block,
                     sent, RetVal>>
  BY DEF HeadersWritten, sourceVars
<1>2. Phases'
  BY <1>1 DEF RespIInv, Phases, Unknown
<1>3. RespTypeOK' /\ LengthLeft' /\ AtPlace'
  BY <1>1 DEF RespIInv, RespTypeOK, LengthLeft, AtPlace, Delivered, Deflated, Stored,
              Announced
<1>4. BodyInOrder'
  <2>1. phase' = "end" => Announced(resp) # Unknown
    BY <1>1 DEF RespIInv, LengthLeft, Unknown
  <2>2. Announced(resp') = Announced(resp)
    BY <1>1
  <2> QED BY <1>1, <2>1, <2>2 DEF RespIInv, BodyInOrder
<1>5. LengthTold'
  <2>1. ~RetVal
    BY <1>1 DEF RespIInv, Phases
  <2> QED BY <1>1, <2>1 DEF LengthTold
<1> QED BY <1>2, <1>3, <1>4, <1>5 DEF RespIInv

\* A block is read of a response with a length: RespLength goes down by it.
LEMMA ReadFixedStep ==
  ASSUME RespIInv, ReadFixed
  PROVE  RespIInv'
<1>1. /\ phase = "read" /\ RespLength # Unknown /\ Read(WriteBuffSize) /\ phase' = "block"
      /\ RespLength' = RespLength - Smaller(Len(block'), RespLength)
      /\ UNCHANGED <<resp, onDisk, sent, RetVal>>
  BY DEF ReadFixed
<1>2. WriteBuffSize \in Nat
  BY ResponseAssumption
<1>3. Fetched(WriteBuffSize)
  BY <1>1, <1>2, AnyRead
<1>4. BodyInOrder'
  BY <1>1, <1>2, <1>3, BodyGoesOn
<1>5. /\ RespLength \in Nat /\ RespLength # 0 /\ ~RetVal /\ Delivered = Len(sent)
      /\ Announced(resp) \in Nat /\ Announced(resp) # Unknown /\ Len(sent) \in Nat
      /\ RespLength = IF Len(sent) <= Announced(resp)
                        THEN Announced(resp) - Len(sent) ELSE 0
  <2>1. RespLength # 0 /\ ~RetVal
    BY <1>1 DEF RespIInv, Phases
  <2>2. Announced(resp) # Unknown
    BY <1>1 DEF RespIInv, LengthLeft
  <2> QED BY <1>1, <2>1, <2>2, ReadingFacts, Typed DEF RespIInv, LengthLeft
<1>6. Len(block') \in Nat /\ Len(block') <= WriteBuffSize
  BY <1>3 DEF Fetched
<1>7. /\ RespLength' \in Nat
      /\ RespLength' = IF Len(sent) + Len(block') <= Announced(resp)
                         THEN Announced(resp) - (Len(sent) + Len(block')) ELSE 0
      /\ Len(block') = 0 => RespLength' # 0
  BY <1>1, <1>5, <1>6 DEF Smaller
<1>8. LengthLeft'
  <2>1. Announced(resp') = Announced(resp) /\ Delivered' = Len(sent) + Len(block')
    BY <1>1 DEF Delivered
  <2>2. RespLength' # Unknown
    BY <1>7 DEF Unknown
  <2> QED BY <1>5, <1>7, <2>1, <2>2 DEF LengthLeft
<1>9. Phases'
  <2>1. RespLength' # Unknown
    BY <1>7 DEF Unknown
  <2>2. resp.source = "generated" /\ IsFinished' => RespLength' # 0
    BY <1>3, <1>7 DEF Fetched
  <2> QED BY <1>1, <1>5, <2>1, <2>2 DEF Phases
<1>10. RespTypeOK'
  BY <1>1, <1>3, <1>6, <1>7 DEF RespIInv, RespTypeOK, Fetched
<1>11. AtPlace' /\ LengthTold'
  BY <1>1, <1>3 DEF Fetched, LengthTold
<1> QED BY <1>4, <1>8, <1>9, <1>10, <1>11 DEF RespIInv

\* A block of a response of unknown length becomes a chunk.
LEMMA ReadChunkStep ==
  ASSUME RespIInv, ReadChunk
  PROVE  RespIInv'
<1>1. /\ phase = "read" /\ RespLength = Unknown /\ Read(ChunkRoom)
      /\ phase' = IF IsFinished' \/ block' = << >> THEN "final" ELSE "block"
      /\ UNCHANGED <<resp, RespLength, onDisk, sent, RetVal>>
  BY DEF ReadChunk, LastChunk
<1>2. ChunkRoom \in Nat /\ ChunkRoom > 0 /\ ChunkRoom <= WriteBuffSize /\ WriteBuffSize \in Nat
  BY ResponseAssumption DEF ChunkRoom
<1>3. /\ Announced(resp) = Unknown
      /\ resp.source \in {"message", "generated", "redirect"}
  BY <1>1, ReadingFacts, AnnouncedFacts DEF RespIInv, LengthLeft
<1>4. Fetched(ChunkRoom)
  BY <1>1, <1>2, <1>3, AnyRead
<1>5. BodyInOrder'
  BY <1>1, <1>2, <1>4, BodyGoesOn
<1>6. LengthLeft'
  BY <1>1, <1>3 DEF LengthLeft
<1>7. Phases'
  <2>1. ~RetVal
    BY <1>1 DEF RespIInv, Phases
  <2>2. RespLength' # 0
    BY <1>1 DEF Unknown
  <2>3. phase' = "final" => place' = resp.size
    <3>1. CASE resp.source \in {"message", "generated"} /\ IsFinished'
      BY <1>1, <1>4, <3>1 DEF Fetched, AtPlace
    <3>2. CASE block' = << >>
      <4>1. Len(block') = 0
        BY <3>2
      <4> QED BY <1>2, <1>3, <1>4, <4>1 DEF Fetched
    <3>3. resp.source = "redirect" => block' = << >>
      BY <1>1 DEF Read, ReadRedirect
    <3> QED BY <1>1, <1>3, <3>1, <3>2, <3>3
  <2> QED BY <1>1, <2>1, <2>2, <2>3 DEF Phases
<1>8. RespTypeOK'
  <2>1. Len(block') <= WriteBuffSize
    BY <1>2, <1>4 DEF Fetched
  <2>2. phase' \in {"final", "block"}
    BY <1>1
  <2> QED BY <1>1, <1>4, <2>1, <2>2 DEF RespIInv, RespTypeOK, Fetched
<1>9. AtPlace' /\ LengthTold'
  BY <1>1, <1>4 DEF Fetched, LengthTold
<1> QED BY <1>5, <1>6, <1>7, <1>8, <1>9 DEF RespIInv

\* A block that is written moves from block to sent.
LEMMA WrittenStep ==
  ASSUME RespIInv, sent' = sent \o block, block' = << >>,
         UNCHANGED <<resp, RespLength, sourceVars, onDisk, IsFinished>>
  PROVE  /\ sent' \in Seq(Nat) /\ sent' \o block' = sent \o block
         /\ Len(sent') = Delivered /\ Delivered' = Delivered
         /\ LengthLeft' /\ AtPlace'
<1>1. /\ resp \in Response /\ sent \in Seq(Nat) /\ block \in Seq(Nat)
      /\ Len(sent) \in Nat /\ Len(block) \in Nat /\ Delivered = Len(sent) + Len(block)
  BY Typed
<1>2. sent \o block \in Seq(Nat) /\ Len(sent \o block) = Len(sent) + Len(block)
  BY <1>1, ConcatProperties, Zenon
<1>3. (sent \o block) \o << >> = sent \o block
  BY <1>2, ConcatEmptySeq, Zenon
<1>4. Delivered' = Delivered /\ Len(sent') = Delivered
  <2>1. Len(<< >>) = 0
    OBVIOUS
  <2>2. Delivered' = Len(sent \o block) + 0
    BY <2>1 DEF Delivered
  <2> QED BY <1>1, <1>2, <2>2
<1>5. LengthLeft'
  <2>1. Announced(resp') = Announced(resp)
    OBVIOUS
  <2> QED BY <1>4, <2>1 DEF RespIInv, LengthLeft
<1>6. AtPlace'
  BY <1>4 DEF RespIInv, AtPlace, Deflated, Stored, sourceVars
<1> QED BY <1>2, <1>3, <1>4, <1>5, <1>6

\* With a length: the response is over when Read() says so, or at its length.
LEMMA FixedWrittenStep ==
  ASSUME RespIInv, FixedWritten
  PROVE  RespIInv'
<1>1. /\ phase = "block" /\ RespLength # Unknown
      /\ sent' = sent \o block /\ block' = << >> /\ RetVal' = (IsFinished /\ RespLength = 0)
      /\ phase' = IF IsFinished \/ RespLength = 0 THEN "end" ELSE "read"
      /\ UNCHANGED <<resp, RespLength, sourceVars, onDisk, IsFinished>>
  BY DEF FixedWritten, Complete
<1>2. /\ sent' \in Seq(Nat) /\ sent' \o block' = sent \o block /\ Len(sent') = Delivered
      /\ LengthLeft' /\ AtPlace'
  BY <1>1, WrittenStep
<1>3. resp \in Response /\ Delivered \in Nat /\ Announced(resp) \in Nat
      /\ Announced(resp) # Unknown
  BY <1>1, Typed DEF RespIInv, LengthLeft
<1>4. BodyInOrder'
  BY <1>1, <1>2, <1>3 DEF RespIInv, BodyInOrder
<1>5. Phases'
  BY <1>1 DEF RespIInv, Phases
<1>6. RespTypeOK'
  <2>1. Len(block') <= WriteBuffSize /\ block' \in Seq(Nat)
    BY <1>1, ResponseAssumption
  <2>2. phase' \in {"end", "read"} /\ RetVal' \in BOOLEAN
    BY <1>1
  <2> QED BY <1>1, <1>2, <2>1, <2>2 DEF RespIInv, RespTypeOK, sourceVars
<1>7. LengthTold'
  <2> SUFFICES ASSUME IsFinished, RespLength = 0 PROVE Announced(resp) = Delivered
    BY <1>1, <1>2 DEF LengthTold
  <2>1. ~(Delivered < Announced(resp))
    BY <1>1, <1>3 DEF RespIInv, LengthLeft
  <2>2. resp.source # "generated"
    BY <1>1 DEF RespIInv, Phases
  <2>3. place <= resp.size /\ place \in Nat /\ resp.size \in Nat
    BY <1>3, AnnouncedFacts DEF RespIInv, RespTypeOK
  <2>4. Delivered <= Announced(resp)
    <3>1. CASE resp.source \in {"string", "file"}
      BY <1>3, <2>3, <3>1, AnnouncedFacts DEF RespIInv, AtPlace
    <3>2. CASE resp.source = "stored"
      BY <1>3, <2>3, <3>2, AnnouncedFacts DEF RespIInv, AtPlace, Stored
    <3>3. CASE resp.source = "deflated"
      <4>1. Delivered = GzipHeader + resp.size + GzipFooter
        BY <3>3 DEF RespIInv, AtPlace, Deflated
      <4> QED BY <1>3, <3>3, <4>1, AnnouncedFacts
    <3> QED BY <1>3, <2>2, <3>1, <3>2, <3>3, AnnouncedFacts DEF Sources
  <2> QED BY <1>3, <2>1, <2>4
<1> QED BY <1>2, <1>4, <1>5, <1>6, <1>7 DEF RespIInv

\* A chunk is out, and it was not the last one.
LEMMA ChunkWrittenStep ==
  ASSUME RespIInv, ChunkWritten
  PROVE  RespIInv'
<1>1. /\ phase = "block" /\ RespLength = Unknown
      /\ sent' = sent \o block /\ block' = << >> /\ phase' = "read"
      /\ UNCHANGED <<resp, RespLength, sourceVars, onDisk, IsFinished, RetVal>>
  BY DEF ChunkWritten
<1>2. /\ sent' \in Seq(Nat) /\ sent' \o block' = sent \o block /\ LengthLeft' /\ AtPlace'
  BY <1>1, WrittenStep
<1>3. BodyInOrder' /\ LengthTold'
  BY <1>1, <1>2 DEF RespIInv, BodyInOrder, LengthTold
<1>4. Phases'
  <2>1. RespLength' # 0
    BY <1>1 DEF Unknown
  <2> QED BY <1>1, <2>1 DEF RespIInv, Phases
<1>5. RespTypeOK'
  <2>1. Len(block') <= WriteBuffSize /\ block' \in Seq(Nat)
    BY <1>1, ResponseAssumption
  <2> QED BY <1>1, <1>2, <2>1 DEF RespIInv, RespTypeOK, sourceVars
<1> QED BY <1>2, <1>3, <1>4, <1>5 DEF RespIInv

\* The last chunk is out: all of the source was sent.
LEMMA FinalStep ==
  ASSUME RespIInv, FinalWritten
  PROVE  RespIInv'
<1>1. /\ phase = "final" /\ phase' = "end" /\ RetVal' = TRUE
      /\ sent' = sent \o block /\ block' = << >>
      /\ UNCHANGED <<resp, RespLength, sourceVars, onDisk, IsFinished>>
  BY DEF FinalWritten
<1>2. RespLength = Unknown /\ place = resp.size
  BY <1>1 DEF RespIInv, Phases
<1>3. /\ sent' \in Seq(Nat) /\ sent' \o block' = sent \o block /\ Len(sent') = Delivered
      /\ Delivered' = Delivered /\ LengthLeft' /\ AtPlace'
  BY <1>1, WrittenStep
<1>4. /\ resp \in Response /\ Announced(resp) = Unknown
      /\ resp.source \in {"message", "generated", "redirect"}
      /\ Delivered = place /\ place = resp.size
  BY <1>2, Typed, AnnouncedFacts DEF RespIInv, LengthLeft, AtPlace
<1>5. BodyInOrder'
  <2>1. Len(sent' \o block') = BodySize(resp')
    <3>1. sent' \o << >> = sent'
      BY <1>3, ConcatEmptySeq, Zenon
    <3>2. Len(sent' \o block') = resp.size
      BY <1>1, <1>3, <1>4, <3>1
    <3> QED BY <1>1, <1>4, <3>2 DEF BodySize
  <2> QED BY <1>1, <1>3, <2>1 DEF RespIInv, BodyInOrder
<1>6. LengthTold'
  BY <1>1, <1>4 DEF LengthTold
<1>7. Phases'
  BY <1>1, <1>2 DEF Phases
<1>8. RespTypeOK'
  <2>1. Len(block') <= WriteBuffSize /\ block' \in Seq(Nat)
    BY <1>1, ResponseAssumption
  <2> QED BY <1>1, <1>3, <2>1 DEF RespIInv, RespTypeOK, sourceVars
<1> QED BY <1>3, <1>5, <1>6, <1>7, <1>8 DEF RespIInv

\* Nothing is sent yet, or not any more.
LEMMA EmptyBody ==
  ASSUME RespTypeOK', phase' # "end", sent' = << >>, block' = << >>
  PROVE  BodyInOrder' /\ LengthTold' /\ Delivered' = 0
<1>1. Len(<< >>) = 0 /\ << >> \in Seq(Nat)
  OBVIOUS
<1>2. << >> \o << >> = << >>
  BY <1>1, ConcatEmptySeq, Zenon
<1>3. BodyInOrder' /\ Delivered' = 0
  BY <1>1, <1>2 DEF BodyInOrder, Delivered
<1> QED BY <1>3 DEF LengthTold

\* Create() has returned a response.
LEMMA BeginStep ==
  ASSUME NEW r \in Responses, BeginResponse(r)
  PROVE  RespIInv'
<1>1. r \in Response
  BY ResponseAssumption
<1>2. /\ phase' = "headers" /\ resp' = r /\ RespLength' = Announced(r)
      /\ place' = 0 /\ CStatePos' = 0 /\ onDisk' = r.size
      /\ CState' = IF r.source = "stored" THEN "CS_BODYONLY" ELSE "CS_HEADER"
      /\ IsFinished' = FALSE /\ block' = << >> /\ sent' = << >> /\ RetVal' = FALSE
  BY DEF BeginResponse
<1>3. RespTypeOK'
  <2>1. 0 \in 0 .. r.size /\ r.size \in 0 .. r.size /\ 0 \in 0 .. GzipFooter
    BY <1>1, AnnouncedFacts, ResponseAssumption
  <2>2. << >> \in Seq(Nat) /\ Len(<< >>) <= WriteBuffSize
    BY ResponseAssumption
  <2>3. Announced(r) \in Nat \union {Unknown}
    BY <1>1, AnnouncedFacts
  <2> QED BY <1>2, <2>1, <2>2, <2>3 DEF RespTypeOK
<1>4. BodyInOrder' /\ LengthTold' /\ Delivered' = 0
  BY <1>2, <1>3, EmptyBody
<1>5. Phases'
  BY <1>2 DEF Phases
<1>6. LengthLeft'
  <2>1. Announced(r) \in Nat \union {Unknown}
    BY <1>1, AnnouncedFacts
  <2> QED BY <1>2, <1>4, <2>1 DEF LengthLeft, Unknown
<1>7. AtPlace'
  BY <1>2, <1>4 DEF AtPlace, Deflated, Stored
<1> QED BY <1>3, <1>4, <1>5, <1>6, <1>7 DEF RespIInv

\* There is no response: before the first, after each, after an exception.
LEMMA NoResponseStep ==
  /\ RespInit => RespIInv
  /\ EndResponse => RespIInv'
<1>1. /\ Announced(NoResponse) = 0 /\ NoResponse.source = "string" /\ NoResponse.size = 0
      /\ 0 \in 0 .. NoResponse.size /\ 0 \in 0 .. GzipFooter
      /\ << >> \in Seq(Nat) /\ Len(<< >>) <= WriteBuffSize /\ Len(<< >>) = 0
  BY ResponseAssumption DEF NoResponse, Announced
<1>2. << >> \o << >> = << >>
  BY <1>1, ConcatEmptySeq, Zenon
<1>3. ASSUME EndResponse PROVE RespIInv'
  <2>1. /\ phase' = "idle" /\ resp' = NoResponse /\ RespLength' = 0
        /\ place' = 0 /\ CState' = "CS_HEADER" /\ CStatePos' = 0 /\ onDisk' = 0
        /\ IsFinished' = FALSE /\ block' = << >> /\ sent' = << >> /\ RetVal' = FALSE
    BY <1>3 DEF EndResponse
  <2>2. RespTypeOK'
    BY <1>1, <2>1 DEF RespTypeOK
  <2>3. BodyInOrder' /\ LengthTold' /\ Delivered' = 0
    BY <2>1, <2>2, EmptyBody
  <2>4. Phases' /\ LengthLeft' /\ AtPlace'
    BY <1>1, <2>1, <2>3 DEF Phases, LengthLeft, AtPlace, Unknown
  <2> QED BY <2>2, <2>3, <2>4 DEF RespIInv
<1>4. ASSUME RespInit PROVE RespIInv
  <2>1. /\ phase = "idle" /\ resp = NoResponse /\ RespLength = 0
        /\ place = 0 /\ CState = "CS_HEADER" /\ CStatePos = 0 /\ onDisk = 0
        /\ IsFinished = FALSE /\ block = << >> /\ sent = << >> /\ RetVal = FALSE
    BY <1>4 DEF RespInit
  <2>2. RespTypeOK
    BY <1>1, <2>1 DEF RespTypeOK
  <2>3. BodyInOrder /\ LengthTold /\ Delivered = 0
    BY <1>1, <1>2, <2>1 DEF BodyInOrder, LengthTold, Delivered
  <2>4. Phases /\ LengthLeft /\ AtPlace
    BY <1>1, <2>1, <2>3 DEF Phases, LengthLeft, AtPlace, Unknown
  <2> QED BY <2>2, <2>3, <2>4 DEF RespIInv
<1> QED BY <1>3, <1>4

\* Someone makes the file shorter.
LEMMA TruncatedStep ==
  ASSUME RespIInv, FileTruncated
  PROVE  RespIInv'
<1>1. PICK n \in 0 .. onDisk - 1 : onDisk' = n
  BY DEF FileTruncated
<1>2. /\ UNCHANGED <<phase, resp, RespLength, place, CState, CStatePos, IsFinished, block,
                     sent, RetVal>>
      /\ phase \in {"headers", "read", "block"} /\ resp.source = "file"
  BY DEF FileTruncated, sourceVars
<1>3. onDisk \in 0 .. resp.size /\ resp.size \in Nat
  BY Typed, AnnouncedFacts DEF RespIInv, RespTypeOK
<1>4. onDisk' \in 0 .. resp.size /\ onDisk' < onDisk
  BY <1>1, <1>3
<1>5. RespTypeOK'
  BY <1>2, <1>4 DEF RespIInv, RespTypeOK
<1>6. BodyInOrder'
  <2>1. \A i \in 1 .. Len(sent \o block) : i > onDisk => i > onDisk'
    BY <1>3, <1>4
  <2> QED BY <1>2, <2>1 DEF RespIInv, BodyInOrder
<1>7. Phases' /\ LengthLeft' /\ AtPlace' /\ LengthTold'
  BY <1>2 DEF RespIInv, Phases, LengthLeft, AtPlace, LengthTold, Delivered, Deflated, Stored
<1> QED BY <1>5, <1>6, <1>7 DEF RespIInv

\* Each step of the sending, in one.
LEMMA SendStepKeeps ==
  ASSUME RespIInv, SendStep
  PROVE  RespIInv'
BY HeadersStep, ReadFixedStep, FixedWrittenStep, ReadChunkStep, ChunkWrittenStep, FinalStep
   DEF SendStep

\* Nothing of a response changes by itself.
LEMMA RespStays ==
  ASSUME RespIInv, UNCHANGED respVars
  PROVE  RespIInv'
<1>1. UNCHANGED <<phase, resp, RespLength, place, CState, CStatePos, onDisk, IsFinished,
                  block, sent, RetVal>>
  BY DEF respVars, sourceVars
<1> QED BY <1>1 DEF RespIInv, RespTypeOK, BodyInOrder, Phases, LengthLeft, AtPlace,
                    LengthTold, Delivered, Deflated, Stored, Announced, BodySize

\* KeptInStep is what LengthTold says of a connection that goes on.
LEMMA InStep == RespIInv => KeptInStep
BY DEF RespIInv, LengthTold, KeptInStep, Continues
=============================================================================
