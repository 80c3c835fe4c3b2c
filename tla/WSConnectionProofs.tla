------------------------- MODULE WSConnectionProofs -------------------------
(***************************************************************************)
(* For any frames, any number of them, any limits and any interleaving:    *)
(* the message handler is told once and in time that its connection is     *)
(* over, writes do not overlap unless one call started several, the object *)
(* is not deleted under its operations, and messages are assembled from    *)
(* the fragments that were sent.                                           *)
(***************************************************************************)
EXTENDS WSConnection, FiniteSetTheorems, SequenceTheorems, TLAPS

Outcomes == {"pending", "ok", "error"}

\* The blocks of WriteBuff that os writes, with r released before: there are no
\* more of them than were popped, and only the last one if each call popped one.
Writing(safe, os, r) ==
  /\ os \subseteq [block : 1 .. popped, outcome : Outcomes]
  /\ IsFiniteSet(os) /\ Cardinality(os) + r <= popped
  /\ ~split => /\ \A o \in os : o.block = popped
               /\ \A o, p \in os : o = p
               /\ safe => os = {}

WriteInv ==
  /\ SafeWrite \in BOOLEAN /\ split \in BOOLEAN
  /\ waiting \in Nat /\ popped \in Nat /\ released \in Nat
  /\ Writing(SafeWrite, ops, released)

\* SAFE_READ is set only when no read will call back.
ReadInv ==
  /\ SafeRead \in BOOLEAN /\ open \in BOOLEAN /\ stopped \in BOOLEAN
  /\ readOp \in {"none", "pending", "ok", "error"}
  /\ SafeRead => readOp = "none"
  /\ SilentTime \in 0 .. MaxSilentTime + 1
  /\ sends \in Nat /\ arrived \in Nat /\ parsed \in Nat
  /\ stream \in Seq(Frames) /\ Len(stream) = FramesIn(arrived)
  /\ Len(stream) + sends <= MaxEvents
  /\ 2 * parsed <= arrived

\* Who ends the connection clears MyHandler; only the handler's own Close() does
\* so without telling it.
LifeInv ==
  /\ handler \in BOOLEAN /\ closedSelf \in BOOLEAN /\ told \in {0, 1}
  /\ handler => told = 0
  /\ ~handler => told = 1 \/ closedSelf
  /\ posts \in Seq({"write", "close"})
  /\ \A i \in 1 .. Len(posts) : posts[i] = "close" => closedSelf
  /\ life \in {"alive", "deleted", "crashed"}
  /\ life = "deleted" => ~handler

\* The fragments kept are those behind the last message, up to now.
IsBegun(m) ==
  /\ m # << >> => stream[m[1]].op = "TEXT"
  /\ \A j \in 2 .. Len(m) : stream[m[j]].op = "CONTINUATION"
  /\ \A j \in 1 .. Len(m) : ~stream[m[j]].fin
LastOf(m) == m[Len(m)]
MessageInv ==
  /\ frag \in Seq(1 .. parsed) /\ IsBegun(frag)
  /\ delivered \in Seq(Seq(1 .. parsed))
  /\ \A i \in 1 .. Len(delivered) :
       /\ delivered[i] # << >> /\ IsMessage(delivered[i])
       /\ frag # << >> => LastOf(delivered[i]) < frag[1]
  /\ \A i, j \in 1 .. Len(delivered) :
       i < j => LastOf(delivered[i]) < delivered[j][1]
  /\ handler => DataIn(parsed) = UNION {Within(m) : m \in Delivered \union {frag}}

IInv == WriteInv /\ ReadInv /\ LifeInv /\ MessageInv

-----------------------------------------------------------------------------
(* Sending: the number of writes.                                          *)

\* The writes started for the blocks a + 1 .. b are no more than the blocks.
LEMMA StartedFinite ==
  ASSUME NEW a \in Nat, NEW n \in Nat, NEW f
  PROVE  LET started == {[block |-> k, outcome |-> f[k]] : k \in a + 1 .. a + n}
         IN  IsFiniteSet(started) /\ Cardinality(started) \in 0 .. n
<1> DEFINE started == {[block |-> k, outcome |-> f[k]] : k \in a + 1 .. a + n}
           g == [k \in a + 1 .. a + n |-> [block |-> k, outcome |-> f[k]]]
<1>1. a + 1 \in Int /\ a + n \in Int
  OBVIOUS
<1>2. /\ IsFiniteSet(a + 1 .. a + n)
      /\ Cardinality(a + 1 .. a + n) = IF a + 1 > a + n THEN 0 ELSE (a + n) - (a + 1) + 1
  BY <1>1, FS_Interval, Zenon
<1>3. Cardinality(a + 1 .. a + n) = n
  BY <1>2
<1>4. g \in Surjection(a + 1 .. a + n, started)
  BY Zenon DEF Surjection
<1>5. IsFiniteSet(started) /\ Cardinality(started) <= n
  BY <1>2, <1>3, <1>4, FS_Surjection
<1> QED BY <1>5, FS_CardinalityType

\* Closing the socket changes what the writes will tell, not how many they are.
LEMMA AbortedFinite ==
  ASSUME NEW os, IsFiniteSet(os)
  PROVE  IsFiniteSet(Aborted(os)) /\ Cardinality(Aborted(os)) <= Cardinality(os)
<1> DEFINE g == [o \in os |->
                   [o EXCEPT !.outcome = IF @ = "pending" THEN "error" ELSE @]]
<1>1. g \in Surjection(os, Aborted(os))
  BY Zenon DEF Surjection, Aborted
<1> QED BY <1>1, FS_Surjection

\* Closing the socket aborts the writes and keeps what is known of them.
LEMMA AbortedWriting ==
  ASSUME NEW os, released \in Nat, popped \in Nat, Writing(SafeWrite, os, released)
  PROVE  Writing(SafeWrite, Aborted(os), released)
<1>1. IsFiniteSet(Aborted(os)) /\ Cardinality(Aborted(os)) <= Cardinality(os)
  BY AbortedFinite DEF Writing
<1>2. Cardinality(os) \in Nat /\ Cardinality(Aborted(os)) \in Nat
  BY <1>1, FS_CardinalityType DEF Writing
<1>3. Cardinality(Aborted(os)) + released <= popped
  BY <1>1, <1>2 DEF Writing
<1>4. ASSUME NEW p \in Aborted(os)
      PROVE  /\ p \in [block : 1 .. popped, outcome : Outcomes]
             /\ \E o \in os : p.block = o.block
  <2>1. PICK o \in os :
          p = [o EXCEPT !.outcome = IF @ = "pending" THEN "error" ELSE @]
    BY DEF Aborted
  <2>2. o \in [block : 1 .. popped, outcome : Outcomes]
    BY DEF Writing
  <2> QED BY <2>1, <2>2 DEF Outcomes
<1>5. ASSUME ~split
      PROVE  /\ \A o \in Aborted(os) : o.block = popped
             /\ \A o, p \in Aborted(os) : o = p
             /\ SafeWrite => Aborted(os) = {}
  <2>1. \A o, p \in os : o = p
    BY <1>5 DEF Writing
  <2>2. \A o, p \in Aborted(os) : o = p
    BY <2>1, Zenon DEF Aborted
  <2>3. SafeWrite => Aborted(os) = {}
    BY <1>5, <1>4 DEF Writing
  <2> QED BY <1>4, <1>5, <2>2, <2>3 DEF Writing
<1>6. Aborted(os) \subseteq [block : 1 .. popped, outcome : Outcomes]
  BY <1>4
<1> QED BY <1>1, <1>3, <1>5, <1>6 DEF Writing

\* StartAsyncWrite() keeps the writes in step with the blocks.
LEMMA StartKeepsWriting ==
  ASSUME NEW safe \in BOOLEAN, NEW n \in Nat, NEW old, NEW first \in SUBSET Outcomes,
         released' \in Nat, popped \in Nat, split \in BOOLEAN,
         Writing(safe, old, released'), StartAsyncWrite(safe, n, old, first)
  PROVE  /\ SafeWrite' \in BOOLEAN /\ split' \in BOOLEAN
         /\ waiting' \in Nat /\ popped' \in Nat
         /\ Writing(SafeWrite, ops, released)'
<1>1. CASE safe /\ n > 0
  <2>1. PICK f \in [popped + 1 .. popped + n -> first] :
          ops' = old \union {[block |-> b, outcome |-> f[b]] : b \in DOMAIN f}
    BY <1>1 DEF StartAsyncWrite, MayWrite
  <2> DEFINE new == {[block |-> b, outcome |-> f[b]] : b \in popped + 1 .. popped + n}
  <2>2. ops' = old \union new
    BY <2>1
  <2>3. /\ SafeWrite' = FALSE /\ waiting' = 0 /\ popped' = popped + n
        /\ split' = (split \/ n > 1)
    BY <1>1 DEF StartAsyncWrite, MayWrite, PoppedAfter
  <2>4. IsFiniteSet(new) /\ Cardinality(new) \in 0 .. n
    BY StartedFinite, Zenon
  <2>5. new \subseteq [block : 1 .. popped + n, outcome : Outcomes]
    BY <2>1
  <2>6. ASSUME ~split'
        PROVE  /\ \A o \in ops' : o.block = popped + n
               /\ \A o, p \in ops' : o = p
    <3>1. ~split /\ ~(n > 1)
      BY <2>3, <2>6, Zenon
    <3>2. n = 1
      BY <1>1, <3>1
    <3>3. old = {}
      BY <1>1, <3>1 DEF Writing
    <3>4. new = {[block |-> popped + 1, outcome |-> f[popped + 1]]}
      BY <3>2
    <3> QED BY <2>2, <3>2, <3>3, <3>4
  <2> HIDE DEF new
  <2>7. IsFiniteSet(old \intersect new)
    BY <2>4, FS_Intersection DEF Writing
  <2>8. /\ IsFiniteSet(ops')
        /\ Cardinality(ops')
             = Cardinality(old) + Cardinality(new) - Cardinality(old \intersect new)
    BY <2>2, <2>4, FS_Union DEF Writing
  <2>9. /\ Cardinality(ops') \in Nat /\ Cardinality(old) \in Nat
        /\ Cardinality(old \intersect new) \in Nat
    BY <2>7, <2>8, FS_CardinalityType DEF Writing
  <2>10. Cardinality(ops') + released' <= popped + n
    BY <2>4, <2>8, <2>9 DEF Writing
  <2>11. ops' \subseteq [block : 1 .. popped + n, outcome : Outcomes]
    BY <2>2, <2>5 DEF Writing
  <2>12. waiting' \in Nat /\ popped' \in Nat
    BY <2>3
  <2>13. SafeWrite' \in BOOLEAN /\ split' \in BOOLEAN
    BY <2>3, Zenon
  <2> QED BY <2>3, <2>6, <2>8, <2>10, <2>11, <2>12, <2>13 DEF Writing
<1>2. CASE ~(safe /\ n > 0)
  BY <1>2 DEF StartAsyncWrite, MayWrite, Writing
<1> QED BY <1>1, <1>2

\* A frame of the connection's own is sent.
LEMMA SendNowKeeps ==
  ASSUME WriteInv, SendNow, UNCHANGED released
  PROVE  WriteInv'
<1>1. PICK n \in Committed(waiting) : StartAsyncWrite(SafeWrite, n, ops, FirstOutcome)
  BY DEF SendNow
<1>2. n \in Nat
  BY DEF Committed, WriteInv
<1>3. FirstOutcome \in SUBSET Outcomes
  BY DEF FirstOutcome, Outcomes
<1>4. Writing(SafeWrite, ops, released') /\ released' \in Nat
  BY DEF WriteInv
<1> QED BY <1>1, <1>2, <1>3, <1>4, StartKeepsWriting DEF WriteInv

\* No handler of the connection, no call of its user and no step of the server
\* puts the writes out of step with the blocks.
LEMMA WriteStep ==
  ASSUME IInv, [Next]_vars
  PROVE  WriteInv'
<1> USE DEF IInv
<1>0. /\ WriteInv /\ FirstOutcome \in SUBSET Outcomes
      /\ SafeWrite \in BOOLEAN /\ split \in BOOLEAN
      /\ waiting \in Nat /\ popped \in Nat /\ released \in Nat
      /\ Writing(SafeWrite, ops, released)
  BY DEF WriteInv, FirstOutcome, Outcomes
<1>a. ASSUME UNCHANGED writeVars PROVE WriteInv'
  BY <1>0, <1>a DEF WriteInv, writeVars, Writing
<1>b. ASSUME EndAfterError PROVE WriteInv'
  <2>1. CASE handler
    BY <1>0, <1>b, <2>1, SendNowKeeps DEF EndAfterError
  <2>2. CASE ~handler
    BY <1>a, <1>b, <2>2 DEF EndAfterError, writeVars
  <2> QED BY <2>1, <2>2
<1>1. ASSUME NEW outcome \in {"ok", "error"}, ReadCompletes(outcome) PROVE WriteInv'
  BY <1>a, <1>1 DEF ReadCompletes
<1>2. ASSUME NEW outcome \in {"ok", "error"}, NEW o \in ops, WriteCompletes(o, outcome)
      PROVE  WriteInv'
  <2> DEFINE new == [o EXCEPT !.outcome = outcome]
  <2>1. /\ ops' = (ops \ {o}) \union {new}
        /\ UNCHANGED <<SafeWrite, waiting, popped, released, split>>
    BY <1>2 DEF WriteCompletes
  <2>2. o \in [block : 1 .. popped, outcome : Outcomes]
    BY <1>0 DEF Writing
  <2>3. new \in [block : 1 .. popped, outcome : Outcomes] /\ new.block = o.block
    BY <2>2 DEF Outcomes
  <2> HIDE DEF new
  <2>4. IsFiniteSet(ops \ {o}) /\ Cardinality(ops \ {o}) = Cardinality(ops) - 1
    BY <1>0, FS_RemoveElement DEF Writing
  <2>5. IsFiniteSet(ops') /\ Cardinality(ops') <= Cardinality(ops)
    <3>1. Cardinality(ops) \in Nat
      BY <1>0, FS_CardinalityType DEF Writing
    <3>2. /\ IsFiniteSet(ops')
          /\ \/ Cardinality(ops') = Cardinality(ops \ {o})
             \/ Cardinality(ops') = Cardinality(ops \ {o}) + 1
      BY <2>1, <2>4, FS_AddElement
    <3> QED BY <2>4, <3>1, <3>2
  <2>6. Cardinality(ops') + released <= popped
    BY <1>0, <2>5, FS_CardinalityType DEF Writing
  <2>7. ops' \subseteq [block : 1 .. popped, outcome : Outcomes]
    BY <1>0, <2>1, <2>3 DEF Writing
  <2>8. ASSUME ~split
        PROVE  /\ \A p \in ops' : p.block = popped
               /\ \A p, q \in ops' : p = q
               /\ SafeWrite => ops' = {}
    BY <1>0, <2>1, <2>3, <2>8 DEF Writing
  <2> QED BY <1>0, <2>1, <2>5, <2>6, <2>7, <2>8 DEF WriteInv, Writing
<1>3. CASE OnRead
  <2>1. PICK s, n : ProcessIncoming(s, n)
    BY <1>3 DEF OnRead
  <2>2. CASE UNCHANGED writeVars
    BY <1>a, <2>2
  <2>3. CASE EndAfterError
    BY <1>b, <2>3
  <2> DEFINE f == s[parsed + 1]
  <2>4. CASE PingFrame(f)
    BY <1>0, <2>4, SendNowKeeps DEF PingFrame
  <2>5. CASE CloseFrame(f)
    <3>1. CASE handler
      BY <1>0, <2>5, <3>1, SendNowKeeps DEF CloseFrame
    <3>2. CASE ~handler
      BY <1>a, <2>5, <3>2 DEF CloseFrame, writeVars
    <3> QED BY <3>1, <3>2
  <2> QED
    BY <2>1, <2>2, <2>3, <2>4, <2>5 DEF ProcessIncoming, DataFrame, PongFrame, BadFrame
<1>4. CASE OnReadError
  BY <1>a, <1>4 DEF OnReadError
<1>5. ASSUME NEW o \in ops, OnWrite(o) PROVE WriteInv'
  <2>1. /\ StartAsyncWrite(TRUE, waiting, ops \ {o}, FirstOutcome)
        /\ released' = released + 1
    BY <1>5 DEF OnWrite
  <2>2. IsFiniteSet(ops \ {o}) /\ Cardinality(ops \ {o}) = Cardinality(ops) - 1
    BY <1>0, FS_RemoveElement DEF Writing
  <2>3. Cardinality(ops \ {o}) + released' <= popped
    BY <1>0, <2>1, <2>2, FS_CardinalityType DEF Writing
  <2>4. Writing(TRUE, ops \ {o}, released')
    BY <1>0, <2>2, <2>3 DEF Writing
  <2>5. released' \in Nat
    BY <1>0, <2>1
  <2> QED BY <1>0, <2>1, <2>4, <2>5, StartKeepsWriting DEF WriteInv
<1>6. ASSUME NEW o \in ops, OnWriteError(o) PROVE WriteInv'
  <2>1. /\ SafeWrite' = TRUE /\ ops' = ops \ {o}
        /\ UNCHANGED <<waiting, popped, released, split>>
    BY <1>6 DEF OnWriteError
  <2>2. IsFiniteSet(ops \ {o}) /\ Cardinality(ops \ {o}) = Cardinality(ops) - 1
    BY <1>0, FS_RemoveElement DEF Writing
  <2>3. Cardinality(ops \ {o}) + released <= popped
    BY <1>0, <2>2, FS_CardinalityType DEF Writing
  <2> QED BY <1>0, <2>1, <2>2, <2>3 DEF WriteInv, Writing
<1>7. CASE Send \/ Close
  <2>1. waiting' \in Nat
    BY <1>0, <1>7 DEF Send, Close, Committed
  <2> QED BY <1>0, <1>7, <2>1 DEF Send, Close, WriteInv, Writing
<1>8. CASE RunPost
  <2>1. /\ StartAsyncWrite(SafeWrite, waiting, ops, FirstOutcome)
        /\ Writing(SafeWrite, ops, released') /\ released' \in Nat
    BY <1>0, <1>8 DEF RunPost
  <2> QED BY <1>0, <2>1, StartKeepsWriting DEF WriteInv
<1>9. CASE OnStep
  <2>1. ops' = ops \/ ops' = Aborted(ops)
    BY <1>9 DEF OnStep, OnStepInTime, OnStepTimeout
  <2>2. Writing(SafeWrite, ops', released)
    BY <1>0, <2>1, AbortedWriting
  <2> QED BY <1>0, <1>9, <2>2 DEF OnStep, WriteInv, Writing
<1>10. CASE Stop
  <2>1. Writing(SafeWrite, Aborted(ops), released)
    BY <1>0, AbortedWriting
  <2>2. CASE handler
    <3>1. PICK n \in Committed(waiting) :
            StartAsyncWrite(SafeWrite, n, Aborted(ops), {"ok", "error"})
      BY <1>10, <2>2 DEF Stop
    <3>2. n \in Nat /\ {"ok", "error"} \in SUBSET Outcomes /\ released' = released
      BY <1>0, <1>10 DEF Committed, Outcomes, Stop
    <3> QED BY <1>0, <2>1, <3>1, <3>2, StartKeepsWriting DEF WriteInv
  <2>3. CASE ~handler
    BY <1>0, <1>10, <2>1, <2>3 DEF Stop, WriteInv, Writing
  <2> QED BY <2>2, <2>3
<1>11. CASE UNCHANGED vars
  BY <1>a, <1>11 DEF vars
<1> QED
  BY <1>1, <1>2, <1>3, <1>4, <1>5, <1>6, <1>7, <1>8, <1>9, <1>10, <1>11 DEF Next

-----------------------------------------------------------------------------
(* Receiving: the frames that have arrived, and what reads them.           *)

\* What a read appends to the frames that have arrived keeps them in step with
\* the parts, and leaves the frames before as they are.
LEMMA StreamGrows ==
  ASSUME ReadInv, NEW n \in Nat, NEW new,
         new \in [1 .. FramesIn(arrived + n) - FramesIn(arrived) -> Frames]
  PROVE  /\ arrived + n \in Nat
         /\ stream \o new \in Seq(Frames)
         /\ Len(stream \o new) = FramesIn(arrived + n)
         /\ parsed <= Len(stream)
         /\ \A i \in 1 .. parsed : (stream \o new)[i] = stream[i]
<1>1. FramesIn(arrived + n) - FramesIn(arrived) \in Nat
  BY DEF ReadInv, FramesIn
<1>2. new \in Seq(Frames) /\ Len(new) = FramesIn(arrived + n) - FramesIn(arrived)
  BY <1>1
<1>3. parsed <= Len(stream)
  BY DEF ReadInv, FramesIn
<1>4. FramesIn(arrived) \in Nat /\ FramesIn(arrived + n) \in Nat
  BY DEF ReadInv, FramesIn
<1>5. /\ stream \in Seq(Frames) /\ Len(stream) = FramesIn(arrived) /\ arrived \in Nat
      /\ parsed \in Nat /\ Len(stream) \in Nat
  BY DEF ReadInv
<1>6. /\ stream \o new \in Seq(Frames) /\ Len(stream \o new) = Len(stream) + Len(new)
      /\ \A i \in 1 .. Len(stream) + Len(new) :
           (stream \o new)[i] = IF i <= Len(stream) THEN stream[i] ELSE new[i - Len(stream)]
  BY <1>2, <1>5, ConcatProperties, Zenon
<1>7. Len(stream \o new) = FramesIn(arrived + n) /\ Len(new) \in Nat
  BY <1>1, <1>2, <1>4, <1>5, <1>6
<1>8. ASSUME NEW i \in 1 .. parsed PROVE (stream \o new)[i] = stream[i]
  <2>1. i <= Len(stream) /\ i \in 1 .. Len(stream) + Len(new)
    BY <1>3, <1>5, <1>7
  <2> QED BY <1>6, <2>1
<1>9. arrived + n \in Nat
  BY <1>5
<1> QED BY <1>3, <1>6, <1>7, <1>8, <1>9

\* Reads are counted, bounded and answered: SAFE_READ is set only by the
\* handlers that start none.
LEMMA ReadStep ==
  ASSUME WSAssumption, IInv, [Next]_vars
  PROVE  ReadInv'
<1> USE DEF IInv
<1>0. ReadInv /\ MaxEvents \in Nat /\ MaxRead \in Nat /\ MaxSilentTime \in Nat
  BY DEF WSAssumption
<1>a. ASSUME UNCHANGED <<SafeRead, SilentTime, open, readOp, stopped, readVars, sends>>
      PROVE  ReadInv'
  BY <1>0, <1>a DEF ReadInv, readVars
<1>1. ASSUME NEW outcome \in {"ok", "error"}, ReadCompletes(outcome) PROVE ReadInv'
  <2>1. /\ readOp = "pending" /\ readOp' = outcome
        /\ UNCHANGED <<SafeRead, SilentTime, open, stopped, readVars, sends>>
    BY <1>1 DEF ReadCompletes, userVars
  <2>2. ~SafeRead
    BY <1>0, <2>1 DEF ReadInv
  <2> QED BY <1>0, <1>1, <2>1, <2>2 DEF ReadInv, readVars
<1>2. ASSUME NEW outcome \in {"ok", "error"}, NEW o \in ops, WriteCompletes(o, outcome)
      PROVE  ReadInv'
  BY <1>a, <1>2 DEF WriteCompletes, userVars
<1>3. CASE OnRead
  <2>1. /\ readOp = "ok" /\ SilentTime' = 0
        /\ UNCHANGED <<open, stopped, sends>>
    BY <1>3 DEF OnRead, userVars
  <2>2. PICK n \in 0 .. MaxRead :
          /\ FramesIn(arrived + n) + sends <= MaxEvents
          /\ arrived' = arrived + n
          /\ \E new \in [1 .. FramesIn(arrived + n) - FramesIn(arrived) -> Frames] :
               /\ stream' = stream \o new
               /\ ProcessIncoming(stream \o new, arrived + n)
    BY <1>3 DEF OnRead
  <2>3. PICK new \in [1 .. FramesIn(arrived + n) - FramesIn(arrived) -> Frames] :
          /\ stream' = stream \o new
          /\ ProcessIncoming(stream \o new, arrived + n)
    BY <2>2
  <2>4. n \in Nat
    BY <1>0
  <2>5. /\ arrived' \in Nat /\ stream' \in Seq(Frames) /\ Len(stream') = FramesIn(arrived')
        /\ Len(stream') + sends <= MaxEvents
    BY <1>0, <2>2, <2>3, <2>4, StreamGrows
  <2>6. parsed' \in Nat /\ 2 * parsed' <= arrived'
    BY <1>0, <2>2, <2>3, <2>4 DEF ProcessIncoming, ReadInv
  <2>7. \/ SafeRead' = TRUE /\ readOp' = "none"
        \/ SafeRead' = SafeRead /\ readOp' \in {"pending", "error"}
    BY <2>3 DEF ProcessIncoming, ReadOn, EndAfterError, DataFrame, PongFrame,
                PingFrame, CloseFrame, BadFrame
  <2>8. SafeRead' \in BOOLEAN /\ (SafeRead' => readOp' = "none")
    <3>1. CASE SafeRead' = TRUE /\ readOp' = "none"
      BY <3>1
    <3>2. CASE SafeRead' = SafeRead
      BY <1>0, <2>1, <3>2 DEF ReadInv
    <3> QED BY <2>7, <3>1, <3>2
  <2>9. readOp' \in {"none", "pending", "ok", "error"}
    BY <2>7
  <2>10. SilentTime' \in 0 .. MaxSilentTime + 1
    BY <1>0, <2>1
  <2> QED BY <1>0, <2>1, <2>5, <2>6, <2>8, <2>9, <2>10 DEF ReadInv
<1>4. CASE OnReadError
  BY <1>0, <1>4 DEF OnReadError, SafeReadAtEnd, ReadInv, readVars, userVars
<1>5. ASSUME NEW o \in ops, OnWrite(o) \/ OnWriteError(o) PROVE ReadInv'
  BY <1>a, <1>5 DEF OnWrite, OnWriteError, userVars
<1>6. CASE Send \/ Close
  <2>1. /\ sends' = sends + 1 /\ Len(stream) + sends < MaxEvents
        /\ UNCHANGED <<SafeRead, SilentTime, open, readOp, stopped, readVars>>
    BY <1>6 DEF Send, Close, MaySend
  <2>2. sends' \in Nat /\ Len(stream) + sends' <= MaxEvents
    BY <1>0, <2>1 DEF ReadInv
  <2> QED BY <1>0, <2>1, <2>2 DEF ReadInv, readVars
<1>7. CASE RunPost
  BY <1>a, <1>7 DEF RunPost
<1>8. CASE OnStep \/ Stop
  <2>1. UNCHANGED <<SafeRead, readVars, sends>>
    BY <1>8 DEF OnStep, Stop, userVars
  <2>2. /\ readOp' \in {"none", "pending", "ok", "error"}
        /\ readOp = "none" => readOp' = "none"
    BY <1>0, <1>8 DEF OnStep, OnStepInTime, OnStepTimeout, Stop, AbortedRead, ReadInv
  <2>3. SilentTime' \in 0 .. MaxSilentTime + 1
    BY <1>0, <1>8 DEF OnStep, Stop, ReadInv
  <2>4. open' \in BOOLEAN /\ stopped' \in BOOLEAN
    BY <1>0, <1>8 DEF OnStep, OnStepInTime, OnStepTimeout, Stop, ReadInv
  <2> QED BY <1>0, <2>1, <2>2, <2>3, <2>4 DEF ReadInv, readVars
<1>9. CASE UNCHANGED vars
  BY <1>a, <1>9 DEF vars, userVars
<1> QED BY <1>1, <1>2, <1>3, <1>4, <1>5, <1>6, <1>7, <1>8, <1>9 DEF Next

-----------------------------------------------------------------------------
(* Who ends the connection.                                                *)

\* OnClose() is called when MyHandler is cleared, and only then.
LEMMA LifeStep ==
  ASSUME IInv, [Next]_vars
  PROVE  LifeInv'
<1> USE DEF IInv
<1>0. LifeInv
  OBVIOUS
<1>a. ASSUME UNCHANGED <<handler, told>>, UNCHANGED userVars,
             life' \in {life, "crashed"}
      PROVE  LifeInv'
  BY <1>0, <1>a DEF LifeInv, userVars
<1>b. ASSUME told' = ToldClose, handler' = FALSE, UNCHANGED userVars,
             life' \in {life, "alive", "deleted"}
      PROVE  LifeInv'
  <2>1. told' \in {0, 1} /\ (told' = 1 \/ closedSelf)
    BY <1>0, <1>b DEF LifeInv, ToldClose
  <2>2. life' \in {"alive", "deleted", "crashed"}
    BY <1>0, <1>b DEF LifeInv
  <2> QED BY <1>0, <1>b, <2>1, <2>2 DEF LifeInv, userVars
<1>1. ASSUME NEW outcome \in {"ok", "error"},
             ReadCompletes(outcome) \/ \E o \in ops : WriteCompletes(o, outcome)
      PROVE  LifeInv'
  BY <1>a, <1>1 DEF ReadCompletes, WriteCompletes
<1>2. CASE OnRead
  <2>1. PICK s, n : ProcessIncoming(s, n)
    BY <1>2 DEF OnRead
  <2>2. UNCHANGED userVars
    BY <1>2 DEF OnRead
  <2>3. \/ UNCHANGED <<handler, told>> /\ life' \in {life, "crashed"}
        \/ told' = ToldClose /\ handler' = FALSE /\ life' = life
    BY <2>1 DEF ProcessIncoming, EndAfterError, DataFrame, PongFrame, PingFrame,
                CloseFrame, BadFrame
  <2> QED BY <1>a, <1>b, <2>2, <2>3
<1>3. CASE OnReadError
  BY <1>b, <1>3 DEF OnReadError
<1>4. ASSUME NEW o \in ops, OnWrite(o) \/ OnWriteError(o) PROVE LifeInv'
  BY <1>a, <1>b, <1>4 DEF OnWrite, OnWriteError
<1>5. CASE Send
  <2>1. posts' = Append(posts, "write") /\ UNCHANGED <<handler, told, life, closedSelf>>
    BY <1>5 DEF Send
  <2> QED BY <1>0, <2>1 DEF LifeInv
<1>6. CASE Close
  <2>1. /\ posts' = Append(posts, "close") /\ closedSelf' = TRUE
        /\ UNCHANGED <<handler, told, life>>
    BY <1>6 DEF Close
  <2> QED BY <1>0, <2>1 DEF LifeInv
<1>7. CASE RunPost
  <2>1. /\ posts # << >> /\ posts' = Tail(posts)
        /\ handler' = (handler /\ Head(posts) # "close")
        /\ UNCHANGED <<life, told, closedSelf>>
    BY <1>7 DEF RunPost
  <2>2. /\ posts' \in Seq({"write", "close"})
        /\ \A i \in 1 .. Len(posts') : posts'[i] = "close" => closedSelf
    BY <1>0, <2>1 DEF LifeInv
  <2>3. Head(posts) = "close" => closedSelf
    BY <1>0, <2>1 DEF LifeInv
  <2>4. handler' \in BOOLEAN /\ (handler' => handler)
    BY <1>0, <2>1, Zenon DEF LifeInv
  <2>5. ~handler' => ~handler \/ closedSelf
    BY <2>1, <2>3
  <2> QED BY <1>0, <2>1, <2>2, <2>4, <2>5 DEF LifeInv
<1>8. CASE OnStep
  <2>1. UNCHANGED userVars
    BY <1>8 DEF OnStep
  <2>2. CASE OnStepInTime
    <3>1. /\ UNCHANGED <<handler, told>>
          /\ \/ life' = "alive"
             \/ life' = "deleted" /\ ~handler
      BY <2>2 DEF OnStepInTime, LifeAfterStep
    <3> QED BY <1>0, <2>1, <3>1 DEF LifeInv, userVars
  <2>3. CASE OnStepTimeout
    BY <1>b, <2>1, <2>3 DEF OnStepTimeout, ToldAtTimeout, LifeAfterStep
  <2> QED BY <1>8, <2>2, <2>3 DEF OnStep
<1>9. CASE Stop
  BY <1>b, <1>9 DEF Stop
<1>10. CASE UNCHANGED vars
  BY <1>a, <1>10 DEF vars
<1> QED BY <1>1, <1>2, <1>3, <1>4, <1>5, <1>6, <1>7, <1>8, <1>9, <1>10 DEF Next

-----------------------------------------------------------------------------
(* Assembling messages.                                                    *)

\* What was assembled of the frames consumed does not change when more arrive.
LEMMA MessagesStay ==
  ASSUME MessageInv, parsed \in Nat, \A i \in 1 .. parsed : stream'[i] = stream[i]
  PROVE  /\ frag # << >> => stream'[frag[1]].op = "TEXT"
         /\ \A j \in 2 .. Len(frag) : stream'[frag[j]].op = "CONTINUATION"
         /\ \A j \in 1 .. Len(frag) : ~stream'[frag[j]].fin
         /\ \A m : m \in Delivered => IsMessage(m)'
         /\ {i \in 1 .. parsed : ~IsControl(stream'[i])} = DataIn(parsed)
<1>1. \A j \in 1 .. Len(frag) : stream'[frag[j]] = stream[frag[j]]
  BY DEF MessageInv
<1>2. /\ frag # << >> => stream'[frag[1]].op = "TEXT"
      /\ \A j \in 2 .. Len(frag) : stream'[frag[j]].op = "CONTINUATION"
      /\ \A j \in 1 .. Len(frag) : ~stream'[frag[j]].fin
  <2>1. frag # << >> => stream'[frag[1]] = stream[frag[1]]
    BY <1>1 DEF MessageInv
  <2>2. \A j \in 2 .. Len(frag) : stream'[frag[j]] = stream[frag[j]]
    BY <1>1 DEF MessageInv
  <2>3. IsBegun(frag)
    BY DEF MessageInv
  <2> QED BY <1>1, <2>1, <2>2, <2>3 DEF IsBegun
<1>3. ASSUME NEW m, m \in Delivered
      PROVE  IsMessage(m)'
  <2>1. m \in Seq(1 .. parsed) /\ m # << >> /\ IsMessage(m)
    <3>1. PICK i \in 1 .. Len(delivered) : m = delivered[i]
      BY <1>3 DEF MessageInv, Delivered
    <3>2. delivered[i] \in Seq(1 .. parsed)
      BY DEF MessageInv
    <3> QED BY <3>1, <3>2 DEF MessageInv
  <2>2. \A j \in 1 .. Len(m) : stream'[m[j]] = stream[m[j]]
    BY <2>1
  <2>3. stream'[m[1]] = stream[m[1]]
    BY <2>1, <2>2
  <2> QED BY <2>1, <2>2, <2>3 DEF IsMessage
<1>4. {i \in 1 .. parsed : ~IsControl(stream'[i])} = DataIn(parsed)
  BY DEF DataIn
<1> QED BY <1>2, <1>3, <1>4

\* A frame that is no data frame of a connection in use changes no message, and
\* neither does a read that consumes none.
LEMMA NoDataKeeps ==
  ASSUME MessageInv, parsed \in Nat, \A i \in 1 .. parsed : stream'[i] = stream[i],
         UNCHANGED <<frag, delivered>>, handler' => handler,
         \/ parsed' = parsed
         \/ parsed' = parsed + 1 /\ (handler' => IsControl(stream'[parsed + 1]))
  PROVE  MessageInv'
<1>1. IsBegun(frag)'
  BY MessagesStay DEF IsBegun
<1>2. /\ frag' \in Seq(1 .. parsed')
      /\ delivered' \in Seq(Seq(1 .. parsed'))
  <2>1. Seq(1 .. parsed) \subseteq Seq(1 .. parsed')
    <3>1. 1 .. parsed \subseteq 1 .. parsed'
      OBVIOUS
    <3> QED BY <3>1, SeqMonotonic
  <2>2. Seq(Seq(1 .. parsed)) \subseteq Seq(Seq(1 .. parsed'))
    BY <2>1, SeqMonotonic
  <2> QED BY <2>1, <2>2 DEF MessageInv
<1>3. \A i \in 1 .. Len(delivered') : IsMessage(delivered[i])'
  <2>1. ASSUME NEW i \in 1 .. Len(delivered')
        PROVE  IsMessage(delivered[i])'
    <3>1. delivered'[i] \in Delivered
      BY DEF Delivered, MessageInv
    <3> QED BY <3>1, MessagesStay DEF IsMessage
  <2> QED BY <2>1
<1>4. /\ \A i \in 1 .. Len(delivered') :
           /\ delivered'[i] # << >>
           /\ frag' # << >> => LastOf(delivered'[i]) < frag'[1]
      /\ \A i, j \in 1 .. Len(delivered') :
           i < j => LastOf(delivered'[i]) < delivered'[j][1]
  BY DEF MessageInv
<1>5. ASSUME handler'
      PROVE  DataIn(parsed)' = UNION {Within(m) : m \in Delivered \union {frag}}'
  <2>1. DataIn(parsed)' = DataIn(parsed)
    BY <1>5, MessagesStay DEF DataIn
  <2>2. Delivered' = Delivered /\ frag' = frag
    BY DEF Delivered
  <2> QED BY <1>5, <2>1, <2>2 DEF MessageInv, Within
<1> QED BY <1>1, <1>2, <1>3, <1>4, <1>5 DEF MessageInv, LastOf

\* A data frame that ProcessFrame() accepts ends, continues or begins the message
\* it belongs to, and no other.
LEMMA DataFrameAssembles ==
  ASSUME MessageInv, LifeInv, parsed \in Nat,
         \A i \in 1 .. parsed : stream'[i] = stream[i],
         DataFrame(stream'[parsed + 1], parsed + 1), parsed' = parsed + 1
  PROVE  MessageInv'
<1> DEFINE k == parsed + 1
           f == stream'[k]
<1>m. PICK m : m = Message(f, k)
  OBVIOUS
<1>1. /\ ~IsControl(f) /\ (IsFragment(f) \/ IsFirst(f)) /\ handler' = handler
      /\ frag' = IF f.fin THEN << >> ELSE m
      /\ \/ f.fin /\ ~handler /\ delivered' = delivered
         \/ handler \/ ~f.fin
      /\ handler \/ ~f.fin => delivered' = IF f.fin THEN Append(delivered, m) ELSE delivered
  BY <1>m DEF DataFrame, ReasonOf, FragAfter, Message
<1> HIDE DEF f
<1>2. frag \in Seq(1 .. parsed) /\ delivered \in Seq(Seq(1 .. parsed))
  BY DEF MessageInv
<1>3. frag \in Seq(1 .. k) /\ delivered \in Seq(Seq(1 .. k))
  <2>1. 1 .. parsed \subseteq 1 .. k
    OBVIOUS
  <2>2. Seq(1 .. parsed) \subseteq Seq(1 .. k)
    BY <2>1, SeqMonotonic
  <2> QED BY <1>2, <2>2, SeqMonotonic
\* The message up to this frame.
<1>4. /\ m \in Seq(1 .. k) /\ Len(m) = Len(frag) + 1
      /\ \A j \in 1 .. Len(frag) : m[j] = frag[j]
      /\ m[Len(m)] = k
  <2>1. k \in 1 .. k
    OBVIOUS
  <2>2. CASE IsFragment(f)
    <3>1. m = Append(frag, k)
      BY <1>m, <2>2 DEF Message
    <3> QED BY <1>3, <2>1, <3>1, AppendProperties
  <2>3. CASE frag = << >> /\ ~IsFragment(f)
    <3>1. m = <<k>>
      BY <1>m, <2>3 DEF Message
    <3> QED BY <2>3, <3>1
  <2> QED BY <1>1, <2>2, <2>3 DEF IsFirst, IsFragment
<1>5. /\ stream'[m[1]].op = "TEXT"
      /\ \A j \in 2 .. Len(m) : stream'[m[j]].op = "CONTINUATION"
      /\ \A j \in 1 .. Len(frag) : ~stream'[m[j]].fin
  <2>1. CASE frag = << >>
    BY <1>1, <1>4, <2>1 DEF IsFragment, IsFirst, IsControl, f
  <2>2. CASE frag # << >>
    <3>1. 1 \in 1 .. Len(frag) /\ f.op = "CONTINUATION"
      BY <1>1, <1>2, <2>2 DEF IsFragment, IsFirst
    <3>2. \A j \in 2 .. Len(m) : j \in 2 .. Len(frag) \/ j = Len(m)
      BY <1>3, <1>4
    <3>3. /\ stream'[frag[1]].op = "TEXT"
          /\ \A j \in 2 .. Len(frag) : stream'[frag[j]].op = "CONTINUATION"
          /\ \A j \in 1 .. Len(frag) : ~stream'[frag[j]].fin
      BY <2>2, MessagesStay
    <3>4. /\ stream'[m[1]].op = "TEXT"
          /\ \A j \in 1 .. Len(frag) : ~stream'[m[j]].fin
      BY <1>4, <3>1, <3>3
    <3>5. ASSUME NEW j \in 2 .. Len(m) PROVE stream'[m[j]].op = "CONTINUATION"
      <4>1. CASE j = Len(m)
        BY <1>4, <3>1, <4>1 DEF f
      <4>2. CASE j \in 2 .. Len(frag)
        <5>1. j \in 1 .. Len(frag)
          BY <1>3, <4>2
        <5>2. m[j] = frag[j]
          BY <1>4, <5>1
        <5> QED BY <3>3, <4>2, <5>2
      <4> QED BY <3>2, <4>1, <4>2
    <3> QED BY <3>4, <3>5
  <2> QED BY <2>1, <2>2
<1>6. \A i \in 1 .. Len(delivered) : delivered[i] # << >> /\ LastOf(delivered[i]) < m[1]
  <2>1. ASSUME NEW i \in 1 .. Len(delivered)
        PROVE  delivered[i] # << >> /\ LastOf(delivered[i]) < m[1]
    <3>1. delivered[i] # << >> /\ (frag # << >> => LastOf(delivered[i]) < frag[1])
      BY DEF MessageInv
    <3>2. LastOf(delivered[i]) \in 1 .. parsed
      <4>1. delivered[i] \in Seq(1 .. parsed)
        BY <1>2
      <4> QED BY <3>1, <4>1 DEF LastOf
    <3>3. CASE frag = << >>
      BY <1>2, <1>4, <3>1, <3>2, <3>3
    <3>4. CASE frag # << >>
      <4>1. 1 \in 1 .. Len(frag)
        BY <1>2, <3>4
      <4>2. m[1] = frag[1]
        BY <1>4, <4>1
      <4> QED BY <3>1, <3>4, <4>2
    <3> QED BY <3>3, <3>4
  <2> QED BY <2>1
<1>7. \A n : n \in Delivered => IsMessage(n)'
  BY MessagesStay
<1>8. Within(m) = Within(frag) \union {k}
  <2>1. /\ DOMAIN m = (1 .. Len(frag)) \union {Len(m)}
        /\ DOMAIN frag = 1 .. Len(frag)
    <3>1. DOMAIN m = 1 .. Len(m) /\ DOMAIN frag = 1 .. Len(frag) /\ Len(frag) \in Nat
      BY <1>2, <1>4
    <3>2. \A n \in Nat : 1 .. n + 1 = (1 .. n) \union {n + 1}
      OBVIOUS
    <3> QED BY <1>4, <3>1, <3>2
  <2> QED BY <1>4, <2>1 DEF Within
<1>9. handler => DataIn(parsed)' = UNION {Within(n) : n \in Delivered \union {m}}
  <2>1. DataIn(parsed)' = DataIn(parsed) \union {k}
    <3>1. 1 .. k = (1 .. parsed) \union {k}
      OBVIOUS
    <3>2. DataIn(parsed)' = {i \in 1 .. parsed : ~IsControl(stream'[i])} \union {k}
      BY <1>1, <3>1 DEF DataIn, f
    <3> QED BY <3>2, MessagesStay
  <2>2. handler => DataIn(parsed) = UNION {Within(n) : n \in Delivered \union {frag}}
    BY DEF MessageInv
  <2> QED BY <1>8, <2>1, <2>2
<1>10. CASE f.fin /\ handler
  <2>1. frag' = << >> /\ delivered' = Append(delivered, m) /\ Len(delivered') = Len(delivered) + 1
    BY <1>1, <1>3, <1>10
  <2>2. \A i \in 1 .. Len(delivered) : delivered'[i] = delivered[i]
    BY <1>3, <2>1
  <2>3. delivered'[Len(delivered) + 1] = m
    BY <1>3, <2>1
  <2>4. frag' \in Seq(1 .. parsed') /\ delivered' \in Seq(Seq(1 .. parsed'))
    BY <1>3, <1>4, <2>1
  <2>5. IsMessage(m)'
    <3>1. ASSUME NEW j \in 1 .. Len(m) PROVE stream'[m[j]].fin <=> j = Len(m)
      <4>1. CASE j = Len(m)
        BY <1>4, <1>10, <4>1 DEF f
      <4>2. CASE j # Len(m)
        <5>1. j \in 1 .. Len(frag)
          BY <1>3, <1>4, <4>2
        <5> QED BY <1>5, <4>2, <5>1
      <4> QED BY <4>1, <4>2
    <3> QED BY <1>5, <3>1 DEF IsMessage
  <2>6. ASSUME NEW i \in 1 .. Len(delivered')
        PROVE  IsMessage(delivered[i])' /\ delivered'[i] # << >>
    <3>1. CASE i = Len(delivered) + 1
      <4>1. delivered'[i] = m /\ m # << >>
        BY <1>3, <1>4, <2>3, <3>1
      <4> QED BY <2>5, <4>1 DEF IsMessage
    <3>2. CASE i \in 1 .. Len(delivered)
      <4>1. delivered[i] \in Delivered
        BY <1>3, <3>2 DEF Delivered
      <4> QED BY <1>6, <1>7, <2>2, <3>2, <4>1 DEF IsMessage
    <3> QED BY <1>3, <2>1, <3>1, <3>2
  <2>7. ASSUME NEW i \in 1 .. Len(delivered'), NEW j \in 1 .. Len(delivered'), i < j
        PROVE  LastOf(delivered'[i]) < delivered'[j][1]
    <3>1. i \in 1 .. Len(delivered)
      BY <1>3, <2>1, <2>7
    <3>2. CASE j = Len(delivered) + 1
      BY <1>6, <2>2, <2>3, <3>1, <3>2
    <3>3. CASE j \in 1 .. Len(delivered)
      BY <2>2, <2>7, <3>1, <3>3 DEF MessageInv
    <3> QED BY <1>3, <2>1, <3>2, <3>3
  <2>8. Delivered' = Delivered \union {m}
    <3>1. DOMAIN delivered' = DOMAIN delivered \union {Len(delivered) + 1}
      BY <1>3, <2>1
    <3>2. DOMAIN delivered = 1 .. Len(delivered)
      BY <1>3
    <3> QED BY <2>2, <2>3, <3>1, <3>2 DEF Delivered
  <2>9. Within(<< >>) = {}
    BY DEF Within
  <2>10. handler' => DataIn(parsed)' = UNION {Within(n) : n \in Delivered \union {frag}}'
    BY <1>1, <1>9, <2>1, <2>8, <2>9 DEF Within
  <2>11. IsBegun(frag)'
    BY <2>1 DEF IsBegun
  <2>12. \A i \in 1 .. Len(delivered') : IsMessage(delivered[i])' /\ delivered'[i] # << >>
    BY <2>6
  <2>13. \A i, j \in 1 .. Len(delivered') :
            i < j => LastOf(delivered'[i]) < delivered'[j][1]
    BY <2>7
  <2> QED BY <2>1, <2>4, <2>10, <2>11, <2>12, <2>13 DEF MessageInv, LastOf
<1>11. CASE ~f.fin
  <2>1. frag' = m /\ delivered' = delivered
    BY <1>1, <1>11
  <2>2. IsBegun(frag)'
    <3>1. \A j \in 1 .. Len(m) : j \in 1 .. Len(frag) \/ j = Len(m)
      BY <1>3, <1>4
    <3> QED BY <1>4, <1>5, <1>11, <2>1, <3>1 DEF IsBegun, f
  <2>3. \A i \in 1 .. Len(delivered') : IsMessage(delivered[i])'
    <3>1. ASSUME NEW i \in 1 .. Len(delivered') PROVE IsMessage(delivered[i])'
      <4>1. delivered'[i] \in Delivered
        BY <1>3, <2>1 DEF Delivered
      <4> QED BY <1>7, <4>1 DEF IsMessage
    <3> QED BY <3>1
  <2>4. handler' => DataIn(parsed)' = UNION {Within(n) : n \in Delivered \union {frag}}'
    BY <1>1, <1>9, <2>1 DEF Within, Delivered
  <2>5. \A i, j \in 1 .. Len(delivered') :
           i < j => LastOf(delivered'[i]) < delivered'[j][1]
    BY <2>1 DEF MessageInv
  <2> QED BY <1>3, <1>4, <1>6, <2>1, <2>2, <2>3, <2>4, <2>5 DEF MessageInv, LastOf
<1>12. CASE f.fin /\ ~handler
  <2>1. frag' = << >> /\ delivered' = delivered /\ ~handler'
    BY <1>1, <1>12
  <2>2. \A i \in 1 .. Len(delivered') : IsMessage(delivered[i])'
    <3>1. ASSUME NEW i \in 1 .. Len(delivered') PROVE IsMessage(delivered[i])'
      <4>1. delivered'[i] \in Delivered
        BY <1>3, <2>1 DEF Delivered
      <4> QED BY <1>7, <4>1 DEF IsMessage
    <3> QED BY <3>1
  <2>3. \A i, j \in 1 .. Len(delivered') :
           i < j => LastOf(delivered'[i]) < delivered'[j][1]
    BY <2>1 DEF MessageInv
  <2> QED BY <1>3, <1>6, <2>1, <2>2, <2>3 DEF MessageInv, LastOf, IsBegun
<1> QED BY <1>10, <1>11, <1>12

\* Every action keeps what is known of the message being assembled.
LEMMA MessageStep ==
  ASSUME IInv, [Next]_vars
  PROVE  MessageInv'
<1> USE DEF IInv
<1>0. ReadInv /\ LifeInv /\ MessageInv /\ parsed \in Nat
  BY DEF ReadInv
<1>a. ASSUME UNCHANGED readVars, handler' => handler PROVE MessageInv'
  BY <1>0, <1>a, NoDataKeeps DEF readVars
<1>1. CASE OnRead
  <2>1. PICK n \in 0 .. MaxRead :
          \E new \in [1 .. FramesIn(arrived + n) - FramesIn(arrived) -> Frames] :
            /\ stream' = stream \o new
            /\ ProcessIncoming(stream \o new, arrived + n)
    BY <1>1 DEF OnRead
  <2>2. PICK new \in [1 .. FramesIn(arrived + n) - FramesIn(arrived) -> Frames] :
          /\ stream' = stream \o new
          /\ ProcessIncoming(stream \o new, arrived + n)
    BY <2>1
  <2>3. \A i \in 1 .. parsed : stream'[i] = stream[i]
    BY <1>0, <2>2, StreamGrows
  <2> DEFINE k == parsed + 1
             f == stream'[k]
  <2>4. ProcessIncoming(stream', arrived + n)
    BY <2>2
  <2>5. CASE UNCHANGED <<parsed, frag, delivered>> /\ (handler' => handler)
    BY <1>0, <2>3, <2>5, NoDataKeeps
  <2>6. CASE parsed' = k /\ DataFrame(f, k)
    BY <1>0, <2>3, <2>6, DataFrameAssembles
  <2>7. CASE /\ parsed' = k /\ UNCHANGED <<frag, delivered>>
             /\ handler' => handler /\ IsControl(f)
    BY <1>0, <2>3, <2>7, NoDataKeeps
  <2> QED
    BY <2>4, <2>5, <2>6, <2>7 DEF ProcessIncoming, EndAfterError, PongFrame,
        PingFrame, CloseFrame, BadFrame, IsControl
<1>2. CASE OnReadError \/ Send \/ Close \/ RunPost \/ OnStep \/ Stop
  <2>1. UNCHANGED readVars
    BY <1>2 DEF OnReadError, Send, Close, RunPost, OnStep, Stop
  <2>2. handler' => handler
    BY <1>2 DEF OnReadError, Send, Close, RunPost, OnStep, OnStepInTime, OnStepTimeout, Stop
  <2> QED BY <1>a, <2>1, <2>2
<1>3. ASSUME NEW outcome \in {"ok", "error"},
             ReadCompletes(outcome) \/ \E o \in ops : WriteCompletes(o, outcome)
      PROVE  MessageInv'
  BY <1>a, <1>3 DEF ReadCompletes, WriteCompletes
<1>4. ASSUME NEW o \in ops, OnWrite(o) \/ OnWriteError(o) PROVE MessageInv'
  BY <1>a, <1>4 DEF OnWrite, OnWriteError
<1>5. CASE UNCHANGED vars
  BY <1>a, <1>5 DEF vars
<1> QED BY <1>1, <1>2, <1>3, <1>4, <1>5 DEF Next

-----------------------------------------------------------------------------
(* The theorems.                                                           *)

\* The invariant holds of a connection that has just started, and no step of
\* anyone breaks it.
LEMMA Inductive == Spec => []IInv
<1>1. Init => IInv
  <2> SUFFICES ASSUME Init PROVE IInv
    OBVIOUS
  <2> USE DEF Init
  <2>a. /\ SafeWrite \in BOOLEAN /\ split \in BOOLEAN /\ SafeRead \in BOOLEAN
        /\ open \in BOOLEAN /\ stopped \in BOOLEAN /\ handler \in BOOLEAN
        /\ closedSelf \in BOOLEAN /\ handler /\ ~SafeRead
    OBVIOUS
  <2>1. WriteInv
    <3>1. IsFiniteSet(ops) /\ Cardinality(ops) = 0
      BY FS_EmptySet
    <3> QED BY <2>a, <3>1 DEF WriteInv, Writing
  <2>2. ReadInv
    <3>1. Len(stream) = 0 /\ stream \in Seq(Frames) /\ FramesIn(arrived) = 0
      BY DEF FramesIn
    <3> QED BY <2>a, <3>1, WSAssumption DEF ReadInv, WSAssumption
  <2>3. LifeInv
    BY <2>a DEF LifeInv
  <2>4. MessageInv
    <3>1. DataIn(parsed) = {} /\ Delivered = {} /\ Within(frag) = {}
      BY DEF DataIn, Delivered, Within
    <3> QED BY <3>1 DEF MessageInv, IsBegun
  <2> QED BY <2>1, <2>2, <2>3, <2>4 DEF IInv
<1>2. IInv /\ [Next]_vars => IInv'
  BY WSAssumption, WriteStep, ReadStep, LifeStep, MessageStep DEF IInv
<1> QED BY <1>1, <1>2, PTL DEF Spec

\* Every variable keeps its type; in particular a block is released only after
\* it was popped, and the frames consumed are among those that have arrived.
THEOREM TypeCorrect == Spec => []TypeOK
<1>1. IInv => TypeOK
  <2> SUFFICES ASSUME IInv PROVE TypeOK
    OBVIOUS
  <2> USE DEF IInv
  <2>1. MaxEvents \in Nat
    BY WSAssumption DEF WSAssumption
  <2>2. sends \in 0 .. MaxEvents /\ parsed \in 0 .. MaxEvents /\ arrived \in 0 .. 2 * MaxEvents
    BY <2>1 DEF ReadInv, FramesIn
  <2>3. released \in 0 .. popped
    BY FS_CardinalityType DEF WriteInv, Writing
  <2>4. frag \in Seq(1 .. MaxEvents) /\ delivered \in Seq(Seq(1 .. MaxEvents))
    <3>1. 1 .. parsed \subseteq 1 .. MaxEvents
      BY <2>1, <2>2
    <3>2. Seq(1 .. parsed) \subseteq Seq(1 .. MaxEvents)
      BY <3>1, SeqMonotonic
    <3> QED BY <3>2, SeqMonotonic DEF MessageInv
  <2>5. /\ {SafeRead, SafeWrite, handler, open, stopped, closedSelf, split} \subseteq BOOLEAN
        /\ SilentTime \in 0 .. MaxSilentTime + 1 /\ stream \in Seq(Frames)
        /\ waiting \in Nat /\ popped \in Nat
        /\ readOp \in {"none", "pending", "ok", "error"}
        /\ posts \in Seq({"write", "close"})
        /\ life \in {"alive", "deleted", "crashed"} /\ told \in Nat
    BY DEF WriteInv, ReadInv, LifeInv
  <2>6. ops \subseteq [block : 1 .. popped, outcome : {"pending", "ok", "error"}]
    BY DEF WriteInv, Writing, Outcomes
  <2> QED BY <2>2, <2>3, <2>4, <2>5, <2>6 DEF TypeOK
<1> QED BY <1>1, Inductive, PTL

\* Whatever ends the connection first, a close frame, a protocol, read or write
\* error, the timeout or the stopping of the server, OnClose() is called at most
\* once, and it has been called, or the handler has closed, before the object
\* goes.
THEOREM ToldOnce == Spec => []ToldOnceInTime
<1>1. IInv => ToldOnceInTime
  BY DEF IInv, LifeInv, ToldOnceInTime
<1> QED BY <1>1, Inductive, PTL

\* As long as each StartAsyncWrite() popped one block there is one async_write
\* at a time, of a block that is not released yet.
THEOREM OneWrite == Spec => []OneWriteAtATime
<1>1. IInv => OneWriteAtATime
  <2> SUFFICES ASSUME IInv, ~split
               PROVE  Cardinality(ops) <= 1 /\ \A o \in ops : o.block > released
    BY DEF OneWriteAtATime
  <2>1. /\ popped \in Nat /\ released \in Nat
        /\ IsFiniteSet(ops) /\ Cardinality(ops) + released <= popped
        /\ \A o \in ops : o.block = popped
        /\ \A o, p \in ops : o = p
    BY DEF IInv, WriteInv, Writing
  <2>2. CASE ops = {}
    BY <2>2, FS_EmptySet
  <2>3. CASE ops # {}
    <3>1. PICK o \in ops : ops = {o}
      BY <2>1, <2>3, Zenon
    <3>2. Cardinality(ops) = 1
      BY <3>1, FS_Singleton
    <3> QED BY <2>1, <3>2
  <2> QED BY <2>2, <2>3
<1> QED BY <1>1, Inductive, PTL

\* The object is not deleted while its read or a write can still call back, as
\* long as each StartAsyncWrite() popped one block and no posted call is queued.
THEOREM DeletedSafely == Spec => DeletedWhenSafe
<1> DEFINE Safe == life = "alive" /\ life' = "deleted" /\ ~split /\ posts = << >>
                     => readOp = "none" /\ ops = {}
<1>1. IInv /\ [Next]_vars => [Safe]_vars
  <2> SUFFICES ASSUME IInv, Next, life = "alive", life' = "deleted", ~split
               PROVE  readOp = "none" /\ ops = {}
    OBVIOUS
  <2>1. OnStep
    BY DEF Next, ReadCompletes, WriteCompletes, OnRead, ProcessIncoming, EndAfterError,
           DataFrame, PongFrame, PingFrame, CloseFrame, BadFrame, OnReadError, OnWrite,
           OnWriteError, Send, Close, RunPost, Stop
  <2>2. SafeRead /\ SafeWrite
    BY <2>1 DEF OnStep, OnStepInTime, OnStepTimeout, LifeAfterStep, Deletable
  <2> QED BY <2>2 DEF IInv, ReadInv, WriteInv, Writing
<1> QED BY <1>1, Inductive, PTL DEF Spec, DeletedWhenSafe

\* The messages handed to the handler are the fragments and the whole frames
\* that were sent, each once, in their order, whatever stands between them.
THEOREM MessagesCorrect == Spec => []MessagesAssembled
<1>1. IInv => MessagesAssembled
  <2> SUFFICES ASSUME MessageInv PROVE MessagesAssembled
    BY DEF IInv
  <2>1. DOMAIN delivered = 1 .. Len(delivered)
    BY DEF MessageInv
  <2>2. \A m \in Delivered : IsMessage(m)
    BY <2>1 DEF MessageInv, Delivered
  <2>3. \A i, j \in DOMAIN delivered :
          i < j => delivered[i][Len(delivered[i])] < delivered[j][1]
    BY <2>1 DEF MessageInv, LastOf
  <2> QED BY <2>2, <2>3 DEF MessageInv, MessagesAssembled
<1> QED BY <1>1, Inductive, PTL
=============================================================================
