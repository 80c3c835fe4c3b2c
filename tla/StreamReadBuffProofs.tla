------------------------ MODULE StreamReadBuffProofs ------------------------
(***************************************************************************)
(* For every size of the built-in buffer, granularity and stream: the      *)
(* positions of StreamReadBuff stay inside the buffer it currently has, no *)
(* byte is lost or repeated when it moves or grows, and a request that     *)
(* returned false has room for what is missing.                            *)
(***************************************************************************)
EXTENDS StreamReadBuff, TLAPS

\* ROUNDUP_POWEROFTWO never returns less than it was given, so a new buffer is
\* large enough for what it was computed from.
LEMMA RoundUpBounds ==
  ASSUME NEW v \in Int
  PROVE  RoundUp(v) \in Int /\ RoundUp(v) >= v
BY BuffAssumption DEF RoundUp

\* The four are inductive together: the window and the room are statements
\* about positions, and need them in order and inside the buffer.
IInv == TypeOK /\ PositionsInBuffer /\ WindowIsStream /\ RoomForRequest

\* The constructor (StreamReadBuff.h:25-27) establishes the invariant.
LEMMA InitIInv == Init => IInv
<1> SUFFICES ASSUME Init PROVE IInv
  OBVIOUS
<1> USE BuffAssumption DEF Init
<1>1. TypeOK
  BY DEF TypeOK, Byte
<1>2. PositionsInBuffer /\ RoomForRequest
  BY DEF PositionsInBuffer, RoomForRequest
<1>3. WindowIsStream
  BY DEF WindowIsStream, FrontSpace
<1> QED BY <1>1, <1>2, <1>3 DEF IInv

\* Consume() moves ReadPos within the data, whatever length it is given.
LEMMA ConsumeIInv ==
  ASSUME IInv, NEW n \in Nat, NEW isRelevant \in BOOLEAN,
         Consume(n, isRelevant)
  PROVE  IInv'
<1> USE BuffAssumption DEF Consume, IInv, Available
<1> DEFINE taken == AtMost(n, DataEndPos - ReadPos)
<1>1. taken \in 0 .. DataEndPos - ReadPos
  BY DEF AtMost, TypeOK, PositionsInBuffer
<1>2. /\ ReadPos' = ReadPos + taken
      /\ RelevantLength' = RelevantLength + (IF isRelevant THEN taken ELSE 0)
  OBVIOUS
<1> HIDE DEF taken
<1>3. TypeOK'
  BY <1>1, <1>2 DEF TypeOK
<1>4. PositionsInBuffer'
  BY <1>1, <1>2 DEF TypeOK, PositionsInBuffer
<1>5. FrontSpace' >= FrontSpace /\ FrontSpace' \in Int
  BY <1>1, <1>2 DEF TypeOK, FrontSpace
<1>6. WindowIsStream'
  BY <1>5 DEF TypeOK, WindowIsStream, FrontSpace
<1>7. RoomForRequest'
  BY DEF RoomForRequest
<1> QED BY <1>3, <1>4, <1>6, <1>7

\* Dropping the kept bytes, and rewinding an exhausted buffer, only shrinks
\* the window.
LEMMA ResetIInv ==
  ASSUME IInv, Reset \/ ResetRelevant
  PROVE  IInv'
<1>1. TypeOK'
  BY DEF IInv, TypeOK, Reset, ResetRelevant
<1>2. PositionsInBuffer'
  BY DEF IInv, TypeOK, PositionsInBuffer, Reset, ResetRelevant
<1>3. CASE Reset
  <2>1. WindowIsStream'
    BY <1>3 DEF Reset, WindowIsStream, FrontSpace
  <2> QED BY <1>1, <1>2, <2>1, <1>3 DEF IInv, Reset, RoomForRequest
<1>4. CASE ResetRelevant
  <2>1. WindowIsStream'
    BY <1>4 DEF IInv, TypeOK, PositionsInBuffer, ResetRelevant,
                WindowIsStream, FrontSpace
  <2> QED BY <1>1, <1>2, <2>1, <1>4 DEF IInv, ResetRelevant, RoomForRequest
<1> QED BY <1>3, <1>4

\* New data continues the window by exactly the bytes read, and shrinks the
\* room by as much as it adds to what is available.
LEMMA OnNewDataIInv ==
  ASSUME IInv, NEW n \in Nat, OnNewData(n)
  PROVE  IInv'
<1> USE BuffAssumption DEF IInv, OnNewData
<1>1. TypeOK'
  <2>1. buff' \in [0 .. BuffSize' - 1 -> Byte]
    BY DEF TypeOK, Byte
  <2>2. BuffSize' \in Nat /\ ReadPos' \in Nat /\ RelevantLength' \in Nat
    BY DEF TypeOK
  <2>3. DataEndPos' \in Nat /\ received' \in Nat
    BY DEF TypeOK
  <2>4. ReqDataEndPos' \in Nat
    BY DEF TypeOK, AtLeast
  <2>5. need' \in Nat /\ asked' \in BOOLEAN
    BY DEF TypeOK
  <2> HIDE DEF OnNewData
  <2> QED BY <2>1, <2>2, <2>3, <2>4, <2>5 DEF TypeOK
<1>2. PositionsInBuffer'
  BY DEF TypeOK, PositionsInBuffer, AtLeast, FreeLength
<1>3. WindowIsStream'
  BY DEF TypeOK, PositionsInBuffer, WindowIsStream, FrontSpace
<1>4. RoomForRequest'
  BY DEF TypeOK, RoomForRequest, FreeLength, Available
<1> QED BY <1>1, <1>2, <1>3, <1>4

\* RequestData() that has to make room: the move, or the new buffer, keeps the
\* whole window, and what results has room for the missing bytes.
LEMMA MakeRoomIInv ==
  ASSUME IInv, NEW n \in 0 .. MaxLen, RequestData(n),
         Available < n, RequestedEnd(n) > BuffSize
  PROVE  IInv'
<1> DEFINE newSize == GrownSize(n)
<1>1. /\ newSize \in Nat
      /\ newSize >= BuffSize
      /\ RequestedEnd(n) - FrontSpace <= newSize
  <2> DEFINE wanted == RequestedEnd(n) - FrontSpace
  <2>1. wanted \in Int /\ wanted > BuffSize - FrontSpace
    BY BuffAssumption DEF IInv, TypeOK, RequestedEnd, Available, FrontSpace
  <2>2. RoundUp(wanted) \in Int /\ RoundUp(wanted) >= wanted
    BY <2>1, RoundUpBounds
  <2>3. CASE RequestedEnd(n) - DataEndPos <= FrontSpace + FreeLength
    BY <2>3, BuffAssumption
       DEF IInv, TypeOK, GrownSize, RequestedEnd, Available, FrontSpace,
           FreeLength
  <2>4. CASE ~(RequestedEnd(n) - DataEndPos <= FrontSpace + FreeLength)
    <3>1. newSize = RoundUp(wanted)
      BY <2>4 DEF GrownSize
    <3>2. wanted > BuffSize
      BY <2>4, BuffAssumption
         DEF IInv, TypeOK, RequestedEnd, Available, FrontSpace, FreeLength
    <3> QED BY <2>1, <2>2, <3>1, <3>2 DEF IInv, TypeOK
  <2> QED BY <2>3, <2>4
<1>2. /\ MoveData(newSize)
      /\ ReqDataEndPos' = RequestedEnd(n) - FrontSpace
      /\ need' = n
      /\ UNCHANGED <<RelevantLength, received>>
  BY BuffAssumption DEF RequestData, IInv, TypeOK, Available, RequestedEnd
<1> HIDE DEF newSize
<1>3. FrontSpace \in Nat /\ Available \in Nat
  BY DEF IInv, TypeOK, PositionsInBuffer, FrontSpace, Available
<1>4. TypeOK'
  <2>1. buff' \in [0 .. newSize - 1 -> Byte]
    BY <1>1, <1>2, <1>3
       DEF IInv, TypeOK, PositionsInBuffer, MoveData, MovedCell, MovedEnd,
           Byte, Garbage, FrontSpace
  <2>2. asked' \in BOOLEAN
    BY DEF RequestData
  <2> QED BY <1>1, <1>2, <1>3, <2>1, <2>2, BuffAssumption
             DEF IInv, TypeOK, PositionsInBuffer, MoveData, MovedEnd,
                 FrontSpace, RequestedEnd, Available, AtLeast
<1>5. PositionsInBuffer'
  BY <1>1, <1>2
     DEF IInv, TypeOK, PositionsInBuffer, MoveData, MovedEnd, FrontSpace,
         RequestedEnd, Available
<1>6. WindowIsStream'
  BY <1>1, <1>2, <1>3
     DEF IInv, TypeOK, PositionsInBuffer, WindowIsStream, MoveData, MovedCell,
         MovedEnd, FrontSpace
<1>7. RoomForRequest'
  BY <1>1, <1>2
     DEF IInv, TypeOK, PositionsInBuffer, RoomForRequest, MoveData, MovedEnd,
         FrontSpace, FreeLength, RequestedEnd, Available
<1> QED BY <1>4, <1>5, <1>6, <1>7 DEF IInv

\* RequestData() that finds the bytes, or finds room for them behind the data.
LEMMA RequestDataIInv ==
  ASSUME IInv, NEW n \in 0 .. MaxLen, RequestData(n)
  PROVE  IInv'
<1>1. CASE Available < n /\ RequestedEnd(n) > BuffSize
  BY <1>1, MakeRoomIInv
<1>2. CASE ~(Available < n /\ RequestedEnd(n) > BuffSize)
  <2> USE <1>2, BuffAssumption DEF IInv, RequestData
  <2>1. UNCHANGED <<buff, BuffSize, ReadPos, DataEndPos, RelevantLength,
                    received>>
    BY DEF TypeOK, Available, RequestedEnd
  <2>2. TypeOK'
    BY <2>1 DEF TypeOK, Available, RequestedEnd, AtLeast
  <2>3. PositionsInBuffer'
    BY <2>1 DEF TypeOK, PositionsInBuffer, Available, RequestedEnd
  <2>4. WindowIsStream'
    BY <2>1 DEF WindowIsStream, FrontSpace
  <2>5. RoomForRequest'
    BY <2>1 DEF TypeOK, PositionsInBuffer, RoomForRequest, Available,
                FreeLength, RequestedEnd
  <2> QED BY <2>2, <2>3, <2>4, <2>5
<1> QED BY <1>1, <1>2

\* One case per method.
LEMMA NextIInv == IInv /\ [Next]_vars => IInv'
<1> SUFFICES ASSUME IInv, [Next]_vars PROVE IInv'
  OBVIOUS
<1>1. CASE Reset \/ ResetRelevant
  BY <1>1, ResetIInv
<1>2. ASSUME NEW n \in 0 .. MaxLen, NEW isRelevant \in BOOLEAN,
             Consume(n, isRelevant)
      PROVE  IInv'
  BY <1>2, ConsumeIInv, BuffAssumption
<1>3. ASSUME NEW n \in 0 .. MaxLen, RequestData(n) PROVE IInv'
  BY <1>3, RequestDataIInv
<1>4. ASSUME NEW n \in 0 .. MaxLen, OnNewData(n) PROVE IInv'
  BY <1>4, OnNewDataIInv, BuffAssumption
<1>5. CASE UNCHANGED vars
  BY <1>5 DEF vars, pos, hist, IInv, TypeOK, PositionsInBuffer,
              WindowIsStream, RoomForRequest, FrontSpace, FreeLength, Available
<1> QED BY <1>1, <1>2, <1>3, <1>4, <1>5 DEF Next

\* The invariant holds in every behaviour.
LEMMA SpecIInv == Spec => []IInv
BY InitIInv, NextIInv, PTL DEF Spec

\* Every variable keeps its type: in particular no position becomes negative,
\* that is, no unsigned subtraction of the methods wraps.
THEOREM SpecTypeOK == Spec => []TypeOK
<1>1. IInv => TypeOK BY DEF IInv
<1> QED BY <1>1, SpecIInv, PTL

\* Every pointer StreamReadBuff hands out lies in the buffer it has then.
THEOREM SpecPositionsInBuffer == Spec => []PositionsInBuffer
<1>1. IInv => PositionsInBuffer BY DEF IInv
<1> QED BY <1>1, SpecIInv, PTL

\* Across memmove() and reallocation the parser sees the stream's last bytes.
THEOREM SpecWindowIsStream == Spec => []WindowIsStream
<1>1. IInv => WindowIsStream BY DEF IInv
<1> QED BY <1>1, SpecIInv, PTL

\* The request loop of ContentHandler() never spins on a full buffer.
THEOREM SpecRoomForRequest == Spec => []RoomForRequest
<1>1. IInv => RoomForRequest BY DEF IInv
<1> QED BY <1>1, SpecIInv, PTL

\* No method takes the parser back in the stream.
THEOREM SpecParserNeverRewinds == Spec => ParserNeverRewinds
<1>1. IInv /\ [Next]_vars => [ParserPos' >= ParserPos]_vars
  <2> SUFFICES ASSUME IInv, Next PROVE ParserPos' >= ParserPos
    OBVIOUS
  <2> USE BuffAssumption DEF IInv, TypeOK, PositionsInBuffer, ParserPos,
                             Available
  <2>1. CASE Reset \/ ResetRelevant
    BY <2>1 DEF Reset, ResetRelevant
  <2>2. ASSUME NEW n \in 0 .. MaxLen, NEW isRelevant \in BOOLEAN,
               Consume(n, isRelevant)
        PROVE  ParserPos' >= ParserPos
    BY <2>2 DEF Consume, AtMost
  <2>3. ASSUME NEW n \in 0 .. MaxLen, RequestData(n)
        PROVE  ParserPos' >= ParserPos
    BY <2>3 DEF RequestData, MoveData, MovedEnd, FrontSpace
  <2>4. ASSUME NEW n \in 0 .. MaxLen, OnNewData(n)
        PROVE  ParserPos' >= ParserPos
    BY <2>4 DEF OnNewData
  <2> QED BY <2>1, <2>2, <2>3, <2>4 DEF Next
<1> QED BY <1>1, SpecIInv, PTL DEF Spec, ParserNeverRewinds

\* While data is requested the bytes the parser stands at stay the same ones.
THEOREM SpecRequestKeepsPlace == Spec => RequestKeepsPlace
<1>1. IInv /\ [Next]_vars =>
        [need' > 0 => /\ ParserPos' = ParserPos
                      /\ RelevantLength' = RelevantLength]_vars
  <2> SUFFICES ASSUME IInv, Next, need' > 0
               PROVE  ParserPos' = ParserPos /\ RelevantLength' = RelevantLength
    OBVIOUS
  <2> USE BuffAssumption DEF IInv, TypeOK, ParserPos, Available
  <2>1. CASE Reset \/ ResetRelevant
    BY <2>1 DEF Reset, ResetRelevant
  <2>2. ASSUME NEW n \in 0 .. MaxLen, NEW isRelevant \in BOOLEAN,
               Consume(n, isRelevant)
        PROVE  FALSE
    BY <2>2 DEF Consume
  <2>3. ASSUME NEW n \in 0 .. MaxLen, RequestData(n)
        PROVE  ParserPos' = ParserPos /\ RelevantLength' = RelevantLength
    BY <2>3 DEF RequestData, MoveData, MovedEnd, FrontSpace
  <2>4. ASSUME NEW n \in 0 .. MaxLen, OnNewData(n)
        PROVE  ParserPos' = ParserPos /\ RelevantLength' = RelevantLength
    BY <2>4 DEF OnNewData
  <2> QED BY <2>1, <2>2, <2>3, <2>4 DEF Next
<1> QED BY <1>1, SpecIInv, PTL DEF Spec, RequestKeepsPlace
=============================================================================
