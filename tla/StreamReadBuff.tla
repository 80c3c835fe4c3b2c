--------------------------- MODULE StreamReadBuff ---------------------------
(***************************************************************************)
(* UD::Comm::StreamReadBuff (Common/StreamReadBuff.h), the growing read    *)
(* buffer of the HTTP connection and of the WebSocket connection.  Its one *)
(* user parses from it and fills it: the methods never overlap.            *)
(*                                                                         *)
(* The bytes of the network stream are numbered 0, 1, 2, ... in order of   *)
(* arrival; a cell of the buffer holds the number of the byte in it.       *)
(* Pointers are offsets from ReadBuff.                                     *)
(***************************************************************************)
EXTENDS Integers

CONSTANTS StaticSize,  \* StaticReadBuffSize, the size of the built-in buffer
          Roundup,     \* 2^BUFFER_ROUNDUP_TARGET, granularity of a new buffer
          MaxLen,      \* bound on the length a caller passes to a method
          MaxBytes,    \* bound on the length of the stream
          MaxBuff      \* bound on the size of the buffer (the memory there is)

ASSUME BuffAssumption ==
  /\ StaticSize \in Nat \ {0} /\ Roundup \in Nat \ {0}
  /\ MaxLen \in Nat /\ MaxBytes \in Nat /\ MaxBuff \in Nat
  /\ StaticSize <= MaxBuff

\* All lengths are "unsigned int": no sum of the methods reaches 2^32, that is,
\* a buffer of 2 GiB and more is out of the model.
ASSUME WidthAssumption == MaxBuff + MaxLen < 2147483647

VARIABLES
  buff,            \* contents of ReadBuff, [0..BuffSize-1 -> Byte]
  BuffSize,        \* ReadBuffEnd-ReadBuff
  ReadPos, RelevantLength, DataEndPos, ReqDataEndPos,
  received,        \* history: number of bytes read from the stream
  need,            \* history: argument of the last RequestData() that
                   \*   returned false, 0 when nothing is requested
  asked            \* history: RequestData() returned false, nothing read since

pos  == <<ReadPos, RelevantLength, DataEndPos, ReqDataEndPos>>
hist == <<received, need, asked>>
vars == <<buff, BuffSize, pos, hist>>

Garbage == -1                            \* a cell nothing was read into
Byte == Nat \union {Garbage}
Available == DataEndPos - ReadPos        \* GetAvailableDataLength()
FrontSpacePlus == ReadPos + RelevantLength           \* a slip: wrong sign
FrontSpace == ReadPos - RelevantLength
FreeLength == BuffSize - DataEndPos      \* OutFreeLength of GetReadInfo()

RoundUp(v) == v + ((-v) % Roundup)       \* ROUNDUP_POWEROFTWO
AtLeast(a, b) == IF a >= b THEN a ELSE b
AtMostUnclamped(a, b) == a                           \* a slip: no clamp
AtMost(a, b) == IF a <= b THEN a ELSE b

Init ==
  /\ BuffSize = StaticSize
  /\ buff = [i \in 0 .. StaticSize - 1 |-> Garbage]
  /\ ReadPos = 0 /\ RelevantLength = 0 /\ DataEndPos = 0 /\ ReqDataEndPos = 0
  /\ received = 0 /\ need = 0 /\ asked = FALSE

\* ~asked: both users read as soon as RequestData() has returned false
\* (Connection.cpp:293-294, 344-345; WSConnection.cpp:139-141).

\* A dynamically allocated buffer is retained.
Reset ==
  /\ ~asked
  /\ ReadPos' = 0 /\ RelevantLength' = 0
  /\ DataEndPos' = 0 /\ ReqDataEndPos' = 0
  /\ need' = 0
  /\ UNCHANGED <<buff, BuffSize, received, asked>>

\* Consumes everything when asked for more than there is.
Consume(n, isRelevant) ==
  LET taken == AtMost(n, Available) IN
  /\ ~asked
  /\ ReadPos' = ReadPos + taken
  /\ RelevantLength' = RelevantLength + (IF isRelevant THEN taken ELSE 0)
  /\ need' = 0
  /\ UNCHANGED <<buff, BuffSize, DataEndPos, ReqDataEndPos, received, asked>>

ResetRelevant ==
  /\ ~asked
  /\ RelevantLength > 0 /\ ReadPos > 0
  /\ RelevantLength' = 0
  /\ IF ReadPos = DataEndPos THEN ReadPos' = 0 /\ DataEndPos' = 0
                             ELSE UNCHANGED <<ReadPos, DataEndPos>>
  /\ need' = 0
  /\ UNCHANGED <<buff, BuffSize, ReqDataEndPos, received, asked>>

\* Drops the first FrontSpace cells of ReadBuff, into a buffer of newSize
\* cells: memmove() within the buffer, or memcpy() to a new one.
MovedEndStale == DataEndPos                          \* a slip: not moved
MovedEnd == DataEndPos - FrontSpace
\* A slip: copies the unconsumed bytes only.
MovedCellUnread(newSize, i) ==
  IF i < Available THEN buff[i + FrontSpace] ELSE Garbage
MovedCell(newSize, i) ==
  IF i < MovedEnd THEN buff[i + FrontSpace]
  ELSE IF newSize = BuffSize THEN buff[i] ELSE Garbage

MoveData(newSize) ==
  /\ BuffSize' = newSize
  /\ buff' = [i \in 0 .. newSize - 1 |-> MovedCell(newSize, i)]
  /\ ReadPos' = ReadPos - FrontSpace
  /\ DataEndPos' = MovedEnd

\* The missing length is added to the old ReqDataEndPos, not to DataEndPos.
RequestedEndNoFront(n) == RelevantLength + n         \* a slip: no front space
RequestedEnd(n) == ReqDataEndPos + (n - Available)
\* The size of the buffer RequestData(n) leaves behind.
GrownSizeTight(n) ==                                 \* a slip: off by one
  IF RequestedEnd(n) - DataEndPos <= FrontSpace + FreeLength + 1
    THEN BuffSize
    ELSE RoundUp(RequestedEnd(n) - FrontSpace)
GrownSize(n) ==
  IF RequestedEnd(n) - DataEndPos <= FrontSpace + FreeLength
    THEN BuffSize
    ELSE RoundUp(RequestedEnd(n) - FrontSpace)

RequestData(n) ==
  /\ ~asked
  /\ asked' = (Available < n)
  /\ UNCHANGED <<RelevantLength, received>>
  /\ \/ /\ Available >= n
        /\ need' = 0
        /\ UNCHANGED <<buff, BuffSize, ReadPos, DataEndPos, ReqDataEndPos>>
     \/ /\ Available < n
        /\ need' = n
        /\ \/ /\ RequestedEnd(n) <= BuffSize
              /\ ReqDataEndPos' = RequestedEnd(n)
              /\ UNCHANGED <<buff, BuffSize, ReadPos, DataEndPos>>
           \/ /\ RequestedEnd(n) > BuffSize
              /\ GrownSize(n) <= MaxBuff
              /\ MoveData(GrownSize(n))
              /\ ReqDataEndPos' = RequestedEnd(n) - FrontSpace

\* async_read_some() into GetReadInfo()'s buffer, then OnNewData(n).  The read
\* never returns more than the free length it was given, so the clamp at the
\* head of OnNewData() does not apply; it returns 0 only for an empty buffer.
OnNewData(n) ==
  /\ n <= FreeLength /\ (n = 0 <=> FreeLength = 0)
  /\ received + n <= MaxBytes
  /\ buff' = [i \in 0 .. BuffSize - 1 |->
                IF i >= DataEndPos /\ i < DataEndPos + n
                  THEN received + (i - DataEndPos) ELSE buff[i]]
  /\ received' = received + n
  /\ DataEndPos' = DataEndPos + n
  /\ asked' = FALSE
  /\ ReqDataEndPos' = AtLeast(ReqDataEndPos, DataEndPos + n)
  /\ UNCHANGED <<BuffSize, ReadPos, RelevantLength, need>>

Next ==
  \/ Reset
  \/ ResetRelevant
  \/ \E n \in 0 .. MaxLen :
        \/ \E isRelevant \in BOOLEAN : Consume(n, isRelevant)
        \/ RequestData(n)
        \/ OnNewData(n)

Spec == Init /\ [][Next]_vars

-----------------------------------------------------------------------------
\* Every variable keeps its type: the unsigned positions never go below zero.
TypeOK ==
  /\ BuffSize \in Nat
  /\ buff \in [0 .. BuffSize - 1 -> Byte]
  /\ ReadPos \in Nat /\ RelevantLength \in Nat
  /\ DataEndPos \in Nat /\ ReqDataEndPos \in Nat
  /\ received \in Nat /\ need \in Nat
  /\ asked \in BOOLEAN

\* The unsigned subtractions of the methods never wrap, and every pointer the
\* methods hand out lies within the buffer, whichever buffer that is.
PositionsInBuffer ==
  /\ RelevantLength <= ReadPos
  /\ ReadPos <= DataEndPos
  /\ DataEndPos <= ReqDataEndPos
  /\ ReqDataEndPos <= BuffSize

\* Kept and available bytes together are the last bytes received, in order
\* and without a gap: a memmove() or a reallocation loses and repeats none.
WindowIsStream ==
  \A i \in 0 .. BuffSize - 1 :
     FrontSpace <= i /\ i < DataEndPos =>
        buff[i] = received - (DataEndPos - i)

\* After a RequestData() that returned false there is room for all that is
\* missing.  "while (!RequestData(n)) ContinueRead()" (Connection.cpp:293) then
\* never meets FreeLength=0, where ContinueRead() returns at once without
\* suspending and the loop would spin in the server's only thread.
RoomForRequest == need > 0 => FreeLength >= need - Available

\* Only consuming (or a full Reset) moves the parser in the stream, and it
\* never moves back: no byte is parsed twice.
ParserPos == received - Available
ParserNeverRewinds == [][ParserPos' >= ParserPos]_vars

\* Receiving and making room leave the kept bytes and the parser's place
\* alone: while data is requested the parser sees the same bytes.
RequestKeepsPlace ==
  [][need' > 0 => /\ ParserPos' = ParserPos
                  /\ RelevantLength' = RelevantLength]_vars

=============================================================================
