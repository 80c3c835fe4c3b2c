--------------------------- MODULE WriteBuffQueue ---------------------------
(***************************************************************************)
(* UD::Comm::WriteBuffQueue (Common/WriteBuffQueue.h): the write queue of  *)
(* both connection types.  Blocks live in a static byte ring (WriteBuff)   *)
(* or in buffers of the heap; a run of blocks that touch in the ring is    *)
(* written with one call.                                                  *)
(*                                                                         *)
(* Memory is one array of cells: 0..StaticSize-1 is WriteBuff, and the     *)
(* heap buffers start at the addresses of HeapBases.  A pointer is a cell  *)
(* number.  A cell that belongs to no block holds Garbage, so a block that *)
(* is overlapped, or used after its release, is seen in its contents.      *)
(***************************************************************************)
EXTENDS Integers, Sequences, FiniteSets, SequencesExt

CONSTANTS StaticSize,  \* sizeof(WriteBuff)
          Roundup,     \* granularity of a heap buffer (256)
          MaxLen,      \* bound on the length passed to Allocate()
          MaxHeap,     \* bound on the number of heap buffers
          MaxQueue,    \* bound on the number of queued blocks
          ByteNames    \* number of names for bytes (see ByteFifo)

RoundUp(v) == v + ((-v) % Roundup)       \* ROUNDUP_POWEROFTWO
HeapBases == {StaticSize + k * RoundUp(MaxLen) : k \in 0 .. MaxHeap - 1}
Cells == 0 .. StaticSize + MaxHeap * RoundUp(MaxLen) - 1

ASSUME QueueAssumption ==
  /\ StaticSize \in Nat \ {0} /\ Roundup \in Nat \ {0}
  /\ MaxLen \in Nat \ {0} /\ MaxHeap \in Nat /\ MaxQueue \in Nat
  /\ ByteNames \in Nat \ {0}

VARIABLES
  FIFOFreeBegin, FIFOUsedBegin, LastAllocLength,
  OutBuffA,        \* sequence of blocks, see Block
  FirstPendingI,
  FreeBuffList,    \* sequence of heap buffers in store
  mem,             \* contents of the cells
  nextByte         \* name of the next byte a caller commits

fifo == <<FIFOFreeBegin, FIFOUsedBegin>>
vars == <<fifo, LastAllocLength, OutBuffA, FirstPendingI, FreeBuffList, mem,
          nextByte>>

Garbage == -1
States == {"ALLOCATED", "PENDING", "WRITING"}
Block == [buff : Cells, len : 1 .. StaticSize + MaxLen, alloc : Nat,
          state : States]
DynBuffer == [buff : HeapBases, len : Nat]

IsStaticBuffer(b) == b.buff < StaticSize
Region(b) == b.buff .. b.buff + b.len - 1
IsAllocated ==
  OutBuffA # << >> /\ Last(OutBuffA).state = "ALLOCATED"

\* Drops what the cells of a set hold.
Scrub(cells) == [c \in Cells |-> IF c \in cells THEN Garbage ELSE mem[c]]

-----------------------------------------------------------------------------
Init ==
  /\ FIFOFreeBegin = 0 /\ FIFOUsedBegin = 0 /\ LastAllocLength = 0
  /\ OutBuffA = << >> /\ FirstPendingI = 0 /\ FreeBuffList = << >>
  /\ mem = [c \in Cells |-> Garbage] /\ nextByte = 0

\* GetContinousFreeFIFOLength(): the free length at FIFOFreeBegin, and at the
\* beginning of WriteBuff; one guard byte keeps a full ring from looking empty.
FromBeginUnguarded ==                            \* a slip: no guard byte
  IF FIFOFreeBegin >= FIFOUsedBegin THEN StaticSize - FIFOFreeBegin
  ELSE FIFOUsedBegin - FIFOFreeBegin
FromBegin ==
  IF FIFOFreeBegin >= FIFOUsedBegin
    THEN StaticSize - FIFOFreeBegin - (IF FIFOUsedBegin = 0 THEN 1 ELSE 0)
    ELSE FIFOUsedBegin - FIFOFreeBegin - 1
FromFIFOBegin ==
  IF FIFOFreeBegin >= FIFOUsedBegin /\ FIFOUsedBegin > 0
    THEN FIFOUsedBegin - 1 ELSE 0

\* The caller is taken to fill all of the block it was given.
Fill(ptr, len) ==
  mem' = [c \in Cells |-> IF c >= ptr /\ c < ptr + len
                            THEN (nextByte + (c - ptr)) % ByteNames
                            ELSE mem[c]]

NewBlock(ptr, len, alloc) ==
  Append(OutBuffA, [buff |-> ptr, len |-> len, alloc |-> alloc,
                    state |-> "ALLOCATED"])

\* A block that follows the last pending block in the ring is appended to it.
CanExtendAny(ptr) ==                             \* a slip: state not checked
  /\ OutBuffA # << >>
  /\ IsStaticBuffer(Last(OutBuffA))
  /\ Last(OutBuffA).buff + Last(OutBuffA).len = ptr
CanExtend(ptr) ==
  /\ OutBuffA # << >>
  /\ LET last == Last(OutBuffA) IN
       /\ last.state = "PENDING"
       /\ IsStaticBuffer(last)
       /\ last.buff + last.len = ptr
ExtendedPending(len) ==                          \* a slip: state not changed
  [OutBuffA EXCEPT ![Len(OutBuffA)].len = @ + len]
Extended(len) ==
  [OutBuffA EXCEPT ![Len(OutBuffA)].len = @ + len,
                   ![Len(OutBuffA)].state = "ALLOCATED"]

PushStatic(ptr, len) ==
  /\ OutBuffA' = IF CanExtend(ptr) THEN Extended(len)
                                   ELSE NewBlock(ptr, len, len)
  /\ Fill(ptr, len)
  /\ UNCHANGED FreeBuffList

AllocateStatic(len) ==
  /\ len < StaticSize
  /\ \/ /\ len <= FromBegin
        /\ FIFOFreeBegin' = (FIFOFreeBegin + len) % StaticSize
        /\ PushStatic(FIFOFreeBegin, len)
     \/ /\ len > FromBegin /\ len <= FromFIFOBegin
        /\ FIFOFreeBegin' = len
        /\ PushStatic(0, len)

\* The buffers in store that are long enough, and the first of the shortest.
Fitting(len) == {i \in DOMAIN FreeBuffList : FreeBuffList[i].len >= len}
Closest(len) ==
  CHOOSE i \in Fitting(len) : \A j \in Fitting(len) :
    \/ FreeBuffList[i].len < FreeBuffList[j].len
    \/ FreeBuffList[i].len = FreeBuffList[j].len /\ i <= j

StoreKeeps(i) == FreeBuffList                    \* a slip: not erased
StoreWithout(i) == RemoveAt(FreeBuffList, i)

InUse == {FreeBuffList[i].buff : i \in DOMAIN FreeBuffList}
         \union {OutBuffA[i].buff : i \in DOMAIN OutBuffA}

AllocateHeap(len) ==
  /\ len >= StaticSize \/ (len > FromBegin /\ len > FromFIFOBegin)
  /\ UNCHANGED FIFOFreeBegin
  /\ IF Fitting(len) # {}
       THEN LET d == FreeBuffList[Closest(len)] IN
            /\ OutBuffA' = NewBlock(d.buff, len, d.len)
            /\ Fill(d.buff, len)
            /\ FreeBuffList' = StoreWithout(Closest(len))
       ELSE /\ HeapBases \ InUse # {}
            /\ LET ptr == CHOOSE p \in HeapBases \ InUse :
                            \A q \in HeapBases \ InUse : p <= q
               IN OutBuffA' = NewBlock(ptr, len, RoundUp(len)) /\ Fill(ptr, len)
            /\ UNCHANGED FreeBuffList

\* Callers commit an allocation before they make the next one, and before
\* anything is popped: the HTTP connection does both in its coroutine, the
\* WebSocket connection under SendBuffMtx.
Allocate(len) ==
  /\ ~IsAllocated /\ Len(OutBuffA) < MaxQueue
  /\ AllocateStatic(len) \/ AllocateHeap(len)
  /\ LastAllocLength' = len
  /\ UNCHANGED <<FIFOUsedBegin, FirstPendingI, nextByte>>

\* FIFOFreeBegin stepped back by n cells.
StepBackFlat(n) == FIFOFreeBegin - n             \* a slip: no wrap
StepBack(n) == IF FIFOFreeBegin # 0 THEN FIFOFreeBegin - n ELSE StaticSize - n

\* Commit(len): len bytes of the allocation are kept, none for Deallocate().
CommitKeep(b, kept) ==
  OutBuffA' = IF kept = 0 THEN Front(OutBuffA)
              ELSE [OutBuffA EXCEPT ![Len(OutBuffA)].len = kept,
                                    ![Len(OutBuffA)].state = "PENDING"]

Commit(len) ==
  /\ IsAllocated /\ len <= LastAllocLength
  /\ LET b == Last(OutBuffA)
         kept == b.len - (LastAllocLength - len)
     IN /\ CommitKeep(b, kept)
        /\ mem' = Scrub((b.buff + kept) .. (b.buff + b.len - 1))
        /\ FIFOFreeBegin' = IF IsStaticBuffer(b) /\ len < LastAllocLength
                              THEN StepBack(LastAllocLength - len)
                              ELSE FIFOFreeBegin
        /\ FreeBuffList' =
             IF ~IsStaticBuffer(b) /\ kept = 0
               THEN Append(FreeBuffList, [buff |-> b.buff, len |-> b.alloc])
               ELSE FreeBuffList
  /\ nextByte' = (nextByte + len) % ByteNames
  /\ UNCHANGED <<FIFOUsedBegin, LastAllocLength, FirstPendingI>>

\* Pop() looks at FirstPendingI only, not at the state of the block.
Pop ==
  /\ ~IsAllocated
  /\ FirstPendingI < Len(OutBuffA)
  /\ OutBuffA' = [OutBuffA EXCEPT ![FirstPendingI + 1].state = "WRITING"]
  /\ FirstPendingI' = FirstPendingI + 1
  /\ UNCHANGED <<fifo, LastAllocLength, FreeBuffList, mem, nextByte>>

\* The end of a released block of the ring is the ring's new first used cell.
UsedAfterAll(b) == FIFOFreeBegin                 \* a slip: releases all
UsedAfter(b) == (b.buff + b.len) % StaticSize

Release ==
  /\ OutBuffA # << >> /\ Head(OutBuffA).state = "WRITING"
  /\ OutBuffA' = Tail(OutBuffA)
  /\ FirstPendingI' = FirstPendingI - 1
  /\ LET b == Head(OutBuffA) IN
       /\ mem' = Scrub(Region(b))
       /\ IF IsStaticBuffer(b)
            THEN /\ IF UsedAfter(b) = FIFOFreeBegin
                      THEN FIFOUsedBegin' = 0 /\ FIFOFreeBegin' = 0
                      ELSE FIFOUsedBegin' = UsedAfter(b) /\ UNCHANGED FIFOFreeBegin
                 /\ UNCHANGED FreeBuffList
            ELSE /\ FreeBuffList' =
                      Append(FreeBuffList, [buff |-> b.buff, len |-> b.alloc])
                 /\ UNCHANGED fifo
  /\ UNCHANGED <<LastAllocLength, nextByte>>

\* No caller in the repository resets a queue.  With releaseDynamic the heap
\* buffers are deleted, without it they go to the store.
HeapBlocks == {i \in DOMAIN OutBuffA : ~IsStaticBuffer(OutBuffA[i])}
Reset(releaseDynamic) ==
  /\ FIFOFreeBegin' = 0 /\ FIFOUsedBegin' = 0 /\ LastAllocLength' = 0
  /\ \E order \in [1 .. Cardinality(HeapBlocks) -> HeapBlocks] :
       /\ \A i, j \in DOMAIN order : i < j => order[i] < order[j]
       /\ FreeBuffList' =
            IF releaseDynamic THEN << >>
            ELSE FreeBuffList \o [i \in DOMAIN order |->
                   LET b == OutBuffA[order[i]] IN [buff |-> b.buff, len |-> b.alloc]]
  /\ OutBuffA' = << >> /\ FirstPendingI' = 0
  /\ mem' = Scrub(Cells)
  /\ UNCHANGED nextByte

Next ==
  \/ \E len \in 1 .. MaxLen : Allocate(len)
  \/ \E len \in 0 .. MaxLen : Commit(len)
  \/ Pop
  \/ Release
  \/ \E releaseDynamic \in BOOLEAN : Reset(releaseDynamic)

Spec == Init /\ [][Next]_vars

-----------------------------------------------------------------------------
\* Every variable keeps its type: both ring pointers stay inside WriteBuff, and
\* FirstPendingI inside the queue.
TypeOK ==
  /\ FIFOFreeBegin \in 0 .. StaticSize - 1
  /\ FIFOUsedBegin \in 0 .. StaticSize - 1
  /\ LastAllocLength \in 0 .. MaxLen
  /\ OutBuffA \in Seq(Block) /\ FirstPendingI \in 0 .. Len(OutBuffA)
  /\ FreeBuffList \in Seq(DynBuffer)
  /\ mem \in [Cells -> (0 .. ByteNames - 1) \union {Garbage}]
  /\ nextByte \in 0 .. ByteNames - 1

\* The states stand in the order of the queue: the blocks being written come
\* first, and only the last block can be waiting for its Commit().  Release()
\* and Pop() rely on it: neither looks further than one index.
StatesInOrder ==
  \A i \in DOMAIN OutBuffA :
     /\ OutBuffA[i].state = "WRITING" <=> i <= FirstPendingI
     /\ OutBuffA[i].state = "ALLOCATED" => i = Len(OutBuffA)

\* No two queued blocks share a cell, and none leaves WriteBuff or its heap
\* buffer: what one message writes never shows up in another.
BlocksApart ==
  /\ \A i, j \in DOMAIN OutBuffA :
        i # j => Region(OutBuffA[i]) \intersect Region(OutBuffA[j]) = {}
  /\ \A i \in DOMAIN OutBuffA :
        LET b == OutBuffA[i] IN
        IF IsStaticBuffer(b) THEN b.buff + b.len <= StaticSize
                             ELSE b.len <= b.alloc

\* A heap buffer is either queued once or in store once: none is handed out
\* while it is written from, or deleted twice.
HeapOwnedOnce ==
  /\ IsInjective(FreeBuffList)
  /\ \A i \in DOMAIN FreeBuffList, j \in DOMAIN OutBuffA :
        FreeBuffList[i].buff # OutBuffA[j].buff
  /\ \A i, j \in DOMAIN FreeBuffList :
        FreeBuffList[i].buff = FreeBuffList[j].buff => i = j

\* async_write() holds a pointer and a length: a block handed out by Pop()
\* keeps both, and its bytes, until its own Release().
WritingUntouched ==
  [][\A i \in 1 .. FirstPendingI :
       LET b == OutBuffA[i]
       IN ~(\E r \in BOOLEAN : Reset(r)) =>
          \/ Release /\ i = 1
          \/ /\ \E j \in {i, i - 1} \intersect DOMAIN OutBuffA' : OutBuffA'[j] = b
             /\ \A c \in Region(b) : mem'[c] = mem[c]]_vars

\* The bytes a connection hands out are those committed, in that order.
Contents(b, n) == [k \in 1 .. n |-> mem[b.buff + k - 1]]
CommittedLength(b) ==
  IF b.state = "ALLOCATED" /\ IsStaticBuffer(b) THEN b.len - LastAllocLength
  ELSE IF b.state = "ALLOCATED" THEN 0 ELSE b.len
Waiting == SubSeq(OutBuffA, FirstPendingI + 1, Len(OutBuffA))

WaitingBytes == [i \in DOMAIN Waiting |->
                   Contents(Waiting[i], CommittedLength(Waiting[i]))]
ToSend == FlattenSeq(WaitingBytes)
InFlight == [i \in 1 .. FirstPendingI |-> Contents(OutBuffA[i], OutBuffA[i].len)]

Fifo == INSTANCE ByteFifo WITH toSend <- ToSend, inFlight <- InFlight

\* The queue implements a plain first-in first-out byte queue.
IsByteFifo == Fifo!Spec
=============================================================================
