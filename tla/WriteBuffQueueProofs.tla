------------------------ MODULE WriteBuffQueueProofs ------------------------
(***************************************************************************)
(* For a ring of any size, any number of blocks and heap buffers: blocks   *)
(* never overlap, their states stand in the order of the queue, a heap     *)
(* buffer has one owner, a block that is being written is left alone, and  *)
(* what the connection sees is a first-in first-out queue of bytes.        *)
(***************************************************************************)
EXTENDS WriteBuffQueue, SequenceLemmas, FiniteSetTheorems, TLAPS

End(b) == b.buff + b.len

\* Whether b lies behind the first used cell u, or before it: the ring goes
\* round the end of WriteBuff.
Upper(b, u) == u <= b.buff

\* With used cells from u up to the free cell f: b is one of them, and b stands
\* in front of c.
InRing(b, u, f) ==
  /\ End(b) <= StaticSize
  /\ Upper(b, u) => (u <= f => End(b) <= f)
  /\ ~Upper(b, u) => f < u /\ End(b) <= f
Precedes(b, c, u) ==
  \/ Upper(b, u) /\ ~Upper(c, u)
  \/ (Upper(b, u) <=> Upper(c, u)) /\ End(b) <= c.buff

\* The blocks of the ring stand in it as they stand in the queue.
Ring(q, u, f) ==
  /\ \A i \in 1 .. Len(q) : IsStaticBuffer(q[i]) => InRing(q[i], u, f)
  /\ \A i, j \in 1 .. Len(q) :
       i < j /\ IsStaticBuffer(q[i]) /\ IsStaticBuffer(q[j]) => Precedes(q[i], q[j], u)

\* The heap buffers of the queue and of the store.
Heap(q, store) ==
  /\ \A i \in 1 .. Len(q) :
       ~IsStaticBuffer(q[i]) =>
         /\ q[i].buff \in HeapBases
         /\ q[i].len <= q[i].alloc /\ q[i].len <= MaxLen
  /\ \A i, j \in 1 .. Len(q) :
       ~IsStaticBuffer(q[i]) /\ q[i].buff = q[j].buff => i = j
  /\ \A i \in 1 .. Len(store), j \in 1 .. Len(q) : store[i].buff # q[j].buff
  /\ \A i, j \in 1 .. Len(store) : store[i].buff = store[j].buff => i = j

\* What a Commit() of less than was allocated relies on: the allocation ends at
\* the free cell.
Wrapped(c) == IF c = StaticSize THEN 0 ELSE c
AllocInv ==
  IsAllocated => LET b == Last(OutBuffA) IN
                 /\ LastAllocLength > 0
                 /\ IF IsStaticBuffer(b)
                      THEN LastAllocLength <= b.len /\ FIFOFreeBegin = Wrapped(End(b))
                      ELSE LastAllocLength = b.len

IInv ==
  /\ TypeOK /\ StatesInOrder /\ AllocInv
  /\ Ring(OutBuffA, FIFOUsedBegin, FIFOFreeBegin)
  /\ Heap(OutBuffA, FreeBuffList)

-----------------------------------------------------------------------------
(* The constants.                                                          *)

\* A heap buffer is as long as any allocation, the buffers do not overlap, and
\* they lie behind the ring.
LEMMA Addresses ==
  ASSUME QueueAssumption
  PROVE  /\ RoundUp(MaxLen) \in Nat /\ MaxLen <= RoundUp(MaxLen)
         /\ \A v \in Nat : RoundUp(v) \in Nat /\ v <= RoundUp(v)
         /\ Cells \subseteq Nat /\ HeapBases \subseteq Cells
         /\ \A p \in HeapBases : p \in Nat /\ p >= StaticSize
         /\ \A p, q \in HeapBases : p = q \/ p + MaxLen <= q \/ q + MaxLen <= p
         /\ 0 .. StaticSize - 1 \subseteq Cells
<1> DEFINE R == RoundUp(MaxLen)
<1>0. /\ StaticSize \in Nat \ {0} /\ Roundup \in Nat \ {0} /\ MaxLen \in Nat \ {0}
      /\ MaxHeap \in Nat
  BY DEF QueueAssumption
<1>1. \A v \in Nat : RoundUp(v) \in Nat /\ v <= RoundUp(v)
  <2>1. ASSUME NEW v \in Nat PROVE RoundUp(v) \in Nat /\ v <= RoundUp(v)
    <3>1. -v \in Int
      OBVIOUS
    <3>2. (-v) % Roundup \in 0 .. Roundup - 1
      BY <1>0, <3>1
    <3> QED BY <1>0, <3>2 DEF RoundUp
  <2> QED BY <2>1
<1>2. R \in Nat /\ MaxLen <= R /\ R >= 1
  BY <1>0, <1>1
<1> HIDE DEF R
<1>3. \A j, k \in Nat : j * R \in Nat /\ (j < k => j * R + R <= k * R)
  BY <1>2
<1>4. HeapBases = {StaticSize + k * R : k \in 0 .. MaxHeap - 1}
      /\ Cells = 0 .. StaticSize + MaxHeap * R - 1
  BY DEF HeapBases, Cells, R
<1>5. ASSUME NEW k \in 0 .. MaxHeap - 1
      PROVE  StaticSize + k * R \in Cells /\ StaticSize + k * R >= StaticSize
  <2>1. k * R \in Nat /\ k * R + R <= MaxHeap * R /\ MaxHeap * R \in Nat
    BY <1>0, <1>3
  <2> QED BY <1>0, <1>2, <1>4, <2>1
<1>6. Cells \subseteq Nat /\ HeapBases \subseteq Cells
  <2>1. MaxHeap * R \in Nat
    BY <1>0, <1>3
  <2> QED BY <1>0, <1>4, <1>5, <2>1
<1>7. \A p, q \in HeapBases : p = q \/ p + MaxLen <= q \/ q + MaxLen <= p
  <2>1. ASSUME NEW j \in 0 .. MaxHeap - 1, NEW k \in 0 .. MaxHeap - 1, j < k
        PROVE  StaticSize + j * R + MaxLen <= StaticSize + k * R
    BY <1>0, <1>2, <1>3, <2>1
  <2>2. \A j, k \in 0 .. MaxHeap - 1 : j < k \/ j = k \/ k < j
    BY <1>0
  <2> QED BY <1>4, <2>1, <2>2
<1>8. \A p \in HeapBases : p \in Nat /\ p >= StaticSize
  BY <1>4, <1>5, <1>6
<1>9. 0 .. StaticSize - 1 \subseteq Cells
  <2>1. MaxHeap * R \in Nat
    BY <1>0, <1>3
  <2> QED BY <1>0, <1>4, <2>1
<1> QED BY <1>1, <1>2, <1>6, <1>7, <1>8, <1>9 DEF R

\* The free cell behind a block of the ring.
LEMMA Wrap ==
  ASSUME QueueAssumption, NEW c \in 0 .. StaticSize
  PROVE  c % StaticSize = Wrapped(c) /\ Wrapped(c) \in 0 .. StaticSize - 1
<1>1. StaticSize \in Nat \ {0}
  BY DEF QueueAssumption
<1>2. CASE c = StaticSize
  BY <1>1, <1>2 DEF Wrapped
<1>3. CASE c \in 0 .. StaticSize - 1
  BY <1>1, <1>3 DEF Wrapped
<1> QED BY <1>1, <1>2, <1>3

-----------------------------------------------------------------------------
(* Blocks in the ring.                                                     *)

\* A queue of which only the last block has changed, was added or removed.
LEMMA RingLast ==
  ASSUME NEW q, NEW r, NEW n \in Nat, Len(r) = n,
         n - 1 <= Len(q), Len(q) \in Nat, \A i \in 1 .. n - 1 : r[i] = q[i],
         NEW u, NEW f, NEW g, Ring(q, u, f),
         \A i \in 1 .. n - 1 : IsStaticBuffer(q[i]) => InRing(q[i], u, g),
         n > 0 /\ IsStaticBuffer(r[n]) =>
           /\ InRing(r[n], u, g)
           /\ \A i \in 1 .. n - 1 : IsStaticBuffer(q[i]) => Precedes(q[i], r[n], u)
  PROVE  Ring(r, u, g)
<1>1. \A i \in 1 .. n : i \in 1 .. n - 1 \/ (i = n /\ n > 0)
  OBVIOUS
<1>2. \A i \in 1 .. n - 1 : i \in 1 .. Len(q)
  OBVIOUS
<1>3. ASSUME NEW i \in 1 .. n, IsStaticBuffer(r[i]) PROVE InRing(r[i], u, g)
  BY <1>1, <1>3
<1>4. ASSUME NEW i \in 1 .. n, NEW j \in 1 .. n, i < j,
             IsStaticBuffer(r[i]), IsStaticBuffer(r[j])
      PROVE  Precedes(r[i], r[j], u)
  <2>1. i \in 1 .. n - 1
    BY <1>4
  <2>2. CASE j = n
    BY <1>4, <2>1, <2>2
  <2>3. CASE j \in 1 .. n - 1
    BY <1>2, <1>4, <2>1, <2>3 DEF Ring
  <2> QED BY <1>1, <2>2, <2>3
<1> QED BY <1>3, <1>4 DEF Ring

\* An allocation in the ring: from ptr on, with g the free cell after it.
Allocates(ptr, len, g) ==
  \/ len <= FromBegin /\ g = (FIFOFreeBegin + len) % StaticSize /\ ptr = FIFOFreeBegin
  \/ len > FromBegin /\ len <= FromFIFOBegin /\ g = len /\ ptr = 0

\* The cells handed out are free, and are part of the ring from then on.
LEMMA RingAllocation ==
  ASSUME QueueAssumption, NEW len \in Nat \ {0}, NEW ptr, NEW g, Allocates(ptr, len, g),
         FIFOFreeBegin \in 0 .. StaticSize - 1, FIFOUsedBegin \in 0 .. StaticSize - 1
  PROVE  /\ ptr \in 0 .. StaticSize - 1 /\ ptr + len <= StaticSize
         /\ g \in 0 .. StaticSize - 1 /\ g = Wrapped(ptr + len)
         /\ \A b \in Block :
              InRing(b, FIFOUsedBegin, FIFOFreeBegin) => InRing(b, FIFOUsedBegin, g)
         /\ \A b, c \in Block :
              InRing(b, FIFOUsedBegin, FIFOFreeBegin) /\ c.buff = ptr
                => Precedes(b, c, FIFOUsedBegin)
         /\ \A c \in Block : c.buff = ptr /\ c.len = len => InRing(c, FIFOUsedBegin, g)
         /\ \A b, c \in Block :
              /\ InRing(b, FIFOUsedBegin, FIFOFreeBegin) /\ End(b) = ptr
              /\ c.buff = b.buff /\ End(c) = ptr + len
              => InRing(c, FIFOUsedBegin, g)
<1> DEFINE u == FIFOUsedBegin
           f == FIFOFreeBegin
<1>1. StaticSize \in Nat \ {0} /\ f \in 0 .. StaticSize - 1 /\ u \in 0 .. StaticSize - 1
  BY DEF QueueAssumption
<1>2. \/ ptr = f /\ f >= u /\ len <= StaticSize - f - (IF u = 0 THEN 1 ELSE 0)
           /\ g = Wrapped(f + len)
      \/ ptr = f /\ f < u /\ len <= u - f - 1 /\ g = Wrapped(f + len)
      \/ ptr = 0 /\ f >= u /\ u > 0 /\ len <= u - 1 /\ g = len
  <2>1. CASE len <= FromBegin /\ g = (f + len) % StaticSize /\ ptr = f
    <3>1. f + len \in 0 .. StaticSize
      BY <1>1, <2>1 DEF FromBegin
    <3>2. g = Wrapped(f + len)
      BY <2>1, <3>1, Wrap
    <3> QED BY <1>1, <2>1, <3>2 DEF FromBegin
  <2>2. CASE len > FromBegin /\ len <= FromFIFOBegin /\ g = len /\ ptr = 0
    BY <1>1, <2>2 DEF FromFIFOBegin
  <2> QED BY <2>1, <2>2 DEF Allocates
<1>3. /\ ptr \in 0 .. StaticSize - 1 /\ ptr + len <= StaticSize
      /\ g \in 0 .. StaticSize - 1 /\ g = Wrapped(ptr + len)
  BY <1>1, <1>2 DEF Wrapped
<1>4. \A b \in Block : b.buff \in Nat /\ b.len \in Nat \ {0} /\ End(b) \in Nat
  BY Addresses DEF Block, End, QueueAssumption
<1>5. ASSUME NEW b \in Block, InRing(b, u, f)
      PROVE  /\ InRing(b, u, g)
             /\ \A c \in Block : c.buff = ptr => Precedes(b, c, u)
  BY <1>1, <1>2, <1>4, <1>5 DEF InRing, Precedes, Upper, Wrapped, End
<1>6. ASSUME NEW c \in Block, c.buff = ptr, c.len = len PROVE InRing(c, u, g)
  BY <1>1, <1>2, <1>4, <1>6 DEF InRing, Upper, Wrapped, End
<1>7. ASSUME NEW b \in Block, NEW c \in Block, InRing(b, u, f), End(b) = ptr,
             c.buff = b.buff, End(c) = ptr + len
      PROVE  InRing(c, u, g)
  BY <1>1, <1>2, <1>4, <1>7 DEF InRing, Upper, Wrapped, End
<1> QED BY <1>3, <1>5, <1>6, <1>7

\* The last block of the ring gives back its last n cells.
LEMMA RingStepBack ==
  ASSUME QueueAssumption, NEW b \in Block, NEW n \in 1 .. b.len,
         FIFOFreeBegin \in 0 .. StaticSize - 1, FIFOUsedBegin \in 0 .. StaticSize - 1,
         InRing(b, FIFOUsedBegin, FIFOFreeBegin), FIFOFreeBegin = Wrapped(End(b))
  PROVE  /\ StepBack(n) = End(b) - n /\ StepBack(n) \in 0 .. StaticSize - 1
         /\ \A a \in Block :
              InRing(a, FIFOUsedBegin, FIFOFreeBegin) /\ Precedes(a, b, FIFOUsedBegin)
                => InRing(a, FIFOUsedBegin, StepBack(n))
         /\ \A c \in Block : c.buff = b.buff /\ End(c) = End(b) - n
                => InRing(c, FIFOUsedBegin, StepBack(n))
<1>1. StaticSize \in Nat \ {0}
  BY DEF QueueAssumption
<1>2. \A a \in Block : a.buff \in Nat /\ a.len \in Nat \ {0} /\ End(a) \in Nat
                       /\ End(a) = a.buff + a.len
  BY Addresses DEF Block, End, QueueAssumption
<1>3. /\ End(b) <= StaticSize /\ StepBack(n) = End(b) - n
      /\ StepBack(n) \in 0 .. StaticSize - 1
  BY <1>1, <1>2 DEF InRing, Wrapped, StepBack
<1>4. ASSUME NEW a \in Block, InRing(a, FIFOUsedBegin, FIFOFreeBegin),
             Precedes(a, b, FIFOUsedBegin)
      PROVE  InRing(a, FIFOUsedBegin, StepBack(n))
  BY <1>1, <1>2, <1>3, <1>4 DEF InRing, Precedes, Upper, Wrapped
<1>5. ASSUME NEW c \in Block, c.buff = b.buff, End(c) = End(b) - n
      PROVE  InRing(c, FIFOUsedBegin, StepBack(n))
  BY <1>1, <1>2, <1>3, <1>5 DEF InRing, Upper, Wrapped
<1> QED BY <1>3, <1>4, <1>5

\* The first block of the ring is released: either it was the only one, or the
\* others begin behind it.
LEMMA RingRelease ==
  ASSUME QueueAssumption, NEW b \in Block, IsStaticBuffer(b),
         FIFOFreeBegin \in 0 .. StaticSize - 1, FIFOUsedBegin \in 0 .. StaticSize - 1,
         InRing(b, FIFOUsedBegin, FIFOFreeBegin)
  PROVE  /\ UsedAfter(b) \in 0 .. StaticSize - 1
         /\ \A c \in Block :
              InRing(c, FIFOUsedBegin, FIFOFreeBegin) /\ Precedes(b, c, FIFOUsedBegin)
                => UsedAfter(b) # FIFOFreeBegin /\ InRing(c, UsedAfter(b), FIFOFreeBegin)
         /\ \A c, d \in Block :
              /\ InRing(c, FIFOUsedBegin, FIFOFreeBegin) /\ Precedes(b, c, FIFOUsedBegin)
              /\ InRing(d, FIFOUsedBegin, FIFOFreeBegin) /\ Precedes(b, d, FIFOUsedBegin)
              /\ Precedes(c, d, FIFOUsedBegin)
              => Precedes(c, d, UsedAfter(b))
<1>1. StaticSize \in Nat \ {0}
  BY DEF QueueAssumption
<1>2. \A a \in Block : a.buff \in Nat /\ a.len \in Nat \ {0} /\ End(a) \in Nat
                       /\ End(a) = a.buff + a.len
  BY Addresses DEF Block, End, QueueAssumption
<1>3. UsedAfter(b) = Wrapped(End(b)) /\ UsedAfter(b) \in 0 .. StaticSize - 1
  <2>1. End(b) \in 0 .. StaticSize
    BY <1>1, <1>2 DEF InRing
  <2> QED BY <2>1, Wrap DEF UsedAfter, End
<1>4. ASSUME NEW c \in Block, InRing(c, FIFOUsedBegin, FIFOFreeBegin),
             Precedes(b, c, FIFOUsedBegin)
      PROVE  UsedAfter(b) # FIFOFreeBegin /\ InRing(c, UsedAfter(b), FIFOFreeBegin)
  BY <1>1, <1>2, <1>3, <1>4 DEF InRing, Precedes, Upper, Wrapped
<1>5. ASSUME NEW c \in Block, InRing(c, FIFOUsedBegin, FIFOFreeBegin),
             Precedes(b, c, FIFOUsedBegin),
             NEW d \in Block, InRing(d, FIFOUsedBegin, FIFOFreeBegin),
             Precedes(b, d, FIFOUsedBegin), Precedes(c, d, FIFOUsedBegin)
      PROVE  Precedes(c, d, UsedAfter(b))
  BY <1>1, <1>2, <1>3, <1>5 DEF InRing, Precedes, Upper, Wrapped
<1>6. \A c \in Block :
        InRing(c, FIFOUsedBegin, FIFOFreeBegin) /\ Precedes(b, c, FIFOUsedBegin)
          => UsedAfter(b) # FIFOFreeBegin /\ InRing(c, UsedAfter(b), FIFOFreeBegin)
  BY <1>4, Zenon
<1>7. \A c, d \in Block :
        /\ InRing(c, FIFOUsedBegin, FIFOFreeBegin) /\ Precedes(b, c, FIFOUsedBegin)
        /\ InRing(d, FIFOUsedBegin, FIFOFreeBegin) /\ Precedes(b, d, FIFOUsedBegin)
        /\ Precedes(c, d, FIFOUsedBegin)
        => Precedes(c, d, UsedAfter(b))
  BY <1>5, Zenon
<1> QED BY <1>3, <1>6, <1>7, Zenon

-----------------------------------------------------------------------------
(* Heap buffers.                                                           *)

\* A queue of which only the last block has changed, and the store that results.
LEMMA HeapLast ==
  ASSUME NEW q, NEW r, NEW n \in Nat, Len(r) = n,
         n - 1 <= Len(q), Len(q) \in Nat, \A i \in 1 .. n - 1 : r[i] = q[i],
         NEW s, NEW t, Heap(q, s), Len(s) \in Nat, Len(t) \in Nat,
         \A i \in 1 .. Len(t) :
           \A j \in 1 .. n : t[i].buff # r[j].buff,
         \A i, j \in 1 .. Len(t) : t[i].buff = t[j].buff => i = j,
         n > 0 =>
           /\ \A i \in 1 .. n - 1 : ~IsStaticBuffer(q[i]) => r[n].buff # q[i].buff
           /\ ~IsStaticBuffer(r[n]) =>
                /\ r[n].buff \in HeapBases
                /\ r[n].len <= r[n].alloc /\ r[n].len <= MaxLen
  PROVE  Heap(r, t)
<1>1. \A i \in 1 .. n : i \in 1 .. n - 1 \/ (i = n /\ n > 0)
  OBVIOUS
<1>2. \A i \in 1 .. n - 1 : i \in 1 .. Len(q)
  OBVIOUS
<1>3. ASSUME NEW i \in 1 .. n, ~IsStaticBuffer(r[i])
      PROVE  r[i].buff \in HeapBases /\ r[i].len <= r[i].alloc /\ r[i].len <= MaxLen
  <2>1. CASE i \in 1 .. n - 1
    BY <1>2, <1>3, <2>1 DEF Heap
  <2> QED BY <1>1, <1>3, <2>1
<1>4. ASSUME NEW i \in 1 .. n, NEW j \in 1 .. n, ~IsStaticBuffer(r[i]), r[i].buff = r[j].buff
      PROVE  i = j
  <2>1. CASE i \in 1 .. n - 1 /\ j \in 1 .. n - 1
    BY <1>2, <1>4, <2>1 DEF Heap
  <2>2. ~IsStaticBuffer(r[j])
    BY <1>4 DEF IsStaticBuffer
  <2> QED BY <1>1, <1>4, <2>1, <2>2
<1> QED BY <1>3, <1>4 DEF Heap

\* The buffer that fits best, and the buffer of the lowest address, exist.
LEMMA ClosestFits ==
  ASSUME FreeBuffList \in Seq(DynBuffer), NEW len, Fitting(len) # {}
  PROVE  Closest(len) \in 1 .. Len(FreeBuffList) /\ FreeBuffList[Closest(len)].len >= len
<1> DEFINE lens == {FreeBuffList[i].len : i \in Fitting(len)}
<1>1. /\ Fitting(len) \subseteq 1 .. Len(FreeBuffList) /\ Len(FreeBuffList) \in Nat
      /\ \A i \in 1 .. Len(FreeBuffList) : FreeBuffList[i].len \in Nat
  <2>1. DOMAIN FreeBuffList = 1 .. Len(FreeBuffList) /\ Len(FreeBuffList) \in Nat
    OBVIOUS
  <2>2. \A i \in 1 .. Len(FreeBuffList) : FreeBuffList[i] \in DynBuffer
    OBVIOUS
  <2> QED BY <2>1, <2>2 DEF Fitting, DynBuffer
<1>2. PICK least \in lens : \A n \in lens : least <= n
  <2>1. lens \subseteq Nat /\ lens # {}
    BY <1>1
  <2> QED BY <2>1, LeastNatural
<1> DEFINE shortest == {i \in Fitting(len) : FreeBuffList[i].len = least}
<1>3. PICK i \in shortest : \A j \in shortest : i <= j
  <2>1. shortest \subseteq Nat /\ shortest # {}
    BY <1>1
  <2> QED BY <2>1, LeastNatural
<1>4. \A j \in Fitting(len) : \/ FreeBuffList[i].len < FreeBuffList[j].len
                              \/ FreeBuffList[i].len = FreeBuffList[j].len /\ i <= j
  <2>1. ASSUME NEW j \in Fitting(len)
        PROVE  \/ FreeBuffList[i].len < FreeBuffList[j].len
               \/ FreeBuffList[i].len = FreeBuffList[j].len /\ i <= j
    <3>1. least <= FreeBuffList[j].len /\ FreeBuffList[i].len = least
      BY <1>2, <1>3
    <3>2. least \in Nat /\ FreeBuffList[j].len \in Nat
      BY <1>1, <1>2
    <3>3. FreeBuffList[j].len = least => i <= j
      BY <1>3
    <3> QED BY <3>1, <3>2, <3>3
  <2> QED BY <2>1
<1>5. Closest(len) \in Fitting(len)
  BY <1>3, <1>4, Zenon DEF Closest
<1> QED BY <1>1, <1>5 DEF Fitting

\* A set of addresses has a lowest one, and CHOOSE finds it.
LEMMA LowestExists ==
  ASSUME NEW free \in SUBSET Nat, free # {}
  PROVE  (CHOOSE p \in free : \A q \in free : p <= q) \in free
<1>1. \E p \in free : \A q \in free : p <= q
  BY LeastNatural
<1> QED BY <1>1, Zenon

-----------------------------------------------------------------------------
(* Allocate().                                                             *)

\* A block that is being allocated is the last one of the queue: either a new
\* one, or the one that was the last.
Pushed(n, b) ==
  /\ n \in {Len(OutBuffA), Len(OutBuffA) + 1} /\ n > FirstPendingI
  /\ OutBuffA' \in Seq(Block) /\ Len(OutBuffA') = n
  /\ \A i \in 1 .. n - 1 : OutBuffA'[i] = OutBuffA[i]
  /\ n > 0 /\ OutBuffA'[n] = b /\ b \in Block /\ b.state = "ALLOCATED"

\* The bytes of the allocation are all in that block.
PushedBytes(len) ==
  \E n, b : \E ptr \in Nat :
    Pushed(n, b) /\ Fill(ptr, len) /\ b.buff <= ptr /\ ptr + len <= End(b)

\* What a reachable queue gives an action to work with.
LEMMA QueueFacts ==
  ASSUME IInv
  PROVE  /\ OutBuffA \in Seq(Block) /\ Len(OutBuffA) \in Nat
         /\ DOMAIN OutBuffA = 1 .. Len(OutBuffA)
         /\ \A i \in 1 .. Len(OutBuffA) : OutBuffA[i] \in Block
         /\ FirstPendingI \in 0 .. Len(OutBuffA)
         /\ OutBuffA # << >> => Len(OutBuffA) \in 1 .. Len(OutBuffA)
         /\ IsAllocated => Len(OutBuffA) > FirstPendingI /\ Len(OutBuffA) > 0
         /\ ~IsAllocated => \A i \in 1 .. Len(OutBuffA) : OutBuffA[i].state # "ALLOCATED"
<1>1. /\ OutBuffA \in Seq(Block) /\ Len(OutBuffA) \in Nat
      /\ DOMAIN OutBuffA = 1 .. Len(OutBuffA)
      /\ \A i \in 1 .. Len(OutBuffA) : OutBuffA[i] \in Block
      /\ FirstPendingI \in 0 .. Len(OutBuffA)
      /\ OutBuffA # << >> => Len(OutBuffA) \in 1 .. Len(OutBuffA)
  BY DEF IInv, TypeOK
<1>2. IsAllocated => Len(OutBuffA) > FirstPendingI /\ Len(OutBuffA) > 0
  BY <1>1 DEF IInv, StatesInOrder, IsAllocated, Last
<1>3. ~IsAllocated => \A i \in 1 .. Len(OutBuffA) : OutBuffA[i].state # "ALLOCATED"
  BY <1>1 DEF IInv, StatesInOrder, IsAllocated, Last
<1> QED BY <1>1, <1>2, <1>3

\* The block that is being allocated is last, so the states stay in order.
LEMMA PushedInOrder ==
  ASSUME IInv, ~IsAllocated, UNCHANGED FirstPendingI, NEW n, NEW b, Pushed(n, b)
  PROVE  StatesInOrder' /\ FirstPendingI' \in 0 .. Len(OutBuffA')
<1>1. /\ n \in Nat /\ \A i \in 1 .. n : i \in 1 .. n - 1 \/ i = n
      /\ \A i \in 1 .. n - 1 : i \in 1 .. Len(OutBuffA)
      /\ DOMAIN OutBuffA' = 1 .. n /\ DOMAIN OutBuffA = 1 .. Len(OutBuffA)
  BY QueueFacts DEF Pushed
<1>2. ASSUME NEW i \in 1 .. n
      PROVE  /\ OutBuffA'[i].state = "WRITING" <=> i <= FirstPendingI
             /\ OutBuffA'[i].state = "ALLOCATED" => i = n
  <2>1. CASE i = n
    <3>1. n > FirstPendingI /\ FirstPendingI \in Nat
      BY QueueFacts DEF Pushed
    <3>2. OutBuffA'[n].state = "ALLOCATED"
      BY DEF Pushed
    <3> QED BY <1>1, <2>1, <3>1, <3>2
  <2>2. CASE i \in 1 .. n - 1
    BY <1>1, <2>2, QueueFacts DEF Pushed, IInv, StatesInOrder
  <2> QED BY <1>1, <2>1, <2>2
<1>3. Len(OutBuffA') = n /\ n > FirstPendingI /\ FirstPendingI \in Nat
  BY QueueFacts DEF Pushed
<1>4. FirstPendingI' \in 0 .. Len(OutBuffA')
  BY <1>1, <1>3
<1> QED BY <1>1, <1>2, <1>3, <1>4 DEF StatesInOrder

\* What the caller fills is named within bounds.
LEMMA FillType ==
  ASSUME QueueAssumption, TypeOK, NEW ptr \in Nat, NEW len \in Nat, Fill(ptr, len)
  PROVE  mem' \in [Cells -> (0 .. ByteNames - 1) \union {Garbage}]
<1>1. ASSUME NEW c \in Cells, c >= ptr
      PROVE  (nextByte + (c - ptr)) % ByteNames \in 0 .. ByteNames - 1
  <2>1. c \in Nat /\ ByteNames \in Nat \ {0} /\ nextByte \in Nat
    BY Addresses DEF TypeOK, QueueAssumption
  <2>2. nextByte + (c - ptr) \in Int
    BY <2>1
  <2> QED BY <2>1, <2>2
<1> QED BY <1>1 DEF Fill, TypeOK

\* The fields of a block are numbers.
LEMMA BlockFields ==
  ASSUME QueueAssumption, NEW b \in Block
  PROVE  /\ b.buff \in Nat /\ b.len \in Nat \ {0} /\ b.alloc \in Nat
         /\ b.buff \in Cells /\ b.state \in States
BY Addresses DEF Block, QueueAssumption

\* A block in the ring: a new one, or one that goes on where the last one ends.
LEMMA StaticStep ==
  ASSUME QueueAssumption, IInv, NEW len \in 1 .. MaxLen, Allocate(len), AllocateStatic(len)
  PROVE  IInv' /\ PushedBytes(len)
<1> DEFINE u == FIFOUsedBegin
           f == FIFOFreeBegin
<1>1. /\ ~IsAllocated /\ LastAllocLength' = len
      /\ UNCHANGED <<FIFOUsedBegin, FirstPendingI, nextByte>>
      /\ len \in Nat \ {0} /\ f \in 0 .. StaticSize - 1 /\ u \in 0 .. StaticSize - 1
      /\ StaticSize \in Nat \ {0} /\ MaxLen \in Nat
  BY DEF Allocate, IInv, TypeOK, QueueAssumption
<1>2. PICK ptr, g : Allocates(ptr, len, g) /\ f' = g /\ PushStatic(ptr, len)
  BY DEF AllocateStatic, Allocates
<1>3. /\ ptr \in 0 .. StaticSize - 1 /\ ptr + len <= StaticSize
      /\ g \in 0 .. StaticSize - 1 /\ g = Wrapped(ptr + len)
      /\ \A b \in Block : InRing(b, u, f) => InRing(b, u, g)
      /\ \A b, c \in Block : InRing(b, u, f) /\ c.buff = ptr => Precedes(b, c, u)
      /\ \A c \in Block : c.buff = ptr /\ c.len = len => InRing(c, u, g)
      /\ \A b, c \in Block : InRing(b, u, f) /\ End(b) = ptr /\ c.buff = b.buff /\ End(c) = ptr + len
                               => InRing(c, u, g)
  BY <1>1, <1>2, RingAllocation
<1>4. \A i \in 1 .. Len(OutBuffA) : OutBuffA[i] \in Block
  BY QueueFacts
<1>5. \A i \in 1 .. Len(OutBuffA) : IsStaticBuffer(OutBuffA[i]) => InRing(OutBuffA[i], u, f)
  BY DEF IInv, Ring
\* The last block of the queue, and what it follows in the ring.
<1>6. PICK n, b :
        /\ Pushed(n, b) /\ IsStaticBuffer(b) /\ End(b) = ptr + len /\ len <= b.len
        /\ InRing(b, u, g)
        /\ \A i \in 1 .. n - 1 : IsStaticBuffer(OutBuffA[i]) => Precedes(OutBuffA[i], b, u)
  <2>1. CASE CanExtend(ptr)
    <3> DEFINE m == Len(OutBuffA)
               last == OutBuffA[m]
    <3>1. /\ OutBuffA # << >> /\ last.state = "PENDING" /\ IsStaticBuffer(last)
          /\ End(last) = ptr
      BY <2>1 DEF CanExtend, Last, End
    <3>2. m \in 1 .. Len(OutBuffA) /\ last \in Block
      BY <3>1, QueueFacts
    <3>3. PICK b : b = [last EXCEPT !.len = @ + len, !.state = "ALLOCATED"]
      OBVIOUS
    <3>4. last.buff \in Nat /\ last.len \in Nat \ {0} /\ last.alloc \in Nat /\ last.buff \in Cells
      BY <3>2, BlockFields
    <3>5. /\ b.buff = last.buff /\ b.len = last.len + len /\ b.state = "ALLOCATED"
          /\ b.alloc = last.alloc /\ End(b) = ptr + len
      BY <3>1, <3>2, <3>3, <3>4 DEF Block, End
    <3>6. b.len <= StaticSize
      BY <1>1, <1>3, <3>4, <3>5 DEF End
    <3>7. b \in Block
      <4>1. b = [buff |-> last.buff, len |-> last.len + len, alloc |-> last.alloc,
                 state |-> "ALLOCATED"]
        BY <3>2, <3>3 DEF Block
      <4> QED BY <1>1, <3>4, <3>5, <3>6, <4>1 DEF Block, States
    <3>8. OutBuffA' = [OutBuffA EXCEPT ![m] = b]
      BY <1>2, <2>1, <3>2, <3>3 DEF PushStatic, Extended, Block
    <3>9. Pushed(m, b)
      <4>1. m > FirstPendingI
        <5>1. m \in DOMAIN OutBuffA /\ m \in Nat /\ FirstPendingI \in Nat
          BY <3>2, QueueFacts
        <5>2. ~(m <= FirstPendingI)
          BY <3>1, <5>1 DEF IInv, StatesInOrder
        <5> QED BY <5>1, <5>2
      <4>2. /\ OutBuffA' \in Seq(Block) /\ Len(OutBuffA') = m /\ OutBuffA'[m] = b
            /\ \A i \in 1 .. m - 1 : OutBuffA'[i] = OutBuffA[i]
        <5>1. OutBuffA \in Seq(Block) /\ m \in 1 .. Len(OutBuffA) /\ b \in Block
          BY <3>2, <3>7, QueueFacts
        <5>2. /\ OutBuffA' \in Seq(Block) /\ Len(OutBuffA') = Len(OutBuffA)
              /\ \A j \in 1 .. Len(OutBuffA) : OutBuffA'[j] = IF j = m THEN b ELSE OutBuffA[j]
          BY <3>8, <5>1, ExceptSeq
        <5> QED BY <5>1, <5>2
      <4> QED BY <3>2, <3>5, <3>7, <4>1, <4>2 DEF Pushed
    <3>10. InRing(b, u, g) /\ IsStaticBuffer(b) /\ len <= b.len
      <4>1. InRing(last, u, f)
        BY <1>5, <3>1, <3>2
      <4>2. InRing(b, u, g)
        BY <1>3, <3>1, <3>2, <3>5, <3>7, <4>1
      <4> QED BY <1>1, <3>1, <3>4, <3>5, <4>2 DEF IsStaticBuffer
    <3>11. ASSUME NEW i \in 1 .. m - 1, IsStaticBuffer(OutBuffA[i])
           PROVE  Precedes(OutBuffA[i], b, u)
      <4>1. Precedes(OutBuffA[i], last, u)
        BY <3>1, <3>2, <3>11 DEF IInv, Ring
      <4> QED BY <3>5, <4>1 DEF Precedes, Upper
    <3> QED BY <3>5, <3>9, <3>10, <3>11
  <2>2. CASE ~CanExtend(ptr)
    <3> DEFINE n == Len(OutBuffA) + 1
    <3>1. PICK b : b = [buff |-> ptr, len |-> len, alloc |-> len, state |-> "ALLOCATED"]
      OBVIOUS
    <3>2. b \in Block /\ b.buff = ptr /\ b.len = len /\ b.state = "ALLOCATED"
      BY <1>1, <1>3, <3>1, Addresses DEF Block, States
    <3>3. OutBuffA' = Append(OutBuffA, b)
      BY <1>2, <2>2, <3>1 DEF PushStatic, NewBlock
    <3>4. Pushed(n, b)
      <4>1. /\ OutBuffA' \in Seq(Block) /\ Len(OutBuffA') = n /\ OutBuffA'[n] = b
            /\ \A i \in 1 .. n - 1 : OutBuffA'[i] = OutBuffA[i]
        BY <3>2, <3>3, QueueFacts, AppendProperties
      <4> QED BY <3>2, <4>1, QueueFacts DEF Pushed
    <3>5. InRing(b, u, g) /\ IsStaticBuffer(b) /\ End(b) = ptr + len
      BY <1>3, <3>2 DEF IsStaticBuffer, End
    <3>6. \A i \in 1 .. n - 1 : IsStaticBuffer(OutBuffA[i]) => Precedes(OutBuffA[i], b, u)
      BY <1>3, <1>4, <1>5, <3>2, QueueFacts
    <3> QED BY <1>1, <3>2, <3>4, <3>5, <3>6
  <2> QED BY <2>1, <2>2
<1>7. /\ n \in Nat /\ n > 0 /\ Len(OutBuffA') = n /\ n - 1 <= Len(OutBuffA) /\ Len(OutBuffA) \in Nat
      /\ \A i \in 1 .. n - 1 : OutBuffA'[i] = OutBuffA[i] /\ i \in 1 .. Len(OutBuffA)
      /\ OutBuffA'[n] = b /\ b \in Block /\ OutBuffA' \in Seq(Block)
  BY <1>6, QueueFacts DEF Pushed
<1>8. Ring(OutBuffA, u, f)'
  <2>1. Ring(OutBuffA', u, g)
    BY <1>3, <1>4, <1>5, <1>6, <1>7, RingLast, ZenonT(60) DEF IInv
  <2> QED BY <1>1, <1>2, <2>1 DEF Ring
<1>9. Heap(OutBuffA, FreeBuffList)'
  <2>1. Heap(OutBuffA, FreeBuffList) /\ FreeBuffList \in Seq(DynBuffer)
    BY DEF IInv, TypeOK
  <2>2. \A i \in 1 .. Len(FreeBuffList) : FreeBuffList[i].buff >= StaticSize
                                           /\ FreeBuffList[i].buff \in Nat
    <3>1. \A i \in 1 .. Len(FreeBuffList) : FreeBuffList[i] \in DynBuffer
      BY <2>1
    <3> QED BY <3>1, Addresses DEF DynBuffer
  <2>3. b.buff \in Nat /\ b.buff < StaticSize
    BY <1>6, <1>7, Addresses DEF IsStaticBuffer, Block
  <2>4. \A i \in 1 .. Len(FreeBuffList), j \in 1 .. n : FreeBuffList[i].buff # OutBuffA'[j].buff
    <3>1. \A j \in 1 .. n : j \in 1 .. n - 1 \/ j = n
      BY <1>7
    <3> QED BY <1>7, <2>1, <2>2, <2>3, <3>1 DEF Heap
  <2>5. \A i \in 1 .. n - 1 : ~IsStaticBuffer(OutBuffA[i]) => b.buff # OutBuffA[i].buff
    BY <2>3 DEF IsStaticBuffer
  <2>6. UNCHANGED FreeBuffList
    BY <1>2 DEF PushStatic
  <2>7. \A i, j \in 1 .. Len(FreeBuffList) : FreeBuffList[i].buff = FreeBuffList[j].buff => i = j
    BY <2>1 DEF Heap
  <2>8. Len(FreeBuffList) \in Nat
    BY <2>1
  <2>9. Heap(OutBuffA', FreeBuffList)
    BY <1>6, <1>7, <2>1, <2>4, <2>5, <2>7, <2>8, HeapLast
  <2> QED BY <2>6, <2>9 DEF Heap
<1>10. StatesInOrder' /\ FirstPendingI' \in 0 .. Len(OutBuffA')
  BY <1>1, <1>6, PushedInOrder
<1>11. TypeOK'
  <2>1. mem' \in [Cells -> (0 .. ByteNames - 1) \union {Garbage}]
    BY <1>1, <1>2, <1>3, FillType DEF PushStatic, IInv
  <2>2. FreeBuffList' \in Seq(DynBuffer)
    BY <1>2 DEF PushStatic, IInv, TypeOK
  <2> QED BY <1>1, <1>2, <1>3, <1>7, <1>10, <2>1, <2>2 DEF TypeOK, IInv
<1>12. AllocInv'
  <2>1. Last(OutBuffA)' = b
    BY <1>7 DEF Last
  <2> QED BY <1>1, <1>2, <1>3, <1>6, <2>1 DEF AllocInv, IsStaticBuffer, End, Wrapped
<1>13. PushedBytes(len)
  <2>1. b.buff \in Nat /\ b.len \in Nat /\ End(b) = b.buff + b.len
    BY <1>7, BlockFields DEF End
  <2>2. b.buff <= ptr /\ ptr \in Nat
    BY <1>1, <1>3, <1>6, <2>1
  <2>3. ptr + len <= End(b) /\ Fill(ptr, len)
    BY <1>1, <1>2, <1>3, <1>6 DEF PushStatic
  <2> QED BY <1>6, <2>2, <2>3 DEF PushedBytes
<1> QED BY <1>8, <1>9, <1>10, <1>11, <1>12, <1>13 DEF IInv

\* A block in a heap buffer: one from the store, or one that nobody uses.
LEMMA HeapStep ==
  ASSUME QueueAssumption, IInv, NEW len \in 1 .. MaxLen, Allocate(len), AllocateHeap(len)
  PROVE  IInv' /\ PushedBytes(len)
<1> DEFINE n == Len(OutBuffA) + 1
<1>1. /\ ~IsAllocated /\ LastAllocLength' = len
      /\ UNCHANGED <<FIFOUsedBegin, FIFOFreeBegin, FirstPendingI, nextByte>>
      /\ len \in Nat \ {0} /\ StaticSize \in Nat \ {0} /\ MaxLen \in Nat
  BY DEF Allocate, AllocateHeap, IInv, TypeOK, QueueAssumption
<1>2. /\ FreeBuffList \in Seq(DynBuffer) /\ Len(FreeBuffList) \in Nat
      /\ DOMAIN FreeBuffList = 1 .. Len(FreeBuffList)
      /\ \A i \in 1 .. Len(FreeBuffList) :
           FreeBuffList[i] \in DynBuffer /\ FreeBuffList[i].buff \in HeapBases
           /\ FreeBuffList[i].len \in Nat
      /\ Heap(OutBuffA, FreeBuffList)
  <2>1. FreeBuffList \in Seq(DynBuffer) /\ Heap(OutBuffA, FreeBuffList)
    BY DEF IInv, TypeOK
  <2>2. \A i \in 1 .. Len(FreeBuffList) : FreeBuffList[i] \in DynBuffer
    BY <2>1
  <2> QED BY <2>1, <2>2 DEF DynBuffer
\* The buffer, its owners before, and the store after.
<1>3. PICK ptr, alloc :
        /\ ptr \in HeapBases /\ alloc \in Nat /\ len <= alloc
        /\ OutBuffA' = NewBlock(ptr, len, alloc) /\ Fill(ptr, len)
        /\ \A i \in 1 .. Len(OutBuffA) : OutBuffA[i].buff # ptr
        /\ FreeBuffList' \in Seq(DynBuffer)
        /\ \A i \in 1 .. Len(FreeBuffList') : FreeBuffList'[i].buff # ptr
        /\ \A i \in 1 .. Len(FreeBuffList') :
             \E j \in 1 .. Len(FreeBuffList) : FreeBuffList'[i] = FreeBuffList[j]
        /\ \A i, j \in 1 .. Len(FreeBuffList') :
             FreeBuffList'[i].buff = FreeBuffList'[j].buff => i = j
  <2>1. CASE Fitting(len) # {}
    <3>1. PICK k \in 1 .. Len(FreeBuffList) : k = Closest(len) /\ FreeBuffList[k].len >= len
      BY <1>2, <2>1, ClosestFits
    <3>2. /\ OutBuffA' = NewBlock(FreeBuffList[k].buff, len, FreeBuffList[k].len)
          /\ Fill(FreeBuffList[k].buff, len)
          /\ FreeBuffList' = RemoveAt(FreeBuffList, k)
      BY <2>1, <3>1 DEF AllocateHeap, StoreWithout
    <3>3. /\ FreeBuffList' \in Seq(DynBuffer) /\ Len(FreeBuffList') = Len(FreeBuffList) - 1
          /\ \A j \in 1 .. Len(FreeBuffList) - 1 :
               FreeBuffList'[j] = IF j < k THEN FreeBuffList[j] ELSE FreeBuffList[j + 1]
      BY <1>2, <3>2, RemoveAtFacts
    <3>4. \A i, j \in 1 .. Len(FreeBuffList) : FreeBuffList[i].buff = FreeBuffList[j].buff => i = j
      BY <1>2 DEF Heap
    <3>5. ASSUME NEW i \in 1 .. Len(FreeBuffList')
          PROVE  \E j \in 1 .. Len(FreeBuffList) :
                   FreeBuffList'[i] = FreeBuffList[j] /\ j # k /\ j = IF i < k THEN i ELSE i + 1
      BY <1>2, <3>3
    <3>6. \A i \in 1 .. Len(FreeBuffList') : FreeBuffList'[i].buff # FreeBuffList[k].buff
      BY <3>1, <3>4, <3>5
    <3>7. ASSUME NEW i \in 1 .. Len(FreeBuffList'), NEW j \in 1 .. Len(FreeBuffList'),
                 FreeBuffList'[i].buff = FreeBuffList'[j].buff
          PROVE  i = j
      <4>1. PICK x \in 1 .. Len(FreeBuffList) :
              FreeBuffList'[i] = FreeBuffList[x] /\ x = IF i < k THEN i ELSE i + 1
        BY <3>5
      <4>2. PICK y \in 1 .. Len(FreeBuffList) :
              FreeBuffList'[j] = FreeBuffList[y] /\ y = IF j < k THEN j ELSE j + 1
        BY <3>5
      <4>3. x = y
        BY <3>4, <3>7, <4>1, <4>2
      <4>4. i \in Int /\ j \in Int /\ k \in Int
        BY <1>2, <3>3
      <4> QED BY <4>1, <4>2, <4>3, <4>4
    <3>8. \A i \in 1 .. Len(OutBuffA) : OutBuffA[i].buff # FreeBuffList[k].buff
      BY <1>2, <3>1 DEF Heap
    <3> QED BY <1>1, <1>2, <3>1, <3>2, <3>3, <3>5, <3>6, <3>7, <3>8
  <2>2. CASE Fitting(len) = {}
    <3>1. PICK p : /\ p \in HeapBases \ InUse
                   /\ OutBuffA' = NewBlock(p, len, RoundUp(len)) /\ Fill(p, len)
                   /\ UNCHANGED FreeBuffList
      <4>1. HeapBases \ InUse # {} /\ HeapBases \ InUse \subseteq Nat
        BY <2>2, Addresses DEF AllocateHeap
      <4> QED BY <2>2, <4>1, LowestExists DEF AllocateHeap
    <3>2. /\ \A i \in 1 .. Len(OutBuffA) : OutBuffA[i].buff # p
          /\ \A i \in 1 .. Len(FreeBuffList) : FreeBuffList[i].buff # p
      BY <1>2, <3>1, QueueFacts DEF InUse
    <3>3. RoundUp(len) \in Nat /\ len <= RoundUp(len)
      BY <1>1, Addresses
    <3>4. \A i, j \in 1 .. Len(FreeBuffList) : FreeBuffList[i].buff = FreeBuffList[j].buff => i = j
      BY <1>2 DEF Heap
    <3> QED BY <1>2, <3>1, <3>2, <3>3, <3>4
  <2> QED BY <2>1, <2>2
<1>4. PICK b : b = [buff |-> ptr, len |-> len, alloc |-> alloc, state |-> "ALLOCATED"]
  OBVIOUS
<1>5. /\ b \in Block /\ b.buff = ptr /\ b.len = len /\ b.alloc = alloc /\ b.state = "ALLOCATED"
      /\ ~IsStaticBuffer(b)
  <2>1. /\ ptr \in Cells /\ ptr \in Nat /\ ptr >= StaticSize
        /\ len \in 1 .. StaticSize + MaxLen /\ alloc \in Nat
    BY <1>1, <1>3, Addresses
  <2>2. b \in Block
    BY <1>4, <2>1 DEF Block, States
  <2> QED BY <1>1, <1>4, <2>1, <2>2 DEF IsStaticBuffer
<1>6. Pushed(n, b)
  <2>1. OutBuffA' = Append(OutBuffA, b)
    BY <1>3, <1>4 DEF NewBlock
  <2>2. /\ OutBuffA' \in Seq(Block) /\ Len(OutBuffA') = n /\ OutBuffA'[n] = b
        /\ \A i \in 1 .. n - 1 : OutBuffA'[i] = OutBuffA[i]
    BY <1>5, <2>1, QueueFacts, AppendProperties
  <2> QED BY <1>5, <2>2, QueueFacts DEF Pushed
<1>7. /\ n \in Nat /\ n > 0 /\ Len(OutBuffA') = n /\ n - 1 <= Len(OutBuffA) /\ Len(OutBuffA) \in Nat
      /\ \A i \in 1 .. n - 1 : OutBuffA'[i] = OutBuffA[i] /\ i \in 1 .. Len(OutBuffA)
      /\ OutBuffA'[n] = b /\ OutBuffA' \in Seq(Block)
  BY <1>6, QueueFacts DEF Pushed
<1>8. Ring(OutBuffA, FIFOUsedBegin, FIFOFreeBegin)'
  <2>1. Ring(OutBuffA, FIFOUsedBegin, FIFOFreeBegin)
    BY DEF IInv
  <2>2. \A i \in 1 .. n - 1 :
          IsStaticBuffer(OutBuffA[i]) => InRing(OutBuffA[i], FIFOUsedBegin, FIFOFreeBegin)
    BY <1>7, <2>1 DEF Ring
  <2>3. Ring(OutBuffA', FIFOUsedBegin, FIFOFreeBegin)
    BY <1>5, <1>7, <2>1, <2>2, RingLast
  <2> QED BY <1>1, <2>3 DEF Ring
<1>9. Heap(OutBuffA, FreeBuffList)'
  <2>1. \A i \in 1 .. Len(FreeBuffList') :
          \A j \in 1 .. n : FreeBuffList'[i].buff # OutBuffA'[j].buff
    <3>1. \A j \in 1 .. n : j \in 1 .. n - 1 \/ j = n
      BY <1>7
    <3>2. \A i \in 1 .. Len(FreeBuffList') :
            \A j \in 1 .. Len(OutBuffA) : FreeBuffList'[i].buff # OutBuffA[j].buff
      BY <1>2, <1>3 DEF Heap
    <3> QED BY <1>3, <1>5, <1>7, <3>1, <3>2, SMTT(30)
  <2>2. \A i \in 1 .. n - 1 : ~IsStaticBuffer(OutBuffA[i]) => b.buff # OutBuffA[i].buff
    BY <1>3, <1>5, <1>7
  <2>3. Len(FreeBuffList') \in Nat
    BY <1>3
  <2>4. b.buff \in HeapBases /\ b.len <= b.alloc /\ b.len <= MaxLen
    BY <1>3, <1>5
  <2>5. Heap(OutBuffA', FreeBuffList')
    <3>1. /\ \A i \in 1 .. n - 1 : ~IsStaticBuffer(OutBuffA[i]) => OutBuffA'[n].buff # OutBuffA[i].buff
          /\ ~IsStaticBuffer(OutBuffA'[n]) =>
               /\ OutBuffA'[n].buff \in HeapBases
               /\ OutBuffA'[n].len <= OutBuffA'[n].alloc /\ OutBuffA'[n].len <= MaxLen
      BY <1>7, <2>2, <2>4
    <3>2. \A i, j \in 1 .. Len(FreeBuffList') :
            FreeBuffList'[i].buff = FreeBuffList'[j].buff => i = j
      BY <1>3
    <3>3. \A i \in 1 .. n - 1 : OutBuffA'[i] = OutBuffA[i]
      BY <1>7
    <3> HIDE DEF n
    <3> QED BY <1>2, <1>7, <2>1, <2>3, <3>1, <3>2, <3>3, HeapLast
  <2> QED BY <2>5 DEF Heap
<1>10. StatesInOrder' /\ FirstPendingI' \in 0 .. Len(OutBuffA')
  BY <1>1, <1>6, PushedInOrder
<1>11. TypeOK'
  <2>1. mem' \in [Cells -> (0 .. ByteNames - 1) \union {Garbage}]
    BY <1>1, <1>3, Addresses, FillType DEF IInv
  <2> QED BY <1>1, <1>3, <1>7, <1>10, <2>1 DEF TypeOK, IInv
<1>12. AllocInv'
  <2>1. Last(OutBuffA)' = b
    BY <1>7 DEF Last
  <2> QED BY <1>1, <1>5, <2>1 DEF AllocInv, IsStaticBuffer
<1>13. PushedBytes(len)
  <2>1. ptr \in Nat /\ len \in Nat
    BY <1>1, <1>3, Addresses
  <2>2. b.buff <= ptr /\ ptr + len <= End(b)
    BY <1>5, <2>1 DEF End
  <2> QED BY <1>3, <1>6, <2>1, <2>2 DEF PushedBytes
<1> QED BY <1>8, <1>9, <1>10, <1>11, <1>12, <1>13 DEF IInv

\* Allocate() from the ring, or from the heap.
LEMMA AllocateStep ==
  ASSUME QueueAssumption, IInv, NEW len \in 1 .. MaxLen, Allocate(len)
  PROVE  IInv' /\ PushedBytes(len)
BY StaticStep, HeapStep DEF Allocate

-----------------------------------------------------------------------------
(* Commit() and Deallocate().                                              *)

\* Only the last block changes, one that is not being written.
OnlyLast ==
  \E m \in 1 .. Len(OutBuffA) :
    /\ m > FirstPendingI
    /\ \A i \in 1 .. m - 1 : i \in DOMAIN OutBuffA' /\ OutBuffA'[i] = OutBuffA[i]
    /\ \E cells \in SUBSET Region(OutBuffA[m]) : mem' = Scrub(cells)

\* What is kept of the allocation: all of it, a part, or nothing at all.
LEMMA CommitStep ==
  ASSUME QueueAssumption, IInv, NEW len \in 0 .. MaxLen, Commit(len)
  PROVE  IInv' /\ OnlyLast
<1>1. PICK m, b, u, f :
        /\ m = Len(OutBuffA) /\ b = OutBuffA[m] /\ b = Last(OutBuffA)
        /\ m \in 1 .. Len(OutBuffA) /\ m > FirstPendingI
        /\ b \in Block /\ b.state = "ALLOCATED" /\ b.buff \in Nat /\ b.len \in Nat \ {0}
        /\ u = FIFOUsedBegin /\ f = FIFOFreeBegin
        /\ u \in 0 .. StaticSize - 1 /\ f \in 0 .. StaticSize - 1
  <2>1. IsAllocated
    BY DEF Commit
  <2>2. /\ OutBuffA # << >> /\ Len(OutBuffA) > FirstPendingI
        /\ Len(OutBuffA) \in 1 .. Len(OutBuffA)
        /\ OutBuffA[Len(OutBuffA)] \in Block
    BY <2>1, QueueFacts DEF IsAllocated
  <2>3. FIFOUsedBegin \in 0 .. StaticSize - 1 /\ FIFOFreeBegin \in 0 .. StaticSize - 1
    BY DEF IInv, TypeOK
  <2> QED BY <2>1, <2>2, <2>3, BlockFields DEF IsAllocated, Last
<1>2. PICK back, kept :
        /\ back = LastAllocLength - len /\ back \in 0 .. b.len /\ kept = b.len - back
        /\ kept \in 0 .. b.len
        /\ IsStaticBuffer(b) => f = Wrapped(End(b))
        /\ len < LastAllocLength <=> back > 0
  <2>1. IsAllocated /\ len <= LastAllocLength /\ LastAllocLength \in Nat /\ len \in Nat
    BY DEF Commit, IInv, TypeOK
  <2>2. LastAllocLength <= b.len /\ (IsStaticBuffer(b) => f = Wrapped(End(b)))
    BY <1>1, <2>1 DEF IInv, AllocInv
  <2>3. LastAllocLength - len \in 0 .. b.len
    BY <1>1, <2>1, <2>2
  <2>4. b.len - (LastAllocLength - len) \in 0 .. b.len
    BY <1>1, <2>3
  <2> QED BY <2>1, <2>2, <2>3, <2>4
<1>3. /\ CommitKeep(b, kept) /\ mem' = Scrub((b.buff + kept) .. (b.buff + b.len - 1))
      /\ FIFOFreeBegin' = IF IsStaticBuffer(b) /\ back > 0 THEN StepBack(back)
                                                         ELSE FIFOFreeBegin
      /\ FreeBuffList' = IF ~IsStaticBuffer(b) /\ kept = 0
                           THEN Append(FreeBuffList, [buff |-> b.buff, len |-> b.alloc])
                           ELSE FreeBuffList
      /\ nextByte' = (nextByte + len) % ByteNames
      /\ UNCHANGED <<FIFOUsedBegin, LastAllocLength, FirstPendingI>>
  BY <1>1, <1>2 DEF Commit
\* The queue afterwards.
<1>4. PICK n, c :
        /\ n \in {m - 1, m} /\ (n = m - 1 <=> kept = 0)
        /\ OutBuffA' \in Seq(Block) /\ Len(OutBuffA') = n
        /\ \A i \in 1 .. m - 1 : OutBuffA'[i] = OutBuffA[i]
        /\ c \in Block /\ c.buff = b.buff /\ c.alloc = b.alloc /\ c.state = "PENDING"
        /\ n = m => c.len = kept /\ OutBuffA'[m] = c
  <2>1. PICK c : c = [b EXCEPT !.len = IF kept = 0 THEN b.len ELSE kept, !.state = "PENDING"]
    OBVIOUS
  <2>2. /\ c \in Block /\ c.buff = b.buff /\ c.alloc = b.alloc /\ c.state = "PENDING"
        /\ kept # 0 => c.len = kept
    <3>1. b.buff \in Cells /\ b.alloc \in Nat /\ b.len \in 1 .. StaticSize + MaxLen
      BY <1>1 DEF Block
    <3>2. (IF kept = 0 THEN b.len ELSE kept) \in 1 .. StaticSize + MaxLen
      BY <1>1, <1>2, <3>1 DEF QueueAssumption
    <3>3. c = [buff |-> b.buff, len |-> IF kept = 0 THEN b.len ELSE kept, alloc |-> b.alloc,
               state |-> "PENDING"]
      BY <1>1, <2>1 DEF Block
    <3> QED BY <3>1, <3>2, <3>3 DEF Block, States
  <2>3. OutBuffA \in Seq(Block)
    BY QueueFacts
  <2>4. CASE kept = 0
    <3>1. OutBuffA' = Front(OutBuffA) /\ OutBuffA # << >>
      BY <1>1, <1>3, <2>4 DEF CommitKeep
    <3>2. /\ OutBuffA' \in Seq(Block) /\ Len(OutBuffA') = m - 1
          /\ \A i \in 1 .. m - 1 : OutBuffA'[i] = OutBuffA[i]
      BY <1>1, <2>3, <3>1, FrontFacts
    <3> QED BY <1>1, <2>2, <2>4, <3>2
  <2>5. CASE kept # 0
    <3>1. OutBuffA' = [OutBuffA EXCEPT ![m] = c]
      BY <1>1, <1>3, <2>1, <2>5 DEF CommitKeep, Block
    <3>2. /\ OutBuffA' \in Seq(Block) /\ Len(OutBuffA') = Len(OutBuffA)
          /\ \A j \in 1 .. Len(OutBuffA) : OutBuffA'[j] = IF j = m THEN c ELSE OutBuffA[j]
      BY <1>1, <2>2, <2>3, <3>1, ExceptSeq
    <3>3. /\ OutBuffA' \in Seq(Block) /\ Len(OutBuffA') = m /\ OutBuffA'[m] = c
          /\ \A i \in 1 .. m - 1 : OutBuffA'[i] = OutBuffA[i]
      BY <1>1, <3>2
    <3>4. m # m - 1
      BY <1>1
    <3> QED BY <2>2, <2>5, <3>3, <3>4
  <2> QED BY <2>4, <2>5
<1>5. /\ m \in Nat \ {0} /\ n \in Nat /\ n - 1 <= Len(OutBuffA) /\ Len(OutBuffA) = m
      /\ \A i \in 1 .. n - 1 : i \in 1 .. m - 1
      /\ \A i \in 1 .. m - 1 : i \in 1 .. Len(OutBuffA)
      /\ \A i \in 1 .. n : i \in 1 .. m - 1 \/ (i = m /\ n = m)
  BY <1>1, <1>4
<1>6. Ring(OutBuffA, FIFOUsedBegin, FIFOFreeBegin)'
  <2>1. Ring(OutBuffA, u, f)
    BY <1>1 DEF IInv
  <2>2. PICK g : /\ g = FIFOFreeBegin'
                 /\ \A i \in 1 .. m - 1 : IsStaticBuffer(OutBuffA[i]) => InRing(OutBuffA[i], u, g)
                 /\ n = m /\ IsStaticBuffer(b) => InRing(c, u, g)
    <3>1. \A i \in 1 .. m - 1 :
            IsStaticBuffer(OutBuffA[i]) => InRing(OutBuffA[i], u, f) /\ OutBuffA[i] \in Block
      BY <1>5, <2>1, QueueFacts DEF Ring
    <3>2. CASE IsStaticBuffer(b) /\ back > 0
      <4>1. \A i \in 1 .. m - 1 : IsStaticBuffer(OutBuffA[i]) => Precedes(OutBuffA[i], b, u)
        <5>1. \A i \in 1 .. m - 1 : i < m /\ i \in 1 .. Len(OutBuffA)
          BY <1>5
        <5> QED BY <1>1, <2>1, <3>2, <5>1 DEF Ring
      <4>2. InRing(b, u, f)
        BY <1>1, <2>1, <3>2 DEF Ring
      <4>3. back \in 1 .. b.len
        BY <1>1, <1>2, <3>2
      <4>4. /\ \A a \in Block : InRing(a, u, f) /\ Precedes(a, b, u) => InRing(a, u, StepBack(back))
            /\ \A a \in Block : a.buff = b.buff /\ End(a) = End(b) - back
                 => InRing(a, u, StepBack(back))
        BY <1>1, <1>2, <3>2, <4>2, <4>3, RingStepBack
      <4>5. n = m => c.buff = b.buff /\ End(c) = End(b) - back
        BY <1>1, <1>2, <1>4 DEF End
      <4> QED BY <1>3, <1>4, <3>1, <3>2, <4>1, <4>4, <4>5
    <3>3. CASE ~(IsStaticBuffer(b) /\ back > 0)
      <4>1. n = m /\ IsStaticBuffer(b) => InRing(c, u, f)
        <5>1. ASSUME n = m, IsStaticBuffer(b) PROVE InRing(c, u, f)
          <6>1. back = 0 /\ kept = b.len /\ c.len = b.len
            BY <1>1, <1>2, <1>4, <3>3, <5>1
          <6>2. InRing(b, u, f)
            BY <1>1, <2>1, <5>1 DEF Ring
          <6> QED BY <1>4, <6>1, <6>2 DEF InRing, Upper, End
        <5> QED BY <5>1
      <4>2. FIFOFreeBegin' = f
        BY <1>1, <1>3, <3>3
      <4> QED BY <3>1, <4>1, <4>2
    <3> QED BY <3>2, <3>3
  <2>3. n > 0 /\ IsStaticBuffer(OutBuffA'[n]) =>
          /\ InRing(OutBuffA'[n], u, g)
          /\ \A i \in 1 .. n - 1 : IsStaticBuffer(OutBuffA[i]) => Precedes(OutBuffA[i], OutBuffA'[n], u)
    <3>1. CASE n = m
      <4>1. ASSUME IsStaticBuffer(OutBuffA'[n])
            PROVE  /\ InRing(OutBuffA'[n], u, g)
                   /\ \A i \in 1 .. n - 1 :
                        IsStaticBuffer(OutBuffA[i]) => Precedes(OutBuffA[i], OutBuffA'[n], u)
        <5>1. OutBuffA'[n] = c /\ IsStaticBuffer(b)
          BY <1>4, <3>1, <4>1 DEF IsStaticBuffer
        <5>2. \A i \in 1 .. n - 1 : IsStaticBuffer(OutBuffA[i]) => Precedes(OutBuffA[i], b, u)
          <6>1. \A i \in 1 .. n - 1 : i < m /\ i \in 1 .. Len(OutBuffA)
            BY <1>5, <3>1
          <6> QED BY <1>1, <2>1, <5>1, <6>1 DEF Ring
        <5>3. \A i \in 1 .. n - 1 : IsStaticBuffer(OutBuffA[i]) => Precedes(OutBuffA[i], c, u)
          BY <1>4, <5>2 DEF Precedes, Upper
        <5> QED BY <2>2, <3>1, <5>1, <5>3
      <4> QED BY <4>1
    <3>2. CASE n = m - 1 /\ n > 0
      <4>1. n \in 1 .. m - 1 /\ OutBuffA'[n] = OutBuffA[n]
        BY <1>4, <1>5, <3>2
      <4>2. \A i \in 1 .. n - 1 : i \in 1 .. Len(OutBuffA) /\ i < n
        BY <1>5
      <4> QED BY <1>5, <2>1, <2>2, <4>1, <4>2 DEF Ring
    <3> QED BY <1>4, <1>5, <3>1, <3>2
  <2>4. \A i \in 1 .. n - 1 : OutBuffA'[i] = OutBuffA[i]
    BY <1>4, <1>5
  <2>5. \A i \in 1 .. n - 1 : IsStaticBuffer(OutBuffA[i]) => InRing(OutBuffA[i], u, g)
    BY <1>5, <2>2
  <2>6. Ring(OutBuffA', u, g)
    BY <1>4, <1>5, <2>1, <2>3, <2>4, <2>5, RingLast
  <2> QED BY <1>1, <1>3, <2>2, <2>6 DEF Ring
<1>7. /\ FreeBuffList' \in Seq(DynBuffer)
      /\ \A i \in 1 .. Len(FreeBuffList') : \A j \in 1 .. n :
           FreeBuffList'[i].buff # OutBuffA'[j].buff
      /\ \A i, j \in 1 .. Len(FreeBuffList') :
           FreeBuffList'[i].buff = FreeBuffList'[j].buff => i = j
  <2>1. /\ FreeBuffList \in Seq(DynBuffer) /\ Len(FreeBuffList) \in Nat
        /\ Heap(OutBuffA, FreeBuffList)
    BY DEF IInv, TypeOK
  <2>2. \A i \in 1 .. Len(FreeBuffList) : \A j \in 1 .. m : FreeBuffList[i].buff # OutBuffA[j].buff
    BY <1>1, <2>1 DEF Heap
  <2>3. \A i \in 1 .. Len(FreeBuffList) : \A j \in 1 .. n : FreeBuffList[i].buff # OutBuffA'[j].buff
    <3>1. \A j \in 1 .. n : j \in 1 .. m /\ OutBuffA'[j].buff = OutBuffA[j].buff
      BY <1>1, <1>4, <1>5
    <3> QED BY <2>2, <3>1
  <2>4. \A i, j \in 1 .. Len(FreeBuffList) : FreeBuffList[i].buff = FreeBuffList[j].buff => i = j
    BY <2>1 DEF Heap
  <2>5. CASE ~IsStaticBuffer(b) /\ kept = 0
    <3>1. PICK d : d = [buff |-> b.buff, len |-> b.alloc]
      OBVIOUS
    <3>2. d \in DynBuffer /\ d.buff = b.buff
      <4>1. b.buff \in HeapBases /\ b.alloc \in Nat
        BY <1>1, <2>1, <2>5, BlockFields DEF Heap
      <4> QED BY <3>1, <4>1 DEF DynBuffer
    <3>3. FreeBuffList' = Append(FreeBuffList, d)
      BY <1>3, <2>5, <3>1
    <3>4. /\ FreeBuffList' \in Seq(DynBuffer) /\ Len(FreeBuffList') = Len(FreeBuffList) + 1
          /\ \A i \in 1 .. Len(FreeBuffList) : FreeBuffList'[i] = FreeBuffList[i]
          /\ FreeBuffList'[Len(FreeBuffList) + 1] = d
      BY <2>1, <3>2, <3>3, AppendProperties
    <3>5. \A i \in 1 .. Len(FreeBuffList') : i \in 1 .. Len(FreeBuffList) \/ i = Len(FreeBuffList) + 1
      BY <2>1, <3>4
    <3>6. \A j \in 1 .. n : d.buff # OutBuffA'[j].buff
      <4>1. n = m - 1
        BY <1>4, <2>5
      <4>2. \A j \in 1 .. m - 1 : j \in 1 .. Len(OutBuffA) /\ j # m
        BY <1>5
      <4>3. \A j \in 1 .. m - 1 : d.buff # OutBuffA[j].buff
        BY <1>1, <2>1, <2>5, <3>2, <4>2 DEF Heap
      <4> QED BY <1>4, <4>1, <4>3
    <3>7. \A i \in 1 .. Len(FreeBuffList) : FreeBuffList[i].buff # d.buff
      BY <1>1, <2>2, <3>2
    <3> QED BY <2>3, <2>4, <3>4, <3>5, <3>6, <3>7
  <2>6. CASE ~(~IsStaticBuffer(b) /\ kept = 0)
    BY <1>3, <2>1, <2>3, <2>4, <2>6
  <2> QED BY <2>5, <2>6
<1>8. Heap(OutBuffA, FreeBuffList)'
  <2>1. Heap(OutBuffA, FreeBuffList) /\ Len(FreeBuffList) \in Nat /\ Len(FreeBuffList') \in Nat
    BY <1>7 DEF IInv, TypeOK
  <2>2. \A i \in 1 .. n - 1 : OutBuffA'[i] = OutBuffA[i]
    BY <1>4, <1>5
  <2>3. n > 0 => \E k \in 1 .. m : /\ OutBuffA'[n].buff = OutBuffA[k].buff /\ k = n
                                   /\ OutBuffA'[n].alloc = OutBuffA[k].alloc
                                   /\ OutBuffA'[n].len <= OutBuffA[k].len
                                   /\ OutBuffA'[n].len \in Nat /\ OutBuffA[k].len \in Nat
                                   /\ OutBuffA[k].alloc \in Nat
    <3>1. \A k \in 1 .. m : OutBuffA[k].len \in Nat /\ OutBuffA[k].alloc \in Nat
      BY <1>1, QueueFacts, BlockFields
    <3>2. CASE n = m
      <4>1. m \in 1 .. m /\ kept \in Nat /\ kept <= b.len
        BY <1>1, <1>2
      <4>2. OutBuffA'[m] = c /\ c.buff = b.buff /\ c.alloc = b.alloc /\ c.len = kept
        BY <1>4, <3>2
      <4> QED BY <1>1, <3>1, <3>2, <4>1, <4>2
    <3>3. CASE n = m - 1 /\ n > 0
      BY <1>4, <1>5, <3>1, <3>3
    <3> QED BY <1>4, <1>5, <3>2, <3>3
  <2>4. n > 0 =>
          /\ \A i \in 1 .. n - 1 : ~IsStaticBuffer(OutBuffA[i]) => OutBuffA'[n].buff # OutBuffA[i].buff
          /\ ~IsStaticBuffer(OutBuffA'[n]) =>
               /\ OutBuffA'[n].buff \in HeapBases
               /\ OutBuffA'[n].len <= OutBuffA'[n].alloc /\ OutBuffA'[n].len <= MaxLen
    <3>1. ASSUME n > 0
          PROVE  /\ \A i \in 1 .. n - 1 :
                      ~IsStaticBuffer(OutBuffA[i]) => OutBuffA'[n].buff # OutBuffA[i].buff
                 /\ ~IsStaticBuffer(OutBuffA'[n]) =>
                      /\ OutBuffA'[n].buff \in HeapBases
                      /\ OutBuffA'[n].len <= OutBuffA'[n].alloc /\ OutBuffA'[n].len <= MaxLen
      <4>1. PICK k \in 1 .. m :
                /\ OutBuffA'[n].buff = OutBuffA[k].buff /\ k = n
                /\ OutBuffA'[n].alloc = OutBuffA[k].alloc
                /\ OutBuffA'[n].len <= OutBuffA[k].len
                /\ OutBuffA'[n].len \in Nat /\ OutBuffA[k].len \in Nat /\ OutBuffA[k].alloc \in Nat
        BY <2>3, <3>1
      <4>2. \A i \in 1 .. n - 1 : i \in 1 .. Len(OutBuffA) /\ i # k
        BY <1>5, <4>1
      <4>3. \A i \in 1 .. n - 1 :
              ~IsStaticBuffer(OutBuffA[i]) => OutBuffA'[n].buff # OutBuffA[i].buff
        BY <1>1, <2>1, <4>1, <4>2 DEF Heap
      <4>4. ~IsStaticBuffer(OutBuffA'[n]) => ~IsStaticBuffer(OutBuffA[k])
        BY <4>1 DEF IsStaticBuffer
      <4>5. MaxLen \in Nat
        BY DEF QueueAssumption
      <4>6. ASSUME ~IsStaticBuffer(OutBuffA'[n])
            PROVE  /\ OutBuffA'[n].buff \in HeapBases
                   /\ OutBuffA'[n].len <= OutBuffA'[n].alloc /\ OutBuffA'[n].len <= MaxLen
        <5>1. /\ OutBuffA[k].buff \in HeapBases
              /\ OutBuffA[k].len <= OutBuffA[k].alloc /\ OutBuffA[k].len <= MaxLen
          BY <1>1, <2>1, <4>1, <4>4, <4>6 DEF Heap
        <5> QED BY <4>1, <4>5, <5>1
      <4> QED BY <4>3, <4>6
    <3> QED BY <3>1
  <2>5. Heap(OutBuffA', FreeBuffList')
    <3>1. Len(OutBuffA) \in Nat /\ n \in Nat /\ n - 1 <= Len(OutBuffA) /\ Len(OutBuffA') = n
      BY <1>4, <1>5
    <3> QED BY <1>7, <2>1, <2>2, <2>4, <3>1, HeapLast, ZenonT(60)
  <2> QED BY <2>5 DEF Heap
<1>9. StatesInOrder' /\ FirstPendingI' \in 0 .. Len(OutBuffA')
  <2>1. FirstPendingI' = FirstPendingI /\ FirstPendingI \in Nat /\ FirstPendingI <= n
    BY <1>1, <1>3, <1>4, QueueFacts
  <2>2. DOMAIN OutBuffA' = 1 .. n /\ DOMAIN OutBuffA = 1 .. Len(OutBuffA)
    BY <1>4, QueueFacts
  <2>3. ASSUME NEW i \in 1 .. n
        PROVE  /\ OutBuffA'[i].state = "WRITING" <=> i <= FirstPendingI
               /\ OutBuffA'[i].state = "ALLOCATED" => i = n
    <3>1. CASE i \in 1 .. m - 1
      <4>1. i \in 1 .. Len(OutBuffA) /\ i # Len(OutBuffA) /\ OutBuffA'[i] = OutBuffA[i]
        BY <1>1, <1>4, <1>5, <3>1
      <4> QED BY <2>2, <4>1 DEF IInv, StatesInOrder
    <3>2. CASE i = m /\ n = m
      BY <1>1, <1>4, <2>1, <3>2
    <3> QED BY <1>5, <3>1, <3>2
  <2> QED BY <1>4, <1>5, <2>1, <2>2, <2>3 DEF StatesInOrder
<1>10. ~IsAllocated'
  <2>1. n > 0 => OutBuffA'[n].state # "ALLOCATED"
    <3>1. CASE n = m
      BY <1>4, <3>1
    <3>2. CASE n = m - 1 /\ n > 0
      <4>1. n \in 1 .. m - 1 /\ n \in DOMAIN OutBuffA /\ n # Len(OutBuffA)
        BY <1>1, <1>5, <3>2, QueueFacts
      <4> QED BY <1>4, <4>1 DEF IInv, StatesInOrder
    <3> QED BY <1>4, <1>5, <3>1, <3>2
  <2> QED BY <1>4, <1>5, <2>1 DEF IsAllocated, Last
<1>11. TypeOK'
  <2>1. mem' \in [Cells -> (0 .. ByteNames - 1) \union {Garbage}]
    BY <1>3 DEF Scrub, IInv, TypeOK
  <2>2. FIFOFreeBegin' \in 0 .. StaticSize - 1
    <3>1. CASE IsStaticBuffer(b) /\ back > 0
      <4>1. InRing(b, u, f)
        BY <1>1, <3>1 DEF IInv, Ring
      <4>2. back \in 1 .. b.len
        BY <1>1, <1>2, <3>1
      <4> QED BY <1>1, <1>2, <1>3, <3>1, <4>1, <4>2, RingStepBack
    <3> QED BY <1>1, <1>3, <3>1
  <2>3. nextByte' \in 0 .. ByteNames - 1
    <3>1. nextByte + len \in Int /\ ByteNames \in Nat \ {0}
      BY DEF IInv, TypeOK, QueueAssumption
    <3> QED BY <1>3, <3>1
  <2> QED BY <1>3, <1>4, <1>7, <1>9, <2>1, <2>2, <2>3 DEF TypeOK, IInv
<1>12. AllocInv'
  BY <1>10 DEF AllocInv
<1>13. OnlyLast
  <2>1. (b.buff + kept) .. (b.buff + b.len - 1) \subseteq Region(OutBuffA[m])
    BY <1>1, <1>2, SMTT(30) DEF Region
  <2>2. \A i \in 1 .. m - 1 : i \in DOMAIN OutBuffA'
    BY <1>4, <1>5
  <2> QED BY <1>1, <1>3, <1>4, <2>1, <2>2 DEF OnlyLast
<1> QED BY <1>6, <1>8, <1>9, <1>11, <1>12, <1>13 DEF IInv

-----------------------------------------------------------------------------
(* Pop(), Release() and Reset().                                           *)

\* Neither the ring nor the heap asks for the state of a block.
LEMMA StateOnly ==
  ASSUME NEW q, NEW r, NEW n, Len(q) = n, Len(r) = n,
         \A i \in 1 .. n : r[i].buff = q[i].buff /\ r[i].len = q[i].len /\ r[i].alloc = q[i].alloc,
         NEW u, NEW f, NEW store
  PROVE  /\ Ring(q, u, f) => Ring(r, u, f)
         /\ Heap(q, store) => Heap(r, store)
<1>1. \A i \in 1 .. n : IsStaticBuffer(r[i]) <=> IsStaticBuffer(q[i])
  BY DEF IsStaticBuffer
<1>2. ASSUME Ring(q, u, f) PROVE Ring(r, u, f)
  <2>1. ASSUME NEW i \in 1 .. n, IsStaticBuffer(r[i]) PROVE InRing(r[i], u, f)
    <3>1. InRing(q[i], u, f)
      BY <1>1, <1>2, <2>1 DEF Ring
    <3> QED BY <3>1 DEF InRing, Upper, End
  <2>2. ASSUME NEW i \in 1 .. n, NEW j \in 1 .. n, i < j,
               IsStaticBuffer(r[i]), IsStaticBuffer(r[j])
        PROVE  Precedes(r[i], r[j], u)
    <3>1. Precedes(q[i], q[j], u)
      BY <1>1, <1>2, <2>2 DEF Ring
    <3> QED BY <3>1 DEF Precedes, Upper, End
  <2> QED BY <2>1, <2>2 DEF Ring
<1>3. ASSUME Heap(q, store) PROVE Heap(r, store)
  BY <1>1, <1>3 DEF Heap
<1> QED BY <1>2, <1>3

\* The first pending block is handed out.
LEMMA PopStep ==
  ASSUME QueueAssumption, IInv, Pop
  PROVE  IInv'
<1>1. PICK k, n, b :
        /\ k = FirstPendingI + 1 /\ n = Len(OutBuffA) /\ b = OutBuffA[k]
        /\ k \in 1 .. n /\ n \in Nat /\ b \in Block /\ FirstPendingI \in Nat
        /\ OutBuffA \in Seq(Block) /\ DOMAIN OutBuffA = 1 .. n
  <2>1. FirstPendingI < Len(OutBuffA)
    BY DEF Pop
  <2>2. FirstPendingI + 1 \in 1 .. Len(OutBuffA)
    BY <2>1, QueueFacts
  <2> QED BY <2>2, QueueFacts
<1>2. PICK c : c = [b EXCEPT !.state = "WRITING"]
  OBVIOUS
<1>3. /\ c \in Block /\ c.state = "WRITING"
      /\ c.buff = b.buff /\ c.len = b.len /\ c.alloc = b.alloc
  BY <1>1, <1>2 DEF Block, States
<1>4. /\ OutBuffA' \in Seq(Block) /\ Len(OutBuffA') = n /\ DOMAIN OutBuffA' = 1 .. n
      /\ \A i \in 1 .. n : OutBuffA'[i] = IF i = k THEN c ELSE OutBuffA[i]
  <2>1. OutBuffA' = [OutBuffA EXCEPT ![k] = c]
    BY <1>1, <1>2 DEF Pop
  <2>2. /\ OutBuffA' \in Seq(Block) /\ Len(OutBuffA') = Len(OutBuffA)
        /\ \A i \in 1 .. Len(OutBuffA) : OutBuffA'[i] = IF i = k THEN c ELSE OutBuffA[i]
    BY <1>1, <1>3, <2>1, ExceptSeq
  <2> QED BY <1>1, <2>2
<1>5. /\ FirstPendingI' = k
      /\ UNCHANGED <<FIFOFreeBegin, FIFOUsedBegin, LastAllocLength, FreeBuffList, mem, nextByte>>
  BY <1>1 DEF Pop, fifo
<1>6. Ring(OutBuffA, FIFOUsedBegin, FIFOFreeBegin)' /\ Heap(OutBuffA, FreeBuffList)'
  <2>1. Ring(OutBuffA, FIFOUsedBegin, FIFOFreeBegin) /\ Heap(OutBuffA, FreeBuffList)
    BY DEF IInv
  <2>2. \A i \in 1 .. n : /\ OutBuffA'[i].buff = OutBuffA[i].buff
                          /\ OutBuffA'[i].len = OutBuffA[i].len
                          /\ OutBuffA'[i].alloc = OutBuffA[i].alloc
    BY <1>1, <1>3, <1>4
  <2>3. Ring(OutBuffA', FIFOUsedBegin, FIFOFreeBegin) /\ Heap(OutBuffA', FreeBuffList)
    BY <1>1, <1>4, <2>1, <2>2, StateOnly
  <2> QED BY <1>5, <2>3 DEF Ring, Heap
<1>7. StatesInOrder'
  <2>1. ASSUME NEW i \in 1 .. n
        PROVE  /\ OutBuffA'[i].state = "WRITING" <=> i <= k
               /\ OutBuffA'[i].state # "ALLOCATED"
    <3>1. ~IsAllocated
      BY DEF Pop
    <3>2. OutBuffA[i].state # "ALLOCATED" /\ (OutBuffA[i].state = "WRITING" <=> i <= FirstPendingI)
      BY <1>1, <3>1, QueueFacts DEF IInv, StatesInOrder
    <3>3. i # k => (i <= k <=> i <= FirstPendingI)
      BY <1>1
    <3> QED BY <1>1, <1>3, <1>4, <3>2, <3>3
  <2> QED BY <1>4, <1>5, <2>1 DEF StatesInOrder
<1>8. TypeOK'
  BY <1>1, <1>4, <1>5 DEF TypeOK, IInv
<1>9. AllocInv'
  <2>1. \A i \in 1 .. n : OutBuffA'[i].state # "ALLOCATED"
    <3>1. ~IsAllocated
      BY DEF Pop
    <3> QED BY <1>1, <1>3, <1>4, <3>1, QueueFacts
  <2>2. n \in 1 .. n
    BY <1>1
  <2> QED BY <1>4, <2>1, <2>2 DEF AllocInv, IsAllocated, Last
<1> QED BY <1>6, <1>7, <1>8, <1>9 DEF IInv

\* The oldest block leaves; what is left of the ring begins behind it.
LEMMA ReleaseStep ==
  ASSUME QueueAssumption, IInv, Release
  PROVE  IInv'
<1>1. PICK n, b, u, f :
        /\ n = Len(OutBuffA) /\ b = OutBuffA[1] /\ b = Head(OutBuffA) /\ n \in Nat \ {0}
        /\ b \in Block /\ b.state = "WRITING" /\ FirstPendingI \in 1 .. n
        /\ u = FIFOUsedBegin /\ f = FIFOFreeBegin
        /\ u \in 0 .. StaticSize - 1 /\ f \in 0 .. StaticSize - 1
        /\ OutBuffA \in Seq(Block) /\ OutBuffA # << >> /\ DOMAIN OutBuffA = 1 .. n
        /\ \A i \in 1 .. n : OutBuffA[i] \in Block
  <2>1. OutBuffA # << >> /\ Head(OutBuffA).state = "WRITING"
    BY DEF Release
  <2>2. 1 \in 1 .. Len(OutBuffA) /\ Head(OutBuffA) = OutBuffA[1] /\ Len(OutBuffA) \in Nat \ {0}
    BY <2>1, QueueFacts
  <2>3. FIFOUsedBegin \in 0 .. StaticSize - 1 /\ FIFOFreeBegin \in 0 .. StaticSize - 1
    BY DEF IInv, TypeOK
  <2>4. FirstPendingI \in 1 .. Len(OutBuffA)
    <3>1. 1 <= FirstPendingI
      BY <2>1, <2>2, QueueFacts DEF IInv, StatesInOrder
    <3> QED BY <3>1, QueueFacts
  <2> QED BY <2>1, <2>2, <2>3, <2>4, QueueFacts
<1>2. PICK q : /\ q = OutBuffA' /\ q \in Seq(Block) /\ Len(q) = n - 1 /\ DOMAIN q = 1 .. n - 1
               /\ \A i \in 1 .. n - 1 : q[i] = OutBuffA[i + 1] /\ i + 1 \in 2 .. n
  <2>1. OutBuffA' = Tail(OutBuffA)
    BY DEF Release
  <2>2. /\ Tail(OutBuffA) \in Seq(Block) /\ Len(Tail(OutBuffA)) = n - 1
        /\ \A i \in 1 .. n - 1 : Tail(OutBuffA)[i] = OutBuffA[i + 1]
    BY <1>1, HeadTailProperties
  <2>3. \A i \in 1 .. n - 1 : i + 1 \in 2 .. n
    BY <1>1
  <2>4. DOMAIN Tail(OutBuffA) = 1 .. Len(Tail(OutBuffA))
    BY <2>2
  <2> QED BY <2>1, <2>2, <2>3, <2>4
<1>3. /\ FirstPendingI' = FirstPendingI - 1 /\ mem' = Scrub(Region(b))
      /\ IF IsStaticBuffer(b)
           THEN /\ IF UsedAfter(b) = f
                     THEN FIFOUsedBegin' = 0 /\ FIFOFreeBegin' = 0
                     ELSE FIFOUsedBegin' = UsedAfter(b) /\ FIFOFreeBegin' = f
                /\ FreeBuffList' = FreeBuffList
           ELSE /\ FreeBuffList' = Append(FreeBuffList, [buff |-> b.buff, len |-> b.alloc])
                /\ FIFOUsedBegin' = u /\ FIFOFreeBegin' = f
      /\ LastAllocLength' = LastAllocLength /\ nextByte' = nextByte
  BY <1>1 DEF Release, fifo
<1>4. /\ Ring(OutBuffA, u, f) /\ Heap(OutBuffA, FreeBuffList)
      /\ FreeBuffList \in Seq(DynBuffer) /\ Len(FreeBuffList) \in Nat
  BY <1>1 DEF IInv, TypeOK
<1>5. /\ \A i \in 2 .. n : i \in 1 .. n /\ i # 1 /\ 1 < i
      /\ 1 \in 1 .. n
  BY <1>1
<1>6. /\ FIFOUsedBegin' \in 0 .. StaticSize - 1 /\ FIFOFreeBegin' \in 0 .. StaticSize - 1
      /\ Ring(q, FIFOUsedBegin', FIFOFreeBegin')
      /\ \A i \in 2 .. n : IsStaticBuffer(OutBuffA[i]) => FIFOFreeBegin' = f
  <2>1. CASE IsStaticBuffer(b)
    <3>1. InRing(b, u, f)
      BY <1>1, <1>4, <1>5, <2>1 DEF Ring
    <3>2. /\ UsedAfter(b) \in 0 .. StaticSize - 1
          /\ \A c \in Block : InRing(c, u, f) /\ Precedes(b, c, u)
               => UsedAfter(b) # f /\ InRing(c, UsedAfter(b), f)
          /\ \A c, d \in Block :
               /\ InRing(c, u, f) /\ Precedes(b, c, u) /\ InRing(d, u, f) /\ Precedes(b, d, u)
               /\ Precedes(c, d, u)
               => Precedes(c, d, UsedAfter(b))
      BY <1>1, <2>1, <3>1, RingRelease
    <3>3. ASSUME NEW i \in 2 .. n, IsStaticBuffer(OutBuffA[i])
          PROVE  InRing(OutBuffA[i], u, f) /\ Precedes(b, OutBuffA[i], u) /\ OutBuffA[i] \in Block
      BY <1>1, <1>4, <1>5, <2>1, <3>3 DEF Ring
    <3>4. ASSUME NEW i \in 2 .. n, IsStaticBuffer(OutBuffA[i])
          PROVE  /\ InRing(OutBuffA[i], UsedAfter(b), f)
                 /\ FIFOUsedBegin' = UsedAfter(b) /\ FIFOFreeBegin' = f
      <4>1. UsedAfter(b) # f /\ InRing(OutBuffA[i], UsedAfter(b), f)
        BY <3>2, <3>3, <3>4
      <4> QED BY <1>3, <2>1, <4>1
    <3>5. ASSUME NEW i \in 2 .. n, NEW j \in 2 .. n, i < j,
                 IsStaticBuffer(OutBuffA[i]), IsStaticBuffer(OutBuffA[j])
          PROVE  Precedes(OutBuffA[i], OutBuffA[j], UsedAfter(b))
      <4>1. Precedes(OutBuffA[i], OutBuffA[j], u)
        BY <1>1, <1>4, <1>5, <3>5 DEF Ring
      <4> QED BY <3>2, <3>3, <3>5, <4>1
    <3>6. Ring(q, FIFOUsedBegin', FIFOFreeBegin')
      <4>1. ASSUME NEW i \in 1 .. n - 1, IsStaticBuffer(q[i])
            PROVE  InRing(q[i], FIFOUsedBegin', FIFOFreeBegin')
        BY <1>2, <3>4, <4>1
      <4>2. ASSUME NEW i \in 1 .. n - 1, NEW j \in 1 .. n - 1, i < j,
                   IsStaticBuffer(q[i]), IsStaticBuffer(q[j])
            PROVE  Precedes(q[i], q[j], FIFOUsedBegin')
        <5>1. i + 1 \in 2 .. n /\ j + 1 \in 2 .. n /\ i + 1 < j + 1
          BY <1>2, <4>2
        <5>2. q[i] = OutBuffA[i + 1] /\ q[j] = OutBuffA[j + 1]
          BY <1>2
        <5> QED BY <3>4, <3>5, <4>2, <5>1, <5>2
      <4> QED BY <1>2, <4>1, <4>2 DEF Ring
    <3>7. FIFOUsedBegin' \in 0 .. StaticSize - 1 /\ FIFOFreeBegin' \in 0 .. StaticSize - 1
      <4>1. 0 \in 0 .. StaticSize - 1
        BY DEF QueueAssumption
      <4> QED BY <1>1, <1>3, <2>1, <3>2, <4>1
    <3> QED BY <3>4, <3>6, <3>7
  <2>2. CASE ~IsStaticBuffer(b)
    <3>1. FIFOUsedBegin' = u /\ FIFOFreeBegin' = f
      BY <1>3, <2>2
    <3>2. ASSUME NEW i \in 1 .. n - 1, IsStaticBuffer(q[i]) PROVE InRing(q[i], u, f)
      BY <1>1, <1>2, <1>4, <1>5, <3>2 DEF Ring
    <3>3. ASSUME NEW i \in 1 .. n - 1, NEW j \in 1 .. n - 1, i < j,
                 IsStaticBuffer(q[i]), IsStaticBuffer(q[j])
          PROVE  Precedes(q[i], q[j], u)
      <4>1. i + 1 \in 2 .. n /\ j + 1 \in 2 .. n /\ i + 1 < j + 1
        BY <1>2, <3>3
      <4>2. q[i] = OutBuffA[i + 1] /\ q[j] = OutBuffA[j + 1]
        BY <1>2
      <4> QED BY <1>1, <1>4, <1>5, <3>3, <4>1, <4>2 DEF Ring
    <3> QED BY <1>1, <1>2, <3>1, <3>2, <3>3 DEF Ring
  <2> QED BY <2>1, <2>2
<1>7. Heap(q, FreeBuffList') /\ FreeBuffList' \in Seq(DynBuffer)
  <2>1. /\ \A i \in 1 .. n - 1 :
             ~IsStaticBuffer(q[i]) =>
               q[i].buff \in HeapBases /\ q[i].len <= q[i].alloc /\ q[i].len <= MaxLen
        /\ \A i \in 1 .. Len(FreeBuffList) : \A j \in 1 .. n - 1 :
             FreeBuffList[i].buff # q[j].buff
    BY <1>1, <1>2, <1>4, <1>5 DEF Heap
  <2>2. ASSUME NEW i \in 1 .. n - 1, NEW j \in 1 .. n - 1, ~IsStaticBuffer(q[i]),
               q[i].buff = q[j].buff
        PROVE  i = j
    <3>1. /\ i + 1 \in 1 .. n /\ j + 1 \in 1 .. n /\ ~IsStaticBuffer(OutBuffA[i + 1])
          /\ OutBuffA[i + 1].buff = OutBuffA[j + 1].buff
      BY <1>2, <1>5, <2>2
    <3>2. i + 1 = j + 1
      BY <1>1, <1>4, <3>1 DEF Heap
    <3> QED BY <3>2
  <2>3. \A i, j \in 1 .. Len(FreeBuffList) : FreeBuffList[i].buff = FreeBuffList[j].buff => i = j
    BY <1>4 DEF Heap
  <2>4. CASE IsStaticBuffer(b)
    BY <1>2, <1>3, <1>4, <2>1, <2>2, <2>3, <2>4 DEF Heap
  <2>5. CASE ~IsStaticBuffer(b)
    <3>1. PICK d : d = [buff |-> b.buff, len |-> b.alloc]
      OBVIOUS
    <3>2. d \in DynBuffer /\ d.buff = b.buff
      <4>1. b.buff \in HeapBases /\ b.alloc \in Nat
        BY <1>1, <1>4, <1>5, <2>5, BlockFields DEF Heap
      <4> QED BY <3>1, <4>1 DEF DynBuffer
    <3>3. FreeBuffList' = Append(FreeBuffList, d)
      BY <1>3, <2>5, <3>1
    <3>4. /\ FreeBuffList' \in Seq(DynBuffer) /\ Len(FreeBuffList') = Len(FreeBuffList) + 1
          /\ \A i \in 1 .. Len(FreeBuffList) : FreeBuffList'[i] = FreeBuffList[i]
          /\ FreeBuffList'[Len(FreeBuffList) + 1] = d
      BY <1>4, <3>2, <3>3, AppendProperties
    <3>5. \A i \in 1 .. Len(FreeBuffList') : i \in 1 .. Len(FreeBuffList) \/ i = Len(FreeBuffList) + 1
      BY <1>4, <3>4
    <3>6. \A j \in 1 .. n - 1 : d.buff # q[j].buff
      BY <1>1, <1>2, <1>4, <1>5, <2>5, <3>2 DEF Heap
    <3>7. \A i \in 1 .. Len(FreeBuffList) : FreeBuffList[i].buff # d.buff
      BY <1>1, <1>4, <1>5, <3>2 DEF Heap
    <3>8. /\ \A i \in 1 .. Len(FreeBuffList') : \A j \in 1 .. n - 1 :
               FreeBuffList'[i].buff # q[j].buff
          /\ \A i, j \in 1 .. Len(FreeBuffList') :
               FreeBuffList'[i].buff = FreeBuffList'[j].buff => i = j
      BY <2>1, <2>3, <3>4, <3>5, <3>6, <3>7, SMTT(30)
    <3> QED BY <1>2, <2>1, <2>2, <3>4, <3>8 DEF Heap
  <2> QED BY <2>4, <2>5
<1>8. StatesInOrder'
  <2>1. ASSUME NEW i \in 1 .. n - 1
        PROVE  /\ q[i].state = "WRITING" <=> i <= FirstPendingI - 1
               /\ q[i].state = "ALLOCATED" => i = n - 1
    <3>1. /\ OutBuffA[i + 1].state = "WRITING" <=> i + 1 <= FirstPendingI
          /\ OutBuffA[i + 1].state = "ALLOCATED" => i + 1 = n
      BY <1>1, <1>2, <1>5 DEF IInv, StatesInOrder
    <3>2. i + 1 <= FirstPendingI <=> i <= FirstPendingI - 1
      BY <1>1
    <3>3. i + 1 = n => i = n - 1
      BY <1>1
    <3> QED BY <1>2, <3>1, <3>2, <3>3
  <2> QED BY <1>2, <1>3, <2>1 DEF StatesInOrder
<1>9. TypeOK'
  <2>1. mem' \in [Cells -> (0 .. ByteNames - 1) \union {Garbage}]
    BY <1>3 DEF Scrub, IInv, TypeOK
  <2>2. FirstPendingI' \in 0 .. Len(q)
    BY <1>1, <1>2, <1>3
  <2> QED BY <1>2, <1>3, <1>6, <1>7, <2>1, <2>2 DEF TypeOK, IInv
<1>10. AllocInv'
  <2>1. ASSUME IsAllocated'
        PROVE  n > 1 /\ IsAllocated /\ Last(OutBuffA)' = OutBuffA[n] /\ Last(OutBuffA) = OutBuffA[n]
    <3>1. q # << >> /\ Last(q).state = "ALLOCATED"
      BY <1>2, <2>1 DEF IsAllocated
    <3>2. n - 1 \in 1 .. n - 1
      BY <1>1, <1>2, <3>1
    <3>3. (n - 1) + 1 = n
      BY <1>1
    <3>4. Last(q) = OutBuffA[n]
      BY <1>2, <3>2, <3>3 DEF Last
    <3> QED BY <1>1, <1>2, <3>1, <3>2, <3>4 DEF IsAllocated, Last
  <2>2. ASSUME IsAllocated', IsStaticBuffer(OutBuffA[n]) PROVE FIFOFreeBegin' = f
    BY <1>1, <1>6, <2>1, <2>2
  <2>3. LastAllocLength' = LastAllocLength
    BY <1>3
  <2> QED BY <1>1, <2>1, <2>2, <2>3 DEF AllocInv, IInv
<1> QED BY <1>2, <1>6, <1>7, <1>8, <1>9, <1>10 DEF IInv, Ring, Heap

\* Without blocks only the store matters: each heap buffer went there once.
LEMMA ResetStep ==
  ASSUME QueueAssumption, IInv, NEW releaseDynamic \in BOOLEAN, Reset(releaseDynamic)
  PROVE  IInv'
<1>1. PICK k, order :
        /\ k = Cardinality(HeapBlocks) /\ order \in [1 .. k -> HeapBlocks]
        /\ \A i, j \in DOMAIN order : i < j => order[i] < order[j]
        /\ FreeBuffList' =
             IF releaseDynamic THEN << >>
             ELSE FreeBuffList \o [i \in DOMAIN order |->
                    LET b == OutBuffA[order[i]] IN [buff |-> b.buff, len |-> b.alloc]]
  BY DEF Reset
<1>2. k \in Nat /\ HeapBlocks \subseteq 1 .. Len(OutBuffA)
  <2>1. HeapBlocks \in SUBSET (1 .. Len(OutBuffA)) /\ Len(OutBuffA) \in Nat
    BY QueueFacts DEF HeapBlocks
  <2>2. IsFiniteSet(1 .. Len(OutBuffA))
    BY <2>1, FS_Interval
  <2>3. IsFiniteSet(HeapBlocks)
    BY <2>1, <2>2, FS_Subset
  <2> QED BY <1>1, <2>1, <2>3, FS_CardinalityType
<1>3. /\ FIFOFreeBegin' = 0 /\ FIFOUsedBegin' = 0 /\ LastAllocLength' = 0
      /\ OutBuffA' = << >> /\ FirstPendingI' = 0 /\ mem' = Scrub(Cells)
      /\ nextByte' = nextByte
  BY DEF Reset
<1>4. FreeBuffList \in Seq(DynBuffer) /\ Len(FreeBuffList) \in Nat /\ Heap(OutBuffA, FreeBuffList)
  BY DEF IInv, TypeOK
\* The store: the heap buffers of the queue follow those it had.
<1>5. /\ FreeBuffList' \in Seq(DynBuffer)
      /\ \A i, j \in 1 .. Len(FreeBuffList') :
           FreeBuffList'[i].buff = FreeBuffList'[j].buff => i = j
  <2>1. CASE releaseDynamic
    BY <1>1, <2>1
  <2>2. CASE ~releaseDynamic
    <3>1. PICK t : t = [i \in 1 .. k |-> [buff |-> OutBuffA[order[i]].buff,
                                          len |-> OutBuffA[order[i]].alloc]]
      OBVIOUS
    <3>2. /\ FreeBuffList' = FreeBuffList \o t
          /\ \A i \in 1 .. k : t[i].buff = OutBuffA[order[i]].buff
      BY <1>1, <2>2, <3>1
    <3>3. \A i \in 1 .. k : /\ order[i] \in 1 .. Len(OutBuffA)
                            /\ ~IsStaticBuffer(OutBuffA[order[i]])
                            /\ OutBuffA[order[i]] \in Block
                            /\ OutBuffA[order[i]].buff \in HeapBases
      <4>1. \A i \in 1 .. k : order[i] \in HeapBlocks
        BY <1>1
      <4> QED BY <1>2, <1>4, <4>1, QueueFacts DEF HeapBlocks, Heap
    <3>4. t \in Seq(DynBuffer) /\ Len(t) = k
      <4>1. \A i \in 1 .. k : t[i] \in DynBuffer
        BY <3>1, <3>3, BlockFields DEF DynBuffer
      <4>2. t \in [1 .. k -> DynBuffer]
        BY <3>1, <4>1
      <4> QED BY <1>2, <4>2
    <3>5. /\ FreeBuffList' \in Seq(DynBuffer) /\ Len(FreeBuffList') = Len(FreeBuffList) + k
          /\ \A i \in 1 .. Len(FreeBuffList') :
               FreeBuffList'[i] = IF i <= Len(FreeBuffList) THEN FreeBuffList[i]
                                  ELSE t[i - Len(FreeBuffList)]
      <4>1. /\ FreeBuffList \o t \in Seq(DynBuffer)
            /\ Len(FreeBuffList \o t) = Len(FreeBuffList) + Len(t)
            /\ \A i \in 1 .. Len(FreeBuffList) + Len(t) :
                 (FreeBuffList \o t)[i] = IF i <= Len(FreeBuffList) THEN FreeBuffList[i]
                                          ELSE t[i - Len(FreeBuffList)]
        BY <1>4, <3>4, ConcatProperties, Zenon
      <4> QED BY <3>2, <3>4, <4>1
    <3>6. \A i \in 1 .. Len(FreeBuffList') : \/ i \in 1 .. Len(FreeBuffList)
                                             \/ i - Len(FreeBuffList) \in 1 .. k
                                                /\ ~(i <= Len(FreeBuffList))
      BY <1>2, <1>4, <3>5
    <3>7. ASSUME NEW i \in 1 .. k, NEW j \in 1 .. k, t[i].buff = t[j].buff PROVE i = j
      <4>1. order[i] = order[j]
        BY <1>4, <3>2, <3>3, <3>7 DEF Heap
      <4>2. order[i] \in Nat /\ ~(i < j) /\ ~(j < i)
        BY <1>1, <1>2, <3>3, <4>1
      <4> QED BY <1>2, <4>2
    <3>8. \A i \in 1 .. Len(FreeBuffList) : \A j \in 1 .. k : FreeBuffList[i].buff # t[j].buff
      BY <1>4, <3>2, <3>3, SMTT(30) DEF Heap
    <3>9. \A i, j \in 1 .. Len(FreeBuffList) : FreeBuffList[i].buff = FreeBuffList[j].buff => i = j
      BY <1>4 DEF Heap
    <3>10. ASSUME NEW i \in 1 .. Len(FreeBuffList'), NEW j \in 1 .. Len(FreeBuffList'),
                  FreeBuffList'[i].buff = FreeBuffList'[j].buff
           PROVE  i = j
      <4>1. CASE i \in 1 .. Len(FreeBuffList) /\ j \in 1 .. Len(FreeBuffList)
        BY <3>5, <3>9, <3>10, <4>1
      <4>2. CASE i \in 1 .. Len(FreeBuffList) /\ ~(j <= Len(FreeBuffList))
        BY <3>5, <3>6, <3>8, <3>10, <4>2
      <4>3. CASE ~(i <= Len(FreeBuffList)) /\ j \in 1 .. Len(FreeBuffList)
        BY <3>5, <3>6, <3>8, <3>10, <4>3
      <4>4. CASE ~(i <= Len(FreeBuffList)) /\ ~(j <= Len(FreeBuffList))
        <5>1. i - Len(FreeBuffList) \in 1 .. k /\ j - Len(FreeBuffList) \in 1 .. k
          BY <3>6, <4>4
        <5>2. t[i - Len(FreeBuffList)].buff = t[j - Len(FreeBuffList)].buff
          BY <3>5, <3>10, <4>4
        <5>3. i - Len(FreeBuffList) = j - Len(FreeBuffList)
          BY <3>7, <5>1, <5>2
        <5> QED BY <1>4, <5>3
      <4> QED BY <3>6, <4>1, <4>2, <4>3, <4>4
    <3> QED BY <3>5, <3>10
  <2> QED BY <2>1, <2>2
<1>6. TypeOK'
  <2>1. mem' \in [Cells -> (0 .. ByteNames - 1) \union {Garbage}]
    BY <1>3 DEF Scrub, IInv, TypeOK
  <2>2. 0 \in 0 .. StaticSize - 1 /\ 0 \in 0 .. MaxLen
    BY DEF QueueAssumption
  <2>3. OutBuffA' \in Seq(Block) /\ FirstPendingI' \in 0 .. Len(OutBuffA')
    BY <1>3
  <2> QED BY <1>3, <1>5, <2>1, <2>2, <2>3 DEF TypeOK, IInv
<1>7. StatesInOrder' /\ AllocInv'
  BY <1>3 DEF StatesInOrder, AllocInv, IsAllocated
<1>8. Ring(OutBuffA, FIFOUsedBegin, FIFOFreeBegin)'
  BY <1>3 DEF Ring
<1>9. Heap(OutBuffA, FreeBuffList)'
  <2>1. Len(OutBuffA') = 0 /\ 1 .. 0 = {}
    BY <1>3
  <2> QED BY <1>5, <2>1 DEF Heap
<1> QED BY <1>6, <1>7, <1>8, <1>9 DEF IInv

-----------------------------------------------------------------------------
(* The queue.                                                              *)

\* The invariant holds at first, and every operation keeps it.
LEMMA Inductive == Spec => []IInv
<1>1. ASSUME Init PROVE IInv
  <2>1. OutBuffA = << >> /\ Len(OutBuffA) = 0 /\ FreeBuffList = << >> /\ Len(FreeBuffList) = 0
    BY <1>1 DEF Init
  <2>2. TypeOK
    BY <1>1, QueueAssumption DEF Init, TypeOK
  <2>3. StatesInOrder /\ AllocInv
    BY <2>1 DEF StatesInOrder, AllocInv, IsAllocated
  <2>4. Ring(OutBuffA, FIFOUsedBegin, FIFOFreeBegin) /\ Heap(OutBuffA, FreeBuffList)
    BY <2>1 DEF Ring, Heap
  <2> QED BY <2>2, <2>3, <2>4 DEF IInv
<1>2. ASSUME IInv, [Next]_vars PROVE IInv'
  <2>1. ASSUME NEW len \in 1 .. MaxLen, Allocate(len) PROVE IInv'
    BY <1>2, <2>1, AllocateStep, QueueAssumption
  <2>2. ASSUME NEW len \in 0 .. MaxLen, Commit(len) PROVE IInv'
    BY <1>2, <2>2, CommitStep, QueueAssumption
  <2>3. CASE Pop
    BY <1>2, <2>3, PopStep, QueueAssumption
  <2>4. CASE Release
    BY <1>2, <2>4, ReleaseStep, QueueAssumption
  <2>5. ASSUME NEW releaseDynamic \in BOOLEAN, Reset(releaseDynamic) PROVE IInv'
    BY <1>2, <2>5, ResetStep, QueueAssumption
  <2>6. CASE UNCHANGED vars
    BY <1>2, <2>6 DEF vars, fifo, IInv, TypeOK, StatesInOrder, AllocInv, IsAllocated, Ring, Heap
  <2> QED BY <1>2, <2>1, <2>2, <2>3, <2>4, <2>5, <2>6 DEF Next
<1> QED BY <1>1, <1>2, PTL DEF Spec

\* No two blocks share a cell: in the ring by their order, in the heap by the
\* distance of the buffers.
LEMMA Apart ==
  ASSUME QueueAssumption, IInv
  PROVE  BlocksApart
<1>1. /\ DOMAIN OutBuffA = 1 .. Len(OutBuffA) /\ Len(OutBuffA) \in Nat
      /\ Ring(OutBuffA, FIFOUsedBegin, FIFOFreeBegin) /\ Heap(OutBuffA, FreeBuffList)
      /\ FIFOUsedBegin \in Nat /\ FIFOFreeBegin \in Nat /\ StaticSize \in Nat /\ MaxLen \in Nat
  BY QueueFacts DEF IInv, TypeOK, QueueAssumption
<1>2. \A i \in 1 .. Len(OutBuffA) : /\ OutBuffA[i] \in Block /\ OutBuffA[i].buff \in Nat
                                    /\ OutBuffA[i].len \in Nat
  BY QueueFacts, BlockFields
<1>3. ASSUME NEW i \in 1 .. Len(OutBuffA), IsStaticBuffer(OutBuffA[i])
      PROVE  InRing(OutBuffA[i], FIFOUsedBegin, FIFOFreeBegin)
  BY <1>1, <1>3 DEF Ring
<1>4. ASSUME NEW i \in 1 .. Len(OutBuffA), ~IsStaticBuffer(OutBuffA[i])
      PROVE  /\ OutBuffA[i].buff \in HeapBases /\ OutBuffA[i].buff >= StaticSize
             /\ OutBuffA[i].len <= MaxLen /\ OutBuffA[i].len <= OutBuffA[i].alloc
  BY <1>1, <1>4, Addresses DEF Heap
<1>5. ASSUME NEW i \in 1 .. Len(OutBuffA), NEW j \in 1 .. Len(OutBuffA), i < j
      PROVE  \/ End(OutBuffA[i]) <= OutBuffA[j].buff
             \/ End(OutBuffA[j]) <= OutBuffA[i].buff
  <2>1. CASE IsStaticBuffer(OutBuffA[i]) /\ IsStaticBuffer(OutBuffA[j])
    <3>1. Precedes(OutBuffA[i], OutBuffA[j], FIFOUsedBegin)
      BY <1>1, <1>5, <2>1 DEF Ring
    <3>2. InRing(OutBuffA[j], FIFOUsedBegin, FIFOFreeBegin)
      BY <1>3, <2>1
    <3> QED BY <1>1, <1>2, <3>1, <3>2 DEF Precedes, InRing, Upper, End
  <2>2. CASE IsStaticBuffer(OutBuffA[i]) /\ ~IsStaticBuffer(OutBuffA[j])
    BY <1>1, <1>2, <1>3, <1>4, <2>2 DEF InRing, End
  <2>3. CASE ~IsStaticBuffer(OutBuffA[i]) /\ IsStaticBuffer(OutBuffA[j])
    BY <1>1, <1>2, <1>3, <1>4, <2>3 DEF InRing, End
  <2>4. CASE ~IsStaticBuffer(OutBuffA[i]) /\ ~IsStaticBuffer(OutBuffA[j])
    <3>1. OutBuffA[i].buff # OutBuffA[j].buff
      BY <1>1, <1>5, <2>4 DEF Heap
    <3>2. \/ OutBuffA[i].buff + MaxLen <= OutBuffA[j].buff
          \/ OutBuffA[j].buff + MaxLen <= OutBuffA[i].buff
      BY <1>4, <2>4, <3>1, Addresses
    <3>3. OutBuffA[i].len <= MaxLen /\ OutBuffA[j].len <= MaxLen
      BY <1>4, <2>4
    <3> QED BY <1>1, <1>2, <3>2, <3>3, SMTT(30) DEF End
  <2> QED BY <2>1, <2>2, <2>3, <2>4
<1>6. ASSUME NEW i \in 1 .. Len(OutBuffA), NEW j \in 1 .. Len(OutBuffA), i # j
      PROVE  Region(OutBuffA[i]) \intersect Region(OutBuffA[j]) = {}
  <2>1. i < j \/ j < i
    BY <1>1, <1>6
  <2>2. \/ End(OutBuffA[i]) <= OutBuffA[j].buff
        \/ End(OutBuffA[j]) <= OutBuffA[i].buff
    BY <1>5, <2>1
  <2>3. ASSUME NEW c \in Region(OutBuffA[i]), c \in Region(OutBuffA[j]) PROVE FALSE
    <3>1. \A k \in 1 .. Len(OutBuffA) :
            c \in Region(OutBuffA[k]) => c \in Int /\ c >= OutBuffA[k].buff /\ c < End(OutBuffA[k])
      BY <1>2, SMTT(30) DEF Region, End
    <3>2. /\ c \in Int /\ c >= OutBuffA[i].buff /\ c < End(OutBuffA[i])
          /\ c >= OutBuffA[j].buff /\ c < End(OutBuffA[j])
      BY <2>3, <3>1
    <3>3. /\ OutBuffA[i].buff \in Int /\ End(OutBuffA[i]) \in Int
          /\ OutBuffA[j].buff \in Int /\ End(OutBuffA[j]) \in Int
      BY <1>2 DEF End
    <3> QED BY <2>2, <3>2, <3>3
  <2> QED BY <2>3
<1>7. ASSUME NEW i \in 1 .. Len(OutBuffA)
      PROVE  IF IsStaticBuffer(OutBuffA[i]) THEN OutBuffA[i].buff + OutBuffA[i].len <= StaticSize
                                            ELSE OutBuffA[i].len <= OutBuffA[i].alloc
  BY <1>3, <1>4 DEF InRing, End
<1> QED BY <1>1, <1>6, <1>7 DEF BlocksApart

\* Every variable keeps its type, so both ring pointers stay inside WriteBuff,
\* however long the queue is in use.
THEOREM TypeCorrect == Spec => []TypeOK
<1>1. IInv => TypeOK
  BY DEF IInv
<1> QED BY <1>1, Inductive, PTL

\* The blocks being written come first in the queue, and at most the last one
\* waits for its Commit(): Release() and Pop() may look at one index only.
THEOREM InOrder == Spec => []StatesInOrder
<1>1. IInv => StatesInOrder
  BY DEF IInv
<1> QED BY <1>1, Inductive, PTL

\* No two queued blocks share a cell, and none leaves WriteBuff or its heap
\* buffer.
THEOREM NoOverlap == Spec => []BlocksApart
<1>1. IInv => BlocksApart
  BY Apart, QueueAssumption
<1> QED BY <1>1, Inductive, PTL

\* A heap buffer is queued once or in store once, through Release(), a Commit()
\* of nothing and Reset().
THEOREM OneHeapOwner == Spec => []HeapOwnedOnce
<1>1. ASSUME IInv PROVE HeapOwnedOnce
  <2>1. /\ DOMAIN FreeBuffList = 1 .. Len(FreeBuffList) /\ DOMAIN OutBuffA = 1 .. Len(OutBuffA)
        /\ Heap(OutBuffA, FreeBuffList)
    BY <1>1, QueueFacts DEF IInv, TypeOK
  <2>2. IsInjective(FreeBuffList)
    BY <2>1 DEF IsInjective, Heap
  <2> QED BY <2>1, <2>2 DEF HeapOwnedOnce, Heap
<1> QED BY <1>1, Inductive, PTL

\* A block lies in the ring or in the heap.
LEMMA RegionInCells ==
  ASSUME QueueAssumption, IInv, NEW i \in 1 .. Len(OutBuffA)
  PROVE  Region(OutBuffA[i]) \subseteq Cells
<1>0. /\ DOMAIN OutBuffA = 1 .. Len(OutBuffA) /\ Len(OutBuffA) \in Nat
      /\ OutBuffA[i] \in Block
  BY QueueFacts
<1>1. \A c \in Region(OutBuffA[i]) : c \in Int
  BY <1>0, BlockFields DEF Region
<1>2. CASE IsStaticBuffer(OutBuffA[i])
  <2>1. OutBuffA[i].buff + OutBuffA[i].len <= StaticSize
    BY <1>0, <1>2, Apart DEF BlocksApart
  <2>2. Region(OutBuffA[i]) \subseteq 0 .. StaticSize - 1
    BY <1>0, <2>1, BlockFields DEF Region, QueueAssumption
  <2> QED BY <2>2, Addresses
<1>3. CASE ~IsStaticBuffer(OutBuffA[i])
  <2>1. PICK k \in 0 .. MaxHeap - 1 : OutBuffA[i].buff = StaticSize + k * RoundUp(MaxLen)
    BY <1>0, <1>3 DEF IInv, Heap, HeapBases
  <2>2. OutBuffA[i].len <= MaxLen
    BY <1>0, <1>3 DEF IInv, Heap
  <2> DEFINE R == RoundUp(MaxLen)
  <2>3. /\ R \in Nat /\ MaxLen <= R /\ StaticSize \in Nat /\ MaxHeap \in Nat /\ MaxLen \in Nat
    BY Addresses DEF QueueAssumption
  <2>4. Cells = 0 .. StaticSize + MaxHeap * R - 1
    BY DEF Cells
  <2> HIDE DEF R
  <2>5. k * R \in Nat /\ MaxHeap * R \in Nat /\ k * R + R <= MaxHeap * R
    BY <2>3
  <2>6. OutBuffA[i].buff = StaticSize + k * R
    BY <2>1 DEF R
  <2>7. OutBuffA[i].len \in Nat /\ OutBuffA[i].buff \in Nat
    BY <1>0, BlockFields
  <2>8. ASSUME NEW c \in Region(OutBuffA[i]) PROVE c \in Cells
    <3>1. c \in Int /\ c >= StaticSize + k * R /\ c < StaticSize + k * R + MaxLen
      BY <2>2, <2>3, <2>5, <2>6, <2>7 DEF Region
    <3> QED BY <2>3, <2>4, <2>5, <3>1
  <2> QED BY <2>8
<1> QED BY <1>2, <1>3

\* What an allocation is filled with goes to no cell of another block.
LEMMA AllocateKeeps ==
  ASSUME QueueAssumption, IInv, BlocksApart', NEW len \in 1 .. MaxLen, Allocate(len)
  PROVE  /\ Len(OutBuffA') \in {Len(OutBuffA), Len(OutBuffA) + 1}
         /\ Len(OutBuffA') > FirstPendingI
         /\ \A i \in 1 .. Len(OutBuffA') - 1 :
              /\ OutBuffA'[i] = OutBuffA[i] /\ i \in DOMAIN OutBuffA'
              /\ \A c \in Region(OutBuffA[i]) : mem'[c] = mem[c]
<1>1. PICK n, b : \E ptr \in Nat :
        Pushed(n, b) /\ Fill(ptr, len) /\ b.buff <= ptr /\ ptr + len <= End(b)
  BY AllocateStep DEF PushedBytes
<1>2. PICK ptr \in Nat :
        Pushed(n, b) /\ Fill(ptr, len) /\ b.buff <= ptr /\ ptr + len <= End(b)
  BY <1>1
<1>3. ASSUME NEW i \in 1 .. n - 1
      PROVE  /\ OutBuffA'[i] = OutBuffA[i] /\ i \in DOMAIN OutBuffA'
             /\ \A c \in Region(OutBuffA[i]) : mem'[c] = mem[c]
  <2>1. /\ i \in 1 .. Len(OutBuffA) /\ OutBuffA[i] \in Block
        /\ Region(OutBuffA[i]) \subseteq Cells
    <3>1. i \in 1 .. Len(OutBuffA)
      BY <1>2, QueueFacts DEF Pushed
    <3> QED BY <3>1, QueueFacts, RegionInCells
  <2>2. /\ n \in Nat /\ i \in 1 .. n - 1 /\ DOMAIN OutBuffA' = 1 .. n /\ i # n /\ n \in 1 .. n
        /\ OutBuffA'[i] = OutBuffA[i] /\ OutBuffA'[n] = b
    BY <2>1, <1>2 DEF Pushed
  <2>3. Region(OutBuffA'[i]) \intersect Region(OutBuffA'[n]) = {}
    BY <2>2 DEF BlocksApart, Region
  <2>4. ASSUME NEW c \in ptr .. ptr + len - 1 PROVE c \in Region(b)
    <3>1. b.buff \in Nat /\ b.len \in Nat
      BY <1>2, BlockFields DEF Pushed
    <3>2. b.buff <= ptr /\ ptr + len <= b.buff + b.len
      BY <1>2 DEF End
    <3>3. ptr \in Nat /\ len \in Nat /\ c \in Int /\ ptr <= c /\ c <= ptr + len - 1
      BY <1>2
    <3>4. b.buff <= c /\ c <= b.buff + b.len - 1
      BY <3>1, <3>2, <3>3
    <3> QED BY <3>1, <3>3, <3>4 DEF Region
  <2>5. \A c \in Region(OutBuffA[i]) : ~(c >= ptr /\ c < ptr + len)
    <3>1. SUFFICES ASSUME NEW c \in Region(OutBuffA[i]), c >= ptr, c < ptr + len PROVE FALSE
      OBVIOUS
    <3>2. c \in Int /\ ptr \in Nat /\ len \in Nat
      BY <2>1, <1>2, BlockFields DEF Region
    <3>3. c \in ptr .. ptr + len - 1
      BY <3>1, <3>2
    <3>4. c \in Region(b)
      BY <2>4, <3>3
    <3> QED BY <2>2, <2>3, <3>1, <3>4
  <2> QED BY <2>1, <1>2, <2>2, <2>5 DEF Fill
<1> QED BY <1>2, <1>3 DEF Pushed

\* A block that is being written keeps its place, its length and its bytes,
\* whatever is allocated, committed, handed out or released meanwhile.
LEMMA WrittenKept ==
  ASSUME QueueAssumption, IInv, BlocksApart', Next, NEW i \in 1 .. FirstPendingI,
         ~(\E r \in BOOLEAN : Reset(r)), ~(Release /\ i = 1)
  PROVE  /\ \E j \in {i, i - 1} \intersect DOMAIN OutBuffA' : OutBuffA'[j] = OutBuffA[i]
         /\ \A c \in Region(OutBuffA[i]) : mem'[c] = mem[c]
<1>1. /\ DOMAIN OutBuffA = 1 .. Len(OutBuffA) /\ Len(OutBuffA) \in Nat
      /\ FirstPendingI \in 0 .. Len(OutBuffA) /\ i \in 1 .. Len(OutBuffA)
      /\ OutBuffA[i] \in Block
  BY QueueFacts
<1>2. Region(OutBuffA[i]) \subseteq Cells
  BY <1>1, RegionInCells
<1>3. ASSUME NEW cells, mem' = Scrub(cells), cells \intersect Region(OutBuffA[i]) = {}
      PROVE  \A c \in Region(OutBuffA[i]) : mem'[c] = mem[c]
  BY <1>2, <1>3 DEF Scrub
<1>4. ASSUME NEW len \in 1 .. MaxLen, Allocate(len)
      PROVE  /\ OutBuffA'[i] = OutBuffA[i] /\ i \in DOMAIN OutBuffA'
             /\ \A c \in Region(OutBuffA[i]) : mem'[c] = mem[c]
  <2>1. i \in 1 .. Len(OutBuffA') - 1
    BY <1>1, <1>4, AllocateKeeps
  <2> QED BY <1>4, <2>1, AllocateKeeps
<1>5. ASSUME NEW len \in 0 .. MaxLen, Commit(len)
      PROVE  /\ OutBuffA'[i] = OutBuffA[i] /\ i \in DOMAIN OutBuffA'
             /\ \A c \in Region(OutBuffA[i]) : mem'[c] = mem[c]
  <2>1. PICK m \in 1 .. Len(OutBuffA) :
          /\ m > FirstPendingI
          /\ \A k \in 1 .. m - 1 : k \in DOMAIN OutBuffA' /\ OutBuffA'[k] = OutBuffA[k]
          /\ \E cells \in SUBSET Region(OutBuffA[m]) : mem' = Scrub(cells)
    BY <1>5, CommitStep DEF OnlyLast
  <2>2. i \in 1 .. m - 1 /\ i # m
    BY <1>1, <2>1
  <2>3. Region(OutBuffA[i]) \intersect Region(OutBuffA[m]) = {}
    BY <1>1, <2>1, <2>2, Apart DEF BlocksApart
  <2> QED BY <1>3, <2>1, <2>2, <2>3
<1>6. ASSUME Pop
      PROVE  /\ OutBuffA'[i] = OutBuffA[i] /\ i \in DOMAIN OutBuffA'
             /\ \A c \in Region(OutBuffA[i]) : mem'[c] = mem[c]
  <2>1. i # FirstPendingI + 1
    BY <1>1
  <2> QED BY <1>1, <1>6, <2>1 DEF Pop
<1>7. ASSUME Release
      PROVE  /\ OutBuffA'[i - 1] = OutBuffA[i] /\ i - 1 \in DOMAIN OutBuffA'
             /\ \A c \in Region(OutBuffA[i]) : mem'[c] = mem[c]
  <2>1. i \in 2 .. Len(OutBuffA) /\ OutBuffA # << >> /\ OutBuffA \in Seq(Block) /\ 1 \in 1 .. Len(OutBuffA)
    BY <1>1, <1>7, QueueFacts
  <2>2. OutBuffA' = Tail(OutBuffA) /\ mem' = Scrub(Region(OutBuffA[1]))
    BY <1>7, <2>1 DEF Release
  <2>3. OutBuffA'[i - 1] = OutBuffA[i] /\ i - 1 \in DOMAIN OutBuffA'
    BY <2>1, <2>2, HeadTailProperties
  <2>4. Region(OutBuffA[1]) \intersect Region(OutBuffA[i]) = {}
    BY <1>1, <2>1, Apart DEF BlocksApart
  <2> QED BY <1>3, <2>2, <2>3, <2>4
<1> QED BY <1>4, <1>5, <1>6, <1>7 DEF Next

\* A block handed out by Pop() keeps its cells and its bytes until its own
\* Release(): async_write() holds no more than a pointer and a length.
THEOREM WritingSafe == Spec => WritingUntouched
<1>1. IInv /\ BlocksApart' /\ [Next]_vars =>
        [\A i \in 1 .. FirstPendingI :
           LET b == OutBuffA[i]
           IN ~(\E r \in BOOLEAN : Reset(r)) =>
              \/ Release /\ i = 1
              \/ /\ \E j \in {i, i - 1} \intersect DOMAIN OutBuffA' : OutBuffA'[j] = b
                 /\ \A c \in Region(b) : mem'[c] = mem[c]]_vars
  BY WrittenKept, QueueAssumption
<1> QED BY <1>1, Inductive, NoOverlap, PTL DEF Spec, WritingUntouched

-----------------------------------------------------------------------------
(* The queue implements ByteFifo.  What it holds is written as an operator *)
(* of a queue and a memory, so that it can be stated of the next state and *)
(* compared block by block.                                                *)

\* A caller has filled what it was given last with the bytes it commits next.
Filled ==
  IsAllocated =>
    \A k \in 1 .. LastAllocLength :
      mem[End(Last(OutBuffA)) - LastAllocLength + k - 1] = (nextByte + k - 1) % ByteNames
FifoInv == IInv /\ Filled

\* The bytes of the blocks from first on, for any queue and any memory m.
Stored(m, b, n) == [k \in 1 .. n |-> m[b.buff + k - 1]]
Kept(b, last) == IF b.state = "ALLOCATED"
                   THEN IF IsStaticBuffer(b) THEN b.len - last ELSE 0
                   ELSE b.len
StoredIn(q, m, last) == [i \in DOMAIN q |-> Stored(m, q[i], Kept(q[i], last))]
StoredFrom(q, first, m, last) ==
  [i \in 1 .. Len(q) - first |-> Stored(m, q[first + i], Kept(q[first + i], last))]

\* The bytes that wait are those of the blocks behind FirstPendingI.
LEMMA WaitingForm ==
  ASSUME NEW q \in Seq(Block), NEW first \in 0 .. Len(q), NEW m, NEW last, NEW w,
         w = SubSeq(q, first + 1, Len(q))
  PROVE  StoredIn(w, m, last) = StoredFrom(q, first, m, last)
<1>1. /\ first + 1 \in 1 .. Len(q) + 1 /\ Len(q) \in (first + 1) - 1 .. Len(q)
      /\ Len(q) - (first + 1) + 1 = Len(q) - first /\ first \in Nat /\ Len(q) - first \in Nat
  OBVIOUS
<1>2. /\ w \in Seq(Block) /\ Len(w) = Len(q) - first
      /\ \A j \in 1 .. Len(q) - first : w[j] = q[(first + 1) + j - 1]
  BY <1>1, SubSeqFacts
<1>3. DOMAIN w = 1 .. Len(q) - first /\ \A j \in DOMAIN w : w[j] = q[first + j]
  <2>1. DOMAIN w = 1 .. Len(q) - first
    BY <1>2
  <2>2. \A j \in 1 .. Len(q) - first : (first + 1) + j - 1 = first + j
    BY <1>1
  <2> QED BY <1>2, <2>1, <2>2, Zenon
<1> QED BY <1>3 DEF StoredFrom, StoredIn

\* What the abstract queue holds, in a reachable state.
LEMMA ToSendForm ==
  ASSUME OutBuffA \in Seq(Block), FirstPendingI \in 0 .. Len(OutBuffA)
  PROVE  ToSend = FlattenSeq(StoredFrom(OutBuffA, FirstPendingI, mem, LastAllocLength))
<1> DEFINE w == SubSeq(OutBuffA, FirstPendingI + 1, Len(OutBuffA))
<1>0. w = SubSeq(OutBuffA, FirstPendingI + 1, Len(OutBuffA))
  OBVIOUS
<1> HIDE DEF w
<1>1. StoredIn(w, mem, LastAllocLength)
        = StoredFrom(OutBuffA, FirstPendingI, mem, LastAllocLength)
  BY <1>0, WaitingForm
<1>2. WaitingBytes = StoredIn(w, mem, LastAllocLength)
  BY <1>0 DEF WaitingBytes, Waiting, Contents, CommittedLength, Stored, Kept, StoredIn
<1> QED BY <1>1, <1>2 DEF ToSend

\* The same in the next state.
LEMMA ToSendNext ==
  ASSUME OutBuffA' \in Seq(Block), FirstPendingI' \in 0 .. Len(OutBuffA')
  PROVE  ToSend' = FlattenSeq(StoredFrom(OutBuffA', FirstPendingI', mem', LastAllocLength'))
<1> DEFINE w == SubSeq(OutBuffA', FirstPendingI' + 1, Len(OutBuffA'))
<1>0. w = SubSeq(OutBuffA', FirstPendingI' + 1, Len(OutBuffA'))
  OBVIOUS
<1> HIDE DEF w
<1>1. StoredIn(w, mem', LastAllocLength')
        = StoredFrom(OutBuffA', FirstPendingI', mem', LastAllocLength')
  BY <1>0, WaitingForm
<1>2. WaitingBytes' = StoredIn(w, mem', LastAllocLength')
  BY <1>0 DEF WaitingBytes, Waiting, Contents, CommittedLength, Stored, Kept, StoredIn
<1> QED BY <1>1, <1>2 DEF ToSend

\* Equal bytes in two memories.
LEMMA SameStored ==
  ASSUME NEW b \in Block, QueueAssumption, NEW n \in Nat, n <= b.len, NEW m1, NEW m2,
         \A c \in Region(b) : m2[c] = m1[c]
  PROVE  Stored(m2, b, n) = Stored(m1, b, n)
<1>1. ASSUME NEW k \in 1 .. n PROVE b.buff + k - 1 \in Region(b)
  BY BlockFields DEF Region
<1> QED BY <1>1 DEF Stored

\* How much of a block is committed.
LEMMA KeptFacts ==
  ASSUME QueueAssumption, IInv, NEW i \in 1 .. Len(OutBuffA)
  PROVE  /\ Kept(OutBuffA[i], LastAllocLength) \in Nat
         /\ Kept(OutBuffA[i], LastAllocLength) <= OutBuffA[i].len
         /\ OutBuffA[i].state # "ALLOCATED" =>
              Kept(OutBuffA[i], LastAllocLength) = OutBuffA[i].len
         /\ OutBuffA[i].state = "ALLOCATED" =>
              /\ i = Len(OutBuffA) /\ IsAllocated /\ OutBuffA[i] = Last(OutBuffA)
              /\ LastAllocLength \in Nat
              /\ Kept(OutBuffA[i], LastAllocLength) = OutBuffA[i].len - LastAllocLength
<1> DEFINE b == OutBuffA[i]
<1>1. b \in Block /\ b.len \in Nat /\ LastAllocLength \in Nat
  BY QueueFacts, BlockFields DEF IInv, TypeOK
<1>2. b.state = "ALLOCATED" => i = Len(OutBuffA) /\ IsAllocated /\ b = Last(OutBuffA)
  BY QueueFacts DEF IInv, StatesInOrder, IsAllocated, Last
<1>3. b.state = "ALLOCATED" =>
        IF IsStaticBuffer(b) THEN LastAllocLength <= b.len ELSE LastAllocLength = b.len
  BY <1>2 DEF IInv, AllocInv
<1> HIDE DEF b
<1>4. CASE b.state # "ALLOCATED"
  BY <1>1, <1>4 DEF Kept, b
<1>5. CASE b.state = "ALLOCATED"
  <2>1. Kept(b, LastAllocLength) = b.len - LastAllocLength /\ LastAllocLength <= b.len
    BY <1>1, <1>3, <1>5 DEF Kept
  <2>2. Kept(b, LastAllocLength) \in Nat /\ Kept(b, LastAllocLength) <= b.len
    BY <1>1, <2>1
  <2> QED BY <1>1, <1>2, <1>5, <2>1, <2>2, Zenon DEF b
<1> QED BY <1>4, <1>5

Held(m) == {m[c] : c \in Int}

\* The bytes of a block are a sequence over what its memory holds.
LEMMA StoredType ==
  ASSUME NEW b \in Block, QueueAssumption, NEW n \in Nat, NEW m, NEW X, Held(m) \subseteq X
  PROVE  Stored(m, b, n) \in Seq(X) /\ Len(Stored(m, b, n)) = n
<1>1. \A k \in 1 .. n : b.buff + k - 1 \in Int
  BY BlockFields
<1>2. \A k \in 1 .. n : m[b.buff + k - 1] \in X
  BY <1>1 DEF Held
<1>3. Stored(m, b, n) \in [1 .. n -> X]
  BY <1>2 DEF Stored
<1> QED BY <1>3, TableIsSeq

\* The bytes that wait are a sequence of such sequences.
LEMMA WaitingType ==
  ASSUME QueueAssumption, IInv, NEW X, Held(mem) \subseteq X
  PROVE  LET W == StoredFrom(OutBuffA, FirstPendingI, mem, LastAllocLength)
         IN  W \in Seq(Seq(X)) /\ Len(W) = Len(OutBuffA) - FirstPendingI
<1> DEFINE n == Len(OutBuffA) - FirstPendingI
<1>1. n \in Nat /\ \A i \in 1 .. n : FirstPendingI + i \in 1 .. Len(OutBuffA)
  BY QueueFacts
<1> HIDE DEF n
<1>2. ASSUME NEW i \in 1 .. n
      PROVE  Stored(mem, OutBuffA[FirstPendingI + i],
                    Kept(OutBuffA[FirstPendingI + i], LastAllocLength)) \in Seq(X)
  <2> DEFINE j == FirstPendingI + i
  <2>1. j \in 1 .. Len(OutBuffA)
    BY <1>1
  <2> HIDE DEF j
  <2>2. OutBuffA[j] \in Block /\ Kept(OutBuffA[j], LastAllocLength) \in Nat
    BY <2>1, QueueFacts, KeptFacts
  <2>3. Stored(mem, OutBuffA[j], Kept(OutBuffA[j], LastAllocLength)) \in Seq(X)
    BY <2>2, StoredType
  <2> QED BY <2>3 DEF j
<1>3. StoredFrom(OutBuffA, FirstPendingI, mem, LastAllocLength) \in [1 .. n -> Seq(X)]
  BY <1>2 DEF StoredFrom, n
<1> QED BY <1>1, <1>3, TableIsSeq DEF n

RegionsOK == \A i \in 1 .. Len(OutBuffA) : Region(OutBuffA[i]) \subseteq Cells

\* The blocks lie in the ring or in the heap after a step too.
LEMMA RegionsNext == IInv' => RegionsOK'
<1>1. IInv => RegionsOK
  BY RegionInCells, QueueAssumption DEF RegionsOK
<1> QED BY <1>1, PTL

\* Two queues that store the same bytes, block by block.
LEMMA SameBlocks ==
  ASSUME NEW q1, NEW f1, NEW m1, NEW l1, NEW q2, NEW f2, NEW m2, NEW l2,
         Len(q2) - f2 = Len(q1) - f1,
         \A i \in 1 .. Len(q1) - f1 :
           Stored(m2, q2[f2 + i], Kept(q2[f2 + i], l2))
             = Stored(m1, q1[f1 + i], Kept(q1[f1 + i], l1))
  PROVE  StoredFrom(q2, f2, m2, l2) = StoredFrom(q1, f1, m1, l1)
BY DEF StoredFrom

\* The blocks in flight are the same when they and their cells are.
LEMMA SameInFlight ==
  ASSUME QueueAssumption, IInv, UNCHANGED FirstPendingI,
         \A i \in 1 .. FirstPendingI :
           /\ OutBuffA'[i] = OutBuffA[i]
           /\ \A c \in Region(OutBuffA[i]) : mem'[c] = mem[c]
  PROVE  UNCHANGED InFlight
<1>1. \A i \in 1 .. FirstPendingI :
        Contents(OutBuffA[i], OutBuffA[i].len) = Stored(mem, OutBuffA[i], OutBuffA[i].len)
  BY DEF Contents, Stored
<1>2. \A i \in 1 .. FirstPendingI :
        Contents(OutBuffA[i], OutBuffA[i].len)' = Stored(mem', OutBuffA[i], OutBuffA[i].len)
  BY DEF Contents, Stored
<1>3. ASSUME NEW i \in 1 .. FirstPendingI
      PROVE  Stored(mem', OutBuffA[i], OutBuffA[i].len) = Stored(mem, OutBuffA[i], OutBuffA[i].len)
  <2> DEFINE b == OutBuffA[i]
  <2>1. b \in Block /\ \A c \in Region(b) : mem'[c] = mem[c]
    BY QueueFacts
  <2> HIDE DEF b
  <2>2. b.len \in Nat /\ b.len <= b.len
    BY <2>1, BlockFields
  <2>3. Stored(mem', b, b.len) = Stored(mem, b, b.len)
    BY <2>1, <2>2, SameStored
  <2> QED BY <2>3 DEF b
<1> QED BY <1>1, <1>2, <1>3 DEF InFlight

\* An allocation is a block of its own, or lengthens the last pending one.
LEMMA AllocateHow ==
  ASSUME NEW len, Allocate(len)
  PROVE  \E ptr : /\ Fill(ptr, len)
                  /\ \/ \E alloc : OutBuffA' = NewBlock(ptr, len, alloc)
                     \/ CanExtend(ptr) /\ OutBuffA' = Extended(len)
<1>1. CASE AllocateStatic(len)
  BY <1>1 DEF AllocateStatic, PushStatic
<1>2. CASE AllocateHeap(len)
  BY <1>2 DEF AllocateHeap
<1> QED BY <1>1, <1>2 DEF Allocate

\* A new block adds nothing that waits to be sent.
LEMMA NewBlockStores ==
  ASSUME QueueAssumption, IInv, ~IsAllocated, NEW len \in Nat, NEW b \in Block,
         b.len = len, b.state = "ALLOCATED", OutBuffA' = Append(OutBuffA, b),
         \A i \in 1 .. Len(OutBuffA) : \A c \in Region(OutBuffA[i]) : mem'[c] = mem[c],
         UNCHANGED FirstPendingI, LastAllocLength' = len
  PROVE  FlattenSeq(StoredFrom(OutBuffA', FirstPendingI', mem', LastAllocLength'))
           = FlattenSeq(StoredFrom(OutBuffA, FirstPendingI, mem, LastAllocLength))
<1> DEFINE N == Len(OutBuffA)
           F == FirstPendingI
           X == Held(mem) \cup Held(mem')
           W == StoredFrom(OutBuffA, F, mem, LastAllocLength)
           V == StoredFrom(OutBuffA', F, mem', len)
<1>1. /\ OutBuffA \in Seq(Block) /\ N \in Nat /\ F \in 0 .. N
      /\ \A i \in 1 .. N : OutBuffA[i] \in Block
  BY QueueFacts
<1>2. /\ Len(OutBuffA') = N + 1 /\ OutBuffA'[N + 1] = b
      /\ \A i \in 1 .. N : OutBuffA'[i] = OutBuffA[i]
  BY <1>1, AppendProperties
<1>3. W \in Seq(Seq(X)) /\ Len(W) = N - F
  BY WaitingType
<1>4. \A i \in 1 .. N - F : W[i] = Stored(mem, OutBuffA[F + i], Kept(OutBuffA[F + i], LastAllocLength))
  BY DEF StoredFrom
<1>5. V = [i \in 1 .. (N + 1) - F |-> Stored(mem', OutBuffA'[F + i], Kept(OutBuffA'[F + i], len))]
  BY <1>2 DEF StoredFrom
<1> HIDE DEF W, V
<1>6. ASSUME NEW i \in 1 .. N - F PROVE V[i] = W[i]
  <2> DEFINE j == F + i
             c == OutBuffA[j]
  <2>1. j \in 1 .. N /\ i \in 1 .. (N + 1) - F
    BY <1>1
  <2> HIDE DEF j
  <2>2. OutBuffA'[j] = c /\ c \in Block /\ c.state # "ALLOCATED"
    BY <1>1, <1>2, <2>1, QueueFacts
  <2>3. /\ Kept(c, LastAllocLength) \in Nat /\ Kept(c, LastAllocLength) <= c.len
        /\ Kept(c, len) = Kept(c, LastAllocLength)
    BY <2>1, <2>2, KeptFacts DEF Kept
  <2>4. \A d \in Region(c) : mem'[d] = mem[d]
    BY <2>1
  <2> HIDE DEF c
  <2>5. Stored(mem', c, Kept(c, LastAllocLength)) = Stored(mem, c, Kept(c, LastAllocLength))
    BY <2>2, <2>3, <2>4, SameStored
  <2> QED BY <1>4, <1>5, <2>1, <2>2, <2>3, <2>5 DEF j, c
<1>7. V[(N + 1) - F] = << >>
  <2>1. (N + 1) - F \in 1 .. (N + 1) - F /\ F + ((N + 1) - F) = N + 1
    BY <1>1
  <2>2. Kept(b, len) = 0
    BY DEF Kept
  <2>3. Stored(mem', b, 0) = << >>
    BY DEF Stored
  <2> QED BY <1>2, <1>5, <2>1, <2>2, <2>3
<1>8. V = Append(W, << >>)
  <2>1. << >> \in Seq(X) /\ Len(W) + 1 = (N + 1) - F /\ (N - F) + 1 = (N + 1) - F
    BY <1>1, <1>3, EmptySeq
  <2>2. V \in [1 .. Len(W) + 1 -> Seq(X)]
    <3>1. \A i \in 1 .. (N + 1) - F : i \in 1 .. N - F \/ i = (N + 1) - F
      BY <1>1
    <3>2. \A i \in 1 .. (N + 1) - F : V[i] \in Seq(X)
      <4>1. \A i \in 1 .. N - F : W[i] \in Seq(X)
        BY <1>3, ElementOfSeq
      <4> QED BY <1>6, <1>7, <2>1, <3>1, <4>1
    <3> QED BY <1>5, <2>1, <3>2
  <2>3. (\A i \in 1 .. Len(W) : V[i] = W[i]) /\ V[Len(W) + 1] = << >>
    BY <1>3, <1>6, <1>7, <2>1
  <2> QED BY <1>3, <2>1, <2>2, <2>3, IsAppended
<1>9. FlattenSeq(W) \in Seq(X) /\ FlattenSeq(V) = FlattenSeq(W) \o << >>
  <2>1. << >> \in Seq(X)
    BY EmptySeq
  <2> QED BY <1>3, <1>8, <2>1, FlattenAppend
<1>10. FlattenSeq(V) = FlattenSeq(W)
  BY <1>9, ConcatEmptySeq
<1> QED BY <1>10 DEF V, W

\* Allocating is nothing the abstract queue can see.
LEMMA AllocateRefines ==
  ASSUME QueueAssumption, IInv, IInv', BlocksApart', NEW len \in 1 .. MaxLen, Allocate(len)
  PROVE  Filled' /\ UNCHANGED <<nextByte, ToSend, InFlight>>
<1> DEFINE N == Len(OutBuffA)
           F == FirstPendingI
<1>1. /\ OutBuffA \in Seq(Block) /\ N \in Nat /\ F \in 0 .. N /\ ~IsAllocated
      /\ UNCHANGED <<FirstPendingI, nextByte>> /\ LastAllocLength' = len
      /\ len \in Nat /\ LastAllocLength \in Nat
  BY QueueFacts DEF Allocate, IInv, TypeOK, QueueAssumption
<1>2. /\ Len(OutBuffA') \in {N, N + 1} /\ Len(OutBuffA') > F
      /\ \A i \in 1 .. Len(OutBuffA') - 1 :
           /\ OutBuffA'[i] = OutBuffA[i] /\ i \in DOMAIN OutBuffA'
           /\ \A c \in Region(OutBuffA[i]) : mem'[c] = mem[c]
  BY AllocateKeeps
<1>3. UNCHANGED InFlight
  <2>1. \A i \in 1 .. F : i \in 1 .. Len(OutBuffA') - 1
    BY <1>1, <1>2
  <2> QED BY <1>1, <1>2, <2>1, SameInFlight
<1>4. /\ OutBuffA' \in Seq(Block) /\ FirstPendingI' \in 0 .. Len(OutBuffA') /\ RegionsOK'
      /\ Len(OutBuffA') \in 1 .. Len(OutBuffA')
  <2>1. OutBuffA' \in Seq(Block) /\ FirstPendingI' \in 0 .. Len(OutBuffA') /\ RegionsOK'
    BY RegionsNext DEF IInv, TypeOK
  <2> QED BY <1>1, <1>2, <2>1
<1>5. PICK ptr : /\ Fill(ptr, len)
                 /\ \/ \E alloc : OutBuffA' = NewBlock(ptr, len, alloc)
                    \/ CanExtend(ptr) /\ OutBuffA' = Extended(len)
  BY AllocateHow
<1> DEFINE b == OutBuffA'[Len(OutBuffA')]
<1>6. b \in Block /\ Region(b) \subseteq Cells /\ Last(OutBuffA') = b
  BY <1>4 DEF RegionsOK, Region, Last
<1>7. ASSUME End(b) - len = ptr, b.buff <= ptr PROVE Filled'
  <2>1. ptr \in Nat /\ ptr + len = End(b) /\ b.buff \in Nat /\ b.len \in Nat
    BY <1>1, <1>6, <1>7, BlockFields DEF End
  <2> HIDE DEF b
  <2>2. ASSUME NEW k \in 1 .. len
        PROVE  mem'[ptr + k - 1] = (nextByte + k - 1) % ByteNames
    <3> DEFINE c == ptr + (k - 1)
    <3>1. c \in b.buff .. b.buff + b.len - 1 /\ c - ptr = k - 1 /\ c >= ptr /\ c < ptr + len
      BY <1>1, <1>7, <2>1 DEF End
    <3>2. c \in Cells
      BY <1>6, <3>1 DEF Region
    <3> HIDE DEF c
    <3>3. mem'[c] = (nextByte + (c - ptr)) % ByteNames
      BY <1>5, <3>1, <3>2 DEF Fill
    <3>4. nextByte + (k - 1) = nextByte + k - 1
      OBVIOUS
    <3>5. mem'[c] = (nextByte + (k - 1)) % ByteNames
      BY <3>1, <3>3
    <3> QED BY <3>5 DEF c
  <2> QED BY <1>1, <1>6, <1>7, <2>2 DEF Filled
<1>8. ASSUME NEW alloc, OutBuffA' = NewBlock(ptr, len, alloc)
      PROVE  Filled' /\ UNCHANGED ToSend
  <2> DEFINE d == [buff |-> ptr, len |-> len, alloc |-> alloc, state |-> "ALLOCATED"]
  <2>1. OutBuffA' = Append(OutBuffA, d)
    BY <1>8 DEF NewBlock
  <2>2. Len(OutBuffA') = N + 1 /\ OutBuffA'[N + 1] = d
    BY <1>1, <2>1
  <2>3. b = d
    BY <2>2
  <2>4. d.buff = ptr /\ d.len = len /\ d.state = "ALLOCATED"
    OBVIOUS
  <2> HIDE DEF d, b
  <2>5. d \in Block /\ d.buff \in Nat
    BY <1>6, <2>3, BlockFields
  <2>6. End(b) - len = ptr /\ b.buff <= ptr
    BY <1>1, <2>3, <2>4, <2>5 DEF End
  <2>7. \A i \in 1 .. N : \A c \in Region(OutBuffA[i]) : mem'[c] = mem[c]
    BY <1>1, <1>2, <2>2
  <2>8. FlattenSeq(StoredFrom(OutBuffA', FirstPendingI', mem', LastAllocLength'))
          = FlattenSeq(StoredFrom(OutBuffA, FirstPendingI, mem, LastAllocLength))
    BY <1>1, <2>1, <2>4, <2>5, <2>7, NewBlockStores
  <2>9. UNCHANGED ToSend
    BY <1>1, <1>4, <2>8, ToSendForm, ToSendNext
  <2> QED BY <1>7, <2>6, <2>9 DEF b
<1>9. ASSUME CanExtend(ptr), OutBuffA' = Extended(len)
      PROVE  Filled' /\ UNCHANGED ToSend
  <2> DEFINE a == OutBuffA[N]
  <2>1. /\ N \in 1 .. N /\ a = Last(OutBuffA) /\ a.state = "PENDING" /\ IsStaticBuffer(a)
        /\ a.buff + a.len = ptr
    BY <1>1, <1>9 DEF CanExtend, Last
  <2>2. a \in Block /\ a.buff \in Nat /\ a.len \in Nat /\ Region(a) \subseteq Cells
    BY <2>1, QueueFacts, BlockFields, RegionInCells
  <2>3. /\ Len(OutBuffA') = N /\ b = [a EXCEPT !.len = @ + len, !.state = "ALLOCATED"]
    BY <1>1, <1>9, <2>1, <2>2 DEF Extended
  <2> HIDE DEF a, b
  <2>4. b.buff = a.buff /\ b.len = a.len + len /\ b.state = "ALLOCATED"
    BY <2>2, <2>3 DEF Block
  <2>5. End(b) - len = ptr /\ b.buff <= ptr
    BY <1>1, <2>1, <2>2, <2>4 DEF End
  <2>6. Kept(b, len) = a.len /\ Kept(a, LastAllocLength) = a.len
    BY <1>1, <2>1, <2>2, <2>4 DEF Kept, IsStaticBuffer
  <2>7. \A c \in Region(a) : mem'[c] = mem[c]
    <3>1. \A c \in Region(a) : c \in Int /\ c < ptr
      BY <2>1, <2>2 DEF Region
    <3>2. \A c \in Region(a) : c \in Cells /\ ~(c >= ptr)
      BY <2>1, <2>2, <3>1
    <3> QED BY <1>5, <3>2 DEF Fill
  <2>8. Stored(mem', b, Kept(b, len)) = Stored(mem, a, Kept(a, LastAllocLength))
    <3>1. Stored(mem', a, a.len) = Stored(mem, a, a.len)
      BY <2>2, <2>7, SameStored
    <3>2. Stored(mem', b, a.len) = Stored(mem', a, a.len)
      BY <2>4 DEF Stored
    <3> QED BY <2>6, <3>1, <3>2
  <2>9. ASSUME NEW i \in 1 .. N - F
        PROVE  Stored(mem', OutBuffA'[F + i], Kept(OutBuffA'[F + i], len))
                 = Stored(mem, OutBuffA[F + i], Kept(OutBuffA[F + i], LastAllocLength))
    <3> DEFINE j == F + i
               c == OutBuffA[j]
    <3>1. j \in 1 .. N
      BY <1>1
    <3> HIDE DEF j
    <3>2. CASE j = N
      BY <2>3, <2>8, <3>2 DEF a, b, j
    <3>3. CASE j # N
      <4>1. j \in 1 .. Len(OutBuffA') - 1
        BY <1>1, <2>3, <3>1, <3>3
      <4>2. OutBuffA'[j] = c /\ \A d \in Region(c) : mem'[d] = mem[d]
        BY <1>2, <4>1
      <4>3. c \in Block /\ c.state # "ALLOCATED"
        BY <1>1, <3>1, QueueFacts
      <4>4. /\ Kept(c, LastAllocLength) \in Nat /\ Kept(c, LastAllocLength) <= c.len
            /\ Kept(c, len) = Kept(c, LastAllocLength)
        BY <3>1, <4>3, KeptFacts DEF Kept
      <4> HIDE DEF c
      <4>5. Stored(mem', c, Kept(c, LastAllocLength)) = Stored(mem, c, Kept(c, LastAllocLength))
        BY <4>2, <4>3, <4>4, SameStored
      <4> QED BY <4>2, <4>4, <4>5 DEF j, c
    <3> QED BY <3>2, <3>3
  <2>10. StoredFrom(OutBuffA', F, mem', len) = StoredFrom(OutBuffA, F, mem, LastAllocLength)
    BY <2>3, <2>9, SameBlocks
  <2>11. UNCHANGED ToSend
    BY <1>1, <1>4, <2>10, ToSendForm, ToSendNext
  <2> QED BY <1>7, <2>5, <2>11 DEF b
<1> QED BY <1>1, <1>3, <1>5, <1>8, <1>9

\* Committing gives the abstract queue the bytes the caller names next, none of
\* them when nothing is kept.
LEMMA CommitRefines ==
  ASSUME QueueAssumption, IInv, IInv', Filled, NEW len \in 0 .. MaxLen, Commit(len)
  PROVE  /\ Filled' /\ UNCHANGED InFlight
         /\ nextByte' = (nextByte + len) % ByteNames
         /\ ToSend' = ToSend \o Fifo!Fresh(len)
         /\ len = 0 => UNCHANGED <<nextByte, ToSend>>
<1> DEFINE N == Len(OutBuffA)
           F == FirstPendingI
           b == OutBuffA[N]
           c == Kept(b, LastAllocLength)
           X == Held(mem) \cup Held(mem') \cup Nat
           W == StoredFrom(OutBuffA, F, mem, LastAllocLength)
           V == StoredFrom(OutBuffA', F, mem', LastAllocLength)
           x == Fifo!Fresh(len)
<1>1. /\ OutBuffA \in Seq(Block) /\ N \in 1 .. N /\ F \in 0 .. N - 1 /\ IsAllocated
      /\ b = Last(OutBuffA) /\ b.state = "ALLOCATED" /\ b \in Block
      /\ b.buff \in Nat /\ b.len \in Nat /\ OutBuffA # << >>
      /\ \A i \in 1 .. N : OutBuffA[i] \in Block
  <2>1. IsAllocated
    BY DEF Commit
  <2>2. /\ OutBuffA \in Seq(Block) /\ N \in 1 .. N /\ F \in 0 .. N - 1 /\ OutBuffA # << >>
        /\ \A i \in 1 .. N : OutBuffA[i] \in Block
    BY <2>1, QueueFacts DEF IsAllocated
  <2>3. b = Last(OutBuffA) /\ b.state = "ALLOCATED" /\ b \in Block
    BY <2>1, <2>2 DEF IsAllocated, Last
  <2> QED BY <2>1, <2>2, <2>3, BlockFields
<1>2. /\ UNCHANGED <<FirstPendingI, LastAllocLength>>
      /\ nextByte' = (nextByte + len) % ByteNames
      /\ len \in Nat /\ LastAllocLength \in Nat /\ len <= LastAllocLength
      /\ nextByte \in 0 .. ByteNames - 1 /\ ByteNames \in Nat \ {0}
  BY DEF Commit, IInv, TypeOK, QueueAssumption
<1>3. c \in Nat /\ c = b.len - LastAllocLength
  BY <1>1, KeptFacts
<1> DEFINE kept == c + len
<1>4. /\ kept \in Nat /\ kept <= b.len
      /\ mem' = Scrub((b.buff + kept) .. (b.buff + b.len - 1))
      /\ OutBuffA' = IF kept = 0 THEN Front(OutBuffA)
                     ELSE [OutBuffA EXCEPT ![N].len = kept, ![N].state = "PENDING"]
  <2>1. b.len - (LastAllocLength - len) = kept /\ kept \in Nat /\ kept <= b.len
    BY <1>1, <1>2, <1>3
  <2>2. /\ CommitKeep(b, b.len - (LastAllocLength - len))
        /\ mem' = Scrub((b.buff + (b.len - (LastAllocLength - len))) .. (b.buff + b.len - 1))
    BY <1>1 DEF Commit
  <2> QED BY <2>1, <2>2 DEF CommitKeep
<1> HIDE DEF kept, c
<1>5. ASSUME NEW i \in 1 .. N - 1
      PROVE  /\ OutBuffA[i] \in Block /\ OutBuffA[i].state # "ALLOCATED"
             /\ \A d \in Region(OutBuffA[i]) : mem'[d] = mem[d]
  <2>1. i \in 1 .. N /\ i # N
    BY <1>1
  <2>2. OutBuffA[i].state # "ALLOCATED"
    BY <1>1, <2>1 DEF IInv, StatesInOrder
  <2>3. Region(OutBuffA[i]) \intersect Region(b) = {} /\ Region(OutBuffA[i]) \subseteq Cells
    BY <1>1, <2>1, Apart, RegionInCells DEF BlocksApart
  <2>4. (b.buff + kept) .. (b.buff + b.len - 1) \subseteq Region(b)
    BY <1>1, <1>4 DEF Region
  <2>5. \A d \in Region(OutBuffA[i]) : d \in Cells /\ d \notin (b.buff + kept) .. (b.buff + b.len - 1)
    BY <2>3, <2>4
  <2> HIDE DEF b
  <2> QED BY <1>1, <1>4, <2>1, <2>2, <2>5 DEF Scrub
<1>6. /\ OutBuffA' \in Seq(Block) /\ FirstPendingI' \in 0 .. Len(OutBuffA')
  BY DEF IInv, TypeOK
<1>7. /\ kept = 0 => Len(OutBuffA') = N - 1
      /\ kept # 0 => /\ Len(OutBuffA') = N
                     /\ OutBuffA'[N] = [b EXCEPT !.len = kept, !.state = "PENDING"]
      /\ \A i \in 1 .. N - 1 : OutBuffA'[i] = OutBuffA[i]
  <2>1. CASE kept = 0
    BY <1>1, <1>4, <2>1, FrontFacts
  <2>2. CASE kept # 0
    BY <1>1, <1>4, <2>2
  <2> QED BY <2>1, <2>2
<1>8. UNCHANGED InFlight
  <2>1. \A i \in 1 .. F : i \in 1 .. N - 1
    BY <1>1
  <2> HIDE DEF b
  <2> QED BY <1>2, <1>5, <1>7, <2>1, SameInFlight
<1>9. Filled'
  <2>1. ~IsAllocated'
    <3>1. CASE kept # 0
      <4>1. OutBuffA'[N].state = "PENDING"
        BY <1>1, <1>7, <3>1 DEF Block
      <4> QED BY <1>7, <3>1, <4>1 DEF IsAllocated, Last
    <3>2. CASE kept = 0
      <4>1. SUFFICES ASSUME IsAllocated' PROVE FALSE
        OBVIOUS
      <4>2. Len(OutBuffA') \in 1 .. Len(OutBuffA')
        BY <1>6, <4>1 DEF IsAllocated
      <4>3. N - 1 \in 1 .. N - 1 /\ OutBuffA'[N - 1].state = "ALLOCATED"
        BY <1>7, <3>2, <4>1, <4>2 DEF IsAllocated, Last
      <4> QED BY <1>5, <1>7, <4>3
    <3> QED BY <3>1, <3>2
  <2> QED BY <2>1 DEF Filled
<1>10. /\ ToSend = FlattenSeq(W) /\ ToSend' = FlattenSeq(V)
  <2>1. ToSend = FlattenSeq(W)
    BY <1>1, ToSendForm
  <2>2. ToSend' = FlattenSeq(V)
    BY <1>2, <1>6, ToSendNext
  <2> QED BY <2>1, <2>2
<1>11. /\ W \in Seq(Seq(X)) /\ Len(W) = N - F
       /\ W = [i \in 1 .. N - F |->
                 Stored(mem, OutBuffA[F + i], Kept(OutBuffA[F + i], LastAllocLength))]
  BY WaitingType DEF StoredFrom
<1>12. V = [i \in 1 .. Len(OutBuffA') - F |->
              Stored(mem', OutBuffA'[F + i], Kept(OutBuffA'[F + i], LastAllocLength))]
  BY DEF StoredFrom
<1>13. /\ x \in Seq(X) /\ Len(x) = len /\ (len = 0 => x = << >>)
       /\ \A i \in 1 .. len : x[i] = (nextByte + i - 1) % ByteNames
  <2>1. x = [i \in 1 .. len |-> (nextByte + i - 1) % ByteNames]
    BY DEF Fifo!Fresh
  <2>2. \A i \in 1 .. len : (nextByte + i - 1) % ByteNames \in Nat
    BY <1>2
  <2>3. x \in [1 .. len -> X]
    BY <2>1, <2>2
  <2>4. len = 0 => x = << >>
    BY <2>1
  <2> HIDE DEF X, x
  <2>5. len \in Nat
    BY <1>2
  <2>6. x \in Seq(X) /\ Len(x) = len
    BY <2>3, <2>5, TableIsSeq
  <2> QED BY <2>1, <2>4, <2>6
<1>14. ASSUME NEW i \in 1 .. N - 1 - F
       PROVE  Stored(mem', OutBuffA'[F + i], Kept(OutBuffA'[F + i], LastAllocLength)) = W[i]
  <2> DEFINE j == F + i
             e == OutBuffA[j]
  <2>1. j \in 1 .. N - 1 /\ j \in 1 .. N /\ i \in 1 .. N - F
    BY <1>1
  <2> HIDE DEF j
  <2>2. OutBuffA'[j] = e /\ e \in Block /\ \A d \in Region(e) : mem'[d] = mem[d]
    BY <1>5, <1>7, <2>1
  <2>3. Kept(e, LastAllocLength) \in Nat /\ Kept(e, LastAllocLength) <= e.len
    BY <2>1, KeptFacts
  <2> HIDE DEF e, W, b
  <2>4. Stored(mem', e, Kept(e, LastAllocLength)) = Stored(mem, e, Kept(e, LastAllocLength))
    BY <2>2, <2>3, SameStored
  <2> QED BY <1>11, <2>1, <2>2, <2>4 DEF j, e
<1>15. W[N - F] = Stored(mem, b, c) /\ N - F \in 1 .. N - F /\ N - F \in Nat
  <2>1. N - F \in 1 .. N - F /\ F + (N - F) = N /\ N - F \in Nat
    BY <1>1
  <2> HIDE DEF W
  <2> QED BY <1>11, <2>1 DEF c
<1> HIDE DEF W, V, X, x, b
<1>16. CASE kept = 0
  <2>1. c = 0 /\ len = 0
    BY <1>2, <1>3, <1>16 DEF kept
  <2>2. Len(OutBuffA') - F = N - 1 - F /\ N - 1 - F \in Nat /\ N - F = (N - 1 - F) + 1
    BY <1>1, <1>7, <1>16
  <2>3. V = [i \in 1 .. N - 1 - F |-> W[i]]
    BY <1>12, <1>14, <2>2
  <2>4. W \in [1 .. N - F -> Seq(X)]
    BY <1>11, LenProperties
  <2>5. V \in Seq(Seq(X)) /\ Len(V) = N - 1 - F
    <3>1. V \in [1 .. N - 1 - F -> Seq(X)]
      BY <1>1, <2>2, <2>3, <2>4
    <3> QED BY <2>2, <3>1, TableIsSeq
  <2>6. Stored(mem, b, c) = << >> /\ << >> \in Seq(X)
    BY <2>1, EmptySeq DEF Stored
  <2>7. W = Append(V, << >>)
    BY <1>15, <2>2, <2>3, <2>4, <2>5, <2>6, IsAppended
  <2>8. FlattenSeq(V) \in Seq(X) /\ FlattenSeq(W) = FlattenSeq(V) \o << >>
    BY <2>5, <2>6, <2>7, FlattenAppend
  <2>9. ToSend' = ToSend
    BY <1>10, <2>8, ConcatEmptySeq
  <2>10. ToSend' = ToSend \o x
    BY <1>10, <1>13, <2>1, <2>8, <2>9, ConcatEmptySeq
  <2>11. nextByte' = nextByte
    BY <1>2, <2>1
  <2> QED BY <1>2, <1>8, <1>9, <2>9, <2>10, <2>11 DEF x
<1>17. CASE kept # 0
  <2> DEFINE d == OutBuffA'[N]
  <2>1. /\ d \in Block /\ d.buff = b.buff /\ d.len = kept /\ d.state = "PENDING"
        /\ Len(OutBuffA') = N
    <3>1. d \in Block /\ Len(OutBuffA') = N
      BY <1>1, <1>6, <1>7, <1>17
    <3>2. d = [b EXCEPT !.len = kept, !.state = "PENDING"]
      BY <1>7, <1>17
    <3> HIDE DEF d
    <3> QED BY <1>1, <3>1, <3>2 DEF Block
  <2> HIDE DEF d
  <2>0. /\ b.buff \in Nat /\ b.len \in Nat /\ c \in Nat /\ c = b.len - LastAllocLength
        /\ len \in Nat /\ LastAllocLength \in Nat /\ kept = c + len /\ kept <= b.len
        /\ len <= LastAllocLength
    BY <1>1, <1>2, <1>3, <1>4 DEF kept
  <2>2. Kept(d, LastAllocLength) = kept
    BY <2>1 DEF Kept
  <2>3. \A k \in 1 .. kept : mem'[b.buff + k - 1] = mem[b.buff + k - 1]
    <3>1. ASSUME NEW k \in 1 .. kept
          PROVE  mem'[b.buff + (k - 1)] = mem[b.buff + (k - 1)]
      <4> DEFINE e == b.buff + (k - 1)
      <4>1. e \in Region(b) /\ e \notin (b.buff + kept) .. (b.buff + b.len - 1)
        BY <2>0 DEF Region, kept
      <4>2. e \in Cells
        BY <1>1, <4>1, RegionInCells DEF b
      <4> HIDE DEF e
      <4>3. mem'[e] = mem[e]
        BY <1>4, <4>1, <4>2 DEF Scrub
      <4> QED BY <4>3 DEF e
    <3> QED BY <3>1
  <2>4. \A k \in 1 .. len : mem[b.buff + (c + k) - 1] = (nextByte + k - 1) % ByteNames
    <3>1. ASSUME NEW k \in 1 .. len
          PROVE  mem[b.buff + (c + k) - 1] = (nextByte + k - 1) % ByteNames
      <4>1. k \in 1 .. LastAllocLength
        BY <1>2
      <4>2. mem[End(b) - LastAllocLength + k - 1] = (nextByte + k - 1) % ByteNames
        BY <1>1, <4>1 DEF Filled
      <4>3. End(b) - LastAllocLength + k - 1 = b.buff + (c + k) - 1
        BY <2>0 DEF End
      <4> QED BY <4>2, <4>3
    <3> QED BY <3>1
  <2>5. Stored(mem', d, kept) = Stored(mem, b, c) \o x
    <3> DEFINE s == Stored(mem, b, c)
               t == Stored(mem', d, kept)
    <3>1. /\ \A k \in 1 .. c : s[k] = mem[b.buff + k - 1]
          /\ \A k \in 1 .. kept : t[k] = mem'[b.buff + k - 1]
      BY <2>1 DEF Stored
    <3>2. s \in Seq(X) /\ Len(s) = c /\ t \in Seq(X) /\ Len(t) = kept
      <4>1. Held(mem) \subseteq X /\ Held(mem') \subseteq X
        BY DEF X
      <4>2. b \in Block /\ d \in Block /\ c \in Nat /\ kept \in Nat
        BY <1>1, <1>4, <2>0, <2>1
      <4> HIDE DEF s, t
      <4>3. s \in Seq(X) /\ Len(s) = c
        BY <4>1, <4>2, StoredType DEF s
      <4>4. t \in Seq(X) /\ Len(t) = kept
        BY <4>1, <4>2, StoredType DEF t
      <4> QED BY <4>3, <4>4
    <3> HIDE DEF s, t
    <3>3. /\ s \o x \in Seq(X) /\ Len(s \o x) = c + len
          /\ \A k \in 1 .. c + len : (s \o x)[k] = IF k <= c THEN s[k] ELSE x[k - c]
      BY <1>13, <3>2, ConcatProperties
    <3>4. ASSUME NEW k \in 1 .. kept PROVE t[k] = (s \o x)[k]
      <4>1. k \in 1 .. c + len /\ t[k] = mem[b.buff + k - 1]
        BY <2>0, <2>3, <3>1
      <4>2. CASE k <= c
        <5>1. k \in 1 .. c
          BY <2>0, <4>2
        <5> QED BY <3>1, <3>3, <4>1, <4>2, <5>1
      <4>3. CASE ~(k <= c)
        <5> DEFINE j == k - c
        <5>1. j \in 1 .. len /\ c + j = k
          BY <2>0, <4>1, <4>3
        <5>2. (s \o x)[k] = x[j]
          BY <3>3, <4>1, <4>3
        <5> HIDE DEF j
        <5>3. mem[b.buff + (c + j) - 1] = x[j]
          BY <1>13, <2>4, <5>1
        <5> QED BY <4>1, <5>1, <5>2, <5>3
      <4> QED BY <4>2, <4>3
    <3>5. kept = c + len
      BY <2>0
    <3>6. t = s \o x
      BY <3>2, <3>3, <3>4, <3>5, SeqEqual
    <3> QED BY <3>6 DEF s, t
  <2>6. V = [i \in 1 .. Len(W) |-> IF i = Len(W) THEN W[i] \o x ELSE W[i]]
    <3>1. ASSUME NEW i \in 1 .. N - F
          PROVE  Stored(mem', OutBuffA'[F + i], Kept(OutBuffA'[F + i], LastAllocLength))
                   = IF i = N - F THEN W[i] \o x ELSE W[i]
      <4>1. CASE i = N - F
        <5>1. F + i = N
          BY <1>1, <4>1
        <5> QED BY <1>15, <2>2, <2>5, <4>1, <5>1 DEF d, kept
      <4>2. CASE i # N - F
        <5>1. i \in 1 .. N - 1 - F
          BY <1>1, <4>2
        <5> QED BY <1>14, <4>2, <5>1
      <4> QED BY <4>1, <4>2
    <3>2. Len(OutBuffA') - F = N - F
      BY <2>1
    <3> QED BY <1>11, <1>12, <3>1, <3>2
  <2>7. W # << >>
    BY <1>11, <1>15, EmptySeq
  <2>8. FlattenSeq(V) = FlattenSeq(W) \o x
    BY <1>11, <1>13, <2>6, <2>7, FlattenGrown
  <2>9. FlattenSeq(W) \in Seq(X)
    BY <1>11, EmptySeq, FlattenAppend
  <2>10. len = 0 => ToSend' = ToSend
    BY <1>10, <1>13, <2>8, <2>9, ConcatEmptySeq
  <2>11. len = 0 => nextByte' = nextByte
    BY <1>2
  <2> QED BY <1>2, <1>8, <1>9, <1>10, <2>8, <2>10, <2>11 DEF x
<1> QED BY <1>16, <1>17

\* Pop() takes the first block that waits, with all its bytes.
LEMMA PopRefines ==
  ASSUME QueueAssumption, IInv, IInv', Pop
  PROVE  Filled' /\ \E n \in 1 .. Len(ToSend) : Fifo!Take(n)
<1> DEFINE N == Len(OutBuffA)
           F == FirstPendingI
           b == OutBuffA[F + 1]
           X == Held(mem)
           L == LastAllocLength
           W == StoredFrom(OutBuffA, F, mem, L)
           V == StoredFrom(OutBuffA', F + 1, mem, L)
<1>1. /\ OutBuffA \in Seq(Block) /\ N \in Nat /\ F \in 0 .. N - 1 /\ ~IsAllocated
      /\ F + 1 \in 1 .. N /\ b \in Block /\ b.len \in Nat \ {0} /\ b.state # "ALLOCATED"
  <2>1. /\ OutBuffA \in Seq(Block) /\ N \in Nat /\ F \in 0 .. N - 1 /\ ~IsAllocated
        /\ F + 1 \in 1 .. N
    BY QueueFacts DEF Pop
  <2> QED BY <2>1, QueueFacts, BlockFields
<1>2. /\ UNCHANGED <<LastAllocLength, mem, nextByte>> /\ FirstPendingI' = F + 1
      /\ Len(OutBuffA') = N
      /\ \A i \in 1 .. N : OutBuffA'[i] = IF i = F + 1 THEN [b EXCEPT !.state = "WRITING"]
                                          ELSE OutBuffA[i]
  BY <1>1 DEF Pop
<1>3. OutBuffA' \in Seq(Block) /\ FirstPendingI' \in 0 .. Len(OutBuffA')
  BY DEF IInv, TypeOK
<1>4. ToSend = FlattenSeq(W) /\ ToSend' = FlattenSeq(V)
  <2>1. ToSend = FlattenSeq(W)
    BY <1>1, ToSendForm
  <2>2. ToSend' = FlattenSeq(V)
    BY <1>2, <1>3, ToSendNext
  <2> QED BY <2>1, <2>2
<1>5. /\ W \in Seq(Seq(X)) /\ Len(W) = N - F
      /\ W = [i \in 1 .. N - F |-> Stored(mem, OutBuffA[F + i], Kept(OutBuffA[F + i], L))]
  BY WaitingType DEF StoredFrom
<1>6. V = [i \in 1 .. N - (F + 1) |->
             Stored(mem, OutBuffA'[(F + 1) + i], Kept(OutBuffA'[(F + 1) + i], L))]
  BY <1>2 DEF StoredFrom
<1>7. W # << >> /\ Head(W) = Stored(mem, b, b.len) /\ 1 \in 1 .. N - F
  <2>1. Kept(b, L) = b.len
    BY <1>1 DEF Kept
  <2>2. 1 \in 1 .. N - F
    BY <1>1
  <2>3. W[1] = Stored(mem, b, b.len)
    BY <1>5, <2>1, <2>2
  <2> HIDE DEF W
  <2> QED BY <1>5, <2>2, <2>3
<1> HIDE DEF W, V, X
<1>8. V = Tail(W)
  <2>1. /\ Tail(W) \in Seq(Seq(X)) /\ Len(Tail(W)) = (N - F) - 1
        /\ \A i \in 1 .. (N - F) - 1 : Tail(W)[i] = W[i + 1]
    BY <1>5, <1>7, HeadTailProperties
  <2>2. ASSUME NEW i \in 1 .. (N - F) - 1 PROVE V[i] = W[i + 1]
    <3> DEFINE j == (F + 1) + i
    <3>1. /\ j \in 1 .. N /\ j # F + 1 /\ j = F + (i + 1) /\ i + 1 \in 1 .. N - F
          /\ i \in 1 .. N - (F + 1)
      BY <1>1
    <3>2. V[i] = Stored(mem, OutBuffA'[j], Kept(OutBuffA'[j], L))
      BY <1>6, <3>1
    <3> HIDE DEF j
    <3>3. W[i + 1] = Stored(mem, OutBuffA[j], Kept(OutBuffA[j], L))
      BY <1>5, <3>1
    <3> QED BY <1>2, <3>1, <3>2, <3>3
  <2>3. N - (F + 1) = (N - F) - 1
    BY <1>1
  <2>4. V = [i \in 1 .. (N - F) - 1 |-> Tail(W)[i]]
    BY <1>6, <2>1, <2>2, <2>3
  <2> DEFINE T == Tail(W)
  <2>5. T = [i \in 1 .. (N - F) - 1 |-> T[i]]
    <3>1. T \in Seq(Seq(X)) /\ Len(T) = (N - F) - 1
      BY <2>1
    <3> HIDE DEF T
    <3> QED BY <3>1, LenProperties
  <2> QED BY <2>4, <2>5
<1> DEFINE h == Head(W)
           r == FlattenSeq(V)
<1>9. h \in Seq(X) /\ Len(h) = b.len /\ r \in Seq(X) /\ FlattenSeq(W) = h \o r
  <2>1. h \in Seq(X) /\ Tail(W) \in Seq(Seq(X))
    BY <1>5, <1>7, HeadTailProperties
  <2>2. FlattenSeq(W) = h \o r
    BY <1>5, <1>7, <1>8, FlattenHead
  <2>3. << >> \in Seq(X)
    BY EmptySeq
  <2>4. r \in Seq(X)
    BY <1>8, <2>1, <2>3, FlattenAppend
  <2> HIDE DEF b
  <2>5. Len(h) = b.len
    <3>1. Held(mem) \subseteq X /\ b.len \in Nat /\ b \in Block
      BY <1>1 DEF X, b
    <3>2. h = Stored(mem, b, b.len)
      BY <1>7 DEF b
    <3> HIDE DEF h
    <3>3. Len(Stored(mem, b, b.len)) = b.len
      BY <3>1, StoredType
    <3> QED BY <3>2, <3>3
  <2> QED BY <2>1, <2>2, <2>4, <2>5
<1> HIDE DEF h, r
<1>10. /\ SubSeq(ToSend, 1, b.len) = h /\ SubSeq(ToSend, b.len + 1, Len(ToSend)) = r
       /\ b.len \in 1 .. Len(ToSend)
  <2>1. SubSeq(h \o r, 1, Len(h)) = h /\ SubSeq(h \o r, Len(h) + 1, Len(h \o r)) = r
    BY <1>9, CutConcat
  <2>2. Len(h \o r) = Len(h) + Len(r) /\ Len(r) \in Nat
    <3>1. h \in Seq(X) /\ r \in Seq(X)
      BY <1>9
    <3>2. Len(h \o r) = Len(h) + Len(r)
      BY <3>1, ConcatProperties
    <3>3. Len(r) \in Nat
      BY <3>1, LenProperties
    <3> QED BY <3>2, <3>3
  <2>3. b.len \in 1 .. Len(h \o r)
    BY <1>1, <1>9, <2>2
  <2>4. ToSend = h \o r
    BY <1>4, <1>9
  <2> QED BY <1>9, <2>1, <2>3, <2>4
<1>11. InFlight' = Append(InFlight, h)
  <2> DEFINE fl == InFlight
  <2>1. fl = [i \in 1 .. F |-> Stored(mem, OutBuffA[i], OutBuffA[i].len)]
    BY DEF InFlight, Contents, Stored
  <2>2. InFlight' = [i \in 1 .. F + 1 |-> Stored(mem, OutBuffA'[i], OutBuffA'[i].len)]
    BY <1>2 DEF InFlight, Contents, Stored
  <2>3. ASSUME NEW i \in 1 .. F
        PROVE  /\ fl[i] \in Seq(X) /\ InFlight'[i] = fl[i]
    <3>1. i \in 1 .. N /\ i # F + 1 /\ i \in 1 .. F + 1
      BY <1>1
    <3> DEFINE e == OutBuffA[i]
    <3>2. e \in Block
      BY <3>1, QueueFacts
    <3> HIDE DEF e
    <3>3. e.len \in Nat /\ Held(mem) \subseteq X
      BY <3>2, BlockFields DEF X
    <3>4. Stored(mem, e, e.len) \in Seq(X)
      BY <3>2, <3>3, StoredType
    <3> HIDE DEF fl
    <3>5. fl[i] = Stored(mem, e, e.len)
      BY <2>1 DEF e
    <3>6. InFlight'[i] = Stored(mem, e, e.len)
      BY <1>2, <2>2, <3>1 DEF e
    <3> QED BY <3>4, <3>5, <3>6
  <2>4. InFlight'[F + 1] = h
    <3> DEFINE d == OutBuffA'[F + 1]
    <3>1. d = [b EXCEPT !.state = "WRITING"] /\ F + 1 \in 1 .. F + 1
      BY <1>1, <1>2
    <3>2. d.buff = b.buff /\ d.len = b.len
      BY <1>1, <3>1 DEF Block
    <3> HIDE DEF d
    <3>3. Stored(mem, d, d.len) = Stored(mem, b, b.len)
      BY <3>2 DEF Stored
    <3> QED BY <1>7, <2>2, <3>1, <3>3 DEF h, d
  <2> HIDE DEF fl
  <2>5. fl \in [1 .. F -> Seq(X)] /\ F \in Nat
    BY <1>1, <2>1, <2>3
  <2>6. fl \in Seq(Seq(X)) /\ Len(fl) = F
    BY <2>5, TableIsSeq
  <2> DEFINE fn == InFlight'
  <2>7. \A i \in 1 .. F + 1 : i \in 1 .. F \/ i = F + 1
    BY <1>1
  <2>8. fn \in [1 .. Len(fl) + 1 -> Seq(X)]
    <3>1. \A i \in 1 .. F + 1 : fn[i] \in Seq(X)
      BY <1>9, <2>3, <2>4, <2>7
    <3>2. fn = [i \in 1 .. F + 1 |-> fn[i]]
      BY <2>2
    <3> HIDE DEF fn
    <3> QED BY <2>6, <3>1, <3>2
  <2>9. (\A i \in 1 .. Len(fl) : fn[i] = fl[i]) /\ fn[Len(fl) + 1] = h
    BY <2>3, <2>4, <2>6
  <2> HIDE DEF fn
  <2>10. fn = Append(fl, h)
    BY <1>9, <2>6, <2>8, <2>9, IsAppended
  <2> QED BY <2>10 DEF fn, fl
<1>12. Filled'
  <2>1. ~IsAllocated'
    <3>1. SUFFICES ASSUME IsAllocated' PROVE FALSE
      OBVIOUS
    <3>2. OutBuffA'[N].state = "ALLOCATED" /\ N \in 1 .. N
      BY <1>1, <1>2, <3>1 DEF IsAllocated, Last
    <3>3. OutBuffA[N].state = "ALLOCATED"
      BY <1>1, <1>2, <3>2 DEF Block
    <3> QED BY <1>1, <3>2, <3>3, QueueFacts
  <2> QED BY <2>1 DEF Filled
<1>13. Fifo!Take(b.len)
  BY <1>2, <1>4, <1>10, <1>11 DEF Fifo!Take, r
<1> QED BY <1>10, <1>12, <1>13

\* Release() ends the writing of the first block, and leaves the others alone.
LEMMA ReleaseRefines ==
  ASSUME QueueAssumption, IInv, IInv', Filled, Release
  PROVE  Filled' /\ Fifo!Done
<1> DEFINE N == Len(OutBuffA)
           F == FirstPendingI
           L == LastAllocLength
<1>1. /\ OutBuffA \in Seq(Block) /\ N \in 1 .. N /\ F \in 1 .. N /\ 1 \in 1 .. N
      /\ OutBuffA # << >> /\ L \in Nat
  <2>1. OutBuffA \in Seq(Block) /\ F \in 0 .. N /\ OutBuffA # << >> /\ N \in 1 .. N /\ L \in Nat
    BY QueueFacts DEF Release, IInv, TypeOK
  <2>2. 1 \in 1 .. N /\ OutBuffA[1].state = "WRITING"
    BY <2>1 DEF Release
  <2>3. 1 <= F
    BY <2>2, QueueFacts DEF IInv, StatesInOrder
  <2> QED BY <2>1, <2>2, <2>3
<1>2. /\ UNCHANGED <<LastAllocLength, nextByte>> /\ FirstPendingI' = F - 1
      /\ mem' = Scrub(Region(OutBuffA[1]))
      /\ Len(OutBuffA') = N - 1 /\ \A i \in 1 .. N - 1 : OutBuffA'[i] = OutBuffA[i + 1]
  <2>1. /\ UNCHANGED <<LastAllocLength, nextByte>> /\ FirstPendingI' = F - 1
        /\ mem' = Scrub(Region(Head(OutBuffA))) /\ OutBuffA' = Tail(OutBuffA)
    BY DEF Release
  <2> QED BY <1>1, <2>1, HeadTailProperties
<1>3. OutBuffA' \in Seq(Block) /\ FirstPendingI' \in 0 .. Len(OutBuffA')
  BY DEF IInv, TypeOK
<1>4. ASSUME NEW i \in 2 .. N
      PROVE  OutBuffA[i] \in Block /\ \A c \in Region(OutBuffA[i]) : mem'[c] = mem[c]
  <2>1. i \in 1 .. N /\ i # 1
    BY <1>1
  <2>2. /\ OutBuffA[i] \in Block /\ Region(OutBuffA[i]) \subseteq Cells
        /\ Region(OutBuffA[i]) \intersect Region(OutBuffA[1]) = {}
    BY <1>1, <2>1, QueueFacts, Apart, RegionInCells DEF BlocksApart
  <2>3. \A c \in Region(OutBuffA[i]) : c \in Cells /\ c \notin Region(OutBuffA[1])
    BY <2>2
  <2> QED BY <1>2, <2>2, <2>3 DEF Scrub
<1>5. UNCHANGED ToSend
  <2>1. ASSUME NEW i \in 1 .. N - F
        PROVE  Stored(mem', OutBuffA'[(F - 1) + i], Kept(OutBuffA'[(F - 1) + i], L))
                 = Stored(mem, OutBuffA[F + i], Kept(OutBuffA[F + i], L))
    <3> DEFINE j == F + i
               e == OutBuffA[j]
    <3>1. j \in 2 .. N /\ j \in 1 .. N /\ (F - 1) + i \in 1 .. N - 1 /\ ((F - 1) + i) + 1 = j
      BY <1>1
    <3> HIDE DEF j
    <3>2. OutBuffA'[(F - 1) + i] = e
      BY <1>2, <3>1
    <3>3. /\ e \in Block /\ \A c \in Region(e) : mem'[c] = mem[c]
          /\ Kept(e, L) \in Nat /\ Kept(e, L) <= e.len
      BY <1>4, <3>1, KeptFacts
    <3> HIDE DEF e
    <3>4. Stored(mem', e, Kept(e, L)) = Stored(mem, e, Kept(e, L))
      BY <3>3, SameStored
    <3> QED BY <3>2, <3>4 DEF j, e
  <2>2. Len(OutBuffA') - (F - 1) = N - F
    BY <1>1, <1>2
  <2>3. StoredFrom(OutBuffA', F - 1, mem', L) = StoredFrom(OutBuffA, F, mem, L)
    BY <2>1, <2>2, SameBlocks
  <2>4. ToSend = FlattenSeq(StoredFrom(OutBuffA, F, mem, L))
    BY <1>1, ToSendForm
  <2>5. ToSend' = FlattenSeq(StoredFrom(OutBuffA', F - 1, mem', L))
    BY <1>2, <1>3, ToSendNext
  <2> QED BY <2>3, <2>4, <2>5
<1>6. InFlight # << >> /\ InFlight' = Tail(InFlight)
  <2> DEFINE fl == InFlight
             X == Held(mem)
  <2>1. fl = [i \in 1 .. F |-> Stored(mem, OutBuffA[i], OutBuffA[i].len)]
    BY DEF InFlight, Contents, Stored
  <2>2. InFlight' = [i \in 1 .. F - 1 |-> Stored(mem', OutBuffA'[i], OutBuffA'[i].len)]
    BY <1>2 DEF InFlight, Contents, Stored
  <2>3. ASSUME NEW i \in 1 .. F PROVE Stored(mem, OutBuffA[i], OutBuffA[i].len) \in Seq(X)
    <3> DEFINE e == OutBuffA[i]
    <3>1. e \in Block
      BY <1>1, QueueFacts
    <3> HIDE DEF e
    <3>2. e.len \in Nat /\ Held(mem) \subseteq X
      BY <3>1, BlockFields
    <3>3. Stored(mem, e, e.len) \in Seq(X)
      BY <3>1, <3>2, StoredType
    <3> QED BY <3>3 DEF e
  <2>4. fl \in Seq(Seq(X)) /\ Len(fl) = F
    <3>1. fl \in [1 .. F -> Seq(X)] /\ F \in Nat
      BY <1>1, <2>1, <2>3
    <3> HIDE DEF fl, X
    <3> QED BY <3>1, TableIsSeq
  <2>5. ASSUME NEW i \in 1 .. F - 1
        PROVE  Stored(mem', OutBuffA'[i], OutBuffA'[i].len) = fl[i + 1]
    <3> DEFINE j == i + 1
               e == OutBuffA[j]
    <3>1. j \in 2 .. N /\ j \in 1 .. F /\ i \in 1 .. N - 1
      BY <1>1
    <3>2. OutBuffA'[i] = e
      BY <1>2, <3>1
    <3> HIDE DEF j
    <3>3. e \in Block /\ \A c \in Region(e) : mem'[c] = mem[c]
      BY <1>4, <3>1
    <3>4. fl[j] = Stored(mem, e, e.len)
      BY <2>1, <3>1
    <3> HIDE DEF e, fl
    <3>5. e.len \in Nat /\ e.len <= e.len
      BY <3>3, BlockFields
    <3>6. Stored(mem', e, e.len) = Stored(mem, e, e.len)
      BY <3>3, <3>5, SameStored
    <3> QED BY <3>2, <3>4, <3>6 DEF j
  <2> HIDE DEF fl, X
  <2>6. fl # << >>
    BY <1>1, <2>4, EmptySeq
  <2> DEFINE T == Tail(fl)
  <2>7. /\ T \in Seq(Seq(X)) /\ Len(T) = F - 1 /\ \A i \in 1 .. F - 1 : T[i] = fl[i + 1]
    BY <2>4, <2>6, HeadTailProperties
  <2>8. InFlight' = [i \in 1 .. F - 1 |-> fl[i + 1]]
    BY <2>2, <2>5
  <2> HIDE DEF T
  <2>9. T = [i \in 1 .. F - 1 |-> fl[i + 1]]
    BY <2>7, LenProperties
  <2> QED BY <2>6, <2>8, <2>9 DEF fl, T
<1>7. Filled'
  <2>1. SUFFICES ASSUME IsAllocated', NEW k \in 1 .. L'
                 PROVE  mem'[End(Last(OutBuffA')) - L' + k - 1] = (nextByte' + k - 1) % ByteNames
    BY DEF Filled
  <2> DEFINE b == OutBuffA[N]
  <2>2. N - 1 \in 1 .. N - 1 /\ N \in 2 .. N /\ N - 1 + 1 = N
    <3>1. Len(OutBuffA') \in 1 .. Len(OutBuffA')
      BY <1>3, <2>1 DEF IsAllocated
    <3> QED BY <1>1, <1>2, <3>1
  <2>3. Last(OutBuffA') = b /\ b = Last(OutBuffA) /\ b.state = "ALLOCATED" /\ IsAllocated
    <3>1. Last(OutBuffA') = b
      BY <1>2, <2>2 DEF Last
    <3> QED BY <1>1, <2>1, <3>1 DEF IsAllocated, Last
  <2>4. /\ b \in Block /\ b.buff \in Nat /\ b.len \in Nat
        /\ \A c \in Region(b) : mem'[c] = mem[c]
    BY <1>4, <2>2, BlockFields
  <2>5. b.len - L \in Nat
    <3>1. Kept(b, L) \in Nat /\ Kept(b, L) = b.len - L
      BY <1>1, <2>3, KeptFacts
    <3> QED BY <3>1
  <2>6. L' = L /\ nextByte' = nextByte /\ k \in 1 .. L
    BY <1>2
  <2>7. mem[End(b) - L + k - 1] = (nextByte + k - 1) % ByteNames
    BY <2>3, <2>6 DEF Filled
  <2> HIDE DEF b
  <2>8. End(b) - L + k - 1 \in Region(b)
    <3>1. End(b) = b.buff + b.len
      BY DEF End
    <3> QED BY <1>1, <2>4, <2>5, <2>6, <3>1 DEF Region
  <2> QED BY <2>3, <2>4, <2>6, <2>7, <2>8
<1> QED BY <1>2, <1>5, <1>6, <1>7 DEF Fifo!Done

\* An empty queue holds nothing, whatever its memory is.
LEMMA EmptyHolds ==
  /\ OutBuffA = << >> /\ FirstPendingI = 0 => ToSend = << >> /\ InFlight = << >> /\ Filled
  /\ OutBuffA' = << >> /\ FirstPendingI' = 0 => ToSend' = << >> /\ InFlight' = << >> /\ Filled'
<1> DEFINE none == StoredFrom(<< >>, 0, mem, LastAllocLength)
           noneNext == StoredFrom(<< >>, 0, mem', LastAllocLength')
<1>1. none = << >> /\ noneNext = << >> /\ FlattenSeq(<< >>) = << >>
  BY DEF StoredFrom, FlattenSeq
<1> HIDE DEF none, noneNext
<1>2. << >> \in Seq(Block) /\ Len(<< >>) = 0 /\ 0 \in 0 .. 0
  OBVIOUS
<1>3. ASSUME OutBuffA = << >>, FirstPendingI = 0
      PROVE  ToSend = << >> /\ InFlight = << >> /\ Filled
  <2>1. ToSend = FlattenSeq(none)
    BY <1>2, <1>3, ToSendForm DEF none
  <2> QED BY <1>1, <1>3, <2>1 DEF InFlight, Filled, IsAllocated
<1>4. ASSUME OutBuffA' = << >>, FirstPendingI' = 0
      PROVE  ToSend' = << >> /\ InFlight' = << >> /\ Filled'
  <2>1. ToSend' = FlattenSeq(noneNext)
    BY <1>2, <1>4, ToSendNext DEF noneNext
  <2> QED BY <1>1, <1>4, <2>1 DEF InFlight, Filled, IsAllocated
<1> QED BY <1>3, <1>4

\* Each step of the queue is one of the abstract queue, or nothing it can see.
LEMMA NextRefines ==
  ASSUME QueueAssumption, FifoInv, IInv', BlocksApart', [Next]_vars
  PROVE  Filled' /\ [Fifo!Next]_(Fifo!vars)
<1> USE DEF FifoInv
<1>1. ASSUME NEW len \in 1 .. MaxLen, Allocate(len)
      PROVE  Filled' /\ [Fifo!Next]_(Fifo!vars)
  BY <1>1, AllocateRefines DEF Fifo!vars
<1>2. ASSUME NEW len \in 0 .. MaxLen, Commit(len)
      PROVE  Filled' /\ [Fifo!Next]_(Fifo!vars)
  <2>1. /\ Filled' /\ UNCHANGED InFlight
        /\ nextByte' = (nextByte + len) % ByteNames
        /\ ToSend' = ToSend \o Fifo!Fresh(len)
        /\ len = 0 => UNCHANGED <<nextByte, ToSend>>
    BY <1>2, CommitRefines
  <2>2. CASE len = 0
    BY <2>1, <2>2 DEF Fifo!vars
  <2>3. CASE len # 0
    <3>1. len \in 1 .. MaxLen
      BY <2>3 DEF QueueAssumption
    <3>2. Fifo!Enqueue(len)
      BY <2>1 DEF Fifo!Enqueue
    <3> QED BY <2>1, <3>1, <3>2 DEF Fifo!Next
  <2> QED BY <2>2, <2>3
<1>3. CASE Pop
  BY <1>3, PopRefines DEF Fifo!Next
<1>4. CASE Release
  BY <1>4, ReleaseRefines DEF Fifo!Next
<1>5. ASSUME NEW releaseDynamic \in BOOLEAN, Reset(releaseDynamic)
      PROVE  Filled' /\ [Fifo!Next]_(Fifo!vars)
  <2>1. OutBuffA' = << >> /\ FirstPendingI' = 0 /\ UNCHANGED nextByte
    BY <1>5 DEF Reset
  <2>2. Filled' /\ Fifo!Clear
    BY <2>1, EmptyHolds DEF Fifo!Clear
  <2> QED BY <2>2 DEF Fifo!Next
<1>6. CASE UNCHANGED vars
  <2>1. /\ UNCHANGED <<OutBuffA, FirstPendingI, mem, nextByte, LastAllocLength>>
        /\ UNCHANGED <<ToSend, InFlight>>
    BY <1>6 DEF vars, ToSend, WaitingBytes, Waiting, InFlight, Contents, CommittedLength
  <2>2. Filled'
    BY <2>1 DEF Filled, IsAllocated, End
  <2> QED BY <2>1, <2>2 DEF Fifo!vars
<1> QED BY <1>1, <1>2, <1>3, <1>4, <1>5, <1>6 DEF Next

\* What was committed is what stands in memory, in every reachable state.
LEMMA FifoInductive == Spec => []FifoInv
<1>1. Init => Filled
  BY EmptyHolds DEF Init
<1>2. Filled /\ IInv /\ IInv' /\ BlocksApart' /\ [Next]_vars => Filled'
  BY NextRefines, QueueAssumption DEF FifoInv
<1> QED BY <1>1, <1>2, Inductive, NoOverlap, PTL DEF Spec, FifoInv

\* The queue implements a first-in first-out queue of bytes: Allocate() shows
\* nothing, Commit() adds the bytes the caller wrote, Pop() takes the bytes of
\* the first block that waits, Release() ends the oldest write.
THEOREM ImplementsByteFifo == Spec => IsByteFifo
<1>1. Init => Fifo!Init
  BY EmptyHolds DEF Init, Fifo!Init
<1>2. FifoInv /\ IInv' /\ BlocksApart' /\ [Next]_vars => [Fifo!Next]_(Fifo!vars)
  BY NextRefines, QueueAssumption
<1>3. FifoInv => IInv
  BY DEF FifoInv
<1> QED BY <1>1, <1>2, <1>3, FifoInductive, NoOverlap, PTL DEF Spec, IsByteFifo, Fifo!Spec
=============================================================================
