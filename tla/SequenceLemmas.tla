--------------------------- MODULE SequenceLemmas ---------------------------
(* Lemmas about numbers and about the sequence operators the model uses. *)
EXTENDS Integers, Sequences, SequencesExt, SequenceTheorems, WellFoundedInduction, TLAPS

\* A part of a sequence.
LEMMA SubSeqFacts ==
  ASSUME NEW X, NEW s \in Seq(X), NEW m \in 1 .. Len(s) + 1, NEW n \in m - 1 .. Len(s)
  PROVE  /\ SubSeq(s, m, n) \in Seq(X) /\ Len(SubSeq(s, m, n)) = n - m + 1
         /\ \A j \in 1 .. n - m + 1 : SubSeq(s, m, n)[j] = s[m + j - 1]
<1>1. m \in Int /\ n \in Int
  OBVIOUS
<1>2. \A i \in m .. n : s[i] \in X
  OBVIOUS
<1> QED BY <1>1, <1>2, SubSeqProperties

\* All of a sequence is the sequence.
LEMMA WholeSubSeq ==
  ASSUME NEW X, NEW s \in Seq(X)
  PROVE  SubSeq(s, 1, Len(s)) = s
<1> DEFINE n == Len(s)
           u == SubSeq(s, 1, n)
<1>1. 1 \in 1 .. Len(s) + 1 /\ n \in 1 - 1 .. Len(s) /\ n - 1 + 1 = n /\ n \in Nat
  OBVIOUS
<1> HIDE DEF n
<1>2. u \in Seq(X) /\ Len(u) = n /\ \A j \in 1 .. n : u[j] = s[1 + j - 1]
  BY <1>1, SubSeqFacts
<1>3. \A j \in 1 .. n : 1 + j - 1 = j
  BY <1>1
<1> HIDE DEF u
<1>4. Len(u) = Len(s) /\ \A j \in 1 .. Len(u) : u[j] = s[j]
  BY <1>2, <1>3 DEF n
<1>5. u = s
  BY <1>2, <1>4, SeqEqual
<1> QED BY <1>5 DEF u, n

\* RemoveAt() leaves the other elements, in their order.
LEMMA RemoveAtFacts ==
  ASSUME NEW X, NEW s \in Seq(X), NEW i \in 1 .. Len(s)
  PROVE  /\ RemoveAt(s, i) \in Seq(X) /\ Len(RemoveAt(s, i)) = Len(s) - 1
         /\ \A j \in 1 .. Len(s) - 1 :
              RemoveAt(s, i)[j] = IF j < i THEN s[j] ELSE s[j + 1]
<1> DEFINE a == SubSeq(s, 1, i - 1)
           b == SubSeq(s, i + 1, Len(s))
<1>1. /\ a \in Seq(X) /\ Len(a) = i - 1
      /\ \A j \in 1 .. i - 1 : a[j] = s[j]
  BY SubSeqFacts
<1>2. /\ b \in Seq(X) /\ Len(b) = Len(s) - i
      /\ \A j \in 1 .. Len(s) - i : b[j] = s[i + j]
  BY SubSeqFacts
<1> HIDE DEF a, b
<1>3. RemoveAt(s, i) = a \o b
  BY DEF RemoveAt, a, b
<1>4. /\ a \o b \in Seq(X) /\ Len(a \o b) = Len(s) - 1
      /\ \A j \in 1 .. Len(s) - 1 :
           (a \o b)[j] = IF j <= i - 1 THEN a[j] ELSE b[j - (i - 1)]
  <2>1. Len(a) + Len(b) = Len(s) - 1 /\ Len(a) = i - 1
    BY <1>1, <1>2
  <2>2. /\ a \o b \in Seq(X) /\ Len(a \o b) = Len(a) + Len(b)
        /\ \A j \in 1 .. Len(a) + Len(b) :
             (a \o b)[j] = IF j <= Len(a) THEN a[j] ELSE b[j - Len(a)]
    BY <1>1, <1>2, ConcatProperties, Zenon
  <2> QED BY <2>1, <2>2
<1>5. ASSUME NEW j \in 1 .. Len(s) - 1
      PROVE  (a \o b)[j] = IF j < i THEN s[j] ELSE s[j + 1]
  <2>1. CASE j < i
    BY <1>1, <1>4, <2>1
  <2>2. CASE ~(j < i)
    <3>1. j - (i - 1) \in 1 .. Len(s) - i
      BY <2>2
    <3>2. b[j - (i - 1)] = s[i + (j - (i - 1))]
      BY <1>2, <3>1
    <3>3. i + (j - (i - 1)) = j + 1
      OBVIOUS
    <3>4. (a \o b)[j] = b[j - (i - 1)]
      BY <1>4, <2>2
    <3> QED BY <2>2, <3>2, <3>3, <3>4
  <2> QED BY <2>1, <2>2
<1> QED BY <1>3, <1>4, <1>5

\* Front() takes the last element off.
LEMMA FrontFacts ==
  ASSUME NEW X, NEW s \in Seq(X), s # << >>
  PROVE  /\ Front(s) \in Seq(X) /\ Len(Front(s)) = Len(s) - 1
         /\ \A j \in 1 .. Len(s) - 1 : Front(s)[j] = s[j]
<1> DEFINE n == Len(s) - 1
<1>1. n \in 0 .. Len(s)
  OBVIOUS
<1> HIDE DEF n
<1>2. /\ SubSeq(s, 1, n) \in Seq(X) /\ Len(SubSeq(s, 1, n)) = n
      /\ \A j \in 1 .. n : SubSeq(s, 1, n)[j] = s[j]
  <2>1. 1 \in 1 .. Len(s) + 1 /\ n \in 1 - 1 .. Len(s) /\ n - 1 + 1 = n
    BY <1>1
  <2> QED BY <2>1, SubSeqFacts
<1> QED BY <1>2 DEF Front, n

\* A set of numbers has a least one: what holds of 0, and of n + 1 if it holds
\* of n, is proved from it, as no operator is passed to it.
LEMMA LeastNatural ==
  ASSUME NEW T \in SUBSET Nat, T # {}
  PROVE  \E m \in T : \A n \in T : m <= n
<1>1. PICK m \in T : \A n \in T : ~(<<n, m>> \in OpToRel(<, Nat))
  BY NatLessThanWellFounded, WFMin
<1>2. ASSUME NEW n \in T PROVE m <= n
  <2>1. <<n, m>> \in Nat \X Nat
    OBVIOUS
  <2>2. ~(n < m)
    BY <1>1, <2>1 DEF OpToRel
  <2> QED BY <2>2
<1> QED BY <1>2

\* FlattenSeq() is a recursive function: it exists, and this is what it computes.
LEMMA FlattenFacts ==
  ASSUME NEW X, NEW S \in Seq(Seq(X)), S # << >>
  PROVE  \E f \in [1 .. Len(S) -> Seq(X)] :
           /\ FlattenSeq(S) = f[Len(S)] /\ f[1] = S[1]
           /\ \A i \in 2 .. Len(S) : f[i] = f[i - 1] \o S[i]
<1> DEFINE N == Len(S)
           Next1(f, i) == IF i = 1 THEN S[i] ELSE f[i - 1] \o S[i]
           Has(n) == \E f \in [1 .. n -> Seq(X)] : \A i \in 1 .. n : f[i] = Next1(f, i)
           T == {n \in Nat : n <= N /\ ~Has(n)}
<1>1. N \in Nat /\ N >= 1 /\ \A i \in 1 .. N : S[i] \in Seq(X)
  OBVIOUS
<1> HIDE DEF N
<1>2. Has(0)
  <2> DEFINE f == [i \in 1 .. 0 |-> << >>]
  <2>1. f \in [1 .. 0 -> Seq(X)] /\ \A i \in 1 .. 0 : f[i] = Next1(f, i)
    OBVIOUS
  <2> QED BY <2>1
<1>3. ASSUME NEW n \in Nat, n < N, Has(n) PROVE Has(n + 1)
  <2>1. PICK f \in [1 .. n -> Seq(X)] : \A i \in 1 .. n : f[i] = Next1(f, i)
    BY <1>3
  <2> DEFINE v == IF n = 0 THEN S[1] ELSE f[n] \o S[n + 1]
             g == [i \in 1 .. n + 1 |-> IF i = n + 1 THEN v ELSE f[i]]
  <2>2. v \in Seq(X)
    <3>1. n + 1 \in 1 .. N
      BY <1>1, <1>3
    <3>2. CASE n = 0
      BY <1>1, <3>2
    <3>3. CASE n # 0
      <4>1. f[n] \in Seq(X) /\ S[n + 1] \in Seq(X)
        BY <1>1, <2>1, <3>1, <3>3
      <4>2. f[n] \o S[n + 1] \in Seq(X)
        BY <4>1, ConcatProperties
      <4> QED BY <3>3, <4>2
    <3> QED BY <3>2, <3>3
  <2> HIDE DEF v
  <2>3. g \in [1 .. n + 1 -> Seq(X)]
    BY <2>1, <2>2
  <2>4. ASSUME NEW i \in 1 .. n + 1 PROVE g[i] = Next1(g, i)
    <3>1. CASE i = n + 1
      <4>1. n # 0 => g[n] = f[n]
        OBVIOUS
      <4>2. g[i] = v
        BY <3>1
      <4>3. i - 1 = n /\ (i = 1 <=> n = 0)
        BY <3>1
      <4> HIDE DEF g
      <4> QED BY <3>1, <4>1, <4>2, <4>3 DEF v
    <3>2. CASE i # n + 1
      <4>1. i \in 1 .. n /\ (i # 1 => i - 1 \in 1 .. n)
        BY <3>2
      <4>2. g[i] = f[i] /\ (i # 1 => g[i - 1] = f[i - 1])
        BY <4>1
      <4> HIDE DEF g
      <4> QED BY <2>1, <4>1, <4>2
    <3> QED BY <3>1, <3>2
  <2> HIDE DEF g
  <2> QED BY <2>3, <2>4
<1> HIDE DEF Has
<1>4. T = {}
  <2> SUFFICES ASSUME T # {} PROVE FALSE
    OBVIOUS
  <2>1. PICK m \in T : \A n \in T : m <= n
    BY LeastNatural
  <2>2. m \in Nat /\ m <= N /\ ~Has(m)
    OBVIOUS
  <2>3. m # 0
    BY <1>2, <2>2
  <2>4. m - 1 \in Nat /\ m - 1 < N /\ m - 1 <= N /\ (m - 1) + 1 = m
    BY <1>1, <2>2, <2>3
  <2>5. Has(m - 1)
    BY <2>1, <2>2, <2>4
  <2> QED BY <1>3, <2>2, <2>4, <2>5
<1>5. PICK f \in [1 .. N -> Seq(X)] : \A i \in 1 .. N : f[i] = Next1(f, i)
  <2>1. Has(N)
    BY <1>1, <1>4
  <2> QED BY <2>1 DEF Has
<1> DEFINE g == CHOOSE h : h = [i \in 1 .. N |-> IF i = 1 THEN S[i] ELSE h[i - 1] \o S[i]]
<1>6. f = [i \in 1 .. N |-> IF i = 1 THEN S[i] ELSE f[i - 1] \o S[i]]
  BY <1>5
<1>7. g = [i \in 1 .. N |-> IF i = 1 THEN S[i] ELSE g[i - 1] \o S[i]]
  <2> HIDE DEF g
  <2>1. g = CHOOSE h : h = [i \in 1 .. N |-> IF i = 1 THEN S[i] ELSE h[i - 1] \o S[i]]
    BY DEF g
  <2> QED BY <1>6, <2>1, Zenon
<1>8. FlattenSeq(S) = g[N]
  <2>1. Len(S) # 0
    BY <1>1 DEF N
  <2> QED BY <2>1, Zenon DEF FlattenSeq, N, g
<1> HIDE DEF g
<1>9. \A i \in 1 .. N : g[i] = Next1(g, i)
  BY <1>7
<1> DEFINE U == {n \in Nat : n \in 1 .. N /\ g[n] # f[n]}
<1>10. U = {}
  <2> SUFFICES ASSUME U # {} PROVE FALSE
    OBVIOUS
  <2>1. PICK m \in U : \A n \in U : m <= n
    BY LeastNatural
  <2>2. m \in 1 .. N /\ m \in Nat /\ g[m] # f[m]
    OBVIOUS
  <2>3. m # 1
    BY <1>5, <1>9, <2>2
  <2>4. m - 1 \in 1 .. N /\ m - 1 \in Nat /\ m - 1 < m
    BY <1>1, <2>2, <2>3
  <2>5. g[m - 1] = f[m - 1]
    BY <2>1, <2>2, <2>4
  <2> QED BY <1>5, <1>9, <2>2, <2>3, <2>5
<1>11. g[N] = f[N] /\ 1 \in 1 .. N /\ \A i \in 2 .. N : i \in 1 .. N /\ i # 1
  <2>1. N \in Nat /\ N \in 1 .. N /\ 1 \in 1 .. N /\ \A i \in 2 .. N : i \in 1 .. N /\ i # 1
    BY <1>1
  <2>2. N \notin U
    BY <1>10, Zenon
  <2> QED BY <2>1, <2>2
<1> QED BY <1>5, <1>8, <1>11 DEF N

\* One more block makes the flattened sequence longer at its end.
LEMMA FlattenAppend ==
  ASSUME NEW X, NEW S \in Seq(Seq(X)), NEW x \in Seq(X)
  PROVE  FlattenSeq(S) \in Seq(X) /\ FlattenSeq(Append(S, x)) = FlattenSeq(S) \o x
<1> DEFINE N == Len(S)
           R == Append(S, x)
<1>1. /\ R \in Seq(Seq(X)) /\ R # << >> /\ Len(R) = N + 1 /\ N \in Nat
      /\ R[N + 1] = x /\ \A i \in 1 .. N : R[i] = S[i]
  <2>1. Append(S, x) # << >> /\ Append(S, x) \in Seq(Seq(X))
    BY AppendProperties
  <2> QED BY <2>1, AppendProperties
<1> HIDE DEF R
<1>2. PICK g \in [1 .. Len(R) -> Seq(X)] :
        /\ FlattenSeq(R) = g[Len(R)] /\ g[1] = R[1]
        /\ \A i \in 2 .. Len(R) : g[i] = g[i - 1] \o R[i]
  <2>1. R \in Seq(Seq(X)) /\ R # << >>
    BY <1>1
  <2> QED BY <2>1, FlattenFacts, Zenon
<1>3. CASE S = << >>
  <2>1. FlattenSeq(S) = << >>
    BY <1>3 DEF FlattenSeq
  <2>2. N = 0
    BY <1>3
  <2>3. FlattenSeq(R) = x
    BY <1>1, <1>2, <2>2
  <2>4. << >> \o x = x /\ << >> \in Seq(X)
    BY ConcatEmptySeq, EmptySeq
  <2> QED BY <2>1, <2>3, <2>4 DEF R
<1>4. CASE S # << >>
  <2>1. PICK f \in [1 .. Len(S) -> Seq(X)] :
          /\ FlattenSeq(S) = f[Len(S)] /\ f[1] = S[1]
          /\ \A i \in 2 .. Len(S) : f[i] = f[i - 1] \o S[i]
    BY <1>4, FlattenFacts, Zenon
  <2>2. N >= 1 /\ N \in 1 .. N /\ 1 \in 1 .. N
    BY <1>4
  <2> HIDE DEF N
  <2> DEFINE U == {n \in Nat : n \in 1 .. N /\ g[n] # f[n]}
  <2>3. U = {}
    <3> SUFFICES ASSUME U # {} PROVE FALSE
      OBVIOUS
    <3>1. PICK m \in U : \A n \in U : m <= n
      BY LeastNatural
    <3>2. m \in 1 .. N /\ m \in Nat /\ g[m] # f[m]
      OBVIOUS
    <3>3. m # 1
      BY <1>1, <1>2, <2>1, <2>2, <3>2
    <3>4. /\ m - 1 \in 1 .. N /\ m - 1 \in Nat /\ m - 1 < m /\ m \in 2 .. N /\ m \in 2 .. N + 1
      BY <1>1, <3>2, <3>3
    <3>5. g[m - 1] = f[m - 1]
      BY <3>1, <3>2, <3>4
    <3>6. g[m] = g[m - 1] \o R[m] /\ f[m] = f[m - 1] \o S[m] /\ R[m] = S[m]
      BY <1>1, <1>2, <2>1, <3>2, <3>4 DEF N
    <3> QED BY <3>2, <3>5, <3>6
  <2>4. g[N] = f[N] /\ f[N] \in Seq(X)
    BY <1>1, <2>1, <2>2, <2>3 DEF N
  <2>5. N + 1 \in 2 .. Len(R) /\ (N + 1) - 1 = N
    BY <1>1, <2>2
  <2>6. g[N + 1] = g[N] \o x
    BY <1>1, <1>2, <2>5
  <2>7. FlattenSeq(S) = f[N] /\ FlattenSeq(R) = g[N + 1]
    BY <1>1, <1>2, <2>1 DEF N
  <2> QED BY <2>4, <2>6, <2>7 DEF R
<1> QED BY <1>3, <1>4

\* Concatenating is associative, as the provers take it most easily.
LEMMA ConcatAssoc ==
  ASSUME NEW X
  PROVE  \A a, b, c \in Seq(X) : (a \o b) \o c = a \o (b \o c)
OBVIOUS

\* The first block comes first.
LEMMA FlattenHead ==
  ASSUME NEW X, NEW S \in Seq(Seq(X)), S # << >>
  PROVE  FlattenSeq(S) = Head(S) \o FlattenSeq(Tail(S))
<1> DEFINE Splits(s) == FlattenSeq(s) = Head(s) \o FlattenSeq(Tail(s))
           T == {n \in Nat : \E s \in Seq(Seq(X)) : Len(s) = n /\ s # << >> /\ ~Splits(s)}
<1>0. \A a, b, c \in Seq(X) : (a \o b) \o c = a \o (b \o c)
  BY ConcatAssoc
<1>1. T = {}
  <2> SUFFICES ASSUME T # {} PROVE FALSE
    OBVIOUS
  <2>1. PICK m \in T : \A n \in T : m <= n
    BY LeastNatural
  <2>2. PICK s \in Seq(Seq(X)) : Len(s) = m /\ s # << >> /\ ~Splits(s)
    OBVIOUS
  <2>3. PICK r \in Seq(Seq(X)), x \in Seq(X) : s = Append(r, x)
    BY <2>2, SequenceEmptyOrAppend, Zenon
  <2>4. Len(s) = Len(r) + 1 /\ Len(r) \in Nat
    BY <2>3, AppendProperties
  <2>5. FlattenSeq(s) = FlattenSeq(r) \o x
    BY <2>3, FlattenAppend, Zenon
  <2>6. /\ Head(s) = IF r = << >> THEN x ELSE Head(r)
        /\ Tail(s) = IF r = << >> THEN << >> ELSE Append(Tail(r), x)
    BY <2>3, HeadTailAppend, Zenon
  <2>7. CASE r = << >>
    <3>1. FlattenSeq(<< >>) = << >>
      BY DEF FlattenSeq
    <3>2. << >> \o x = x /\ x \o << >> = x
      BY ConcatEmptySeq
    <3> QED BY <2>2, <2>5, <2>6, <2>7, <3>1, <3>2
  <2>8. CASE r # << >>
    <3>1. Head(r) \in Seq(X) /\ Tail(r) \in Seq(Seq(X))
      BY <2>8, HeadTailProperties, Zenon
    <3>2. FlattenSeq(r) = Head(r) \o FlattenSeq(Tail(r))
      <4>1. ~(m <= Len(r))
        BY <2>2, <2>4
      <4>2. Len(r) \notin T
        BY <2>1, <4>1, Zenon
      <4> QED BY <2>4, <2>8, <4>2, Zenon
    <3>3. /\ FlattenSeq(Tail(r)) \in Seq(X)
          /\ FlattenSeq(Append(Tail(r), x)) = FlattenSeq(Tail(r)) \o x
      BY <3>1, FlattenAppend, Zenon
    <3>4. (Head(r) \o FlattenSeq(Tail(r))) \o x = Head(r) \o (FlattenSeq(Tail(r)) \o x)
      BY <1>0, <3>1, <3>3, Zenon
    <3> QED BY <2>2, <2>5, <2>6, <2>8, <3>2, <3>3, <3>4
  <2> QED BY <2>7, <2>8
<1>2. Len(S) \in Nat
  OBVIOUS
<1> QED BY <1>1, <1>2

\* A sequence is a function on its indices.
LEMMA TableIsSeq ==
  ASSUME NEW X, NEW n \in Nat, NEW f \in [1 .. n -> X]
  PROVE  f \in Seq(X) /\ Len(f) = n
OBVIOUS

\* A longer table that agrees with a sequence is that sequence with its last entry.
LEMMA IsAppended ==
  ASSUME NEW X, NEW s \in Seq(X), NEW e \in X, NEW t \in [1 .. Len(s) + 1 -> X],
         \A i \in 1 .. Len(s) : t[i] = s[i], t[Len(s) + 1] = e
  PROVE  t = Append(s, e)
<1> DEFINE n == Len(s) + 1
<1>1. n \in Nat /\ \A i \in 1 .. n : i \in 1 .. Len(s) \/ i = n
  OBVIOUS
<1>2. t \in [1 .. n -> X]
  OBVIOUS
<1>3. t \in Seq(X) /\ Len(t) = n
  BY <1>1, <1>2, TableIsSeq
<1>4. Append(s, e) \in Seq(X) /\ Len(Append(s, e)) = n
  BY AppendProperties
<1>5. \A i \in 1 .. n : Append(s, e)[i] = t[i]
  BY <1>1, AppendProperties
<1> QED BY <1>3, <1>4, <1>5, SeqEqual

\* The last part grows: so does the whole.
LEMMA FlattenGrown ==
  ASSUME NEW X, NEW W \in Seq(Seq(X)), W # << >>, NEW x \in Seq(X),
         NEW V, V = [i \in 1 .. Len(W) |-> IF i = Len(W) THEN W[i] \o x ELSE W[i]]
  PROVE  FlattenSeq(V) = FlattenSeq(W) \o x
<1> DEFINE n == Len(W) - 1
           U == SubSeq(W, 1, n)
<1>0. \A a, b, c \in Seq(X) : (a \o b) \o c = a \o (b \o c)
  BY ConcatAssoc
<1>1. n \in Nat /\ Len(W) = n + 1 /\ 1 \in 1 .. Len(W) + 1 /\ n \in 0 .. Len(W) /\ n - 1 + 1 = n
  OBVIOUS
<1> HIDE DEF n
<1> DEFINE w == W[n + 1]
           v == w \o x
<1>2. w \in Seq(X) /\ v \in Seq(X)
  <2>1. n + 1 \in 1 .. Len(W)
    BY <1>1
  <2>2. w \in Seq(X)
    BY <2>1, ElementOfSeq
  <2> QED BY <2>2, ConcatProperties
<1> HIDE DEF n
<1>3. U \in Seq(Seq(X)) /\ Len(U) = n /\ \A i \in 1 .. n : U[i] = W[i]
  <2>1. n \in 1 - 1 .. Len(W)
    BY <1>1
  <2>2. \A j \in 1 .. n : 1 + j - 1 = j
    BY <1>1
  <2>3. /\ U \in Seq(Seq(X)) /\ Len(U) = n - 1 + 1
        /\ \A j \in 1 .. n - 1 + 1 : U[j] = W[1 + j - 1]
    BY <1>1, <2>1, SubSeqFacts
  <2> QED BY <1>1, <2>2, <2>3
<1> HIDE DEF U, w, v
<1>4. W = Append(U, w)
  <2>1. W \in [1 .. Len(U) + 1 -> Seq(X)]
    BY <1>1, <1>3, LenProperties
  <2>2. W[Len(U) + 1] = w
    BY <1>3 DEF w
  <2> QED BY <1>2, <1>3, <2>1, <2>2, IsAppended
<1>5. V = Append(U, v)
  <2>1. V \in [1 .. Len(U) + 1 -> Seq(X)]
    <3>1. \A i \in 1 .. Len(W) : W[i] \in Seq(X) /\ (i = Len(W) => W[i] = w)
      BY <1>1, ElementOfSeq DEF w
    <3>2. \A i \in 1 .. Len(W) : V[i] \in Seq(X)
      BY <1>2, <3>1 DEF v
    <3> QED BY <1>1, <1>3, <3>2
  <2>2. V[Len(U) + 1] = v
    BY <1>1, <1>3 DEF w, v
  <2>3. \A i \in 1 .. Len(U) : V[i] = U[i]
    BY <1>1, <1>3
  <2> QED BY <1>2, <1>3, <2>1, <2>2, <2>3, IsAppended
<1>6. FlattenSeq(U) \in Seq(X) /\ FlattenSeq(W) = FlattenSeq(U) \o w
  BY <1>2, <1>3, <1>4, FlattenAppend
<1>7. FlattenSeq(V) = FlattenSeq(U) \o v
  BY <1>2, <1>3, <1>5, FlattenAppend
<1>8. (FlattenSeq(U) \o w) \o x = FlattenSeq(U) \o (w \o x)
  BY <1>0, <1>2, <1>6, Zenon
<1> QED BY <1>6, <1>7, <1>8, Zenon DEF v

\* Cutting a sequence where it was put together.
LEMMA CutConcat ==
  ASSUME NEW X, NEW a \in Seq(X), NEW b \in Seq(X)
  PROVE  /\ SubSeq(a \o b, 1, Len(a)) = a
         /\ SubSeq(a \o b, Len(a) + 1, Len(a \o b)) = b
<1> DEFINE c == a \o b
           m == Len(a)
           n == Len(b)
           s == SubSeq(c, 1, m)
           t == SubSeq(c, m + 1, Len(c))
<1>1. m \in Nat /\ n \in Nat
  OBVIOUS
<1>2. /\ c \in Seq(X) /\ Len(c) = m + n
      /\ \A i \in 1 .. m + n : c[i] = IF i <= m THEN a[i] ELSE b[i - m]
  BY ConcatProperties
<1> HIDE DEF c, m, n
<1>3. s \in Seq(X) /\ Len(s) = m /\ \A j \in 1 .. m : s[j] = a[j]
  <2>1. 1 \in 1 .. Len(c) + 1 /\ m \in 1 - 1 .. Len(c) /\ m - 1 + 1 = m
    BY <1>1, <1>2
  <2>2. s \in Seq(X) /\ Len(s) = m /\ \A j \in 1 .. m : s[j] = c[1 + j - 1]
    BY <1>2, <2>1, SubSeqFacts
  <2>3. \A j \in 1 .. m : 1 + j - 1 = j /\ j \in 1 .. m + n /\ j <= m
    BY <1>1
  <2> HIDE DEF s
  <2> QED BY <1>2, <2>2, <2>3
<1>4. t \in Seq(X) /\ Len(t) = n /\ \A j \in 1 .. n : t[j] = b[j]
  <2>1. /\ m + 1 \in 1 .. Len(c) + 1 /\ Len(c) \in (m + 1) - 1 .. Len(c)
        /\ Len(c) - (m + 1) + 1 = n
    BY <1>1, <1>2
  <2>2. t \in Seq(X) /\ Len(t) = n /\ \A j \in 1 .. n : t[j] = c[(m + 1) + j - 1]
    BY <1>2, <2>1, SubSeqFacts
  <2>3. \A j \in 1 .. n : /\ (m + 1) + j - 1 \in 1 .. m + n /\ ~((m + 1) + j - 1 <= m)
                          /\ ((m + 1) + j - 1) - m = j
    BY <1>1
  <2> HIDE DEF t
  <2> QED BY <1>2, <2>2, <2>3
<1> HIDE DEF s, t
<1>5. s = a
  BY <1>3, SeqEqual DEF m
<1>6. t = b
  BY <1>4, SeqEqual DEF n
<1> QED BY <1>5, <1>6 DEF s, t, c, m
=============================================================================
