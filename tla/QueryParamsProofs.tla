------------------------- MODULE QueryParamsProofs -------------------------
(***************************************************************************)
(* Proofs about QueryParams: what a query string decodes to, and that a    *)
(* multipart body, however it is cut, becomes the parameters and the files *)
(* that were sent.                                                         *)
(*                                                                         *)
(* The inductive invariant is IInv, near the end: no body is read (Rests), *)
(* or one is (Reads), and then the place in it (Scanned) tells how far the *)
(* content was given to the part parser (Given), what is kept in ParseTmp  *)
(* (Pending), and what the part parser has made of it (InPart, InClosing). *)
(*                                                                         *)
(* A conclusion with quantifiers is often given a name of its own, so that *)
(* a lemma's use is one match.                                             *)
(***************************************************************************)
EXTENDS QueryParams, SequenceLemmas, TLAPS

-----------------------------------------------------------------------------
(* Maps, and what was sent.                                                *)

\* What holds of 0 and of every next number holds up to n.
LEMMA SetInduction ==
  ASSUME NEW n \in Nat, NEW S, 0 \in S, \A i \in 0 .. n - 1 : i \in S => i + 1 \in S
  PROVE  \A i \in 0 .. n : i \in S
<1> DEFINE T == {i \in 0 .. n : i \notin S}
<1>1. T = {}
  <2> SUFFICES ASSUME T # {} PROVE FALSE
    OBVIOUS
  <2>1. T \in SUBSET Nat
    OBVIOUS
  <2>2. PICK m \in T : \A i \in T : m <= i
    BY <2>1, LeastNatural
  <2>3. m # 0 /\ m \in 0 .. n
    OBVIOUS
  <2>4. m - 1 \in 0 .. n - 1 /\ m - 1 \in 0 .. n /\ ~(m <= m - 1) /\ (m - 1) + 1 = m
    BY <2>3
  <2>5. m - 1 \in S
    BY <2>2, <2>4
  <2> QED BY <2>4, <2>5
<1> QED BY <1>1

\* A set of indices has a last one.
LEMMA MaxOfIndices ==
  ASSUME NEW n \in Nat, NEW T \in SUBSET (1 .. n), T # {}
  PROVE  Max(T) \in T /\ \A k \in T : k <= Max(T)
<1> DEFINE U == {i \in 0 .. n : n - i \in T}
<1>1. U \in SUBSET Nat /\ U # {}
  <2>1. PICK t \in T : TRUE
    OBVIOUS
  <2>2. n - t \in 0 .. n /\ n - (n - t) = t
    OBVIOUS
  <2>3. n - t \in U
    BY <2>1, <2>2
  <2>4. U \in SUBSET Nat
    OBVIOUS
  <2> HIDE DEF U
  <2> QED BY <2>3, <2>4
<1>2. PICK u \in U : \A v \in U : u <= v
  BY <1>1, LeastNatural
<1>3. n - u \in T /\ \A k \in T : n - u >= k
  <2>1. ASSUME NEW k \in T PROVE n - u >= k
    <3>1. n - k \in 0 .. n /\ n - (n - k) = k
      OBVIOUS
    <3>2. u <= n - k
      BY <1>2, <3>1
    <3> QED BY <3>1, <3>2
  <2> QED BY <2>1
<1>4. \E m \in T : \A k \in T : m >= k
  BY <1>3
<1>5. Max(T) \in T /\ \A k \in T : Max(T) >= k
  BY <1>4, Zenon DEF Max
<1> QED BY <1>5

\* The largest of a set of numbers is the one no other exceeds.
LEMMA MaxIs ==
  ASSUME NEW T \in SUBSET Int, NEW m \in T, \A k \in T : k <= m
  PROVE  Max(T) = m
<1>1. \E x \in T : \A k \in T : x >= k
  OBVIOUS
<1>2. Max(T) \in T /\ \A k \in T : Max(T) >= k
  BY <1>1, Zenon DEF Max
<1>3. Max(T) >= m /\ Max(T) <= m /\ Max(T) \in Int
  BY <1>2
<1> QED BY <1>3

\* A key that is stored has its new value, the others have their old ones.
LEMMA StoredFacts ==
  ASSUME NEW map, NEW a, NEW x
  PROVE  /\ DOMAIN Stored(map, a, x) = {a} \union DOMAIN map
         /\ Stored(map, a, x)[a] = x
         /\ \A b \in DOMAIN map : b # a => Stored(map, a, x)[b] = map[b]
BY DEF Stored

\* A map keeps its type.
LEMMA StoredType ==
  ASSUME NEW A, NEW B, NEW map \in Map(A, B), NEW a \in A, NEW x \in B
  PROVE  Stored(map, a, x) \in Map(A, B)
<1>1. PICK D \in SUBSET A : map \in [D -> B]
  BY DEF Map
<1> DEFINE E == {a} \union D
<1>2. Stored(map, a, x) \in [E -> B]
  BY <1>1 DEF Stored
<1>3. E \in SUBSET A
  BY <1>1
<1> HIDE DEF E
<1> QED BY <1>2, <1>3 DEF Map

\* What a map is.
LEMMA MapFacts ==
  ASSUME NEW A, NEW B, NEW f
  PROVE  /\ f \in Map(A, B) => /\ DOMAIN f \subseteq A /\ \A a \in DOMAIN f : f[a] \in B
                               /\ f = [a \in DOMAIN f |-> f[a]]
         /\ f = [a \in DOMAIN f |-> f[a]] /\ DOMAIN f \subseteq A
              /\ (\A a \in DOMAIN f : f[a] \in B) => f \in Map(A, B)
<1>1. ASSUME f \in Map(A, B)
      PROVE  /\ DOMAIN f \subseteq A /\ \A a \in DOMAIN f : f[a] \in B
             /\ f = [a \in DOMAIN f |-> f[a]]
  <2>1. PICK D \in SUBSET A : f \in [D -> B]
    BY <1>1 DEF Map
  <2> QED BY <2>1
<1>2. ASSUME f = [a \in DOMAIN f |-> f[a]], DOMAIN f \subseteq A,
             \A a \in DOMAIN f : f[a] \in B
      PROVE  f \in Map(A, B)
  <2>1. f \in [DOMAIN f -> B]
    BY <1>2
  <2>2. DOMAIN f \in SUBSET A
    BY <1>2
  <2> QED BY <2>1, <2>2 DEF Map
<1> QED BY <1>1, <1>2

\* Two maps with the same keys and values are one.
LEMMA MapEqual ==
  ASSUME NEW f, NEW g, f = [a \in DOMAIN f |-> f[a]], g = [a \in DOMAIN g |-> g[a]],
         DOMAIN f = DOMAIN g, \A a \in DOMAIN f : f[a] = g[a]
  PROVE  f = g
OBVIOUS
\* One more part: what it has is stored over what was sent with its name before.
LEMMA ContentsAppend ==
  ASSUME NEW X, NEW ps \in Seq(X), NEW pt \in X, NEW f
  PROVE  Contents(Append(ps, pt), f)
           = IF pt.file = f THEN Stored(Contents(ps, f), pt.name, pt.data) ELSE Contents(ps, f)
<1> DEFINE N == Len(ps) + 1
           qs == Append(ps, pt)
           At(s, n) == {i \in Sent(s, f) : s[i].name = n}
           NamesOf(s) == {s[i].name : i \in Sent(s, f)}
<1>1. /\ N \in Nat /\ DOMAIN ps = 1 .. N - 1 /\ DOMAIN qs = 1 .. N /\ N \in 1 .. N
      /\ qs[N] = pt /\ \A i \in 1 .. N - 1 : qs[i] = ps[i] /\ i \in 1 .. N /\ i # N
      /\ \A i \in 1 .. N : i \in 1 .. N - 1 \/ i = N
  <2>1. Len(qs) = N /\ qs \in Seq(X) /\ \A i \in 1 .. Len(ps) : qs[i] = ps[i]
    BY AppendProperties
  <2>2. qs[Len(ps) + 1] = pt
    BY AppendProperties
  <2> HIDE DEF qs
  <2> QED BY <2>1, <2>2
<1> HIDE DEF N, qs
<1>2. /\ Sent(ps, f) = {i \in 1 .. N - 1 : ps[i].file = f}
      /\ Sent(qs, f) = IF pt.file = f THEN Sent(ps, f) \union {N} ELSE Sent(ps, f)
  BY <1>1 DEF Sent
<1>3. \A n : n # pt.name \/ pt.file # f => At(qs, n) = At(ps, n)
  BY <1>1, <1>2
<1>4. ASSUME NEW n, n \in NamesOf(ps)
      PROVE  Max(At(ps, n)) \in Sent(ps, f) /\ Max(At(ps, n)) \in 1 .. N - 1
  <2>1. At(ps, n) # {} /\ At(ps, n) \in SUBSET (1 .. N - 1)
    BY <1>2, <1>4
  <2>2. N - 1 \in Nat
    BY <1>1 DEF N
  <2>3. Max(At(ps, n)) \in At(ps, n)
    BY <2>1, <2>2, MaxOfIndices
  <2> QED BY <2>1, <2>3
<1>5. /\ Contents(ps, f) = [n \in NamesOf(ps) |-> ps[Max(At(ps, n))].data]
      /\ Contents(qs, f) = [n \in NamesOf(qs) |-> qs[Max(At(qs, n))].data]
  BY Zenon DEF Contents
<1>6. CASE pt.file # f
  <2>1. NamesOf(qs) = NamesOf(ps)
    BY <1>1, <1>2, <1>6
  <2>2. \A n \in NamesOf(ps) : qs[Max(At(qs, n))].data = ps[Max(At(ps, n))].data
    <3> SUFFICES ASSUME NEW n \in NamesOf(ps)
                 PROVE  qs[Max(At(qs, n))].data = ps[Max(At(ps, n))].data
      OBVIOUS
    <3>1. At(qs, n) = At(ps, n)
      BY <1>3, <1>6
    <3>2. Max(At(ps, n)) \in 1 .. N - 1
      BY <1>4
    <3> HIDE DEF At
    <3>3. qs[Max(At(ps, n))] = ps[Max(At(ps, n))]
      BY <1>1, <3>2
    <3> QED BY <3>1, <3>3
  <2> HIDE DEF NamesOf, At
  <2>3. Contents(qs, f) = Contents(ps, f)
    BY <1>5, <2>1, <2>2
  <2> QED BY <1>6, <2>3 DEF qs
<1>7. CASE pt.file = f
  <2>1. NamesOf(qs) = {pt.name} \union NamesOf(ps)
    BY <1>1, <1>2, <1>7
  <2>2. Max(At(qs, pt.name)) = N
    <3>1. At(qs, pt.name) \in SUBSET Int /\ N \in At(qs, pt.name)
          /\ \A k \in At(qs, pt.name) : k <= N
      BY <1>1, <1>2, <1>7
    <3> HIDE DEF At
    <3> QED BY <3>1, MaxIs
  <2>3. \A n \in NamesOf(ps) :
           n # pt.name => qs[Max(At(qs, n))].data = ps[Max(At(ps, n))].data
    <3> SUFFICES ASSUME NEW n \in NamesOf(ps), n # pt.name
                 PROVE  qs[Max(At(qs, n))].data = ps[Max(At(ps, n))].data
      OBVIOUS
    <3>1. At(qs, n) = At(ps, n)
      BY <1>3
    <3>2. Max(At(ps, n)) \in 1 .. N - 1
      BY <1>4
    <3> HIDE DEF At
    <3>3. qs[Max(At(ps, n))] = ps[Max(At(ps, n))]
      BY <1>1, <3>2
    <3> QED BY <3>1, <3>3
  <2> HIDE DEF NamesOf, At
  <2>4. /\ DOMAIN Contents(ps, f) = NamesOf(ps)
        /\ \A n \in NamesOf(ps) : Contents(ps, f)[n] = ps[Max(At(ps, n))].data
    BY <1>5
  <2>5. qs[Max(At(qs, pt.name))].data = pt.data
    BY <1>1, <2>2
  <2>6. Stored(Contents(ps, f), pt.name, pt.data)
          = [n \in {pt.name} \union NamesOf(ps) |->
               IF n = pt.name THEN pt.data ELSE Contents(ps, f)[n]]
    BY <2>4 DEF Stored
  <2>7. \A n \in {pt.name} \union NamesOf(ps) :
          qs[Max(At(qs, n))].data = IF n = pt.name THEN pt.data ELSE Contents(ps, f)[n]
    BY <2>3, <2>4, <2>5
  <2>8. Contents(qs, f) = Stored(Contents(ps, f), pt.name, pt.data)
    BY <1>5, <2>1, <2>6, <2>7
  <2> QED BY <1>7, <2>8 DEF qs
<1> QED BY <1>6, <1>7
\* One more pair of a query string.
LEMMA QueryAppend ==
  ASSUME NEW q \in Seq(Seq(STRING) \X Seq(STRING)), NEW e \in Seq(STRING) \X Seq(STRING)
  PROVE  QueryMeant(Append(q, e)) = Stored(QueryMeant(q), e[1], e[2])
<1> DEFINE E == Seq(STRING) \X Seq(STRING)
           R(p) == [file |-> FALSE, name |-> p[1], data |-> p[2]]
           X == {R(p) : p \in E}
           T(s) == [i \in DOMAIN s |-> [file |-> FALSE, name |-> s[i][1], data |-> s[i][2]]]
           r == Append(q, e)
<1>1. /\ r \in Seq(E) /\ Len(r) = Len(q) + 1 /\ Len(q) \in Nat /\ r[Len(q) + 1] = e
      /\ \A i \in 1 .. Len(q) : r[i] = q[i]
      /\ DOMAIN q = 1 .. Len(q) /\ DOMAIN r = 1 .. Len(r)
  BY AppendProperties
<1> HIDE DEF r
<1>2. /\ \A i \in 1 .. Len(q) : q[i] \in E
      /\ \A i \in 1 .. Len(r) : r[i] \in E
  BY <1>1, ElementOfSeq
<1> HIDE DEF E
<1>3. T(q) \in [1 .. Len(q) -> X] /\ T(r) \in [1 .. Len(q) + 1 -> X] /\ R(e) \in X
  <2>1. e \in E
    BY DEF E
  <2>2. \A p \in E : R(p) \in X
    OBVIOUS
  <2> HIDE DEF X
  <2> QED BY <1>1, <1>2, <2>1, <2>2
<1>4. /\ \A i \in 1 .. Len(q) : T(r)[i] = T(q)[i]
      /\ T(r)[Len(q) + 1] = R(e)
  <2>1. /\ \A i \in 1 .. Len(q) : i \in DOMAIN r /\ i \in DOMAIN q
        /\ Len(q) + 1 \in DOMAIN r
    BY <1>1
  <2> QED BY <1>1, <2>1
<1> HIDE DEF X
<1>5. T(q) \in Seq(X) /\ Len(T(q)) = Len(q)
  <2> HIDE DEF T
  <2> QED BY <1>1, <1>3, TableIsSeq
<1>6. T(r) = Append(T(q), R(e))
  <2> HIDE DEF T, R
  <2> QED BY <1>3, <1>4, <1>5, IsAppended
<1>7. QueryMeant(r) = Contents(T(r), FALSE) /\ QueryMeant(q) = Contents(T(q), FALSE)
  BY Zenon DEF QueryMeant
<1>8. R(e).file = FALSE /\ R(e).name = e[1] /\ R(e).data = e[2]
  OBVIOUS
<1> HIDE DEF T, R
<1>9. Contents(Append(T(q), R(e)), FALSE) = Stored(Contents(T(q), FALSE), e[1], e[2])
  <2> DEFINE t == T(q)
             x == R(e)
  <2>1. t \in Seq(X) /\ x \in X
    BY <1>3, <1>5
  <2>2. x.file = FALSE /\ x.name = e[1] /\ x.data = e[2]
    BY <1>8
  <2> HIDE DEF t, x
  <2>3. \A f : Contents(Append(t, x), f)
                = IF x.file = f THEN Stored(Contents(t, f), x.name, x.data) ELSE Contents(t, f)
    BY <2>1, ContentsAppend
  <2>4. Contents(Append(t, x), FALSE)
          = IF x.file = FALSE THEN Stored(Contents(t, FALSE), x.name, x.data) ELSE Contents(t, FALSE)
    BY <2>3, Zenon
  <2>5. Contents(Append(t, x), FALSE) = Stored(Contents(t, FALSE), e[1], e[2])
    BY <2>2, <2>4, Zenon
  <2> QED BY <2>5 DEF t, x
<1> QED BY <1>6, <1>7, <1>9 DEF r

\* Nothing that is sent has no names.
LEMMA ContentsNone ==
  /\ \A f : Contents(<< >>, f) = << >> /\ DOMAIN Contents(<< >>, f) = {}
  /\ QueryMeant(<< >>) = << >>
<1>1. \A f : Sent(<< >>, f) = {}
  BY DEF Sent
<1>2. \A f : DOMAIN Contents(<< >>, f) = {} /\ Contents(<< >>, f) = [n \in {} |-> << >>]
  BY <1>1 DEF Contents
<1>3. [n \in {} |-> << >>] = << >>
  OBVIOUS
<1>4. QueryMeant(<< >>) = Contents(<< >>, FALSE)
  <2>1. [i \in DOMAIN << >> |-> [file |-> FALSE, name |-> << >>[i][1], data |-> << >>[i][2]]]
          = << >>
    OBVIOUS
  <2> QED BY <2>1, Zenon DEF QueryMeant
<1> QED BY <1>2, <1>3, <1>4

\* A part that is a parameter is stored over what was meant before it; a file
\* is none of the parameters.
LEMMA MeantAppend ==
  ASSUME NEW q, NEW X, NEW ps \in Seq(X), NEW pt \in X, pt.file \in BOOLEAN
  PROVE  Meant(q, Append(ps, pt))
           = IF pt.file THEN Meant(q, ps) ELSE Stored(Meant(q, ps), <<pt.name>>, pt.data)
<1>0. \A f : Contents(Append(ps, pt), f)
              = IF pt.file = f THEN Stored(Contents(ps, f), pt.name, pt.data) ELSE Contents(ps, f)
  BY ContentsAppend
<1> DEFINE c == Contents(ps, FALSE)
           d == Contents(Append(ps, pt), FALSE)
           S(x) == [n \in {<<m>> : m \in DOMAIN x} |-> x[n[1]]]
           M(x) == [n \in DOMAIN S(x) \union DOMAIN QueryMeant(q) |->
                      IF n \in DOMAIN S(x) THEN S(x)[n] ELSE QueryMeant(q)[n]]
<1>1. Meant(q, ps) = M(c) /\ Meant(q, Append(ps, pt)) = M(d)
  BY Zenon DEF Meant
<1> HIDE DEF S, M
<1>2. d = IF pt.file = FALSE THEN Stored(c, pt.name, pt.data) ELSE c
  BY <1>0, Zenon
<1> USE DEF S, M
<1> HIDE DEF c, d
<1>3. CASE pt.file
  BY <1>1, <1>2, <1>3
<1>4. CASE ~pt.file
  <2> DEFINE e == Stored(c, pt.name, pt.data)
  <2>1. /\ DOMAIN e = {pt.name} \union DOMAIN c /\ e[pt.name] = pt.data
        /\ \A m \in DOMAIN c : m # pt.name => e[m] = c[m]
    BY DEF Stored
  <2>2. d = e
    BY <1>2, <1>4
  <2> HIDE DEF e
  <2>3. DOMAIN S(e) = {<<pt.name>>} \union DOMAIN S(c)
    BY <2>1
  <2>4. \A n \in DOMAIN S(e) : S(e)[n] = IF n = <<pt.name>> THEN pt.data ELSE S(c)[n]
    BY <2>1
  <2> HIDE DEF S
  <2>5. M(e) = Stored(M(c), <<pt.name>>, pt.data)
    BY <2>3, <2>4 DEF Stored
  <2> QED BY <1>1, <1>4, <2>2, <2>5
<1> QED BY <1>3, <1>4

\* Without parts, the query string's parameters are meant.
LEMMA MeantNone == \A q : Meant(q, << >>) = QueryMeant(q)
<1> SUFFICES ASSUME NEW q PROVE Meant(q, << >>) = QueryMeant(q)
  OBVIOUS
<1>1. DOMAIN Contents(<< >>, FALSE) = {}
  BY ContentsNone
<1>2. Meant(q, << >>) = [n \in DOMAIN QueryMeant(q) |-> QueryMeant(q)[n]]
  BY <1>1 DEF Meant
<1>3. QueryMeant(q) = [n \in DOMAIN QueryMeant(q) |-> QueryMeant(q)[n]]
  <2> DEFINE t == [i \in DOMAIN q |-> [file |-> FALSE, name |-> q[i][1], data |-> q[i][2]]]
  <2>1. QueryMeant(q) = Contents(t, FALSE)
    BY Zenon DEF QueryMeant
  <2> HIDE DEF t
  <2> QED BY <2>1 DEF Contents
<1> QED BY <1>2, <1>3

-----------------------------------------------------------------------------
(* AddURLEncoded(): an encoded text is decoded to what it encodes.         *)

\* The loop of AddURLEncoded() is a recursive function: it exists, and this is
\* what it computes.
LEMMA DecodeSteps ==
  ASSUME NEW map, NEW X, NEW text \in Seq(X)
  PROVE  \E D : /\ D[0] = [map |-> map, tmp |-> << >>, inValue |-> FALSE, next |-> 1]
                /\ \A i \in 1 .. Len(text) : D[i] = DecodeStep(D[i - 1], text, i)
                /\ AddURLEncoded(map, text) = D[Len(text)]
<1> DEFINE N == Len(text)
           a == [map |-> map, tmp |-> << >>, inValue |-> FALSE, next |-> 1]
           Has(n) == \E f : f = [i \in 0 .. n |-> IF i = 0 THEN a ELSE DecodeStep(f[i - 1], text, i)]
           S == {n \in 0 .. N : Has(n)}
<1>1. N \in Nat
  OBVIOUS
<1> HIDE DEF N, a
<1>2. Has(0)
  <2> DEFINE f == [i \in 0 .. 0 |-> a]
  <2>1. f = [i \in 0 .. 0 |-> IF i = 0 THEN a ELSE DecodeStep(f[i - 1], text, i)]
    OBVIOUS
  <2> QED BY <2>1
<1>3. ASSUME NEW n \in 0 .. N - 1, Has(n) PROVE Has(n + 1)
  <2>1. PICK f : f = [i \in 0 .. n |-> IF i = 0 THEN a ELSE DecodeStep(f[i - 1], text, i)]
    BY <1>3
  <2> DEFINE v == DecodeStep(f[n], text, n + 1)
             g == [i \in 0 .. n + 1 |-> IF i = n + 1 THEN v ELSE f[i]]
  <2>2. ASSUME NEW i \in 0 .. n + 1
        PROVE  g[i] = IF i = 0 THEN a ELSE DecodeStep(g[i - 1], text, i)
    <3>1. CASE i = n + 1
      <4>1. g[i] = v /\ i # 0 /\ i - 1 = n /\ g[n] = f[n]
        BY <1>1, <3>1
      <4> HIDE DEF g
      <4> QED BY <3>1, <4>1
    <3>2. CASE i # n + 1
      <4>1. i \in 0 .. n /\ (i # 0 => i - 1 \in 0 .. n + 1 /\ i - 1 # n + 1)
        BY <3>2
      <4>2. g[i] = f[i] /\ (i # 0 => g[i - 1] = f[i - 1])
        BY <3>2, <4>1
      <4>3. f[i] = IF i = 0 THEN a ELSE DecodeStep(f[i - 1], text, i)
        BY <2>1, <4>1
      <4> HIDE DEF g
      <4> QED BY <4>2, <4>3
    <3> QED BY <3>1, <3>2
  <2>3. g = [i \in 0 .. n + 1 |-> g[i]]
    OBVIOUS
  <2> HIDE DEF g
  <2>4. g = [i \in 0 .. n + 1 |-> IF i = 0 THEN a ELSE DecodeStep(g[i - 1], text, i)]
    BY <2>2, <2>3
  <2> QED BY <2>4
<1> HIDE DEF Has
<1>4. Has(N)
  <2>1. 0 \in S
    BY <1>1, <1>2
  <2>2. \A i \in 0 .. N - 1 : i \in S => i + 1 \in S
    BY <1>1, <1>3
  <2> HIDE DEF S
  <2>3. \A i \in 0 .. N : i \in S
    BY <1>1, <2>1, <2>2, SetInduction
  <2> QED BY <1>1, <2>3 DEF S
<1> DEFINE D == CHOOSE f : f = [i \in 0 .. N |-> IF i = 0 THEN a ELSE DecodeStep(f[i - 1], text, i)]
<1>5. D = [i \in 0 .. N |-> IF i = 0 THEN a ELSE DecodeStep(D[i - 1], text, i)]
  BY <1>4, Zenon DEF Has
<1>6. AddURLEncoded(map, text) = D[N]
  BY Zenon DEF AddURLEncoded, N, a
<1> HIDE DEF D
<1>7. D[0] = a /\ \A i \in 1 .. N : D[i] = DecodeStep(D[i - 1], text, i)
  <2>1. 0 \in 0 .. N /\ \A i \in 1 .. N : i \in 0 .. N /\ i # 0
    BY <1>1
  <2> QED BY <1>5, <2>1
<1> QED BY <1>6, <1>7 DEF N, a

\* A text has another one in it behind m characters.
HasAt(text, m, w) ==
  m + Len(w) <= Len(text) /\ \A j \in 1 .. Len(w) : text[m + j] = w[j]

\* Two texts behind each other.
LEMMA HasBoth ==
  ASSUME NEW X, NEW text, NEW m \in Nat, NEW v \in Seq(X), NEW w \in Seq(X),
         Len(text) \in Nat, HasAt(text, m, v \o w)
  PROVE  HasAt(text, m, v) /\ HasAt(text, m + Len(v), w)
<1> DEFINE a == Len(v)
           b == Len(w)
<1>1. /\ Len(v \o w) = a + b /\ a \in Nat /\ b \in Nat
      /\ \A i \in 1 .. a + b : (v \o w)[i] = IF i <= a THEN v[i] ELSE w[i - a]
  BY ConcatProperties
<1>2. m + (a + b) <= Len(text) /\ \A j \in 1 .. a + b : text[m + j] = (v \o w)[j]
  BY <1>1 DEF HasAt
<1> HIDE DEF a, b
<1>3. ASSUME NEW j \in 1 .. a PROVE text[m + j] = v[j]
  <2>1. j \in 1 .. a + b /\ j <= a
    BY <1>1
  <2> QED BY <1>1, <1>2, <2>1
<1>4. ASSUME NEW j \in 1 .. b PROVE text[(m + a) + j] = w[j]
  <2>1. a + j \in 1 .. a + b /\ ~(a + j <= a) /\ (a + j) - a = j /\ m + (a + j) = (m + a) + j
    BY <1>1
  <2>2. (v \o w)[a + j] = w[j]
    BY <1>1, <2>1
  <2>3. text[m + (a + j)] = (v \o w)[a + j]
    BY <1>2, <2>1
  <2> QED BY <2>1, <2>2, <2>3
<1>5. m + a <= Len(text) /\ (m + a) + b <= Len(text)
  BY <1>1, <1>2
<1> QED BY <1>3, <1>4, <1>5 DEF HasAt, a, b

\* The digits of %XX are read as what they were written for.
LEMMA HexVals ==
  /\ GetHexVal("0") = 0 /\ GetHexVal("2") = 2 /\ GetHexVal("3") = 3 /\ GetHexVal("5") = 5
  /\ GetHexVal("6") = 6 /\ GetHexVal("a") = 10 /\ GetHexVal("b") = 11 /\ GetHexVal("d") = 13
<1> DEFINE At(c) == {d \in DOMAIN Digits : c \in {Digits[d], MixedDigits[d]}}
<1>1. At("0") = {1} /\ At("2") = {3}
  BY DEF Digits, MixedDigits
<1>2. At("3") = {4} /\ At("5") = {6}
  BY DEF Digits, MixedDigits
<1>3. At("6") = {7} /\ At("a") = {11}
  BY DEF Digits, MixedDigits
<1>4. At("b") = {12} /\ At("d") = {14}
  BY DEF Digits, MixedDigits
<1>5. \A c : GetHexVal(c) = IF At(c) = {} THEN 0 ELSE (CHOOSE d \in At(c) : TRUE) - 1
  BY DEF GetHexVal
<1> HIDE DEF At
<1>6. \A n \in Nat : (CHOOSE d \in {n} : TRUE) = n /\ {n} # {}
  OBVIOUS
<1> QED BY <1>1, <1>2, <1>3, <1>4, <1>5, <1>6

\* Characters have different codes.
LEMMA CodesDiffer ==
  /\ DOMAIN Code = {"LF", "CR", "SP", "%", "&", "+", "-", "="}
  /\ Code["LF"] = 10 /\ Code["CR"] = 13 /\ Code["%"] = 37 /\ Code["&"] = 38
  /\ Code["+"] = 43 /\ Code["-"] = 45 /\ Code["="] = 61 /\ Code["SP"] = 32
  /\ \A c, d \in DOMAIN Code : Code[c] = Code[d] => c = d
<1>1. DOMAIN Code = {"LF", "CR", "SP", "%", "&", "+", "-", "="}
  BY DEF Code
<1>2. /\ Code["LF"] = 10 /\ Code["CR"] = 13 /\ Code["%"] = 37 /\ Code["&"] = 38
      /\ Code["+"] = 43 /\ Code["-"] = 45 /\ Code["="] = 61 /\ Code["SP"] = 32
  BY DEF Code
<1>3. ASSUME NEW c \in DOMAIN Code, NEW d \in DOMAIN Code, Code[c] = Code[d]
      PROVE  c = d
  BY <1>1, <1>2, <1>3, SMT
<1> QED BY <1>1, <1>2, <1>3, Zenon

\* How a coded character is written.
LEMMA EscapedIs ==
  /\ Escaped("LF") = <<"%", "0", "a">> /\ Escaped("CR") = <<"%", "0", "d">>
  /\ Escaped("%") = <<"%", "2", "5">> /\ Escaped("&") = <<"%", "2", "6">>
  /\ Escaped("+") = <<"%", "2", "b">> /\ Escaped("-") = <<"%", "2", "d">>
  /\ Escaped("=") = <<"%", "3", "d">> /\ Escaped("SP") = <<"+">>
  /\ \A c : c \notin DOMAIN Code => Escaped(c) = <<c>>
<1>2. /\ Digits[1] = "0" /\ Digits[3] = "2" /\ Digits[4] = "3"
      /\ MixedDigits[6] = "5" /\ MixedDigits[7] = "6" /\ MixedDigits[11] = "a"
      /\ MixedDigits[12] = "b" /\ MixedDigits[14] = "d"
  BY DEF Digits, MixedDigits
<1>3. \A c : c # "SP" /\ c \in DOMAIN Code =>
        Escaped(c) = <<"%", Digits[(Code[c] \div 16) + 1], MixedDigits[(Code[c] % 16) + 1]>>
  BY Zenon DEF Escaped
<1>4. Escaped("LF") = <<"%", "0", "a">>
  <2>1. (10 \div 16) + 1 = 1 /\ (10 % 16) + 1 = 11 /\ "LF" # "SP"
    OBVIOUS
  <2>2. "LF" \in DOMAIN Code /\ Code["LF"] = 10
    BY CodesDiffer
  <2> QED BY <1>2, <1>3, <2>1, <2>2, Zenon
<1>5. Escaped("CR") = <<"%", "0", "d">>
  <2>1. (13 \div 16) + 1 = 1 /\ (13 % 16) + 1 = 14 /\ "CR" # "SP"
    OBVIOUS
  <2>2. "CR" \in DOMAIN Code /\ Code["CR"] = 13
    BY CodesDiffer
  <2> QED BY <1>2, <1>3, <2>1, <2>2, Zenon
<1>6. Escaped("%") = <<"%", "2", "5">>
  <2>1. (37 \div 16) + 1 = 3 /\ (37 % 16) + 1 = 6 /\ "%" # "SP"
    OBVIOUS
  <2>2. "%" \in DOMAIN Code /\ Code["%"] = 37
    BY CodesDiffer
  <2> QED BY <1>2, <1>3, <2>1, <2>2, Zenon
<1>7. Escaped("&") = <<"%", "2", "6">>
  <2>1. (38 \div 16) + 1 = 3 /\ (38 % 16) + 1 = 7 /\ "&" # "SP"
    OBVIOUS
  <2>2. "&" \in DOMAIN Code /\ Code["&"] = 38
    BY CodesDiffer
  <2> QED BY <1>2, <1>3, <2>1, <2>2, Zenon
<1>8. Escaped("+") = <<"%", "2", "b">>
  <2>1. (43 \div 16) + 1 = 3 /\ (43 % 16) + 1 = 12 /\ "+" # "SP"
    OBVIOUS
  <2>2. "+" \in DOMAIN Code /\ Code["+"] = 43
    BY CodesDiffer
  <2> QED BY <1>2, <1>3, <2>1, <2>2, ZenonT(60)
<1>9. Escaped("-") = <<"%", "2", "d">>
  <2>1. (45 \div 16) + 1 = 3 /\ (45 % 16) + 1 = 14 /\ "-" # "SP"
    OBVIOUS
  <2>2. "-" \in DOMAIN Code /\ Code["-"] = 45
    BY CodesDiffer
  <2> QED BY <1>2, <1>3, <2>1, <2>2, ZenonT(60)
<1>10. Escaped("=") = <<"%", "3", "d">>
  <2>1. (61 \div 16) + 1 = 4 /\ (61 % 16) + 1 = 14 /\ "=" # "SP"
    OBVIOUS
  <2>2. "=" \in DOMAIN Code /\ Code["="] = 61
    BY CodesDiffer
  <2> QED BY <1>2, <1>3, <2>1, <2>2, SMT
<1>11. Escaped("SP") = <<"+">>
  BY DEF Escaped
<1>12. \A c : c \notin DOMAIN Code => Escaped(c) = <<c>>
  BY CodesDiffer DEF Escaped
<1> QED BY <1>4, <1>5, <1>6, <1>7, <1>8, <1>9, <1>10, <1>11, <1>12

\* A character written as %XX is taken as what it was.
LEMMA TakenCoded ==
  ASSUME NEW text, NEW m \in Nat, NEW c \in DOMAIN Code, NEW h, NEW l,
         Code[c] = 16 * GetHexVal(h) + GetHexVal(l), HasAt(text, m, <<"%", h, l>>)
  PROVE  TakenChar(text, m + 1) = c /\ text[m + 1] = "%"
<1>1. text[m + 1] = "%" /\ text[m + 2] = h /\ text[m + 3] = l
  BY DEF HasAt
<1>2. (m + 1) + 1 = m + 2 /\ (m + 1) + 2 = m + 3
  OBVIOUS
<1> DEFINE V == 16 * GetHexVal(h) + GetHexVal(l)
<1>3. TakenChar(text, m + 1) = CHOOSE x \in DOMAIN Code : Code[x] = V
  <2>1. text[m + 1] # "+"
    BY <1>1
  <2>2. TakenChar(text, m + 1) = CHOOSE x \in DOMAIN Code :
          Code[x] = 16 * GetHexVal(text[(m + 1) + 1]) + GetHexVal(text[(m + 1) + 2])
    BY <1>1, <2>1, Zenon DEF TakenChar
  <2> QED BY <1>1, <1>2, <2>2
<1>4. Code[c] = V
  OBVIOUS
<1> HIDE DEF V
<1>5. \A x \in DOMAIN Code : Code[x] = V <=> x = c
  BY <1>4, CodesDiffer, Zenon
<1>6. (CHOOSE x \in DOMAIN Code : Code[x] = V) = c
  BY <1>5, Zenon
<1> QED BY <1>1, <1>3, <1>6

\* What is written for a character is taken as the character, as a whole, and
\* never as a separator.
LEMMA TakenOf ==
  ASSUME NEW text, NEW m \in Nat, NEW c \in STRING, HasAt(text, m, Escaped(c))
  PROVE  /\ TakenChar(text, m + 1) = c
         /\ TakenWidth(text[m + 1]) = Len(Escaped(c)) /\ Len(Escaped(c)) \in 1 .. 3
         /\ text[m + 1] \notin {"+", "%"} => c \notin {"=", "&"}
<1> DEFINE Goal == /\ TakenChar(text, m + 1) = c
                   /\ TakenWidth(text[m + 1]) = Len(Escaped(c)) /\ Len(Escaped(c)) \in 1 .. 3
                   /\ text[m + 1] \notin {"+", "%"} => c \notin {"=", "&"}
<1> HIDE DEF Goal
<1> SUFFICES Goal
  BY DEF Goal
<1>1. ASSUME NEW h, NEW l, c \in DOMAIN Code, Escaped(c) = <<"%", h, l>>,
             Code[c] = 16 * GetHexVal(h) + GetHexVal(l)
      PROVE  Goal
  <2>1. TakenChar(text, m + 1) = c /\ text[m + 1] = "%"
    <3>1. HasAt(text, m, <<"%", h, l>>)
      BY <1>1
    <3> QED BY <1>1, <3>1, TakenCoded
  <2>2. Len(<<"%", h, l>>) = 3 /\ TakenWidth("%") = 3
    BY DEF TakenWidth
  <2> QED BY <1>1, <2>1, <2>2 DEF Goal
<1>2. CASE c \notin DOMAIN Code
  <2>1. Escaped(c) = <<c>>
    BY <1>2, EscapedIs
  <2>2. text[m + 1] = c
    <3>1. HasAt(text, m, <<c>>) /\ Len(<<c>>) = 1 /\ <<c>>[1] = c /\ 1 \in 1 .. 1
      BY <2>1
    <3> QED BY <3>1, Zenon DEF HasAt
  <2>3. c \notin {"+", "%", "=", "&"}
    BY <1>2, CodesDiffer
  <2>4. TakenChar(text, m + 1) = c /\ TakenWidth(c) = 1 /\ Len(<<c>>) = 1
    BY <2>2, <2>3 DEF TakenChar, TakenWidth
  <2> QED BY <2>1, <2>2, <2>3, <2>4 DEF Goal
<1>3. CASE c = "SP"
  <2>1. Escaped(c) = <<"+">>
    BY <1>3, EscapedIs
  <2>2. text[m + 1] = "+"
    BY <2>1 DEF HasAt
  <2>3. TakenChar(text, m + 1) = c /\ TakenWidth("+") = 1 /\ Len(<<"+">>) = 1
    BY <1>3, <2>2 DEF TakenChar, TakenWidth
  <2> QED BY <2>1, <2>2, <2>3 DEF Goal
<1>4. CASE c = "LF"
  <2>1. Code["LF"] = 16 * GetHexVal("0") + GetHexVal("a")
    <3>1. 16 * 0 + 10 = 10
      OBVIOUS
    <3> QED BY <3>1, HexVals, CodesDiffer
  <2>2. Escaped(c) = <<"%", "0", "a">> /\ c \in DOMAIN Code
    BY <1>4, EscapedIs, CodesDiffer, Zenon
  <2> QED BY <1>1, <1>4, <2>1, <2>2
<1>5. CASE c = "CR"
  <2>1. Code["CR"] = 16 * GetHexVal("0") + GetHexVal("d")
    <3>1. 16 * 0 + 13 = 13
      OBVIOUS
    <3> QED BY <3>1, HexVals, CodesDiffer
  <2>2. Escaped(c) = <<"%", "0", "d">> /\ c \in DOMAIN Code
    BY <1>5, EscapedIs, CodesDiffer, Zenon
  <2> QED BY <1>1, <1>5, <2>1, <2>2
<1>6. CASE c = "%"
  <2>1. Code["%"] = 16 * GetHexVal("2") + GetHexVal("5")
    <3>1. 16 * 2 + 5 = 37
      OBVIOUS
    <3> QED BY <3>1, HexVals, CodesDiffer
  <2>2. Escaped(c) = <<"%", "2", "5">> /\ c \in DOMAIN Code
    BY <1>6, EscapedIs, CodesDiffer, Zenon
  <2> QED BY <1>1, <1>6, <2>1, <2>2
<1>7. CASE c = "&"
  <2>1. Code["&"] = 16 * GetHexVal("2") + GetHexVal("6")
    <3>1. 16 * 2 + 6 = 38
      OBVIOUS
    <3> QED BY <3>1, HexVals, CodesDiffer
  <2>2. Escaped(c) = <<"%", "2", "6">> /\ c \in DOMAIN Code
    BY <1>7, EscapedIs, CodesDiffer, Zenon
  <2> QED BY <1>1, <1>7, <2>1, <2>2
<1>8. CASE c = "+"
  <2>1. Code["+"] = 16 * GetHexVal("2") + GetHexVal("b")
    <3>1. 16 * 2 + 11 = 43
      OBVIOUS
    <3> QED BY <3>1, HexVals, CodesDiffer
  <2>2. Escaped(c) = <<"%", "2", "b">> /\ c \in DOMAIN Code
    BY <1>8, EscapedIs, CodesDiffer, Zenon
  <2> QED BY <1>1, <1>8, <2>1, <2>2
<1>9. CASE c = "-"
  <2>1. Code["-"] = 16 * GetHexVal("2") + GetHexVal("d")
    <3>1. 16 * 2 + 13 = 45
      OBVIOUS
    <3> QED BY <3>1, HexVals, CodesDiffer
  <2>2. Escaped(c) = <<"%", "2", "d">> /\ c \in DOMAIN Code
    BY <1>9, EscapedIs, CodesDiffer, Zenon
  <2> QED BY <1>1, <1>9, <2>1, <2>2
<1>10. CASE c = "="
  <2>1. Code["="] = 16 * GetHexVal("3") + GetHexVal("d")
    <3>1. 16 * 3 + 13 = 61
      OBVIOUS
    <3> QED BY <3>1, HexVals, CodesDiffer
  <2>2. Escaped(c) = <<"%", "3", "d">> /\ c \in DOMAIN Code
    BY <1>10, EscapedIs, CodesDiffer, Zenon
  <2> QED BY <1>1, <1>10, <2>1, <2>2
<1>11. c \in DOMAIN Code => c \in {"LF", "CR", "SP", "%", "&", "+", "-", "="}
  BY CodesDiffer
<1> QED
  BY <1>2, <1>3, <1>4, <1>5, <1>6, <1>7, <1>8, <1>9, <1>10, <1>11

\* What the loop has, the next character that is looked at being next.
Read(map, tmp, inValue, next) ==
  [map |-> map, tmp |-> tmp, inValue |-> inValue, next |-> next]
Longer(map, tmp, c) == [map EXCEPT ![tmp] = Append(@, c)]
StepsOf(D, text) == \A i \in 1 .. Len(text) : D[i] = DecodeStep(D[i - 1], text, i)

\* The fields of what is taken.
LEMMA TakenFacts ==
  ASSUME NEW text, NEW i
  PROVE  /\ Taken(text, i).char = TakenChar(text, i)
         /\ Taken(text, i).next = i + TakenWidth(text[i])
         /\ Taken(text, i).literal <=> text[i] \notin {"+", "%"}
BY DEF Taken

\* The effect of a character that begins behind m.
Adds(D, m, c) ==
  \A n, M, t : n = m + Len(Escaped(c)) =>
    /\ D[m] = Read(M, t, FALSE, m + 1) => D[n] = Read(M, Append(t, c), FALSE, n + 1)
    /\ D[m] = Read(M, t, TRUE, m + 1) => D[n] = Read(Longer(M, t, c), t, TRUE, n + 1)

\* A character is added to the name, or to the value of the name.
LEMMA CharDecoded ==
  ASSUME NEW X, NEW text \in Seq(X), NEW D, StepsOf(D, text), NEW m \in Nat,
         NEW c \in STRING, HasAt(text, m, Escaped(c))
  PROVE  Adds(D, m, c)
<1> SUFFICES ASSUME NEW n, NEW M, NEW t, NEW v, v = TRUE \/ v = FALSE,
                    n = m + Len(Escaped(c)), D[m] = Read(M, t, v, m + 1)
             PROVE  D[n] = IF v THEN Read(Longer(M, t, c), t, v, n + 1)
                                ELSE Read(M, Append(t, c), v, n + 1)
  <2>1. \A n, M, t, v : v = TRUE \/ v = FALSE =>
          (n = m + Len(Escaped(c)) /\ D[m] = Read(M, t, v, m + 1) =>
             D[n] = IF v THEN Read(Longer(M, t, c), t, v, n + 1)
                         ELSE Read(M, Append(t, c), v, n + 1))
    OBVIOUS
  <2>2. ASSUME NEW n, NEW M, NEW t, n = m + Len(Escaped(c)), D[m] = Read(M, t, FALSE, m + 1)
        PROVE  D[n] = Read(M, Append(t, c), FALSE, n + 1)
    BY <2>1, <2>2, Zenon
  <2>3. ASSUME NEW n, NEW M, NEW t, n = m + Len(Escaped(c)), D[m] = Read(M, t, TRUE, m + 1)
        PROVE  D[n] = Read(Longer(M, t, c), t, TRUE, n + 1)
    BY <2>1, <2>3, Zenon
  <2> QED BY <2>2, <2>3, Zenon DEF Adds
<1> DEFINE e == Len(Escaped(c))
           tk == Taken(text, m + 1)
           R == IF v THEN Read(Longer(M, t, c), t, v, n + 1)
                     ELSE Read(M, Append(t, c), v, n + 1)
<1>1. /\ TakenChar(text, m + 1) = c /\ TakenWidth(text[m + 1]) = e /\ e \in 1 .. 3
      /\ text[m + 1] \notin {"+", "%"} => c \notin {"=", "&"}
  BY TakenOf
<1>2. n <= Len(text) /\ n = m + e /\ Len(text) \in Nat /\ n \in Nat
  <2>1. m + e <= Len(text)
    BY Zenon DEF HasAt
  <2>2. n = m + e /\ Len(text) \in Nat
    OBVIOUS
  <2> HIDE DEF e
  <2>3. n \in Nat
    BY <1>1, <2>2
  <2> QED BY <2>1, <2>2, <2>3
<1>3. tk.char = c /\ tk.next = n + 1 /\ (tk.literal => c \notin {"=", "&"})
  <2>1. /\ tk.char = TakenChar(text, m + 1) /\ tk.next = (m + 1) + TakenWidth(text[m + 1])
        /\ tk.literal <=> text[m + 1] \notin {"+", "%"}
    BY TakenFacts
  <2>2. (m + 1) + e = n + 1
    <3> HIDE DEF e
    <3> QED BY <1>1, <1>2
  <2> HIDE DEF tk, e
  <2> QED BY <1>1, <2>1, <2>2
<1> HIDE DEF e, tk
<1>4. D[m + 1] = R
  <2>1. m + 1 \in 1 .. Len(text) /\ (m + 1) - 1 = m /\ ~(m + 1 < m + 1)
    BY <1>1, <1>2
  <2>2. D[m + 1] = DecodeStep(Read(M, t, v, m + 1), text, m + 1)
    BY <2>1 DEF StepsOf
  <2>3. ~(tk.literal /\ tk.char = "=") /\ ~(tk.literal /\ tk.char = "&")
    BY <1>3
  <2> DEFINE d == Read(M, t, v, m + 1)
  <2>4. d.next = m + 1 /\ d.inValue = v /\ d.tmp = t /\ d.map = M
    BY DEF Read
  <2> HIDE DEF d
  <2>5. CASE v
    BY <1>3, <2>1, <2>2, <2>3, <2>4, <2>5, Zenon DEF DecodeStep, tk, d, Read, Longer
  <2>6. CASE ~v
    BY <1>3, <2>1, <2>2, <2>3, <2>4, <2>6, Zenon DEF DecodeStep, tk, d, Read
  <2> QED BY <2>5, <2>6
<1>5. R.next = n + 1
  BY DEF Read
<1> HIDE DEF R
<1>6. ASSUME NEW i \in 1 .. Len(text), i < n + 1, D[i - 1] = R
      PROVE  D[i] = R
  <2>1. D[i] = DecodeStep(R, text, i)
    BY <1>6 DEF StepsOf
  <2> QED BY <1>5, <1>6, <2>1 DEF DecodeStep
<1>7. CASE e = 1
  BY <1>2, <1>4, <1>7 DEF R
<1>8. CASE e # 1
  <2>0. PICK N \in Nat : N = n
    BY <1>2
  <2>1. N <= Len(text) /\ N = m + e
    BY <1>2, <2>0
  <2>2. /\ m + 2 \in 1 .. Len(text) /\ (m + 2) - 1 = m + 1 /\ m + 2 < N + 1
        /\ e = 3 => m + 3 \in 1 .. Len(text) /\ (m + 3) - 1 = m + 2 /\ m + 3 < N + 1
    BY <1>1, <1>2, <1>8, <2>1
  <2>3. D[m + 2] = R
    BY <1>4, <1>6, <2>0, <2>2
  <2>4. e = 3 => D[m + 3] = R
    BY <1>6, <2>0, <2>2, <2>3
  <2>5. e = 2 \/ e = 3
    BY <1>1, <1>8
  <2>6. D[m + e] = R
    BY <2>3, <2>4, <2>5
  <2> QED BY <2>0, <2>1, <2>6 DEF R
<1> QED BY <1>7, <1>8 DEF e

\* The effect of a separator behind m.
Separates(D, text, m) ==
  \A M, t :
    /\ text[m + 1] = "=" /\ D[m] = Read(M, t, FALSE, m + 1)
         => D[m + 1] = Read(Stored(M, t, << >>), t, TRUE, m + 2)
    /\ text[m + 1] = "&" /\ D[m] = Read(M, t, TRUE, m + 1)
         => D[m + 1] = Read(M, << >>, FALSE, m + 2)

\* A separator ends the name, or the value.
LEMMA SeparatorDecoded ==
  ASSUME NEW X, NEW text \in Seq(X), NEW D, StepsOf(D, text), NEW m \in Nat,
         m + 1 <= Len(text)
  PROVE  Separates(D, text, m)
<1> SUFFICES ASSUME NEW M, NEW t
             PROVE  /\ text[m + 1] = "=" /\ D[m] = Read(M, t, FALSE, m + 1)
                         => D[m + 1] = Read(Stored(M, t, << >>), t, TRUE, m + 2)
                    /\ text[m + 1] = "&" /\ D[m] = Read(M, t, TRUE, m + 1)
                         => D[m + 1] = Read(M, << >>, FALSE, m + 2)
  BY Zenon DEF Separates
<1> DEFINE tk == Taken(text, m + 1)
<1>1. m + 1 \in 1 .. Len(text) /\ (m + 1) - 1 = m /\ ~(m + 1 < m + 1) /\ Len(text) \in Nat
      /\ (m + 1) + 1 = m + 2
  OBVIOUS
<1>2. \A c \in {"=", "&"} : text[m + 1] = c =>
        tk = [char |-> c, next |-> m + 2, literal |-> TRUE]
  BY <1>1 DEF Taken, TakenChar, TakenWidth
<1>3. D[m + 1] = DecodeStep(D[m], text, m + 1)
  BY <1>1, Zenon DEF StepsOf
<1> HIDE DEF tk
<1>4. ASSUME text[m + 1] = "=", D[m] = Read(M, t, FALSE, m + 1)
      PROVE  D[m + 1] = Read(Stored(M, t, << >>), t, TRUE, m + 2)
  <2> DEFINE d == Read(M, t, FALSE, m + 1)
  <2>1. d.next = m + 1 /\ d.inValue = FALSE /\ d.tmp = t /\ d.map = M
    BY DEF Read
  <2>2. tk.char = "=" /\ tk.next = m + 2 /\ tk.literal
    BY <1>2, <1>4
  <2> HIDE DEF d
  <2> QED BY <1>1, <1>3, <1>4, <2>1, <2>2, Zenon DEF DecodeStep, tk, d, Read
<1>5. ASSUME text[m + 1] = "&", D[m] = Read(M, t, TRUE, m + 1)
      PROVE  D[m + 1] = Read(M, << >>, FALSE, m + 2)
  <2> DEFINE d == Read(M, t, TRUE, m + 1)
  <2>1. d.next = m + 1 /\ d.inValue = TRUE /\ d.tmp = t /\ d.map = M
    BY DEF Read
  <2>2. tk.char = "&" /\ tk.next = m + 2 /\ tk.literal
    BY <1>2, <1>5
  <2> HIDE DEF d
  <2> QED BY <1>1, <1>3, <1>5, <2>1, <2>2, Zenon DEF DecodeStep, tk, d, Read
<1> QED BY <1>4, <1>5

\* The characters of an encoded text.
Chars == STRING \union {"%", "+", "=", "&", "0", "2", "3", "5", "6", "a", "b", "d"}

\* Three characters are a text, and one is.
LEMMA ShortTexts ==
  /\ \A a1, a2, a3 \in Chars : <<a1, a2, a3>> \in Seq(Chars)
  /\ \A a1 \in Chars : <<a1>> \in Seq(Chars)
<1>1. ASSUME NEW a1 \in Chars, NEW a2 \in Chars, NEW a3 \in Chars
      PROVE  <<a1, a2, a3>> \in Seq(Chars)
  <2> DEFINE w == <<a1, a2, a3>>
  <2>1. Len(w) = 3 /\ w[1] = a1 /\ w[2] = a2 /\ w[3] = a3 /\ w = [i \in 1 .. 3 |-> w[i]]
    OBVIOUS
  <2> HIDE DEF w
  <2>2. w \in [1 .. 3 -> Chars]
    BY <2>1
  <2>3. w \in Seq(Chars)
    BY <2>2, TableIsSeq
  <2> QED BY <2>3 DEF w
<1>2. ASSUME NEW a1 \in Chars PROVE <<a1>> \in Seq(Chars)
  <2>1. << >> \in Seq(Chars) /\ <<a1>> = Append(<< >>, a1)
    BY EmptySeq
  <2> QED BY <2>1, AppendProperties
<1> QED BY <1>1, <1>2

\* Nothing is written for an empty text; one more character is written behind it.
LEMMA EscapedAppend ==
  /\ EscapedText(<< >>) = << >>
  /\ \A y \in Seq(STRING), c \in STRING :
       /\ EscapedText(y) \in Seq(Chars) /\ Escaped(c) \in Seq(Chars)
       /\ EscapedText(Append(y, c)) = EscapedText(y) \o Escaped(c)
<1> DEFINE T(s) == [i \in DOMAIN s |-> Escaped(s[i])]
<1>1. EscapedText(<< >>) = << >>
  <2>1. T(<< >>) = << >>
    OBVIOUS
  <2>2. FlattenSeq(<< >>) = << >>
    BY DEF FlattenSeq
  <2> QED BY <2>1, <2>2, Zenon DEF EscapedText
<1>2. \A c \in STRING : Escaped(c) \in Seq(Chars)
  <2> SUFFICES ASSUME NEW c \in STRING PROVE Escaped(c) \in Seq(Chars)
    OBVIOUS
  <2>0. /\ \A a1, a2, a3 \in Chars : <<a1, a2, a3>> \in Seq(Chars)
        /\ \A a1 \in Chars : <<a1>> \in Seq(Chars)
    BY ShortTexts
  <2>1. CASE c \notin DOMAIN Code
    <3>1. Escaped(c) = <<c>>
      BY <2>1, EscapedIs, Zenon
    <3> QED BY <2>0, <3>1, Zenon DEF Chars
  <2>2. CASE c \in DOMAIN Code
    <3>1. /\ <<"%", "0", "a">> \in Seq(Chars) /\ <<"%", "0", "d">> \in Seq(Chars)
          /\ <<"%", "2", "5">> \in Seq(Chars) /\ <<"%", "2", "6">> \in Seq(Chars)
          /\ <<"%", "2", "b">> \in Seq(Chars) /\ <<"%", "2", "d">> \in Seq(Chars)
          /\ <<"%", "3", "d">> \in Seq(Chars) /\ <<"+">> \in Seq(Chars)
      <4>1. /\ "%" \in Chars /\ "+" \in Chars /\ "0" \in Chars /\ "2" \in Chars
            /\ "3" \in Chars /\ "5" \in Chars /\ "6" \in Chars /\ "a" \in Chars
            /\ "b" \in Chars /\ "d" \in Chars
        BY Zenon DEF Chars
      <4> QED BY <2>0, <4>1, Zenon
    <3>2. c \in {"LF", "CR", "SP", "%", "&", "+", "-", "="}
      BY <2>2, CodesDiffer
    <3> QED BY <3>1, <3>2, EscapedIs
  <2> QED BY <2>1, <2>2
<1>3. ASSUME NEW y \in Seq(STRING), NEW c \in STRING
      PROVE  /\ EscapedText(y) \in Seq(Chars)
             /\ EscapedText(Append(y, c)) = EscapedText(y) \o Escaped(c)
  <2> DEFINE z == Append(y, c)
             X == Seq(Chars)
  <2>1. /\ z \in Seq(STRING) /\ Len(z) = Len(y) + 1 /\ Len(y) \in Nat /\ z[Len(y) + 1] = c
        /\ \A i \in 1 .. Len(y) : z[i] = y[i]
        /\ DOMAIN y = 1 .. Len(y) /\ DOMAIN z = 1 .. Len(z)
    <3>1. z \in Seq(STRING) /\ Len(z) = Len(y) + 1 /\ z[Len(y) + 1] = c
      BY AppendProperties
    <3>2. \A i \in 1 .. Len(y) : z[i] = y[i]
      BY AppendProperties
    <3> HIDE DEF z
    <3> QED BY <3>1, <3>2
  <2> HIDE DEF z
  <2>2. /\ \A i \in 1 .. Len(y) : Escaped(y[i]) \in X
        /\ \A i \in 1 .. Len(z) : Escaped(z[i]) \in X
        /\ Escaped(c) \in X
    BY <1>2, <2>1, ElementOfSeq
  <2> HIDE DEF X
  <2>3. T(y) \in [1 .. Len(y) -> X] /\ T(z) \in [1 .. Len(y) + 1 -> X]
    BY <2>1, <2>2
  <2>4. (\A i \in 1 .. Len(y) : T(z)[i] = T(y)[i]) /\ T(z)[Len(y) + 1] = Escaped(c)
    <3>1. /\ \A i \in 1 .. Len(y) : i \in DOMAIN y /\ i \in DOMAIN z
          /\ Len(y) + 1 \in DOMAIN z
      BY <2>1
    <3> QED BY <2>1, <3>1
  <2>5. EscapedText(y) = FlattenSeq(T(y)) /\ EscapedText(z) = FlattenSeq(T(z))
    BY Zenon DEF EscapedText
  <2> HIDE DEF T
  <2>6. T(y) \in Seq(X) /\ Len(T(y)) = Len(y)
    BY <2>1, <2>3, TableIsSeq
  <2>7. T(z) = Append(T(y), Escaped(c))
    BY ZenonT(60), <2>2, <2>3, <2>4, <2>6, IsAppended
  <2>8. FlattenSeq(T(y)) \in X /\ FlattenSeq(Append(T(y), Escaped(c))) = FlattenSeq(T(y)) \o Escaped(c)
    BY <2>2, <2>6, FlattenAppend DEF X
  <2> QED BY <2>5, <2>7, <2>8 DEF z, X
<1> QED BY <1>1, <1>2, <1>3

\* The effect of a text behind m: it is read into the name, or into the value.
Puts(D, m, x) ==
  \A n, M, t : n = m + Len(EscapedText(x)) =>
    /\ D[m] = Read(M, << >>, FALSE, m + 1) => D[n] = Read(M, x, FALSE, n + 1)
    /\ D[m] = Read(Stored(M, t, << >>), t, TRUE, m + 1)
         => D[n] = Read(Stored(M, t, x), t, TRUE, n + 1)

\* A text is read into the name, or into the value.
LEMMA TextDecoded ==
  ASSUME NEW X, NEW text \in Seq(X), NEW D, StepsOf(D, text), NEW m \in Nat,
         NEW x \in Seq(STRING), HasAt(text, m, EscapedText(x))
  PROVE  Puts(D, m, x)
<1> SUFFICES ASSUME NEW n, NEW M, NEW t, n = m + Len(EscapedText(x))
             PROVE  /\ D[m] = Read(M, << >>, FALSE, m + 1) => D[n] = Read(M, x, FALSE, n + 1)
                    /\ D[m] = Read(Stored(M, t, << >>), t, TRUE, m + 1)
                         => D[n] = Read(Stored(M, t, x), t, TRUE, n + 1)
  BY Zenon DEF Puts
<1> DEFINE E(y) == m + Len(EscapedText(y))
           Good(y) == /\ D[m] = Read(M, << >>, FALSE, m + 1)
                           => D[E(y)] = Read(M, y, FALSE, E(y) + 1)
                      /\ D[m] = Read(Stored(M, t, << >>), t, TRUE, m + 1)
                           => D[E(y)] = Read(Stored(M, t, y), t, TRUE, E(y) + 1)
           S == {k \in 0 .. Len(x) :
                   \A y \in Seq(STRING) :
                     Len(y) = k /\ HasAt(text, m, EscapedText(y)) => Good(y)}
<1>1. 0 \in S
  <2>1. \A y \in Seq(STRING) : Len(y) = 0 => y = << >>
    OBVIOUS
  <2>2. E(<< >>) = m
    BY EscapedAppend
  <2>3. 0 \in 0 .. Len(x)
    OBVIOUS
  <2>4. Good(<< >>)
    BY <2>2
  <2> HIDE DEF Good
  <2> QED BY <2>1, <2>3, <2>4
<1>2. ASSUME NEW k \in 0 .. Len(x) - 1, k \in S PROVE k + 1 \in S
  <2> SUFFICES ASSUME NEW z \in Seq(STRING), Len(z) = k + 1, HasAt(text, m, EscapedText(z))
               PROVE  Good(z)
    <3> HIDE DEF Good
    <3> QED OBVIOUS
  <2>1. z # << >>
    OBVIOUS
  <2>2. PICK y \in Seq(STRING), c \in STRING : z = Append(y, c)
    BY <2>1, SequenceEmptyOrAppend, Zenon
  <2>3. Len(y) = k
    <3>1. Len(Append(y, c)) = Len(y) + 1 /\ Len(y) \in Nat
      BY AppendProperties
    <3> QED BY <2>2, <3>1
  <2> DEFINE v == EscapedText(y)
             w == Escaped(c)
  <2>4. v \in Seq(Chars) /\ w \in Seq(Chars) /\ EscapedText(z) = v \o w
    BY <2>2, EscapedAppend
  <2>5. Len(v) \in Nat /\ Len(w) \in Nat /\ Len(v \o w) = Len(v) + Len(w) /\ Len(text) \in Nat
    BY <2>4, ConcatProperties, LenProperties
  <2>6. HasAt(text, m, v) /\ HasAt(text, m + Len(v), w)
    <3>1. HasAt(text, m, v \o w)
      BY <2>4
    <3> HIDE DEF v, w
    <3> QED BY <2>4, <2>5, <3>1, HasBoth
  <2>7. Good(y)
    <3> HIDE DEF Good
    <3> QED BY <1>2, <2>3, <2>6
  <2> DEFINE a == m + Len(v)
  <2>8. a \in Nat /\ E(y) = a /\ E(z) = a + Len(w)
    <3>1. E(y) = a /\ E(z) = m + Len(v \o w)
      BY <2>4
    <3> HIDE DEF v, w, E
    <3> QED BY <2>5, <3>1
  <2>9. HasAt(text, a, Escaped(c))
    BY <2>6
  <2> HIDE DEF a, v, E
  <2>12. \A L, u :
           /\ D[a] = Read(L, u, FALSE, a + 1) => D[E(z)] = Read(L, Append(u, c), FALSE, E(z) + 1)
           /\ D[a] = Read(L, u, TRUE, a + 1)
                => D[E(z)] = Read(Longer(L, u, c), u, TRUE, E(z) + 1)
    <3>1. E(z) = a + Len(Escaped(c))
      BY <2>8
    <3>2. \A N, L, u : N = a + Len(Escaped(c)) =>
           /\ D[a] = Read(L, u, FALSE, a + 1) => D[N] = Read(L, Append(u, c), FALSE, N + 1)
           /\ D[a] = Read(L, u, TRUE, a + 1)
                => D[N] = Read(Longer(L, u, c), u, TRUE, N + 1)
      <4>1. Adds(D, a, c)
        BY <2>8, <2>9, CharDecoded
      <4> QED BY <4>1, Zenon DEF Adds
    <3> QED BY <3>1, <3>2, Zenon
  <2>10. ASSUME D[m] = Read(M, << >>, FALSE, m + 1)
         PROVE  D[E(z)] = Read(M, z, FALSE, E(z) + 1)
    <3>1. D[a] = Read(M, y, FALSE, a + 1)
      BY <2>7, <2>8, <2>10
    <3> QED BY <2>2, <2>12, <3>1, Zenon
  <2>11. ASSUME D[m] = Read(Stored(M, t, << >>), t, TRUE, m + 1)
         PROVE  D[E(z)] = Read(Stored(M, t, z), t, TRUE, E(z) + 1)
    <3>1. D[a] = Read(Stored(M, t, y), t, TRUE, a + 1)
      BY <2>7, <2>8, <2>11
    <3> DEFINE N == Longer(Stored(M, t, y), t, c)
    <3>2. N = Stored(M, t, Append(y, c))
      BY DEF Stored, Longer
    <3>3. D[E(z)] = Read(N, t, TRUE, E(z) + 1)
      BY <2>12, <3>1, Zenon
    <3> QED BY <2>2, <3>2, <3>3
  <2> QED BY <2>10, <2>11
<1> HIDE DEF Good
<1>3. Len(x) \in Nat /\ \A i \in 0 .. Len(x) - 1 : i \in S => i + 1 \in S
  BY <1>2
<1> HIDE DEF S
<1>4. \A i \in 0 .. Len(x) : i \in S
  BY <1>1, <1>3, SetInduction
<1>5. Len(x) \in S
  BY <1>3, <1>4
<1>6. Good(x)
  BY <1>5 DEF S
<1>7. n = E(x)
  OBVIOUS
<1> HIDE DEF E
<1> QED BY <1>6, <1>7 DEF Good

Entries == Seq(STRING) \X Seq(STRING)

\* A pair is a name, "=" and a value.
LEMMA PairFacts ==
  ASSUME NEW e \in Entries
  PROVE  /\ EscapedText(e[1]) \in Seq(Chars) /\ EscapedText(e[2]) \in Seq(Chars)
         /\ Pair(e) = (EscapedText(e[1]) \o <<"=">>) \o EscapedText(e[2])
         /\ Pair(e) \in Seq(Chars) /\ <<"=">> \in Seq(Chars) /\ <<"&">> \in Seq(Chars)
<1>1. e[1] \in Seq(STRING) /\ e[2] \in Seq(STRING)
  BY DEF Entries
<1>2. \A y \in Seq(STRING) : EscapedText(y) \in Seq(Chars)
  <2> SUFFICES ASSUME NEW y \in Seq(STRING) PROVE EscapedText(y) \in Seq(Chars)
    OBVIOUS
  <2>1. CASE y = << >>
    BY <2>1, EscapedAppend, EmptySeq
  <2>2. CASE y # << >>
    <3>1. PICK z \in Seq(STRING), c \in STRING : y = Append(z, c)
      BY <2>2, SequenceEmptyOrAppend, Zenon
    <3>2. /\ EscapedText(z) \in Seq(Chars) /\ Escaped(c) \in Seq(Chars)
          /\ EscapedText(y) = EscapedText(z) \o Escaped(c)
      BY <3>1, EscapedAppend
    <3> QED BY <3>2, ConcatProperties
  <2> QED BY <2>1, <2>2
<1>3. <<"=">> \in Seq(Chars) /\ <<"&">> \in Seq(Chars)
  <2>1. "=" \in Chars /\ "&" \in Chars
    BY Zenon DEF Chars
  <2> QED BY <2>1, ShortTexts
<1>4. Pair(e) = (EscapedText(e[1]) \o <<"=">>) \o EscapedText(e[2])
  BY Zenon DEF Pair
<1>5. Pair(e) \in Seq(Chars)
  BY <1>1, <1>2, <1>3, <1>4, ConcatProperties
<1> QED BY <1>1, <1>2, <1>3, <1>4, <1>5

\* One more pair is written behind the query string.
LEMMA QueryStringAppend ==
  /\ QueryString(<< >>) = << >>
  /\ \A q \in Seq(Entries), e \in Entries :
       /\ QueryString(q) \in Seq(Chars)
       /\ QueryString(Append(q, e))
            = QueryString(q) \o (IF q = << >> THEN Pair(e) ELSE <<"&">> \o Pair(e))
<1> DEFINE T(s) == [i \in DOMAIN s |-> IF i = 1 THEN Pair(s[i]) ELSE <<"&">> \o Pair(s[i])]
           X == Seq(Chars)
<1>1. QueryString(<< >>) = << >>
  <2>1. T(<< >>) = << >>
    OBVIOUS
  <2>2. FlattenSeq(<< >>) = << >>
    BY DEF FlattenSeq
  <2> QED BY <2>1, <2>2, Zenon DEF QueryString
<1>2. \A e \in Entries : Pair(e) \in X /\ <<"&">> \o Pair(e) \in X
  BY PairFacts, ConcatProperties
<1>3. ASSUME NEW q \in Seq(Entries), NEW e \in Entries
      PROVE  /\ QueryString(q) \in Seq(Chars)
             /\ QueryString(Append(q, e))
                  = QueryString(q) \o (IF q = << >> THEN Pair(e) ELSE <<"&">> \o Pair(e))
  <2> DEFINE z == Append(q, e)
             w == IF q = << >> THEN Pair(e) ELSE <<"&">> \o Pair(e)
  <2>1. /\ z \in Seq(Entries) /\ Len(z) = Len(q) + 1 /\ Len(q) \in Nat /\ z[Len(q) + 1] = e
        /\ \A i \in 1 .. Len(q) : z[i] = q[i]
        /\ DOMAIN q = 1 .. Len(q) /\ DOMAIN z = 1 .. Len(z)
        /\ q = << >> <=> Len(q) + 1 = 1
    <3>1. z \in Seq(Entries) /\ Len(z) = Len(q) + 1 /\ z[Len(q) + 1] = e
      BY AppendProperties
    <3>2. \A i \in 1 .. Len(q) : z[i] = q[i]
      BY AppendProperties
    <3>3. Len(q) = 0 <=> q = << >>
      BY EmptySeq
    <3> HIDE DEF z
    <3> QED BY <3>1, <3>2, <3>3
  <2> HIDE DEF z
  <2>2. /\ \A i \in 1 .. Len(q) : q[i] \in Entries
        /\ \A i \in 1 .. Len(z) : z[i] \in Entries
    BY <2>1, ElementOfSeq
  <2>3. w \in X /\ \A i \in 1 .. Len(q) : i # 1 \/ i = 1
    BY <1>2
  <2> HIDE DEF X
  <2>4. T(q) \in [1 .. Len(q) -> X] /\ T(z) \in [1 .. Len(q) + 1 -> X]
    BY <1>2, <2>1, <2>2
  <2>5. (\A i \in 1 .. Len(q) : T(z)[i] = T(q)[i]) /\ T(z)[Len(q) + 1] = w
    <3>1. /\ \A i \in 1 .. Len(q) : i \in DOMAIN q /\ i \in DOMAIN z
          /\ Len(q) + 1 \in DOMAIN z
      BY <2>1
    <3> QED BY <2>1, <3>1, Zenon
  <2>6. QueryString(q) = FlattenSeq(T(q)) /\ QueryString(z) = FlattenSeq(T(z))
    BY Zenon DEF QueryString
  <2> HIDE DEF T, w
  <2>7. T(q) \in Seq(X) /\ Len(T(q)) = Len(q)
    BY <2>1, <2>4, TableIsSeq
  <2>8. T(z) = Append(T(q), w)
    BY <2>3, <2>4, <2>5, <2>7, IsAppended
  <2>9. FlattenSeq(T(q)) \in X /\ FlattenSeq(Append(T(q), w)) = FlattenSeq(T(q)) \o w
    BY <2>3, <2>7, FlattenAppend DEF X
  <2> QED BY <2>6, <2>8, <2>9 DEF z, X, w
<1> QED BY <1>1, <1>3

\* The effect of a pair behind m: it is read into the map.
Enters(D, m, e) ==
  \A M, n : n = m + Len(Pair(e)) /\ D[m] = Read(M, << >>, FALSE, m + 1) =>
    D[n] = Read(Stored(M, e[1], e[2]), e[1], TRUE, n + 1)

\* A pair is read into the map.
LEMMA PairDecoded ==
  ASSUME NEW X, NEW text \in Seq(X), NEW D, StepsOf(D, text), NEW m \in Nat,
         NEW e \in Entries, HasAt(text, m, Pair(e))
  PROVE  Enters(D, m, e)
<1> SUFFICES ASSUME NEW M, NEW n, n = m + Len(Pair(e)), D[m] = Read(M, << >>, FALSE, m + 1)
             PROVE  D[n] = Read(Stored(M, e[1], e[2]), e[1], TRUE, n + 1)
  BY Zenon DEF Enters
<1> DEFINE u == EscapedText(e[1])
           w == EscapedText(e[2])
<1>0. e[1] \in Seq(STRING) /\ e[2] \in Seq(STRING) /\ Len(text) \in Nat
  BY DEF Entries
<1>1. /\ u \in Seq(Chars) /\ w \in Seq(Chars) /\ <<"=">> \in Seq(Chars)
      /\ Pair(e) = (u \o <<"=">>) \o w
  BY PairFacts
<1>6. Puts(D, m, e[1])
  <2>1. u \o <<"=">> \in Seq(Chars)
    BY <1>1, ConcatProperties
  <2>2. HasAt(text, m, u \o <<"=">>)
    BY ZenonT(60), <1>0, <1>1, <2>1, HasBoth
  <2>3. HasAt(text, m, u)
    BY <1>0, <1>1, <2>2, HasBoth
  <2> QED BY <1>0, <2>3, TextDecoded
<1> HIDE DEF u, w
<1>2. /\ u \o <<"=">> \in Seq(Chars) /\ Len(u \o <<"=">>) = Len(u) + 1 /\ Len(u) \in Nat
      /\ Len(w) \in Nat /\ Len(Pair(e)) = (Len(u) + 1) + Len(w) /\ Len(<<"=">>) = 1
  <2>1. /\ u \o <<"=">> \in Seq(Chars) /\ Len(u \o <<"=">>) = Len(u) + Len(<<"=">>)
        /\ Len(u) \in Nat /\ Len(w) \in Nat
    BY <1>1, ConcatProperties
  <2>2. Len(Pair(e)) = Len(u \o <<"=">>) + Len(w)
    BY <1>1, <2>1, ConcatProperties
  <2>3. Len(<<"=">>) = 1
    OBVIOUS
  <2> QED BY <2>1, <2>2, <2>3
<1>3. PICK a \in Nat, b \in Nat :
        a = m + Len(u) /\ b = m + Len(Pair(e)) /\ b = (a + 1) + Len(w)
  BY <1>2
<1>4. HasAt(text, m, u \o <<"=">>) /\ HasAt(text, a + 1, w)
  <2>1. m + Len(u \o <<"=">>) = a + 1
    BY <1>2, <1>3
  <2>2. HasAt(text, m, (u \o <<"=">>) \o w)
    BY <1>1
  <2> QED BY <1>0, <1>1, <1>2, <2>1, <2>2, HasBoth
<1>5. HasAt(text, a, <<"=">>)
  BY <1>0, <1>1, <1>3, <1>4, HasBoth
<1>7. D[a] = Read(M, e[1], FALSE, a + 1)
  BY <1>3, <1>6, Zenon DEF Puts, u
<1>8. a + 1 <= Len(text) /\ text[a + 1] = "="
  BY <1>2, <1>5 DEF HasAt
<1>9. D[a + 1] = Read(Stored(M, e[1], << >>), e[1], TRUE, a + 2)
  <2>1. Separates(D, text, a)
    BY <1>8, SeparatorDecoded
  <2> QED BY <1>7, <1>8, <2>1, Zenon DEF Separates
<1>10. D[b] = Read(Stored(M, e[1], e[2]), e[1], TRUE, b + 1)
  <2>1. a + 1 \in Nat /\ (a + 1) + 1 = a + 2
    BY <1>3
  <2>2. HasAt(text, a + 1, EscapedText(e[2]))
    BY <1>4 DEF w
  <2>3. b = (a + 1) + Len(EscapedText(e[2]))
    BY <1>3 DEF w
  <2>4. D[a + 1] = Read(Stored(M, e[1], << >>), e[1], TRUE, (a + 1) + 1)
    BY <1>9, <2>1
  <2>5. Puts(D, a + 1, e[2])
    BY <1>0, <2>1, <2>2, TextDecoded
  <2> QED BY <2>3, <2>4, <2>5, Zenon DEF Puts
<1> QED BY <1>3, <1>10

\* What the loop has behind the query string of r.
After(q0, r) ==
  Read(QueryMeant(q0 \o r), IF r = << >> THEN << >> ELSE Last(r)[1], r # << >>,
       Len(QueryString(r)) + 1)

\* What is behind one more pair.
LEMMA AfterAppend ==
  ASSUME NEW q0 \in Seq(Entries), NEW r \in Seq(Entries), NEW e \in Entries
  PROVE  /\ Len(QueryString(r)) \in Nat
         /\ After(q0, Append(r, e))
              = Read(Stored(QueryMeant(q0 \o r), e[1], e[2]), e[1], TRUE,
                     Len(QueryString(Append(r, e))) + 1)
<1> DEFINE z == Append(r, e)
<1>1. Last(z) = e /\ z # << >> /\ z \in Seq(Entries)
  <2>1. z \in Seq(Entries) /\ Len(z) = Len(r) + 1 /\ z[Len(r) + 1] = e
    BY AppendProperties
  <2>2. Last(z) = z[Len(z)] /\ Len(<< >>) = 0 /\ Len(r) \in Nat
    BY DEF Last
  <2> HIDE DEF z
  <2> QED BY <2>1, <2>2
<1>2. q0 \o z = Append(q0 \o r, e)
  <2>1. \A s \in Seq(Entries) : Append(s, e) = s \o <<e>>
    BY AppendIsConcat
  <2>2. <<e>> \in Seq(Entries) /\ q0 \o r \in Seq(Entries)
    OBVIOUS
  <2>3. q0 \o (r \o <<e>>) = (q0 \o r) \o <<e>>
    BY <2>2, ConcatAssoc
  <2> QED BY <2>1, <2>2, <2>3
<1>3. q0 \o r \in Seq(Entries)
  OBVIOUS
<1>4. QueryMeant(Append(q0 \o r, e)) = Stored(QueryMeant(q0 \o r), e[1], e[2])
  BY <1>3, QueryAppend DEF Entries
<1>5. Len(QueryString(r)) \in Nat
  BY QueryStringAppend, LenProperties
<1> HIDE DEF z
<1>6. After(q0, z) = Read(Stored(QueryMeant(q0 \o r), e[1], e[2]), e[1], TRUE,
                          Len(QueryString(z)) + 1)
  BY <1>1, <1>2, <1>4, Zenon DEF After
<1> QED BY <1>5, <1>6 DEF z

\* AddURLEncoded() reads what the client meant, and leaves the last name.
THEOREM Decodes ==
  ASSUME NEW q0 \in Seq(Entries), NEW q \in Seq(Entries)
  PROVE  AddURLEncoded(QueryMeant(q0), QueryString(q)) = After(q0, q)
<1> DEFINE text == QueryString(q)
           L(r) == Len(QueryString(r))
<1>0. text \in Seq(Chars) /\ Len(text) \in Nat
  BY QueryStringAppend, LenProperties
<1>1. PICK D : /\ D[0] = [map |-> QueryMeant(q0), tmp |-> << >>, inValue |-> FALSE, next |-> 1]
               /\ \A i \in 1 .. Len(text) : D[i] = DecodeStep(D[i - 1], text, i)
               /\ AddURLEncoded(QueryMeant(q0), text) = D[Len(text)]
  <2> HIDE DEF text
  <2> QED BY <1>0, DecodeSteps
<1>2. StepsOf(D, text)
  BY <1>1, Zenon DEF StepsOf
<1> DEFINE S == {k \in 0 .. Len(q) : \A r \in Seq(Entries) :
                   Len(r) = k /\ HasAt(text, 0, QueryString(r)) => D[L(r)] = After(q0, r)}
<1> HIDE DEF text, L
<1>3. 0 \in S
  <2>1. \A r \in Seq(Entries) : Len(r) = 0 => r = << >>
    OBVIOUS
  <2>2. L(<< >>) = 0 /\ 0 \in 0 .. Len(q) /\ 0 + 1 = 1
    BY QueryStringAppend DEF L
  <2>3. q0 \o << >> = q0
    OBVIOUS
  <2>4. After(q0, << >>) = [map |-> QueryMeant(q0), tmp |-> << >>, inValue |-> FALSE, next |-> 1]
    <3>1. (<< >> # << >>) = FALSE
      OBVIOUS
    <3> QED BY <2>2, <2>3, <3>1, Zenon DEF After, Read, L
  <2>5. D[L(<< >>)] = After(q0, << >>)
    BY <1>1, <2>2, <2>4
  <2> QED BY <2>1, <2>2, <2>5
<1>4. ASSUME NEW k \in 0 .. Len(q) - 1, k \in S PROVE k + 1 \in S
  <2> SUFFICES ASSUME NEW z \in Seq(Entries), Len(z) = k + 1, HasAt(text, 0, QueryString(z))
               PROVE  D[L(z)] = After(q0, z)
    OBVIOUS
  <2>1. z # << >>
    OBVIOUS
  <2>2. PICK r \in Seq(Entries), e \in Entries : z = Append(r, e)
    BY <2>1, SequenceEmptyOrAppend, Zenon
  <2>3. Len(r) = k
    <3>1. Len(Append(r, e)) = Len(r) + 1 /\ Len(r) \in Nat
      BY AppendProperties
    <3> QED BY <2>2, <3>1
  <2> DEFINE u == QueryString(r)
             M == QueryMeant(q0 \o r)
  <2>4. u \in Seq(Chars) /\ Len(u) \in Nat /\ Pair(e) \in Seq(Chars) /\ <<"&">> \in Seq(Chars)
    BY QueryStringAppend, PairFacts, LenProperties
  <2>5. After(q0, z) = Read(Stored(M, e[1], e[2]), e[1], TRUE, L(z) + 1)
    BY <2>2, AfterAppend DEF L
  <2>6. \A m : m \in Nat /\ HasAt(text, m, Pair(e)) /\ D[m] = Read(M, << >>, FALSE, m + 1)
                 /\ L(z) = m + Len(Pair(e)) => D[L(z)] = After(q0, z)
    <3> SUFFICES ASSUME NEW m \in Nat, HasAt(text, m, Pair(e)), D[m] = Read(M, << >>, FALSE, m + 1),
                        L(z) = m + Len(Pair(e))
                 PROVE  D[L(z)] = After(q0, z)
      OBVIOUS
    <3>1. Enters(D, m, e)
      BY <1>0, <1>2, PairDecoded
    <3> QED BY <2>5, <3>1, Zenon DEF Enters
  <2>7. CASE r = << >>
    <3>1. QueryString(z) = << >> \o Pair(e) /\ << >> \o Pair(e) = Pair(e)
      <4>1. QueryString(z) = << >> \o Pair(e)
        BY <2>2, <2>7, QueryStringAppend
      <4>2. << >> \o Pair(e) = Pair(e)
        BY <2>4
      <4> QED BY <4>1, <4>2
    <3>2. HasAt(text, 0, Pair(e)) /\ L(z) = Len(Pair(e)) /\ Len(Pair(e)) \in Nat
      BY <2>4, <3>1 DEF L
    <3>3. D[0] = Read(M, << >>, FALSE, 0 + 1)
      <4>1. q0 \o r = q0 /\ 0 + 1 = 1
        BY <2>7
      <4> QED BY <1>1, <4>1, Zenon DEF Read
    <3>4. L(z) = 0 + Len(Pair(e)) /\ 0 \in Nat
      BY <3>2
    <3> QED BY <2>6, <3>2, <3>3, <3>4
  <2>8. CASE r # << >>
    <3> DEFINE a == Len(u)
               v == u \o <<"&">>
    <3>1. QueryString(z) = u \o (<<"&">> \o Pair(e)) 
      BY <2>2, <2>8, QueryStringAppend
    <3>2. /\ v \in Seq(Chars) /\ Len(v) = a + 1 /\ QueryString(z) = v \o Pair(e)
          /\ Len(v \o Pair(e)) = (a + 1) + Len(Pair(e))
      <4>1. v \in Seq(Chars) /\ Len(v) = a + Len(<<"&">>)
        BY <2>4, ConcatProperties
      <4>2. u \o (<<"&">> \o Pair(e)) = v \o Pair(e)
        <5>1. \A x, y, w \in Seq(Chars) : (x \o y) \o w = x \o (y \o w)
          BY SMTT(30)
        <5> HIDE DEF u
        <5> QED BY <2>4, <5>1, Zenon
      <4>3. Len(v \o Pair(e)) = Len(v) + Len(Pair(e))
        BY <2>4, <4>1, ConcatProperties
      <4>4. Len(<<"&">>) = 1
        OBVIOUS
      <4> QED BY <3>1, <4>1, <4>2, <4>3, <4>4
    <3> HIDE DEF v
    <3>3. HasAt(text, 0, v) /\ HasAt(text, a + 1, Pair(e))
      <4>1. 0 + Len(v) = a + 1
        BY <2>4, <3>2
      <4>2. HasAt(text, 0, v \o Pair(e))
        BY <3>2
      <4> QED BY <1>0, <2>4, <3>2, <4>1, <4>2, HasBoth
    <3>4. HasAt(text, 0, u) /\ HasAt(text, a, <<"&">>)
      <4>1. 0 + a = a
        BY <2>4
      <4>2. HasAt(text, 0, u \o <<"&">>)
        BY <3>3 DEF v
      <4> HIDE DEF u
      <4>3. HasAt(text, 0, u) /\ HasAt(text, 0 + Len(u), <<"&">>)
        BY <1>0, <2>4, <4>2, HasBoth
      <4> QED BY <4>1, <4>3
    <3>5. D[a] = After(q0, r)
      <4>1. r \in Seq(Entries) /\ Len(r) = k /\ HasAt(text, 0, QueryString(r)) /\ a = L(r)
        BY <2>3, <3>4 DEF L
      <4> QED BY <1>4, <4>1
    <3>6. D[a] = Read(M, Last(r)[1], TRUE, a + 1)
      <4>1. (r # << >>) = TRUE
        BY <2>8
      <4> QED BY <2>8, <3>5, <4>1, Zenon DEF After
    <3>7. a + 1 <= Len(text) /\ text[a + 1] = "&" /\ a \in Nat
      <4>1. Len(<<"&">>) = 1 /\ <<"&">>[1] = "&" /\ 1 \in 1 .. 1
        OBVIOUS
      <4>2. a + Len(<<"&">>) <= Len(text) /\ \A j \in 1 .. Len(<<"&">>) : text[a + j] = <<"&">>[j]
        BY <3>4, Zenon DEF HasAt
      <4> QED BY <2>4, <4>1, <4>2
    <3> HIDE DEF a, M
    <3>8. D[a + 1] = Read(M, << >>, FALSE, (a + 1) + 1)
      <4>1. Separates(D, text, a)
        BY <1>0, <1>2, <3>7, SeparatorDecoded
      <4>2. a + 2 = (a + 1) + 1
        BY <3>7
      <4> QED BY <3>6, <3>7, <4>1, <4>2, Zenon DEF Separates
    <3>9. L(z) = (a + 1) + Len(Pair(e)) /\ a + 1 \in Nat
      BY <3>2, <3>7 DEF L
    <3> QED BY <2>6, <3>3, <3>8, <3>9 DEF M
  <2> QED BY <2>7, <2>8
<1>5. Len(q) \in Nat /\ \A i \in 0 .. Len(q) - 1 : i \in S => i + 1 \in S
  BY SMTT(30), <1>4
<1>6. HasAt(text, 0, text)
  <2>1. \A j \in 1 .. Len(text) : 0 + j = j
    OBVIOUS
  <2>2. 0 + Len(text) <= Len(text)
    BY <1>0
  <2> QED BY <2>1, <2>2 DEF HasAt
<1> HIDE DEF S
<1>7. Len(q) \in S
  <2>1. \A i \in 0 .. Len(q) : i \in S
    BY <1>3, <1>5, SetInduction
  <2> QED BY <1>5, <2>1
<1>8. D[L(q)] = After(q0, q)
  <2>1. HasAt(text, 0, QueryString(q))
    BY <1>6 DEF text
  <2> QED BY <1>7, <2>1 DEF S
<1> QED BY <1>1, <1>8 DEF text, L

-----------------------------------------------------------------------------
(* Bodies, and the inductive invariant's parts.                            *)

\* The cells of a body from one offset to another.
Slice(b, from, to) == SubSeq(b, from + 1, to)

\* Where the boundaries of a body end: o[k] behind the one after part k.
Layout(b, ps, o) ==
  LET n == Len(ps) IN
  /\ b \in Seq(Symbols) /\ ps \in Seq(PartOf) /\ o \in [0 .. n -> Nat]
  /\ \E pre \in Preambles :
       o[0] = Len(pre) + 3 /\ HasAt(b, 0, pre \o <<"-", "-", "BOUNDARY">>)
  /\ \A k \in 1 .. n :
       o[k] = o[k - 1] + Len(Text(ps[k])) /\ HasAt(b, o[k - 1], Text(ps[k]))
  /\ Len(b) = o[n] + 4 /\ HasAt(b, o[n], <<"-", "-", "CR", "LF">>)
  /\ Len(b) <= Unlimited

\* How far the content is given to the part parser, with c cells matched.
Given(P, B, C, c) == IF P - c < B THEN P - c ELSE C
Pending(b, P, B, C, c, tmp) ==
  IF P - c < B THEN C = B /\ tmp = Slice(b, P - c, B) ELSE C <= P - c /\ tmp = << >>

\* The files of this request, newer than bf, are those that FileMap names.
Owned(FileMap, disk, created, bf) ==
  /\ bf \in 0 .. created /\ DOMAIN disk \subseteq 1 .. created
  /\ \A n \in DOMAIN FileMap : FileMap[n] \in DOMAIN disk /\ FileMap[n] > bf
  /\ \A m, n \in DOMAIN FileMap : FileMap[m] = FileMap[n] => m = n
  /\ \A f \in DOMAIN disk : f > bf => \E n \in DOMAIN FileMap : FileMap[n] = f

\* Parameters and files are those of the parts ps; g is what was given at most.
Base(p, q, bf, ps, g) ==
  /\ p \in Part
  /\ p.ParamMap = Meant(q, ps)
  /\ [n \in DOMAIN p.FileMap |-> p.disk[p.FileMap[n]]] = Contents(ps, TRUE)
  /\ Owned(p.FileMap, p.disk, p.created, bf)
  /\ p.limit = Unlimited /\ p.totalLimit = Unlimited
  /\ p.CurrFileSize = p.TotalFileSize /\ p.TotalFileSize <= g

\* The part parser in front of the first boundary.
Unnamed(headers) == \A i \in DOMAIN headers : headers[i] \notin HeaderLines
Idle(p, q, bf) ==
  Base(p, q, bf, << >>, 0) /\ p.state # "READ" /\ Unnamed(p.headers)

HeaderState == <<"HEADERSTART", "HEADERSTART", "HEADERS_END", "HEADERS_END",
                 "HEADERS_END", "HEADERS_END", "HEADERS_END">>
HeaderCounter == <<0, 1, 0, 0, 1, 2, 3>>

\* It has got g cells of part k.
Cut(pt, m) == [pt EXCEPT !.data = SubSeq(@, 1, m)]
InPart(p, q, bf, b, ps, s, k, g) ==
  LET done == SubSeq(ps, 1, k - 1) IN
  IF g < 7
    THEN /\ Base(p, q, bf, done, s + g)
         /\ p.state = HeaderState[g + 1] /\ p.counter = HeaderCounter[g + 1]
         /\ p.headers = Slice(b, s + 2, s + g)
    ELSE /\ Base(p, q, bf, Append(done, Cut(ps[k], g - 7)), s + g)
         /\ p.state = "READ" /\ p.target = ps[k].name /\ p.isFile = ps[k].file
         /\ p.isFile => ps[k].name \in DOMAIN p.FileMap /\ p.CurrFileS = p.FileMap[ps[k].name]

\* It has got g cells of what follows the last boundary, which ends at s.
InClosing(p, q, bf, ps, s, g) ==
  /\ Base(p, q, bf, ps, s + g)
  /\ IF g < 2 THEN p.state = "HEADERSTART" /\ p.counter = g
              ELSE p.state = "FINISHED" /\ p.CurrFileS = 0

\* The boundary in front of the first part: in the beginning two characters of
\* BoundaryStr count as matched.
LastName(q) == IF q = << >> THEN << >> ELSE Last(q)[1]
AtStart(b, q, bf, o, P, B, C, c, tmp, p) ==
  /\ c = P + 2 /\ P < 3 /\ (o[0] = 6 => P = 0) /\ C = B
  /\ tmp = LastName(q) \o Slice(b, 0, B)
  /\ Idle(p, q, bf)
InPreamble(b, q, bf, o, P, B, C, c, tmp, p) ==
  /\ o[0] = 6 /\ P < 6 /\ c = (IF P = 0 THEN 0 ELSE P - 1)
  /\ Pending(b, P, B, C, c, tmp) /\ Idle(p, q, bf)

\* Behind the boundary that ends at s: c cells are matched, and no more could be.
Matching(b, s, P, c) ==
  /\ s <= P /\ c \in 0 .. 4 /\ c <= P - s
  /\ \A i \in 1 .. c : b[P - c + i] = BoundaryStr[i]
  /\ \A j \in 1 .. 4 :
       (P - j >= s /\ P < Len(b) /\ \A i \in 1 .. j + 1 : b[P - j + i] = BoundaryStr[i]) => c = j
\* The end of the header line, which looks like the beginning of a boundary, cuts.
HeaderPlace(s, P, c, given) ==
  /\ P - s = 5 => c = 2 \/ (c = 0 /\ given = s + 5)
  /\ P - s > 5 => given >= s + 5
Behind(b, ps, q, bf, o, k, P, B, C, c, tmp, p) ==
  LET s == o[k - 1]
      given == Given(P, B, C, c)
  IN /\ Matching(b, s, P, c) /\ s <= C /\ Pending(b, P, B, C, c, tmp) /\ s <= given
     /\ k <= Len(ps) => /\ P < o[k] /\ HeaderPlace(s, P, c, given)
                        /\ InPart(p, q, bf, b, ps, s, k, given - s)
     /\ k > Len(ps) => InClosing(p, q, bf, ps, s, given - s)

Scanned(b, ps, q, bf, o, P, B, C, c, tmp, p) ==
  \/ AtStart(b, q, bf, o, P, B, C, c, tmp, p)
  \/ InPreamble(b, q, bf, o, P, B, C, c, tmp, p)
  \/ \E k \in 1 .. Len(ps) + 1 : Behind(b, ps, q, bf, o, k, P, B, C, c, tmp, p)

\* No multipart body is read: the state is that of a new QueryParams, or has what
\* the query string meant.
Resting(q, bf, P, B, C, c, tmp, p, r) ==
  /\ B = 0 /\ P = 0 /\ C = 0 /\ c = 2
  /\ tmp = << >> \/ (q # << >> /\ tmp = Last(q)[1])
  /\ p \in Part /\ p.state # "READ"
  /\ \/ Base(p, q, bf, << >>, 0)
     \/ r = 0 /\ p.disk = << >> /\ bf = 0

Line(pt) == IF pt.file THEN FileHeader(pt.name) ELSE StringHeader(pt.name)

\* The cells of two sequences of known length.
Joins(s, X, a, m, b, n) ==
  /\ s \in Seq(X) /\ Len(s) = m + n
  /\ \A i \in 1 .. m + n : s[i] = IF i <= m THEN a[i] ELSE b[i - m]

\* Two sequences of known length are joined.
LEMMA Joined ==
  ASSUME NEW X, NEW a \in Seq(X), NEW b \in Seq(X), NEW m \in Nat, NEW n \in Nat,
         Len(a) = m, Len(b) = n
  PROVE  Joins(a \o b, X, a, m, b, n)
<1>1. /\ a \o b \in Seq(X) /\ Len(a \o b) = Len(a) + Len(b)
      /\ \A i \in 1 .. Len(a) + Len(b) :
           (a \o b)[i] = IF i <= Len(a) THEN a[i] ELSE b[i - Len(a)]
  BY ConcatProperties
<1> QED BY <1>1, Zenon DEF Joins

\* The cells of a part.
LEMMA TextFacts ==
  ASSUME NEW pt \in PartOf
  PROVE  /\ Text(pt) \in Seq(Symbols) /\ Len(Text(pt)) = 12 + Len(pt.data)
         /\ Len(pt.data) \in Nat /\ pt.data \in Seq(Symbols)
         /\ Line(pt) \in HeaderLines /\ Line(pt) \in Symbols
         /\ Text(pt)[1] = "CR" /\ Text(pt)[2] = "LF" /\ Text(pt)[3] = Line(pt)
         /\ Text(pt)[4] = "CR" /\ Text(pt)[5] = "LF" /\ Text(pt)[6] = "CR" /\ Text(pt)[7] = "LF"
         /\ \A j \in 1 .. Len(pt.data) : Text(pt)[7 + j] = pt.data[j]
         /\ \A i \in 1 .. 5 : Text(pt)[(7 + Len(pt.data)) + i] = BoundaryStr[i]
<1> DEFINE d == pt.data
           h == <<"CR", "LF", Line(pt)>>
           e == <<"CR", "LF", "CR", "LF">>
<1>1. d \in Seq(Symbols) /\ Len(d) \in Nat
  BY QueryAssumption DEF PartOf
<1>2. Line(pt) \in HeaderLines /\ Line(pt) \in Symbols
  <2>1. pt.file \in BOOLEAN /\ pt.name \in Names
    BY DEF PartOf
  <2>2. Line(pt) \in HeaderLines
    BY <2>1 DEF Line, HeaderLines
  <2> QED BY <2>2 DEF Symbols
<1>3. "CR" \in Symbols /\ "LF" \in Symbols /\ "-" \in Symbols /\ "BOUNDARY" \in Symbols
  BY DEF Symbols
<1>4. Text(pt) = ((h \o e) \o d) \o BoundaryStr
  BY Zenon DEF Text, Line, HeadersEnd
<1> DEFINE l == Line(pt)
           Y == Symbols
<1> HIDE DEF d, l, Y
<1>5. h \in Seq(Y) /\ e \in Seq(Y) /\ BoundaryStr \in Seq(Y)
  <2>1. "CR" \in Y /\ "LF" \in Y /\ "-" \in Y /\ "BOUNDARY" \in Y /\ l \in Y
    BY <1>2, <1>3 DEF Y, l
  <2>2. \A t : t \in Y => <<"CR", "LF", t>> \in Seq(Y)
    BY <2>1
  <2>3. e \in Seq(Y) 
    BY <2>1
  <2>4. BoundaryStr \in Seq(Y)
    BY <2>1 DEF BoundaryStr
  <2> QED BY <2>1, <2>2, <2>3, <2>4 DEF l
<1>6. /\ Len(h) = 3 /\ h[1] = "CR" /\ h[2] = "LF" /\ h[3] = l
      /\ Len(e) = 4 /\ e[1] = "CR" /\ e[2] = "LF" /\ e[3] = "CR" /\ e[4] = "LF"
      /\ Len(BoundaryStr) = 5
  BY DEF BoundaryStr, l
<1> HIDE DEF h, e
<1>7. /\ h \o e \in Seq(Y) /\ Len(h \o e) = 7
      /\ \A i \in 1 .. 7 : (h \o e)[i] = IF i <= 3 THEN h[i] ELSE e[i - 3]
  <2>1. Joins(h \o e, Y, h, 3, e, 4)
    BY <1>5, <1>6, Joined
  <2> QED BY SMTT(30), <2>1 DEF Joins
<1> DEFINE a == h \o e
<1> HIDE DEF a
<1>8. d \in Seq(Y) /\ Len(d) \in Nat
  BY <1>1 DEF Y, d
<1>9. /\ a \o d \in Seq(Y) /\ Len(a \o d) = 7 + Len(d)
      /\ \A i \in 1 .. 7 + Len(d) : (a \o d)[i] = IF i <= 7 THEN a[i] ELSE d[i - 7]
  BY SMTT(30), <1>7, <1>8, ConcatProperties DEF a
<1> DEFINE t == a \o d
<1> HIDE DEF t
<1>10. /\ t \o BoundaryStr \in Seq(Y) /\ Len(t \o BoundaryStr) = (7 + Len(d)) + 5
       /\ \A i \in 1 .. (7 + Len(d)) + 5 :
            (t \o BoundaryStr)[i] = IF i <= 7 + Len(d) THEN t[i] ELSE BoundaryStr[i - (7 + Len(d))]
  <2>1. t \in Seq(Y) /\ Len(t) = 7 + Len(d) /\ 7 + Len(d) \in Nat /\ 5 \in Nat
    BY <1>8, <1>9 DEF t
  <2>2. Joins(t \o BoundaryStr, Y, t, 7 + Len(d), BoundaryStr, 5)
    BY <1>5, <1>6, <2>1, Joined
  <2> QED BY <2>2, Zenon DEF Joins
<1>11. Text(pt) = t \o BoundaryStr
  BY <1>4 DEF t, a, d
<1> DEFINE T == Text(pt)
<1> HIDE DEF T
<1>12. /\ T \in Seq(Y) /\ Len(T) = (7 + Len(d)) + 5
       /\ \A i \in 1 .. (7 + Len(d)) + 5 :
            T[i] = IF i <= 7 + Len(d) THEN t[i] ELSE BoundaryStr[i - (7 + Len(d))]
  BY <1>10, <1>11 DEF T
<1>13. \A i \in 1 .. 7 : T[i] = IF i <= 3 THEN h[i] ELSE e[i - 3]
  <2> SUFFICES ASSUME NEW i \in 1 .. 7 PROVE T[i] = IF i <= 3 THEN h[i] ELSE e[i - 3]
    OBVIOUS
  <2>1. i \in 1 .. (7 + Len(d)) + 5 /\ i <= 7 + Len(d) /\ i \in 1 .. 7 + Len(d)
    BY <1>8
  <2>2. T[i] = t[i] /\ t[i] = a[i]
    BY <1>9, <1>12, <2>1 DEF t
  <2> QED BY <1>7, <2>2 DEF a
<1>14. /\ T[1] = h[1] /\ T[2] = h[2] /\ T[3] = h[3]
       /\ T[4] = e[1] /\ T[5] = e[2] /\ T[6] = e[3] /\ T[7] = e[4]
  BY <1>13
<1>15. \A j \in 1 .. Len(d) : T[7 + j] = d[j]
  <2> SUFFICES ASSUME NEW j \in 1 .. Len(d) PROVE T[7 + j] = d[j]
    OBVIOUS
  <2>1. /\ 7 + j \in 1 .. (7 + Len(d)) + 5 /\ 7 + j <= 7 + Len(d) /\ 7 + j \in 1 .. 7 + Len(d)
        /\ ~(7 + j <= 7) /\ (7 + j) - 7 = j
    BY <1>8
  <2>2. T[7 + j] = t[7 + j] /\ t[7 + j] = d[(7 + j) - 7]
    BY <1>9, <1>12, <2>1 DEF t
  <2> QED BY <2>1, <2>2
<1>16. \A i \in 1 .. 5 : T[(7 + Len(d)) + i] = BoundaryStr[i]
  <2> SUFFICES ASSUME NEW i \in 1 .. 5 PROVE T[(7 + Len(d)) + i] = BoundaryStr[i]
    OBVIOUS
  <2>1. /\ (7 + Len(d)) + i \in 1 .. (7 + Len(d)) + 5 /\ ~((7 + Len(d)) + i <= 7 + Len(d))
        /\ ((7 + Len(d)) + i) - (7 + Len(d)) = i
    BY <1>8
  <2> QED BY <1>12, <2>1
<1>17. Len(T) = 12 + Len(d)
  BY <1>8, <1>12
<1> QED BY <1>1, <1>2, <1>6, <1>12, <1>14, <1>15, <1>16, <1>17 DEF d, T, Y, l

\* A text is at the beginning of itself, and of what goes on behind it.
LEMMA HasItself ==
  ASSUME NEW X, NEW a \in Seq(X)
  PROVE  HasAt(a, 0, a)
<1>1. 0 + Len(a) <= Len(a) /\ \A j \in 1 .. Len(a) : 0 + j = j
  OBVIOUS
<1> QED BY <1>1 DEF HasAt

\* The blocks of a body: the first boundary and the parts.
FirstBoundary(pre) == pre \o <<"-", "-", "BOUNDARY">>
Parts(ps, k) == FlattenSeq([i \in 1 .. k |-> Text(ps[i])])

\* What may be in front of the first boundary.
LEMMA PreambleFacts ==
  ASSUME NEW pre \in Preambles
  PROVE  /\ pre \in Seq(Symbols) /\ Len(pre) \in {0, 3}
         /\ pre = << >> \/ pre = <<"x", "CR", "LF">>
         /\ FirstBoundary(pre) \in Seq(Symbols) /\ Len(FirstBoundary(pre)) = Len(pre) + 3
         /\ <<"-", "-", "CR", "LF">> \in Seq(Symbols)
         /\ Tail(Tail(BoundaryStr)) = <<"-", "-", "BOUNDARY">>
<1> DEFINE Y == Symbols
<1>1. "x" \in Y /\ "CR" \in Y /\ "LF" \in Y /\ "-" \in Y /\ "BOUNDARY" \in Y
  BY DEF Symbols
<1>2. pre = << >> \/ pre = <<"x", "CR", "LF">>
  BY DEF Preambles
<1> HIDE DEF Y
<1>3. <<"x", "CR", "LF">> \in Seq(Y) /\ << >> \in Seq(Y) /\ <<"-", "-", "BOUNDARY">> \in Seq(Y)
  BY <1>1
<1>4. <<"-", "-", "CR", "LF">> \in Seq(Y)
  BY <1>1
<1>5. Len(<<"x", "CR", "LF">>) = 3 /\ Len(<< >>) = 0 /\ Len(<<"-", "-", "BOUNDARY">>) = 3
  OBVIOUS
<1>6. Tail(Tail(BoundaryStr)) = <<"-", "-", "BOUNDARY">>
  BY DEF BoundaryStr
<1>7. pre \in Seq(Y) /\ Len(pre) \in {0, 3}
  BY <1>2, <1>3, <1>5
<1>8. Joins(FirstBoundary(pre), Y, pre, Len(pre), <<"-", "-", "BOUNDARY">>, 3)
  <2>1. Len(pre) \in Nat /\ 3 \in Nat
    BY <1>7
  <2> QED BY <1>3, <1>5, <1>7, <2>1, Joined, Zenon DEF FirstBoundary
<1> QED BY <1>2, <1>4, <1>6, <1>7, <1>8 DEF Y, Joins

\* The parts so far, and one more.
LEMMA PartsGrow ==
  ASSUME NEW n \in Nat, NEW ps \in [1 .. n -> PartOf], NEW k \in 0 .. n
  PROVE  /\ Parts(ps, k) \in Seq(Symbols) /\ Parts(ps, 0) = << >>
         /\ k < n => Parts(ps, k + 1) = Parts(ps, k) \o Text(ps[k + 1])
<1> DEFINE T(j) == [i \in 1 .. j |-> Text(ps[i])]
           X == Seq(Symbols)
<1>1. \A i \in 1 .. n : Text(ps[i]) \in X
  BY TextFacts
<1> HIDE DEF X
<1>2. T(k) \in [1 .. k -> X] /\ k \in Nat
  BY <1>1
<1>3. T(k) \in Seq(X) /\ Len(T(k)) = k
  BY <1>2, TableIsSeq
<1>4. Parts(ps, 0) = << >>
  <2>1. T(0) = << >>
    OBVIOUS
  <2>2. FlattenSeq(<< >>) = << >>
    BY DEF FlattenSeq
  <2> QED BY <2>1, <2>2, Zenon DEF Parts
<1>5. CASE k < n
  <2> DEFINE w == Text(ps[k + 1])
  <2>1. w \in X /\ T(k + 1) \in [1 .. k + 1 -> X] /\ T(k + 1)[k + 1] = w
        /\ \A i \in 1 .. k : T(k + 1)[i] = T(k)[i]
    BY <1>1, <1>2, <1>5
  <2>2. Parts(ps, k) = FlattenSeq(T(k)) /\ Parts(ps, k + 1) = FlattenSeq(T(k + 1))
    BY Zenon DEF Parts
  <2> HIDE DEF T, w
  <2>3. T(k + 1) = Append(T(k), w)
    BY <1>3, <2>1, IsAppended
  <2>4. FlattenSeq(T(k)) \in X /\ FlattenSeq(Append(T(k), w)) = FlattenSeq(T(k)) \o w
    BY <1>3, <2>1, FlattenAppend DEF X
  <2> QED BY <1>4, <2>2, <2>3, <2>4 DEF w, X
<1>6. CASE ~(k < n)
  <2>1. CASE k = 0
    BY <1>4, <1>6, <2>1, EmptySeq
  <2>2. CASE k # 0
    <3> DEFINE j == k - 1
               w == Text(ps[k])
    <3>1. j \in Nat /\ j + 1 = k /\ w \in X /\ T(j) \in [1 .. j -> X] /\ T(k)[k] = w
          /\ \A i \in 1 .. j : T(k)[i] = T(j)[i]
      BY <1>1, <1>2, <2>2
    <3>2. Parts(ps, k) = FlattenSeq(T(k))
      BY Zenon DEF Parts
    <3> HIDE DEF T, w, j
    <3>3. T(j) \in Seq(X) /\ Len(T(j)) = j
      BY <3>1, TableIsSeq
    <3>4. T(k) = Append(T(j), w)
      BY <1>2, <3>1, <3>3, IsAppended
    <3>5. FlattenSeq(T(j)) \in X /\ FlattenSeq(Append(T(j), w)) = FlattenSeq(T(j)) \o w
      BY <3>1, <3>3, FlattenAppend DEF X
    <3> QED BY <1>4, <1>6, <3>1, <3>2, <3>4, <3>5, ConcatProperties DEF X
  <2> QED BY <2>1, <2>2
<1> QED BY <1>5, <1>6

\* Concatenation of bodies is associative.
LEMMA SymbolsAssoc == \A a, b, c \in Seq(Symbols) : (a \o b) \o c = a \o (b \o c)
OBVIOUS

\* Every body has a layout.
LEMMA LayoutExists ==
  ASSUME NEW n \in 0 .. MaxParts, NEW ps \in [1 .. n -> PartOf], NEW pre \in Preambles
  PROVE  \E o : Layout(Body(pre, ps), ps, o)
<1> DEFINE b == Body(pre, ps)
           F == FirstBoundary(pre)
           tl == <<"-", "-", "CR", "LF">>
           G(k) == F \o Parts(ps, k)
           o == [k \in 0 .. n |-> Len(G(k))]
           Y == Symbols
<1>1. n \in Nat /\ ps \in Seq(PartOf) /\ Len(ps) = n /\ DOMAIN ps = 1 .. n
  <2>1. n \in Nat
    BY QueryAssumption
  <2> QED BY <2>1, TableIsSeq
<1>2. /\ F \in Seq(Y) /\ Len(F) = Len(pre) + 3 /\ tl \in Seq(Y) /\ Len(tl) = 4
      /\ \A k \in 0 .. n : Parts(ps, k) \in Seq(Y)
      /\ \A k \in 0 .. n : k < n => Parts(ps, k + 1) = Parts(ps, k) \o Text(ps[k + 1])
      /\ Parts(ps, 0) = << >>
      /\ \A k \in 1 .. n : Text(ps[k]) \in Seq(Y) /\ Len(Text(ps[k])) \in Nat
  <2>1. F \in Seq(Y) /\ Len(F) = Len(pre) + 3 /\ tl \in Seq(Y)
    BY PreambleFacts
  <2>2. ASSUME NEW k \in 0 .. n
        PROVE  /\ Parts(ps, k) \in Seq(Y) /\ Parts(ps, 0) = << >>
               /\ k < n => Parts(ps, k + 1) = Parts(ps, k) \o Text(ps[k + 1])
    BY <1>1, PartsGrow
  <2>3. ASSUME NEW k \in 1 .. n PROVE Text(ps[k]) \in Seq(Y) /\ Len(Text(ps[k])) \in Nat
    BY TextFacts, LenProperties
  <2>4. 0 \in 0 .. n /\ Len(tl) = 4
    BY <1>1
  <2> HIDE DEF F, tl, Y
  <2> QED BY <2>1, <2>2, <2>3, <2>4
<1>3. b = G(n) \o tl
  <2>1. Parts(ps, n) = FlattenSeq([i \in DOMAIN ps |-> Text(ps[i])])
    BY <1>1, Zenon DEF Parts
  <2>2. F = pre \o Tail(Tail(BoundaryStr))
    BY PreambleFacts, Zenon DEF FirstBoundary
  <2> QED BY <2>1, <2>2, Zenon DEF Body
<1> HIDE DEF b, F, tl
<1>4. ASSUME NEW k \in 0 .. n PROVE G(k) \in Seq(Y) /\ Len(G(k)) \in Nat
  BY <1>2, ConcatProperties, LenProperties
<1>5. ASSUME NEW k \in 0 .. n, k < n
      PROVE  /\ G(k + 1) = G(k) \o Text(ps[k + 1])
             /\ Len(G(k + 1)) = Len(G(k)) + Len(Text(ps[k + 1]))
  <2>1. k + 1 \in 1 .. n
    BY <1>1, <1>5
  <2>2. (F \o Parts(ps, k)) \o Text(ps[k + 1]) = F \o (Parts(ps, k) \o Text(ps[k + 1]))
    BY <1>2, <2>1, SymbolsAssoc, Zenon
  <2>3. G(k + 1) = G(k) \o Text(ps[k + 1])
    BY <1>2, <1>5, <2>2, Zenon
  <2> HIDE DEF G
  <2> QED BY ZenonT(60), <1>2, <1>4, <2>1, <2>3, ConcatProperties
<1>6. G(0) = F
  BY <1>2
<1> HIDE DEF G
<1>7. b \in Seq(Y) /\ Len(b) = Len(G(n)) + 4 /\ Len(b) \in Nat
  <2>1. n \in 0 .. n
    BY <1>1
  <2>2. G(n) \in Seq(Y) /\ Len(G(n)) \in Nat
    BY <1>4, <2>1
  <2>3. Joins(G(n) \o tl, Y, G(n), Len(G(n)), tl, 4)
    BY <1>2, <2>2, Joined
  <2> QED BY <1>3, <2>2, <2>3 DEF Joins
<1>8. HasAt(b, 0, G(n)) /\ HasAt(b, Len(G(n)), tl)
  <2>1. HasAt(b, 0, G(n) \o tl)
    BY <1>3, <1>7, HasItself
  <2>2. n \in 0 .. n
    BY <1>1
  <2>3. HasAt(b, 0, G(n)) /\ HasAt(b, 0 + Len(G(n)), tl)
    BY <1>2, <1>4, <1>7, <2>1, <2>2, HasBoth
  <2> QED BY <1>4, <2>2, <2>3
<1> DEFINE S == {j \in 0 .. n : HasAt(b, 0, G(n - j))}
<1>9. 0 \in S
  <2>1. n - 0 = n /\ 0 \in 0 .. n
    BY <1>1
  <2> QED BY <1>8, <2>1
<1>10. ASSUME NEW k \in 0 .. n, k < n, HasAt(b, 0, G(k + 1))
       PROVE  HasAt(b, 0, G(k)) /\ HasAt(b, Len(G(k)), Text(ps[k + 1]))
  <2>1. k + 1 \in 1 .. n
    BY <1>1, <1>10
  <2>2. HasAt(b, 0, G(k) \o Text(ps[k + 1]))
    BY <1>5, <1>10
  <2>3. HasAt(b, 0, G(k)) /\ HasAt(b, 0 + Len(G(k)), Text(ps[k + 1]))
    BY <1>2, <1>4, <1>7, <2>1, <2>2, HasBoth
  <2> QED BY <1>4, <2>3
<1>11. ASSUME NEW j \in 0 .. n - 1, j \in S PROVE j + 1 \in S
  <2>1. n - (j + 1) \in 0 .. n /\ n - (j + 1) < n /\ (n - (j + 1)) + 1 = n - j /\ j + 1 \in 0 .. n
    BY <1>1
  <2>2. HasAt(b, 0, G(n - j))
    BY <1>11
  <2>3. HasAt(b, 0, G(n - (j + 1)))
    BY <1>10, <2>1, <2>2
  <2> QED BY <2>1, <2>3
<1>12. \A k \in 0 .. n : HasAt(b, 0, G(k))
  <2> SUFFICES ASSUME NEW k \in 0 .. n PROVE HasAt(b, 0, G(k))
    OBVIOUS
  <2>1. n - k \in 0 .. n /\ n - (n - k) = k
    BY <1>1
  <2>2. \A j \in 0 .. n - 1 : j \in S => j + 1 \in S
    BY <1>11
  <2> HIDE DEF S
  <2>3. n - k \in S
    BY <1>1, <1>9, <2>1, <2>2, SetInduction
  <2>4. HasAt(b, 0, G(n - (n - k)))
    BY <2>3 DEF S
  <2> QED BY <2>1, <2>4
<1> HIDE DEF S
<1>13. /\ o \in [0 .. n -> Nat] /\ o[0] = Len(pre) + 3 /\ Len(b) = o[n] + 4
       /\ HasAt(b, o[n], tl) /\ HasAt(b, 0, F)
  <2>1. 0 \in 0 .. n /\ n \in 0 .. n
    BY <1>1
  <2>2. o \in [0 .. n -> Nat]
    BY <1>4
  <2>3. o[0] = Len(G(0)) /\ o[n] = Len(G(n))
    BY <2>1
  <2> HIDE DEF o
  <2> QED BY <1>2, <1>6, <1>7, <1>8, <1>12, <2>1, <2>2, <2>3
<1>14. ASSUME NEW k \in 1 .. n
       PROVE  o[k] = o[k - 1] + Len(Text(ps[k])) /\ HasAt(b, o[k - 1], Text(ps[k]))
  <2>1. PICK j \in 0 .. n : j = k - 1
    BY <1>1
  <2>2. j < n /\ j + 1 = k /\ k \in 0 .. n
    BY <1>1, <2>1
  <2>3. o[j] = Len(G(j)) /\ o[k] = Len(G(k))
    BY <2>2
  <2>4. HasAt(b, 0, G(j + 1))
    BY <1>12, <2>2
  <2>5. HasAt(b, Len(G(j)), Text(ps[j + 1]))
    BY <1>10, <2>2, <2>4
  <2>6. Len(G(j + 1)) = Len(G(j)) + Len(Text(ps[j + 1]))
    BY <1>5, <2>2
  <2> HIDE DEF o
  <2> QED BY <2>1, <2>2, <2>3, <2>5, <2>6
<1>15. Len(b) <= Unlimited
  BY SizeAssumption, Zenon DEF b
<1> HIDE DEF o
<1>16. /\ b \in Seq(Symbols) /\ ps \in Seq(PartOf) /\ o \in [0 .. Len(ps) -> Nat]
       /\ o[0] = Len(pre) + 3 /\ HasAt(b, 0, pre \o <<"-", "-", "BOUNDARY">>)
       /\ \A k \in 1 .. Len(ps) :
            o[k] = o[k - 1] + Len(Text(ps[k])) /\ HasAt(b, o[k - 1], Text(ps[k]))
       /\ Len(b) = o[Len(ps)] + 4 /\ HasAt(b, o[Len(ps)], <<"-", "-", "CR", "LF">>)
  <2>1. HasAt(b, 0, pre \o <<"-", "-", "BOUNDARY">>)
    BY <1>13, Zenon DEF F, FirstBoundary
  <2>2. HasAt(b, o[Len(ps)], <<"-", "-", "CR", "LF">>)
    BY <1>1, <1>13, Zenon DEF tl
  <2> QED BY <1>1, <1>7, <1>13, <1>14, <2>1, <2>2, Zenon
<1>17. Layout(b, ps, o)
  BY <1>15, <1>16, Zenon DEF Layout
<1> QED BY <1>17 DEF b

\* The cells of a part between two boundaries, which end at s and at e.
PartCells(b, s, e, pt) ==
  /\ s \in Nat /\ e \in Nat /\ e = s + 12 + Len(pt.data) /\ e <= Len(b)
  /\ b[s + 1] = "CR" /\ b[s + 2] = "LF" /\ b[s + 3] = Line(pt)
  /\ b[s + 4] = "CR" /\ b[s + 5] = "LF" /\ b[s + 6] = "CR" /\ b[s + 7] = "LF"
  /\ \A j \in 1 .. Len(pt.data) : b[s + 7 + j] = pt.data[j]
  /\ \A i \in 1 .. 5 : b[e - 5 + i] = BoundaryStr[i]
  /\ \A i \in s + 1 .. e : b[i] = "BOUNDARY" => i = e

\* What are not header lines.
LEMMA OrdinaryCells ==
  \A c \in {"CR", "LF", "-", "BOUNDARY", "x"} : c \notin HeaderLines
BY HeaderAssumption

\* A layout has these cells.
LEMMA LayoutPart ==
  ASSUME NEW b, NEW ps, NEW o, Layout(b, ps, o), NEW k \in 1 .. Len(ps)
  PROVE  PartCells(b, o[k - 1], o[k], ps[k])
<1>1. /\ ps \in Seq(PartOf) /\ o \in [0 .. Len(ps) -> Nat]
      /\ o[k] = o[k - 1] + Len(Text(ps[k])) /\ HasAt(b, o[k - 1], Text(ps[k]))
      /\ b \in Seq(Symbols)
  BY Zenon DEF Layout
<1>2. PICK s \in Nat, e \in Nat : s = o[k - 1] /\ e = o[k]
  <2>1. k - 1 \in 0 .. Len(ps) /\ k \in 0 .. Len(ps)
    BY <1>1
  <2> QED BY <1>1, <2>1
<1>3. ps[k] \in PartOf
  BY <1>1
<1> DEFINE pt == ps[k]
           t == Text(ps[k])
           l == Len(pt.data)
<1>4. /\ Len(t) = 12 + l /\ l \in Nat /\ pt.data \in Seq(Symbols) /\ Line(pt) \in HeaderLines
      /\ t[1] = "CR" /\ t[2] = "LF" /\ t[3] = Line(pt)
      /\ t[4] = "CR" /\ t[5] = "LF" /\ t[6] = "CR" /\ t[7] = "LF"
      /\ \A j \in 1 .. l : t[7 + j] = pt.data[j]
      /\ \A i \in 1 .. 5 : t[(7 + l) + i] = BoundaryStr[i]
  BY <1>3, TextFacts
<1>5. \A j \in 1 .. l : pt.data[j] # "BOUNDARY"
  <2>1. pt.data \in Data
    BY <1>3 DEF PartOf
  <2> QED BY <2>1, QueryAssumption
<1> HIDE DEF t, l
<1>12. l \in Nat
  BY <1>4
<1>6. e = s + (12 + l) /\ e <= Len(b) /\ \A j \in 1 .. 12 + l : b[s + j] = t[j]
  BY <1>1, <1>2, <1>4 DEF HasAt, t
<1>7. /\ b[s + 1] = "CR" /\ b[s + 2] = "LF" /\ b[s + 3] = Line(pt)
      /\ b[s + 4] = "CR" /\ b[s + 5] = "LF" /\ b[s + 6] = "CR" /\ b[s + 7] = "LF"
  <2>1. \A j \in 1 .. 7 : j \in 1 .. 12 + l
    BY <1>12
  <2>2. \A j \in 1 .. 7 : b[s + j] = t[j]
    BY <1>6, <2>1
  <2>3. /\ t[1] = "CR" /\ t[2] = "LF" /\ t[3] = Line(pt)
        /\ t[4] = "CR" /\ t[5] = "LF" /\ t[6] = "CR" /\ t[7] = "LF"
    BY <1>4
  <2> QED BY <2>2, <2>3
<1>8. \A j \in 1 .. l : b[s + 7 + j] = pt.data[j]
  <2> SUFFICES ASSUME NEW j \in 1 .. l PROVE b[s + 7 + j] = pt.data[j]
    OBVIOUS
  <2>1. 7 + j \in 1 .. 12 + l /\ s + (7 + j) = s + 7 + j
    BY <1>12
  <2> QED BY <1>4, <1>6, <2>1
<1>9. \A i \in 1 .. 5 : b[e - 5 + i] = BoundaryStr[i]
  <2> SUFFICES ASSUME NEW i \in 1 .. 5 PROVE b[e - 5 + i] = BoundaryStr[i]
    OBVIOUS
  <2>1. (7 + l) + i \in 1 .. 12 + l /\ s + ((7 + l) + i) = e - 5 + i
    <3>1. e = s + (12 + l)
      BY <1>6
    <3> QED BY <1>12, <3>1
  <2> QED BY <1>4, <1>6, <2>1
<1>10. ASSUME NEW i \in s + 1 .. e, b[i] = "BOUNDARY" PROVE i = e
  <2>1. CASE i <= s + 7
    <3>1. PICK j \in 1 .. 7 : i = s + j
      <4>1. i - s \in 1 .. 7 /\ i = s + (i - s)
        BY <2>1
      <4> QED BY <4>1
    <3>2. Line(pt) # "BOUNDARY"
      BY <1>4, OrdinaryCells
    <3> QED BY <1>7, <1>10, <3>1, <3>2
  <2>2. CASE i > s + 7 /\ i <= s + 7 + l
    <3>1. i - (s + 7) \in 1 .. l /\ s + 7 + (i - (s + 7)) = i
      BY <1>4, <2>2
    <3> QED BY <1>5, <1>8, <1>10, <3>1
  <2>3. CASE i > s + 7 + l
    <3>1. i - (e - 5) \in 1 .. 5 /\ e - 5 + (i - (e - 5)) = i
      BY <1>4, <1>6, <2>3
    <3>2. \A j \in 1 .. 5 : BoundaryStr[j] = "BOUNDARY" => j = 5
      BY DEF BoundaryStr
    <3>3. i - (e - 5) = 5
      BY <1>9, <1>10, <3>1, <3>2
    <3> QED BY <1>6, <3>3
  <2> QED BY <1>4, <1>6, <2>1, <2>2, <2>3
<1>11. e = s + 12 + l
  BY <1>4, <1>6
<1> QED BY <1>2, <1>6, <1>7, <1>8, <1>9, <1>10, <1>11 DEF PartCells, l

\* What is in front of the parts, and behind them.
OuterCells(b, f, e) ==
  /\ f = 3 \/ (f = 6 /\ b[1] = "x" /\ b[2] = "CR" /\ b[3] = "LF")
  /\ b[f] = "BOUNDARY" /\ b[f - 1] = "-" /\ b[f - 2] = "-"
  /\ e \in Nat /\ f <= Len(b) /\ Len(b) = e + 4
  /\ b[e + 1] = "-" /\ b[e + 2] = "-" /\ b[e + 3] = "CR" /\ b[e + 4] = "LF"

\* A body has these cells, and is no longer than what is not limited.
LEMMA LayoutOuter ==
  ASSUME NEW b, NEW ps, NEW o, Layout(b, ps, o)
  PROVE  /\ OuterCells(b, o[0], o[Len(ps)]) /\ Len(ps) \in Nat
         /\ b \in Seq(Symbols) /\ ps \in Seq(PartOf) /\ o \in [0 .. Len(ps) -> Nat]
         /\ Len(b) \in Nat /\ Len(b) <= Unlimited
<1> DEFINE n == Len(ps)
           tl == <<"-", "-", "CR", "LF">>
<1>1. /\ b \in Seq(Symbols) /\ ps \in Seq(PartOf) /\ o \in [0 .. n -> Nat]
      /\ Len(b) = o[n] + 4 /\ HasAt(b, o[n], tl) /\ Len(b) <= Unlimited
  BY Zenon DEF Layout
<1>2. PICK pre \in Preambles :
        o[0] = Len(pre) + 3 /\ HasAt(b, 0, pre \o <<"-", "-", "BOUNDARY">>)
  BY Zenon DEF Layout
<1>3. n \in Nat /\ Len(b) \in Nat /\ 0 \in 0 .. n /\ n \in 0 .. n
  BY <1>1
<1>4. PICK e \in Nat : e = o[n]
  BY <1>1, <1>3
<1>5. b[e + 1] = "-" /\ b[e + 2] = "-" /\ b[e + 3] = "CR" /\ b[e + 4] = "LF"
  <2>1. /\ Len(tl) = 4 /\ tl[1] = "-" /\ tl[2] = "-" /\ tl[3] = "CR" /\ tl[4] = "LF"
        /\ \A j \in 1 .. 4 : j \in 1 .. Len(tl)
    OBVIOUS
  <2>2. \A j \in 1 .. Len(tl) : b[e + j] = tl[j]
    BY <1>1, <1>4, Zenon DEF HasAt
  <2> HIDE DEF tl
  <2> QED BY <2>1, <2>2
<1>6. \/ o[0] = 3 /\ Len(b) >= 3 /\ b[1] = "-" /\ b[2] = "-" /\ b[3] = "BOUNDARY"
      \/ /\ o[0] = 6 /\ Len(b) >= 6 /\ b[1] = "x" /\ b[2] = "CR" /\ b[3] = "LF"
         /\ b[4] = "-" /\ b[5] = "-" /\ b[6] = "BOUNDARY"
  <2>1. CASE pre = << >>
    <3>1. pre \o <<"-", "-", "BOUNDARY">> = <<"-", "-", "BOUNDARY">>
      BY <2>1
    <3>2. HasAt(b, 0, <<"-", "-", "BOUNDARY">>)
      BY <1>2, <3>1
    <3>3. Len(<<"-", "-", "BOUNDARY">>) = 3 /\ 1 \in 1 .. 3 /\ 2 \in 1 .. 3 /\ 3 \in 1 .. 3
          /\ 0 + 1 = 1 /\ 0 + 2 = 2 /\ 0 + 3 = 3
      OBVIOUS
    <3>4. b[1] = "-" /\ b[2] = "-" /\ b[3] = "BOUNDARY" /\ 3 <= Len(b)
      BY <3>2, <3>3 DEF HasAt
    <3>5. o[0] = 3
      BY <1>2, <2>1
    <3> QED BY <1>3, <3>4, <3>5
  <2>2. CASE pre = <<"x", "CR", "LF">>
    <3> DEFINE w == <<"-", "-", "BOUNDARY">>
    <3>1. Len(w) = 3 /\ w[1] = "-" /\ w[2] = "-" /\ w[3] = "BOUNDARY"
      OBVIOUS
    <3>2. Len(pre) = 3 /\ pre[1] = "x" /\ pre[2] = "CR" /\ pre[3] = "LF"
      BY <2>2
    <3>3. pre \in Seq(Symbols) /\ w \in Seq(Symbols)
      <4>1. "-" \in Symbols /\ "BOUNDARY" \in Symbols
        BY DEF Symbols
      <4> QED BY <4>1, PreambleFacts
    <3> HIDE DEF w
    <3>4. HasAt(b, 0, pre) /\ HasAt(b, 0 + Len(pre), w)
      <4>1. HasAt(b, 0, pre \o w)
        BY <1>2 DEF w
      <4> QED BY <1>3, <3>3, <4>1, HasBoth
    <3>5. HasAt(b, 3, w)
      BY <3>2, <3>4
    <3>6. \A j \in 1 .. 3 : b[j] = pre[j]
      <4>1. \A j \in 1 .. 3 : 0 + j = j
        OBVIOUS
      <4> QED BY <3>2, <3>4, <4>1, Zenon DEF HasAt
    <3>7. 3 + 3 <= Len(b) /\ \A j \in 1 .. 3 : b[3 + j] = w[j]
      BY <3>1, <3>5, Zenon DEF HasAt
    <3>8. /\ b[1] = "x" /\ b[2] = "CR" /\ b[3] = "LF"
          /\ b[4] = "-" /\ b[5] = "-" /\ b[6] = "BOUNDARY" /\ 6 <= Len(b)
      BY <3>1, <3>2, <3>6, <3>7
    <3>9. o[0] = 6
      BY <1>2, <3>2
    <3> QED BY <1>3, <3>8, <3>9
  <2>3. pre = << >> \/ pre = <<"x", "CR", "LF">>
    BY PreambleFacts
  <2> QED BY <2>1, <2>2, <2>3
<1>7. PICK f : f = o[0]
  OBVIOUS
<1>8. OuterCells(b, f, e)
  <2>1. Len(b) = e + 4
    BY <1>1, <1>4
  <2>2. CASE f = 3
    <3>1. b[f] = "BOUNDARY" /\ b[f - 1] = "-" /\ b[f - 2] = "-" /\ f <= Len(b)
      <4>1. f - 1 = 2 /\ f - 2 = 1 /\ o[0] # 6
        BY <1>7, <2>2
      <4>2. b[3] = "BOUNDARY" /\ b[2] = "-" /\ b[1] = "-" /\ 3 <= Len(b)
        BY <1>6, <4>1
      <4> QED BY <2>2, <4>1, <4>2
    <3> QED BY <1>4, <1>5, <2>1, <2>2, <3>1, Zenon DEF OuterCells
  <2>3. CASE f = 6
    <3>1. f - 1 = 5 /\ f - 2 = 4 /\ b[6] = "BOUNDARY" /\ b[5] = "-" /\ b[4] = "-" /\ f <= Len(b)
          /\ b[1] = "x" /\ b[2] = "CR" /\ b[3] = "LF"
      BY <1>6, <1>7, <2>3
    <3> QED BY <1>4, <1>5, <2>1, <2>3, <3>1 DEF OuterCells
  <2> QED BY <1>6, <1>7, <2>2, <2>3
<1> HIDE DEF tl
<1> QED BY <1>1, <1>3, <1>4, <1>7, <1>8

-----------------------------------------------------------------------------
(* AppendToCurrentPart() in front of the first part and behind the last one. *)

\* The loop of AppendToCurrentPart(), in front of the content, exists, and this is
\* what it computes.
Heads(H, p, data) ==
  /\ H[0] = [p |-> p, used |-> 0, from |-> 0, over |-> FALSE]
  /\ \A i \in 1 .. Len(data) : H[i] = HeadStep(H[i - 1], data, i)
  /\ HeadOf(p, data) = H[Len(data)]

\* Such a function exists.
LEMMA HeadSteps ==
  ASSUME NEW p, NEW X, NEW data \in Seq(X)
  PROVE  \E H : Heads(H, p, data)
<1> DEFINE N == Len(data)
           a == [p |-> p, used |-> 0, from |-> 0, over |-> FALSE]
           Has(n) == \E f : f = [i \in 0 .. n |-> IF i = 0 THEN a ELSE HeadStep(f[i - 1], data, i)]
           S == {n \in 0 .. N : Has(n)}
<1>1. N \in Nat
  OBVIOUS
<1> HIDE DEF N, a
<1>2. Has(0)
  <2> DEFINE f == [i \in 0 .. 0 |-> a]
  <2>1. f = [i \in 0 .. 0 |-> IF i = 0 THEN a ELSE HeadStep(f[i - 1], data, i)]
    OBVIOUS
  <2> QED BY <2>1
<1>3. ASSUME NEW n \in 0 .. N - 1, Has(n) PROVE Has(n + 1)
  <2>1. PICK f : f = [i \in 0 .. n |-> IF i = 0 THEN a ELSE HeadStep(f[i - 1], data, i)]
    BY <1>3
  <2> DEFINE v == HeadStep(f[n], data, n + 1)
             g == [i \in 0 .. n + 1 |-> IF i = n + 1 THEN v ELSE f[i]]
  <2>2. ASSUME NEW i \in 0 .. n + 1
        PROVE  g[i] = IF i = 0 THEN a ELSE HeadStep(g[i - 1], data, i)
    <3>1. CASE i = n + 1
      <4>1. g[i] = v /\ i # 0 /\ i - 1 = n /\ g[n] = f[n]
        BY <1>1, <3>1
      <4> HIDE DEF g
      <4> QED BY <3>1, <4>1
    <3>2. CASE i # n + 1
      <4>1. i \in 0 .. n /\ (i # 0 => i - 1 \in 0 .. n + 1 /\ i - 1 # n + 1)
        BY <3>2
      <4>2. g[i] = f[i] /\ (i # 0 => g[i - 1] = f[i - 1])
        BY <3>2, <4>1
      <4>3. f[i] = IF i = 0 THEN a ELSE HeadStep(f[i - 1], data, i)
        BY <2>1, <4>1
      <4> HIDE DEF g
      <4> QED BY <4>2, <4>3
    <3> QED BY <3>1, <3>2
  <2>3. g = [i \in 0 .. n + 1 |-> g[i]]
    OBVIOUS
  <2> HIDE DEF g
  <2>4. g = [i \in 0 .. n + 1 |-> IF i = 0 THEN a ELSE HeadStep(g[i - 1], data, i)]
    BY <2>2, <2>3
  <2> QED BY <2>4
<1> HIDE DEF Has
<1>4. Has(N)
  <2>1. 0 \in S
    BY <1>1, <1>2
  <2>2. \A i \in 0 .. N - 1 : i \in S => i + 1 \in S
    BY <1>1, <1>3
  <2> HIDE DEF S
  <2>3. \A i \in 0 .. N : i \in S
    BY <1>1, <2>1, <2>2, SetInduction
  <2> QED BY <1>1, <2>3 DEF S
<1> DEFINE D == CHOOSE f : f = [i \in 0 .. N |-> IF i = 0 THEN a ELSE HeadStep(f[i - 1], data, i)]
<1>5. D = [i \in 0 .. N |-> IF i = 0 THEN a ELSE HeadStep(D[i - 1], data, i)]
  BY <1>4, Zenon DEF Has
<1>6. HeadOf(p, data) = D[N]
  BY Zenon DEF HeadOf, N, a
<1> HIDE DEF D
<1>7. D[0] = a /\ \A i \in 1 .. N : D[i] = HeadStep(D[i - 1], data, i)
  <2>1. 0 \in 0 .. N /\ \A i \in 1 .. N : i \in 0 .. N /\ i # 0
    BY <1>1
  <2> QED BY <1>5, <2>1
<1> QED BY <1>6, <1>7, Zenon DEF N, a, Heads

\* What a request has got so far.
Results(p, r) ==
  /\ r.ParamMap = p.ParamMap /\ r.FileMap = p.FileMap /\ r.disk = p.disk
  /\ r.created = p.created /\ r.limit = p.limit /\ r.totalLimit = p.totalLimit
  /\ r.CurrFileSize = p.CurrFileSize /\ r.TotalFileSize = p.TotalFileSize

\* The state and the counter are set.
Controlled(p, r, w, v) ==
  /\ r \in Part /\ Results(p, r) /\ r.counter = w /\ r.state = v
  /\ r.headers = p.headers /\ r.isFile = p.isFile /\ r.target = p.target
  /\ r.CurrFileS = p.CurrFileS
States == {"HEADERSTART", "HEADERS_END", "READ", "FINISHED"}

\* Only the state or the counter is set.
LEMMA ControlSet ==
  ASSUME NEW p \in Part, NEW v \in States, NEW w \in 0 .. 4
  PROVE  /\ Controlled(p, [p EXCEPT !.counter = w, !.state = v], w, v)
         /\ Controlled(p, [p EXCEPT !.counter = w], w, p.state)
         /\ Controlled(p, [p EXCEPT !.state = v], p.counter, v)
BY DEF Part, Controlled, Results, States

\* A file is closed.
LEMMA FileEnds ==
  ASSUME NEW p \in Part
  PROVE  /\ OnFileEnd(p) \in Part /\ Results(p, OnFileEnd(p)) /\ OnFileEnd(p).CurrFileS = 0
         /\ OnFileEnd(p).state = p.state /\ OnFileEnd(p).headers = p.headers
         /\ OnFileEnd(p).counter = p.counter
BY DEF Part, OnFileEnd, Results

HeadType == [p : Part, used : Nat, from : Nat, over : BOOLEAN]

\* The part parser has no header line and reads no content.
Quiet(h, p0, i) ==
  /\ h \in HeadType /\ h.used <= i
  /\ Results(p0, h.p) /\ h.p.state # "READ" /\ Unnamed(h.p.headers)

\* A character that is looked at in front of the headers.
LEMMA QuietStart ==
  ASSUME NEW p0, NEW h, NEW i \in Nat, Quiet(h, p0, i), NEW c
  PROVE  Quiet(InHeaderStart(h, c), p0, i)
<1>1. h \in HeadType /\ h.p \in Part /\ h.used \in Nat
  BY DEF Quiet, HeadType
<1> DEFINE Good(r) == /\ r \in Part /\ Results(p0, r) /\ r.state # "READ" /\ Unnamed(r.headers)
<1>2. Good(h.p) /\ h.used <= i
  BY <1>1 DEF Quiet
<1>3. Good([h.p EXCEPT !.counter = 1])
  BY SMTT(30), <1>1, <1>2 DEF Part, Results
<1>4. Good([h.p EXCEPT !.counter = 0, !.state = "HEADERS_END"])
  <2>1. "HEADERS_END" \in States /\ 0 \in 0 .. 4
    BY DEF States
  <2>2. Controlled(h.p, [h.p EXCEPT !.counter = 0, !.state = "HEADERS_END"], 0, "HEADERS_END")
    BY <1>1, <2>1, ControlSet
  <2> QED BY <1>2, <2>2, Zenon DEF Controlled, Results
<1>5. Good(OnFileEnd([h.p EXCEPT !.state = "FINISHED"]))
  BY <1>1, <1>2 DEF Part, Results, OnFileEnd
<1> HIDE DEF Good
<1> DEFINE r1 == [h EXCEPT !.p.counter = 1]
           r2 == [h EXCEPT !.p = [@ EXCEPT !.counter = 0, !.state = "HEADERS_END"],
                           !.from = h.used + 1]
           r3 == [h EXCEPT !.p = OnFileEnd([@ EXCEPT !.state = "FINISHED"])]
           r4 == [h EXCEPT !.over = TRUE]
<1>6. r1 \in HeadType /\ r1.p = [h.p EXCEPT !.counter = 1] /\ r1.used = h.used
  BY <1>1, <1>3 DEF HeadType, Good
<1>7. r2 \in HeadType /\ r2.p = [h.p EXCEPT !.counter = 0, !.state = "HEADERS_END"] /\ r2.used = h.used
  <2>1. [h.p EXCEPT !.counter = 0, !.state = "HEADERS_END"] \in Part
    BY <1>4 DEF Good
  <2> DEFINE q == [h.p EXCEPT !.counter = 0, !.state = "HEADERS_END"]
  <2>2. r2 = [h EXCEPT !.p = q, !.from = h.used + 1] /\ q \in Part /\ h.used + 1 \in Nat
    BY <1>1, <2>1
  <2> HIDE DEF q, r2
  <2>3. r2 \in HeadType /\ r2.p = q /\ r2.used = h.used
    BY <1>1, <2>2 DEF HeadType
  <2> QED BY <2>3 DEF q
<1>8. r3 \in HeadType /\ r3.p = OnFileEnd([h.p EXCEPT !.state = "FINISHED"]) /\ r3.used = h.used
  BY <1>1, <1>5 DEF HeadType, Good
<1>9. r4 \in HeadType /\ r4.p = h.p /\ r4.used = h.used
  BY <1>1 DEF HeadType
<1>10. Quiet(r1, p0, i) /\ Quiet(r2, p0, i) /\ Quiet(r3, p0, i) /\ Quiet(r4, p0, i)
  BY <1>2, <1>3, <1>4, <1>5, <1>6, <1>7, <1>8, <1>9, Zenon DEF Quiet, Good
<1> HIDE DEF r1, r2, r3, r4
<1>11. InHeaderStart(h, c) \in {r1, r2, r3, h, r4}
  BY <1>1 DEF InHeaderStart, r1, r2, r3, r4
<1> QED BY <1>10, <1>11

\* A piece of data has its characters.
LEMMA PieceFacts ==
  ASSUME NEW X, NEW s \in Seq(X), NEW m \in Nat, NEW n \in Nat, m <= n, n <= Len(s)
  PROVE  /\ Slice(s, m, n) \in Seq(X) /\ Len(Slice(s, m, n)) = n - m
         /\ \A j \in 1 .. n - m : Slice(s, m, n)[j] = s[m + j]
<1>1. m + 1 \in 1 .. Len(s) + 1 /\ n \in (m + 1) - 1 .. Len(s) /\ n - (m + 1) + 1 = n - m
      /\ \A j \in 1 .. n - m : (m + 1) + j - 1 = m + j
  OBVIOUS
<1>2. /\ SubSeq(s, m + 1, n) \in Seq(X) /\ Len(SubSeq(s, m + 1, n)) = n - (m + 1) + 1
      /\ \A j \in 1 .. n - (m + 1) + 1 : SubSeq(s, m + 1, n)[j] = s[(m + 1) + j - 1]
  BY <1>1, SubSeqFacts
<1> QED BY <1>1, <1>2 DEF Slice

\* No header line comes in by a piece, or by joining two texts.
LEMMA UnnamedFacts ==
  /\ Unnamed(<< >>)
  /\ \A a, b \in Seq(STRING) : Unnamed(a) /\ Unnamed(b) => a \o b \in Seq(STRING) /\ Unnamed(a \o b)
  /\ \A a \in Seq(STRING) : \A m, n \in Nat :
       Unnamed(a) /\ m <= n /\ n <= Len(a) => Slice(a, m, n) \in Seq(STRING) /\ Unnamed(Slice(a, m, n))
<1>1. Unnamed(<< >>)
  BY DEF Unnamed
<1>2. ASSUME NEW a \in Seq(STRING), NEW b \in Seq(STRING), Unnamed(a), Unnamed(b)
      PROVE  a \o b \in Seq(STRING) /\ Unnamed(a \o b)
  <2>1. /\ a \o b \in Seq(STRING) /\ Len(a \o b) = Len(a) + Len(b)
        /\ \A i \in 1 .. Len(a) + Len(b) :
             (a \o b)[i] = IF i <= Len(a) THEN a[i] ELSE b[i - Len(a)]
    BY ConcatProperties
  <2> DEFINE s == a \o b
  <2> HIDE DEF s
  <2>2. /\ s \in Seq(STRING) /\ Len(s) = Len(a) + Len(b) /\ Len(a) \in Nat /\ Len(b) \in Nat
        /\ \A i \in 1 .. Len(a) + Len(b) : s[i] = IF i <= Len(a) THEN a[i] ELSE b[i - Len(a)]
        /\ DOMAIN s = 1 .. Len(s) /\ DOMAIN a = 1 .. Len(a) /\ DOMAIN b = 1 .. Len(b)
    BY <2>1 DEF s
  <2>3. ASSUME NEW i \in DOMAIN s PROVE s[i] \notin HeaderLines
    <3>1. CASE i <= Len(a)
      <4>1. i \in DOMAIN a /\ s[i] = a[i]
        BY <2>2, <3>1
      <4> QED BY <1>2, <4>1 DEF Unnamed
    <3>2. CASE ~(i <= Len(a))
      <4>1. i - Len(a) \in DOMAIN b /\ s[i] = b[i - Len(a)]
        BY <2>2, <3>2
      <4> QED BY <1>2, <4>1 DEF Unnamed
    <3> QED BY <3>1, <3>2
  <2> QED BY <2>2, <2>3 DEF Unnamed, s
<1>3. ASSUME NEW a \in Seq(STRING), NEW m \in Nat, NEW n \in Nat, Unnamed(a), m <= n, n <= Len(a)
      PROVE  Slice(a, m, n) \in Seq(STRING) /\ Unnamed(Slice(a, m, n))
  <2>1. /\ Slice(a, m, n) \in Seq(STRING) /\ Len(Slice(a, m, n)) = n - m
        /\ \A j \in 1 .. n - m : Slice(a, m, n)[j] = a[m + j]
    BY <1>3, PieceFacts
  <2>2. \A j \in 1 .. n - m : m + j \in DOMAIN a
    BY <1>3
  <2>3. DOMAIN Slice(a, m, n) = 1 .. n - m
    BY <2>1
  <2> QED BY <1>3, <2>1, <2>2, <2>3 DEF Unnamed
<1> QED BY <1>1, <1>2, <1>3

\* The headers are complete.
Completed(p, r, w, v) ==
  /\ r \in Part /\ Results(p, r) /\ r.counter = v /\ r.state = p.state
  /\ r.headers = w /\ r.isFile = p.isFile /\ r.target = p.target
  /\ r.CurrFileS = p.CurrFileS

\* Only the headers and the counter are set.
LEMMA HeadersSet ==
  ASSUME NEW p \in Part, NEW w \in Seq(STRING), NEW v \in 0 .. 4
  PROVE  Completed(p, [p EXCEPT !.headers = w, !.counter = v], w, v)
BY DEF Part, Completed, Results

\* A character of the headers, when they have no header line: what is found at
\* their end names nothing.
LEMMA QuietHeaders ==
  ASSUME NEW p0, NEW h, NEW data \in Seq(STRING), Unnamed(data), NEW i \in 0 .. Len(data) - 1,
         Quiet(h, p0, i), NEW c
  PROVE  Quiet(InHeaders(h, c, data), p0, i)
<1>1. h \in HeadType /\ h.p \in Part /\ h.used \in Nat /\ h.from \in Nat /\ h.used <= i
      /\ h.p.state # "READ" /\ Results(p0, h.p) /\ Unnamed(h.p.headers)
  BY DEF Quiet, HeadType
<1>2. h.p.headers \in Seq(STRING) /\ h.p.state \in States /\ h.p.counter \in 0 .. 4
  BY <1>1 DEF Part, States
<1> DEFINE r0 == [h EXCEPT !.p.counter = 0]
           r1 == [h EXCEPT !.p.counter = @ + 1]
<1>3. ASSUME NEW w \in 0 .. 4, NEW r, r = [h EXCEPT !.p.counter = w]
      PROVE  Quiet(r, p0, i)
  <2> DEFINE q == [h.p EXCEPT !.counter = w]
  <2>1. Controlled(h.p, q, w, h.p.state)
    BY <1>1, <1>2, ControlSet
  <2>2. r = [h EXCEPT !.p = q]
    BY <1>3
  <2> HIDE DEF q
  <2>3. q \in Part /\ r \in HeadType /\ r.p = q /\ r.used = h.used
    BY <1>1, <2>1, <2>2 DEF HeadType, Controlled
  <2> QED BY <1>1, <2>1, <2>3, Zenon DEF Quiet, Controlled, Results
<1>4. Quiet(r0, p0, i)
  <2>1. 0 \in 0 .. 4
    OBVIOUS
  <2> QED BY <1>3, <2>1
<1>5. h.p.counter < 4 => Quiet(r1, p0, i)
  <2> SUFFICES ASSUME h.p.counter < 4 PROVE Quiet(r1, p0, i)
    OBVIOUS
  <2>1. h.p.counter + 1 \in 0 .. 4
    BY <1>2
  <2>2. r1 = [h EXCEPT !.p.counter = h.p.counter + 1]
    OBVIOUS
  <2> QED BY <1>3, <2>1, <2>2
<1>6. Quiet(AfterHeaders(h, data), p0, i)
  <2> DEFINE whole == IF h.used > h.from + 4
                        THEN h.p.headers \o SubSeq(data, h.from + 1, h.used + 1)
                        ELSE h.p.headers
             p1 == [h.p EXCEPT !.headers = whole, !.counter = 4]
             q == ParseFMHeaders(p1)
  <2>1. whole \in Seq(STRING) /\ Unnamed(whole)
    <3>1. CASE h.used > h.from + 4
      <4>1. h.from <= h.used + 1 /\ h.used + 1 <= Len(data) /\ h.used + 1 \in Nat
        BY <1>1, <3>1
      <4>2. Slice(data, h.from, h.used + 1) \in Seq(STRING) /\ Unnamed(Slice(data, h.from, h.used + 1))
        BY <1>1, <4>1, UnnamedFacts
      <4>3. whole = h.p.headers \o Slice(data, h.from, h.used + 1)
        BY <3>1 DEF Slice
      <4> HIDE DEF whole
      <4> QED BY <1>1, <1>2, <4>2, <4>3, UnnamedFacts
    <3>2. CASE ~(h.used > h.from + 4)
      BY <1>1, <1>2, <3>2
    <3> QED BY <3>1, <3>2
  <2> HIDE DEF whole
  <2>2. NamingLines(whole) = {}
    BY <2>1 DEF NamingLines, Unnamed
  <2>3. p1 \in Part /\ p1.headers = whole /\ Results(p0, p1) /\ p1.state = h.p.state
    <3>0. 4 \in 0 .. 4
      OBVIOUS
    <3>1. Completed(h.p, p1, whole, 4)
      BY <1>1, <2>1, <3>0, HeadersSet
    <3> HIDE DEF p1
    <3> QED BY <1>1, <3>1, Zenon DEF Completed, Results
  <2> HIDE DEF p1
  <2>4. q = [p1 EXCEPT !.target = None]
    BY <2>2, <2>3, Zenon DEF ParseFMHeaders
  <2> HIDE DEF q
  <2>5. q \in Part /\ Results(p0, q) /\ q.state = h.p.state
    BY <2>3, <2>4 DEF Part, Results
  <2> DEFINE z == [q EXCEPT !.headers = << >>]
  <2>6. z \in Part /\ Results(p0, z) /\ z.state # "READ" /\ z.headers = << >>
    <3>1. << >> \in Seq(STRING)
      BY EmptySeq
    <3> QED BY <1>1, <2>5, <3>1 DEF Part, Results
  <2> HIDE DEF z
  <2> DEFINE r == [h EXCEPT !.p = z, !.over = TRUE]
  <2>7. AfterHeaders(h, data) = r
    BY <2>2, Zenon DEF AfterHeaders, z, q, p1, whole
  <2>8. r \in HeadType /\ r.p = z /\ r.used = h.used
    BY <1>1, <2>6 DEF HeadType
  <2> HIDE DEF r
  <2> QED BY <1>1, <2>6, <2>7, <2>8, UnnamedFacts, Zenon DEF Quiet
<1> HIDE DEF r0, r1
<1> QED BY <1>4, <1>5, <1>6 DEF InHeaders, r0, r1

\* The results depend on nothing else of the part parser.
LEMMA BaseKept ==
  ASSUME NEW p, NEW r, NEW q, NEW bf, NEW ps, NEW g \in Nat, NEW g2 \in Nat, g <= g2,
         Base(p, q, bf, ps, g), r \in Part, Results(p, r)
  PROVE  Base(r, q, bf, ps, g2)
<1>1. /\ p \in Part /\ p.ParamMap = Meant(q, ps)
      /\ [n \in DOMAIN p.FileMap |-> p.disk[p.FileMap[n]]] = Contents(ps, TRUE)
      /\ Owned(p.FileMap, p.disk, p.created, bf) /\ p.limit = Unlimited /\ p.totalLimit = Unlimited
      /\ p.CurrFileSize = p.TotalFileSize /\ p.TotalFileSize <= g
  BY Zenon DEF Base
<1>2. /\ r.ParamMap = p.ParamMap /\ r.FileMap = p.FileMap /\ r.disk = p.disk
      /\ r.created = p.created /\ r.limit = p.limit /\ r.totalLimit = p.totalLimit
      /\ r.CurrFileSize = p.CurrFileSize /\ r.TotalFileSize = p.TotalFileSize
  BY Zenon DEF Results
<1>3. Owned(r.FileMap, r.disk, r.created, bf)
  BY <1>1, <1>2, Zenon
<1>4. r.TotalFileSize <= g2
  <2>1. r.TotalFileSize \in Nat /\ r.TotalFileSize <= g
    BY <1>1, <1>2 DEF Part
  <2> QED BY <2>1
<1>5. [n \in DOMAIN r.FileMap |-> r.disk[r.FileMap[n]]] = Contents(ps, TRUE)
  BY <1>1, <1>2, Zenon
<1> QED BY <1>1, <1>2, <1>3, <1>4, <1>5, Zenon DEF Base

\* Results are the same through a third state.
LEMMA ResultsTrans ==
  \A p, r, s : Results(p, r) /\ Results(r, s) => Results(p, s)
BY SMT DEF Results

\* A state has its own results.
LEMMA ResultsSame == \A p : Results(p, p)
BY Zenon DEF Results

\* One character of the data in front of the content.
LEMMA QuietStep ==
  ASSUME NEW p0, NEW h, NEW data \in Seq(STRING), Unnamed(data), NEW i \in 1 .. Len(data),
         Quiet(h, p0, i - 1)
  PROVE  Quiet(HeadStep(h, data, i), p0, i)
<1>0. i - 1 \in 0 .. Len(data) - 1 /\ i - 1 \in Nat /\ i \in Nat
  OBVIOUS
<1>1. /\ h \in HeadType /\ h.p \in Part /\ h.used \in Nat /\ h.used <= i - 1
      /\ Results(p0, h.p) /\ h.p.state # "READ" /\ Unnamed(h.p.headers)
  BY DEF Quiet, HeadType
<1>2. Quiet(h, p0, i)
  <2>1. h.used <= i
    BY <1>0, <1>1
  <2> QED BY <1>1, <2>1 DEF Quiet
<1>3. Quiet([h EXCEPT !.p = OnFileEnd(@), !.over = TRUE], p0, i)
  <2> DEFINE q == OnFileEnd(h.p)
             r == [h EXCEPT !.p = q, !.over = TRUE]
  <2>1. q \in Part /\ Results(h.p, q) /\ q.state = h.p.state /\ q.headers = h.p.headers
    BY <1>1, FileEnds
  <2>2. Results(p0, q)
    BY <1>1, <2>1, ResultsTrans
  <2> HIDE DEF q
  <2>3. r \in HeadType /\ r.p = q /\ r.used = h.used
    BY <1>1, <2>1 DEF HeadType
  <2> HIDE DEF r
  <2>4. Quiet(r, p0, i)
    BY <1>1, <1>2, <2>1, <2>2, <2>3 DEF Quiet
  <2> QED BY <2>4 DEF r, q
<1>4. ASSUME NEW g, Quiet(g, p0, i - 1) PROVE Quiet([g EXCEPT !.used = i], p0, i)
  <2> DEFINE r == [g EXCEPT !.used = i]
  <2>1. r \in HeadType /\ r.p = g.p /\ r.used = i
    BY <1>0, <1>4 DEF HeadType, Quiet
  <2> HIDE DEF r
  <2>2. i <= i
    BY <1>0
  <2>3. Quiet(r, p0, i)
    BY <1>4, <2>1, <2>2, Zenon DEF Quiet
  <2> QED BY <2>3 DEF r
<1>5. /\ Quiet(InHeaderStart(h, data[i]), p0, i - 1)
      /\ Quiet(InHeaders(h, data[i], data), p0, i - 1)
  BY <1>0, QuietStart, QuietHeaders
<1> QED BY <1>1, <1>2, <1>3, <1>4, <1>5, Zenon DEF HeadStep

\* In front of the first boundary the data changes no result.
LEMMA IdleKept ==
  ASSUME NEW p, NEW q, NEW bf, Idle(p, q, bf), NEW data \in Seq(STRING), Unnamed(data)
  PROVE  Idle(AppendToCurrentPart(p, data), q, bf)
<1>1. p \in Part /\ Base(p, q, bf, << >>, 0) /\ p.state # "READ" /\ Unnamed(p.headers)
  BY DEF Idle, Base
<1>2. CASE data = << >> \/ p.state = "FINISHED"
  BY <1>2, Zenon DEF AppendToCurrentPart
<1>3. CASE ~(data = << >> \/ p.state = "FINISHED")
  <2>1. PICK H : Heads(H, p, data)
    BY HeadSteps
  <2>2. Len(data) \in Nat
    OBVIOUS
  <2> DEFINE S == {i \in 0 .. Len(data) : Quiet(H[i], p, i)}
  <2>3. 0 \in S
    <3> DEFINE h == [p |-> p, used |-> 0, from |-> 0, over |-> FALSE]
    <3>1. h \in HeadType /\ h.p = p /\ h.used = 0
      BY <1>1 DEF HeadType
    <3>2. H[0] = h
      BY <2>1, Zenon DEF Heads
    <3> HIDE DEF h
    <3>3. 0 <= 0 /\ 0 \in 0 .. Len(data)
      BY <2>2
    <3>4. Quiet(h, p, 0)
      BY <1>1, <3>1, <3>3, ResultsSame, Zenon DEF Quiet
    <3> QED BY <3>2, <3>3, <3>4
  <2>4. ASSUME NEW i \in 0 .. Len(data) - 1, i \in S PROVE i + 1 \in S
    <3>1. i + 1 \in 1 .. Len(data) /\ (i + 1) - 1 = i /\ i + 1 \in 0 .. Len(data)
      BY <2>2
    <3>2. H[i + 1] = HeadStep(H[i], data, i + 1)
      BY <2>1, <3>1 DEF Heads
    <3>3. Quiet(H[i], p, (i + 1) - 1)
      BY <2>4, <3>1
    <3>4. Quiet(HeadStep(H[i], data, i + 1), p, i + 1)
      BY <3>1, <3>3, QuietStep
    <3> QED BY <3>1, <3>2, <3>4
  <2>5. \A i \in 0 .. Len(data) - 1 : i \in S => i + 1 \in S
    BY <2>4
  <2> HIDE DEF S
  <2>6. \A i \in 0 .. Len(data) : i \in S
    BY <2>2, <2>3, <2>5, SetInduction
  <2> DEFINE h == HeadOf(p, data)
  <2>7. Quiet(h, p, Len(data))
    <3>1. Len(data) \in S
      BY <2>2, <2>6
    <3>2. HeadOf(p, data) = H[Len(data)]
      BY <2>1, Zenon DEF Heads
    <3> QED BY <3>1, <3>2 DEF S
  <2> HIDE DEF h
  <2>8. /\ h \in HeadType /\ h.p \in Part /\ Results(p, h.p) /\ h.p.state # "READ"
        /\ Unnamed(h.p.headers) /\ h.from \in Nat /\ h.p.headers \in Seq(STRING)
    BY <2>7 DEF Quiet, HeadType, Part
  <2>9. Idle(h.p, q, bf)
    <3>1. 0 \in Nat /\ 0 <= 0
      OBVIOUS
    <3>2. Base(h.p, q, bf, << >>, 0)
      BY <1>1, <2>8, <3>1, BaseKept
    <3> QED BY <2>8, <3>2 DEF Idle
  <2>10. Idle([h.p EXCEPT !.headers = @ \o SubSeq(data, h.from + 1, Len(data))], q, bf)
    <3> DEFINE w == h.p.headers \o SubSeq(data, h.from + 1, Len(data))
               r == [h.p EXCEPT !.headers = w]
    <3>1. w \in Seq(STRING) /\ Unnamed(w)
      <4>1. CASE h.from <= Len(data)
        <5>1. /\ Slice(data, h.from, Len(data)) \in Seq(STRING)
              /\ Unnamed(Slice(data, h.from, Len(data)))
          BY <2>2, <2>8, <4>1, UnnamedFacts
        <5>2. w = h.p.headers \o Slice(data, h.from, Len(data))
          BY DEF Slice
        <5> HIDE DEF w
        <5> QED BY <2>8, <5>1, <5>2, UnnamedFacts
      <4>2. CASE ~(h.from <= Len(data))
        <5>1. SubSeq(data, h.from + 1, Len(data)) = << >>
          BY <2>2, <2>8, <4>2, SubSeqEmpty
        <5>2. w = h.p.headers
          BY <2>8, <5>1, ConcatEmptySeq
        <5> QED BY <2>8, <5>2
      <4> QED BY <4>1, <4>2
    <3> HIDE DEF w
    <3>2. r \in Part /\ Results(h.p, r) /\ r.state = h.p.state /\ r.headers = w
      BY <2>8, <3>1 DEF Part, Results
    <3> HIDE DEF r
    <3>3. Base(h.p, q, bf, << >>, 0) /\ 0 \in Nat /\ 0 <= 0
      BY <2>9 DEF Idle
    <3>4. Base(r, q, bf, << >>, 0)
      BY <3>2, <3>3, BaseKept
    <3>5. Idle(r, q, bf)
      BY <2>8, <3>1, <3>2, <3>4 DEF Idle
    <3> QED BY <3>5 DEF r, w
  <2> QED BY <1>3, <2>8, <2>9, <2>10, Zenon DEF AppendToCurrentPart, h
<1> QED BY <1>2, <1>3

\* The part parser with j cells of what follows the last boundary.
Closing(h, p0, j) ==
  /\ h \in HeadType /\ Results(p0, h.p)
  /\ IF j < 2 THEN ~h.over /\ h.p.state = "HEADERSTART" /\ h.p.counter = j
              ELSE h.p.state = "FINISHED" /\ h.p.CurrFileS = 0

\* One more of these cells.
LEMMA ClosingStep ==
  ASSUME NEW p0, NEW h, NEW data, NEW i \in Nat, NEW j \in Nat, Closing(h, p0, j),
         j < 2 => data[i] = "-"
  PROVE  Closing(HeadStep(h, data, i), p0, j + 1)
<1>1. h \in HeadType /\ h.p \in Part /\ Results(p0, h.p)
  BY DEF Closing, HeadType
<1>2. ASSUME NEW g, g \in HeadType, NEW r, r = [g EXCEPT !.used = i]
      PROVE  r \in HeadType /\ r.p = g.p /\ r.over = g.over
  BY <1>2 DEF HeadType
<1>3. CASE j = 0
  <2> DEFINE q == [h.p EXCEPT !.counter = 1]
             g == [h EXCEPT !.p.counter = 1]
  <2>1. ~h.over /\ h.p.state = "HEADERSTART" /\ h.p.counter = 0 /\ data[i] = "-"
    BY <1>3 DEF Closing
  <2>2. Controlled(h.p, q, 1, h.p.state)
    <3>1. 1 \in 0 .. 4 /\ "READ" \in States
      BY DEF States
    <3> QED BY <1>1, <3>1, ControlSet
  <2>3. InHeaderStart(h, data[i]) = g
    BY <2>1 DEF InHeaderStart
  <2>4. g = [h EXCEPT !.p = q]
    BY <1>1
  <2> HIDE DEF q, g
  <2>5. g \in HeadType /\ g.p = q /\ g.over = h.over
    BY <1>1, <2>2, <2>4 DEF HeadType, Controlled
  <2> DEFINE r == [g EXCEPT !.used = i]
  <2>6. HeadStep(h, data, i) = r
    BY <2>1, <2>3, Zenon DEF HeadStep
  <2>7. r \in HeadType /\ r.p = q /\ r.over = h.over
    BY <1>2, <2>5
  <2> HIDE DEF r
  <2>8. Results(p0, q) /\ q.state = "HEADERSTART" /\ q.counter = 1
    BY <1>1, <2>1, <2>2, ResultsTrans, Zenon DEF Controlled
  <2>9. 0 + 1 = 1 /\ 1 < 2
    OBVIOUS
  <2> QED BY <1>3, <2>1, <2>6, <2>7, <2>8, <2>9 DEF Closing
<1>4. CASE j = 1
  <2> DEFINE f == [h.p EXCEPT !.state = "FINISHED"]
             q == OnFileEnd(f)
             g == [h EXCEPT !.p = OnFileEnd([@ EXCEPT !.state = "FINISHED"])]
  <2>1. ~h.over /\ h.p.state = "HEADERSTART" /\ h.p.counter = 1 /\ data[i] = "-"
    BY <1>4 DEF Closing
  <2>2. Controlled(h.p, f, h.p.counter, "FINISHED")
    <3>1. "FINISHED" \in States /\ 0 \in 0 .. 4
      BY DEF States
    <3> QED BY <1>1, <3>1, ControlSet
  <2>3. InHeaderStart(h, data[i]) = g
    BY <2>1 DEF InHeaderStart
  <2>4. g = [h EXCEPT !.p = q]
    BY <1>1
  <2> HIDE DEF f, g
  <2>5. q \in Part /\ Results(f, q) /\ q.state = "FINISHED" /\ q.CurrFileS = 0
    BY <2>2, FileEnds DEF Controlled
  <2> HIDE DEF q
  <2>6. g \in HeadType /\ g.p = q
    BY <1>1, <2>4, <2>5 DEF HeadType
  <2> DEFINE r == [g EXCEPT !.used = i]
  <2>7. HeadStep(h, data, i) = r
    BY <2>1, <2>3, Zenon DEF HeadStep
  <2>8. r \in HeadType /\ r.p = q
    BY <1>2, <2>6
  <2> HIDE DEF r
  <2>9. Results(p0, q)
    BY <1>1, <2>2, <2>5, ResultsTrans, Zenon DEF Controlled
  <2>10. ~(1 + 1 < 2)
    OBVIOUS
  <2> QED BY <1>4, <2>5, <2>7, <2>8, <2>9, <2>10 DEF Closing
<1>5. CASE j >= 2
  <2>0. ~(j < 2) /\ ~(j + 1 < 2)
    BY <1>5
  <2>1. h.p.state = "FINISHED" /\ h.p.CurrFileS = 0
    BY <2>0 DEF Closing
  <2> DEFINE q == OnFileEnd(h.p)
             r == [h EXCEPT !.p = q, !.over = TRUE]
  <2>2. q \in Part /\ Results(h.p, q) /\ q.state = "FINISHED" /\ q.CurrFileS = 0
    BY <1>1, <2>1, FileEnds
  <2> HIDE DEF q
  <2>3. r \in HeadType /\ r.p = q
    BY <1>1, <2>2 DEF HeadType
  <2>4. HeadStep(h, data, i) = h \/ HeadStep(h, data, i) = r
    BY <2>1, Zenon DEF HeadStep, q
  <2> HIDE DEF r
  <2>5. Results(p0, q)
    BY <1>1, <2>2, ResultsTrans
  <2> QED BY <1>1, <2>0, <2>1, <2>2, <2>3, <2>4, <2>5 DEF Closing
<1> QED BY <1>3, <1>4, <1>5

\* What follows the last boundary may come in any pieces.
LEMMA ClosingGrown ==
  ASSUME NEW b \in Seq(Symbols), NEW s \in Nat, Len(b) = s + 4, b[s + 1] = "-", b[s + 2] = "-",
         NEW p, NEW q, NEW bf, NEW ps, NEW g \in 0 .. 4, NEW g2 \in g .. 4,
         InClosing(p, q, bf, ps, s, g)
  PROVE  InClosing(AppendToCurrentPart(p, Slice(b, s + g, s + g2)), q, bf, ps, s, g2)
<1> DEFINE data == Slice(b, s + g, s + g2)
           n == g2 - g
<1>1. /\ data \in Seq(Symbols) /\ Len(data) = n /\ n \in Nat
      /\ \A i \in 1 .. n : data[i] = b[s + g + i]
  <2>1. /\ s + g \in Nat /\ s + g2 \in Nat /\ s + g <= s + g2 /\ s + g2 <= Len(b)
        /\ (s + g2) - (s + g) = n /\ n \in Nat
    OBVIOUS
  <2>2. /\ Slice(b, s + g, s + g2) \in Seq(Symbols)
        /\ Len(Slice(b, s + g, s + g2)) = (s + g2) - (s + g)
        /\ \A j \in 1 .. (s + g2) - (s + g) : Slice(b, s + g, s + g2)[j] = b[s + g + j]
    BY ZenonT(60), <2>1, PieceFacts
  <2> QED BY <2>1, <2>2
<1>2. p \in Part /\ Base(p, q, bf, ps, s + g)
  BY DEF InClosing, Base
<1>3. \A r : r \in Part /\ Results(p, r) => Base(r, q, bf, ps, s + g2)
  <2>1. s + g \in Nat /\ s + g2 \in Nat /\ s + g <= s + g2
    OBVIOUS
  <2> QED BY <1>2, <2>1, BaseKept
<1> HIDE DEF data
<1>4. CASE data = << >> \/ p.state = "FINISHED"
  <2>1. AppendToCurrentPart(p, data) = p
    BY <1>4, Zenon DEF AppendToCurrentPart
  <2>2. Base(p, q, bf, ps, s + g2)
    BY <1>2, <1>3, ResultsSame
  <2>3. CASE data = << >>
    <3>1. g2 = g
      BY <1>1, <2>3
    <3> QED BY <2>1, <3>1 DEF data
  <2>4. CASE p.state = "FINISHED"
    <3>1. ~(g < 2) /\ ~(g2 < 2) /\ p.CurrFileS = 0
      BY <2>4 DEF InClosing
    <3> QED BY <2>1, <2>2, <2>4, <3>1, Zenon DEF InClosing, data
  <2> QED BY <1>4, <2>3, <2>4
<1>5. CASE ~(data = << >> \/ p.state = "FINISHED")
  <2>1. PICK H : Heads(H, p, data)
    BY <1>1, HeadSteps
  <2>2. g < 2 /\ p.state = "HEADERSTART" /\ p.counter = g
    BY <1>5 DEF InClosing
  <2> DEFINE S == {i \in 0 .. n : Closing(H[i], p, g + i)}
  <2>3. 0 \in S
    <3> DEFINE h == [p |-> p, used |-> 0, from |-> 0, over |-> FALSE]
    <3>1. h \in HeadType /\ h.p = p /\ ~h.over
      BY <1>2 DEF HeadType
    <3>2. H[0] = h
      BY <2>1, Zenon DEF Heads
    <3> HIDE DEF h
    <3>3. g + 0 = g /\ 0 \in 0 .. n
      BY <1>1
    <3>4. Closing(h, p, g)
      BY <2>2, <3>1, ResultsSame, Zenon DEF Closing
    <3> QED BY <3>2, <3>3, <3>4
  <2>4. ASSUME NEW i \in 0 .. n - 1, i \in S PROVE i + 1 \in S
    <3>1. /\ i + 1 \in 1 .. n /\ (i + 1) - 1 = i /\ i + 1 \in 0 .. n /\ i + 1 \in Nat
          /\ g + i \in Nat /\ (g + i) + 1 = g + (i + 1)
      BY <1>1
    <3>2. H[i + 1] = HeadStep(H[i], data, i + 1)
      BY <1>1, <2>1, <3>1 DEF Heads
    <3>3. Closing(H[i], p, g + i)
      BY <2>4
    <3>4. g + i < 2 => data[i + 1] = "-"
      <4>1. data[i + 1] = b[s + g + (i + 1)]
        BY <1>1, <3>1
      <4>2. g + i < 2 => s + g + (i + 1) = s + 1 \/ s + g + (i + 1) = s + 2
        BY <3>1
      <4> QED BY <4>1, <4>2
    <3>5. Closing(HeadStep(H[i], data, i + 1), p, (g + i) + 1)
      BY <3>1, <3>3, <3>4, ClosingStep
    <3> QED BY <3>1, <3>2, <3>5
  <2>5. \A i \in 0 .. n - 1 : i \in S => i + 1 \in S
    BY <2>4
  <2> HIDE DEF S
  <2>6. n \in S
    BY SMTT(30), <1>1, <2>3, <2>5, SetInduction
  <2> DEFINE h == HeadOf(p, data)
  <2>7. Closing(h, p, g2)
    <3>1. g + n = g2
      BY <1>1
    <3>2. HeadOf(p, data) = H[n]
      BY <1>1, <2>1, Zenon DEF Heads
    <3> QED BY <2>6, <3>1, <3>2 DEF S
  <2> HIDE DEF h
  <2>8. /\ h.p \in Part /\ Results(p, h.p) /\ h.p.state # "READ" /\ h.p.state # "HEADERS_END"
        /\ IF g2 < 2 THEN h.p.state = "HEADERSTART" /\ h.p.counter = g2
                     ELSE h.p.state = "FINISHED" /\ h.p.CurrFileS = 0
    BY <2>7 DEF Closing, HeadType
  <2>9. AppendToCurrentPart(p, data) = h.p
    BY <1>5, <2>8, Zenon DEF AppendToCurrentPart, h
  <2>10. Base(h.p, q, bf, ps, s + g2)
    BY <1>3, <2>8
  <2> QED BY <2>8, <2>9, <2>10, Zenon DEF InClosing, data
<1> QED BY <1>4, <1>5

-----------------------------------------------------------------------------
(* What a part has when some of its cells have come.                       *)

\* What is sent of a part when m of its symbols have come.
LEMMA CutFacts ==
  ASSUME NEW pt \in PartOf, NEW m \in 0 .. Len(pt.data)
  PROVE  /\ Cut(pt, m).file = pt.file /\ Cut(pt, m).name = pt.name
         /\ Cut(pt, m).data = SubSeq(pt.data, 1, m)
         /\ Cut(pt, m).data \in Seq(Symbols) /\ pt.file \in BOOLEAN /\ pt.name \in Names
         /\ m = Len(pt.data) => Cut(pt, m) = pt
<1>1. pt.data \in Seq(Symbols) /\ pt.file \in BOOLEAN /\ pt.name \in Names /\ Len(pt.data) \in Nat
  BY QueryAssumption DEF PartOf
<1>2. /\ Cut(pt, m).file = pt.file /\ Cut(pt, m).name = pt.name
      /\ Cut(pt, m).data = SubSeq(pt.data, 1, m)
  BY DEF PartOf, Cut
<1>3. SubSeq(pt.data, 1, m) \in Seq(Symbols)
  <2>1. Slice(pt.data, 0, m) \in Seq(Symbols) /\ 0 + 1 = 1
    BY <1>1, PieceFacts
  <2> QED BY <2>1 DEF Slice
<1>4. ASSUME m = Len(pt.data) PROVE Cut(pt, m) = pt
  <2>1. SubSeq(pt.data, 1, m) = pt.data
    BY <1>1, <1>4, WholeSubSeq
  <2>2. Cut(pt, m) = [pt EXCEPT !.data = pt.data]
    BY <2>1 DEF Cut
  <2> QED BY <2>2 DEF PartOf
<1> QED BY <1>1, <1>2, <1>3, <1>4

\* More of the part comes.
LEMMA CutGrows ==
  ASSUME NEW pt \in PartOf, NEW m \in Nat, NEW n \in m .. Len(pt.data)
  PROVE  /\ Slice(pt.data, m, n) \in Seq(Symbols) /\ Len(Slice(pt.data, m, n)) = n - m
         /\ Cut(pt, n).data = Cut(pt, m).data \o Slice(pt.data, m, n)
<1>1. pt.data \in Seq(Symbols) /\ Len(pt.data) \in Nat
  BY QueryAssumption DEF PartOf
<1>2. m \in 0 .. Len(pt.data) /\ n \in 0 .. Len(pt.data) /\ m <= n /\ n <= Len(pt.data) /\ n \in Nat
  BY <1>1
<1>3. Slice(pt.data, m, n) \in Seq(Symbols) /\ Len(Slice(pt.data, m, n)) = n - m
  BY ZenonT(60), <1>1, <1>2, PieceFacts
<1>4. Cut(pt, m).data = SubSeq(pt.data, 1, m) /\ Cut(pt, n).data = SubSeq(pt.data, 1, n)
  BY <1>2, CutFacts
<1>5. SubSeq(pt.data, 1, m) \o SubSeq(pt.data, m + 1, n) = SubSeq(pt.data, 1, n)
  <2>1. 1 \in 1 .. Len(pt.data) + 1 /\ m \in 1 - 1 .. Len(pt.data) /\ n \in m .. Len(pt.data)
    BY <1>1, <1>2
  <2> QED BY <1>1, <2>1, ConcatAdjacentSubSeq
<1> QED BY <1>3, <1>4, <1>5 DEF Slice

\* A value of a map is replaced.
LEMMA MapExcept ==
  ASSUME NEW A, NEW B, NEW f \in Map(A, B), NEW a \in DOMAIN f, NEW v \in B
  PROVE  /\ [f EXCEPT ![a] = v] \in Map(A, B) /\ DOMAIN [f EXCEPT ![a] = v] = DOMAIN f
         /\ [f EXCEPT ![a] = v][a] = v
         /\ \A x \in DOMAIN f : x # a => [f EXCEPT ![a] = v][x] = f[x]
<1>1. PICK D \in SUBSET A : f \in [D -> B]
  BY DEF Map
<1>2. [f EXCEPT ![a] = v] \in [D -> B] /\ DOMAIN f = D
  BY <1>1
<1>3. [f EXCEPT ![a] = v] \in Map(A, B)
  BY <1>2, Zenon DEF Map
<1> QED BY <1>1, <1>2, <1>3

\* The value of a key that was stored is replaced.
LEMMA StoredAgain ==
  ASSUME NEW map, NEW a, NEW x, NEW y
  PROVE  [Stored(map, a, x) EXCEPT ![a] = y] = Stored(map, a, y)
BY DEF Stored

\* The content of a part is read.
Reading(p, q, bf, done, pt, m, g) ==
  /\ Base(p, q, bf, Append(done, Cut(pt, m)), g)
  /\ p.state = "READ" /\ p.target = pt.name /\ p.isFile = pt.file
  /\ p.isFile => pt.name \in DOMAIN p.FileMap /\ p.CurrFileS = p.FileMap[pt.name]

\* The maps of the parts so far, with what has come of the next one.
LEMMA MeantCut ==
  ASSUME NEW done \in Seq(PartOf), NEW pt \in PartOf, NEW m \in 0 .. Len(pt.data), NEW q
  PROVE  /\ Meant(q, Append(done, Cut(pt, m)))
              = IF pt.file THEN Meant(q, done)
                           ELSE Stored(Meant(q, done), <<pt.name>>, Cut(pt, m).data)
         /\ Contents(Append(done, Cut(pt, m)), TRUE)
              = IF pt.file THEN Stored(Contents(done, TRUE), pt.name, Cut(pt, m).data)
                           ELSE Contents(done, TRUE)
<1> DEFINE c == Cut(pt, m)
           X == PartOf \union {c}
<1>1. c.file = pt.file /\ c.name = pt.name /\ pt.file \in BOOLEAN
  BY CutFacts
<1> HIDE DEF c
<1>2. done \in Seq(X) /\ c \in X
  BY ElementOfSeq
<1> HIDE DEF X
<1>3. Meant(q, Append(done, c))
        = IF c.file THEN Meant(q, done) ELSE Stored(Meant(q, done), <<c.name>>, c.data)
  BY <1>1, <1>2, MeantAppend
<1>4. Contents(Append(done, c), TRUE)
        = IF c.file = TRUE THEN Stored(Contents(done, TRUE), c.name, c.data)
                           ELSE Contents(done, TRUE)
  BY <1>2, ContentsAppend
<1> QED BY <1>1, <1>3, <1>4 DEF c

\* Nothing but the parameters is set.
ParamSet(p, r, v) ==
  /\ r \in Part /\ r.ParamMap = v /\ r.FileMap = p.FileMap /\ r.disk = p.disk
  /\ r.created = p.created /\ r.limit = p.limit /\ r.totalLimit = p.totalLimit
  /\ r.CurrFileSize = p.CurrFileSize /\ r.TotalFileSize = p.TotalFileSize
  /\ r.state = p.state /\ r.target = p.target /\ r.isFile = p.isFile /\ r.CurrFileS = p.CurrFileS

\* Setting the parameters sets nothing else.
LEMMA ParamSets ==
  ASSUME NEW p \in Part, NEW v \in Map(Seq(STRING), Seq(STRING))
  PROVE  ParamSet(p, [p EXCEPT !.ParamMap = v], v)
BY DEF Part, ParamSet

\* Nothing but the disk and the sizes are set.
DiskSet(p, r, v, size) ==
  /\ r \in Part /\ r.ParamMap = p.ParamMap /\ r.FileMap = p.FileMap /\ r.disk = v
  /\ r.created = p.created /\ r.limit = p.limit /\ r.totalLimit = p.totalLimit
  /\ r.CurrFileSize = size /\ r.TotalFileSize = size
  /\ r.state = p.state /\ r.target = p.target /\ r.isFile = p.isFile /\ r.CurrFileS = p.CurrFileS

\* Writing to a file sets its content and the sizes.
LEMMA DiskSets ==
  ASSUME NEW p \in Part, NEW v \in Map(Nat, Seq(STRING)), NEW size \in Nat
  PROVE  DiskSet(p, [p EXCEPT !.CurrFileSize = size, !.TotalFileSize = size, !.disk = v], v, size)
BY DEF Part, DiskSet

\* Symbols are strings.
LEMMA SymbolsAreStrings ==
  \A s \in Seq(Symbols) : s \in Seq(STRING)
<1> DEFINE Y == Symbols
<1>1. Y \subseteq STRING
  BY QueryAssumption
<1> HIDE DEF Y
<1>2. ASSUME NEW s \in Seq(Y) PROVE s \in Seq(STRING)
  <2>1. \A i \in 1 .. Len(s) : s[i] \in STRING
    <3>1. \A i \in 1 .. Len(s) : s[i] \in Y
      OBVIOUS
    <3> QED BY <1>1, <3>1, Zenon
  <2>2. s = [i \in 1 .. Len(s) |-> s[i]] /\ Len(s) \in Nat
    OBVIOUS
  <2> QED BY <2>1, <2>2
<1> QED BY <1>2 DEF Y

\* What a map has when a value was stored.
Holds(t, map, a, x) ==
  /\ DOMAIN t = {a} \union DOMAIN map /\ t[a] = x
  /\ \A b \in DOMAIN map : b # a => t[b] = map[b]
  /\ t = [b \in DOMAIN t |-> t[b]]

\* What is stored is held, and the rest is as it was.
LEMMA StoredHolds ==
  \A map, a, x : Holds(Stored(map, a, x), map, a, x)
BY DEF Stored, Holds

\* The content of a parameter grows.
LEMMA StringGrown ==
  ASSUME NEW p, NEW q, NEW bf, NEW done \in Seq(PartOf), NEW pt \in PartOf, ~pt.file,
         NEW m \in Nat, NEW m2 \in m .. Len(pt.data), NEW g \in Nat, NEW g2 \in Nat, g <= g2,
         Reading(p, q, bf, done, pt, m, g)
  PROVE  Reading(InContent(p, Slice(pt.data, m, m2)), q, bf, done, pt, m2, g2)
<1> DEFINE data == Slice(pt.data, m, m2)
           A == Meant(q, done)
           c == Cut(pt, m).data
           c2 == Cut(pt, m2).data
           k == <<pt.name>>
<1>0. m \in 0 .. Len(pt.data) /\ m2 \in 0 .. Len(pt.data)
  BY QueryAssumption DEF PartOf
<1>1. data \in Seq(Symbols) /\ c2 = c \o data /\ c2 \in Seq(Symbols) /\ c \in Seq(Symbols)
  BY <1>0, CutGrows, CutFacts
<1>2. pt.name \in Names /\ pt.name # None
  BY PointerAssumption DEF PartOf
<1>3. /\ Base(p, q, bf, Append(done, Cut(pt, m)), g) /\ p.state = "READ" /\ p.target = pt.name
      /\ p.isFile = pt.file
  BY Zenon DEF Reading
<1>4. /\ p \in Part /\ p.ParamMap = Meant(q, Append(done, Cut(pt, m)))
      /\ [n \in DOMAIN p.FileMap |-> p.disk[p.FileMap[n]]] = Contents(Append(done, Cut(pt, m)), TRUE)
      /\ Owned(p.FileMap, p.disk, p.created, bf) /\ p.limit = Unlimited /\ p.totalLimit = Unlimited
      /\ p.CurrFileSize = p.TotalFileSize /\ p.TotalFileSize <= g
  BY <1>3, Zenon DEF Base
<1>5. p.ParamMap = Stored(A, k, c) /\ Contents(Append(done, Cut(pt, m)), TRUE) = Contents(done, TRUE)
  BY <1>0, <1>4, MeantCut, Zenon
<1>6. /\ Meant(q, Append(done, Cut(pt, m2))) = Stored(A, k, c2)
      /\ Contents(Append(done, Cut(pt, m2)), TRUE) = Contents(done, TRUE)
  BY <1>0, MeantCut, Zenon
<1> HIDE DEF c, c2, data, A
<1> DEFINE v == Stored(A, k, c2)
           r == [p EXCEPT !.ParamMap = v]
<1>7. InContent(p, data) = r
  <2>0. Holds(p.ParamMap, A, k, c)
    BY <1>5, StoredHolds, Zenon
  <2>1. p.ParamMap[k] = c
    BY <2>0 DEF Holds
  <2>2. [p.ParamMap EXCEPT ![k] = c2] = v
    BY <1>5, StoredAgain
  <2>3. InContent(p, data) = [p EXCEPT !.ParamMap[k] = @ \o data]
    BY <1>2, <1>3, Zenon DEF InContent
  <2>4. [p EXCEPT !.ParamMap[k] = @ \o data] = [p EXCEPT !.ParamMap = [p.ParamMap EXCEPT ![k] = p.ParamMap[k] \o data]]
    BY Zenon
  <2> QED BY <1>1, <2>1, <2>2, <2>3, <2>4
<1>8. v \in Map(Seq(STRING), Seq(STRING))
  <2>1. p.ParamMap \in Map(Seq(STRING), Seq(STRING))
    BY <1>4 DEF Part
  <2>2. k \in DOMAIN p.ParamMap /\ c2 \in Seq(STRING)
    <3>1. Holds(p.ParamMap, A, k, c)
      BY <1>5, StoredHolds, Zenon
    <3> QED BY <1>1, <3>1, SymbolsAreStrings DEF Holds
  <2>3. [p.ParamMap EXCEPT ![k] = c2] \in Map(Seq(STRING), Seq(STRING))
    BY <2>1, <2>2, MapExcept
  <2>4. [p.ParamMap EXCEPT ![k] = c2] = v
    BY <1>5, StoredAgain
  <2> QED BY <2>3, <2>4
<1> HIDE DEF v
<1>9. ParamSet(p, r, v)
  BY <1>4, <1>8, ParamSets
<1> HIDE DEF r
<1>10. p.TotalFileSize <= g2
  <2>1. p.TotalFileSize \in Nat
    BY <1>4 DEF Part
  <2> QED BY <1>4, <2>1
<1>11. Base(r, q, bf, Append(done, Cut(pt, m2)), g2)
  BY <1>4, <1>5, <1>6, <1>9, <1>10, Zenon DEF ParamSet, Base, v
<1>12. Reading(r, q, bf, done, pt, m2, g2)
  BY <1>3, <1>9, <1>11, Zenon DEF ParamSet, Reading
<1> QED BY <1>7, <1>12 DEF data

\* The content of a file grows.
LEMMA FileGrown ==
  ASSUME NEW p, NEW q, NEW bf, NEW done \in Seq(PartOf), NEW pt \in PartOf, pt.file,
         NEW m \in Nat, NEW m2 \in m .. Len(pt.data), NEW g \in Nat, NEW g2 \in Nat,
         g2 = g + (m2 - m), g2 <= Unlimited,
         Reading(p, q, bf, done, pt, m, g)
  PROVE  Reading(InContent(p, Slice(pt.data, m, m2)), q, bf, done, pt, m2, g2)
<1> DEFINE data == Slice(pt.data, m, m2)
           A == Contents(done, TRUE)
           c == Cut(pt, m).data
           c2 == Cut(pt, m2).data
           k == pt.name
           F == p.CurrFileS
           size == p.TotalFileSize + Len(data)
<1>0. m \in 0 .. Len(pt.data) /\ m2 \in 0 .. Len(pt.data)
  BY QueryAssumption DEF PartOf
<1>1. data \in Seq(Symbols) /\ c2 = c \o data /\ c2 \in Seq(Symbols) /\ c \in Seq(Symbols) /\ Len(data) = m2 - m
  <2>1. data \in Seq(Symbols) /\ Len(data) = m2 - m /\ c2 = c \o data
    BY CutGrows
  <2>2. c2 \in Seq(Symbols) /\ c \in Seq(Symbols)
    BY <1>0, CutFacts
  <2> QED BY <2>1, <2>2
<1>2. pt.name \in Names /\ pt.name # None
  BY PointerAssumption DEF PartOf
<1>3. /\ Base(p, q, bf, Append(done, Cut(pt, m)), g) /\ p.state = "READ" /\ p.target = pt.name
      /\ p.isFile = pt.file /\ pt.file = TRUE /\ k \in DOMAIN p.FileMap /\ F = p.FileMap[k]
  <2>1. pt.file = TRUE
    BY DEF PartOf
  <2> QED BY <2>1, Zenon DEF Reading
<1>4. /\ p \in Part /\ p.ParamMap = Meant(q, Append(done, Cut(pt, m)))
      /\ [n \in DOMAIN p.FileMap |-> p.disk[p.FileMap[n]]] = Contents(Append(done, Cut(pt, m)), TRUE)
      /\ Owned(p.FileMap, p.disk, p.created, bf) /\ p.limit = Unlimited /\ p.totalLimit = Unlimited
      /\ p.CurrFileSize = p.TotalFileSize /\ p.TotalFileSize <= g
  BY <1>3, Zenon DEF Base
<1>5. /\ Contents(Append(done, Cut(pt, m)), TRUE) = Stored(A, k, c)
      /\ Meant(q, Append(done, Cut(pt, m))) = Meant(q, done)
  BY <1>0, <1>3, MeantCut, Zenon
<1>6. /\ Contents(Append(done, Cut(pt, m2)), TRUE) = Stored(A, k, c2)
      /\ Meant(q, Append(done, Cut(pt, m2))) = Meant(q, done)
  BY <1>0, <1>3, MeantCut, Zenon
<1> DEFINE T(d) == [n \in DOMAIN p.FileMap |-> d[p.FileMap[n]]]
<1> HIDE DEF c, c2, data, A
<1>7. /\ bf \in 0 .. p.created /\ DOMAIN p.disk \subseteq 1 .. p.created
      /\ \A n \in DOMAIN p.FileMap : p.FileMap[n] \in DOMAIN p.disk /\ p.FileMap[n] > bf
      /\ \A i, n \in DOMAIN p.FileMap : p.FileMap[i] = p.FileMap[n] => i = n
      /\ \A f \in DOMAIN p.disk : f > bf => \E n \in DOMAIN p.FileMap : p.FileMap[n] = f
  BY <1>4, Zenon DEF Owned
<1>8. /\ p.disk \in Map(Nat, Seq(STRING)) /\ p.TotalFileSize \in Nat /\ F \in Nat /\ F \in DOMAIN p.disk
      /\ F # 0 /\ p.created \in Nat
  <2>1. p.disk \in Map(Nat, Seq(STRING)) /\ p.TotalFileSize \in Nat /\ F \in Nat /\ p.created \in Nat
    BY <1>4 DEF Part
  <2>2. F \in DOMAIN p.disk
    BY <1>3, <1>7
  <2>3. F \in 1 .. p.created
    BY <1>7, <2>2
  <2> QED BY <2>1, <2>2, <2>3
<1>9. size \in Nat /\ size <= g2 /\ ~(size > Unlimited)
  BY SMTT(30), <1>1, <1>4, <1>8, QueryAssumption
<1> DEFINE old == p.disk
           w == [old EXCEPT ![F] = c2]
           r == [p EXCEPT !.CurrFileSize = size, !.TotalFileSize = size, !.disk = w]
<1>10. old[F] = c
  <2>1. T(old) = Stored(A, k, c)
    BY <1>4, <1>5
  <2>2. Holds(Stored(A, k, c), A, k, c)
    BY StoredHolds
  <2>3. T(old)[k] = c
    <3>1. Stored(A, k, c)[k] = c
      BY <2>2, Zenon DEF Holds
    <3> QED BY <2>1, <3>1
  <2> QED BY <1>3, <2>3
<1>11. InContent(p, data) = r
  <2>1. InContent(p, data) = OnFileData(p, data)
    BY <1>2, <1>3, Zenon DEF InContent
  <2>2. p.CurrFileSize + Len(data) = size /\ p.limit = Unlimited /\ p.totalLimit = Unlimited
    BY <1>4
  <2>3. OnFileData(p, data) = [p EXCEPT !.CurrFileSize = size, !.TotalFileSize = size, !.disk[F] = @ \o data]
    BY <1>8, <1>9, <2>2, Zenon DEF OnFileData
  <2>4. [p EXCEPT !.CurrFileSize = size, !.TotalFileSize = size, !.disk[F] = @ \o data]
        = [p EXCEPT !.CurrFileSize = size, !.TotalFileSize = size, !.disk = [old EXCEPT ![F] = old[F] \o data]]
    BY Zenon
  <2> QED BY <1>1, <1>10, <2>1, <2>3, <2>4
<1>12. /\ w \in Map(Nat, Seq(STRING)) /\ DOMAIN w = DOMAIN old /\ w[F] = c2
       /\ \A x \in DOMAIN old : x # F => w[x] = old[x]
  <2>1. c2 \in Seq(STRING) /\ old \in Map(Nat, Seq(STRING)) /\ F \in DOMAIN old
    BY <1>1, <1>8, SymbolsAreStrings
  <2> HIDE DEF old, F
  <2> QED BY <2>1, MapExcept
<1> HIDE DEF w
<1>13. DiskSet(p, r, w, size)
  <2> HIDE DEF size
  <2> QED BY <1>4, <1>9, <1>12, DiskSets
<1>14. T(w) = Stored(A, k, c2)
  <2> DEFINE R == Stored(A, k, c2)
  <2>1. DOMAIN R = {k} \union DOMAIN A /\ R[k] = c2 /\ \A x \in DOMAIN A : x # k => R[x] = A[x]
    <3>1. Holds(R, A, k, c2)
      BY StoredHolds, Zenon
    <3> QED BY <3>1, Zenon DEF Holds
  <2>2. /\ DOMAIN T(old) = {k} \union DOMAIN A
        /\ \A x \in DOMAIN A : x # k => T(old)[x] = A[x]
    <3>1. T(old) = Stored(A, k, c)
      BY <1>4, <1>5
    <3>2. Holds(Stored(A, k, c), A, k, c)
      BY StoredHolds
    <3> DEFINE t == T(old)
               u == Stored(A, k, c)
    <3>3. t = u /\ Holds(u, A, k, c)
      BY <3>1, <3>2
    <3> HIDE DEF t, u
    <3>4. DOMAIN t = {k} \union DOMAIN A /\ \A x \in DOMAIN A : x # k => t[x] = A[x]
      BY <3>3, Zenon DEF Holds
    <3> QED BY <3>4 DEF t
  <2>3. DOMAIN p.FileMap = {k} \union DOMAIN A /\ \A x \in DOMAIN A : x # k => old[p.FileMap[x]] = A[x]
    <3>1. DOMAIN T(old) = DOMAIN p.FileMap /\ \A x \in DOMAIN p.FileMap : T(old)[x] = old[p.FileMap[x]]
      OBVIOUS
    <3> QED BY <2>2, <3>1
  <2>4. \A x \in DOMAIN p.FileMap : w[p.FileMap[x]] = R[x]
    <3> SUFFICES ASSUME NEW x \in DOMAIN p.FileMap PROVE w[p.FileMap[x]] = R[x]
      OBVIOUS
    <3> HIDE DEF R
    <3>1. CASE x = k
      BY <1>3, <1>12, <2>1, <3>1
    <3>2. CASE x # k
      <4>1. x \in DOMAIN A /\ p.FileMap[x] # F /\ p.FileMap[x] \in DOMAIN old
        BY <1>3, <1>7, <2>3, <3>2
      <4> QED BY <1>12, <2>1, <2>3, <3>2, <4>1
    <3> QED BY <3>1, <3>2
  <2>5. R = [x \in DOMAIN R |-> R[x]]
    BY DEF Stored
  <2> HIDE DEF R
  <2>6. T(w) = R
    BY <2>1, <2>3, <2>4, <2>5
  <2> QED BY <2>6 DEF R
<1>15. Owned(p.FileMap, w, p.created, bf)
  BY <1>7, <1>12, Zenon DEF Owned
<1> HIDE DEF r, size
<1>16. Base(r, q, bf, Append(done, Cut(pt, m2)), g2)
  BY <1>4, <1>5, <1>6, <1>9, <1>13, <1>14, <1>15, Zenon DEF DiskSet, Base
<1>17. Reading(r, q, bf, done, pt, m2, g2)
  BY <1>3, <1>13, <1>16, Zenon DEF DiskSet, Reading
<1> QED BY <1>11, <1>17 DEF data

\* The content of a part may come in any pieces.
LEMMA ContentGrown ==
  ASSUME NEW p, NEW q, NEW bf, NEW done \in Seq(PartOf), NEW pt \in PartOf,
         NEW m \in Nat, NEW m2 \in m .. Len(pt.data), NEW g \in Nat, NEW g2 \in Nat,
         g2 = g + (m2 - m), g2 <= Unlimited,
         Reading(p, q, bf, done, pt, m, g)
  PROVE  Reading(InContent(p, Slice(pt.data, m, m2)), q, bf, done, pt, m2, g2)
<1>1. g <= g2
  BY QueryAssumption DEF PartOf
<1> QED BY <1>1, StringGrown, FileGrown

-----------------------------------------------------------------------------
(* AppendToCurrentPart() in a part's headers.                              *)

\* A piece of a piece, and two pieces that meet.
LEMMA SlicePieces ==
  ASSUME NEW X, NEW b \in Seq(X), NEW x \in Nat, NEW y \in Nat, x <= y, y <= Len(b)
  PROVE  /\ \A m, n \in Nat : m <= n /\ n <= y - x =>
              Slice(Slice(b, x, y), m, n) = Slice(b, x + m, x + n)
         /\ \A z \in Nat : y <= z /\ z <= Len(b) => Slice(b, x, y) \o Slice(b, y, z) = Slice(b, x, z)
<1> DEFINE a == Slice(b, x, y)
<1>1. a \in Seq(X) /\ Len(a) = y - x /\ \A j \in 1 .. y - x : a[j] = b[x + j]
  BY PieceFacts
<1> HIDE DEF a
<1>2. ASSUME NEW m \in Nat, NEW n \in Nat, m <= n, n <= y - x
      PROVE  Slice(a, m, n) = Slice(b, x + m, x + n)
  <2> DEFINE u == Slice(a, m, n)
             v == Slice(b, x + m, x + n)
  <2>1. u \in Seq(X) /\ Len(u) = n - m /\ \A j \in 1 .. n - m : u[j] = a[m + j]
    <3>1. n <= Len(a) /\ a \in Seq(X) /\ m <= n
      BY <1>1, <1>2
    <3> HIDE DEF u
    <3>2. /\ Slice(a, m, n) \in Seq(X) /\ Len(Slice(a, m, n)) = n - m
          /\ \A j \in 1 .. n - m : Slice(a, m, n)[j] = a[m + j]
      BY <3>1, PieceFacts
    <3> QED BY <3>2 DEF u
  <2>2. v \in Seq(X) /\ Len(v) = n - m /\ \A j \in 1 .. n - m : v[j] = b[(x + m) + j]
    <3>1. /\ x + m \in Nat /\ x + n \in Nat /\ x + m <= x + n /\ x + n <= Len(b)
          /\ (x + n) - (x + m) = n - m
      BY <1>2
    <3>2. /\ Slice(b, x + m, x + n) \in Seq(X) /\ Len(Slice(b, x + m, x + n)) = (x + n) - (x + m)
          /\ \A j \in 1 .. (x + n) - (x + m) : Slice(b, x + m, x + n)[j] = b[(x + m) + j]
      BY ZenonT(60), <3>1, PieceFacts
    <3> QED BY <3>1, <3>2
  <2> HIDE DEF u, v
  <2>3. \A j \in 1 .. n - m : u[j] = v[j]
    <3> SUFFICES ASSUME NEW j \in 1 .. n - m PROVE u[j] = v[j]
      OBVIOUS
    <3>1. m + j \in 1 .. y - x /\ x + (m + j) = (x + m) + j
      BY <1>2
    <3> QED BY <1>1, <2>1, <2>2, <3>1
  <2> QED BY <2>1, <2>2, <2>3 DEF u, v
<1>3. ASSUME NEW z \in Nat, y <= z, z <= Len(b)
      PROVE  a \o Slice(b, y, z) = Slice(b, x, z)
  <2>1. x + 1 \in 1 .. Len(b) + 1 /\ y \in (x + 1) - 1 .. Len(b) /\ z \in y .. Len(b)
    BY <1>3
  <2>2. SubSeq(b, x + 1, y) \o SubSeq(b, y + 1, z) = SubSeq(b, x + 1, z)
    BY <2>1, ConcatAdjacentSubSeq
  <2> QED BY <2>2 DEF Slice, a
<1> QED BY <1>2, <1>3 DEF a

\* The part parser with the first j cells of a part, of which this call looked at
\* used; its headers begin behind f of them.
Head0(h, p0, used, f, j) ==
  /\ h \in HeadType /\ Results(p0, h.p) /\ ~h.over /\ h.used = used /\ h.from = f
  /\ h.p.state = HeaderState[j + 1] /\ h.p.counter = HeaderCounter[j + 1]
  /\ h.p.headers = p0.headers /\ h.p.isFile = p0.isFile

\* A character in front of the headers, or of them, changes the counter.
LEMMA CounterStep ==
  ASSUME NEW p0, NEW h, NEW i \in Nat, NEW f, NEW j, NEW k, NEW w \in 0 .. 4,
         Head0(h, p0, i - 1, f, j), HeaderState[k + 1] = HeaderState[j + 1], HeaderCounter[k + 1] = w,
         NEW r, r = [[h EXCEPT !.p.counter = w] EXCEPT !.used = i]
  PROVE  Head0(r, p0, i, f, k)
<1>1. h \in HeadType /\ h.p \in Part /\ Results(p0, h.p)
  BY DEF Head0, HeadType
<1> DEFINE q == [h.p EXCEPT !.counter = w]
<1>2. Controlled(h.p, q, w, h.p.state)
  <2>1. "READ" \in States
    BY DEF States
  <2> QED BY <1>1, <2>1, ControlSet
<1>3. r = [h EXCEPT !.p = q, !.used = i]
  BY <1>1 DEF HeadType
<1> HIDE DEF q
<1>4. r \in HeadType /\ r.p = q /\ r.used = i /\ r.from = h.from /\ r.over = h.over
  BY <1>1, <1>2, <1>3 DEF HeadType, Controlled
<1>5. Results(p0, q)
  BY <1>1, <1>2, ResultsTrans, Zenon DEF Controlled
<1> QED BY <1>2, <1>4, <1>5, Zenon DEF Head0, Controlled

\* The headers begin.
LEMMA HeadersStep ==
  ASSUME NEW p0, NEW h, NEW i \in Nat, i > 0, NEW f, Head0(h, p0, i - 1, f, 1),
         NEW r, r = [[h EXCEPT !.p = [@ EXCEPT !.counter = 0, !.state = "HEADERS_END"],
                               !.from = h.used + 1] EXCEPT !.used = i]
  PROVE  Head0(r, p0, i, i, 2)
<1>1. h \in HeadType /\ h.p \in Part /\ Results(p0, h.p) /\ h.used + 1 = i
  BY DEF Head0, HeadType
<1> DEFINE q == [h.p EXCEPT !.counter = 0, !.state = "HEADERS_END"]
<1>2. Controlled(h.p, q, 0, "HEADERS_END")
  <2>1. "HEADERS_END" \in States /\ 0 \in 0 .. 4
    BY DEF States
  <2> QED BY <1>1, <2>1, ControlSet
<1>3. r = [h EXCEPT !.p = q, !.from = i, !.used = i]
  BY <1>1 DEF HeadType
<1> HIDE DEF q
<1>4. r \in HeadType /\ r.p = q /\ r.used = i /\ r.from = i /\ r.over = h.over
  BY <1>1, <1>2, <1>3 DEF HeadType, Controlled
<1>5. Results(p0, q)
  BY <1>1, <1>2, ResultsTrans, Zenon DEF Controlled
<1>6. HeaderState[2 + 1] = "HEADERS_END" /\ HeaderCounter[2 + 1] = 0
  BY DEF HeaderState, HeaderCounter
<1> QED BY <1>2, <1>4, <1>5, <1>6, Zenon DEF Head0, Controlled

\* One of the first six cells of a part.
HeadCell(c, j) ==
  /\ j \in {0, 3, 5} => c = "CR"
  /\ j \in {1, 4} => c = "LF"
  /\ j = 2 => c \in HeaderLines

\* The next cell of the headers is taken.
LEMMA HeaderStep ==
  ASSUME NEW p0, NEW h, NEW data, NEW i \in Nat, i > 0, NEW f, NEW j \in 0 .. 5,
         Head0(h, p0, i - 1, f, j), HeadCell(data[i], j)
  PROVE  Head0(HeadStep(h, data, i), p0, i, IF j = 1 THEN i ELSE f, j + 1)
<1>1. ~h.over /\ h.p.state = HeaderState[j + 1] /\ h.p.counter = HeaderCounter[j + 1]
  BY DEF Head0
<1> DEFINE c == data[i]
           r(w) == [[h EXCEPT !.p.counter = w] EXCEPT !.used = i]
           z == [[h EXCEPT !.p = [@ EXCEPT !.counter = 0, !.state = "HEADERS_END"],
                           !.from = h.used + 1] EXCEPT !.used = i]
           n == HeadStep(h, data, i)
<1>2. ASSUME h.p.state = "HEADERSTART" PROVE n = [InHeaderStart(h, c) EXCEPT !.used = i]
  BY <1>1, <1>2, Zenon DEF HeadStep
<1>3. ASSUME h.p.state = "HEADERS_END" PROVE n = [InHeaders(h, c, data) EXCEPT !.used = i]
  BY <1>1, <1>3, Zenon DEF HeadStep
<1>4. CASE j = 0
  <2>1. h.p.state = "HEADERSTART" /\ h.p.counter = 0 /\ c = "CR"
    BY <1>1, <1>4 DEF HeaderState, HeaderCounter, HeadCell
  <2>2. InHeaderStart(h, c) = [h EXCEPT !.p.counter = 1]
    BY <2>1 DEF InHeaderStart
  <2>3. n = r(1)
    BY <1>2, <2>1, <2>2
  <2>4. 1 \in 0 .. 4 /\ HeaderState[1 + 1] = HeaderState[0 + 1] /\ HeaderCounter[1 + 1] = 1
    BY DEF HeaderState, HeaderCounter
  <2> HIDE DEF n
  <2>5. Head0(n, p0, i, f, 1)
    BY <1>4, <2>3, <2>4, CounterStep
  <2>6. j + 1 = 1 /\ j # 1
    BY <1>4
  <2> QED BY <2>5, <2>6 DEF n
<1>5. CASE j = 1
  <2>1. h.p.state = "HEADERSTART" /\ h.p.counter = 1 /\ c = "LF"
    BY <1>1, <1>5 DEF HeaderState, HeaderCounter, HeadCell
  <2>2. InHeaderStart(h, c) = [h EXCEPT !.p = [@ EXCEPT !.counter = 0, !.state = "HEADERS_END"],
                                        !.from = h.used + 1]
    BY <2>1 DEF InHeaderStart
  <2>3. n = z
    BY <1>2, <2>1, <2>2
  <2> HIDE DEF n
  <2>5. Head0(n, p0, i, i, 2)
    BY <1>5, <2>3, HeadersStep
  <2>6. j + 1 = 2
    BY <1>5
  <2> QED BY <1>5, <2>5, <2>6 DEF n
<1>6. CASE j = 2
  <2>0. c \notin {"CR", "LF"}
    <3>1. c \in HeaderLines
      BY <1>6 DEF HeadCell
    <3> QED BY <3>1, OrdinaryCells
  <2>1. h.p.state = "HEADERS_END" /\ h.p.counter = 0
    BY <1>1, <1>6 DEF HeaderState, HeaderCounter
  <2>2. InHeaders(h, c, data) = [h EXCEPT !.p.counter = 0]
    BY <2>0, <2>1 DEF InHeaders, HeadersEnd
  <2>3. n = r(0)
    BY <1>3, <2>1, <2>2
  <2>4. 0 \in 0 .. 4 /\ HeaderState[3 + 1] = HeaderState[2 + 1] /\ HeaderCounter[3 + 1] = 0
    BY DEF HeaderState, HeaderCounter
  <2> HIDE DEF n
  <2>5. Head0(n, p0, i, f, 3)
    BY <1>6, <2>3, <2>4, CounterStep
  <2>6. j + 1 = 3 /\ j # 1
    BY <1>6
  <2> QED BY <2>5, <2>6 DEF n
<1>7. ASSUME NEW w \in 0 .. 2, j = 3 + w PROVE Head0(n, p0, i, f, j + 1)
  <2>1. h.p.state = "HEADERS_END" /\ h.p.counter = w /\ c = HeadersEnd[w + 1]
    BY <1>1, <1>7 DEF HeaderState, HeaderCounter, HeadersEnd, HeadCell
  <2>2. InHeaders(h, c, data) = [h EXCEPT !.p.counter = w + 1]
    <3>1. w < 4 /\ w # 3
      OBVIOUS
    <3>2. InHeaders(h, c, data) = [h EXCEPT !.p.counter = @ + 1]
      BY <2>1, <3>1, Zenon DEF InHeaders
    <3> QED BY <2>1, <3>2
  <2>3. n = r(w + 1)
    BY <1>3, <2>1, <2>2
  <2> DEFINE v == w + 1
             k == j + 1
  <2>4. v \in 0 .. 4 /\ HeaderState[k + 1] = HeaderState[j + 1] /\ HeaderCounter[k + 1] = v
    BY <1>7 DEF HeaderState, HeaderCounter
  <2> HIDE DEF n
  <2>5. n = r(v)
    BY <2>3
  <2> HIDE DEF v, k
  <2>6. Head0(n, p0, i, f, k)
    BY <2>4, <2>5, CounterStep
  <2> QED BY <2>6 DEF n, k
<1>8. CASE j \in 3 .. 5
  <2>1. PICK w \in 0 .. 2 : j = 3 + w
    <3>1. j - 3 \in 0 .. 2 /\ j = 3 + (j - 3)
      BY <1>8
    <3> QED BY <3>1
  <2>2. j # 1
    BY <1>8
  <2> HIDE DEF n
  <2> QED BY <1>7, <2>1, <2>2 DEF n
<1> QED BY <1>4, <1>5, <1>6, <1>8

\* The part parser has got g of the first six cells of a part.
Heading(p, q, bf, b, done, s, g) ==
  /\ Base(p, q, bf, done, s + g)
  /\ p.state = HeaderState[g + 1] /\ p.counter = HeaderCounter[g + 1]
  /\ p.headers = Slice(b, s + 2, s + g)

\* Where in this call's data the headers begin.
From(g, i) == IF g < 2 /\ g + i >= 2 THEN 2 - g ELSE 0

\* The cells of a part in a call's data.
LEMMA HeaderData ==
  ASSUME NEW b \in Seq(Symbols), NEW s, NEW e, NEW pt \in PartOf, PartCells(b, s, e, pt),
         NEW g \in Nat, NEW g2 \in Nat, g <= g2, s + g2 <= e
  PROVE  /\ Slice(b, s + g, s + g2) \in Seq(Symbols) /\ Len(Slice(b, s + g, s + g2)) = g2 - g
         /\ \A i \in 1 .. g2 - g : g + i <= 6 => HeadCell(Slice(b, s + g, s + g2)[i], (g + i) - 1)
<1> DEFINE data == Slice(b, s + g, s + g2)
           n == g2 - g
<1>0. s \in Nat /\ e \in Nat /\ e <= Len(b)
  BY DEF PartCells
<1>1. /\ data \in Seq(Symbols) /\ Len(data) = n /\ n \in Nat
      /\ \A i \in 1 .. n : data[i] = b[(s + g) + i]
  <2>1. /\ s + g \in Nat /\ s + g2 \in Nat /\ s + g <= s + g2 /\ s + g2 <= Len(b)
        /\ (s + g2) - (s + g) = n /\ n \in Nat
    BY <1>0
  <2>2. /\ Slice(b, s + g, s + g2) \in Seq(Symbols)
        /\ Len(Slice(b, s + g, s + g2)) = (s + g2) - (s + g)
        /\ \A j \in 1 .. (s + g2) - (s + g) : Slice(b, s + g, s + g2)[j] = b[(s + g) + j]
    BY ZenonT(60), <2>1, PieceFacts
  <2> QED BY <2>1, <2>2
<1> HIDE DEF data
<1>2. ASSUME NEW i \in 1 .. n, g + i <= 6 PROVE HeadCell(data[i], (g + i) - 1)
  <2>1. PICK j \in 0 .. 5 : j = (g + i) - 1
    BY <1>1, <1>2
  <2>2. data[i] = b[s + (j + 1)]
    <3>1. (s + g) + i = s + (j + 1)
      BY <1>0, <1>1, <2>1
    <3> QED BY <1>1, <3>1
  <2>3. /\ b[s + 1] = "CR" /\ b[s + 2] = "LF" /\ b[s + 3] = Line(pt)
        /\ b[s + 4] = "CR" /\ b[s + 5] = "LF" /\ b[s + 6] = "CR"
    BY DEF PartCells
  <2>4. Line(pt) \in HeaderLines
    BY TextFacts
  <2>5. HeadCell(b[s + (j + 1)], j)
    <3>1. /\ b[s + (0 + 1)] = "CR" /\ b[s + (1 + 1)] = "LF" /\ b[s + (2 + 1)] = Line(pt)
          /\ b[s + (3 + 1)] = "CR" /\ b[s + (4 + 1)] = "LF" /\ b[s + (5 + 1)] = "CR"
      BY <2>3
    <3> QED BY <2>4, <3>1 DEF HeadCell
  <2> QED BY <2>1, <2>2, <2>5
<1> QED BY <1>1, <1>2 DEF data

\* The loop over the first six cells of a part, from any of them.
LEMMA HeaderLoop ==
  ASSUME NEW p \in Part, NEW data, Len(data) \in Nat, NEW g \in 0 .. 6,
         p.state = HeaderState[g + 1], p.counter = HeaderCounter[g + 1],
         \A i \in 1 .. Len(data) : g + i <= 6 => HeadCell(data[i], (g + i) - 1),
         NEW H, Heads(H, p, data), NEW n \in 0 .. Len(data), g + n <= 6
  PROVE  Head0(H[n], p, n, From(g, n), g + n)
<1> DEFINE S == {i \in 0 .. n : Head0(H[i], p, i, From(g, i), g + i)}
<1>1. 0 \in S
  <2> DEFINE h == [p |-> p, used |-> 0, from |-> 0, over |-> FALSE]
  <2>1. h \in HeadType /\ h.p = p /\ ~h.over /\ h.used = 0 /\ h.from = 0
    BY DEF HeadType
  <2>2. H[0] = h
    BY Zenon DEF Heads
  <2> HIDE DEF h
  <2>3. Head0(h, p, 0, 0, g)
    BY <2>1, ResultsSame, Zenon DEF Head0
  <2>4. From(g, 0) = 0 /\ g + 0 = g /\ 0 \in 0 .. n
    BY DEF From
  <2> QED BY <2>2, <2>3, <2>4
<1>2. ASSUME NEW i \in 0 .. n - 1, i \in S PROVE i + 1 \in S
  <2> DEFINE k == i + 1
             j == g + i
  <2>1. /\ k \in 1 .. Len(data) /\ k - 1 = i /\ k \in 0 .. n /\ k \in Nat /\ k > 0
        /\ j \in 0 .. 5 /\ j + 1 = g + k /\ g + k <= 6 /\ (g + k) - 1 = j
    OBVIOUS
  <2>2. H[k] = HeadStep(H[k - 1], data, k)
    BY <2>1, Zenon DEF Heads
  <2>3. Head0(H[i], p, i, From(g, i), j)
    BY <1>2
  <2>4. HeadCell(data[k], j)
    BY <2>1
  <2>5. From(g, k) = IF j = 1 THEN k ELSE From(g, i)
    BY DEF From
  <2> HIDE DEF j, k
  <2>6. Head0(HeadStep(H[i], data, k), p, k, IF j = 1 THEN k ELSE From(g, i), j + 1)
    BY <2>1, <2>3, <2>4, HeaderStep
  <2>7. Head0(H[k], p, k, From(g, k), g + k)
    BY <2>1, <2>2, <2>5, <2>6
  <2>8. k \in S
    BY <2>1, <2>7
  <2> QED BY <2>8 DEF k
<1>3. \A i \in 0 .. n - 1 : i \in S => i + 1 \in S
  BY <1>2
<1> HIDE DEF S
<1>4. n \in S
  BY <1>1, <1>3, SetInduction
<1> QED BY <1>4 DEF S

\* The first six cells of a part may come in any pieces.
LEMMA HeadingGrown ==
  ASSUME NEW b \in Seq(Symbols), NEW s, NEW e, NEW pt \in PartOf, PartCells(b, s, e, pt),
         NEW p, NEW q, NEW bf, NEW done, NEW g \in 0 .. 6, NEW g2 \in g .. 6,
         Heading(p, q, bf, b, done, s, g)
  PROVE  Heading(AppendToCurrentPart(p, Slice(b, s + g, s + g2)), q, bf, b, done, s, g2)
<1> DEFINE data == Slice(b, s + g, s + g2)
           n == g2 - g
<1>0. s \in Nat /\ e \in Nat /\ e <= Len(b) /\ s + 12 <= e /\ n \in Nat /\ g + n = g2
  <2> DEFINE l == Len(pt.data)
  <2>1. l \in Nat
    BY TextFacts
  <2>2. s \in Nat /\ e \in Nat /\ e <= Len(b) /\ e = s + 12 + l
    BY Zenon DEF PartCells
  <2> HIDE DEF l
  <2> QED BY <2>1, <2>2
<1>1. /\ data \in Seq(Symbols) /\ Len(data) = n
      /\ \A i \in 1 .. n : g + i <= 6 => HeadCell(data[i], (g + i) - 1)
  <2>1. g \in Nat /\ g2 \in Nat /\ g <= g2 /\ s + g2 <= e
    BY <1>0
  <2> QED BY <2>1, HeaderData
<1>2. /\ p \in Part /\ Base(p, q, bf, done, s + g)
      /\ p.state = HeaderState[g + 1] /\ p.counter = HeaderCounter[g + 1]
      /\ p.headers = Slice(b, s + 2, s + g)
  BY DEF Heading, Base
<1>3. \A r : r \in Part /\ Results(p, r) => Base(r, q, bf, done, s + g2)
  <2>1. s + g \in Nat /\ s + g2 \in Nat /\ s + g <= s + g2
    BY <1>0
  <2> QED BY <1>2, <2>1, BaseKept
<1>4. p.state # "FINISHED"
  BY <1>2 DEF HeaderState
<1> HIDE DEF data
<1>5. CASE data = << >>
  <2>1. AppendToCurrentPart(p, data) = p
    BY <1>5, Zenon DEF AppendToCurrentPart
  <2>2. g2 = g
    BY <1>0, <1>1, <1>5
  <2> QED BY <2>1, <2>2 DEF data
<1>6. CASE data # << >>
  <2>1. PICK H : Heads(H, p, data)
    BY <1>1, HeadSteps
  <2> DEFINE h == HeadOf(p, data)
             f == From(g, n)
  <2>2. Head0(h, p, n, f, g2)
    <3>1. Head0(H[n], p, n, From(g, n), g + n)
      <4>1. Len(data) \in Nat /\ n \in 0 .. Len(data) /\ g + n <= 6
        BY <1>0, <1>1
      <4> QED BY <1>1, <1>2, <2>1, <4>1, HeaderLoop
    <3>2. HeadOf(p, data) = H[n]
      BY <1>1, <2>1, Zenon DEF Heads
    <3> QED BY <1>0, <3>1, <3>2
  <2> HIDE DEF h, f
  <2>3. /\ h.p \in Part /\ Results(p, h.p) /\ ~h.over /\ h.from = f
        /\ h.p.state = HeaderState[g2 + 1] /\ h.p.counter = HeaderCounter[g2 + 1]
        /\ h.p.headers = p.headers
    BY <2>2 DEF Head0, HeadType
  <2> DEFINE A == AppendToCurrentPart(p, data)
  <2>4. CASE g2 < 2
    <3>1. h.p.state = "HEADERSTART"
      BY <2>3, <2>4 DEF HeaderState
    <3>2. A = h.p
      BY <1>4, <1>6, <2>3, <3>1, Zenon DEF AppendToCurrentPart, h
    <3>3. Slice(b, s + 2, s + g2) = << >> /\ Slice(b, s + 2, s + g) = << >>
      <4>1. s + g2 < s + 2 + 1 /\ s + g < s + 2 + 1 /\ s + 2 + 1 \in Int /\ s + g2 \in Int /\ s + g \in Int
        BY <1>0, <2>4
      <4> QED BY <4>1, SubSeqEmpty DEF Slice
    <3>4. Base(h.p, q, bf, done, s + g2)
      BY <1>3, <2>3
    <3> HIDE DEF A
    <3>5. Heading(A, q, bf, b, done, s, g2)
      BY <1>2, <2>3, <3>2, <3>3, <3>4 DEF Heading
    <3> QED BY <3>5 DEF A, data
  <2>5. CASE g2 >= 2
    <3> DEFINE w == p.headers \o SubSeq(data, f + 1, Len(data))
               r == [h.p EXCEPT !.headers = w]
    <3>1. h.p.state = "HEADERS_END"
      BY <2>3, <2>5 DEF HeaderState
    <3>2. A = r
      <4>1. A = [h.p EXCEPT !.headers = @ \o SubSeq(data, h.from + 1, Len(data))]
        BY <1>4, <1>6, <2>3, <3>1, Zenon DEF AppendToCurrentPart, h
      <4> QED BY <2>3, <4>1
    <3>3. w = Slice(b, s + 2, s + g2)
      <4>1. CASE g < 2
        <5>1. p.headers = << >>
          <6>1. s + g < s + 2 + 1 /\ s + 2 + 1 \in Int /\ s + g \in Int
            BY <1>0, <4>1
          <6> QED BY <1>2, <6>1, SubSeqEmpty DEF Slice
        <5>2. f = 2 - g
          BY <1>0, <2>5, <4>1 DEF f, From
        <5>3. Slice(data, 2 - g, n) = Slice(b, (s + g) + (2 - g), (s + g) + n)
          <6>1. /\ s + g \in Nat /\ s + g2 \in Nat /\ s + g <= s + g2 /\ s + g2 <= Len(b)
                /\ 2 - g \in Nat /\ n \in Nat /\ 2 - g <= n /\ n <= (s + g2) - (s + g)
            BY <1>0, <2>5, <4>1
          <6> DEFINE x == s + g
                     y == s + g2
                     k == 2 - g
          <6> HIDE DEF x, y, k, n
          <6>2. \A i, j \in Nat : i <= j /\ j <= y - x =>
                   Slice(Slice(b, x, y), i, j) = Slice(b, x + i, x + j)
            BY <6>1, SlicePieces DEF x, y
          <6>3. Slice(Slice(b, x, y), k, n) = Slice(b, x + k, x + n)
            BY <6>1, <6>2 DEF k, x, y
          <6> QED BY <6>3 DEF x, y, k, n, data
        <5>4. (s + g) + (2 - g) = s + 2 /\ (s + g) + n = s + g2
          BY <1>0
        <5>5. SubSeq(data, f + 1, Len(data)) = Slice(b, s + 2, s + g2)
          BY <1>1, <5>2, <5>3, <5>4 DEF Slice
        <5>6. Slice(b, s + 2, s + g2) \in Seq(Symbols)
          <6>1. s + 2 \in Nat /\ s + g2 \in Nat /\ s + 2 <= s + g2 /\ s + g2 <= Len(b)
            BY <1>0, <2>5
          <6> QED BY <6>1, PieceFacts
        <5> QED BY <5>1, <5>5, <5>6, ConcatEmptySeq
      <4>2. CASE ~(g < 2)
        <5>1. f = 0
          BY <4>2 DEF f, From
        <5>2. SubSeq(data, f + 1, Len(data)) = data
          <6>1. f + 1 = 1
            BY <5>1
          <6> QED BY <1>1, <6>1, WholeSubSeq
        <5>3. Slice(b, s + 2, s + g) \o Slice(b, s + g, s + g2) = Slice(b, s + 2, s + g2)
          <6>1. /\ s + 2 \in Nat /\ s + g \in Nat /\ s + 2 <= s + g /\ s + g <= Len(b)
                /\ s + g2 \in Nat /\ s + g <= s + g2 /\ s + g2 <= Len(b)
            BY <1>0, <4>2
          <6> QED BY ZenonT(60), <6>1, SlicePieces
        <5> QED BY <1>2, <5>2, <5>3 DEF data
      <4> QED BY <4>1, <4>2
    <3> HIDE DEF w
    <3>4. w \in Seq(STRING)
      <4>1. Slice(b, s + 2, s + g2) \in Seq(Symbols)
        <5>1. s + 2 \in Nat /\ s + g2 \in Nat /\ s + 2 <= s + g2 /\ s + g2 <= Len(b)
          BY <1>0, <2>5
        <5> QED BY <5>1, PieceFacts
      <4> QED BY <3>3, <4>1, SymbolsAreStrings
    <3>5. r \in Part /\ Results(h.p, r) /\ r.state = h.p.state /\ r.counter = h.p.counter /\ r.headers = w
      BY <2>3, <3>4 DEF Part, Results
    <3> HIDE DEF r, A
    <3>6. Base(r, q, bf, done, s + g2)
      BY <1>3, <2>3, <3>5, ResultsTrans
    <3>7. Heading(A, q, bf, b, done, s, g2)
      BY <2>3, <3>2, <3>3, <3>5, <3>6 DEF Heading
    <3> QED BY <3>7 DEF A, data
  <2> QED BY <2>4, <2>5
<1> QED BY <1>5, <1>6

-----------------------------------------------------------------------------
(* The content begins: ParseFMHeaders().                                   *)

\* The content of every file that is named.
Table(FileMap, disk) == [n \in DOMAIN FileMap |-> disk[FileMap[n]]]

\* The disk without the file of an earlier part with this name.
Without(FileMap, disk, n) ==
  [f \in DOMAIN disk \ {FileMap[m] : m \in {n} \intersect DOMAIN FileMap} |-> disk[f]]

\* A new, empty file replaces the one of an earlier part with its name.
FileMade(FileMap, disk, created, bf, n, F, M, D) ==
  /\ D \in Map(Nat, Seq(STRING)) /\ M \in Map(Names, Nat) /\ F \in Nat /\ F # 0
  /\ Owned(M, D, F, bf) /\ Table(M, D) = Stored(Table(FileMap, disk), n, << >>)
  /\ n \in DOMAIN M /\ M[n] = F

\* The new file is owned, and an older one of this name is removed.
LEMMA FileMakes ==
  ASSUME NEW FileMap \in Map(Names, Nat), NEW disk \in Map(Nat, Seq(STRING)), NEW created \in Nat,
         NEW bf, Owned(FileMap, disk, created, bf), NEW n \in Names, NEW F, F = created + 1
  PROVE  FileMade(FileMap, disk, created, bf, n, F, Stored(FileMap, n, F),
                  Without(FileMap, Stored(disk, F, << >>), n))
<1> DEFINE d == Stored(disk, F, << >>)
           D == Without(FileMap, d, n)
           M == Stored(FileMap, n, F)
           R == {FileMap[m] : m \in {n} \intersect DOMAIN FileMap}
           T == Table(FileMap, disk)
           E == << >>
<1>1. F \in Nat /\ F # 0 /\ E \in Seq(STRING)
  BY EmptySeq
<1> HIDE DEF E
<1>2. d \in Map(Nat, Seq(STRING)) /\ M \in Map(Names, Nat)
  <2>1. Stored(disk, F, E) \in Map(Nat, Seq(STRING))
    BY <1>1, StoredType
  <2>2. M \in Map(Names, Nat)
    BY <1>1, StoredType
  <2> QED BY <2>1, <2>2 DEF E
<1>3. /\ DOMAIN d = {F} \union DOMAIN disk /\ d[F] = E
      /\ \A x \in DOMAIN disk : x # F => d[x] = disk[x]
  <2>1. Holds(d, disk, F, << >>)
    BY StoredHolds
  <2> QED BY <2>1, Zenon DEF Holds, E
<1>4. /\ DOMAIN M = {n} \union DOMAIN FileMap /\ M[n] = F
      /\ \A x \in DOMAIN FileMap : x # n => M[x] = FileMap[x]
  <2>1. Holds(M, FileMap, n, F)
    BY StoredHolds
  <2> QED BY <2>1, Zenon DEF Holds
<1> HIDE DEF d, M
<1>5. DOMAIN D = DOMAIN d \ R /\ \A x \in DOMAIN D : D[x] = d[x]
  BY DEF Without
<1>6. D \in Map(Nat, Seq(STRING))
  <2>1. D = [x \in DOMAIN D |-> D[x]]
    BY DEF Without
  <2>2. DOMAIN d \subseteq Nat /\ \A x \in DOMAIN d : d[x] \in Seq(STRING)
    BY <1>2, MapFacts
  <2> HIDE DEF D
  <2>3. DOMAIN D \subseteq Nat /\ \A x \in DOMAIN D : D[x] \in Seq(STRING)
    BY <1>5, <2>2
  <2> QED BY <2>1, <2>3, MapFacts
<1> HIDE DEF D
<1>7. /\ bf \in 0 .. created /\ DOMAIN disk \subseteq 1 .. created
      /\ \A m \in DOMAIN FileMap : FileMap[m] \in DOMAIN disk /\ FileMap[m] > bf
      /\ \A i, m \in DOMAIN FileMap : FileMap[i] = FileMap[m] => i = m
      /\ \A f \in DOMAIN disk : f > bf => \E m \in DOMAIN FileMap : FileMap[m] = f
  BY Zenon DEF Owned
<1>8. /\ F \notin DOMAIN disk /\ F > bf /\ bf \in 0 .. F
      /\ \A f \in DOMAIN disk : f \in 1 .. F
      /\ F \in 1 .. F
  BY <1>1, <1>7
<1>9. \A x : x \in R <=> (n \in DOMAIN FileMap /\ x = FileMap[n])
  OBVIOUS
<1> HIDE DEF R
<1>10. F \notin R
  BY <1>7, <1>8, <1>9
<1>11. \A x \in DOMAIN FileMap : x # n => FileMap[x] \in DOMAIN D
  <2> SUFFICES ASSUME NEW x \in DOMAIN FileMap, x # n PROVE FileMap[x] \in DOMAIN D
    OBVIOUS
  <2>1. FileMap[x] \notin R
    BY <1>7, <1>9
  <2> QED BY <1>3, <1>5, <1>7, <2>1
<1>12. Owned(M, D, F, bf)
  <2>1. DOMAIN D \subseteq 1 .. F
    BY <1>3, <1>5, <1>8
  <2>2. \A m \in DOMAIN M : M[m] \in DOMAIN D /\ M[m] > bf
    <3> SUFFICES ASSUME NEW m \in DOMAIN M PROVE M[m] \in DOMAIN D /\ M[m] > bf
      OBVIOUS
    <3>1. CASE m = n
      BY <1>3, <1>4, <1>5, <1>8, <1>10, <3>1
    <3>2. CASE m # n
      BY <1>4, <1>7, <1>11, <3>2
    <3> QED BY <3>1, <3>2
  <2>3. \A i, m \in DOMAIN M : M[i] = M[m] => i = m
    <3> SUFFICES ASSUME NEW i \in DOMAIN M, NEW m \in DOMAIN M, M[i] = M[m] PROVE i = m
      OBVIOUS
    <3>1. \A x \in DOMAIN M : x # n => x \in DOMAIN FileMap /\ M[x] = FileMap[x] /\ M[x] # F
      BY <1>4, <1>7, <1>8
    <3>2. CASE i = n \/ m = n
      BY <1>4, <3>1, <3>2
    <3>3. CASE i # n /\ m # n
      BY <1>7, <3>1, <3>3
    <3> QED BY <3>2, <3>3
  <2>4. \A f \in DOMAIN D : f > bf => \E m \in DOMAIN M : M[m] = f
    <3> SUFFICES ASSUME NEW f \in DOMAIN D, f > bf PROVE \E m \in DOMAIN M : M[m] = f
      OBVIOUS
    <3>1. CASE f = F
      BY <1>4, <3>1
    <3>2. CASE f # F
      <4>1. f \in DOMAIN disk /\ f \notin R
        BY <1>3, <1>5, <3>2
      <4>2. PICK m \in DOMAIN FileMap : FileMap[m] = f
        BY <1>7, <4>1
      <4>3. m # n
        BY <1>9, <4>1, <4>2
      <4> QED BY <1>4, <4>2, <4>3
    <3> QED BY <3>1, <3>2
  <2> QED BY <1>8, <2>1, <2>2, <2>3, <2>4, Zenon DEF Owned
<1>13. Table(M, D) = Stored(T, n, E)
  <2> DEFINE S == Stored(T, n, E)
             U == Table(M, D)
  <2>1. DOMAIN S = {n} \union DOMAIN T /\ S[n] = E /\ \A x \in DOMAIN T : x # n => S[x] = T[x]
    <3>1. Holds(S, T, n, E)
      BY StoredHolds
    <3> QED BY <3>1, Zenon DEF Holds
  <2>2. S = [x \in DOMAIN S |-> S[x]]
    BY DEF Stored
  <2>3. DOMAIN T = DOMAIN FileMap /\ \A x \in DOMAIN FileMap : T[x] = disk[FileMap[x]]
    BY DEF Table
  <2>4. DOMAIN U = DOMAIN M /\ U = [x \in DOMAIN U |-> U[x]] /\ \A x \in DOMAIN M : U[x] = D[M[x]]
    BY DEF Table
  <2> HIDE DEF S, T, U
  <2>5. ASSUME NEW x \in DOMAIN M PROVE U[x] = S[x]
    <3>1. CASE x = n
      BY <1>3, <1>4, <1>5, <1>10, <2>1, <2>4, <3>1
    <3>2. CASE x # n
      <4>1. x \in DOMAIN FileMap /\ M[x] = FileMap[x] /\ FileMap[x] \in DOMAIN D /\ FileMap[x] \in DOMAIN disk
            /\ FileMap[x] # F
        BY <1>4, <1>7, <1>8, <1>11, <3>2
      <4>2. D[FileMap[x]] = disk[FileMap[x]]
        BY <1>3, <1>5, <4>1
      <4> QED BY <2>1, <2>3, <2>4, <3>2, <4>1, <4>2
    <3> QED BY <3>1, <3>2
  <2>6. DOMAIN U = DOMAIN S
    BY <1>4, <2>1, <2>3, <2>4
  <2>7. U = S
    <3>1. \A x \in DOMAIN U : U[x] = S[x]
      BY <2>4, <2>5
    <3> QED BY <2>2, <2>4, <2>6, <3>1, MapEqual
  <2> QED BY <2>7 DEF S, U
<1>14. n \in DOMAIN M
  BY <1>4
<1>15. FileMade(FileMap, disk, created, bf, n, F, M, D)
  BY <1>1, <1>2, <1>4, <1>6, <1>12, <1>13, <1>14, Zenon DEF FileMade, T, E
<1> QED BY <1>15 DEF M, D, d

\* A file is created.
Opened(p, r, F, d) ==
  /\ r \in Part /\ r.ParamMap = p.ParamMap /\ r.FileMap = p.FileMap /\ r.disk = d
  /\ r.created = F /\ r.limit = p.limit /\ r.totalLimit = p.totalLimit
  /\ r.CurrFileSize = p.CurrFileSize /\ r.TotalFileSize = p.TotalFileSize /\ r.CurrFileS = F

\* Opening a file sets its number and the files.
LEMMA FileOpens ==
  ASSUME NEW p \in Part, NEW F \in Nat, NEW d \in Map(Nat, Seq(STRING))
  PROVE  Opened(p, [p EXCEPT !.created = F, !.CurrFileS = F, !.disk = d], F, d)
BY DEF Part, Opened

\* It is the file of the part that begins.
FileIsNamed(p, r, n, D, M, v) ==
  /\ r \in Part /\ r.ParamMap = p.ParamMap /\ r.FileMap = M /\ r.disk = D
  /\ r.created = p.created /\ r.limit = p.limit /\ r.totalLimit = p.totalLimit
  /\ r.CurrFileSize = p.CurrFileSize /\ r.TotalFileSize = p.TotalFileSize
  /\ r.CurrFileS = p.CurrFileS /\ r.isFile = TRUE /\ r.target = n /\ r.state = v

\* Naming a file part sets its file, and what it is.
LEMMA FileNames ==
  ASSUME NEW p \in Part, NEW n \in Names, NEW D \in Map(Nat, Seq(STRING)),
         NEW M \in Map(Names, Nat), NEW v \in States
  PROVE  FileIsNamed(p, [[p EXCEPT !.isFile = TRUE, !.target = n, !.disk = D, !.FileMap = M]
                           EXCEPT !.state = v], n, D, M, v)
BY DEF Part, FileIsNamed, States

\* A parameter is the one of the part that begins.
ParamIsNamed(p, r, n, P, v) ==
  /\ r \in Part /\ r.ParamMap = P /\ r.FileMap = p.FileMap /\ r.disk = p.disk
  /\ r.created = p.created /\ r.limit = p.limit /\ r.totalLimit = p.totalLimit
  /\ r.CurrFileSize = p.CurrFileSize /\ r.TotalFileSize = p.TotalFileSize
  /\ r.isFile = FALSE /\ r.target = n /\ r.state = v

\* Naming a parameter sets the parameters, and what it is.
LEMMA ParamNames ==
  ASSUME NEW p \in Part, NEW n \in Names, NEW P \in Map(Seq(STRING), Seq(STRING)), NEW v \in States
  PROVE  ParamIsNamed(p, [[p EXCEPT !.isFile = FALSE, !.target = n, !.ParamMap = P]
                            EXCEPT !.state = v], n, P, v)
BY DEF Part, ParamIsNamed, States

\* Nothing of the content of a part has come.
LEMMA CutNone ==
  ASSUME NEW pt \in PartOf
  PROVE  Cut(pt, 0).data = << >>
<1>1. pt.data \in Seq(Symbols) /\ Len(pt.data) \in Nat
  BY TextFacts
<1>2. 0 \in 0 .. Len(pt.data)
  BY <1>1
<1>3. Cut(pt, 0).data = SubSeq(pt.data, 1, 0)
  BY <1>2, CutFacts
<1>4. SubSeq(pt.data, 1, 0) = << >>
  BY <1>1, SubSeqEmpty
<1> QED BY <1>3, <1>4

\* The parameter of a part is empty at first.
LEMMA StringBegins ==
  ASSUME NEW p, NEW q, NEW bf, NEW done \in Seq(PartOf), NEW pt \in PartOf, ~pt.file, NEW g,
         Base(p, q, bf, done, g)
  PROVE  Reading([NewString(p, pt.name) EXCEPT !.state = "READ"], q, bf, done, pt, 0, g)
<1> DEFINE n == pt.name
           A == Meant(q, done)
           P == Stored(A, <<n>>, << >>)
           r == [NewString(p, n) EXCEPT !.state = "READ"]
<1>1. n \in Names /\ pt.file = FALSE /\ "READ" \in States /\ <<n>> \in Seq(STRING)
  <2>1. n \in Names /\ n \in STRING
    BY QueryAssumption DEF PartOf
  <2>2. \A x \in STRING : <<x>> \in Seq(STRING)
    OBVIOUS
  <2> QED BY <2>1, <2>2 DEF PartOf, States
<1>2. /\ p \in Part /\ p.ParamMap = A
      /\ [x \in DOMAIN p.FileMap |-> p.disk[p.FileMap[x]]] = Contents(done, TRUE)
      /\ Owned(p.FileMap, p.disk, p.created, bf) /\ p.limit = Unlimited /\ p.totalLimit = Unlimited
      /\ p.CurrFileSize = p.TotalFileSize /\ p.TotalFileSize <= g
  BY Zenon DEF Base
<1>3. P \in Map(Seq(STRING), Seq(STRING))
  <2>1. p.ParamMap \in Map(Seq(STRING), Seq(STRING))
    BY <1>2 DEF Part
  <2> DEFINE E == << >>
  <2>2. E \in Seq(STRING)
    BY EmptySeq
  <2> HIDE DEF E
  <2>3. Stored(A, <<n>>, E) \in Map(Seq(STRING), Seq(STRING))
    <3> DEFINE k == <<n>>
    <3>1. k \in Seq(STRING) /\ A \in Map(Seq(STRING), Seq(STRING))
      BY <1>1, <1>2, <2>1
    <3> HIDE DEF k, A
    <3>2. Stored(A, k, E) \in Map(Seq(STRING), Seq(STRING))
      BY <2>2, <3>1, StoredType
    <3> QED BY <3>2 DEF k
  <2> QED BY <2>3 DEF E
<1>4. r = [[p EXCEPT !.isFile = FALSE, !.target = n, !.ParamMap = P] EXCEPT !.state = "READ"]
  BY <1>2 DEF NewString
<1> HIDE DEF P
<1>5. ParamIsNamed(p, r, n, P, "READ")
  <2> HIDE DEF r
  <2>1. ParamIsNamed(p, [[p EXCEPT !.isFile = FALSE, !.target = n, !.ParamMap = P]
                           EXCEPT !.state = "READ"], n, P, "READ")
    <3> HIDE DEF n
    <3> QED BY <1>1, <1>2, <1>3, ParamNames
  <2> QED BY <1>4, <2>1
<1> HIDE DEF r, A
<1>6. /\ Meant(q, Append(done, Cut(pt, 0))) = P
      /\ Contents(Append(done, Cut(pt, 0)), TRUE) = Contents(done, TRUE)
  <2>1. 0 \in 0 .. Len(pt.data) /\ Cut(pt, 0).data = << >>
    <3>1. Len(pt.data) \in Nat
      BY TextFacts
    <3> QED BY <3>1, CutNone
  <2>2. /\ Meant(q, Append(done, Cut(pt, 0))) = Stored(Meant(q, done), <<pt.name>>, Cut(pt, 0).data)
        /\ Contents(Append(done, Cut(pt, 0)), TRUE) = Contents(done, TRUE)
    BY <2>1, MeantCut, Zenon
  <2> QED BY <2>1, <2>2, Zenon DEF P, A
<1>7. Base(r, q, bf, Append(done, Cut(pt, 0)), g)
  BY <1>2, <1>5, <1>6, Zenon DEF ParamIsNamed, Base
<1>8. Reading(r, q, bf, done, pt, 0, g)
  BY <1>1, <1>5, <1>7, Zenon DEF ParamIsNamed, Reading
<1> QED BY <1>8 DEF r

\* The file of a part is empty at first, and no other file is lost.
LEMMA FileBegins ==
  ASSUME NEW p, NEW q, NEW bf, NEW done \in Seq(PartOf), NEW pt \in PartOf, pt.file, NEW g,
         Base(p, q, bf, done, g)
  PROVE  Reading([NewFile(p, pt.name) EXCEPT !.state = "READ"], q, bf, done, pt, 0, g)
<1> DEFINE n == pt.name
           F == p.created + 1
           d == Stored(p.disk, F, << >>)
           new == [p EXCEPT !.created = F, !.CurrFileS = F, !.disk = d]
           D == Without(p.FileMap, d, n)
           M == Stored(p.FileMap, n, F)
           r == [NewFile(p, n) EXCEPT !.state = "READ"]
<1>1. n \in Names /\ pt.file = TRUE /\ "READ" \in States
  BY DEF PartOf, States
<1>2. /\ p \in Part /\ p.ParamMap = Meant(q, done)
      /\ [x \in DOMAIN p.FileMap |-> p.disk[p.FileMap[x]]] = Contents(done, TRUE)
      /\ Owned(p.FileMap, p.disk, p.created, bf) /\ p.limit = Unlimited /\ p.totalLimit = Unlimited
      /\ p.CurrFileSize = p.TotalFileSize /\ p.TotalFileSize <= g
  BY Zenon DEF Base
<1>3. /\ p.FileMap \in Map(Names, Nat) /\ p.disk \in Map(Nat, Seq(STRING)) /\ p.created \in Nat
      /\ F \in Nat /\ F # 0
  BY <1>2 DEF Part
<1>4. FileMade(p.FileMap, p.disk, p.created, bf, n, F, M, D)
  BY <1>1, <1>2, <1>3, FileMakes
<1>5. d \in Map(Nat, Seq(STRING))
  <2> DEFINE E == << >>
  <2>1. E \in Seq(STRING)
    BY EmptySeq
  <2> HIDE DEF E, F
  <2>2. Stored(p.disk, F, E) \in Map(Nat, Seq(STRING))
    BY <1>3, <2>1, StoredType
  <2> QED BY <2>2 DEF E
<1> HIDE DEF F, d, D, M
<1>6. Opened(p, new, F, d)
  BY <1>2, <1>3, <1>5, FileOpens
<1>7. OnNewFile(p) = new
  <2>1. p.limit # 0 /\ p.totalLimit # 0
    BY <1>2, QueryAssumption
  <2>2. OnNewFile(p) = [p EXCEPT !.created = @ + 1, !.CurrFileS = p.created + 1,
                                 !.disk = Stored(@, p.created + 1, << >>)]
    BY <2>1, Zenon DEF OnNewFile
  <2> QED BY <2>2 DEF F, d
<1> HIDE DEF new
<1>8. r = [[new EXCEPT !.isFile = TRUE, !.target = n, !.disk = D, !.FileMap = M] EXCEPT !.state = "READ"]
  <2>1. new.CurrFileS = F /\ new.FileMap = p.FileMap /\ new.disk = d /\ new \in Part
    BY <1>6, Zenon DEF Opened
  <2>2. NewFile(p, n) = [new EXCEPT !.isFile = TRUE, !.target = n, !.disk = Removed(new, n),
                                    !.FileMap = Stored(@, n, new.CurrFileS)]
    BY <1>3, <1>7, <2>1, Zenon DEF NewFile
  <2>3. Removed(new, n) = D
    BY <2>1, Zenon DEF Removed, Without, D
  <2>4. NewFile(p, n) = [new EXCEPT !.isFile = TRUE, !.target = n, !.disk = D, !.FileMap = M]
    BY <2>1, <2>2, <2>3 DEF Part, M
  <2> QED BY <2>4
<1>9. FileIsNamed(new, r, n, D, M, "READ")
  <2>1. new \in Part /\ D \in Map(Nat, Seq(STRING)) /\ M \in Map(Names, Nat)
    BY <1>4, <1>6, Zenon DEF Opened, FileMade
  <2> HIDE DEF r
  <2>2. FileIsNamed(new, [[new EXCEPT !.isFile = TRUE, !.target = n, !.disk = D, !.FileMap = M]
                            EXCEPT !.state = "READ"], n, D, M, "READ")
    <3> HIDE DEF n
    <3> QED BY <1>1, <2>1, FileNames
  <2> QED BY <1>8, <2>2
<1> HIDE DEF r
<1>10. /\ Meant(q, Append(done, Cut(pt, 0))) = Meant(q, done)
       /\ Contents(Append(done, Cut(pt, 0)), TRUE) = Stored(Contents(done, TRUE), n, << >>)
  <2>1. 0 \in 0 .. Len(pt.data) /\ Cut(pt, 0).data = << >>
    <3>1. Len(pt.data) \in Nat
      BY TextFacts
    <3> QED BY <3>1, CutNone
  <2>2. /\ Meant(q, Append(done, Cut(pt, 0))) = Meant(q, done)
        /\ Contents(Append(done, Cut(pt, 0)), TRUE) = Stored(Contents(done, TRUE), pt.name, Cut(pt, 0).data)
    BY <1>1, <2>1, MeantCut, Zenon
  <2> QED BY <2>1, <2>2, Zenon
<1>11. [x \in DOMAIN r.FileMap |-> r.disk[r.FileMap[x]]] = Stored(Contents(done, TRUE), n, << >>)
  <2>1. Table(M, D) = Stored(Table(p.FileMap, p.disk), n, << >>) /\ r.FileMap = M /\ r.disk = D
    BY <1>4, <1>9, Zenon DEF FileMade, FileIsNamed
  <2>2. Table(p.FileMap, p.disk) = Contents(done, TRUE)
    BY <1>2, Zenon DEF Table
  <2>3. [x \in DOMAIN r.FileMap |-> r.disk[r.FileMap[x]]] = Table(M, D)
    BY <2>1, Zenon DEF Table
  <2> QED BY <2>1, <2>2, <2>3
<1>12. Base(r, q, bf, Append(done, Cut(pt, 0)), g)
  BY <1>2, <1>4, <1>6, <1>9, <1>10, <1>11, Zenon DEF Opened, FileMade, FileIsNamed, Base
<1>13. Reading(r, q, bf, done, pt, 0, g)
  BY <1>1, <1>4, <1>6, <1>9, <1>12, Zenon DEF Opened, FileMade, FileIsNamed, Reading
<1> QED BY <1>13 DEF r

\* The header line of a part is found, and tells its name.
LEMMA LineNames ==
  ASSUME NEW b \in Seq(Symbols), NEW s, NEW e, NEW pt \in PartOf, PartCells(b, s, e, pt), NEW g \in {5, 6}
  PROVE  NamingLines(Slice(b, s + 2, s + g)) = {1} /\ Slice(b, s + 2, s + g)[1] = Line(pt)
<1> DEFINE w == Slice(b, s + 2, s + g)
           n == g - 2
<1>1. /\ s \in Nat /\ s + g <= Len(b) /\ b[s + 3] = Line(pt)
      /\ b[s + 4] = "CR" /\ b[s + 5] = "LF" /\ b[s + 6] = "CR"
  <2> DEFINE l == Len(pt.data)
  <2>1. l \in Nat
    BY TextFacts
  <2>2. /\ s \in Nat /\ e \in Nat /\ e <= Len(b) /\ e = s + 12 + l /\ b[s + 3] = Line(pt)
        /\ b[s + 4] = "CR" /\ b[s + 5] = "LF" /\ b[s + 6] = "CR"
    BY Zenon DEF PartCells
  <2> HIDE DEF l
  <2> QED BY <2>1, <2>2
<1>2. w \in Seq(Symbols) /\ Len(w) = n /\ n \in {3, 4} /\ \A j \in 1 .. n : w[j] = b[(s + 2) + j]
  <2>1. /\ s + 2 \in Nat /\ s + g \in Nat /\ s + 2 <= s + g /\ s + g <= Len(b)
        /\ (s + g) - (s + 2) = n /\ n \in {3, 4}
    BY <1>1
  <2>2. /\ Slice(b, s + 2, s + g) \in Seq(Symbols) /\ Len(Slice(b, s + 2, s + g)) = (s + g) - (s + 2)
        /\ \A j \in 1 .. (s + g) - (s + 2) : Slice(b, s + 2, s + g)[j] = b[(s + 2) + j]
    BY ZenonT(60), <2>1, PieceFacts
  <2> QED BY <2>1, <2>2
<1> HIDE DEF w, n
<1>3. w[1] = Line(pt) /\ w[2] = "CR" /\ w[3] = "LF" /\ (n = 4 => w[4] = "CR")
  <2>1. (s + 2) + 1 = s + 3 /\ (s + 2) + 2 = s + 4 /\ (s + 2) + 3 = s + 5 /\ (s + 2) + 4 = s + 6
    BY <1>1
  <2>2. 1 \in 1 .. n /\ 2 \in 1 .. n /\ 3 \in 1 .. n /\ (n = 4 => 4 \in 1 .. n)
    BY <1>2
  <2>3. w[1] = b[(s + 2) + 1] /\ w[2] = b[(s + 2) + 2] /\ w[3] = b[(s + 2) + 3]
        /\ (n = 4 => w[4] = b[(s + 2) + 4])
    BY <1>2, <2>2
  <2> QED BY <1>1, <2>1, <2>3
<1>4. DOMAIN w = 1 .. n
  BY <1>2
<1>5. Line(pt) \in HeaderLines /\ "CR" \notin HeaderLines /\ "LF" \notin HeaderLines
  BY TextFacts, OrdinaryCells
<1>6. \A i \in DOMAIN w : w[i] \in HeaderLines => i = 1
  <2>1. \A i \in 1 .. n : i = 1 \/ i = 2 \/ i = 3 \/ (n = 4 /\ i = 4)
    BY <1>2
  <2> QED BY <1>3, <1>4, <1>5, <2>1
<1>7. 1 \in DOMAIN w /\ 3 \in DOMAIN w /\ 3 > 1
  BY <1>2, <1>4
<1>8. NamingLines(w) = {1}
  <2>1. 1 \in NamingLines(w)
    BY <1>3, <1>5, <1>7 DEF NamingLines
  <2> QED BY <1>6, <2>1 DEF NamingLines
<1> QED BY <1>3, <1>8 DEF w

\* A header line names one part.
LEMMA NameOfLine ==
  ASSUME NEW pt \in PartOf
  PROVE  /\ (CHOOSE n \in Names : Line(pt) \in {StringHeader(n), FileHeader(n)}) = pt.name
         /\ pt.file <=> Line(pt) = FileHeader(pt.name)
<1>1. pt.name \in Names /\ pt.file \in BOOLEAN
  BY DEF PartOf
<1> DEFINE Fits(n) == Line(pt) \in {StringHeader(n), FileHeader(n)}
           sh(n) == StringHeader(n)
           fh(n) == FileHeader(n)
<1>2. /\ \A m, n \in Names : sh(m) # fh(n)
      /\ \A m, n \in Names : m # n => sh(m) # sh(n) /\ fh(m) # fh(n)
  BY HeaderAssumption
<1>3. Line(pt) = IF pt.file THEN fh(pt.name) ELSE sh(pt.name)
  BY DEF Line
<1>4. \A n : Fits(n) <=> Line(pt) = sh(n) \/ Line(pt) = fh(n)
  OBVIOUS
<1> HIDE DEF sh, fh, Fits
<1>5. Fits(pt.name)
  BY <1>3, <1>4
<1>6. \A n \in Names : Fits(n) => n = pt.name
  BY <1>1, <1>2, <1>3, <1>4
<1>7. (CHOOSE n \in Names : Fits(n)) = pt.name
  BY <1>1, <1>5, <1>6
<1>8. pt.file <=> Line(pt) = fh(pt.name)
  BY <1>1, <1>2, <1>3
<1> QED BY <1>7, <1>8 DEF Fits, fh

\* The headers of a part are parsed: its content begins.
LEMMA HeadersParsed ==
  ASSUME NEW p, NEW q, NEW bf, NEW done \in Seq(PartOf), NEW pt \in PartOf, NEW g \in Nat,
         Base(p, q, bf, done, g), NamingLines(p.headers) = {1}, p.headers[1] = Line(pt)
  PROVE  Reading([ParseFMHeaders(p) EXCEPT !.state = "READ"], q, bf, done, pt, 0, g)
<1> DEFINE r == IF p.isFile THEN OnFileEnd(p) ELSE p
           line == p.headers[CHOOSE i \in NamingLines(p.headers) :
                               \A j \in NamingLines(p.headers) : j <= i]
           name == CHOOSE n \in Names : line \in {StringHeader(n), FileHeader(n)}
<1>1. p \in Part
  BY DEF Base
<1>2. Base(r, q, bf, done, g)
  <2>1. Results(p, OnFileEnd(p)) /\ OnFileEnd(p) \in Part /\ g <= g
    BY <1>1, FileEnds
  <2>2. Base(OnFileEnd(p), q, bf, done, g)
    BY <2>1, BaseKept
  <2> QED BY <2>2, Zenon
<1>3. line = Line(pt)
  <2>1. (CHOOSE i \in {1} : \A j \in {1} : j <= i) = 1
    OBVIOUS
  <2> QED BY <2>1, Zenon
<1>4. name = pt.name
  <2>1. (CHOOSE n \in Names : Line(pt) \in {StringHeader(n), FileHeader(n)}) = pt.name
    BY NameOfLine
  <2> QED BY <1>3, <2>1, Zenon
<1>5. ParseFMHeaders(p) = IF line = FileHeader(name) THEN NewFile(r, name) ELSE NewString(r, name)
  <2>1. NamingLines(p.headers) # {}
    OBVIOUS
  <2> QED BY <2>1, Zenon DEF ParseFMHeaders
<1> HIDE DEF r, line, name
<1>6. ParseFMHeaders(p) = IF pt.file THEN NewFile(r, pt.name) ELSE NewString(r, pt.name)
  BY <1>3, <1>4, <1>5, NameOfLine
<1>7. CASE pt.file
  <2>1. Reading([NewFile(r, pt.name) EXCEPT !.state = "READ"], q, bf, done, pt, 0, g)
    BY <1>2, <1>7, FileBegins
  <2> QED BY <1>6, <1>7, <2>1
<1>8. CASE ~pt.file
  <2>1. Reading([NewString(r, pt.name) EXCEPT !.state = "READ"], q, bf, done, pt, 0, g)
    BY <1>2, <1>8, StringBegins
  <2> QED BY <1>6, <1>8, <2>1
<1> QED BY <1>7, <1>8

\* The seventh cell of a part ends its headers.
LEMMA HeaderEnds ==
  ASSUME NEW b \in Seq(Symbols), NEW s \in Nat, NEW e, NEW pt \in PartOf, PartCells(b, s, e, pt),
         NEW p, NEW q, NEW bf, NEW done \in Seq(PartOf), NEW g \in {5, 6}, Base(p, q, bf, done, s + g),
         p.headers = Slice(b, s + 2, s + g),
         NEW h, NEW k \in 0 .. 1, Head0(h, p, k, 0, 6), NEW data, NEW i \in Nat, data[i] = "LF"
  PROVE  /\ Reading(HeadStep(h, data, i).p, q, bf, done, pt, 0, s + 7)
         /\ HeadStep(h, data, i).used = i /\ ~HeadStep(h, data, i).over
<1>1. /\ h \in HeadType /\ h.p \in Part /\ Results(p, h.p) /\ ~h.over /\ h.used = k /\ h.from = 0
      /\ h.p.state = HeaderState[6 + 1] /\ h.p.counter = HeaderCounter[6 + 1] /\ h.p.headers = p.headers
  BY DEF Head0, HeadType
<1>2. h.p.state = "HEADERS_END" /\ h.p.counter = 3
  BY <1>1 DEF HeaderState, HeaderCounter
<1> DEFINE w == p.headers
           p1 == [h.p EXCEPT !.headers = w, !.counter = 4]
           r == ParseFMHeaders(p1)
           z == [r EXCEPT !.state = "READ"]
<1>3. NamingLines(w) = {1} /\ w[1] = Line(pt)
  BY LineNames
<1>4. w \in Seq(STRING)
  <2>1. h.p.headers \in Seq(STRING)
    BY <1>1 DEF Part
  <2> QED BY <1>1, <2>1
<1> HIDE DEF w
<1>5. Completed(h.p, p1, w, 4)
  <2>1. 4 \in 0 .. 4
    OBVIOUS
  <2> QED BY <1>1, <1>4, <2>1, HeadersSet
<1> HIDE DEF p1
<1>6. Base(p1, q, bf, done, s + 7) /\ p1.headers = w
  <2>1. p1 \in Part /\ Results(p, p1) /\ p1.headers = w
    BY <1>1, <1>5, ResultsTrans, Zenon DEF Completed
  <2>2. s + g \in Nat /\ s + 7 \in Nat /\ s + g <= s + 7
    OBVIOUS
  <2> QED BY <2>1, <2>2, BaseKept
<1>7. Reading(z, q, bf, done, pt, 0, s + 7)
  <2>1. s + 7 \in Nat
    OBVIOUS
  <2> QED BY <1>3, <1>6, <2>1, HeadersParsed
<1> HIDE DEF r
<1> DEFINE A == AfterHeaders(h, data)
<1>8. A = [h EXCEPT !.p = z]
  <2>1. ~(h.used > h.from + 4)
    BY <1>1
  <2>2. NamingLines(w) # {} /\ h.p.headers = w
    BY <1>1, <1>3 DEF w
  <2> QED BY <2>1, <2>2, Zenon DEF AfterHeaders, p1, r
<1>9. A.p = z /\ A.over = h.over /\ A = [p |-> z, used |-> h.used, from |-> h.from, over |-> h.over]
  <2> HIDE DEF z, A
  <2> QED BY <1>1, <1>8 DEF HeadType
<1>10. HeadStep(h, data, i) = [A EXCEPT !.used = i]
  <2>1. InHeaders(h, data[i], data) = A
    <3>1. h.p.counter < 4 /\ data[i] = HeadersEnd[h.p.counter + 1]
      BY <1>2 DEF HeadersEnd
    <3> QED BY <1>2, <3>1, Zenon DEF InHeaders
  <2>2. h.p.state # "READ" /\ h.p.state # "FINISHED" /\ h.p.state # "HEADERSTART"
    BY <1>2
  <2> QED BY <1>1, <2>1, <2>2, Zenon DEF HeadStep
<1> HIDE DEF A, z
<1>11. [A EXCEPT !.used = i].p = z /\ [A EXCEPT !.used = i].over = h.over /\ [A EXCEPT !.used = i].used = i
  BY <1>9
<1> QED BY <1>1, <1>7, <1>10, <1>11

-----------------------------------------------------------------------------
(* AppendToCurrentPart() in a part, and from part to part.                 *)

\* The cells of a part behind its headers are its content.
LEMMA ContentCells ==
  ASSUME NEW b \in Seq(Symbols), NEW s, NEW e, NEW pt \in PartOf, PartCells(b, s, e, pt),
         NEW m \in Nat, NEW m2 \in Nat, m <= m2, m2 <= Len(pt.data)
  PROVE  Slice(b, (s + 7) + m, (s + 7) + m2) = Slice(pt.data, m, m2)
<1> DEFINE d == pt.data
           l == Len(d)
           x == (s + 7) + m
           y == (s + 7) + m2
           u == Slice(b, x, y)
           v == Slice(d, m, m2)
<1>1. d \in Seq(Symbols) /\ l \in Nat
  BY TextFacts
<1>2. /\ s \in Nat /\ e \in Nat /\ e <= Len(b) /\ e = s + 12 + l
      /\ \A j \in 1 .. l : b[s + 7 + j] = d[j]
  BY Zenon DEF PartCells
<1>3. v \in Seq(Symbols) /\ Len(v) = m2 - m /\ \A j \in 1 .. m2 - m : v[j] = d[m + j]
  BY <1>1, PieceFacts
<1> HIDE DEF d
<1> HIDE DEF l
<1>4. x \in Nat /\ y \in Nat /\ x <= y /\ y <= Len(b) /\ y - x = m2 - m
  <2>1. m2 <= l
    BY DEF l, d
  <2> QED BY <1>1, <1>2, <2>1
<1>5. \A j \in 1 .. m2 - m : x + j = s + 7 + (m + j) /\ m + j \in 1 .. l
  <2>1. m2 <= l
    BY DEF l, d
  <2> QED BY <1>1, <1>2, <2>1
<1> HIDE DEF x, y
<1>6. u \in Seq(Symbols) /\ Len(u) = y - x /\ \A j \in 1 .. y - x : u[j] = b[x + j]
  BY <1>4, PieceFacts
<1> HIDE DEF u, v
<1>7. \A j \in 1 .. m2 - m : u[j] = v[j]
  BY <1>2, <1>3, <1>4, <1>5, <1>6
<1>8. u = v
  <2>1. Len(u) = m2 - m
    BY <1>4, <1>6
  <2>2. Len(v) = m2 - m /\ u \in Seq(Symbols) /\ v \in Seq(Symbols)
    BY <1>3, <1>6
  <2> QED BY <1>7, <2>1, <2>2
<1> QED BY <1>8 DEF u, v, x, y, d

\* The steps of the loop between two places.
Loop(H, data, a, n) == \A i \in a + 1 .. n : H[i] = HeadStep(H[i - 1], data, i)
\* Nothing is looked at before content.
LEMMA ContentLoop ==
  ASSUME NEW H, NEW a \in Nat, NEW n \in Nat, a <= n, NEW data,
         H[a].p.state = "READ", Loop(H, data, a, n)
  PROVE  H[n] = H[a]
<1> DEFINE S == {i \in 0 .. n - a : H[a + i] = H[a]}
<1>1. 0 \in S
  OBVIOUS
<1>2. ASSUME NEW i \in 0 .. (n - a) - 1, i \in S PROVE i + 1 \in S
  <2>1. /\ a + (i + 1) \in a + 1 .. n /\ (a + (i + 1)) - 1 = a + i /\ i + 1 \in 0 .. n - a
    OBVIOUS
  <2>2. H[a + i] = H[a]
    BY <1>2
  <2>3. H[a + (i + 1)] = HeadStep(H[a], data, a + (i + 1))
    BY <2>1, <2>2 DEF Loop
  <2>4. HeadStep(H[a], data, a + (i + 1)) = H[a]
    BY Zenon DEF HeadStep
  <2> QED BY <2>1, <2>3, <2>4
<1>3. \A i \in 0 .. (n - a) - 1 : i \in S => i + 1 \in S
  BY <1>2
<1> HIDE DEF S
<1>4. n - a \in S
  BY <1>1, <1>3, SetInduction
<1>5. a + (n - a) = n
  OBVIOUS
<1> QED BY <1>4, <1>5 DEF S

\* More of the content comes.
LEMMA PartMore ==
  ASSUME NEW b \in Seq(Symbols), NEW s, NEW e, NEW pt \in PartOf, PartCells(b, s, e, pt), Len(b) <= Unlimited,
         NEW p, NEW q, NEW bf, NEW done \in Seq(PartOf),
         NEW m \in Nat, NEW m2 \in m .. Len(pt.data),
         Reading(p, q, bf, done, pt, m, (s + 7) + m)
  PROVE  Reading(AppendToCurrentPart(p, Slice(b, (s + 7) + m, (s + 7) + m2)), q, bf, done, pt, m2, (s + 7) + m2)
<1> DEFINE d == pt.data
           l == Len(d)
           data == Slice(d, m, m2)
           g == (s + 7) + m
           g2 == (s + 7) + m2
<1>1. d \in Seq(Symbols) /\ l \in Nat
  BY TextFacts
<1>2. /\ s \in Nat /\ e \in Nat /\ e <= Len(b) /\ e = s + 12 + l
  BY Zenon DEF PartCells
<1>3. m2 \in Nat /\ m <= m2 /\ m2 <= l
  BY <1>1
<1>4. Slice(b, (s + 7) + m, (s + 7) + m2) = data
  BY <1>3, ContentCells
<1> HIDE DEF d
<1>5. data \in Seq(Symbols) /\ Len(data) = m2 - m
  BY <1>1, <1>3, PieceFacts DEF l
<1> HIDE DEF l
<1>6. g \in Nat /\ g2 \in Nat /\ g2 = g + (m2 - m) /\ g2 <= Unlimited
  <2>1. Len(b) \in Nat /\ Unlimited \in Nat
    BY QueryAssumption
  <2> QED BY <1>1, <1>2, <1>3, <2>1
<1> HIDE DEF g, g2
<1>7. Reading(p, q, bf, done, pt, m, g)
  BY DEF g
<1>8. Reading(InContent(p, data), q, bf, done, pt, m2, g2)
  BY <1>6, <1>7, ContentGrown DEF data, d
<1> HIDE DEF data
<1>9. p.state = "READ"
  BY <1>7, Zenon DEF Reading
<1>10. CASE data = << >>
  <2>1. AppendToCurrentPart(p, data) = p
    BY <1>10, Zenon DEF AppendToCurrentPart
  <2>2. m2 = m
    BY <1>3, <1>5, <1>10
  <2> QED BY <1>4, <2>1, <2>2
<1>11. CASE data # << >>
  <2>1. PICK H : Heads(H, p, data)
    BY <1>5, HeadSteps
  <2> DEFINE h == [p |-> p, used |-> 0, from |-> 0, over |-> FALSE]
             n == Len(data)
  <2>2. n \in Nat
    BY <1>3, <1>5
  <2>3. H[0] = h /\ HeadOf(p, data) = H[n] /\ \A i \in 1 .. n : H[i] = HeadStep(H[i - 1], data, i)
    BY <2>1, Zenon DEF Heads
  <2>4. h.p = p /\ h.used = 0 /\ ~h.over
    OBVIOUS
  <2> HIDE DEF h, n
  <2>5. H[n] = H[0]
    <3>1. 0 \in Nat /\ 0 <= n /\ 0 + 1 = 1
      BY <2>2
    <3>2. H[0].p.state = "READ"
      BY <1>9, <2>3, <2>4
    <3>3. Loop(H, data, 0, n)
      BY <2>3, <3>1 DEF Loop
    <3> QED BY <2>2, <3>1, <3>2, <3>3, ContentLoop
  <2>6. SubSeq(data, h.used + 1, Len(data)) = data
    <3>1. h.used + 1 = 1
      BY <2>4
    <3> QED BY <1>5, <3>1, WholeSubSeq
  <2>7. HeadOf(p, data) = h
    BY <2>3, <2>5
  <2>8. AppendToCurrentPart(p, data) = InContent(p, data)
    <3>1. p.state # "FINISHED"
      BY <1>9
    <3> QED BY <1>9, <1>11, <2>4, <2>6, <2>7, <3>1, Zenon DEF AppendToCurrentPart
  <2> QED BY <1>4, <1>8, <2>8 DEF g2
<1> QED BY <1>10, <1>11

\* The headers end and the content begins in the data of one call.
LEMMA PartBegun ==
  ASSUME NEW b \in Seq(Symbols), NEW s, NEW e, NEW pt \in PartOf, PartCells(b, s, e, pt), Len(b) <= Unlimited,
         NEW p, NEW q, NEW bf, NEW done \in Seq(PartOf), NEW g \in {5, 6}, Heading(p, q, bf, b, done, s, g),
         NEW m \in 0 .. Len(pt.data)
  PROVE  Reading(AppendToCurrentPart(p, Slice(b, s + g, (s + 7) + m)), q, bf, done, pt, m, (s + 7) + m)
<1> DEFINE d == pt.data
           l == Len(d)
           g2 == 7 + m
           data == Slice(b, s + g, s + g2)
           n == g2 - g
           k == 6 - g
           A == AppendToCurrentPart(p, data)
<1>1. d \in Seq(Symbols) /\ l \in Nat /\ m \in 0 .. l
  BY TextFacts
<1>2. s \in Nat /\ e \in Nat /\ e <= Len(b) /\ e = s + 12 + l /\ b[s + 7] = "LF"
  BY Zenon DEF PartCells
<1> HIDE DEF d, l
<1>3. /\ g \in Nat /\ g2 \in Nat /\ g <= g2 /\ s + g2 <= e /\ n \in Nat /\ k \in 0 .. 1 /\ g + k = 6
      /\ k + 1 \in 1 .. n /\ k \in 0 .. n /\ (s + 7) + m = s + g2 /\ m \in Nat /\ k + 1 \in Nat
  BY <1>1, <1>2
<1>4. /\ data \in Seq(Symbols) /\ Len(data) = n
      /\ \A i \in 1 .. n : g + i <= 6 => HeadCell(data[i], (g + i) - 1)
  BY <1>3, HeaderData
<1>5. data[k + 1] = "LF" /\ data # << >>
  <2>1. /\ s + g \in Nat /\ s + g2 \in Nat /\ s + g <= s + g2 /\ s + g2 <= Len(b)
        /\ k + 1 \in 1 .. (s + g2) - (s + g) /\ (s + g) + (k + 1) = s + 7
    BY <1>1, <1>2, <1>3
  <2>2. \A j \in 1 .. (s + g2) - (s + g) : Slice(b, s + g, s + g2)[j] = b[(s + g) + j]
    BY <2>1, PieceFacts
  <2>3. data[k + 1] = "LF"
    BY <1>2, <2>1, <2>2
  <2> HIDE DEF data
  <2>4. data # << >>
    BY <1>3, <1>4
  <2> QED BY <2>3, <2>4
<1>6. /\ p \in Part /\ Base(p, q, bf, done, s + g)
      /\ p.state = HeaderState[g + 1] /\ p.counter = HeaderCounter[g + 1]
      /\ p.headers = Slice(b, s + 2, s + g)
  BY DEF Heading, Base
<1> HIDE DEF data
<1>7. PICK H : Heads(H, p, data)
  BY <1>4, HeadSteps
<1>8. /\ HeadOf(p, data) = H[n] /\ \A i \in 1 .. n : H[i] = HeadStep(H[i - 1], data, i)
  BY <1>4, <1>7, Zenon DEF Heads
<1>9. Head0(H[k], p, k, 0, 6)
  <2>1. Len(data) \in Nat /\ g \in 0 .. 6 /\ k \in 0 .. Len(data) /\ g + k <= 6
    BY <1>3, <1>4
  <2>2. \A i \in 1 .. Len(data) : g + i <= 6 => HeadCell(data[i], (g + i) - 1)
    BY <1>4
  <2> HIDE DEF k, n
  <2>3. Head0(H[k], p, k, From(g, k), g + k)
    BY <1>6, <1>7, <2>1, <2>2, HeaderLoop
  <2>4. From(g, k) = 0
    BY DEF From
  <2> QED BY <1>3, <2>3, <2>4
<1> DEFINE a == k + 1
           h == H[a]
<1>10. /\ Reading(h.p, q, bf, done, pt, 0, s + 7) /\ h.used = a /\ ~h.over
  <2>1. H[a] = HeadStep(H[k], data, a)
    <3>1. a \in 1 .. n /\ a - 1 = k
      BY <1>3
    <3> QED BY <1>8, <3>1
  <2>2. a \in Nat /\ data[a] = "LF"
    BY <1>3, <1>5
  <2> HIDE DEF a, k
  <2> QED BY SMTT(30), <1>2, <1>3, <1>6, <1>9, <2>1, <2>2, HeaderEnds
<1>11. h.p.state = "READ"
  BY <1>10, Zenon DEF Reading
<1>12. H[n] = h
  <2>1. a \in Nat /\ n \in Nat /\ a <= n
    BY <1>3
  <2>2. Loop(H, data, a, n)
    <3>1. \A i \in a + 1 .. n : i \in 1 .. n
      BY <1>3
    <3> QED BY <1>8, <3>1 DEF Loop
  <2> HIDE DEF a, n
  <2> QED BY <1>11, <2>1, <2>2, ContentLoop
<1> HIDE DEF h
<1>13. SubSeq(data, h.used + 1, Len(data)) = Slice(pt.data, 0, m)
  <2>1. SubSeq(data, h.used + 1, Len(data)) = Slice(data, a, n)
    BY <1>4, <1>10 DEF Slice
  <2>2. Slice(data, a, n) = Slice(b, (s + g) + a, (s + g) + n)
    <3> DEFINE x == s + g
               y == s + g2
    <3>1. /\ x \in Nat /\ y \in Nat /\ x <= y /\ y <= Len(b)
          /\ a \in Nat /\ n \in Nat /\ a <= n /\ n <= y - x
      BY <1>2, <1>3
    <3> HIDE DEF x, y, a, n
    <3>2. Slice(Slice(b, x, y), a, n) = Slice(b, x + a, x + n)
      BY <3>1, SlicePieces
    <3> QED BY <3>2 DEF x, y, data
  <2>3. (s + g) + a = (s + 7) + 0 /\ (s + g) + n = (s + 7) + m
    BY <1>2, <1>3
  <2>4. Slice(b, (s + 7) + 0, (s + 7) + m) = Slice(pt.data, 0, m)
    <3>1. 0 \in Nat /\ 0 <= m /\ m \in Nat /\ m <= Len(pt.data)
      BY <1>1 DEF l, d
    <3> QED BY <3>1, ContentCells
  <2> QED BY <2>1, <2>2, <2>3, <2>4
<1>14. A = InContent(h.p, Slice(pt.data, 0, m))
  <2>1. p.state # "FINISHED"
    BY <1>6 DEF HeaderState
  <2>2. HeadOf(p, data) = h
    BY <1>8, <1>12
  <2> QED BY <1>5, <1>10, <1>11, <1>13, <2>1, <2>2, Zenon DEF AppendToCurrentPart
<1>15. Reading(InContent(h.p, Slice(pt.data, 0, m)), q, bf, done, pt, m, (s + 7) + m)
  <2> DEFINE x == s + 7
             y == (s + 7) + m
  <2>1. x \in Nat /\ y \in Nat /\ y = x + (m - 0) /\ y <= Unlimited /\ 0 \in Nat /\ m \in 0 .. Len(pt.data)
    <3>1. Len(b) \in Nat /\ Unlimited \in Nat
      BY QueryAssumption
    <3> QED BY <1>1, <1>2, <3>1
  <2> HIDE DEF x, y
  <2>2. Reading(h.p, q, bf, done, pt, 0, x)
    BY <1>10 DEF x
  <2>3. Reading(InContent(h.p, Slice(pt.data, 0, m)), q, bf, done, pt, m, y)
    BY <2>1, <2>2, ContentGrown
  <2> QED BY <2>3 DEF y
<1> HIDE DEF A
<1>16. Reading(A, q, bf, done, pt, m, (s + 7) + m)
  BY <1>14, <1>15
<1> QED BY <1>3, <1>16 DEF A, data

\* A part may come in any pieces, but for one that ends in the first four of its
\* cells: its headers end in the next one.
LEMMA PartGrown ==
  ASSUME NEW b \in Seq(Symbols), Len(b) <= Unlimited, NEW ps \in Seq(PartOf), NEW k \in 1 .. Len(ps),
         NEW s, NEW e, PartCells(b, s, e, ps[k]),
         NEW p, NEW q, NEW bf, NEW g \in Nat, NEW g2 \in Nat, g <= g2, g2 <= 7 + Len(ps[k].data),
         g >= 5 \/ g2 <= 6, InPart(p, q, bf, b, ps, s, k, g)
  PROVE  InPart(AppendToCurrentPart(p, Slice(b, s + g, s + g2)), q, bf, b, ps, s, k, g2)
<1> DEFINE pt == ps[k]
           done == SubSeq(ps, 1, k - 1)
           l == Len(pt.data)
           A == AppendToCurrentPart(p, Slice(b, s + g, s + g2))
<1>1. pt \in PartOf /\ done \in Seq(PartOf)
  <2>1. 1 \in 1 .. Len(ps) + 1 /\ k - 1 \in 1 - 1 .. Len(ps)
    OBVIOUS
  <2> QED BY <2>1, SubSeqFacts
<1>2. l \in Nat /\ s \in Nat
  BY <1>1, TextFacts DEF PartCells
<1> HIDE DEF pt, done, l
<1>3. ASSUME NEW r, NEW j
      PROVE  /\ j < 7 => (InPart(r, q, bf, b, ps, s, k, j) <=> Heading(r, q, bf, b, done, s, j))
             /\ ~(j < 7) => (InPart(r, q, bf, b, ps, s, k, j) <=> Reading(r, q, bf, done, pt, j - 7, s + j))
  BY Zenon DEF InPart, Heading, Reading, done, pt
<1>4. PartCells(b, s, e, pt)
  BY DEF pt
<1>5. CASE g2 <= 6
  <2>1. g < 7 /\ g2 < 7 /\ g \in 0 .. 6 /\ g2 \in g .. 6
    BY <1>5
  <2>2. Heading(p, q, bf, b, done, s, g)
    BY <1>3, <2>1
  <2>3. Heading(A, q, bf, b, done, s, g2)
    BY <1>1, <1>4, <2>1, <2>2, HeadingGrown
  <2> HIDE DEF A
  <2>4. InPart(A, q, bf, b, ps, s, k, g2)
    BY <1>3, <2>1, <2>3
  <2> QED BY <2>4 DEF A
<1>6. CASE g \in {5, 6} /\ g2 >= 7
  <2> DEFINE m == g2 - 7
  <2>1. g < 7 /\ ~(g2 < 7) /\ m \in 0 .. l /\ (s + 7) + m = s + g2
    BY <1>2, <1>6 DEF l, pt
  <2>2. Heading(p, q, bf, b, done, s, g)
    BY <1>3, <2>1
  <2> HIDE DEF m
  <2>3. Reading(AppendToCurrentPart(p, Slice(b, s + g, (s + 7) + m)), q, bf, done, pt, m, (s + 7) + m)
    BY <1>1, <1>4, <1>6, <2>1, <2>2, PartBegun DEF l
  <2>4. Reading(A, q, bf, done, pt, m, s + g2)
    BY <2>1, <2>3
  <2> HIDE DEF A
  <2>5. InPart(A, q, bf, b, ps, s, k, g2)
    BY <1>3, <2>1, <2>4 DEF m
  <2> QED BY <2>5 DEF A
<1>7. CASE g >= 7
  <2> DEFINE m == g - 7
             m2 == g2 - 7
  <2>1. /\ ~(g < 7) /\ ~(g2 < 7) /\ m \in Nat /\ m2 \in m .. l
        /\ (s + 7) + m = s + g /\ (s + 7) + m2 = s + g2
    BY <1>2, <1>7 DEF l, pt
  <2>2. Reading(p, q, bf, done, pt, m, s + g)
    BY <1>3, <2>1
  <2> HIDE DEF m, m2
  <2>3. Reading(p, q, bf, done, pt, m, (s + 7) + m)
    BY <2>1, <2>2
  <2>4. Reading(AppendToCurrentPart(p, Slice(b, (s + 7) + m, (s + 7) + m2)), q, bf, done, pt, m2, (s + 7) + m2)
    BY <1>1, <1>4, <2>1, <2>3, PartMore DEF l
  <2>5. Reading(A, q, bf, done, pt, m2, s + g2)
    BY <2>1, <2>4
  <2> HIDE DEF A
  <2>6. InPart(A, q, bf, b, ps, s, k, g2)
    BY <1>3, <2>1, <2>5 DEF m2
  <2> QED BY <2>6 DEF A
<1>8. g2 <= 6 \/ (g \in {5, 6} /\ g2 >= 7) \/ g >= 7
  OBVIOUS
<1> QED BY <1>5, <1>6, <1>7, <1>8

\* The parser is in front of part k, or of what follows the last boundary.
Begun(p, q, bf, b, ps, s, k) ==
  /\ k <= Len(ps) => InPart(p, q, bf, b, ps, s, k, 0)
  /\ k > Len(ps) => InClosing(p, q, bf, ps, s, 0)

\* A new part begins with no headers.
NewPart(p, r, v, w, t) ==
  r \in Part /\ Results(p, r) /\ r.state = v /\ r.counter = w /\ r.headers = t

\* Nothing else is set.
LEMMA NewPartSets ==
  ASSUME NEW p \in Part, NEW v \in States, NEW w \in 0 .. 4, NEW t \in Seq(STRING)
  PROVE  NewPart(p, [p EXCEPT !.state = v, !.counter = w, !.headers = t], v, w, t)
BY DEF NewPart, States, Part, Results

\* StartNewPart() does it.
LEMMA NewParts ==
  ASSUME NEW p \in Part
  PROVE  NewPart(p, StartNewPart(p), "HEADERSTART", 0, << >>)
<1> DEFINE E == << >>
<1>1. E \in Seq(STRING) /\ "HEADERSTART" \in States /\ 0 \in 0 .. 4
  BY EmptySeq DEF States
<1>2. StartNewPart(p) = [p EXCEPT !.state = "HEADERSTART", !.counter = 0, !.headers = E]
  BY DEF StartNewPart
<1> HIDE DEF E
<1>3. NewPart(p, [p EXCEPT !.state = "HEADERSTART", !.counter = 0, !.headers = E], "HEADERSTART", 0, E)
  BY <1>1, NewPartSets
<1>4. NewPart(p, StartNewPart(p), "HEADERSTART", 0, E)
  BY <1>2, <1>3
<1> QED BY <1>4 DEF E

\* It begins when everything in front of it was read.
LEMMA PartBegins ==
  ASSUME NEW b \in Seq(Symbols), NEW ps \in Seq(PartOf), NEW k \in 1 .. Len(ps) + 1,
         NEW s \in Nat, NEW g \in Nat, g <= s,
         NEW p, NEW q, NEW bf, Base(p, q, bf, SubSeq(ps, 1, k - 1), g)
  PROVE  Begun(StartNewPart(p), q, bf, b, ps, s, k)
<1> DEFINE r == StartNewPart(p)
           done == SubSeq(ps, 1, k - 1)
<1>1. NewPart(p, r, "HEADERSTART", 0, << >>)
  BY NewParts DEF Base
<1> HIDE DEF r
<1>2. Base(r, q, bf, done, s) /\ s + 0 = s
  <2>1. r \in Part /\ Results(p, r)
    BY <1>1 DEF NewPart
  <2> QED BY <2>1, BaseKept
<1>3. r.headers = Slice(b, s + 2, s + 0)
  <2>1. s + 0 < (s + 2) + 1 /\ s + 0 \in Int /\ (s + 2) + 1 \in Int
    OBVIOUS
  <2>2. SubSeq(b, (s + 2) + 1, s + 0) = << >>
    BY <2>1, SubSeqEmpty
  <2> QED BY <1>1, <2>2 DEF NewPart, Slice
<1>4. ASSUME k <= Len(ps) PROVE InPart(r, q, bf, b, ps, s, k, 0)
  <2>1. 0 < 7 /\ HeaderState[0 + 1] = "HEADERSTART" /\ HeaderCounter[0 + 1] = 0
    BY DEF HeaderState, HeaderCounter
  <2>2. Base(r, q, bf, done, s + 0)
    BY <1>2
  <2> QED BY <1>1, <1>3, <2>1, <2>2, Zenon DEF NewPart, InPart
<1>5. ASSUME k > Len(ps) PROVE InClosing(r, q, bf, ps, s, 0)
  <2>1. done = ps
    <3>1. k - 1 = Len(ps)
      BY <1>5
    <3> QED BY <3>1, WholeSubSeq
  <2>2. Base(r, q, bf, ps, s + 0) /\ 0 < 2
    <3> HIDE DEF done
    <3> QED BY <1>2, <2>1
  <2> QED BY <1>1, <2>2, Zenon DEF NewPart, InClosing
<1> QED BY <1>4, <1>5 DEF Begun, r

\* The first part, or the end of a body without parts.
LEMMA FirstBegins ==
  ASSUME NEW b \in Seq(Symbols), NEW ps \in Seq(PartOf), NEW s \in Nat, NEW p, NEW q, NEW bf, Idle(p, q, bf)
  PROVE  Begun(StartNewPart(p), q, bf, b, ps, s, 1)
<1>1. 1 \in 1 .. Len(ps) + 1 /\ 0 \in Nat /\ 0 <= s
  OBVIOUS
<1>2. SubSeq(ps, 1, 1 - 1) = << >>
  BY SubSeqEmpty
<1>3. Base(p, q, bf, SubSeq(ps, 1, 1 - 1), 0)
  BY <1>2 DEF Idle
<1> QED BY <1>1, <1>3, PartBegins

\* The next part, or the end of the body: the part in front has all its content.
LEMMA NextBegins ==
  ASSUME NEW b \in Seq(Symbols), NEW ps \in Seq(PartOf), NEW k \in 1 .. Len(ps),
         NEW s, NEW e, PartCells(b, s, e, ps[k]), NEW p, NEW q, NEW bf,
         NEW g, g = 7 + Len(ps[k].data), InPart(p, q, bf, b, ps, s, k, g)
  PROVE  Begun(StartNewPart(p), q, bf, b, ps, e, k + 1)
<1> DEFINE pt == ps[k]
           done == SubSeq(ps, 1, k - 1)
           l == Len(pt.data)
<1>1. pt \in PartOf /\ l \in Nat
  <2>1. pt \in PartOf
    OBVIOUS
  <2> QED BY <2>1, TextFacts
<1>2. s \in Nat /\ e \in Nat /\ e = s + 12 + l
  BY Zenon DEF PartCells
<1>3. Cut(pt, l) = pt
  <2>1. l \in 0 .. Len(pt.data)
    BY <1>1
  <2> QED BY <1>1, <2>1, CutFacts
<1>4. Append(done, pt) = SubSeq(ps, 1, k)
  <2> DEFINE r == SubSeq(ps, 1, k)
  <2>1. 1 \in 1 .. Len(ps) + 1 /\ k - 1 \in 1 - 1 .. Len(ps) /\ k \in 1 - 1 .. Len(ps)
    OBVIOUS
  <2>2. /\ done \in Seq(PartOf) /\ Len(done) = (k - 1) - 1 + 1
        /\ \A j \in 1 .. (k - 1) - 1 + 1 : done[j] = ps[1 + j - 1]
    BY <2>1, SubSeqFacts
  <2>3. /\ r \in Seq(PartOf) /\ Len(r) = k - 1 + 1 /\ \A j \in 1 .. k - 1 + 1 : r[j] = ps[1 + j - 1]
    BY <2>1, SubSeqFacts
  <2> HIDE DEF done, r, pt
  <2>4. Len(done) + 1 = k /\ Len(r) = k /\ r \in [1 .. Len(done) + 1 -> PartOf]
    BY <2>2, <2>3
  <2>5. (\A i \in 1 .. Len(done) : r[i] = done[i]) /\ r[Len(done) + 1] = pt
    <3>1. \A i \in 1 .. k - 1 : r[i] = ps[i] /\ done[i] = ps[i]
      BY <2>2, <2>3
    <3>2. r[k] = ps[k]
      BY <2>3
    <3> QED BY <2>4, <3>1, <3>2 DEF pt
  <2>6. r = Append(done, pt)
    BY <1>1, <2>2, <2>4, <2>5, IsAppended
  <2> QED BY <2>6 DEF r
<1> HIDE DEF l
<1>5. Base(p, q, bf, SubSeq(ps, 1, (k + 1) - 1), s + g)
  <2>1. ~(g < 7) /\ g - 7 = l
    BY <1>1 DEF l
  <2>2. Base(p, q, bf, Append(SubSeq(ps, 1, k - 1), Cut(ps[k], g - 7)), s + g)
    BY <2>1, Zenon DEF InPart
  <2>3. (k + 1) - 1 = k
    OBVIOUS
  <2> QED BY <1>3, <1>4, <2>1, <2>2, <2>3
<1>6. s + g \in Nat /\ s + g <= e /\ k + 1 \in 1 .. Len(ps) + 1
  <2>1. g = 7 + l
    BY DEF l
  <2> QED BY <1>1, <1>2, <2>1
<1> QED BY <1>2, <1>5, <1>6, PartBegins

-----------------------------------------------------------------------------
(* Boundaries: what is matched, and what is kept for the next call.        *)

\* The symbols of a boundary.
LEMMA BoundaryFacts ==
  /\ Len(BoundaryStr) = 5
  /\ BoundaryStr[1] = "CR" /\ BoundaryStr[2] = "LF" /\ BoundaryStr[3] = "-" /\ BoundaryStr[4] = "-"
  /\ BoundaryStr[5] = "BOUNDARY"
  /\ \A i \in 1 .. 5 : /\ BoundaryStr[i] = "CR" => i = 1
                       /\ BoundaryStr[i] = "BOUNDARY" => i = 5
BY DEF BoundaryStr

\* The beginning of a boundary, with its next symbol, is in front of P.
Full(b, P, j) == \A i \in 1 .. j + 1 : b[P - j + i] = BoundaryStr[i]

\* What is matched is the longest beginning of a boundary.
LEMMA MatchingFacts ==
  ASSUME NEW b, NEW s, NEW P, NEW c
  PROVE  Matching(b, s, P, c) <=>
           /\ s <= P /\ c \in 0 .. 4 /\ c <= P - s
           /\ \A i \in 1 .. c : b[P - c + i] = BoundaryStr[i]
           /\ \A j \in 1 .. 4 : P - j >= s /\ P < Len(b) /\ Full(b, P, j) => c = j
BY DEF Matching, Full

\* A beginning that goes on has gone on one symbol before.
LEMMA FullBefore ==
  ASSUME NEW b, NEW P \in Nat, NEW j \in 2 .. 4, Full(b, P + 1, j)
  PROVE  Full(b, P, j - 1) /\ j - 1 \in 1 .. 4
<1>1. \A i \in 1 .. (j - 1) + 1 : b[P - (j - 1) + i] = BoundaryStr[i]
  <2> SUFFICES ASSUME NEW i \in 1 .. (j - 1) + 1 PROVE b[P - (j - 1) + i] = BoundaryStr[i]
    OBVIOUS
  <2>1. i \in 1 .. j + 1 /\ (P + 1) - j + i = P - (j - 1) + i
    OBVIOUS
  <2>2. b[(P + 1) - j + i] = BoundaryStr[i]
    BY <2>1 DEF Full
  <2> QED BY <2>1, <2>2
<1> QED BY <1>1 DEF Full

\* Content is scanned.
LEMMA MatchingScan ==
  ASSUME NEW b, Len(b) \in Nat, NEW s \in Nat, NEW P \in Nat, P < Len(b), Matching(b, s, P, 0), b[P + 1] # "CR"
  PROVE  Matching(b, s, P + 1, 0)
<1>1. s <= P /\ \A j \in 1 .. 4 : P - j >= s /\ P < Len(b) /\ Full(b, P, j) => 0 = j
  BY MatchingFacts
<1>2. ASSUME NEW j \in 1 .. 4, (P + 1) - j >= s, P + 1 < Len(b), Full(b, P + 1, j) PROVE 0 = j
  <2>1. CASE j = 1
    <3>1. 1 \in 1 .. j + 1 /\ (P + 1) - j + 1 = P + 1
      BY <2>1
    <3>2. b[(P + 1) - j + 1] = BoundaryStr[1]
      BY <1>2, <3>1 DEF Full
    <3> QED BY <3>1, <3>2, BoundaryFacts
  <2>2. CASE j # 1
    <3>1. j \in 2 .. 4 /\ P - (j - 1) >= s
      BY <1>2, <2>2
    <3>2. Full(b, P, j - 1) /\ j - 1 \in 1 .. 4
      BY <1>2, <3>1, FullBefore
    <3>3. 0 = j - 1
      BY <1>1, <3>1, <3>2
    <3> QED BY <3>1, <3>3
  <2> QED BY <2>1, <2>2
<1>3. s <= P + 1 /\ 0 \in 0 .. 4 /\ 0 <= (P + 1) - s /\ \A i \in 1 .. 0 : b[(P + 1) - 0 + i] = BoundaryStr[i]
  BY <1>1
<1> QED BY <1>2, <1>3, MatchingFacts

\* One more symbol is matched.
LEMMA MatchingOne ==
  ASSUME NEW b, Len(b) \in Nat, NEW s \in Nat, NEW P \in Nat, P < Len(b), NEW c, c + 1 < 5,
         Matching(b, s, P, c), b[P + 1] = BoundaryStr[c + 1]
  PROVE  Matching(b, s, P + 1, c + 1)
<1>1. /\ s <= P /\ c \in 0 .. 4 /\ c <= P - s
      /\ \A i \in 1 .. c : b[P - c + i] = BoundaryStr[i]
      /\ \A j \in 1 .. 4 : P - j >= s /\ P < Len(b) /\ Full(b, P, j) => c = j
  BY MatchingFacts
<1>2. ASSUME NEW j \in 1 .. 4, (P + 1) - j >= s, P + 1 < Len(b), Full(b, P + 1, j) PROVE c + 1 = j
  <2>1. CASE j = 1
    <3>1. 1 \in 1 .. j + 1 /\ (P + 1) - j + 1 = P + 1
      BY <2>1
    <3>2. b[(P + 1) - j + 1] = BoundaryStr[1]
      BY <1>2, <3>1 DEF Full
    <3>3. c + 1 \in 1 .. 5 /\ BoundaryStr[c + 1] = "CR"
      BY <1>1, <3>1, <3>2, BoundaryFacts
    <3>4. c + 1 = 1
      BY <3>3, BoundaryFacts
    <3> QED BY <2>1, <3>4
  <2>2. CASE j # 1
    <3>1. j \in 2 .. 4 /\ P - (j - 1) >= s
      BY <1>2, <2>2
    <3>2. Full(b, P, j - 1) /\ j - 1 \in 1 .. 4
      BY <1>2, <3>1, FullBefore
    <3>3. c = j - 1
      BY <1>1, <3>1, <3>2
    <3> QED BY <3>1, <3>3
  <2> QED BY <2>1, <2>2
<1>3. ASSUME NEW i \in 1 .. c + 1 PROVE b[(P + 1) - (c + 1) + i] = BoundaryStr[i]
  <2>1. (P + 1) - (c + 1) + i = P - c + i /\ (i = c + 1 => P - c + i = P + 1) /\ (i # c + 1 => i \in 1 .. c)
    BY <1>1
  <2> QED BY <1>1, <2>1
<1>4. s <= P + 1 /\ c + 1 \in 0 .. 4 /\ c + 1 <= (P + 1) - s
  BY <1>1
<1> DEFINE Q == P + 1
           d == c + 1
<1>5. /\ s <= Q /\ d \in 0 .. 4 /\ d <= Q - s
      /\ \A i \in 1 .. d : b[Q - d + i] = BoundaryStr[i]
      /\ \A j \in 1 .. 4 : Q - j >= s /\ Q < Len(b) /\ Full(b, Q, j) => d = j
  BY <1>2, <1>3, <1>4
<1> HIDE DEF Q, d
<1>6. Matching(b, s, Q, d)
  BY <1>5, MatchingFacts
<1> QED BY <1>6 DEF Q, d

\* A match that is broken leaves nothing that could go on.
LEMMA MatchingBroken ==
  ASSUME NEW b, NEW s \in Nat, NEW P \in Nat, NEW c,
         Matching(b, s, P, c), b[P + 1] # BoundaryStr[c + 1]
  PROVE  Matching(b, s, P, 0)
<1>1. /\ s <= P /\ \A j \in 1 .. 4 : P - j >= s /\ P < Len(b) /\ Full(b, P, j) => c = j
  BY MatchingFacts
<1>2. ASSUME NEW j \in 1 .. 4, P - j >= s, P < Len(b), Full(b, P, j) PROVE 0 = j
  <2>1. c = j
    BY <1>1, <1>2
  <2>2. j + 1 \in 1 .. j + 1 /\ P - j + (j + 1) = P + 1
    OBVIOUS
  <2>3. b[P - j + (j + 1)] = BoundaryStr[j + 1]
    BY <1>2, <2>2 DEF Full
  <2> QED BY <2>1, <2>2, <2>3
<1>3. 0 \in 0 .. 4 /\ 0 <= P - s /\ \A i \in 1 .. 0 : b[P - 0 + i] = BoundaryStr[i]
  BY <1>1
<1> QED BY <1>1, <1>2, <1>3, MatchingFacts

\* The boundary behind a part is not missed.
LEMMA NoneMissed ==
  ASSUME NEW b, Len(b) \in Nat, NEW s, NEW e, NEW pt \in PartOf, PartCells(b, s, e, pt), NEW P \in Nat,
         P < e, NEW c, Matching(b, s, P, c)
  PROVE  /\ P > e - 5 => c = P - (e - 5) /\ b[P + 1] = BoundaryStr[c + 1]
         /\ P - s = 4 => c = 1
<1> DEFINE l == Len(pt.data)
<1>1. l \in Nat
  BY TextFacts
<1>2. /\ s \in Nat /\ e \in Nat /\ e = s + 12 + l /\ e <= Len(b) /\ b[s + 4] = "CR" /\ b[s + 5] = "LF"
      /\ \A i \in 1 .. 5 : b[e - 5 + i] = BoundaryStr[i]
  BY Zenon DEF PartCells
<1>3. \A j \in 1 .. 4 : P - j >= s /\ P < Len(b) /\ Full(b, P, j) => c = j
  BY MatchingFacts
<1>6. e \in Nat /\ s \in Nat
  BY <1>2
<1> HIDE DEF l
<1>4. ASSUME P > e - 5 PROVE c = P - (e - 5) /\ b[P + 1] = BoundaryStr[c + 1]
  <2>1. PICK j \in 1 .. 4 : P = (e - 5) + j
    <3>1. P - (e - 5) \in 1 .. 4 /\ P = (e - 5) + (P - (e - 5))
      BY <1>4, <1>6
    <3> QED BY <3>1
  <2>2. P - j = e - 5 /\ P - j >= s /\ P < Len(b) /\ j = P - (e - 5)
    BY <1>1, <1>2, <2>1
  <2>3. Full(b, P, j)
    <3>1. \A i \in 1 .. j + 1 : i \in 1 .. 5 /\ P - j + i = e - 5 + i
      BY <2>2
    <3> QED BY <1>2, <3>1 DEF Full
  <2>4. c = j
    BY <1>3, <2>2, <2>3
  <2>5. j + 1 \in 1 .. 5 /\ e - 5 + (j + 1) = P + 1
    BY <1>6, <2>1
  <2>6. b[P + 1] = BoundaryStr[j + 1]
    BY <1>2, <2>5
  <2> QED BY <2>2, <2>4, <2>6
<1>5. ASSUME P - s = 4 PROVE c = 1
  <2>1. 1 \in 1 .. 4 /\ P - 1 >= s /\ P < Len(b)
    BY <1>2, <1>5
  <2>2. Full(b, P, 1)
    <3>1. \A i \in 1 .. 1 + 1 : (i = 1 /\ P - 1 + i = s + 4) \/ (i = 2 /\ P - 1 + i = s + 5)
      BY <1>2, <1>5
    <3>2. \A i \in 1 .. 1 + 1 : b[P - 1 + i] = BoundaryStr[i]
      BY <1>2, <3>1, BoundaryFacts
    <3> QED BY <3>2 DEF Full
  <2> QED BY <1>3, <2>1, <2>2
<1> QED BY <1>4, <1>5

\* The part parser has got everything up to G behind the boundary that ends at s.
Got(b, ps, q, bf, s, k, p, G) ==
  /\ k <= Len(ps) => InPart(p, q, bf, b, ps, s, k, G - s)
  /\ k > Len(ps) => InClosing(p, q, bf, ps, s, G - s)

\* The boundaries in front of part k and behind it.
Between(o, k, s, e) == s = o[k - 1] /\ e = o[k]

\* It gets more.
LEMMA GotMore ==
  ASSUME NEW b, NEW ps, NEW o, Layout(b, ps, o), NEW k \in 1 .. Len(ps) + 1,
         NEW s, NEW e, Between(o, k, s, e), NEW q, NEW bf, NEW p,
         NEW G \in Nat, NEW G2 \in Nat, s <= G, G <= G2, G2 <= Len(b),
         k <= Len(ps) => G2 <= e - 5 /\ (G >= s + 5 \/ G2 <= s + 6),
         Got(b, ps, q, bf, s, k, p, G)
  PROVE  Got(b, ps, q, bf, s, k, AppendToCurrentPart(p, Slice(b, G, G2)), G2)
<1> DEFINE A == AppendToCurrentPart(p, Slice(b, G, G2))
           n == Len(ps)
<1>1. /\ OuterCells(b, o[0], o[n]) /\ n \in Nat /\ b \in Seq(Symbols) /\ ps \in Seq(PartOf)
      /\ o \in [0 .. n -> Nat] /\ Len(b) \in Nat /\ Len(b) <= Unlimited
  BY LayoutOuter
<1>2. s \in Nat
  <2>1. k - 1 \in 0 .. n
    BY <1>1
  <2> QED BY <1>1, <2>1 DEF Between
<1>3. PICK g \in Nat, g2 \in Nat : g = G - s /\ g2 = G2 - s
  <2>1. G - s \in Nat /\ G2 - s \in Nat
    BY <1>2
  <2> QED BY <2>1
<1>4. g <= g2 /\ s + g = G /\ s + g2 = G2
  BY <1>2, <1>3
<1>5. ASSUME k <= n PROVE InPart(A, q, bf, b, ps, s, k, G2 - s)
  <2>1. k \in 1 .. n
    BY <1>1, <1>5
  <2>3. PartCells(b, s, e, ps[k])
    BY <2>1, LayoutPart DEF Between
  <2> DEFINE l == Len(ps[k].data)
  <2>4. l \in Nat
    <3>1. ps[k] \in PartOf
      BY <1>1, <2>1
    <3> QED BY <3>1, TextFacts
  <2>5. e = s + 12 + l /\ e \in Nat
    BY <2>3, Zenon DEF PartCells
  <2> HIDE DEF l
  <2>6. g2 <= 7 + l /\ (g >= 5 \/ g2 <= 6)
    <3>1. G2 <= e - 5 /\ (G >= s + 5 \/ G2 <= s + 6)
      BY <1>5
    <3> QED BY <1>2, <1>4, <2>4, <2>5, <3>1
  <2>7. InPart(p, q, bf, b, ps, s, k, g)
    BY <1>3, <1>5 DEF Got
  <2>8. InPart(AppendToCurrentPart(p, Slice(b, s + g, s + g2)), q, bf, b, ps, s, k, g2)
    BY <1>1, <1>4, <2>1, <2>3, <2>6, <2>7, PartGrown DEF l
  <2> HIDE DEF A
  <2>9. InPart(A, q, bf, b, ps, s, k, g2)
    BY <1>4, <2>8 DEF A
  <2> QED BY <1>3, <2>9
<1>6. ASSUME k > n PROVE InClosing(A, q, bf, ps, s, G2 - s)
  <2>1. k = n + 1 /\ s = o[n]
    <3>1. k = n + 1 /\ k - 1 = n
      BY <1>1, <1>6
    <3> QED BY <3>1 DEF Between
  <2>2. Len(b) = s + 4 /\ b[s + 1] = "-" /\ b[s + 2] = "-"
    BY <1>1, <2>1, Zenon DEF OuterCells
  <2>3. g \in 0 .. 4 /\ g2 \in g .. 4
    BY <1>2, <1>4, <2>2
  <2>4. InClosing(p, q, bf, ps, s, g)
    BY <1>3, <1>6 DEF Got
  <2>5. InClosing(AppendToCurrentPart(p, Slice(b, s + g, s + g2)), q, bf, ps, s, g2)
    BY <1>1, <1>2, <2>2, <2>3, <2>4, ClosingGrown
  <2> HIDE DEF A
  <2>6. InClosing(A, q, bf, ps, s, g2)
    BY <1>4, <2>5 DEF A
  <2> QED BY <1>3, <2>6
<1> QED BY <1>5, <1>6 DEF Got

\* Where the scanner is behind the boundary that ends at s.
Placed(b, ps, s, k, e, P, B, C, c, tmp, G) ==
  /\ Matching(b, s, P, c) /\ s <= C /\ Pending(b, P, B, C, c, tmp)
  /\ G = Given(P, B, C, c) /\ s <= G
  /\ k <= Len(ps) => P < e /\ HeaderPlace(s, P, c, G)

\* A state behind a boundary is a place and what was given.
LEMMA BehindIs ==
  ASSUME NEW b, NEW ps, NEW q, NEW bf, NEW o, NEW k, NEW P, NEW B, NEW C, NEW c, NEW tmp, NEW p,
         NEW s, NEW e, Between(o, k, s, e)
  PROVE  Behind(b, ps, q, bf, o, k, P, B, C, c, tmp, p) <=>
           \E G : Placed(b, ps, s, k, e, P, B, C, c, tmp, G) /\ Got(b, ps, q, bf, s, k, p, G)
<1>1. s = o[k - 1] /\ e = o[k]
  BY DEF Between
<1>2. ASSUME Behind(b, ps, q, bf, o, k, P, B, C, c, tmp, p)
      PROVE  \E G : Placed(b, ps, s, k, e, P, B, C, c, tmp, G) /\ Got(b, ps, q, bf, s, k, p, G)
  <2> DEFINE G == Given(P, B, C, c)
  <2>1. /\ Matching(b, s, P, c) /\ s <= C /\ Pending(b, P, B, C, c, tmp) /\ s <= G
        /\ k <= Len(ps) => /\ P < e /\ HeaderPlace(s, P, c, G)
                           /\ InPart(p, q, bf, b, ps, s, k, G - s)
        /\ k > Len(ps) => InClosing(p, q, bf, ps, s, G - s)
    BY <1>1, <1>2, Zenon DEF Behind
  <2> QED BY <2>1, Zenon DEF Placed, Got
<1>3. ASSUME NEW G, Placed(b, ps, s, k, e, P, B, C, c, tmp, G), Got(b, ps, q, bf, s, k, p, G)
      PROVE  Behind(b, ps, q, bf, o, k, P, B, C, c, tmp, p)
  <2>1. /\ Matching(b, s, P, c) /\ s <= C /\ Pending(b, P, B, C, c, tmp) /\ G = Given(P, B, C, c) /\ s <= G
        /\ k <= Len(ps) => /\ P < e /\ HeaderPlace(s, P, c, G)
                           /\ InPart(p, q, bf, b, ps, s, k, G - s)
        /\ k > Len(ps) => InClosing(p, q, bf, ps, s, G - s)
    BY <1>3, Zenon DEF Placed, Got
  <2> QED BY <1>1, <2>1, Zenon DEF Behind
<1> QED BY <1>2, <1>3

\* The offsets of one call.
Offsets(b, P, B, C) ==
  /\ b \in Seq(Symbols) /\ P \in Nat /\ B \in Nat /\ C \in Nat /\ Len(b) \in Nat
  /\ B <= C /\ C <= P /\ P <= Len(b)

\* What was given is in front of what is matched, and the rest is kept in ParseTmp.
LEMMA GivenFacts ==
  ASSUME NEW b, NEW s \in Nat, NEW P, NEW B, NEW C, Offsets(b, P, B, C), NEW c, Matching(b, s, P, c),
         NEW tmp, Pending(b, P, B, C, c, tmp), NEW G, G = Given(P, B, C, c)
  PROVE  /\ G \in Nat /\ G <= P - c /\ c \in 0 .. 4 /\ P - c \in Nat /\ s <= P - c
         /\ P - c < B => G = P - c /\ C = B /\ tmp = Slice(b, P - c, B) /\ c > 0
         /\ ~(P - c < B) => G = C /\ C <= P - c /\ tmp = << >>
<1>1. c \in 0 .. 4 /\ c <= P - s /\ s <= P
  BY MatchingFacts
<1>2. P \in Nat /\ B \in Nat /\ C \in Nat /\ B <= C /\ C <= P
  BY DEF Offsets
<1>3. P - c < B => G = P - c /\ C = B /\ tmp = Slice(b, P - c, B)
  BY DEF Given, Pending
<1>4. ~(P - c < B) => G = C /\ C <= P - c /\ tmp = << >>
  BY DEF Given, Pending
<1>5. P - c \in Nat /\ s <= P - c
  BY <1>1, <1>2
<1>6. P - c < B => c > 0
  BY <1>1, <1>2
<1> QED BY <1>1, <1>2, <1>3, <1>4, <1>5, <1>6

\* The place of a boundary is known in time.
LEMMA PartPlace ==
  ASSUME NEW b, NEW ps, NEW o, Layout(b, ps, o), NEW k \in 1 .. Len(ps), NEW s, NEW e, Between(o, k, s, e),
         NEW P \in Nat, P < e, NEW c, Matching(b, s, P, c)
  PROVE  /\ s \in Nat /\ e \in Nat /\ s + 12 <= e /\ e <= Len(b) /\ P - c <= e - 5
         /\ P > e - 5 => c = P - (e - 5) /\ b[P + 1] = BoundaryStr[c + 1]
         /\ P - s = 4 => c = 1
         /\ b[s + 6] = "CR" /\ b[e] = "BOUNDARY"
         /\ \A i \in s + 1 .. e : b[i] = "BOUNDARY" => i = e
<1> DEFINE pt == ps[k]
           l == Len(pt.data)
<1>1. b \in Seq(Symbols) /\ ps \in Seq(PartOf) /\ Len(b) \in Nat
  BY LayoutOuter
<1>2. pt \in PartOf /\ l \in Nat
  <2>1. pt \in PartOf
    BY <1>1
  <2> QED BY <2>1, TextFacts
<1>3. PartCells(b, s, e, pt)
  BY LayoutPart DEF Between
<1> HIDE DEF pt
<1>4. /\ s \in Nat /\ e \in Nat /\ e = s + 12 + l /\ e <= Len(b) /\ b[s + 6] = "CR"
      /\ \A i \in 1 .. 5 : b[e - 5 + i] = BoundaryStr[i]
      /\ \A i \in s + 1 .. e : b[i] = "BOUNDARY" => i = e
  BY <1>3, Zenon DEF PartCells
<1> HIDE DEF l
<1>5. /\ P > e - 5 => c = P - (e - 5) /\ b[P + 1] = BoundaryStr[c + 1]
      /\ P - s = 4 => c = 1
  BY <1>1, <1>2, <1>3, NoneMissed
<1>6. c \in 0 .. 4
  BY MatchingFacts
<1>7. P - c <= e - 5 /\ s + 12 <= e
  <2>1. e \in Nat /\ s \in Nat /\ e = s + 12 + l
    BY <1>4
  <2>2. P > e - 5 => c = P - (e - 5)
    BY <1>5
  <2> QED BY <1>2, <1>6, <2>1, <2>2
<1>8. b[e] = "BOUNDARY"
  <2>1. 5 \in 1 .. 5 /\ e - 5 + 5 = e
    BY <1>4
  <2> QED BY <1>4, <2>1, BoundaryFacts
<1> QED BY <1>4, <1>5, <1>7, <1>8

\* Where a boundary ends is a natural number.
LEMMA BetweenFacts ==
  ASSUME NEW b, NEW ps, NEW o, Layout(b, ps, o), NEW k \in 1 .. Len(ps) + 1, NEW s, NEW e, Between(o, k, s, e)
  PROVE  s \in Nat /\ Len(ps) \in Nat /\ (k > Len(ps) => Len(b) = s + 4 /\ OuterCells(b, o[0], s) /\ k = Len(ps) + 1)
<1> DEFINE n == Len(ps)
<1>1. OuterCells(b, o[0], o[n]) /\ n \in Nat /\ o \in [0 .. n -> Nat]
  BY LayoutOuter
<1>2. s \in Nat
  <2>1. k - 1 \in 0 .. n
    BY <1>1
  <2> QED BY <1>1, <2>1 DEF Between
<1>3. ASSUME k > n PROVE Len(b) = s + 4 /\ OuterCells(b, o[0], s) /\ k = n + 1
  <2>1. k - 1 = n /\ k = n + 1
    BY <1>1, <1>3
  <2>2. s = o[n]
    BY <2>1 DEF Between
  <2>3. OuterCells(b, o[0], s)
    BY <1>1, <2>2
  <2> QED BY <2>1, <2>3, Zenon DEF OuterCells
<1> QED BY <1>1, <1>2, <1>3

\* A symbol of content.
LEMMA PlacedScan ==
  ASSUME NEW b, NEW ps, NEW o, Layout(b, ps, o), NEW k \in 1 .. Len(ps) + 1, NEW s, NEW e, Between(o, k, s, e),
         NEW P, NEW B, NEW C, Offsets(b, P, B, C), NEW tmp, NEW G,
         Placed(b, ps, s, k, e, P, B, C, 0, tmp, G), P < Len(b), b[P + 1] # "CR"
  PROVE  Placed(b, ps, s, k, e, P + 1, B, C, 0, tmp, G)
<1>1. s \in Nat /\ Len(ps) \in Nat
  BY BetweenFacts
<1>2. P \in Nat /\ B \in Nat /\ C \in Nat /\ Len(b) \in Nat /\ B <= C /\ C <= P /\ P <= Len(b)
  BY DEF Offsets
<1>3. /\ Matching(b, s, P, 0) /\ s <= C /\ Pending(b, P, B, C, 0, tmp) /\ G = Given(P, B, C, 0) /\ s <= G
      /\ k <= Len(ps) => P < e /\ HeaderPlace(s, P, 0, G)
  BY DEF Placed
<1>4. ~(P - 0 < B) /\ ~((P + 1) - 0 < B) /\ C <= (P + 1) - 0
  BY <1>2
<1>5. G = C /\ tmp = << >>
  BY <1>1, <1>3, <1>4, GivenFacts
<1>6. Pending(b, P + 1, B, C, 0, tmp) /\ G = Given(P + 1, B, C, 0)
  BY <1>4, <1>5, Zenon DEF Pending, Given
<1>7. Matching(b, s, P + 1, 0)
  BY <1>1, <1>2, <1>3, MatchingScan
<1>8. ASSUME k <= Len(ps) PROVE P + 1 < e /\ HeaderPlace(s, P + 1, 0, G)
  <2>1. k \in 1 .. Len(ps) /\ P < e
    BY <1>1, <1>3, <1>8
  <2>2. /\ e \in Nat /\ (P > e - 5 => 0 = P - (e - 5)) /\ (P - s = 4 => 0 = 1)
    BY <1>2, <1>3, <2>1, PartPlace
  <2>3. P + 1 < e
    BY <1>2, <2>1, <2>2
  <2>4. (P - s = 5 => 0 = 2 \/ (0 = 0 /\ G = s + 5)) /\ (P - s > 5 => G >= s + 5)
    BY <1>3, <1>8 DEF HeaderPlace
  <2>5. (P + 1) - s = 5 => P - s = 4
    BY <1>1, <1>2
  <2>6. (P + 1) - s > 5 => P - s = 5 \/ P - s > 5
    BY <1>1, <1>2
  <2>7. s + 5 >= s + 5
    BY <1>1
  <2>8. ~((P + 1) - s = 5)
    BY <2>2, <2>5
  <2>9. (P + 1) - s > 5 => G >= s + 5
    <3>1. 0 # 2
      OBVIOUS
    <3> QED BY <2>4, <2>6, <2>7, <3>1
  <2> QED BY <2>3, <2>8, <2>9, Zenon DEF HeaderPlace
<1> QED BY <1>3, <1>6, <1>7, <1>8, Zenon DEF Placed

\* A symbol of a boundary.
LEMMA PlacedOne ==
  ASSUME NEW b, NEW ps, NEW o, Layout(b, ps, o), NEW k \in 1 .. Len(ps) + 1, NEW s, NEW e, Between(o, k, s, e),
         NEW P, NEW B, NEW C, Offsets(b, P, B, C), NEW c, NEW tmp, NEW G,
         Placed(b, ps, s, k, e, P, B, C, c, tmp, G), P < Len(b), b[P + 1] = BoundaryStr[c + 1], c + 1 < 5
  PROVE  Placed(b, ps, s, k, e, P + 1, B, C, c + 1, tmp, G)
<1>1. s \in Nat /\ Len(ps) \in Nat
  BY BetweenFacts
<1>2. P \in Nat /\ B \in Nat /\ C \in Nat /\ Len(b) \in Nat /\ B <= C /\ C <= P /\ P <= Len(b)
  BY DEF Offsets
<1>3. /\ Matching(b, s, P, c) /\ s <= C /\ Pending(b, P, B, C, c, tmp) /\ G = Given(P, B, C, c) /\ s <= G
      /\ k <= Len(ps) => P < e /\ HeaderPlace(s, P, c, G)
  BY DEF Placed
<1>4. c \in 0 .. 4 /\ (P + 1) - (c + 1) = P - c
  <2>1. c \in 0 .. 4
    BY <1>3, MatchingFacts
  <2> QED BY <1>2, <2>1
<1>5. Pending(b, P + 1, B, C, c + 1, tmp) /\ G = Given(P + 1, B, C, c + 1)
  BY <1>3, <1>4, Zenon DEF Pending, Given
<1>6. Matching(b, s, P + 1, c + 1)
  BY <1>1, <1>2, <1>3, MatchingOne
<1>7. ASSUME k <= Len(ps) PROVE P + 1 < e /\ HeaderPlace(s, P + 1, c + 1, G)
  <2>1. k \in 1 .. Len(ps) /\ P < e
    BY <1>1, <1>3, <1>7
  <2>2. /\ e \in Nat /\ s + 12 <= e /\ (P - s = 4 => c = 1) /\ b[s + 6] = "CR" /\ b[e] = "BOUNDARY"
    BY <1>2, <1>3, <2>1, PartPlace
  <2>3. P + 1 < e
    <3>1. P + 1 # e
      <4>1. c + 1 \in 1 .. 5 /\ c + 1 # 5
        BY <1>4
      <4>2. BoundaryStr[c + 1] # "BOUNDARY"
        BY <4>1, BoundaryFacts
      <4> QED BY <2>2, <4>2
    <3>2. e \in Nat /\ P < e
      BY <2>1, <2>2
    <3> QED BY <1>2, <3>1, <3>2
  <2>4. (P - s = 5 => c = 2 \/ (c = 0 /\ G = s + 5)) /\ (P - s > 5 => G >= s + 5)
    BY <1>3, <1>7 DEF HeaderPlace
  <2>5. (P + 1) - s = 5 => c + 1 = 2
    <3>1. (P + 1) - s = 5 => P - s = 4
      BY <1>1, <1>2
    <3>2. c = 1 => c + 1 = 2
      OBVIOUS
    <3> QED BY <2>2, <3>1, <3>2
  <2>6. (P + 1) - s > 5 => G >= s + 5
    <3>1. (P + 1) - s > 5 => P - s = 5 \/ P - s > 5
      BY <1>1, <1>2
    <3>2. P - s = 5 => c # 2
      <4>1. P - s = 5 => P + 1 = s + 6
        BY <1>1, <1>2
      <4>2. c = 2 => c + 1 = 3
        OBVIOUS
      <4> QED BY <2>2, <4>1, <4>2, BoundaryFacts
    <3>3. s + 5 >= s + 5
      BY <1>1
    <3> QED BY <2>4, <3>1, <3>2, <3>3
  <2> QED BY <2>3, <2>5, <2>6, Zenon DEF HeaderPlace
<1> QED BY <1>3, <1>5, <1>6, <1>7, Zenon DEF Placed

\* A match that is broken: everything up to here is given.
LEMMA PlacedBroken ==
  ASSUME NEW b, NEW ps, NEW o, Layout(b, ps, o), NEW k \in 1 .. Len(ps) + 1, NEW s, NEW e, Between(o, k, s, e),
         NEW P, NEW B, NEW C, Offsets(b, P, B, C), NEW c, NEW tmp, NEW G,
         Placed(b, ps, s, k, e, P, B, C, c, tmp, G), P < Len(b), b[P + 1] # BoundaryStr[c + 1], c > 0
  PROVE  /\ Placed(b, ps, s, k, e, P, B, P, 0, << >>, P)
         /\ k <= Len(ps) => P <= e - 5 /\ (G >= s + 5 \/ P <= s + 6)
<1>1. s \in Nat /\ Len(ps) \in Nat
  BY BetweenFacts
<1>2. P \in Nat /\ B \in Nat /\ C \in Nat /\ Len(b) \in Nat /\ B <= C /\ C <= P /\ P <= Len(b) /\ B <= P
  BY DEF Offsets
<1>3. /\ Matching(b, s, P, c) /\ s <= C /\ Pending(b, P, B, C, c, tmp) /\ G = Given(P, B, C, c) /\ s <= G
      /\ k <= Len(ps) => P < e /\ HeaderPlace(s, P, c, G)
  BY DEF Placed
<1>4. ~(P - 0 < B) /\ P <= P - 0 /\ s <= P /\ P = P - 0
  BY <1>1, <1>2, <1>3
<1>5. Pending(b, P, B, P, 0, << >>) /\ P = Given(P, B, P, 0)
  BY <1>4, Zenon DEF Pending, Given
<1>6. Matching(b, s, P, 0)
  BY <1>1, <1>2, <1>3, MatchingBroken
<1>7. ASSUME k <= Len(ps)
      PROVE  P < e /\ HeaderPlace(s, P, 0, P) /\ P <= e - 5 /\ (G >= s + 5 \/ P <= s + 6)
  <2>1. k \in 1 .. Len(ps) /\ P < e
    BY <1>1, <1>3, <1>7
  <2>2. /\ e \in Nat /\ (P > e - 5 => b[P + 1] = BoundaryStr[c + 1])
    BY <1>2, <1>3, <2>1, PartPlace
  <2>3. P <= e - 5
    <3>1. ~(P > e - 5)
      BY <2>2
    <3> QED BY <1>2, <2>2, <3>1
  <2>4. P - s > 5 => G >= s + 5
    BY <1>3, <1>7 DEF HeaderPlace
  <2>5. P - s > 5 \/ P <= s + 6
    BY <1>1, <1>2
  <2>6. (P - s = 5 => P = s + 5) /\ (P - s > 5 => P >= s + 5)
    BY <1>1, <1>2
  <2>7. HeaderPlace(s, P, 0, P)
    BY <2>6 DEF HeaderPlace
  <2> QED BY <2>1, <2>3, <2>4, <2>5, <2>7
<1> QED BY <1>3, <1>4, <1>5, <1>6, <1>7, Zenon DEF Placed

\* A call ends: what may be the beginning of a boundary is kept.
LEMMA PlacedEnd ==
  ASSUME NEW b, NEW ps, NEW o, Layout(b, ps, o), NEW k \in 1 .. Len(ps) + 1, NEW s, NEW e, Between(o, k, s, e),
         NEW P, NEW B, NEW C, Offsets(b, P, B, C), NEW c, NEW tmp, NEW G,
         Placed(b, ps, s, k, e, P, B, C, c, tmp, G)
  PROVE  /\ Placed(b, ps, s, k, e, P, P, P, c, IF c > 0 THEN Slice(b, P - c, P) ELSE << >>, P - c)
         /\ k <= Len(ps) => P - c <= e - 5 /\ (G >= s + 5 \/ P - c <= s + 6)
<1>1. s \in Nat /\ Len(ps) \in Nat
  BY BetweenFacts
<1>2. P \in Nat /\ B \in Nat /\ C \in Nat /\ Len(b) \in Nat /\ B <= C /\ C <= P /\ P <= Len(b)
  BY DEF Offsets
<1>3. /\ Matching(b, s, P, c) /\ s <= C /\ Pending(b, P, B, C, c, tmp) /\ G = Given(P, B, C, c) /\ s <= G
      /\ k <= Len(ps) => P < e /\ HeaderPlace(s, P, c, G)
  BY DEF Placed
<1>4. G \in Nat /\ G <= P - c /\ c \in 0 .. 4 /\ P - c \in Nat /\ s <= P - c
  BY <1>1, <1>3, GivenFacts
<1> DEFINE t == IF c > 0 THEN Slice(b, P - c, P) ELSE << >>
<1>5. Pending(b, P, P, P, c, t) /\ P - c = Given(P, P, P, c)
  <2>1. CASE c > 0
    <3>1. P - c < P
      BY <1>2, <1>4, <2>1
    <3> QED BY <2>1, <3>1, Zenon DEF Pending, Given
  <2>2. CASE ~(c > 0)
    <3>1. ~(P - c < P) /\ P <= P - c /\ P - c = P
      BY <1>2, <1>4, <2>2
    <3> QED BY <2>2, <3>1, Zenon DEF Pending, Given
  <2> QED BY <2>1, <2>2
<1> HIDE DEF t
<1>6. s <= P
  BY <1>1, <1>2, <1>3
<1>7. ASSUME k <= Len(ps)
      PROVE  P < e /\ HeaderPlace(s, P, c, P - c) /\ P - c <= e - 5 /\ (G >= s + 5 \/ P - c <= s + 6)
  <2>1. k \in 1 .. Len(ps) /\ P < e
    BY <1>1, <1>3, <1>7
  <2>2. P - c <= e - 5
    BY <1>2, <1>3, <2>1, PartPlace
  <2>4. (P - s = 5 => c = 2 \/ (c = 0 /\ G = s + 5)) /\ (P - s > 5 => G >= s + 5)
    BY <1>3, <1>7 DEF HeaderPlace
  <2>5. P - s > 5 \/ P - c <= s + 6
    BY <1>1, <1>2, <1>4
  <2>6. P - s = 5 => c = 2 \/ (c = 0 /\ P - c = s + 5)
    <3>1. P - s = 5 /\ c = 0 => P - c = s + 5
      BY <1>1, <1>2
    <3> QED BY <2>4, <3>1
  <2>7. P - s > 5 => P - c >= s + 5
    <3>1. G >= s + 5 => P - c >= s + 5
      BY <1>1, <1>4
    <3> QED BY <2>4, <3>1
  <2>8. HeaderPlace(s, P, c, P - c)
    BY <2>6, <2>7, Zenon DEF HeaderPlace
  <2> QED BY <2>1, <2>2, <2>4, <2>5, <2>8
<1>8. /\ Placed(b, ps, s, k, e, P, P, P, c, t, P - c)
      /\ k <= Len(ps) => P - c <= e - 5 /\ (G >= s + 5 \/ P - c <= s + 6)
  BY <1>3, <1>4, <1>5, <1>6, <1>7, Zenon DEF Placed
<1> QED BY <1>8 DEF t

\* A boundary is matched: it is the one behind this part.
LEMMA PlacedLast ==
  ASSUME NEW b, NEW ps, NEW o, Layout(b, ps, o), NEW k \in 1 .. Len(ps) + 1, NEW s, NEW e, Between(o, k, s, e),
         NEW P, NEW B, NEW C, Offsets(b, P, B, C), NEW tmp, NEW G,
         Placed(b, ps, s, k, e, P, B, C, 4, tmp, G), P < Len(b), b[P + 1] = "BOUNDARY"
  PROVE  /\ k \in 1 .. Len(ps) /\ P + 1 = e /\ e \in Nat /\ s + 12 <= e /\ G >= s + 5 /\ G <= e - 5
         /\ e <= Len(b) /\ P - 4 = e - 5
<1>1. s \in Nat /\ Len(ps) \in Nat /\ (k > Len(ps) => Len(b) = s + 4)
  BY BetweenFacts
<1>2. P \in Nat /\ B \in Nat /\ C \in Nat /\ Len(b) \in Nat /\ B <= C /\ C <= P /\ P <= Len(b)
  BY DEF Offsets
<1>3. /\ Matching(b, s, P, 4) /\ s <= C /\ Pending(b, P, B, C, 4, tmp) /\ G = Given(P, B, C, 4) /\ s <= G
      /\ k <= Len(ps) => P < e /\ HeaderPlace(s, P, 4, G)
  BY DEF Placed
<1>4. G \in Nat /\ G <= P - 4 /\ s <= P - 4
  BY <1>1, <1>3, GivenFacts
<1>5. k <= Len(ps)
  <2> SUFFICES ASSUME ~(k <= Len(ps)) PROVE FALSE
    OBVIOUS
  <2>1. Len(b) = s + 4
    BY <1>1
  <2> QED BY <1>1, <1>2, <1>4, <2>1
<1>6. k \in 1 .. Len(ps) /\ P < e
  BY <1>1, <1>3, <1>5
<1>7. /\ e \in Nat /\ s + 12 <= e /\ e <= Len(b) /\ \A i \in s + 1 .. e : b[i] = "BOUNDARY" => i = e
  BY <1>2, <1>3, <1>6, PartPlace
<1>8. P + 1 \in s + 1 .. e
  <2>1. e \in Nat
    BY <1>7
  <2> QED BY <1>1, <1>2, <1>4, <1>6, <2>1
<1>9. P + 1 = e
  BY <1>7, <1>8
<1>10. e \in Nat /\ s + 12 <= e
  BY <1>7
<1>11. P - s > 5 /\ P - 4 = e - 5
  BY <1>1, <1>2, <1>9, <1>10
<1>12. G >= s + 5
  BY <1>3, <1>5, <1>11 DEF HeaderPlace
<1> QED BY <1>4, <1>6, <1>7, <1>9, <1>11, <1>12

\* An empty piece.
LEMMA NoSlice ==
  ASSUME NEW b, NEW m \in Int, NEW n \in Int, n <= m
  PROVE  Slice(b, m, n) = << >>
<1>1. n < m + 1 /\ m + 1 \in Int
  OBVIOUS
<1> QED BY <1>1, SubSeqEmpty DEF Slice

\* Without data, AppendToCurrentPart() does nothing.
LEMMA NoData == \A p : AppendToCurrentPart(p, << >>) = p
BY Zenon DEF AppendToCurrentPart

\* A boundary has just been read.
LEMMA FreshPart ==
  ASSUME NEW b, NEW ps, NEW o, Layout(b, ps, o), NEW k \in 1 .. Len(ps) + 1, NEW s, s = o[k - 1],
         NEW q, NEW bf, NEW p, Begun(p, q, bf, b, ps, s, k), NEW B \in Nat, B <= s
  PROVE  Scanned(b, ps, q, bf, o, s, B, s, 0, << >>, p)
<1>1. PICK e : e = o[k]
  OBVIOUS
<1>2. Between(o, k, s, e)
  BY <1>1 DEF Between
<1>3. s \in Nat /\ Len(ps) \in Nat
  BY <1>2, BetweenFacts
<1>4. Matching(b, s, s, 0)
  <2>1. s <= s /\ 0 \in 0 .. 4 /\ 0 <= s - s /\ \A i \in 1 .. 0 : b[s - 0 + i] = BoundaryStr[i]
    BY <1>3
  <2>2. \A j \in 1 .. 4 : ~(s - j >= s)
    BY <1>3
  <2> QED BY <2>1, <2>2, MatchingFacts
<1>5. ~(s - 0 < B) /\ s <= s - 0 /\ s <= s /\ s - s = 0
  BY <1>3
<1>6. Pending(b, s, B, s, 0, << >>) /\ s = Given(s, B, s, 0)
  BY <1>5, Zenon DEF Pending, Given
<1>7. ASSUME k <= Len(ps) PROVE s < e /\ HeaderPlace(s, s, 0, s)
  <2>1. k \in 1 .. Len(ps)
    BY <1>3, <1>7
  <2>2. PartCells(b, s, e, ps[k])
    BY <2>1, <1>2, LayoutPart DEF Between
  <2> DEFINE l == Len(ps[k].data)
  <2>3. l \in Nat
    <3>1. ps[k] \in PartOf
      BY <2>1, LayoutOuter
    <3> QED BY <3>1, TextFacts
  <2>4. e = s + 12 + l
    BY <2>2, Zenon DEF PartCells
  <2> HIDE DEF l
  <2>5. s < e /\ ~(s - s = 5) /\ ~(s - s > 5)
    BY <1>3, <2>3, <2>4
  <2> QED BY <2>5, Zenon DEF HeaderPlace
<1>8. Placed(b, ps, s, k, e, s, B, s, 0, << >>, s)
  BY <1>4, <1>5, <1>6, <1>7, Zenon DEF Placed
<1>9. Got(b, ps, q, bf, s, k, p, s)
  BY <1>5, Zenon DEF Got, Begun
<1>10. Behind(b, ps, q, bf, o, k, s, B, s, 0, << >>, p)
  BY <1>2, <1>8, <1>9, BehindIs
<1> QED BY <1>10, Zenon DEF Scanned

\* The state behind a boundary, with what was given.
InBehind(b, ps, q, bf, o, k, s, e, P, B, C, c, tmp, p, G) ==
  /\ Layout(b, ps, o) /\ k \in 1 .. Len(ps) + 1 /\ Between(o, k, s, e) /\ Offsets(b, P, B, C)
  /\ Placed(b, ps, s, k, e, P, B, C, c, tmp, G) /\ Got(b, ps, q, bf, s, k, p, G)

\* Such a state is one of a body.
LEMMA ScannedBehind ==
  ASSUME NEW b, NEW ps, NEW q, NEW bf, NEW o, NEW k \in 1 .. Len(ps) + 1, NEW s, NEW e, Between(o, k, s, e),
         NEW P, NEW B, NEW C, NEW c, NEW tmp, NEW p, NEW G,
         Placed(b, ps, s, k, e, P, B, C, c, tmp, G), Got(b, ps, q, bf, s, k, p, G)
  PROVE  Scanned(b, ps, q, bf, o, P, B, C, c, tmp, p)
<1>1. Behind(b, ps, q, bf, o, k, P, B, C, c, tmp, p)
  BY BehindIs
<1> QED BY <1>1, Zenon DEF Scanned

\* The content in front of a boundary is given, and then the next part begins.
LEMMA BehindLast ==
  ASSUME NEW b, NEW ps, NEW q, NEW bf, NEW o, NEW k, NEW s, NEW e, NEW P, NEW B, NEW C, NEW tmp, NEW p, NEW G,
         InBehind(b, ps, q, bf, o, k, s, e, P, B, C, 4, tmp, p, G), P < Len(b), b[P + 1] = "BOUNDARY",
         NEW X, X = IF (P + 1) - B < 5 THEN SubSeq(tmp, 1, Len(tmp) + ((P + 1) - B) - 5)
                                       ELSE Slice(b, C, (P + 1) - 5)
  PROVE  Scanned(b, ps, q, bf, o, P + 1, B, P + 1, 0, << >>, StartNewPart(AppendToCurrentPart(p, X)))
<1>0. /\ Layout(b, ps, o) /\ k \in 1 .. Len(ps) + 1 /\ Between(o, k, s, e) /\ Offsets(b, P, B, C)
      /\ Placed(b, ps, s, k, e, P, B, C, 4, tmp, G) /\ Got(b, ps, q, bf, s, k, p, G)
  BY DEF InBehind
<1>1. s \in Nat /\ Len(ps) \in Nat
  BY <1>0, BetweenFacts
<1>2. P \in Nat /\ B \in Nat /\ C \in Nat /\ Len(b) \in Nat /\ B <= C /\ C <= P /\ P <= Len(b) /\ b \in Seq(Symbols)
  BY <1>0 DEF Offsets
<1>3. /\ k \in 1 .. Len(ps) /\ P + 1 = e /\ e \in Nat /\ s + 12 <= e /\ G >= s + 5 /\ G <= e - 5 /\ e <= Len(b)
      /\ P - 4 = e - 5
  BY <1>0, PlacedLast
<1>4. /\ G \in Nat
      /\ P - 4 < B => G = P - 4 /\ C = B /\ tmp = Slice(b, P - 4, B)
      /\ ~(P - 4 < B) => G = C /\ C <= P - 4 /\ tmp = << >>
  <2>1. Matching(b, s, P, 4) /\ Pending(b, P, B, C, 4, tmp) /\ G = Given(P, B, C, 4)
    BY <1>0 DEF Placed
  <2> QED BY <1>0, <1>1, <2>1, GivenFacts
<1> DEFINE A == AppendToCurrentPart(p, X)
<1>5. Got(b, ps, q, bf, s, k, A, e - 5)
  <2>1. CASE P - 4 < B
    <3>1. (P + 1) - B < 5 /\ P - 4 \in Nat /\ P - 4 <= B /\ B <= Len(b)
      BY <1>1, <1>2, <1>3, <2>1
    <3> DEFINE f == P - 4
    <3> HIDE DEF f
    <3>7. f \in Nat /\ f <= B /\ B <= Len(b)
      BY <3>1 DEF f
    <3>8. Len(Slice(b, f, B)) = B - f
      BY <1>2, <3>7, PieceFacts
    <3>9. tmp = Slice(b, f, B)
      BY <1>4, <2>1 DEF f
    <3>2. Len(tmp) = B - (P - 4)
      BY <3>8, <3>9 DEF f
    <3>3. Len(tmp) + ((P + 1) - B) - 5 = 0
      BY <1>2, <3>2
    <3>4. X = << >>
      BY <3>1, <3>3, SubSeqEmpty
    <3>5. A = p
      BY <3>4, NoData
    <3>6. G = e - 5
      BY <1>3, <1>4, <2>1
    <3> HIDE DEF A
    <3> QED BY <1>0, <3>5, <3>6
  <2>2. CASE ~(P - 4 < B)
    <3>8. P \in Nat /\ B \in Nat /\ s \in Nat /\ e \in Nat /\ Len(b) \in Nat
      BY <1>1, <1>2, <1>3
    <3>9. P + 1 = e /\ s + 12 <= e /\ G >= s + 5 /\ e <= Len(b) /\ G \in Nat
      BY <1>3, <1>4
    <3>10. ~((P + 1) - B < 5) /\ (P + 1) - 5 = e - 5
      BY <2>2, <3>8, <3>9
    <3>11. e - 5 \in Nat /\ s <= G /\ e - 5 <= Len(b)
      BY <3>8, <3>9
    <3>1. ~((P + 1) - B < 5) /\ (P + 1) - 5 = e - 5 /\ e - 5 \in Nat /\ s <= G /\ e - 5 <= Len(b)
      BY <3>10, <3>11
    <3>2. X = Slice(b, G, e - 5)
      BY <1>4, <2>2, <3>1
    <3> DEFINE Y == Slice(b, G, e - 5)
               G2 == e - 5
    <3>3. k <= Len(ps) => G2 <= e - 5 /\ (G >= s + 5 \/ G2 <= s + 6)
      BY <1>3
    <3>4. G2 \in Nat /\ s <= G /\ G <= G2 /\ G2 <= Len(b)
      BY <1>3, <3>1
    <3> HIDE DEF G2
    <3>5. Got(b, ps, q, bf, s, k, AppendToCurrentPart(p, Slice(b, G, G2)), G2)
      BY <1>0, <1>4, <3>3, <3>4, GotMore
    <3>6. A = AppendToCurrentPart(p, Slice(b, G, G2))
      BY <3>2 DEF G2
    <3> HIDE DEF A
    <3> QED BY <3>5, <3>6 DEF G2
  <2> QED BY <2>1, <2>2
<1> HIDE DEF A
<1>6. Begun(StartNewPart(A), q, bf, b, ps, e, k + 1)
  <2>1. InPart(A, q, bf, b, ps, s, k, (e - 5) - s)
    BY <1>1, <1>3, <1>5 DEF Got
  <2>2. PartCells(b, s, e, ps[k])
    BY <1>0, <1>3, LayoutPart DEF Between
  <2> DEFINE l == Len(ps[k].data)
             g == 7 + l
  <2>3. e = s + 12 + l
    BY <2>2, Zenon DEF PartCells
  <2>4. l \in Nat /\ ps \in Seq(PartOf)
    <3>1. ps[k] \in PartOf /\ ps \in Seq(PartOf)
      BY <1>0, <1>3, LayoutOuter
    <3> QED BY <3>1, TextFacts
  <2> HIDE DEF l
  <2>5. (e - 5) - s = g
    BY <1>1, <2>3, <2>4
  <2>6. InPart(A, q, bf, b, ps, s, k, g)
    BY <2>1, <2>5
  <2> HIDE DEF g
  <2>7. g = 7 + Len(ps[k].data)
    BY DEF g, l
  <2> QED BY <1>2, <1>3, <2>2, <2>4, <2>6, <2>7, NextBegins
<1>7. Scanned(b, ps, q, bf, o, e, B, e, 0, << >>, StartNewPart(A))
  <2> DEFINE k2 == k + 1
  <2>1. k2 \in 1 .. Len(ps) + 1 /\ e = o[k2 - 1] /\ B <= e
    <3>1. k2 \in 1 .. Len(ps) + 1 /\ k2 - 1 = k
      BY <1>1, <1>3
    <3>2. B <= e
      BY <1>2, <1>3
    <3> QED BY <1>0, <3>1, <3>2 DEF Between
  <2> HIDE DEF k2
  <2>2. Begun(StartNewPart(A), q, bf, b, ps, e, k2)
    BY <1>6 DEF k2
  <2> QED BY <1>0, <1>2, <2>1, <2>2, FreshPart
<1> QED BY <1>3, <1>7 DEF A

\* A match that is broken was content.
LEMMA BehindBroken ==
  ASSUME NEW b, NEW ps, NEW q, NEW bf, NEW o, NEW k, NEW s, NEW e, NEW P, NEW B, NEW C, NEW c, NEW tmp,
         NEW p, NEW G, InBehind(b, ps, q, bf, o, k, s, e, P, B, C, c, tmp, p, G), P < Len(b),
         b[P + 1] # BoundaryStr[c + 1], c > 0
  PROVE  Scanned(b, ps, q, bf, o, P, B, P, 0, << >>,
                 AppendToCurrentPart(AppendToCurrentPart(p, tmp), Slice(b, C, P)))
<1>0. /\ Layout(b, ps, o) /\ k \in 1 .. Len(ps) + 1 /\ Between(o, k, s, e) /\ Offsets(b, P, B, C)
      /\ Placed(b, ps, s, k, e, P, B, C, c, tmp, G) /\ Got(b, ps, q, bf, s, k, p, G)
  BY DEF InBehind
<1>1. s \in Nat /\ Len(ps) \in Nat
  BY <1>0, BetweenFacts
<1>2. P \in Nat /\ B \in Nat /\ C \in Nat /\ Len(b) \in Nat /\ B <= C /\ C <= P /\ P <= Len(b) /\ b \in Seq(Symbols)
  BY <1>0 DEF Offsets
<1>3. /\ Placed(b, ps, s, k, e, P, B, P, 0, << >>, P)
      /\ k <= Len(ps) => P <= e - 5 /\ (G >= s + 5 \/ P <= s + 6)
  BY <1>0, PlacedBroken
<1>4. /\ G \in Nat /\ G <= P - c /\ s <= G /\ s <= C /\ c \in 0 .. 4
      /\ P - c < B => G = P - c /\ C = B /\ tmp = Slice(b, P - c, B)
      /\ ~(P - c < B) => G = C /\ C <= P - c /\ tmp = << >>
  <2>1. Matching(b, s, P, c) /\ Pending(b, P, B, C, c, tmp) /\ G = Given(P, B, C, c) /\ s <= G /\ s <= C
    BY <1>0 DEF Placed
  <2> QED BY <1>0, <1>1, <2>1, GivenFacts
<1> DEFINE p1 == AppendToCurrentPart(p, tmp)
           p2 == AppendToCurrentPart(p1, Slice(b, C, P))
<1>5. Got(b, ps, q, bf, s, k, p1, C)
  <2>1. CASE P - c < B
    <3>1. G <= C /\ C <= Len(b) /\ tmp = Slice(b, G, C)
      BY <1>2, <1>4, <2>1
    <3>2. ASSUME k <= Len(ps) PROVE C <= e - 5 /\ (G >= s + 5 \/ C <= s + 6)
      <4>1. e \in Nat
        <5>1. k \in 1 .. Len(ps) /\ P < e
          BY <1>0, <1>1, <3>2 DEF Placed
        <5>2. Matching(b, s, P, c)
          BY <1>0 DEF Placed
        <5> QED BY <1>0, <1>2, <5>1, <5>2, PartPlace
      <4> QED BY <1>1, <1>2, <1>3, <3>2, <4>1
    <3>3. Got(b, ps, q, bf, s, k, AppendToCurrentPart(p, Slice(b, G, C)), C)
      BY <1>0, <1>2, <1>4, <3>1, <3>2, GotMore
    <3> QED BY <3>1, <3>3
  <2>2. CASE ~(P - c < B)
    <3>1. p1 = p /\ G = C
      BY <1>4, <2>2, NoData
    <3> HIDE DEF p1
    <3> QED BY <1>0, <3>1
  <2> QED BY <2>1, <2>2
<1> HIDE DEF p1
<1>6. Got(b, ps, q, bf, s, k, p2, P)
  <2>1. ASSUME k <= Len(ps) PROVE P <= e - 5 /\ (C >= s + 5 \/ P <= s + 6)
    <3>1. G <= C
      BY <1>2, <1>4
    <3>2. G >= s + 5 => C >= s + 5
      BY <1>1, <1>2, <1>4, <3>1
    <3> QED BY <1>3, <2>1, <3>2
  <2> QED BY <1>0, <1>2, <1>4, <1>5, <2>1, GotMore
<1> HIDE DEF p2
<1>7. Scanned(b, ps, q, bf, o, P, B, P, 0, << >>, p2)
  BY <1>0, <1>3, <1>6, ScannedBehind
<1> QED BY <1>7 DEF p1, p2

\* What is not a beginning of a boundary is given at the end of a call.
LEMMA BehindEnd ==
  ASSUME NEW b, NEW ps, NEW q, NEW bf, NEW o, NEW k, NEW s, NEW e, NEW P, NEW B, NEW C, NEW c, NEW tmp,
         NEW p, NEW G, InBehind(b, ps, q, bf, o, k, s, e, P, B, C, c, tmp, p, G)
  PROVE  /\ Scanned(b, ps, q, bf, o, P, P, P, c, IF c > 0 THEN Slice(b, P - c, P) ELSE << >>,
                    AppendToCurrentPart(p, Slice(b, C, P - c)))
         /\ c \in 0 .. 4 /\ (c = 0 => tmp = << >>)
         /\ P - c < B => tmp = Slice(b, P - c, B)
         /\ ~(P - c < B) => tmp = << >>
<1>0. /\ Layout(b, ps, o) /\ k \in 1 .. Len(ps) + 1 /\ Between(o, k, s, e) /\ Offsets(b, P, B, C)
      /\ Placed(b, ps, s, k, e, P, B, C, c, tmp, G) /\ Got(b, ps, q, bf, s, k, p, G)
  BY DEF InBehind
<1>1. s \in Nat /\ Len(ps) \in Nat
  BY <1>0, BetweenFacts
<1>2. P \in Nat /\ B \in Nat /\ C \in Nat /\ Len(b) \in Nat /\ B <= C /\ C <= P /\ P <= Len(b) /\ b \in Seq(Symbols)
  BY <1>0 DEF Offsets
<1> DEFINE t == IF c > 0 THEN Slice(b, P - c, P) ELSE << >>
           G2 == P - c
           A == AppendToCurrentPart(p, Slice(b, C, G2))
<1>3. /\ Placed(b, ps, s, k, e, P, P, P, c, t, G2)
      /\ k <= Len(ps) => G2 <= e - 5 /\ (G >= s + 5 \/ G2 <= s + 6)
  BY <1>0, PlacedEnd
<1>4. /\ G \in Nat /\ G <= G2 /\ G2 \in Nat /\ s <= G /\ s <= C /\ c \in 0 .. 4
      /\ G2 < B => G = G2 /\ C = B /\ tmp = Slice(b, G2, B) /\ c > 0
      /\ ~(G2 < B) => G = C /\ C <= G2 /\ tmp = << >>
  <2>1. Matching(b, s, P, c) /\ Pending(b, P, B, C, c, tmp) /\ G = Given(P, B, C, c) /\ s <= G /\ s <= C
    BY <1>0 DEF Placed
  <2> QED BY <1>0, <1>1, <2>1, GivenFacts
<1>5. G2 <= Len(b)
  BY <1>2, <1>4
<1> HIDE DEF t, G2
<1>6. Got(b, ps, q, bf, s, k, A, G2)
  <2>1. CASE G2 < B
    <3>1. Slice(b, C, G2) = << >>
      <4>1. C \in Int /\ G2 \in Int /\ G2 <= C
        BY <1>2, <1>4, <2>1
      <4> QED BY <4>1, NoSlice
    <3>2. A = p
      BY <3>1, NoData
    <3> HIDE DEF A
    <3> QED BY <1>0, <1>4, <2>1, <3>2
  <2>2. CASE ~(G2 < B)
    <3>1. G = C
      BY <1>4, <2>2
    <3>2. Got(b, ps, q, bf, s, k, AppendToCurrentPart(p, Slice(b, G, G2)), G2)
      BY <1>0, <1>3, <1>4, <1>5, GotMore
    <3> QED BY <3>1, <3>2
  <2> QED BY <2>1, <2>2
<1> HIDE DEF A
<1>7. Scanned(b, ps, q, bf, o, P, P, P, c, t, A)
  BY <1>0, <1>3, <1>6, ScannedBehind
<1>8. c = 0 => tmp = << >>
  BY <1>4
<1> QED BY <1>4, <1>7, <1>8 DEF t, A, G2

-----------------------------------------------------------------------------
(* In front of the first boundary.                                         *)

\* A piece of a body in front of the first boundary names no part.
LEMMA PieceUnnamed ==
  ASSUME NEW b \in Seq(Symbols), NEW m \in Nat, NEW n \in Nat, m <= n, n <= Len(b),
         \A i \in m + 1 .. n : b[i] \in {"-", "x"}
  PROVE  Slice(b, m, n) \in Seq(STRING) /\ Unnamed(Slice(b, m, n))
<1>1. /\ Slice(b, m, n) \in Seq(Symbols) /\ Len(Slice(b, m, n)) = n - m
      /\ \A j \in 1 .. n - m : Slice(b, m, n)[j] = b[m + j]
  BY PieceFacts
<1>2. Slice(b, m, n) \in Seq(STRING)
  BY <1>1, SymbolsAreStrings
<1>3. ASSUME NEW j \in DOMAIN Slice(b, m, n) PROVE Slice(b, m, n)[j] \notin HeaderLines
  <2>1. j \in 1 .. n - m /\ m + j \in m + 1 .. n
    BY <1>1, <1>3
  <2>2. b[m + j] \in {"-", "x"}
    BY <2>1
  <2>3. b[m + j] \notin HeaderLines
    BY <2>2, OrdinaryCells
  <2> QED BY <1>1, <2>1, <2>3
<1> QED BY <1>2, <1>3, Zenon DEF Unnamed

\* In front of the first boundary, with nothing in front of it.
IsStart(b, q, bf, o, P, B, C, c, tmp, p) ==
  /\ P \in 0 .. 2 /\ c = P + 2 /\ C = B /\ B \in 0 .. P /\ P < Len(b) /\ Idle(p, q, bf)
  /\ tmp = LastName(q) \o Slice(b, 0, B)
  /\ tmp \in Seq(STRING) /\ Unnamed(tmp) /\ Len(tmp) = Len(LastName(q)) + B
  /\ o[0] = 3 \/ (o[0] = 6 /\ P = 0)
  /\ o[0] = 3 => b[P + 1] = BoundaryStr[c + 1] /\ b[1] = "-" /\ b[2] = "-"
  /\ o[0] = 6 => b[P + 1] = "x"

\* The first boundary is matched cell by cell, from its third one on.
LEMMA StartFacts ==
  ASSUME NEW b, NEW ps, NEW o, Layout(b, ps, o), NEW q, LastName(q) \in Seq(STRING), Unnamed(LastName(q)),
         NEW bf, NEW P, NEW B, NEW C, Offsets(b, P, B, C), NEW c, NEW tmp, NEW p,
         AtStart(b, q, bf, o, P, B, C, c, tmp, p)
  PROVE  IsStart(b, q, bf, o, P, B, C, c, tmp, p)
<1>1. /\ P \in Nat /\ B \in Nat /\ C \in Nat /\ Len(b) \in Nat /\ B <= C /\ C <= P /\ P <= Len(b) /\ b \in Seq(Symbols)
  BY DEF Offsets
<1>2. /\ c = P + 2 /\ P < 3 /\ (o[0] = 6 => P = 0) /\ C = B /\ tmp = LastName(q) \o Slice(b, 0, B)
      /\ Idle(p, q, bf)
  BY DEF AtStart
<1>3. OuterCells(b, o[0], o[Len(ps)])
  BY LayoutOuter
<1> DEFINE f == o[0]
<1> HIDE DEF f
<1>4. /\ f = 3 \/ (f = 6 /\ b[1] = "x")
      /\ b[f] = "BOUNDARY" /\ b[f - 1] = "-" /\ b[f - 2] = "-" /\ f <= Len(b)
  BY <1>3 DEF OuterCells, f
<1>5. P \in 0 .. 2 /\ B \in 0 .. P
  BY <1>1, <1>2
<1>6. f = 3 => b[1] = "-" /\ b[2] = "-" /\ b[3] = "BOUNDARY"
  BY <1>4
<1>7. P < Len(b)
  BY <1>1, <1>4, <1>5
<1>8. f = 3 => b[P + 1] = BoundaryStr[c + 1]
  <2>1. P = 0 \/ P = 1 \/ P = 2
    BY <1>5
  <2> QED BY <1>2, <1>6, <2>1, BoundaryFacts
<1>9. f = 6 => P = 0 /\ b[P + 1] = "x"
  BY <1>2, <1>4 DEF f
<1>10. Slice(b, 0, B) \in Seq(STRING) /\ Unnamed(Slice(b, 0, B)) /\ Len(Slice(b, 0, B)) = B
  <2>1. B <= Len(b)
    BY <1>1
  <2>2. ASSUME NEW i \in 0 + 1 .. B PROVE b[i] \in {"-", "x"}
    <3>1. f = 3 /\ (i = 1 \/ i = 2)
      BY <1>4, <1>5, <1>9, <2>2
    <3> QED BY <1>6, <3>1
  <2>3. Len(Slice(b, 0, B)) = B - 0
    BY <1>1, <2>1, PieceFacts
  <2> QED BY <1>1, <2>1, <2>2, <2>3, PieceUnnamed
<1>11. tmp \in Seq(STRING) /\ Unnamed(tmp) /\ Len(tmp) = Len(LastName(q)) + B
  <2>1. tmp \in Seq(STRING) /\ Unnamed(tmp)
    BY <1>2, <1>10, UnnamedFacts
  <2>2. Len(LastName(q) \o Slice(b, 0, B)) = Len(LastName(q)) + Len(Slice(b, 0, B))
    BY <1>10, ConcatProperties
  <2> QED BY <1>2, <1>10, <2>1, <2>2
<1> QED BY <1>2, <1>4, <1>5, <1>6, <1>7, <1>8, <1>9, <1>11 DEF f, IsStart

\* A cell of the first boundary is matched.
LEMMA StartOne ==
  ASSUME NEW b, NEW ps, NEW o, Layout(b, ps, o), NEW q, LastName(q) \in Seq(STRING), Unnamed(LastName(q)),
         NEW bf, NEW P, NEW B, NEW C, Offsets(b, P, B, C), NEW c, NEW tmp, NEW p,
         AtStart(b, q, bf, o, P, B, C, c, tmp, p), b[P + 1] = BoundaryStr[c + 1], c < 4
  PROVE  AtStart(b, q, bf, o, P + 1, B, C, c + 1, tmp, p)
<1>0. IsStart(b, q, bf, o, P, B, C, c, tmp, p)
  BY StartFacts
<1>1. /\ P \in 0 .. 2 /\ c = P + 2 /\ C = B /\ Idle(p, q, bf) /\ tmp = LastName(q) \o Slice(b, 0, B)
  BY <1>0 DEF IsStart
<1>2. ~(o[0] = 6)
  <2>1. ASSUME o[0] = 6 PROVE FALSE
    <3>1. b[P + 1] = "x" /\ P = 0 /\ c = 2
      BY <1>0, <1>1, <2>1 DEF IsStart
    <3>2. BoundaryStr[c + 1] = "-"
      <4>1. c + 1 = 3
        BY <3>1
      <4> QED BY <4>1, BoundaryFacts
    <3>3. b[P + 1] = "-"
      BY <3>2
    <3> QED BY <3>1, <3>3
  <2> QED BY <2>1
<1>3. c + 1 = (P + 1) + 2 /\ P + 1 < 3
  BY <1>1
<1> QED BY <1>1, <1>2, <1>3, Zenon DEF AtStart

\* The first boundary ends: the name was content that belongs to no part.
LEMMA StartLast ==
  ASSUME NEW b, NEW ps, NEW o, Layout(b, ps, o), NEW q, LastName(q) \in Seq(STRING), Unnamed(LastName(q)),
         NEW bf, NEW P, NEW B, NEW C, Offsets(b, P, B, C), NEW tmp, NEW p,
         AtStart(b, q, bf, o, P, B, C, 4, tmp, p),
         NEW X, X = IF (P + 1) - B < 5 THEN SubSeq(tmp, 1, Len(tmp) + ((P + 1) - B) - 5)
                                       ELSE Slice(b, C, (P + 1) - 5)
  PROVE  Scanned(b, ps, q, bf, o, P + 1, B, P + 1, 0, << >>, StartNewPart(AppendToCurrentPart(p, X)))
<1>0. IsStart(b, q, bf, o, P, B, C, 4, tmp, p)
  BY StartFacts
<1>1. /\ P \in 0 .. 2 /\ 4 = P + 2 /\ B \in 0 .. P /\ Idle(p, q, bf)
      /\ tmp \in Seq(STRING) /\ Unnamed(tmp) /\ Len(tmp) = Len(LastName(q)) + B
      /\ o[0] = 3 \/ (o[0] = 6 /\ P = 0)
  BY <1>0 DEF IsStart
<1>2. P + 1 = 3 /\ o[0] = 3 /\ (P + 1) - B < 5 /\ B <= 3 /\ B \in Nat
  BY <1>1
<1> DEFINE n == Len(tmp) + ((P + 1) - B) - 5
<1>3. X = Slice(tmp, 0, n)
  BY <1>2 DEF Slice
<1>4. n \in Int /\ n <= Len(tmp) /\ Len(tmp) \in Nat
  <2>1. Len(tmp) \in Nat
    BY <1>1
  <2> QED BY <1>2, <2>1
<1> HIDE DEF n
<1>5. X \in Seq(STRING) /\ Unnamed(X)
  <2>1. CASE n < 0
    <3>1. X = << >>
      <4>1. 0 \in Int /\ n <= 0
        BY <1>4, <2>1
      <4>2. Slice(tmp, 0, n) = << >>
        BY <1>4, <4>1, NoSlice
      <4> QED BY <1>3, <4>2
    <3>2. << >> \in Seq(STRING)
      OBVIOUS
    <3> QED BY <3>1, <3>2, UnnamedFacts
  <2>2. CASE ~(n < 0)
    <3>1. n \in Nat /\ 0 <= n
      BY <1>4, <2>2
    <3> QED BY <1>1, <1>3, <1>4, <3>1, UnnamedFacts
  <2> QED BY <2>1, <2>2
<1> DEFINE A == AppendToCurrentPart(p, X)
<1>6. Idle(A, q, bf)
  BY <1>1, <1>5, IdleKept
<1> HIDE DEF A
<1>7. b \in Seq(Symbols) /\ ps \in Seq(PartOf) /\ Len(ps) \in Nat
  BY LayoutOuter
<1>8. Begun(StartNewPart(A), q, bf, b, ps, 3, 1)
  BY <1>6, <1>7, FirstBegins
<1>9. Scanned(b, ps, q, bf, o, 3, B, 3, 0, << >>, StartNewPart(A))
  <2>1. 1 \in 1 .. Len(ps) + 1 /\ 1 - 1 = 0
    BY <1>7
  <2>2. 3 = o[1 - 1]
    BY <1>2, <2>1
  <2> QED BY <1>2, <1>8, <2>1, <2>2, FreshPart
<1> QED BY <1>2, <1>9 DEF A

\* The body begins with something else: the name, and no boundary, was read.
LEMMA StartBroken ==
  ASSUME NEW b, NEW ps, NEW o, Layout(b, ps, o), NEW q, LastName(q) \in Seq(STRING), Unnamed(LastName(q)),
         NEW bf, NEW P, NEW B, NEW C, Offsets(b, P, B, C), NEW c, NEW tmp, NEW p,
         AtStart(b, q, bf, o, P, B, C, c, tmp, p), b[P + 1] # BoundaryStr[c + 1]
  PROVE  InPreamble(b, q, bf, o, P, B, P, 0, << >>,
                    AppendToCurrentPart(AppendToCurrentPart(p, tmp), Slice(b, C, P)))
<1>0. IsStart(b, q, bf, o, P, B, C, c, tmp, p)
  BY StartFacts
<1>1. /\ P \in 0 .. 2 /\ B \in 0 .. P /\ C = B /\ Idle(p, q, bf)
      /\ tmp \in Seq(STRING) /\ Unnamed(tmp)
      /\ o[0] = 3 \/ (o[0] = 6 /\ P = 0)
      /\ o[0] = 3 => b[P + 1] = BoundaryStr[c + 1]
  BY <1>0 DEF IsStart
<1>2. o[0] = 6 /\ P = 0 /\ B = 0 /\ C = 0
  BY <1>1
<1> DEFINE A == AppendToCurrentPart(p, tmp)
<1>3. Idle(A, q, bf)
  BY <1>1, IdleKept
<1> HIDE DEF A
<1>4. AppendToCurrentPart(A, Slice(b, C, P)) = A
  <2>1. Slice(b, C, P) = << >>
    BY <1>2, NoSlice
  <2> QED BY <2>1, NoData
<1>5. ~(P - 0 < B) /\ P <= P - 0 /\ P < 6 
  BY <1>2
<1>6. Pending(b, P, B, P, 0, << >>)
  BY <1>5, Zenon DEF Pending
<1>7. 0 = IF P = 0 THEN 0 ELSE P - 1
  BY <1>2
<1>8. InPreamble(b, q, bf, o, P, B, P, 0, << >>, A)
  BY <1>2, <1>3, <1>5, <1>6, <1>7, Zenon DEF InPreamble
<1> QED BY <1>4, <1>8 DEF A

\* A call ends in the first boundary.
LEMMA StartEnd ==
  ASSUME NEW b, NEW ps, NEW o, Layout(b, ps, o), NEW q, LastName(q) \in Seq(STRING), Unnamed(LastName(q)),
         NEW bf, NEW P, NEW B, NEW C, Offsets(b, P, B, C), NEW c, NEW tmp, NEW p,
         AtStart(b, q, bf, o, P, B, C, c, tmp, p)
  PROVE  /\ AtStart(b, q, bf, o, P, P, P, c, tmp \o Slice(b, Max({P - c, B}), P),
                    AppendToCurrentPart(p, Slice(b, C, P - c)))
         /\ c > 0
<1>0. IsStart(b, q, bf, o, P, B, C, c, tmp, p)
  BY StartFacts
<1>1. /\ P \in 0 .. 2 /\ B \in 0 .. P /\ C = B /\ c = P + 2 /\ Idle(p, q, bf) /\ P < Len(b)
      /\ tmp = LastName(q) \o Slice(b, 0, B)
      /\ o[0] = 3 \/ (o[0] = 6 /\ P = 0)
  BY <1>0 DEF IsStart
<1>2. AppendToCurrentPart(p, Slice(b, C, P - c)) = p
  <2>1. C \in Int /\ P - c \in Int /\ P - c <= C
    BY <1>1
  <2>2. Slice(b, C, P - c) = << >>
    BY <2>1, NoSlice
  <2> QED BY <2>2, NoData
<1>3. Max({P - c, B}) = B
  <2>1. {P - c, B} \in SUBSET Int /\ B \in {P - c, B} /\ \A k \in {P - c, B} : k <= B
    BY <1>1
  <2> QED BY <2>1, MaxIs
<1>4. b \in Seq(Symbols) /\ B \in Nat /\ P \in Nat /\ B <= P /\ P <= Len(b) /\ Len(b) \in Nat
  BY <1>1 DEF Offsets
<1>5. Slice(b, 0, B) \o Slice(b, B, P) = Slice(b, 0, P)
  <2>1. \A z \in Nat : B <= z /\ z <= Len(b) => Slice(b, 0, B) \o Slice(b, B, z) = Slice(b, 0, z)
    <3>1. 0 \in Nat /\ 0 <= B /\ B <= Len(b)
      BY <1>4
    <3> QED BY <1>4, <3>1, SlicePieces
  <2> QED BY <1>4, <2>1
<1>6. tmp \o Slice(b, B, P) = LastName(q) \o Slice(b, 0, P)
  <2>1. Slice(b, 0, B) \in Seq(STRING) /\ Slice(b, B, P) \in Seq(STRING)
    <3>1. Slice(b, 0, B) \in Seq(Symbols) /\ Slice(b, B, P) \in Seq(Symbols)
      <4>1. 0 \in Nat /\ 0 <= B /\ B <= Len(b)
        BY <1>4
      <4> QED BY <1>4, <4>1, PieceFacts
    <3> QED BY <3>1, SymbolsAreStrings
  <2>2. (LastName(q) \o Slice(b, 0, B)) \o Slice(b, B, P) = LastName(q) \o (Slice(b, 0, B) \o Slice(b, B, P))
    BY <2>1, ConcatAssoc
  <2> QED BY <1>1, <1>5, <2>2
<1>7. P < 3 /\ (o[0] = 6 => P = 0) /\ c > 0
  BY <1>1
<1> QED BY <1>1, <1>2, <1>3, <1>6, <1>7, Zenon DEF AtStart

\* In front of the first boundary, behind something else.
IsPreamble(b, q, bf, P, B, C, c, tmp, p) ==
  /\ P \in 0 .. 5 /\ B \in 0 .. P /\ C \in B .. P /\ P < Len(b) /\ Idle(p, q, bf)
  /\ c = (IF P = 0 THEN 0 ELSE P - 1)
  /\ b[1] = "x"
  /\ P > 0 => b[P + 1] = BoundaryStr[c + 1]
  /\ P - c < B => C = B /\ tmp = Slice(b, P - c, B)
  /\ ~(P - c < B) => C <= P - c /\ tmp = << >>

\* Nothing in front of the first boundary looks like the beginning of one.
LEMMA PreamblePlace ==
  ASSUME NEW b, NEW ps, NEW o, Layout(b, ps, o), NEW q,
         NEW bf, NEW P, NEW B, NEW C, Offsets(b, P, B, C), NEW c, NEW tmp, NEW p,
         InPreamble(b, q, bf, o, P, B, C, c, tmp, p)
  PROVE  IsPreamble(b, q, bf, P, B, C, c, tmp, p) /\ o[0] = 6
<1>1. /\ P \in Nat /\ B \in Nat /\ C \in Nat /\ Len(b) \in Nat /\ B <= C /\ C <= P /\ P <= Len(b) /\ b \in Seq(Symbols)
  BY DEF Offsets
<1>2. /\ o[0] = 6 /\ P < 6 /\ c = (IF P = 0 THEN 0 ELSE P - 1)
      /\ Pending(b, P, B, C, c, tmp) /\ Idle(p, q, bf)
  BY Zenon DEF InPreamble
<1>3. OuterCells(b, o[0], o[Len(ps)])
  BY LayoutOuter
<1> DEFINE e == o[Len(ps)]
<1> HIDE DEF e
<1>4. OuterCells(b, 6, e)
  BY <1>2, <1>3 DEF e
<1>5. /\ b[1] = "x" /\ b[2] = "CR" /\ b[3] = "LF" /\ b[6] = "BOUNDARY" /\ b[5] = "-" /\ b[4] = "-"
      /\ e \in Nat /\ 6 <= Len(b)
  BY <1>4 DEF OuterCells
<1>6. P \in 0 .. 5 /\ B \in 0 .. P /\ C \in B .. P /\ P < Len(b)
  BY <1>1, <1>2, <1>5
<1>7. ASSUME P > 0 PROVE b[P + 1] = BoundaryStr[c + 1]
  <2>1. P = 1 \/ P = 2 \/ P = 3 \/ P = 4 \/ P = 5
    BY <1>6, <1>7
  <2>2. c = P - 1
    BY <1>2, <1>6, <1>7
  <2> QED BY <1>5, <2>1, <2>2, BoundaryFacts
<1>8. /\ P - c < B => C = B /\ tmp = Slice(b, P - c, B)
      /\ ~(P - c < B) => C <= P - c /\ tmp = << >>
  BY <1>2, Zenon DEF Pending
<1> QED BY <1>2, <1>5, <1>6, <1>7, <1>8, Zenon DEF IsPreamble

\* A cell that begins no boundary is passed.
LEMMA PreambleScan ==
  ASSUME NEW b, NEW ps, NEW o, Layout(b, ps, o), NEW q,
         NEW bf, NEW P, NEW B, NEW C, Offsets(b, P, B, C), NEW tmp, NEW p,
         InPreamble(b, q, bf, o, P, B, C, 0, tmp, p), b[P + 1] # "CR"
  PROVE  InPreamble(b, q, bf, o, P + 1, B, C, 0, tmp, p)
<1>0. IsPreamble(b, q, bf, P, B, C, 0, tmp, p) /\ o[0] = 6
  BY PreamblePlace
<1>1. /\ P \in 0 .. 5 /\ B \in 0 .. P /\ C \in B .. P /\ Idle(p, q, bf)
      /\ 0 = (IF P = 0 THEN 0 ELSE P - 1)
      /\ P > 0 => b[P + 1] = BoundaryStr[0 + 1]
      /\ ~(P - 0 < B) => C <= P - 0 /\ tmp = << >>
  BY <1>0, Zenon DEF IsPreamble
<1>2. P = 0
  <2>1. ASSUME P > 0 PROVE FALSE
    <3>1. 0 + 1 = 1
      OBVIOUS
    <3> QED BY <1>1, <2>1, <3>1, BoundaryFacts
  <2> QED BY <1>1, <2>1
<1>3. B = 0 /\ C = 0 /\ tmp = << >>
  BY <1>1, <1>2
<1>4. ~((P + 1) - 0 < B) /\ C <= (P + 1) - 0 /\ P + 1 < 6
  BY <1>2, <1>3
<1>5. Pending(b, P + 1, B, C, 0, tmp)
  BY <1>3, <1>4, Zenon DEF Pending
<1>6. 0 = IF P + 1 = 0 THEN 0 ELSE (P + 1) - 1
  BY <1>2
<1> QED BY <1>0, <1>1, <1>4, <1>5, <1>6, Zenon DEF InPreamble

\* A cell of the first boundary is matched.
LEMMA PreambleOne ==
  ASSUME NEW b, NEW ps, NEW o, Layout(b, ps, o), NEW q,
         NEW bf, NEW P, NEW B, NEW C, Offsets(b, P, B, C), NEW c, NEW tmp, NEW p,
         InPreamble(b, q, bf, o, P, B, C, c, tmp, p), b[P + 1] = BoundaryStr[c + 1], c < 4
  PROVE  InPreamble(b, q, bf, o, P + 1, B, C, c + 1, tmp, p)
<1>0. IsPreamble(b, q, bf, P, B, C, c, tmp, p) /\ o[0] = 6
  BY PreamblePlace
<1>1. /\ P \in 0 .. 5 /\ B \in 0 .. P /\ C \in B .. P /\ Idle(p, q, bf)
      /\ c = (IF P = 0 THEN 0 ELSE P - 1) /\ b[1] = "x"
  BY <1>0, Zenon DEF IsPreamble
<1>2. P > 0
  <2>1. ASSUME P = 0 PROVE FALSE
    <3>1. b[P + 1] = "x" /\ c + 1 = 1
      BY <1>1, <2>1
    <3>2. BoundaryStr[c + 1] = "CR"
      BY <3>1, BoundaryFacts
    <3>3. b[P + 1] = "CR"
      BY <3>2
    <3> QED BY <3>1, <3>3
  <2> QED BY <1>1, <2>1
<1>3. /\ c = P - 1 /\ P + 1 < 6 /\ c + 1 = (P + 1) - 1 /\ P + 1 # 0 /\ (P + 1) - (c + 1) = P - c
  BY <1>1, <1>2
<1>4. Pending(b, P, B, C, c, tmp)
  BY Zenon DEF InPreamble
<1>5. Pending(b, P + 1, B, C, c + 1, tmp)
  BY <1>3, <1>4, Zenon DEF Pending
<1>6. c + 1 = IF P + 1 = 0 THEN 0 ELSE (P + 1) - 1
  BY <1>3
<1> QED BY <1>0, <1>1, <1>3, <1>5, <1>6, Zenon DEF InPreamble

\* The first boundary is read.
LEMMA PreambleLast ==
  ASSUME NEW b, NEW ps, NEW o, Layout(b, ps, o), NEW q,
         NEW bf, NEW P, NEW B, NEW C, Offsets(b, P, B, C), NEW tmp, NEW p,
         InPreamble(b, q, bf, o, P, B, C, 4, tmp, p),
         NEW X, X = IF (P + 1) - B < 5 THEN SubSeq(tmp, 1, Len(tmp) + ((P + 1) - B) - 5)
                                       ELSE Slice(b, C, (P + 1) - 5)
  PROVE  Scanned(b, ps, q, bf, o, P + 1, B, P + 1, 0, << >>, StartNewPart(AppendToCurrentPart(p, X)))
<1>0. IsPreamble(b, q, bf, P, B, C, 4, tmp, p) /\ o[0] = 6
  BY PreamblePlace
<1>1. /\ P \in 0 .. 5 /\ B \in 0 .. P /\ C \in B .. P /\ Idle(p, q, bf) /\ P < Len(b)
      /\ 4 = (IF P = 0 THEN 0 ELSE P - 1) /\ b[1] = "x"
      /\ P - 4 < B => C = B /\ tmp = Slice(b, P - 4, B)
      /\ ~(P - 4 < B) => C <= P - 4 /\ tmp = << >>
  BY <1>0, Zenon DEF IsPreamble
<1>2. P = 5 /\ P + 1 = 6 /\ P - 4 = 1 /\ B <= 6 /\ B \in Nat /\ (P + 1) - 5 = 1 /\ C \in Nat
  BY <1>1
<1>3. b \in Seq(Symbols) /\ ps \in Seq(PartOf) /\ Len(ps) \in Nat /\ Len(b) \in Nat
  BY LayoutOuter
<1>5. X \in Seq(STRING) /\ Unnamed(X)
  <2>1. CASE 1 < B
    <3>1. (P + 1) - B < 5 /\ tmp = Slice(b, 1, B)
      BY <1>1, <1>2, <2>1
    <3>2. 1 \in Nat /\ 1 <= B /\ B <= Len(b)
      BY <1>1, <1>2, <1>3, <2>1
    <3>3. Len(tmp) = B - 1
      <4>1. Len(Slice(b, 1, B)) = B - 1
        BY <1>2, <1>3, <3>2, PieceFacts
      <4> QED BY <3>1, <4>1
    <3>4. Len(tmp) + ((P + 1) - B) - 5 = 0
      BY <1>2, <3>3
    <3>5. X = << >>
      BY <3>1, <3>4, SubSeqEmpty
    <3>6. << >> \in Seq(STRING)
      OBVIOUS
    <3> QED BY <3>5, <3>6, UnnamedFacts
  <2>2. CASE ~(1 < B)
    <3>1. ~((P + 1) - B < 5) /\ C <= 1
      BY <1>1, <1>2, <2>2
    <3>2. X = Slice(b, C, 1)
      BY <1>2, <3>1
    <3>3. 1 \in Nat /\ 1 <= Len(b)
      BY <1>1, <1>3
    <3>4. \A i \in C + 1 .. 1 : b[i] \in {"-", "x"}
      BY <1>1, <1>2
    <3> QED BY <1>2, <1>3, <3>1, <3>2, <3>3, <3>4, PieceUnnamed
  <2> QED BY <2>1, <2>2
<1> DEFINE A == AppendToCurrentPart(p, X)
<1>6. Idle(A, q, bf)
  BY <1>1, <1>5, IdleKept
<1> HIDE DEF A
<1>8. Begun(StartNewPart(A), q, bf, b, ps, 6, 1)
  BY <1>3, <1>6, FirstBegins
<1>9. Scanned(b, ps, q, bf, o, 6, B, 6, 0, << >>, StartNewPart(A))
  <2>1. 1 \in 1 .. Len(ps) + 1 /\ 1 - 1 = 0
    BY <1>3
  <2>2. 6 = o[1 - 1]
    BY <1>0, <2>1
  <2> QED BY <1>2, <1>8, <2>1, <2>2, FreshPart
<1> QED BY <1>2, <1>9 DEF A

\* No match is broken in front of the first boundary.
LEMMA PreambleBroken ==
  ASSUME NEW b, NEW ps, NEW o, Layout(b, ps, o), NEW q,
         NEW bf, NEW P, NEW B, NEW C, Offsets(b, P, B, C), NEW c, NEW tmp, NEW p,
         InPreamble(b, q, bf, o, P, B, C, c, tmp, p), b[P + 1] # BoundaryStr[c + 1], c > 0
  PROVE  FALSE
<1>0. IsPreamble(b, q, bf, P, B, C, c, tmp, p)
  BY PreamblePlace
<1>1. /\ P \in 0 .. 5 /\ c = (IF P = 0 THEN 0 ELSE P - 1)
      /\ P > 0 => b[P + 1] = BoundaryStr[c + 1]
  BY <1>0, Zenon DEF IsPreamble
<1>2. P > 0
  BY <1>1
<1> QED BY <1>1, <1>2

\* A call ends there.
LEMMA PreambleEnd ==
  ASSUME NEW b, NEW ps, NEW o, Layout(b, ps, o), NEW q,
         NEW bf, NEW P, NEW B, NEW C, Offsets(b, P, B, C), NEW c, NEW tmp, NEW p,
         InPreamble(b, q, bf, o, P, B, C, c, tmp, p)
  PROVE  /\ InPreamble(b, q, bf, o, P, P, P, c, IF c > 0 THEN Slice(b, P - c, P) ELSE << >>,
                       AppendToCurrentPart(p, Slice(b, C, P - c)))
         /\ c \in 0 .. 4 /\ P - c \in Nat
<1>0. IsPreamble(b, q, bf, P, B, C, c, tmp, p) /\ o[0] = 6
  BY PreamblePlace
<1>1. /\ P \in 0 .. 5 /\ B \in 0 .. P /\ C \in B .. P /\ Idle(p, q, bf) /\ P < Len(b)
      /\ c = (IF P = 0 THEN 0 ELSE P - 1) /\ b[1] = "x"
  BY <1>0, Zenon DEF IsPreamble
<1>2. c \in 0 .. 4 /\ P - c \in 0 .. 1 /\ P < 6 /\ C \in Nat
  BY <1>1
<1>3. b \in Seq(Symbols) /\ Len(b) \in Nat
  BY LayoutOuter
<1> DEFINE D == Slice(b, C, P - c)
<1>4. D \in Seq(STRING) /\ Unnamed(D)
  <2>1. CASE C <= P - c
    <3>1. P - c \in Nat /\ P - c <= Len(b)
      BY <1>1, <1>2, <1>3
    <3>2. \A i \in C + 1 .. P - c : b[i] \in {"-", "x"}
      BY <1>1, <1>2
    <3> QED BY <1>2, <1>3, <2>1, <3>1, <3>2, PieceUnnamed
  <2>2. CASE ~(C <= P - c)
    <3>1. P - c <= C /\ P - c \in Int /\ C \in Int
      BY <1>2, <2>2
    <3>2. D = << >>
      BY <3>1, NoSlice
    <3>3. << >> \in Seq(STRING)
      OBVIOUS
    <3> QED BY <3>2, <3>3, UnnamedFacts
  <2> QED BY <2>1, <2>2
<1> HIDE DEF D
<1> DEFINE A == AppendToCurrentPart(p, D)
<1>5. Idle(A, q, bf)
  BY <1>1, <1>4, IdleKept
<1> HIDE DEF A
<1> DEFINE t == IF c > 0 THEN Slice(b, P - c, P) ELSE << >>
<1>6. /\ P - c < P => t = Slice(b, P - c, P)
      /\ ~(P - c < P) => P <= P - c /\ t = << >>
  BY <1>1, <1>2
<1> HIDE DEF t
<1>7. Pending(b, P, P, P, c, t)
  BY <1>6, Zenon DEF Pending
<1>8. InPreamble(b, q, bf, o, P, P, P, c, t, A)
  BY <1>0, <1>1, <1>2, <1>5, <1>7, Zenon DEF InPreamble
<1>9. P - c \in Nat
  BY <1>2
<1> QED BY <1>2, <1>8, <1>9 DEF t, A, D

-----------------------------------------------------------------------------
(* One iteration of AppendFormMultipart(), and its end.                    *)

\* A body is read, and which part it is at.
Running(b, ps, q, o, P, B, C) ==
  Layout(b, ps, o) /\ LastName(q) \in Seq(STRING) /\ Unnamed(LastName(q)) /\ Offsets(b, P, B, C)
SomePart(b, ps, q, bf, o, P, B, C, c, tmp, p) ==
  \E k, s, e, G : InBehind(b, ps, q, bf, o, k, s, e, P, B, C, c, tmp, p, G)

\* These are all the places in a body.
LEMMA Places ==
  ASSUME NEW b, NEW ps, NEW q, NEW o, NEW P, NEW B, NEW C, Running(b, ps, q, o, P, B, C),
         NEW bf, NEW c, NEW tmp, NEW p, Scanned(b, ps, q, bf, o, P, B, C, c, tmp, p)
  PROVE  \/ AtStart(b, q, bf, o, P, B, C, c, tmp, p)
         \/ InPreamble(b, q, bf, o, P, B, C, c, tmp, p)
         \/ SomePart(b, ps, q, bf, o, P, B, C, c, tmp, p)
<1>1. ASSUME NEW k \in 1 .. Len(ps) + 1, Behind(b, ps, q, bf, o, k, P, B, C, c, tmp, p)
      PROVE  SomePart(b, ps, q, bf, o, P, B, C, c, tmp, p)
  <2>1. PICK s, e : Between(o, k, s, e)
    BY DEF Between
  <2>2. PICK G : Placed(b, ps, s, k, e, P, B, C, c, tmp, G) /\ Got(b, ps, q, bf, s, k, p, G)
    BY <1>1, <2>1, BehindIs
  <2>3. InBehind(b, ps, q, bf, o, k, s, e, P, B, C, c, tmp, p, G)
    BY <1>1, <2>1, <2>2, Zenon DEF InBehind, Running
  <2> QED BY <2>3, Zenon DEF SomePart
<1> QED BY <1>1, Zenon DEF Scanned

\* A cell that begins no boundary.
LEMMA ScannedScan ==
  ASSUME NEW b, NEW ps, NEW q, NEW o, NEW P, NEW B, NEW C, Running(b, ps, q, o, P, B, C),
         NEW bf, NEW tmp, NEW p, Scanned(b, ps, q, bf, o, P, B, C, 0, tmp, p),
         P < Len(b), b[P + 1] # "CR"
  PROVE  Scanned(b, ps, q, bf, o, P + 1, B, C, 0, tmp, p)
<1>0. Layout(b, ps, o) /\ LastName(q) \in Seq(STRING) /\ Unnamed(LastName(q)) /\ Offsets(b, P, B, C)
  BY DEF Running
<1>1. CASE AtStart(b, q, bf, o, P, B, C, 0, tmp, p)
  <2>1. P \in 0 .. 2 /\ 0 = P + 2
    <3>1. IsStart(b, q, bf, o, P, B, C, 0, tmp, p)
      BY <1>0, <1>1, StartFacts
    <3> QED BY <3>1, Zenon DEF IsStart
  <2> QED BY <2>1
<1>2. CASE InPreamble(b, q, bf, o, P, B, C, 0, tmp, p)
  <2>1. InPreamble(b, q, bf, o, P + 1, B, C, 0, tmp, p)
    BY <1>0, <1>2, PreambleScan
  <2> QED BY <2>1, Zenon DEF Scanned
<1>3. CASE SomePart(b, ps, q, bf, o, P, B, C, 0, tmp, p)
  <2>1. PICK k, s, e, G : InBehind(b, ps, q, bf, o, k, s, e, P, B, C, 0, tmp, p, G)
    BY <1>3, Zenon DEF SomePart
  <2>2. /\ k \in 1 .. Len(ps) + 1 /\ Between(o, k, s, e)
        /\ Placed(b, ps, s, k, e, P, B, C, 0, tmp, G) /\ Got(b, ps, q, bf, s, k, p, G)
    BY <2>1, Zenon DEF InBehind
  <2>3. Placed(b, ps, s, k, e, P + 1, B, C, 0, tmp, G)
    BY <1>0, <2>2, PlacedScan
  <2> QED BY <2>2, <2>3, ScannedBehind
<1> QED BY <1>1, <1>2, <1>3, Places

\* A cell that goes on with a boundary.
LEMMA ScannedOne ==
  ASSUME NEW b, NEW ps, NEW q, NEW o, NEW P, NEW B, NEW C, Running(b, ps, q, o, P, B, C),
         NEW bf, NEW c, NEW tmp, NEW p, Scanned(b, ps, q, bf, o, P, B, C, c, tmp, p),
         P < Len(b), b[P + 1] = BoundaryStr[c + 1], c < 4, c + 1 < 5
  PROVE  Scanned(b, ps, q, bf, o, P + 1, B, C, c + 1, tmp, p)
<1>0. Layout(b, ps, o) /\ LastName(q) \in Seq(STRING) /\ Unnamed(LastName(q)) /\ Offsets(b, P, B, C)
  BY DEF Running
<1>1. CASE AtStart(b, q, bf, o, P, B, C, c, tmp, p)
  <2>1. AtStart(b, q, bf, o, P + 1, B, C, c + 1, tmp, p)
    BY <1>0, <1>1, StartOne
  <2> QED BY <2>1, Zenon DEF Scanned
<1>2. CASE InPreamble(b, q, bf, o, P, B, C, c, tmp, p)
  <2>1. InPreamble(b, q, bf, o, P + 1, B, C, c + 1, tmp, p)
    BY <1>0, <1>2, PreambleOne
  <2> QED BY <2>1, Zenon DEF Scanned
<1>3. CASE SomePart(b, ps, q, bf, o, P, B, C, c, tmp, p)
  <2>1. PICK k, s, e, G : InBehind(b, ps, q, bf, o, k, s, e, P, B, C, c, tmp, p, G)
    BY <1>3, Zenon DEF SomePart
  <2>2. /\ k \in 1 .. Len(ps) + 1 /\ Between(o, k, s, e)
        /\ Placed(b, ps, s, k, e, P, B, C, c, tmp, G) /\ Got(b, ps, q, bf, s, k, p, G)
    BY <2>1, Zenon DEF InBehind
  <2>3. Placed(b, ps, s, k, e, P + 1, B, C, c + 1, tmp, G)
    BY <1>0, <2>2, PlacedOne
  <2> QED BY <2>2, <2>3, ScannedBehind
<1> QED BY <1>1, <1>2, <1>3, Places

\* The last cell of a boundary.
LEMMA ScannedLast ==
  ASSUME NEW b, NEW ps, NEW q, NEW o, NEW P, NEW B, NEW C, Running(b, ps, q, o, P, B, C),
         NEW bf, NEW tmp, NEW p, Scanned(b, ps, q, bf, o, P, B, C, 4, tmp, p),
         P < Len(b), b[P + 1] = "BOUNDARY",
         NEW X, X = IF (P + 1) - B < 5 THEN SubSeq(tmp, 1, Len(tmp) + ((P + 1) - B) - 5)
                                       ELSE Slice(b, C, (P + 1) - 5)
  PROVE  Scanned(b, ps, q, bf, o, P + 1, B, P + 1, 0, << >>, StartNewPart(AppendToCurrentPart(p, X)))
<1>0. Layout(b, ps, o) /\ LastName(q) \in Seq(STRING) /\ Unnamed(LastName(q)) /\ Offsets(b, P, B, C)
  BY DEF Running
<1>1. CASE AtStart(b, q, bf, o, P, B, C, 4, tmp, p)
  BY <1>0, <1>1, StartLast
<1>2. CASE InPreamble(b, q, bf, o, P, B, C, 4, tmp, p)
  BY <1>0, <1>2, PreambleLast
<1>3. CASE SomePart(b, ps, q, bf, o, P, B, C, 4, tmp, p)
  <2>1. PICK k, s, e, G : InBehind(b, ps, q, bf, o, k, s, e, P, B, C, 4, tmp, p, G)
    BY <1>3, Zenon DEF SomePart
  <2> QED BY <2>1, BehindLast
<1> QED BY <1>1, <1>2, <1>3, Places

\* A cell that breaks a boundary.
LEMMA ScannedBroken ==
  ASSUME NEW b, NEW ps, NEW q, NEW o, NEW P, NEW B, NEW C, Running(b, ps, q, o, P, B, C),
         NEW bf, NEW c, NEW tmp, NEW p, Scanned(b, ps, q, bf, o, P, B, C, c, tmp, p),
         P < Len(b), b[P + 1] # BoundaryStr[c + 1], c > 0
  PROVE  Scanned(b, ps, q, bf, o, P, B, P, 0, << >>,
                 AppendToCurrentPart(AppendToCurrentPart(p, tmp), Slice(b, C, P)))
<1>0. Layout(b, ps, o) /\ LastName(q) \in Seq(STRING) /\ Unnamed(LastName(q)) /\ Offsets(b, P, B, C)
  BY DEF Running
<1>1. CASE AtStart(b, q, bf, o, P, B, C, c, tmp, p)
  <2>1. InPreamble(b, q, bf, o, P, B, P, 0, << >>,
                   AppendToCurrentPart(AppendToCurrentPart(p, tmp), Slice(b, C, P)))
    BY <1>0, <1>1, StartBroken
  <2> QED BY <2>1, Zenon DEF Scanned
<1>2. CASE InPreamble(b, q, bf, o, P, B, C, c, tmp, p)
  BY <1>0, <1>2, PreambleBroken
<1>3. CASE SomePart(b, ps, q, bf, o, P, B, C, c, tmp, p)
  <2>1. PICK k, s, e, G : InBehind(b, ps, q, bf, o, k, s, e, P, B, C, c, tmp, p, G)
    BY <1>3, Zenon DEF SomePart
  <2> QED BY <2>1, BehindBroken
<1> QED BY <1>1, <1>2, <1>3, Places

\* What is kept at the end of a call.
Kept(b, P, B, c, tmp) ==
  /\ P - c < B => tmp = Slice(b, P - c, B)
  /\ ~(P - c < B) => tmp = << >>
KeptWhole(b, P, B, c, tmp) == tmp \o Slice(b, Max({P - c, B}), P) = Slice(b, P - c, P)

\* ParseTmp then has all cells that are matched.
LEMMA KeptIs ==
  ASSUME NEW b \in Seq(Symbols), NEW P \in Nat, NEW B \in Nat, B <= P, P <= Len(b), NEW c \in Nat, P - c \in Nat,
         NEW tmp, Kept(b, P, B, c, tmp)
  PROVE  KeptWhole(b, P, B, c, tmp)
<1> DEFINE f == P - c
<1>1. f \in Nat /\ f <= P
  OBVIOUS
<1> HIDE DEF f
<1>2. CASE f < B
  <2>1. Max({f, B}) = B
    <3>1. {f, B} \in SUBSET Int /\ B \in {f, B} /\ \A k \in {f, B} : k <= B
      BY <1>1, <1>2
    <3> QED BY <3>1, MaxIs
  <2>2. Slice(b, f, B) \o Slice(b, B, P) = Slice(b, f, P)
    <3>1. f <= B /\ B <= Len(b)
      BY <1>1, <1>2, LenProperties
    <3>2. \A z \in Nat : B <= z /\ z <= Len(b) => Slice(b, f, B) \o Slice(b, B, z) = Slice(b, f, z)
      BY SMTT(30), <1>1, <3>1, SlicePieces
    <3> QED BY <3>2
  <2>3. tmp = Slice(b, f, B)
    BY <1>2 DEF f, Kept
  <2> QED BY <2>1, <2>2, <2>3 DEF f, KeptWhole
<1>3. CASE ~(f < B)
  <2>1. Max({f, B}) = f
    <3>1. {f, B} \in SUBSET Int /\ f \in {f, B} /\ \A k \in {f, B} : k <= f
      BY <1>1, <1>3
    <3> QED BY <3>1, MaxIs
  <2>2. tmp = << >>
    BY <1>3 DEF f, Kept
  <2>3. Slice(b, f, P) \in Seq(Symbols)
    BY <1>1, PieceFacts
  <2>4. << >> \o Slice(b, f, P) = Slice(b, f, P)
    BY <2>3
  <2> QED BY <2>1, <2>2, <2>4 DEF f, KeptWhole
<1> QED BY <1>2, <1>3

\* The end of a call.
LEMMA ScannedEnd ==
  ASSUME NEW b, NEW ps, NEW q, NEW o, NEW P, NEW B, NEW C, Running(b, ps, q, o, P, B, C),
         NEW bf, NEW c, NEW tmp, NEW p, Scanned(b, ps, q, bf, o, P, B, C, c, tmp, p),
         NEW t, t = IF c > 0 THEN tmp \o Slice(b, Max({P - c, B}), P) ELSE tmp
  PROVE  Scanned(b, ps, q, bf, o, P, P, P, c, t, AppendToCurrentPart(p, Slice(b, C, P - c)))
<1>0. Layout(b, ps, o) /\ LastName(q) \in Seq(STRING) /\ Unnamed(LastName(q)) /\ Offsets(b, P, B, C)
  BY DEF Running
<1>o. /\ P \in Nat /\ B \in Nat /\ C \in Nat /\ Len(b) \in Nat /\ B <= C /\ C <= P /\ P <= Len(b) /\ b \in Seq(Symbols)
      /\ B <= P
  BY <1>0 DEF Offsets
<1> DEFINE A == AppendToCurrentPart(p, Slice(b, C, P - c))
           u == IF c > 0 THEN Slice(b, P - c, P) ELSE << >>
<1> HIDE DEF A
<1>1. CASE AtStart(b, q, bf, o, P, B, C, c, tmp, p)
  <2>1. AtStart(b, q, bf, o, P, P, P, c, tmp \o Slice(b, Max({P - c, B}), P), A) /\ c > 0
    BY <1>0, <1>1, StartEnd DEF A
  <2>2. t = tmp \o Slice(b, Max({P - c, B}), P)
    BY <2>1
  <2> QED BY <2>1, <2>2, Zenon DEF Scanned, A
<1>2. CASE InPreamble(b, q, bf, o, P, B, C, c, tmp, p)
  <2>1. InPreamble(b, q, bf, o, P, P, P, c, u, A) /\ c \in 0 .. 4 /\ P - c \in Nat
    BY <1>0, <1>2, PreambleEnd DEF A
  <2>2. /\ P - c < B => tmp = Slice(b, P - c, B)
        /\ ~(P - c < B) => tmp = << >>
    BY <1>2, Zenon DEF InPreamble, Pending
  <2>3. c > 0 => tmp \o Slice(b, Max({P - c, B}), P) = Slice(b, P - c, P)
    <3>1. c \in Nat
      BY <2>1
    <3>2. Kept(b, P, B, c, tmp)
      BY <2>2, Zenon DEF Kept
    <3>3. KeptWhole(b, P, B, c, tmp)
      BY <1>o, <2>1, <3>1, <3>2, KeptIs
    <3> QED BY <3>3, Zenon DEF KeptWhole
  <2>4. ~(c > 0) => ~(P - c < B)
    BY <1>o, <2>1
  <2>5. t = u
    BY <2>2, <2>3, <2>4
  <2> HIDE DEF u
  <2> QED BY <2>1, <2>5, Zenon DEF Scanned, A
<1>3. CASE SomePart(b, ps, q, bf, o, P, B, C, c, tmp, p)
  <2>1. PICK k, s, e, G : InBehind(b, ps, q, bf, o, k, s, e, P, B, C, c, tmp, p, G)
    BY <1>3, Zenon DEF SomePart
  <2>2. /\ Scanned(b, ps, q, bf, o, P, P, P, c, u, A)
        /\ c \in 0 .. 4 /\ (c = 0 => tmp = << >>)
        /\ P - c < B => tmp = Slice(b, P - c, B)
        /\ ~(P - c < B) => tmp = << >>
    BY <2>1, BehindEnd DEF A
  <2>3. c > 0 => tmp \o Slice(b, Max({P - c, B}), P) = Slice(b, P - c, P)
    <3>1. P - c \in Nat
      <4>1. Matching(b, s, P, c) /\ s \in Nat
        <5>1. Placed(b, ps, s, k, e, P, B, C, c, tmp, G) /\ k \in 1 .. Len(ps) + 1 /\ Between(o, k, s, e)
          BY <2>1, Zenon DEF InBehind
        <5> QED BY <1>0, <5>1, BetweenFacts DEF Placed
      <4>2. c <= P - s
        BY <4>1 DEF Matching
      <4> QED BY <1>o, <2>2, <4>1, <4>2
    <3>2. c \in Nat
      BY <2>2
    <3>3. Kept(b, P, B, c, tmp)
      BY <2>2, Zenon DEF Kept
    <3>4. KeptWhole(b, P, B, c, tmp)
      BY <1>o, <3>1, <3>2, <3>3, KeptIs
    <3> QED BY <3>4, Zenon DEF KeptWhole
  <2>4. t = u
    <3>1. ~(c > 0) => c = 0
      BY <2>2
    <3>2. ~(c > 0) => tmp = << >>
      BY <2>2, <3>1
    <3> QED BY <2>3, <3>2
  <2> HIDE DEF u
  <2> QED BY <2>2, <2>4 DEF A
<1> QED BY <1>1, <1>2, <1>3, Places

-----------------------------------------------------------------------------
(* What follows from the state of a body.                                  *)

\* What a query string means is a map of texts.
LEMMA MeantType ==
  ASSUME NEW q \in Seq(Entries)
  PROVE  QueryMeant(q) \in Map(Seq(STRING), Seq(STRING))
<1> DEFINE t == [i \in DOMAIN q |-> [file |-> FALSE, name |-> q[i][1], data |-> q[i][2]]]
           S == Sent(t, FALSE)
           f == Contents(t, FALSE)
           At(n) == {i \in S : t[i].name = n}
<1>1. QueryMeant(q) = f
  BY Zenon DEF QueryMeant
<1>2. DOMAIN t = 1 .. Len(q) /\ Len(q) \in Nat /\ S \subseteq 1 .. Len(q)
  <2>1. DOMAIN q = 1 .. Len(q) /\ Len(q) \in Nat
    OBVIOUS
  <2> QED BY <2>1 DEF Sent
<1>3. \A i \in 1 .. Len(q) : t[i].name \in Seq(STRING) /\ t[i].data \in Seq(STRING)
  <2> SUFFICES ASSUME NEW i \in 1 .. Len(q)
               PROVE  t[i].name \in Seq(STRING) /\ t[i].data \in Seq(STRING)
    OBVIOUS
  <2>1. q[i] \in Seq(STRING) \X Seq(STRING) /\ i \in DOMAIN q
    BY DEF Entries
  <2>2. t[i].name = q[i][1] /\ t[i].data = q[i][2]
    BY <2>1
  <2>3. q[i][1] \in Seq(STRING) /\ q[i][2] \in Seq(STRING)
    BY <2>1
  <2> QED BY <2>2, <2>3
<1> HIDE DEF t
<1>4. DOMAIN f = {t[i].name : i \in S} /\ f = [n \in DOMAIN f |-> f[n]]
      /\ \A n \in DOMAIN f : f[n] = t[Max(At(n))].data
  BY DEF Contents
<1> HIDE DEF f
<1>5. DOMAIN f \subseteq Seq(STRING)
  BY <1>2, <1>3, <1>4
<1>6. ASSUME NEW n \in DOMAIN f PROVE f[n] \in Seq(STRING)
  <2>1. At(n) # {} /\ At(n) \in SUBSET (1 .. Len(q))
    BY <1>2, <1>4, <1>6
  <2>2. Max(At(n)) \in At(n)
    BY <1>2, <2>1, MaxOfIndices
  <2>3. Max(At(n)) \in 1 .. Len(q)
    BY <2>1, <2>2
  <2> QED BY <1>3, <1>4, <1>6, <2>3
<1>7. f \in Map(Seq(STRING), Seq(STRING))
  BY <1>4, <1>5, <1>6, MapFacts
<1> QED BY <1>1, <1>7

\* The last name of a query string.
LEMMA LastNameType ==
  ASSUME NEW q \in Seq(Entries)
  PROVE  LastName(q) \in Seq(STRING) /\ Len(LastName(q)) \in Nat
<1>1. CASE q = << >>
  <2>1. LastName(q) = << >>
    BY <1>1 DEF LastName
  <2> QED BY <2>1
<1>2. CASE q # << >>
  <2>1. q[Len(q)] \in Seq(STRING) \X Seq(STRING)
    BY <1>2 DEF Entries
  <2>2. LastName(q) = q[Len(q)][1]
    BY <1>2 DEF LastName, Last
  <2> QED BY <2>1, <2>2
<1> QED BY <1>1, <1>2

\* A query string a client sends ends with a name that is no header line.
LEMMA LastNameUnnamed ==
  ASSUME NEW q \in Queries
  PROVE  q \in Seq(Entries) /\ Unnamed(LastName(q))
<1>0. q \in Seq(Entries)
  BY QueryAssumption DEF Entries
<1>1. CASE q = << >>
  <2>1. LastName(q) = << >>
    BY <1>1 DEF LastName
  <2> QED BY <1>0, <2>1, UnnamedFacts
<1>2. CASE q # << >>
  <2>1. LastName(q) = Last(q)[1]
    BY <1>2 DEF LastName
  <2>2. \A j \in DOMAIN Last(q)[1] : Last(q)[1][j] \notin HeaderLines
    BY <1>2, NameAssumption
  <2> QED BY <1>0, <2>1, <2>2, Zenon DEF Unnamed
<1> QED BY <1>1, <1>2

\* What every state of the parser has.
Sound(p, bf) ==
  /\ p \in Part /\ bf \in 0 .. p.created /\ DOMAIN p.disk \subseteq 1 .. p.created
  /\ \A f \in DOMAIN p.disk : f > bf => \E n \in DOMAIN p.FileMap : p.FileMap[n] = f
  /\ p.state = "READ" => p.target # Wild

\* Whatever part is read, the base of the state has them.
LEMMA BaseSound ==
  ASSUME NEW p, NEW q, NEW bf, NEW ps, NEW g, Base(p, q, bf, ps, g), p.state = "READ" => p.target # Wild
  PROVE  Sound(p, bf)
BY Zenon DEF Sound, Base, Owned

\* A part parser that got some cells of a part.
LEMMA PartSound ==
  ASSUME NEW b, NEW ps \in Seq(PartOf), NEW q, NEW bf, NEW s, NEW k \in 1 .. Len(ps), NEW g, NEW p,
         InPart(p, q, bf, b, ps, s, k, g), g \in Nat
  PROVE  Sound(p, bf)
<1>1. CASE g < 7
  <2>1. Base(p, q, bf, SubSeq(ps, 1, k - 1), s + g) /\ p.state = HeaderState[g + 1]
    BY <1>1, Zenon DEF InPart
  <2>2. p.state # "READ"
    <3>1. g + 1 \in 1 .. 7
      BY <1>1
    <3> QED BY <2>1, <3>1 DEF HeaderState
  <2> QED BY <2>1, <2>2, BaseSound
<1>2. CASE ~(g < 7)
  <2>1. Base(p, q, bf, Append(SubSeq(ps, 1, k - 1), Cut(ps[k], g - 7)), s + g) /\ p.target = ps[k].name
    BY <1>2, Zenon DEF InPart
  <2>2. ps[k].name \in Names
    <3>1. ps[k] \in PartOf
      OBVIOUS
    <3> QED BY <3>1 DEF PartOf
  <2>3. p.target # Wild
    BY <2>1, <2>2, PointerAssumption
  <2> QED BY <2>1, <2>3, BaseSound
<1> QED BY <1>1, <1>2

\* A state while a body is read has its types, and not much is kept.
LEMMA ScannedSound ==
  ASSUME NEW b, NEW ps, NEW q, NEW o, NEW P, NEW B, NEW C, Running(b, ps, q, o, P, B, C),
         NEW bf, NEW c, NEW tmp, NEW p, Scanned(b, ps, q, bf, o, P, B, C, c, tmp, p)
  PROVE  Sound(p, bf) /\ c \in 0 .. 4 /\ tmp \in Seq(STRING) /\ Len(tmp) < 5 + Len(LastName(q))
<1>0. Layout(b, ps, o) /\ LastName(q) \in Seq(STRING) /\ Unnamed(LastName(q)) /\ Offsets(b, P, B, C)
  BY DEF Running
<1>o. /\ P \in Nat /\ B \in Nat /\ C \in Nat /\ Len(b) \in Nat /\ B <= C /\ C <= P /\ P <= Len(b) /\ b \in Seq(Symbols)
      /\ B <= P
  BY <1>0 DEF Offsets
<1>l. Len(LastName(q)) \in Nat
  BY <1>0
<1>i. ASSUME Idle(p, q, bf) PROVE Sound(p, bf)
  BY <1>i, BaseSound DEF Idle
<1>k. ASSUME c \in 0 .. 4, P - c \in Nat, Kept(b, P, B, c, tmp)
      PROVE  tmp \in Seq(STRING) /\ Len(tmp) < 5 + Len(LastName(q))
  <2> DEFINE f == P - c
  <2>1. f \in Nat /\ f <= P /\ P <= f + 4
    BY <1>o, <1>k
  <2> HIDE DEF f
  <2>2. CASE f < B
    <3>1. f <= B /\ B <= Len(b)
      BY <1>o, <2>1, <2>2
    <3>2. Slice(b, f, B) \in Seq(Symbols) /\ Len(Slice(b, f, B)) = B - f
      BY <1>o, <2>1, <3>1, PieceFacts
    <3>3. tmp = Slice(b, f, B)
      BY <1>k, <2>2 DEF Kept, f
    <3>4. tmp \in Seq(STRING)
      BY <3>2, <3>3, SymbolsAreStrings
    <3>5. B - f < 5 + Len(LastName(q))
      BY <1>o, <1>l, <2>1
    <3> QED BY <3>2, <3>3, <3>4, <3>5
  <2>3. CASE ~(f < B)
    <3>1. tmp = << >>
      BY <1>k, <2>3 DEF Kept, f
    <3>2. Len(tmp) = 0 /\ tmp \in Seq(STRING)
      BY <3>1
    <3> QED BY <1>l, <3>2
  <2> QED BY <2>2, <2>3
<1>1. CASE AtStart(b, q, bf, o, P, B, C, c, tmp, p)
  <2>1. IsStart(b, q, bf, o, P, B, C, c, tmp, p)
    BY <1>0, <1>1, StartFacts
  <2>2. /\ P \in 0 .. 2 /\ c = P + 2 /\ B \in 0 .. P /\ Idle(p, q, bf)
        /\ tmp \in Seq(STRING) /\ Len(tmp) = Len(LastName(q)) + B
    BY <2>1, Zenon DEF IsStart
  <2>3. c \in 0 .. 4 /\ Len(LastName(q)) + B < 5 + Len(LastName(q))
    BY <1>l, <2>2
  <2> QED BY <1>i, <2>2, <2>3
<1>2. CASE InPreamble(b, q, bf, o, P, B, C, c, tmp, p)
  <2>1. IsPreamble(b, q, bf, P, B, C, c, tmp, p)
    BY <1>0, <1>2, PreamblePlace
  <2>2. /\ P \in 0 .. 5 /\ Idle(p, q, bf) /\ c = (IF P = 0 THEN 0 ELSE P - 1)
    BY <2>1, Zenon DEF IsPreamble
  <2>3. Kept(b, P, B, c, tmp)
    BY <2>1, Zenon DEF IsPreamble, Kept
  <2>4. c \in 0 .. 4 /\ P - c \in Nat
    BY <2>2
  <2> QED BY <1>i, <1>k, <2>2, <2>3, <2>4
<1>3. CASE SomePart(b, ps, q, bf, o, P, B, C, c, tmp, p)
  <2>1. PICK k, s, e, G : InBehind(b, ps, q, bf, o, k, s, e, P, B, C, c, tmp, p, G)
    BY <1>3, Zenon DEF SomePart
  <2>2. /\ k \in 1 .. Len(ps) + 1 /\ Between(o, k, s, e)
        /\ Placed(b, ps, s, k, e, P, B, C, c, tmp, G) /\ Got(b, ps, q, bf, s, k, p, G)
    BY <2>1, Zenon DEF InBehind
  <2>3. s \in Nat /\ Len(ps) \in Nat /\ ps \in Seq(PartOf)
    BY <1>0, <2>2, BetweenFacts, LayoutOuter
  <2>4. Matching(b, s, P, c) /\ Pending(b, P, B, C, c, tmp) /\ G = Given(P, B, C, c) /\ s <= G
    BY <2>2 DEF Placed
  <2>5. G \in Nat /\ c \in 0 .. 4 /\ P - c \in Nat
    BY <1>0, <2>3, <2>4, GivenFacts
  <2>6. Kept(b, P, B, c, tmp)
    BY <2>4, Zenon DEF Pending, Kept
  <2>7. G - s \in Nat
    BY <2>3, <2>4, <2>5
  <2>8. Sound(p, bf)
    <3>1. CASE k <= Len(ps)
      <4>1. InPart(p, q, bf, b, ps, s, k, G - s) /\ k \in 1 .. Len(ps)
        BY <2>2, <2>3, <3>1 DEF Got
      <4> QED BY <2>3, <2>7, <4>1, PartSound
    <3>2. CASE ~(k <= Len(ps))
      <4>1. InClosing(p, q, bf, ps, s, G - s)
        BY <2>2, <2>3, <3>2 DEF Got
      <4>2. Base(p, q, bf, ps, s + (G - s)) /\ p.state # "READ"
        BY <4>1, Zenon DEF InClosing
      <4> QED BY <4>2, BaseSound
    <3> QED BY <3>1, <3>2
  <2> QED BY <1>k, <2>5, <2>6, <2>8
<1> QED BY <1>1, <1>2, <1>3, Places

\* At the end of a body everything was given.
Whole(p, q, bf, ps) ==
  /\ p.ParamMap = Meant(q, ps)
  /\ [n \in DOMAIN p.FileMap |-> p.disk[p.FileMap[n]]] = Contents(ps, TRUE)
  /\ p.state = "FINISHED" /\ p.CurrFileS = 0

\* When the last call has ended, the part parser has got everything.
LEMMA ScannedWhole ==
  ASSUME NEW b, NEW ps, NEW q, NEW o, NEW P, NEW C, Running(b, ps, q, o, P, P, C), P = Len(b),
         NEW bf, NEW c, NEW tmp, NEW p, Scanned(b, ps, q, bf, o, P, P, C, c, tmp, p)
  PROVE  Whole(p, q, bf, ps)
<1>0. Layout(b, ps, o) /\ LastName(q) \in Seq(STRING) /\ Unnamed(LastName(q)) /\ Offsets(b, P, P, C)
  BY DEF Running
<1>o. P \in Nat /\ C \in Nat /\ C = P
  BY <1>0 DEF Offsets
<1>1. CASE AtStart(b, q, bf, o, P, P, C, c, tmp, p)
  <2>1. IsStart(b, q, bf, o, P, P, C, c, tmp, p)
    BY <1>0, <1>1, StartFacts
  <2>2. P < Len(b)
    BY <2>1, Zenon DEF IsStart
  <2> QED BY <1>o, <2>2
<1>2. CASE InPreamble(b, q, bf, o, P, P, C, c, tmp, p)
  <2>1. IsPreamble(b, q, bf, P, P, C, c, tmp, p)
    BY <1>0, <1>2, PreamblePlace
  <2>2. P < Len(b)
    BY <2>1, Zenon DEF IsPreamble
  <2> QED BY <1>o, <2>2
<1>3. CASE SomePart(b, ps, q, bf, o, P, P, C, c, tmp, p)
  <2>1. PICK k, s, e, G : InBehind(b, ps, q, bf, o, k, s, e, P, P, C, c, tmp, p, G)
    BY <1>3, Zenon DEF SomePart
  <2>2. /\ k \in 1 .. Len(ps) + 1 /\ Between(o, k, s, e)
        /\ Placed(b, ps, s, k, e, P, P, C, c, tmp, G) /\ Got(b, ps, q, bf, s, k, p, G)
    BY <2>1, Zenon DEF InBehind
  <2>3. s \in Nat /\ Len(ps) \in Nat /\ (k > Len(ps) => Len(b) = s + 4 /\ OuterCells(b, o[0], s) /\ k = Len(ps) + 1)
    BY <1>0, <2>2, BetweenFacts
  <2>4. Matching(b, s, P, c) /\ Pending(b, P, P, C, c, tmp) /\ G = Given(P, P, C, c) /\ s <= G
    BY <2>2 DEF Placed
  <2>5. /\ G \in Nat /\ c \in 0 .. 4 /\ P - c \in Nat
        /\ P - c < P => G = P - c
        /\ ~(P - c < P) => G = C
    BY <1>0, <2>3, <2>4, GivenFacts
  <2>6. ~(k <= Len(ps))
    <3>1. ASSUME k <= Len(ps) PROVE FALSE
      <4>1. k \in 1 .. Len(ps) /\ P < e
        BY <2>2, <2>3, <3>1 DEF Placed
      <4>2. e \in Nat /\ e <= Len(b)
        BY <1>0, <1>o, <2>2, <2>4, <4>1, PartPlace
      <4> QED BY <1>o, <4>1, <4>2
    <3> QED BY <3>1
  <2>7. k > Len(ps)
    BY <2>2, <2>3, <2>6
  <2>8. P = s + 4 /\ OuterCells(b, o[0], s)
    BY <2>3, <2>7
  <2>9. b[s + 1] = "-" /\ b[s + 2] = "-" /\ b[s + 3] = "CR" /\ b[s + 4] = "LF"
    BY <2>8 DEF OuterCells
  <2>10. c = 0 \/ c = 2
    <3>1. \A i \in 1 .. c : b[P - c + i] = BoundaryStr[i]
      BY <2>4 DEF Matching
    <3>2. ASSUME c = 1 \/ c = 3 \/ c = 4 PROVE FALSE
      <4>1. b[P - c + 1] = "CR"
        <5>1. 1 \in 1 .. c
          BY <2>5, <3>2
        <5> QED BY <3>1, <5>1, BoundaryFacts
      <4>2. P - c + 1 = s + 4 \/ P - c + 1 = s + 2 \/ P - c + 1 = s + 1
        BY <2>3, <2>8, <3>2
      <4>3. b[P - c + 1] = "LF" \/ b[P - c + 1] = "-"
        BY <2>9, <4>2
      <4> QED BY <4>1, <4>3
    <3> QED BY <2>5, <3>2
  <2>11. G - s = 2 \/ G - s = 4
    BY <1>o, <2>3, <2>5, <2>8, <2>10
  <2>12. InClosing(p, q, bf, ps, s, G - s)
    BY <2>2, <2>7 DEF Got
  <2>13. ~(G - s < 2)
    BY <2>11
  <2>14. Base(p, q, bf, ps, s + (G - s)) /\ p.state = "FINISHED" /\ p.CurrFileS = 0
    BY <2>12, <2>13, Zenon DEF InClosing
  <2> QED BY <2>14, Zenon DEF Whole, Base
<1> QED BY <1>1, <1>2, <1>3, Places

-----------------------------------------------------------------------------
(* A new request.                                                          *)

\* A new QueryParams, with the parameters of a query string.
Fresh(p, e, f, w, x, fm, u, z, counter, m) ==
  [[p EXCEPT !.counter = counter, !.headers = e, !.isFile = f,
             !.target = w, !.ParamMap = x, !.FileMap = fm,
             !.CurrFileS = z, !.limit = u, !.totalLimit = u,
             !.CurrFileSize = z, !.TotalFileSize = z] EXCEPT !.ParamMap = m]
FreshFields(r, p, e, f, w, x, fm, u, z, counter, m) ==
  /\ r \in Part /\ r.state = p.state /\ r.disk = p.disk /\ r.created = p.created
  /\ r.headers = e /\ r.ParamMap = m /\ r.FileMap = fm /\ r.limit = u /\ r.totalLimit = u
  /\ r.CurrFileSize = z /\ r.TotalFileSize = z

\* It has the types of a part parser.
LEMMA FreshTyped ==
  ASSUME NEW p \in Part, NEW e \in Seq(STRING), NEW f \in BOOLEAN, NEW w \in Names \union {None, Wild},
         NEW x, NEW fm \in Map(Names, Nat), NEW u \in Nat, NEW z \in Nat,
         NEW counter \in 0 .. 4, NEW m \in Map(Seq(STRING), Seq(STRING))
  PROVE  FreshFields(Fresh(p, e, f, w, x, fm, u, z, counter, m), p, e, f, w, x, fm, u, z, counter, m)
<1> DEFINE r == Fresh(p, e, f, w, x, fm, u, z, counter, m)
<1>1. r \in Part
  BY DEF Part, Fresh
<1>2. /\ r.state = p.state /\ r.disk = p.disk /\ r.created = p.created
      /\ r.headers = e /\ r.ParamMap = m /\ r.FileMap = fm /\ r.limit = u /\ r.totalLimit = u
      /\ r.CurrFileSize = z /\ r.TotalFileSize = z
  BY DEF Part, Fresh
<1> HIDE DEF r
<1>3. FreshFields(r, p, e, f, w, x, fm, u, z, counter, m)
  BY <1>1, <1>2, Zenon DEF FreshFields
<1> QED BY <1>3 DEF r

\* What a request line leaves: the parameters of its query string, and no part.
LEMMA FreshIdle ==
  ASSUME NEW p \in Part, p.state # "READ", DOMAIN p.disk \subseteq 1 .. p.created,
         NEW q \in Seq(Entries), NEW counter \in 0 .. 4,
         NEW r, r = [ResetQuery(p, counter) EXCEPT !.ParamMap = QueryMeant(q)]
  PROVE  Idle(r, q, p.created)
<1> DEFINE m == QueryMeant(q)
<1>1. m \in Map(Seq(STRING), Seq(STRING))
  BY MeantType
<1> HIDE DEF m
<1>2. Unlimited \in Nat /\ Wild \in Names \union {None, Wild} /\ 0 \in Nat /\ FALSE \in BOOLEAN
  BY QueryAssumption
<1>3. << >> \in Map(Names, Nat) /\ << >> \in Seq(STRING)
  <2>1. << >> \in Seq(STRING) /\ DOMAIN << >> = {}
    OBVIOUS
  <2>2. << >> = [a \in DOMAIN << >> |-> << >>[a]]
    OBVIOUS
  <2> DEFINE z == << >>
  <2>3. DOMAIN z \subseteq Names /\ \A a \in DOMAIN z : z[a] \in Nat
    BY <2>1
  <2>4. z = [a \in DOMAIN z |-> z[a]]
    BY <2>2
  <2> HIDE DEF z
  <2>5. z \in Map(Names, Nat)
    BY <2>3, <2>4, MapFacts
  <2> QED BY <2>1, <2>5 DEF z
<1>4. r = Fresh(p, << >>, FALSE, Wild, << >>, << >>, Unlimited, 0, counter, m)
  BY Zenon DEF Fresh, ResetQuery, m
<1>5. FreshFields(r, p, << >>, FALSE, Wild, << >>, << >>, Unlimited, 0, counter, m)
  <2> DEFINE y == << >>
             f == FALSE
             w == Wild
             u == Unlimited
             z == 0
  <2>1. /\ p \in Part /\ y \in Seq(STRING) /\ f \in BOOLEAN /\ w \in Names \union {None, Wild}
        /\ y \in Map(Names, Nat) /\ u \in Nat /\ z \in Nat /\ counter \in 0 .. 4
        /\ m \in Map(Seq(STRING), Seq(STRING))
    BY <1>1, <1>2, <1>3
  <2>2. r = Fresh(p, y, f, w, y, y, u, z, counter, m)
    BY <1>4
  <2> HIDE DEF y, f, w, u, z
  <2>3. FreshFields(Fresh(p, y, f, w, y, y, u, z, counter, m), p, y, f, w, y, y, u, z, counter, m)
    BY <2>1, FreshTyped
  <2> QED BY <2>2, <2>3 DEF y, f, w, u, z
<1>6. /\ r \in Part /\ r.state = p.state /\ r.disk = p.disk /\ r.created = p.created
      /\ r.headers = << >> /\ r.ParamMap = m /\ r.FileMap = << >> /\ r.limit = Unlimited /\ r.totalLimit = Unlimited
      /\ r.CurrFileSize = 0 /\ r.TotalFileSize = 0
  BY <1>5, Zenon DEF FreshFields
<1>7. r.ParamMap = Meant(q, << >>)
  BY <1>6, MeantNone DEF m
<1>8. [n \in DOMAIN r.FileMap |-> r.disk[r.FileMap[n]]] = Contents(<< >>, TRUE)
  <2>1. DOMAIN r.FileMap = {}
    BY <1>6
  <2>2. [n \in DOMAIN r.FileMap |-> r.disk[r.FileMap[n]]] = << >>
    BY <2>1
  <2> QED BY <2>2, ContentsNone
<1>9. Owned(r.FileMap, r.disk, r.created, p.created)
  <2>1. p.created \in Nat
    BY DEF Part
  <2>2. DOMAIN r.FileMap = {} /\ DOMAIN r.disk \subseteq 1 .. p.created /\ r.created = p.created
    BY <1>6
  <2>3. \A f \in DOMAIN r.disk : ~(f > p.created)
    BY <2>1, <2>2
  <2>4. p.created \in 0 .. r.created
    BY <2>1, <2>2
  <2> QED BY <2>2, <2>3, <2>4 DEF Owned
<1>10. r.CurrFileSize = r.TotalFileSize /\ r.TotalFileSize <= 0
  BY <1>6
<1>11. Base(r, q, p.created, << >>, 0)
  BY <1>6, <1>7, <1>8, <1>9, <1>10, Zenon DEF Base
<1>12. r.state # "READ" /\ Unnamed(r.headers)
  BY <1>6, UnnamedFacts
<1> QED BY <1>11, <1>12, Zenon DEF Idle

\* A query string is decoded to what it means, and its last name is kept.
LEMMA DecodedIs ==
  ASSUME NEW q \in Queries
  PROVE  Decoded[q].map = QueryMeant(q) /\ Decoded[q].tmp = LastName(q)
<1>1. q \in Seq(Entries) /\ << >> \in Seq(Entries)
  BY LastNameUnnamed
<1>2. QueryMeant(<< >>) = << >>
  BY ContentsNone
<1>3. AddURLEncoded(QueryMeant(<< >>), QueryString(q)) = After(<< >>, q)
  BY <1>1, Decodes
<1>4. << >> \o q = q
  BY <1>1
<1>5. /\ After(<< >>, q).map = QueryMeant(<< >> \o q)
      /\ After(<< >>, q).tmp = IF q = << >> THEN << >> ELSE Last(q)[1]
  BY DEF After, Read
<1>6. Decoded[q] = AddURLEncoded(<< >>, QueryString(q))
  BY DEF Decoded
<1>7. Decoded[q] = After(<< >>, q)
  BY <1>2, <1>3, <1>6
<1> QED BY <1>4, <1>5, <1>7, Zenon DEF LastName

\* A content is decoded behind the query string.
LEMMA ContentIs ==
  ASSUME NEW q \in Queries, NEW content \in Queries, NEW d, d = AddURLEncoded(QueryMeant(q), QueryString(content))
  PROVE  /\ d.map = QueryMeant(q \o content) /\ q \o content \in Seq(Entries)
         /\ d.tmp = << >> \/ (q \o content # << >> /\ d.tmp = Last(q \o content)[1])
<1>1. q \in Seq(Entries) /\ content \in Seq(Entries)
  BY LastNameUnnamed
<1>2. d = After(q, content)
  BY <1>1, Decodes
<1>3. /\ After(q, content).map = QueryMeant(q \o content)
      /\ After(q, content).tmp = IF content = << >> THEN << >> ELSE Last(content)[1]
  BY DEF After, Read
<1>4. q \o content \in Seq(Entries)
  BY <1>1, ConcatProperties
<1>5. ASSUME content # << >> PROVE q \o content # << >> /\ Last(q \o content) = Last(content)
  <2> DEFINE r == q \o content
  <2>1. /\ Len(r) = Len(q) + Len(content) /\ Len(q) \in Nat /\ Len(content) \in Nat
        /\ \A i \in 1 .. Len(q) + Len(content) : r[i] = IF i <= Len(q) THEN q[i] ELSE content[i - Len(q)]
    BY <1>1, ConcatProperties, LenProperties
  <2>2. Len(content) > 0
    BY <1>1, <1>5, EmptySeq
  <2> HIDE DEF r
  <2>3. Len(r) \in 1 .. Len(q) + Len(content) /\ ~(Len(r) <= Len(q)) /\ Len(r) - Len(q) = Len(content)
    BY <2>1, <2>2
  <2>4. r[Len(r)] = content[Len(content)]
    BY <2>1, <2>3
  <2>5. r # << >>
    <3>1. Len(r) # 0
      BY <2>1, <2>2
    <3> QED BY <3>1
  <2> QED BY <2>4, <2>5 DEF Last, r
<1> QED BY <1>2, <1>3, <1>4, <1>5

-----------------------------------------------------------------------------
(* The inductive invariant.                                                *)

\* The inductive invariant: no body is read, or one is.
Rests ==
  /\ body = << >> /\ parts = << >>
  /\ Resting(query, before, Pos, Begin, ContentBegin, BoundaryParseCounter, ParseTmp, st, requests)
Reads ==
  \E o : /\ Running(body, parts, query, o, Pos, Begin, ContentBegin)
         /\ Scanned(body, parts, query, before, o, Pos, Begin, ContentBegin,
                    BoundaryParseCounter, ParseTmp, st)
IInv == requests \in 0 .. MaxRequests /\ query \in Seq(Entries) /\ (Rests \/ Reads)

\* A state without a body has its types.
LEMMA RestingSound ==
  ASSUME NEW q \in Seq(Entries), NEW bf, NEW P, NEW B, NEW C, NEW c, NEW tmp, NEW p, NEW r,
         Resting(q, bf, P, B, C, c, tmp, p, r)
  PROVE  Sound(p, bf) /\ tmp \in Seq(STRING) /\ Len(tmp) < 5 + Len(LastName(q)) /\ p.state # "READ"
<1>1. /\ tmp = << >> \/ (q # << >> /\ tmp = Last(q)[1])
      /\ p \in Part /\ p.state # "READ"
      /\ Base(p, q, bf, << >>, 0) \/ (r = 0 /\ p.disk = << >> /\ bf = 0)
  BY Zenon DEF Resting
<1>2. LastName(q) \in Seq(STRING) /\ Len(LastName(q)) \in Nat
  BY LastNameType
<1>3. tmp \in Seq(STRING) /\ Len(tmp) < 5 + Len(LastName(q))
  <2>1. CASE tmp = << >>
    <3>1. tmp \in Seq(STRING) /\ Len(tmp) = 0
      BY <2>1
    <3> QED BY <1>2, <3>1
  <2>2. CASE q # << >> /\ tmp = Last(q)[1]
    <3>1. tmp = LastName(q)
      BY <2>2 DEF LastName
    <3> QED BY <1>2, <3>1
  <2> QED BY <1>1, <2>1, <2>2
<1>4. Sound(p, bf)
  <2>1. CASE Base(p, q, bf, << >>, 0)
    BY <1>1, <2>1, BaseSound
  <2>2. CASE p.disk = << >> /\ bf = 0
    <3>1. DOMAIN p.disk = {} /\ p.created \in Nat
      BY <1>1, <2>2 DEF Part
    <3>2. bf \in 0 .. p.created
      BY <2>2, <3>1
    <3> QED BY <1>1, <3>1, <3>2 DEF Sound
  <2> QED BY <1>1, <2>1, <2>2
<1> QED BY <1>1, <1>3, <1>4

\* The invariant holds in the beginning.
LEMMA InitInv == Init => IInv
<1> SUFFICES ASSUME Init PROVE IInv
  OBVIOUS
<1>1. /\ query = << >> /\ parts = << >> /\ body = << >> /\ requests = 0 /\ before = 0
      /\ Begin = 0 /\ Pos = 0 /\ ContentBegin = 0 /\ BoundaryParseCounter = 2 /\ ParseTmp = << >>
  BY DEF Init
<1>2. st \in Part /\ st.state # "READ" /\ st.disk = << >>
  <2> DEFINE e == << >>
             f == FALSE
             w == Wild
             z == 0
             m == MaxUploadSize
             t == MaxTotalUploadSize
             h == "HEADERSTART"
             r == [state |-> h, counter |-> z, headers |-> e, isFile |-> f, target |-> w, ParamMap |-> e,
                   FileMap |-> e, disk |-> e, created |-> z, CurrFileS |-> z,
                   limit |-> m, totalLimit |-> t, CurrFileSize |-> z, TotalFileSize |-> z]
  <2>1. st = r
    BY Zenon DEF Init
  <2>2. /\ m \in Nat /\ t \in Nat /\ z \in Nat /\ z \in 0 .. 4 /\ f \in BOOLEAN
        /\ w \in Names \union {None, Wild} /\ e \in Seq(STRING)
        /\ h \in {"HEADERSTART", "HEADERS_END", "READ", "FINISHED"} /\ h # "READ"
    BY QueryAssumption
  <2>3. \A X, Y : e \in Map(X, Y)
    <3>1. DOMAIN e = {} /\ e = [a \in DOMAIN e |-> e[a]]
      OBVIOUS
    <3> HIDE DEF e
    <3>2. ASSUME NEW X, NEW Y PROVE e \in Map(X, Y)
      <4>1. DOMAIN e \subseteq X /\ \A a \in DOMAIN e : e[a] \in Y
        BY <3>1
      <4> QED BY <3>1, <4>1, MapFacts
    <3> QED BY <3>2
  <2>4. /\ e \in Map(Seq(STRING), Seq(STRING)) /\ e \in Map(Names, Nat) /\ e \in Map(Nat, Seq(STRING))
    BY <2>3
  <2> HIDE DEF e, f, w, z, m, t, h
  <2>5. r \in Part /\ r.state = h /\ r.disk = e
    BY <2>2, <2>4 DEF Part
  <2> HIDE DEF r
  <2> QED BY <2>1, <2>2, <2>5 DEF e
<1>3. Resting(query, before, Pos, Begin, ContentBegin, BoundaryParseCounter, ParseTmp, st, requests)
  BY <1>1, <1>2, Zenon DEF Resting
<1>4. Rests
  BY <1>1, <1>3, Zenon DEF Rests
<1>5. requests \in 0 .. MaxRequests /\ query \in Seq(Entries)
  BY <1>1, QueryAssumption
<1> QED BY <1>4, <1>5 DEF IInv

\* The offsets move on.
LEMMA RunningMoves ==
  ASSUME NEW b, NEW ps, NEW q, NEW o, NEW P, NEW B, NEW C, Running(b, ps, q, o, P, B, C)
  PROVE  /\ P \in Nat /\ B \in Nat /\ C \in Nat /\ Len(b) \in Nat /\ B <= C /\ C <= P /\ P <= Len(b)
         /\ P < Len(b) => Running(b, ps, q, o, P + 1, B, C) /\ Running(b, ps, q, o, P + 1, B, P + 1)
         /\ Running(b, ps, q, o, P, B, P) /\ Running(b, ps, q, o, P, P, P)
         /\ B = Len(b) => P = Len(b) /\ Running(b, ps, q, o, P, P, C)
<1>1. Layout(b, ps, o) /\ LastName(q) \in Seq(STRING) /\ Unnamed(LastName(q)) /\ Offsets(b, P, B, C)
  BY DEF Running
<1>2. /\ P \in Nat /\ B \in Nat /\ C \in Nat /\ Len(b) \in Nat /\ B <= C /\ C <= P /\ P <= Len(b) /\ b \in Seq(Symbols)
  BY <1>1 DEF Offsets
<1>3. /\ P < Len(b) => Offsets(b, P + 1, B, C) /\ Offsets(b, P + 1, B, P + 1)
      /\ Offsets(b, P, B, P) /\ Offsets(b, P, P, P)
      /\ B = Len(b) => P = Len(b) /\ Offsets(b, P, P, C)
  BY <1>2 DEF Offsets
<1> QED BY <1>1, <1>2, <1>3, Zenon DEF Running

\* Parameters are set over others.
LEMMA ParamMapTwice ==
  ASSUME NEW r, NEW x, NEW y, NEW a, a = [r EXCEPT !.ParamMap = x]
  PROVE  [a EXCEPT !.ParamMap = y] = [r EXCEPT !.ParamMap = y]
OBVIOUS

\* Between two requests.
LEMMA AtRest ==
  ASSUME IInv
  PROVE  /\ Sound(st, before)
         /\ Begin = Len(body) => st.state # "READ"
<1>1. query \in Seq(Entries) /\ (Rests \/ Reads)
  BY DEF IInv
<1>2. CASE Rests
  <2>1. Resting(query, before, Pos, Begin, ContentBegin, BoundaryParseCounter, ParseTmp, st, requests)
    BY <1>2 DEF Rests
  <2> QED BY <1>1, <2>1, RestingSound
<1>3. CASE Reads
  <2>1. PICK o : /\ Running(body, parts, query, o, Pos, Begin, ContentBegin)
                 /\ Scanned(body, parts, query, before, o, Pos, Begin, ContentBegin,
                            BoundaryParseCounter, ParseTmp, st)
    BY <1>3 DEF Reads
  <2>2. Sound(st, before)
    BY <2>1, ScannedSound
  <2>3. ASSUME Begin = Len(body) PROVE st.state # "READ"
    <3>1. Pos = Len(body) /\ Running(body, parts, query, o, Pos, Pos, ContentBegin) /\ Begin = Pos
      BY <2>1, <2>3, RunningMoves
    <3>2. Scanned(body, parts, query, before, o, Pos, Pos, ContentBegin, BoundaryParseCounter, ParseTmp, st)
      BY <2>1, <3>1
    <3>3. Whole(st, query, before, parts)
      BY <3>1, <3>2, ScannedWhole
    <3> QED BY <3>3 DEF Whole
  <2> QED BY <2>2, <2>3
<1> QED BY <1>1, <1>2, <1>3

\* A request begins with what its query string means.
LEMMA RequestIdle ==
  ASSUME IInv, Begin = Len(body), NEW q \in Queries, NEW counter \in 0 .. 4
  PROVE  Idle(ReadRequest(q, counter), q, st.created)
<1>1. st \in Part /\ st.state # "READ" /\ DOMAIN st.disk \subseteq 1 .. st.created
  BY AtRest DEF Sound
<1>2. q \in Seq(Entries) /\ Decoded[q].map = QueryMeant(q)
  BY LastNameUnnamed, DecodedIs
<1>3. ReadRequest(q, counter) = [ResetQuery(st, counter) EXCEPT !.ParamMap = QueryMeant(q)]
  BY <1>2, Zenon DEF ReadRequest
<1> QED BY <1>1, <1>2, <1>3, FreshIdle

\* A multipart body begins.
LEMMA StartScanned ==
  ASSUME NEW b, NEW ps, NEW o, Layout(b, ps, o), NEW q \in Queries, NEW bf, NEW p, Idle(p, q, bf)
  PROVE  /\ Running(b, ps, q, o, 0, 0, 0)
         /\ Scanned(b, ps, q, bf, o, 0, 0, 0, 2, LastName(q), p)
<1>1. q \in Seq(Entries) /\ Unnamed(LastName(q)) /\ LastName(q) \in Seq(STRING)
  BY LastNameUnnamed, LastNameType
<1>2. Offsets(b, 0, 0, 0)
  BY LayoutOuter DEF Offsets
<1>3. Running(b, ps, q, o, 0, 0, 0)
  BY <1>1, <1>2, Zenon DEF Running
<1>4. LastName(q) = LastName(q) \o Slice(b, 0, 0)
  <2>1. Slice(b, 0, 0) = << >>
    BY NoSlice
  <2> QED BY <1>1, <2>1, ConcatEmptySeq
<1>5. 2 = 0 + 2 /\ 0 < 3
  OBVIOUS
<1>6. AtStart(b, q, bf, o, 0, 0, 0, 2, LastName(q), p)
  BY <1>4, <1>5, Zenon DEF AtStart
<1> QED BY <1>3, <1>6, Zenon DEF Scanned

\* BeginMultipart keeps the invariant.
LEMMA MultipartInv == IInv /\ BeginMultipart => IInv'
<1> SUFFICES ASSUME IInv, BeginMultipart PROVE IInv'
  OBVIOUS
<1>1. /\ requests < MaxRequests /\ Begin = Len(body)
      /\ requests' = requests + 1 /\ before' = st.created
      /\ Begin' = 0 /\ Pos' = 0 /\ ContentBegin' = 0 /\ BoundaryParseCounter' = 2
      /\ query' \in Queries /\ ParseTmp' = Decoded[query'].tmp
  BY DEF BeginMultipart, NewRequest
<1>2. PICK counter \in 0 .. 4 : st' = ReadRequest(query', counter)
  BY DEF BeginMultipart
<1>3. PICK n \in 0 .. MaxParts : parts' \in [1 .. n -> PartOf]
  BY DEF BeginMultipart
<1>4. PICK pre \in Preambles : body' = Body(pre, parts')
  BY DEF BeginMultipart
<1>5. PICK o : Layout(body', parts', o)
  BY <1>3, <1>4, LayoutExists
<1>6. Idle(st', query', before')
  BY <1>1, <1>2, RequestIdle
<1>7. ParseTmp' = LastName(query')
  BY <1>1, DecodedIs
<1>8. /\ Running(body', parts', query', o, 0, 0, 0)
      /\ Scanned(body', parts', query', before', o, 0, 0, 0, 2, LastName(query'), st')
  BY <1>1, <1>5, <1>6, StartScanned
<1>9. /\ Running(body', parts', query', o, Pos', Begin', ContentBegin')
      /\ Scanned(body', parts', query', before', o, Pos', Begin', ContentBegin',
                 BoundaryParseCounter', ParseTmp', st')
  BY <1>1, <1>7, <1>8
<1>10. Reads'
  BY <1>9, Zenon DEF Reads
<1>11. requests' \in 0 .. MaxRequests /\ query' \in Seq(Entries)
  <2>1. requests \in 0 .. MaxRequests /\ MaxRequests \in Nat
    BY QueryAssumption DEF IInv
  <2>2. requests' \in 0 .. MaxRequests
    BY <1>1, <2>1
  <2> QED BY <1>1, <2>2, LastNameUnnamed
<1> QED BY <1>10, <1>11, Zenon DEF IInv

\* BeginURLEncoded keeps the invariant.
LEMMA URLEncodedInv == IInv /\ BeginURLEncoded => IInv'
<1> SUFFICES ASSUME IInv, BeginURLEncoded PROVE IInv'
  OBVIOUS
<1>1. /\ requests < MaxRequests /\ Begin = Len(body)
      /\ requests' = requests + 1 /\ before' = st.created
      /\ Begin' = 0 /\ Pos' = 0 /\ ContentBegin' = 0 /\ BoundaryParseCounter' = 2
      /\ parts' = << >> /\ body' = << >>
  BY DEF BeginURLEncoded, NewRequest
<1>2. PICK q \in Queries, content \in Queries, counter \in 0 .. 4 :
        LET p == ReadRequest(q, counter)
            d == AddURLEncoded(p.ParamMap, QueryString(content))
        IN /\ query' = q \o content
           /\ ParseTmp' = d.tmp /\ st' = [p EXCEPT !.ParamMap = d.map]
  BY DEF BeginURLEncoded
<1> DEFINE p == ReadRequest(q, counter)
           d == AddURLEncoded(p.ParamMap, QueryString(content))
<1>3. query' = q \o content /\ ParseTmp' = d.tmp /\ st' = [p EXCEPT !.ParamMap = d.map]
  BY <1>2, Zenon
<1>4. Idle(p, q, st.created)
  BY <1>1, RequestIdle
<1>5. p.ParamMap = QueryMeant(q)
  <2>1. p.ParamMap = Meant(q, << >>)
    BY <1>4, Zenon DEF Idle, Base
  <2> QED BY <2>1, MeantNone
<1>6. d = AddURLEncoded(QueryMeant(q), QueryString(content))
  BY <1>5, Zenon
<1> HIDE DEF d
<1>7. /\ d.map = QueryMeant(q \o content) /\ q \o content \in Seq(Entries)
      /\ d.tmp = << >> \/ (q \o content # << >> /\ d.tmp = Last(q \o content)[1])
  BY <1>6, ContentIs
<1>8. st' = [ResetQuery(st, counter) EXCEPT !.ParamMap = QueryMeant(query')]
  <2>1. p = [ResetQuery(st, counter) EXCEPT !.ParamMap = Decoded[q].map]
    BY Zenon DEF ReadRequest
  <2> HIDE DEF p
  <2>2. [p EXCEPT !.ParamMap = QueryMeant(query')] = [ResetQuery(st, counter) EXCEPT !.ParamMap = QueryMeant(query')]
    BY <2>1, ParamMapTwice
  <2>3. st' = [p EXCEPT !.ParamMap = QueryMeant(query')]
    BY <1>3, <1>7, Zenon
  <2> QED BY <2>1, <2>2, <2>3, Zenon
<1> HIDE DEF p
<1>9. st \in Part /\ st.state # "READ" /\ DOMAIN st.disk \subseteq 1 .. st.created
  BY <1>1, AtRest DEF Sound
<1>10. Idle(st', query', before')
  <2>1. query' \in Seq(Entries)
    BY <1>3, <1>7
  <2> QED BY <1>1, <1>8, <1>9, <2>1, FreshIdle
<1>11. Base(st', query', before', << >>, 0) /\ st' \in Part /\ st'.state # "READ"
  BY <1>10, Zenon DEF Idle, Base
<1>12. ParseTmp' = << >> \/ (query' # << >> /\ ParseTmp' = Last(query')[1])
  BY <1>3, <1>7, Zenon
<1>13. Resting(query', before', Pos', Begin', ContentBegin', BoundaryParseCounter', ParseTmp', st', requests')
  BY <1>1, <1>11, <1>12, Zenon DEF Resting
<1>14. Rests'
  BY <1>1, <1>13, Zenon DEF Rests
<1>15. requests' \in 0 .. MaxRequests /\ query' \in Seq(Entries)
  <2>1. requests \in 0 .. MaxRequests /\ MaxRequests \in Nat
    BY QueryAssumption DEF IInv
  <2>2. requests' \in 0 .. MaxRequests
    BY <1>1, <2>1
  <2> QED BY <1>3, <1>7, <2>2
<1> QED BY <1>14, <1>15, Zenon DEF IInv

\* A body is read from here on, from a state where one is read.
ReadsOn ==
  \E o : /\ Running(body, parts, query, o, Pos', Begin', ContentBegin')
         /\ Scanned(body, parts, query, before, o, Pos', Begin', ContentBegin',
                    BoundaryParseCounter', ParseTmp', st')

\* Then the invariant holds.
LEMMA OnRead ==
  ASSUME IInv, UNCHANGED <<query, parts, body, requests, before>>, ReadsOn
  PROVE  IInv'
<1>1. query' = query /\ parts' = parts /\ body' = body /\ requests' = requests /\ before' = before
  OBVIOUS
<1>2. Reads'
  BY <1>1, Zenon DEF Reads, ReadsOn
<1>3. requests' \in 0 .. MaxRequests /\ query' \in Seq(Entries)
  BY <1>1 DEF IInv
<1> QED BY <1>2, <1>3, Zenon DEF IInv

\* Cells are there only when a body is read.
LEMMA BodyRead ==
  ASSUME IInv, InBody \/ Pos > Begin
  PROVE  Reads
<1>1. ASSUME Rests PROVE FALSE
  <2>1. body = << >> /\ Pos = 0 /\ Begin = 0
    BY <1>1, Zenon DEF Rests, Resting
  <2>2. Len(body) = 0
    BY <2>1
  <2> QED BY <2>1, <2>2 DEF InBody
<1> QED BY <1>1, Zenon DEF IInv

\* ScanContent keeps the invariant.
LEMMA ScanInv == IInv /\ ScanContent => IInv'
<1> SUFFICES ASSUME IInv, ScanContent PROVE IInv'
  OBVIOUS
<1>1. /\ Pos < Len(body) /\ BoundaryParseCounter = 0 /\ body[Pos + 1] # "CR" /\ Pos' = Pos + 1
      /\ UNCHANGED <<query, parts, body, requests, before>>
      /\ Begin' = Begin /\ ContentBegin' = ContentBegin /\ BoundaryParseCounter' = BoundaryParseCounter
      /\ ParseTmp' = ParseTmp /\ st' = st
  BY DEF ScanContent, InBody, Current, frame
<1>2. Reads
  BY <1>1, BodyRead DEF InBody
<1>3. PICK o : /\ Running(body, parts, query, o, Pos, Begin, ContentBegin)
               /\ Scanned(body, parts, query, before, o, Pos, Begin, ContentBegin, 0, ParseTmp, st)
  BY <1>1, <1>2, Zenon DEF Reads
<1>4. Scanned(body, parts, query, before, o, Pos + 1, Begin, ContentBegin, 0, ParseTmp, st)
  BY <1>1, <1>3, ScannedScan
<1>5. Running(body, parts, query, o, Pos + 1, Begin, ContentBegin)
  BY <1>1, <1>3, RunningMoves
<1>6. ReadsOn
  BY <1>1, <1>4, <1>5, Zenon DEF ReadsOn
<1> QED BY <1>1, <1>6, OnRead

\* MatchOne keeps the invariant.
LEMMA MatchOneInv == IInv /\ MatchOne => IInv'
<1> SUFFICES ASSUME IInv, MatchOne PROVE IInv'
  OBVIOUS
<1>1. /\ Pos < Len(body) /\ body[Pos + 1] = BoundaryStr[BoundaryParseCounter + 1]
      /\ BoundaryParseCounter + 1 < 5 /\ Pos' = Pos + 1
      /\ UNCHANGED <<query, parts, body, requests, before>>
      /\ Begin' = Begin /\ ContentBegin' = ContentBegin /\ BoundaryParseCounter' = BoundaryParseCounter + 1
      /\ ParseTmp' = ParseTmp /\ st' = st
  BY BoundaryFacts DEF MatchOne, Matches, InBody, Current, frame
<1>2. Reads
  BY <1>1, BodyRead DEF InBody
<1>3. PICK o : /\ Running(body, parts, query, o, Pos, Begin, ContentBegin)
               /\ Scanned(body, parts, query, before, o, Pos, Begin, ContentBegin,
                          BoundaryParseCounter, ParseTmp, st)
  BY <1>2, Zenon DEF Reads
<1>4. BoundaryParseCounter < 4
  <2>1. BoundaryParseCounter \in 0 .. 4
    BY <1>3, ScannedSound
  <2> QED BY <1>1, <2>1
<1>5. Scanned(body, parts, query, before, o, Pos + 1, Begin, ContentBegin, BoundaryParseCounter + 1, ParseTmp, st)
  BY <1>1, <1>3, <1>4, ScannedOne
<1>6. Running(body, parts, query, o, Pos + 1, Begin, ContentBegin)
  BY <1>1, <1>3, RunningMoves
<1>7. ReadsOn
  BY <1>1, <1>5, <1>6, Zenon DEF ReadsOn
<1> QED BY <1>1, <1>7, OnRead

\* MatchLast keeps the invariant.
LEMMA MatchLastInv == IInv /\ MatchLast => IInv'
<1> SUFFICES ASSUME IInv, MatchLast PROVE IInv'
  OBVIOUS
<1> DEFINE X == BeforeBoundary(Pos + 1)
<1>1. /\ Pos < Len(body) /\ body[Pos + 1] = BoundaryStr[BoundaryParseCounter + 1]
      /\ BoundaryParseCounter + 1 = 5 /\ Pos' = Pos + 1
      /\ UNCHANGED <<query, parts, body, requests, before>>
      /\ Begin' = Begin /\ ContentBegin' = Pos + 1 /\ BoundaryParseCounter' = 0
      /\ ParseTmp' = << >> /\ st' = StartNewPart(AppendToCurrentPart(st, X))
  BY BoundaryFacts DEF MatchLast, Matches, InBody, Current, frame
<1>2. Reads
  BY <1>1, BodyRead DEF InBody
<1>3. PICK o : /\ Running(body, parts, query, o, Pos, Begin, ContentBegin)
               /\ Scanned(body, parts, query, before, o, Pos, Begin, ContentBegin,
                          BoundaryParseCounter, ParseTmp, st)
  BY <1>2, Zenon DEF Reads
<1>4. BoundaryParseCounter = 4 /\ body[Pos + 1] = "BOUNDARY"
  <2>1. BoundaryParseCounter \in 0 .. 4
    BY <1>3, ScannedSound
  <2> QED BY <1>1, <2>1, BoundaryFacts
<1>5. X = IF (Pos + 1) - Begin < 5
            THEN SubSeq(ParseTmp, 1, Len(ParseTmp) + ((Pos + 1) - Begin) - 5)
            ELSE Slice(body, ContentBegin, (Pos + 1) - 5)
  <2>1. Len(BoundaryStr) = 5
    BY BoundaryFacts
  <2> QED BY <2>1, Zenon DEF BeforeBoundary, Cells, Slice
<1> HIDE DEF X
<1>6. Scanned(body, parts, query, before, o, Pos, Begin, ContentBegin, 4, ParseTmp, st)
  BY <1>3, <1>4
<1>7. Scanned(body, parts, query, before, o, Pos + 1, Begin, Pos + 1, 0, << >>,
              StartNewPart(AppendToCurrentPart(st, X)))
  BY <1>1, <1>3, <1>4, <1>5, <1>6, ScannedLast
<1>8. Running(body, parts, query, o, Pos + 1, Begin, Pos + 1)
  BY <1>1, <1>3, RunningMoves
<1>9. ReadsOn
  BY <1>1, <1>7, <1>8, Zenon DEF ReadsOn
<1> QED BY <1>1, <1>9, OnRead

\* MatchBroken keeps the invariant.
LEMMA MatchBrokenInv == IInv /\ MatchBroken => IInv'
<1> SUFFICES ASSUME IInv, MatchBroken PROVE IInv'
  OBVIOUS
<1>1. /\ Pos < Len(body) /\ body[Pos + 1] # BoundaryStr[BoundaryParseCounter + 1]
      /\ BoundaryParseCounter > 0 /\ Pos' = Pos
      /\ UNCHANGED <<query, parts, body, requests, before>>
      /\ Begin' = Begin /\ ContentBegin' = Pos /\ BoundaryParseCounter' = 0
      /\ ParseTmp' = << >>
      /\ st' = AppendToCurrentPart(AppendToCurrentPart(st, ParseTmp), Slice(body, ContentBegin, Pos))
  BY DEF MatchBroken, Matches, InBody, Current, frame, PosAfterBreak, Cells, Slice
<1>2. Reads
  BY <1>1, BodyRead DEF InBody
<1>3. PICK o : /\ Running(body, parts, query, o, Pos, Begin, ContentBegin)
               /\ Scanned(body, parts, query, before, o, Pos, Begin, ContentBegin,
                          BoundaryParseCounter, ParseTmp, st)
  BY <1>2, Zenon DEF Reads
<1>4. Scanned(body, parts, query, before, o, Pos, Begin, Pos, 0, << >>,
              AppendToCurrentPart(AppendToCurrentPart(st, ParseTmp), Slice(body, ContentBegin, Pos)))
  BY <1>1, <1>3, ScannedBroken
<1>5. Running(body, parts, query, o, Pos, Begin, Pos)
  BY <1>3, RunningMoves
<1>6. ReadsOn
  BY <1>1, <1>4, <1>5, Zenon DEF ReadsOn
<1> QED BY <1>1, <1>6, OnRead

\* EndCall keeps the invariant.
LEMMA EndCallInv == IInv /\ EndCall => IInv'
<1> SUFFICES ASSUME IInv, EndCall PROVE IInv'
  OBVIOUS
<1> DEFINE c == BoundaryParseCounter
           t == IF c > 0 THEN ParseTmp \o Slice(body, Max({Pos - c, Begin}), Pos) ELSE ParseTmp
<1>1. /\ Pos > Begin /\ Begin' = Pos /\ ContentBegin' = Pos /\ Pos' = Pos
      /\ UNCHANGED <<query, parts, body, requests, before>>
      /\ BoundaryParseCounter' = BoundaryParseCounter
  BY DEF EndCall
<1>2. Reads
  BY <1>1, BodyRead
<1>3. PICK o : /\ Running(body, parts, query, o, Pos, Begin, ContentBegin)
               /\ Scanned(body, parts, query, before, o, Pos, Begin, ContentBegin,
                          BoundaryParseCounter, ParseTmp, st)
  BY <1>2, Zenon DEF Reads
<1>4. BoundaryParseCounter \in 0 .. 4 /\ Pos \in Nat
  BY <1>3, ScannedSound, RunningMoves
<1>5. st' = AppendToCurrentPart(st, Slice(body, ContentBegin, Pos - c)) /\ ParseTmp' = t
  <2>1. CASE c > 0
    BY <2>1, Zenon DEF EndCall, KeptForLater, Cells, Slice
  <2>2. CASE ~(c > 0)
    <3>1. Pos - c = Pos
      BY <1>4, <2>2
    <3>2. st' = AppendToCurrentPart(st, Slice(body, ContentBegin, Pos)) /\ ParseTmp' = ParseTmp
      BY <2>2, Zenon DEF EndCall, Cells, Slice
    <3> QED BY <2>2, <3>1, <3>2, Zenon
  <2> QED BY <2>1, <2>2
<1> HIDE DEF t
<1>6. Scanned(body, parts, query, before, o, Pos, Pos, Pos, c, t,
              AppendToCurrentPart(st, Slice(body, ContentBegin, Pos - c)))
  <2>1. t = IF c > 0 THEN ParseTmp \o Slice(body, Max({Pos - c, Begin}), Pos) ELSE ParseTmp
    BY DEF t
  <2> QED BY <1>3, <2>1, ScannedEnd
<1>7. Running(body, parts, query, o, Pos, Pos, Pos)
  BY <1>3, RunningMoves
<1>8. ReadsOn
  BY <1>1, <1>5, <1>6, <1>7, Zenon DEF ReadsOn
<1> QED BY <1>1, <1>8, OnRead

\* Every step keeps the invariant.
LEMMA NextInv == IInv /\ [Next]_vars => IInv'
<1> SUFFICES ASSUME IInv, [Next]_vars PROVE IInv'
  OBVIOUS
<1>1. CASE UNCHANGED vars
  <2>1. /\ query' = query /\ parts' = parts /\ body' = body /\ requests' = requests /\ before' = before
        /\ Begin' = Begin /\ Pos' = Pos /\ ContentBegin' = ContentBegin
        /\ BoundaryParseCounter' = BoundaryParseCounter /\ ParseTmp' = ParseTmp /\ st' = st
    BY <1>1 DEF vars
  <2> QED BY <2>1, Zenon DEF IInv, Rests, Reads
<1>2. CASE Next
  BY <1>2, MultipartInv, URLEncodedInv, ScanInv, MatchOneInv, MatchLastInv, MatchBrokenInv, EndCallInv DEF Next
<1> QED BY <1>1, <1>2

\* The inductive invariant holds in every state of QueryParams.cpp's parsers.
THEOREM Invariant == Spec => []IInv
BY InitInv, NextInv, PTL DEF Spec

\* It gives the types.
LEMMA InvTypes == IInv => TypeOK
<1> SUFFICES ASSUME IInv PROVE TypeOK
  OBVIOUS
<1>1. requests \in 0 .. MaxRequests /\ query \in Seq(Seq(STRING) \X Seq(STRING))
  BY DEF IInv, Entries
<1>2. /\ parts \in Seq(PartOf) /\ body \in Seq(Symbols)
      /\ Begin \in 0 .. Pos /\ Pos \in 0 .. Len(body) /\ ContentBegin \in Begin .. Pos
      /\ BoundaryParseCounter \in 0 .. 4 /\ ParseTmp \in Seq(STRING)
      /\ Len(ParseTmp) < 5 + Len(LastName(query))
  <2>1. CASE Rests
    <3>1. /\ body = << >> /\ parts = << >> /\ Begin = 0 /\ Pos = 0 /\ ContentBegin = 0
          /\ BoundaryParseCounter = 2
          /\ Resting(query, before, Pos, Begin, ContentBegin, BoundaryParseCounter, ParseTmp, st, requests)
      BY <2>1, Zenon DEF Rests, Resting
    <3>2. ParseTmp \in Seq(STRING) /\ Len(ParseTmp) < 5 + Len(LastName(query))
      <4>1. query \in Seq(Entries)
        BY DEF IInv
      <4> QED BY <3>1, <4>1, RestingSound
    <3>3. /\ parts \in Seq(PartOf) /\ body \in Seq(Symbols)
          /\ Begin \in 0 .. Pos /\ Pos \in 0 .. Len(body) /\ ContentBegin \in Begin .. Pos
          /\ BoundaryParseCounter \in 0 .. 4
      BY <3>1
    <3> QED BY <3>2, <3>3
  <2>2. CASE Reads
    <3>1. PICK o : /\ Running(body, parts, query, o, Pos, Begin, ContentBegin)
                   /\ Scanned(body, parts, query, before, o, Pos, Begin, ContentBegin,
                              BoundaryParseCounter, ParseTmp, st)
      BY <2>2, Zenon DEF Reads
    <3>2. /\ BoundaryParseCounter \in 0 .. 4 /\ ParseTmp \in Seq(STRING)
          /\ Len(ParseTmp) < 5 + Len(LastName(query))
      BY <3>1, ScannedSound
    <3>3. parts \in Seq(PartOf) /\ body \in Seq(Symbols)
      BY <3>1, LayoutOuter DEF Running
    <3>4. /\ Pos \in Nat /\ Begin \in Nat /\ ContentBegin \in Nat /\ Len(body) \in Nat
          /\ Begin <= ContentBegin /\ ContentBegin <= Pos /\ Pos <= Len(body)
      BY <3>1, RunningMoves
    <3>5. Begin \in 0 .. Pos /\ Pos \in 0 .. Len(body) /\ ContentBegin \in Begin .. Pos
      BY <3>4
    <3> QED BY <3>2, <3>3, <3>5
  <2> QED BY <2>1, <2>2 DEF IInv
<1>3. Sound(st, before)
  BY AtRest
<1>4. /\ st \in Part /\ before \in 0 .. st.created /\ DOMAIN st.disk \subseteq 1 .. st.created
      /\ st.state = "READ" => st.target # Wild
  BY <1>3, Zenon DEF Sound
<1>5. /\ st.state \in {"HEADERSTART", "HEADERS_END", "READ", "FINISHED"}
      /\ st.counter \in 0 .. 4 /\ st.headers \in Seq(STRING)
      /\ st.target \in Names \union {None, Wild}
      /\ st.ParamMap \in Map(Seq(STRING), Seq(STRING)) /\ st.FileMap \in Map(Names, Nat)
  BY <1>4 DEF Part
<1>6. DOMAIN st.ParamMap \subseteq Seq(STRING) /\ DOMAIN st.FileMap \subseteq Names
  BY <1>5, MapFacts
<1>7. BoundaryParseCounter \in 0 .. Len(BoundaryStr) - 1
  <2>1. Len(BoundaryStr) - 1 = 4
    BY BoundaryFacts
  <2> QED BY <1>2, <2>1
<1>8. Len(ParseTmp) < Len(BoundaryStr) + (IF query = << >> THEN 0 ELSE Len(Last(query)[1]))
  <2>1. Len(LastName(query)) = IF query = << >> THEN 0 ELSE Len(Last(query)[1])
    BY DEF LastName
  <2>2. Len(BoundaryStr) = 5
    BY BoundaryFacts
  <2> QED BY <1>2, <2>1, <2>2
<1> QED BY <1>1, <1>2, <1>4, <1>5, <1>6, <1>7, <1>8, Zenon DEF TypeOK

\* Every variable keeps its type, no pointer leaves the data of its call,
\* ParseTmp holds no more than the query string's last name and the beginning of a
\* boundary, and CurrFMPart is used only when it was set.
THEOREM TypeCorrect == Spec => []TypeOK
BY Invariant, InvTypes, PTL

\* It gives the results at the end of a body.
LEMMA InvExact == IInv => PartsExact
<1> SUFFICES ASSUME IInv, requests > 0, Begin = Len(body)
             PROVE  /\ st.ParamMap = Meant(query, parts)
                    /\ [n \in DOMAIN st.FileMap |-> st.disk[st.FileMap[n]]] = Contents(parts, TRUE)
                    /\ body # << >> => st.state = "FINISHED" /\ st.CurrFileS = 0
  BY Zenon DEF PartsExact
<1>1. CASE Rests
  <2>1. body = << >> /\ parts = << >> /\ (Base(st, query, before, << >>, 0) \/ requests = 0)
    BY <1>1, Zenon DEF Rests, Resting
  <2>2. ~(requests = 0)
    OBVIOUS
  <2>3. Base(st, query, before, parts, 0)
    BY <2>1, <2>2
  <2> QED BY <2>1, <2>3, Zenon DEF Base
<1>2. CASE Reads
  <2>1. PICK o : /\ Running(body, parts, query, o, Pos, Begin, ContentBegin)
                 /\ Scanned(body, parts, query, before, o, Pos, Begin, ContentBegin,
                            BoundaryParseCounter, ParseTmp, st)
    BY <1>2, Zenon DEF Reads
  <2>2. Pos = Len(body) /\ Running(body, parts, query, o, Pos, Pos, ContentBegin) /\ Begin = Pos
    BY <2>1, RunningMoves
  <2>3. Scanned(body, parts, query, before, o, Pos, Pos, ContentBegin, BoundaryParseCounter, ParseTmp, st)
    BY <2>1, <2>2
  <2>4. Whole(st, query, before, parts)
    BY <2>2, <2>3, ScannedWhole
  <2> QED BY <2>4, Zenon DEF Whole
<1> QED BY <1>1, <1>2 DEF IInv

\* At the end of a body every parameter and file has the content that was sent,
\* however the body was cut, whatever beginnings of boundaries its contents hold,
\* whatever was escaped in the query string and whatever name it ended with.
THEOREM PartsAreExact == Spec => []PartsExact
BY Invariant, InvExact, PTL

\* It gives the files that are left after the destructor.
LEMMA InvReachable == IInv => UploadsReachable
<1> SUFFICES ASSUME IInv, NEW f \in DOMAIN DeleteUploadedFiles(st) PROVE f <= before
  BY DEF UploadsReachable
<1>1. /\ before \in 0 .. st.created /\ DOMAIN st.disk \subseteq 1 .. st.created
      /\ \A g \in DOMAIN st.disk : g > before => \E n \in DOMAIN st.FileMap : st.FileMap[n] = g
      /\ st \in Part
  BY AtRest, Zenon DEF Sound
<1>2. f \in DOMAIN st.disk /\ f \notin {st.FileMap[n] : n \in DOMAIN st.FileMap}
  BY DEF DeleteUploadedFiles
<1>3. ~(f > before)
  BY <1>1, <1>2
<1>4. st.created \in Nat
  BY <1>1 DEF Part
<1> QED BY <1>1, <1>2, <1>3, <1>4

\* When the connection is deleted, at any point of a body and when parts share a
\* name, its last request leaves no temporary file.
THEOREM UploadsAreReachable == Spec => []UploadsReachable
BY Invariant, InvReachable, PTL
=============================================================================
