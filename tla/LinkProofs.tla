----------------------------- MODULE LinkProofs ------------------------------
(***************************************************************************)
(* Theorems about what links carry and about a link.  What is written is   *)
(* what is read, for every name, nonce, signature and payload, and every   *)
(* pair of links; and a link hands on what it was handed, for all set-ups, *)
(* channel sizes and numbers of lost, repeated and garbled datagrams.      *)
(***************************************************************************)
EXTENDS LinkProperties, FoldProofs

-----------------------------------------------------------------------------
(* Recursive functions. *)

\* A function defined by what it is at 0 and by a step from i - 1 to i.
IsRecursion(g, base, step, n) ==
  g = [i \in 0 .. n |-> IF i = 0 THEN base ELSE step[<<i, g[i - 1]>>]]

LEMMA Recursion ==
  ASSUME NEW V, NEW base \in V, NEW n \in Nat, NEW step \in [(1 .. n) \X V -> V]
  PROVE  \E g \in [0 .. n -> V] : IsRecursion(g, base, step, n)
  <1> DEFINE N == {m \in Nat : m <= n => \E g \in [0 .. m -> V] : IsRecursion(g, base, step, m)}
  <1>1. 0 \in N
    <2>1. [i \in 0 .. 0 |-> base] \in [0 .. 0 -> V]
      OBVIOUS
    <2>2. IsRecursion([i \in 0 .. 0 |-> base], base, step, 0)
      BY DEF IsRecursion
    <2> QED
      BY <2>1, <2>2
  <1>2. ASSUME NEW m \in Nat, m \in N PROVE m + 1 \in N
    <2> SUFFICES ASSUME m + 1 <= n
                 PROVE  \E g \in [0 .. m + 1 -> V] : IsRecursion(g, base, step, m + 1)
      OBVIOUS
    <2>1. PICK g \in [0 .. m -> V] : IsRecursion(g, base, step, m)
      BY <1>2
    <2> DEFINE h == [i \in 0 .. m + 1 |-> IF i = m + 1 THEN step[<<m + 1, g[m]>>] ELSE g[i]]
    <2>2. h \in [0 .. m + 1 -> V]
      <3>1. g[m] \in V /\ m + 1 \in 1 .. n
        OBVIOUS
      <3>2. step[<<m + 1, g[m]>>] \in V
        BY <3>1
      <3>3. ASSUME NEW i \in 0 .. m + 1, i # m + 1 PROVE g[i] \in V
        <4>1. i \in 0 .. m
          BY <3>3
        <4> QED
          BY <4>1
      <3> QED
        BY <3>2, <3>3
    <2>3. \A i \in 0 .. m : g[i] = IF i = 0 THEN base ELSE step[<<i, g[i - 1]>>]
      BY <2>1 DEF IsRecursion
    <2>4. ASSUME NEW i \in 0 .. m + 1
          PROVE  h[i] = IF i = 0 THEN base ELSE step[<<i, h[i - 1]>>]
      <3>1. CASE i = m + 1
        <4>1. i # 0 /\ i - 1 = m /\ m # m + 1 /\ m \in 0 .. m + 1
          BY <3>1
        <4>2. h[i] = step[<<m + 1, g[m]>>] /\ h[i - 1] = g[m]
          BY <3>1, <4>1
        <4> QED
          BY <3>1, <4>1, <4>2
      <3>2. CASE i \in 1 .. m
        <4>1. i \in 0 .. m /\ i - 1 \in 0 .. m /\ i # 0 /\ h[i] = g[i] /\ h[i - 1] = g[i - 1]
          BY <3>2
        <4> QED
          BY <2>3, <4>1
      <3>3. CASE i = 0
        <4>1. 0 # m + 1 /\ 0 \in 0 .. m /\ 0 \in 0 .. m + 1
          OBVIOUS
        <4>2. h[0] = g[0] /\ g[0] = base
          BY <2>3, <4>1
        <4> QED
          BY <3>3, <4>2
      <3> QED
        BY <3>1, <3>2, <3>3
    <2>5. IsRecursion(h, base, step, m + 1)
      BY <2>4 DEF IsRecursion
    <2> QED
      BY <2>2, <2>5
  <1> HIDE DEF N
  <1>3. Nat \subseteq N
    BY <1>1, <1>2, Induction
  <1>4. n \in N /\ n <= n
    BY <1>3
  <1> QED
    BY <1>4 DEF N
-----------------------------------------------------------------------------
(* Bytes: fields that are not empty, one after another. *)

IsField(f) == f.size \in Nat \ {0} /\ f = [size |-> f.size, value |-> f.value]

AreBytes(s) == \E T : s \in Seq(T) /\ \A f \in T : IsField(f)

LEMMA BytesProperties ==
  ASSUME NEW s, AreBytes(s)
  PROVE  /\ Len(s) \in Nat /\ DOMAIN s = 1 .. Len(s)
         /\ \A i \in 1 .. Len(s) : s[i].size \in Nat \ {0} /\ IsField(s[i])
  <1>1. PICK T : s \in Seq(T) /\ \A f \in T : IsField(f)
    BY DEF AreBytes
  <1> QED
    BY <1>1, LenProperties, ElementOfSeq DEF IsField

LEMMA BytesConcat ==
  ASSUME NEW s, NEW t, AreBytes(s), AreBytes(t)
  PROVE  /\ AreBytes(s \o t)
         /\ Len(s \o t) = Len(s) + Len(t)
         /\ \A i \in 1 .. Len(s) : (s \o t)[i] = s[i]
         /\ \A i \in 1 .. Len(t) : (s \o t)[Len(s) + i] = t[i]
  <1>1. PICK T : s \in Seq(T) /\ \A f \in T : IsField(f)
    BY DEF AreBytes
  <1>2. PICK U : t \in Seq(U) /\ \A f \in U : IsField(f)
    BY DEF AreBytes
  <1>3. s \in Seq(T \cup U) /\ t \in Seq(T \cup U)
    BY <1>1, <1>2
  <1>4. s \o t \in Seq(T \cup U)
    BY <1>3, ConcatProperties
  <1>5. AreBytes(s \o t)
    BY <1>1, <1>2, <1>4 DEF AreBytes
  <1> QED
    BY <1>3, <1>5

LEMMA BytesPut ==
  ASSUME NEW size \in Nat, NEW value
  PROVE  AreBytes(Put(size, value)) /\ AreBytes(<< >>)
  <1>1. AreBytes(<< >>)
    <2>1. PICK T : T = {}
      OBVIOUS
    <2>2. << >> \in Seq(T) /\ \A f \in T : IsField(f)
      BY <2>1
    <2> QED
      BY <2>2 DEF AreBytes
  <1>2. CASE size = 0
    BY <1>1, <1>2 DEF Put
  <1>3. CASE size # 0
    <2> DEFINE f == [size |-> size, value |-> value]
    <2>1. <<f>> \in Seq({f}) /\ \A g \in {f} : IsField(g)
      BY <1>3 DEF IsField
    <2> QED
      BY <1>1, <1>3, <2>1 DEF Put, AreBytes
  <1> QED
    BY <1>2, <1>3

\* Where the fields end.
LEMMA EndsDefined ==
  ASSUME NEW s, AreBytes(s)
  PROVE  /\ Ends(s) \in [0 .. Len(s) -> Nat]
         /\ Ends(s)[0] = 0
         /\ \A i \in 1 .. Len(s) : Ends(s)[i] = Ends(s)[i - 1] + s[i].size
         /\ ByteCount(s) \in Nat
  <1> DEFINE n == Len(s)
             step == [p \in (1 .. n) \X Nat |-> p[2] + s[p[1]].size]
             end == CHOOSE g : g = [i \in 0 .. n |-> IF i = 0 THEN 0 ELSE g[i - 1] + s[i].size]
  <1>1. n \in Nat /\ \A i \in 1 .. n : s[i].size \in Nat
    BY BytesProperties
  <1>2. step \in [(1 .. n) \X Nat -> Nat]
    BY <1>1
  <1> HIDE DEF n
  <1>3. PICK g \in [0 .. n -> Nat] : IsRecursion(g, 0, step, n)
    <2> HIDE DEF step
    <2> QED
      BY <1>1, <1>2, Recursion
  <1>4. g = [i \in 0 .. n |-> IF i = 0 THEN 0 ELSE g[i - 1] + s[i].size]
    <2>1. ASSUME NEW i \in 0 .. n PROVE g[i] = IF i = 0 THEN 0 ELSE g[i - 1] + s[i].size
      <3>1. CASE i = 0
        BY <1>1, <1>3, <3>1 DEF IsRecursion
      <3>2. CASE i # 0
        <4>1. i \in 1 .. n /\ i - 1 \in 0 .. n
          BY <1>1, <3>2
        <4>2. g[i - 1] \in Nat
          BY <1>3, <4>1, SMTT(30)
        <4>3. g[i] = step[<<i, g[i - 1]>>]
          BY <1>3, <3>2 DEF IsRecursion
        <4> QED
          BY <3>2, <4>1, <4>2, <4>3
      <3> QED
        BY <3>1, <3>2
    <2> QED
      BY <1>3, <2>1
  <1>5. end = [i \in 0 .. n |-> IF i = 0 THEN 0 ELSE end[i - 1] + s[i].size]
    BY <1>4
  <1>6. Ends(s) = end
    BY DEF Ends, n
  <1> HIDE DEF end, step
  <1>7. end[0] = 0 /\ \A i \in 1 .. n : end[i] = end[i - 1] + s[i].size
    <2>1. 0 \in 0 .. n /\ \A i \in 1 .. n : i \in 0 .. n /\ i # 0
      BY <1>1
    <2> QED
      BY <1>5, <2>1
  <1>8. \A i \in 0 .. n : end[i] \in Nat
    <2> DEFINE N == {i \in Nat : i <= n => end[i] \in Nat}
    <2>1. 0 \in N
      BY <1>7
    <2>2. ASSUME NEW i \in Nat, i \in N PROVE i + 1 \in N
      <3> SUFFICES ASSUME i + 1 <= n PROVE end[i + 1] \in Nat
        OBVIOUS
      <3>1. PICK j : j = i + 1
        OBVIOUS
      <3>2. j \in 1 .. n /\ j - 1 = i /\ i <= n
        BY <1>1, <3>1
      <3>3. end[j] = end[i] + s[j].size
        BY <1>7, <3>2
      <3> QED
        BY <1>1, <2>2, <3>1, <3>2, <3>3, SMTT(30)
    <2> HIDE DEF N
    <2>3. Nat \subseteq N
      BY <2>1, <2>2, Induction
    <2> QED
      BY <1>1, <2>3 DEF N
  <1>9. end \in [0 .. n -> Nat]
    BY <1>5, <1>8
  <1> QED
    BY <1>1, <1>6, <1>7, <1>9 DEF n, ByteCount

\* The ends of the fields of s \o t are those of s and, behind them, those of t.
LEMMA EndsConcat ==
  ASSUME NEW s, NEW t, AreBytes(s), AreBytes(t)
  PROVE  /\ \A i \in 0 .. Len(s) : Ends(s \o t)[i] = Ends(s)[i]
         /\ \A i \in 0 .. Len(t) : Ends(s \o t)[Len(s) + i] = ByteCount(s) + Ends(t)[i]
         /\ ByteCount(s \o t) = ByteCount(s) + ByteCount(t)
  <1> DEFINE e == Ends(s \o t)
             n == Len(s)
             m == Len(t)
  <1>1. n \in Nat /\ m \in Nat /\ AreBytes(s \o t) /\ Len(s \o t) = n + m
    BY BytesProperties, BytesConcat
  <1>2. e[0] = 0 /\ \A i \in 1 .. n + m : e[i] = e[i - 1] + (s \o t)[i].size
    BY <1>1, EndsDefined
  <1>3. Ends(s)[0] = 0 /\ \A i \in 1 .. n : Ends(s)[i] = Ends(s)[i - 1] + s[i].size
    BY EndsDefined
  <1>4. Ends(t)[0] = 0 /\ \A i \in 1 .. m : Ends(t)[i] = Ends(t)[i - 1] + t[i].size
    BY EndsDefined
  <1>5. /\ \A i \in 1 .. n : (s \o t)[i] = s[i]
        /\ \A i \in 1 .. m : (s \o t)[n + i] = t[i]
    BY BytesConcat
  <1>6. /\ \A i \in 0 .. m : Ends(t)[i] \in Nat
        /\ \A i \in 1 .. m : t[i].size \in Nat
        /\ ByteCount(s) \in Nat /\ ByteCount(s) = Ends(s)[n]
        /\ ByteCount(t) = Ends(t)[m] /\ ByteCount(s \o t) = e[n + m]
    BY <1>1, EndsDefined, BytesProperties DEF ByteCount
  <1> HIDE DEF e, n, m
  <1>7. \A i \in 0 .. n : e[i] = Ends(s)[i]
    <2> DEFINE N == {i \in Nat : i <= n => e[i] = Ends(s)[i]}
    <2>1. 0 \in N
      BY <1>2, <1>3
    <2>2. ASSUME NEW i \in Nat, i \in N PROVE i + 1 \in N
      <3> SUFFICES ASSUME i + 1 <= n PROVE e[i + 1] = Ends(s)[i + 1]
        OBVIOUS
      <3>1. PICK j : j = i + 1
        OBVIOUS
      <3>2. j \in 1 .. n /\ j \in 1 .. n + m /\ j - 1 = i /\ i <= n
        BY <1>1, <3>1
      <3>3. e[j] = e[i] + s[j].size /\ Ends(s)[j] = Ends(s)[i] + s[j].size
        BY <1>2, <1>3, <1>5, <3>2
      <3> QED
        BY <2>2, <3>1, <3>2, <3>3
    <2> HIDE DEF N
    <2>3. Nat \subseteq N
      BY <2>1, <2>2, Induction
    <2> QED
      BY <1>1, <2>3 DEF N
  <1>8. \A i \in 0 .. m : e[n + i] = ByteCount(s) + Ends(t)[i]
    <2> DEFINE N == {i \in Nat : i <= m => e[n + i] = ByteCount(s) + Ends(t)[i]}
    <2>1. 0 \in N
      BY <1>1, <1>4, <1>6, <1>7
    <2>2. ASSUME NEW i \in Nat, i \in N PROVE i + 1 \in N
      <3> SUFFICES ASSUME i + 1 <= m PROVE e[n + (i + 1)] = ByteCount(s) + Ends(t)[i + 1]
        OBVIOUS
      <3>1. PICK j, k : j = i + 1 /\ k = n + j
        OBVIOUS
      <3>2. /\ j \in 1 .. m /\ k \in 1 .. n + m /\ j - 1 = i /\ k - 1 = n + i
            /\ i <= m /\ i \in 0 .. m
        BY <1>1, <3>1
      <3>3. e[k] = e[n + i] + t[j].size /\ Ends(t)[j] = Ends(t)[i] + t[j].size
        BY <1>2, <1>4, <1>5, <3>1, <3>2
      <3>4. e[n + i] = ByteCount(s) + Ends(t)[i]
        BY <2>2, <3>2
      <3>5. e[k] = ByteCount(s) + Ends(t)[j]
        BY <1>6, <3>2, <3>3, <3>4
      <3> QED
        BY <3>1, <3>5
    <2> HIDE DEF N
    <2>3. Nat \subseteq N
      BY <2>1, <2>2, Induction
    <2> QED
      BY <1>1, <2>3 DEF N
  <1>9. ByteCount(s \o t) = ByteCount(s) + ByteCount(t)
    BY <1>1, <1>6, <1>8
  <1> QED
    BY <1>7, <1>8, <1>9 DEF e, n, m

\* A field ends behind the one before it.
LEMMA EndsIncrease ==
  ASSUME NEW s, AreBytes(s), NEW i \in 0 .. Len(s), NEW j \in 0 .. Len(s), i < j
  PROVE  Ends(s)[i] < Ends(s)[j]
  <1> DEFINE e == Ends(s)
             n == Len(s)
             N == {k \in Nat : i < k /\ k <= n => e[i] < e[k]}
  <1>1. n \in Nat /\ \A k \in 1 .. n : s[k].size \in Nat \ {0}
    BY BytesProperties
  <1>2. e \in [0 .. n -> Nat] /\ \A k \in 1 .. n : e[k] = e[k - 1] + s[k].size
    BY EndsDefined
  <1> HIDE DEF e, n
  <1>3. 0 \in N
    BY <1>1 DEF n
  <1>4. ASSUME NEW k \in Nat, k \in N PROVE k + 1 \in N
    <2> SUFFICES ASSUME i < k + 1, k + 1 <= n PROVE e[i] < e[k + 1]
      OBVIOUS
    <2>1. PICK l : l = k + 1
      OBVIOUS
    <2>2. l \in 1 .. n /\ l - 1 = k /\ k <= n /\ k \in 0 .. n /\ i \in 0 .. n
      BY <1>1, <2>1 DEF n
    <2>3. e[l] = e[k] + s[l].size /\ e[k] \in Nat /\ e[i] \in Nat /\ s[l].size \in Nat \ {0}
      BY <1>1, <1>2, <2>2
    <2>4. e[i] <= e[k]
      <3>1. CASE i = k
        BY <2>3, <3>1
      <3>2. CASE i < k
        BY <1>4, <2>2, <2>3, <3>2
      <3> QED
        BY <2>2, <3>1, <3>2
    <2>5. e[i] < e[l]
      BY <2>3, <2>4
    <2> QED
      BY <2>1, <2>5
  <1> HIDE DEF N
  <1>5. Nat \subseteq N
    BY <1>3, <1>4, Induction
  <1>6. j \in N /\ j <= n
    BY <1>1, <1>5 DEF n
  <1> QED
    BY <1>6 DEF N, e

\* A field or nothing.
LEMMA PutBytes ==
  ASSUME NEW size \in Nat, NEW value
  PROVE  ByteCount(Put(size, value)) = size
  <1> DEFINE p == Put(size, value)
  <1>1. AreBytes(p)
    BY BytesPut
  <1>2. CASE size = 0
    <2>1. Len(p) = 0
      BY <1>2 DEF Put
    <2> QED
      BY <1>1, <1>2, <2>1, EndsDefined DEF ByteCount
  <1>3. CASE size # 0
    <2>1. Len(p) = 1 /\ p[1].size = size
      BY <1>3 DEF Put
    <2>2. Ends(p)[0] = 0 /\ \A i \in 1 .. 1 : Ends(p)[i] = Ends(p)[i - 1] + p[i].size
      BY <1>1, <2>1, EndsDefined
    <2>3. 1 \in 1 .. 1 /\ 1 - 1 = 0
      OBVIOUS
    <2>4. Ends(p)[1] = Ends(p)[1 - 1] + p[1].size
      BY <2>2, <2>3
    <2> QED
      BY <2>1, <2>2, <2>3, <2>4 DEF ByteCount
  <1> QED
    BY <1>2, <1>3

LEMMA BytesAssociative ==
  ASSUME NEW s, NEW t, NEW u, AreBytes(s), AreBytes(t), AreBytes(u)
  PROVE  (s \o t) \o u = s \o (t \o u)
  <1>1. PICK T, U, V : s \in Seq(T) /\ t \in Seq(U) /\ u \in Seq(V)
    BY DEF AreBytes
  <1>2. s \in Seq(T \cup U \cup V) /\ t \in Seq(T \cup U \cup V) /\ u \in Seq(T \cup U \cup V)
    BY <1>1
  <1> QED
    BY <1>2, ConcatAssociative
-----------------------------------------------------------------------------
(* Slices. *)

LEMMA LeastAndLargest ==
  ASSUME NEW a \in Int, NEW b \in Int, a <= b
  PROVE  Min(a .. b) = a /\ Max(a .. b) = b
  <1>1. a \in a .. b /\ b \in a .. b /\ \A x \in a .. b : a <= x /\ x <= b /\ b >= x
    OBVIOUS
  <1>2. \E x \in a .. b : \A y \in a .. b : x <= y
    BY <1>1
  <1>3. \E x \in a .. b : \A y \in a .. b : x >= y
    BY <1>1
  <1>4. Min(a .. b) \in a .. b /\ Min(a .. b) <= a
    BY <1>1, <1>2 DEF Min
  <1>5. Max(a .. b) \in a .. b /\ Max(a .. b) >= b
    BY <1>1, <1>3 DEF Max
  <1> QED
    BY <1>4, <1>5

\* The bytes between those of a and those of c.
LEMMA SliceMiddle ==
  ASSUME NEW a, NEW b, NEW c, AreBytes(a), AreBytes(b), AreBytes(c)
  PROVE  Slice((a \o b) \o c, ByteCount(a), ByteCount(a) + ByteCount(b)) = b
  <1> DEFINE s == (a \o b) \o c
             end == Ends(s)
             from == ByteCount(a)
             to == ByteCount(a) + ByteCount(b)
             k == Len(a)
             l == Len(a) + Len(b)
             n == Len(s)
  <1>1. /\ AreBytes(a \o b) /\ Len(a \o b) = l /\ AreBytes(s) /\ n = l + Len(c)
        /\ Len(a) \in Nat /\ Len(b) \in Nat /\ Len(c) \in Nat
    BY BytesConcat, BytesProperties
  <1>2. k \in Nat /\ l \in Nat /\ n \in Nat /\ k <= l /\ l <= n
    BY <1>1
  <1>3. end[k] = from
    <2>1. Ends(a \o b)[k] = Ends(a)[k]
      <3>1. k \in 0 .. Len(a)
        BY <1>1
      <3> QED
        BY <3>1, EndsConcat
    <2>2. end[k] = Ends(a \o b)[k]
      <3>1. k \in 0 .. Len(a \o b)
        BY <1>1, <1>2
      <3> QED
        BY <1>1, <3>1, EndsConcat
    <2> QED
      BY <2>1, <2>2 DEF ByteCount
  <1>4. end[l] = to
    <2>1. end[l] = Ends(a \o b)[l]
      <3>1. l \in 0 .. Len(a \o b)
        BY <1>1, <1>2
      <3> QED
        BY <1>1, <3>1, EndsConcat
    <2>2. ByteCount(a \o b) = to /\ ByteCount(a \o b) = Ends(a \o b)[l]
      BY <1>1, EndsConcat DEF ByteCount
    <2> QED
      BY <2>1, <2>2
  <1>5. end \in [0 .. n -> Nat]
    BY <1>1, EndsDefined
  <1>6. \A i, j \in 0 .. n : i < j => end[i] < end[j]
    BY <1>1, EndsIncrease
  <1>7. /\ \A i \in 1 .. k : s[i] = a[i]
        /\ \A i \in 1 .. Len(b) : s[k + i] = b[i]
    <2>1. \A i \in 1 .. l : s[i] = (a \o b)[i]
      BY <1>1, BytesConcat
    <2>2. /\ \A i \in 1 .. k : (a \o b)[i] = a[i]
          /\ \A i \in 1 .. Len(b) : (a \o b)[k + i] = b[i]
      BY BytesConcat
    <2>3. \A i \in 1 .. k : i \in 1 .. l
      BY <1>1
    <2>4. \A i \in 1 .. Len(b) : k + i \in 1 .. l
      BY <1>1
    <2> QED
      BY <2>1, <2>2, <2>3, <2>4
  <1>8. Cardinality(DOMAIN end) - 1 = n
    <2>1. DOMAIN end = 0 .. n
      BY <1>5
    <2>2. Cardinality(0 .. n) = n + 1
      <3>1. 0 \in Int /\ n \in Int /\ ~(0 > n) /\ n - 0 + 1 = n + 1
        BY <1>2
      <3> QED
        BY <3>1, FS_Interval
    <2> QED
      BY <1>2, <2>1, <2>2
  <1> HIDE DEF end, from, to, n
  <1>9. Within(end, from, to) = k + 1 .. l
    <2>1. ASSUME NEW i \in 1 .. n PROVE from <= end[i - 1] /\ end[i] <= to <=> i \in k + 1 .. l
      <3>1. i - 1 \in 0 .. n /\ i \in 0 .. n /\ k \in 0 .. n /\ l \in 0 .. n
        BY <1>2
      <3>2. end[i - 1] \in Nat /\ end[i] \in Nat /\ from \in Nat /\ to \in Nat
        BY <1>3, <1>4, <1>5, <3>1
      <3>3. from <= end[i - 1] <=> k <= i - 1
        <4>1. CASE i - 1 < k
          BY <1>2, <1>3, <1>6, <3>1, <3>2, <4>1
        <4>2. CASE k < i - 1
          <5>1. from < end[i - 1]
            BY <1>3, <1>6, <3>1, <4>2
          <5> QED
            BY <1>2, <3>2, <4>2, <5>1
        <4>3. CASE i - 1 = k
          BY <1>2, <1>3, <3>2, <4>3
        <4> QED
          BY <1>2, <4>1, <4>2, <4>3
      <3>4. end[i] <= to <=> i <= l
        <4>1. CASE i < l
          <5>1. end[i] < to
            BY <1>4, <1>6, <3>1, <4>1
          <5> QED
            BY <1>2, <3>2, <4>1, <5>1
        <4>2. CASE l < i
          BY <1>2, <1>4, <1>6, <3>1, <3>2, <4>2
        <4>3. CASE i = l
          BY <1>2, <1>4, <3>2, <4>3
        <4> QED
          BY <1>2, <4>1, <4>2, <4>3
      <3> QED
        BY <1>2, <3>3, <3>4
    <2>2. Within(end, from, to) = {i \in 1 .. n : from <= end[i - 1] /\ end[i] <= to}
      BY <1>8 DEF Within
    <2>3. \A i \in k + 1 .. l : i \in 1 .. n
      BY <1>2
    <2> QED
      BY <2>1, <2>2, <2>3
  <1>10. Fields(s, k + 1 .. l) = b
    <2>1. CASE Len(b) = 0
      <3>1. k + 1 .. l = {}
        BY <1>2, <2>1
      <3>2. b = << >>
        BY <2>1 DEF AreBytes
      <3> QED
        BY <3>1, <3>2 DEF Fields
    <2>2. CASE Len(b) # 0
      <3>1. k + 1 \in Int /\ l \in Int /\ k + 1 <= l /\ k + 1 .. l # {}
        <4>1. k + 1 \in Int /\ l \in Int /\ k + 1 <= l
          BY <1>1, <2>2
        <4>2. l \in k + 1 .. l
          BY <4>1
        <4> QED
          BY <4>1, <4>2
      <3>2. Fields(s, k + 1 .. l) = SubSeq(s, k + 1, l)
        BY <3>1, LeastAndLargest DEF Fields
      <3>3. SubSeq(s, k + 1, l) = b
        <4>1. PICK T : s \in Seq(T)
          BY <1>1 DEF AreBytes
        <4>2. PICK U : b \in Seq(U)
          BY DEF AreBytes
        <4> HIDE DEF s
        <4>3. /\ SubSeq(s, k + 1, l) \in Seq(T) /\ Len(SubSeq(s, k + 1, l)) = Len(b)
              /\ \A i \in 1 .. Len(b) : SubSeq(s, k + 1, l)[i] = s[k + i]
          <5>1. l - (k + 1) + 1 = Len(b) /\ k + 1 >= 1 /\ l <= Len(s)
            BY <1>1, <1>2 DEF n
          <5>2. \A i \in 1 .. Len(b) : k + 1 + i - 1 = k + i
            BY <1>1
          <5> QED
            BY <1>1, <2>2, <4>1, <5>1, <5>2, SubSeqProperties
        <4> QED
          BY <1>7, <4>2, <4>3, SeqEqual
      <3> QED
        BY <3>2, <3>3
    <2> QED
      BY <2>1, <2>2
  <1>11. to - from = ByteCount(b)
    BY EndsDefined DEF to, from
  <1>12. Slice(s, from, to) = OfSize(Fields(s, k + 1 .. l), to - from)
    BY <1>9 DEF Slice, end
  <1> QED
    BY <1>10, <1>11, <1>12 DEF OfSize, from, to, s
-----------------------------------------------------------------------------
(* What is at a place in a sequence of bytes. *)

IsAt(s, o, b) ==
  \E a, c : /\ AreBytes(a) /\ AreBytes(b) /\ AreBytes(c)
            /\ s = (a \o b) \o c /\ o = ByteCount(a)

LEMMA NoBytes ==
  /\ AreBytes(<< >>) /\ ByteCount(<< >>) = 0
  /\ \A s : AreBytes(s) => << >> \o s = s /\ s \o << >> = s
  <1>1. AreBytes(<< >>) /\ ByteCount(<< >>) = 0
    <2>1. << >> = Put(0, 0)
      BY DEF Put
    <2> QED
      BY <2>1, BytesPut, PutBytes
  <1>2. ASSUME NEW s, AreBytes(s) PROVE << >> \o s = s /\ s \o << >> = s
    <2>1. PICK T : s \in Seq(T)
      BY <1>2 DEF AreBytes
    <2> QED
      BY <2>1, ConcatEmptySeq
  <1> QED
    BY <1>1, <1>2

LEMMA AtStart ==
  ASSUME NEW s, AreBytes(s)
  PROVE  IsAt(s, 0, s)
  <1>1. s = (<< >> \o s) \o << >>
    BY NoBytes
  <1> QED
    BY <1>1, NoBytes DEF IsAt

LEMMA AtSplit ==
  ASSUME NEW s, NEW o, NEW a, NEW b, AreBytes(a), AreBytes(b), IsAt(s, o, a \o b)
  PROVE  IsAt(s, o, a) /\ IsAt(s, o + ByteCount(a), b)
  <1>1. PICK x, z : /\ AreBytes(x) /\ AreBytes(z)
                    /\ s = (x \o (a \o b)) \o z /\ o = ByteCount(x)
    BY DEF IsAt
  <1>2. x \o (a \o b) = (x \o a) \o b
    BY <1>1, BytesAssociative, SMTT(30)
  <1>3. AreBytes(x \o a) /\ AreBytes(b \o z) /\ ByteCount(x \o a) = o + ByteCount(a)
    BY <1>1, BytesConcat, EndsConcat
  <1>4. ((x \o a) \o b) \o z = (x \o a) \o (b \o z)
    <2>1. PICK y : y = x \o a
      OBVIOUS
    <2>2. AreBytes(y) /\ AreBytes(b) /\ AreBytes(z)
      BY <1>1, <1>3, <2>1
    <2>3. (y \o b) \o z = y \o (b \o z)
      BY <2>2, BytesAssociative, SMTT(30)
    <2> QED
      BY <2>1, <2>3
  <1>5. s = ((x \o a) \o b) \o z
    BY <1>1, <1>2
  <1>6. s = (x \o a) \o (b \o z)
    BY <1>4, <1>5
  <1> QED
    BY <1>1, <1>3, <1>5, <1>6 DEF IsAt

LEMMA SliceAt ==
  ASSUME NEW s, NEW o, NEW b, IsAt(s, o, b)
  PROVE  /\ Slice(s, o, o + ByteCount(b)) = b
         /\ AreBytes(s) /\ o \in Nat /\ o + ByteCount(b) <= ByteCount(s)
  <1>1. PICK a, c : /\ AreBytes(a) /\ AreBytes(b) /\ AreBytes(c)
                    /\ s = (a \o b) \o c /\ o = ByteCount(a)
    BY DEF IsAt
  <1>2. AreBytes(a \o b) /\ AreBytes(s)
    BY <1>1, BytesConcat
  <1>3. ByteCount(a \o b) = o + ByteCount(b)
    BY <1>1, EndsConcat
  <1>4. ByteCount(s) = ByteCount(a \o b) + ByteCount(c)
    BY <1>1, <1>2, EndsConcat
  <1>5. o \in Nat /\ ByteCount(b) \in Nat /\ ByteCount(c) \in Nat
    BY <1>1, EndsDefined
  <1> QED
    BY <1>1, <1>2, <1>3, <1>4, <1>5, SliceMiddle

LEMMA ReadAt ==
  ASSUME NEW s, NEW o, NEW size \in Nat \ {0}, NEW value, IsAt(s, o, Put(size, value))
  PROVE  Read(s, o, size) = value
  <1>1. Slice(s, o, o + size) = Put(size, value)
    BY SliceAt, PutBytes
  <1>2. Value(Put(size, value)) = value
    BY DEF Value, Put
  <1> QED
    BY <1>1, <1>2 DEF Read
-----------------------------------------------------------------------------
(* Numbers. *)

LEMMA U16RoundTrip ==
  ASSUME NEW i \in Nat, i < 65536
  PROVE  /\ u8_to_u16(u16_to_u8(i)) = i
         /\ u16_to_u8(i)[1] \in 0 .. 255 /\ u16_to_u8(i)[2] \in 0 .. 255
  <1>1. (i \div 256) \in 0 .. 255 /\ (i % 256) \in 0 .. 255
    OBVIOUS
  <1>2. \A q \in 0 .. 255 : (q % 256) = q
    OBVIOUS
  <1>3. ((i \div 256) % 256) = (i \div 256)
    BY <1>1, <1>2
  <1>4. (i \div 256) * 256 + (i % 256) = i
    OBVIOUS
  <1>5. u16_to_u8(i) = <<i \div 256, i % 256>>
    BY <1>3 DEF u16_to_u8
  <1>6. u16_to_u8(i)[1] = i \div 256 /\ u16_to_u8(i)[2] = i % 256
    BY <1>5
  <1> QED
    BY <1>1, <1>4, <1>6 DEF u8_to_u16

\* The function ShiftedRight is defined by.
IsShifted(g, x, n) ==
  /\ g \in [0 .. n -> Nat]
  /\ ShiftedRight(x, n) = g[n]
  /\ g[0] = x
  /\ \A k \in 1 .. n : g[k] = g[k - 1] \div 256

LEMMA ShiftedRightDefined ==
  ASSUME NEW x \in Nat, NEW n \in Nat
  PROVE  \E g : IsShifted(g, x, n)
  <1> DEFINE step == [p \in (1 .. n) \X Nat |-> p[2] \div 256]
             shifted == CHOOSE g : g = [k \in 0 .. n |-> IF k = 0 THEN x ELSE g[k - 1] \div 256]
  <1>1. step \in [(1 .. n) \X Nat -> Nat]
    OBVIOUS
  <1>2. PICK g \in [0 .. n -> Nat] : IsRecursion(g, x, step, n)
    <2> HIDE DEF step
    <2> QED
      BY <1>1, Recursion
  <1>3. ASSUME NEW k \in 0 .. n PROVE g[k] = IF k = 0 THEN x ELSE g[k - 1] \div 256
    <2>1. CASE k = 0
      BY <1>2, <2>1 DEF IsRecursion
    <2>2. CASE k # 0
      <3>1. k \in 1 .. n /\ k - 1 \in 0 .. n
        BY <2>2
      <3>2. g[k - 1] \in Nat
        BY <1>2, <3>1
      <3>3. g[k] = step[<<k, g[k - 1]>>]
        BY <1>2, <2>2 DEF IsRecursion
      <3> QED
        BY <2>2, <3>1, <3>2, <3>3
    <2> QED
      BY <2>1, <2>2
  <1>4. g = [k \in 0 .. n |-> IF k = 0 THEN x ELSE g[k - 1] \div 256]
    BY <1>2, <1>3
  <1>5. shifted = [k \in 0 .. n |-> IF k = 0 THEN x ELSE shifted[k - 1] \div 256]
    BY <1>4, ZenonT(60)
  <1>6. ShiftedRight(x, n) = shifted[n]
    BY DEF ShiftedRight
  <1> HIDE DEF shifted, step
  <1>7. shifted[0] = x /\ \A k \in 1 .. n : shifted[k] = shifted[k - 1] \div 256
    <2>1. 0 \in 0 .. n /\ \A k \in 1 .. n : k \in 0 .. n /\ k # 0
      OBVIOUS
    <2> QED
      BY <1>5, <2>1
  <1>8. \A k \in 0 .. n : shifted[k] \in Nat
    <2> DEFINE N == {k \in Nat : k <= n => shifted[k] \in Nat}
    <2>1. 0 \in N
      BY <1>7
    <2>2. ASSUME NEW k \in Nat, k \in N PROVE k + 1 \in N
      <3> SUFFICES ASSUME k + 1 <= n PROVE shifted[k + 1] \in Nat
        OBVIOUS
      <3>1. PICK j : j = k + 1
        OBVIOUS
      <3>2. j \in 1 .. n /\ j - 1 = k /\ k <= n
        BY <3>1
      <3>3. shifted[j] = shifted[k] \div 256 /\ shifted[k] \in Nat
        BY <1>7, <2>2, <3>2
      <3>4. shifted[j] \in Nat
        BY <3>3
      <3> QED
        BY <3>1, <3>4
    <2> HIDE DEF N
    <2>3. Nat \subseteq N
      BY <2>1, <2>2, Induction
    <2> QED
      BY <2>3 DEF N
  <1>9. shifted \in [0 .. n -> Nat]
    BY <1>5, <1>8
  <1>10. IsShifted(shifted, x, n)
    BY <1>6, <1>7, <1>9 DEF IsShifted
  <1> QED
    BY <1>10

LEMMA ShiftedRightStep ==
  ASSUME NEW x \in Nat, NEW n \in Nat
  PROVE  /\ ShiftedRight(x, n) \in Nat
         /\ ShiftedRight(x, 0) = x
         /\ ShiftedRight(x, n + 1) = ShiftedRight(x, n) \div 256
  <1>0. PICK g : IsShifted(g, x, n)
    BY ShiftedRightDefined
  <1>1. /\ g \in [0 .. n -> Nat]
        /\ ShiftedRight(x, n) = g[n]
        /\ g[0] = x
        /\ \A k \in 1 .. n : g[k] = g[k - 1] \div 256
    BY <1>0 DEF IsShifted
  <1>2. PICK m \in Nat : m = n + 1
    OBVIOUS
  <1>a. PICK h : IsShifted(h, x, m)
    BY ShiftedRightDefined
  <1>3. /\ h \in [0 .. m -> Nat]
        /\ ShiftedRight(x, m) = h[m]
        /\ h[0] = x
        /\ \A k \in 1 .. m : h[k] = h[k - 1] \div 256
    BY <1>a DEF IsShifted
  <1>4. \A k \in 0 .. n : g[k] = h[k]
    <2> DEFINE N == {k \in Nat : k <= n => g[k] = h[k]}
    <2>1. 0 \in N
      BY <1>1, <1>3
    <2>2. ASSUME NEW k \in Nat, k \in N PROVE k + 1 \in N
      <3> SUFFICES ASSUME k + 1 <= n PROVE g[k + 1] = h[k + 1]
        OBVIOUS
      <3>1. PICK j : j = k + 1
        OBVIOUS
      <3>2. j \in 1 .. n /\ j \in 1 .. m /\ j - 1 = k /\ k <= n
        BY <1>2, <3>1
      <3>3. g[j] = g[k] \div 256 /\ h[j] = h[k] \div 256 /\ g[k] = h[k]
        BY <1>1, <1>3, <2>2, <3>2
      <3> QED
        BY <3>1, <3>3
    <2> HIDE DEF N
    <2>3. Nat \subseteq N
      BY <2>1, <2>2, Induction
    <2> QED
      BY <2>3 DEF N
  <1>5. h[m] = h[n] \div 256 /\ g[n] = h[n]
    <2>1. m \in 1 .. m /\ m - 1 = n /\ n \in 0 .. n
      BY <1>2
    <2> QED
      BY <1>3, <1>4, <2>1
  <1>6. ShiftedRight(x, 0) = x
    <2>1. 0 \in Nat
      OBVIOUS
    <2>2. PICK f : IsShifted(f, x, 0)
      BY <2>1, ShiftedRightDefined
    <2> QED
      BY <2>2 DEF IsShifted
  <1> QED
    BY <1>1, <1>2, <1>3, <1>5, <1>6

\* The numbers read from the first bytes of v.
LEMMA NumberRead ==
  ASSUME NEW v \in [1 .. U64_SIZE -> 0 .. 255]
  PROVE  \E g \in [0 .. U64_SIZE -> Nat] :
            /\ u8_to_u64(v) = g[U64_SIZE]
            /\ g[0] = 0
            /\ \A k \in 1 .. U64_SIZE : g[k] = g[k - 1] * 256 + v[k]
  <1> DEFINE n == U64_SIZE
             step == [p \in (1 .. n) \X Nat |-> p[2] * 256 + v[p[1]]]
             number == CHOOSE g : g = [k \in 0 .. n |-> IF k = 0 THEN 0 ELSE g[k - 1] * 256 + v[k]]
  <1>0. n \in Nat /\ v \in [1 .. n -> Nat]
    <2>1. n \in Nat
      BY DEF U64_SIZE
    <2>2. 0 .. 255 \subseteq Nat
      OBVIOUS
    <2> QED
      BY <2>1, <2>2, Zenon
  <1>1. step \in [(1 .. n) \X Nat -> Nat]
    BY <1>0
  <1>2. PICK g \in [0 .. n -> Nat] : IsRecursion(g, 0, step, n)
    <2> HIDE DEF step, n
    <2> QED
      BY <1>0, <1>1, Recursion
  <1>3. ASSUME NEW k \in 0 .. n PROVE g[k] = IF k = 0 THEN 0 ELSE g[k - 1] * 256 + v[k]
    <2>1. CASE k = 0
      BY <1>2, <2>1 DEF IsRecursion
    <2>2. CASE k # 0
      <3>1. k \in 1 .. n /\ k - 1 \in 0 .. n
        BY <1>0, <2>2
      <3>2. g[k - 1] \in Nat
        BY <1>2, <3>1
      <3>3. g[k] = step[<<k, g[k - 1]>>]
        BY <1>2, <2>2 DEF IsRecursion
      <3> QED
        BY <2>2, <3>1, <3>2, <3>3
    <2> QED
      BY <2>1, <2>2
  <1>4. g = [k \in 0 .. n |-> IF k = 0 THEN 0 ELSE g[k - 1] * 256 + v[k]]
    BY <1>2, <1>3
  <1>5. number = [k \in 0 .. n |-> IF k = 0 THEN 0 ELSE number[k - 1] * 256 + v[k]]
    BY <1>4, ZenonT(60)
  <1>6. u8_to_u64(v) = number[n]
    BY DEF u8_to_u64
  <1> HIDE DEF number, step
  <1>7. number[0] = 0 /\ \A k \in 1 .. n : number[k] = number[k - 1] * 256 + v[k]
    <2>1. 0 \in 0 .. n /\ \A k \in 1 .. n : k \in 0 .. n /\ k # 0
      BY <1>0
    <2> QED
      BY <1>5, <2>1
  <1>8. \A k \in 0 .. n : number[k] \in Nat
    <2> DEFINE N == {k \in Nat : k <= n => number[k] \in Nat}
    <2>1. 0 \in N
      BY <1>7
    <2>2. ASSUME NEW k \in Nat, k \in N PROVE k + 1 \in N
      <3> SUFFICES ASSUME k + 1 <= n PROVE number[k + 1] \in Nat
        OBVIOUS
      <3>1. PICK j : j = k + 1
        OBVIOUS
      <3>2. j \in 1 .. n /\ j - 1 = k /\ k <= n
        BY <1>0, <3>1
      <3>3. number[j] = number[k] * 256 + v[j] /\ number[k] \in Nat /\ v[j] \in Nat
        BY <1>0, <1>7, <2>2, <3>2
      <3>4. number[j] \in Nat
        BY <3>3
      <3> QED
        BY <3>1, <3>4
    <2> HIDE DEF N, n
    <2>3. Nat \subseteq N
      BY <2>1, <2>2, Induction
    <2> QED
      BY <1>0, <2>3 DEF N
  <1>9. number \in [0 .. n -> Nat]
    BY <1>5, <1>8
  <1> QED
    BY <1>6, <1>7, <1>9

LEMMA U64RoundTrip ==
  ASSUME NEW x \in Nat, ShiftedRight(x, U64_SIZE) = 0
  PROVE  /\ u64_to_u8(x) \in [1 .. U64_SIZE -> 0 .. 255]
         /\ u8_to_u64(u64_to_u8(x)) = x
  <1> DEFINE v == u64_to_u8(x)
             rest(k) == ShiftedRight(x, U64_SIZE - k)
  <1>1. ASSUME NEW k \in 0 .. 8 PROVE rest(k) \in Nat
    <2>1. 8 - k \in Nat
      OBVIOUS
    <2> QED
      BY <2>1, ShiftedRightStep, ZenonT(60) DEF U64_SIZE
  <1>2. \A k \in 1 .. 8 : rest(k - 1) = rest(k) \div 256
    <2> SUFFICES ASSUME NEW k \in 1 .. 8 PROVE rest(k - 1) = rest(k) \div 256
      OBVIOUS
    <2>1. PICK m \in Nat : m = 8 - k
      OBVIOUS
    <2>2. 8 - (k - 1) = m + 1
      BY <2>1
    <2> QED
      BY <2>1, <2>2, ShiftedRightStep DEF U64_SIZE
  <1>3. rest(0) = 0 /\ rest(8) = x
    BY ShiftedRightStep DEF U64_SIZE
  <1> HIDE DEF rest
  <1>4. v = [k \in 1 .. 8 |-> rest(k) % 256]
    BY DEF u64_to_u8, rest, U64_SIZE
  <1>5. v \in [1 .. 8 -> 0 .. 255]
    <2>1. ASSUME NEW k \in 1 .. 8 PROVE (rest(k) % 256) \in 0 .. 255
      <3>1. rest(k) \in Nat
        BY <1>1
      <3> HIDE DEF rest
      <3> QED
        BY <3>1
    <2> QED
      BY <1>4, <2>1
  <1> HIDE DEF v
  <1>6. PICK g \in [0 .. 8 -> Nat] :
          u8_to_u64(v) = g[8] /\ g[0] = 0 /\ \A k \in 1 .. 8 : g[k] = g[k - 1] * 256 + v[k]
    BY <1>5, NumberRead DEF U64_SIZE
  <1>7. ASSUME NEW k \in 1 .. 8, g[k - 1] = rest(k - 1) PROVE g[k] = rest(k)
    <2>1. \A y \in Nat : (y \div 256) * 256 + (y % 256) = y
      OBVIOUS
    <2>2. g[k] = (rest(k) \div 256) * 256 + (rest(k) % 256)
      BY <1>2, <1>4, <1>6, <1>7
    <2> QED
      BY <1>1, <2>1, <2>2
  <1>8. g[0] = rest(0)
    BY <1>3, <1>6
  <1>9. g[1] = rest(1)
    BY <1>7, <1>8
  <1>10. g[2] = rest(2)
    BY <1>7, <1>9
  <1>11. g[3] = rest(3)
    BY <1>7, <1>10
  <1>12. g[4] = rest(4)
    BY <1>7, <1>11
  <1>13. g[5] = rest(5)
    BY <1>7, <1>12
  <1>14. g[6] = rest(6)
    BY <1>7, <1>13
  <1>15. g[7] = rest(7)
    BY <1>7, <1>14
  <1>16. g[8] = rest(8)
    BY <1>7, <1>15, SMTT(30)
  <1> QED
    BY <1>3, <1>5, <1>6, <1>16 DEF v, U64_SIZE

LEMMA BfiRoundTrip ==
  ASSUME NEW bfi \in Bfi
  PROVE  /\ bfi_to_u8(bfi) \in [1 .. BFI_BYTE_SIZE -> 0 .. 255]
         /\ u8_to_bfi(bfi_to_u8(bfi)) = bfi
  <1> DEFINE b == bfi_to_u8(bfi)
             half(k) == u16_to_u8(bfi[(k + 1) \div 2])[2 - (k % 2)]
  <1>0. bfi = [k \in 1 .. 4 |-> bfi[k]] /\ \A k \in 1 .. 4 : bfi[k] \in Nat /\ bfi[k] < 65536
    BY DEF Bfi
  <1>1. b = [k \in 1 .. 8 |-> half(k)]
    BY DEF bfi_to_u8, BFI_BYTE_SIZE
  <1>2. ASSUME NEW k \in 1 .. 4
        PROVE  half(2 * k - 1) = u16_to_u8(bfi[k])[1] /\ half(2 * k) = u16_to_u8(bfi[k])[2]
    <2>1. (2 * k - 1 + 1) \div 2 = k /\ (2 * k - 1) % 2 = 1 /\ (2 * k + 1) \div 2 = k /\ (2 * k) % 2 = 0
      OBVIOUS
    <2> QED
      BY <2>1
  <1>3. ASSUME NEW k \in 1 .. 8 PROVE half(k) \in 0 .. 255
    <2>1. (k + 1) \div 2 \in 1 .. 4 /\ 2 - (k % 2) \in {1, 2}
      OBVIOUS
    <2>2. PICK i : i = bfi[(k + 1) \div 2]
      OBVIOUS
    <2>3. i \in Nat /\ i < 65536
      BY <1>0, <2>1, <2>2
    <2>4. u16_to_u8(i)[1] \in 0 .. 255 /\ u16_to_u8(i)[2] \in 0 .. 255
      BY <2>3, U16RoundTrip
    <2> QED
      BY <2>1, <2>2, <2>4
  <1> HIDE DEF half, b
  <1>4. b \in [1 .. 8 -> 0 .. 255]
    BY <1>1, <1>3
  <1>5. ASSUME NEW k \in 1 .. 4 PROVE u8_to_u16(<<b[2 * k - 1], b[2 * k]>>) = bfi[k]
    <2>1. bfi[k] \in Nat /\ bfi[k] < 65536
      BY <1>0
    <2>2. 2 * k - 1 \in 1 .. 8 /\ 2 * k \in 1 .. 8
      OBVIOUS
    <2>3. b[2 * k - 1] = u16_to_u8(bfi[k])[1] /\ b[2 * k] = u16_to_u8(bfi[k])[2]
      BY <1>1, <1>2, <2>2
    <2>4. u8_to_u16(<<u16_to_u8(bfi[k])[1], u16_to_u8(bfi[k])[2]>>) = u8_to_u16(u16_to_u8(bfi[k]))
      BY DEF u8_to_u16
    <2> QED
      BY <2>1, <2>3, <2>4, U16RoundTrip
  <1>6. u8_to_bfi(b) = [k \in 1 .. 4 |-> bfi[k]]
    BY <1>5 DEF u8_to_bfi
  <1>7. bfi = [k \in 1 .. 4 |-> bfi[k]]
    BY <1>0
  <1> QED
    BY <1>4, <1>6, <1>7 DEF b, BFI_BYTE_SIZE
-----------------------------------------------------------------------------
(* Names. *)

LEMMA PutAfter ==
  ASSUME NEW a, AreBytes(a), NEW size \in Nat, NEW value
  PROVE  AreBytes(a \o Put(size, value)) /\ ByteCount(a \o Put(size, value)) = ByteCount(a) + size
  BY BytesConcat, EndsConcat, BytesPut, PutBytes

LEMMA AtSplitPut ==
  ASSUME NEW s, NEW o, NEW a, AreBytes(a), NEW size \in Nat, NEW value,
         IsAt(s, o, a \o Put(size, value))
  PROVE  IsAt(s, o, a) /\ IsAt(s, o + ByteCount(a), Put(size, value))
  BY AtSplit, BytesPut

LEMMA NameLayout ==
  ASSUME NEW h, IsHbfi(h)
  PROVE  LET d == serialize_hbfi(h)
         IN  /\ AreBytes(d)
             /\ ByteCount(d) = IF h.request_pid = Absent THEN 120 ELSE 184
             /\ IsAt(d, 0, Put(8, bfi_to_u8(h.res))) /\ IsAt(d, 8, Put(8, bfi_to_u8(h.req)))
             /\ IsAt(d, 16, Put(8, bfi_to_u8(h.app))) /\ IsAt(d, 24, Put(8, bfi_to_u8(h.m0d)))
             /\ IsAt(d, 32, Put(8, bfi_to_u8(h.fun))) /\ IsAt(d, 40, Put(8, bfi_to_u8(h.arg)))
             /\ IsAt(d, 48, Put(8, u64_to_u8(h.frm))) /\ IsAt(d, 56, Put(64, h.response_pid))
             /\ h.request_pid # Absent => IsAt(d, 120, Put(64, h.request_pid))
  <1> DEFINE d == serialize_hbfi(h)
             a1 == Put(8, bfi_to_u8(h.res))
             a2 == a1 \o Put(8, bfi_to_u8(h.req))
             a3 == a2 \o Put(8, bfi_to_u8(h.app))
             a4 == a3 \o Put(8, bfi_to_u8(h.m0d))
             a5 == a4 \o Put(8, bfi_to_u8(h.fun))
             a6 == a5 \o Put(8, bfi_to_u8(h.arg))
             a7 == a6 \o Put(8, u64_to_u8(h.frm))
             a8 == a7 \o Put(64, h.response_pid)
             last == IF h.request_pid = Absent THEN << >> ELSE Put(64, h.request_pid)
  <1>1. d = a8 \o last
    BY DEF serialize_hbfi, BFI_BYTE_SIZE, U64_SIZE, PID_SIZE
  <1>2. AreBytes(a1) /\ ByteCount(a1) = 8
    BY BytesPut, PutBytes
  <1>3. AreBytes(a2) /\ ByteCount(a2) = 16
    <2> HIDE DEF a1
    <2> QED
      BY <1>2, PutAfter
  <1>4. AreBytes(a3) /\ ByteCount(a3) = 24
    <2> HIDE DEF a2
    <2> QED
      BY <1>3, PutAfter
  <1>5. AreBytes(a4) /\ ByteCount(a4) = 32
    <2> HIDE DEF a3
    <2> QED
      BY <1>4, PutAfter
  <1>6. AreBytes(a5) /\ ByteCount(a5) = 40
    <2> HIDE DEF a4
    <2> QED
      BY <1>5, PutAfter
  <1>7. AreBytes(a6) /\ ByteCount(a6) = 48
    <2> HIDE DEF a5
    <2> QED
      BY <1>6, PutAfter
  <1>8. AreBytes(a7) /\ ByteCount(a7) = 56
    <2> HIDE DEF a6
    <2> QED
      BY <1>7, PutAfter
  <1>9. AreBytes(a8) /\ ByteCount(a8) = 120
    <2> HIDE DEF a7
    <2> QED
      BY <1>8, PutAfter
  <1>10. AreBytes(last) /\ ByteCount(last) = IF h.request_pid = Absent THEN 0 ELSE 64
    BY BytesPut, PutBytes, NoBytes
  <1>11. AreBytes(d) /\ ByteCount(d) = IF h.request_pid = Absent THEN 120 ELSE 184
    <2> HIDE DEF a8, last, d
    <2>1. AreBytes(d) /\ ByteCount(d) = 120 + ByteCount(last)
      BY <1>1, <1>9, <1>10, BytesConcat, EndsConcat
    <2> QED
      BY <1>10, <2>1
  <1>12. IsAt(d, 0, a8) /\ IsAt(d, 0 + 120, last)
    <2> HIDE DEF a8, last, d
    <2>1. IsAt(d, 0, a8 \o last)
      BY <1>1, <1>11, AtStart
    <2> QED
      BY <1>9, <1>10, <2>1, AtSplit
  <1> HIDE DEF d
  <1>13. IsAt(d, 0, a7) /\ IsAt(d, 0 + 56, Put(64, h.response_pid))
    <2> HIDE DEF a7
    <2> QED
      BY <1>8, <1>12, AtSplitPut
  <1>14. IsAt(d, 0, a6) /\ IsAt(d, 0 + 48, Put(8, u64_to_u8(h.frm)))
    <2> HIDE DEF a6
    <2> QED
      BY <1>7, <1>13, AtSplitPut
  <1>15. IsAt(d, 0, a5) /\ IsAt(d, 0 + 40, Put(8, bfi_to_u8(h.arg)))
    <2> HIDE DEF a5
    <2> QED
      BY <1>6, <1>14, AtSplitPut
  <1>16. IsAt(d, 0, a4) /\ IsAt(d, 0 + 32, Put(8, bfi_to_u8(h.fun)))
    <2> HIDE DEF a4
    <2> QED
      BY <1>5, <1>15, AtSplitPut
  <1>17. IsAt(d, 0, a3) /\ IsAt(d, 0 + 24, Put(8, bfi_to_u8(h.m0d)))
    <2> HIDE DEF a3
    <2> QED
      BY <1>4, <1>16, AtSplitPut
  <1>18. IsAt(d, 0, a2) /\ IsAt(d, 0 + 16, Put(8, bfi_to_u8(h.app)))
    <2> HIDE DEF a2
    <2> QED
      BY <1>3, <1>17, AtSplitPut
  <1>19. IsAt(d, 0, a1) /\ IsAt(d, 0 + 8, Put(8, bfi_to_u8(h.req)))
    <2> HIDE DEF a1
    <2> QED
      BY <1>2, <1>18, AtSplitPut
  <1> HIDE DEF a2, a3, a4, a5, a6, a7, a8
  <1> QED
    BY <1>11, <1>12, <1>13, <1>14, <1>15, <1>16, <1>17, <1>18, <1>19 DEF d

LEMMA BfiRead ==
  ASSUME NEW d, NEW o, NEW bfi \in Bfi, IsAt(d, o, Put(8, bfi_to_u8(bfi)))
  PROVE  ReadAs(u8_to_bfi, Read(d, o, 8)) = bfi
  <1>1. Read(d, o, 8) = bfi_to_u8(bfi)
    BY ReadAt
  <1>2. bfi_to_u8(bfi) \in [1 .. 8 -> Nat] /\ u8_to_bfi(bfi_to_u8(bfi)) = bfi
    BY BfiRoundTrip, SMTT(30) DEF BFI_BYTE_SIZE
  <1>3. bfi_to_u8(bfi) # Torn
    BY <1>2, TornAssumption
  <1> QED
    BY <1>1, <1>2, <1>3 DEF ReadAs

\* A name that is written is read again.
THEOREM HbfiRoundTrip ==
  ASSUME NEW h, IsHbfi(h)
  PROVE  deserialize_hbfi(serialize_hbfi(h), h.request_pid # Absent) = h
  <1> DEFINE d == serialize_hbfi(h)
             bfis == <<h.res, h.req, h.app, h.m0d, h.fun, h.arg>>
             read == [i \in 1 .. BFI_COUNT |->
                        ReadAs(u8_to_bfi, Read(d, (i - 1) * BFI_BYTE_SIZE, BFI_BYTE_SIZE))]
  <1>1. /\ IsAt(d, 0, Put(8, bfi_to_u8(h.res))) /\ IsAt(d, 8, Put(8, bfi_to_u8(h.req)))
        /\ IsAt(d, 16, Put(8, bfi_to_u8(h.app))) /\ IsAt(d, 24, Put(8, bfi_to_u8(h.m0d)))
        /\ IsAt(d, 32, Put(8, bfi_to_u8(h.fun))) /\ IsAt(d, 40, Put(8, bfi_to_u8(h.arg)))
        /\ IsAt(d, 48, Put(8, u64_to_u8(h.frm))) /\ IsAt(d, 56, Put(64, h.response_pid))
        /\ h.request_pid # Absent => IsAt(d, 120, Put(64, h.request_pid))
    BY NameLayout
  <1>2. /\ h.res \in Bfi /\ h.req \in Bfi /\ h.app \in Bfi
        /\ h.m0d \in Bfi /\ h.fun \in Bfi /\ h.arg \in Bfi
    <2>1. \A i \in 1 .. 6 : bfis[i] \in Bfi
      BY DEF IsHbfi, BFI_COUNT
    <2>2. /\ bfis[1] = h.res /\ bfis[2] = h.req /\ bfis[3] = h.app
          /\ bfis[4] = h.m0d /\ bfis[5] = h.fun /\ bfis[6] = h.arg
      OBVIOUS
    <2> HIDE DEF bfis
    <2> QED
      BY <2>1, <2>2
  <1>3. h.frm \in Nat /\ ShiftedRight(h.frm, U64_SIZE) = 0
    BY DEF IsHbfi
  <1>4. h = HbfiOf(bfis, h.frm, h.response_pid, h.request_pid)
    BY DEF IsHbfi
  <1> HIDE DEF d
  <1>5. /\ ReadAs(u8_to_bfi, Read(d, 0, 8)) = h.res /\ ReadAs(u8_to_bfi, Read(d, 8, 8)) = h.req
        /\ ReadAs(u8_to_bfi, Read(d, 16, 8)) = h.app /\ ReadAs(u8_to_bfi, Read(d, 24, 8)) = h.m0d
        /\ ReadAs(u8_to_bfi, Read(d, 32, 8)) = h.fun /\ ReadAs(u8_to_bfi, Read(d, 40, 8)) = h.arg
    BY <1>1, <1>2, BfiRead
  <1>6. /\ read[1] = h.res /\ read[2] = h.req /\ read[3] = h.app
        /\ read[4] = h.m0d /\ read[5] = h.fun /\ read[6] = h.arg
    BY <1>5 DEF BFI_COUNT, BFI_BYTE_SIZE
  <1>7. ReadAs(u8_to_u64, Read(d, 48, 8)) = h.frm
    <2>1. Read(d, 48, 8) = u64_to_u8(h.frm)
      BY <1>1, ReadAt
    <2>2. /\ u64_to_u8(h.frm) \in [1 .. U64_SIZE -> 0 .. 255]
          /\ u8_to_u64(u64_to_u8(h.frm)) = h.frm
      BY <1>3, U64RoundTrip
    <2>3. u64_to_u8(h.frm) # Torn
      <3>1. u64_to_u8(h.frm) \in [1 .. 8 -> Nat]
        <4>1. 0 .. 255 \subseteq Nat
          OBVIOUS
        <4> QED
          BY <2>2, <4>1, ZenonT(60) DEF U64_SIZE
      <3> QED
        BY <3>1, TornAssumption
    <2> QED
      BY <2>1, <2>2, <2>3 DEF ReadAs
  <1>8. Read(d, 56, 64) = h.response_pid
    BY <1>1, ReadAt
  <1>9. (IF h.request_pid # Absent THEN Read(d, 120, 64) ELSE Absent) = h.request_pid
    BY <1>1, ReadAt
  <1>10. /\ HBFI_OFFSET_START = 48 /\ HBFI_RESPONSE_KEY_START = 56
         /\ HBFI_REQUEST_KEY_START = 120 /\ U64_SIZE = 8 /\ PID_SIZE = 64
    BY DEF HBFI_OFFSET_START, HBFI_RESPONSE_KEY_START, HBFI_REQUEST_KEY_START, U64_SIZE, PID_SIZE,
       BFI_BYTE_SIZE, BFI_COUNT
  <1> HIDE DEF read
  <1>11. deserialize_hbfi(d, h.request_pid # Absent) =
           HbfiOf(read, h.frm, h.response_pid, h.request_pid)
    BY <1>7, <1>8, <1>9, <1>10 DEF deserialize_hbfi, read
  <1>12. HbfiOf(read, h.frm, h.response_pid, h.request_pid) =
           HbfiOf(bfis, h.frm, h.response_pid, h.request_pid)
    BY <1>6 DEF HbfiOf
  <1> QED
    BY <1>4, <1>11, <1>12 DEF d
-----------------------------------------------------------------------------
(* The data of a response. *)

LEMMA U16Read ==
  ASSUME NEW d, NEW o, NEW i \in Nat, i < 65536, IsAt(d, o, PutU16(i))
  PROVE  ReadU16(d, o) = i
  <1> DEFINE high == u16_to_u8(i)[1]
             low == u16_to_u8(i)[2]
  <1>1. high \in Nat /\ low \in Nat /\ u8_to_u16(u16_to_u8(i)) = i
    <2>1. high \in 0 .. 255 /\ low \in 0 .. 255 /\ u8_to_u16(u16_to_u8(i)) = i
      BY U16RoundTrip
    <2> QED
      BY <2>1
  <1>2. u8_to_u16(<<high, low>>) = u8_to_u16(u16_to_u8(i))
    BY DEF u8_to_u16
  <1> HIDE DEF high, low
  <1>3. IsAt(d, o, Put(1, high) \o Put(1, low))
    BY DEF PutU16, high, low
  <1>4. AreBytes(Put(1, high)) /\ ByteCount(Put(1, high)) = 1
    BY BytesPut, PutBytes
  <1>5. IsAt(d, o, Put(1, high)) /\ IsAt(d, o + 1, Put(1, low))
    BY <1>3, <1>4, AtSplitPut
  <1>6. Read(d, o, 1) = high /\ Read(d, o + 1, 1) = low
    BY <1>5, ReadAt
  <1>7. Torn \notin {high, low}
    BY <1>1, TornAssumption
  <1> QED
    BY <1>1, <1>2, <1>6, <1>7 DEF ReadU16, U16

LEMMA PutU16Bytes ==
  ASSUME NEW i
  PROVE  AreBytes(PutU16(i)) /\ ByteCount(PutU16(i)) = 2
  <1>1. AreBytes(Put(1, u16_to_u8(i)[1])) /\ ByteCount(Put(1, u16_to_u8(i)[1])) = 1
    BY BytesPut, PutBytes
  <1> QED
    BY <1>1, PutAfter DEF PutU16

\* A payload of any length that fits is read again.
THEOREM DataRoundTrip ==
  ASSUME NEW payload, payload.size \in Nat, payload.size <= DATA_SIZE
  PROVE  /\ AreBytes(Padded(payload)) /\ ByteCount(Padded(payload)) = FRAGMENT_SIZE
         /\ DataOf(Padded(payload)) = Put(payload.size, payload.value)
  <1> DEFINE n == payload.size
             d == Padded(payload)
             a1 == Put(n, payload.value)
             a2 == a1 \o Put(1021 - n, "padding")
             a3 == a2 \o Put(1, "nonce")
  <1>0. n \in Nat /\ 1021 - n \in Nat /\ n < 65536 /\ n <= 1024
    BY DEF DATA_SIZE, FRAGMENT_SIZE
  <1>1. d = a3 \o PutU16(n)
    BY DEF Padded, DATA_SIZE, FRAGMENT_SIZE
  <1>2. AreBytes(a1) /\ ByteCount(a1) = n
    BY <1>0, BytesPut, PutBytes
  <1>3. AreBytes(a2) /\ ByteCount(a2) = 1021
    <2> HIDE DEF a1
    <2>1. AreBytes(a2) /\ ByteCount(a2) = n + (1021 - n)
      BY <1>0, <1>2, PutAfter
    <2> QED
      BY <1>0, <2>1
  <1>4. AreBytes(a3) /\ ByteCount(a3) = 1022
    <2> HIDE DEF a2
    <2> QED
      BY <1>3, PutAfter
  <1>5. AreBytes(d) /\ ByteCount(d) = 1024
    <2> HIDE DEF a3, d
    <2> QED
      BY <1>1, <1>4, PutU16Bytes, BytesConcat, EndsConcat
  <1> HIDE DEF d
  <1>6. IsAt(d, 0, a3) /\ IsAt(d, 0 + 1022, PutU16(n))
    <2> HIDE DEF a3
    <2>1. IsAt(d, 0, a3 \o PutU16(n))
      BY <1>1, <1>5, AtStart
    <2> QED
      BY <1>4, <2>1, AtSplit, PutU16Bytes
  <1>7. IsAt(d, 0, a2)
    <2> HIDE DEF a2
    <2> QED
      BY <1>3, <1>6, AtSplitPut
  <1>8. IsAt(d, 0, a1)
    <2> HIDE DEF a1
    <2> QED
      BY <1>0, <1>2, <1>7, AtSplitPut
  <1> HIDE DEF a1, a2, a3
  <1>9. ReadU16(d, 1022) = n
    BY <1>0, <1>6, U16Read
  <1>10. Slice(d, 0, n) = a1
    <2>1. Slice(d, 0, 0 + n) = a1
      BY <1>2, <1>8, SliceAt
    <2> QED
      BY <1>0, <2>1
  <1>11. n # Torn /\ ~(n > 1024)
    BY <1>0, TornAssumption
  <1> HIDE DEF n
  <1>12. DataOf(d) = a1
    BY <1>9, <1>10, <1>11 DEF DataOf, FirstBytes, LENGTH_OF_DATA_STARTING_POSITION, FRAGMENT_SIZE
  <1> QED
    BY <1>5, <1>12 DEF d, a1, n, FRAGMENT_SIZE

\* What a response of the code carries: in clear text for a request that was.
IsResponseData(rd, cyphertext) ==
  /\ rd = ResponseData(rd.tag, rd.data)
  /\ AreBytes(rd.data) /\ ByteCount(rd.data) = FRAGMENT_SIZE
  /\ rd.tag = Absent <=> ~cyphertext

LEMMA Inserted ==
  ASSUME NEW sid, NEW pid, NEW payload, NEW nonce, payload.size \in Nat,
         payload.size <= DATA_SIZE, Ordinary(Cypher(sid, pid, payload, nonce))
  PROVE  IsResponseData(insert(sid, pid, payload, nonce), pid # Absent)
  <1> DEFINE cypher == Cypher(sid, pid, payload, nonce)
  <1>0. ~(payload.size > DATA_SIZE)
    BY DEF DATA_SIZE, FRAGMENT_SIZE
  <1>1. CASE pid = Absent
    <2>1. insert(sid, pid, payload, nonce) = ResponseData(Absent, Padded(payload))
      BY <1>0, <1>1 DEF insert
    <2> QED
      BY <1>1, <2>1, DataRoundTrip DEF IsResponseData, ResponseData
  <1>2. CASE pid # Absent
    <2>1. insert(sid, pid, payload, nonce) = ResponseData(cypher, Put(FRAGMENT_SIZE, cypher))
      BY <1>0, <1>2 DEF insert
    <2>2. cypher # Absent
      BY DEF Ordinary
    <2>3. AreBytes(Put(FRAGMENT_SIZE, cypher)) /\ ByteCount(Put(FRAGMENT_SIZE, cypher)) = FRAGMENT_SIZE
      BY BytesPut, PutBytes DEF FRAGMENT_SIZE
    <2> HIDE DEF cypher
    <2> QED
      BY <1>2, <2>1, <2>2, <2>3 DEF IsResponseData, ResponseData
  <1> QED
    BY <1>1, <1>2

\* The one who asked gets out of a response what the responder put into it.
THEOREM ExtractInserted ==
  ASSUME NEW responder, NEW requester, NEW pid \in {Absent, requester}, NEW payload, NEW nonce,
         payload.size \in Nat, payload.size <= DATA_SIZE,
         Ordinary(Cypher(responder, pid, payload, nonce)), Ordinary(Padded(payload))
  PROVE  extract(insert(responder, pid, payload, nonce), requester, pid, responder, nonce)
           = Put(payload.size, payload.value)
  <1> DEFINE rd == insert(responder, pid, payload, nonce)
             cypher == Cypher(responder, pid, payload, nonce)
             secret == SharedSecret(requester, responder, Reversed(nonce))
  <1>0. ~(payload.size > DATA_SIZE)
    BY DEF DATA_SIZE, FRAGMENT_SIZE
  <1>1. CASE pid = Absent
    <2>1. rd = ResponseData(Absent, Padded(payload))
      BY <1>0, <1>1 DEF insert
    <2>2. rd.tag = Absent /\ rd.data = Padded(payload)
      BY <2>1 DEF ResponseData
    <2> HIDE DEF rd
    <2> QED
      BY <2>2, DataRoundTrip DEF extract, rd
  <1>2. CASE pid # Absent
    <2>1. rd = ResponseData(cypher, Put(FRAGMENT_SIZE, cypher))
      BY <1>0, <1>2 DEF insert
    <2>2. rd.tag = cypher /\ rd.data = Put(FRAGMENT_SIZE, cypher)
      BY <2>1 DEF ResponseData
    <2>3. cypher # Absent /\ cypher # Torn /\ Padded(payload) # Failed
      BY DEF Ordinary
    <2>4. cypher.secret = secret /\ cypher.plain = Padded(payload)
      <3>1. {responder, pid} = {requester, responder}
        BY <1>2
      <3> QED
        BY <3>1 DEF Cypher, Encrypted, SharedSecret
    <2> HIDE DEF cypher, rd, secret
    <2>5. Read(rd.data, 0, FRAGMENT_SIZE) = cypher
      <3>1. IsAt(Put(FRAGMENT_SIZE, cypher), 0, Put(FRAGMENT_SIZE, cypher))
        BY BytesPut, AtStart DEF FRAGMENT_SIZE
      <3> QED
        BY <2>2, <3>1, ReadAt DEF FRAGMENT_SIZE
    <2>6. Decrypted(cypher, rd.tag, secret) = Padded(payload)
      BY <2>2, <2>3, <2>4 DEF Decrypted
    <2>7. extract(rd, requester, pid, responder, nonce) = DataOf(Padded(payload))
      BY <1>2, <2>2, <2>3, <2>5, <2>6 DEF extract, secret
    <2> QED
      BY <2>7, DataRoundTrip DEF rd
  <1> QED
    BY <1>1, <1>2

LEMMA ResponseDataRoundTrip ==
  ASSUME NEW rd, NEW pid, IsResponseData(rd, pid # Absent)
  PROVE  LET d == serialize_response_data(rd)
         IN  /\ AreBytes(d) /\ ByteCount(d) = IF pid # Absent THEN 1040 ELSE 1024
             /\ deserialize_response_data(d, pid # Absent) = rd
  <1> DEFINE d == serialize_response_data(rd)
  <1>0. AreBytes(rd.data) /\ ByteCount(rd.data) = 1024 /\ rd = ResponseData(rd.tag, rd.data)
    BY DEF IsResponseData, FRAGMENT_SIZE
  <1>1. CASE pid = Absent
    <2>1. d = << >> \o rd.data /\ rd.tag = Absent
      BY <1>1 DEF serialize_response_data, IsResponseData
    <2>2. d = rd.data
      BY <1>0, <2>1, NoBytes
    <2> HIDE DEF d
    <2> QED
      BY <1>0, <1>1, <2>1, <2>2 DEF deserialize_response_data, d
  <1>2. CASE pid # Absent
    <2>1. d = Put(16, rd.tag) \o rd.data
      BY <1>2 DEF serialize_response_data, IsResponseData, TAG_SIZE
    <2>2. AreBytes(Put(16, rd.tag)) /\ ByteCount(Put(16, rd.tag)) = 16
      BY BytesPut, PutBytes
    <2> HIDE DEF d
    <2>3. AreBytes(d) /\ ByteCount(d) = 1040
      BY <1>0, <2>1, <2>2, BytesConcat, EndsConcat
    <2>4. IsAt(d, 0, Put(16, rd.tag)) /\ IsAt(d, 0 + 16, rd.data)
      BY <1>0, <2>1, <2>2, <2>3, AtStart, AtSplit
    <2>5. Read(d, 0, 16) = rd.tag
      BY <2>4, ReadAt
    <2>6. Slice(d, 16, 1040) = rd.data
      <3>1. Slice(d, 0 + 16, 0 + 16 + ByteCount(rd.data)) = rd.data
        BY <2>4, SliceAt
      <3> QED
        BY <1>0, <3>1
    <2> QED
      BY <1>0, <1>2, <2>3, <2>5, <2>6
         DEF deserialize_response_data, TAG_SIZE, CYPHERTEXT_RESPONSE_DATA_SIZE, FRAGMENT_SIZE, d
  <1> QED
    BY <1>1, <1>2
-----------------------------------------------------------------------------
(* Narrow waist packets. *)

\* The packets of the code: requests, and responses their responders have signed.
IsPacket(nw) ==
  /\ IsHbfi(nw.hbfi)
  /\ \/ nw = Request(nw.hbfi, nw.nonce)
     \/ /\ nw = Response(nw.hbfi, nw.nonce, nw.signature, nw.data)
        /\ IsResponseData(nw.data, nw.hbfi.request_pid # Absent)
        /\ verify(nw)

\* What is written of a packet, its size, and that it is read again.
ReadsBack(nw) ==
  LET s == serialize_narrow_waist_packet(nw)
  IN  /\ AreBytes(s.bytes) /\ s.size = ByteCount(s.bytes)
      /\ ByteCount(s.bytes) \in {128, 192, 1216, 1296}
      /\ deserialize_narrow_waist_packet(s.bytes) = nw

LEMMA PacketSizes ==
  /\ CLEARTEXT_REQUEST_SIZE = 128 /\ CYPHERTEXT_REQUEST_SIZE = 192
  /\ CLEARTEXT_RESPONSE_SIZE = 1216 /\ CYPHERTEXT_RESPONSE_SIZE = 1296
  /\ CLEARTEXT_HBFI_SIZE = 120 /\ CYPHERTEXT_HBFI_SIZE = 184
  /\ NONCE_SIZE = 8 /\ SIG_SIZE = 64
  BY DEF CLEARTEXT_REQUEST_SIZE, CYPHERTEXT_REQUEST_SIZE, CLEARTEXT_RESPONSE_SIZE,
     CYPHERTEXT_RESPONSE_SIZE, CLEARTEXT_HBFI_SIZE, CYPHERTEXT_HBFI_SIZE, NONCE_SIZE, SIG_SIZE,
     CLEARTEXT_RESPONSE_DATA_SIZE, CYPHERTEXT_RESPONSE_DATA_SIZE, FRAGMENT_SIZE, TAG_SIZE,
     BFI_BYTE_SIZE, BFI_COUNT, U64_SIZE, PID_SIZE

LEMMA RequestReadsBack ==
  ASSUME NEW nw, IsHbfi(nw.hbfi), nw = Request(nw.hbfi, nw.nonce)
  PROVE  ReadsBack(nw)
  <1> DEFINE s == serialize_narrow_waist_packet(nw)
             n == Put(8, nw.nonce)
             h == serialize_hbfi(nw.hbfi)
             c == nw.hbfi.request_pid # Absent
  <1>1. nw.kind = "Request"
    BY DEF Request
  <1>2. /\ AreBytes(n) /\ ByteCount(n) = 8 /\ AreBytes(h)
        /\ ByteCount(h) = IF c THEN 184 ELSE 120
    BY BytesPut, PutBytes, NameLayout
  <1>3. deserialize_hbfi(h, c) = nw.hbfi
    BY HbfiRoundTrip
  <1>4. s = Sized(<< >>, n, h, << >>)
    BY <1>1 DEF serialize_narrow_waist_packet, NONCE_SIZE
  <1> HIDE DEF s, n, h
  <1>5. s.size = (HbfiSize(h) + ByteCount(<< >>) + 8 + ByteCount(<< >>)) % 65536
        /\ s.bytes = << >> \o n \o h \o << >>
    BY <1>4 DEF Sized, NONCE_SIZE
  <1>6. AreBytes(n \o h) /\ ByteCount(n \o h) = IF c THEN 192 ELSE 128
    BY <1>2, BytesConcat, EndsConcat
  <1>7. s.bytes = n \o h
    BY <1>2, <1>5, <1>6, NoBytes
  <1>8. s.size = ByteCount(n \o h)
    <2>1. ByteCount(<< >>) = 0
      BY NoBytes
    <2>2. HbfiSize(h) = ByteCount(h)
      BY <1>2 DEF HbfiSize
    <2> QED
      BY <1>2, <1>5, <1>6, <2>1, <2>2
  <1>9. IsAt(s.bytes, 0, n) /\ IsAt(s.bytes, 0 + 8, h)
    BY <1>2, <1>6, <1>7, AtStart, AtSplit
  <1>10. Read(s.bytes, 0, 8) = nw.nonce
    BY <1>9, ReadAt DEF n
  <1>11. Slice(s.bytes, 8, ByteCount(s.bytes)) = h
    <2>1. Slice(s.bytes, 0 + 8, 0 + 8 + ByteCount(h)) = h
      BY <1>9, SliceAt
    <2> QED
      BY <1>2, <1>6, <1>7, <2>1
  <1>12. deserialize_request(s.bytes, c) = nw
    BY <1>3, <1>10, <1>11 DEF deserialize_request, NONCE_SIZE
  <1>13. deserialize_narrow_waist_packet(s.bytes) = nw
    <2>1. deserialize_narrow_waist_packet(s.bytes) = OfKnownSize(s.bytes, IF c THEN 192 ELSE 128)
      BY <1>6, <1>7 DEF deserialize_narrow_waist_packet
    <2>2. CASE c
      <3>1. OfKnownSize(s.bytes, 192) = deserialize_request(s.bytes, c)
        BY <2>2, PacketSizes DEF OfKnownSize, deserialize_request, deserialize_hbfi
      <3> QED
        BY <1>12, <2>1, <2>2, <3>1
    <2>3. CASE ~c
      <3>1. OfKnownSize(s.bytes, 128) = deserialize_request(s.bytes, c)
        BY <2>3, PacketSizes DEF OfKnownSize, deserialize_request, deserialize_hbfi
      <3> QED
        BY <1>12, <2>1, <2>3, <3>1
    <2> QED
      BY <2>2, <2>3
  <1> QED
    BY <1>6, <1>7, <1>8, <1>13 DEF ReadsBack, s

LEMMA ResponseReadsBack ==
  ASSUME NEW nw, IsHbfi(nw.hbfi), nw = Response(nw.hbfi, nw.nonce, nw.signature, nw.data),
         IsResponseData(nw.data, nw.hbfi.request_pid # Absent)
  PROVE  ReadsBack(nw)
  <1> DEFINE s == serialize_narrow_waist_packet(nw)
             g == Put(64, nw.signature)
             n == Put(8, nw.nonce)
             h == serialize_hbfi(nw.hbfi)
             d == serialize_response_data(nw.data)
             c == nw.hbfi.request_pid # Absent
             h_end == IF c THEN 256 ELSE 192
             end == IF c THEN 1296 ELSE 1216
  <1>1. nw.kind # "Request"
    BY DEF Response
  <1>2. /\ AreBytes(g) /\ ByteCount(g) = 64 /\ AreBytes(n) /\ ByteCount(n) = 8
        /\ AreBytes(h) /\ ByteCount(h) = IF c THEN 184 ELSE 120
    <2>1. AreBytes(g) /\ ByteCount(g) = 64 /\ AreBytes(n) /\ ByteCount(n) = 8
      BY BytesPut, PutBytes
    <2>2. AreBytes(h) /\ ByteCount(h) = IF c THEN 184 ELSE 120
      BY NameLayout
    <2> QED
      BY <2>1, <2>2
  <1>3. /\ AreBytes(d) /\ ByteCount(d) = IF c THEN 1040 ELSE 1024
        /\ deserialize_response_data(d, c) = nw.data
    BY ResponseDataRoundTrip
  <1>4. deserialize_hbfi(h, c) = nw.hbfi
    BY HbfiRoundTrip
  <1>5. s = Sized(g, n, h, d)
    BY <1>1 DEF serialize_narrow_waist_packet, NONCE_SIZE, SIG_SIZE
  <1> HIDE DEF s, n, h, d, g
  <1>6. s.size = (HbfiSize(h) + ByteCount(g) + 8 + ByteCount(d)) % 65536
        /\ s.bytes = ((g \o n) \o h) \o d
    BY <1>5 DEF Sized, NONCE_SIZE
  <1>7. AreBytes(g \o n) /\ ByteCount(g \o n) = 72
    BY <1>2, BytesConcat, EndsConcat
  <1>8. AreBytes((g \o n) \o h) /\ ByteCount((g \o n) \o h) = h_end
    <2>1. PICK x : x = g \o n
      OBVIOUS
    <2> QED
      BY <1>2, <1>7, <2>1, BytesConcat, EndsConcat
  <1>9. AreBytes(s.bytes) /\ ByteCount(s.bytes) = end
    <2>1. PICK x : x = (g \o n) \o h
      OBVIOUS
    <2>2. s.bytes = x \o d /\ ByteCount(x \o d) = ByteCount(x) + ByteCount(d) /\ AreBytes(x \o d)
      BY <1>3, <1>6, <1>8, <2>1, BytesConcat, EndsConcat
    <2> QED
      BY <1>3, <1>8, <2>1, <2>2
  <1>10. s.size = ByteCount(s.bytes)
    <2>1. HbfiSize(h) = ByteCount(h)
      BY <1>2 DEF HbfiSize
    <2>2. s.size = (ByteCount(h) + 64 + 8 + ByteCount(d)) % 65536
      BY <1>2, <1>6, <2>1
    <2>3. CASE c
      BY <1>2, <1>3, <1>9, <2>2, <2>3
    <2>4. CASE ~c
      BY <1>2, <1>3, <1>9, <2>2, <2>4
    <2> QED
      BY <2>3, <2>4
  <1>11. IsAt(s.bytes, 0, (g \o n) \o h) /\ IsAt(s.bytes, 0 + h_end, d)
    <2>1. PICK x : x = (g \o n) \o h
      OBVIOUS
    <2>2. AreBytes(x) /\ ByteCount(x) = h_end /\ IsAt(s.bytes, 0, x \o d)
      BY <1>6, <1>8, <1>9, <2>1, AtStart
    <2>3. IsAt(s.bytes, 0, x) /\ IsAt(s.bytes, 0 + ByteCount(x), d)
      BY <1>3, <2>2, AtSplit
    <2> QED
      BY <2>1, <2>2, <2>3
  <1>12. IsAt(s.bytes, 0, g \o n) /\ IsAt(s.bytes, 0 + 72, h)
    <2>1. PICK x : x = g \o n
      OBVIOUS
    <2>2. AreBytes(x) /\ ByteCount(x) = 72 /\ IsAt(s.bytes, 0, x \o h)
      BY <1>7, <1>11, <2>1
    <2>3. IsAt(s.bytes, 0, x) /\ IsAt(s.bytes, 0 + ByteCount(x), h)
      BY <1>2, <2>2, AtSplit
    <2> QED
      BY <2>1, <2>2, <2>3
  <1>13. IsAt(s.bytes, 0, g) /\ IsAt(s.bytes, 0 + 64, n)
    BY <1>2, <1>12, AtSplit
  <1>14. Read(s.bytes, 0, 64) = nw.signature /\ Read(s.bytes, 64, 8) = nw.nonce
    BY <1>13, ReadAt DEF g, n
  <1>15. Slice(s.bytes, 72, h_end) = h
    <2>1. Slice(s.bytes, 0 + 72, 0 + 72 + ByteCount(h)) = h
      BY <1>12, SliceAt
    <2>2. 0 + 72 + ByteCount(h) = h_end
      BY <1>2
    <2> QED
      BY <2>1, <2>2
  <1>16. Slice(s.bytes, h_end, end) = d
    <2>1. Slice(s.bytes, 0 + h_end, 0 + h_end + ByteCount(d)) = d
      BY <1>11, SliceAt
    <2>2. 0 + h_end = h_end /\ 0 + h_end + ByteCount(d) = end
      BY <1>3
    <2> QED
      BY <2>1, <2>2
  <1>17. deserialize_response(s.bytes, h_end, end, c) = nw
    <2>1. deserialize_response(s.bytes, h_end, end, c) =
            Response(nw.hbfi, nw.nonce, nw.signature, nw.data)
      BY <1>3, <1>4, <1>14, <1>15, <1>16 DEF deserialize_response, SIG_SIZE, NONCE_SIZE
    <2> QED
      BY <2>1
  <1>18. deserialize_narrow_waist_packet(s.bytes) = nw
    <2>1. deserialize_narrow_waist_packet(s.bytes) = OfKnownSize(s.bytes, end)
      BY <1>9 DEF deserialize_narrow_waist_packet
    <2>2. CASE c
      <3>1. OfKnownSize(s.bytes, 1296) = deserialize_response(s.bytes, 256, 1296, c)
        BY <2>2, PacketSizes DEF OfKnownSize, deserialize_response, deserialize_hbfi,
           deserialize_response_data
      <3> QED
        BY <1>17, <2>1, <2>2, <3>1
    <2>3. CASE ~c
      <3>1. OfKnownSize(s.bytes, 1216) = deserialize_response(s.bytes, 192, 1216, c)
        BY <2>3, PacketSizes DEF OfKnownSize, deserialize_response, deserialize_hbfi,
           deserialize_response_data
      <3> QED
        BY <1>17, <2>1, <2>3, <3>1
    <2> QED
      BY <2>2, <2>3
  <1> QED
    BY <1>9, <1>10, <1>18 DEF ReadsBack, s

\* A packet that is written is read again: the four kinds differ in size, and
\* each field is read from where it was written.
THEOREM NarrowWaistRoundTrip ==
  ASSUME NEW nw, IsPacket(nw)
  PROVE  ReadsBack(nw)
  BY RequestReadsBack, ResponseReadsBack DEF IsPacket

\* A response the code makes is such a packet.
LEMMA RespondedIsPacket ==
  ASSUME NEW sid, NEW h, IsHbfi(h), NEW payload, payload.size \in Nat, NEW nonce,
         Ordinary(Cypher(sid, h.request_pid, payload, nonce)),
         respond(sid, h, payload, nonce) # Failed
  PROVE  /\ IsPacket(respond(sid, h, payload, nonce))
         /\ payload.size <= DATA_SIZE /\ h.response_pid = sid
         /\ respond(sid, h, payload, nonce).hbfi = h
         /\ respond(sid, h, payload, nonce).nonce = nonce
         /\ respond(sid, h, payload, nonce).data = insert(sid, h.request_pid, payload, nonce)
  <1> DEFINE rd == insert(sid, h.request_pid, payload, nonce)
             nw == respond(sid, h, payload, nonce)
  <1>1. /\ h.response_pid = sid /\ rd # Failed
        /\ nw = Response(h, nonce, [signer |-> sid, of |-> manifest(rd, h, nonce)], rd)
    BY DEF respond
  <1>2. payload.size <= DATA_SIZE
    <2>1. DATA_SIZE \in Nat
      BY DEF DATA_SIZE, FRAGMENT_SIZE
    <2>2. payload.size > DATA_SIZE => rd = Failed
      BY <2>1 DEF insert
    <2> QED
      BY <1>1, <2>1, <2>2
  <1>3. IsResponseData(rd, h.request_pid # Absent)
    BY <1>2, Inserted
  <1> HIDE DEF rd, nw
  <1>4. /\ nw.hbfi = h /\ nw.nonce = nonce /\ nw.data = rd
        /\ nw.signature = [signer |-> sid, of |-> manifest(rd, h, nonce)]
    BY <1>1 DEF Response
  <1>5. verify(nw)
    BY <1>1, <1>4 DEF verify
  <1>6. IsPacket(nw)
    BY <1>1, <1>3, <1>4, <1>5 DEF IsPacket
  <1> QED
    BY <1>1, <1>2, <1>4, <1>6 DEF nw, rd
-----------------------------------------------------------------------------
(* Bytes of which some may have been changed. *)

Like(b, s) ==
  /\ AreBytes(b) /\ AreBytes(s) /\ Len(b) = Len(s)
  /\ \A i \in 1 .. Len(s) : b[i].size = s[i].size /\ b[i].value \in {s[i].value, Torn}

LEMMA LikeEnds ==
  ASSUME NEW b, NEW s, Like(b, s)
  PROVE  /\ \A i \in 0 .. Len(s) : Ends(b)[i] = Ends(s)[i]
         /\ ByteCount(b) = ByteCount(s)
  <1> DEFINE e == Ends(b)
             f == Ends(s)
             n == Len(s)
             N == {i \in Nat : i <= n => e[i] = f[i]}
  <1>1. n \in Nat /\ \A i \in 1 .. n : s[i].size \in Nat
    BY BytesProperties DEF Like
  <1>2. e[0] = 0 /\ \A i \in 1 .. n : e[i] = e[i - 1] + b[i].size
    BY EndsDefined DEF Like
  <1>3. f[0] = 0 /\ \A i \in 1 .. n : f[i] = f[i - 1] + s[i].size
    BY EndsDefined DEF Like
  <1>4. \A i \in 1 .. n : b[i].size = s[i].size
    BY DEF Like
  <1> HIDE DEF e, f, n
  <1>5. 0 \in N
    BY <1>2, <1>3
  <1>6. ASSUME NEW i \in Nat, i \in N PROVE i + 1 \in N
    <2> SUFFICES ASSUME i + 1 <= n PROVE e[i + 1] = f[i + 1]
      OBVIOUS
    <2>1. PICK j : j = i + 1
      OBVIOUS
    <2>2. j \in 1 .. n /\ j - 1 = i /\ i <= n
      BY <1>1, <2>1
    <2>3. e[j] = e[i] + b[j].size /\ f[j] = f[i] + s[j].size /\ e[i] = f[i] /\ b[j].size = s[j].size
      BY <1>2, <1>3, <1>4, <1>6, <2>2
    <2> QED
      BY <2>1, <2>3
  <1> HIDE DEF N
  <1>7. Nat \subseteq N
    BY <1>5, <1>6, Induction
  <1>8. \A i \in 0 .. n : e[i] = f[i]
    BY <1>7 DEF N
  <1>9. e[n] = f[n]
    BY <1>1, <1>8
  <1>10. Len(b) = n
    BY DEF Like, n
  <1> QED
    BY <1>8, <1>9, <1>10 DEF e, f, n, ByteCount

\* The n fields of b after the first k.
IsPartOf(t, b, k, n) == AreBytes(t) /\ Len(t) = n /\ \A i \in 1 .. n : t[i] = b[k + i]

LEMMA HasPart ==
  ASSUME NEW b, AreBytes(b), NEW k \in Nat, NEW n \in Nat, k + n <= Len(b)
  PROVE  \E t : IsPartOf(t, b, k, n)
  <1>0. PICK t : t = SubSeq(b, k + 1, k + n)
    OBVIOUS
  <1>1. PICK T : b \in Seq(T) /\ \A f \in T : IsField(f)
    BY DEF AreBytes
  <1>2. Len(b) \in Nat
    BY <1>1, LenProperties
  <1>3. CASE n = 0
    <2>1. t = << >>
      BY <1>0, <1>1, <1>2, <1>3
    <2>2. AreBytes(t) /\ Len(t) = 0
      BY <2>1, NoBytes
    <2> QED
      BY <1>3, <2>2 DEF IsPartOf
  <1>4. CASE n # 0
    <2>1. k + 1 >= 1 /\ k + n <= Len(b) /\ (k + n) - (k + 1) + 1 = n
      BY <1>2
    <2>2. t \in Seq(T) /\ Len(t) = n /\ \A i \in 1 .. n : t[i] = b[(k + 1) + i - 1]
      BY <1>0, <1>1, <1>2, <1>4, <2>1, SubSeqProperties
    <2>3. \A i \in 1 .. n : (k + 1) + i - 1 = k + i
      OBVIOUS
    <2> QED
      BY <1>1, <2>2, <2>3 DEF AreBytes, IsPartOf
  <1> QED
    BY <1>3, <1>4

\* What was at a place still is there, or something like it.
LEMMA LikeAt ==
  ASSUME NEW d, NEW s, Like(d, s), NEW o, NEW b, IsAt(s, o, b)
  PROVE  \E t : Like(t, b) /\ IsAt(d, o, t)
  <1>1. PICK a, c : /\ AreBytes(a) /\ AreBytes(b) /\ AreBytes(c)
                    /\ s = (a \o b) \o c /\ o = ByteCount(a)
    BY DEF IsAt
  <1> DEFINE j == Len(a)
             k == Len(a) + Len(b)
             n == Len(s)
  <1>2. AreBytes(a \o b) /\ Len(a \o b) = k /\ n = k + Len(c)
    BY <1>1, BytesConcat
  <1>3. Len(a) \in Nat /\ Len(b) \in Nat /\ Len(c) \in Nat
    BY <1>1, BytesProperties
  <1>4. /\ \A i \in 1 .. j : s[i] = a[i]
        /\ \A i \in 1 .. Len(b) : s[j + i] = b[i]
        /\ \A i \in 1 .. Len(c) : s[k + i] = c[i]
    <2>1. \A i \in 1 .. k : s[i] = (a \o b)[i]
      BY <1>1, <1>2, BytesConcat
    <2>2. \A i \in 1 .. Len(c) : s[k + i] = c[i]
      BY <1>1, <1>2, BytesConcat
    <2>3. /\ \A i \in 1 .. j : (a \o b)[i] = a[i]
          /\ \A i \in 1 .. Len(b) : (a \o b)[j + i] = b[i]
      BY <1>1, BytesConcat
    <2>4. /\ \A i \in 1 .. j : i \in 1 .. k
          /\ \A i \in 1 .. Len(b) : j + i \in 1 .. k
      BY <1>3
    <2> QED
      BY <2>1, <2>2, <2>3, <2>4
  <1>5. /\ AreBytes(d) /\ Len(d) = n
        /\ \A i \in 1 .. n : d[i].size = s[i].size /\ d[i].value \in {s[i].value, Torn}
    BY DEF Like
  <1>b. /\ 0 \in Nat /\ j \in Nat /\ k \in Nat /\ n \in Nat
        /\ 0 + j <= Len(d) /\ j + Len(b) <= Len(d) /\ k + Len(c) <= Len(d)
    BY <1>2, <1>3, <1>5
  <1> HIDE DEF j, k, n
  <1>c. PICK u : IsPartOf(u, d, 0, j)
    BY <1>5, <1>b, HasPart
  <1>d. PICK t : IsPartOf(t, d, j, Len(b))
    BY <1>3, <1>5, <1>b, HasPart
  <1>e. PICK v : IsPartOf(v, d, k, Len(c))
    BY <1>3, <1>5, <1>b, HasPart
  <1>6. AreBytes(u) /\ Len(u) = j /\ \A i \in 1 .. j : u[i] = d[0 + i]
    BY <1>c DEF IsPartOf
  <1>7. AreBytes(t) /\ Len(t) = Len(b) /\ \A i \in 1 .. Len(b) : t[i] = d[j + i]
    BY <1>d DEF IsPartOf
  <1>8. AreBytes(v) /\ Len(v) = Len(c) /\ \A i \in 1 .. Len(c) : v[i] = d[k + i]
    BY <1>e DEF IsPartOf
  <1> USE DEF j, k, n
  <1>9. Like(u, a) /\ Like(t, b)
    <2>1. /\ \A i \in 1 .. j : 0 + i = i /\ i \in 1 .. n
          /\ \A i \in 1 .. Len(b) : j + i \in 1 .. n
      BY <1>2, <1>3
    <2>2. Like(u, a)
      BY <1>1, <1>4, <1>5, <1>6, <2>1 DEF Like
    <2>3. Like(t, b)
      BY <1>1, <1>4, <1>5, <1>7, <2>1 DEF Like
    <2> QED
      BY <2>2, <2>3
  <1>10. d = (u \o t) \o v
    <2> DEFINE w == (u \o t) \o v
    <2>1. AreBytes(u \o t) /\ Len(u \o t) = k
      BY <1>6, <1>7, BytesConcat
    <2>2. AreBytes(w) /\ Len(w) = n
      BY <1>2, <1>8, <2>1, BytesConcat
    <2>3. /\ \A i \in 1 .. k : w[i] = (u \o t)[i]
          /\ \A i \in 1 .. Len(c) : w[k + i] = v[i]
      BY <1>8, <2>1, BytesConcat, SMTT(30)
    <2>4. /\ \A i \in 1 .. j : (u \o t)[i] = u[i]
          /\ \A i \in 1 .. Len(b) : (u \o t)[j + i] = t[i]
      BY <1>6, <1>7, BytesConcat
    <2> HIDE DEF w
    <2>5. ASSUME NEW i \in 1 .. n PROVE w[i] = d[i]
      <3>1. CASE i <= j
        <4>1. i \in 1 .. j /\ i \in 1 .. k /\ 0 + i = i
          BY <1>3, <3>1
        <4> QED
          BY <1>6, <2>3, <2>4, <4>1
      <3>2. CASE i > j /\ i <= k
        <4>1. PICK m : m = i - j
          OBVIOUS
        <4>2. m \in 1 .. Len(b) /\ i = j + m /\ i \in 1 .. k
          BY <1>3, <3>2, <4>1
        <4> QED
          BY <1>7, <2>3, <2>4, <4>2
      <3>3. CASE i > k
        <4>1. PICK m : m = i - k
          OBVIOUS
        <4>2. m \in 1 .. Len(c) /\ i = k + m
          BY <1>2, <1>3, <3>3, <4>1
        <4> QED
          BY <1>8, <2>3, <4>2
      <3> QED
        BY <1>3, <3>1, <3>2, <3>3
    <2>6. PICK T, U : w \in Seq(T) /\ d \in Seq(U)
      BY <1>5, <2>2 DEF AreBytes
    <2>7. w \in Seq(T \cup U) /\ d \in Seq(T \cup U)
      BY <2>6
    <2>8. w = d
      BY <1>5, <2>2, <2>5, <2>7, SeqEqual
    <2> QED
      BY <2>8 DEF w
  <1>11. ByteCount(u) = o
    BY <1>1, <1>9, LikeEnds
  <1> QED
    BY <1>6, <1>7, <1>8, <1>9, <1>10, <1>11 DEF IsAt

LEMMA LikePut ==
  ASSUME NEW t, NEW size \in Nat \ {0}, NEW value, Like(t, Put(size, value))
  PROVE  \E v \in {value, Torn} : t = Put(size, v)
  <1> DEFINE p == Put(size, value)
  <1>1. Len(p) = 1 /\ p[1].size = size /\ p[1].value = value
    BY DEF Put
  <1> HIDE DEF p
  <1>2. AreBytes(t) /\ Len(t) = 1 /\ t[1].size = size /\ t[1].value \in {value, Torn}
    BY <1>1 DEF Like, p
  <1>3. t[1] = [size |-> t[1].size, value |-> t[1].value]
    <2>1. IsField(t[1])
      BY <1>2, BytesProperties
    <2> QED
      BY <2>1, Zenon DEF IsField
  <1>4. t = <<t[1]>>
    <2>1. PICK T : t \in Seq(T)
      BY <1>2 DEF AreBytes
    <2> QED
      BY <1>2, <2>1
  <1>5. PICK v \in {value, Torn} : t[1].value = v
    BY <1>2
  <1>6. t = <<[size |-> size, value |-> v]>>
    BY <1>2, <1>3, <1>4, <1>5
  <1> QED
    BY <1>6 DEF Put

LEMMA LikeRead ==
  ASSUME NEW d, NEW s, Like(d, s), NEW o, NEW size \in Nat \ {0}, NEW value,
         IsAt(s, o, Put(size, value))
  PROVE  Read(d, o, size) \in {value, Torn}
  <1>1. PICK t : Like(t, Put(size, value)) /\ IsAt(d, o, t)
    BY LikeAt
  <1>2. PICK v \in {value, Torn} : t = Put(size, v)
    BY <1>1, LikePut
  <1> QED
    BY <1>1, <1>2, ReadAt
-----------------------------------------------------------------------------
(* The parts of link packets. *)

LEMMA ReplyToRoundTrip ==
  ASSUME NEW rt, IsReplyTo(rt)
  PROVE  LET d == serialize_reply_to(rt)
         IN  /\ AreBytes(d) /\ ByteCount(d) \in 0 .. 22
             /\ deserialize_reply_to(d) = rt
  <1> DEFINE d == serialize_reply_to(rt)
             size == ReplyToSize[rt.type]
             types == {t \in DOMAIN ReplyToSize : ReplyToSize[t] = ByteCount(d)}
  <1>1. /\ rt.type \in {"Mpsc", "Rf", "MacAddr6", "MacAddr8", "UdpIp4", "UdpIp6"}
        /\ DOMAIN ReplyToSize = {"Mpsc", "Rf", "MacAddr6", "MacAddr8", "UdpIp4", "UdpIp6"}
    BY DEF IsReplyTo, ReplyToSize
  <1>2. /\ ReplyToSize["Mpsc"] = 0 /\ ReplyToSize["Rf"] = 4 /\ ReplyToSize["MacAddr6"] = 6
        /\ ReplyToSize["MacAddr8"] = 8 /\ ReplyToSize["UdpIp4"] = 10 /\ ReplyToSize["UdpIp6"] = 22
    BY DEF ReplyToSize
  <1>3. size \in 0 .. 22 /\ (size = 0 => rt.type = "Mpsc") /\ (rt.type = "Mpsc" => size = 0)
    BY <1>1, <1>2
  <1>4. d = Put(size, rt.address)
    BY DEF serialize_reply_to
  <1> HIDE DEF d, size
  <1>5. AreBytes(d) /\ ByteCount(d) = size
    BY <1>3, <1>4, BytesPut, PutBytes
  <1>6. types = {rt.type}
    BY <1>1, <1>2, <1>5 DEF size
  <1>7. (CHOOSE t \in types : TRUE) = rt.type
    BY <1>6
  <1>8. CASE size = 0
    <2>1. d = << >> /\ rt.type = "Mpsc" /\ rt.address = Absent
      BY <1>3, <1>4, <1>8 DEF Put, IsReplyTo
    <2>2. deserialize_reply_to(d) = ReplyTo("Mpsc", Absent)
      BY <1>6, <2>1 DEF deserialize_reply_to
    <2>3. rt = ReplyTo("Mpsc", Absent)
      BY <2>1 DEF IsReplyTo
    <2> QED
      BY <1>3, <1>5, <2>2, <2>3 DEF d
  <1>9. CASE size # 0
    <2>1. d # << >>
      BY <1>4, <1>9 DEF Put
    <2>2. Read(d, 0, size) = rt.address
      BY <1>3, <1>4, <1>5, <1>9, AtStart, ReadAt
    <2>3. deserialize_reply_to(d) = ReplyTo(rt.type, rt.address)
      BY <1>5, <1>6, <1>7, <2>1, <2>2 DEF deserialize_reply_to
    <2>4. rt = ReplyTo(rt.type, rt.address)
      BY DEF IsReplyTo
    <2> QED
      BY <1>3, <1>5, <2>3, <2>4 DEF d
  <1> QED
    BY <1>8, <1>9

\* A header at place o of s, with parts rt and x after it.
Framed(s, o, rt, x) ==
  LET n == u16_to_u8(ByteCount(x))
  IN  /\ IsAt(s, o, Put(1, ByteCount(rt)))
      /\ IsAt(s, o + 1, Put(1, n[1])) /\ IsAt(s, o + 2, Put(1, n[2]))
      /\ IsAt(s, o + 3, rt)
      /\ IsAt(s, o + 3 + ByteCount(rt), x)

LEMMA SmallNumbers == \A m \in Nat : m < 256 => (m % 256) = m
  OBVIOUS

\* The same after a, and nothing else.
FramedAfter(s, a, rt, x) ==
  /\ Framed(s, ByteCount(a), rt, x)
  /\ AreBytes(s) /\ ByteCount(s) = ByteCount(a) + 3 + ByteCount(rt) + ByteCount(x)
  /\ IsAt(s, 0, a)

LEMMA HeaderFrames ==
  ASSUME NEW a, NEW rt, NEW x, AreBytes(a), AreBytes(rt), AreBytes(x), ByteCount(rt) < 256
  PROVE  FramedAfter((a \o Header(rt, ByteCount(x))) \o x, a, rt, x)
  <1>0. PICK s : s = (a \o Header(rt, ByteCount(x))) \o x
    OBVIOUS
  <1> DEFINE n == u16_to_u8(ByteCount(x))
             o == ByteCount(a)
             k == ByteCount(rt)
             u1 == Put(1, n[1])
             u2 == Put(1, n[2])
             h0 == Put(1, k)
             h1 == u1 \o u2
             h2 == h0 \o h1
             h == h2 \o rt
             b == a \o h
  <1>1. o \in Nat /\ k \in Nat /\ ByteCount(x) \in Nat
    BY EndsDefined
  <1>2. Header(rt, ByteCount(x)) = h
    <2>3. (k % 256) = k
      BY <1>1, SmallNumbers
    <2> QED
      BY <2>3 DEF Header, PutU16
  <1> HIDE DEF n
  <1>3. AreBytes(u1) /\ AreBytes(u2) /\ AreBytes(h0) /\ ByteCount(u1) = 1 /\ ByteCount(u2) = 1 /\ ByteCount(h0) = 1
    BY <1>1, BytesPut, PutBytes
  <1> HIDE DEF u1, u2, h0
  <1>4. AreBytes(h1) /\ ByteCount(h1) = 2
    BY <1>3, BytesConcat, EndsConcat
  <1> HIDE DEF h1
  <1>5. AreBytes(h2) /\ ByteCount(h2) = 3
    BY <1>3, <1>4, BytesConcat, EndsConcat
  <1> HIDE DEF h2, k, o
  <1>6. AreBytes(h) /\ ByteCount(h) = 3 + k
    BY <1>5, BytesConcat, EndsConcat DEF k
  <1> HIDE DEF h
  <1>7. AreBytes(b) /\ ByteCount(b) = o + (3 + k)
    BY <1>6, BytesConcat, EndsConcat DEF o
  <1>8. s = b \o x
    BY <1>0, <1>2
  <1> HIDE DEF b
  <1>9. AreBytes(s) /\ ByteCount(s) = o + (3 + k) + ByteCount(x)
    BY <1>7, <1>8, BytesConcat, EndsConcat
  <1>10. IsAt(s, 0, b) /\ IsAt(s, 0 + (o + (3 + k)), x)
    <2>1. IsAt(s, 0, b \o x)
      BY <1>8, <1>9, AtStart
    <2> QED
      BY <1>7, <2>1, AtSplit
  <1>11. IsAt(s, 0, a) /\ IsAt(s, 0 + o, h)
    BY <1>6, <1>10, AtSplit DEF b, o
  <1>12. IsAt(s, 0 + o, h2) /\ IsAt(s, 0 + o + 3, rt)
    BY <1>5, <1>11, AtSplit DEF h
  <1>13. IsAt(s, 0 + o, h0) /\ IsAt(s, 0 + o + 1, h1)
    BY <1>3, <1>4, <1>12, AtSplit DEF h2
  <1>14. IsAt(s, 0 + o + 1, u1) /\ IsAt(s, 0 + o + 1 + 1, u2)
    BY <1>3, <1>13, AtSplit DEF h1
  <1>15. /\ 0 + o = o /\ o + 1 + 1 = o + 2 /\ 0 + (o + (3 + k)) = o + 3 + k
         /\ o + (3 + k) + ByteCount(x) = o + 3 + k + ByteCount(x)
    BY <1>1
  <1>16. /\ IsAt(s, o, h0) /\ IsAt(s, o + 1, u1) /\ IsAt(s, o + 2, u2)
         /\ IsAt(s, o + 3, rt) /\ IsAt(s, o + 3 + k, x)
    BY <1>10, <1>12, <1>13, <1>14, <1>15
  <1>17. Framed(s, o, rt, x)
    BY <1>16 DEF Framed, h0, u1, u2, n, k
  <1> QED
    BY <1>0, <1>9, <1>11, <1>15, <1>17 DEF o, k, FramedAfter

LEMMA PartsRead ==
  ASSUME NEW s, NEW o, NEW rt, NEW x, AreBytes(rt), AreBytes(x),
         ByteCount(x) < 65536, Framed(s, o, rt, x)
  PROVE  IsWhole(s, o) /\ Parts(s, o) = [reply_to |-> rt, nw |-> x]
  <1> DEFINE k == ByteCount(rt)
             n == ByteCount(x)
             high == u16_to_u8(n)[1]
             low == u16_to_u8(n)[2]
  <1>1. k \in Nat /\ n \in Nat /\ n < 65536
    BY EndsDefined
  <1>2. high \in 0 .. 255 /\ low \in 0 .. 255 /\ u8_to_u16(u16_to_u8(n)) = n
    BY <1>1, U16RoundTrip, SMTT(30)
  <1>3. u8_to_u16(<<high, low>>) = n
    BY <1>2 DEF u8_to_u16
  <1> HIDE DEF high, low
  <1>4. IsAt(s, o, Put(1, k)) /\ IsAt(s, o + 1, Put(1, high)) /\ IsAt(s, o + 2, Put(1, low))
    BY DEF Framed, high, low
  <1>5. IsAt(s, o + 3, rt) /\ IsAt(s, o + 3 + k, x)
    BY DEF Framed
  <1> HIDE DEF k, n
  <1>6. o \in Nat
    BY <1>4, SliceAt
  <1>7. Read(s, o, 1) = k /\ Read(s, o + 1, 1) = high /\ Read(s, o + 2, 1) = low
    BY <1>4, ReadAt
  <1>8. ReadU16(s, o + 1) = n
    <2>1. Torn \notin {high, low} /\ o + 1 + 1 = o + 2
      BY <1>2, <1>6, TornAssumption
    <2> QED
      BY <1>3, <1>7, <2>1 DEF ReadU16, U16
  <1>9. o + 3 + k + n <= ByteCount(s) /\ Slice(s, o + 3 + k, o + 3 + k + n) = x
    BY <1>5, SliceAt DEF n
  <1>10. Slice(s, o + 3, o + 3 + k) = rt
    BY <1>5, SliceAt DEF k
  <1>11. Torn \notin {k, n}
    BY <1>1, TornAssumption
  <1>12. IsWhole(s, o)
    BY <1>7, <1>8, <1>9, <1>11 DEF IsWhole
  <1>13. Parts(s, o) = [reply_to |-> rt, nw |-> x]
    BY <1>7, <1>8, <1>9, <1>10 DEF Parts
  <1> QED
    BY <1>12, <1>13

\* The same of bytes some of which were changed, if they are whole at all.
LEMMA PartsLike ==
  ASSUME NEW d, NEW s, Like(d, s), NEW o, NEW rt, NEW x, AreBytes(rt), AreBytes(x),
         ByteCount(x) < 65536, Framed(s, o, rt, x), IsWhole(d, o)
  PROVE  Like(Parts(d, o).nw, x)
  <1> DEFINE k == ByteCount(rt)
             n == ByteCount(x)
             high == u16_to_u8(n)[1]
             low == u16_to_u8(n)[2]
  <1>1. k \in Nat /\ n \in Nat /\ n < 65536
    BY EndsDefined
  <1>2. high \in 0 .. 255 /\ low \in 0 .. 255 /\ u8_to_u16(u16_to_u8(n)) = n
    BY <1>1, U16RoundTrip, SMTT(30)
  <1>3. u8_to_u16(<<high, low>>) = n
    BY <1>2 DEF u8_to_u16
  <1> HIDE DEF high, low
  <1>4. IsAt(s, o, Put(1, k)) /\ IsAt(s, o + 1, Put(1, high)) /\ IsAt(s, o + 2, Put(1, low))
    BY DEF Framed, high, low
  <1>5. IsAt(s, o + 3 + k, x)
    BY DEF Framed
  <1> HIDE DEF k, n
  <1>6. o \in Nat
    BY <1>4, SliceAt
  <1>7. /\ Read(d, o, 1) \in {k, Torn}
        /\ Read(d, o + 1, 1) \in {high, Torn} /\ Read(d, o + 2, 1) \in {low, Torn}
    BY <1>4, LikeRead
  <1>8. Read(d, o, 1) = k
    BY <1>7 DEF IsWhole
  <1>9. ReadU16(d, o + 1) = n
    <2>1. o + 1 + 1 = o + 2
      BY <1>6
    <2>2. Torn \notin {Read(d, o + 1, 1), Read(d, o + 2, 1)}
      BY <2>1 DEF IsWhole, ReadU16, U16
    <2>3. Read(d, o + 1, 1) = high /\ Read(d, o + 2, 1) = low
      BY <1>7, <2>2
    <2> QED
      BY <1>3, <2>1, <2>2, <2>3 DEF ReadU16, U16
  <1>10. PICK y : Like(y, x) /\ IsAt(d, o + 3 + k, y)
    BY <1>5, LikeAt
  <1>11. ByteCount(y) = n
    BY <1>10, LikeEnds DEF n
  <1>12. Slice(d, o + 3 + k, o + 3 + k + n) = y
    BY <1>10, <1>11, SliceAt, SMTT(30)
  <1> QED
    BY <1>8, <1>9, <1>10, <1>12 DEF Parts
-----------------------------------------------------------------------------
(* Link packets. *)

\* What is written for a packet and an address to reply to.
Written(rt, nw, link, nonce) ==
  serialize_link_packet([reply_to |-> rt, nw |-> nw], link, nonce)

\* The values that go into a link packet are no sentinels.
Sendable(rt, nw, link, nonce) ==
  /\ IsReplyTo(rt) /\ IsPacket(nw)
  /\ rt # Failed /\ nw # Failed
  /\ Ordinary(LinkCypher(serialize_narrow_waist_packet(nw), link, nonce))
  /\ serialize_narrow_waist_packet(nw).bytes # Failed

LEMMA ClearLayout ==
  ASSUME NEW rt, NEW nw, NEW link, NEW nonce, Sendable(rt, nw, link, nonce),
         link.remote_pid = Absent
  PROVE  LET d == Written(rt, nw, link, nonce)
         IN  /\ AreBytes(d) /\ ByteCount(d) \in 0 .. 1409
             /\ Framed(d, 64, serialize_reply_to(rt), serialize_narrow_waist_packet(nw).bytes)
  <1> DEFINE r == serialize_reply_to(rt)
             s == serialize_narrow_waist_packet(nw)
             a == Put(64, link.sid)
             d == Written(rt, nw, link, nonce)
  <1>1. AreBytes(r) /\ ByteCount(r) \in 0 .. 22
    BY ReplyToRoundTrip DEF Sendable
  <1>2. AreBytes(s.bytes) /\ s.size = ByteCount(s.bytes) /\ ByteCount(s.bytes) \in {128, 192, 1216, 1296}
    BY NarrowWaistRoundTrip DEF Sendable, ReadsBack
  <1>3. AreBytes(a) /\ ByteCount(a) = 64
    BY BytesPut, PutBytes
  <1>4. d = (a \o Header(r, s.size)) \o s.bytes
    <2>1. \E cypher : d = Wrapped(r, s, cypher, link, nonce)
      BY DEF Written, serialize_link_packet, SealedPacket
    <2> HIDE DEF d, r, s
    <2> QED
      BY <2>1 DEF Wrapped, PID_SIZE
  <1> HIDE DEF r, s, a, d
  <1>5. d = (a \o Header(r, ByteCount(s.bytes))) \o s.bytes
    BY <1>2, <1>4
  <1>6. /\ Framed(d, ByteCount(a), r, s.bytes) /\ AreBytes(d)
        /\ ByteCount(d) = ByteCount(a) + 3 + ByteCount(r) + ByteCount(s.bytes)
    <2>1. ByteCount(r) < 256
      BY <1>1
    <2>2. AreBytes(a) /\ AreBytes(r) /\ AreBytes(s.bytes)
      BY <1>1, <1>2, <1>3
    <2>3. FramedAfter(d, a, r, s.bytes)
      BY <1>5, <2>1, <2>2, HeaderFrames
    <2> QED
      BY <2>3 DEF FramedAfter
  <1>7. ByteCount(d) \in 0 .. 1409
    BY <1>1, <1>2, <1>3, <1>6, SMTT(30)
  <1> QED
    BY <1>3, <1>6, <1>7 DEF r, s, d

LEMMA SealedLayout ==
  ASSUME NEW rt, NEW nw, NEW link, NEW nonce, Sendable(rt, nw, link, nonce),
         link.remote_pid # Absent
  PROVE  LET d == Written(rt, nw, link, nonce)
             cypher == LinkCypher(serialize_narrow_waist_packet(nw), link, nonce)
             n == ByteCount(serialize_narrow_waist_packet(nw).bytes)
         IN  /\ AreBytes(d) /\ ByteCount(d) \in 0 .. 1409
             /\ n \in {128, 192, 1216, 1296}
             /\ IsAt(d, 0, Put(64, link.sid)) /\ IsAt(d, 64, Put(8, nonce))
             /\ IsAt(d, 72, Put(16, cypher))
             /\ Framed(d, 88, serialize_reply_to(rt), Put(n, cypher))
  <1> DEFINE r == serialize_reply_to(rt)
             s == serialize_narrow_waist_packet(nw)
             cypher == LinkCypher(serialize_narrow_waist_packet(nw), link, nonce)
             n == ByteCount(s.bytes)
             x == Put(n, cypher)
             a1 == Put(64, link.sid)
             a2 == a1 \o Put(8, nonce)
             a3 == a2 \o Put(16, cypher)
             d == Written(rt, nw, link, nonce)
  <1>1. AreBytes(r) /\ ByteCount(r) \in 0 .. 22
    BY ReplyToRoundTrip DEF Sendable
  <1>2. AreBytes(s.bytes) /\ s.size = ByteCount(s.bytes) /\ ByteCount(s.bytes) \in {128, 192, 1216, 1296}
    BY NarrowWaistRoundTrip DEF Sendable, ReadsBack
  <1>3. d = (a3 \o Header(r, s.size)) \o x
    BY DEF Written, serialize_link_packet, SealedPacket, Wrapped, PID_SIZE, NONCE_SIZE, TAG_SIZE, LinkCypher
  <1> HIDE DEF s, cypher, d, r
  <1>4. AreBytes(x) /\ ByteCount(x) = n
    BY <1>2, BytesPut, PutBytes
  <1> HIDE DEF x
  <1>5. AreBytes(a1) /\ ByteCount(a1) = 64
    BY BytesPut, PutBytes
  <1>6. AreBytes(a2) /\ ByteCount(a2) = 72
    <2> HIDE DEF a1
    <2> QED
      BY <1>5, PutAfter
  <1>7. AreBytes(a3) /\ ByteCount(a3) = 88
    <2> HIDE DEF a2
    <2> QED
      BY <1>6, PutAfter
  <1>8. /\ Framed(d, 88, r, x) /\ AreBytes(d) /\ IsAt(d, 0, a3)
        /\ ByteCount(d) = 88 + 3 + ByteCount(r) + n
    <2> HIDE DEF a3, n
    <2>1. d = (a3 \o Header(r, ByteCount(x))) \o x
      BY <1>2, <1>3, <1>4 DEF n
    <2>2. ByteCount(r) < 256
      BY <1>1
    <2>3. /\ Framed(d, ByteCount(a3), r, x) /\ AreBytes(d) /\ IsAt(d, 0, a3)
          /\ ByteCount(d) = ByteCount(a3) + 3 + ByteCount(r) + ByteCount(x)
      <3>1. AreBytes(a3) /\ AreBytes(r) /\ AreBytes(x)
        BY <1>1, <1>4, <1>7
      <3>2. FramedAfter(d, a3, r, x)
        BY <2>1, <2>2, <3>1, HeaderFrames
      <3> QED
        BY <3>2 DEF FramedAfter
    <2> QED
      BY <1>4, <1>7, <2>3
  <1>9. IsAt(d, 0, a2) /\ IsAt(d, 0 + 72, Put(16, cypher))
    <2> HIDE DEF a2
    <2> QED
      BY <1>6, <1>8, AtSplitPut
  <1>10. IsAt(d, 0, a1) /\ IsAt(d, 0 + 64, Put(8, nonce))
    <2> HIDE DEF a1
    <2> QED
      BY <1>5, <1>9, AtSplitPut
  <1>11. ByteCount(d) \in 0 .. 1409
    BY <1>1, <1>2, <1>8
  <1> HIDE DEF a2, a3, n
  <1> QED
    BY <1>2, <1>8, <1>9, <1>10, <1>11, SMTT(30) DEF d, cypher, r, s, n, x

\* A link packet that is written is read again by the link it is for, and by no other.
THEOREM LinkPacketRoundTrip ==
  ASSUME NEW rt, NEW nw, NEW link, NEW nonce, Sendable(rt, nw, link, nonce),
         NEW remote, remote.remote_pid = Absent <=> link.remote_pid = Absent
  PROVE  deserialize_link_packet(Written(rt, nw, link, nonce), remote) =
           IF link.remote_pid \in {Absent, remote.sid}
           THEN [reply_to |-> rt, nw |-> nw] ELSE Failed
  <1> DEFINE d == Written(rt, nw, link, nonce)
             r == serialize_reply_to(rt)
             s == serialize_narrow_waist_packet(nw)
  <1>1. AreBytes(r) /\ deserialize_reply_to(r) = rt
    BY ReplyToRoundTrip DEF Sendable
  <1>2. /\ AreBytes(s.bytes) /\ ByteCount(s.bytes) \in {128, 192, 1216, 1296}
        /\ deserialize_narrow_waist_packet(s.bytes) = nw
    BY NarrowWaistRoundTrip DEF Sendable, ReadsBack
  <1>3. rt # Failed /\ nw # Failed /\ s.bytes # Failed
    BY DEF Sendable
  <1>4. LinkPacket(rt, nw) = [reply_to |-> rt, nw |-> nw]
    BY <1>3 DEF LinkPacket
  <1>5. CASE link.remote_pid = Absent
    <2>1. Framed(d, 64, r, s.bytes)
      BY <1>5, ClearLayout
    <2> HIDE DEF d, r, s
    <2>2. ByteCount(s.bytes) < 65536
      BY <1>2
    <2>3. IsWhole(d, 64) /\ Parts(d, 64) = [reply_to |-> r, nw |-> s.bytes]
      BY <1>1, <1>2, <2>1, <2>2, PartsRead
    <2>4. Parts(d, 64).reply_to = r /\ Parts(d, 64).nw = s.bytes
      BY <2>3
    <2>5. cleartext_link_packet(d, 64) = LinkPacket(rt, nw)
      BY <1>1, <1>2, <2>3, <2>4 DEF cleartext_link_packet
    <2>6. deserialize_link_packet(d, remote) = LinkPacket(rt, nw)
      BY <1>5, <2>5 DEF deserialize_link_packet, CLEARTEXT_LINK_REPLY_TO_SIZE_START, PID_SIZE
    <2> QED
      BY <1>4, <1>5, <2>6 DEF d
  <1>6. CASE link.remote_pid # Absent
    <2> DEFINE cypher == LinkCypher(serialize_narrow_waist_packet(nw), link, nonce)
               n == ByteCount(s.bytes)
               secret == SharedSecret(remote.sid, link.sid, nonce)
    <2>1. /\ IsAt(d, 0, Put(64, link.sid)) /\ IsAt(d, 64, Put(8, nonce))
          /\ IsAt(d, 72, Put(16, cypher)) /\ Framed(d, 88, r, Put(n, cypher))
      BY <1>6, SealedLayout
    <2>2. /\ cypher # Torn /\ cypher.plain = s.bytes
          /\ cypher.secret = SharedSecret(link.sid, link.remote_pid, nonce)
      BY DEF Sendable, Ordinary, LinkCypher, Encrypted
    <2>3. cypher.secret = secret <=> link.remote_pid = remote.sid
      <3>1. {link.sid, link.remote_pid} = {remote.sid, link.sid} <=> link.remote_pid = remote.sid
        OBVIOUS
      <3> HIDE DEF cypher
      <3> QED
        BY <2>2, <3>1 DEF SharedSecret
    <2> HIDE DEF d, r, s, cypher, secret
    <2>4. n \in Nat \ {0} /\ AreBytes(Put(n, cypher)) /\ ByteCount(Put(n, cypher)) = n /\ n < 65536
      BY <1>2, BytesPut, PutBytes
    <2> HIDE DEF n
    <2>5. IsWhole(d, 88) /\ Parts(d, 88) = [reply_to |-> r, nw |-> Put(n, cypher)]
      BY <1>1, <2>1, <2>4, PartsRead
    <2>6. Parts(d, 88).reply_to = r /\ Value(Parts(d, 88).nw) = cypher
      BY <2>4, <2>5 DEF Value, Put
    <2>7. Read(d, 0, 64) = link.sid /\ Read(d, 64, 8) = nonce /\ Read(d, 72, 16) = cypher
      BY <2>1, ReadAt
    <2>8. deserialize_link_packet(d, remote) = cyphertext_link_packet(d, 88, cypher, secret)
      BY <1>6, <2>7 DEF deserialize_link_packet, CYPHERTEXT_LINK_REPLY_TO_SIZE_START,
         CYPHERTEXT_LINK_TAG_START, PID_SIZE, NONCE_SIZE, TAG_SIZE, secret
    <2>9. cyphertext_link_packet(d, 88, cypher, secret) =
            LinkPacket(rt, Verified(Opened(Decrypted(cypher, cypher, secret))))
      BY <1>1, <2>5, <2>6 DEF cyphertext_link_packet
    <2>10. CASE link.remote_pid = remote.sid
      <3>1. Decrypted(cypher, cypher, secret) = s.bytes
        BY <2>2, <2>3, <2>10 DEF Decrypted
      <3>2. Opened(s.bytes) = nw
        BY <1>2, <1>3 DEF Opened
      <3>3. verify(nw)
        BY DEF Sendable, IsPacket, verify, Request
      <3>4. Verified(nw) = nw
        BY <1>3, <3>3 DEF Verified
      <3> QED
        BY <1>4, <2>8, <2>9, <2>10, <3>1, <3>2, <3>4 DEF d
    <2>11. CASE link.remote_pid # remote.sid
      <3>1. Decrypted(cypher, cypher, secret) = Failed
        BY <2>3, <2>11 DEF Decrypted
      <3>2. Verified(Opened(Failed)) = Failed
        BY DEF Verified, Opened
      <3>3. LinkPacket(rt, Failed) = Failed
        BY DEF LinkPacket
      <3> QED
        BY <1>6, <2>8, <2>9, <2>11, <3>1, <3>2, <3>3 DEF d
    <2> QED
      BY <2>10, <2>11
  <1> QED
    BY <1>5, <1>6

\* On a link with a remote identity, bytes of which some were changed are read as
\* the packet that was written, or not at all.
THEOREM SealedOrFailed ==
  ASSUME NEW rt, NEW nw, NEW link, NEW nonce, Sendable(rt, nw, link, nonce),
         NEW remote, remote.remote_pid # Absent, link.remote_pid # Absent,
         NEW d, Like(d, Written(rt, nw, link, nonce))
  PROVE  \/ deserialize_link_packet(d, remote) = Failed
         \/ deserialize_link_packet(d, remote).nw = nw
  <1> DEFINE w == Written(rt, nw, link, nonce)
             r == serialize_reply_to(rt)
             s == serialize_narrow_waist_packet(nw)
             cypher == LinkCypher(serialize_narrow_waist_packet(nw), link, nonce)
             n == ByteCount(s.bytes)
             tag == Read(d, 72, 16)
             secret == SharedSecret(remote.sid, Read(d, 0, 64), Read(d, 64, 8))
             nw2 == Verified(Opened(Decrypted(Value(Parts(d, 88).nw), tag, secret)))
             rt2 == deserialize_reply_to(Parts(d, 88).reply_to)
  <1>1. AreBytes(r)
    BY ReplyToRoundTrip DEF Sendable
  <1>2. /\ ByteCount(s.bytes) \in {128, 192, 1216, 1296}
        /\ deserialize_narrow_waist_packet(s.bytes) = nw
    BY NarrowWaistRoundTrip DEF Sendable, ReadsBack
  <1>3. Framed(w, 88, r, Put(n, cypher))
    BY SealedLayout
  <1>4. cypher # Torn /\ cypher.plain = s.bytes /\ s.bytes # Failed /\ nw # Failed
    BY DEF Sendable, Ordinary, LinkCypher, Encrypted
  <1>5. n \in Nat \ {0} /\ AreBytes(Put(n, cypher)) /\ ByteCount(Put(n, cypher)) = n /\ n < 65536
    <2>1. n \in Nat /\ n # 0 /\ n < 65536
      BY <1>2
    <2> HIDE DEF n, cypher
    <2>2. AreBytes(Put(n, cypher)) /\ ByteCount(Put(n, cypher)) = n
      BY <2>1, BytesPut, PutBytes
    <2> QED
      BY <2>1, <2>2
  <1>6. verify(nw)
    BY DEF Sendable, IsPacket, verify, Request
  <1>7. deserialize_link_packet(d, remote) =
          IF ~IsWhole(d, 88) THEN Failed ELSE LinkPacket(rt2, nw2)
    BY DEF deserialize_link_packet, cyphertext_link_packet, CYPHERTEXT_LINK_REPLY_TO_SIZE_START,
       CYPHERTEXT_LINK_TAG_START, PID_SIZE, NONCE_SIZE, TAG_SIZE
  <1> HIDE DEF w, r, s, cypher, n, tag, secret, rt2
  <1>8. ASSUME IsWhole(d, 88) PROVE nw2 \in {Failed, nw}
    <2>1. Like(Parts(d, 88).nw, Put(n, cypher))
      BY <1>1, <1>3, <1>5, <1>8, PartsLike DEF w
    <2>2. PICK c \in {cypher, Torn} : Parts(d, 88).nw = Put(n, c)
      BY <1>5, <2>1, LikePut
    <2>3. Value(Parts(d, 88).nw) = c
      BY <1>5, <2>2 DEF Value, Put
    <2>4. Decrypted(c, tag, secret) \in {Failed, s.bytes}
      BY <1>4, <2>2 DEF Decrypted
    <2>5. Verified(Opened(Failed)) = Failed
      BY DEF Verified, Opened
    <2>6. Verified(Opened(s.bytes)) = nw
      BY <1>2, <1>4, <1>6 DEF Verified, Opened
    <2> QED
      BY <2>3, <2>4, <2>5, <2>6
  <1> HIDE DEF nw2
  <1>9. LinkPacket(rt2, nw2) = Failed \/ LinkPacket(rt2, nw2).nw = nw2
    BY DEF LinkPacket
  <1>10. nw2 = Failed => LinkPacket(rt2, nw2) = Failed
    BY DEF LinkPacket
  <1> QED
    BY <1>7, <1>8, <1>9, <1>10
-----------------------------------------------------------------------------
(* A link. *)

ItemType == ToSet(S.items)

\* The wrong bytes a frame may have: more than the code corrects only after noise.
Wrong == {w \in Nat : w > MaxCorrected => faults.noise > 0}

\* The frames of what the link was handed.
Frames == {Frame(Encoded(item.nw), w) : item \in ToSet(Handed), w \in Wrong}

\* What an inbound thread may make of them.
Packets(r) ==
  {Inbound(r, lp) : lp \in (UNION {decode(f, S.remote[r]) : f \in Frames}) \ {Failed}}

SetUp ==
  /\ setup \in DOMAIN Setups
  /\ asked \in 0 .. Len(S.items)

FaultsOK == faults \in [losses : 0 .. MaxLosses, repeats : 0 .. MaxRepeats, noise : 0 .. MaxNoise]

\* Everything on its way is, or was made of, something the link was handed.
Handled ==
  /\ bs2l \in Seq({item.nw : item \in ToSet(Handed)})
  /\ sending.left \in Seq(Receiver)
  /\ sending.left # << >> => sending.frame \in Frames
  /\ \A r \in Receiver : /\ wire[r] \in Seq(Frames)
                         /\ arriving[r] \in Seq(Packets(r))
                         /\ l2bs[r] \in Seq(Packets(r))
                         /\ delivered[r] \in Seq(Packets(r))

Shape ==
  /\ SetUp
  /\ FaultsOK
  /\ sending = [frame |-> sending.frame, left |-> sending.left]
  /\ DOMAIN wire = Receiver /\ DOMAIN arriving = Receiver
  /\ DOMAIN l2bs = Receiver /\ DOMAIN delivered = Receiver
  /\ inbound \in [Receiver -> {"running", "over"}]

-----------------------------------------------------------------------------
(* Sequences. *)

LEMMA SeqGrows ==
  ASSUME NEW A, NEW B, A \subseteq B
  PROVE  Seq(A) \subseteq Seq(B)
  OBVIOUS

LEMMA RemoveAtProperties ==
  ASSUME NEW T, NEW s \in Seq(T), NEW i \in 1 .. Len(s)
  PROVE  /\ RemoveAt(s, i) \in Seq(T)
         /\ Len(RemoveAt(s, i)) = Len(s) - 1
  <1>1. /\ SubSeq(s, 1, i - 1) \in Seq(T) /\ Len(SubSeq(s, 1, i - 1)) = i - 1
        /\ SubSeq(s, i + 1, Len(s)) \in Seq(T) /\ Len(SubSeq(s, i + 1, Len(s))) = Len(s) - i
    OBVIOUS
  <1>2. ASSUME NEW a \in Seq(T), NEW b \in Seq(T), Len(a) = i - 1, Len(b) = Len(s) - i
        PROVE  a \o b \in Seq(T) /\ Len(a \o b) = Len(s) - 1
    BY <1>2
  <1> QED
    BY <1>1, <1>2 DEF RemoveAt

LEMMA TailElements ==
  ASSUME NEW T, NEW s \in Seq(T), s # << >>
  PROVE  /\ Len(Tail(s)) = Len(s) - 1
         /\ Len(s) \in Nat \ {0}
         /\ Len(s) = 1 => Tail(s) = << >>
         /\ DOMAIN s = 1 .. Len(s)
         /\ DOMAIN Tail(s) = 1 .. Len(s) - 1
         /\ Head(s) = s[1]
         /\ \A i \in 1 .. Len(s) - 1 : Tail(s)[i] = s[i + 1]
  <1>1. Len(s) \in Nat \ {0} /\ Tail(s) \in Seq(T) /\ Len(Tail(s)) = Len(s) - 1
    OBVIOUS
  <1>2. \A u \in Seq(T) : Len(u) = 0 => u = << >>
    OBVIOUS
  <1>3. Len(s) = 1 => Tail(s) = << >>
    <2>1. Len(s) = 1 => Len(Tail(s)) = 0
      BY <1>1
    <2> QED
      BY <1>1, <1>2, <2>1, Zenon
  <1> QED
    BY <1>1, <1>3

LEMMA RemoveAtFirst ==
  ASSUME NEW T, NEW s \in Seq(T), s # << >>
  PROVE  RemoveAt(s, 1) = Tail(s)
  <1>1. SubSeq(s, 1, 1 - 1) = << >> /\ SubSeq(s, 1 + 1, Len(s)) = Tail(s)
    OBVIOUS
  <1>2. << >> \o Tail(s) = Tail(s)
    OBVIOUS
  <1> QED
    BY <1>1, <1>2 DEF RemoveAt

\* Sequence u is s with the one element of t at its end.
IsJoined(u, s, t) ==
  /\ Len(t) = 1 /\ 1 \in DOMAIN t
  /\ Len(s) \in Nat /\ DOMAIN s = 1 .. Len(s)
  /\ Len(u) = Len(s) + 1 /\ DOMAIN u = 1 .. Len(s) + 1
  /\ \A i \in 1 .. Len(s) : u[i] = s[i]
  /\ u[Len(s) + 1] = t[1]

LEMMA JoinedWithOne ==
  ASSUME NEW T, NEW s \in Seq(T), NEW t \in Seq(T), t # << >>, Len(t) <= 1, NEW u, u = s \o t
  PROVE  IsJoined(u, s, t)
  <1>0. Len(t) \in Nat \ {0} /\ DOMAIN t = 1 .. Len(t) /\ Len(s) \in Nat /\ DOMAIN s = 1 .. Len(s)
    BY TailElements, LenProperties, Zenon
  <1>1. Len(t) = 1 /\ DOMAIN t = 1 .. 1
    BY <1>0
  <1>2. u \in Seq(T) /\ Len(u) = Len(s) + Len(t)
    BY ConcatProperties, Zenon
  <1>3. DOMAIN u = 1 .. Len(s) + 1
    BY <1>0, <1>1, <1>2, LenProperties
  <1>4. \A i \in 1 .. Len(s) + Len(t) : u[i] = IF i <= Len(s) THEN s[i] ELSE t[i - Len(s)]
    BY ConcatProperties, Zenon
  <1>5. u[Len(s) + 1] = t[1]
    BY <1>0, <1>1, <1>4
  <1> QED
    BY <1>0, <1>1, <1>2, <1>3, <1>4, <1>5 DEF IsJoined

-----------------------------------------------------------------------------
(* What the link was handed. *)

Given == {item \in ToSet(S.items) : item.nw # Failed}

LEMMA ItemsType ==
  ASSUME SetUp
  PROVE  /\ S.items \in Seq(ToSet(S.items))
         /\ asked \in 0 .. Len(S.items)
         /\ Len(S.items) \in Nat
         /\ S.kind \in {"MpscChannel", "MpscCorruptor", "UdpIp"}
         /\ S.ends \in Seq(Receiver)
         /\ \A i, j \in DOMAIN S.ends : i # j => S.ends[i] # S.ends[j]
  BY SetupsAssumption DEF SetUp, S

LEMMA HandedType ==
  ASSUME SetUp
  PROVE  Handed \in Seq(Given) /\ Len(Handed) \in Nat
  <1>1. SubSeq(S.items, 1, asked) \in Seq(ToSet(S.items))
    BY ItemsType
  <1>2. Handed \in Seq(ToSet(S.items) \cap Given)
    BY <1>1, OnlyType DEF Handed, Given
  <1>3. ToSet(S.items) \cap Given = Given
    BY DEF Given
  <1> QED
    BY <1>2, <1>3

LEMMA HandedSame ==
  ASSUME UNCHANGED <<setup, asked>>
  PROVE  Handed' = Handed /\ S' = S
  BY DEF Handed, S

LEMMA HandedGrows ==
  ASSUME SetUp, asked < Len(S.items), asked' = asked + 1, UNCHANGED setup
  PROVE  /\ S' = S
         /\ Handed' = IF S.items[asked + 1].nw = Failed
                      THEN Handed ELSE Append(Handed, S.items[asked + 1])
  <1> DEFINE item == S.items[asked + 1]
             before == SubSeq(S.items, 1, asked)
  <1>1. S' = S
    BY DEF S
  <1>2. before \in Seq(ToSet(S.items)) /\ item \in ToSet(S.items)
    BY ItemsType, LenProperties DEF ToSet
  <1>3. SubSeq(S.items, 1, asked + 1) = Append(before, item)
    BY ItemsType
  <1>4. Handed' = Only(Append(before, item), Given)
    BY <1>1, <1>3 DEF Handed, Given
  <1>5. Handed = Only(before, Given)
    BY DEF Handed, Given
  <1> HIDE DEF before, item
  <1>6. Only(Append(before, item), Given) =
          IF item \in Given THEN Append(Only(before, Given), item) ELSE Only(before, Given)
    BY <1>2, OnlyAppend
  <1>7. item \in Given <=> item.nw # Failed
    BY <1>2 DEF Given
  <1> QED
    BY <1>1, <1>4, <1>5, <1>6, <1>7 DEF item

\* What was handed stays handed, and noise does not go away.
LEMMA NothingIsForgotten ==
  ASSUME SetUp, FaultsOK, [Next]_vars
  PROVE  /\ SetUp' /\ FaultsOK' /\ S' = S
         /\ ToSet(Handed) \subseteq ToSet(Handed)'
         /\ faults.noise <= faults'.noise
  <1>1. CASE Send
    <2>1. /\ S' = S
          /\ Handed' = IF S.items[asked + 1].nw = Failed
                       THEN Handed ELSE Append(Handed, S.items[asked + 1])
      BY <1>1, HandedGrows DEF Send
    <2>2. SetUp' /\ faults' = faults
      BY <1>1, <2>1, ItemsType DEF Send, SetUp
    <2>3. ToSet(Handed) \subseteq ToSet(Handed)'
      <3>1. CASE Handed' = Handed
        BY <3>1 DEF ToSet
      <3>2. CASE Handed' = Append(Handed, S.items[asked + 1])
        BY <3>2, HandedType DEF ToSet
      <3> QED
        BY <2>1, <3>1, <3>2
    <2> QED
      BY <2>1, <2>2, <2>3 DEF FaultsOK
  <1>2. CASE UNCHANGED <<setup, asked>> /\ FaultsOK' /\ faults.noise <= faults'.noise
    BY <1>2, HandedSame DEF SetUp, ToSet
  <1>3. CASE faults' = faults /\ UNCHANGED <<setup, asked>>
    BY <1>2, <1>3 DEF FaultsOK
  <1>4. CASE \E r \in Receiver : \E i \in DOMAIN wire[r] : Network(r, i)
    <2>1. UNCHANGED <<setup, asked>>
      BY <1>4 DEF Network
    <2>2. FaultsOK' /\ faults.noise <= faults'.noise
      BY <1>4, LinkBoundsAssumption, SMTT(30) DEF Network, Lose, Repeat, Garble, FaultsOK
    <2> QED
      BY <1>2, <2>1, <2>2
  <1> QED
    BY <1>1, <1>3, <1>4 DEF Next, Outbound, EncodeNext, SendFrame, SendDatagram, InboundStep,
       Decode, SendOn, Receive, vars, linkVars

\* So what is made of it can still be made of it.
LEMMA FramesGrow ==
  ASSUME SetUp, FaultsOK, [Next]_vars
  PROVE  /\ Frames \subseteq Frames'
         /\ \A r \in Receiver : Packets(r) \subseteq Packets(r)'
         /\ {item.nw : item \in ToSet(Handed)} \subseteq {item.nw : item \in ToSet(Handed)}'
  <1>1. /\ S' = S
        /\ ToSet(Handed) \subseteq ToSet(Handed)'
        /\ faults.noise <= faults'.noise
    BY NothingIsForgotten
  <1>2. Wrong \subseteq Wrong'
    <2>1. FaultsOK /\ FaultsOK'
      BY NothingIsForgotten
    <2>2. faults.noise \in Nat /\ faults'.noise \in Nat
      BY <2>1, LinkBoundsAssumption DEF FaultsOK
    <2> QED
      BY <1>1, <2>2 DEF Wrong
  <1>3. \A nw : Encoded(nw)' = Encoded(nw)
    BY <1>1 DEF Encoded
  <1>4. Frames \subseteq Frames'
    BY <1>1, <1>2, <1>3 DEF Frames
  <1>5. \A f, link : decode(f, link)' = decode(f, link)
    BY <1>1 DEF decode
  <1>6. ASSUME NEW r \in Receiver PROVE Packets(r) \subseteq Packets(r)'
    <2>1. \A lp : Inbound(r, lp)' = Inbound(r, lp)
      BY <1>1 DEF Inbound
    <2>2. \A f \in Frames : f \in Frames' /\ decode(f, S.remote[r])' = decode(f, S.remote[r])
      BY <1>1, <1>4, <1>5
    <2> QED
      BY <2>1, <2>2 DEF Packets
  <1> QED
    BY <1>1, <1>4, <1>6
-----------------------------------------------------------------------------
(* What is on its way was handed to the link. *)

Typed == Shape /\ Handled

LEMMA InitTyped == Init => Typed
  <1> SUFFICES ASSUME Init PROVE Typed
    OBVIOUS
  <1>1. SetUp
    BY ItemsType, SetupsAssumption DEF Init, SetUp, S
  <1>2. \A T : << >> \in Seq(T)
    OBVIOUS
  <1>3. Shape
    BY <1>1, LinkBoundsAssumption DEF Init, Shape, FaultsOK, NoFrame
  <1>4. Handled
    BY <1>2 DEF Init, Handled, NoFrame
  <1> QED
    BY <1>3, <1>4 DEF Typed

LEMMA NextShaped ==
  ASSUME Shape, [Next]_vars
  PROVE  Shape'
  <1>1. SetUp' /\ FaultsOK'
    BY NothingIsForgotten DEF Shape
  <1>2. sending' = [frame |-> sending'.frame, left |-> sending'.left]
    BY DEF Shape, Next, Send, Outbound, EncodeNext, SendFrame, SendDatagram, InboundStep, NoFrame,
       Decode, SendOn, Receive, Network, Lose, Repeat, Garble, vars, linkVars
  <1>3. DOMAIN wire' = Receiver
    BY DEF Shape, Next, Send, Outbound, EncodeNext, SendFrame, SendDatagram, InboundStep,
       Decode, SendOn, Receive, Network, Lose, Repeat, Garble, vars, linkVars
  <1>4. DOMAIN arriving' = Receiver /\ DOMAIN l2bs' = Receiver /\ DOMAIN delivered' = Receiver
    BY DEF Shape, Next, Send, Outbound, EncodeNext, SendFrame, SendDatagram, InboundStep,
       Decode, SendOn, Receive, Network, Lose, Repeat, Garble, vars, linkVars
  <1>5. inbound' \in [Receiver -> {"running", "over"}]
    BY DEF Shape, Next, Send, Outbound, EncodeNext, SendFrame, SendDatagram, InboundStep,
       Decode, SendOn, Receive, Network, Lose, Repeat, Garble, vars, linkVars
  <1> QED
    BY <1>1, <1>2, <1>3, <1>4, <1>5 DEF Shape

\* Nothing was changed that could have been changed for the worse.
LEMMA HandledStays ==
  ASSUME Typed, [Next]_vars
  PROVE  /\ \A r \in Receiver : Seq(Packets(r)) \subseteq Seq(Packets(r)')
         /\ Seq(Frames) \subseteq Seq(Frames') /\ Frames \subseteq Frames'
         /\ Seq({item.nw : item \in ToSet(Handed)}) \subseteq Seq({item.nw : item \in ToSet(Handed)}')
  BY FramesGrow, SeqGrows DEF Typed, Shape

LEMMA SendTyped ==
  ASSUME Typed, Send
  PROVE  Handled'
  <1>1. [Next]_vars
    BY DEF Next
  <1>2. bs2l' \in Seq({item.nw : item \in ToSet(Handed)}')
    <2>1. CASE S.items[asked + 1].nw = Failed
      BY <1>1, <2>1, HandledStays DEF Send, Typed, Handled
    <2>2. CASE S.items[asked + 1].nw # Failed
      <3>1. Handed' = Append(Handed, S.items[asked + 1])
        BY <2>2, HandedGrows DEF Send, Typed, Shape
      <3>2. S.items[asked + 1] \in ToSet(Handed)'
        BY <3>1, HandedType DEF Typed, Shape, ToSet
      <3>3. S.items[asked + 1].nw \in {item.nw : item \in ToSet(Handed)}'
        BY <3>2
      <3>4. bs2l \in Seq({item.nw : item \in ToSet(Handed)}')
        BY <1>1, HandledStays DEF Typed, Handled
      <3> QED
        BY <2>2, <3>3, <3>4, AppendProperties DEF Send
    <2> QED
      BY <2>1, <2>2
  <1> QED
    BY <1>1, <1>2, HandledStays DEF Send, Typed, Handled

LEMMA EncodeNextTyped ==
  ASSUME Typed, EncodeNext
  PROVE  Handled'
  <1>1. [Next]_vars
    BY DEF Next, Outbound
  <1>2. Handed' = Handed
    BY HandedSame DEF EncodeNext
  <1>3. PICK wrong \in 0 .. CORRUPTED :
          sending' = [frame |-> Frame(Encoded(Head(bs2l)), wrong), left |-> S.ends]
    BY DEF EncodeNext, CORRUPTED
  <1>4. wrong \in Wrong
    BY <1>3 DEF Wrong, CORRUPTED, MaxCorrected, CODE_SIZE
  <1>5. Head(bs2l) \in {item.nw : item \in ToSet(Handed)}
    BY HeadTailProperties DEF EncodeNext, Typed, Handled
  <1>6. sending'.frame \in Frames /\ sending'.left \in Seq(Receiver)
    BY <1>3, <1>4, <1>5, ItemsType DEF Frames, Typed, Shape
  <1>7. bs2l' \in Seq({item.nw : item \in ToSet(Handed)}')
    BY <1>2, HeadTailProperties DEF EncodeNext, Typed, Handled
  <1> QED
    BY <1>1, <1>6, <1>7, HandledStays DEF EncodeNext, Typed, Handled

LEMMA SendFrameTyped ==
  ASSUME Typed, SendFrame
  PROVE  Handled'
  <1>1. [Next]_vars
    BY DEF Next, Outbound
  <1>2. sending.frame \in Frames' /\ Head(sending.left) \in Receiver
    BY <1>1, HandledStays, HeadTailProperties DEF SendFrame, Typed, Handled
  <1>3. ASSUME NEW r \in Receiver PROVE wire'[r] \in Seq(Frames')
    <2>1. wire[r] \in Seq(Frames')
      BY <1>1, HandledStays DEF Typed, Handled
    <2>2. Append(wire[r], sending.frame) \in Seq(Frames')
      BY <1>2, <2>1, AppendProperties
    <2> QED
      BY <2>1, <2>2 DEF SendFrame, Typed, Shape
  <1>4. sending'.left \in Seq(Receiver) /\ (sending'.left # << >> => sending'.frame \in Frames')
    <2>1. CASE Len(sending.left) = 1
      BY <2>1 DEF SendFrame, NoFrame
    <2>2. CASE Len(sending.left) # 1
      BY <1>2, <2>2, HeadTailProperties DEF SendFrame, Typed, Handled, Shape
    <2> QED
      BY <2>1, <2>2
  <1> QED
    BY <1>1, <1>3, <1>4, HandledStays DEF SendFrame, Typed, Handled

LEMMA SendDatagramTyped ==
  ASSUME Typed, SendDatagram
  PROVE  Handled'
  <1>1. [Next]_vars
    BY DEF Next, Outbound
  <1>2. Handed' = Handed
    BY HandedSame DEF SendDatagram
  <1>3. Head(bs2l) \in {item.nw : item \in ToSet(Handed)} /\ Tail(bs2l) \in Seq({item.nw : item \in ToSet(Handed)})
    BY HeadTailProperties DEF SendDatagram, Typed, Handled
  <1>4. 0 \in Wrong
    BY DEF Wrong, MaxCorrected, CODE_SIZE
  <1>5. Frame(Encoded(Head(bs2l)), 0) \in Frames'
    <2>1. Frame(Encoded(Head(bs2l)), 0) \in Frames
      BY <1>3, <1>4 DEF Frames
    <2> QED
      BY <1>1, <2>1, HandledStays
  <1>6. ASSUME NEW r \in Receiver PROVE wire'[r] \in Seq(Frames')
    <2>1. wire[r] \in Seq(Frames')
      BY <1>1, HandledStays DEF Typed, Handled
    <2>2. Append(wire[r], Frame(Encoded(Head(bs2l)), 0)) \in Seq(Frames')
      BY <1>5, <2>1, AppendProperties
    <2> QED
      BY <2>1, <2>2 DEF SendDatagram
  <1> QED
    BY <1>1, <1>2, <1>3, <1>6, HandledStays DEF SendDatagram, Typed, Handled

LEMMA DecodeTyped ==
  ASSUME Typed, NEW q \in Receiver, NEW n, Decode(q, n)
  PROVE  Handled'
  <1>1. [Next]_vars
    <2>1. n \in DOMAIN wire[q]
      BY DEF Decode, Takeable
    <2> QED
      BY <2>1 DEF Next, InboundStep
  <1>2. n \in 1 .. Len(wire[q]) /\ wire[q] \in Seq(Frames)
    BY LenProperties DEF Decode, Takeable, Typed, Handled
  <1>3. ASSUME NEW r \in Receiver PROVE wire'[r] \in Seq(Frames')
    <2>1. RemoveAt(wire[q], n) \in Seq(Frames)
      BY <1>2, RemoveAtProperties
    <2> QED
      BY <1>1, <2>1, HandledStays DEF Decode, Typed, Handled, Shape
  <1>4. ASSUME NEW r \in Receiver PROVE arriving'[r] \in Seq(Packets(r)')
    <2>1. ASSUME NEW lp \in decode(wire[q][n], S.remote[q]), lp # Failed
          PROVE  <<Inbound(q, lp)>> \in Seq(Packets(q))
      <3>1. wire[q][n] \in Frames
        BY <1>2, ElementOfSeq
      <3>2. Inbound(q, lp) \in Packets(q)
        <4>1. lp \in (UNION {decode(f, S.remote[q]) : f \in Frames}) \ {Failed}
          BY <2>1, <3>1
        <4> QED
          BY <4>1 DEF Packets
      <3> QED
        BY <3>2
    <2>2. arriving'[q] \in Seq(Packets(q))
      BY <2>1 DEF Decode, Typed, Handled, Shape
    <2> QED
      BY <1>1, <2>2, HandledStays DEF Decode, Typed, Handled, Shape
  <1> QED
    BY <1>1, <1>3, <1>4, HandledStays DEF Decode, Typed, Handled

LEMMA SendOnTyped ==
  ASSUME Typed, NEW q \in Receiver, SendOn(q)
  PROVE  Handled'
  <1>1. [Next]_vars
    BY DEF Next, InboundStep
  <1>2. l2bs[q] \o arriving[q] \in Seq(Packets(q))
    BY ConcatProperties DEF Typed, Handled
  <1>3. ASSUME NEW r \in Receiver PROVE arriving'[r] \in Seq(Packets(r)') /\ l2bs'[r] \in Seq(Packets(r)')
    BY <1>1, <1>2, HandledStays, SMTT(30) DEF SendOn, Typed, Handled, Shape
  <1> QED
    BY <1>1, <1>3, HandledStays DEF SendOn, Typed, Handled

LEMMA ReceiveTyped ==
  ASSUME Typed, NEW q \in Receiver, Receive(q)
  PROVE  Handled'
  <1>1. [Next]_vars
    BY DEF Next
  <1>2. Append(delivered[q], Head(l2bs[q])) \in Seq(Packets(q)) /\ Tail(l2bs[q]) \in Seq(Packets(q))
    BY HeadTailProperties, AppendProperties DEF Typed, Handled, Receive
  <1>3. ASSUME NEW r \in Receiver PROVE delivered'[r] \in Seq(Packets(r)') /\ l2bs'[r] \in Seq(Packets(r)')
    BY <1>1, <1>2, HandledStays DEF Receive, Typed, Handled, Shape
  <1> QED
    BY <1>1, <1>3, HandledStays DEF Receive, Typed, Handled

LEMMA NetworkTyped ==
  ASSUME Typed, NEW q \in Receiver, NEW n \in DOMAIN wire[q], Network(q, n)
  PROVE  Handled'
  <1>1. [Next]_vars
    BY DEF Next
  <1>2. n \in 1 .. Len(wire[q]) /\ wire[q] \in Seq(Frames) /\ wire[q][n] \in Frames
    BY LenProperties, ElementOfSeq DEF Typed, Handled
  <1>3. ASSUME NEW r \in Receiver PROVE wire'[r] \in Seq(Frames')
    <2>0. wire[r] \in Seq(Frames') /\ wire[q] \in Seq(Frames') /\ wire[q][n] \in Frames'
      BY <1>1, <1>2, HandledStays DEF Typed, Handled
    <2>1. CASE Lose(q, n)
      <3>1. RemoveAt(wire[q], n) \in Seq(Frames')
        BY <1>2, <2>0, RemoveAtProperties
      <3> QED
        BY <2>0, <2>1, <3>1 DEF Lose, Typed, Shape
    <2>2. CASE Repeat(q, n)
      <3>1. Append(wire[q], wire[q][n]) \in Seq(Frames')
        BY <2>0, AppendProperties
      <3> QED
        BY <2>0, <2>2, <3>1 DEF Repeat, Typed, Shape
    <2>3. CASE Garble(q, n)
      <3>1. MaxCorrected + 1 \in Wrong'
        BY <2>3, LinkBoundsAssumption DEF Garble, Wrong, Typed, Shape, FaultsOK, MaxCorrected, CODE_SIZE
      <3>2. PICK item \in ToSet(Handed)', w \in Wrong' : wire[q][n] = Frame(Encoded(item.nw)', w)
        BY <2>0 DEF Frames
      <3>3. [wire[q][n] EXCEPT !.wrong = MaxCorrected + 1] = Frame(Encoded(item.nw)', MaxCorrected + 1)
        BY <3>2 DEF Frame
      <3>4. [wire[q][n] EXCEPT !.wrong = MaxCorrected + 1] \in Frames'
        BY <3>1, <3>3 DEF Frames
      <3>5. [wire[q] EXCEPT ![n] = [wire[q][n] EXCEPT !.wrong = MaxCorrected + 1]] \in Seq(Frames')
        BY <1>2, <2>0, <3>4
      <3>6. wire' = [wire EXCEPT ![q] = [wire[q] EXCEPT ![n] = [wire[q][n] EXCEPT !.wrong = MaxCorrected + 1]]]
        BY <2>3 DEF Garble
      <3> QED
        BY <2>0, <3>5, <3>6 DEF Typed, Shape
    <2> QED
      BY <2>1, <2>2, <2>3 DEF Network
  <1> QED
    BY <1>1, <1>3, HandledStays DEF Network, Typed, Handled

LEMMA NextTyped == Typed /\ [Next]_vars => Typed'
  <1> SUFFICES ASSUME Typed, [Next]_vars PROVE Handled'
    BY NextShaped DEF Typed
  <1>1. CASE Send
    BY <1>1, SendTyped
  <1>2. CASE Outbound
    BY <1>2, EncodeNextTyped, SendFrameTyped, SendDatagramTyped DEF Outbound
  <1>3. CASE \E r \in Receiver : InboundStep(r) \/ Receive(r)
    BY <1>3, DecodeTyped, SendOnTyped, ReceiveTyped DEF InboundStep
  <1>4. CASE \E r \in Receiver : \E i \in DOMAIN wire[r] : Network(r, i)
    BY <1>4, NetworkTyped
  <1>5. CASE UNCHANGED vars
    BY <1>5, HandledStays DEF Typed, Handled, vars, linkVars
  <1> QED
    BY <1>1, <1>2, <1>3, <1>4, <1>5 DEF Next
-----------------------------------------------------------------------------
(* What the other end reads of it. *)

\* What is written for a packet.
AsWritten(nw) == Written(S.link.reply_to, nw, S.link, <<"link", nw.nonce>>)

\* A response, and what was put into it.
IsAnswer(item) ==
  LET nw == item.nw
  IN  /\ item.payload # Absent /\ item.payload.size \in Nat /\ item.payload.size <= DATA_SIZE
      /\ nw.hbfi.request_pid \in {Absent, S.requester}
      /\ Ordinary(Padded(item.payload))
      /\ Ordinary(Cypher(nw.hbfi.response_pid, nw.hbfi.request_pid, item.payload, nw.nonce))
      /\ nw.data = insert(nw.hbfi.response_pid, nw.hbfi.request_pid, item.payload, nw.nonce)

LEMMA GivenIsSendable ==
  ASSUME SetUp, NEW item \in Given
  PROVE  /\ Sendable(S.link.reply_to, item.nw, S.link, <<"link", item.nw.nonce>>)
         /\ Encoded(item.nw) = AsWritten(item.nw)
         /\ item.nw.kind = "Response" => IsAnswer(item)
         /\ [reply_to |-> S.link.reply_to, nw |-> item.nw] # Failed
  <1> DEFINE nw == item.nw
             written == serialize_narrow_waist_packet(nw)
             response == Cypher(nw.hbfi.response_pid, nw.hbfi.request_pid, item.payload, nw.nonce)
             responded == respond(nw.hbfi.response_pid, nw.hbfi, item.payload, nw.nonce)
  <1>1. /\ item \in ToSet(S.items) /\ nw # Failed
    BY DEF Given
  <1>2. /\ IsHbfi(nw.hbfi) /\ nw.hbfi.request_pid \in {Absent, S.requester}
        /\ \/ nw = Request(nw.hbfi, nw.nonce)
           \/ /\ item.payload # Absent /\ item.payload.size \in Nat /\ nw = responded
              /\ Ordinary(response) /\ Ordinary(Padded(item.payload))
        /\ written.bytes # Failed
        /\ Ordinary(LinkCypher(written, S.link, <<"link", nw.nonce>>))
        /\ LinkPacket(S.link.reply_to, nw) # Failed
    BY <1>1, PacketsAssumption DEF SetUp, S
  <1> HIDE DEF nw, written, response, responded
  <1>3. ASSUME nw = responded, item.payload # Absent, item.payload.size \in Nat,
               Ordinary(response), Ordinary(Padded(item.payload))
        PROVE  IsPacket(nw) /\ IsAnswer(item)
    <2>1. responded # Failed
      BY <1>1, <1>3
    <2>2. /\ IsPacket(responded) /\ item.payload.size <= DATA_SIZE
          /\ responded.data = insert(nw.hbfi.response_pid, nw.hbfi.request_pid, item.payload, nw.nonce)
      BY <1>2, <1>3, <2>1, RespondedIsPacket DEF response, responded
    <2> QED
      BY <1>2, <1>3, <2>2 DEF IsAnswer, nw, response
  <1>4. ASSUME nw = Request(nw.hbfi, nw.nonce)
        PROVE  IsPacket(nw) /\ nw.kind # "Response"
    BY <1>2, <1>4 DEF IsPacket, Request
  <1>5. IsPacket(nw) /\ (nw.kind = "Response" => IsAnswer(item))
    BY <1>2, <1>3, <1>4
  <1>6. IsReplyTo(S.link.reply_to) /\ S.link.reply_to # Failed
    BY <1>2, EndsAssumption DEF SetUp, S, LinkPacket
  <1>7. LinkPacket(S.link.reply_to, nw) = [reply_to |-> S.link.reply_to, nw |-> nw]
    BY <1>2 DEF LinkPacket
  <1>8. Sendable(S.link.reply_to, nw, S.link, <<"link", nw.nonce>>)
    BY <1>1, <1>2, <1>5, <1>6 DEF Sendable, written
  <1>9. Encoded(nw) = AsWritten(nw)
    BY <1>7 DEF Encoded, AsWritten, Written
  <1> QED
    BY <1>2, <1>5, <1>7, <1>8, <1>9 DEF nw

LEMMA FitsDatagram ==
  ASSUME NEW n \in 0 .. 1409
  PROVE  ~(EncodedSize(n) > RECV_BUFFER_SIZE)
  BY DEF EncodedSize, Blocks, BLOCK_SIZE, CODE_SIZE, RECV_BUFFER_SIZE

LEMMA EncodedBytes ==
  ASSUME SetUp, NEW item \in Given
  PROVE  AreBytes(Encoded(item.nw)) /\ ByteCount(Encoded(item.nw)) \in 0 .. 1409
  <1> DEFINE link == S.link
             rt == link.reply_to
             nw == item.nw
             nonce == <<"link", nw.nonce>>
  <1>1. Sendable(rt, nw, link, nonce) /\ Encoded(nw) = Written(rt, nw, link, nonce)
    BY GivenIsSendable DEF AsWritten
  <1> HIDE DEF link, rt, nw, nonce
  <1>2. CASE link.remote_pid = Absent
    BY <1>1, <1>2, ClearLayout DEF nw
  <1>3. CASE link.remote_pid # Absent
    BY <1>1, <1>3, SealedLayout DEF nw
  <1> QED
    BY <1>2, <1>3

\* The other end decodes a frame that can be corrected, if it is for that end.
LEMMA CorrectedIsDecoded ==
  ASSUME SetUp, NEW item \in Given, NEW w \in Nat, w <= MaxCorrected, NEW r \in Receiver
  PROVE  decode(Frame(Encoded(item.nw), w), S.remote[r]) =
           {IF S.link.remote_pid \in {Absent, S.remote[r].sid}
            THEN [reply_to |-> S.link.reply_to, nw |-> item.nw] ELSE Failed}
  <1> DEFINE b == Encoded(item.nw)
             f == Frame(b, w)
  <1>1. f.bytes = b /\ f.wrong = w
    BY DEF Frame
  <1>2. ~(EncodedSize(ByteCount(b)) > RECV_BUFFER_SIZE)
    <2>1. ByteCount(b) \in 0 .. 1409
      BY EncodedBytes
    <2> HIDE DEF b
    <2> QED
      BY <2>1, FitsDatagram
  <1> HIDE DEF b, f
  <1>3. decode(f, S.remote[r]) = {deserialize_link_packet(b, S.remote[r])}
    BY <1>1, <1>2 DEF decode
  <1>4. S.remote[r].remote_pid = Absent <=> S.link.remote_pid = Absent
    BY EndsAssumption DEF SetUp, S
  <1>5. deserialize_link_packet(b, S.remote[r]) =
          IF S.link.remote_pid \in {Absent, S.remote[r].sid}
          THEN [reply_to |-> S.link.reply_to, nw |-> item.nw] ELSE Failed
    <2> DEFINE link == S.link
               remote == S.remote[r]
               rt == link.reply_to
               nw == item.nw
               nonce == <<"link", nw.nonce>>
    <2>1. Sendable(rt, nw, link, nonce) /\ b = Written(rt, nw, link, nonce)
      BY GivenIsSendable DEF AsWritten, b
    <2>2. remote.remote_pid = Absent <=> link.remote_pid = Absent
      BY <1>4
    <2> HIDE DEF link, remote, rt, nw, nonce
    <2>3. deserialize_link_packet(b, remote) =
            IF link.remote_pid \in {Absent, remote.sid}
            THEN [reply_to |-> rt, nw |-> nw] ELSE Failed
      BY <2>1, <2>2, LinkPacketRoundTrip
    <2> QED
      BY <2>3 DEF link, remote, rt, nw
  <1> QED
    BY <1>3, <1>5 DEF f, b

LEMMA ChangedIsLike ==
  ASSUME NEW s, AreBytes(s), NEW b \in Changed(s)
  PROVE  Like(b, s)
  <1>1. PICK i \in DOMAIN s : b = [s EXCEPT ![i].value = Torn]
    BY DEF Changed
  <1>2. PICK T : s \in Seq(T) /\ \A f \in T : IsField(f)
    BY DEF AreBytes
  <1>3. /\ Len(s) \in Nat /\ DOMAIN s = 1 .. Len(s)
        /\ \A j \in 1 .. Len(s) : s[j].size \in Nat \ {0} /\ IsField(s[j])
    BY BytesProperties
  <1> DEFINE torn == [s[i] EXCEPT !.value = Torn]
  <1>4. IsField(torn) /\ torn.size = s[i].size /\ torn.value = Torn
    BY <1>3 DEF IsField
  <1> HIDE DEF torn
  <1>5. b = [s EXCEPT ![i] = torn]
    BY <1>1 DEF torn
  <1>6. b \in Seq(T \cup {torn}) /\ Len(b) = Len(s)
    BY <1>2, <1>3, <1>5
  <1>7. AreBytes(b)
    BY <1>2, <1>4, <1>6 DEF AreBytes
  <1>8. \A j \in 1 .. Len(s) : b[j] = IF j = i THEN torn ELSE s[j]
    BY <1>3, <1>5
  <1> QED
    BY <1>4, <1>6, <1>7, <1>8 DEF Like

LEMMA BytesAreLike ==
  ASSUME NEW s, AreBytes(s)
  PROVE  Like(s, s)
  BY DEF Like

\* Whatever noise does to a sealed frame, it holds the packet or none.
LEMMA SealedIsGenuine ==
  ASSUME SetUp, Sealed, NEW item \in Given, NEW w, NEW r \in Receiver,
         NEW lp \in decode(Frame(Encoded(item.nw), w), S.remote[r]), lp # Failed
  PROVE  lp.nw = item.nw
  <1> DEFINE b == Encoded(item.nw)
             f == Frame(b, w)
  <1>1. f.bytes = b
    BY DEF Frame
  <1>2. AreBytes(b)
    BY EncodedBytes
  <1> HIDE DEF b, f
  <1>3. PICK d \in Changed(b) \cup {b} : lp = deserialize_link_packet(d, S.remote[r])
    BY <1>1 DEF decode, f, b
  <1>4. Like(d, b)
    BY <1>2, ChangedIsLike, BytesAreLike
  <1>5. S.remote[r].remote_pid # Absent /\ S.link.remote_pid # Absent
    BY EndsAssumption DEF SetUp, S, Sealed
  <1>6. b = Written(S.link.reply_to, item.nw, S.link, <<"link", item.nw.nonce>>)
    BY GivenIsSendable DEF b, AsWritten
  <1> QED
    BY <1>3, <1>4, <1>5, <1>6, GivenIsSendable, SealedOrFailed

LEMMA FrameContents ==
  ASSUME Typed, NEW f \in Frames
  PROVE  \E item \in Given, w \in Wrong :
            item \in ToSet(Handed) /\ f = Frame(Encoded(item.nw), w)
  <1>1. ToSet(Handed) \subseteq Given
    BY HandedType DEF Typed, Shape, ToSet
  <1> QED
    BY <1>1 DEF Frames

LEMMA NoNoise ==
  ASSUME Typed, faults.noise = 0, NEW w \in Wrong
  PROVE  w \in Nat /\ w <= MaxCorrected
  BY DEF Wrong, MaxCorrected, CODE_SIZE

LEMMA DeliveredContents ==
  ASSUME Typed, NEW r \in Receiver, NEW k \in DOMAIN delivered[r], Sealed \/ faults.noise = 0
  PROVE  \E item \in ToSet(Handed) : item \in Given /\ delivered[r][k].lp.nw = item.nw
  <1>1. delivered[r][k] \in Packets(r)
    <2>1. delivered[r] \in Seq(Packets(r))
      BY DEF Typed, Handled
    <2> QED
      BY <2>1, LenProperties, ElementOfSeq
  <1>2. PICK f \in Frames :
          \E lp \in decode(f, S.remote[r]) : lp # Failed /\ delivered[r][k] = Inbound(r, lp)
    BY <1>1 DEF Packets
  <1>3. PICK lp \in decode(f, S.remote[r]) : lp # Failed /\ delivered[r][k] = Inbound(r, lp)
    BY <1>2
  <1>4. PICK item \in Given, w \in Wrong :
          item \in ToSet(Handed) /\ f = Frame(Encoded(item.nw), w)
    BY FrameContents
  <1>5. delivered[r][k].lp = lp
    BY <1>3 DEF Inbound
  <1>6. SetUp
    BY DEF Typed, Shape
  <1>7. lp.nw = item.nw
    <2>1. CASE Sealed
      BY <1>4, <1>6, <1>3, <2>1, SealedIsGenuine
    <2>2. CASE faults.noise = 0
      <3>1. w \in Nat /\ w <= MaxCorrected
        BY <2>2, NoNoise
      <3>2. decode(f, S.remote[r]) =
              {IF S.link.remote_pid \in {Absent, S.remote[r].sid}
               THEN [reply_to |-> S.link.reply_to, nw |-> item.nw] ELSE Failed}
        BY <1>4, <1>6, <3>1, CorrectedIsDecoded
      <3> QED
        BY <1>3, <3>2
    <2> QED
      BY <2>1, <2>2
  <1> QED
    BY <1>4, <1>5, <1>7

LEMMA NextOnlyNoiseDeafens ==
  ASSUME Typed, OnlyNoiseDeafens, [Next]_vars
  PROVE  OnlyNoiseDeafens'
  <1>1. S' = S /\ faults.noise \in Nat /\ faults'.noise \in Nat /\ faults.noise <= faults'.noise
    BY NothingIsForgotten, LinkBoundsAssumption DEF Typed, Shape, FaultsOK
  <1>2. CASE UNCHANGED inbound
    BY <1>1, <1>2 DEF OnlyNoiseDeafens
  <1>3. ASSUME NEW q \in Receiver, NEW n, Decode(q, n) PROVE OnlyNoiseDeafens'
    <2>1. faults' = faults /\ \A r \in Receiver : r # q => inbound'[r] = inbound[r]
      BY <1>3 DEF Decode, Typed, Shape
    <2>2. ASSUME inbound'[q] = "over", faults.noise = 0
          PROVE  S.link.remote_pid \notin {Absent, S.remote[q].sid}
      <3>1. wire[q][n] \in Frames
        <4>1. n \in DOMAIN wire[q] /\ wire[q] \in Seq(Frames)
          BY <1>3 DEF Decode, Takeable, Typed, Handled
        <4> QED
          BY <4>1, LenProperties, ElementOfSeq
      <3>2. PICK item \in Given, w \in Wrong : wire[q][n] = Frame(Encoded(item.nw), w)
        BY <3>1, FrameContents
      <3>3. Failed \in decode(wire[q][n], S.remote[q])
        BY <1>3, <2>2 DEF Decode, Typed, Shape
      <3>4. SetUp /\ w \in Nat /\ w <= MaxCorrected
        BY <2>2, NoNoise DEF Typed, Shape
      <3>5. decode(wire[q][n], S.remote[q]) =
              {IF S.link.remote_pid \in {Absent, S.remote[q].sid}
               THEN [reply_to |-> S.link.reply_to, nw |-> item.nw] ELSE Failed}
        BY <3>2, <3>4, CorrectedIsDecoded
      <3>6. [reply_to |-> S.link.reply_to, nw |-> item.nw] # Failed
        BY <3>4, GivenIsSendable
      <3> QED
        BY <3>3, <3>5, <3>6
    <2> QED
      BY <1>1, <2>1, <2>2 DEF OnlyNoiseDeafens
  <1> QED
    BY <1>2, <1>3 DEF Next, Send, Outbound, EncodeNext, SendFrame, SendDatagram, InboundStep,
       SendOn, Receive, Network, vars, linkVars
-----------------------------------------------------------------------------
(* How many packets are where. *)

(***************************************************************************)
(* Frames sent to receiver r; one that ended its inbound thread is         *)
(* nowhere.  The lengths have names because the provers do not add up      *)
(* terms like Len(wire[r]).                                                *)
(***************************************************************************)
Taken(r)   == Len(delivered[r])
Waiting(r) == Len(l2bs[r])
InHand(r)  == Len(arriving[r])
OnWire(r)  == Len(wire[r])
Over(r)    == IF inbound[r] = "over" THEN 1 ELSE 0

\* Packets its inbound thread made of them.
Decoded(r) == Taken(r) + Waiting(r) + InHand(r)

Sent(r) == Decoded(r) + Over(r) + OnWire(r)

Queued      == Len(bs2l)
HandedCount == Len(Handed)
Lost        == faults.losses

\* Whether the frame that is being sent has still to be sent to r.
Due(r) == IF r \in ToSet(sending.left) THEN 1 ELSE 0

SendingOnce ==
  /\ ToSet(sending.left) \subseteq Connected
  /\ \A i, j \in DOMAIN sending.left : i # j => sending.left[i] # sending.left[j]
  /\ S.kind = "UdpIp" => sending.left = << >>

Balance(r) ==
  IF S.kind = "UdpIp"
  THEN Sent(r) + Queued + Lost >= HandedCount
  ELSE Sent(r) + Due(r) + Queued = HandedCount

Bounds(r) ==
  /\ S.kind # "UdpIp" => Len(wire[r]) <= BufferSize
  /\ Len(l2bs[r]) <= BufferSize
  /\ Len(arriving[r]) <= 1
  /\ inbound[r] = "over" => arriving[r] = << >>

Untouched(r) ==
  /\ wire[r] = << >> /\ arriving[r] = << >>
  /\ l2bs[r] = << >> /\ delivered[r] = << >>

Counted ==
  /\ Len(bs2l) <= BufferSize
  /\ SendingOnce
  /\ \A r \in Receiver : Bounds(r) /\ IF r \in Connected THEN Balance(r) ELSE Untouched(r)

LEMMA Lengths ==
  ASSUME Typed
  PROVE  /\ Len(bs2l) \in Nat /\ Len(sending.left) \in Nat /\ Len(Handed) \in Nat
         /\ faults.losses \in Nat
         /\ \A r \in Receiver : /\ Len(wire[r]) \in Nat /\ Len(arriving[r]) \in Nat
                                /\ Len(l2bs[r]) \in Nat /\ Len(delivered[r]) \in Nat
  BY HandedType, LenProperties, LinkBoundsAssumption DEF Typed, Shape, Handled, FaultsOK

LEMMA TypedLengths ==
  ASSUME Typed, NEW r \in Receiver
  PROVE  /\ Sent(r) \in Nat /\ Due(r) \in Nat /\ Over(r) \in Nat /\ Decoded(r) \in Nat
         /\ Taken(r) \in Nat /\ Waiting(r) \in Nat /\ InHand(r) \in Nat /\ OnWire(r) \in Nat
         /\ Queued \in Nat /\ HandedCount \in Nat /\ Lost \in Nat
  <1>1. Due(r) \in Nat /\ Over(r) \in Nat
    BY DEF Due, Over
  <1>2. Taken(r) \in Nat /\ Waiting(r) \in Nat /\ InHand(r) \in Nat /\ OnWire(r) \in Nat
    BY Lengths DEF Taken, Waiting, InHand, OnWire
  <1>3. Decoded(r) \in Nat
    BY <1>2 DEF Decoded
  <1> QED
    BY <1>1, <1>2, <1>3, Lengths DEF Sent, Queued, HandedCount, Lost

LEMMA InitCounted == Init => Counted
  <1> SUFFICES ASSUME Init PROVE Counted
    OBVIOUS
  <1>1. Len(Handed) = 0
    <2>1. SubSeq(S.items, 1, 0) = << >>
      <3>1. S.items \in Seq(ToSet(S.items))
        BY InitTyped, ItemsType DEF Typed, Shape
      <3> QED
        BY <3>1
    <2>2. Handed = << >>
      BY <2>1, OnlyEmpty DEF Handed, Init
    <2> QED
      BY <2>2
  <1>2. SendingOnce
    BY DEF Init, SendingOnce, NoFrame, ToSet
  <1>3. ASSUME NEW r \in Receiver PROVE Bounds(r) /\ Untouched(r) /\ Balance(r)
    BY <1>1, LinkBoundsAssumption
       DEF Init, Bounds, Untouched, Balance, Queued, HandedCount, Lost, Sent, Over, Decoded, Taken, Waiting, InHand, OnWire, Due, NoFrame, ToSet
  <1> QED
    BY <1>2, <1>3, LinkBoundsAssumption DEF Counted, Init

LEMMA SendCounted ==
  ASSUME Typed, Counted, Send
  PROVE  Counted'
  <1>1. S' = S /\ Connected' = Connected
    BY DEF Send, S, Connected, BoundTo
  <1>2. SendingOnce'
    BY <1>1 DEF Counted, SendingOnce, Send
  <1>3. /\ Len(bs2l') <= BufferSize
        /\ \/ Queued' = Queued /\ HandedCount' = HandedCount
           \/ Queued' = Queued + 1 /\ HandedCount' = HandedCount + 1
    <2>1. Handed' = IF S.items[asked + 1].nw = Failed
                    THEN Handed ELSE Append(Handed, S.items[asked + 1])
      BY HandedGrows DEF Send, Typed, Shape
    <2>2. CASE S.items[asked + 1].nw = Failed
      BY <2>1, <2>2 DEF Send, Counted, Queued, HandedCount
    <2>3. CASE S.items[asked + 1].nw # Failed
      <3>1. Len(Handed') = Len(Handed) + 1
        BY <2>1, <2>3, HandedType DEF Typed, Shape
      <3>2. Len(bs2l') = Len(bs2l) + 1 /\ Len(bs2l) < BufferSize
        BY <2>3 DEF Send, Typed, Handled
      <3> QED
        BY <3>1, <3>2, Lengths, LinkBoundsAssumption DEF Queued, HandedCount
    <2> QED
      BY <2>2, <2>3
  <1>4. ASSUME NEW r \in Receiver
        PROVE  Bounds(r)' /\ IF r \in Connected' THEN Balance(r)' ELSE Untouched(r)'
    <2>1. Bounds(r)' /\ (Untouched(r) => Untouched(r)') /\ Sent(r)' = Sent(r) /\ Due(r)' = Due(r)
      BY <1>1 DEF Counted, Bounds, Untouched, Send, Sent, Over, Decoded, Taken, Waiting, InHand, OnWire, Due
    <2>2. Balance(r) => Balance(r)'
      <3>1. Lost' = Lost
        BY DEF Send, Lost
      <3> QED
        <4>1. CASE Queued' = Queued /\ HandedCount' = HandedCount
          BY <1>1, <2>1, <3>1, <4>1 DEF Balance
        <4>2. CASE Queued' = Queued + 1 /\ HandedCount' = HandedCount + 1
          BY <1>1, <2>1, <3>1, <4>2, TypedLengths DEF Balance
        <4> QED
          BY <1>3, <4>1, <4>2
    <2> QED
      BY <1>1, <2>1, <2>2 DEF Counted
  <1> QED
    BY <1>2, <1>3, <1>4 DEF Counted

LEMMA EncodeNextCounted ==
  ASSUME Typed, Counted, EncodeNext
  PROVE  Counted'
  <1>1. S' = S /\ Connected' = Connected /\ Handed' = Handed
    BY HandedSame DEF EncodeNext, Connected, BoundTo
  <1>2. sending'.left = S.ends /\ S.kind # "UdpIp" /\ Connected = ToSet(S.ends)
    BY DEF EncodeNext, Connected
  <1>3. SendingOnce'
    BY <1>1, <1>2, ItemsType DEF SendingOnce, Typed, Shape
  <1>4. Len(bs2l') = Len(bs2l) - 1
    BY DEF EncodeNext, Typed, Handled
  <1>5. ASSUME NEW r \in Receiver
        PROVE  Bounds(r)' /\ IF r \in Connected' THEN Balance(r)' ELSE Untouched(r)'
    <2>1. Bounds(r)' /\ (Untouched(r) => Untouched(r)') /\ Sent(r)' = Sent(r)
      BY <1>1 DEF Counted, Bounds, Untouched, EncodeNext, Sent, Over, Decoded, Taken, Waiting, InHand, OnWire
    <2>2. ASSUME r \in Connected PROVE Balance(r)'
      <3>1. Due(r) = 0 /\ Due(r)' = 1
        BY <1>2, <2>2 DEF Due, EncodeNext, ToSet
      <3>2. Balance(r)
        BY <2>2 DEF Counted
      <3> QED
        <4>1. Queued' = Queued - 1 /\ HandedCount' = HandedCount
          BY <1>1, <1>4 DEF Queued, HandedCount
        <4> QED
          BY <1>1, <1>2, <2>1, <3>1, <3>2, <4>1, TypedLengths DEF Balance
    <2> QED
      BY <1>1, <2>1, <2>2 DEF Counted
  <1> QED
    BY <1>3, <1>4, <1>5, Lengths, LinkBoundsAssumption DEF Counted

LEMMA SendFrameCounted ==
  ASSUME Typed, Counted, SendFrame
  PROVE  Counted'
  <1> DEFINE end == Head(sending.left)
  <1>1. S' = S /\ Connected' = Connected /\ Handed' = Handed
    BY HandedSame DEF SendFrame, Connected, BoundTo
  <1>2. S.kind # "UdpIp" /\ end \in Receiver /\ end \in ToSet(sending.left)
    BY HeadTailProperties DEF SendFrame, Counted, SendingOnce, Typed, Handled, ToSet
  <1>3. sending'.left = Tail(sending.left)
    <2>1. Len(sending.left) = 1 => Tail(sending.left) = << >>
      BY TailElements DEF Typed, Handled, SendFrame
    <2> QED
      BY <2>1 DEF SendFrame, NoFrame, Typed, Shape
  <1>4. /\ DOMAIN sending.left = 1 .. Len(sending.left)
        /\ DOMAIN sending'.left = 1 .. Len(sending.left) - 1
        /\ \A i \in 1 .. Len(sending.left) - 1 : sending'.left[i] = sending.left[i + 1]
        /\ Len(sending.left) \in Nat \ {0}
        /\ end = sending.left[1]
    BY <1>3, TailElements DEF Typed, Handled, SendFrame
  <1>5. SendingOnce' /\ ToSet(sending'.left) = ToSet(sending.left) \ {end}
    <2>1. \A i, j \in 1 .. Len(sending.left) : i # j => sending.left[i] # sending.left[j]
      BY <1>4 DEF Counted, SendingOnce
    <2>2. \A i, j \in DOMAIN sending'.left : i # j => sending'.left[i] # sending'.left[j]
      BY <1>4, <2>1, SMTT(30)
    <2>3. ASSUME NEW e PROVE e \in ToSet(sending'.left) <=> e \in ToSet(sending.left) \ {end}
      <3>1. e \in ToSet(sending'.left) <=> \E i \in 2 .. Len(sending.left) : e = sending.left[i]
        <4>1. ASSUME NEW i \in 2 .. Len(sending.left), e = sending.left[i]
              PROVE  e \in ToSet(sending'.left)
          <5>1. i - 1 \in 1 .. Len(sending.left) - 1 /\ (i - 1) + 1 = i
            BY <1>4
          <5>2. e = sending'.left[i - 1]
            BY <1>4, <4>1, <5>1
          <5> QED
            BY <1>4, <5>1, <5>2 DEF ToSet
        <4>2. ASSUME NEW i \in 1 .. Len(sending.left) - 1, e = sending'.left[i]
              PROVE  \E j \in 2 .. Len(sending.left) : e = sending.left[j]
          <5>1. i + 1 \in 2 .. Len(sending.left)
            BY <1>4
          <5> QED
            BY <1>4, <4>2, <5>1
        <4> QED
          BY <1>4, <4>1, <4>2 DEF ToSet
      <3>2. e \in ToSet(sending.left) <=> \E i \in 1 .. Len(sending.left) : e = sending.left[i]
        BY <1>4 DEF ToSet
      <3>3. \A i \in 1 .. Len(sending.left) : i \in 2 .. Len(sending.left) <=> i # 1
        BY <1>4
      <3> QED
        BY <1>4, <2>1, <3>1, <3>2, <3>3
    <2> QED
      BY <1>1, <1>2, <2>2, <2>3 DEF Counted, SendingOnce
  <1>6. ASSUME NEW r \in Receiver
        PROVE  Bounds(r)' /\ IF r \in Connected' THEN Balance(r)' ELSE Untouched(r)'
    <2>1. CASE r = end
      <3>1. OnWire(r)' = OnWire(r) + 1
        BY <2>1 DEF SendFrame, Typed, Handled, Shape, OnWire
      <3>2. Due(r) = 1 /\ Due(r)' = 0
        BY <1>2, <1>5, <2>1 DEF Due
      <3>3. Sent(r)' = Sent(r) + 1
        <4>1. Over(r)' = Over(r) /\ Decoded(r)' = Decoded(r)
          BY DEF Over, Decoded, Taken, Waiting, InHand, OnWire, SendFrame
        <4> QED
          BY <3>1, <4>1, TypedLengths DEF Sent
      <3>4. Balance(r) /\ r \in Connected
        BY <1>2, <2>1 DEF Counted, SendingOnce
      <3>5. Balance(r)'
        <4>1. Queued' = Queued /\ HandedCount' = HandedCount
          BY <1>1 DEF Queued, HandedCount, SendFrame
        <4> QED
          BY <1>1, <1>2, <3>2, <3>3, <3>4, <4>1, TypedLengths DEF Balance
      <3>6. OnWire(r) < BufferSize
        BY <2>1 DEF SendFrame, OnWire
      <3>7. Bounds(r)'
        <4>1. OnWire(r)' <= BufferSize
          BY <3>1, <3>6, TypedLengths, LinkBoundsAssumption
        <4> QED
          BY <1>1, <4>1 DEF Counted, Bounds, SendFrame, OnWire
      <3> QED
        BY <1>1, <3>4, <3>5, <3>7
    <2>2. CASE r # end
      <3>1. wire'[r] = wire[r]
        BY <2>2 DEF SendFrame, Typed, Shape
      <3>2. Due(r)' = Due(r)
        BY <1>5, <2>2 DEF Due
      <3> QED
        BY <1>1, <3>1, <3>2 DEF Counted, Bounds, Balance, Queued, HandedCount, Lost, Untouched, Sent, Over, Decoded, Taken, Waiting, InHand, OnWire, SendFrame
    <2> QED
      BY <2>1, <2>2
  <1> QED
    BY <1>1, <1>5, <1>6 DEF Counted, SendFrame

LEMMA SendDatagramCounted ==
  ASSUME Typed, Counted, SendDatagram
  PROVE  Counted'
  <1>1. S' = S /\ Connected' = Connected /\ Handed' = Handed
    BY HandedSame DEF SendDatagram, Connected, BoundTo
  <1>2. S.kind = "UdpIp" /\ UNCHANGED <<sending, faults>>
    BY DEF SendDatagram
  <1>3. Connected = {r \in BoundTo(S.to) : S.to.type \in {"UdpIp4", "UdpIp6"}}
    BY <1>2 DEF Connected
  <1>4. Len(bs2l') = Len(bs2l) - 1 /\ Len(bs2l) \in Nat
    BY DEF SendDatagram, Typed, Handled
  <1>5. ASSUME NEW r \in Receiver
        PROVE  Bounds(r)' /\ IF r \in Connected' THEN Balance(r)' ELSE Untouched(r)'
    <2>1. Bounds(r)' /\ Over(r)' = Over(r) /\ Decoded(r)' = Decoded(r)
      BY <1>1, <1>2 DEF Counted, Bounds, SendDatagram, Over, Decoded, Taken, Waiting, InHand, OnWire
    <2>2. CASE r \in Connected
      <3>1. OnWire(r)' = OnWire(r) + 1
        BY <1>3, <2>2 DEF SendDatagram, Typed, Handled, OnWire
      <3>2. Sent(r)' = Sent(r) + 1
        BY <2>1, <3>1, TypedLengths DEF Sent
      <3>3. Balance(r)
        BY <2>2 DEF Counted
      <3> QED
        <4>1. Queued' = Queued - 1 /\ HandedCount' = HandedCount /\ Lost' = Lost
          BY <1>1, <1>2, <1>4 DEF Queued, HandedCount, Lost
        <4> QED
          BY <1>1, <1>2, <2>1, <2>2, <3>2, <3>3, <4>1, TypedLengths DEF Balance
    <2>3. CASE r \notin Connected
      BY <1>1, <1>3, <2>1, <2>3 DEF SendDatagram, Untouched, Counted
    <2> QED
      BY <2>2, <2>3
  <1> QED
    BY <1>1, <1>2, <1>4, <1>5, LinkBoundsAssumption DEF Counted, SendingOnce

LEMMA DecodeCounted ==
  ASSUME Typed, Counted, NEW q \in Receiver, NEW n, Decode(q, n)
  PROVE  Counted'
  <1>1. S' = S /\ Connected' = Connected /\ Handed' = Handed
    BY HandedSame DEF Decode, Connected, BoundTo
  <1>2. UNCHANGED <<sending, faults, bs2l, l2bs, delivered>>
    BY DEF Decode
  <1>3. n \in 1 .. Len(wire[q]) /\ wire[q] \in Seq(Frames)
    BY LenProperties DEF Decode, Takeable, Typed, Handled
  <1>4. OnWire(q)' = OnWire(q) - 1
    BY <1>3, RemoveAtProperties DEF Decode, Typed, Shape, OnWire
  <1>5. /\ Over(q) = 0 /\ InHand(q) = 0
        /\ (InHand(q)' = 1 /\ Over(q)' = 0) \/ (InHand(q)' = 0 /\ Over(q)' = 1)
        /\ inbound'[q] = "over" => arriving'[q] = << >>
    <2>1. CASE inbound' = [inbound EXCEPT ![q] = "over"] /\ UNCHANGED arriving
      BY <2>1 DEF Decode, Over, Typed, Shape, InHand
    <2>2. ASSUME NEW p, arriving' = [arriving EXCEPT ![q] = <<p>>], UNCHANGED inbound
          PROVE  /\ Over(q) = 0 /\ InHand(q) = 0
                 /\ InHand(q)' = 1 /\ Over(q)' = 0 /\ inbound'[q] # "over"
      BY <2>2 DEF Decode, Over, Typed, Shape, InHand
    <2> QED
      BY <2>1, <2>2 DEF Decode
  <1>6. ASSUME NEW r \in Receiver
        PROVE  Bounds(r)' /\ IF r \in Connected' THEN Balance(r)' ELSE Untouched(r)'
    <2>1. CASE r # q
      <3>1. /\ wire'[r] = wire[r] /\ arriving'[r] = arriving[r] /\ inbound'[r] = inbound[r]
        BY <2>1 DEF Decode, Typed, Shape
      <3> QED
        BY <1>1, <1>2, <3>1 DEF Counted, Bounds, Balance, Queued, HandedCount, Lost, Untouched, Sent, Over, Decoded, Taken, Waiting, InHand, OnWire, Due
    <2>2. CASE r = q
      <3>1. Sent(r)' = Sent(r)
        <4>1. Taken(r)' = Taken(r) /\ Waiting(r)' = Waiting(r)
          BY <1>2 DEF Taken, Waiting
        <4>2. Decoded(r)' = Taken(r) + Waiting(r) + InHand(r)'
          BY <4>1 DEF Decoded
        <4>3. Decoded(r) = Taken(r) + Waiting(r) + InHand(r)
          BY DEF Decoded
        <4>4. Sent(r)' = Decoded(r)' + Over(r)' + OnWire(r)'
          BY DEF Sent
        <4>5. Sent(r) = Decoded(r) + Over(r) + OnWire(r)
          BY DEF Sent
        <4> QED
          <5>1. CASE InHand(r)' = 1 /\ Over(r)' = 0
            <6>1. Decoded(r)' = Decoded(r) + 1
              BY <1>5, <2>2, <4>2, <4>3, <5>1, TypedLengths
            <6>2. Over(r) = 0 /\ OnWire(r)' = OnWire(r) - 1
              BY <1>4, <1>5, <2>2
            <6> QED
              BY <4>4, <4>5, <5>1, <6>1, <6>2, TypedLengths
          <5>2. CASE InHand(r)' = 0 /\ Over(r)' = 1
            BY <1>4, <1>5, <2>2, <4>2, <4>3, <4>4, <4>5, <5>2, TypedLengths, SMTT(30)
          <5> QED
            BY <1>5, <2>2, <5>1, <5>2
      <3>2. r \in Connected
        BY <1>3, <2>2 DEF Counted, Untouched
      <3>3. Balance(r)'
        BY <1>1, <1>2, <3>1, <3>2 DEF Counted, Balance, Queued, HandedCount, Lost, Due
      <3>4. Bounds(r)'
        <4>1. OnWire(r)' <= OnWire(r) /\ InHand(r)' <= 1
          BY <1>4, <1>5, <2>2, TypedLengths
        <4>2. S.kind # "UdpIp" => OnWire(r) <= BufferSize
          BY DEF Counted, Bounds, OnWire
        <4>3. S.kind # "UdpIp" => OnWire(r)' <= BufferSize
          BY <1>4, <2>2, <4>1, <4>2, TypedLengths, LinkBoundsAssumption
        <4> QED
          BY <1>1, <1>2, <1>5, <2>2, <4>1, <4>3 DEF Counted, Bounds, OnWire, InHand
      <3> QED
        BY <1>1, <3>2, <3>3, <3>4
    <2> QED
      BY <2>1, <2>2
  <1> QED
    BY <1>1, <1>2, <1>6 DEF Counted, SendingOnce

LEMMA SendOnCounted ==
  ASSUME Typed, Counted, NEW q \in Receiver, SendOn(q)
  PROVE  Counted'
  <1>1. S' = S /\ Connected' = Connected /\ Handed' = Handed
    BY HandedSame DEF SendOn, Connected, BoundTo
  <1>2. UNCHANGED <<sending, faults, bs2l, wire, inbound, delivered>>
    BY DEF SendOn
  <1>3. InHand(q) = 1 /\ InHand(q)' = 0 /\ arriving'[q] = << >>
    <2>1. InHand(q) # 0 /\ InHand(q) <= 1
      BY DEF InHand, SendOn, Counted, Bounds, Typed, Handled
    <2>2. InHand(q)' = 0 /\ arriving'[q] = << >>
      BY DEF InHand, SendOn, Typed, Shape
    <2> QED
      BY <2>1, <2>2, TypedLengths
  <1>4. Waiting(q)' = Waiting(q) + 1
    <2>1. l2bs'[q] = l2bs[q] \o arriving[q]
      BY DEF SendOn, Typed, Shape
    <2>2. Waiting(q)' = Waiting(q) + InHand(q)
      BY <2>1 DEF Waiting, InHand, Typed, Handled
    <2> QED
      BY <1>3, <2>2
  <1>5. ASSUME NEW r \in Receiver
        PROVE  Bounds(r)' /\ IF r \in Connected' THEN Balance(r)' ELSE Untouched(r)'
    <2>1. CASE r # q
      <3>1. l2bs'[r] = l2bs[r] /\ arriving'[r] = arriving[r]
        BY <2>1 DEF SendOn, Typed, Shape
      <3> QED
        BY <1>1, <1>2, <3>1 DEF Counted, Bounds, Balance, Queued, HandedCount, Lost, Untouched, Sent, Over, Decoded, Taken, Waiting, InHand, OnWire, Due
    <2>2. CASE r = q
      <3>1. Decoded(r)' = Decoded(r)
        <4>1. Taken(r)' = Taken(r)
          BY <1>2 DEF Taken
        <4> QED
          BY <1>3, <1>4, <2>2, <4>1, TypedLengths, SMTT(30) DEF Decoded
      <3>2. r \in Connected
        BY <2>2 DEF Counted, Untouched, SendOn
      <3>3. Balance(r)'
        BY <1>1, <1>2, <3>1, <3>2 DEF Counted, Balance, Queued, HandedCount, Lost, Due, Sent, Over, OnWire
      <3>4. Bounds(r)'
        BY <1>1, <1>2, <1>3, <1>4, <2>2, TypedLengths, LinkBoundsAssumption, SMTT(30)
           DEF Counted, Bounds, SendOn, Waiting, InHand
      <3> QED
        BY <1>1, <3>2, <3>3, <3>4
    <2> QED
      BY <2>1, <2>2
  <1> QED
    BY <1>1, <1>2, <1>5 DEF Counted, SendingOnce

LEMMA ReceiveCounted ==
  ASSUME Typed, Counted, NEW q \in Receiver, Receive(q)
  PROVE  Counted'
  <1>1. S' = S /\ Connected' = Connected /\ Handed' = Handed
    BY HandedSame DEF Receive, Connected, BoundTo
  <1>2. UNCHANGED <<sending, faults, bs2l, wire, inbound, arriving>>
    BY DEF Receive
  <1>3. Waiting(q)' = Waiting(q) - 1 /\ Taken(q)' = Taken(q) + 1
    BY DEF Receive, Typed, Shape, Handled, Waiting, Taken
  <1>4. ASSUME NEW r \in Receiver
        PROVE  Bounds(r)' /\ IF r \in Connected' THEN Balance(r)' ELSE Untouched(r)'
    <2>1. CASE r # q
      <3>1. l2bs'[r] = l2bs[r] /\ delivered'[r] = delivered[r]
        BY <2>1 DEF Receive, Typed, Shape
      <3> QED
        BY <1>1, <1>2, <3>1 DEF Counted, Bounds, Balance, Queued, HandedCount, Lost, Untouched, Sent, Over, Decoded, Taken, Waiting, InHand, OnWire, Due
    <2>2. CASE r = q
      <3>1. Decoded(r)' = Decoded(r)
        <4>1. InHand(r)' = InHand(r)
          BY <1>2 DEF InHand
        <4> QED
          BY <1>3, <2>2, <4>1, TypedLengths DEF Decoded
      <3>2. r \in Connected
        BY <2>2 DEF Counted, Untouched, Receive
      <3>3. Balance(r)'
        BY <1>1, <1>2, <3>1, <3>2 DEF Counted, Balance, Queued, HandedCount, Lost, Due, Sent, Over, OnWire
      <3>4. Bounds(r)'
        BY <1>1, <1>2, <1>3, <2>2, TypedLengths, LinkBoundsAssumption, SMTT(30)
          DEF Counted, Bounds, Waiting
      <3> QED
        BY <1>1, <3>2, <3>3, <3>4
    <2> QED
      BY <2>1, <2>2
  <1> QED
    BY <1>1, <1>2, <1>4 DEF Counted, SendingOnce

LEMMA NetworkCounted ==
  ASSUME Typed, Counted, NEW q \in Receiver, NEW n \in DOMAIN wire[q], Network(q, n)
  PROVE  Counted'
  <1>1. S' = S /\ Connected' = Connected /\ Handed' = Handed
    BY HandedSame DEF Network, Connected, BoundTo
  <1>2. UNCHANGED <<sending, bs2l, l2bs, inbound, arriving, delivered>> /\ S.kind = "UdpIp"
    BY DEF Network
  <1>3. n \in 1 .. Len(wire[q]) /\ wire[q] \in Seq(Frames)
    BY LenProperties DEF Typed, Handled
  <1>4. /\ OnWire(q)' + Lost' >= OnWire(q) + Lost
        /\ Lost' \in Nat /\ Lost' >= Lost /\ OnWire(q)' \in Nat
    <2>1. CASE Lose(q, n)
      <3>1. OnWire(q)' = OnWire(q) - 1 /\ OnWire(q) # 0
        BY <1>3, <2>1, RemoveAtProperties DEF Lose, Typed, Shape, OnWire
      <3>2. Lost' = Lost + 1
        BY <2>1 DEF Lose, Typed, Shape, FaultsOK, Lost
      <3> QED
        BY <3>1, <3>2, TypedLengths
    <2>2. CASE Repeat(q, n)
      <3>1. OnWire(q)' = OnWire(q) + 1
        BY <1>3, <2>2 DEF Repeat, Typed, Shape, OnWire
      <3>2. Lost' = Lost
        BY <2>2 DEF Repeat, Typed, Shape, FaultsOK, Lost
      <3> QED
        BY <3>1, <3>2, TypedLengths
    <2>3. CASE Garble(q, n)
      <3>1. wire'[q] = [wire[q] EXCEPT ![n] = [wire[q][n] EXCEPT !.wrong = MaxCorrected + 1]]
        BY <2>3 DEF Garble, Typed, Shape
      <3>2. OnWire(q)' = OnWire(q)
        BY <1>3, <3>1 DEF OnWire
      <3>3. Lost' = Lost
        BY <2>3 DEF Garble, Typed, Shape, FaultsOK, Lost
      <3> QED
        BY <3>2, <3>3, TypedLengths
    <2> QED
      BY <2>1, <2>2, <2>3 DEF Network
  <1>5. ASSUME NEW r \in Receiver
        PROVE  Bounds(r)' /\ IF r \in Connected' THEN Balance(r)' ELSE Untouched(r)'
    <2>1. Bounds(r)' /\ Decoded(r)' = Decoded(r) /\ Over(r)' = Over(r)
      BY <1>1, <1>2 DEF Counted, Bounds, Decoded, Taken, Waiting, InHand, Over
    <2>2. r # q => wire'[r] = wire[r]
      BY DEF Network, Lose, Repeat, Garble, Typed, Shape
    <2>3. r = q => r \in Connected
      BY <1>3 DEF Counted, Untouched
    <2>4. r \notin Connected => Untouched(r)'
      BY <1>1, <1>2, <2>2, <2>3 DEF Counted, Untouched
    <2>5. ASSUME r \in Connected PROVE Balance(r)'
      <3>1. OnWire(r)' + Lost' >= OnWire(r) + Lost /\ OnWire(r)' \in Nat
        <4>1. CASE r = q
          BY <1>4, <4>1
        <4>2. CASE r # q
          <5>1. OnWire(r)' = OnWire(r)
            BY <2>2, <4>2 DEF OnWire
          <5> QED
            BY <1>4, <5>1, TypedLengths
        <4> QED
          BY <4>1, <4>2
      <3>2. Sent(r)' = Decoded(r) + Over(r) + OnWire(r)' /\ Sent(r) = Decoded(r) + Over(r) + OnWire(r)
        BY <2>1 DEF Sent
      <3>3. Sent(r)' + Lost' >= Sent(r) + Lost /\ Sent(r)' \in Nat
        BY <1>4, <3>1, <3>2, TypedLengths
      <3>4. Queued' = Queued /\ HandedCount' = HandedCount
        BY <1>1, <1>2 DEF Queued, HandedCount
      <3>5. Sent(r) + Queued + Lost >= HandedCount
        BY <1>2, <2>5 DEF Counted, Balance
      <3> QED
        BY <1>1, <1>2, <1>4, <3>3, <3>4, <3>5, TypedLengths DEF Balance
    <2> QED
      BY <1>1, <2>1, <2>4, <2>5
  <1> QED
    BY <1>1, <1>2, <1>5 DEF Counted, SendingOnce

LEMMA NextCounted == Typed /\ Counted /\ [Next]_vars => Counted'
  <1> SUFFICES ASSUME Typed, Counted, [Next]_vars PROVE Counted'
    OBVIOUS
  <1>1. CASE Send
    BY <1>1, SendCounted
  <1>2. CASE Outbound
    BY <1>2, EncodeNextCounted, SendFrameCounted, SendDatagramCounted DEF Outbound
  <1>3. CASE \E r \in Receiver : InboundStep(r) \/ Receive(r)
    BY <1>3, DecodeCounted, SendOnCounted, ReceiveCounted DEF InboundStep
  <1>4. CASE \E r \in Receiver : \E i \in DOMAIN wire[r] : Network(r, i)
    BY <1>4, NetworkCounted
  <1>5. CASE UNCHANGED vars
    <2>1. S' = S /\ Connected' = Connected /\ Handed' = Handed
      BY <1>5, HandedSame DEF vars, Connected, BoundTo
    <2> QED
      BY <1>5, <2>1 DEF Counted, SendingOnce, Bounds, Balance, Queued, HandedCount, Lost, Untouched, Sent, Decoded, Taken, Waiting, InHand, OnWire, Over, Due,
         vars, linkVars
  <1> QED
    BY <1>1, <1>2, <1>3, <1>4, <1>5 DEF Next

\* Every packet handed to a link is accounted for, at each of its ends, in every
\* reachable state: waiting, in some hand, on the transport, delivered, or lost
\* to an end that is deaf.
THEOREM LinkCounts == Spec => [](Typed /\ Counted)
  <1>1. Init => Typed /\ Counted
    BY InitTyped, InitCounted
  <1>2. Typed /\ Counted /\ [Next]_vars => (Typed /\ Counted)'
    BY NextTyped, NextCounted
  <1> QED
    BY <1>1, <1>2, PTL DEF Spec
-----------------------------------------------------------------------------
(* What comes in order. *)

PacketAt(nw, n) == n \in DOMAIN Handed /\ nw = Handed[n].nw

FrameAt(f, n) ==
  /\ n \in DOMAIN Handed
  /\ \E w \in 0 .. MaxCorrected : f = Frame(Encoded(Handed[n].nw), w)

SentAt(r, p, n) == n \in DOMAIN Handed /\ p = AsSent(r, Handed[n])

\* Where in what was handed each of the packets on the way to r stands.
InOrder(r) ==
  /\ \A i \in DOMAIN wire[r] : FrameAt(wire[r][i], Decoded(r) + Over(r) + i)
  /\ \A i \in DOMAIN arriving[r] : SentAt(r, arriving[r][i], Taken(r) + Waiting(r) + i)
  /\ \A i \in DOMAIN l2bs[r] : SentAt(r, l2bs[r][i], Taken(r) + i)
  /\ \A i \in DOMAIN delivered[r] : SentAt(r, delivered[r][i], i)

\* How many packets the outbound thread took.
Begun == HandedCount - Queued

Ordered ==
  S.kind # "UdpIp" =>
    /\ \A i \in DOMAIN bs2l : PacketAt(bs2l[i], Begun + i)
    /\ sending.left # << >> => FrameAt(sending.frame, Begun)
    /\ \A r \in Receiver : InOrder(r)

LEMMA InitOrdered == Init => Ordered
  <1> SUFFICES ASSUME Init, NEW r \in Receiver PROVE InOrder(r)
    BY DEF Init, Ordered, NoFrame
  <1>1. wire[r] = << >> /\ arriving[r] = << >> /\ l2bs[r] = << >> /\ delivered[r] = << >>
    BY DEF Init
  <1> QED
    BY <1>1 DEF InOrder

\* What was handed keeps its place.
LEMMA PlacesStay ==
  ASSUME Typed, [Next]_vars
  PROVE  /\ S' = S
         /\ \A n \in DOMAIN Handed : n \in DOMAIN Handed' /\ Handed'[n] = Handed[n]
         /\ \A nw : Encoded(nw)' = Encoded(nw)
         /\ \A r, item : AsSent(r, item)' = AsSent(r, item)
  <1>1. S' = S
    BY NothingIsForgotten DEF Typed, Shape
  <1>2. CASE Send
    <2>1. Handed' = Handed \/ Handed' = Append(Handed, S.items[asked + 1])
      BY <1>2, HandedGrows DEF Send, Typed, Shape
    <2>2. Handed \in Seq(Given)
      BY HandedType DEF Typed, Shape
    <2> QED
      BY <1>1, <2>1, <2>2 DEF Encoded, AsSent, Inbound
  <1>3. CASE UNCHANGED <<setup, asked>>
    BY <1>1, <1>3, HandedSame DEF Encoded, AsSent, Inbound
  <1> QED
    BY <1>2, <1>3 DEF Next, Outbound, EncodeNext, SendFrame, SendDatagram, InboundStep,
       Decode, SendOn, Receive, Network, vars, linkVars

\* The order of what is on the way to r is that of before if nothing moved there.
LEMMA InOrderStays ==
  ASSUME Typed, [Next]_vars, NEW r \in Receiver, InOrder(r), Over(r)' = Over(r),
         wire'[r] = wire[r], arriving'[r] = arriving[r], l2bs'[r] = l2bs[r],
         delivered'[r] = delivered[r]
  PROVE  InOrder(r)'
  <1>1. Taken(r)' = Taken(r) /\ Waiting(r)' = Waiting(r) /\ Decoded(r)' = Decoded(r)
    BY DEF Taken, Waiting, Decoded, InHand
  <1>2. \A i \in DOMAIN wire'[r] : FrameAt(wire[r][i], Decoded(r) + Over(r) + i)'
    BY <1>1, PlacesStay DEF InOrder, FrameAt
  <1>3. /\ \A i \in DOMAIN arriving'[r] : SentAt(r, arriving[r][i], Taken(r) + Waiting(r) + i)'
        /\ \A i \in DOMAIN l2bs'[r] : SentAt(r, l2bs[r][i], Taken(r) + i)'
        /\ \A i \in DOMAIN delivered'[r] : SentAt(r, delivered[r][i], i)'
    BY <1>1, PlacesStay DEF InOrder, SentAt
  <1> QED
    BY <1>2, <1>3 DEF InOrder

\* The same for the sending side.
LEMMA SendingStays ==
  ASSUME Typed, [Next]_vars, UNCHANGED <<bs2l, sending>>, Handed' = Handed, Ordered,
         S.kind # "UdpIp"
  PROVE  /\ \A i \in DOMAIN bs2l' : PacketAt(bs2l[i], Begun + i)'
         /\ sending'.left # << >> => FrameAt(sending.frame, Begun)'
  <1>1. Begun' = Begun
    BY DEF Begun, HandedCount, Queued
  <1> QED
    BY <1>1, PlacesStay DEF Ordered, PacketAt, FrameAt

LEMMA SendOrdered ==
  ASSUME Typed, Ordered, Send
  PROVE  Ordered'
  <1> DEFINE item == S.items[asked + 1]
  <1>1. [Next]_vars
    BY DEF Next
  <1>2. /\ S' = S
        /\ Handed' = IF item.nw = Failed THEN Handed ELSE Append(Handed, item)
    BY HandedGrows DEF Send, Typed, Shape
  <1>3. Handed \in Seq(Given) /\ bs2l \in Seq({x.nw : x \in ToSet(Handed)})
    BY HandedType DEF Typed, Shape, Handled
  <1>4. HandedCount \in Nat /\ Queued \in Nat
    BY <1>3, LenProperties DEF HandedCount, Queued
  <1>5. Begun' = Begun
    <2>1. CASE item.nw = Failed
      BY <1>2, <2>1 DEF Send, Begun, HandedCount, Queued
    <2>2. CASE item.nw # Failed
      <3>1. HandedCount' = HandedCount + 1 /\ Queued' = Queued + 1
        BY <1>2, <1>3, <2>2 DEF Send, HandedCount, Queued
      <3> QED
        BY <1>4, <3>1 DEF Begun
    <2> QED
      BY <2>1, <2>2
  <1> SUFFICES ASSUME S.kind # "UdpIp" PROVE Ordered'
    BY <1>2 DEF Ordered
  <1>6. \A i \in DOMAIN bs2l' : PacketAt(bs2l[i], Begun + i)'
    <2>1. \A i \in DOMAIN bs2l : PacketAt(bs2l[i], Begun + i)
      BY DEF Ordered
    <2>2. CASE item.nw = Failed
      BY <1>2, <1>5, <2>1, <2>2 DEF Send, PacketAt
    <2>3. CASE item.nw # Failed
      <3>1. bs2l' = Append(bs2l, item.nw)
        BY <2>3 DEF Send
      <3>2. DOMAIN bs2l' = 1 .. Queued + 1 /\ DOMAIN bs2l = 1 .. Queued
        BY <1>3, <3>1 DEF Queued
      <3> SUFFICES ASSUME NEW i \in 1 .. Queued + 1 PROVE PacketAt(bs2l[i], Begun + i)'
        BY <3>2
      <3>3. CASE i = Queued + 1
        <4>1. Begun + i = HandedCount + 1
          BY <1>4, <3>3 DEF Begun
        <4>2. bs2l'[i] = item.nw
          BY <1>3, <3>1, <3>3 DEF Queued
        <4>3. HandedCount + 1 \in DOMAIN Handed' /\ Handed'[HandedCount + 1] = item
          BY <1>2, <1>3, <2>3 DEF HandedCount
        <4> QED
          BY <1>5, <4>1, <4>2, <4>3 DEF PacketAt
      <3>4. CASE i \in 1 .. Queued
        <4>1. bs2l'[i] = bs2l[i]
          BY <1>3, <3>1, <3>4 DEF Queued
        <4>2. PacketAt(bs2l[i], Begun + i)
          BY <2>1, <3>2, <3>4
        <4> QED
          BY <1>1, <1>5, <4>1, <4>2, PlacesStay DEF PacketAt
      <3> QED
        BY <1>4, <3>3, <3>4
    <2> QED
      BY <2>2, <2>3
  <1>7. sending'.left # << >> => FrameAt(sending.frame, Begun)'
    BY <1>1, <1>5, PlacesStay DEF Send, Ordered, FrameAt
  <1>8. ASSUME NEW r \in Receiver PROVE InOrder(r)'
    BY <1>1, InOrderStays DEF Send, Ordered, Over
  <1> QED
    BY <1>6, <1>7, <1>8 DEF Ordered

LEMMA EncodeNextOrdered ==
  ASSUME Typed, Ordered, EncodeNext
  PROVE  Ordered'
  <1>1. [Next]_vars
    BY DEF Next, Outbound
  <1>2. S' = S /\ Handed' = Handed /\ S.kind # "UdpIp"
    BY HandedSame DEF EncodeNext
  <1>3. bs2l \in Seq({x.nw : x \in ToSet(Handed)}) /\ bs2l # << >> /\ bs2l' = Tail(bs2l)
    BY DEF Typed, Handled, EncodeNext
  <1>4. /\ Queued \in Nat \ {0} /\ Queued' = Queued - 1 /\ HandedCount \in Nat
        /\ DOMAIN bs2l = 1 .. Queued /\ DOMAIN bs2l' = 1 .. Queued - 1
        /\ Head(bs2l) = bs2l[1] /\ \A i \in 1 .. Queued - 1 : bs2l'[i] = bs2l[i + 1]
    BY <1>3, TailElements, Lengths DEF Queued, HandedCount
  <1>5. Begun' = Begun + 1 /\ Begun \in Int
    BY <1>2, <1>4 DEF Begun, HandedCount
  <1>6. ASSUME NEW i \in DOMAIN bs2l' PROVE PacketAt(bs2l[i], Begun + i)'
    <2>1. i \in 1 .. Queued - 1 /\ i + 1 \in 1 .. Queued
      BY <1>4
    <2>2. PacketAt(bs2l[i + 1], Begun + (i + 1))
      BY <1>2, <1>4, <2>1 DEF Ordered
    <2>3. bs2l'[i] = bs2l[i + 1] /\ Begun' + i = Begun + (i + 1)
      BY <1>4, <1>5, <2>1
    <2> QED
      BY <1>2, <2>2, <2>3 DEF PacketAt
  <1>7. FrameAt(sending.frame, Begun)'
    <2>1. PICK wrong \in 0 .. CORRUPTED : sending'.frame = Frame(Encoded(Head(bs2l)), wrong)
      BY DEF EncodeNext, CORRUPTED
    <2>2. wrong \in 0 .. MaxCorrected
      BY <2>1 DEF CORRUPTED, MaxCorrected, CODE_SIZE
    <2>3. PacketAt(bs2l[1], Begun + 1)
      BY <1>2, <1>4 DEF Ordered
    <2> QED
      BY <1>1, <1>2, <1>4, <1>5, <2>1, <2>2, <2>3, PlacesStay DEF FrameAt, PacketAt
  <1>8. ASSUME NEW r \in Receiver PROVE InOrder(r)'
    BY <1>1, <1>2, InOrderStays DEF EncodeNext, Ordered, Over
  <1> QED
    BY <1>6, <1>7, <1>8 DEF Ordered

LEMMA SendFrameOrdered ==
  ASSUME Typed, Counted, Ordered, SendFrame
  PROVE  Ordered'
  <1> DEFINE end == Head(sending.left)
  <1>1. [Next]_vars
    BY DEF Next, Outbound
  <1>2. S' = S /\ Handed' = Handed /\ bs2l' = bs2l
    BY HandedSame DEF SendFrame
  <1> SUFFICES ASSUME S.kind # "UdpIp" PROVE Ordered'
    BY <1>2 DEF Ordered
  <1>3. end \in ToSet(sending.left) /\ end \in Receiver /\ end \in Connected
    BY HeadTailProperties, TailElements DEF SendFrame, Typed, Handled, Counted, SendingOnce, ToSet
  <1>4. Begun' = Begun
    BY <1>2 DEF Begun, HandedCount, Queued
  <1>5. \A i \in DOMAIN bs2l' : PacketAt(bs2l[i], Begun + i)'
    BY <1>1, <1>2, <1>4, PlacesStay DEF Ordered, PacketAt
  <1>6. FrameAt(sending.frame, Begun)
    BY DEF Ordered, SendFrame
  <1>7. sending'.left # << >> => FrameAt(sending.frame, Begun)'
    <2>1. sending'.left # << >> => sending'.frame = sending.frame
      BY DEF SendFrame, NoFrame, Typed, Shape
    <2> QED
      BY <1>1, <1>4, <1>6, <2>1, PlacesStay DEF FrameAt
  <1>8. ASSUME NEW r \in Receiver PROVE InOrder(r)'
    <2>1. CASE r # end
      <3>1. wire'[r] = wire[r]
        BY <2>1 DEF SendFrame, Typed, Shape
      <3> QED
        BY <1>1, <3>1, InOrderStays DEF SendFrame, Ordered, Over
    <2>2. CASE r = end
      <3>1. wire[r] \in Seq(Frames) /\ wire'[r] = Append(wire[r], sending.frame)
        BY <2>2 DEF SendFrame, Typed, Shape, Handled
      <3>2. /\ Decoded(r)' = Decoded(r) /\ Over(r)' = Over(r)
            /\ Taken(r)' = Taken(r) /\ Waiting(r)' = Waiting(r)
        BY DEF SendFrame, Decoded, Taken, Waiting, InHand, Over
      <3>3. /\ OnWire(r) \in Nat /\ DOMAIN wire[r] = 1 .. OnWire(r)
            /\ DOMAIN wire'[r] = 1 .. OnWire(r) + 1 /\ wire'[r][OnWire(r) + 1] = sending.frame
            /\ \A i \in 1 .. OnWire(r) : wire'[r][i] = wire[r][i]
        BY <3>1 DEF OnWire
      <3>4. Decoded(r) + Over(r) + (OnWire(r) + 1) = Begun
        <4>1. Due(r) = 1 /\ Sent(r) + Due(r) + Queued = HandedCount
          BY <1>3, <2>2 DEF Due, Counted, Balance
        <4>2. Sent(r) = Decoded(r) + Over(r) + OnWire(r)
          BY DEF Sent
        <4> QED
          BY <4>1, <4>2, TypedLengths DEF Begun
      <3>5. ASSUME NEW i \in DOMAIN wire'[r] PROVE FrameAt(wire[r][i], Decoded(r) + Over(r) + i)'
        <4>1. CASE i = OnWire(r) + 1
          BY <1>1, <1>6, <3>2, <3>3, <3>4, <4>1, PlacesStay DEF FrameAt
        <4>2. CASE i \in 1 .. OnWire(r)
          <5>1. FrameAt(wire[r][i], Decoded(r) + Over(r) + i)
            BY <3>3, <4>2 DEF Ordered, InOrder
          <5> QED
            BY <1>1, <3>2, <3>3, <4>2, <5>1, PlacesStay DEF FrameAt
        <4> QED
          BY <3>3, <4>1, <4>2
      <3>6. /\ \A i \in DOMAIN arriving'[r] : SentAt(r, arriving[r][i], Taken(r) + Waiting(r) + i)'
            /\ \A i \in DOMAIN l2bs'[r] : SentAt(r, l2bs[r][i], Taken(r) + i)'
            /\ \A i \in DOMAIN delivered'[r] : SentAt(r, delivered[r][i], i)'
        BY <1>1, <3>2, PlacesStay DEF SendFrame, Ordered, InOrder, SentAt
      <3> QED
        BY <3>5, <3>6 DEF InOrder
    <2> QED
      BY <2>1, <2>2
  <1> QED
    BY <1>5, <1>7, <1>8 DEF Ordered

LEMMA DecodeOrdered ==
  ASSUME Typed, Counted, Ordered, NEW q \in Receiver, NEW n, Decode(q, n)
  PROVE  Ordered'
  <1>1. [Next]_vars
    <2>1. n \in DOMAIN wire[q]
      BY DEF Decode, Takeable
    <2> QED
      BY <2>1 DEF Next, InboundStep
  <1>2. S' = S /\ Handed' = Handed /\ UNCHANGED <<bs2l, sending, l2bs, delivered>>
    BY HandedSame DEF Decode
  <1> SUFFICES ASSUME S.kind # "UdpIp" PROVE Ordered'
    BY <1>2 DEF Ordered
  <1>3. /\ \A i \in DOMAIN bs2l' : PacketAt(bs2l[i], Begun + i)'
        /\ sending'.left # << >> => FrameAt(sending.frame, Begun)'
    BY <1>1, <1>2, SendingStays
  <1>4. ASSUME NEW r \in Receiver PROVE InOrder(r)'
    <2>1. CASE r # q
      <3>1. wire'[r] = wire[r] /\ arriving'[r] = arriving[r] /\ inbound'[r] = inbound[r]
        BY <2>1 DEF Decode, Typed, Shape
      <3> QED
        BY <1>1, <1>2, <3>1, InOrderStays DEF Ordered, Over
    <2>2. CASE r = q
      <3>1. InOrder(r)
        BY DEF Ordered
      <3>2. wire[r] \in Seq(Frames) /\ wire[r] # << >> /\ n = 1 /\ n \in DOMAIN wire[r]
        BY <2>2 DEF Decode, Takeable, Typed, Handled
      <3>3. wire'[r] = Tail(wire[r])
        BY <2>2, <3>2, RemoveAtFirst DEF Decode, Typed, Shape
      <3>4. /\ OnWire(r) \in Nat \ {0} /\ DOMAIN wire[r] = 1 .. OnWire(r)
            /\ DOMAIN wire'[r] = 1 .. OnWire(r) - 1
            /\ \A i \in 1 .. OnWire(r) - 1 : wire'[r][i] = wire[r][i + 1]
        BY <3>2, <3>3, TailElements DEF OnWire
      <3>5. /\ Taken(r) \in Nat /\ Waiting(r) \in Nat /\ Taken(r)' = Taken(r) /\ Waiting(r)' = Waiting(r)
        BY <1>2, TypedLengths DEF Taken, Waiting
      <3>6. Over(r) = 0 /\ InHand(r) = 0 /\ Decoded(r) = Taken(r) + Waiting(r)
        <4>1. Over(r) = 0
          BY <2>2 DEF Decode, Over
        <4>2. InHand(r) = 0
          BY <2>2 DEF Decode, InHand
        <4> QED
          BY <3>5, <4>1, <4>2 DEF Decoded
      <3>7. PICK lp \in decode(wire[r][1], S.remote[r]) :
              IF lp = Failed
              THEN inbound'[r] = "over" /\ arriving'[r] = arriving[r]
              ELSE inbound'[r] = inbound[r] /\ arriving'[r] = <<Inbound(r, lp)>>
        BY <2>2, <3>2 DEF Decode, Typed, Shape
      <3>8. arriving[r] = << >> /\ inbound[r] = "running"
        BY <2>2 DEF Decode
      <3>9. Decoded(r)' + Over(r)' = Decoded(r) + Over(r) + 1
        <4>1. CASE lp = Failed
          <5>1. Over(r)' = 1 /\ InHand(r)' = 0
            BY <3>7, <3>8, <4>1 DEF Over, InHand
          <5> QED
            BY <3>5, <3>6, <5>1 DEF Decoded
        <4>2. CASE lp # Failed
          <5>1. Over(r)' = 0
            BY <3>7, <3>8, <4>2 DEF Over
          <5>2. InHand(r)' = 1
            <6>1. arriving'[r] = <<Inbound(r, lp)>>
              BY <3>7, <4>2
            <6>2. \A p : Len(<<p>>) = 1
              OBVIOUS
            <6> QED
              BY <6>1, <6>2 DEF InHand
          <5> QED
            BY <3>5, <3>6, <5>1, <5>2 DEF Decoded
        <4> QED
          BY <4>1, <4>2
      <3>10. ASSUME NEW i \in DOMAIN wire'[r] PROVE FrameAt(wire[r][i], Decoded(r) + Over(r) + i)'
        <4>1. i \in 1 .. OnWire(r) - 1 /\ i + 1 \in 1 .. OnWire(r)
          BY <3>4
        <4>2. FrameAt(wire[r][i + 1], Decoded(r) + Over(r) + (i + 1))
          BY <3>1, <3>4, <4>1 DEF InOrder
        <4>3. Decoded(r)' + Over(r)' + i = Decoded(r) + Over(r) + (i + 1)
          BY <3>5, <3>6, <3>9, <4>1
        <4> QED
          BY <1>1, <1>2, <3>4, <4>1, <4>2, <4>3, PlacesStay DEF FrameAt
      <3>11. ASSUME NEW i \in DOMAIN arriving'[r]
             PROVE  SentAt(r, arriving[r][i], Taken(r) + Waiting(r) + i)'
        <4>1. lp # Failed /\ arriving'[r] = <<Inbound(r, lp)>> /\ i = 1
          BY <3>7, <3>8
        <4> DEFINE place == Taken(r) + Waiting(r) + 1
        <4>2. FrameAt(wire[r][1], place)
          <5>1. FrameAt(wire[r][1], Decoded(r) + Over(r) + 1)
            BY <3>1, <3>4 DEF InOrder
          <5>2. Decoded(r) + Over(r) + 1 = place
            BY <3>5, <3>6
          <5> QED
            BY <5>1, <5>2
        <4>3. Taken(r)' + Waiting(r)' + 1 = place
          BY <3>5
        <4> HIDE DEF place
        <4>4. place \in DOMAIN Handed
          BY <4>2 DEF FrameAt
        <4> DEFINE item == Handed[place]
        <4>5. PICK w \in 0 .. MaxCorrected : wire[r][1] = Frame(Encoded(item.nw), w)
          BY <4>2 DEF FrameAt
        <4>6. item \in Given /\ SetUp
          BY <4>4, HandedType, LenProperties, ElementOfSeq DEF Typed, Shape
        <4>7. w \in Nat /\ w <= MaxCorrected
          BY <4>5 DEF MaxCorrected, CODE_SIZE
        <4> HIDE DEF item
        <4>8. lp = [reply_to |-> S.link.reply_to, nw |-> item.nw]
          <5>1. decode(wire[r][1], S.remote[r]) =
                  {IF S.link.remote_pid \in {Absent, S.remote[r].sid}
                   THEN [reply_to |-> S.link.reply_to, nw |-> item.nw] ELSE Failed}
            BY <4>5, <4>6, <4>7, CorrectedIsDecoded
          <5> QED
            BY <4>1, <5>1
        <4>9. arriving'[r][i] = AsSent(r, item)
          BY <4>1, <4>8 DEF AsSent
        <4> QED
          BY <1>1, <1>2, <4>1, <4>3, <4>4, <4>9, PlacesStay DEF SentAt, item
      <3>12. /\ \A i \in DOMAIN l2bs'[r] : SentAt(r, l2bs[r][i], Taken(r) + i)'
             /\ \A i \in DOMAIN delivered'[r] : SentAt(r, delivered[r][i], i)'
        BY <1>1, <1>2, <3>1, <3>5, PlacesStay DEF InOrder, SentAt
      <3> QED
        BY <3>10, <3>11, <3>12 DEF InOrder
    <2> QED
      BY <2>1, <2>2
  <1> QED
    BY <1>3, <1>4 DEF Ordered

LEMMA SendOnOrdered ==
  ASSUME Typed, Counted, Ordered, NEW q \in Receiver, SendOn(q)
  PROVE  Ordered'
  <1>1. [Next]_vars
    BY DEF Next, InboundStep
  <1>2. S' = S /\ Handed' = Handed /\ UNCHANGED <<bs2l, sending, wire, inbound, delivered>>
    BY HandedSame DEF SendOn
  <1> SUFFICES ASSUME S.kind # "UdpIp" PROVE Ordered'
    BY <1>2 DEF Ordered
  <1>3. /\ \A i \in DOMAIN bs2l' : PacketAt(bs2l[i], Begun + i)'
        /\ sending'.left # << >> => FrameAt(sending.frame, Begun)'
    BY <1>1, <1>2, SendingStays
  <1>4. ASSUME NEW r \in Receiver PROVE InOrder(r)'
    <2>1. CASE r # q
      <3>1. l2bs'[r] = l2bs[r] /\ arriving'[r] = arriving[r]
        BY <2>1 DEF SendOn, Typed, Shape
      <3> QED
        BY <1>1, <1>2, <3>1, InOrderStays DEF Ordered, Over
    <2>2. CASE r = q
      <3>1. InOrder(r)
        BY DEF Ordered
      <3>2. /\ arriving[r] \in Seq(Packets(r)) /\ l2bs[r] \in Seq(Packets(r))
            /\ arriving[r] # << >> /\ Len(arriving[r]) <= 1
            /\ l2bs'[r] = l2bs[r] \o arriving[r] /\ arriving'[r] = << >>
        BY <2>2 DEF SendOn, Typed, Shape, Handled, Counted, Bounds
      <3>3. IsJoined(l2bs'[r], l2bs[r], arriving[r])
        BY <3>2, JoinedWithOne
      <3>4. /\ Waiting(r) \in Nat /\ DOMAIN l2bs[r] = 1 .. Waiting(r)
            /\ DOMAIN l2bs'[r] = 1 .. Waiting(r) + 1
            /\ \A i \in 1 .. Waiting(r) : l2bs'[r][i] = l2bs[r][i]
            /\ l2bs'[r][Waiting(r) + 1] = arriving[r][1]
        BY <3>3 DEF IsJoined, Waiting
      <3>5. Taken(r)' = Taken(r) /\ Over(r)' = Over(r) /\ Taken(r) \in Nat /\ Over(r) \in Nat
        BY <1>2, TypedLengths DEF Taken, Over
      <3>6. Decoded(r)' = Decoded(r)
        <4>1. InHand(r) = 1 /\ InHand(r)' = 0
          BY <3>2, <3>3 DEF IsJoined, InHand
        <4>2. Waiting(r)' = Waiting(r) + 1
          BY <3>3 DEF IsJoined, Waiting
        <4> QED
          BY <3>4, <3>5, <4>1, <4>2 DEF Decoded
      <3>7. \A i \in DOMAIN wire'[r] : FrameAt(wire[r][i], Decoded(r) + Over(r) + i)'
        BY <1>1, <1>2, <3>1, <3>5, <3>6, PlacesStay DEF InOrder, FrameAt
      <3>8. ASSUME NEW i \in DOMAIN l2bs'[r] PROVE SentAt(r, l2bs[r][i], Taken(r) + i)'
        <4>1. CASE i = Waiting(r) + 1
          <5>1. SentAt(r, arriving[r][1], Taken(r) + Waiting(r) + 1)
            BY <3>1, <3>3 DEF IsJoined, InOrder
          <5>2. Taken(r)' + i = Taken(r) + Waiting(r) + 1
            BY <3>4, <3>5, <4>1
          <5> QED
            BY <1>1, <1>2, <3>4, <4>1, <5>1, <5>2, PlacesStay DEF SentAt
        <4>2. CASE i \in 1 .. Waiting(r)
          <5>1. SentAt(r, l2bs[r][i], Taken(r) + i)
            BY <3>1, <3>4, <4>2 DEF InOrder
          <5> QED
            BY <1>1, <1>2, <3>4, <3>5, <4>2, <5>1, PlacesStay DEF SentAt
        <4> QED
          BY <3>4, <4>1, <4>2
      <3>9. /\ \A i \in DOMAIN arriving'[r] : SentAt(r, arriving[r][i], Taken(r) + Waiting(r) + i)'
            /\ \A i \in DOMAIN delivered'[r] : SentAt(r, delivered[r][i], i)'
        BY <1>1, <1>2, <3>1, <3>2, PlacesStay DEF InOrder, SentAt
      <3> QED
        BY <3>7, <3>8, <3>9 DEF InOrder
    <2> QED
      BY <2>1, <2>2
  <1> QED
    BY <1>3, <1>4 DEF Ordered

LEMMA ReceiveOrdered ==
  ASSUME Typed, Ordered, NEW q \in Receiver, Receive(q)
  PROVE  Ordered'
  <1>1. [Next]_vars
    BY DEF Next
  <1>2. S' = S /\ Handed' = Handed /\ UNCHANGED <<bs2l, sending, wire, inbound, arriving>>
    BY HandedSame DEF Receive
  <1> SUFFICES ASSUME S.kind # "UdpIp" PROVE Ordered'
    BY <1>2 DEF Ordered
  <1>3. /\ \A i \in DOMAIN bs2l' : PacketAt(bs2l[i], Begun + i)'
        /\ sending'.left # << >> => FrameAt(sending.frame, Begun)'
    BY <1>1, <1>2, SendingStays
  <1>4. ASSUME NEW r \in Receiver PROVE InOrder(r)'
    <2>1. CASE r # q
      <3>1. l2bs'[r] = l2bs[r] /\ delivered'[r] = delivered[r]
        BY <2>1 DEF Receive, Typed, Shape
      <3> QED
        BY <1>1, <1>2, <3>1, InOrderStays DEF Ordered, Over
    <2>2. CASE r = q
      <3>1. InOrder(r)
        BY DEF Ordered
      <3>2. /\ delivered[r] \in Seq(Packets(r)) /\ l2bs[r] \in Seq(Packets(r)) /\ l2bs[r] # << >>
            /\ l2bs'[r] = Tail(l2bs[r]) /\ delivered'[r] = Append(delivered[r], Head(l2bs[r]))
        BY <2>2 DEF Receive, Typed, Shape, Handled
      <3>3. /\ Waiting(r) \in Nat \ {0} /\ Waiting(r)' = Waiting(r) - 1
            /\ DOMAIN l2bs[r] = 1 .. Waiting(r) /\ DOMAIN l2bs'[r] = 1 .. Waiting(r) - 1
            /\ Head(l2bs[r]) = l2bs[r][1]
            /\ \A i \in 1 .. Waiting(r) - 1 : l2bs'[r][i] = l2bs[r][i + 1]
        BY <3>2, TailElements DEF Waiting
      <3>4. /\ Taken(r) \in Nat /\ Taken(r)' = Taken(r) + 1
            /\ DOMAIN delivered[r] = 1 .. Taken(r) /\ DOMAIN delivered'[r] = 1 .. Taken(r) + 1
            /\ delivered'[r][Taken(r) + 1] = Head(l2bs[r])
            /\ \A i \in 1 .. Taken(r) : delivered'[r][i] = delivered[r][i]
        BY <3>2 DEF Taken
      <3>5. Taken(r)' + Waiting(r)' = Taken(r) + Waiting(r) /\ Over(r)' = Over(r)
        BY <1>2, <3>3, <3>4 DEF Over
      <3>6. Decoded(r)' = Decoded(r)
        <4>1. InHand(r)' = InHand(r)
          BY <1>2 DEF InHand
        <4> QED
          BY <3>5, <4>1 DEF Decoded
      <3>7. \A i \in DOMAIN wire'[r] : FrameAt(wire[r][i], Decoded(r) + Over(r) + i)'
        BY <1>1, <1>2, <3>1, <3>5, <3>6, PlacesStay DEF InOrder, FrameAt
      <3>8. \A i \in DOMAIN arriving'[r] : SentAt(r, arriving[r][i], Taken(r) + Waiting(r) + i)'
        BY <1>1, <1>2, <3>1, <3>5, PlacesStay DEF InOrder, SentAt
      <3>9. ASSUME NEW i \in DOMAIN l2bs'[r] PROVE SentAt(r, l2bs[r][i], Taken(r) + i)'
        <4>1. i \in 1 .. Waiting(r) - 1 /\ i + 1 \in 1 .. Waiting(r)
          BY <3>3
        <4>2. SentAt(r, l2bs[r][i + 1], Taken(r) + (i + 1))
          BY <3>1, <3>3, <4>1 DEF InOrder
        <4>3. Taken(r)' + i = Taken(r) + (i + 1)
          BY <3>4, <4>1
        <4> QED
          BY <1>1, <1>2, <3>3, <4>1, <4>2, <4>3, PlacesStay DEF SentAt
      <3>10. ASSUME NEW i \in DOMAIN delivered'[r] PROVE SentAt(r, delivered[r][i], i)'
        <4>1. CASE i = Taken(r) + 1
          <5>1. SentAt(r, l2bs[r][1], Taken(r) + 1)
            BY <3>1, <3>3 DEF InOrder
          <5> QED
            BY <1>1, <1>2, <3>3, <3>4, <4>1, <5>1, PlacesStay DEF SentAt
        <4>2. CASE i \in 1 .. Taken(r)
          <5>1. SentAt(r, delivered[r][i], i)
            BY <3>1, <3>4, <4>2 DEF InOrder
          <5> QED
            BY <1>1, <1>2, <3>4, <4>2, <5>1, PlacesStay DEF SentAt
        <4> QED
          BY <3>4, <4>1, <4>2
      <3> QED
        BY <3>7, <3>8, <3>9, <3>10 DEF InOrder
    <2> QED
      BY <2>1, <2>2
  <1> QED
    BY <1>3, <1>4 DEF Ordered

LEMMA NextOrdered == Typed /\ Counted /\ Ordered /\ [Next]_vars => Ordered'
  <1> SUFFICES ASSUME Typed, Counted, Ordered, [Next]_vars PROVE Ordered'
    OBVIOUS
  <1>1. CASE Send
    BY <1>1, SendOrdered
  <1>2. CASE EncodeNext \/ SendFrame
    BY <1>2, EncodeNextOrdered, SendFrameOrdered
  <1>3. CASE \E r \in Receiver : InboundStep(r) \/ Receive(r)
    BY <1>3, DecodeOrdered, SendOnOrdered, ReceiveOrdered DEF InboundStep
  <1>4. CASE S.kind = "UdpIp"
    BY <1>4, PlacesStay DEF Ordered
  <1>5. CASE UNCHANGED vars
    <2>1. S' = S /\ Handed' = Handed /\ UNCHANGED <<bs2l, sending>>
      BY <1>5, HandedSame DEF vars, linkVars
    <2>2. S.kind # "UdpIp" => \A r \in Receiver : InOrder(r)'
      BY <1>5, InOrderStays DEF vars, linkVars, Ordered, Over
    <2> QED
      BY <2>1, <2>2, SendingStays DEF Ordered
  <1> QED
    BY <1>1, <1>2, <1>3, <1>4, <1>5 DEF Next, Outbound, SendDatagram, Network
-----------------------------------------------------------------------------
(***************************************************************************)
(* The channels of a link stay within their bounds, and nothing comes to a *)
(* link that is not at its other end.                                      *)
(***************************************************************************)
THEOREM LinkTypeCorrect == Spec => []TypeOK
  <1>1. Typed /\ Counted => TypeOK
    <2> SUFFICES ASSUME Typed, Counted PROVE TypeOK
      OBVIOUS
    <2>1. ToSet(bs2l) \subseteq {item.nw : item \in ToSet(S.items)}
      <3>1. ToSet(bs2l) \subseteq {item.nw : item \in ToSet(Handed)}
        BY DEF Typed, Handled, ToSet
      <3>2. ToSet(Handed) \subseteq ToSet(S.items)
        BY HandedType DEF Typed, Shape, Given, ToSet
      <3> QED
        BY <3>1, <3>2
    <2>2. ToSet(sending.left) \subseteq Receiver
      BY DEF Typed, Handled, ToSet
    <2> QED
      BY <2>1, <2>2 DEF TypeOK, Typed, Shape, SetUp, FaultsOK, Counted, Bounds, Untouched
  <1> QED
    BY <1>1, LinkCounts, PTL

(***************************************************************************)
(* No end of a link of channels gets ahead of another by more than the     *)
(* channels of the other hold.                                             *)
(***************************************************************************)
THEOREM NoReceiverRunsAheadTheorem == Spec => []NoReceiverRunsAhead
  <1>1. Typed /\ Counted => NoReceiverRunsAhead
    <2> SUFFICES ASSUME Typed, Counted, S.kind # "UdpIp",
                        NEW r \in Connected, NEW q \in Connected
                 PROVE  Len(delivered[r]) <= Len(delivered[q]) + 2 * BufferSize + 2
      BY DEF NoReceiverRunsAhead
    <2>1. r \in Receiver /\ q \in Receiver
      BY ItemsType DEF Connected, ToSet, Typed, Shape
    <2>2. Sent(r) + Due(r) = Sent(q) + Due(q)
      <3>1. Sent(r) + Due(r) + Queued = HandedCount /\ Sent(q) + Due(q) + Queued = HandedCount
        BY <2>1 DEF Counted, Balance
      <3> QED
        BY <2>1, <3>1, TypedLengths
    <2>3. Taken(r) <= Sent(r) /\ Due(q) <= 1
      <3>1. Taken(r) <= Decoded(r)
        BY <2>1, TypedLengths DEF Decoded
      <3>2. Decoded(r) <= Sent(r)
        BY <2>1, TypedLengths DEF Sent
      <3>3. Due(q) <= 1
        BY DEF Due
      <3> QED
        BY <2>1, <3>1, <3>2, <3>3, TypedLengths
    <2>4. Sent(q) <= Taken(q) + 2 * BufferSize + 1
      <3>1. InHand(q) + Over(q) <= 1
        <4>1. InHand(q) <= 1 /\ (inbound[q] = "over" => InHand(q) = 0)
          BY <2>1 DEF Counted, Bounds, InHand
        <4> QED
          BY <2>1, <4>1, TypedLengths DEF Over
      <3>2. OnWire(q) <= BufferSize /\ Waiting(q) <= BufferSize
        BY <2>1 DEF Counted, Bounds, OnWire, Waiting
      <3>3. Sent(q) = Taken(q) + Waiting(q) + InHand(q) + Over(q) + OnWire(q)
        BY DEF Sent, Decoded
      <3> QED
        BY <2>1, <3>1, <3>2, <3>3, TypedLengths, LinkBoundsAssumption
    <2> QED
      <3>1. Taken(r) <= Taken(q) + 2 * BufferSize + 2
        BY <2>1, <2>2, <2>3, <2>4, TypedLengths, LinkBoundsAssumption
      <3> QED
        BY <3>1 DEF Taken
  <1> QED
    BY <1>1, LinkCounts, PTL

(***************************************************************************)
(* The threads of a link do not block each other.                          *)
(***************************************************************************)
THEOREM NothingIsStuckTheorem == Spec => []NothingIsStuck
  <1>1. Typed /\ Counted => NothingIsStuck
    <2> SUFFICES ASSUME Typed, Counted, Quiet,
                        \A r \in Connected : inbound[r] # "over",
                        ~ (faults.losses > 0)
                 PROVE  \A r \in Connected : Len(delivered[r]) >= Len(Handed)
      BY DEF NothingIsStuck
    <2>1. Connected \subseteq Receiver
      BY ItemsType DEF Connected, BoundTo, ToSet, Typed, Shape
    <2>2. sending.left = << >>
      <3> SUFFICES ASSUME sending.left # << >> PROVE FALSE
        OBVIOUS
      <3> DEFINE end == Head(sending.left)
      <3>1. end \in Connected
        BY HeadTailProperties, TailElements DEF Typed, Handled, Counted, SendingOnce, ToSet
      <3>2. Len(wire[end]) = BufferSize
        BY DEF Quiet
      <3>3. wire[end] # << >>
        BY <3>2, LinkBoundsAssumption
      <3> QED
        BY <2>1, <3>1, <3>3 DEF Quiet
    <2>3. bs2l = << >>
      BY <2>2 DEF Quiet
    <2>4. ASSUME NEW r \in Connected PROVE Len(delivered[r]) >= Len(Handed)
      <3>1. Waiting(r) = 0 /\ InHand(r) = 0 /\ OnWire(r) = 0
        BY <2>1, <2>4 DEF Quiet, Waiting, InHand, OnWire
      <3>2. Over(r) = 0 /\ Due(r) = 0
        BY <2>2, <2>4 DEF Over, Due, ToSet
      <3>3. Sent(r) = Len(delivered[r])
        BY <2>1, <3>1, <3>2, TypedLengths DEF Sent, Decoded, Taken
      <3>4. Lost = 0 /\ Queued = 0
        BY <2>3, Lengths DEF Lost, Queued
      <3>5. Balance(r)
        BY <2>1 DEF Counted
      <3>6. Sent(r) >= HandedCount
        BY <2>1, <3>2, <3>4, <3>5, TypedLengths DEF Balance
      <3> QED
        BY <3>3, <3>6 DEF HandedCount
    <2> QED
      BY <2>4
  <1> QED
    BY <1>1, LinkCounts, PTL

(***************************************************************************)
(* With the identity of the other end in its LinkId, a link delivers only  *)
(* packets it was handed, whatever the network does to its datagrams.      *)
(***************************************************************************)
THEOREM SealedPacketsAreGenuineTheorem == Spec => []SealedPacketsAreGenuine
  <1>1. Typed => SealedPacketsAreGenuine
    BY DeliveredContents DEF SealedPacketsAreGenuine
  <1> QED
    BY <1>1, LinkCounts, PTL

(***************************************************************************)
(* A response yields to the one who asked what the responder put into it,  *)
(* of any length up to the largest, unless noise got through a link that   *)
(* is not encrypted.                                                       *)
(***************************************************************************)
THEOREM PayloadsSurviveTheorem == Spec => []PayloadsSurvive
  <1>1. Typed => PayloadsSurvive
    <2> SUFFICES ASSUME Typed, Sealed \/ faults.noise = 0,
                        NEW r \in Receiver, NEW k \in DOMAIN delivered[r],
                        delivered[r][k].lp.nw.kind = "Response"
                 PROVE  LET nw == delivered[r][k].lp.nw
                        IN  \E item \in ToSet(Handed) :
                               /\ item.payload # Absent /\ item.nw.hbfi = nw.hbfi
                               /\ extract(nw.data, S.requester, nw.hbfi.request_pid,
                                          nw.hbfi.response_pid, nw.nonce)
                                    = Put(item.payload.size, item.payload.value)
      BY DEF PayloadsSurvive
    <2> DEFINE nw == delivered[r][k].lp.nw
    <2>1. PICK item \in ToSet(Handed) : item \in Given /\ nw = item.nw
      BY DeliveredContents
    <2> HIDE DEF nw
    <2>2. SetUp
      BY DEF Typed, Shape
    <2>3. IsAnswer(item)
      BY <2>1, <2>2, GivenIsSendable DEF nw
    <2>4. extract(nw.data, S.requester, nw.hbfi.request_pid, nw.hbfi.response_pid, nw.nonce)
            = Put(item.payload.size, item.payload.value)
      <3> DEFINE responder == nw.hbfi.response_pid
                 pid == nw.hbfi.request_pid
                 payload == item.payload
                 nonce == nw.nonce
                 requester == S.requester
      <3>1. /\ payload.size \in Nat /\ payload.size <= DATA_SIZE
            /\ pid \in {Absent, requester} /\ Ordinary(Padded(payload))
            /\ Ordinary(Cypher(responder, pid, payload, nonce))
            /\ nw.data = insert(responder, pid, payload, nonce)
        BY <2>1, <2>3 DEF IsAnswer
      <3> HIDE DEF responder, pid, payload, nonce, requester
      <3>2. extract(nw.data, requester, pid, responder, nonce) = Put(payload.size, payload.value)
        BY <3>1, ExtractInserted
      <3> QED
        BY <3>2 DEF responder, pid, payload, nonce, requester
    <2> QED
      BY <2>1, <2>3, <2>4 DEF IsAnswer, nw
  <1> QED
    BY <1>1, LinkCounts, PTL

(***************************************************************************)
(* An inbound thread ends only if noise reached it, or if it is not the    *)
(* one the link encrypts for.                                              *)
(***************************************************************************)
THEOREM OnlyNoiseDeafensTheorem == Spec => []OnlyNoiseDeafens
  <1>1. Init => OnlyNoiseDeafens
    BY DEF Init, OnlyNoiseDeafens
  <1>2. Typed /\ OnlyNoiseDeafens /\ [Next]_vars => OnlyNoiseDeafens'
    BY NextOnlyNoiseDeafens
  <1> QED
    BY <1>1, <1>2, LinkCounts, PTL DEF Spec

(***************************************************************************)
(* A link of channels delivers what it was handed, unchanged and in order, *)
(* to each of its ends.                                                    *)
(***************************************************************************)
THEOREM ReliableInOrderTheorem == Spec => []ReliableInOrder
  <1>1. Init => Ordered
    BY InitOrdered
  <1>2. Typed /\ Counted /\ Ordered /\ [Next]_vars => Ordered'
    BY NextOrdered
  <1>3. Typed /\ Ordered => ReliableInOrder
    <2> SUFFICES ASSUME Typed, Ordered, S.kind # "UdpIp",
                        NEW r \in Receiver, NEW k \in DOMAIN delivered[r]
                 PROVE  k <= Len(Handed) /\ delivered[r][k] = AsSent(r, Handed[k])
      BY DEF ReliableInOrder
    <2>1. k \in DOMAIN Handed /\ delivered[r][k] = AsSent(r, Handed[k])
      BY DEF Ordered, InOrder, SentAt
    <2> QED
      BY <2>1, HandedType, LenProperties DEF Typed, Shape
  <1> QED
    BY <1>1, <1>2, <1>3, LinkCounts, PTL DEF Spec
=============================================================================
