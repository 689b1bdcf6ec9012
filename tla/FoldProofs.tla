------------------------------ MODULE FoldProofs ------------------------------
(***************************************************************************)
(* Induction, stated with sets because the provers cannot instantiate      *)
(* predicates, and what follows by it about what is computed element by    *)
(* element: parts of queues (Queues), and sums (Functions).                *)
(***************************************************************************)
EXTENDS Queues, SequencesExt, Functions, SequenceTheorems, FiniteSetTheorems,
        WellFoundedInduction, TLAPS

\* A set of natural numbers has a least one.
LEMMA HasLeast ==
  ASSUME NEW N \in SUBSET Nat, N # {}
  PROVE  \E n \in N : \A m \in N : n <= m
  <1>1. PICK n \in N : \A m \in N : <<m, n>> \notin OpToRel(<, Nat)
    BY NatLessThanWellFounded, WFMin
  <1>2. ASSUME NEW m \in N PROVE n <= m
    <2>1. <<m, n>> \notin {nn \in Nat \X Nat : nn[1] < nn[2]}
      BY <1>1 DEF OpToRel
    <2> QED
      BY <2>1
  <1> QED
    BY <1>2

\* What holds of 0, and of n + 1 if it holds of n, holds of every number.
LEMMA Induction ==
  ASSUME NEW N, 0 \in N, \A n \in Nat : n \in N => n + 1 \in N
  PROVE  Nat \subseteq N
  <1> SUFFICES ASSUME Nat \ N # {} PROVE FALSE
    OBVIOUS
  <1>1. PICK n \in Nat \ N : \A m \in Nat \ N : n <= m
    BY HasLeast
  <1>2. n # 0 /\ n - 1 \in Nat /\ n - 1 + 1 = n /\ ~(n <= n - 1)
    BY <1>1
  <1>3. n - 1 \in N
    BY <1>1, <1>2
  <1> QED
    BY <1>1, <1>2, <1>3

\* What holds of no elements, and of one more, holds of every queue.
LEMMA QueueInduction ==
  ASSUME NEW T, NEW Q, << >> \in Q,
         \A s \in Seq(T), e \in T : s \in Q => Append(s, e) \in Q
  PROVE  Seq(T) \subseteq Q
  <1> DEFINE N == {n \in Nat : \A s \in Seq(T) : Len(s) = n => s \in Q}
  <1>1. 0 \in N
    BY EmptySeq
  <1>2. ASSUME NEW n \in Nat, n \in N PROVE n + 1 \in N
    <2>1. ASSUME NEW s \in Seq(T), Len(s) = n + 1 PROVE s \in Q
      <3>1. s # << >>
        BY <2>1
      <3>2. PICK front \in Seq(T), e \in T : s = Append(front, e)
        BY <3>1, SequenceEmptyOrAppend
      <3>3. Len(front) = n
        BY <2>1, <3>2, AppendProperties
      <3> QED
        BY <1>2, <3>2, <3>3
    <2> QED
      BY <2>1
  <1> HIDE DEF N
  <1>3. Nat \subseteq N
    BY <1>1, <1>2, Induction
  <1> QED
    BY <1>3 DEF N

\* What holds of a set once it holds without one of its elements holds of every finite set.
LEMMA SetInduction ==
  ASSUME NEW S, IsFiniteSet(S), NEW P,
         {} \in P, \A s \in SUBSET S : s # {} /\ (\A x \in s : s \ {x} \in P) => s \in P
  PROVE  SUBSET S \subseteq P
  <1> DEFINE N == {n \in Nat : \A s \in SUBSET S : Cardinality(s) = n => s \in P}
  <1>1. \A s \in SUBSET S : IsFiniteSet(s) /\ Cardinality(s) \in Nat
    BY FS_Subset, FS_CardinalityType
  <1>2. 0 \in N
    BY <1>1, FS_EmptySet
  <1>3. ASSUME NEW n \in Nat, n \in N PROVE n + 1 \in N
    <2>1. ASSUME NEW s \in SUBSET S, Cardinality(s) = n + 1 PROVE s \in P
      <3>1. s # {}
        BY <1>1, <2>1, FS_EmptySet
      <3>2. ASSUME NEW x \in s PROVE s \ {x} \in P
        <4>1. Cardinality(s \ {x}) = Cardinality(s) - 1
          BY <1>1, FS_RemoveElement
        <4> QED
          BY <1>3, <2>1, <4>1
      <3> QED
        BY <3>1, <3>2
    <2> QED
      BY <2>1
  <1> HIDE DEF N
  <1>4. Nat \subseteq N
    BY <1>2, <1>3, Induction
  <1> QED
    BY <1>1, <1>4 DEF N
-----------------------------------------------------------------------------
\* g is the function Only is defined by, up to n.
IsOnly(g, s, S, n) ==
  g = [i \in 0 .. n |->
         IF i = 0 THEN << >>
         ELSE IF s[i] \in S THEN Append(g[i - 1], s[i]) ELSE g[i - 1]]

LEMMA OnlyExists ==
  ASSUME NEW s, NEW S
  PROVE  \A n \in Nat : \E g : IsOnly(g, s, S, n)
  <1> DEFINE N == {n \in Nat : \E g : IsOnly(g, s, S, n)}
  <1>1. 0 \in N
    <2>1. IsOnly([i \in 0 .. 0 |-> << >>], s, S, 0)
      BY DEF IsOnly
    <2> QED
      BY <2>1
  <1>2. ASSUME NEW n \in Nat, n \in N PROVE n + 1 \in N
    <2>1. PICK g : IsOnly(g, s, S, n)
      BY <1>2
    <2> DEFINE Next(x) == IF s[n + 1] \in S THEN Append(x, s[n + 1]) ELSE x
               h == [i \in 0 .. n + 1 |-> IF i = n + 1 THEN Next(g[n]) ELSE g[i]]
    <2>2. \A i \in 0 .. n :
             g[i] = IF i = 0 THEN << >>
                    ELSE IF s[i] \in S THEN Append(g[i - 1], s[i]) ELSE g[i - 1]
      BY <2>1 DEF IsOnly
    <2>3. ASSUME NEW i \in 0 .. n + 1
          PROVE  h[i] = IF i = 0 THEN << >>
                        ELSE IF s[i] \in S THEN Append(h[i - 1], s[i]) ELSE h[i - 1]
      <3>1. CASE i = n + 1
        <4>1. i # 0 /\ i - 1 = n /\ n # n + 1
          BY <3>1
        <4>2. h[i] = Next(g[n]) /\ h[i - 1] = g[n]
          BY <3>1, <4>1
        <4> QED
          BY <3>1, <4>1, <4>2
      <3>2. CASE i \in 1 .. n
        <4>1. i \in 0 .. n /\ i - 1 \in 0 .. n /\ i # 0 /\ h[i] = g[i] /\ h[i - 1] = g[i - 1]
          BY <3>2
        <4> QED
          BY <2>2, <4>1
      <3>3. CASE i = 0
        BY <2>2, <3>3
      <3> QED
        BY <3>1, <3>2, <3>3
    <2>4. IsOnly(h, s, S, n + 1)
      BY <2>3 DEF IsOnly
    <2> QED
      BY <2>4
  <1> HIDE DEF N
  <1>3. Nat \subseteq N
    BY <1>1, <1>2, Induction
  <1> QED
    BY <1>3 DEF N

\* Only is defined by such a function.
LEMMA OnlyDefined ==
  ASSUME NEW T, NEW s \in Seq(T), NEW S
  PROVE  \E g : IsOnly(g, s, S, Len(s)) /\ Only(s, S) = g[Len(s)]
  <1> DEFINE only == CHOOSE g : g = [i \in 0 .. Len(s) |->
                       IF i = 0 THEN << >>
                       ELSE IF s[i] \in S THEN Append(g[i - 1], s[i]) ELSE g[i - 1]]
  <1>1. Len(s) \in Nat
    BY LenProperties
  <1>2. PICK g : IsOnly(g, s, S, Len(s))
    BY <1>1, OnlyExists
  <1>3. IsOnly(only, s, S, Len(s))
    BY <1>2 DEF IsOnly
  <1>4. Only(s, S) = only[Len(s)]
    BY DEF Only
  <1> QED
    BY <1>3, <1>4

\* Two queues that begin alike are sifted alike up to there.
LEMMA OnlyUnique ==
  ASSUME NEW s, NEW t, NEW S, NEW n \in Nat, NEW m \in Nat, NEW g, NEW h,
         IsOnly(g, s, S, n), IsOnly(h, t, S, m),
         n <= m, \A i \in 1 .. n : s[i] = t[i]
  PROVE  g[n] = h[n]
  <1> DEFINE N == {k \in Nat : k <= n => g[k] = h[k]}
  <1>1. \A i \in 0 .. n :
           g[i] = IF i = 0 THEN << >>
                  ELSE IF s[i] \in S THEN Append(g[i - 1], s[i]) ELSE g[i - 1]
    BY DEF IsOnly
  <1>2. \A i \in 0 .. m :
           h[i] = IF i = 0 THEN << >>
                  ELSE IF t[i] \in S THEN Append(h[i - 1], t[i]) ELSE h[i - 1]
    BY DEF IsOnly
  <1>3. 0 \in N
    BY <1>1, <1>2
  <1>4. ASSUME NEW k \in Nat, k \in N PROVE k + 1 \in N
    <2> SUFFICES ASSUME k + 1 <= n PROVE g[k + 1] = h[k + 1]
      OBVIOUS
    <2>1. /\ k + 1 \in 1 .. n /\ k + 1 \in 0 .. n /\ k + 1 \in 0 .. m
          /\ k + 1 - 1 = k /\ k + 1 # 0 /\ k <= n
      OBVIOUS
    <2>2. g[k] = h[k] /\ s[k + 1] = t[k + 1]
      BY <1>4, <2>1
    <2> QED
      BY <1>1, <1>2, <2>1, <2>2
  <1> HIDE DEF N
  <1>5. Nat \subseteq N
    BY <1>3, <1>4, Induction
  <1> QED
    BY <1>5 DEF N

\* Nothing is left of nothing.
LEMMA OnlyEmpty ==
  ASSUME NEW S
  PROVE  Only(<< >>, S) = << >>
  <1>1. << >> \in Seq({}) /\ Len(<< >>) = 0
    BY EmptySeq
  <1>2. PICK g : IsOnly(g, << >>, S, 0) /\ Only(<< >>, S) = g[0]
    BY <1>1, OnlyDefined
  <1> QED
    BY <1>2 DEF IsOnly

\* The last element is kept if it is one of S.
LEMMA OnlyAppend ==
  ASSUME NEW T, NEW s \in Seq(T), NEW e \in T, NEW S
  PROVE  Only(Append(s, e), S) =
           IF e \in S THEN Append(Only(s, S), e) ELSE Only(s, S)
  <1> DEFINE t == Append(s, e)
             n == Len(s)
  <1>1. n \in Nat
    BY LenProperties
  <1>2. /\ t \in Seq(T) /\ Len(t) = n + 1 /\ t[n + 1] = e
        /\ \A i \in 1 .. n : t[i] = s[i]
    BY AppendProperties
  <1> HIDE DEF t, n
  <1>3. PICK g : IsOnly(g, s, S, n) /\ Only(s, S) = g[n]
    BY OnlyDefined DEF n
  <1>4. PICK h : IsOnly(h, t, S, n + 1) /\ Only(t, S) = h[n + 1]
    BY <1>2, OnlyDefined
  <1>5. g[n] = h[n]
    <2>1. n + 1 \in Nat /\ n <= n + 1
      BY <1>1
    <2> QED
      BY <1>1, <1>2, <1>3, <1>4, <2>1, OnlyUnique
  <1>6. h[n + 1] = IF e \in S THEN Append(h[n], e) ELSE h[n]
    <2>1. PICK m : m = n + 1
      OBVIOUS
    <2>2. m \in 0 .. m /\ m # 0 /\ m - 1 = n
      BY <1>1, <2>1
    <2>3. IsOnly(h, t, S, m)
      BY <1>4, <2>1
    <2>4. h[m] = IF t[m] \in S THEN Append(h[m - 1], t[m]) ELSE h[m - 1]
      BY <2>2, <2>3 DEF IsOnly
    <2> QED
      BY <1>2, <2>1, <2>2, <2>4
  <1> QED
    BY <1>3, <1>4, <1>5, <1>6 DEF t

\* What is kept of a queue is a queue of elements of both sets.
LEMMA OnlyType ==
  ASSUME NEW T, NEW S
  PROVE  \A s \in Seq(T) : Only(s, S) \in Seq(T \cap S)
  <1> DEFINE Q == {s \in Seq(T) : Only(s, S) \in Seq(T \cap S)}
  <1>1. << >> \in Q
    BY OnlyEmpty, EmptySeq
  <1>2. ASSUME NEW s \in Seq(T), NEW e \in T, s \in Q PROVE Append(s, e) \in Q
    <2>1. Append(s, e) \in Seq(T)
      BY AppendProperties
    <2>2. Only(Append(s, e), S) \in Seq(T \cap S)
      <3>1. Only(s, S) \in Seq(T \cap S)
        BY <1>2
      <3>2. e \in S => Append(Only(s, S), e) \in Seq(T \cap S)
        BY <3>1, AppendProperties
      <3>3. Only(Append(s, e), S) = IF e \in S THEN Append(Only(s, S), e) ELSE Only(s, S)
        BY OnlyAppend
      <3> QED
        BY <3>1, <3>2, <3>3
    <2> QED
      BY <2>1, <2>2
  <1> HIDE DEF Q
  <1>3. Seq(T) \subseteq Q
    BY <1>1, <1>2, QueueInduction
  <1> QED
    BY <1>3 DEF Q

\* Two queues, one behind the other, are sifted one after the other.
LEMMA OnlyConcat ==
  ASSUME NEW T, NEW S, NEW s \in Seq(T)
  PROVE  \A t \in Seq(T) : Only(s \o t, S) = Only(s, S) \o Only(t, S)
  <1> DEFINE Q == {t \in Seq(T) : Only(s \o t, S) = Only(s, S) \o Only(t, S)}
  <1>1. << >> \in Q
    <2>1. s \o << >> = s /\ Only(s, S) \o << >> = Only(s, S)
      BY OnlyType, ConcatEmptySeq
    <2> QED
      BY <2>1, OnlyEmpty, EmptySeq
  <1>2. ASSUME NEW t \in Seq(T), NEW e \in T, t \in Q PROVE Append(t, e) \in Q
    <2>1. Append(t, e) \in Seq(T) /\ s \o t \in Seq(T)
      BY AppendProperties, ConcatProperties
    <2>2. s \o Append(t, e) = Append(s \o t, e)
      OBVIOUS
    <2>3. Only(s, S) \in Seq(T \cap S) /\ Only(t, S) \in Seq(T \cap S)
      BY OnlyType
    <2>4. e \in S => Only(s, S) \o Append(Only(t, S), e) = Append(Only(s, S) \o Only(t, S), e)
      BY <2>3
    <2>5. Only(Append(s \o t, e), S) =
            IF e \in S THEN Append(Only(s \o t, S), e) ELSE Only(s \o t, S)
      BY <2>1, OnlyAppend
    <2>6. Only(Append(t, e), S) = IF e \in S THEN Append(Only(t, S), e) ELSE Only(t, S)
      BY OnlyAppend
    <2> QED
      BY <1>2, <2>1, <2>2, <2>4, <2>5, <2>6
  <1> HIDE DEF Q
  <1>3. Seq(T) \subseteq Q
    BY <1>1, <1>2, QueueInduction
  <1> QED
    BY <1>3 DEF Q

\* A single element is kept or not.
LEMMA OnlyOne ==
  ASSUME NEW e, NEW S
  PROVE  Only(<<e>>, S) = IF e \in S THEN <<e>> ELSE << >>
  <1> DEFINE none == << >>
  <1>1. none \in Seq({e}) /\ Only(none, S) = << >>
    BY EmptySeq, OnlyEmpty
  <1> HIDE DEF none
  <1>2. Only(Append(none, e), S) =
          IF e \in S THEN Append(Only(none, S), e) ELSE Only(none, S)
    <2>1. e \in {e}
      OBVIOUS
    <2> QED
      BY <1>1, <2>1, OnlyAppend
  <1>3. Append(none, e) = <<e>>
    BY DEF none
  <1> QED
    BY <1>1, <1>2, <1>3 DEF none

\* The first element is kept or not, whatever is behind it.
LEMMA OnlyHeadTail ==
  ASSUME NEW T, NEW s \in Seq(T), s # << >>, NEW S
  PROVE  Only(s, S) = Only(<<Head(s)>>, S) \o Only(Tail(s), S)
  <1>1. Head(s) \in T /\ Tail(s) \in Seq(T) /\ <<Head(s)>> \in Seq(T)
    BY HeadTailProperties
  <1>2. s = <<Head(s)>> \o Tail(s)
    OBVIOUS
  <1> QED
    BY <1>1, <1>2, OnlyConcat

\* A name for \o to hide it by: the provers know so much about \o that they
\* lose their way where nothing but associativity is needed.
Joined(s, t) == s \o t

LEMMA JoinedAssociative ==
  ASSUME NEW T, NEW s \in Seq(T), NEW t \in Seq(T), NEW u \in Seq(T)
  PROVE  Joined(Joined(s, t), u) = Joined(s, Joined(t, u))
  BY ConcatAssociative, SMTT(30) DEF Joined

\* It makes no difference whether an element is still at the front of one queue
\* or already at the back of the one before.
LEMMA OnlyMove ==
  ASSUME NEW T, NEW s \in Seq(T), NEW t \in Seq(T), t # << >>, NEW S
  PROVE  Only(Append(s, Head(t)), S) \o Only(Tail(t), S) = Only(s, S) \o Only(t, S)
  <1>1. Head(t) \in T /\ Tail(t) \in Seq(T) /\ <<Head(t)>> \in Seq(T)
    BY HeadTailProperties
  <1>2. Append(s, Head(t)) = s \o <<Head(t)>>
    OBVIOUS
  <1>3. Only(Append(s, Head(t)), S) = Only(s, S) \o Only(<<Head(t)>>, S)
    BY <1>1, <1>2, OnlyConcat
  <1>4. /\ Only(s, S) \in Seq(T \cap S)
        /\ Only(<<Head(t)>>, S) \in Seq(T \cap S)
        /\ Only(Tail(t), S) \in Seq(T \cap S)
    BY <1>1, OnlyType
  <1>5. Joined(Joined(Only(s, S), Only(<<Head(t)>>, S)), Only(Tail(t), S))
          = Joined(Only(s, S), Joined(Only(<<Head(t)>>, S), Only(Tail(t), S)))
    BY <1>4, JoinedAssociative
  <1>6. Only(t, S) = Only(<<Head(t)>>, S) \o Only(Tail(t), S)
    BY OnlyHeadTail
  <1> QED
    BY <1>3, <1>5, <1>6 DEF Joined

\* The front of a queue is taken whatever is behind it.
LEMMA TailConcat ==
  ASSUME NEW T, NEW s \in Seq(T), NEW t \in Seq(T), s # << >>
  PROVE  s \o t # << >> /\ Tail(s \o t) = Tail(s) \o t
  OBVIOUS
\* A queue less one of its elements, and what a part of it is less.
LEMMA OnlyRemoveAt ==
  ASSUME NEW T, NEW s \in Seq(T), NEW i \in DOMAIN s, NEW S
  PROVE  /\ RemoveAt(s, i) \in Seq(T)
         /\ s[i] \in T
         /\ Len(Only(s, S)) \in Nat /\ Len(Only(RemoveAt(s, i), S)) \in Nat
         /\ Len(Only(s, S)) = Len(Only(RemoveAt(s, i), S)) + (IF s[i] \in S THEN 1 ELSE 0)
  <1> DEFINE before == SubSeq(s, 1, i - 1)
             after  == SubSeq(s, i + 1, Len(s))
             rest   == <<s[i]>> \o after
  <1>1. i \in 1 .. Len(s) /\ Len(s) \in Nat /\ s[i] \in T
    BY LenProperties, ElementOfSeq
  <1>2. before \in Seq(T) /\ after \in Seq(T) /\ <<s[i]>> \in Seq(T)
    <2>1. \A m \in 1 .. i - 1 : s[m] \in T
      BY <1>1, ElementOfSeq
    <2>2. \A m \in i + 1 .. Len(s) : s[m] \in T
      BY <1>1, ElementOfSeq
    <2> QED
      BY <1>1, <2>1, <2>2, SubSeqProperties
  <1>3. rest \in Seq(T)
    BY <1>2, ConcatProperties
  <1>4. s = before \o rest
    <2>1. rest = SubSeq(s, i, Len(s))
      <3>1. Len(s) \in i .. Len(s)
        BY <1>1
      <3> QED
        BY <1>1, <3>1, SubSeqRecursiveFirst
    <2>2. before \o SubSeq(s, i, Len(s)) = SubSeq(s, 1, Len(s))
      <3> DEFINE k == i - 1
      <3>1. /\ 1 \in 1 .. Len(s) + 1 /\ k \in 1 - 1 .. Len(s) /\ Len(s) \in k .. Len(s)
            /\ k + 1 = i
        BY <1>1
      <3> HIDE DEF k
      <3>2. SubSeq(s, 1, k) \o SubSeq(s, k + 1, Len(s)) = SubSeq(s, 1, Len(s))
        BY <3>1, ConcatAdjacentSubSeq
      <3> QED
        BY <3>1, <3>2 DEF k
    <2> QED
      BY <2>1, <2>2, SubSeqFull
  <1>5. RemoveAt(s, i) = before \o after /\ before \o after \in Seq(T)
    BY <1>2, ConcatProperties DEF RemoveAt
  <1> HIDE DEF before, after
  <1>6. /\ Only(s, S) = Only(before, S) \o Only(rest, S)
        /\ Only(rest, S) = Only(<<s[i]>>, S) \o Only(after, S)
        /\ Only(RemoveAt(s, i), S) = Only(before, S) \o Only(after, S)
    BY <1>2, <1>3, <1>4, <1>5, OnlyConcat, ZenonT(60)
  <1> HIDE DEF rest
  <1>7. /\ Only(before, S) \in Seq(T \cap S) /\ Only(after, S) \in Seq(T \cap S)
        /\ Only(rest, S) \in Seq(T \cap S) /\ Only(<<s[i]>>, S) \in Seq(T \cap S)
    BY <1>2, <1>3, OnlyType
  <1>8. Len(Only(<<s[i]>>, S)) = IF s[i] \in S THEN 1 ELSE 0
    <2>1. Only(<<s[i]>>, S) = IF s[i] \in S THEN <<s[i]>> ELSE << >>
      BY OnlyOne
    <2>2. Len(<<s[i]>>) = 1 /\ Len(<< >>) = 0
      OBVIOUS
    <2> QED
      BY <2>1, <2>2
  <1>9. /\ Len(Only(s, S)) = Len(Only(before, S)) + Len(Only(rest, S))
        /\ Len(Only(rest, S)) = Len(Only(<<s[i]>>, S)) + Len(Only(after, S))
        /\ Len(Only(RemoveAt(s, i), S)) = Len(Only(before, S)) + Len(Only(after, S))
    BY <1>6, <1>7, ConcatProperties
  <1> QED
    BY <1>1, <1>5, <1>7, <1>8, <1>9, LenProperties, SMTT(30)

\* The front of a queue is its first element.
LEMMA TailIsRemoveAt ==
  ASSUME NEW T, NEW s \in Seq(T), s # << >>
  PROVE  1 \in DOMAIN s /\ s[1] = Head(s) /\ Tail(s) = RemoveAt(s, 1) /\ Head(s) \in T
  <1>1. Len(s) \in Nat /\ Len(s) > 0 /\ DOMAIN s = 1 .. Len(s)
    BY LenProperties, EmptySeq
  <1>2. SubSeq(s, 1, 0) = << >>
    BY SubSeqEmpty
  <1>3. SubSeq(s, 2, Len(s)) = Tail(s) /\ Tail(s) \in Seq(T)
    BY TailIsSubSeq, HeadTailProperties
  <1> QED
    BY <1>1, <1>2, <1>3, ConcatEmptySeq DEF RemoveAt
-----------------------------------------------------------------------------
\* The element a sum takes next.
NextOf(s) == CHOOSE x \in s : TRUE

\* g is the function a sum of f over S is defined by, for subsets of up to n elements.
SumStep(g, f, s) == IF s = {} THEN 0 ELSE f[NextOf(s)] + g[s \ {NextOf(s)}]

UpTo(S, n) == {s \in SUBSET S : Cardinality(s) <= n}

IsSumOf(g, f, D) == g = [s \in D |-> SumStep(g, f, s)]

LEMMA SumExists ==
  ASSUME NEW S, IsFiniteSet(S), NEW f
  PROVE  \E g : IsSumOf(g, f, SUBSET S)
  <1> DEFINE N == {n \in Nat : \E g : IsSumOf(g, f, UpTo(S, n))}
  <1>1. \A s \in SUBSET S : IsFiniteSet(s) /\ Cardinality(s) \in Nat
    BY FS_Subset, FS_CardinalityType
  <1>2. 0 \in N
    <2>1. \A s \in UpTo(S, 0) : s = {}
      BY <1>1, FS_EmptySet DEF UpTo
    <2>2. IsSumOf([s \in UpTo(S, 0) |-> 0], f, UpTo(S, 0))
      BY <2>1 DEF IsSumOf, SumStep
    <2> QED
      BY <2>2
  <1>3. ASSUME NEW n \in Nat, n \in N PROVE n + 1 \in N
    <2>1. PICK g : IsSumOf(g, f, UpTo(S, n))
      BY <1>3
    <2> DEFINE h == [s \in UpTo(S, n + 1) |-> SumStep(g, f, s)]
    <2>2. ASSUME NEW s \in UpTo(S, n + 1) PROVE h[s] = SumStep(h, f, s)
      <3>1. CASE s = {}
        BY <3>1 DEF SumStep
      <3>2. CASE s # {}
        <4>1. NextOf(s) \in s
          BY <3>2 DEF NextOf
        <4> DEFINE t == s \ {NextOf(s)}
        <4>2. Cardinality(t) = Cardinality(s) - 1
          BY <1>1, <4>1, FS_RemoveElement DEF UpTo
        <4>3. t \in UpTo(S, n) /\ t \in UpTo(S, n + 1)
          BY <1>1, <4>2 DEF UpTo
        <4>4. g[t] = SumStep(g, f, t)
          BY <2>1, <4>3 DEF IsSumOf
        <4>5. h[t] = g[t]
          BY <4>3, <4>4
        <4> QED
          BY <3>2, <4>5 DEF SumStep
      <3> QED
        BY <3>1, <3>2
    <2>3. IsSumOf(h, f, UpTo(S, n + 1))
      BY <2>2 DEF IsSumOf
    <2> QED
      BY <2>3
  <1> HIDE DEF N
  <1>4. Cardinality(S) \in N
    BY <1>1, <1>2, <1>3, Induction
  <1>5. UpTo(S, Cardinality(S)) = SUBSET S
    BY FS_Subset DEF UpTo
  <1> QED
    BY <1>4, <1>5 DEF N

\* g is the sum of f over each subset of S.
Sums(g, f, S) ==
  /\ g[{}] = 0
  /\ \A s \in SUBSET S : s # {} => /\ NextOf(s) \in s
                                 /\ g[s] = f[NextOf(s)] + g[s \ {NextOf(s)}]

LEMMA SumDefined ==
  ASSUME NEW S, IsFiniteSet(S), NEW f
  PROVE  \E g : Sums(g, f, S) /\ SumFunctionOnSet(f, S) = g[S]
  <1> DEFINE iter == CHOOSE g : g = [s \in SUBSET S |->
                       IF s = {} THEN 0
                       ELSE f[CHOOSE x \in s : TRUE] + g[s \ {CHOOSE x \in s : TRUE}]]
  <1>1. PICK g : IsSumOf(g, f, SUBSET S)
    BY SumExists
  <1>2. IsSumOf(iter, f, SUBSET S)
    BY <1>1 DEF IsSumOf, SumStep, NextOf
  <1>3. SumFunctionOnSet(f, S) = iter[S]
    BY DEF SumFunctionOnSet, FoldFunctionOnSet, MapThenFoldSet
  <1> HIDE DEF iter
  <1>4. \A s \in SUBSET S : iter[s] = SumStep(iter, f, s)
    BY <1>2 DEF IsSumOf
  <1>5. \A s \in SUBSET S : s # {} => NextOf(s) \in s
    BY DEF NextOf
  <1>6. Sums(iter, f, S)
    BY <1>4, <1>5 DEF SumStep, Sums
  <1> QED
    BY <1>3, <1>6

\* A sum of natural numbers is one, and is no smaller than any of them.
LEMMA SumType ==
  ASSUME NEW S, IsFiniteSet(S), NEW f, \A x \in S : f[x] \in Nat
  PROVE  /\ SumFunctionOnSet(f, S) \in Nat
         /\ \A x \in S : f[x] <= SumFunctionOnSet(f, S)
  <1>1. PICK g : Sums(g, f, S) /\ SumFunctionOnSet(f, S) = g[S]
    BY SumDefined
  <1> DEFINE P == {s \in SUBSET S : g[s] \in Nat /\ \A x \in s : f[x] <= g[s]}
  <1>2. {} \in P
    BY <1>1 DEF Sums
  <1>5. \A s \in SUBSET S : s # {} => NextOf(s) \in s /\ g[s] = f[NextOf(s)] + g[s \ {NextOf(s)}]
    BY <1>1 DEF Sums
  <1>3. ASSUME NEW s \in SUBSET S, s # {}, \A x \in s : s \ {x} \in P PROVE s \in P
    <2> DEFINE y == NextOf(s)
    <2>1. y \in s /\ g[s] = f[y] + g[s \ {y}]
      BY <1>3, <1>5
    <2> HIDE DEF y
    <2>2. g[s \ {y}] \in Nat /\ (\A x \in s \ {y} : f[x] <= g[s \ {y}]) /\ f[y] \in Nat
      BY <1>3, <2>1
    <2>3. ASSUME NEW x \in s PROVE f[x] <= g[s]
      <3>1. f[x] \in Nat
        OBVIOUS
      <3> QED
        BY <2>1, <2>2, <3>1
    <2> QED
      BY <2>1, <2>2, <2>3
  <1> HIDE DEF P
  <1>4. S \in P
    BY <1>2, <1>3, SetInduction
  <1> QED
    BY <1>1, <1>4 DEF P

\* h is f but for one number, which is larger.
GrownAt(h, f, S, y, by) ==
  \A x \in S : f[x] \in Nat /\ h[x] = IF x = y THEN f[x] + by ELSE f[x]

\* If one of its numbers grows, the sum grows as much.
LEMMA SumGrown ==
  ASSUME NEW S, IsFiniteSet(S), NEW f, NEW h, NEW y \in S, NEW by \in Nat,
         GrownAt(h, f, S, y, by)
  PROVE  SumFunctionOnSet(h, S) = SumFunctionOnSet(f, S) + by
  <1>1. PICK g : Sums(g, f, S) /\ SumFunctionOnSet(f, S) = g[S]
    BY SumDefined
  <1>2. PICK k : Sums(k, h, S) /\ SumFunctionOnSet(h, S) = k[S]
    BY SumDefined
  <1> DEFINE P == {s \in SUBSET S : g[s] \in Nat /\ k[s] = IF y \in s THEN g[s] + by ELSE g[s]}
  <1>3. {} \in P
    BY <1>1, <1>2 DEF Sums
  <1>6. \A s \in SUBSET S : s # {} => NextOf(s) \in s /\ g[s] = f[NextOf(s)] + g[s \ {NextOf(s)}]
    BY <1>1 DEF Sums
  <1>7. \A s \in SUBSET S : s # {} => k[s] = h[NextOf(s)] + k[s \ {NextOf(s)}]
    BY <1>2 DEF Sums
  <1>4. ASSUME NEW s \in SUBSET S, s # {}, \A x \in s : s \ {x} \in P PROVE s \in P
    <2> DEFINE z == NextOf(s)
               t == s \ {z}
    <2>1. z \in s /\ g[s] = f[z] + g[t] /\ k[s] = h[z] + k[t]
      BY <1>4, <1>6, <1>7
    <2>2. z \notin t /\ (y \in s <=> y = z \/ y \in t)
      BY <2>1
    <2>3. g[t] \in Nat /\ k[t] = IF y \in t THEN g[t] + by ELSE g[t]
      BY <1>4, <2>1
    <2> HIDE DEF z, t
    <2>4. f[z] \in Nat /\ h[z] = IF z = y THEN f[z] + by ELSE f[z]
      BY <2>1 DEF GrownAt
    <2>5. g[s] \in Nat
      BY <2>1, <2>3, <2>4
    <2>6. CASE y = z
      BY <2>1, <2>2, <2>3, <2>4, <2>5, <2>6
    <2>7. CASE y # z
      BY <2>1, <2>2, <2>3, <2>4, <2>5, <2>7
    <2> QED
      BY <2>6, <2>7
  <1> HIDE DEF P
  <1>5. S \in P
    BY <1>3, <1>4, SetInduction
  <1> QED
    BY <1>1, <1>2, <1>5 DEF P

\* Sums of smaller numbers are smaller.
LEMMA SumMonotone ==
  ASSUME NEW S, IsFiniteSet(S), NEW f, NEW h,
         \A x \in S : f[x] \in Nat /\ h[x] \in Nat /\ f[x] <= h[x]
  PROVE  SumFunctionOnSet(f, S) <= SumFunctionOnSet(h, S)
  <1>1. PICK g : Sums(g, f, S) /\ SumFunctionOnSet(f, S) = g[S]
    BY SumDefined
  <1>2. PICK k : Sums(k, h, S) /\ SumFunctionOnSet(h, S) = k[S]
    BY SumDefined
  <1> DEFINE P == {s \in SUBSET S : g[s] \in Nat /\ k[s] \in Nat /\ g[s] <= k[s]}
  <1>3. {} \in P
    BY <1>1, <1>2 DEF Sums
  <1>4. ASSUME NEW s \in SUBSET S, s # {}, \A x \in s : s \ {x} \in P PROVE s \in P
    <2> DEFINE z == NextOf(s)
               t == s \ {z}
    <2>1. z \in s /\ g[s] = f[z] + g[t] /\ k[s] = h[z] + k[t]
      BY <1>1, <1>2, <1>4 DEF Sums
    <2>2. g[t] \in Nat /\ k[t] \in Nat /\ g[t] <= k[t]
      BY <1>4, <2>1
    <2>3. f[z] \in Nat /\ h[z] \in Nat /\ f[z] <= h[z]
      BY <2>1
    <2> HIDE DEF z, t
    <2> QED
      BY <2>1, <2>2, <2>3
  <1> HIDE DEF P
  <1>5. S \in P
    BY <1>3, <1>4, SetInduction
  <1> QED
    BY <1>1, <1>2, <1>5 DEF P

\* The sum of ones and zeros counts the ones.
LEMMA SumCounts ==
  ASSUME NEW S, IsFiniteSet(S), NEW T \in SUBSET S, NEW f,
         \A x \in S : f[x] = IF x \in T THEN 1 ELSE 0
  PROVE  SumFunctionOnSet(f, S) = Cardinality(T)
  <1>1. PICK g : Sums(g, f, S) /\ SumFunctionOnSet(f, S) = g[S]
    BY SumDefined
  <1>2. \A s \in SUBSET S : IsFiniteSet(s \cap T) /\ Cardinality(s \cap T) \in Nat
    BY FS_Subset, FS_CardinalityType
  <1> DEFINE P == {s \in SUBSET S : g[s] = Cardinality(s \cap T)}
  <1>3. {} \in P
    <2>1. {} \cap T = {}
      OBVIOUS
    <2> QED
      BY <1>1, <2>1, FS_EmptySet DEF Sums
  <1>4. ASSUME NEW s \in SUBSET S, s # {}, \A x \in s : s \ {x} \in P PROVE s \in P
    <2> DEFINE z == NextOf(s)
               t == s \ {z}
    <2>1. z \in s /\ g[s] = f[z] + g[t]
      BY <1>1, <1>4 DEF Sums
    <2>2. g[t] = Cardinality(t \cap T)
      BY <1>4, <2>1
    <2>3. CASE z \in T
      <3>1. t \cap T = (s \cap T) \ {z} /\ z \in s \cap T
        BY <2>1, <2>3
      <3>2. Cardinality(t \cap T) = Cardinality(s \cap T) - 1
        <4>1. IsFiniteSet(s \cap T)
          BY <1>2
        <4>2. Cardinality((s \cap T) \ {z}) = Cardinality(s \cap T) - 1
          BY <3>1, <4>1, FS_RemoveElement
        <4> QED
          BY <3>1, <4>2
      <3>3. f[z] = 1
        BY <2>1, <2>3
      <3> HIDE DEF z, t
      <3> QED
        BY <1>2, <2>1, <2>2, <3>2, <3>3
    <2>4. CASE z \notin T
      <3>1. t \cap T = s \cap T
        BY <2>4
      <3>2. f[z] = 0
        BY <2>1, <2>4
      <3>3. Cardinality(s \cap T) \in Nat
        BY <1>2
      <3> HIDE DEF z, t
      <3>4. g[s] = Cardinality(s \cap T)
        BY <2>1, <2>2, <3>1, <3>2, <3>3
      <3> QED
        BY <3>4
    <2> QED
      BY <2>3, <2>4
  <1> HIDE DEF P
  <1>5. S \in P
    BY <1>3, <1>4, SetInduction
  <1>6. S \cap T = T
    OBVIOUS
  <1> QED
    BY <1>1, <1>5, <1>6 DEF P
-----------------------------------------------------------------------------
(* Sums over the places 1 .. n of a way. *)

\* The sum of what is at the places after k.
After(c, k, n) == SumFunctionOnSet([j \in 1 .. n |-> IF j > k THEN c[j] ELSE 0], 1 .. n)

\* It is no less than what is at one of them, and less is after later places.
LEMMA AfterProperties ==
  ASSUME NEW n \in Nat, NEW c, \A j \in 1 .. n : c[j] \in Nat, NEW k \in 0 .. n
  PROVE  /\ After(c, k, n) \in Nat
         /\ After(c, k, n) <= After(c, 0, n)
         /\ \A j \in 1 .. n : j > k => c[j] <= After(c, k, n)
  <1> DEFINE f == [j \in 1 .. n |-> IF j > k THEN c[j] ELSE 0]
             all == [j \in 1 .. n |-> IF j > 0 THEN c[j] ELSE 0]
  <1>1. IsFiniteSet(1 .. n)
    BY FS_Interval
  <1>2. \A j \in 1 .. n : /\ f[j] \in Nat /\ all[j] \in Nat /\ f[j] <= all[j]
                          /\ j > k => f[j] = c[j]
    OBVIOUS
  <1> HIDE DEF f, all
  <1>3. /\ SumFunctionOnSet(f, 1 .. n) \in Nat
        /\ \A j \in 1 .. n : f[j] <= SumFunctionOnSet(f, 1 .. n)
    BY <1>1, <1>2, SumType
  <1>4. SumFunctionOnSet(f, 1 .. n) <= SumFunctionOnSet(all, 1 .. n)
    BY <1>1, <1>2, SumMonotone
  <1>5. After(c, k, n) = SumFunctionOnSet(f, 1 .. n) /\ After(c, 0, n) = SumFunctionOnSet(all, 1 .. n)
    BY DEF After, f, all
  <1> QED
    BY <1>2, <1>3, <1>4, <1>5

\* Nothing at all is nothing after any place.
LEMMA AfterNothing ==
  ASSUME NEW n \in Nat, NEW c, \A j \in 1 .. n : c[j] = 0, NEW k \in 0 .. n
  PROVE  After(c, k, n) = 0
  <1> DEFINE f == [j \in 1 .. n |-> IF j > k THEN c[j] ELSE 0]
  <1>1. IsFiniteSet(1 .. n) /\ Cardinality({}) = 0
    BY FS_Interval, FS_EmptySet
  <1>2. \A j \in 1 .. n : f[j] = IF j \in {} THEN 1 ELSE 0
    OBVIOUS
  <1> HIDE DEF f
  <1>3. SumFunctionOnSet(f, 1 .. n) = 0
    BY <1>1, <1>2, SumCounts
  <1> QED
    BY <1>3 DEF After, f

\* More at one place is more after those before it.
LEMMA AfterGrown ==
  ASSUME NEW n \in Nat, NEW c, NEW d, NEW y \in 1 .. n, NEW by \in Nat, GrownAt(d, c, 1 .. n, y, by)
  PROVE  \A k \in 0 .. n : /\ After(c, k, n) \in Nat
                           /\ After(d, k, n) = After(c, k, n) + (IF y > k THEN by ELSE 0)
  <1> TAKE k \in 0 .. n
  <1> DEFINE f == [j \in 1 .. n |-> IF j > k THEN c[j] ELSE 0]
             g == [j \in 1 .. n |-> IF j > k THEN d[j] ELSE 0]
             more == IF y > k THEN by ELSE 0
  <1>1. GrownAt(g, f, 1 .. n, y, more)
    BY DEF GrownAt
  <1>2. \A j \in 1 .. n : f[j] \in Nat
    BY DEF GrownAt
  <1>3. more \in Nat
    OBVIOUS
  <1>6. IsFiniteSet(1 .. n)
    BY FS_Interval
  <1> HIDE DEF f, g, more
  <1>4. SumFunctionOnSet(f, 1 .. n) \in Nat
    BY <1>2, <1>6, SumType
  <1>5. SumFunctionOnSet(g, 1 .. n) = SumFunctionOnSet(f, 1 .. n) + more
    BY <1>1, <1>3, <1>6, SumGrown
  <1> QED
    BY <1>4, <1>5 DEF After, f, g, more

\* d is c but for as much as goes from place j to the next.
MovedAt(d, c, j, by, n) ==
  \A k \in 1 .. n : /\ c[k] \in Nat /\ d[k] \in Nat
                    /\ d[k] + (IF k = j THEN by ELSE 0) = c[k] + (IF k = j + 1 THEN by ELSE 0)

\* What goes from the last place is nowhere.
LEMMA AfterLeft ==
  ASSUME NEW n \in Nat \ {0}, NEW c, NEW d, NEW by \in Nat, MovedAt(d, c, n, by, n)
  PROVE  \A k \in 0 .. n : /\ After(d, k, n) \in Nat
                           /\ After(c, k, n) = After(d, k, n) + (IF n > k THEN by ELSE 0)
  <1>1. n \in 1 .. n /\ n \in Nat
    OBVIOUS
  <1>2. GrownAt(c, d, 1 .. n, n, by)
    <2>1. ASSUME NEW i \in 1 .. n PROVE d[i] \in Nat /\ c[i] = IF i = n THEN d[i] + by ELSE d[i]
      <3>1. i # n + 1
        OBVIOUS
      <3> QED
        BY <3>1 DEF MovedAt
    <2> QED
      BY <2>1 DEF GrownAt
  <1> QED
    BY <1>1, <1>2, AfterGrown

\* Only what is at the places counts.
LEMMA AfterSame ==
  ASSUME NEW n \in Nat, NEW c, NEW d, \A j \in 1 .. n : c[j] = d[j], NEW k \in 0 .. n
  PROVE  After(c, k, n) = After(d, k, n)
  <1>1. [j \in 1 .. n |-> IF j > k THEN c[j] ELSE 0] = [j \in 1 .. n |-> IF j > k THEN d[j] ELSE 0]
    OBVIOUS
  <1> QED
    BY <1>1 DEF After

\* What goes from one place to the next, or from the last to nowhere, goes past the first.
LEMMA MovedSums ==
  ASSUME NEW n \in Nat \ {0}, NEW c, NEW d, NEW j \in 1 .. n, NEW by \in Nat, MovedAt(d, c, j, by, n),
         NEW k \in 0 .. n
  PROVE  /\ After(c, k, n) \in Nat /\ After(d, k, n) \in Nat
         /\ After(d, k, n) + (IF j = n /\ k < n THEN by ELSE 0)
              = After(c, k, n) + (IF j < n /\ k = j THEN by ELSE 0)
         /\ by <= After(c, 0, n)
  <1>1. \A i \in 1 .. n : c[i] \in Nat /\ d[i] \in Nat
    BY DEF MovedAt
  <1>2. n \in Nat /\ 0 \in 0 .. n
    OBVIOUS
  <1>3. /\ After(c, k, n) \in Nat /\ After(c, 0, n) \in Nat
        /\ \A i \in 1 .. n : i > 0 => c[i] <= After(c, 0, n)
    BY <1>1, <1>2, AfterProperties
  <1>4. After(d, k, n) \in Nat
    BY <1>1, <1>2, AfterProperties
  <1>5. by <= After(c, 0, n)
    <2>1. j # j + 1 /\ j > 0
      OBVIOUS
    <2>2. d[j] + by = c[j]
      BY <1>1, <2>1 DEF MovedAt
    <2>3. c[j] <= After(c, 0, n)
      BY <1>3, <2>1
    <2> QED
      BY <1>1, <1>3, <2>2, <2>3
  <1>6. CASE j = n
    <2>1. MovedAt(d, c, n, by, n)
      BY <1>6
    <2>2. After(c, k, n) = After(d, k, n) + (IF n > k THEN by ELSE 0)
      BY <2>1, AfterLeft
    <2> QED
      BY <1>3, <1>4, <1>5, <1>6, <2>2
  <1>7. CASE j # n
    <2> DEFINE m == [i \in 1 .. n |-> IF i = j THEN d[j] ELSE c[i]]
    <2>1. j \in (1 .. n) /\ j + 1 \in (1 .. n) /\ j # j + 1
      BY <1>7
    <2>2. GrownAt(c, m, 1 .. n, j, by)
      <3>1. ASSUME NEW i \in 1 .. n PROVE m[i] \in Nat /\ c[i] = IF i = j THEN m[i] + by ELSE m[i]
        <4>1. CASE i = j
          BY <2>1, <4>1 DEF MovedAt
        <4>2. CASE i # j
          BY <4>2 DEF MovedAt
        <4> QED
          BY <4>1, <4>2
      <3> QED
        BY <3>1 DEF GrownAt
    <2>3. GrownAt(d, m, 1 .. n, j + 1, by)
      <3>1. ASSUME NEW i \in 1 .. n PROVE m[i] \in Nat /\ d[i] = IF i = j + 1 THEN m[i] + by ELSE m[i]
        <4>1. CASE i = j
          BY <2>1, <4>1 DEF MovedAt
        <4>2. CASE i = j + 1
          BY <2>1, <4>2 DEF MovedAt
        <4>3. CASE i # j /\ i # j + 1
          BY <4>3 DEF MovedAt
        <4> QED
          BY <4>1, <4>2, <4>3
      <3> QED
        BY <3>1 DEF GrownAt
    <2> DEFINE y == j + 1
    <2> HIDE DEF m
    <2>4. /\ After(m, k, n) \in Nat
          /\ After(c, k, n) = After(m, k, n) + (IF j > k THEN by ELSE 0)
      BY <2>1, <2>2, AfterGrown
    <2>5. After(d, k, n) = After(m, k, n) + (IF y > k THEN by ELSE 0)
      <3>1. y \in 1 .. n /\ GrownAt(d, m, 1 .. n, y, by)
        BY <2>1, <2>3
      <3> HIDE DEF y
      <3> QED
        BY <3>1, AfterGrown
    <2>6. j < n /\ ~(j = n)
      BY <1>7
    <2> DEFINE x == After(c, k, n)
               z == After(d, k, n)
               w == After(m, k, n)
    <2>7. /\ w \in Nat /\ x = w + (IF j > k THEN by ELSE 0)
          /\ z = w + (IF j + 1 > k THEN by ELSE 0)
      BY <2>4, <2>5
    <2> HIDE DEF x, z, w
    <2>8. z + (IF j = n /\ k < n THEN by ELSE 0) = x + (IF j < n /\ k = j THEN by ELSE 0)
      BY <2>6, <2>7
    <2> QED
      BY <1>3, <1>4, <1>5, <2>8 DEF x, z
  <1> QED
    BY <1>6, <1>7
=============================================================================
