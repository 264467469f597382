---------------------------- MODULE FlattenLemmas ----------------------------
(***************************************************************************)
(* What FlattenSeq, which binds the executions of a statement together in  *)
(* DbiResults, returns: the facts its proofs rest on.                      *)
(*                                                                         *)
(* FlattenSeq is a recursive function, that is a CHOOSE; that a function   *)
(* satisfies its equation, and only one, is shown by the least number that *)
(* is in a set: induction over the numbers that does not take the property *)
(* proved as a parameter.                                                  *)
(***************************************************************************)
EXTENDS SequencesExt, SequenceTheorems, WellFoundedInduction, TLAPS

\* A set of numbers that is not empty has a least one.
LEMMA LeastNumber ==
  ASSUME NEW T, T \subseteq Nat, T # {}
  PROVE  \E n \in T : \A m \in T : n <= m
<1>. DEFINE R == OpToRel(<, Nat)
<1>1. IsWellFoundedOn(R, Nat)
  BY NatLessThanWellFounded
<1>2. \A x, y \in Nat : x < y => <<x, y>> \in R
  BY DEF OpToRel
<1>. HIDE DEF R
<1>3. PICK x \in T : \A y \in T : <<y, x>> \notin R
  BY <1>1, WFMin
<1>4. \A y \in T : ~(y < x)
  BY <1>2, <1>3
<1>. QED
  BY <1>3, <1>4

\* A set with 0 in it, and with every number the one after it, holds them all.
LEMMA SetInduction ==
  ASSUME NEW T, 0 \in T, \A n \in Nat : n \in T => n + 1 \in T
  PROVE  Nat \subseteq T
<1>. SUFFICES ASSUME NEW n \in Nat, n \notin T PROVE FALSE
  OBVIOUS
<1>1. PICK m \in Nat \ T : \A k \in Nat \ T : m <= k
  <2>1. Nat \ T \subseteq Nat /\ Nat \ T # {}
    OBVIOUS
  <2>. QED
    BY <2>1, LeastNumber
<1>2. m - 1 \in Nat /\ m - 1 \in T
  BY <1>1
<1>. QED
  BY <1>1, <1>2

-----------------------------------------------------------------------------
\* F is what flattening s accumulates up to its n-th part: nothing at first, and part after part.
AccumulatesTo(F, s, n) == F[0] = <<>> /\ \A i \in 1..n : F[i] = F[i - 1] \o s[i]
Accumulates(F, s)      == AccumulatesTo(F, s, Len(s))

\* One part more.
LEMMA AccumulateOneMore ==
  ASSUME NEW S, NEW s, NEW n \in Nat, NEW F \in [0..n -> Seq(S)], AccumulatesTo(F, s, n), s[n + 1] \in Seq(S)
  PROVE  \E G \in [0..(n + 1) -> Seq(S)] : AccumulatesTo(G, s, n + 1)
<1>. DEFINE more == F[n] \o s[n + 1]
            G == [i \in 0..(n + 1) |-> IF i = n + 1 THEN more ELSE F[i]]
<1>1. more \in Seq(S)
  BY ConcatProperties
<1>. HIDE DEF more
<1>2. G \in [0..(n + 1) -> Seq(S)]
  BY <1>1
<1>3. G[0] = <<>> /\ G[n + 1] = more /\ \A i \in 0..n : G[i] = F[i]
  BY DEF AccumulatesTo
<1>. HIDE DEF G
<1>4. ASSUME NEW i \in 1..(n + 1) PROVE G[i] = G[i - 1] \o s[i]
  <2>1. CASE i = n + 1
    <3>1. G[i - 1] = F[n] /\ G[i] = more
      BY <1>3, <2>1
    <3>. QED
      BY <2>1, <3>1 DEF more
  <2>2. CASE i # n + 1
    <3>1. i \in 1..n /\ i - 1 \in 0..n /\ i \in 0..n
      BY <2>2
    <3>2. G[i] = F[i] /\ G[i - 1] = F[i - 1]
      BY <1>3, <3>1
    <3>3. F[i] = F[i - 1] \o s[i]
      BY <3>1 DEF AccumulatesTo
    <3>. QED
      BY <3>2, <3>3
  <2>. QED
    BY <2>1, <2>2
<1>. QED
  BY <1>2, <1>3, <1>4 DEF AccumulatesTo

\* There is such a function, of sequences of the elements that the parts have.
LEMMA AccumulationExists ==
  ASSUME NEW S, NEW s \in Seq(Seq(S))
  PROVE  \E F \in [0..Len(s) -> Seq(S)] : Accumulates(F, s)
<1>. DEFINE T == {n \in Nat : n <= Len(s) => \E F \in [0..n -> Seq(S)] : AccumulatesTo(F, s, n)}
<1>1. Len(s) \in Nat /\ \A i \in 1..Len(s) : s[i] \in Seq(S)
  BY LenProperties, ElementOfSeq
<1>2. 0 \in T
  <2>. DEFINE G == [i \in 0..0 |-> <<>>]
  <2>1. G \in [0..0 -> Seq(S)]
    BY EmptySeq
  <2>2. AccumulatesTo(G, s, 0)
    BY DEF AccumulatesTo
  <2>. QED
    BY <2>1, <2>2
<1>3. ASSUME NEW n \in Nat, n \in T PROVE n + 1 \in T
  <2>. SUFFICES ASSUME n + 1 <= Len(s)
                PROVE  \E F \in [0..(n + 1) -> Seq(S)] : AccumulatesTo(F, s, n + 1)
    OBVIOUS
  <2>1. PICK F \in [0..n -> Seq(S)] : AccumulatesTo(F, s, n)
    BY <1>1, <1>3
  <2>2. s[n + 1] \in Seq(S)
    BY <1>1
  <2>. QED
    BY <2>1, <2>2, AccumulateOneMore
<1>4. Len(s) \in T
  <2>. HIDE DEF T
  <2>. QED
    BY <1>1, <1>2, <1>3, SetInduction
<1>. QED
  BY <1>1, <1>4 DEF Accumulates

\* The recursive function of FlattenSeq, as the prover sees it.
Flattening(s) == CHOOSE f : f = [i \in 1..Len(s) |-> IF i = 1 THEN s[i] ELSE f[i - 1] \o s[i]]

\* What FlattenSeq returns is what any such function accumulates.
LEMMA FlattenIs ==
  ASSUME NEW S, NEW s \in Seq(Seq(S)), NEW F \in [0..Len(s) -> Seq(S)], Accumulates(F, s)
  PROVE  FlattenSeq(s) = F[Len(s)]
<1>. DEFINE f == Flattening(s)
            T == {n \in Nat : n \in 1..Len(s) => f[n] = F[n]}
<1>1. Len(s) \in Nat /\ \A i \in 1..Len(s) : s[i] \in Seq(S)
  BY LenProperties, ElementOfSeq
<1>2. CASE Len(s) = 0
  <2>1. s = <<>>
    BY <1>2, EmptySeq
  <2>. QED
    BY <1>2, <2>1 DEF FlattenSeq, Accumulates, AccumulatesTo
<1>3. CASE Len(s) # 0
  <2>1. FlattenSeq(s) = f[Len(s)]
    BY <1>3 DEF FlattenSeq, Flattening
  <2>2. f = [i \in 1..Len(s) |-> IF i = 1 THEN s[i] ELSE f[i - 1] \o s[i]]
    <3>. DEFINE g == [i \in 1..Len(s) |-> F[i]]
    <3>1. \A i \in 1..Len(s) : F[i] = IF i = 1 THEN s[i] ELSE F[i - 1] \o s[i]
      <4>. SUFFICES ASSUME NEW i \in 1..Len(s)
                    PROVE  F[i] = IF i = 1 THEN s[i] ELSE F[i - 1] \o s[i]
        OBVIOUS
      <4>1. F[i] = F[i - 1] \o s[i] /\ F[0] = <<>>
        BY DEF Accumulates, AccumulatesTo
      <4>2. <<>> \o s[i] = s[i]
        BY <1>1, ConcatEmptySeq
      <4>3. i = 1 => F[i - 1] = <<>>
        BY <4>1
      <4>. QED
        BY <4>1, <4>2, <4>3, Zenon
    <3>2. g = [i \in 1..Len(s) |-> IF i = 1 THEN s[i] ELSE g[i - 1] \o s[i]]
      BY <1>1, <3>1
    <3>. HIDE DEF g
    <3>3. \E h : h = [i \in 1..Len(s) |-> IF i = 1 THEN s[i] ELSE h[i - 1] \o s[i]]
      BY <3>2
    <3>. QED
      BY <3>3 DEF Flattening
  <2>. HIDE DEF f
  <2>3. \A i \in 1..Len(s) : f[i] = IF i = 1 THEN s[i] ELSE f[i - 1] \o s[i]
    BY <2>2
  <2>4. 0 \in T
    OBVIOUS
  <2>5. ASSUME NEW n \in Nat, n \in T PROVE n + 1 \in T
    <3>. SUFFICES ASSUME n + 1 \in 1..Len(s) PROVE f[n + 1] = F[n + 1]
      OBVIOUS
    <3>1. CASE n = 0
      <4>1. f[1] = s[1] /\ F[1] = F[0] \o s[1] /\ F[0] = <<>> /\ s[1] \in Seq(S)
        <5>1. 1 \in 1..Len(s)
          BY <1>1, <1>3
        <5>2. f[1] = s[1] /\ s[1] \in Seq(S)
          BY <1>1, <2>3, <5>1
        <5>3. F[1] = F[1 - 1] \o s[1] /\ F[0] = <<>>
          BY <5>1 DEF Accumulates, AccumulatesTo
        <5>4. 1 - 1 = 0
          OBVIOUS
        <5>. QED
          BY <5>2, <5>3, <5>4, Zenon
      <4>. QED
        BY <3>1, <4>1, ConcatEmptySeq
    <3>2. CASE n # 0
      <4>1. n \in 1..Len(s) /\ n + 1 # 1 /\ (n + 1) - 1 = n
        BY <1>1, <3>2
      <4>2. f[n] = F[n]
        BY <2>5, <4>1
      <4>3. f[n + 1] = f[n] \o s[n + 1]
        BY <2>3, <4>1
      <4>4. F[n + 1] = F[n] \o s[n + 1]
        BY <4>1 DEF Accumulates, AccumulatesTo
      <4>. QED
        BY <4>2, <4>3, <4>4
    <3>. QED
      BY <3>1, <3>2
  <2>6. Len(s) \in T
    <3>. HIDE DEF T
    <3>. QED
      BY <1>1, <2>4, <2>5, SetInduction
  <2>. QED
    BY <1>1, <1>3, <2>1, <2>6
<1>. QED
  BY <1>2, <1>3

-----------------------------------------------------------------------------
\* Concatenation under a name, for the steps that have to see it unexpanded.
Cat(a, b) == a \o b

LEMMA CatAssociative == \A S : \A a, b, c \in Seq(S) : Cat(Cat(a, b), c) = Cat(a, Cat(b, c))
  BY ConcatAssociative DEF Cat

LEMMA FlattenType ==
  ASSUME NEW S, NEW s \in Seq(Seq(S))
  PROVE  FlattenSeq(s) \in Seq(S)
<1>1. PICK F \in [0..Len(s) -> Seq(S)] : Accumulates(F, s)
  BY AccumulationExists
<1>2. FlattenSeq(s) = F[Len(s)] /\ Len(s) \in Nat
  BY <1>1, FlattenIs, LenProperties
<1>. QED
  BY <1>2

\* Parts without elements flatten to nothing.
LEMMA FlattenNothing ==
  ASSUME NEW S, NEW s \in Seq(Seq(S)), \A i \in 1..Len(s) : s[i] = <<>>
  PROVE  FlattenSeq(s) = <<>>
<1>. DEFINE F == [i \in 0..Len(s) |-> <<>>]
<1>1. Len(s) \in Nat /\ <<>> \in Seq(S) /\ <<>> \o <<>> = <<>>
  BY LenProperties, EmptySeq, ConcatEmptySeq
<1>2. F \in [0..Len(s) -> Seq(S)] /\ \A i \in 0..Len(s) : F[i] = <<>>
  BY <1>1
<1>. HIDE DEF F
<1>3. ASSUME NEW i \in 1..Len(s) PROVE F[i] = F[i - 1] \o s[i]
  <2>1. i \in 0..Len(s) /\ i - 1 \in 0..Len(s)
    BY <1>1
  <2>2. F[i] = <<>> /\ F[i - 1] = <<>> /\ s[i] = <<>>
    BY <1>2, <2>1
  <2>. QED
    BY <1>1, <2>2, Zenon
<1>4. F[0] = <<>> /\ F[Len(s)] = <<>>
  BY <1>1, <1>2
<1>. QED
  BY <1>2, <1>3, <1>4, FlattenIs DEF Accumulates, AccumulatesTo

\* The first part that has elements comes first, and the parts after it follow.
LEMMA FlattenFrom ==
  ASSUME NEW S, NEW s \in Seq(Seq(S)), NEW i \in 1..Len(s), \A j \in 1..(i - 1) : s[j] = <<>>
  PROVE  /\ SubSeq(s, i + 1, Len(s)) \in Seq(Seq(S))
         /\ FlattenSeq(s) = s[i] \o FlattenSeq(SubSeq(s, i + 1, Len(s)))
<1>. DEFINE t == SubSeq(s, i + 1, Len(s))
<1>1. Len(s) \in Nat /\ i \in Nat /\ \A j \in 1..Len(s) : s[j] \in Seq(S)
  BY LenProperties, ElementOfSeq
<1>2. t \in Seq(Seq(S)) /\ Len(t) = Len(s) - i /\ \A j \in 1..Len(t) : t[j] = s[i + j]
  <2>1. \A j \in (i + 1)..Len(s) : s[j] \in Seq(S)
    BY <1>1
  <2>2. /\ t \in Seq(Seq(S))
        /\ Len(t) = IF i + 1 <= Len(s) THEN Len(s) - (i + 1) + 1 ELSE 0
        /\ \A j \in 1..(Len(s) - (i + 1) + 1) : t[j] = s[(i + 1) + j - 1]
    BY <1>1, <2>1, SubSeqProperties
  <2>. HIDE DEF t
  <2>3. Len(t) = Len(s) - i
    BY <1>1, <2>2
  <2>4. ASSUME NEW j \in 1..Len(t) PROVE t[j] = s[i + j]
    <3>1. j \in 1..(Len(s) - (i + 1) + 1) /\ (i + 1) + j - 1 = i + j
      BY <1>1, <2>3
    <3>. QED
      BY <2>2, <3>1
  <2>. QED
    BY <2>2, <2>3, <2>4
<1>. HIDE DEF t
<1>3. PICK G \in [0..Len(t) -> Seq(S)] : Accumulates(G, t)
  BY <1>2, AccumulationExists
<1>4. FlattenSeq(t) = G[Len(t)]
  BY <1>2, <1>3, FlattenIs
<1>. DEFINE F == [j \in 0..Len(s) |-> IF j < i THEN <<>> ELSE s[i] \o G[j - i]]
<1>5. ASSUME NEW j \in i..Len(s) PROVE s[i] \o G[j - i] \in Seq(S)
  <2>1. j - i \in 0..Len(t) /\ s[i] \in Seq(S)
    BY <1>1, <1>2
  <2>2. G[j - i] \in Seq(S)
    BY <1>3, <2>1
  <2>. QED
    BY <2>1, <2>2, ConcatProperties
<1>6. F \in [0..Len(s) -> Seq(S)]
  <2>1. ASSUME NEW j \in 0..Len(s) PROVE (IF j < i THEN <<>> ELSE s[i] \o G[j - i]) \in Seq(S)
    <3>1. CASE j < i
      BY <3>1, EmptySeq
    <3>2. CASE ~(j < i)
      <4>1. j \in i..Len(s)
        BY <1>1, <3>2
      <4>. QED
        BY <1>5, <3>2, <4>1
    <3>. QED
      BY <3>1, <3>2
  <2>. QED
    BY <2>1
<1>7. \A j \in 0..Len(s) : F[j] = IF j < i THEN <<>> ELSE s[i] \o G[j - i]
  OBVIOUS
<1>. HIDE DEF F
<1>8. ASSUME NEW j \in 1..Len(s) PROVE F[j] = F[j - 1] \o s[j]
  <2>1. s[j] \in Seq(S) /\ s[i] \in Seq(S) /\ <<>> \in Seq(S)
    BY <1>1, EmptySeq
  <2>a. /\ j \in Nat /\ i \in Nat /\ Len(s) \in Nat /\ 1 <= j /\ j <= Len(s) /\ 1 <= i /\ i <= Len(s)
        /\ Len(t) = Len(s) - i
    BY <1>1, <1>2
  <2>b. /\ F[j] = IF j < i THEN <<>> ELSE s[i] \o G[j - i]
        /\ F[j - 1] = IF j - 1 < i THEN <<>> ELSE s[i] \o G[(j - 1) - i]
    <3>1. j \in 0..Len(s) /\ j - 1 \in 0..Len(s)
      BY <2>a
    <3>. QED
      BY <1>7, <3>1
  <2>2. CASE j < i
    <3>3. j \in 1..(i - 1) /\ j - 1 < i
      BY <2>a, <2>2
    <3>1. F[j] = <<>> /\ F[j - 1] = <<>> /\ s[j] = <<>>
      BY <2>b, <2>2, <3>3, Zenon
    <3>2. <<>> \o <<>> = <<>>
      BY <2>1, ConcatEmptySeq
    <3>. QED
      BY <3>1, <3>2, Zenon
  <2>3. CASE j = i
    <3>4. ~(j < i) /\ j - 1 < i /\ j - i = 0
      BY <2>a, <2>3
    <3>1. F[j] = s[i] \o G[0] /\ F[j - 1] = <<>>
      BY <2>b, <3>4, Zenon
    <3>2. G[0] = <<>>
      BY <1>3 DEF Accumulates, AccumulatesTo
    <3>3. s[i] \o <<>> = s[i] /\ <<>> \o s[i] = s[i]
      BY <2>1, ConcatEmptySeq
    <3>. QED
      BY <2>3, <3>1, <3>2, <3>3, Zenon
  <2>4. CASE j > i
    <3>1. j - i \in 1..Len(t) /\ (j - 1) - i = (j - i) - 1 /\ i + (j - i) = j /\ (j - i) - 1 \in 0..Len(t)
      BY <2>a, <2>4
    <3>2. F[j] = s[i] \o G[j - i] /\ F[j - 1] = s[i] \o G[(j - i) - 1]
      <4>1. ~(j < i) /\ ~(j - 1 < i)
        BY <2>a, <2>4
      <4>. QED
        BY <2>b, <3>1, <4>1, Zenon
    <3>3. G[j - i] = G[(j - i) - 1] \o t[j - i]
      BY <1>3, <3>1 DEF Accumulates, AccumulatesTo
    <3>4. t[j - i] = s[j]
      BY <1>2, <3>1
    <3>5. G[(j - i) - 1] \in Seq(S)
      BY <1>3, <3>1
    <3>. QED
      <4>1. F[j] = Cat(s[i], Cat(G[(j - i) - 1], s[j]))
        BY <3>2, <3>3, <3>4, Zenon DEF Cat
      <4>2. F[j - 1] = Cat(s[i], G[(j - i) - 1])
        BY <3>2, Zenon DEF Cat
      <4>3. F[j] = Cat(F[j - 1], s[j])
        BY <2>1, <3>5, <4>1, <4>2, CatAssociative
      <4>. QED
        BY <4>3, Zenon DEF Cat
  <2>. QED
    <3>1. j < i \/ j = i \/ j > i
      BY <2>a
    <3>. QED
      BY <2>2, <2>3, <2>4, <3>1, Zenon
<1>9. F[0] = <<>> /\ F[Len(s)] = s[i] \o G[Len(t)]
  <2>1. /\ Len(s) \in Nat /\ i \in Nat /\ 1 <= i /\ i <= Len(s) /\ Len(t) = Len(s) - i
    BY <1>1, <1>2
  <2>2. 0 \in 0..Len(s) /\ Len(s) \in 0..Len(s) /\ 0 < i /\ ~(Len(s) < i)
    BY <2>1
  <2>. QED
    BY <1>7, <2>1, <2>2, Zenon
<1>10. FlattenSeq(s) = F[Len(s)]
  BY <1>6, <1>8, <1>9, FlattenIs DEF Accumulates, AccumulatesTo
<1>. QED
  BY <1>2, <1>4, <1>9, <1>10 DEF t

\* The parts before one, that part, and the parts after it.
LEMMA FlattenAround ==
  ASSUME NEW S, NEW s \in Seq(Seq(S)), NEW i \in 1..Len(s)
  PROVE  /\ SubSeq(s, 1, i - 1) \in Seq(Seq(S)) /\ SubSeq(s, i + 1, Len(s)) \in Seq(Seq(S))
         /\ FlattenSeq(s) = Cat(FlattenSeq(SubSeq(s, 1, i - 1)), Cat(s[i], FlattenSeq(SubSeq(s, i + 1, Len(s)))))
<1>. DEFINE h == SubSeq(s, 1, i - 1)
            t == SubSeq(s, i + 1, Len(s))
<1>1. Len(s) \in Nat /\ i \in Nat /\ 1 <= i /\ i <= Len(s) /\ \A j \in 1..Len(s) : s[j] \in Seq(S)
  BY LenProperties, ElementOfSeq
<1>2. h \in Seq(Seq(S)) /\ Len(h) = i - 1 /\ \A j \in 1..(i - 1) : h[j] = s[j]
  <2>1. \A j \in 1..(i - 1) : s[j] \in Seq(S)
    BY <1>1
  <2>2. /\ h \in Seq(Seq(S))
        /\ Len(h) = IF 1 <= i - 1 THEN (i - 1) - 1 + 1 ELSE 0
        /\ \A j \in 1..((i - 1) - 1 + 1) : h[j] = s[1 + j - 1]
    BY <1>1, <2>1, SubSeqProperties
  <2>. HIDE DEF h
  <2>. QED
    BY <1>1, <2>2
<1>3. t \in Seq(Seq(S)) /\ Len(t) = Len(s) - i /\ \A j \in 1..Len(t) : t[j] = s[i + j]
  <2>1. \A j \in (i + 1)..Len(s) : s[j] \in Seq(S)
    BY <1>1
  <2>2. /\ t \in Seq(Seq(S))
        /\ Len(t) = IF i + 1 <= Len(s) THEN Len(s) - (i + 1) + 1 ELSE 0
        /\ \A j \in 1..(Len(s) - (i + 1) + 1) : t[j] = s[(i + 1) + j - 1]
    BY <1>1, <2>1, SubSeqProperties
  <2>. HIDE DEF t
  <2>3. Len(t) = Len(s) - i
    BY <1>1, <2>2
  <2>4. ASSUME NEW j \in 1..Len(t) PROVE t[j] = s[i + j]
    <3>1. j \in 1..(Len(s) - (i + 1) + 1) /\ (i + 1) + j - 1 = i + j
      BY <1>1, <2>3
    <3>. QED
      BY <2>2, <3>1
  <2>. QED
    BY <2>2, <2>3, <2>4
<1>. HIDE DEF h, t
<1>4. PICK F \in [0..Len(s) -> Seq(S)] : Accumulates(F, s)
  BY AccumulationExists
<1>5. PICK G \in [0..Len(t) -> Seq(S)] : Accumulates(G, t)
  BY <1>3, AccumulationExists
<1>6. FlattenSeq(s) = F[Len(s)] /\ FlattenSeq(t) = G[Len(t)]
  BY <1>3, <1>4, <1>5, FlattenIs
<1>7. F[0] = <<>> /\ \A j \in 1..Len(s) : F[j] = Cat(F[j - 1], s[j])
  BY <1>4 DEF Accumulates, AccumulatesTo, Cat
<1>8. G[0] = <<>> /\ \A j \in 1..Len(t) : G[j] = Cat(G[j - 1], t[j])
  BY <1>5 DEF Accumulates, AccumulatesTo, Cat
<1>9. FlattenSeq(h) = F[i - 1]
  <2>. DEFINE H == [j \in 0..Len(h) |-> F[j]]
  <2>1. H \in [0..Len(h) -> Seq(S)]
    BY <1>1, <1>2
  <2>2. H[0] = <<>> /\ H[Len(h)] = F[i - 1]
    BY <1>1, <1>2, <1>7
  <2>3. ASSUME NEW j \in 1..Len(h) PROVE H[j] = H[j - 1] \o h[j]
    <3>1. j \in 1..Len(s) /\ j \in 0..Len(h) /\ j - 1 \in 0..Len(h) /\ h[j] = s[j]
      BY <1>1, <1>2
    <3>. QED
      BY <1>7, <3>1 DEF Cat
  <2>. HIDE DEF H
  <2>. QED
    BY <1>2, <2>1, <2>2, <2>3, FlattenIs DEF Accumulates, AccumulatesTo
<1>10. F[Len(s)] = Cat(F[i], G[Len(t)])
  <2>. DEFINE T == {j \in Nat : j \in 0..Len(t) => F[i + j] = Cat(F[i], G[j])}
  <2>1. 0 \in T
    <3>1. i \in 0..Len(s) /\ i + 0 = i
      BY <1>1
    <3>2. F[i] \in Seq(S)
      BY <1>4, <3>1
    <3>3. Cat(F[i], <<>>) = F[i]
      BY <3>2, ConcatEmptySeq DEF Cat
    <3>. QED
      BY <1>8, <3>1, <3>3
  <2>2. ASSUME NEW j \in Nat, j \in T PROVE j + 1 \in T
    <3>. SUFFICES ASSUME j + 1 \in 0..Len(t) PROVE F[i + (j + 1)] = Cat(F[i], G[j + 1])
      OBVIOUS
    <3>1. /\ j \in 0..Len(t) /\ j + 1 \in 1..Len(t) /\ (j + 1) - 1 = j
          /\ i + (j + 1) \in 1..Len(s) /\ (i + (j + 1)) - 1 = i + j /\ i \in 0..Len(s)
      BY <1>1, <1>3
    <3>2. F[i + (j + 1)] = Cat(F[i + j], s[i + (j + 1)])
      BY <1>7, <3>1
    <3>3. F[i + j] = Cat(F[i], G[j]) /\ G[j + 1] = Cat(G[j], s[i + (j + 1)])
      BY <1>3, <1>8, <2>2, <3>1
    <3>4. F[i] \in Seq(S) /\ G[j] \in Seq(S) /\ s[i + (j + 1)] \in Seq(S)
      BY <1>1, <3>1
    <3>. QED
      BY <3>2, <3>3, <3>4, CatAssociative
  <2>3. Len(t) \in T
    <3>1. Len(t) \in Nat
      BY <1>1, <1>3
    <3>. HIDE DEF T
    <3>. QED
      BY <2>1, <2>2, <3>1, SetInduction
  <2>4. Len(t) \in 0..Len(t) /\ i + Len(t) = Len(s)
    BY <1>1, <1>3
  <2>. QED
    BY <2>3, <2>4
<1>11. F[i] = Cat(F[i - 1], s[i]) /\ F[i - 1] \in Seq(S) /\ s[i] \in Seq(S) /\ G[Len(t)] \in Seq(S)
  <2>1. i \in 1..Len(s) /\ i - 1 \in 0..Len(s) /\ Len(t) \in 0..Len(t)
    BY <1>1, <1>3
  <2>. QED
    BY <1>1, <1>4, <1>5, <1>7, <2>1
<1>12. FlattenSeq(s) = Cat(F[i - 1], Cat(s[i], G[Len(t)]))
  BY <1>6, <1>10, <1>11, CatAssociative
<1>. QED
  BY <1>2, <1>3, <1>6, <1>9, <1>12 DEF h, t
=============================================================================
