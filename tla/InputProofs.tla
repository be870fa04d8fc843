---------------------------- MODULE InputProofs ----------------------------
(***************************************************************************)
(* Proofs about Input: boot leaves ports, interrupts and devices in step;  *)
(* the driver agrees with the user about the keyboard; and key presses get *)
(* to readers in order.  The induction over sequences that this takes is   *)
(* done with sets of numbers (NatInduct), as operators cannot be           *)
(* instantiated.                                                           *)
(***************************************************************************)
EXTENDS Input, Integers, SequenceTheorems, FiniteSetTheorems, WellFoundedInduction, TLAPS

----------------------------------------------------------------------------
(* Sequences of sequences. *)

\* Induction, for a set of numbers.
LEMMA NatInduct ==
    ASSUME NEW S, 0 \in S, \A n \in Nat : n \in S => n + 1 \in S
    PROVE  Nat \subseteq S
  <1> DEFINE T == Nat \ S
  <1> SUFFICES ASSUME T # {} PROVE FALSE
    BY Zenon
  <1>1. IsWellFoundedOn(OpToRel(<, Nat), Nat)
    BY NatLessThanWellFounded, Zenon
  <1>2. T \subseteq Nat
    OBVIOUS
  <1> HIDE DEF T
  <1>3. PICK x \in T : \A y \in T : ~(<<y, x>> \in OpToRel(<, Nat))
    BY <1>1, <1>2, WFMin
  <1>4. x \in Nat /\ x \notin S /\ x # 0
    BY <1>3 DEF T
  <1>5. x - 1 \in Nat /\ x - 1 < x
    BY <1>4
  <1>6. <<x - 1, x>> \in OpToRel(<, Nat)
    BY <1>4, <1>5 DEF OpToRel
  <1>7. x - 1 \in S
    BY <1>3, <1>5, <1>6 DEF T
  <1>8. (x - 1) + 1 \in S
    BY <1>5, <1>7
  <1> QED  BY <1>4, <1>8

\* The same up to a bound.
LEMMA UpInduct ==
    ASSUME NEW S, NEW m \in Nat, 0 \in S, \A n \in 0 .. m - 1 : n \in S => n + 1 \in S
    PROVE  0 .. m \subseteq S
  <1> DEFINE T == S \cup {n \in Nat : n > m}
  <1>1. 0 \in T
    OBVIOUS
  <1>2. ASSUME NEW n \in Nat, n \in T PROVE n + 1 \in T
    <2>1. CASE n < m
      BY <1>2, <2>1
    <2>2. CASE n >= m
      BY <1>2, <2>2
    <2> QED  BY <2>1, <2>2
  <1> HIDE DEF T
  <1>3. Nat \subseteq T
    BY <1>1, <1>2, NatInduct
  <1> QED  BY <1>3 DEF T

\* f[i] is the concatenation of the first i of ss.
Sums(f, ss, S) ==
    /\ f \in [0 .. Len(ss) -> Seq(S)]
    /\ f[0] = <<>>
    /\ \A i \in 1 .. Len(ss) : f[i] = f[i - 1] \o ss[i]

\* There is such an f for every list of lists.
LEMMA SumsExist ==
    ASSUME NEW S, NEW ss \in Seq(Seq(S))
    PROVE  \E f : Sums(f, ss, S)
  <1> DEFINE m == Len(ss)
             Upto(n) == \E f : /\ f \in [0 .. n -> Seq(S)] /\ f[0] = <<>>
                               /\ \A i \in 1 .. n : f[i] = f[i - 1] \o ss[i]
             G == {n \in 0 .. m : Upto(n)}
  <1> HIDE DEF Upto
  <1>1. m \in Nat /\ \A i \in 1 .. m : ss[i] \in Seq(S)
    OBVIOUS
  <1>2. 0 \in G
    <2> DEFINE f == [i \in 0 .. 0 |-> <<>>]
    <2>1. <<>> \in Seq(S)
      OBVIOUS
    <2>2. f \in [0 .. 0 -> Seq(S)] /\ f[0] = <<>> /\ 1 .. 0 = {}
      BY <2>1
    <2> HIDE DEF f
    <2>3. Upto(0)
      BY <2>2 DEF Upto
    <2> HIDE DEF m
    <2> QED  BY <1>1, <2>3
  <1>3. ASSUME NEW n \in 0 .. m - 1, n \in G PROVE n + 1 \in G
    <2>1. PICK f : /\ f \in [0 .. n -> Seq(S)] /\ f[0] = <<>>
                   /\ \A i \in 1 .. n : f[i] = f[i - 1] \o ss[i]
      BY <1>3 DEF Upto
    <2>a. n \in Nat /\ n + 1 \in 1 .. m /\ (n + 1) - 1 = n /\ n + 1 \in 0 .. m
      BY <1>1
    <2> HIDE DEF m
    <2> DEFINE e == f[n] \o ss[n + 1]
               g == [i \in 0 .. n + 1 |-> IF i = n + 1 THEN e ELSE f[i]]
    <2>2. f[n] \in Seq(S) /\ ss[n + 1] \in Seq(S)
      BY <1>1, <2>1, <2>a
    <2>3. e \in Seq(S)
      BY <2>2, ConcatProperties
    <2>4. g \in [0 .. n + 1 -> Seq(S)] /\ g[0] = <<>> /\ g[n + 1] = e
          /\ \A i \in 0 .. n : g[i] = f[i]
      <3> HIDE DEF e
      <3>1. \A i \in 0 .. n + 1 : i = n + 1 \/ i \in 0 .. n
        BY <2>a
      <3>2. \A i \in 0 .. n + 1 : (IF i = n + 1 THEN e ELSE f[i]) \in Seq(S)
        BY <2>1, <2>3, <3>1
      <3>3. \A i \in 0 .. n + 1 : g[i] = IF i = n + 1 THEN e ELSE f[i]
        OBVIOUS
      <3>4. g \in [0 .. n + 1 -> Seq(S)]
        BY <3>2
      <3> HIDE DEF g
      <3> QED  BY <2>1, <2>a, <3>3, <3>4
    <2>5. \A i \in 1 .. n + 1 : g[i] = g[i - 1] \o ss[i]
      <3> TAKE i \in 1 .. n + 1
      <3>1. CASE i = n + 1
        <4>1. i - 1 = n /\ n \in 0 .. n
          BY <2>a, <3>1
        <4> HIDE DEF g
        <4>2. g[i - 1] = f[n] /\ g[i] = e
          BY <2>4, <3>1, <4>1
        <4> QED  BY <3>1, <4>2
      <3>2. CASE i # n + 1
        <4>1. i \in 1 .. n /\ i - 1 \in 0 .. n /\ i \in 0 .. n
          BY <3>2
        <4> HIDE DEF g
        <4> QED  BY <2>1, <2>4, <4>1
      <3> QED  BY <3>1, <3>2
    <2> HIDE DEF g
    <2>6. Upto(n + 1)
      BY <2>4, <2>5 DEF Upto
    <2> QED  BY <2>a, <2>6
  <1>4. 0 .. m \subseteq G
    <2> HIDE DEF G, m
    <2> QED  BY <1>1, <1>2, <1>3, UpInduct
  <1>5. Upto(m)
    <2>1. m \in 0 .. m
      BY <1>1
    <2> HIDE DEF m
    <2> QED  BY <1>4, <2>1
  <1> QED  BY <1>5 DEF Sums, Upto

\* FlattenSeq is the last of its partial sums.
LEMMA FlattenIs ==
    ASSUME NEW S, NEW ss \in Seq(Seq(S)), NEW f, Sums(f, ss, S)
    PROVE  FlattenSeq(ss) = f[Len(ss)]
  <1> DEFINE m == Len(ss)
  <1>1. m \in Nat /\ \A i \in 1 .. m : ss[i] \in Seq(S)
    OBVIOUS
  <1>2. CASE m = 0
    <2>1. FlattenSeq(ss) = ss
      BY <1>2 DEF FlattenSeq
    <2>2. ss = <<>>
      BY <1>2, EmptySeq
    <2> QED  BY <1>2, <2>1, <2>2 DEF Sums
  <1>3. CASE m # 0
    <2> DEFINE E(h) == [i \in 1 .. m |-> IF i = 1 THEN ss[i] ELSE h[i - 1] \o ss[i]]
               g == CHOOSE h : h = E(h)
               k == [i \in 1 .. m |-> f[i]]
    <2>1. FlattenSeq(ss) = g[m]
      BY <1>3 DEF FlattenSeq
    <2>2. k = E(k)
      <3>1. \A i \in 1 .. m : k[i] = IF i = 1 THEN ss[i] ELSE k[i - 1] \o ss[i]
        <4> TAKE i \in 1 .. m
        <4>1. CASE i = 1
          <5>a. f[1] = f[1 - 1] \o ss[1]
            BY <4>1 DEF Sums
          <5>b. 1 - 1 = 0 /\ f[0] = <<>>
            BY DEF Sums
          <5>1. f[1] = <<>> \o ss[1]
            BY <5>a, <5>b
          <5>2. ss[1] \in Seq(S)
            BY <1>1, <4>1
          <5>3. <<>> \o ss[1] = ss[1]
            BY <5>2, ConcatEmptySeq
          <5> QED  BY <4>1, <5>1, <5>3
        <4>2. CASE i # 1
          <5>1. i - 1 \in 1 .. m
            BY <1>1, <4>2
          <5>2. f[i] = f[i - 1] \o ss[i]
            BY DEF Sums
          <5> QED  BY <4>2, <5>1, <5>2
        <4> QED  BY <4>1, <4>2
      <3> HIDE DEF m
      <3>2. k = [i \in 1 .. m |-> k[i]]
        OBVIOUS
      <3> HIDE DEF k
      <3> QED  BY <3>1, <3>2
    <2>3. g = E(g)
      <3> HIDE DEF E, k
      <3> QED  BY <2>2
    <2> HIDE DEF g, k
    <2>4. \A i \in 1 .. m : g[i] = IF i = 1 THEN ss[i] ELSE g[i - 1] \o ss[i]
      <3> TAKE i \in 1 .. m
      <3>1. E(g)[i] = IF i = 1 THEN ss[i] ELSE g[i - 1] \o ss[i]
        OBVIOUS
      <3> HIDE DEF E
      <3> QED  BY <2>3, <3>1
    <2> DEFINE G == {n \in 0 .. m : n = 0 \/ g[n] = f[n]}
    <2>5. 0 \in G
      BY <1>1
    <2>6. ASSUME NEW n \in 0 .. m - 1, n \in G PROVE n + 1 \in G
      <3> DEFINE q == n + 1
      <3>1. q \in 1 .. m /\ q - 1 = n /\ n \in Nat /\ q \in 0 .. m
        BY <1>1
      <3>2. f[q] = f[n] \o ss[q] /\ g[q] = IF q = 1 THEN ss[q] ELSE g[n] \o ss[q]
        <4>1. f[q] = f[q - 1] \o ss[q] /\ g[q] = IF q = 1 THEN ss[q] ELSE g[q - 1] \o ss[q]
          BY <2>4, <3>1 DEF Sums
        <4> QED  BY <3>1, <4>1
      <3> HIDE DEF q, m
      <3>3. CASE n = 0
        <4>1. ss[q] \in Seq(S) /\ f[n] = <<>>
          BY <1>1, <3>1, <3>3 DEF Sums
        <4>2. <<>> \o ss[q] = ss[q]
          BY <4>1, ConcatEmptySeq
        <4>3. q = 1
          BY <3>3 DEF q
        <4>4. g[q] = f[q]
          BY <3>2, <4>1, <4>2, <4>3
        <4>5. q \in G
          BY <3>1, <4>4
        <4> QED  BY <4>5 DEF q
      <3>4. CASE n # 0
        <4>1. g[n] = f[n] /\ q # 1
          BY <2>6, <3>1, <3>4
        <4>2. g[q] = f[q]
          BY <3>2, <4>1
        <4>3. q \in G
          BY <3>1, <4>2
        <4> QED  BY <4>3 DEF q
      <3> QED  BY <3>3, <3>4
    <2>7. 0 .. m \subseteq G
      <3> HIDE DEF G, m
      <3> QED  BY <1>1, <2>5, <2>6, UpInduct
    <2>8. g[m] = f[m]
      BY <1>1, <1>3, <2>7
    <2> QED  BY <2>1, <2>8
  <1> QED  BY <1>2, <1>3

\* The concatenation of lists over S is a list over S.
LEMMA FlattenType ==
    ASSUME NEW S, NEW ss \in Seq(Seq(S))
    PROVE  FlattenSeq(ss) \in Seq(S)
  <1>1. PICK f : Sums(f, ss, S)
    BY SumsExist
  <1>2. FlattenSeq(ss) = f[Len(ss)]
    BY <1>1, FlattenIs
  <1>3. Len(ss) \in 0 .. Len(ss)
    OBVIOUS
  <1> QED  BY <1>1, <1>2, <1>3 DEF Sums

\* Lists of which at most one is not empty.
LEMMA FlattenOne ==
    ASSUME NEW S, NEW ss \in Seq(Seq(S)), NEW j \in 1 .. Len(ss),
           \A i \in 1 .. Len(ss) : i # j => ss[i] = <<>>
    PROVE  FlattenSeq(ss) = ss[j]
  <1> DEFINE m == Len(ss)
             f == [i \in 0 .. m |-> IF i < j THEN <<>> ELSE ss[j]]
  <1>1. m \in Nat /\ ss[j] \in Seq(S) /\ <<>> \in Seq(S) /\ j \in 1 .. m
    OBVIOUS
  <1>2. f \in [0 .. m -> Seq(S)] /\ f[0] = <<>> /\ f[m] = ss[j]
    <2> HIDE DEF m
    <2> QED  BY <1>1
  <1>3. \A i \in 0 .. m : f[i] = IF i < j THEN <<>> ELSE ss[j]
    OBVIOUS
  <1> HIDE DEF f
  <1>4. \A i \in 1 .. m : f[i] = f[i - 1] \o ss[i]
    <2> TAKE i \in 1 .. m
    <2>1. i \in 0 .. m /\ i - 1 \in 0 .. m
      BY <1>1
    <2>2. \A x \in Seq(S) : x \o <<>> = x /\ <<>> \o x = x
      BY ConcatEmptySeq
    <2>3. CASE i = j
      <3>a. i - 1 < j /\ ~(i < j)
        BY <1>1, <2>1, <2>3
      <3>1. f[i - 1] = <<>> /\ f[i] = ss[j]
        BY <1>3, <2>1, <3>a
      <3> QED  BY <1>1, <2>2, <2>3, <3>1
    <2>4. CASE i # j
      <3>a. i - 1 < j <=> i < j
        BY <1>1, <2>1, <2>4
      <3>b. f[i - 1] = f[i]
        BY <1>3, <2>1, <3>a
      <3>1. ss[i] = <<>> /\ f[i - 1] = f[i]
        BY <2>4, <3>b
      <3>2. f[i] \in Seq(S)
        BY <1>2, <2>1
      <3> QED  BY <2>2, <3>1, <3>2
    <2> QED  BY <2>3, <2>4
  <1>5. Sums(f, ss, S)
    BY <1>2, <1>4 DEF Sums
  <1>6. FlattenSeq(ss) = f[m]
    BY <1>5, FlattenIs
  <1> QED  BY <1>2, <1>6

\* Empty lists concatenate to the empty one.
LEMMA FlattenNone ==
    ASSUME NEW S, NEW ss \in Seq(Seq(S)), \A i \in 1 .. Len(ss) : ss[i] = <<>>
    PROVE  FlattenSeq(ss) = <<>>
  <1>1. CASE Len(ss) = 0
    <2>1. ss = <<>>
      BY <1>1, EmptySeq
    <2> QED  BY <1>1, <2>1 DEF FlattenSeq
  <1>2. CASE Len(ss) # 0
    <2>1. 1 \in 1 .. Len(ss)
      BY <1>2
    <2>2. FlattenSeq(ss) = ss[1]
      BY <2>1, FlattenOne
    <2> QED  BY <2>1, <2>2
  <1> QED  BY <1>1, <1>2

\* FlattenSeq distributes over concatenation.
LEMMA FlattenConcatIs ==
    ASSUME NEW S, NEW ss, NEW tt, ss \in Seq(Seq(S)), tt \in Seq(Seq(S))
    PROVE  FlattenSeq(ss \o tt) = FlattenSeq(ss) \o FlattenSeq(tt)
  <1> DEFINE m == Len(ss)
             n == Len(tt)
             st == ss \o tt
  <1>1. PICK f : Sums(f, ss, S)
    BY SumsExist
  <1>2. PICK g : Sums(g, tt, S)
    BY SumsExist
  <1>3. FlattenSeq(ss) = f[m] /\ FlattenSeq(tt) = g[n]
    BY <1>1, <1>2, FlattenIs
  <1>4. /\ m \in Nat /\ n \in Nat /\ st \in Seq(Seq(S)) /\ Len(st) = m + n
        /\ \A i \in 1 .. m + n : st[i] = IF i <= m THEN ss[i] ELSE tt[i - m]
    BY ConcatProperties
  <1>5. \A i \in 1 .. n : tt[i] \in Seq(S)
    OBVIOUS
  <1>6. /\ f \in [0 .. m -> Seq(S)] /\ f[0] = <<>>
        /\ \A i \in 1 .. m : f[i] = f[i - 1] \o ss[i]
        /\ g \in [0 .. n -> Seq(S)] /\ g[0] = <<>>
        /\ \A i \in 1 .. n : g[i] = g[i - 1] \o tt[i]
    BY <1>1, <1>2 DEF Sums
  <1> HIDE DEF m, n, st
  <1> DEFINE h == [i \in 0 .. m + n |-> IF i <= m THEN f[i] ELSE f[m] \o g[i - m]]
  <1>7. \A i \in 0 .. m + n : h[i] = IF i <= m THEN f[i] ELSE f[m] \o g[i - m]
    OBVIOUS
  <1>8. f[m] \in Seq(S)
    BY <1>4, <1>6
  <1>9. f[m] \o g[0] = f[m]
    BY <1>6, <1>8, ConcatEmptySeq
  <1>10. \A i \in 0 .. m + n : (IF i <= m THEN f[i] ELSE f[m] \o g[i - m]) \in Seq(S)
    <2> TAKE i \in 0 .. m + n
    <2>1. CASE i <= m
      BY <1>4, <1>6, <2>1
    <2>2. CASE i > m
      <3>1. g[i - m] \in Seq(S)
        BY <1>4, <1>6, <2>2
      <3>2. f[m] \o g[i - m] \in Seq(S)
        BY <1>8, <3>1, ConcatProperties
      <3> QED  BY <1>4, <2>2, <3>2
    <2> QED  BY <1>4, <2>1, <2>2
  <1>11. h \in [0 .. m + n -> Seq(S)]
    BY <1>10
  <1> HIDE DEF h
  <1>12. h[0] = <<>>
    BY <1>4, <1>6, <1>7
  <1>13. \A i \in 1 .. m + n : h[i] = h[i - 1] \o st[i]
    <2> TAKE i \in 1 .. m + n
    <2>1. i \in 0 .. m + n /\ i - 1 \in 0 .. m + n /\ i \in Nat /\ m \in Nat
      BY <1>4
    <2>2. CASE i <= m
      <3>a. i - 1 <= m
        BY <2>1, <2>2
      <3>b. h[i] = f[i] /\ h[i - 1] = f[i - 1]
        BY <1>7, <2>1, <2>2, <3>a
      <3>c. st[i] = ss[i] /\ i \in 1 .. m
        BY <1>4, <2>1, <2>2
      <3>1. h[i] = f[i] /\ h[i - 1] = f[i - 1] /\ st[i] = ss[i] /\ i \in 1 .. m
        BY <3>b, <3>c
      <3> QED  BY <1>6, <3>1
    <2>3. CASE i > m
      <3> DEFINE k == i - m
      <3>1. k \in 1 .. n /\ k \in 0 .. n /\ k - 1 \in 0 .. n /\ ~(i <= m)
        BY <1>4, <2>1, <2>3
      <3>2. h[i] = f[m] \o g[k] /\ st[i] = tt[k]
        BY <1>4, <1>7, <2>1, <3>1
      <3>3. h[i - 1] = f[m] \o g[k - 1]
        <4>1. CASE i - 1 <= m
          <5>1. i - 1 = m /\ k - 1 = 0
            BY <2>1, <2>3, <4>1
          <5>2. h[i - 1] = f[m]
            BY <1>7, <2>1, <4>1, <5>1
          <5> QED  BY <1>9, <5>1, <5>2
        <4>2. CASE ~(i - 1 <= m)
          <5>1. k - 1 = (i - 1) - m
            BY <2>1
          <5>2. h[i - 1] = f[m] \o g[(i - 1) - m]
            BY <1>7, <2>1, <4>2
          <5> QED  BY <5>1, <5>2
        <4> QED  BY <4>1, <4>2
      <3>4. g[k] = g[k - 1] \o tt[k]
        BY <1>6, <3>1
      <3>5. g[k - 1] \in Seq(S) /\ tt[k] \in Seq(S)
        BY <1>5, <1>6, <3>1
      <3> HIDE DEF k
      <3> DEFINE a == f[m]
                 b == g[k - 1]
                 c == tt[k]
      <3>6. /\ a \in Seq(S) /\ b \in Seq(S) /\ c \in Seq(S)
            /\ h[i] = a \o g[k] /\ g[k] = b \o c /\ h[i - 1] = a \o b /\ st[i] = c
        BY <1>8, <3>2, <3>3, <3>4, <3>5
      <3> HIDE DEF a, b, c
      <3>7. (a \o b) \o c = a \o (b \o c)
        <4>1. a \in Seq(S) /\ b \in Seq(S) /\ c \in Seq(S)
          BY <3>6, Zenon
        <4> QED  BY ONLY <4>1, ConcatAssociative
      <3>8. h[i] = a \o (b \o c)
        BY <3>6, Zenon
      <3>9. h[i - 1] \o st[i] = (a \o b) \o c
        BY <3>6, Zenon
      <3> QED  BY <3>7, <3>8, <3>9, Zenon
    <2>4. i <= m \/ i > m
      BY <2>1
    <2> QED  BY <2>2, <2>3, <2>4, Zenon
  <1>14. Sums(h, st, S)
    BY <1>4, <1>11, <1>12, <1>13 DEF Sums
  <1>15. FlattenSeq(st) = h[m + n]
    BY <1>4, <1>14, FlattenIs
  <1>16. h[m + n] = f[m] \o g[n]
    <2>1. m + n \in 0 .. m + n /\ (m + n) - m = n /\ (m + n <= m <=> n = 0)
      BY <1>4
    <2>2. h[m + n] = IF m + n <= m THEN f[m + n] ELSE f[m] \o g[(m + n) - m]
      BY <1>7, <2>1
    <2>3. CASE n = 0
      <3>1. m + n = m
        BY <1>4, <2>3
      <3> QED  BY <1>9, <2>1, <2>2, <2>3, <3>1
    <2>4. CASE n # 0
      BY <2>1, <2>2, <2>4
    <2> QED  BY <2>3, <2>4
  <1> QED  BY <1>3, <1>15, <1>16 DEF st

\* The same, with the lists bound to their sets.
LEMMA FlattenConcat ==
    ASSUME NEW S, NEW ss \in Seq(Seq(S)), NEW tt \in Seq(Seq(S))
    PROVE  FlattenSeq(ss \o tt) = FlattenSeq(ss) \o FlattenSeq(tt)
  BY ONLY ss \in Seq(Seq(S)), tt \in Seq(Seq(S)), FlattenConcatIs

\* One list is its own concatenation.
LEMMA FlattenSingle ==
    ASSUME NEW S, NEW x \in Seq(S)
    PROVE  FlattenSeq(<<x>>) = x
  <1> DEFINE ss == <<x>>
  <1>1. ss \in Seq(Seq(S)) /\ Len(ss) = 1 /\ ss[1] = x
    OBVIOUS
  <1> HIDE DEF ss
  <1>2. 1 \in 1 .. Len(ss) /\ \A i \in 1 .. Len(ss) : i # 1 => ss[i] = <<>>
    BY <1>1
  <1>3. FlattenSeq(ss) = ss[1]
    BY <1>1, <1>2, FlattenOne
  <1> QED  BY <1>1, <1>3 DEF ss

\* One more list comes after the others.
LEMMA FlattenAppend ==
    ASSUME NEW S, NEW ss \in Seq(Seq(S)), NEW x \in Seq(S)
    PROVE  FlattenSeq(Append(ss, x)) = FlattenSeq(ss) \o x
  <1>1. Append(ss, x) = ss \o <<x>>
    BY AppendIsConcat
  <1>2. <<x>> \in Seq(Seq(S))
    OBVIOUS
  <1>3. FlattenSeq(ss \o <<x>>) = FlattenSeq(ss) \o FlattenSeq(<<x>>)
    BY <1>2, FlattenConcat
  <1>4. FlattenSeq(<<x>>) = x
    BY FlattenSingle
  <1> QED  BY <1>1, <1>3, <1>4

\* The first list comes before the others.
LEMMA FlattenFirst ==
    ASSUME NEW S, NEW ss \in Seq(Seq(S)), ss # <<>>
    PROVE  FlattenSeq(ss) = Head(ss) \o FlattenSeq(Tail(ss))
  <1>1. Head(ss) \in Seq(S) /\ Tail(ss) \in Seq(Seq(S)) /\ <<Head(ss)>> \in Seq(Seq(S))
    BY HeadTailProperties
  <1>2. ss = <<Head(ss)>> \o Tail(ss)
    <2> DEFINE t == <<Head(ss)>> \o Tail(ss)
    <2>1. Len(ss) \in Nat \ {0} /\ Len(Tail(ss)) = Len(ss) - 1
          /\ \A i \in 1 .. Len(ss) - 1 : Tail(ss)[i] = ss[i + 1]
      BY EmptySeq, HeadTailProperties
    <2>2. t \in Seq(Seq(S)) /\ Len(t) = 1 + Len(Tail(ss))
          /\ \A i \in 1 .. 1 + Len(Tail(ss)) : t[i] = IF i <= 1 THEN <<Head(ss)>>[i] ELSE Tail(ss)[i - 1]
      <3>1. Len(<<Head(ss)>>) = 1
        OBVIOUS
      <3> QED  BY <1>1, <3>1, ConcatProperties
    <2>3. Len(t) = Len(ss)
      BY <2>1, <2>2
    <2>4. \A i \in 1 .. Len(ss) : ss[i] = t[i]
      <3> TAKE i \in 1 .. Len(ss)
      <3>1. CASE i = 1
        <4>1. t[1] = Head(ss) /\ Head(ss) = ss[1]
          BY <2>1, <2>2
        <4> QED  BY <3>1, <4>1
      <3>2. CASE i # 1
        <4>1. i - 1 \in 1 .. Len(ss) - 1 /\ (i - 1) + 1 = i
          BY <2>1, <3>2
        <4>2. t[i] = Tail(ss)[i - 1]
          BY <2>1, <2>2, <3>2
        <4> QED  BY <2>1, <4>1, <4>2
      <3> QED  BY <3>1, <3>2
    <2> HIDE DEF t
    <2>5. ss = t
      BY <2>2, <2>3, <2>4, SeqEqual
    <2> QED  BY <2>5 DEF t
  <1>3. FlattenSeq(<<Head(ss)>> \o Tail(ss)) = FlattenSeq(<<Head(ss)>>) \o FlattenSeq(Tail(ss))
    BY <1>1, FlattenConcat
  <1> QED  BY <1>1, <1>2, <1>3, FlattenSingle

----------------------------------------------------------------------------
(* Boot. *)

Devices == {"serial0", "vgatext", "vtmgr", "vt0", "ps2", "keyboard", "mouse"}

\* Where a device goes in the tree.
ParentOf(d) == CASE d \in {"serial0", "vgatext", "vtmgr", "ps2"} -> "root"
                 [] d = "vt0" -> "vtmgr"
                 [] d \in {"keyboard", "mouse"} -> "ps2"

Started == {"disable_keyboard", "disable_mouse", "read_config"}
Setting == {"write_config", "test_controller", "write_again", "test_keyboard", "enable_keyboard",
            "setup_keyboard", "keyboard_failed", "test_mouse", "enable_mouse", "setup_mouse",
            "mouse_failed", "write_final"}
Working == {"add_controller", "connect_keyboard", "attach", "connect_mouse", "publish",
            "irq1", "irq12", "ready"}
Early == {"serial", "vgatext", "vtmgr"}
Stages == Early \cup Started \cup Setting \cup Working \cup GivenUp

Talking == Started \cup Setting \cup GivenUp \cup {"add_controller"}

\* The devices that have been connected.
ConnectedAt ==
  CASE pc = "serial" -> {}
    [] pc = "vgatext" -> {"serial0"}
    [] pc = "vtmgr" -> {"serial0", "vgatext"}
    [] pc \in Talking ->
         {"serial0", "vgatext", "vtmgr", "vt0"}
    [] pc = "connect_keyboard" -> {"serial0", "vgatext", "vtmgr", "vt0", "ps2"}
    [] pc \in {"attach", "connect_mouse"} ->
         {"serial0", "vgatext", "vtmgr", "vt0", "ps2"} \cup ({"keyboard"} \cap has)
    [] pc \in {"publish", "irq1", "irq12", "ready"} ->
         {"serial0", "vgatext", "vtmgr", "vt0", "ps2"} \cup has

TreeInv ==
  /\ parent = [d \in ConnectedAt |-> ParentOf(d)]
  /\ children \in [Hubs -> Seq(Devices)]
  /\ pc = "serial" => children["root"] = <<>>
  /\ pc = "vgatext" => children["root"] = <<"serial0">>
  /\ pc = "vtmgr" => children["root"] = <<"serial0", "vgatext">>
  /\ pc \in Talking => children["root"] = <<"serial0", "vgatext", "vtmgr">>
  /\ pc \in Working \ {"add_controller"} =>
       children["root"] = <<"serial0", "vgatext", "vtmgr", "ps2">>
  /\ children["vtmgr"] = IF pc \in Early THEN <<>> ELSE <<"vt0">>
  /\ children["ps2"] = IF pc \in {"irq1", "irq12", "ready"} /\ "keyboard" \in has
                       THEN <<"keyboard">> ELSE <<>>

HwType == [on : SUBSET Ports, int : SUBSET Ports, translate : BOOLEAN]

Of(ps) == [on |-> ps, int |-> ps, translate |-> FALSE]

PortInv ==
  /\ pc \in Stages
  /\ hw \in HwType
  /\ has \subseteq Ports
  /\ pc \in Early \cup Started => has = {}
  /\ pc \in {"disable_mouse", "cleanup_mouse"} => "keyboard" \notin hw.on
  /\ pc \in {"read_config", "cleanup_config"} => hw.on = {}
  /\ pc \in Setting => config = Of(has)
  /\ pc \in Working => hw = Of(has)
  /\ pc = "no_controller" => hw = Of({})

IrqInv ==
  /\ ctrl = IF pc \in {"irq1", "irq12", "ready"} THEN has ELSE {}
  /\ handlers = CASE pc = "irq12" -> {"keyboard"} \cap has [] pc = "ready" -> has [] OTHER -> {}
  /\ unmasked = handlers
  /\ attached = (pc \in {"connect_mouse", "publish", "irq1", "irq12", "ready"} /\ "keyboard" \in has)

BootInv == TreeInv /\ PortInv /\ IrqInv

bootVars == <<initVars, treeVars, attached>>

\* A port set describes a controller state.
LEMMA OfType == ASSUME NEW ps \in SUBSET Ports
                PROVE  Of(ps) \in HwType /\ Of(ps).on = ps
  BY DEF Of, HwType

\* Nothing is set up when the kernel starts.
LEMMA InitBoot == Init => BootInv
  <1> SUFFICES ASSUME Init PROVE BootInv
    OBVIOUS
  <1> USE DEF Init, Ps2Init, TreeInit
  <1>1. parent = [d \in ConnectedAt |-> ParentOf(d)]
    <2>1. ConnectedAt = {}
      BY DEF ConnectedAt, Talking, Started, Setting, GivenUp
    <2> QED  BY <2>1
  <1>2. TreeInv
    BY <1>1 DEF TreeInv, Hubs, Early, Talking, Started, Setting, Working, GivenUp
  <1>3. PortInv
    BY DEF PortInv, HwType, Stages, Early, Started, Setting, Working, GivenUp
  <1>4. IrqInv
    BY DEF IrqInv
  <1> QED  BY <1>2, <1>3, <1>4 DEF BootInv

\* Every step of init keeps what is known of ports and interrupts.
LEMMA BootKeepsPorts == PortInv /\ IrqInv /\ Boot => PortInv' /\ IrqInv'
  <1> SUFFICES ASSUME PortInv, IrqInv, Boot PROVE PortInv' /\ IrqInv'
    OBVIOUS
  <1> USE DEF Stages, Early, Started, Setting, Working, GivenUp, devVars
  <1>1. ASSUME ControllerStep PROVE PortInv' /\ IrqInv'
    <2>u. UNCHANGED attached
      BY <1>1 DEF ControllerStep
    <2>1. CASE DisableKeyboard
      BY <2>1, <2>u DEF DisableKeyboard, Command, Off, HwType, PortInv, IrqInv
    <2>2. CASE DisableMouse
      <3>1. PortInv'
        BY <2>2 DEF DisableMouse, Command, Off, Ports, HwType, PortInv
      <3>2. IrqInv'
        BY <2>2, <2>u DEF DisableMouse, Command, Off, Ports, IrqInv
      <3> QED  BY <3>1, <3>2
    <2>3. CASE ReadConfig
      <3>1. PortInv'
        BY <2>3 DEF ReadConfig, Quiet, Of, HwType, PortInv
      <3>2. IrqInv'
        BY <2>3, <2>u DEF ReadConfig, Quiet, Of, IrqInv
      <3> QED  BY <3>1, <3>2
    <2>4. CASE WriteConfig
      <3>0. config = Of(has) /\ config \in HwType
        BY <2>4, OfType DEF WriteConfig, Command, PortInv
      <3>1. PortInv'
        BY <2>4, <3>0 DEF WriteConfig, Command, PortInv
      <3>2. IrqInv'
        BY <2>4, <2>u DEF WriteConfig, Command, Of, IrqInv
      <3> QED  BY <3>1, <3>2
    <2>5. CASE TestController
      <3>0. [on |-> Ports, int |-> {}, translate |-> TRUE] \in HwType
        BY DEF HwType
      <3>1. PortInv'
        BY <2>5, <3>0 DEF TestController, PortInv
      <3>2. IrqInv'
        BY <2>5, <2>u DEF TestController, IrqInv
      <3> QED  BY <3>1, <3>2
    <2>6. CASE TestKeyboard
      BY <2>6, <2>u DEF TestKeyboard, PortInv, IrqInv
    <2>7. CASE EnableKeyboard
      <3>1. PortInv'
        BY <2>7 DEF EnableKeyboard, Command, On, Ports, HwType, PortInv
      <3>2. IrqInv'
        BY <2>7, <2>u DEF EnableKeyboard, Command, On, Ports, IrqInv
      <3> QED  BY <3>1, <3>2
    <2>8. CASE SetupKeyboard
      <3>0. WithPort(Of(has), "keyboard") = Of(has \cup {"keyboard"}) /\ "keyboard" \in Ports
        BY DEF WithPort, Of, Ports, PortInv
      <3>1. PortInv'
        BY <2>8, <3>0 DEF SetupKeyboard, PortInv
      <3>2. IrqInv'
        BY <2>8, <2>u DEF SetupKeyboard, WithPort, Ports, Of, IrqInv
      <3> QED  BY <3>1, <3>2
    <2>9. CASE TestMouse
      BY <2>9, <2>u DEF TestMouse, PortInv, IrqInv
    <2>10. CASE EnableMouse
      <3>1. PortInv'
        BY <2>10 DEF EnableMouse, Command, On, Ports, HwType, PortInv
      <3>2. IrqInv'
        BY <2>10, <2>u DEF EnableMouse, Command, On, Ports, IrqInv
      <3> QED  BY <3>1, <3>2
    <2>11. CASE SetupMouse
      <3>0. WithPort(Of(has), "mouse") = Of(has \cup {"mouse"}) /\ "mouse" \in Ports
        BY DEF WithPort, Of, Ports, PortInv
      <3>1. PortInv'
        BY <2>11, <3>0 DEF SetupMouse, PortInv
      <3>2. IrqInv'
        BY <2>11, <2>u DEF SetupMouse, WithPort, Ports, Of, IrqInv
      <3> QED  BY <3>1, <3>2
    <2>12. CASE UseIrqs
      <3>1. CASE UseIrq("keyboard", "irq1", "irq12")
        BY <3>1, <2>u DEF UseIrq, PortInv, IrqInv
      <3>2. CASE UseIrq("mouse", "irq12", "ready")
        <4>1. ({"keyboard"} \cap has) \cup ({"mouse"} \cap has) = has
          BY DEF PortInv, Ports
        <4> QED  BY <3>2, <2>u, <4>1 DEF UseIrq, PortInv, IrqInv
      <3> QED  BY <2>12, <3>1, <3>2 DEF UseIrqs
    <2>13. CASE Cleanup
      <3>0. hw \in HwType /\ Off("keyboard") \in HwType /\ Off("mouse") \in HwType
            /\ Quiet(hw) \in HwType /\ "keyboard" \notin Off("keyboard").on
        BY DEF PortInv, Off, Quiet, HwType
      <3>a. "keyboard" \notin hw.on => Off("mouse").on = {}
        BY DEF PortInv, Off, HwType, Ports
      <3>b. hw.on = {} => Quiet(hw) = Of({})
        BY DEF PortInv, Quiet, HwType, Of
      <3>1. PortInv'
        BY <2>13, <3>0, <3>a, <3>b DEF Cleanup, Command, PortInv
      <3>2. IrqInv'
        BY <2>13, <2>u DEF Cleanup, Command, Off, Quiet, Ports, Of, IrqInv
      <3> QED  BY <3>1, <3>2
    <2> QED  BY <1>1, <2>1, <2>2, <2>3, <2>4, <2>5, <2>6, <2>7, <2>8, <2>9, <2>10, <2>11,
                <2>12, <2>13 DEF ControllerStep
  <1>2. ASSUME BootDevices PROVE PortInv' /\ IrqInv'
    BY <1>2 DEF BootDevices, BootStep, PortInv, IrqInv
  <1>3. ASSUME ConnectDevices PROVE PortInv' /\ IrqInv'
    BY <1>3 DEF ConnectDevices, ConnectDevice, PortInv, IrqInv
  <1>4. ASSUME Attach PROVE PortInv' /\ IrqInv'
    BY <1>4 DEF Attach, PortInv, IrqInv
  <1>5. ASSUME PublishDevices PROVE PortInv' /\ IrqInv'
    BY <1>5 DEF PublishDevices, Publish, PortInv, IrqInv
  <1> QED  BY <1>1, <1>2, <1>3, <1>4, <1>5 DEF Boot

\* Append to a list that is written out.
LEMMA AppendSecond ==
    ASSUME NEW S, NEW s \in Seq(S), NEW a \in S, NEW b \in S, s = <<a>>
    PROVE  Append(s, b) = <<a, b>>
  <1> DEFINE t == <<a, b>>
             u == Append(s, b)
  <1>1. t \in Seq(S) /\ Len(t) = 2 /\ t[1] = a /\ t[2] = b
    OBVIOUS
  <1>2. u \in Seq(S) /\ Len(u) = 2 /\ u[1] = a /\ u[2] = b
    BY AppendProperties
  <1> HIDE DEF t, u
  <1>3. t = u
    BY <1>1, <1>2, SeqEqual
  <1> QED  BY <1>3 DEF t, u

\* The third device of a hub is the one appended last.
LEMMA AppendThird ==
    ASSUME NEW S, NEW s \in Seq(S), NEW a \in S, NEW b \in S, NEW c \in S, s = <<a, b>>
    PROVE  Append(s, c) = <<a, b, c>>
  <1> DEFINE t == <<a, b, c>>
             u == Append(s, c)
  <1>1. t \in Seq(S) /\ Len(t) = 3 /\ t[1] = a /\ t[2] = b /\ t[3] = c
    OBVIOUS
  <1>2. u \in Seq(S) /\ Len(u) = 3 /\ u[1] = a /\ u[2] = b /\ u[3] = c
    BY AppendProperties
  <1> HIDE DEF t, u
  <1>3. t = u
    BY <1>1, <1>2, SeqEqual
  <1> QED  BY <1>3 DEF t, u

\* What the root lists after a device is added.
LEMMA AddedToRoot ==
    ASSUME children \in [Hubs -> Seq(Devices)], NEW d \in Devices, AddDevice(d)
    PROVE  /\ children' \in [Hubs -> Seq(Devices)]
           /\ children'["root"] = Append(children["root"], d)
           /\ children'["vtmgr"] = children["vtmgr"] /\ children'["ps2"] = children["ps2"]
  <1>1. "root" \in Hubs /\ "vtmgr" \in Hubs /\ "ps2" \in Hubs
    BY DEF Hubs
  <1>2. Append(children["root"], d) \in Seq(Devices)
    BY <1>1
  <1>3. children' = [children EXCEPT !["root"] = Append(children["root"], d)]
    BY DEF AddDevice
  <1> QED  BY <1>1, <1>2, <1>3

\* vt.rs init: the manager and its terminal are in the tree, and nothing else changes.
LEMMA ManagerAdded ==
    ASSUME children \in [Hubs -> Seq(Devices)], AddManager
    PROVE  /\ children' \in [Hubs -> Seq(Devices)]
           /\ children'["root"] = Append(children["root"], "vtmgr")
           /\ children'["vtmgr"] = Append(children["vtmgr"], "vt0")
           /\ children'["ps2"] = children["ps2"]
  <1>1. "root" \in Hubs /\ "vtmgr" \in Hubs /\ "ps2" \in Hubs
    BY DEF Hubs
  <1>2. Append(children["root"], "vtmgr") \in Seq(Devices)
        /\ Append(children["vtmgr"], "vt0") \in Seq(Devices)
    BY <1>1, AppendProperties DEF Devices
  <1>3. children' = [children EXCEPT !["vtmgr"] = Append(children["vtmgr"], "vt0"),
                                     !["root"] = Append(children["root"], "vtmgr")]
    BY <1>1 DEF AddManager
  <1> QED  BY <1>1, <1>2, <1>3

\* The tree does not tell where exactly init is in its talk with the controller.
LEMMA BootKeepsTree == BootInv /\ Boot => TreeInv'
  <1> SUFFICES ASSUME BootInv, Boot PROVE TreeInv'
    OBVIOUS
  <1> USE DEF Early, Started, Setting, Working, GivenUp, devVars, treeVars
  <1>0. TreeInv /\ PortInv
    BY DEF BootInv
  <1>d. /\ "serial0" \in Devices /\ "vgatext" \in Devices /\ "vtmgr" \in Devices
        /\ "ps2" \in Devices /\ "vt0" \in Devices /\ "keyboard" \in Devices
    BY DEF Devices
  <1>c. children \in [Hubs -> Seq(Devices)] /\ children["root"] \in Seq(Devices)
    BY <1>0 DEF TreeInv, Hubs
  <1>1. ASSUME ControllerStep PROVE TreeInv'
    <2>u. UNCHANGED treeVars
      BY <1>1 DEF ControllerStep
    <2>1. CASE pc \in {"irq1", "irq12"}
      <3>1. pc' \in {"irq12", "ready"} /\ has' = has
        BY <1>1, <2>1 DEF ControllerStep, DisableKeyboard, DisableMouse, ReadConfig, WriteConfig,
           TestController, TestKeyboard, EnableKeyboard, SetupKeyboard, TestMouse, EnableMouse,
           SetupMouse, UseIrqs, UseIrq, Cleanup, Command
      <3>2. ConnectedAt' = ConnectedAt 
        BY <2>1, <3>1 DEF ConnectedAt, Talking
      <3> QED  BY <1>0, <2>u, <2>1, <3>1, <3>2 DEF TreeInv, Talking
    <2>2. CASE pc \notin {"irq1", "irq12"}
      <3> DEFINE Talk == Started \cup Setting \cup GivenUp
      <3>1. pc \in Talk /\ pc' \in Talk \cup {"add_controller"}
        BY <1>1, <2>2 DEF ControllerStep, DisableKeyboard, DisableMouse, ReadConfig, WriteConfig,
           TestController, TestKeyboard, EnableKeyboard, SetupKeyboard, TestMouse, EnableMouse,
           SetupMouse, UseIrqs, UseIrq, Cleanup, Command
      <3>2. ConnectedAt' = ConnectedAt 
        BY <3>1 DEF ConnectedAt, Talking
      <3> QED  BY <1>0, <2>u, <3>1, <3>2 DEF TreeInv, Talking
    <2> QED  BY <2>1, <2>2
  <1>2. ASSUME BootDevices PROVE TreeInv'
    <2>1. CASE pc = "serial" /\ pc' = "vgatext" /\ AddDevice("serial0")
      <3>1. ConnectedAt = {} /\ ConnectedAt' = {"serial0"}
        BY <2>1 DEF ConnectedAt, Talking
      <3>2. parent' = [d \in ConnectedAt' |-> ParentOf(d)]
        BY <1>0, <2>1, <3>1 DEF TreeInv, AddDevice, Connected, ParentOf
      <3>3. Append(<<>>, "serial0") = <<"serial0">>
        OBVIOUS
      <3>4. /\ children' \in [Hubs -> Seq(Devices)]
            /\ children'["root"] = Append(children["root"], "serial0")
            /\ children'["vtmgr"] = children["vtmgr"] /\ children'["ps2"] = children["ps2"]
        BY <1>c, <1>d, <2>1, AddedToRoot
      <3> QED  BY <1>0, <2>1, <3>2, <3>3, <3>4 DEF TreeInv, Talking
    <2>2. CASE pc = "vgatext" /\ pc' = "vtmgr" /\ AddDevice("vgatext")
      <3>1. ConnectedAt = {"serial0"} /\ ConnectedAt' = {"serial0", "vgatext"}
        BY <2>2 DEF ConnectedAt, Talking
      <3>2. parent' = [d \in ConnectedAt' |-> ParentOf(d)]
        BY <1>0, <2>2, <3>1 DEF TreeInv, AddDevice, Connected, ParentOf
      <3>3. Append(children["root"], "vgatext") = <<"serial0", "vgatext">>
        <4>1. children["root"] = <<"serial0">>
          BY <1>0, <2>2 DEF TreeInv
        <4> QED  BY <1>c, <1>d, <4>1, AppendSecond
      <3>4. /\ children' \in [Hubs -> Seq(Devices)]
            /\ children'["root"] = Append(children["root"], "vgatext")
            /\ children'["vtmgr"] = children["vtmgr"] /\ children'["ps2"] = children["ps2"]
        BY <1>c, <1>d, <2>2, AddedToRoot
      <3> QED  BY <1>0, <2>2, <3>2, <3>3, <3>4 DEF TreeInv, Talking
    <2>3. CASE pc = "vtmgr" /\ pc' = "disable_keyboard" /\ AddManager
      <3>1. ConnectedAt = {"serial0", "vgatext"}
            /\ ConnectedAt' = {"serial0", "vgatext", "vtmgr", "vt0"}
        BY <2>3 DEF ConnectedAt, Talking
      <3>2. parent' = [d \in ConnectedAt' |-> ParentOf(d)]
        BY <1>0, <2>3, <3>1 DEF TreeInv, AddManager, Connected, ParentOf
      <3>3. Append(children["root"], "vtmgr") = <<"serial0", "vgatext", "vtmgr">>
            /\ Append(<<>>, "vt0") = <<"vt0">>
        <4>1. children["root"] = <<"serial0", "vgatext">>
          BY <1>0, <2>3 DEF TreeInv
        <4>2. Append(children["root"], "vtmgr") = <<"serial0", "vgatext", "vtmgr">>
          BY <1>c, <1>d, <4>1, AppendThird, Zenon
        <4> QED  BY <4>2
      <3>4. /\ children' \in [Hubs -> Seq(Devices)]
            /\ children'["root"] = Append(children["root"], "vtmgr")
            /\ children'["vtmgr"] = Append(children["vtmgr"], "vt0")
            /\ children'["ps2"] = children["ps2"]
        BY <1>c, <2>3, ManagerAdded
      <3> QED  BY <1>0, <2>3, <3>2, <3>3, <3>4 DEF TreeInv, Talking
    <2>4. CASE pc = "add_controller" /\ pc' = "connect_keyboard" /\ AddDevice("ps2")
      <3>1. ConnectedAt = {"serial0", "vgatext", "vtmgr", "vt0"}
            /\ ConnectedAt' = {"serial0", "vgatext", "vtmgr", "vt0", "ps2"}
        BY <2>4 DEF ConnectedAt, Talking
      <3>2. parent' = [d \in ConnectedAt' |-> ParentOf(d)]
        BY <1>0, <2>4, <3>1 DEF TreeInv, AddDevice, Connected, ParentOf
      <3>3. Append(children["root"], "ps2") = <<"serial0", "vgatext", "vtmgr", "ps2">>
        <4>1. children["root"] = <<"serial0", "vgatext", "vtmgr">>
          BY <1>0, <2>4 DEF TreeInv, Talking
        <4> DEFINE s == children["root"]
        <4>2. s \in Seq(Devices) /\ s = <<"serial0", "vgatext", "vtmgr">>
          BY <1>c, <4>1
        <4> HIDE DEF s
        <4>3. Append(s, "ps2") = <<"serial0", "vgatext", "vtmgr", "ps2">>
          <5> DEFINE t == <<"serial0", "vgatext", "vtmgr", "ps2">>
                     u == Append(s, "ps2")
          <5>1. t \in Seq(Devices) /\ Len(t) = 4
                /\ t[1] = "serial0" /\ t[2] = "vgatext" /\ t[3] = "vtmgr" /\ t[4] = "ps2"
            BY <1>d
          <5>2. u \in Seq(Devices) /\ Len(u) = 4
                /\ u[1] = "serial0" /\ u[2] = "vgatext" /\ u[3] = "vtmgr" /\ u[4] = "ps2"
            BY <1>d, <4>2, AppendProperties
          <5> HIDE DEF t, u
          <5>3. t = u
            BY <5>1, <5>2, SeqEqual
          <5> QED  BY <5>3 DEF t, u
        <4> QED  BY <4>3 DEF s
      <3>4. /\ children' \in [Hubs -> Seq(Devices)]
            /\ children'["root"] = Append(children["root"], "ps2")
            /\ children'["vtmgr"] = children["vtmgr"] /\ children'["ps2"] = children["ps2"]
        BY <1>c, <1>d, <2>4, AddedToRoot
      <3> QED  BY <1>0, <2>4, <3>2, <3>3, <3>4 DEF TreeInv, Talking
    <2> QED  BY <1>2, <2>1, <2>2, <2>3, <2>4 DEF BootDevices, BootStep
  <1>3. ASSUME ConnectDevices PROVE TreeInv'
    <2>0. has' = has
      BY <1>3 DEF ConnectDevices, ConnectDevice
    <2>1. CASE pc = "connect_keyboard" /\ pc' = "attach"
               /\ IF "keyboard" \in has THEN Connect("keyboard", "ps2") ELSE UNCHANGED treeVars
      <3>1. ConnectedAt = {"serial0", "vgatext", "vtmgr", "vt0", "ps2"}
            /\ ConnectedAt' = {"serial0", "vgatext", "vtmgr", "vt0", "ps2"} \cup ({"keyboard"} \cap has)
        BY <2>0, <2>1 DEF ConnectedAt, Talking
      <3> DEFINE B == ConnectedAt
      <3>a. parent = [d \in B |-> ParentOf(d)] /\ ParentOf("keyboard") = "ps2"
        BY <1>0 DEF TreeInv, ParentOf
      <3>b. ConnectedAt' = IF "keyboard" \in has THEN B \cup {"keyboard"} ELSE B
        BY <3>1
      <3> HIDE DEF B
      <3>2. parent' = [d \in ConnectedAt' |-> ParentOf(d)] /\ children' = children
        <4>1. CASE "keyboard" \in has
          <5>1. parent' = Connected(parent, "keyboard", "ps2") /\ children' = children
            BY <2>1, <4>1 DEF Connect
          <5>2. ConnectedAt' = B \cup {"keyboard"} /\ DOMAIN parent = B
            BY <3>a, <3>b, <4>1
          <5>3. Connected(parent, "keyboard", "ps2") = [d \in B \cup {"keyboard"} |-> ParentOf(d)]
            BY <3>a DEF Connected
          <5> QED  BY <5>1, <5>2, <5>3
        <4>2. CASE "keyboard" \notin has
          BY <2>1, <3>a, <3>b, <4>2
        <4> QED  BY <4>1, <4>2
      <3> QED  BY <1>0, <2>0, <2>1, <3>2 DEF TreeInv, Talking
    <2>2. CASE pc = "connect_mouse" /\ pc' = "publish"
               /\ IF "mouse" \in has THEN Connect("mouse", "ps2") ELSE UNCHANGED treeVars
      <3>1. ConnectedAt = {"serial0", "vgatext", "vtmgr", "vt0", "ps2"} \cup ({"keyboard"} \cap has)
            /\ ConnectedAt' = {"serial0", "vgatext", "vtmgr", "vt0", "ps2"} \cup has
        BY <2>0, <2>2 DEF ConnectedAt, Talking
      <3>2. has = ({"keyboard"} \cap has) \cup ({"mouse"} \cap has)
        BY <1>0 DEF PortInv, Ports
      <3>3. ConnectedAt' = IF "mouse" \in has THEN ConnectedAt \cup {"mouse"} ELSE ConnectedAt
        BY <3>1, <3>2
      <3> DEFINE C == ConnectedAt
      <3>a. parent = [d \in C |-> ParentOf(d)] /\ ParentOf("mouse") = "ps2"
        BY <1>0 DEF TreeInv, ParentOf
      <3>b. ConnectedAt' = IF "mouse" \in has THEN C \cup {"mouse"} ELSE C
        BY <3>3
      <3> HIDE DEF C
      <3>4. parent' = [d \in ConnectedAt' |-> ParentOf(d)] /\ children' = children
        <4>1. CASE "mouse" \in has
          <5>1. parent' = Connected(parent, "mouse", "ps2") /\ children' = children
            BY <2>2, <4>1 DEF Connect
          <5>2. ConnectedAt' = C \cup {"mouse"} /\ DOMAIN parent = C
            BY <3>a, <3>b, <4>1
          <5>3. Connected(parent, "mouse", "ps2") = [d \in C \cup {"mouse"} |-> ParentOf(d)]
            BY <3>a DEF Connected
          <5> QED  BY <5>1, <5>2, <5>3
        <4>2. CASE "mouse" \notin has
          BY <2>2, <3>a, <3>b, <4>2
        <4> QED  BY <4>1, <4>2
      <3> QED  BY <1>0, <2>0, <2>2, <3>4 DEF TreeInv, Talking
    <2> QED  BY <1>3, <2>1, <2>2 DEF ConnectDevices, ConnectDevice
  <1>4. ASSUME Attach PROVE TreeInv'
    <2>1. ConnectedAt' = ConnectedAt
      BY <1>4 DEF Attach, ConnectedAt, Talking
    <2> QED  BY <1>0, <1>4, <2>1 DEF Attach, TreeInv, Talking
  <1>5. ASSUME PublishDevices PROVE TreeInv'
    <2>1. ConnectedAt' = ConnectedAt
      BY <1>5 DEF PublishDevices, Publish, ConnectedAt, Talking
    <2> DEFINE l == IF "keyboard" \in has THEN <<"keyboard">> ELSE <<>>
    <2>2. l \in Seq(Devices) /\ children \in [Hubs -> Seq(Devices)]
          /\ children' = [children EXCEPT !["ps2"] = l]
      BY <1>c, <1>d, <1>5 DEF PublishDevices, List
    <2> HIDE DEF l
    <2>3. /\ children' \in [Hubs -> Seq(Devices)] /\ children'["ps2"] = l
          /\ children'["root"] = children["root"] /\ children'["vtmgr"] = children["vtmgr"]
      BY <2>2 DEF Hubs
    <2>4. parent' = parent /\ pc = "publish" /\ pc' = "irq1" /\ has' = has
      BY <1>5 DEF PublishDevices, Publish, List
    <2> QED  BY <1>0, <2>1, <2>3, <2>4 DEF TreeInv, Talking, l
  <1> QED  BY <1>1, <1>2, <1>3, <1>4, <1>5 DEF Boot

\* No other step touches init, the tree or the display's keyboard.
LEMMA OthersKeepBoot ==
    ASSUME [Next]_vars, ~Boot
    PROVE  UNCHANGED bootVars
  <1>1. CASE UNCHANGED vars
    BY <1>1 DEF vars, bootVars
  <1>2. CASE \E c \in Cores : Kernel(c)
    BY <1>2 DEF Kernel, KeyboardIrq, MouseIrq, SoftKeyPressed, bootVars
  <1>3. CASE \E k \in Keys : MakeKey(k) \/ BreakKey(k)
    BY <1>3 DEF MakeKey, BreakKey, osVars, bootVars
  <1>4. CASE MoveMouse
    BY <1>4 DEF MoveMouse, osVars, bootVars
  <1>5. CASE \E r \in Readers, size \in Sizes : ReadTty(r, size)
    BY <1>5 DEF ReadTty, bootVars
  <1> QED  BY <1>1, <1>2, <1>3, <1>4, <1>5 DEF Next

\* Every step, of init or not, keeps the invariant of boot.
LEMMA NextBoot == BootInv /\ [Next]_vars => BootInv'
  <1> SUFFICES ASSUME BootInv, [Next]_vars PROVE BootInv'
    OBVIOUS
  <1>1. CASE Boot
    BY <1>1, BootKeepsTree, BootKeepsPorts DEF BootInv
  <1>2. CASE ~Boot
    <2>1. UNCHANGED bootVars
      BY <1>2, OthersKeepBoot
    <2> QED  BY <2>1 DEF bootVars, initVars, treeVars, BootInv, TreeInv, PortInv, IrqInv, ConnectedAt
  <1> QED  BY <1>1, <1>2

\* The invariant of boot holds in every state: what ps2::init has set up at each of its
\* steps, on its success and on each of its error paths (ps2/mod.rs, init).
THEOREM BootInvariant == Spec => []BootInv
  BY InitBoot, NextBoot, PTL DEF Spec

\* The full name in a tree of two levels.
LEMMA FullNameIs ==
    ASSUME NEW d \in DOMAIN parent,
           \A e \in DOMAIN parent : parent[e] # "root" =>
              parent[e] \in DOMAIN parent /\ parent[parent[e]] = "root"
    PROVE  FullName(d) = IF parent[d] = "root" THEN <<"", d>> ELSE Append(<<"", parent[d]>>, d)
  <1> DEFINE D == DOMAIN parent
             E(f) == [e \in D |-> IF parent[e] = "root" THEN <<"", e>> ELSE Append(f[parent[e]], e)]
             g == [e \in D |-> IF parent[e] = "root" THEN <<"", e>> ELSE Append(<<"", parent[e]>>, e)]
             full == CHOOSE f : f = E(f)
  <1>1. FullName(d) = full[d]
    BY DEF FullName
  <1>2. g = E(g)
    <2>1. \A e \in D : parent[e] # "root" => g[parent[e]] = <<"", parent[e]>>
      OBVIOUS
    <2> HIDE DEF g
    <2>2. E(g) = [e \in D |-> IF parent[e] = "root" THEN <<"", e>> ELSE Append(<<"", parent[e]>>, e)]
      BY <2>1
    <2> QED  BY <2>2 DEF g
  <1>3. full = E(full)
    <2> HIDE DEF E, g
    <2> QED  BY <1>2
  <1> HIDE DEF full, g
  <1>4. \A e \in D : full[e] = IF parent[e] = "root" THEN <<"", e>> ELSE Append(full[parent[e]], e)
    <2> TAKE e \in D
    <2>1. E(full)[e] = IF parent[e] = "root" THEN <<"", e>> ELSE Append(full[parent[e]], e)
      OBVIOUS
    <2> HIDE DEF E
    <2> QED  BY <1>3, <2>1
  <1> HIDE DEF E
  <1> QED  BY <1>1, <1>4

\* A device that the root lists is found under its name, after a
\* component that no device of the root has.
LEMMA FindsInRoot ==
    ASSUME NEW e, NEW d, NotFound # d, NEW i \in DOMAIN children["root"], children["root"][i] = d,
           \A j \in DOMAIN children["root"] : children["root"][j] # e
    PROVE  GetDeviceByName(<<e, d>>) = d
  <1> DEFINE path == <<e, d>>
             E(h) == [j \in 0 .. 1 |-> IF j = 0 THEN "root" ELSE Descend(h[j - 1], path[j])]
             g == [j \in 0 .. 1 |-> "root"]
             hub == CHOOSE h : h = E(h)
  <1>1. Len(path) = 2 /\ path[1] = e /\ path[2] = d /\ "root" \in Hubs /\ NotFound \notin Hubs
    BY DEF Hubs, NotFound
  <1>2. FindChild("root", e) = NotFound /\ FindChild("root", d) = d
    BY DEF FindChild
  <1>3. Descend("root", e) = "root"
    BY <1>1, <1>2 DEF Descend
  <1>4. GetDeviceByName(path) = IF hub[1] \in Hubs THEN FindChild(hub[1], path[2]) ELSE NotFound
    BY <1>1 DEF GetDeviceByName
  <1> HIDE DEF path
  <1>5. g = E(g)
    <2>1. \A j \in 0 .. 1 : (IF j = 0 THEN "root" ELSE Descend(g[j - 1], path[j])) = "root"
      <3>1. g[0] = "root"
        OBVIOUS
      <3> HIDE DEF g
      <3>2. \A j \in 0 .. 1 : j = 0 \/ (j = 1 /\ j - 1 = 0)
        OBVIOUS
      <3> QED  BY <1>1, <1>3, <3>1, <3>2
    <2>2. E(g) = [j \in 0 .. 1 |-> "root"]
      <3> HIDE DEF g
      <3> QED  BY <2>1
    <2> HIDE DEF E
    <2> QED  BY <2>2
  <1>6. hub = E(hub)
    <2> HIDE DEF E, g
    <2> QED  BY <1>5
  <1> HIDE DEF hub
  <1>7. E(hub)[0] = "root" /\ E(hub)[1] = Descend(hub[0], path[1])
    <2>1. 0 \in 0 .. 1 /\ 1 \in 0 .. 1 /\ 1 - 1 = 0
      OBVIOUS
    <2> QED  BY <2>1
  <1> HIDE DEF E
  <1>8. hub[0] = "root" /\ hub[1] = Descend(hub[0], path[1])
    BY <1>6, <1>7
  <1>9. hub[1] = "root"
    BY <1>1, <1>3, <1>8
  <1>10. GetDeviceByName(path) = d
    BY <1>1, <1>2, <1>4, <1>9
  <1> QED  BY <1>10 DEF path

\* And a device that a hub lists which the root lists, under both names.
LEMMA FindsInHub ==
    ASSUME NEW e, NEW m \in Hubs, NEW d, NotFound # d, NotFound # m,
           NEW i \in DOMAIN children["root"], children["root"][i] = m,
           NEW k \in DOMAIN children[m], children[m][k] = d,
           \A j \in DOMAIN children["root"] : children["root"][j] # e
    PROVE  GetDeviceByName(<<e, m, d>>) = d
  <1> DEFINE path == <<e, m, d>>
             E(h) == [j \in 0 .. 2 |-> IF j = 0 THEN "root" ELSE Descend(h[j - 1], path[j])]
             g == [j \in 0 .. 2 |-> IF j = 2 THEN m ELSE "root"]
             hub == CHOOSE h : h = E(h)
  <1>1. Len(path) = 3 /\ path[1] = e /\ path[2] = m /\ path[3] = d
        /\ "root" \in Hubs /\ NotFound \notin Hubs
    BY DEF Hubs, NotFound
  <1>2. FindChild("root", e) = NotFound /\ FindChild("root", m) = m /\ FindChild(m, d) = d
    BY DEF FindChild
  <1>3. Descend("root", e) = "root" /\ Descend("root", m) = m
    BY <1>1, <1>2 DEF Descend
  <1>4. GetDeviceByName(path) = IF hub[2] \in Hubs THEN FindChild(hub[2], path[3]) ELSE NotFound
    BY <1>1 DEF GetDeviceByName
  <1> HIDE DEF path
  <1>5. g = E(g)
    <2>1. \A j \in 0 .. 2 : (IF j = 0 THEN "root" ELSE Descend(g[j - 1], path[j]))
                              = IF j = 2 THEN m ELSE "root"
      <3>1. g[0] = "root" /\ g[1] = "root"
        OBVIOUS
      <3> HIDE DEF g
      <3>2. \A j \in 0 .. 2 : j = 0 \/ (j = 1 /\ j - 1 = 0) \/ (j = 2 /\ j - 1 = 1)
        OBVIOUS
      <3> QED  BY <1>1, <1>3, <3>1, <3>2
    <2>2. E(g) = [j \in 0 .. 2 |-> IF j = 2 THEN m ELSE "root"]
      <3> HIDE DEF g
      <3> QED  BY <2>1
    <2> HIDE DEF E
    <2> QED  BY <2>2
  <1>6. hub = E(hub)
    <2> HIDE DEF E, g
    <2> QED  BY <1>5
  <1> HIDE DEF hub
  <1>7. /\ E(hub)[0] = "root" /\ E(hub)[1] = Descend(hub[0], path[1])
        /\ E(hub)[2] = Descend(hub[1], path[2])
    <2>1. 0 \in 0 .. 2 /\ 1 \in 0 .. 2 /\ 2 \in 0 .. 2 /\ 1 - 1 = 0 /\ 2 - 1 = 1
      OBVIOUS
    <2> QED  BY <2>1
  <1> HIDE DEF E
  <1>8. hub[0] = "root" /\ hub[1] = Descend(hub[0], path[1]) /\ hub[2] = Descend(hub[1], path[2])
    BY <1>6, <1>7
  <1>9. hub[2] = m
    BY <1>1, <1>3, <1>8
  <1>10. GetDeviceByName(path) = d
    BY <1>1, <1>2, <1>4, <1>9
  <1> QED  BY <1>10 DEF path

\* The invariant of boot gives the property.
LEMMA BootImplies == BootInv => BootConsistent
  <1> SUFFICES ASSUME BootInv PROVE BootConsistent
    OBVIOUS
  <1> USE DEF Early, Started, Setting, Working, GivenUp, Talking
  <1>0. TreeInv /\ PortInv /\ IrqInv
    BY DEF BootInv
  <1>1. InitConsistent
    <2>1. pc = "ready" =>
            /\ unmasked = has /\ handlers = has /\ ctrl = has
            /\ hw = [on |-> has, int |-> has, translate |-> FALSE]
            /\ attached <=> "keyboard" \in has
      BY <1>0 DEF PortInv, IrqInv, Of
    <2>2. pc \in {"no_controller", "gave_up"} => "ps2" \notin DOMAIN parent
      BY <1>0 DEF TreeInv, ConnectedAt
    <2>3. pc \in {"no_controller", "gave_up"} => unmasked = {} /\ handlers = {} /\ ~attached
      BY <1>0 DEF IrqInv
    <2>4. pc = "no_controller" => hw = [on |-> {}, int |-> {}, translate |-> FALSE]
      BY <1>0 DEF PortInv, Of
    <2> QED  BY <2>1, <2>2, <2>3, <2>4 DEF InitConsistent
  <1> DEFINE e == ""
  <1>a. e \notin {"serial0", "vgatext", "vtmgr", "ps2"}
    BY Zenon
  <1> HIDE DEF e
  <1>b. \A j \in DOMAIN children["root"] :
           children["root"][j] \in {"serial0", "vgatext", "vtmgr", "ps2"} \cap ConnectedAt
    <2>1. CASE pc = "serial"
      BY <1>0, <2>1 DEF TreeInv
    <2>2. CASE pc = "vgatext"
      <3>1. children["root"] = <<"serial0">> /\ "serial0" \in ConnectedAt
        BY <1>0, <2>2 DEF TreeInv, ConnectedAt
      <3> QED  BY <3>1
    <2>3. CASE pc = "vtmgr"
      <3>1. children["root"] = <<"serial0", "vgatext">> /\ {"serial0", "vgatext"} \subseteq ConnectedAt
        BY <1>0, <2>3 DEF TreeInv, ConnectedAt
      <3> QED  BY <3>1
    <2>4. CASE pc \in Talking
      <3>1. children["root"] = <<"serial0", "vgatext", "vtmgr">>
        BY <1>0, <2>4 DEF TreeInv
      <3>2. {"serial0", "vgatext", "vtmgr"} \subseteq ConnectedAt
        BY <2>4 DEF ConnectedAt
      <3> QED  BY <3>1, <3>2
    <2>5. CASE pc \in Working \ {"add_controller"}
      <3>1. children["root"] = <<"serial0", "vgatext", "vtmgr", "ps2">>
        BY <1>0, <2>5 DEF TreeInv
      <3>2. {"serial0", "vgatext", "vtmgr", "ps2"} \subseteq ConnectedAt
        BY <2>5 DEF ConnectedAt
      <3> QED  BY <3>1, <3>2
    <2>6. pc \in Early \cup Talking \cup Working
      BY <1>0 DEF PortInv, Stages
    <2> QED  BY <2>1, <2>2, <2>3, <2>4, <2>5, <2>6
  <1>2. \A j \in DOMAIN children["root"] : children["root"][j] # e
    BY <1>a, <1>b
  <1>3. DOMAIN parent = ConnectedAt /\ \A x \in ConnectedAt : parent[x] = ParentOf(x)
    BY <1>0 DEF TreeInv
  <1>4. \A x \in DOMAIN parent : parent[x] # "root" =>
              parent[x] \in DOMAIN parent /\ parent[parent[x]] = "root"
    <2>1. \A x \in ConnectedAt : x \in Devices
      BY <1>0 DEF ConnectedAt, Devices, PortInv, Ports, Stages
    <2>2. /\ "vt0" \in ConnectedAt => "vtmgr" \in ConnectedAt
          /\ "keyboard" \in ConnectedAt \/ "mouse" \in ConnectedAt => "ps2" \in ConnectedAt
      BY <1>0 DEF ConnectedAt, PortInv, Ports, Stages
    <2> QED  BY <1>3, <2>1, <2>2 DEF ParentOf, Devices
  <1>5. ASSUME NEW i \in DOMAIN children["root"]
        PROVE  GetDeviceByName(FullName(children["root"][i])) = children["root"][i]
    <2> DEFINE d == children["root"][i]
    <2>1. d \in ConnectedAt /\ d \in {"serial0", "vgatext", "vtmgr", "ps2"}
      BY <1>b
    <2>2. parent[d] = "root" /\ d \in DOMAIN parent /\ NotFound # d
      BY <1>3, <2>1 DEF ParentOf, NotFound
    <2>3. children["root"][i] = d
      OBVIOUS
    <2> HIDE DEF d
    <2>4. FullName(d) = <<e, d>>
      BY <1>4, <2>2, FullNameIs, Zenon DEF e
    <2>5. GetDeviceByName(<<e, d>>) = d
      BY <1>2, <2>2, <2>3, FindsInRoot
    <2> QED  BY <2>3, <2>4, <2>5
  <1>6. ASSUME pc \notin Early
        PROVE  GetDeviceByName(<<e, "vtmgr", "vt0">>) = "vt0"
    <2>1. 3 \in DOMAIN children["root"] /\ children["root"][3] = "vtmgr"
      BY <1>0, <1>6 DEF TreeInv, PortInv, Stages
    <2>2. 1 \in DOMAIN children["vtmgr"] /\ children["vtmgr"][1] = "vt0"
      BY <1>0, <1>6 DEF TreeInv
    <2>3. NotFound # "vt0" /\ NotFound # "vtmgr" /\ "vtmgr" \in Hubs
      BY DEF NotFound, Hubs
    <2> QED  BY <1>2, <2>1, <2>2, <2>3, FindsInHub
  <1>7. ASSUME NEW i \in DOMAIN children["vtmgr"]
        PROVE  GetDeviceByName(FullName(children["vtmgr"][i])) = children["vtmgr"][i]
    <2>1. pc \notin Early /\ children["vtmgr"][i] = "vt0"
      BY <1>0 DEF TreeInv
    <2>2. "vt0" \in DOMAIN parent /\ parent["vt0"] = "vtmgr"
      BY <1>0, <1>3, <2>1 DEF ConnectedAt, ParentOf, PortInv, Stages
    <2>3. FullName("vt0") = Append(<<e, "vtmgr">>, "vt0")
      <3>1. FullName("vt0") = IF parent["vt0"] = "root" THEN <<e, "vt0">>
                             ELSE Append(<<e, parent["vt0"]>>, "vt0")
        BY <1>4, <2>2, FullNameIs, Zenon DEF e
      <3> QED  BY <2>2, <3>1
    <2> DEFINE s == <<e, "vtmgr">>
               S == {e, "vtmgr", "vt0"}
    <2>4. s \in Seq(S) /\ s = <<e, "vtmgr">> /\ e \in S /\ "vtmgr" \in S /\ "vt0" \in S
      OBVIOUS
    <2> HIDE DEF s, S
    <2>5. Append(s, "vt0") = <<e, "vtmgr", "vt0">>
      BY <2>4, AppendThird, Zenon
    <2> QED  BY <1>6, <2>1, <2>3, <2>4, <2>5
  <1>8. ASSUME NEW i \in DOMAIN children["ps2"]
        PROVE  GetDeviceByName(FullName(children["ps2"][i])) = children["ps2"][i]
    <2>1. pc \in {"irq1", "irq12", "ready"} /\ "keyboard" \in has /\ children["ps2"][i] = "keyboard"
          /\ children["ps2"] = <<"keyboard">>
      BY <1>0 DEF TreeInv
    <2>2. "keyboard" \in DOMAIN parent /\ parent["keyboard"] = "ps2"
      BY <1>3, <2>1 DEF ConnectedAt, ParentOf
    <2>3. FullName("keyboard") = Append(<<e, "ps2">>, "keyboard")
      <3>1. FullName("keyboard") = IF parent["keyboard"] = "root" THEN <<e, "keyboard">>
                             ELSE Append(<<e, parent["keyboard"]>>, "keyboard")
        BY <1>4, <2>2, FullNameIs, Zenon DEF e
      <3> QED  BY <2>2, <3>1
    <2> DEFINE s == <<e, "ps2">>
               S == {e, "ps2", "keyboard"}
    <2>4. s \in Seq(S) /\ s = <<e, "ps2">> /\ e \in S /\ "ps2" \in S /\ "keyboard" \in S
      OBVIOUS
    <2> HIDE DEF s, S
    <2>5. Append(s, "keyboard") = <<e, "ps2", "keyboard">>
      BY <2>4, AppendThird, Zenon
    <2>6. 4 \in DOMAIN children["root"] /\ children["root"][4] = "ps2"
      BY <1>0, <2>1 DEF TreeInv
    <2>7. 1 \in DOMAIN children["ps2"] /\ children["ps2"][1] = "keyboard"
      BY <2>1
    <2>8. NotFound # "keyboard" /\ NotFound # "ps2" /\ "ps2" \in Hubs
      BY DEF NotFound, Hubs
    <2>9. GetDeviceByName(<<e, "ps2", "keyboard">>) = "keyboard"
      BY <1>2, <2>6, <2>7, <2>8, FindsInHub
    <2> QED  BY <2>1, <2>3, <2>4, <2>5, <2>9
  <1>9. NamesResolve
    <2>1. \A h \in Hubs : \A i \in DOMAIN children[h] :
            GetDeviceByName(FullName(children[h][i])) = children[h][i]
      BY <1>5, <1>7, <1>8 DEF Hubs
    <2>2. pc \notin Early => GetDeviceByName(<<"", "vtmgr", "vt0">>) = "vt0"
      BY <1>6, Zenon DEF e
    <2> QED  BY <2>1, <2>2, Zenon DEF NamesResolve
  <1> QED  BY <1>1, <1>9 DEF BootConsistent

\* However init ends, ports, interrupt masks, handlers and the device tree are in step
\* (ps2/mod.rs init and its cleanup; dev/hub.rs, device.rs full_name and get_device_by_name).
THEOREM BootSafe == Spec => []BootConsistent
  BY BootInvariant, BootImplies, PTL

----------------------------------------------------------------------------
(* ArrayDeque. *)

DqIdx(n, h, i) == IF i >= n - h THEN i - (n - h) ELSE h + i
DqType(n, T) == [head : 0 .. n - 1, len : 0 .. n, data : [0 .. n - 1 -> T]]
DqOK(d, n, S, u) ==
    /\ d \in DqType(n, S \cup {u})
    /\ \A i \in 0 .. d.len - 1 : d.data[DqIdx(n, d.head, i)] \in S
DqList(d, n) == [i \in 1 .. d.len |-> d.data[DqIdx(n, d.head, i - 1)]]

DqPushed(d, n, v) == [head |-> d.head, len |-> d.len + 1,
                      data |-> [d.data EXCEPT ![DqIdx(n, d.head, d.len)] = v]]
DqPopped(d, n, u) == [head |-> IF d.head = n - 1 THEN 0 ELSE d.head + 1, len |-> d.len - 1,
                      data |-> [d.data EXCEPT ![d.head] = u]]

\* Slots of different elements are different slots.
LEMMA DqSlots ==
    ASSUME NEW n \in Nat, n # 0, NEW h \in 0 .. n - 1
    PROVE  /\ \A i \in 0 .. n - 1 : DqIdx(n, h, i) \in 0 .. n - 1
           /\ \A i, j \in 0 .. n - 1 : DqIdx(n, h, i) = DqIdx(n, h, j) => i = j
  BY DEF DqIdx

\* The contents of an ArrayDeque are a list of its elements, as long as its len.
LEMMA DqListType ==
    ASSUME NEW n \in Nat, n # 0, NEW S, NEW u, NEW d, DqOK(d, n, S, u)
    PROVE  /\ DqList(d, n) \in Seq(S) /\ Len(DqList(d, n)) = d.len /\ d.len \in 0 .. n
           /\ \A i \in 1 .. d.len : DqList(d, n)[i] = d.data[DqIdx(n, d.head, i - 1)]
           /\ d.len = 0 => DqList(d, n) = <<>>
  <1> DEFINE l == DqList(d, n)
             m == d.len
  <1>1. m \in 0 .. n /\ m \in Nat
    BY DEF DqOK, DqType
  <1>2. \A i \in 1 .. m : d.data[DqIdx(n, d.head, i - 1)] \in S
    BY <1>1 DEF DqOK
  <1>3. l = [i \in 1 .. m |-> d.data[DqIdx(n, d.head, i - 1)]]
    BY DEF DqList
  <1> HIDE DEF l, m
  <1>4. l \in [1 .. m -> S]
    BY <1>2, <1>3
  <1>5. l \in Seq(S) /\ Len(l) = m
    BY <1>1, <1>4
  <1>6. m = 0 => l = <<>>
    BY <1>5
  <1> QED  BY <1>1, <1>3, <1>5, <1>6 DEF l, m

\* push_back on a deque that is not full adds at the end, wherever the ring wraps.
LEMMA DqPush ==
    ASSUME NEW n \in Nat, n # 0, NEW S, NEW u, NEW d, DqOK(d, n, S, u),
           d.len # n, NEW v \in S
    PROVE  /\ DqOK(DqPushed(d, n, v), n, S, u) /\ DqPushed(d, n, v).len = d.len + 1
           /\ DqList(DqPushed(d, n, v), n) = Append(DqList(d, n), v)
  <1> DEFINE T == S \cup {u}
             h == d.head
             m == d.len
             k == m + 1
             p == DqIdx(n, h, m)
             e == DqPushed(d, n, v)
  <1>1. h \in 0 .. n - 1 /\ m \in 0 .. n - 1 /\ d.data \in [0 .. n - 1 -> T]
        /\ \A i \in 0 .. m - 1 : d.data[DqIdx(n, h, i)] \in S
    BY DEF DqOK, DqType
  <1>2. e.head = h /\ e.len = k /\ e.data = [d.data EXCEPT ![p] = v] /\ DOMAIN e = {"head", "len", "data"}
    BY DEF DqPushed
  <1>e. e = [head |-> h, len |-> k, data |-> [d.data EXCEPT ![p] = v]]
    BY DEF DqPushed
  <1>l. DqList(d, n) \in Seq(S) /\ Len(DqList(d, n)) = m
        /\ \A i \in 1 .. m : DqList(d, n)[i] = d.data[DqIdx(n, h, i - 1)]
    BY DqListType
  <1> HIDE DEF h, m, p, e
  <1>3. p \in 0 .. n - 1 /\ \A i \in 0 .. m - 1 : DqIdx(n, h, i) \in 0 .. n - 1 /\ DqIdx(n, h, i) # p
    <2>1. \A i \in 0 .. m - 1 : i \in 0 .. n - 1 /\ i # m
      BY <1>1
    <2> QED  BY <1>1, <2>1, DqSlots DEF p
  <1>4. /\ e.data \in [0 .. n - 1 -> T] /\ e.data[p] = v
        /\ \A i \in 0 .. m - 1 : e.data[DqIdx(n, h, i)] = d.data[DqIdx(n, h, i)]
    BY <1>1, <1>2, <1>3
  <1>5. e \in DqType(n, T)
    <2>1. k \in 0 .. n
      BY <1>1
    <2> HIDE DEF k
    <2> QED  BY <1>1, <1>2, <1>4, <1>e, <2>1 DEF DqType
  <1>6. \A i \in 0 .. k - 1 : e.data[DqIdx(n, h, i)] \in S
    <2> TAKE i \in 0 .. k - 1
    <2>1. i = m \/ i \in 0 .. m - 1
      BY <1>1
    <2>2. CASE i = m
      BY <1>4, <2>2 DEF p
    <2>3. CASE i \in 0 .. m - 1
      BY <1>1, <1>4, <2>3
    <2> QED  BY <2>1, <2>2, <2>3
  <1>7. DqOK(e, n, S, u)
    BY <1>2, <1>5, <1>6 DEF DqOK
  <1>8. DqList(e, n) \in Seq(S) /\ Len(DqList(e, n)) = k
        /\ \A i \in 1 .. k : DqList(e, n)[i] = e.data[DqIdx(n, h, i - 1)]
    <2>1. DqList(e, n) \in Seq(S) /\ Len(DqList(e, n)) = e.len
          /\ \A i \in 1 .. e.len : DqList(e, n)[i] = e.data[DqIdx(n, e.head, i - 1)]
      BY <1>7, DqListType
    <2>2. e.head = h /\ e.len = k
      BY <1>2
    <2> HIDE DEF k
    <2> QED  BY <2>1, <2>2
  <1> DEFINE a == Append(DqList(d, n), v)
             l == DqList(e, n)
  <1>9. a \in Seq(S) /\ Len(a) = k /\ (\A i \in 1 .. m : a[i] = d.data[DqIdx(n, h, i - 1)]) /\ a[k] = v
    BY <1>l, AppendProperties
  <1>10. \A i \in 1 .. k : l[i] = a[i]
    <2> TAKE i \in 1 .. k
    <2>1. CASE i = k
      <3>1. i - 1 = m
        BY <1>1, <2>1
      <3>2. l[i] = e.data[p]
        BY <1>8, <3>1 DEF p
      <3> HIDE DEF a, l, k
      <3> QED  BY <1>4, <1>9, <2>1, <3>2
    <2>2. CASE i # k
      <3>1. i \in 1 .. m /\ i - 1 \in 0 .. m - 1
        BY <1>1, <2>2
      <3>2. l[i] = e.data[DqIdx(n, h, i - 1)] /\ a[i] = d.data[DqIdx(n, h, i - 1)]
        BY <1>8, <1>9, <3>1
      <3> HIDE DEF a, l, k
      <3> QED  BY <1>4, <3>1, <3>2
    <2> QED  BY <2>1, <2>2
  <1> HIDE DEF a, l
  <1>11. l = a
    BY <1>8, <1>9, <1>10, SeqEqual DEF l
  <1> QED  BY <1>2, <1>7, <1>11 DEF a, l, m, e

\* pop_front on a deque that is not empty takes the first element and leaves the others.
LEMMA DqPop ==
    ASSUME NEW n \in Nat, n # 0, NEW S, NEW u, NEW d, DqOK(d, n, S, u),
           d.len # 0
    PROVE  /\ DqOK(DqPopped(d, n, u), n, S, u) /\ DqPopped(d, n, u).len = d.len - 1
           /\ DqList(DqPopped(d, n, u), n) = Tail(DqList(d, n))
           /\ Head(DqList(d, n)) = d.data[DqIdx(n, d.head, 0)] /\ DqList(d, n) # <<>>
  <1> DEFINE T == S \cup {u}
             h == d.head
             g == IF h = n - 1 THEN 0 ELSE h + 1
             m == d.len
             k == m - 1
             e == DqPopped(d, n, u)
  <1>1. h \in 0 .. n - 1 /\ m \in 1 .. n /\ d.data \in [0 .. n - 1 -> T]
        /\ \A i \in 0 .. m - 1 : d.data[DqIdx(n, h, i)] \in S
    BY DEF DqOK, DqType
  <1>2. e.head = g /\ e.len = k /\ e.data = [d.data EXCEPT ![h] = u]
    BY DEF DqPopped
  <1>e. e = [head |-> g, len |-> k, data |-> [d.data EXCEPT ![h] = u]]
    BY DEF DqPopped
  <1>l. DqList(d, n) \in Seq(S) /\ Len(DqList(d, n)) = m
        /\ \A i \in 1 .. m : DqList(d, n)[i] = d.data[DqIdx(n, h, i - 1)]
    BY DqListType
  <1> HIDE DEF h, m, e
  <1>3. g \in 0 .. n - 1 /\ k \in 0 .. n /\ k \in Nat
    BY <1>1
  <1>4. \A i \in 0 .. k - 1 : DqIdx(n, g, i) = DqIdx(n, h, i + 1)
    BY <1>1 DEF DqIdx
  <1>5. \A i \in 1 .. m - 1 : DqIdx(n, h, i) \in 0 .. n - 1 /\ DqIdx(n, h, i) # h
    BY <1>1 DEF DqIdx
  <1> HIDE DEF g
  <1>6. /\ e.data \in [0 .. n - 1 -> T]
        /\ \A i \in 1 .. m - 1 : e.data[DqIdx(n, h, i)] = d.data[DqIdx(n, h, i)]
    BY <1>1, <1>2, <1>5
  <1>7. e \in DqType(n, T)
    <2> HIDE DEF k
    <2> QED  BY <1>2, <1>3, <1>6, <1>e DEF DqType
  <1>8. \A i \in 0 .. k - 1 : e.data[DqIdx(n, g, i)] = d.data[DqIdx(n, h, i + 1)]
    <2> TAKE i \in 0 .. k - 1
    <2>1. i + 1 \in 1 .. m - 1
      BY <1>1
    <2>2. DqIdx(n, g, i) = DqIdx(n, h, i + 1)
      BY <1>4
    <2>3. e.data[DqIdx(n, h, i + 1)] = d.data[DqIdx(n, h, i + 1)]
      BY <1>6, <2>1
    <2> QED  BY <2>2, <2>3
  <1>9. \A i \in 0 .. k - 1 : e.data[DqIdx(n, g, i)] \in S
    <2> TAKE i \in 0 .. k - 1
    <2>1. i + 1 \in 0 .. m - 1
      BY <1>1
    <2>2. d.data[DqIdx(n, h, i + 1)] \in S
      BY <1>1, <2>1
    <2> QED  BY <1>8, <2>2
  <1>10. DqOK(e, n, S, u)
    BY <1>2, <1>7, <1>9 DEF DqOK
  <1> DEFINE l == DqList(e, n)
             s == DqList(d, n)
             a == Tail(s)
  <1>11. l \in Seq(S) /\ Len(l) = k /\ \A i \in 1 .. k : l[i] = e.data[DqIdx(n, g, i - 1)]
    <2>1. l \in Seq(S) /\ Len(l) = e.len
          /\ \A i \in 1 .. e.len : l[i] = e.data[DqIdx(n, e.head, i - 1)]
      BY <1>10, DqListType
    <2>2. e.head = g /\ e.len = k
      BY <1>2
    <2> HIDE DEF k, l
    <2> QED  BY <2>1, <2>2
  <1>12. s \in Seq(S) /\ Len(s) = m /\ s # <<>>
    BY <1>1, <1>l
  <1>13. Head(s) = s[1] /\ a \in Seq(S) /\ Len(a) = k /\ \A i \in 1 .. k : a[i] = s[i + 1]
    <2> HIDE DEF s
    <2> QED  BY <1>12, HeadTailProperties
  <1>14. Head(s) = d.data[DqIdx(n, h, 0)]
    <2>1. s[1] = d.data[DqIdx(n, h, 1 - 1)]
      BY <1>1, <1>l
    <2>2. 1 - 1 = 0
      OBVIOUS
    <2> QED  BY <1>13, <2>1, <2>2
  <1>15. \A i \in 1 .. k : l[i] = a[i]
    <2> TAKE i \in 1 .. k
    <2>1. i - 1 \in 0 .. k - 1 /\ (i - 1) + 1 = i /\ i + 1 \in 1 .. m /\ (i + 1) - 1 = i
      BY <1>1
    <2>2. l[i] = d.data[DqIdx(n, h, i)]
      <3>1. l[i] = e.data[DqIdx(n, g, i - 1)]
        BY <1>11
      <3>2. e.data[DqIdx(n, g, i - 1)] = d.data[DqIdx(n, h, (i - 1) + 1)]
        BY <1>8, <2>1
      <3> HIDE DEF l
      <3> QED  BY <2>1, <3>1, <3>2
    <2>3. s[i + 1] = d.data[DqIdx(n, h, (i + 1) - 1)]
      BY <1>l, <2>1
    <2> HIDE DEF l, s, a
    <2> QED  BY <1>13, <2>1, <2>2, <2>3
  <1> HIDE DEF l, s, a
  <1>16. l = a
    BY <1>11, <1>13, <1>15, SeqEqual
  <1> QED  BY <1>2, <1>10, <1>12, <1>14, <1>16 DEF l, s, a, h, m, e

----------------------------------------------------------------------------
(* The read queue of a terminal. *)

\* What a loop computes exists: f[i] is the value after i rounds of g.
Loop(f, X, n, x, g) == /\ f \in [0 .. n -> X] /\ f[0] = x
                       /\ \A i \in 1 .. n : f[i] = g[i][f[i - 1]]

\* A loop over 1 .. n that stays within X has a state after each of its rounds.
LEMMA LoopExists ==
    ASSUME NEW X, NEW n \in Nat, NEW x \in X, NEW g \in [1 .. n -> [X -> X]]
    PROVE  \E f : Loop(f, X, n, x, g)
  <1> DEFINE Upto(m) == \E f \in [0 .. m -> X] : f[0] = x /\ \A i \in 1 .. m : f[i] = g[i][f[i - 1]]
             G == {m \in 0 .. n : Upto(m)}
  <1>1. 0 \in G
    <2> DEFINE f == [i \in 0 .. 0 |-> x]
    <2>1. f \in [0 .. 0 -> X] /\ f[0] = x /\ 1 .. 0 = {}
      OBVIOUS
    <2> HIDE DEF f
    <2>2. Upto(0)
      BY <2>1
    <2> QED  BY <2>2
  <1>2. ASSUME NEW m \in 0 .. n - 1, m \in G PROVE m + 1 \in G
    <2>1. PICK f \in [0 .. m -> X] : f[0] = x /\ \A i \in 1 .. m : f[i] = g[i][f[i - 1]]
      BY <1>2
    <2> DEFINE k == m + 1
               y == g[k][f[m]]
               h == [i \in 0 .. k |-> IF i = k THEN y ELSE f[i]]
    <2>2. m \in Nat /\ k \in 1 .. n /\ k \in 0 .. n /\ k - 1 = m
      OBVIOUS
    <2>3. y \in X
      <3>1. f[m] \in X
        BY <2>1, <2>2
      <3> HIDE DEF k
      <3>2. g[k] \in [X -> X]
        BY <2>2
      <3> QED  BY <3>1, <3>2
    <2> HIDE DEF y
    <2>4. \A i \in 0 .. k : i = k \/ i \in 0 .. m
      BY <2>2
    <2>5. h \in [0 .. k -> X] /\ h[k] = y /\ \A i \in 0 .. m : h[i] = f[i]
      <3>1. \A i \in 0 .. k : (IF i = k THEN y ELSE f[i]) \in X
        BY <2>1, <2>3, <2>4
      <3>2. \A i \in 0 .. k : h[i] = IF i = k THEN y ELSE f[i]
        OBVIOUS
      <3>3. h \in [0 .. k -> X]
        BY <3>1
      <3>4. k \in 0 .. k /\ \A i \in 0 .. m : i \in 0 .. k /\ i # k
        BY <2>2
      <3> HIDE DEF h, k
      <3> QED  BY <3>2, <3>3, <3>4
    <2> HIDE DEF h
    <2>6. h[0] = x
      BY <2>1, <2>2, <2>5
    <2>7. \A i \in 1 .. k : h[i] = g[i][h[i - 1]]
      <3> TAKE i \in 1 .. k
      <3>1. CASE i = k
        <4>1. i - 1 = m /\ m \in 0 .. m
          BY <2>2, <3>1
        <4>2. h[i - 1] = f[m]
          BY <2>5, <4>1
        <4> QED  BY <2>5, <3>1, <4>2 DEF y
      <3>2. CASE i # k
        <4>1. i \in 1 .. m /\ i \in 0 .. m /\ i - 1 \in 0 .. m
          BY <2>2, <3>2
        <4> QED  BY <2>1, <2>5, <4>1
      <3> QED  BY <3>1, <3>2
    <2>8. Upto(k)
      BY <2>5, <2>6, <2>7
    <2> HIDE DEF Upto
    <2> QED  BY <2>2, <2>8
  <1>3. 0 .. n \subseteq G
    <2> HIDE DEF G
    <2> QED  BY <1>1, <1>2, UpInduct
  <1> QED  BY <1>3 DEF Loop

Chars == {"a", "A", "/", "?", "8", "ESC", "["}
ByteSet == Nat \X Chars
ByteQueue(d) == DqOK(d, TtyCap, ByteSet, NoByte)

Request == [reader : Readers, size : Nat, pos : Nat]

\* A read queue with the bytes given out so far.
QueueType == [buf : DqType(TtyCap, ByteSet \cup {NoByte}), requests : Seq(Request), out : Seq(ByteSet)]
QueueOK(q) ==
    /\ q \in QueueType /\ ByteQueue(q.buf)
    /\ q.requests # <<>> => q.buf.len = 0

\* What has been given out and what is still there.
Given(q) == q.out \o Bytes!Contents(q.buf)

\* Concatenation of bytes is associative, and the empty sequence is neutral.
LEMMA ByteCat ==
    \A x, y, z \in Seq(ByteSet) : /\ (x \o y) \o z = x \o (y \o z) /\ x \o y \in Seq(ByteSet)
                                  /\ x \o <<>> = x /\ <<>> \o x = x
  BY ConcatAssociative, ConcatProperties, ConcatEmptySeq

\* What the operations of ArrayDeque do to the read queue of a terminal.
LEMMA ByteOps ==
    ASSUME NEW d, ByteQueue(d)
    PROVE  /\ Bytes!Contents(d) \in Seq(ByteSet) /\ Len(Bytes!Contents(d)) = d.len
           /\ d.len \in 0 .. TtyCap /\ (d.len = 0 => Bytes!Contents(d) = <<>>)
           /\ \A v \in ByteSet : d.len # TtyCap =>
                /\ ByteQueue(Bytes!PushBack(d, v))
                /\ Bytes!Contents(Bytes!PushBack(d, v)) = Append(Bytes!Contents(d), v)
                /\ Bytes!PushBack(d, v).len = d.len + 1
           /\ d.len # 0 =>
                /\ ByteQueue(Bytes!PopFront(d))
                /\ Bytes!Contents(Bytes!PopFront(d)) = Tail(Bytes!Contents(d))
                /\ Bytes!PopFront(d).len = d.len - 1 /\ Bytes!Contents(d) # <<>>
  <1> DEFINE n == TtyCap
  <1>1. n \in Nat /\ n # 0
    BY InputAssumption
  <1>2. \A e : Bytes!Contents(e) = DqList(e, n)
    BY DEF Bytes!Contents, Bytes!Idx, DqList, DqIdx
  <1>o. DqOK(d, n, ByteSet, NoByte)
    BY DEF ByteQueue
  <1>3. DqList(d, n) \in Seq(ByteSet) /\ Len(DqList(d, n)) = d.len
           /\ d.len \in 0 .. n /\ (d.len = 0 => DqList(d, n) = <<>>)
    <2> HIDE DEF n
    <2> QED  BY <1>1, <1>o, DqListType
  <1>4. ASSUME NEW v \in ByteSet, d.len # n
        PROVE  /\ ByteQueue(Bytes!PushBack(d, v))
               /\ DqList(Bytes!PushBack(d, v), n) = Append(DqList(d, n), v)
               /\ Bytes!PushBack(d, v).len = d.len + 1
    <2> DEFINE e == DqPushed(d, n, v)
    <2>1. Bytes!PushBack(d, v) = e
      BY <1>4 DEF Bytes!PushBack, Bytes!IsFull, Bytes!Idx, DqIdx, DqPushed
    <2>2. DqOK(e, n, ByteSet, NoByte) /\ DqList(e, n) = Append(DqList(d, n), v) /\ e.len = d.len + 1
      <3> HIDE DEF n
      <3> QED  BY <1>1, <1>4, <1>o, DqPush
    <2> HIDE DEF e
    <2> QED  BY <2>1, <2>2 DEF ByteQueue
  <1>5. ASSUME d.len # 0
        PROVE  /\ ByteQueue(Bytes!PopFront(d))
               /\ DqList(Bytes!PopFront(d), n) = Tail(DqList(d, n))
               /\ Bytes!PopFront(d).len = d.len - 1 /\ DqList(d, n) # <<>>
    <2> DEFINE e == DqPopped(d, n, NoByte)
    <2>1. Bytes!PopFront(d) = e
      BY <1>5 DEF Bytes!PopFront, DqPopped
    <2>2. /\ DqOK(e, n, ByteSet, NoByte) /\ DqList(e, n) = Tail(DqList(d, n)) /\ e.len = d.len - 1
          /\ DqList(d, n) # <<>>
      <3> HIDE DEF n, e
      <3>1. /\ DqOK(DqPopped(d, n, NoByte), n, ByteSet, NoByte) /\ DqPopped(d, n, NoByte).len = d.len - 1
            /\ DqList(DqPopped(d, n, NoByte), n) = Tail(DqList(d, n))
            /\ Head(DqList(d, n)) = d.data[DqIdx(n, d.head, 0)] /\ DqList(d, n) # <<>>
        BY <1>1, <1>5, <1>o, DqPop
      <3> QED  BY <3>1 DEF e
    <2> HIDE DEF e
    <2> QED  BY <2>1, <2>2 DEF ByteQueue
  <1> HIDE DEF n
  <1> QED  BY <1>2, <1>3, <1>4, <1>5 DEF n

\* The bytes given out and those still buffered are bytes.
LEMMA GivenType ==
    ASSUME NEW q, QueueOK(q)
    PROVE  Given(q) \in Seq(ByteSet)
  <1>1. q.out \in Seq(ByteSet) /\ Bytes!Contents(q.buf) \in Seq(ByteSet)
    BY ByteOps DEF QueueOK, QueueType
  <1> QED  BY <1>1, ConcatProperties DEF Given

\* One round of push_bytes: the byte goes behind everything given out or buffered.
LEMMA PushByteOK ==
    ASSUME NEW q, QueueOK(q), NEW b \in ByteSet, q.buf.len # TtyCap
    PROVE  /\ QueueOK(PushByte(q, b)) /\ Given(PushByte(q, b)) = Given(q) \o <<b>>
           /\ PushByte(q, b).buf.len <= q.buf.len + 1
  <1> DEFINE d == q.buf
             c == Bytes!Contents(d)
             o == q.out
  <1>1. /\ q \in QueueType /\ ByteQueue(d) /\ d \in DqType(TtyCap, ByteSet \cup {NoByte})
        /\ q.requests \in Seq(Request) /\ o \in Seq(ByteSet)
        /\ q = [buf |-> d, requests |-> q.requests, out |-> o]
    BY DEF QueueOK, QueueType
  <1>2. c \in Seq(ByteSet) /\ d.len \in Nat /\ TtyCap \in Nat /\ TtyCap # 0 /\ (d.len = 0 => c = <<>>)
    BY <1>1, ByteOps, InputAssumption
  <1>3. CASE q.requests = <<>>
    <2> DEFINE e == Bytes!PushBack(d, b)
    <2>1. ByteQueue(e) /\ Bytes!Contents(e) = Append(c, b) /\ e.len = d.len + 1
      BY <1>1, ByteOps
    <2>2. PushByte(q, b) = [buf |-> e, requests |-> q.requests, out |-> o]
      <3> HIDE DEF e
      <3>1. PushByte(q, b) = [q EXCEPT !.buf = e]
        BY <1>3 DEF PushByte, e
      <3> QED  BY <1>1, <3>1 DEF QueueType
    <2> DEFINE r == PushByte(q, b)
    <2>3. r.buf = e /\ r.requests = q.requests /\ r.out = o
      BY <2>2
    <2> HIDE DEF e
    <2>4. e \in DqType(TtyCap, ByteSet \cup {NoByte})
      BY <2>1 DEF ByteQueue, DqOK
    <2>5. r \in QueueType
      BY <1>1, <2>2, <2>4 DEF QueueType
    <2> HIDE DEF r
    <2>6. QueueOK(r)
      BY <1>3, <2>1, <2>3, <2>5 DEF QueueOK
    <2>7. Append(c, b) = c \o <<b>> /\ <<b>> \in Seq(ByteSet)
      BY <1>2, AppendIsConcat
    <2> HIDE DEF c, o
    <2>8. o \o (c \o <<b>>) = (o \o c) \o <<b>>
      BY <1>1, <1>2, <2>7, ConcatAssociative
    <2>9. Given(r) = Given(q) \o <<b>>
      BY <2>1, <2>3, <2>7, <2>8 DEF Given, c, o
    <2> QED  BY <1>2, <2>1, <2>3, <2>6, <2>9 DEF r
  <1>4. CASE q.requests # <<>>
    <2> DEFINE r == Head(q.requests)
               rest == Tail(q.requests)
               up == [r EXCEPT !.pos = @ + 1]
               reqs == IF r.pos + 1 = r.size THEN rest ELSE <<up>> \o rest
               p == PushByte(q, b)
    <2>1. p = [buf |-> d, requests |-> reqs, out |-> Append(o, b)]
      BY <1>4 DEF PushByte
    <2>2. r \in Request /\ rest \in Seq(Request)
      BY <1>1, <1>4, HeadTailProperties
    <2> HIDE DEF r, rest
    <2>3. up \in Request
      <3>1. r.pos + 1 \in Nat /\ r \in [reader : Readers, size : Nat, pos : Nat]
        BY <2>2 DEF Request
      <3>2. up = [r EXCEPT !.pos = r.pos + 1]
        OBVIOUS
      <3> QED  BY <3>1, <3>2 DEF Request
    <2> HIDE DEF up
    <2>4. <<up>> \in Seq(Request)
      BY <2>3
    <2>5. reqs \in Seq(Request)
      BY <2>2, <2>4, ConcatProperties
    <2>6. Append(o, b) \in Seq(ByteSet) /\ Append(o, b) = o \o <<b>>
      BY <1>1, AppendProperties, AppendIsConcat
    <2>7. d.len = 0 /\ c = <<>>
      BY <1>2, <1>4 DEF QueueOK
    <2> HIDE DEF reqs
    <2>8. p.buf = d /\ p.requests = reqs /\ p.out = Append(o, b) /\ p \in QueueType
      BY <1>1, <2>1, <2>5, <2>6 DEF QueueType
    <2> HIDE DEF p
    <2>9. QueueOK(p)
      BY <1>1, <2>7, <2>8 DEF QueueOK
    <2>10. Given(p) = Given(q) \o <<b>>
      <3>1. Append(o, b) \o <<>> = Append(o, b) /\ o \o <<>> = o
        BY <1>1, <2>6, ConcatEmptySeq
      <3>2. Given(p) = Append(o, b) \o <<>> /\ Given(q) = o \o <<>>
        BY <2>7, <2>8 DEF Given
      <3> QED  BY <2>6, <3>1, <3>2
    <2> QED  BY <1>2, <2>8, <2>9, <2>10 DEF p
  <1> QED  BY <1>3, <1>4

\* A full buffer has no reader waiting, and refuses the byte.
LEMMA PushByteFull ==
    ASSUME NEW q, QueueOK(q), NEW b \in ByteSet, q.buf.len = TtyCap
    PROVE  PushByte(q, b) = q
  <1>1. q.requests = <<>>
    BY InputAssumption DEF QueueOK
  <1>2. PushByte(q, b) = [q EXCEPT !.buf = q.buf]
    BY <1>1 DEF PushByte, Bytes!PushBack, Bytes!IsFull
  <1> QED  BY <1>2 DEF QueueOK, QueueType

\* push_bytes, when there is room: the bytes come after what was given out or buffered.
LEMMA PushBytesOK ==
    ASSUME NEW q, QueueOK(q), NEW bs \in Seq(ByteSet), q.buf.len + Len(bs) <= TtyCap
    PROVE  QueueOK(PushBytes(q, bs)) /\ Given(PushBytes(q, bs)) = Given(q) \o bs
  <1> DEFINE n == Len(bs)
             X == {x \in QueueType : QueueOK(x)}
             E(f) == [i \in 0 .. n |-> IF i = 0 THEN q ELSE PushByte(f[i - 1], bs[i])]
             push == CHOOSE f : f = E(f)
             g == [i \in 1 .. n |-> [x \in X |-> PushByte(x, bs[i])]]
  <1>1. n \in Nat /\ (\A i \in 1 .. n : bs[i] \in ByteSet) /\ q \in X
    BY DEF QueueOK
  <1>2. PushBytes(q, bs) = push[n]
    BY DEF PushBytes
  <1>3. g \in [1 .. n -> [X -> X]]
    <2>1. \A i \in 1 .. n : \A x \in X : PushByte(x, bs[i]) \in X
      <3> TAKE i \in 1 .. n
      <3> TAKE x \in X
      <3>1. bs[i] \in ByteSet /\ QueueOK(x)
        BY <1>1
      <3>2. QueueOK(PushByte(x, bs[i]))
        BY <3>1, PushByteOK, PushByteFull
      <3> QED  BY <3>2 DEF QueueOK
    <2> HIDE DEF n, X
    <2> QED  BY <2>1
  <1>4. PICK f \in [0 .. n -> X] : f[0] = q /\ \A i \in 1 .. n : f[i] = g[i][f[i - 1]]
    <2> HIDE DEF n, X, g
    <2>1. \E f : Loop(f, X, n, q, g)
      BY <1>1, <1>3, LoopExists
    <2> QED  BY <2>1 DEF Loop
  <1>5. f = E(f)
    <2>1. \A i \in 0 .. n : f[i] = IF i = 0 THEN q ELSE PushByte(f[i - 1], bs[i])
      <3> TAKE i \in 0 .. n
      <3>1. CASE i = 0
        BY <1>4, <3>1
      <3>2. CASE i # 0
        <4>1. i \in 1 .. n /\ i - 1 \in 0 .. n
          BY <1>1, <3>2
        <4> HIDE DEF n, X
        <4>2. f[i - 1] \in X
          BY <1>4, <4>1
        <4>3. g[i][f[i - 1]] = PushByte(f[i - 1], bs[i])
          BY <4>1, <4>2
        <4> HIDE DEF g
        <4> QED  BY <1>4, <3>2, <4>1, <4>3
      <3> QED  BY <3>1, <3>2
    <2> HIDE DEF n, X, g
    <2>2. f = [i \in 0 .. n |-> f[i]]
      BY <1>4
    <2> QED  BY <2>1, <2>2
  <1>6. push = E(push)
    <2> HIDE DEF E
    <2> QED  BY <1>5
  <1> HIDE DEF push
  <1>7. push[0] = q /\ \A i \in 1 .. n : push[i] = PushByte(push[i - 1], bs[i])
    <2>1. \A i \in 0 .. n : E(push)[i] = IF i = 0 THEN q ELSE PushByte(push[i - 1], bs[i])
      OBVIOUS
    <2>2. 0 \in 0 .. n /\ \A i \in 1 .. n : i \in 0 .. n /\ i # 0
      BY <1>1
    <2> HIDE DEF E, n
    <2> QED  BY <1>6, <2>1, <2>2
  <1> HIDE DEF E, X, g
  <1> DEFINE pre(i) == SubSeq(bs, 1, i)
             G == {i \in 0 .. n : /\ QueueOK(push[i]) /\ push[i].buf.len <= q.buf.len + i
                                  /\ Given(push[i]) = Given(q) \o pre(i)}
  <1>8. q.buf.len \in Nat /\ TtyCap \in Nat /\ Given(q) \in Seq(ByteSet)
    BY ByteOps, GivenType, InputAssumption DEF QueueOK
  <1>9. 0 \in G
    <2>1. pre(0) = <<>>
      BY SubSeqEmpty
    <2>2. Given(q) \o <<>> = Given(q)
      BY <1>8, ConcatEmptySeq
    <2> QED  BY <1>1, <1>7, <1>8, <2>1, <2>2
  <1>10. ASSUME NEW i \in 0 .. n - 1, i \in G PROVE i + 1 \in G
    <2> DEFINE k == i + 1
               x == push[i]
               b == bs[k]
    <2>1. k \in 1 .. n /\ k - 1 = i /\ i \in Nat /\ k \in 0 .. n
      BY <1>1
    <2>2. QueueOK(x) /\ x.buf.len <= q.buf.len + i /\ Given(x) = Given(q) \o pre(i)
      BY <1>10
    <2>3. b \in ByteSet /\ push[k] = PushByte(x, b)
      <3> HIDE DEF k
      <3> QED  BY <1>1, <1>7, <2>1
    <2>4. x.buf.len \in Nat /\ x.buf.len # TtyCap
      <3>1. x.buf.len \in Nat
        BY <2>2, ByteOps, InputAssumption DEF QueueOK
      <3> HIDE DEF x
      <3> QED  BY <1>8, <2>1, <2>2, <3>1
    <2> HIDE DEF x, b
    <2>5. QueueOK(push[k]) /\ Given(push[k]) = Given(x) \o <<b>> /\ push[k].buf.len <= x.buf.len + 1
      BY <2>2, <2>3, <2>4, PushByteOK
    <2>6. push[k].buf.len <= q.buf.len + k
      <3>1. push[k].buf.len \in Nat
        BY <2>5, ByteOps, InputAssumption DEF QueueOK
      <3> DEFINE u == push[k].buf.len
                 w == q.buf.len
                 z == x.buf.len
      <3>2. u \in Nat /\ w \in Nat /\ z \in Nat /\ z <= w + i /\ u <= z + 1 /\ i \in Nat
        BY <1>8, <2>1, <2>2, <2>4, <2>5, <3>1
      <3> HIDE DEF u, w, z
      <3>3. u <= w + (i + 1)
        BY <3>2
      <3> QED  BY <3>3 DEF u, w
    <2>7. pre(k) = pre(i) \o <<b>>
      <3>1. pre(k) = SubSeq(bs, 1, k - 1) \o <<bs[k]>>
        BY <2>1, SubSeqRecursiveSecond
      <3> QED  BY <2>1, <3>1 DEF b
    <2>8. pre(i) \in Seq(ByteSet) /\ <<b>> \in Seq(ByteSet)
      <3>1. \A j \in 1 .. i : bs[j] \in ByteSet
        BY <1>1, <2>1
      <3> QED  BY <2>1, <2>3, <3>1, SubSeqProperties
    <2> HIDE DEF pre
    <2>9. (Given(q) \o pre(i)) \o <<b>> = Given(q) \o (pre(i) \o <<b>>)
      <3> DEFINE w == Given(q)
                 y == pre(i)
                 z == <<b>>
      <3>1. w \in Seq(ByteSet) /\ y \in Seq(ByteSet) /\ z \in Seq(ByteSet)
        BY <1>8, <2>8
      <3> HIDE DEF w, y, z
      <3>2. (w \o y) \o z = w \o (y \o z)
        BY ONLY <3>1, ConcatAssociative
      <3> QED  BY <3>2 DEF w, y, z
    <2>10. Given(push[k]) = Given(q) \o pre(k)
      BY <2>2, <2>5, <2>7, <2>9
    <2>11. k \in G
      BY <2>1, <2>5, <2>6, <2>10
    <2> QED  BY <2>11
  <1>11. 0 .. n \subseteq G
    <2> HIDE DEF G, n
    <2> QED  BY <1>1, <1>9, <1>10, UpInduct
  <1>12. n \in 0 .. n /\ pre(n) = bs
    BY <1>1, SubSeqFull
  <1>13. QueueOK(push[n]) /\ Given(push[n]) = Given(q) \o pre(n)
    BY <1>11, <1>12
  <1> QED  BY <1>2, <1>12, <1>13

\* pop_front keeps a read queue well formed, empty or not.
LEMMA PopFrontOK ==
    ASSUME NEW d, ByteQueue(d)
    PROVE  ByteQueue(Bytes!PopFront(d))
  <1>1. CASE d.len = 0
    BY <1>1 DEF Bytes!PopFront
  <1>2. CASE d.len # 0
    BY <1>2, ByteOps
  <1> QED  BY <1>1, <1>2

\* TtyReadQueue::read: the bytes taken and those left are what was buffered.
LEMMA PopBytesOK ==
    ASSUME NEW d, ByteQueue(d), NEW n \in 0 .. d.len
    PROVE  /\ ByteQueue(PopBytes(d, n)) /\ PopBytes(d, n).len = d.len - n
           /\ SubSeq(Bytes!Contents(d), 1, n) \in Seq(ByteSet)
           /\ SubSeq(Bytes!Contents(d), 1, n) \o Bytes!Contents(PopBytes(d, n)) = Bytes!Contents(d)
  <1> DEFINE m == d.len
             C == Bytes!Contents(d)
             X == {x \in DqType(TtyCap, ByteSet \cup {NoByte}) : ByteQueue(x)}
             E(f) == [i \in 0 .. n |-> IF i = 0 THEN d ELSE Bytes!PopFront(f[i - 1])]
             pop == CHOOSE f : f = E(f)
             g == [i \in 1 .. n |-> [x \in X |-> Bytes!PopFront(x)]]
  <1>1. m \in Nat /\ n \in Nat /\ n <= m /\ C \in Seq(ByteSet) /\ Len(C) = m
        /\ \A x : ByteQueue(x) <=> x \in X
    <2>1. m \in Nat /\ n \in Nat /\ n <= m /\ C \in Seq(ByteSet) /\ Len(C) = m
      BY ByteOps, InputAssumption
    <2>2. \A x : ByteQueue(x) <=> x \in X
      BY DEF ByteQueue, DqOK
    <2> QED  BY <2>1, <2>2
  <1>2. PopBytes(d, n) = pop[n]
    BY DEF PopBytes
  <1>3. g \in [1 .. n -> [X -> X]]
    <2>1. \A x \in X : Bytes!PopFront(x) \in X
      <3> HIDE DEF X
      <3> QED  BY <1>1, PopFrontOK
    <2> HIDE DEF X
    <2> QED  BY <2>1
  <1>4. PICK f : Loop(f, X, n, d, g)
    <2>1. d \in X
      BY <1>1
    <2> HIDE DEF X, g
    <2> QED  BY <1>1, <1>3, <2>1, LoopExists
  <1>5. f = E(f)
    <2>0. f \in [0 .. n -> X] /\ f[0] = d /\ \A i \in 1 .. n : f[i] = g[i][f[i - 1]]
      BY <1>4 DEF Loop
    <2>1. \A i \in 0 .. n : f[i] = IF i = 0 THEN d ELSE Bytes!PopFront(f[i - 1])
      <3> TAKE i \in 0 .. n
      <3>1. CASE i = 0
        BY <2>0, <3>1
      <3>2. CASE i # 0
        <4>1. i \in 1 .. n /\ i - 1 \in 0 .. n
          BY <1>1, <3>2
        <4> HIDE DEF X
        <4>2. f[i - 1] \in X
          BY <2>0, <4>1
        <4>3. g[i][f[i - 1]] = Bytes!PopFront(f[i - 1])
          BY <4>1, <4>2
        <4> HIDE DEF g
        <4> QED  BY <2>0, <3>2, <4>1, <4>3
      <3> QED  BY <3>1, <3>2
    <2> HIDE DEF X, g
    <2>2. f = [i \in 0 .. n |-> f[i]]
      BY <2>0
    <2> QED  BY <2>1, <2>2
  <1>6. pop = E(pop)
    <2> HIDE DEF E
    <2> QED  BY <1>5
  <1> HIDE DEF pop
  <1>7. pop[0] = d /\ \A i \in 1 .. n : pop[i] = Bytes!PopFront(pop[i - 1])
    <2>1. \A i \in 0 .. n : E(pop)[i] = IF i = 0 THEN d ELSE Bytes!PopFront(pop[i - 1])
      OBVIOUS
    <2>2. 0 \in 0 .. n /\ \A i \in 1 .. n : i \in 0 .. n /\ i # 0
      BY <1>1
    <2> HIDE DEF E
    <2> QED  BY <1>6, <2>1, <2>2
  <1> HIDE DEF E, X, g, m, C
  <1> DEFINE G == {i \in 0 .. n : /\ ByteQueue(pop[i]) /\ pop[i].len = m - i
                                  /\ Bytes!Contents(pop[i]) = SubSeq(C, i + 1, m)}
  <1>8. 0 \in G
    <2>1. SubSeq(C, 1, m) = C
      BY <1>1, SubSeqFull
    <2>2. 0 + 1 = 1 /\ m - 0 = m /\ 0 \in 0 .. n
      BY <1>1
    <2>3. Bytes!Contents(pop[0]) = SubSeq(C, 0 + 1, m) /\ pop[0].len = m - 0 /\ ByteQueue(pop[0])
      BY <1>7, <2>1, <2>2 DEF C, m
    <2> QED  BY <2>2, <2>3
  <1>9. ASSUME NEW i \in 0 .. n - 1, i \in G PROVE i + 1 \in G
    <2> DEFINE k == i + 1
               x == pop[i]
    <2>1. k \in 1 .. n /\ k - 1 = i /\ i \in Nat /\ k \in 0 .. n /\ k \in 1 .. m /\ m - i # 0
          /\ m \in k .. m /\ (m - i) - 1 = m - k
      BY <1>1
    <2>2. ByteQueue(x) /\ x.len = m - i /\ Bytes!Contents(x) = SubSeq(C, k, m)
      BY <1>9
    <2> HIDE DEF k, x
    <2>3. pop[k] = Bytes!PopFront(x)
      BY <1>7, <2>1 DEF x
    <2>4. /\ ByteQueue(Bytes!PopFront(x)) /\ Bytes!PopFront(x).len = x.len - 1
          /\ Bytes!Contents(Bytes!PopFront(x)) = Tail(Bytes!Contents(x))
      BY <2>1, <2>2, ByteOps
    <2>5. Tail(SubSeq(C, k, m)) = SubSeq(C, k + 1, m)
      BY <1>1, <2>1, HeadTailOfSubSeq
    <2>6. /\ ByteQueue(pop[k]) /\ pop[k].len = m - k /\ Bytes!Contents(pop[k]) = SubSeq(C, k + 1, m)
      BY <2>1, <2>2, <2>3, <2>4, <2>5
    <2>7. k \in G
      BY <2>1, <2>6
    <2> QED  BY <2>7 DEF k
  <1>10. 0 .. n \subseteq G
    <2> HIDE DEF G
    <2> QED  BY <1>1, <1>8, <1>9, UpInduct
  <1>11. ByteQueue(pop[n]) /\ pop[n].len = m - n /\ Bytes!Contents(pop[n]) = SubSeq(C, n + 1, m)
    <2>1. n \in 0 .. n
      BY <1>1
    <2> QED  BY <1>10, <2>1
  <1>12. SubSeq(C, 1, n) \o SubSeq(C, n + 1, m) = C
    <2>1. 1 \in 1 .. Len(C) + 1 /\ n \in 1 - 1 .. Len(C) /\ m \in n .. Len(C)
      BY <1>1
    <2>2. SubSeq(C, 1, n) \o SubSeq(C, n + 1, m) = SubSeq(C, 1, m)
      BY <1>1, <2>1, ConcatAdjacentSubSeq
    <2> QED  BY <1>1, <2>2, SubSeqFull
  <1>13. SubSeq(C, 1, n) \in Seq(ByteSet)
    <2>1. \A i \in 1 .. n : C[i] \in ByteSet
      BY <1>1
    <2> QED  BY <1>1, <2>1, SubSeqProperties
  <1> QED  BY <1>2, <1>11, <1>12, <1>13 DEF C, m

\* What the operations of ArrayDeque do to the driver's buffer of key presses.
LEMMA PressOps ==
    ASSUME NEW S, NEW d, DqOK(d, KbdCap, S, NoPress)
    PROVE  /\ Presses!Contents(d) \in Seq(S) /\ Len(Presses!Contents(d)) = d.len
           /\ d.len \in 0 .. KbdCap /\ (d.len = 0 => Presses!Contents(d) = <<>>)
           /\ Presses!IsFull(d) <=> d.len = KbdCap
           /\ \A v \in S : d.len # KbdCap =>
                /\ DqOK(Presses!PushBack(d, v), KbdCap, S, NoPress)
                /\ Presses!Contents(Presses!PushBack(d, v)) = Append(Presses!Contents(d), v)
                /\ Presses!PushBack(d, v).len = d.len + 1
           /\ \A v : d.len = KbdCap => Presses!PushBack(d, v) = d
           /\ d.len # 0 =>
                /\ DqOK(Presses!PopFront(d), KbdCap, S, NoPress)
                /\ Presses!Contents(Presses!PopFront(d)) = Tail(Presses!Contents(d))
                /\ Presses!PopFront(d).len = d.len - 1 /\ Presses!Contents(d) # <<>>
                /\ Presses!Front(d) = Head(Presses!Contents(d))
  <1> DEFINE n == KbdCap
  <1>1. n \in Nat /\ n # 0
    BY InputAssumption
  <1>2. \A e : Presses!Contents(e) = DqList(e, n)
    BY DEF Presses!Contents, Presses!Idx, DqList, DqIdx
  <1>3. DqList(d, n) \in Seq(S) /\ Len(DqList(d, n)) = d.len
           /\ d.len \in 0 .. n /\ (d.len = 0 => DqList(d, n) = <<>>)
    <2> HIDE DEF n
    <2> QED  BY <1>1, DqListType DEF n
  <1>4. ASSUME NEW v \in S, d.len # n
        PROVE  /\ DqOK(Presses!PushBack(d, v), n, S, NoPress)
               /\ DqList(Presses!PushBack(d, v), n) = Append(DqList(d, n), v)
               /\ Presses!PushBack(d, v).len = d.len + 1
    <2> DEFINE e == DqPushed(d, n, v)
    <2>1. Presses!PushBack(d, v) = e
      BY <1>4 DEF Presses!PushBack, Presses!IsFull, Presses!Idx, DqIdx, DqPushed
    <2>2. DqOK(e, n, S, NoPress) /\ DqList(e, n) = Append(DqList(d, n), v) /\ e.len = d.len + 1
      BY <1>1, <1>4, DqPush
    <2> HIDE DEF e
    <2> QED  BY <2>1, <2>2
  <1>5. ASSUME d.len # 0
        PROVE  /\ DqOK(Presses!PopFront(d), n, S, NoPress)
               /\ DqList(Presses!PopFront(d), n) = Tail(DqList(d, n))
               /\ Presses!PopFront(d).len = d.len - 1 /\ DqList(d, n) # <<>>
               /\ Presses!Front(d) = Head(DqList(d, n))
    <2> DEFINE e == DqPopped(d, n, NoPress)
    <2>1. Presses!PopFront(d) = e
      BY <1>5 DEF Presses!PopFront, DqPopped
    <2>2. Presses!Front(d) = d.data[DqIdx(n, d.head, 0)]
      BY DEF Presses!Front, Presses!Idx, DqIdx
    <2> HIDE DEF e
    <2>3. /\ DqOK(DqPopped(d, n, NoPress), n, S, NoPress) /\ DqPopped(d, n, NoPress).len = d.len - 1
          /\ DqList(DqPopped(d, n, NoPress), n) = Tail(DqList(d, n))
          /\ Head(DqList(d, n)) = d.data[DqIdx(n, d.head, 0)] /\ DqList(d, n) # <<>>
      BY <1>1, <1>5, DqPop
    <2> QED  BY <2>1, <2>2, <2>3 DEF e
  <1>6. Presses!IsFull(d) <=> d.len = n
    BY DEF Presses!IsFull
  <1>7. \A v : d.len = n => Presses!PushBack(d, v) = d
    BY DEF Presses!IsFull, Presses!PushBack
  <1> QED  BY <1>2, <1>3, <1>4, <1>5, <1>6, <1>7

----------------------------------------------------------------------------
(* Scancodes. *)

ScanBytes == {"E0", "E1", "F0", "11", "12", "14", "1C", "1F", "4A", "58", "75", "77"}
Event == [key : KeyNames, dir : {"press", "release"}]
PressCode(k) == IF k = "Pause" THEN <<"E1", "14", "77">> ELSE Make(k)
ReleaseCode(k) == IF k = "Pause" THEN <<"E1", "F0", "14", "F0", "77">> ELSE Break(k)
Code(e) == IF e.dir = "press" THEN PressCode(e.key) ELSE ReleaseCode(e.key)

\* Two sequences of one byte make one of two.
LEMMA OneAndOne == ASSUME NEW x, NEW y PROVE <<x>> \o <<y>> = <<x, y>>
  <1> DEFINE S == {x, y}
             s == <<x>>
             t == <<y>>
             u == <<x, y>>
  <1>1. s \in Seq(S) /\ t \in Seq(S) /\ u \in Seq(S) /\ Len(s) = 1 /\ Len(t) = 1 /\ Len(u) = 2
        /\ s[1] = x /\ t[1] = y /\ u[1] = x /\ u[2] = y
    OBVIOUS
  <1> HIDE DEF s, t, u, S
  <1>2. s \o t \in Seq(S) /\ Len(s \o t) = 2 /\ (s \o t)[1] = x /\ (s \o t)[2] = y
    BY <1>1, ConcatProperties
  <1>3. \A i \in 1 .. 2 : (s \o t)[i] = u[i]
    BY <1>1, <1>2
  <1> DEFINE v == s \o t
  <1>4. v \in Seq(S) /\ Len(v) = Len(u) /\ \A i \in 1 .. Len(v) : v[i] = u[i]
    BY <1>1, <1>2, <1>3
  <1> HIDE DEF v
  <1>5. v = u
    BY <1>1, <1>4, SeqEqual
  <1> QED  BY <1>5 DEF v, s, t, u

\* The codes of keys that have one byte.
LEMMA BasicCode ==
    ASSUME NEW k \in KeyNames, NEW b, Make(k) = <<b>>, b # "E0", k # "Pause"
    PROVE  PressCode(k) = <<b>> /\ ReleaseCode(k) = <<"F0", b>>
  <1>1. Make(k)[1] = b
    OBVIOUS
  <1>2. Break(k) = <<"F0">> \o Make(k)
    BY <1>1 DEF Break
  <1>3. Break(k) = <<"F0", b>>
    BY <1>2, OneAndOne
  <1> QED  BY <1>3 DEF PressCode, ReleaseCode

\* The codes of keys that have a byte after E0.
LEMMA ExtendedCode ==
    ASSUME NEW k \in KeyNames, NEW b, Make(k) = <<"E0", b>>, k # "Pause"
    PROVE  PressCode(k) = <<"E0", b>> /\ ReleaseCode(k) = <<"E0", "F0", b>>
  <1>1. Make(k)[1] = "E0" /\ Make(k)[2] = b
    OBVIOUS
  <1>2. Break(k) = <<"E0", "F0", b>>
    BY <1>1 DEF Break
  <1> QED  BY <1>2 DEF PressCode, ReleaseCode

\* The three kinds of codes.
LEMMA CodeShapes ==
    ASSUME NEW e \in Event
    PROVE  \/ \E b \in DOMAIN BasicKeys :
                /\ BasicKeys[b] = e.key
                /\ (e.dir = "press" /\ Code(e) = <<b>>) \/ (e.dir = "release" /\ Code(e) = <<"F0", b>>)
           \/ \E b \in DOMAIN ExtendedKeys :
                /\ ExtendedKeys[b] = e.key
                /\ \/ e.dir = "press" /\ Code(e) = <<"E0", b>>
                   \/ e.dir = "release" /\ Code(e) = <<"E0", "F0", b>>
           \/ /\ e.key = "Pause"
              /\ \/ e.dir = "press" /\ Code(e) = <<"E1", "14", "77">>
                 \/ e.dir = "release" /\ Code(e) = <<"E1", "F0", "14", "F0", "77">>
  <1> DEFINE k == e.key
             B(b) == /\ BasicKeys[b] = k
                     /\ (e.dir = "press" /\ Code(e) = <<b>>) \/ (e.dir = "release" /\ Code(e) = <<"F0", b>>)
             X(b) == /\ ExtendedKeys[b] = k
                     /\ \/ e.dir = "press" /\ Code(e) = <<"E0", b>>
                        \/ e.dir = "release" /\ Code(e) = <<"E0", "F0", b>>
  <1>1. k \in KeyNames /\ e.dir \in {"press", "release"}
    BY DEF Event
  <1>2. ASSUME NEW b \in DOMAIN BasicKeys, Make(k) = <<b>>, BasicKeys[b] = k
        PROVE  B(b)
    <2>1. b # "E0" /\ k # "Pause"
      BY <1>2 DEF BasicKeys
    <2>2. PressCode(k) = <<b>> /\ ReleaseCode(k) = <<"F0", b>>
      BY <1>1, <1>2, <2>1, BasicCode
    <2> QED  BY <1>1, <1>2, <2>2 DEF Code
  <1>3. ASSUME NEW b \in DOMAIN ExtendedKeys, Make(k) = <<"E0", b>>, ExtendedKeys[b] = k
        PROVE  X(b)
    <2>1. k # "Pause"
      BY <1>3 DEF ExtendedKeys
    <2>2. PressCode(k) = <<"E0", b>> /\ ReleaseCode(k) = <<"E0", "F0", b>>
      BY <1>1, <1>3, <2>1, ExtendedCode
    <2> QED  BY <1>1, <1>3, <2>2 DEF Code
  <1> HIDE DEF B, X
  <1>4. CASE k = "A"
    <2>1. Make(k) = <<"1C">> /\ "1C" \in DOMAIN BasicKeys /\ BasicKeys["1C"] = k
      BY <1>4 DEF Make, BasicKeys
    <2>2. B("1C")
      BY <1>2, <2>1
    <2> QED  BY <2>1, <2>2 DEF B
  <1>5. CASE k = "CapsLock"
    <2>1. Make(k) = <<"58">> /\ "58" \in DOMAIN BasicKeys /\ BasicKeys["58"] = k
      BY <1>5 DEF Make, BasicKeys
    <2>2. B("58")
      BY <1>2, <2>1
    <2> QED  BY <2>1, <2>2 DEF B
  <1>6. CASE k = "LeftCtrl"
    <2>1. Make(k) = <<"14">> /\ "14" \in DOMAIN BasicKeys /\ BasicKeys["14"] = k
      BY <1>6 DEF Make, BasicKeys
    <2>2. B("14")
      BY <1>2, <2>1
    <2> QED  BY <2>1, <2>2 DEF B
  <1>7. CASE k = "LeftShift"
    <2>1. Make(k) = <<"12">> /\ "12" \in DOMAIN BasicKeys /\ BasicKeys["12"] = k
      BY <1>7 DEF Make, BasicKeys
    <2>2. B("12")
      BY <1>2, <2>1
    <2> QED  BY <2>1, <2>2 DEF B
  <1>8. CASE k = "NumLock"
    <2>1. Make(k) = <<"77">> /\ "77" \in DOMAIN BasicKeys /\ BasicKeys["77"] = k
      BY <1>8 DEF Make, BasicKeys
    <2>2. B("77")
      BY <1>2, <2>1
    <2> QED  BY <2>1, <2>2 DEF B
  <1>9. CASE k = "Numpad8"
    <2>1. Make(k) = <<"75">> /\ "75" \in DOMAIN BasicKeys /\ BasicKeys["75"] = k
      BY <1>9 DEF Make, BasicKeys
    <2>2. B("75")
      BY <1>2, <2>1
    <2> QED  BY <2>1, <2>2 DEF B
  <1>10. CASE k = "RightCtrl"
    <2>1. Make(k) = <<"E0", "14">> /\ "14" \in DOMAIN ExtendedKeys /\ ExtendedKeys["14"] = k
      BY <1>10 DEF Make, ExtendedKeys
    <2>2. X("14")
      BY <1>3, <2>1
    <2> QED  BY <2>1, <2>2 DEF X
  <1>11. CASE k = "UpArrow"
    <2>1. Make(k) = <<"E0", "75">> /\ "75" \in DOMAIN ExtendedKeys /\ ExtendedKeys["75"] = k
      BY <1>11 DEF Make, ExtendedKeys
    <2>2. X("75")
      BY <1>3, <2>1
    <2> QED  BY <2>1, <2>2 DEF X
  <1>12. CASE k = "Pause"
    BY <1>1, <1>12 DEF Code, PressCode, ReleaseCode
  <1>13. CASE k = "LeftAlt"
    <2>1. Make(k) = <<"11">> /\ "11" \in DOMAIN BasicKeys /\ BasicKeys["11"] = k
      BY <1>13 DEF Make, BasicKeys
    <2>2. B("11")
      BY <1>2, <2>1
    <2> QED  BY <2>1, <2>2 DEF B
  <1>14. CASE k = "Slash"
    <2>1. Make(k) = <<"4A">> /\ "4A" \in DOMAIN BasicKeys /\ BasicKeys["4A"] = k
      BY <1>14 DEF Make, BasicKeys
    <2>2. B("4A")
      BY <1>2, <2>1
    <2> QED  BY <2>1, <2>2 DEF B
  <1>15. CASE k = "LeftSuper"
    <2>1. Make(k) = <<"E0", "1F">> /\ "1F" \in DOMAIN ExtendedKeys /\ ExtendedKeys["1F"] = k
      BY <1>15 DEF Make, ExtendedKeys
    <2>2. X("1F")
      BY <1>3, <2>1
    <2> QED  BY <2>1, <2>2 DEF X
  <1> QED  BY <1>1, <1>4, <1>5, <1>6, <1>7, <1>8, <1>9, <1>10, <1>11, <1>12, <1>13, <1>14, <1>15 DEF KeyNames

\* What the parser makes of the first m bytes of a code.
LEMMA ParsePlain ==
    ASSUME NEW buf, NEW m \in Nat, m = Len(buf), NEW b \in DOMAIN BasicKeys, m = 1, buf[1] = b
    PROVE  CodeLength(buf) = 1 /\ ~Released(buf) /\ KeysOf(ScancodeKey(buf)) = {BasicKeys[b]}
  <1>1. b \notin {"E0", "E1", "F0"}
    BY DEF BasicKeys
  <1>2. ~Released(buf)
    BY <1>1 DEF Released
  <1>3. CodeLength(buf) = 1
    BY <1>1, <1>2 DEF CodeLength
  <1>4. ScancodeKey(buf) = <<"basic", b>>
    BY <1>1 DEF ScancodeKey, Basic
  <1>5. KeysOf(<<"basic", b>>) = {BasicKeys[b]}
    BY DEF KeysOf
  <1> QED  BY <1>2, <1>3, <1>4, <1>5

\* Scancode::try_parse on a break code of one byte.
LEMMA ParseF0 ==
    ASSUME NEW buf, NEW m \in Nat, m = Len(buf), NEW b \in DOMAIN BasicKeys, buf[1] = "F0"
    PROVE  /\ CodeLength(buf) = 2 /\ Released(buf)
           /\ m = 2 /\ buf[2] = b => KeysOf(ScancodeKey(buf)) = {BasicKeys[b]}
  <1>2. Released(buf)
    BY DEF Released
  <1>3. CodeLength(buf) = 2
    BY <1>2 DEF CodeLength
  <1>4. m = 2 /\ buf[2] = b => ScancodeKey(buf) = <<"basic", b>>
    BY DEF ScancodeKey, Basic
  <1>5. KeysOf(<<"basic", b>>) = {BasicKeys[b]}
    BY DEF KeysOf
  <1> QED  BY <1>2, <1>3, <1>4, <1>5

\* Scancode::try_parse on codes that begin with E0.
LEMMA ParseE0 ==
    ASSUME NEW buf, NEW m \in Nat, m = Len(buf), NEW b \in DOMAIN ExtendedKeys, buf[1] = "E0"
    PROVE  /\ Released(buf) <=> (m >= 2 /\ buf[2] = "F0")
           /\ CodeLength(buf) = IF Released(buf) THEN 3 ELSE 2
           /\ m # 0 /\ buf[m] = b => KeysOf(ScancodeKey(buf)) = {ExtendedKeys[b]}
  <1>2. Released(buf) <=> (m >= 2 /\ buf[2] = "F0")
    BY DEF Released
  <1>3. CodeLength(buf) = IF Released(buf) THEN 3 ELSE 2
    BY <1>2 DEF CodeLength
  <1>4. m # 0 /\ buf[m] = b => ScancodeKey(buf) = <<"extended", b>>
    BY DEF ScancodeKey, Extended
  <1>5. KeysOf(<<"extended", b>>) = {ExtendedKeys[b]}
    BY DEF KeysOf
  <1> QED  BY <1>2, <1>3, <1>4, <1>5

\* Scancode::try_parse on the codes of Pause.
LEMMA ParseE1 ==
    ASSUME NEW buf, NEW m \in Nat, m = Len(buf), buf[1] = "E1"
    PROVE  /\ Released(buf) <=> (m >= 2 /\ buf[2] = "F0")
           /\ CodeLength(buf) = IF Released(buf) THEN 5 ELSE 3
           /\ ~Released(buf) /\ buf[2] = "14" /\ buf[3] = "77" => KeysOf(ScancodeKey(buf)) = {"Pause"}
           /\ Released(buf) /\ buf[3] = "14" /\ buf[5] = "77" => KeysOf(ScancodeKey(buf)) = {"Pause"}
  <1>2. Released(buf) <=> (m >= 2 /\ buf[2] = "F0")
    BY DEF Released
  <1>3. CodeLength(buf) = IF Released(buf) THEN 5 ELSE 3
    BY <1>2 DEF CodeLength
  <1>4. ~Released(buf) /\ buf[2] = "14" /\ buf[3] = "77" => ScancodeKey(buf) = <<"dual", "14", "77">>
    BY DEF ScancodeKey, DualExtended
  <1>5. Released(buf) /\ buf[3] = "14" /\ buf[5] = "77" => ScancodeKey(buf) = <<"dual", "14", "77">>
    BY DEF ScancodeKey, DualExtended
  <1>6. KeysOf(<<"dual", "14", "77">>) = {"Pause"}
    <2> DEFINE c == <<"dual", "14", "77">>
               M == {d \in DualList : d[1] = c[2] /\ d[2] = c[3]}
    <2>1. c[1] = "dual" /\ c[2] = "14" /\ c[3] = "77"
      OBVIOUS
    <2>2. KeysOf(c) = {e[3] : e \in M}
      <3> HIDE DEF c
      <3> QED  BY <2>1 DEF KeysOf
    <2>3. M = {<<"14", "77", "Pause">>}
      <3>1. <<"14", "77", "Pause">>[1] = "14" /\ <<"14", "77", "Pause">>[2] = "77"
        OBVIOUS
      <3> HIDE DEF c
      <3> QED  BY <2>1, <3>1 DEF DualList
    <2>4. <<"14", "77", "Pause">>[3] = "Pause"
      OBVIOUS
    <2> HIDE DEF c, M
    <2>5. {e[3] : e \in M} = {"Pause"}
      BY <2>3, <2>4
    <2> QED  BY <2>2, <2>5 DEF c
  <1> QED  BY <1>2, <1>3, <1>4, <1>5, <1>6

\* try_parse of any beginning of any key's code: it asks for more until the code is complete,
\* and then finds the key and whether it was pressed.
LEMMA Parse ==
    ASSUME NEW e \in Event, NEW buf \in Seq(ScanBytes), Len(buf) # 0, Len(buf) <= Len(Code(e)),
           \A j \in 1 .. Len(buf) : buf[j] = Code(e)[j]
    PROVE  /\ Code(e) \in Seq(ScanBytes) /\ Code(e) # <<>>
           /\ Len(buf) < Len(Code(e)) => CodeLength(buf) > Len(buf)
           /\ Len(buf) = Len(Code(e)) =>
                /\ CodeLength(buf) = Len(buf) /\ (Released(buf) <=> e.dir = "release")
                /\ KeysOf(ScancodeKey(buf)) = {e.key}
  <1> DEFINE m == Len(buf)
             c == Code(e)
             Goal == /\ c \in Seq(ScanBytes) /\ c # <<>>
                     /\ m < Len(c) => CodeLength(buf) > m
                     /\ m = Len(c) =>
                          /\ CodeLength(buf) = m /\ (Released(buf) <=> e.dir = "release")
                          /\ KeysOf(ScancodeKey(buf)) = {e.key}
  <1>0. m \in Nat /\ m # 0 /\ m <= Len(c) /\ m = Len(buf) /\ \A j \in 1 .. m : buf[j] = c[j]
    OBVIOUS
  <1>b. \A j \in Nat : j # 0 /\ j <= m => buf[j] = c[j]
    BY <1>0
  <1> HIDE DEF m, c
  <1>s. \A x, y, z, v, w \in ScanBytes :
          /\ <<x>> \in Seq(ScanBytes) /\ <<x, y>> \in Seq(ScanBytes) /\ <<x, y, z>> \in Seq(ScanBytes)
          /\ <<x, y, z, v, w>> \in Seq(ScanBytes)
    OBVIOUS
  <1>n. \A x, y, z, v, w : <<x>> # <<>> /\ <<x, y>> # <<>> /\ <<x, y, z>> # <<>> /\ <<x, y, z, v, w>> # <<>>
    OBVIOUS
  <1>1. ASSUME NEW b \in DOMAIN BasicKeys, BasicKeys[b] = e.key, e.dir = "press", c = <<b>>
        PROVE  Goal
    <2>1. Len(c) = 1 /\ c[1] = b /\ b \in ScanBytes
      BY <1>1 DEF BasicKeys, ScanBytes
    <2>2. c \in Seq(ScanBytes) /\ c # <<>>
      BY <1>1, <1>s, <1>n, <2>1
    <2>3. m = 1 /\ buf[1] = b
      BY <1>0, <1>b, <2>1
    <2>4. CodeLength(buf) = 1 /\ ~Released(buf) /\ KeysOf(ScancodeKey(buf)) = {BasicKeys[b]}
      BY <1>0, <2>3, ParsePlain
    <2> QED  BY <1>1, <2>1, <2>2, <2>3, <2>4
  <1>2. ASSUME NEW b \in DOMAIN BasicKeys, BasicKeys[b] = e.key, e.dir = "release", c = <<"F0", b>>
        PROVE  Goal
    <2>1. Len(c) = 2 /\ c[1] = "F0" /\ c[2] = b /\ b \in ScanBytes /\ "F0" \in ScanBytes
      BY <1>2 DEF BasicKeys, ScanBytes
    <2>2. c \in Seq(ScanBytes) /\ c # <<>>
      BY <1>2, <1>s, <1>n, <2>1
    <2>3. m \in {1, 2} /\ buf[1] = "F0" /\ (m = 2 => buf[2] = b)
      BY <1>0, <1>b, <2>1
    <2>4. /\ CodeLength(buf) = 2 /\ Released(buf)
          /\ m = 2 /\ buf[2] = b => KeysOf(ScancodeKey(buf)) = {BasicKeys[b]}
      BY <1>0, <2>3, ParseF0
    <2> QED  BY <1>2, <2>1, <2>2, <2>3, <2>4
  <1>3. ASSUME NEW b \in DOMAIN ExtendedKeys, ExtendedKeys[b] = e.key, e.dir = "press", c = <<"E0", b>>
        PROVE  Goal
    <2>1. Len(c) = 2 /\ c[1] = "E0" /\ c[2] = b /\ b \in ScanBytes /\ "E0" \in ScanBytes /\ b # "F0"
      BY <1>3 DEF ExtendedKeys, ScanBytes
    <2>2. c \in Seq(ScanBytes) /\ c # <<>>
      BY <1>3, <1>s, <1>n, <2>1
    <2>3. m \in {1, 2} /\ buf[1] = "E0" /\ (m = 2 => buf[2] = b)
      BY <1>0, <1>b, <2>1
    <2>4. /\ Released(buf) <=> (m >= 2 /\ buf[2] = "F0")
          /\ CodeLength(buf) = IF Released(buf) THEN 3 ELSE 2
          /\ m # 0 /\ buf[m] = b => KeysOf(ScancodeKey(buf)) = {ExtendedKeys[b]}
      BY <1>0, <2>3, ParseE0
    <2>5. ~Released(buf) /\ CodeLength(buf) = 2
      BY <2>1, <2>3, <2>4
    <2> QED  BY <1>3, <2>1, <2>2, <2>3, <2>4, <2>5
  <1>4. ASSUME NEW b \in DOMAIN ExtendedKeys, ExtendedKeys[b] = e.key, e.dir = "release",
               c = <<"E0", "F0", b>>
        PROVE  Goal
    <2>1. /\ Len(c) = 3 /\ c[1] = "E0" /\ c[2] = "F0" /\ c[3] = b
          /\ b \in ScanBytes /\ "E0" \in ScanBytes /\ "F0" \in ScanBytes
      BY <1>4 DEF ExtendedKeys, ScanBytes
    <2>2. c \in Seq(ScanBytes) /\ c # <<>>
      BY <1>4, <1>s, <1>n, <2>1
    <2>3. m \in {1, 2, 3} /\ buf[1] = "E0" /\ (m # 1 => buf[2] = "F0") /\ (m = 3 => buf[3] = b)
      BY <1>0, <1>b, <2>1
    <2>4. /\ Released(buf) <=> (m >= 2 /\ buf[2] = "F0")
          /\ CodeLength(buf) = IF Released(buf) THEN 3 ELSE 2
          /\ m # 0 /\ buf[m] = b => KeysOf(ScancodeKey(buf)) = {ExtendedKeys[b]}
      BY <1>0, <2>3, ParseE0
    <2>5. (Released(buf) <=> m # 1) /\ CodeLength(buf) = IF m = 1 THEN 2 ELSE 3
      BY <2>1, <2>3, <2>4
    <2> QED  BY <1>4, <2>1, <2>2, <2>3, <2>4, <2>5
  <1>5. ASSUME e.key = "Pause", e.dir = "press", c = <<"E1", "14", "77">>
        PROVE  Goal
    <2>1. /\ Len(c) = 3 /\ c[1] = "E1" /\ c[2] = "14" /\ c[3] = "77"
          /\ "E1" \in ScanBytes /\ "14" \in ScanBytes /\ "77" \in ScanBytes
      BY <1>5 DEF ScanBytes
    <2>2. c \in Seq(ScanBytes) /\ c # <<>>
      BY <1>5, <1>s, <1>n, <2>1
    <2>3. m \in {1, 2, 3} /\ buf[1] = "E1" /\ (m # 1 => buf[2] = "14") /\ (m = 3 => buf[3] = "77")
      BY <1>0, <1>b, <2>1
    <2>4. /\ Released(buf) <=> (m >= 2 /\ buf[2] = "F0")
          /\ CodeLength(buf) = IF Released(buf) THEN 5 ELSE 3
          /\ ~Released(buf) /\ buf[2] = "14" /\ buf[3] = "77" => KeysOf(ScancodeKey(buf)) = {"Pause"}
      BY <1>0, <2>3, ParseE1
    <2>5. ~Released(buf) /\ CodeLength(buf) = 3
      BY <2>1, <2>3, <2>4
    <2> QED  BY <1>5, <2>1, <2>2, <2>3, <2>4, <2>5
  <1>6. ASSUME e.key = "Pause", e.dir = "release", c = <<"E1", "F0", "14", "F0", "77">>
        PROVE  Goal
    <2>1. /\ Len(c) = 5 /\ c[1] = "E1" /\ c[2] = "F0" /\ c[3] = "14" /\ c[5] = "77"
          /\ "E1" \in ScanBytes /\ "14" \in ScanBytes /\ "77" \in ScanBytes /\ "F0" \in ScanBytes
      BY <1>6 DEF ScanBytes
    <2>2. c \in Seq(ScanBytes) /\ c # <<>>
      BY <1>6, <1>s, <1>n, <2>1
    <2>3. /\ m \in {1, 2, 3, 4, 5} /\ buf[1] = "E1" /\ (m # 1 => buf[2] = "F0")
          /\ (m = 5 => buf[3] = "14" /\ buf[5] = "77")
      BY <1>0, <1>b, <2>1
    <2>4. /\ Released(buf) <=> (m >= 2 /\ buf[2] = "F0")
          /\ CodeLength(buf) = IF Released(buf) THEN 5 ELSE 3
          /\ Released(buf) /\ buf[3] = "14" /\ buf[5] = "77" => KeysOf(ScancodeKey(buf)) = {"Pause"}
      BY <1>0, <2>3, ParseE1
    <2>5. (Released(buf) <=> m # 1) /\ CodeLength(buf) = IF m = 1 THEN 3 ELSE 5
      BY <2>1, <2>3, <2>4
    <2> QED  BY <1>6, <2>1, <2>2, <2>3, <2>4, <2>5
  <1> HIDE DEF Goal
  <1>7. Goal
    <2>1. CASE \E b \in DOMAIN BasicKeys :
                 /\ BasicKeys[b] = e.key
                 /\ (e.dir = "press" /\ c = <<b>>) \/ (e.dir = "release" /\ c = <<"F0", b>>)
      <3>1. PICK b \in DOMAIN BasicKeys :
                 /\ BasicKeys[b] = e.key
                 /\ (e.dir = "press" /\ c = <<b>>) \/ (e.dir = "release" /\ c = <<"F0", b>>)
        BY <2>1
      <3>2. CASE e.dir = "press" /\ c = <<b>>
        BY <1>1, <3>1, <3>2
      <3>3. CASE e.dir = "release" /\ c = <<"F0", b>>
        BY <1>2, <3>1, <3>3
      <3> QED  BY <3>1, <3>2, <3>3
    <2>2. CASE \E b \in DOMAIN ExtendedKeys :
                 /\ ExtendedKeys[b] = e.key
                 /\ \/ e.dir = "press" /\ c = <<"E0", b>>
                    \/ e.dir = "release" /\ c = <<"E0", "F0", b>>
      <3>1. PICK b \in DOMAIN ExtendedKeys :
                 /\ ExtendedKeys[b] = e.key
                 /\ \/ e.dir = "press" /\ c = <<"E0", b>>
                    \/ e.dir = "release" /\ c = <<"E0", "F0", b>>
        BY <2>2
      <3>2. CASE e.dir = "press" /\ c = <<"E0", b>>
        BY <1>3, <3>1, <3>2
      <3>3. CASE e.dir = "release" /\ c = <<"E0", "F0", b>>
        BY <1>4, <3>1, <3>3
      <3> QED  BY <3>1, <3>2, <3>3
    <2>3. CASE /\ e.key = "Pause"
               /\ \/ e.dir = "press" /\ c = <<"E1", "14", "77">>
                  \/ e.dir = "release" /\ c = <<"E1", "F0", "14", "F0", "77">>
      BY <1>5, <1>6, <2>3
    <2> QED  BY <2>1, <2>2, <2>3, CodeShapes DEF c
  <1> QED  BY <1>7 DEF Goal, m, c

\* Every code is a sequence of one to five bytes.
LEMMA CodeType ==
    ASSUME NEW e \in Event
    PROVE  Code(e) \in Seq(ScanBytes) /\ Len(Code(e)) \in Nat /\ Len(Code(e)) # 0
  <1> DEFINE c == Code(e)
             Goal == c \in Seq(ScanBytes) /\ Len(c) \in Nat /\ Len(c) # 0
  <1>s. /\ \A x \in ScanBytes : <<x>> \in Seq(ScanBytes) /\ Len(<<x>>) = 1
        /\ \A x, y \in ScanBytes : <<x, y>> \in Seq(ScanBytes) /\ Len(<<x, y>>) = 2
        /\ \A x, y, z \in ScanBytes : <<x, y, z>> \in Seq(ScanBytes) /\ Len(<<x, y, z>>) = 3
        /\ \A x, y, z, v, w \in ScanBytes :
             <<x, y, z, v, w>> \in Seq(ScanBytes) /\ Len(<<x, y, z, v, w>>) = 5
    OBVIOUS
  <1>b. \A b \in DOMAIN BasicKeys \cup DOMAIN ExtendedKeys \cup {"F0", "E0", "E1", "14", "77"} :
           b \in ScanBytes
    BY DEF BasicKeys, ExtendedKeys, ScanBytes
  <1> HIDE DEF c
  <1>1. ASSUME NEW b \in DOMAIN BasicKeys, c = <<b>> \/ c = <<"F0", b>> PROVE Goal
    <2>1. b \in ScanBytes /\ "F0" \in ScanBytes
      BY <1>b
    <2>2. CASE c = <<b>>
      BY <1>s, <2>1, <2>2
    <2>3. CASE c = <<"F0", b>>
      BY <1>s, <2>1, <2>3
    <2> QED  BY <1>1, <2>2, <2>3
  <1>2. ASSUME NEW b \in DOMAIN ExtendedKeys, c = <<"E0", b>> \/ c = <<"E0", "F0", b>> PROVE Goal
    <2>1. b \in ScanBytes /\ "F0" \in ScanBytes /\ "E0" \in ScanBytes
      BY <1>b
    <2>2. CASE c = <<"E0", b>>
      BY <1>s, <2>1, <2>2
    <2>3. CASE c = <<"E0", "F0", b>>
      BY <1>s, <2>1, <2>3
    <2> QED  BY <1>2, <2>2, <2>3
  <1>3. ASSUME c = <<"E1", "14", "77">> \/ c = <<"E1", "F0", "14", "F0", "77">> PROVE Goal
    <2>1. "F0" \in ScanBytes /\ "E1" \in ScanBytes /\ "14" \in ScanBytes /\ "77" \in ScanBytes
      BY <1>b
    <2>2. CASE c = <<"E1", "14", "77">>
      BY <1>s, <2>1, <2>2
    <2>3. CASE c = <<"E1", "F0", "14", "F0", "77">>
      BY <1>s, <2>1, <2>3
    <2> QED  BY <1>3, <2>2, <2>3
  <1> HIDE DEF Goal
  <1>4. \/ \E b \in DOMAIN BasicKeys : c = <<b>> \/ c = <<"F0", b>>
        \/ \E b \in DOMAIN ExtendedKeys : c = <<"E0", b>> \/ c = <<"E0", "F0", b>>
        \/ c = <<"E1", "14", "77">> \/ c = <<"E1", "F0", "14", "F0", "77">>
    BY CodeShapes, Zenon DEF c
  <1> QED  BY <1>1, <1>2, <1>3, <1>4 DEF Goal, c

\* A function applied to each element, and the results one after the other.
Maps(A, T) == [A -> T]
Each(f, s) == [i \in 1 .. Len(s) |-> f[s[i]]]
Spread(f, s) == FlattenSeq(Each(f, s))

\* A function applied to each element of a sequence.
LEMMA EachType ==
    ASSUME NEW A, NEW T, NEW f \in Maps(A, T), NEW s \in Seq(A)
    PROVE  /\ Each(f, s) \in Seq(T) /\ Len(Each(f, s)) = Len(s)
           /\ \A i \in 1 .. Len(s) : s[i] \in A /\ Each(f, s)[i] = f[s[i]]
  <1> DEFINE n == Len(s)
             E == [i \in 1 .. n |-> f[s[i]]]
  <1>1. n \in Nat /\ \A i \in 1 .. n : s[i] \in A
    OBVIOUS
  <1> HIDE DEF n
  <1>2. \A i \in 1 .. n : f[s[i]] \in T
    BY <1>1 DEF Maps
  <1>3. E \in [1 .. n -> T] /\ \A i \in 1 .. n : E[i] = f[s[i]]
    BY <1>2
  <1> HIDE DEF E
  <1>4. E \in Seq(T) /\ Len(E) = n
    BY <1>1, <1>3, SeqDef, LenProperties
  <1>5. Each(f, s) = E
    BY DEF Each, E, n
  <1> QED  BY <1>1, <1>3, <1>4, <1>5 DEF n

\* Each distributes over concatenation.
LEMMA EachConcat ==
    ASSUME NEW A, NEW T, NEW f \in Maps(A, T), NEW s \in Seq(A), NEW t \in Seq(A)
    PROVE  Each(f, s \o t) = Each(f, s) \o Each(f, t)
  <1> DEFINE m == Len(s)
             n == Len(t)
             u == s \o t
             E == Each(f, s)
             F == Each(f, t)
             G == Each(f, u)
             H == E \o F
  <1>0. f \in Maps(A, T) /\ s \in Seq(A) /\ t \in Seq(A)
    OBVIOUS
  <1>1. m \in Nat /\ n \in Nat
    OBVIOUS
  <1>2. /\ u \in Seq(A) /\ Len(u) = m + n
        /\ \A i \in 1 .. m + n : u[i] = IF i <= m THEN s[i] ELSE t[i - m]
    BY ConcatProperties
  <1>3. E \in Seq(T) /\ Len(E) = m /\ \A i \in 1 .. m : E[i] = f[s[i]]
    BY ONLY <1>0, EachType DEF E, m
  <1>4. F \in Seq(T) /\ Len(F) = n /\ \A i \in 1 .. n : F[i] = f[t[i]]
    BY ONLY <1>0, EachType DEF F, n
  <1> HIDE DEF u
  <1>5. G \in Seq(T) /\ Len(G) = m + n /\ \A i \in 1 .. m + n : G[i] = f[u[i]]
    <2>1. G \in Seq(T) /\ Len(G) = Len(u) /\ \A i \in 1 .. Len(u) : G[i] = f[u[i]]
      <3>1. f \in Maps(A, T) /\ u \in Seq(A)
        BY <1>0, <1>2
      <3> QED  BY ONLY <3>1, EachType DEF G
    <2> HIDE DEF G
    <2> QED  BY <1>2, <2>1
  <1> HIDE DEF E, F, G, m, n
  <1>6. /\ H \in Seq(T) /\ Len(H) = m + n
        /\ \A i \in 1 .. m + n : H[i] = IF i <= m THEN E[i] ELSE F[i - m]
    BY <1>3, <1>4, ConcatProperties
  <1> HIDE DEF H
  <1>7. \A i \in 1 .. m + n : G[i] = H[i]
    <2> TAKE i \in 1 .. m + n
    <2>0. G[i] = f[u[i]]
      BY <1>5
    <2>1. CASE i <= m
      <3>1. i \in 1 .. m
        BY <1>1, <2>1
      <3>2. u[i] = s[i] /\ H[i] = E[i]
        BY <1>2, <1>6, <2>1
      <3> QED  BY <1>3, <2>0, <3>1, <3>2
    <2>2. CASE ~(i <= m)
      <3>1. i - m \in 1 .. n
        BY <1>1, <2>2
      <3>2. u[i] = t[i - m] /\ H[i] = F[i - m]
        BY <1>2, <1>6, <2>2
      <3>3. F[i - m] = f[t[i - m]]
        BY <1>4, <3>1
      <3> QED  BY <2>0, <3>2, <3>3
    <2> QED  BY <2>1, <2>2
  <1>8. G = H
    BY <1>5, <1>6, <1>7, SeqEqual
  <1> QED  BY <1>8 DEF G, H, E, F, u

\* Each of a sequence of one element.
LEMMA EachSingle ==
    ASSUME NEW A, NEW T, NEW f \in Maps(A, T), NEW x \in A
    PROVE  Each(f, <<x>>) = <<f[x]>>
  <1> DEFINE s == <<x>>
             y == f[x]
             E == Each(f, s)
             F == <<y>>
  <1>1. s \in Seq(A) /\ Len(s) = 1 /\ s[1] = x /\ y \in T
    BY DEF Maps
  <1> HIDE DEF s, y
  <1>2. F \in Seq(T) /\ Len(F) = 1 /\ F[1] = y
    BY <1>1
  <1>3. E \in Seq(T) /\ Len(E) = 1 /\ \A i \in 1 .. 1 : E[i] = f[s[i]]
    BY <1>1, EachType
  <1> HIDE DEF E, F
  <1>4. E[1] = y
    BY <1>1, <1>3 DEF y
  <1>5. \A i \in 1 .. 1 : E[i] = F[i]
    BY <1>2, <1>4
  <1>6. E = F
    BY <1>2, <1>3, <1>5, SeqEqual
  <1> QED  BY <1>6 DEF E, F, s, y

\* Spread over the empty sequence, one element, and a concatenation.
LEMMA SpreadOps ==
    ASSUME NEW A, NEW B, NEW f \in Maps(A, Seq(B))
    PROVE  /\ \A s \in Seq(A) : Spread(f, s) \in Seq(B)
           /\ \A s, t \in Seq(A) : Spread(f, s \o t) = Spread(f, s) \o Spread(f, t)
           /\ \A x \in A : Spread(f, <<x>>) = f[x]
           /\ Spread(f, <<>>) = <<>>
  <1> DEFINE T == Seq(B)
  <1>0. f \in Maps(A, T)
    OBVIOUS
  <1>1. ASSUME NEW s \in Seq(A) PROVE Each(f, s) \in Seq(Seq(B)) /\ Spread(f, s) \in Seq(B)
    <2>1. Each(f, s) \in Seq(T)
      <3> HIDE DEF T
      <3> QED  BY <1>0, EachType
    <2> QED  BY <2>1, FlattenType DEF Spread
  <1>2. ASSUME NEW s \in Seq(A), NEW t \in Seq(A)
        PROVE  Spread(f, s \o t) = Spread(f, s) \o Spread(f, t)
    <2>0. s \in Seq(A) /\ t \in Seq(A)
      OBVIOUS
    <2>1. Each(f, s \o t) = Each(f, s) \o Each(f, t)
      <3> HIDE DEF T
      <3> QED  BY ONLY <1>0, <2>0, EachConcat
    <2>2. Each(f, s) \in Seq(Seq(B)) /\ Each(f, t) \in Seq(Seq(B))
      BY <1>1
    <2> DEFINE u == Each(f, s)
               v == Each(f, t)
    <2> HIDE DEF u, v
    <2>3. FlattenSeq(u \o v) = FlattenSeq(u) \o FlattenSeq(v)
      BY <2>2, FlattenConcat DEF u, v
    <2> QED  BY <2>1, <2>3 DEF Spread, u, v
  <1>3. ASSUME NEW x \in A PROVE Spread(f, <<x>>) = f[x]
    <2>1. Each(f, <<x>>) = <<f[x]>>
      <3> HIDE DEF T
      <3> QED  BY <1>0, EachSingle
    <2>2. f[x] \in Seq(B)
      BY DEF Maps
    <2> DEFINE y == f[x]
    <2> HIDE DEF y
    <2>3. FlattenSeq(<<y>>) = y
      BY <2>2, FlattenSingle DEF y
    <2> QED  BY <2>1, <2>3 DEF Spread, y
  <1>4. Spread(f, <<>>) = <<>>
    <2> DEFINE s == <<>>
    <2>1. s \in Seq(A) /\ Len(s) = 0
      OBVIOUS
    <2> HIDE DEF s
    <2>2. Len(Each(f, s)) = 0
      <3> HIDE DEF T
      <3>0. s \in Seq(A)
        BY <2>1
      <3>1. Len(Each(f, s)) = Len(s)
        BY ONLY <1>0, <3>0, EachType
      <3> QED  BY <2>1, <3>1
    <2>r. Each(f, s) \in Seq(Seq(B))
      BY ONLY <1>1, <2>1
    <2>3. Each(f, s) \in Seq(Seq(B)) /\ \A i \in 1 .. Len(Each(f, s)) : Each(f, s)[i] = <<>>
      BY <2>r, <2>2
    <2>4. FlattenSeq(Each(f, s)) = <<>>
      BY <2>3, FlattenNone
    <2> QED  BY <2>4 DEF Spread, s
  <1> QED  BY <1>1, <1>2, <1>3, <1>4

\* A sequence is its first element and the rest, and a longer one its
\* beginning and its last element.
LEMMA SplitEnds ==
    ASSUME NEW A, NEW s \in Seq(A)
    PROVE  /\ s # <<>> => Head(s) \in A /\ Tail(s) \in Seq(A) /\ s = <<Head(s)>> \o Tail(s)
           /\ \A x \in A : Append(s, x) = s \o <<x>>
  <1>1. \A x \in A : Append(s, x) = s \o <<x>>
    BY AppendIsConcat
  <1>2. ASSUME s # <<>> PROVE Head(s) \in A /\ Tail(s) \in Seq(A) /\ s = <<Head(s)>> \o Tail(s)
    <2>1. Head(s) \in A /\ Tail(s) \in Seq(A) /\ Head(s) = s[1] /\ Len(Tail(s)) = Len(s) - 1
          /\ \A i \in 1 .. Len(s) - 1 : Tail(s)[i] = s[i + 1]
      BY <1>2, HeadTailProperties
    <2>2. Len(s) \in Nat /\ Len(s) # 0
      BY <1>2
    <2> DEFINE h == <<Head(s)>>
               t == Tail(s)
               u == h \o t
               n == Len(s)
    <2>3. h \in Seq(A) /\ Len(h) = 1 /\ h[1] = s[1] /\ t \in Seq(A)
      BY <2>1
    <2> HIDE DEF h, t, n
    <2>4. /\ u \in Seq(A) /\ Len(u) = 1 + Len(t)
          /\ \A i \in 1 .. 1 + Len(t) : u[i] = IF i <= 1 THEN h[i] ELSE t[i - 1]
      <3>1. /\ h \o t \in Seq(A) /\ Len(h \o t) = Len(h) + Len(t)
            /\ \A i \in 1 .. Len(h) + Len(t) : (h \o t)[i] = IF i <= Len(h) THEN h[i] ELSE t[i - Len(h)]
        BY ONLY <2>3, ConcatProperties
      <3> QED  BY <2>3, <3>1 DEF u
    <2> HIDE DEF u
    <2>5. Len(u) = n
      BY <2>1, <2>2, <2>4 DEF t, n
    <2>6. \A i \in 1 .. n : u[i] = s[i]
      <3> TAKE i \in 1 .. n
      <3>1. CASE i = 1
        BY <2>2, <2>3, <2>4, <2>5, <3>1 DEF n
      <3>2. CASE i # 1
        <4>1. i - 1 \in 1 .. Len(s) - 1 /\ (i - 1) + 1 = i /\ i \in 1 .. 1 + Len(t) /\ ~(i <= 1)
          BY <2>2, <2>4, <2>5, <3>2 DEF n
        <4>2. u[i] = t[i - 1]
          BY <2>4, <4>1
        <4>3. t[i - 1] = s[(i - 1) + 1]
          BY <2>1, <4>1 DEF t
        <4> QED  BY <4>1, <4>2, <4>3
      <3> QED  BY <3>1, <3>2
    <2>7. u = s
      BY <2>4, <2>5, <2>6, SeqEqual DEF n
    <2> QED  BY <2>1, <2>7 DEF u, h, t
  <1> QED  BY <1>1, <1>2

\* The bytes of the keys in es, one after the other.
CodeOf == [e \in Event |-> Code(e)]
Flat(es) == Spread(CodeOf, es)

\* The bytes of a list of key events.
LEMMA FlatOps ==
    /\ \A es \in Seq(Event) : Flat(es) \in Seq(ScanBytes)
    /\ \A es \in Seq(Event), e \in Event : Flat(Append(es, e)) = Flat(es) \o Code(e)
    /\ \A es \in Seq(Event) : es # <<>> =>
         /\ Head(es) \in Event /\ Tail(es) \in Seq(Event)
         /\ Flat(es) = Code(Head(es)) \o Flat(Tail(es))
    /\ Flat(<<>>) = <<>>
  <1>1. CodeOf \in Maps(Event, Seq(ScanBytes)) /\ \A e \in Event : CodeOf[e] = Code(e)
    BY CodeType DEF CodeOf, Maps
  <1> DEFINE T == Seq(ScanBytes)
  <1>2. /\ \A s \in Seq(Event) : Spread(CodeOf, s) \in Seq(ScanBytes)
        /\ \A s, t \in Seq(Event) : Spread(CodeOf, s \o t) = Spread(CodeOf, s) \o Spread(CodeOf, t)
        /\ \A x \in Event : Spread(CodeOf, <<x>>) = CodeOf[x]
        /\ Spread(CodeOf, <<>>) = <<>>
    BY <1>1, SpreadOps
  <1>3. ASSUME NEW es \in Seq(Event), NEW e \in Event PROVE Flat(Append(es, e)) = Flat(es) \o Code(e)
    <2>1. Append(es, e) = es \o <<e>> /\ <<e>> \in Seq(Event)
      BY SplitEnds
    <2> DEFINE s == <<e>>
    <2> HIDE DEF s
    <2>2. Spread(CodeOf, es \o s) = Spread(CodeOf, es) \o Spread(CodeOf, s)
      BY <1>2, <2>1 DEF s
    <2>3. Spread(CodeOf, s) = Code(e)
      BY <1>1, <1>2 DEF s
    <2> QED  BY <2>1, <2>2, <2>3 DEF Flat, s
  <1>4. ASSUME NEW es \in Seq(Event), es # <<>>
        PROVE  /\ Head(es) \in Event /\ Tail(es) \in Seq(Event)
               /\ Flat(es) = Code(Head(es)) \o Flat(Tail(es))
    <2>1. Head(es) \in Event /\ Tail(es) \in Seq(Event) /\ es = <<Head(es)>> \o Tail(es)
      BY <1>4, SplitEnds
    <2> DEFINE s == <<Head(es)>>
               t == Tail(es)
    <2>s. s \in Seq(Event) /\ t \in Seq(Event)
      BY <2>1
    <2> HIDE DEF s, t
    <2>2. Spread(CodeOf, s \o t) = Spread(CodeOf, s) \o Spread(CodeOf, t)
      BY <1>2, <2>s
    <2>3. Spread(CodeOf, s) = Code(Head(es))
      BY <1>1, <1>2, <2>1 DEF s
    <2>4. es = s \o t
      BY <2>1 DEF s, t
    <2> QED  BY <2>1, <2>2, <2>3, <2>4 DEF Flat, t
  <1> QED  BY <1>2, <1>3, <1>4 DEF Flat

\* Two ways to split a sequence, the first no later than the second.
SplitAlike(s, t, u, v) ==
    /\ \A j \in 1 .. Len(s) : s[j] = u[j]
    /\ Len(s) = Len(u) => s = u /\ t = v

\* Two ways to cut the same bytes in two agree up to the shorter first part.
LEMMA SplitSame ==
    ASSUME NEW S, NEW s \in Seq(S), NEW t \in Seq(S), NEW u \in Seq(S), NEW v \in Seq(S),
           s \o t = u \o v, Len(s) <= Len(u)
    PROVE  SplitAlike(s, t, u, v)
  <1> DEFINE a == s \o t
             b == u \o v
  <1>1. /\ Len(a) = Len(s) + Len(t) /\ \A j \in 1 .. Len(s) : a[j] = s[j]
        /\ \A j \in 1 .. Len(t) : a[Len(s) + j] = t[j]
    <2>1. Len(s) \in Nat /\ Len(t) \in Nat
      OBVIOUS
    <2>2. /\ Len(a) = Len(s) + Len(t)
          /\ \A j \in 1 .. Len(s) + Len(t) : a[j] = IF j <= Len(s) THEN s[j] ELSE t[j - Len(s)]
      BY ConcatProperties
    <2> HIDE DEF a
    <2>3. \A j \in 1 .. Len(s) : j \in 1 .. Len(s) + Len(t) /\ j <= Len(s)
      BY <2>1
    <2>4. \A j \in 1 .. Len(t) : /\ Len(s) + j \in 1 .. Len(s) + Len(t) /\ ~(Len(s) + j <= Len(s))
                                /\ (Len(s) + j) - Len(s) = j
      BY <2>1
    <2> QED  BY <2>2, <2>3, <2>4
  <1>2. /\ Len(b) = Len(u) + Len(v) /\ \A j \in 1 .. Len(u) : b[j] = u[j]
        /\ \A j \in 1 .. Len(v) : b[Len(u) + j] = v[j]
    <2>1. Len(u) \in Nat /\ Len(v) \in Nat
      OBVIOUS
    <2>2. /\ Len(b) = Len(u) + Len(v)
          /\ \A j \in 1 .. Len(u) + Len(v) : b[j] = IF j <= Len(u) THEN u[j] ELSE v[j - Len(u)]
      BY ConcatProperties
    <2> HIDE DEF b
    <2>3. \A j \in 1 .. Len(u) : j \in 1 .. Len(u) + Len(v) /\ j <= Len(u)
      BY <2>1
    <2>4. \A j \in 1 .. Len(v) : /\ Len(u) + j \in 1 .. Len(u) + Len(v) /\ ~(Len(u) + j <= Len(u))
                                /\ (Len(u) + j) - Len(u) = j
      BY <2>1
    <2> QED  BY <2>2, <2>3, <2>4
  <1>3. a = b
    OBVIOUS
  <1>4. Len(s) \in Nat /\ Len(t) \in Nat /\ Len(u) \in Nat /\ Len(v) \in Nat
    OBVIOUS
  <1> HIDE DEF a, b
  <1>5. \A j \in 1 .. Len(s) : s[j] = u[j]
    BY <1>1, <1>2, <1>3, <1>4
  <1>6. ASSUME Len(s) = Len(u) PROVE s = u /\ t = v
    <2>1. Len(t) = Len(v)
      BY <1>1, <1>2, <1>3, <1>4, <1>6
    <2>2. \A j \in 1 .. Len(t) : t[j] = v[j]
      BY <1>1, <1>2, <1>3, <1>4, <1>6, <2>1
    <2>3. t = v
      BY <2>1, <2>2, SeqEqual
    <2>4. s = u
      BY <1>5, <1>6, SeqEqual
    <2> QED  BY <2>3, <2>4
  <1> QED  BY <1>5, <1>6 DEF SplitAlike

----------------------------------------------------------------------------
(* Bytes on the wire. *)

\* The bytes of the keyboard among those on the wire.
WireByte == ({"keyboard"} \X ScanBytes) \cup {<<"mouse", "move">>}
Piece == [x \in WireByte |-> IF x[1] = "keyboard" THEN <<x[2]>> ELSE <<>>]
Kb(w) == Spread(Piece, w)
Sent(p, bs) == [i \in DOMAIN bs |-> <<p, bs[i]>>]

\* A byte on the wire is a keyboard byte or none.
LEMMA PieceType ==
    /\ Piece \in Maps(WireByte, Seq(ScanBytes))
    /\ \A b \in ScanBytes : <<"keyboard", b>> \in WireByte /\ Piece[<<"keyboard", b>>] = <<b>>
    /\ \A x \in WireByte : x[1] # "keyboard" => Piece[x] = <<>>
    /\ \A x \in WireByte : x[1] = "keyboard" => x[2] \in ScanBytes /\ Piece[x] = <<x[2]>>
  <1>1. \A x \in WireByte : x[1] = "keyboard" => x[2] \in ScanBytes
    BY DEF WireByte
  <1>2. \A x \in WireByte : (IF x[1] = "keyboard" THEN <<x[2]>> ELSE <<>>) \in Seq(ScanBytes)
    BY <1>1
  <1>3. \A b \in ScanBytes : /\ <<"keyboard", b>> \in WireByte /\ <<"keyboard", b>>[1] = "keyboard"
                             /\ <<"keyboard", b>>[2] = b
    BY DEF WireByte
  <1>4. Piece \in Maps(WireByte, Seq(ScanBytes))
    BY <1>2 DEF Piece, Maps
  <1>5. \A x \in WireByte : Piece[x] = IF x[1] = "keyboard" THEN <<x[2]>> ELSE <<>>
    BY DEF Piece
  <1> QED  BY <1>1, <1>3, <1>4, <1>5

\* The keyboard bytes of a wire, piece by piece.
LEMMA KbSpread ==
    /\ \A s \in Seq(WireByte) : Kb(s) \in Seq(ScanBytes)
    /\ \A s, t \in Seq(WireByte) : Kb(s \o t) = Kb(s) \o Kb(t)
    /\ \A x \in WireByte : Kb(<<x>>) = Piece[x]
    /\ Kb(<<>>) = <<>>
  BY PieceType, SpreadOps DEF Kb

\* What the keyboard sends comes last.
LEMMA KbSent ==
    ASSUME NEW bs \in Seq(ScanBytes)
    PROVE  Sent("keyboard", bs) \in Seq(WireByte) /\ Kb(Sent("keyboard", bs)) = bs
  <1> DEFINE n == Len(bs)
             w == Sent("keyboard", bs)
             E == Each(Piece, w)
             f == [i \in 0 .. n |-> SubSeq(bs, 1, i)]
  <1>1. n \in Nat /\ DOMAIN bs = 1 .. n /\ \A i \in 1 .. n : bs[i] \in ScanBytes
    OBVIOUS
  <1>2. w = [i \in 1 .. n |-> <<"keyboard", bs[i]>>]
    BY <1>1 DEF Sent
  <1>3. \A i \in 1 .. n : <<"keyboard", bs[i]>> \in WireByte
    BY <1>1, PieceType
  <1> HIDE DEF w, n
  <1>4. w \in [1 .. n -> WireByte] /\ \A i \in 1 .. n : w[i] = <<"keyboard", bs[i]>>
    BY <1>2, <1>3
  <1>5. w \in Seq(WireByte) /\ Len(w) = n
    BY <1>1, <1>4, SeqDef, LenProperties
  <1> DEFINE T == Seq(ScanBytes)
  <1>6. E \in Seq(T) /\ Len(E) = n /\ \A i \in 1 .. n : E[i] = Piece[w[i]]
    <2>0. w \in Seq(WireByte)
      BY <1>5
    <2>p. Piece \in Maps(WireByte, T)
      BY PieceType
    <2> HIDE DEF T
    <2>1. E \in Seq(T) /\ Len(E) = Len(w) /\ \A i \in 1 .. Len(w) : E[i] = Piece[w[i]]
      BY ONLY <2>0, <2>p, EachType DEF E
    <2> QED  BY <1>5, <2>1
  <1>7. \A i \in 1 .. n : E[i] = <<bs[i]>>
    <2> TAKE i \in 1 .. n
    <2>1. E[i] = Piece[w[i]]
      BY <1>6
    <2>2. w[i] = <<"keyboard", bs[i]>> /\ bs[i] \in ScanBytes
      BY <1>1, <1>4
    <2> DEFINE b == bs[i]
    <2> HIDE DEF b, E
    <2>3. Piece[<<"keyboard", b>>] = <<b>>
      BY <2>2, PieceType DEF b
    <2> QED  BY <2>1, <2>2, <2>3 DEF b
  <1> HIDE DEF E
  <1>8. \A i \in 0 .. n : /\ f[i] = SubSeq(bs, 1, i) /\ f[i] \in Seq(ScanBytes) /\ Len(f[i]) = i
                          /\ \A j \in 1 .. i : f[i][j] = bs[j]
    <2> TAKE i \in 0 .. n
    <2>1. i \in 0 .. Len(bs) /\ i \in Nat /\ 1 \in 1 .. Len(bs) + 1 /\ i \in (1 - 1) .. Len(bs)
      BY <1>1 DEF n
    <2>2. /\ SubSeq(bs, 1, i) \in Seq(ScanBytes) /\ Len(SubSeq(bs, 1, i)) = i
          /\ \A j \in 1 .. i : SubSeq(bs, 1, i)[j] = bs[j]
      BY <2>1
    <2> QED  BY <2>2
  <1>9. f \in [0 .. n -> Seq(ScanBytes)]
    BY <1>8
  <1> HIDE DEF f
  <1>10. f[0] = <<>>
    <2>1. 0 \in 0 .. n
      BY <1>1
    <2> QED  BY <1>8, <2>1
  <1>11. \A i \in 1 .. n : f[i] = f[i - 1] \o E[i]
    <2> TAKE i \in 1 .. n
    <2> DEFINE k == i - 1
               x == f[k]
               y == <<bs[i]>>
               z == x \o y
    <2>1. i \in 0 .. n /\ k \in 0 .. n /\ i = k + 1 /\ k \in Nat
      BY <1>1
    <2>2. x \in Seq(ScanBytes) /\ Len(x) = k /\ \A j \in 1 .. k : x[j] = bs[j]
      BY <1>8, <2>1
    <2>3. y \in Seq(ScanBytes) /\ Len(y) = 1 /\ y[1] = bs[i]
      BY <1>1
    <2> HIDE DEF x, y, k
    <2>4. /\ z \in Seq(ScanBytes) /\ Len(z) = k + 1
          /\ \A j \in 1 .. k + 1 : z[j] = IF j <= k THEN x[j] ELSE y[j - k]
      <3>0. x \in Seq(ScanBytes) /\ y \in Seq(ScanBytes)
        BY <2>2, <2>3
      <3>1. /\ x \o y \in Seq(ScanBytes) /\ Len(x \o y) = Len(x) + Len(y)
            /\ \A j \in 1 .. Len(x) + Len(y) : (x \o y)[j] = IF j <= Len(x) THEN x[j] ELSE y[j - Len(x)]
        BY ONLY <3>0, ConcatProperties
      <3> QED  BY <2>2, <2>3, <3>1 DEF z
    <2>5. f[i] \in Seq(ScanBytes) /\ Len(f[i]) = k + 1 /\ \A j \in 1 .. k + 1 : f[i][j] = bs[j]
      BY <1>8, <2>1
    <2> HIDE DEF z
    <2>6. \A j \in 1 .. k + 1 : z[j] = bs[j]
      <3> TAKE j \in 1 .. k + 1
      <3>1. CASE j <= k
        BY <2>1, <2>2, <2>4, <3>1
      <3>2. CASE ~(j <= k)
        <4>1. j = i /\ j - k = 1
          BY <2>1, <3>2
        <4> QED  BY <2>3, <2>4, <3>2, <4>1
      <3> QED  BY <3>1, <3>2
    <2>7. f[i] = z
      <3> DEFINE g == f[i]
      <3>1. g \in Seq(ScanBytes) /\ z \in Seq(ScanBytes) /\ Len(g) = Len(z)
        BY <2>4, <2>5
      <3>2. \A j \in 1 .. Len(g) : g[j] = z[j]
        BY <2>4, <2>5, <2>6
      <3> HIDE DEF g
      <3>3. g = z
        BY ONLY <3>1, <3>2, SeqEqual
      <3> QED  BY <3>3 DEF g
    <2> QED  BY <1>7, <2>7 DEF z, x, y, k
  <1>12. Sums(f, E, ScanBytes)
    BY <1>6, <1>9, <1>10, <1>11 DEF Sums
  <1>13. FlattenSeq(E) = f[n]
    <2>1. E \in Seq(Seq(ScanBytes))
      BY <1>6
    <2> QED  BY <1>6, <1>12, <2>1, FlattenIs
  <1>14. f[n] = bs
    <2>1. n \in 0 .. n
      BY <1>1
    <2>2. f[n] \in Seq(ScanBytes) /\ Len(f[n]) = n /\ \A j \in 1 .. n : f[n][j] = bs[j]
      BY <1>8, <2>1
    <2> QED  BY <2>2, SeqEqual DEF n
  <1> QED  BY <1>5, <1>13, <1>14 DEF Kb, Spread, E, w

\* The keyboard bytes of the wire after it is sent to or read from.
LEMMA KbOps ==
    ASSUME NEW w \in Seq(WireByte)
    PROVE  /\ Kb(w) \in Seq(ScanBytes)
           /\ \A bs \in Seq(ScanBytes) :
                /\ w \o Sent("keyboard", bs) \in Seq(WireByte)
                /\ Kb(w \o Sent("keyboard", bs)) = Kb(w) \o bs
           /\ w \o Sent("mouse", <<"move">>) \in Seq(WireByte)
           /\ Kb(w \o Sent("mouse", <<"move">>)) = Kb(w)
           /\ w # <<>> =>
                /\ Head(w) \in WireByte /\ Tail(w) \in Seq(WireByte)
                /\ Head(w)[1] # "keyboard" => Kb(w) = Kb(Tail(w))
                /\ Head(w)[1] = "keyboard" =>
                     Head(w)[2] \in ScanBytes /\ Kb(w) = <<Head(w)[2]>> \o Kb(Tail(w))
           /\ (\A i \in DOMAIN w : w[i][1] # "keyboard") => Kb(w) = <<>>
  <1>1. Kb(w) \in Seq(ScanBytes)
    BY KbSpread
  <1>2. ASSUME NEW bs \in Seq(ScanBytes)
        PROVE  /\ w \o Sent("keyboard", bs) \in Seq(WireByte)
               /\ Kb(w \o Sent("keyboard", bs)) = Kb(w) \o bs
    <2> DEFINE v == Sent("keyboard", bs)
    <2>1. v \in Seq(WireByte) /\ Kb(v) = bs
      BY KbSent
    <2> HIDE DEF v
    <2>2. w \o v \in Seq(WireByte) /\ Kb(w \o v) = Kb(w) \o Kb(v)
      <3>1. w \o v \in Seq(WireByte)
        BY <2>1, ConcatProperties
      <3> QED  BY <2>1, <3>1, KbSpread
    <2> QED  BY <2>1, <2>2 DEF v
  <1>3. /\ w \o Sent("mouse", <<"move">>) \in Seq(WireByte)
        /\ Kb(w \o Sent("mouse", <<"move">>)) = Kb(w)
    <2> DEFINE x == <<"mouse", "move">>
               v == <<x>>
    <2>1. x \in WireByte /\ x[1] # "keyboard"
      BY DEF WireByte
    <2>2. Sent("mouse", <<"move">>) = v
      BY DEF Sent
    <2> HIDE DEF x
    <2>3. v \in Seq(WireByte) /\ Kb(v) = <<>>
      BY <2>1, KbSpread, PieceType
    <2> HIDE DEF v
    <2>4. w \o v \in Seq(WireByte) /\ Kb(w \o v) = Kb(w) \o Kb(v)
      <3>1. w \o v \in Seq(WireByte)
        BY <2>3, ConcatProperties
      <3> QED  BY <2>3, <3>1, KbSpread
    <2>5. Kb(w) \o <<>> = Kb(w)
      BY <1>1, ConcatEmptySeq
    <2> QED  BY <2>2, <2>3, <2>4, <2>5
  <1>4. ASSUME w # <<>>
        PROVE  /\ Head(w) \in WireByte /\ Tail(w) \in Seq(WireByte)
               /\ Head(w)[1] # "keyboard" => Kb(w) = Kb(Tail(w))
               /\ Head(w)[1] = "keyboard" =>
                    Head(w)[2] \in ScanBytes /\ Kb(w) = <<Head(w)[2]>> \o Kb(Tail(w))
    <2> DEFINE x == Head(w)
               v == Tail(w)
               u == <<x>>
    <2>1. x \in WireByte /\ v \in Seq(WireByte) /\ w = u \o v
      BY <1>4, SplitEnds
    <2> HIDE DEF x, v
    <2>2. u \in Seq(WireByte) /\ Kb(u) = Piece[x]
      BY <2>1, KbSpread
    <2> HIDE DEF u
    <2>3. Kb(w) = Kb(u) \o Kb(v) /\ Kb(v) \in Seq(ScanBytes)
      BY <2>1, <2>2, KbSpread
    <2>4. <<>> \o Kb(v) = Kb(v)
      BY <2>3, ConcatEmptySeq
    <2>5. x[1] # "keyboard" => Kb(w) = Kb(v)
      BY <2>1, <2>2, <2>3, <2>4, PieceType
    <2>6. x[1] = "keyboard" => x[2] \in ScanBytes /\ Kb(w) = <<x[2]>> \o Kb(v)
      BY <2>1, <2>2, <2>3, PieceType
    <2> QED  BY <2>1, <2>5, <2>6 DEF x, v
  <1>5. ASSUME \A i \in DOMAIN w : w[i][1] # "keyboard" PROVE Kb(w) = <<>>
    <2> DEFINE T == Seq(ScanBytes)
               E == Each(Piece, w)
    <2>0. w \in Seq(WireByte)
      OBVIOUS
    <2>p. Piece \in Maps(WireByte, T)
      BY PieceType
    <2>1. E \in Seq(T) /\ Len(E) = Len(w) /\ \A i \in 1 .. Len(w) : w[i] \in WireByte /\ E[i] = Piece[w[i]]
      <3> HIDE DEF T
      <3> QED  BY ONLY <2>0, <2>p, EachType DEF E
    <2>2. DOMAIN w = 1 .. Len(w)
      OBVIOUS
    <2> HIDE DEF E
    <2>3. \A i \in 1 .. Len(E) : E[i] = <<>>
      BY <1>5, <2>1, <2>2, PieceType
    <2>4. FlattenSeq(E) = <<>>
      BY <2>1, <2>3, FlattenNone
    <2> QED  BY <2>4 DEF Kb, Spread, E
  <1> QED  BY <1>1, <1>2, <1>3, <1>4, <1>5

----------------------------------------------------------------------------
(* What the driver knows and what the user did. *)

\* What the driver and the user think of the keyboard.
View == [held : SUBSET KeyNames, mods : SUBSET KeyNames, locks : SUBSET KeyNames, seen : Nat]
DriverView(kb) == [held |-> kb.held, mods |-> kb.mods, locks |-> kb.locks, seen |-> kb.seen]
UserView(d, l, t) == [held |-> d, mods |-> d \cap Modifiers, locks |-> l, seen |-> Len(t)]

\* What an event makes of it, and what a press has to find typed.
After(e, v) ==
  [held |-> With(v.held, e.key, e.dir = "press"),
   mods |-> IF e.key \in Modifiers THEN With(v.mods, e.key, e.dir = "press") ELSE v.mods,
   locks |-> IF e.dir = "press" /\ e.key \in LockKeys THEN Toggle(v.locks, e.key) ELSE v.locks,
   seen |-> IF e.dir = "press" THEN v.seen + 1 ELSE v.seen]
Right(e, v, t) == e.dir = "press" => /\ v.seen < Len(t)
                                     /\ t[v.seen + 1] = Text(e.key, v.locks, v.mods)

\* The events es lead from view x to view y, through the views vs.
Trace(es, vs, x, y, t) ==
  /\ es \in Seq(Event) /\ vs \in Seq(View) /\ Len(vs) = Len(es) + 1
  /\ vs[1] = x /\ vs[Len(es) + 1] = y
  /\ \A i \in 1 .. Len(es) : vs[i + 1] = After(es[i], vs[i]) /\ Right(es[i], vs[i], t)

\* The bytes half read and on the wire are the codes of such events.
Rest(es, code, bs) ==
  /\ code \o bs = Flat(es)
  /\ es = <<>> => code = <<>>
  /\ es # <<>> => Len(code) < Len(Code(Head(es)))
Pending(code, bs, x, y, t) == \E es, vs : Trace(es, vs, x, y, t) /\ Rest(es, code, bs)

\* A key event leads from view to view.
LEMMA AfterType ==
    ASSUME NEW e \in Event, NEW v \in View
    PROVE  After(e, v) \in View
  <1>1. e.key \in KeyNames /\ v.held \subseteq KeyNames /\ v.mods \subseteq KeyNames
        /\ v.locks \subseteq KeyNames /\ v.seen \in Nat
    BY DEF Event, View
  <1> DEFINE h == With(v.held, e.key, e.dir = "press")
             m == IF e.key \in Modifiers THEN With(v.mods, e.key, e.dir = "press") ELSE v.mods
             l == IF e.dir = "press" /\ e.key \in LockKeys THEN Toggle(v.locks, e.key) ELSE v.locks
             s == IF e.dir = "press" THEN v.seen + 1 ELSE v.seen
  <1>2. h \in SUBSET KeyNames
    BY <1>1 DEF With
  <1>3. m \in SUBSET KeyNames
    BY <1>1 DEF With
  <1>4. l \in SUBSET KeyNames
    BY <1>1 DEF Toggle
  <1>5. s \in Nat
    BY <1>1
  <1>6. After(e, v) = [held |-> h, mods |-> m, locks |-> l, seen |-> s]
    BY DEF After
  <1> HIDE DEF h, m, l, s
  <1> QED  BY <1>2, <1>3, <1>4, <1>5, <1>6 DEF View

\* No event, no change.
LEMMA TraceEmpty ==
    ASSUME NEW x \in View, NEW t
    PROVE  Trace(<<>>, <<x>>, x, x, t)
  BY DEF Trace

\* A trace without events ends where it starts.
LEMMA TraceDone ==
    ASSUME NEW vs, NEW x, NEW y, NEW t, Trace(<<>>, vs, x, y, t)
    PROVE  x = y
  BY DEF Trace

\* A trace goes on with one more event.
LEMMA TraceAppend ==
    ASSUME NEW es, NEW vs, NEW x, NEW y, NEW t, Trace(es, vs, x, y, t), NEW e \in Event, Right(e, y, t)
    PROVE  \E us : Trace(Append(es, e), us, x, After(e, y), t)
  <1> DEFINE n == Len(es)
             z == After(e, y)
             fs == Append(es, e)
             us == Append(vs, z)
  <1>1. /\ es \in Seq(Event) /\ vs \in Seq(View) /\ n \in Nat /\ Len(vs) = n + 1 /\ vs[1] = x /\ vs[n + 1] = y
        /\ \A i \in 1 .. n : vs[i + 1] = After(es[i], vs[i]) /\ Right(es[i], vs[i], t)
    BY DEF Trace
  <1> HIDE DEF z
  <1>2. y \in View
    BY <1>1
  <1>3. z \in View
    BY <1>2, AfterType DEF z
  <1>4. fs \in Seq(Event) /\ Len(fs) = n + 1 /\ fs[n + 1] = e /\ \A i \in 1 .. n : fs[i] = es[i]
    BY <1>1
  <1>5. /\ us \in Seq(View) /\ Len(us) = (n + 1) + 1 /\ us[(n + 1) + 1] = z
        /\ \A i \in 1 .. n + 1 : us[i] = vs[i]
    BY <1>1, <1>3
  <1> HIDE DEF fs, us, n
  <1>6. us[1] = x
    BY <1>1, <1>5
  <1>7. ASSUME NEW i \in 1 .. n + 1 PROVE us[i + 1] = After(fs[i], us[i]) /\ Right(fs[i], us[i], t)
    <2>1. CASE i = n + 1
      <3>1. fs[i] = e /\ us[i] = y /\ us[i + 1] = z
        BY <1>1, <1>4, <1>5, <2>1
      <3> QED  BY <3>1 DEF z
    <2>2. CASE i \in 1 .. n
      <3>1. fs[i] = es[i] /\ us[i] = vs[i] /\ i + 1 \in 1 .. n + 1
        BY <1>1, <1>4, <1>5, <2>2
      <3>2. us[i + 1] = vs[i + 1]
        BY <1>5, <3>1
      <3> QED  BY <1>1, <2>2, <3>1, <3>2
    <2>3. i = n + 1 \/ i \in 1 .. n
      BY <1>1
    <2> QED  BY <2>1, <2>2, <2>3
  <1>8. Trace(fs, us, x, z, t)
    BY <1>4, <1>5, <1>6, <1>7 DEF Trace
  <1> QED  BY <1>8 DEF fs, z

\* A trace stays right when the user types more.
LEMMA TraceGrows ==
    ASSUME NEW es, NEW vs, NEW x, NEW y, NEW T, NEW t \in Seq(T), Trace(es, vs, x, y, t), NEW u \in T
    PROVE  Trace(es, vs, x, y, Append(t, u))
  <1> DEFINE s == Append(t, u)
  <1>1. Len(t) \in Nat /\ Len(s) = Len(t) + 1 /\ \A i \in 1 .. Len(t) : s[i] = t[i]
    OBVIOUS
  <1> HIDE DEF s
  <1>2. ASSUME NEW i \in 1 .. Len(es) PROVE Right(es[i], vs[i], s)
    <2> DEFINE v == vs[i]
               e == es[i]
    <2>1. v \in View /\ Right(e, v, t)
      BY DEF Trace
    <2> HIDE DEF v, e
    <2>2. v.seen \in Nat
      BY <2>1 DEF View
    <2>3. v.seen < Len(t) => v.seen + 1 \in 1 .. Len(t) /\ v.seen < Len(s)
      BY <1>1, <2>2
    <2>4. Right(e, v, s)
      BY <1>1, <2>1, <2>3 DEF Right
    <2> QED  BY <2>4 DEF v, e
  <1>3. Trace(es, vs, x, y, s)
    BY <1>2 DEF Trace
  <1> QED  BY <1>3 DEF s

\* A trace without its first event.
LEMMA TraceTail ==
    ASSUME NEW es, NEW vs, NEW x, NEW y, NEW t, Trace(es, vs, x, y, t), es # <<>>
    PROVE  /\ Head(es) \in Event /\ Right(Head(es), x, t) /\ x \in View
           /\ Trace(Tail(es), Tail(vs), After(Head(es), x), y, t)
  <1> DEFINE n == Len(es)
             k == n - 1
             fs == Tail(es)
             us == Tail(vs)
             z == After(Head(es), x)
  <1>1. /\ es \in Seq(Event) /\ vs \in Seq(View) /\ n \in Nat /\ Len(vs) = n + 1 /\ vs[1] = x /\ vs[n + 1] = y
        /\ \A i \in 1 .. n : vs[i + 1] = After(es[i], vs[i]) /\ Right(es[i], vs[i], t)
    BY DEF Trace
  <1>2. n # 0 /\ k \in Nat /\ n = k + 1 /\ Head(es) = es[1] /\ es[1] \in Event
        /\ fs \in Seq(Event) /\ Len(fs) = k /\ \A i \in 1 .. k : fs[i] = es[i + 1]
    BY <1>1
  <1>3. us \in Seq(View) /\ Len(us) = n /\ \A i \in 1 .. n : us[i] = vs[i + 1]
    BY <1>1, <1>2
  <1> HIDE DEF n, k, fs, us, z
  <1>4. x \in View /\ Right(es[1], x, t) /\ vs[1 + 1] = After(es[1], x)
    BY <1>1, <1>2
  <1>5. us[1] = z
    BY <1>2, <1>3, <1>4 DEF z
  <1>6. us[k + 1] = y
    BY <1>1, <1>2, <1>3
  <1>7. ASSUME NEW i \in 1 .. k PROVE us[i + 1] = After(fs[i], us[i]) /\ Right(fs[i], us[i], t)
    <2>1. i \in 1 .. n /\ i + 1 \in 1 .. n
      BY <1>2
    <2>2. us[i + 1] = vs[(i + 1) + 1] /\ us[i] = vs[i + 1] /\ fs[i] = es[i + 1]
      BY <1>2, <1>3, <2>1
    <2> QED  BY <1>1, <2>1, <2>2
  <1>8. Trace(fs, us, z, y, t)
    BY <1>2, <1>3, <1>5, <1>6, <1>7 DEF Trace
  <1> QED  BY <1>2, <1>4, <1>8 DEF fs, us, z

\* handle_key_state_changed, field by field.
KbdFields == {"locks", "mods", "held", "buf", "listeners", "code", "seen"}

\* handle_key_state_changed, field by field.
LEMMA KeyStateFields ==
    ASSUME NEW kb, DOMAIN kb = KbdFields, NEW k, NEW p \in BOOLEAN
    PROVE  LET r == KeyStateChanged(kb, k, p)
           IN  /\ DOMAIN r = KbdFields /\ r.code = kb.code
               /\ r.held = With(kb.held, k, p)
               /\ r.mods = IF k \in Modifiers THEN With(kb.mods, k, p) ELSE kb.mods
               /\ r.locks = IF p /\ k \in LockKeys THEN Toggle(kb.locks, k) ELSE kb.locks
               /\ r.seen = IF p THEN kb.seen + 1 ELSE kb.seen
               /\ r.listeners = IF p /\ kb.listeners > 0 THEN 0 ELSE kb.listeners
               /\ r.buf = IF p /\ ~(kb.listeners > 0) THEN Presses!PushBack(kb.buf, KeyPress(kb, k)) ELSE kb.buf
  <1> DEFINE d0 == Deliver(kb, k)
             d1 == [d0 EXCEPT !.seen = @ + 1]
             d == IF p THEN d1 ELSE kb
             r == [d EXCEPT !.held = With(@, k, p),
                            !.locks = IF p /\ k \in LockKeys THEN Toggle(@, k) ELSE @,
                            !.mods = IF k \in Modifiers THEN With(@, k, p) ELSE @]
             q == Presses!PushBack(kb.buf, KeyPress(kb, k))
  <1>f. /\ "locks" \in KbdFields /\ "mods" \in KbdFields /\ "held" \in KbdFields /\ "buf" \in KbdFields
        /\ "listeners" \in KbdFields /\ "code" \in KbdFields /\ "seen" \in KbdFields
    BY DEF KbdFields
  <1>0. KeyStateChanged(kb, k, p) = r
    BY DEF KeyStateChanged
  <1>1. /\ DOMAIN d0 = KbdFields /\ d0.code = kb.code /\ d0.held = kb.held /\ d0.mods = kb.mods
        /\ d0.locks = kb.locks /\ d0.seen = kb.seen
        /\ d0.listeners = (IF kb.listeners > 0 THEN 0 ELSE kb.listeners)
        /\ d0.buf = IF ~(kb.listeners > 0) THEN q ELSE kb.buf
    <2> HIDE DEF q
    <2>1. CASE kb.listeners > 0
      <3>1. d0 = [kb EXCEPT !.listeners = 0]
        BY <2>1 DEF Deliver
      <3> HIDE DEF d0
      <3> QED  BY <1>f, <2>1, <3>1
    <2>2. CASE ~(kb.listeners > 0)
      <3>1. d0 = [kb EXCEPT !.buf = q]
        BY <2>2 DEF Deliver, q
      <3> HIDE DEF d0
      <3> QED  BY <1>f, <2>2, <3>1
    <2> QED  BY <2>1, <2>2
  <1> HIDE DEF d0, q
  <1>2. /\ DOMAIN d1 = KbdFields /\ d1.code = kb.code /\ d1.held = kb.held /\ d1.mods = kb.mods
        /\ d1.locks = kb.locks /\ d1.seen = kb.seen + 1
        /\ d1.listeners = (IF kb.listeners > 0 THEN 0 ELSE kb.listeners)
        /\ d1.buf = IF ~(kb.listeners > 0) THEN q ELSE kb.buf
    BY <1>f, <1>1
  <1> HIDE DEF d1
  <1>3. /\ DOMAIN d = KbdFields /\ d.code = kb.code /\ d.held = kb.held /\ d.mods = kb.mods
        /\ d.locks = kb.locks /\ d.seen = (IF p THEN kb.seen + 1 ELSE kb.seen)
        /\ d.listeners = (IF p /\ kb.listeners > 0 THEN 0 ELSE kb.listeners)
        /\ d.buf = IF p /\ ~(kb.listeners > 0) THEN q ELSE kb.buf
    <2>1. CASE p
      BY <1>2, <2>1
    <2>2. CASE ~p
      BY <2>2
    <2> QED  BY <2>1, <2>2
  <1> HIDE DEF d
  <1>4. /\ DOMAIN r = KbdFields /\ r.code = d.code /\ r.seen = d.seen /\ r.listeners = d.listeners
        /\ r.buf = d.buf
    BY <1>f, <1>3
  <1>5. r.held = With(d.held, k, p)
    BY <1>f, <1>3
  <1>6. r.mods = IF k \in Modifiers THEN With(d.mods, k, p) ELSE d.mods
    BY <1>f, <1>3
  <1>7. r.locks = IF p /\ k \in LockKeys THEN Toggle(d.locks, k) ELSE d.locks
    BY <1>f, <1>3
  <1> HIDE DEF r
  <1>8. /\ DOMAIN r = KbdFields /\ r.code = kb.code
        /\ r.held = With(kb.held, k, p)
        /\ r.mods = (IF k \in Modifiers THEN With(kb.mods, k, p) ELSE kb.mods)
        /\ r.locks = (IF p /\ k \in LockKeys THEN Toggle(kb.locks, k) ELSE kb.locks)
        /\ r.seen = (IF p THEN kb.seen + 1 ELSE kb.seen)
        /\ r.listeners = (IF p /\ kb.listeners > 0 THEN 0 ELSE kb.listeners)
        /\ r.buf = IF p /\ ~(kb.listeners > 0) THEN q ELSE kb.buf
    BY <1>3, <1>4, <1>5, <1>6, <1>7
  <1> QED  BY <1>0, <1>8 DEF q

\* What handle_interrupt does to the queue of key presses, and whether it
\* was right to.
Effect(kb, b, t) ==
  \/ /\ ~IsPress(kb, b)
     /\ AfterByte(kb, b).seen = kb.seen
     /\ AfterByte(kb, b).listeners = kb.listeners /\ AfterByte(kb, b).buf = kb.buf
  \/ /\ IsPress(kb, b)
     /\ kb.seen < Len(t) /\ KeyPress(kb, KeyOf(kb, b)) = [n |-> kb.seen + 1, str |-> t[kb.seen + 1]]
     /\ AfterByte(kb, b).seen = kb.seen + 1
     /\ AfterByte(kb, b).listeners = (IF kb.listeners > 0 THEN 0 ELSE kb.listeners)
     /\ AfterByte(kb, b).buf = IF ~(kb.listeners > 0)
                               THEN Presses!PushBack(kb.buf, KeyPress(kb, KeyOf(kb, b))) ELSE kb.buf

\* handle_interrupt with the first byte of the wire: the bytes left are again the rest of a
\* key event and whole events after it, and the driver has seen what the user did so far.
LEMMA ByteStep ==
    ASSUME NEW kb, DOMAIN kb = KbdFields, kb.code \in Seq(ScanBytes),
           NEW w \in Seq(WireByte), w # <<>>, Head(w)[1] = "keyboard",
           NEW y, NEW t, Pending(kb.code, Kb(w), DriverView(kb), y, t)
    PROVE  /\ DOMAIN AfterByte(kb, Head(w)[2]) = KbdFields
           /\ AfterByte(kb, Head(w)[2]).code \in Seq(ScanBytes)
           /\ Pending(AfterByte(kb, Head(w)[2]).code, Kb(Tail(w)), DriverView(AfterByte(kb, Head(w)[2])), y, t)
           /\ Effect(kb, Head(w)[2], t)
  <1> DEFINE b == Head(w)[2]
             K == Kb(Tail(w))
             code == kb.code
             buf == Append(code, b)
             x == DriverView(kb)
             r == AfterByte(kb, b)
             kb0 == [kb EXCEPT !.code = <<>>]
  <1>1. b \in ScanBytes /\ Kb(w) = <<b>> \o K /\ K \in Seq(ScanBytes)
    <2>1. Tail(w) \in Seq(WireByte) /\ b \in ScanBytes /\ Kb(w) = <<b>> \o K
      BY KbOps
    <2> QED  BY <2>1, KbOps
  <1>2. PICK es, vs : Trace(es, vs, x, y, t) /\ Rest(es, code, Kb(w))
    BY DEF Pending
  <1>c. code \in Seq(ScanBytes) /\ Len(code) \in Nat
    OBVIOUS
  <1>k. /\ "locks" \in KbdFields /\ "mods" \in KbdFields /\ "held" \in KbdFields /\ "buf" \in KbdFields
        /\ "listeners" \in KbdFields /\ "code" \in KbdFields /\ "seen" \in KbdFields
    BY DEF KbdFields
  <1> HIDE DEF b, K, code
  <1>3. buf \in Seq(ScanBytes) /\ Len(buf) = Len(code) + 1 /\ buf \o K = Flat(es)
    <2>1. buf = code \o <<b>> /\ <<b>> \in Seq(ScanBytes)
      BY <1>1, <1>c, SplitEnds
    <2> DEFINE u == <<b>>
    <2>2. code \o (u \o K) = (code \o u) \o K
      <3>1. u \in Seq(ScanBytes) /\ code \in Seq(ScanBytes) /\ K \in Seq(ScanBytes)
        BY <1>1, <1>c, <2>1
      <3> HIDE DEF u
      <3> QED  BY ONLY <3>1, ConcatAssociative
    <2>3. code \o Kb(w) = Flat(es)
      BY <1>2 DEF Rest
    <2>4. buf \in Seq(ScanBytes) /\ Len(buf) = Len(code) + 1
      BY <1>1, <1>c
    <2> QED  BY <1>1, <2>1, <2>2, <2>3, <2>4
  <1> HIDE DEF buf
  <1>4. es \in Seq(Event) /\ es # <<>>
    <2>1. es \in Seq(Event)
      BY <1>2 DEF Trace
    <2>0. buf \in Seq(ScanBytes) /\ K \in Seq(ScanBytes)
      BY <1>1, <1>3
    <2>2. Len(buf \o K) = Len(buf) + Len(K) /\ Len(buf) \in Nat /\ Len(K) \in Nat
      BY ONLY <2>0, ConcatProperties, LenProperties
    <2>3. Len(<<>>) = 0
      OBVIOUS
    <2>4. Flat(es) # <<>>
      BY <1>c, <1>3, <2>2, <2>3
    <2> QED  BY <2>1, <2>4, FlatOps
  <1> DEFINE e == Head(es)
             c == Code(e)
             F == Flat(Tail(es))
  <1>5. e \in Event /\ Tail(es) \in Seq(Event) /\ Flat(es) = c \o F /\ F \in Seq(ScanBytes)
    BY <1>4, FlatOps
  <1>6. c \in Seq(ScanBytes) /\ Len(c) \in Nat /\ Len(code) < Len(c) /\ Len(buf) <= Len(c)
    <2>1. Len(code) < Len(c)
      BY <1>2, <1>4 DEF Rest
    <2>2. c \in Seq(ScanBytes) /\ Len(c) \in Nat
      BY <1>5, CodeType
    <2> HIDE DEF c
    <2> QED  BY <1>c, <1>3, <2>1, <2>2
  <1>7. Right(e, x, t) /\ x \in View /\ Trace(Tail(es), Tail(vs), After(e, x), y, t)
    BY <1>2, <1>4, TraceTail
  <1> HIDE DEF e, F
  <1>8. /\ \A j \in 1 .. Len(buf) : buf[j] = c[j]
        /\ Len(buf) = Len(c) => buf = c /\ K = F
    <2>1. buf \o K = c \o F
      BY <1>3, <1>5
    <2> HIDE DEF c
    <2>2. buf \in Seq(ScanBytes) /\ K \in Seq(ScanBytes) /\ c \in Seq(ScanBytes) /\ F \in Seq(ScanBytes)
          /\ Len(buf) <= Len(c)
      BY <1>1, <1>3, <1>5, <1>6
    <2>3. SplitAlike(buf, K, c, F)
      BY ONLY <2>1, <2>2, SplitSame
    <2> QED  BY <2>3 DEF SplitAlike
  <1>9. /\ Len(buf) < Len(c) => CodeLength(buf) > Len(buf)
        /\ Len(buf) = Len(c) => /\ CodeLength(buf) = Len(buf) /\ (Released(buf) <=> e.dir = "release")
                                /\ KeysOf(ScancodeKey(buf)) = {e.key}
    <2>1. Len(buf) # 0
      BY <1>c, <1>3
    <2> QED  BY <1>3, <1>5, <1>6, <1>8, <2>1, Parse
  <1> HIDE DEF c
  <1>10. Complete(kb, b) <=> Len(code) + 1 >= CodeLength(buf)
    BY DEF Complete, code, buf
  <1>11. CASE Len(buf) < Len(c)
    <2>1. ~Complete(kb, b)
      <3>1. CodeLength(buf) \in Nat
        BY DEF CodeLength
      <3> QED  BY <1>c, <1>3, <1>9, <1>10, <1>11, <3>1
    <2>2. r = [kb EXCEPT !.code = buf]
      BY <2>1 DEF AfterByte, buf, code
    <2> HIDE DEF r
    <2>3. DOMAIN r = KbdFields /\ r.code = buf /\ DriverView(r) = x /\ r.seen = kb.seen
          /\ r.listeners = kb.listeners /\ r.buf = kb.buf
      BY <1>k, <2>2 DEF DriverView
    <2>4. Rest(es, buf, Kb(Tail(w)))
      BY <1>3, <1>4, <1>11 DEF Rest, K, c, e
    <2>5. Pending(r.code, Kb(Tail(w)), DriverView(r), y, t)
      BY <1>2, <2>3, <2>4 DEF Pending
    <2>6. Effect(kb, b, t)
      BY <2>1, <2>3 DEF Effect, IsPress, r
    <2> QED  BY <1>3, <2>3, <2>5, <2>6 DEF r, b
  <1>12. CASE Len(buf) = Len(c)
    <2> DEFINE k == e.key
               p == ~Released(buf)
    <2>1. Complete(kb, b)
      BY <1>c, <1>3, <1>9, <1>10, <1>12
    <2>2. KeysOf(ScancodeKey(buf)) = {k} /\ (Released(buf) <=> e.dir = "release")
      BY <1>9, <1>12
    <2>d. e.dir \in {"press", "release"}
      BY <1>5 DEF Event
    <2>3. Mapped(kb, b) /\ KeyOf(kb, b) = k
      BY <2>2 DEF Mapped, KeyOf, buf, code
    <2>4. r = KeyStateChanged(kb0, k, p)
      BY <2>1, <2>3 DEF AfterByte, buf, code
    <2>5. IsPress(kb, b) <=> e.dir = "press"
      BY <2>1, <2>2, <2>3, <2>d DEF IsPress, buf, code
    <2>6. p \in BOOLEAN /\ (p <=> e.dir = "press")
      BY <2>2, <2>d
    <2>7. /\ DOMAIN kb0 = KbdFields /\ kb0.code = <<>> /\ kb0.held = kb.held /\ kb0.mods = kb.mods
          /\ kb0.locks = kb.locks /\ kb0.seen = kb.seen /\ kb0.listeners = kb.listeners /\ kb0.buf = kb.buf
      BY <1>k
    <2>8. KeyPress(kb0, k) = KeyPress(kb, k)
      BY <2>7 DEF KeyPress
    <2> HIDE DEF r, kb0, k, p
    <2>9. /\ DOMAIN r = KbdFields /\ r.code = kb0.code
          /\ r.held = With(kb0.held, k, p)
          /\ r.mods = (IF k \in Modifiers THEN With(kb0.mods, k, p) ELSE kb0.mods)
          /\ r.locks = (IF p /\ k \in LockKeys THEN Toggle(kb0.locks, k) ELSE kb0.locks)
          /\ r.seen = (IF p THEN kb0.seen + 1 ELSE kb0.seen)
          /\ r.listeners = (IF p /\ kb0.listeners > 0 THEN 0 ELSE kb0.listeners)
          /\ r.buf = IF p /\ ~(kb0.listeners > 0) THEN Presses!PushBack(kb0.buf, KeyPress(kb0, k)) ELSE kb0.buf
      BY <2>4, <2>6, <2>7, KeyStateFields
    <2>10. r.code = <<>> /\ DOMAIN r = KbdFields
      BY <2>7, <2>9
    <2>11. DriverView(r) = After(e, x)
      <3>0. x.held = kb.held /\ x.mods = kb.mods /\ x.locks = kb.locks /\ x.seen = kb.seen
        BY DEF DriverView
      <3> HIDE DEF x
      <3>p. p = (e.dir = "press")
        BY <2>6
      <3>1. r.held = With(x.held, e.key, e.dir = "press")
        BY <2>7, <2>9, <3>0, <3>p DEF k
      <3>2. r.mods = IF e.key \in Modifiers THEN With(x.mods, e.key, e.dir = "press") ELSE x.mods
        BY <2>7, <2>9, <3>0, <3>p DEF k
      <3>3. r.locks = IF e.dir = "press" /\ e.key \in LockKeys THEN Toggle(x.locks, e.key) ELSE x.locks
        BY <2>7, <2>9, <3>0, <3>p DEF k
      <3>4. r.seen = IF e.dir = "press" THEN x.seen + 1 ELSE x.seen
        BY <2>7, <2>9, <3>0, <3>p
      <3> QED  BY <3>1, <3>2, <3>3, <3>4 DEF DriverView, After
    <2>12. Rest(Tail(es), <<>>, Kb(Tail(w)))
      <3>1. <<>> \o K = K
        BY <1>1, ConcatEmptySeq
      <3>2. Tail(es) # <<>> => 0 < Len(Code(Head(Tail(es))))
        <4> SUFFICES ASSUME Tail(es) # <<>> PROVE 0 < Len(Code(Head(Tail(es))))
          OBVIOUS
        <4>1. Head(Tail(es)) \in Event
          BY <1>5, FlatOps
        <4> QED  BY <4>1, CodeType
      <3>3. K = F
        BY <1>8, <1>12
      <3>4. Len(<<>>) = 0
        OBVIOUS
      <3> QED  BY <3>1, <3>2, <3>3, <3>4 DEF Rest, K, F
    <2>13. Pending(r.code, Kb(Tail(w)), DriverView(r), y, t)
      BY <1>7, <2>10, <2>11, <2>12 DEF Pending
    <2>14. Effect(kb, b, t)
      <3>1. CASE e.dir = "press"
        <4>1. kb.seen < Len(t) /\ t[kb.seen + 1] = Text(k, kb.locks, kb.mods)
          BY <1>7, <3>1 DEF Right, DriverView, k
        <4>2. KeyPress(kb, k) = [n |-> kb.seen + 1, str |-> t[kb.seen + 1]]
          BY <4>1 DEF KeyPress
        <4>3. r.seen = kb.seen + 1 /\ r.listeners = IF kb.listeners > 0 THEN 0 ELSE kb.listeners
          BY <2>6, <2>7, <2>9, <3>1
        <4>4. r.buf = IF ~(kb.listeners > 0) THEN Presses!PushBack(kb.buf, KeyPress(kb, k)) ELSE kb.buf
          BY <2>6, <2>7, <2>8, <2>9, <3>1
        <4> QED  BY <2>3, <2>5, <3>1, <4>1, <4>2, <4>3, <4>4 DEF Effect, r
      <3>2. CASE e.dir # "press"
        BY <2>5, <2>6, <2>7, <2>9, <3>2 DEF Effect, r
      <3> QED  BY <3>1, <3>2
    <2>15. r.code \in Seq(ScanBytes)
      BY <2>10
    <2> QED  BY <2>10, <2>13, <2>14, <2>15 DEF r, b
  <1> QED  BY <1>c, <1>3, <1>6, <1>11, <1>12

----------------------------------------------------------------------------
(* The driver agrees with the user. *)

DriverInv ==
  /\ DOMAIN kbd = KbdFields /\ kbd.code \in Seq(ScanBytes)
  /\ wire \in Seq(WireByte) /\ typed \in Seq(Seq(Chars)) /\ "Pause" \notin down
  /\ DriverView(kbd) \in View /\ UserView(down, lights, typed) \in View
  /\ Pending(kbd.code, Kb(wire), DriverView(kbd), UserView(down, lights, typed), typed)

\* A key types characters.
LEMMA TextType == ASSUME NEW k, NEW l, NEW m PROVE Text(k, l, m) \in Seq(Chars)
  <1>c. /\ "a" \in Chars /\ "A" \in Chars /\ "8" \in Chars /\ "ESC" \in Chars /\ "[" \in Chars
        /\ "/" \in Chars /\ "?" \in Chars
    BY DEF Chars
  <1>s. /\ <<"a">> \in Seq(Chars) /\ <<"A">> \in Seq(Chars) /\ <<"8">> \in Seq(Chars) /\ <<>> \in Seq(Chars)
        /\ <<"ESC", "[", "A">> \in Seq(Chars) /\ <<"/">> \in Seq(Chars) /\ <<"?">> \in Seq(Chars)
    BY <1>c
  <1> DEFINE L == Layout(k)
  <1>1. L[2] \in Seq(Chars) /\ L[3] \in Seq(Chars)
    <2>1. CASE k = "A"
      BY <1>s, <2>1 DEF Layout
    <2>2. CASE k = "Numpad8"
      BY <1>s, <2>2 DEF Layout
    <2>3. CASE k = "UpArrow"
      BY <1>s, <2>3 DEF Layout
    <2>4. CASE k \notin {"A", "Numpad8", "Slash", "UpArrow"}
      BY <1>s, <2>4 DEF Layout
    <2>5. CASE k = "Slash"
      BY <1>s, <2>5 DEF Layout
    <2> QED  BY <2>1, <2>2, <2>3, <2>4, <2>5
  <1> HIDE DEF L
  <1>2. Text(k, l, m) \in {<<>>, L[2], L[3]}
    BY DEF Text, L
  <1> QED  BY <1>s, <1>1, <1>2

\* One more event of the user, its code at the end of the wire.
LEMMA PendAdd ==
    ASSUME NEW code \in Seq(ScanBytes), NEW bs \in Seq(ScanBytes), NEW x, NEW y, NEW t,
           Pending(code, bs, x, y, t), NEW e \in Event, Right(e, y, t)
    PROVE  /\ Pending(code, bs \o Code(e), x, After(e, y), t)
           /\ bs \o Code(e) \in Seq(ScanBytes) /\ y \in View /\ After(e, y) \in View
  <1> DEFINE c == Code(e)
  <1>1. PICK es, vs : Trace(es, vs, x, y, t) /\ Rest(es, code, bs)
    BY DEF Pending
  <1>2. PICK us : Trace(Append(es, e), us, x, After(e, y), t)
    BY <1>1, TraceAppend
  <1>3. c \in Seq(ScanBytes) /\ Len(c) \in Nat /\ Len(c) # 0
    BY CodeType
  <1>4. es \in Seq(Event) /\ Flat(Append(es, e)) = Flat(es) \o c
    <2>1. es \in Seq(Event)
      BY <1>1 DEF Trace
    <2> QED  BY <2>1, FlatOps
  <1>5. y \in View /\ After(e, y) \in View
    <2>1. y \in View
      BY <1>1 DEF Trace
    <2> QED  BY <2>1, AfterType
  <1> HIDE DEF c
  <1>6. code \o (bs \o c) = (code \o bs) \o c /\ bs \o c \in Seq(ScanBytes)
    <2>1. code \in Seq(ScanBytes) /\ bs \in Seq(ScanBytes) /\ c \in Seq(ScanBytes)
      BY <1>3
    <2> QED  BY ONLY <2>1, ConcatAssociative, ConcatProperties
  <1>7. code \o (bs \o c) = Flat(Append(es, e))
    BY <1>1, <1>4, <1>6 DEF Rest
  <1>8. Append(es, e) # <<>> /\ Head(Append(es, e)) = IF es = <<>> THEN e ELSE Head(es)
    <2> DEFINE fs == Append(es, e)
    <2>0. fs \in Seq(Event) /\ Len(fs) # 0
      BY <1>4
    <2>1. Append(es, e) # <<>> /\ Head(Append(es, e)) = Append(es, e)[1]
      <3> HIDE DEF fs
      <3>1. fs # <<>>
        BY <2>0
      <3>2. Head(fs) = fs[1]
        BY <2>0, <3>1
      <3> QED  BY <3>1, <3>2 DEF fs
    <2>2. CASE es = <<>>
      BY <2>1, <2>2
    <2>3. CASE es # <<>>
      BY <1>4, <2>1, <2>3
    <2> QED  BY <2>2, <2>3, <2>1
  <1>9. Len(code) < Len(Code(Head(Append(es, e))))
    <2>1. CASE es = <<>>
      BY <1>1, <1>3, <1>8, <2>1 DEF Rest, c
    <2>2. CASE es # <<>>
      BY <1>1, <1>8, <2>2 DEF Rest
    <2> QED  BY <2>1, <2>2
  <1>10. Rest(Append(es, e), code, bs \o c)
    BY <1>7, <1>8, <1>9 DEF Rest
  <1> QED  BY <1>2, <1>5, <1>6, <1>10 DEF Pending, c

\* What is pending stays right when the user types more.
LEMMA PendGrow ==
    ASSUME NEW code, NEW bs, NEW x, NEW y, NEW T, NEW t \in Seq(T), Pending(code, bs, x, y, t), NEW u \in T
    PROVE  Pending(code, bs, x, y, Append(t, u))
  BY TraceGrows DEF Pending

\* Before any key, driver and user agree.
LEMMA InitDriver == Init => DriverInv
  <1> SUFFICES ASSUME Init PROVE DriverInv
    OBVIOUS
  <1> DEFINE x == DriverView(kbd)
             y == UserView(down, lights, typed)
  <1>1. DOMAIN kbd = KbdFields /\ kbd.code = <<>> /\ kbd.held = {} /\ kbd.mods = {} /\ kbd.locks = {}
        /\ kbd.seen = 0
    BY DEF Init, KbdInit, KbdFields
  <1>2. wire = <<>> /\ typed = <<>> /\ down = {} /\ lights = {}
    BY DEF Init
  <1>3. x = y /\ x \in View
    BY <1>1, <1>2 DEF DriverView, UserView, View
  <1> HIDE DEF x, y
  <1>4. Trace(<<>>, <<x>>, x, x, typed)
    BY <1>3, TraceEmpty
  <1>5. Rest(<<>>, <<>>, Kb(<<>>))
    <2>1. <<>> \o <<>> = <<>>
      OBVIOUS
    <2> QED  BY <2>1, KbSpread, FlatOps DEF Rest
  <1>6. Pending(kbd.code, Kb(wire), x, y, typed)
    BY <1>1, <1>2, <1>3, <1>4, <1>5 DEF Pending
  <1> QED  BY <1>1, <1>2, <1>3, <1>6 DEF DriverInv, x, y

\* Two make codes in one: Pause sends its break code at once.
LEMMA MakeIs ==
    ASSUME NEW k \in KeyNames
    PROVE  /\ [key |-> k, dir |-> "press"] \in Event /\ [key |-> k, dir |-> "release"] \in Event
           /\ k # "Pause" => /\ Make(k) = Code([key |-> k, dir |-> "press"])
                             /\ Break(k) = Code([key |-> k, dir |-> "release"])
           /\ k = "Pause" => Make(k) = Code([key |-> k, dir |-> "press"]) \o Code([key |-> k, dir |-> "release"])
  <1>1. [key |-> k, dir |-> "press"] \in Event /\ [key |-> k, dir |-> "release"] \in Event
    BY DEF Event
  <1>2. k # "Pause" => /\ Make(k) = Code([key |-> k, dir |-> "press"])
                       /\ Break(k) = Code([key |-> k, dir |-> "release"])
    BY DEF Code, PressCode, ReleaseCode
  <1>3. ASSUME k = "Pause"
        PROVE  Make(k) = Code([key |-> k, dir |-> "press"]) \o Code([key |-> k, dir |-> "release"])
    <2> DEFINE u == <<"E1", "14", "77">>
               v == <<"E1", "F0", "14", "F0", "77">>
               m == <<"E1", "14", "77", "E1", "F0", "14", "F0", "77">>
               z == u \o v
    <2>1. Code([key |-> k, dir |-> "press"]) = u /\ Code([key |-> k, dir |-> "release"]) = v
      BY <1>3 DEF Code, PressCode, ReleaseCode
    <2>2. Make(k) = m
      BY <1>3 DEF Make
    <2>b. "E1" \in ScanBytes /\ "14" \in ScanBytes /\ "77" \in ScanBytes /\ "F0" \in ScanBytes
      BY DEF ScanBytes
    <2>3. u \in Seq(ScanBytes) /\ Len(u) = 3 /\ u[1] = "E1" /\ u[2] = "14" /\ u[3] = "77"
      BY <2>b
    <2>4. v \in Seq(ScanBytes) /\ Len(v) = 5 /\ v[1] = "E1" /\ v[2] = "F0" /\ v[3] = "14" /\ v[4] = "F0" /\ v[5] = "77"
      BY <2>b
    <2>5. m \in Seq(ScanBytes) /\ Len(m) = 8 /\ m[1] = "E1" /\ m[2] = "14" /\ m[3] = "77" /\ m[4] = "E1"
          /\ m[5] = "F0" /\ m[6] = "14" /\ m[7] = "F0" /\ m[8] = "77"
      BY <2>b
    <2> HIDE DEF u, v, m
    <2>6. /\ u \o v \in Seq(ScanBytes) /\ Len(u \o v) = Len(u) + Len(v)
          /\ \A j \in 1 .. Len(u) + Len(v) : (u \o v)[j] = IF j <= Len(u) THEN u[j] ELSE v[j - Len(u)]
      <3>1. u \in Seq(ScanBytes) /\ v \in Seq(ScanBytes)
        BY <2>3, <2>4
      <3> QED  BY ONLY <3>1, ConcatProperties
    <2>7. z \in Seq(ScanBytes) /\ Len(z) = 8 /\ \A j \in 1 .. 8 : z[j] = IF j <= 3 THEN u[j] ELSE v[j - 3]
      BY <2>3, <2>4, <2>6
    <2> HIDE DEF z
    <2>8. \A j \in 1 .. 8 : z[j] = m[j]
      <3> TAKE j \in 1 .. 8
      <3>1. z[j] = IF j <= 3 THEN u[j] ELSE v[j - 3]
        BY <2>7
      <3>2. j \in {1, 2, 3} \/ j \in {4, 5, 6, 7, 8}
        OBVIOUS
      <3>3. CASE j \in {1, 2, 3}
        BY <2>3, <2>5, <3>1, <3>3
      <3>4. CASE j \in {4, 5, 6, 7, 8}
        <4>1. ~(j <= 3) /\ z[j] = v[j - 3]
          BY <3>1, <3>4
        <4>2. 4 - 3 = 1 /\ 5 - 3 = 2 /\ 6 - 3 = 3 /\ 7 - 3 = 4 /\ 8 - 3 = 5
          OBVIOUS
        <4> QED  BY <2>4, <2>5, <3>4, <4>1, <4>2
      <3> QED  BY <3>2, <3>3, <3>4
    <2>9. z = m
      BY <2>5, <2>7, <2>8, SeqEqual
    <2> QED  BY <2>1, <2>2, <2>9 DEF z
  <1> QED  BY <1>1, <1>2, <1>3

\* The user's view after a key.
LEMMA UserPress ==
    ASSUME NEW k \in KeyNames, NEW d, NEW l, NEW t \in Seq(Seq(Chars)), NEW u \in Seq(Chars),
           UserView(d, l, t) \in View
    PROVE  UserView(d \cup {k}, IF k \in LockKeys THEN Toggle(l, k) ELSE l, Append(t, u))
             = After([key |-> k, dir |-> "press"], UserView(d, l, t))
  <1> DEFINE e == [key |-> k, dir |-> "press"]
             v == UserView(d, l, t)
  <1>1. e.key = k /\ e.dir = "press" /\ v.held = d /\ v.mods = d \cap Modifiers /\ v.locks = l
        /\ v.seen = Len(t)
    BY DEF UserView
  <1> HIDE DEF e, v
  <1>2. With(v.held, e.key, e.dir = "press") = d \cup {k}
    BY <1>1 DEF With
  <1>3. (IF e.key \in Modifiers THEN With(v.mods, e.key, e.dir = "press") ELSE v.mods) = (d \cup {k}) \cap Modifiers
    BY <1>1 DEF With
  <1>4. (IF e.dir = "press" /\ e.key \in LockKeys THEN Toggle(v.locks, e.key) ELSE v.locks)
          = IF k \in LockKeys THEN Toggle(l, k) ELSE l
    BY <1>1
  <1>5. (IF e.dir = "press" THEN v.seen + 1 ELSE v.seen) = Len(Append(t, u))
    BY <1>1
  <1>6. After(e, v) = [held |-> d \cup {k}, mods |-> (d \cup {k}) \cap Modifiers,
                       locks |-> IF k \in LockKeys THEN Toggle(l, k) ELSE l, seen |-> Len(Append(t, u))]
    BY <1>2, <1>3, <1>4, <1>5 DEF After
  <1> QED  BY <1>6 DEF UserView, e, v

\* The user's view after the release of a key.
LEMMA UserRelease ==
    ASSUME NEW k \in KeyNames, NEW d, NEW l, NEW t
    PROVE  UserView(d \ {k}, l, t) = After([key |-> k, dir |-> "release"], UserView(d, l, t))
  <1> DEFINE e == [key |-> k, dir |-> "release"]
             v == UserView(d, l, t)
  <1>1. e.key = k /\ e.dir = "release" /\ v.held = d /\ v.mods = d \cap Modifiers /\ v.locks = l
        /\ v.seen = Len(t)
    BY DEF UserView
  <1>d. e.dir # "press"
    BY <1>1
  <1> HIDE DEF e, v
  <1>2. With(v.held, e.key, e.dir = "press") = d \ {k}
    BY <1>1, <1>d DEF With
  <1>3. (IF e.key \in Modifiers THEN With(v.mods, e.key, e.dir = "press") ELSE v.mods) = (d \ {k}) \cap Modifiers
    BY <1>1, <1>d DEF With
  <1>6. After(e, v) = [held |-> d \ {k}, mods |-> (d \ {k}) \cap Modifiers, locks |-> l, seen |-> Len(t)]
    BY <1>1, <1>d, <1>2, <1>3 DEF After
  <1> QED  BY <1>6 DEF UserView, e, v

\* A make code on the wire (for Pause, its break code too).
LEMMA MakeDriver == ASSUME DriverInv, NEW k \in Keys, MakeKey(k) PROVE DriverInv'
  <1> DEFINE u == Text(k, lights, down \cap Modifiers)
             t == Append(typed, u)
             x == DriverView(kbd)
             y == UserView(down, lights, typed)
             e == [key |-> k, dir |-> "press"]
             e2 == [key |-> k, dir |-> "release"]
             l == IF k \in LockKeys THEN Toggle(lights, k) ELSE lights
             y1 == UserView(down \cup {k}, l, t)
             K == Kb(wire)
             m == Make(k)
  <1>0. k \in KeyNames /\ kbd' = kbd /\ typed' = t /\ wire' = wire \o Sent("keyboard", m)
        /\ lights' = l /\ down' = IF k = "Pause" THEN down ELSE down \cup {k}
    BY InputAssumption DEF MakeKey, Send, Sent, osVars
  <1>1. /\ DOMAIN kbd = KbdFields /\ kbd.code \in Seq(ScanBytes) /\ x \in View
        /\ wire \in Seq(WireByte) /\ typed \in Seq(Seq(Chars)) /\ "Pause" \notin down
        /\ y \in View /\ Pending(kbd.code, K, x, y, typed)
    BY DEF DriverInv
  <1>2. u \in Seq(Chars)
    BY TextType
  <1>3. /\ e \in Event /\ e2 \in Event
        /\ k # "Pause" => m = Code(e)
        /\ k = "Pause" => m = Code(e) \o Code(e2)
    BY <1>0, MakeIs
  <1>4. K \in Seq(ScanBytes)
    BY <1>1, KbOps
  <1> HIDE DEF u, m
  <1>5. t \in Seq(Seq(Chars)) /\ Len(t) = Len(typed) + 1 /\ t[Len(typed) + 1] = u /\ Len(typed) \in Nat
    BY <1>1, <1>2
  <1>6. Right(e, y, t)
    <2>1. y.seen = Len(typed) /\ y.locks = lights /\ y.mods = down \cap Modifiers /\ e.key = k
      BY DEF UserView
    <2> HIDE DEF y, e, t
    <2> QED  BY <1>5, <2>1 DEF Right, u
  <1>7. Pending(kbd.code, K, x, y, t)
    BY <1>1, <1>2, PendGrow
  <1>8. After(e, y) = y1
    BY <1>0, <1>1, <1>2, UserPress
  <1> HIDE DEF e, e2, x, y, y1, t, K
  <1>9. /\ Pending(kbd.code, K \o Code(e), x, y1, t) /\ K \o Code(e) \in Seq(ScanBytes)
        /\ y1 \in View
    BY <1>1, <1>3, <1>4, <1>6, <1>7, <1>8, PendAdd
  <1>c. Code(e) \in Seq(ScanBytes) /\ Code(e2) \in Seq(ScanBytes)
    BY <1>3, CodeType
  <1>m. m \in Seq(ScanBytes)
    BY <1>3, <1>c, ConcatProperties
  <1>10. wire' \in Seq(WireByte) /\ Kb(wire') = K \o m
    BY <1>0, <1>1, <1>m, KbOps DEF K
  <1>11. CASE k # "Pause"
    <2>1. UserView(down, lights, typed)' = y1 /\ DriverView(kbd)' = x /\ "Pause" \notin down'
      BY <1>0, <1>1, <1>11 DEF y1, x
    <2>2. m = Code(e)
      BY <1>3, <1>11
    <2>3. Pending(kbd.code, Kb(wire), DriverView(kbd), UserView(down, lights, typed), typed)'
      BY <1>0, <1>9, <1>10, <2>1, <2>2
    <2> QED  BY <1>0, <1>1, <1>5, <1>9, <1>10, <2>1, <2>3 DEF DriverInv
  <1>12. CASE k = "Pause"
    <2> DEFINE y2 == After(e2, y1)
    <2>1. Right(e2, y1, t)
      BY DEF Right, e2
    <2>2. /\ Pending(kbd.code, (K \o Code(e)) \o Code(e2), x, y2, t) /\ y2 \in View
      BY <1>1, <1>3, <1>9, <2>1, PendAdd
    <2>3. (K \o Code(e)) \o Code(e2) = K \o m
      <3> DEFINE c1 == Code(e)
                 c2 == Code(e2)
      <3>1. c1 \in Seq(ScanBytes) /\ c2 \in Seq(ScanBytes) /\ K \in Seq(ScanBytes)
        BY <1>4, <1>c
      <3> HIDE DEF c1, c2
      <3>2. (K \o c1) \o c2 = K \o (c1 \o c2)
        BY ONLY <3>1, ConcatAssociative
      <3> QED  BY <1>3, <1>12, <3>2 DEF c1, c2
    <2>4. y2 = UserView((down \cup {k}) \ {k}, l, t)
      BY <1>0, UserRelease DEF y1, e2
    <2>5. (down \cup {k}) \ {k} = down /\ down' = down
      BY <1>0, <1>1, <1>12
    <2>6. UserView(down, lights, typed)' = y2 /\ DriverView(kbd)' = x /\ "Pause" \notin down'
      BY <1>0, <1>1, <2>4, <2>5 DEF x
    <2> HIDE DEF y2
    <2>7. Pending(kbd.code, Kb(wire), DriverView(kbd), UserView(down, lights, typed), typed)'
      BY <1>0, <1>10, <2>2, <2>3, <2>6
    <2> QED  BY <1>0, <1>1, <1>5, <1>10, <2>2, <2>6, <2>7 DEF DriverInv
  <1> QED  BY <1>11, <1>12

\* A break code on the wire.
LEMMA BreakDriver == ASSUME DriverInv, NEW k \in Keys, BreakKey(k) PROVE DriverInv'
  <1> DEFINE x == DriverView(kbd)
             y == UserView(down, lights, typed)
             e == [key |-> k, dir |-> "release"]
             y1 == UserView(down \ {k}, lights, typed)
             K == Kb(wire)
             m == Break(k)
  <1>0. k \in KeyNames /\ k \in down /\ kbd' = kbd /\ typed' = typed /\ wire' = wire \o Sent("keyboard", m)
        /\ lights' = lights /\ down' = down \ {k}
    BY InputAssumption DEF BreakKey, Send, Sent, osVars
  <1>1. /\ DOMAIN kbd = KbdFields /\ kbd.code \in Seq(ScanBytes) /\ x \in View
        /\ wire \in Seq(WireByte) /\ typed \in Seq(Seq(Chars)) /\ "Pause" \notin down
        /\ y \in View /\ Pending(kbd.code, K, x, y, typed)
    BY DEF DriverInv
  <1>3. e \in Event /\ m = Code(e)
    BY <1>0, <1>1, MakeIs
  <1>4. K \in Seq(ScanBytes)
    BY <1>1, KbOps
  <1>6. Right(e, y, typed)
    BY DEF Right
  <1>8. After(e, y) = y1
    BY <1>0, UserRelease
  <1> HIDE DEF e, x, y, y1, K, m
  <1>9. /\ Pending(kbd.code, K \o Code(e), x, y1, typed) /\ K \o Code(e) \in Seq(ScanBytes)
        /\ y1 \in View
    BY <1>1, <1>3, <1>4, <1>6, <1>8, PendAdd
  <1>m. m \in Seq(ScanBytes)
    BY <1>3, CodeType
  <1>10. wire' \in Seq(WireByte) /\ Kb(wire') = K \o m
    BY <1>0, <1>1, <1>m, KbOps DEF K
  <1>11. UserView(down, lights, typed)' = y1 /\ DriverView(kbd)' = x /\ "Pause" \notin down'
    BY <1>0, <1>1 DEF y1, x
  <1>12. Pending(kbd.code, Kb(wire), DriverView(kbd), UserView(down, lights, typed), typed)'
    BY <1>0, <1>3, <1>9, <1>10, <1>11
  <1> QED  BY <1>0, <1>1, <1>9, <1>10, <1>11, <1>12 DEF DriverInv

\* next_key, field by field.
LEMMA NextKeyFields ==
    ASSUME NEW kb, DOMAIN kb = KbdFields
    PROVE  LET r == NextKey(kb)
           IN  /\ DOMAIN r = KbdFields /\ r.code = kb.code /\ r.seen = kb.seen
               /\ DriverView(r) = DriverView(kb)
               /\ r.buf = (IF kb.buf.len > 0 THEN Presses!PopFront(kb.buf) ELSE kb.buf)
               /\ r.listeners = IF kb.buf.len > 0 THEN kb.listeners ELSE kb.listeners + 1
  <1> DEFINE r == NextKey(kb)
             q == Presses!PopFront(kb.buf)
  <1>k. /\ "locks" \in KbdFields /\ "mods" \in KbdFields /\ "held" \in KbdFields /\ "buf" \in KbdFields
        /\ "listeners" \in KbdFields /\ "code" \in KbdFields /\ "seen" \in KbdFields
    BY DEF KbdFields
  <1>1. CASE kb.buf.len > 0
    <2>1. r = [kb EXCEPT !.buf = q]
      BY <1>1 DEF NextKey
    <2> HIDE DEF r, q
    <2>2. /\ DOMAIN r = KbdFields /\ r.code = kb.code /\ r.held = kb.held /\ r.mods = kb.mods
          /\ r.locks = kb.locks /\ r.seen = kb.seen /\ r.buf = q /\ r.listeners = kb.listeners
      BY <1>k, <2>1
    <2> QED  BY <1>1, <2>2 DEF DriverView, r, q
  <1>2. CASE ~(kb.buf.len > 0)
    <2>1. r = [kb EXCEPT !.listeners = kb.listeners + 1]
      BY <1>2 DEF NextKey
    <2> HIDE DEF r, q
    <2>2. /\ DOMAIN r = KbdFields /\ r.code = kb.code /\ r.held = kb.held /\ r.mods = kb.mods
          /\ r.locks = kb.locks /\ r.seen = kb.seen /\ r.buf = kb.buf /\ r.listeners = kb.listeners + 1
      BY <1>k, <2>1
    <2> QED  BY <1>2, <2>2 DEF DriverView, r
  <1> QED  BY <1>1, <1>2

\* What an interrupt of the keyboard needs has been set up.
LEMMA IrqReady ==
    ASSUME BootInv, NEW c, Irq("keyboard", c)
    PROVE  "keyboard" \in ctrl /\ attached
  BY DEF BootInv, IrqInv, Irq

\* Steps that neither send nor read a byte.
LEMMA SameDriver ==
    ASSUME DriverInv, UNCHANGED <<wire, down, lights, typed>>,
           kbd' = kbd \/ kbd' = NextKey(kbd)
    PROVE  DriverInv'
  <1>1. DOMAIN kbd' = KbdFields /\ kbd'.code = kbd.code /\ DriverView(kbd') = DriverView(kbd)
    BY NextKeyFields DEF DriverInv
  <1> QED  BY <1>1 DEF DriverInv

\* The keyboard's interrupt.
LEMMA KeyboardDriver == ASSUME BootInv, DriverInv, NEW c \in Cores, KeyboardIrq(c) PROVE DriverInv'
  <1> DEFINE b == Head(wire)[2]
             y == UserView(down, lights, typed)
  <1>1. "keyboard" \in ctrl /\ wire # <<>> /\ Head(wire)[1] = "keyboard" /\ wire' = Tail(wire)
    BY IrqReady DEF KeyboardIrq, Irq
  <1>2. kbd' = AfterByte(kbd, b) /\ down' = down /\ lights' = lights /\ typed' = typed
    BY <1>1 DEF KeyboardIrq
  <1>3. /\ DOMAIN kbd = KbdFields /\ kbd.code \in Seq(ScanBytes) /\ wire \in Seq(WireByte)
        /\ y \in View /\ Pending(kbd.code, Kb(wire), DriverView(kbd), y, typed)
    BY DEF DriverInv
  <1>4. Tail(wire) \in Seq(WireByte)
    BY <1>1, <1>3, KbOps
  <1> DEFINE r == AfterByte(kbd, b)
  <1> HIDE DEF y
  <1>5. /\ DOMAIN r = KbdFields /\ r.code \in Seq(ScanBytes)
        /\ Pending(r.code, Kb(Tail(wire)), DriverView(r), y, typed)
    BY <1>1, <1>3, ByteStep
  <1> HIDE DEF r
  <1>6. DriverView(r) \in View
    BY <1>5 DEF Pending, Trace
  <1>7. UserView(down, lights, typed)' = y
    BY <1>2 DEF y
  <1> QED  BY <1>1, <1>2, <1>3, <1>4, <1>5, <1>6, <1>7 DEF DriverInv, r

\* Every step keeps the invariant of the driver.
LEMMA NextDriver == BootInv /\ DriverInv /\ [Next]_vars => DriverInv'
  <1> SUFFICES ASSUME BootInv, DriverInv, [Next]_vars PROVE DriverInv'
    OBVIOUS
  <1>1. CASE UNCHANGED vars
    BY <1>1, SameDriver DEF vars, hwVars
  <1>2. CASE Boot
    <2>1. UNCHANGED <<wire, down, lights, typed>> /\ (kbd' = kbd \/ kbd' = NextKey(kbd))
      <3>1. CASE ControllerStep
        BY <3>1 DEF ControllerStep, hwVars
      <3>2. CASE BootDevices
        BY <3>2 DEF BootDevices, BootStep, hwVars
      <3>3. CASE ConnectDevices
        BY <3>3 DEF ConnectDevices, ConnectDevice, hwVars
      <3>4. CASE Attach
        BY <3>4 DEF Attach, hwVars
      <3>5. CASE PublishDevices
        BY <3>5 DEF PublishDevices, hwVars
      <3> QED  BY <1>2, <3>1, <3>2, <3>3, <3>4, <3>5 DEF Boot
    <2> QED  BY <2>1, SameDriver
  <1>3. ASSUME NEW c \in Cores, Kernel(c) PROVE DriverInv'
    <2>1. CASE KeyboardIrq(c)
      BY <2>1, KeyboardDriver
    <2>2. CASE MouseIrq(c)
      <3>1. wire # <<>> /\ Head(wire)[1] # "keyboard" /\ wire' = Tail(wire)
            /\ UNCHANGED <<kbd, down, lights, typed>>
        BY <2>2 DEF MouseIrq, Irq
      <3>2. Tail(wire) \in Seq(WireByte) /\ Kb(wire) = Kb(Tail(wire))
        BY <3>1, KbOps DEF DriverInv
      <3> QED  BY <3>1, <3>2 DEF DriverInv
    <2>3. CASE SoftKeyPressed(c)
      BY <2>3, SameDriver DEF SoftKeyPressed, Listen, hwVars
    <2> QED  BY <1>3, <2>1, <2>2, <2>3 DEF Kernel
  <1>4. CASE MoveMouse
    <2>1. wire' = wire \o Sent("mouse", <<"move">>) /\ UNCHANGED <<kbd, down, lights, typed>>
      BY <1>4 DEF MoveMouse, Send, Sent, osVars
    <2>2. wire' \in Seq(WireByte) /\ Kb(wire') = Kb(wire)
      BY <2>1, KbOps DEF DriverInv
    <2> QED  BY <2>1, <2>2 DEF DriverInv
  <1>5. CASE \E r \in Readers, size \in Sizes : ReadTty(r, size)
    BY <1>5, SameDriver DEF ReadTty, hwVars
  <1>6. CASE \E k \in Keys : MakeKey(k) \/ BreakKey(k)
    BY <1>6, MakeDriver, BreakDriver
  <1> QED  BY <1>1, <1>2, <1>3, <1>4, <1>5, <1>6 DEF Next

\* The invariant of the driver holds in every state: the bytes on the wire, behind those of a
\* half-read scancode, are the codes of key events that lead from what the driver thinks of the
\* keyboard to what the user holds (ps2/mod.rs handle_interrupt, kbd.rs).
THEOREM DriverInvariant == Spec => []DriverInv
  BY InitDriver, NextDriver, BootInvariant, PTL DEF Spec

\* With no byte left on the wire there is no event left, so driver and user agree.
LEMMA DriverImplies == DriverInv => DriverAgrees
  <1> SUFFICES ASSUME DriverInv, \A i \in DOMAIN wire : wire[i][1] /= "keyboard"
               PROVE  /\ kbd.code = <<>> /\ kbd.held = down
                      /\ kbd.mods = down \cap Modifiers /\ kbd.locks = lights
                      /\ kbd.seen = Len(typed)
    BY DEF DriverAgrees
  <1> DEFINE x == DriverView(kbd)
             y == UserView(down, lights, typed)
             code == kbd.code
  <1>1. Kb(wire) = <<>> /\ code \in Seq(ScanBytes)
    BY KbOps DEF DriverInv
  <1>2. PICK es, vs : Trace(es, vs, x, y, typed) /\ Rest(es, code, <<>>)
    BY <1>1 DEF DriverInv, Pending
  <1> HIDE DEF code
  <1>3. code = Flat(es)
    <2>1. code \o <<>> = code
      BY <1>1, ConcatEmptySeq
    <2> QED  BY <1>2, <2>1 DEF Rest
  <1>4. es = <<>>
    <2> SUFFICES ASSUME es # <<>> PROVE FALSE
      OBVIOUS
    <2> DEFINE c == Code(Head(es))
               F == Flat(Tail(es))
    <2>1. es \in Seq(Event)
      BY <1>2 DEF Trace
    <2>2. Head(es) \in Event /\ code = c \o F /\ F \in Seq(ScanBytes)
      BY <1>3, <2>1, FlatOps
    <2>3. c \in Seq(ScanBytes) /\ Len(code) < Len(c)
      BY <1>2, <2>2, CodeType DEF Rest
    <2> HIDE DEF c, F
    <2>4. Len(c \o F) = Len(c) + Len(F) /\ Len(c) \in Nat /\ Len(F) \in Nat
      <3>1. c \in Seq(ScanBytes) /\ F \in Seq(ScanBytes)
        BY <2>2, <2>3
      <3> QED  BY ONLY <3>1, ConcatProperties, LenProperties
    <2> QED  BY <2>2, <2>3, <2>4
  <1>5. x = y
    BY <1>2, <1>4, TraceDone
  <1>6. code = <<>>
    BY <1>3, <1>4, FlatOps
  <1>7. x.held = y.held /\ x.mods = y.mods /\ x.locks = y.locks /\ x.seen = y.seen
    BY <1>5
  <1> QED  BY <1>6, <1>7 DEF DriverView, UserView, code

\* Once every byte is read the driver agrees with the user on held keys, modifiers, locks and
\* the number of presses, for every set of keys and any number of cores (ps2/mod.rs
\* handle_interrupt, handle_key_state_changed).
THEOREM DriverSafe == Spec => []DriverAgrees
  BY DriverInvariant, DriverImplies, PTL

----------------------------------------------------------------------------
(* Numbered key presses. *)

\* The bytes of key press m, none if it was lost, and of the first n.
Tag(m, s) == [i \in DOMAIN s |-> <<m, s[i]>>]
Seg(m, l, t) == IF m \in l THEN <<>> ELSE Tag(m, t[m])
Segs(n, l, t) == [m \in 1 .. n |-> Seg(m, l, t)]
Upto(n, l, t) == FlattenSeq(Segs(n, l, t))

\* A text with the number of its key press.
LEMMA TagType ==
    ASSUME NEW m \in Nat, NEW s \in Seq(Chars)
    PROVE  Tag(m, s) \in Seq(ByteSet) /\ Len(Tag(m, s)) = Len(s)
  <1> DEFINE n == Len(s)
             g == Tag(m, s)
  <1>1. n \in Nat /\ DOMAIN s = 1 .. n /\ \A i \in 1 .. n : s[i] \in Chars
    OBVIOUS
  <1>2. g = [i \in 1 .. n |-> <<m, s[i]>>]
    BY <1>1 DEF Tag
  <1>3. \A i \in 1 .. n : <<m, s[i]>> \in ByteSet
    BY <1>1 DEF ByteSet
  <1> HIDE DEF g, n
  <1>4. g \in [1 .. n -> ByteSet]
    BY <1>2, <1>3
  <1>5. g \in Seq(ByteSet) /\ Len(g) = n
    BY <1>1, <1>4, SeqDef, LenProperties
  <1> QED  BY <1>5 DEF g, n

\* The texts of the first n key presses, less the lost ones.
LEMMA SegsType ==
    ASSUME NEW t \in Seq(Seq(Chars)), NEW n \in 0 .. Len(t), NEW l
    PROVE  /\ Segs(n, l, t) \in Seq(Seq(ByteSet)) /\ Len(Segs(n, l, t)) = n
           /\ \A m \in 1 .. n : Segs(n, l, t)[m] = Seg(m, l, t) /\ Seg(m, l, t) \in Seq(ByteSet)
           /\ Upto(n, l, t) \in Seq(ByteSet)
  <1> DEFINE g == Segs(n, l, t)
             B == Seq(ByteSet)
  <1>1. n \in Nat /\ \A m \in 1 .. n : m \in Nat /\ m \in 1 .. Len(t)
    OBVIOUS
  <1>2. ASSUME NEW m \in 1 .. n PROVE Seg(m, l, t) \in Seq(ByteSet)
    <2>1. t[m] \in Seq(Chars) /\ m \in Nat
      BY <1>1
    <2> DEFINE s == t[m]
    <2> HIDE DEF s
    <2>2. Tag(m, s) \in Seq(ByteSet)
      BY <2>1, TagType DEF s
    <2>3. <<>> \in Seq(ByteSet)
      OBVIOUS
    <2> QED  BY <2>2, <2>3 DEF Seg, s
  <1>3. \A m \in 1 .. n : Seg(m, l, t) \in B
    BY <1>2
  <1> HIDE DEF B
  <1>4. g \in [1 .. n -> B] /\ \A m \in 1 .. n : g[m] = Seg(m, l, t)
    BY <1>3 DEF Segs
  <1> HIDE DEF g
  <1>5. g \in Seq(B) /\ Len(g) = n
    BY <1>1, <1>4, SeqDef, LenProperties
  <1>6. FlattenSeq(g) \in Seq(ByteSet)
    BY <1>5, FlattenType DEF B
  <1> QED  BY <1>2, <1>4, <1>5, <1>6 DEF g, B, Upto

\* Nothing is typed before the first key press.
LEMMA UptoNone == ASSUME NEW t \in Seq(Seq(Chars)), NEW l PROVE Upto(0, l, t) = <<>>
  <1> DEFINE g == Segs(0, l, t)
  <1>1. 0 \in 0 .. Len(t)
    OBVIOUS
  <1>2. g \in Seq(Seq(ByteSet)) /\ Len(g) = 0
    BY <1>1, SegsType
  <1> HIDE DEF g
  <1>3. \A i \in 1 .. Len(g) : g[i] = <<>>
    BY <1>2
  <1>4. FlattenSeq(g) = <<>>
    BY <1>2, <1>3, FlattenNone
  <1> QED  BY <1>4 DEF Upto, g

\* One more key press adds its text.
LEMMA UptoStep ==
    ASSUME NEW t \in Seq(Seq(Chars)), NEW n \in Nat, n < Len(t), NEW l
    PROVE  Upto(n + 1, l, t) = Upto(n, l, t) \o Seg(n + 1, l, t)
  <1> DEFINE k == n + 1
             B == Seq(ByteSet)
             g == Segs(n, l, t)
             h == Segs(k, l, t)
             x == Seg(k, l, t)
             z == Append(g, x)
  <1>1. n \in 0 .. Len(t) /\ k \in 0 .. Len(t) /\ k \in 1 .. k /\ (\A m \in 1 .. n : m \in 1 .. k)
        /\ \A m \in 1 .. k : m = k \/ m \in 1 .. n
    OBVIOUS
  <1> HIDE DEF k
  <1>2. g \in Seq(B) /\ Len(g) = n /\ \A m \in 1 .. n : g[m] = Seg(m, l, t)
    BY <1>1, SegsType
  <1>3. h \in Seq(B) /\ Len(h) = k /\ (\A m \in 1 .. k : h[m] = Seg(m, l, t)) /\ x \in B
    BY <1>1, SegsType
  <1> HIDE DEF g, h, x, B
  <1>4. z \in Seq(B) /\ Len(z) = k /\ z[k] = x /\ \A m \in 1 .. n : z[m] = g[m]
    <2>1. g \in Seq(B) /\ x \in B
      BY <1>2, <1>3
    <2>2. /\ Append(g, x) \in Seq(B) /\ Len(Append(g, x)) = Len(g) + 1 /\ Append(g, x)[Len(g) + 1] = x
          /\ \A m \in 1 .. Len(g) : Append(g, x)[m] = g[m]
      BY ONLY <2>1, AppendProperties
    <2> HIDE DEF z
    <2> QED  BY <1>2, <2>2 DEF k, z
  <1> HIDE DEF z
  <1>5. \A m \in 1 .. k : h[m] = z[m]
    <2> TAKE m \in 1 .. k
    <2>1. CASE m = k
      <3>1. h[k] = Seg(k, l, t)
        BY <1>1, <1>3
      <3> QED  BY <1>4, <2>1, <3>1 DEF x
    <2>2. CASE m \in 1 .. n
      <3>1. h[m] = Seg(m, l, t)
        BY <1>3
      <3>2. z[m] = g[m] /\ g[m] = Seg(m, l, t)
        BY <1>2, <1>4, <2>2
      <3> QED  BY <3>1, <3>2
    <2>3. m = k \/ m \in 1 .. n
      BY DEF k
    <2> QED  BY <2>1, <2>2, <2>3
  <1>6. h = z
    BY <1>3, <1>4, <1>5, SeqEqual
  <1>7. FlattenSeq(Append(g, x)) = FlattenSeq(g) \o x
    BY <1>2, <1>3, FlattenAppend DEF B
  <1> QED  BY <1>6, <1>7 DEF Upto, g, h, x, z, k

\* What is lost or typed later does not matter.
LEMMA UptoSame ==
    ASSUME NEW n, NEW l, NEW t, NEW l2, NEW t2,
           \A m \in 1 .. n : (m \in l <=> m \in l2) /\ t[m] = t2[m]
    PROVE  Upto(n, l, t) = Upto(n, l2, t2)
  <1>1. \A m \in 1 .. n : Seg(m, l, t) = Seg(m, l2, t2)
    BY DEF Seg
  <1>2. Segs(n, l, t) = Segs(n, l2, t2)
    BY <1>1 DEF Segs
  <1> QED  BY <1>2 DEF Upto

\* Lost key presses add nothing.
LEMMA UptoSkip ==
    ASSUME NEW t \in Seq(Seq(Chars)), NEW a \in Nat, NEW b \in Nat, a <= b, b <= Len(t), NEW l,
           \A m \in Nat : a < m /\ m <= b => m \in l
    PROVE  Upto(b, l, t) = Upto(a, l, t)
  <1> DEFINE d == b - a
             S == {i \in 0 .. d : Upto(a + i, l, t) = Upto(a, l, t)}
  <1>0. d \in Nat /\ a + d = b /\ Len(t) \in Nat
    OBVIOUS
  <1> HIDE DEF d
  <1>1. 0 \in S
    <2>1. a + 0 = a /\ 0 \in 0 .. d
      BY <1>0
    <2> QED  BY <2>1
  <1>2. ASSUME NEW i \in 0 .. d - 1, i \in S PROVE i + 1 \in S
    <2> DEFINE n == a + i
    <2>1. n \in Nat /\ n < Len(t) /\ n + 1 = a + (i + 1) /\ a < n + 1 /\ n + 1 <= b /\ i + 1 \in 0 .. d
          /\ n \in 0 .. Len(t) /\ n + 1 \in Nat
      BY <1>0
    <2>2. Upto(n, l, t) = Upto(a, l, t)
      BY <1>2
    <2> HIDE DEF n
    <2>3. n + 1 \in l
      BY <2>1
    <2>4. Upto(n + 1, l, t) = Upto(n, l, t) \o <<>>
      BY <2>1, <2>3, UptoStep DEF Seg
    <2>5. Upto(n, l, t) \in Seq(ByteSet)
      BY <2>1, SegsType
    <2>6. Upto(n, l, t) \o <<>> = Upto(n, l, t)
      BY <2>5, ConcatEmptySeq
    <2> QED  BY <2>1, <2>2, <2>4, <2>6
  <1> HIDE DEF S
  <1>3. 0 .. d \subseteq S
    BY <1>0, <1>1, <1>2, UpInduct
  <1>4. d \in S
    BY <1>0, <1>3
  <1> QED  BY <1>0, <1>4 DEF S

----
Press == [n : Nat, str : Seq(Chars)]

\* The key presses that wait, in order; those between them were lost.
Numbered(q, seen, l, t) ==
  /\ \A i \in 1 .. Len(q) : /\ q[i].n \in 1 .. seen /\ q[i].n \notin l /\ q[i].str = t[q[i].n]
                            /\ \A j \in i + 1 .. Len(q) : q[i].n < q[j].n
  /\ \A i \in 1 .. Len(q), m \in Nat :
        q[i].n < m /\ m <= seen /\ (i # Len(q) => m < q[i + 1].n) => m \in l
\* The last key press before them.
Before(q, seen) == IF q = <<>> THEN seen ELSE q[1].n - 1

\* The fields of the key presses in line.
LEMMA PressFields ==
    ASSUME NEW q \in Seq(Press)
    PROVE  \A i \in 1 .. Len(q) : q[i] \in Press /\ q[i].n \in Nat /\ q[i].str \in Seq(Chars)
  <1> TAKE i \in 1 .. Len(q)
  <1>1. q[i] \in Press
    OBVIOUS
  <1> QED  BY <1>1 DEF Press

\* What a queue of key presses and the numbers go through.
LEMMA NumType ==
    ASSUME NEW q \in Seq(Press), NEW seen \in Nat, NEW l, NEW t, Numbered(q, seen, l, t)
    PROVE  Before(q, seen) \in 0 .. seen
  <1>1. CASE q = <<>>
    BY <1>1 DEF Before
  <1>2. CASE q # <<>>
    <2>1. 1 \in 1 .. Len(q)
      BY <1>2
    <2>2. q[1].n \in 1 .. seen
      BY <2>1 DEF Numbered
    <2> QED  BY <1>2, <2>2 DEF Before
  <1> QED  BY <1>1, <1>2

\* handle_interrupt with a new key press that finds room.
LEMMA NumAdd ==
    ASSUME NEW q \in Seq(Press), NEW seen \in Nat, NEW l, NEW t, Numbered(q, seen, l, t),
           l \subseteq 1 .. seen, NEW p \in Press, p.n = seen + 1, p.str = t[seen + 1]
    PROVE  Numbered(Append(q, p), seen + 1, l, t) /\ Before(Append(q, p), seen + 1) = Before(q, seen)
  <1> DEFINE k == Len(q)
             r == Append(q, p)
  <1>1. k \in Nat /\ r \in Seq(Press) /\ Len(r) = k + 1 /\ r[k + 1] = p /\ \A i \in 1 .. k : r[i] = q[i]
    OBVIOUS
  <1>2. \A i \in 1 .. k : q[i].n \in Nat
    BY PressFields
  <1> HIDE DEF k, r
  <1>3. \A i \in 1 .. k : /\ q[i].n \in 1 .. seen /\ q[i].n \notin l /\ q[i].str = t[q[i].n]
                          /\ \A j \in i + 1 .. k : q[i].n < q[j].n
    BY DEF Numbered, k
  <1>4. \A i \in 1 .. k, m \in Nat :
          q[i].n < m /\ m <= seen /\ (i # k => m < q[i + 1].n) => m \in l
    BY DEF Numbered, k
  <1>5. ASSUME NEW i \in 1 .. k + 1
        PROVE  /\ r[i].n \in 1 .. seen + 1 /\ r[i].n \notin l /\ r[i].str = t[r[i].n]
               /\ \A j \in i + 1 .. k + 1 : r[i].n < r[j].n
    <2>1. CASE i = k + 1
      <3>1. r[i] = p
        BY <1>1, <2>1
      <3>2. seen + 1 \notin l
        OBVIOUS
      <3>3. i + 1 .. k + 1 = {}
        BY <1>1, <2>1
      <3> QED  BY <3>1, <3>2, <3>3
    <2>2. CASE i \in 1 .. k
      <3>1. r[i] = q[i] /\ q[i].n \in 1 .. seen /\ q[i].n \notin l /\ q[i].str = t[q[i].n]
        BY <1>1, <1>3, <2>2
      <3>2. ASSUME NEW j \in i + 1 .. k + 1 PROVE r[i].n < r[j].n
        <4>1. CASE j = k + 1
          <5>1. r[j] = p
            BY <1>1, <4>1
          <5> QED  BY <3>1, <5>1
        <4>2. CASE j # k + 1
          <5>1. j \in i + 1 .. k /\ j \in 1 .. k
            BY <1>1, <2>2, <4>2
          <5>2. r[j] = q[j] /\ q[i].n < q[j].n
            BY <1>1, <1>3, <2>2, <5>1
          <5> QED  BY <3>1, <5>2
        <4> QED  BY <4>1, <4>2
      <3>3. q[i].n \in 1 .. seen + 1
        BY <3>1
      <3> QED  BY <3>1, <3>2, <3>3
    <2>3. i = k + 1 \/ i \in 1 .. k
      BY <1>1
    <2> QED  BY <2>1, <2>2, <2>3
  <1>6. ASSUME NEW i \in 1 .. k + 1, NEW m \in Nat, r[i].n < m, m <= seen + 1, i # k + 1 => m < r[i + 1].n
        PROVE  m \in l
    <2>1. CASE i = k + 1
      <3>1. r[i] = p
        BY <1>1, <2>1
      <3> QED  BY <1>6, <3>1
    <2>2. CASE i = k /\ k # 0
      <3>1. r[i] = q[i] /\ r[i + 1] = p /\ i \in 1 .. k /\ i # k + 1
        BY <1>1, <2>2
      <3>2. q[i].n < m /\ m < seen + 1
        BY <1>6, <3>1
      <3>3. m <= seen
        BY <3>2
      <3> QED  BY <1>4, <2>2, <3>1, <3>2, <3>3
    <2>3. CASE i \in 1 .. k /\ i # k
      <3>1. i + 1 \in 1 .. k /\ i # k + 1
        BY <1>1, <2>3
      <3>2. r[i] = q[i] /\ r[i + 1] = q[i + 1]
        BY <1>1, <2>3, <3>1
      <3>3. q[i].n < m /\ m < q[i + 1].n
        BY <1>6, <3>1, <3>2
      <3>4. q[i + 1].n \in 1 .. seen
        BY <1>3, <3>1
      <3>5. m <= seen
        BY <3>3, <3>4
      <3> QED  BY <1>4, <2>3, <3>3, <3>5
    <2>4. i = k + 1 \/ (i = k /\ k # 0) \/ (i \in 1 .. k /\ i # k)
      BY <1>1
    <2> QED  BY <2>1, <2>2, <2>3, <2>4
  <1>7. Numbered(r, seen + 1, l, t)
    BY <1>1, <1>5, <1>6 DEF Numbered
  <1>8. Before(r, seen + 1) = Before(q, seen)
    <2>0. r # <<>>
      BY <1>1
    <2>1. CASE q = <<>>
      <3>1. r[1] = p
        BY <1>1, <2>1 DEF k
      <3> QED  BY <2>0, <2>1, <3>1 DEF Before
    <2>2. CASE q # <<>>
      <3>1. 1 \in 1 .. k
        BY <2>2 DEF k
      <3>2. r[1] = q[1]
        BY <1>1, <3>1
      <3> QED  BY <2>0, <2>2, <3>2 DEF Before
    <2> QED  BY <2>1, <2>2
  <1> QED  BY <1>7, <1>8 DEF r

\* The same, when the buffer is full.
LEMMA NumLose ==
    ASSUME NEW t \in Seq(Seq(Chars)), NEW q \in Seq(Press), NEW seen \in Nat, seen < Len(t), NEW l,
           Numbered(q, seen, l, t), l \subseteq 1 .. seen
    PROVE  /\ Numbered(q, seen + 1, l \cup {seen + 1}, t)
           /\ Upto(Before(q, seen + 1), l \cup {seen + 1}, t) = Upto(Before(q, seen), l, t)
  <1> DEFINE k == Len(q)
             l2 == l \cup {seen + 1}
  <1>1. \A i \in 1 .. k : q[i].n \in Nat
    BY PressFields
  <1>3. \A i \in 1 .. k : /\ q[i].n \in 1 .. seen /\ q[i].n \notin l /\ q[i].str = t[q[i].n]
                          /\ \A j \in i + 1 .. k : q[i].n < q[j].n
    BY DEF Numbered
  <1>4. \A i \in 1 .. k, m \in Nat :
          q[i].n < m /\ m <= seen /\ (i # k => m < q[i + 1].n) => m \in l
    BY DEF Numbered
  <1> HIDE DEF k
  <1>5. ASSUME NEW i \in 1 .. k
        PROVE  /\ q[i].n \in 1 .. seen + 1 /\ q[i].n \notin l2 /\ q[i].str = t[q[i].n]
               /\ \A j \in i + 1 .. k : q[i].n < q[j].n
    <2>1. q[i].n \in 1 .. seen /\ q[i].n \notin l /\ q[i].str = t[q[i].n] /\ (\A j \in i + 1 .. k : q[i].n < q[j].n)
      BY <1>3
    <2>2. q[i].n \in 1 .. seen + 1 /\ q[i].n # seen + 1
      BY <2>1
    <2> QED  BY <2>1, <2>2
  <1>6. ASSUME NEW i \in 1 .. k, NEW m \in Nat, q[i].n < m, m <= seen + 1, i # k => m < q[i + 1].n
        PROVE  m \in l2
    <2>1. CASE m = seen + 1
      BY <2>1
    <2>2. CASE m # seen + 1
      <3>1. m <= seen
        BY <1>6, <2>2
      <3> QED  BY <1>4, <1>6, <3>1
    <2> QED  BY <2>1, <2>2
  <1> HIDE DEF l2
  <1>7. Numbered(q, seen + 1, l2, t)
    BY <1>5, <1>6 DEF Numbered, k
  <1>8. Upto(Before(q, seen + 1), l2, t) = Upto(Before(q, seen), l, t)
    <2>0. \A n \in 0 .. seen : Upto(n, l2, t) = Upto(n, l, t)
      <3> TAKE n \in 0 .. seen
      <3>1. \A m \in 1 .. n : (m \in l2 <=> m \in l) /\ t[m] = t[m]
        BY DEF l2
      <3> QED  BY <3>1, UptoSame
    <2>1. CASE q = <<>>
      <3>1. seen + 1 \in Nat /\ seen <= seen + 1 /\ seen + 1 <= Len(t)
        OBVIOUS
      <3>2. \A m \in Nat : seen < m /\ m <= seen + 1 => m \in l2
        BY DEF l2
      <3>3. Upto(seen + 1, l2, t) = Upto(seen, l2, t)
        BY <3>1, <3>2, UptoSkip
      <3>4. seen \in 0 .. seen
        OBVIOUS
      <3> QED  BY <2>0, <2>1, <3>3, <3>4 DEF Before
    <2>2. CASE q # <<>>
      <3>1. 1 \in 1 .. k
        BY <2>2 DEF k
      <3>2. q[1].n - 1 \in 0 .. seen
        BY <1>3, <3>1
      <3> QED  BY <2>0, <2>2, <3>2 DEF Before
    <2> QED  BY <2>1, <2>2
  <1> QED  BY <1>7, <1>8 DEF l2

\* A key press leaves the queue; l2 may have it lost.
LEMMA NumTail ==
    ASSUME NEW q \in Seq(Press), q # <<>>, NEW seen \in Nat, NEW l, NEW t, Numbered(q, seen, l, t),
           NEW l2, l \subseteq l2, l2 \subseteq l \cup {q[1].n}
    PROVE  Tail(q) \in Seq(Press) /\ Numbered(Tail(q), seen, l2, t)
  <1> DEFINE k == Len(q)
             h == k - 1
             r == Tail(q)
  <1>1. k \in Nat /\ k # 0 /\ h \in Nat /\ k = h + 1 /\ r \in Seq(Press) /\ Len(r) = h
        /\ \A i \in 1 .. h : r[i] = q[i + 1]
    BY HeadTailProperties
  <1>3. \A i \in 1 .. k : /\ q[i].n \in 1 .. seen /\ q[i].n \notin l /\ q[i].str = t[q[i].n]
                          /\ \A j \in i + 1 .. k : q[i].n < q[j].n
    BY DEF Numbered
  <1>4. \A i \in 1 .. k, m \in Nat :
          q[i].n < m /\ m <= seen /\ (i # k => m < q[i + 1].n) => m \in l
    BY DEF Numbered
  <1> HIDE DEF k, h, r
  <1>5. ASSUME NEW i \in 1 .. h
        PROVE  /\ r[i].n \in 1 .. seen /\ r[i].n \notin l2 /\ r[i].str = t[r[i].n]
               /\ \A j \in i + 1 .. h : r[i].n < r[j].n
    <2>1. i + 1 \in 1 .. k /\ i + 1 \in 1 + 1 .. k /\ 1 \in 1 .. k /\ r[i] = q[i + 1]
      BY <1>1
    <2>2. q[i + 1].n \in 1 .. seen /\ q[i + 1].n \notin l /\ q[i + 1].str = t[q[i + 1].n]
      BY <1>3, <2>1
    <2>3. q[1].n < q[i + 1].n /\ q[1].n \in Nat
      BY <1>3, <2>1
    <2>4. ASSUME NEW j \in i + 1 .. h PROVE r[i].n < r[j].n
      <3>1. j \in 1 .. h /\ j + 1 \in (i + 1) + 1 .. k
        BY <1>1
      <3>2. r[j] = q[j + 1]
        BY <1>1, <3>1
      <3>3. q[i + 1].n < q[j + 1].n
        BY <1>3, <2>1, <3>1
      <3> QED  BY <2>1, <3>2, <3>3
    <2>5. q[i + 1].n # q[1].n
      BY <2>2, <2>3
    <2> QED  BY <2>1, <2>2, <2>4, <2>5
  <1>6. ASSUME NEW i \in 1 .. h, NEW m \in Nat, r[i].n < m, m <= seen, i # h => m < r[i + 1].n
        PROVE  m \in l2
    <2>1. i + 1 \in 1 .. k /\ r[i] = q[i + 1] /\ (i # h <=> i + 1 # k)
      BY <1>1
    <2>2. i + 1 # k => m < q[(i + 1) + 1].n
      <3> SUFFICES ASSUME i + 1 # k PROVE m < q[(i + 1) + 1].n
        OBVIOUS
      <3>1. i + 1 \in 1 .. h
        BY <1>1
      <3>2. r[i + 1] = q[(i + 1) + 1]
        BY <1>1, <3>1
      <3> QED  BY <1>6, <2>1, <3>2
    <2>3. m \in l
      BY <1>4, <1>6, <2>1, <2>2
    <2> QED  BY <2>3
  <1>7. Numbered(r, seen, l2, t)
    BY <1>1, <1>5, <1>6 DEF Numbered
  <1> QED  BY <1>1, <1>7 DEF r

\* Everything between the first key press of the queue and the next was lost.
LEMMA NumGap ==
    ASSUME NEW q \in Seq(Press), q # <<>>, NEW seen \in Nat, NEW l, NEW t, Numbered(q, seen, l, t)
    PROVE  /\ q[1].n \in 1 .. seen /\ q[1].n \notin l /\ q[1].str = t[q[1].n]
           /\ Before(Tail(q), seen) \in q[1].n .. seen
           /\ \A m \in Nat : q[1].n < m /\ m <= Before(Tail(q), seen) => m \in l
  <1> DEFINE k == Len(q)
             h == k - 1
             r == Tail(q)
  <1>1. k \in Nat /\ k # 0 /\ h \in Nat /\ k = h + 1 /\ r \in Seq(Press) /\ Len(r) = h
        /\ \A i \in 1 .. h : r[i] = q[i + 1]
    BY HeadTailProperties
  <1>3. \A i \in 1 .. k : /\ q[i].n \in 1 .. seen /\ q[i].n \notin l /\ q[i].str = t[q[i].n]
                          /\ \A j \in i + 1 .. k : q[i].n < q[j].n
    BY DEF Numbered
  <1>4. \A i \in 1 .. k, m \in Nat :
          q[i].n < m /\ m <= seen /\ (i # k => m < q[i + 1].n) => m \in l
    BY DEF Numbered
  <1> HIDE DEF k, h, r
  <1>5. 1 \in 1 .. k /\ q[1].n \in 1 .. seen /\ q[1].n \notin l /\ q[1].str = t[q[1].n]
    <2>1. 1 \in 1 .. k
      BY <1>1
    <2> QED  BY <1>3, <2>1
  <1>6. CASE r = <<>>
    <2>1. k = 1
      BY <1>1, <1>6
    <2>2. Before(r, seen) = seen
      BY <1>6 DEF Before
    <2>3. \A m \in Nat : q[1].n < m /\ m <= seen => m \in l
      BY <1>4, <1>5, <2>1
    <2> QED  BY <1>5, <2>2, <2>3 DEF r
  <1>7. CASE r # <<>>
    <2>1. k # 1 /\ 1 \in 1 .. h /\ 1 + 1 \in 1 .. k /\ 1 + 1 \in 1 + 1 .. k
      BY <1>1, <1>7
    <2>2. Before(r, seen) = q[1 + 1].n - 1
      <3>1. r[1] = q[1 + 1]
        BY <1>1, <2>1
      <3> QED  BY <1>7, <3>1 DEF Before
    <2>3. q[1 + 1].n \in 1 .. seen /\ q[1].n < q[1 + 1].n
      BY <1>3, <1>5, <2>1
    <2>4. ASSUME NEW m \in Nat, q[1].n < m, m <= q[1 + 1].n - 1 PROVE m \in l
      <3>1. m < q[1 + 1].n /\ m <= seen
        BY <2>3, <2>4
      <3> QED  BY <1>4, <1>5, <2>4, <3>1
    <2>5. q[1 + 1].n - 1 \in q[1].n .. seen
      BY <1>5, <2>3
    <2> QED  BY <1>5, <2>2, <2>4, <2>5 DEF r
  <1> QED  BY <1>6, <1>7

\* The first key press in line goes to the terminal: its text is the next one.
LEMMA UptoTaken ==
    ASSUME NEW t \in Seq(Seq(Chars)), NEW q \in Seq(Press), q # <<>>, NEW seen \in Nat, seen <= Len(t), NEW l,
           Numbered(q, seen, l, t)
    PROVE  Upto(Before(Tail(q), seen), l, t) = Upto(Before(q, seen), l, t) \o Tag(q[1].n, q[1].str)
  <1> DEFINE a == q[1].n
             b == Before(Tail(q), seen)
             n == a - 1
  <1>1. /\ a \in 1 .. seen /\ a \notin l /\ q[1].str = t[a] /\ b \in a .. seen
        /\ \A m \in Nat : a < m /\ m <= b => m \in l
    BY NumGap
  <1>2. Before(q, seen) = n
    BY DEF Before
  <1> HIDE DEF b
  <1>3. n \in Nat /\ n < Len(t) /\ n + 1 = a /\ a \in Nat /\ b \in Nat /\ a <= b /\ b <= Len(t)
    BY <1>1
  <1> HIDE DEF n, a
  <1>4. Upto(n + 1, l, t) = Upto(n, l, t) \o Seg(n + 1, l, t)
    BY <1>3, UptoStep
  <1>5. Seg(n + 1, l, t) = Tag(a, t[a])
    BY <1>1, <1>3 DEF Seg
  <1>6. Upto(b, l, t) = Upto(a, l, t)
    BY <1>1, <1>3, UptoSkip
  <1> QED  BY <1>1, <1>2, <1>3, <1>4, <1>5, <1>6 DEF a, b

\* The first key press in line is dropped: nothing is added, and it counts as lost.
LEMMA UptoDropped ==
    ASSUME NEW t \in Seq(Seq(Chars)), NEW q \in Seq(Press), q # <<>>, NEW seen \in Nat, seen <= Len(t), NEW l,
           Numbered(q, seen, l, t)
    PROVE  Upto(Before(Tail(q), seen), l \cup {q[1].n}, t) = Upto(Before(q, seen), l, t)
  <1> DEFINE a == q[1].n
             b == Before(Tail(q), seen)
             n == a - 1
             l2 == l \cup {a}
  <1>1. /\ a \in 1 .. seen /\ b \in a .. seen
        /\ \A m \in Nat : a < m /\ m <= b => m \in l
    BY NumGap
  <1>2. Before(q, seen) = n
    BY DEF Before
  <1> HIDE DEF b
  <1>3. n \in Nat /\ n + 1 = a /\ a \in Nat /\ b \in Nat /\ n <= b /\ b <= Len(t)
    BY <1>1
  <1> HIDE DEF n, a
  <1>4. \A m \in Nat : n < m /\ m <= b => m \in l2
    <2> SUFFICES ASSUME NEW m \in Nat, n < m, m <= b, m # a PROVE m \in l
      OBVIOUS
    <2>1. a < m
      BY <1>3
    <2> QED  BY <1>1, <2>1
  <1> HIDE DEF l2
  <1>5. Upto(b, l2, t) = Upto(n, l2, t)
    BY <1>3, <1>4, UptoSkip
  <1>6. Upto(n, l2, t) = Upto(n, l, t)
    <2>1. \A m \in 1 .. n : (m \in l2 <=> m \in l) /\ t[m] = t[m]
      BY <1>3 DEF l2
    <2> QED  BY <2>1, UptoSame
  <1> QED  BY <1>2, <1>5, <1>6 DEF a, b, l2

TagOf == [p \in Press |-> Tag(p.n, p.str)]

\* The bytes of the key presses in line.
LEMMA BytesOps ==
    /\ \A q \in Seq(Press) : BytesOf(q) \in Seq(ByteSet)
    /\ \A q \in Seq(Press) : q # <<>> =>
         /\ Tail(q) \in Seq(Press) /\ Head(q) \in Press /\ Head(q) = q[1]
         /\ BytesOf(q) = Tag(q[1].n, q[1].str) \o BytesOf(Tail(q))
    /\ \A q, r \in Seq(Press) : q \o r \in Seq(Press) /\ BytesOf(q \o r) = BytesOf(q) \o BytesOf(r)
    /\ BytesOf(<<>>) = <<>>
  <1>1. \A p \in Press : Tag(p.n, p.str) \in Seq(ByteSet)
    BY TagType DEF Press
  <1>2. TagOf \in Maps(Press, Seq(ByteSet)) /\ \A p \in Press : TagOf[p] = Tag(p.n, p.str)
    BY <1>1 DEF TagOf, Maps
  <1>3. ASSUME NEW q \in Seq(Press) PROVE BytesOf(q) = Spread(TagOf, q)
    <2>1. DOMAIN q = 1 .. Len(q) /\ \A i \in 1 .. Len(q) : q[i] \in Press
      OBVIOUS
    <2>2. \A i \in 1 .. Len(q) : Tagged(q[i]) = TagOf[q[i]]
      BY <1>2, <2>1 DEF Tagged, Tag
    <2>3. [i \in DOMAIN q |-> Tagged(q[i])] = Each(TagOf, q)
      BY <2>1, <2>2 DEF Each
    <2> QED  BY <2>3 DEF BytesOf, Spread
  <1>4. /\ \A s \in Seq(Press) : Spread(TagOf, s) \in Seq(ByteSet)
        /\ \A s, r \in Seq(Press) : Spread(TagOf, s \o r) = Spread(TagOf, s) \o Spread(TagOf, r)
        /\ \A x \in Press : Spread(TagOf, <<x>>) = TagOf[x]
        /\ Spread(TagOf, <<>>) = <<>>
    BY <1>2, SpreadOps
  <1>5. ASSUME NEW q \in Seq(Press), NEW r \in Seq(Press)
        PROVE  q \o r \in Seq(Press) /\ BytesOf(q \o r) = BytesOf(q) \o BytesOf(r)
    <2>1. q \o r \in Seq(Press)
      BY ConcatProperties
    <2> QED  BY <1>3, <1>4, <2>1
  <1>6. ASSUME NEW q \in Seq(Press), q # <<>>
        PROVE  /\ Tail(q) \in Seq(Press) /\ Head(q) \in Press /\ Head(q) = q[1]
               /\ BytesOf(q) = Tag(q[1].n, q[1].str) \o BytesOf(Tail(q))
    <2> DEFINE x == Head(q)
               u == <<x>>
               v == Tail(q)
    <2>1. x \in Press /\ v \in Seq(Press) /\ q = u \o v
      BY <1>6, SplitEnds
    <2>2. x = q[1]
      BY <1>6
    <2> HIDE DEF x, v
    <2>3. u \in Seq(Press) /\ Spread(TagOf, u) = Tag(x.n, x.str)
      BY <1>2, <1>4, <2>1
    <2> HIDE DEF u
    <2>4. Spread(TagOf, u \o v) = Spread(TagOf, u) \o Spread(TagOf, v)
      BY <1>4, <2>1, <2>3
    <2>5. BytesOf(q) = Tag(x.n, x.str) \o BytesOf(v)
      BY <1>3, <2>1, <2>3, <2>4
    <2> QED  BY <2>1, <2>2, <2>5 DEF x, v
  <1>7. <<>> \in Seq(Press)
    OBVIOUS
  <1> QED  BY <1>3, <1>4, <1>5, <1>6, <1>7

\* What was given out and what waits is what was typed.
LEMMA UptoEnd ==
    ASSUME NEW t \in Seq(Seq(Chars)), NEW seen \in Nat, seen <= Len(t), NEW l
    PROVE  \A q \in Seq(Press) : Numbered(q, seen, l, t) =>
              Upto(Before(q, seen), l, t) \o BytesOf(q) = Upto(seen, l, t)
  <1> DEFINE Good(q) == Upto(Before(q, seen), l, t) \o BytesOf(q) = Upto(seen, l, t)
             S == {n \in Nat : \A q \in Seq(Press) : Len(q) = n /\ Numbered(q, seen, l, t) => Good(q)}
  <1>1. 0 \in S
    <2> SUFFICES ASSUME NEW q \in Seq(Press), Len(q) = 0 PROVE Good(q)
      OBVIOUS
    <2>1. q = <<>>
      OBVIOUS
    <2>2. seen \in 0 .. Len(t)
      OBVIOUS
    <2>3. Upto(seen, l, t) \in Seq(ByteSet)
      BY <2>2, SegsType
    <2>4. Upto(seen, l, t) \o <<>> = Upto(seen, l, t)
      BY <2>3, ConcatEmptySeq
    <2> QED  BY <2>1, <2>4, BytesOps DEF Before
  <1>2. ASSUME NEW n \in Nat, n \in S PROVE n + 1 \in S
    <2> SUFFICES ASSUME NEW q \in Seq(Press), Len(q) = n + 1, Numbered(q, seen, l, t) PROVE Good(q)
      OBVIOUS
    <2> DEFINE r == Tail(q)
               G == Upto(Before(q, seen), l, t)
               g == Tag(q[1].n, q[1].str)
               B == BytesOf(r)
    <2>1. q # <<>> /\ r \in Seq(Press) /\ Len(r) = n
      BY HeadTailProperties
    <2>2. Numbered(r, seen, l, t)
      BY <2>1, NumTail
    <2>3. Good(r)
      <3> HIDE DEF r
      <3> QED  BY <1>2, <2>1, <2>2
    <2>4. Upto(Before(r, seen), l, t) = G \o g
      BY <2>1, UptoTaken
    <2>5. BytesOf(q) = g \o B /\ B \in Seq(ByteSet)
      BY <2>1, BytesOps
    <2>6. G \in Seq(ByteSet)
      <3>1. Before(q, seen) \in 0 .. seen
        BY NumType
      <3>2. Before(q, seen) \in 0 .. Len(t)
        BY <3>1
      <3> QED  BY <3>2, SegsType
    <2>7. g \in Seq(ByteSet)
      <3>1. 1 \in 1 .. Len(q)
        BY <2>1
      <3>2. q[1].n \in Nat /\ q[1].str \in Seq(Chars)
        BY <3>1, PressFields
      <3> QED  BY <3>2, TagType
    <2> HIDE DEF G, g, B, r
    <2>8. (G \o g) \o B = G \o (g \o B)
      BY ONLY <2>5, <2>6, <2>7, ConcatAssociative
    <2>9. (G \o g) \o B = Upto(seen, l, t)
      BY <2>3, <2>4 DEF B
    <2> QED  BY <2>5, <2>8, <2>9 DEF G
  <1> HIDE DEF S
  <1>3. Nat \subseteq S
    BY <1>1, <1>2, NatInduct
  <1> SUFFICES ASSUME NEW q \in Seq(Press), Numbered(q, seen, l, t) PROVE Good(q)
    OBVIOUS
  <1>4. Len(q) \in Nat
    OBVIOUS
  <1>5. Len(q) \in S
    BY <1>3, <1>4
  <1> HIDE DEF Good
  <1> QED  BY <1>5 DEF S

\* The order in which cores are listed has every core.
LEMMA CoreList ==
    /\ Cardinality(Cores) \in Nat
    /\ SetToSeq(Cores) \in [1 .. Cardinality(Cores) -> Cores]
    /\ \A i, j \in 1 .. Cardinality(Cores) : SetToSeq(Cores)[i] = SetToSeq(Cores)[j] => i = j
    /\ \A c \in Cores : \E i \in 1 .. Cardinality(Cores) : SetToSeq(Cores)[i] = c
  <1> DEFINE n == Cardinality(Cores)
             f == SetToSeq(Cores)
  <1>0. IsFiniteSet(Cores)
    BY InputAssumption
  <1>1. n \in Nat /\ ExistsBijection(1 .. n, Cores)
    BY <1>0, FS_CardinalityType
  <1>2. \E g \in [1 .. n -> Cores] : IsInjective(g)
    BY <1>1 DEF ExistsBijection, Bijection, Injection
  <1>3. f \in [1 .. n -> Cores] /\ IsInjective(f)
    BY <1>2 DEF SetToSeq
  <1> HIDE DEF f
  <1>4. f \in Injection(1 .. n, Cores)
    BY <1>3 DEF Injection
  <1>5. Cardinality(1 .. n) = n
    <2>1. Cardinality(1 .. n) = IF 1 > n THEN 0 ELSE n - 1 + 1
      BY <1>1, FS_Interval
    <2> QED  BY <1>1, <2>1
  <1>6. f \in Surjection(1 .. n, Cores)
    BY <1>0, <1>4, <1>5, FS_Injection
  <1>7. \A i, j \in 1 .. n : f[i] = f[j] => i = j
    BY <1>3 DEF IsInjective
  <1>8. \A c \in Cores : \E i \in 1 .. n : f[i] = c
    BY <1>6 DEF Surjection
  <1> QED  BY <1>1, <1>3, <1>7, <1>8 DEF f

----------------------------------------------------------------------------
(* Key presses reach readers in order. *)

\* No soft interrupt, no bytes in one.
LEMMA SoftNone ==
    ASSUME \A c \in Cores : soft[c] = <<>>
    PROVE  SoftBytes = <<>>
  <1> DEFINE n == Cardinality(Cores)
             f == SetToSeq(Cores)
             g == [i \in 1 .. n |-> BytesOf(soft[f[i]])]
             B == Seq(ByteSet)
  <1>1. n \in Nat /\ \A i \in 1 .. n : f[i] \in Cores
    BY CoreList
  <1> HIDE DEF n, f
  <1>2. \A i \in 1 .. n : BytesOf(soft[f[i]]) = <<>>
    BY <1>1, BytesOps
  <1>3. <<>> \in B
    OBVIOUS
  <1> HIDE DEF B
  <1>4. g \in [1 .. n -> B] /\ \A i \in 1 .. n : g[i] = <<>>
    BY <1>2, <1>3
  <1> HIDE DEF g
  <1>5. g \in Seq(B) /\ Len(g) = n
    BY <1>1, <1>4, SeqDef, LenProperties
  <1>6. FlattenSeq(g) = <<>>
    BY <1>4, <1>5, FlattenNone DEF B
  <1> QED  BY <1>6 DEF SoftBytes, g, n, f

\* Only one core has a soft interrupt queued.
LEMMA SoftOne ==
    ASSUME soft \in [Cores -> Seq(Press)], NEW c \in Cores, \A d \in Cores : d # c => soft[d] = <<>>
    PROVE  SoftBytes = BytesOf(soft[c])
  <1> DEFINE n == Cardinality(Cores)
             f == SetToSeq(Cores)
             g == [i \in 1 .. n |-> BytesOf(soft[f[i]])]
             B == Seq(ByteSet)
  <1>1. n \in Nat /\ (\A i \in 1 .. n : f[i] \in Cores) /\ (\A i, j \in 1 .. n : f[i] = f[j] => i = j)
        /\ \E i \in 1 .. n : f[i] = c
    BY CoreList
  <1> HIDE DEF n, f
  <1>2. PICK j \in 1 .. n : f[j] = c
    BY <1>1
  <1>3. \A i \in 1 .. n : BytesOf(soft[f[i]]) \in B /\ (i # j => BytesOf(soft[f[i]]) = <<>>)
    <2> TAKE i \in 1 .. n
    <2>1. soft[f[i]] \in Seq(Press)
      BY <1>1
    <2>2. i # j => soft[f[i]] = <<>>
      BY <1>1, <1>2
    <2> QED  BY <2>1, <2>2, BytesOps
  <1> HIDE DEF B
  <1>4. g \in [1 .. n -> B] /\ g[j] = BytesOf(soft[c]) /\ \A i \in 1 .. n : i # j => g[i] = <<>>
    BY <1>2, <1>3
  <1> HIDE DEF g
  <1>5. g \in Seq(B) /\ Len(g) = n
    BY <1>1, <1>4, SeqDef, LenProperties
  <1>6. FlattenSeq(g) = g[j]
    BY <1>4, <1>5, FlattenOne DEF B
  <1> QED  BY <1>4, <1>6 DEF SoftBytes, g, n, f

\* The manager has no key press in hand, and listens once it has a keyboard.
Idle == /\ \A c \in Cores : soft[c] = <<>>
        /\ kbd.buf.len = 0 /\ kbd.listeners = IF attached THEN 1 ELSE 0
\* Core c is about to hand it key press p.
Busy(c, p) == /\ attached /\ kbd.listeners = 0 /\ soft[c] = <<p>>
              /\ \A d \in Cores : d # c => soft[d] = <<>>
Line(q) == \/ Idle /\ q = <<>>
           \/ \E c \in Cores, p \in Press : Busy(c, p) /\ q = <<p>> \o Presses!Contents(kbd.buf)
Delivered == got \o Bytes!Contents(tty.buf)

TtyInv == /\ got \in Seq(ByteSet) /\ ByteQueue(tty.buf) /\ tty.requests \in Seq(Request)
          /\ tty.requests # <<>> => tty.buf.len = 0

OrderInv ==
  /\ soft \in [Cores -> Seq(Press)] /\ DqOK(kbd.buf, KbdCap, Press, NoPress)
  /\ kbd.seen \in Nat /\ kbd.seen <= Len(typed) /\ lost \subseteq 1 .. kbd.seen
  /\ TtyInv
  /\ \E q \in Seq(Press) : /\ Line(q) /\ Numbered(q, kbd.seen, lost, typed)
                           /\ Delivered = Upto(Before(q, kbd.seen), lost, typed)

\* A new ArrayDeque.
LEMMA DqNew ==
    ASSUME NEW n \in Nat, n # 0, NEW S, NEW u
    PROVE  DqOK([head |-> 0, len |-> 0, data |-> [i \in 0 .. n - 1 |-> u]], n, S, u)
  <1> DEFINE d == [head |-> 0, len |-> 0, data |-> [i \in 0 .. n - 1 |-> u]]
  <1>1. d \in DqType(n, S \cup {u}) /\ d.len = 0
    BY DEF DqType
  <1> HIDE DEF d
  <1>2. 0 .. d.len - 1 = {}
    BY <1>1
  <1> QED  BY <1>1, <1>2 DEF DqOK, d

\* Nothing has been typed at first.
LEMMA InitOrder == Init => OrderInv
  <1> SUFFICES ASSUME Init PROVE OrderInv
    OBVIOUS
  <1>1. kbd.buf = Presses!New /\ kbd.listeners = 0 /\ kbd.seen = 0
    BY DEF Init, KbdInit
  <1>2. DqOK(kbd.buf, KbdCap, Press, NoPress) /\ kbd.buf.len = 0
    <2>1. KbdCap \in Nat /\ KbdCap # 0
      BY InputAssumption
    <2>2. DqOK(Presses!New, KbdCap, Press, NoPress)
      BY <2>1, DqNew DEF Presses!New
    <2> QED  BY <1>1, <2>2 DEF Presses!New
  <1>3. tty.buf = Bytes!New /\ tty.requests = <<>> /\ got = <<>>
    BY DEF Init, TtyInit
  <1>4. ByteQueue(tty.buf) /\ tty.buf.len = 0
    <2>1. TtyCap \in Nat /\ TtyCap # 0
      BY InputAssumption
    <2>2. DqOK(Bytes!New, TtyCap, ByteSet, NoByte)
      BY <2>1, DqNew DEF Bytes!New
    <2> QED  BY <1>3, <2>2 DEF Bytes!New, ByteQueue
  <1>5. TtyInv
    BY <1>3, <1>4 DEF TtyInv
  <1>6. soft \in [Cores -> Seq(Press)] /\ (\A c \in Cores : soft[c] = <<>>) /\ ~attached /\ lost = {}
        /\ typed = <<>>
    BY DEF Init
  <1>7. Delivered = <<>>
    <2>1. Bytes!Contents(tty.buf) = <<>>
      BY <1>4, ByteOps
    <2> QED  BY <1>3, <2>1 DEF Delivered
  <1> DEFINE q == <<>>
  <1>8. q \in Seq(Press) /\ Line(q)
    BY <1>1, <1>2, <1>6 DEF Line, Idle
  <1>9. Numbered(q, kbd.seen, lost, typed)
    <2>1. 1 .. Len(q) = {}
      OBVIOUS
    <2> HIDE DEF q
    <2> QED  BY <2>1 DEF Numbered
  <1>10. Upto(Before(q, kbd.seen), lost, typed) = <<>>
    <2>1. typed \in Seq(Seq(Chars))
      BY <1>6
    <2> QED  BY <1>1, <2>1, UptoNone DEF Before
  <1>11. kbd.seen \in Nat /\ kbd.seen <= Len(typed) /\ lost \subseteq 1 .. kbd.seen
    BY <1>1, <1>6
  <1> HIDE DEF q
  <1> QED  BY <1>2, <1>5, <1>6, <1>7, <1>8, <1>9, <1>10, <1>11 DEF OrderInv

\* From the invariant to the property.
LEMMA OrderImplies == DriverInv /\ OrderInv => KeysInOrder
  <1> SUFFICES ASSUME DriverInv, OrderInv PROVE KeysInOrder
    OBVIOUS
  <1> DEFINE n == kbd.seen
             C == Presses!Contents(kbd.buf)
             D == Bytes!Contents(tty.buf)
  <1>1. PICK q \in Seq(Press) : /\ Line(q) /\ Numbered(q, n, lost, typed)
                                /\ Delivered = Upto(Before(q, n), lost, typed)
    BY DEF OrderInv
  <1>2. n \in Nat /\ n <= Len(typed) /\ typed \in Seq(Seq(Chars))
    BY DEF OrderInv, DriverInv
  <1>3. Delivered \o BytesOf(q) = Upto(n, lost, typed)
    BY <1>1, <1>2, UptoEnd
  <1>4. C \in Seq(Press) /\ (kbd.buf.len = 0 => C = <<>>)
    BY PressOps DEF OrderInv
  <1>5. soft \in [Cores -> Seq(Press)]
    BY DEF OrderInv
  <1>6. BytesOf(q) = SoftBytes \o BytesOf(C) /\ SoftBytes \in Seq(ByteSet)
    <2>1. CASE Idle /\ q = <<>>
      <3>1. SoftBytes = <<>>
        BY <2>1, SoftNone DEF Idle
      <3>2. C = <<>>
        BY <1>4, <2>1 DEF Idle
      <3>3. <<>> \o <<>> = <<>> /\ <<>> \in Seq(ByteSet)
        OBVIOUS
      <3> QED  BY <2>1, <3>1, <3>2, <3>3, BytesOps
    <2>2. ASSUME NEW c \in Cores, NEW p \in Press, Busy(c, p), q = <<p>> \o C
          PROVE  BytesOf(q) = SoftBytes \o BytesOf(C) /\ SoftBytes \in Seq(ByteSet)
      <3> DEFINE u == <<p>>
      <3>1. u \in Seq(Press) /\ soft[c] = u
        BY <2>2 DEF Busy
      <3> HIDE DEF u, C
      <3>2. SoftBytes = BytesOf(u)
        BY <1>5, <2>2, <3>1, SoftOne DEF Busy
      <3>3. BytesOf(u \o C) = BytesOf(u) \o BytesOf(C)
        BY <1>4, <3>1, BytesOps
      <3>4. BytesOf(u) \in Seq(ByteSet)
        BY <3>1, BytesOps
      <3> QED  BY <2>2, <3>2, <3>3, <3>4 DEF u
    <2> QED  BY <1>1, <2>1, <2>2 DEF Line
  <1>7. got \in Seq(ByteSet) /\ D \in Seq(ByteSet) /\ BytesOf(C) \in Seq(ByteSet)
    BY <1>4, ByteOps, BytesOps DEF OrderInv, TtyInv
  <1>8. Typed(1 .. n \ lost) = Upto(n, lost, typed)
    <2>1. \A m \in 1 .. n : (IF m \in 1 .. n \ lost THEN [i \in DOMAIN typed[m] |-> <<m, typed[m][i]>>] ELSE <<>>)
                              = Seg(m, lost, typed)
      BY DEF Seg, Tag
    <2>2. [m \in 1 .. n |-> IF m \in 1 .. n \ lost THEN [i \in DOMAIN typed[m] |-> <<m, typed[m][i]>>] ELSE <<>>]
            = Segs(n, lost, typed)
      BY <2>1 DEF Segs
    <2> QED  BY <2>2 DEF Typed, Upto
  <1> DEFINE E == BytesOf(C)
             W == SoftBytes
  <1>9. got \o D \o W \o E = (got \o D) \o (W \o E)
    <2>1. got \in Seq(ByteSet) /\ D \in Seq(ByteSet) /\ W \in Seq(ByteSet) /\ E \in Seq(ByteSet)
      BY <1>6, <1>7
    <2> HIDE DEF D, E, W
    <2> DEFINE G == got \o D
    <2>2. G \in Seq(ByteSet)
      BY ONLY <2>1, ConcatProperties DEF G
    <2> HIDE DEF G
    <2>3. (G \o W) \o E = G \o (W \o E)
      <3>1. G \in Seq(ByteSet) /\ W \in Seq(ByteSet) /\ E \in Seq(ByteSet)
        BY <2>1, <2>2
      <3> QED  BY ONLY <3>1, ConcatAssociative
    <2> QED  BY <2>3 DEF G
  <1>10. got \o D \o W \o E = Typed(1 .. n \ lost)
    BY <1>3, <1>6, <1>8, <1>9 DEF Delivered
  <1> QED  BY <1>10 DEF KeysInOrder, OrderInv, TtyInv

\* A key press for which the read queue has room: its bytes come next.
LEMMA PushTty ==
    ASSUME TtyInv, NEW p \in Press, HasRoom(Len(p.str)), HandleKeyPressed(p)
    PROVE  TtyInv' /\ Delivered' = Delivered \o Tag(p.n, p.str)
  <1> DEFINE q == [buf |-> tty.buf, requests |-> tty.requests, out |-> <<>>]
             bs == Tag(p.n, p.str)
             r == PushBytes(q, bs)
  <1>1. bs \in Seq(ByteSet) /\ Len(bs) = Len(p.str) /\ Len(bs) \in Nat /\ Tagged(p) = bs
    <2>1. p.n \in Nat /\ p.str \in Seq(Chars)
      BY DEF Press
    <2>2. bs \in Seq(ByteSet) /\ Len(bs) = Len(p.str)
      BY <2>1, TagType
    <2> QED  BY <2>1, <2>2 DEF Tagged, Tag
  <1>2. tty.buf.len \in Nat /\ tty.buf \in DqType(TtyCap, ByteSet \cup {NoByte})
    <2>1. ByteQueue(tty.buf)
      BY DEF TtyInv
    <2>2. tty.buf \in DqType(TtyCap, ByteSet \cup {NoByte})
      BY <2>1 DEF ByteQueue, DqOK
    <2>3. tty.buf.len \in Nat
      BY <2>1, ByteOps
    <2> QED  BY <2>2, <2>3
  <1>3. QueueOK(q)
    <2>1. q \in QueueType
      BY <1>2 DEF QueueType, TtyInv
    <2> QED  BY <2>1 DEF QueueOK, TtyInv
  <1> HIDE DEF bs
  <1>4. q.buf.len + Len(bs) <= TtyCap
    <2>1. TtyCap \in Nat
      BY InputAssumption
    <2> QED  BY <1>1, <1>2, <2>1 DEF HasRoom
  <1>5. tty' = [buf |-> r.buf, requests |-> r.requests] /\ got' = got \o r.out
    BY <1>1 DEF HandleKeyPressed
  <1>q. q.out = <<>> /\ q.buf = tty.buf
    OBVIOUS
  <1> HIDE DEF q
  <1>6. QueueOK(r) /\ Given(r) = Given(q) \o bs
    BY <1>1, <1>3, <1>4, PushBytesOK
  <1> HIDE DEF r
  <1>7. r.out \in Seq(ByteSet) /\ r.requests \in Seq(Request) /\ ByteQueue(r.buf)
        /\ (r.requests # <<>> => r.buf.len = 0)
    BY <1>6 DEF QueueOK, QueueType
  <1>8. tty'.buf = r.buf /\ tty'.requests = r.requests
    BY <1>5
  <1> DEFINE G == got
             O == r.out
             C == Bytes!Contents(tty.buf)
             D == Bytes!Contents(r.buf)
  <1>9. G \in Seq(ByteSet) /\ O \in Seq(ByteSet) /\ C \in Seq(ByteSet) /\ D \in Seq(ByteSet) /\ bs \in Seq(ByteSet)
    BY <1>1, <1>7, ByteOps DEF TtyInv
  <1>10. O \o D = C \o bs
    <2>1. <<>> \o C = C
      BY <1>9, ByteCat
    <2> QED  BY <1>6, <1>q, <2>1 DEF Given
  <1> HIDE DEF C, D, G, O
  <1>11. (G \o O) \o D = (G \o C) \o bs /\ G \o O \in Seq(ByteSet)
    <2>1. (G \o O) \o D = G \o (O \o D) /\ G \o O \in Seq(ByteSet)
      BY ONLY <1>9, ByteCat
    <2>2. (G \o C) \o bs = G \o (C \o bs)
      BY ONLY <1>9, ByteCat
    <2> QED  BY <1>10, <2>1, <2>2
  <1>12. TtyInv'
    BY <1>5, <1>7, <1>8, <1>11 DEF TtyInv, G, O
  <1>13. Delivered' = (G \o O) \o D
    BY <1>5, <1>8 DEF Delivered, G, O, D
  <1> QED  BY <1>11, <1>12, <1>13 DEF Delivered, G, C, bs

\* A read moves bytes from the buffer to the reader and leaves their order.
LEMMA ReadKeeps ==
    ASSUME TtyInv, NEW r \in Readers, NEW size \in Sizes, Read(r, size)
    PROVE  TtyInv' /\ Delivered' = Delivered
  <1> DEFINE d == tty.buf
             n == Taken(size)
             e == PopBytes(d, n)
             C == Bytes!Contents(d)
             S == SubSeq(C, 1, n)
             E == Bytes!Contents(e)
             rq == [reader |-> r, size |-> size, pos |-> n]
  <1>1. d.len \in Nat /\ ByteQueue(d)
    BY ByteOps DEF TtyInv
  <1>2. size \in Nat
    BY InputAssumption
  <1>3. n \in 0 .. d.len /\ (n < size => n = d.len) /\ n \in Nat
    BY <1>1, <1>2 DEF Taken
  <1>4. got' = got \o S /\ tty'.buf = e
        /\ tty'.requests = IF n < size THEN Append(tty.requests, rq) ELSE tty.requests
    BY DEF Read
  <1>5. rq \in Request
    BY <1>2, <1>3 DEF Request
  <1> HIDE DEF n, d, rq
  <1>6. ByteQueue(e) /\ e.len = d.len - n /\ S \in Seq(ByteSet) /\ S \o E = C
    BY <1>1, <1>3, PopBytesOK
  <1> HIDE DEF e, S
  <1>7. E \in Seq(ByteSet) /\ got \in Seq(ByteSet) /\ tty.requests \in Seq(Request)
    BY <1>6, ByteOps DEF TtyInv
  <1> HIDE DEF E, C
  <1>8. (got \o S) \o E = got \o (S \o E) /\ got \o S \in Seq(ByteSet)
    <2>1. got \in Seq(ByteSet) /\ S \in Seq(ByteSet) /\ E \in Seq(ByteSet)
      BY <1>6, <1>7
    <2> QED  BY ONLY <2>1, ByteCat
  <1>9. tty'.requests \in Seq(Request) /\ (tty'.requests # <<>> => e.len = 0)
    <2>1. CASE n < size
      <3>1. Append(tty.requests, rq) \in Seq(Request)
        BY ONLY <1>5, <1>7, AppendProperties
      <3> QED  BY <1>1, <1>3, <1>4, <1>6, <2>1, <3>1
    <2>2. CASE ~(n < size)
      <3>1. tty.requests # <<>> => d.len = 0
        BY DEF TtyInv, d
      <3> QED  BY <1>1, <1>3, <1>4, <1>6, <1>7, <2>2, <3>1
    <2> QED  BY <2>1, <2>2
  <1>10. TtyInv'
    BY <1>4, <1>6, <1>8, <1>9 DEF TtyInv
  <1> QED  BY <1>4, <1>6, <1>8, <1>10 DEF Delivered, E, C, d

\* Steps that touch neither presses nor terminal.
LEMMA SameOrder ==
    ASSUME OrderInv, UNCHANGED <<soft, kbd, tty, got, lost, attached, typed>>
    PROVE  OrderInv'
  <1>1. PICK q \in Seq(Press) : /\ Line(q) /\ Numbered(q, kbd.seen, lost, typed)
                                /\ Delivered = Upto(Before(q, kbd.seen), lost, typed)
    BY DEF OrderInv
  <1>2. Line(q)' /\ Delivered' = Delivered /\ TtyInv'
    BY <1>1 DEF Line, Idle, Busy, Delivered, TtyInv, OrderInv
  <1> QED  BY <1>1, <1>2 DEF OrderInv

\* A read.
LEMMA ReadOrder == ASSUME OrderInv, NEW r \in Readers, NEW size \in Sizes, ReadTty(r, size) PROVE OrderInv'
  <1>1. PICK q \in Seq(Press) : /\ Line(q) /\ Numbered(q, kbd.seen, lost, typed)
                                /\ Delivered = Upto(Before(q, kbd.seen), lost, typed)
    BY DEF OrderInv
  <1>2. UNCHANGED <<soft, kbd, lost, attached, typed>> /\ Read(r, size)
    BY DEF ReadTty, hwVars
  <1>3. TtyInv' /\ Delivered' = Delivered
    BY <1>2, ReadKeeps DEF OrderInv
  <1>4. Line(q)'
    BY <1>1, <1>2 DEF Line, Idle, Busy
  <1> QED  BY <1>1, <1>2, <1>3, <1>4 DEF OrderInv

\* The user types one more key, which the driver has not seen yet.
LEMMA MakeOrder == ASSUME DriverInv, OrderInv, NEW k, MakeKey(k) PROVE OrderInv'
  <1>1. PICK q \in Seq(Press) : /\ Line(q) /\ Numbered(q, kbd.seen, lost, typed)
                                /\ Delivered = Upto(Before(q, kbd.seen), lost, typed)
    BY DEF OrderInv
  <1>2. UNCHANGED <<soft, kbd, tty, got, lost, attached>>
    BY DEF MakeKey, osVars, ttyVars
  <1> DEFINE x == Text(k, lights, down \cap Modifiers)
             n == kbd.seen
             t == typed'
  <1>3. typed' = Append(typed, x) /\ x \in Seq(Chars) /\ typed \in Seq(Seq(Chars))
    BY TextType DEF MakeKey, DriverInv
  <1> HIDE DEF x
  <1>4. n \in Nat /\ n <= Len(typed) /\ Len(t) = Len(typed) + 1 /\ Len(typed) \in Nat
        /\ \A m \in 1 .. Len(typed) : t[m] = typed[m]
    <2>1. n \in Nat /\ n <= Len(typed)
      BY DEF OrderInv
    <2> QED  BY <1>3, <2>1
  <1>5. \A m \in 1 .. n : t[m] = typed[m]
    BY <1>4
  <1> HIDE DEF t
  <1>6. Numbered(q, n, lost, t)
    BY <1>1, <1>5 DEF Numbered
  <1>7. Before(q, n) \in 0 .. n
    BY <1>1, <1>4, NumType
  <1>8. Upto(Before(q, n), lost, typed) = Upto(Before(q, n), lost, t)
    <2>1. \A m \in 1 .. Before(q, n) : t[m] = typed[m]
      BY <1>4, <1>5, <1>7
    <2> QED  BY <2>1, UptoSame
  <1>9. Line(q)' /\ Delivered' = Delivered /\ TtyInv'
    BY <1>1, <1>2 DEF Line, Idle, Busy, Delivered, TtyInv, OrderInv
  <1> HIDE DEF n
  <1>10. kbd'.seen = n /\ kbd.seen = n /\ n <= Len(t)
    BY <1>2, <1>4 DEF n
  <1> QED  BY <1>1, <1>2, <1>6, <1>8, <1>9, <1>10 DEF OrderInv, t

\* attach_keyboard: the manager starts to listen, with nothing in the buffer.
LEMMA AttachOrder == ASSUME BootInv, DriverInv, OrderInv, Attach PROVE OrderInv'
  <1>1. CASE "keyboard" \notin has
    <2>1. UNCHANGED <<soft, kbd, tty, got, lost, attached, typed>>
      BY <1>1 DEF Attach, hwVars, ttyVars
    <2> QED  BY <2>1, SameOrder
  <1>2. CASE "keyboard" \in has
    <2>1. kbd' = NextKey(kbd) /\ attached' = TRUE /\ UNCHANGED <<soft, tty, got, lost, typed>>
      BY <1>2 DEF Attach, hwVars, ttyVars
    <2>2. ~attached
      BY DEF Attach, BootInv, IrqInv
    <2>3. PICK q \in Seq(Press) : /\ Line(q) /\ Numbered(q, kbd.seen, lost, typed)
                                  /\ Delivered = Upto(Before(q, kbd.seen), lost, typed)
      BY DEF OrderInv
    <2>4. Idle /\ q = <<>>
      BY <2>2, <2>3 DEF Line, Busy
    <2>5. kbd.buf.len = 0 /\ kbd.listeners = 0 /\ \A c \in Cores : soft[c] = <<>>
      BY <2>2, <2>4 DEF Idle
    <2>6. kbd'.buf = kbd.buf /\ kbd'.seen = kbd.seen /\ kbd'.listeners = 1
      BY <2>1, <2>5, NextKeyFields DEF DriverInv
    <2>7. Line(q)'
      BY <2>1, <2>4, <2>5, <2>6 DEF Line, Idle
    <2>8. Delivered' = Delivered /\ TtyInv'
      BY <2>1 DEF Delivered, TtyInv, OrderInv
    <2> QED  BY <2>1, <2>3, <2>6, <2>7, <2>8 DEF OrderInv
  <1> QED  BY <1>1, <1>2

\* Sequences of one key press and more.
LEMMA PressCat ==
    /\ \A p \in Press : <<p>> \in Seq(Press) /\ Append(<<>>, p) = <<p>> /\ Tail(<<p>>) = <<>> /\ Head(<<p>>) = p
                        /\ <<>> \o <<p>> = <<p>> /\ <<p>> \o <<>> = <<p>>
    /\ \A s \in Seq(Press) : s \o <<>> = s /\ <<>> \o s = s
    /\ \A p \in Press : \A s \in Seq(Press) :
         /\ <<p>> \o s \in Seq(Press) /\ <<p>> \o s # <<>> /\ (<<p>> \o s)[1] = p /\ Tail(<<p>> \o s) = s
         /\ \A v \in Press : <<p>> \o Append(s, v) = Append(<<p>> \o s, v)
  <1>1. ASSUME NEW p \in Press
        PROVE  <<p>> \in Seq(Press) /\ Append(<<>>, p) = <<p>> /\ Tail(<<p>>) = <<>> /\ Head(<<p>>) = p
                 /\ <<>> \o <<p>> = <<p>> /\ <<p>> \o <<>> = <<p>>
    OBVIOUS
  <1>2. ASSUME NEW s \in Seq(Press) PROVE s \o <<>> = s /\ <<>> \o s = s
    BY ConcatEmptySeq
  <1>3. ASSUME NEW p \in Press, NEW s \in Seq(Press)
        PROVE  /\ <<p>> \o s \in Seq(Press) /\ <<p>> \o s # <<>> /\ (<<p>> \o s)[1] = p /\ Tail(<<p>> \o s) = s
               /\ \A v \in Press : <<p>> \o Append(s, v) = Append(<<p>> \o s, v)
    <2> DEFINE u == <<p>>
    <2>1. u \in Seq(Press) /\ Len(u) = 1 /\ u[1] = p
      OBVIOUS
    <2> HIDE DEF u
    <2>2. u \o s \in Seq(Press) /\ Len(u \o s) = Len(u) + Len(s) /\ Len(s) \in Nat
          /\ \A i \in 1 .. Len(u) + Len(s) : (u \o s)[i] = IF i <= Len(u) THEN u[i] ELSE s[i - Len(u)]
      BY ONLY <1>3, <2>1, ConcatProperties, LenProperties
    <2>3. u \o s # <<>> /\ (u \o s)[1] = p
      BY <2>1, <2>2
    <2>4. Tail(u \o s) = s
      <3> DEFINE w == u \o s
      <3>1. w \in Seq(Press) /\ w # <<>> /\ Len(w) = Len(s) + 1 /\ \A i \in 1 .. Len(s) : w[i + 1] = s[i]
        BY <2>1, <2>2, <2>3
      <3> HIDE DEF w
      <3>2. Tail(w) \in Seq(Press) /\ Len(Tail(w)) = Len(w) - 1 /\ \A i \in 1 .. Len(Tail(w)) : Tail(w)[i] = w[i + 1]
        BY ONLY <3>1, HeadTailProperties
      <3>3. Len(Tail(w)) = Len(s) /\ \A i \in 1 .. Len(s) : Tail(w)[i] = s[i]
        BY <2>2, <3>1, <3>2
      <3> QED  BY <3>2, <3>3, SeqEqual DEF w
    <2>5. ASSUME NEW v \in Press PROVE u \o Append(s, v) = Append(u \o s, v)
      <3> DEFINE z == <<v>>
      <3>1. z \in Seq(Press) /\ Append(s, v) = s \o z
        BY AppendIsConcat
      <3>2. Append(u \o s, v) = (u \o s) \o z
        BY ONLY <1>3, <2>2, <2>5, AppendIsConcat
      <3> HIDE DEF z
      <3>3. u \in Seq(Press) /\ s \in Seq(Press) /\ z \in Seq(Press)
        BY <2>1, <3>1
      <3>4. (u \o s) \o z = u \o (s \o z)
        BY ONLY <3>3, ConcatAssociative
      <3> QED  BY <3>1, <3>2, <3>4
    <2> QED  BY <2>2, <2>3, <2>4, <2>5 DEF u
  <1> QED  BY <1>1, <1>2, <1>3

\* The keyboard's interrupt: a key press goes to the listener, to the end of the buffer, or is
\* lost to a full one.
LEMMA KeyboardOrder == ASSUME BootInv, DriverInv, OrderInv, NEW c \in Cores, KeyboardIrq(c) PROVE OrderInv'
  <1> DEFINE b == Head(wire)[2]
             k == KeyOf(kbd, b)
             kp == KeyPress(kbd, k)
             n == kbd.seen
             C == Presses!Contents(kbd.buf)
             fin == Finished(kbd, b)
             over == Overflow(kbd, b)
  <1>1. "keyboard" \in ctrl /\ attached /\ soft[c] = <<>> /\ wire # <<>> /\ Head(wire)[1] = "keyboard"
    BY IrqReady DEF KeyboardIrq, Irq
  <1>2. /\ kbd' = AfterByte(kbd, b) /\ soft' = [soft EXCEPT ![c] = soft[c] \o fin] /\ lost' = lost \cup over
        /\ UNCHANGED <<tty, got, attached, typed>>
    BY <1>1 DEF KeyboardIrq, ttyVars
  <1>3. Effect(kbd, b, typed)
    <2> DEFINE y == UserView(down, lights, typed)
    <2>1. /\ DOMAIN kbd = KbdFields /\ kbd.code \in Seq(ScanBytes) /\ wire \in Seq(WireByte)
          /\ Pending(kbd.code, Kb(wire), DriverView(kbd), y, typed)
      BY DEF DriverInv
    <2> HIDE DEF y
    <2> QED  BY <1>1, <2>1, ByteStep
  <1>4. PICK q \in Seq(Press) : /\ Line(q) /\ Numbered(q, n, lost, typed)
                                /\ Delivered = Upto(Before(q, n), lost, typed)
    BY DEF OrderInv
  <1>5. /\ soft \in [Cores -> Seq(Press)] /\ DqOK(kbd.buf, KbdCap, Press, NoPress) /\ n \in Nat /\ n <= Len(typed)
        /\ lost \subseteq 1 .. n /\ typed \in Seq(Seq(Chars)) /\ Len(typed) \in Nat
    BY DEF OrderInv, DriverInv
  <1>6. Delivered' = Delivered /\ TtyInv'
    BY <1>2 DEF Delivered, TtyInv, OrderInv
  <1>7. C \in Seq(Press) /\ (kbd.buf.len = 0 => C = <<>>)
    BY <1>5, PressOps
  <1>8. CASE ~IsPress(kbd, b)
    <2>1. fin = <<>> /\ over = {} /\ <<>> \o <<>> = <<>>
      BY <1>8 DEF Finished, Overflow
    <2>2. soft' = soft /\ lost' = lost
      BY <1>1, <1>2, <1>5, <2>1
    <2>3. kbd'.seen = n /\ kbd'.listeners = kbd.listeners /\ kbd'.buf = kbd.buf
      BY <1>2, <1>3, <1>8 DEF Effect
    <2>4. Line(q)'
      BY <1>2, <1>4, <2>2, <2>3 DEF Line, Idle, Busy
    <2> HIDE DEF n
    <2> QED  BY <1>2, <1>4, <1>5, <1>6, <2>2, <2>3, <2>4 DEF OrderInv
  <1>9. CASE IsPress(kbd, b)
    <2>1. n < Len(typed) /\ kp = [n |-> n + 1, str |-> typed[n + 1]]
          /\ kbd'.seen = n + 1 /\ kbd'.listeners = (IF kbd.listeners > 0 THEN 0 ELSE kbd.listeners)
          /\ kbd'.buf = IF ~(kbd.listeners > 0) THEN Presses!PushBack(kbd.buf, kp) ELSE kbd.buf
      BY <1>2, <1>3, <1>9 DEF Effect
    <2>2. fin = [i \in 1 .. kbd.listeners |-> kp]
      BY <1>9 DEF Finished
    <2>o. over = IF kbd.listeners = 0 /\ Presses!IsFull(kbd.buf) THEN {n + 1} ELSE {}
      BY <1>9 DEF Overflow
    <2> HIDE DEF fin, over, k, kp, n
    <2>3. PICK p \in Press : p = kp /\ p.n = n + 1 /\ p.str = typed[n + 1]
      <3>1. typed[n + 1] \in Seq(Chars)
        BY <1>5, <2>1
      <3>2. kp \in Press /\ kp.n = n + 1 /\ kp.str = typed[n + 1]
        BY <1>5, <2>1, <3>1 DEF Press
      <3> QED  BY <3>2
    <2>a. PICK q1 \in Seq(Press) : /\ q1 = Append(q, p) /\ Numbered(q1, n + 1, lost, typed)
                                  /\ Before(q1, n + 1) = Before(q, n)
      <3> DEFINE z == Append(q, p)
      <3>1. z \in Seq(Press)
        OBVIOUS
      <3>2. /\ q \in Seq(Press) /\ n \in Nat /\ Numbered(q, n, lost, typed) /\ lost \subseteq 1 .. n
            /\ p \in Press /\ p.n = n + 1 /\ p.str = typed[n + 1]
        BY <1>4, <1>5, <2>3
      <3>3. Numbered(Append(q, p), n + 1, lost, typed) /\ Before(Append(q, p), n + 1) = Before(q, n)
        BY ONLY <3>2, NumAdd, Zenon
      <3> QED  BY <3>1, <3>3
    <2>4. CASE Idle /\ q = <<>>
      <3>1. kbd.listeners = 1 /\ kbd.buf.len = 0 /\ \A d \in Cores : soft[d] = <<>>
        BY <1>1, <2>4 DEF Idle
      <3>2. fin = <<p>> /\ over = {}
        BY <2>2, <2>3, <2>o, <3>1
      <3>3. soft' \in [Cores -> Seq(Press)] /\ soft'[c] = <<p>> /\ (\A d \in Cores : d # c => soft'[d] = <<>>)
            /\ lost' = lost
        <4>1. soft[c] \o fin = <<p>> /\ <<p>> \in Seq(Press)
          BY <1>1, <2>3, <3>2, PressCat
        <4> HIDE DEF fin
        <4> QED  BY <1>2, <1>5, <3>1, <3>2, <4>1
      <3>4. kbd'.listeners = 0 /\ kbd'.buf = kbd.buf
        BY <2>1, <3>1
      <3>6. q1 = <<p>> \o C
        <4>1. C = <<>>
          BY <1>7, <3>1
        <4> QED  BY <2>a, <2>4, <4>1, PressCat
      <3>7. Busy(c, p)'
        BY <1>1, <1>2, <3>3, <3>4 DEF Busy
      <3>8. Line(q1)'
        BY <2>3, <3>4, <3>6, <3>7 DEF Line
      <3>9. DqOK(kbd'.buf, KbdCap, Press, NoPress) /\ n + 1 <= Len(typed) /\ lost \subseteq 1 .. n + 1
            /\ n + 1 \in Nat
        BY <1>5, <2>1, <3>4
      <3> HIDE DEF C
      <3>10. Delivered' = Upto(Before(q1, n + 1), lost', typed') /\ Numbered(q1, n + 1, lost', typed')
        BY <1>2, <1>4, <1>6, <2>a, <3>3
      <3> QED  BY <1>2, <1>6, <2>1, <2>a, <3>3, <3>8, <3>9, <3>10 DEF OrderInv
    <2>5. ASSUME NEW d \in Cores, NEW p0 \in Press, Busy(d, p0), q = <<p0>> \o C
          PROVE  OrderInv'
      <3>1. kbd.listeners = 0 /\ attached /\ soft[d] = <<p0>> /\ \A i \in Cores : i # d => soft[i] = <<>>
        BY <2>5 DEF Busy
      <3>2. fin = <<>>
        <4>1. 1 .. 0 = {}
          OBVIOUS
        <4> QED  BY <2>2, <3>1, <4>1
      <3>3. soft' = soft
        <4>1. soft[c] \o fin = soft[c]
          BY <1>1, <3>2, PressCat
        <4> QED  BY <1>2, <1>5, <4>1
      <3>4. kbd'.listeners = 0 /\ kbd'.buf = Presses!PushBack(kbd.buf, p)
        BY <2>1, <2>3, <3>1
      <3>5. Busy(d, p0)'
        BY <1>2, <3>1, <3>3, <3>4 DEF Busy
      <3>6. CASE kbd.buf.len # KbdCap
        <4> DEFINE C2 == Presses!Contents(kbd'.buf)
        <4>1. DqOK(kbd'.buf, KbdCap, Press, NoPress) /\ C2 = Append(C, p) /\ over = {}
          <5>1. DqOK(kbd'.buf, KbdCap, Press, NoPress) /\ C2 = Append(C, p)
            <6> DEFINE e == Presses!PushBack(kbd.buf, p)
            <6>1. DqOK(e, KbdCap, Press, NoPress) /\ Presses!Contents(e) = Append(C, p)
              BY <1>5, <3>6, PressOps
            <6> HIDE DEF e
            <6> QED  BY <3>4, <6>1 DEF e
          <5>2. ~Presses!IsFull(kbd.buf)
            BY <3>6 DEF Presses!IsFull
          <5> QED  BY <2>o, <5>1, <5>2
        <4> HIDE DEF C
        <4>3. q1 = <<p0>> \o C2
          BY <1>7, <2>a, <2>5, <4>1, PressCat
        <4>4. Line(q1)'
          BY <3>5, <4>3 DEF Line
        <4>5. lost' = lost
          BY <1>2, <4>1
        <4>6. Delivered' = Upto(Before(q1, n + 1), lost', typed') /\ Numbered(q1, n + 1, lost', typed')
          BY <1>2, <1>4, <1>6, <2>a, <4>5
        <4>7. n + 1 <= Len(typed) /\ lost \subseteq 1 .. n + 1 /\ n + 1 \in Nat
          BY <1>5, <2>1
        <4> HIDE DEF C2
        <4> QED  BY <1>2, <1>5, <1>6, <2>1, <2>a, <3>3, <4>1, <4>4, <4>5, <4>6, <4>7 DEF OrderInv
      <3>7. CASE kbd.buf.len = KbdCap
        <4>1. kbd'.buf = kbd.buf
          BY <1>5, <3>4, <3>7, PressOps
        <4>2. over = {n + 1}
          <5>1. Presses!IsFull(kbd.buf)
            BY <3>7 DEF Presses!IsFull
          <5> QED  BY <2>o, <3>1, <5>1
        <4>3. Line(q)'
          BY <2>5, <3>5, <4>1 DEF Line
        <4>4. lost' = lost \cup {n + 1}
          BY <1>2, <4>2
        <4>5. /\ Numbered(q, n + 1, lost \cup {n + 1}, typed)
              /\ Upto(Before(q, n + 1), lost \cup {n + 1}, typed) = Upto(Before(q, n), lost, typed)
          BY <1>4, <1>5, <2>1, NumLose
        <4> HIDE DEF C
        <4>6. Delivered' = Upto(Before(q, n + 1), lost', typed') /\ Numbered(q, n + 1, lost', typed')
          BY <1>2, <1>4, <1>6, <4>4, <4>5
        <4>7. n + 1 <= Len(typed) /\ lost' \subseteq 1 .. n + 1 /\ n + 1 \in Nat
          BY <1>5, <2>1, <4>4
        <4> QED  BY <1>2, <1>5, <1>6, <2>1, <3>3, <4>1, <4>3, <4>6, <4>7 DEF OrderInv
      <3> QED  BY <3>6, <3>7
    <2> QED  BY <1>4, <2>4, <2>5 DEF Line
  <1> QED  BY <1>8, <1>9

\* One key press is taken off the line, given to the terminal or dropped.
LEMMA TakeOne ==
    ASSUME DriverInv, OrderInv, NEW c \in Cores, SoftKeyPressed(c),
           NEW p \in Press, NEW q \in Seq(Press), soft[c] = <<p>>, q # <<>>, q[1] = p,
           Numbered(q, kbd.seen, lost, typed), Delivered = Upto(Before(q, kbd.seen), lost, typed)
    PROVE  /\ TtyInv' /\ lost' \subseteq 1 .. kbd.seen
           /\ Numbered(Tail(q), kbd.seen, lost', typed)
           /\ Delivered' = Upto(Before(Tail(q), kbd.seen), lost', typed)
  <1> DEFINE n == kbd.seen
  <1>1. Head(soft[c]) = p
    OBVIOUS
  <1>2. HandleKeyPressed(p) /\ lost' = IF HasRoom(Len(p.str)) THEN lost ELSE lost \cup {p.n}
    BY <1>1 DEF SoftKeyPressed
  <1>3. /\ n \in Nat /\ n <= Len(typed) /\ typed \in Seq(Seq(Chars)) /\ lost \subseteq 1 .. n /\ TtyInv
        /\ Numbered(q, n, lost, typed)
    BY DEF OrderInv, DriverInv
  <1> HIDE DEF n
  <1>4. p.n \in 1 .. n
    BY <1>3, NumGap
  <1>5. CASE HasRoom(Len(p.str))
    <2>1. lost' = lost
      BY <1>2, <1>5
    <2>2. TtyInv' /\ Delivered' = Delivered \o Tag(p.n, p.str)
      BY <1>2, <1>3, <1>5, PushTty
    <2>3. Numbered(Tail(q), n, lost, typed)
      BY <1>3, NumTail
    <2>4. Upto(Before(Tail(q), n), lost, typed) = Upto(Before(q, n), lost, typed) \o Tag(p.n, p.str)
      BY <1>3, UptoTaken
    <2> QED  BY <1>3, <2>1, <2>2, <2>3, <2>4 DEF n
  <1>6. CASE ~HasRoom(Len(p.str))
    <2> DEFINE l == lost \cup {p.n}
    <2>1. lost' = l
      BY <1>2, <1>6
    <2>2. TtyInv' /\ Delivered' = Delivered
      <3>1. tty' = tty /\ got' = got
        BY <1>2, <1>6 DEF HandleKeyPressed, ttyVars
      <3> QED  BY <1>3, <3>1 DEF TtyInv, Delivered
    <2>3. Numbered(Tail(q), n, l, typed)
      <3>1. lost \subseteq l /\ l \subseteq lost \cup {q[1].n}
        OBVIOUS
      <3> HIDE DEF l
      <3> QED  BY <1>3, <3>1, NumTail
    <2>4. Upto(Before(Tail(q), n), l, typed) = Upto(Before(q, n), lost, typed)
      BY <1>3, UptoDropped
    <2>5. l \subseteq 1 .. n
      BY <1>3, <1>4
    <2> HIDE DEF l
    <2> QED  BY <2>1, <2>2, <2>3, <2>4, <2>5 DEF n
  <1> QED  BY <1>5, <1>6

\* handle_key_pressed on core c: the first press in line is done with, and the manager takes the
\* next one from the buffer or listens.
LEMMA SoftOrder == ASSUME BootInv, DriverInv, OrderInv, NEW c \in Cores, SoftKeyPressed(c) PROVE OrderInv'
  <1> DEFINE n == kbd.seen
             C == Presses!Contents(kbd.buf)
  <1>1. PICK q \in Seq(Press) : /\ Line(q) /\ Numbered(q, n, lost, typed)
                                /\ Delivered = Upto(Before(q, n), lost, typed)
    BY DEF OrderInv
  <1>2. soft[c] # <<>> /\ Listen(kbd, c) /\ attached' = attached /\ typed' = typed
    BY DEF SoftKeyPressed, hwVars
  <1>3. PICK d \in Cores, p \in Press : Busy(d, p) /\ q = <<p>> \o C
    BY <1>1, <1>2 DEF Line, Idle
  <1>4. d = c /\ soft[c] = <<p>> /\ attached /\ kbd.listeners = 0 /\ \A i \in Cores : i # c => soft[i] = <<>>
    BY <1>2, <1>3 DEF Busy
  <1>5. /\ soft \in [Cores -> Seq(Press)] /\ DqOK(kbd.buf, KbdCap, Press, NoPress) /\ n \in Nat /\ n <= Len(typed)
        /\ DOMAIN kbd = KbdFields
    BY DEF OrderInv, DriverInv
  <1>6. C \in Seq(Press) /\ (kbd.buf.len = 0 => C = <<>>) /\ kbd.buf.len \in Nat
    <2>1. C \in Seq(Press) /\ (kbd.buf.len = 0 => C = <<>>) /\ kbd.buf.len \in 0 .. KbdCap
      BY <1>5, PressOps
    <2> QED  BY <2>1, InputAssumption
  <1>7. q # <<>> /\ q[1] = p /\ Tail(q) = C
    <2> HIDE DEF C
    <2> QED  BY <1>3, <1>6, PressCat
  <1>8. /\ TtyInv' /\ lost' \subseteq 1 .. n /\ Numbered(C, n, lost', typed)
        /\ Delivered' = Upto(Before(C, n), lost', typed)
    <2> HIDE DEF C
    <2> QED  BY <1>1, <1>4, <1>7, TakeOne
  <1>9. kbd' = NextKey(kbd) /\ soft' = [soft EXCEPT ![c] = Tail(soft[c]) \o Resolved(kbd)]
    BY <1>2 DEF Listen
  <1>10. /\ kbd'.seen = n
         /\ kbd'.buf = (IF kbd.buf.len > 0 THEN Presses!PopFront(kbd.buf) ELSE kbd.buf)
         /\ kbd'.listeners = IF kbd.buf.len > 0 THEN 0 ELSE 1
    BY <1>4, <1>5, <1>9, NextKeyFields
  <1>11. Tail(soft[c]) = <<>>
    BY <1>4, PressCat
  <1>12. PICK q1 \in Seq(Press) : q1 = C
    BY <1>6
  <1>13. /\ Numbered(q1, n, lost', typed) /\ Delivered' = Upto(Before(q1, n), lost', typed)
    BY <1>8, <1>12
  <1> HIDE DEF n, C
  <1>14. Line(q1)' /\ soft' \in [Cores -> Seq(Press)] /\ DqOK(kbd'.buf, KbdCap, Press, NoPress)
    <2>1. CASE kbd.buf.len = 0
      <3>1. Resolved(kbd) = <<>> /\ kbd'.buf = kbd.buf /\ kbd'.listeners = 1 /\ q1 = <<>>
        BY <1>6, <1>10, <1>12, <2>1 DEF Resolved
      <3>2. Tail(soft[c]) \o Resolved(kbd) = <<>>
        <4>1. <<>> \o <<>> = <<>>
          OBVIOUS
        <4> QED  BY <1>11, <3>1, <4>1
      <3>3. soft' \in [Cores -> Seq(Press)] /\ \A i \in Cores : soft'[i] = <<>>
        <4>1. <<>> \in Seq(Press)
          OBVIOUS
        <4> QED  BY <1>4, <1>5, <1>9, <3>2, <4>1
      <3>4. Idle'
        BY <1>2, <1>4, <2>1, <3>1, <3>3 DEF Idle
      <3> QED  BY <1>5, <3>1, <3>3, <3>4 DEF Line
    <2>2. CASE kbd.buf.len # 0
      <3>1. kbd.buf.len > 0
        BY <1>6, <2>2
      <3> DEFINE e == Presses!PopFront(kbd.buf)
      <3>2. DqOK(e, KbdCap, Press, NoPress) /\ Presses!Contents(e) = Tail(C) /\ C # <<>>
            /\ Presses!Front(kbd.buf) = Head(C)
        BY <1>5, <2>2, PressOps DEF C
      <3> HIDE DEF e
      <3>3. PICK h \in Press, r \in Seq(Press) : h = Head(C) /\ r = Tail(C) /\ C = <<h>> \o r
        <4>1. Head(C) \in Press /\ Tail(C) \in Seq(Press)
          BY <1>6, <3>2, HeadTailProperties
        <4>2. C = <<Head(C)>> \o Tail(C)
          BY <1>6, <3>2, SplitEnds
        <4> QED  BY <4>1, <4>2
      <3>4. kbd'.buf = e /\ kbd'.listeners = 0
        BY <1>10, <3>1 DEF e
      <3>5. Resolved(kbd) = <<h>>
        BY <3>1, <3>2, <3>3 DEF Resolved
      <3>6. Tail(soft[c]) \o Resolved(kbd) = <<h>> /\ <<h>> \in Seq(Press)
        BY <1>11, <3>5, PressCat
      <3>7. soft' \in [Cores -> Seq(Press)] /\ soft'[c] = <<h>> /\ \A i \in Cores : i # c => soft'[i] = <<>>
        BY <1>4, <1>5, <1>9, <3>6
      <3>8. Busy(c, h)'
        BY <1>2, <1>4, <3>4, <3>7 DEF Busy
      <3>9. q1 = <<h>> \o Presses!Contents(kbd'.buf)
        BY <1>12, <3>2, <3>3, <3>4
      <3>10. Line(q1)'
        BY <3>8, <3>9 DEF Line
      <3> QED  BY <3>2, <3>4, <3>7, <3>10
    <2> QED  BY <2>1, <2>2
  <1>15. kbd'.seen \in Nat /\ kbd'.seen <= Len(typed') /\ lost' \subseteq 1 .. kbd'.seen
    BY <1>2, <1>5, <1>8, <1>10
  <1>16. Numbered(q1, kbd'.seen, lost', typed') /\ Delivered' = Upto(Before(q1, kbd'.seen), lost', typed')
    BY <1>2, <1>10, <1>13
  <1> QED  BY <1>8, <1>12, <1>14, <1>15, <1>16 DEF OrderInv

\* Every step keeps the invariant of the key presses.
LEMMA NextOrder == BootInv /\ DriverInv /\ OrderInv /\ [Next]_vars => OrderInv'
  <1> SUFFICES ASSUME BootInv, DriverInv, OrderInv, [Next]_vars PROVE OrderInv'
    OBVIOUS
  <1>1. CASE UNCHANGED vars
    BY <1>1, SameOrder DEF vars, hwVars, ttyVars
  <1>2. CASE Boot
    <2>1. CASE ControllerStep
      BY <2>1, SameOrder DEF ControllerStep, hwVars, ttyVars
    <2>2. CASE BootDevices
      BY <2>2, SameOrder DEF BootDevices, BootStep, hwVars, ttyVars
    <2>3. CASE ConnectDevices
      BY <2>3, SameOrder DEF ConnectDevices, ConnectDevice, hwVars, ttyVars
    <2>4. CASE Attach
      BY <2>4, AttachOrder
    <2>5. CASE PublishDevices
      BY <2>5, SameOrder DEF PublishDevices, hwVars, ttyVars
    <2> QED  BY <1>2, <2>1, <2>2, <2>3, <2>4, <2>5 DEF Boot
  <1>3. ASSUME NEW c \in Cores, Kernel(c) PROVE OrderInv'
    <2>1. CASE KeyboardIrq(c)
      BY <2>1, KeyboardOrder
    <2>2. CASE MouseIrq(c)
      BY <2>2, SameOrder DEF MouseIrq, ttyVars
    <2>3. CASE SoftKeyPressed(c)
      BY <2>3, SoftOrder
    <2> QED  BY <1>3, <2>1, <2>2, <2>3 DEF Kernel
  <1>4. CASE MoveMouse
    BY <1>4, SameOrder DEF MoveMouse, osVars, ttyVars
  <1>5. CASE \E r \in Readers, size \in Sizes : ReadTty(r, size)
    BY <1>5, ReadOrder
  <1>6. ASSUME NEW k \in Keys, MakeKey(k) \/ BreakKey(k) PROVE OrderInv'
    <2>1. CASE MakeKey(k)
      BY <2>1, MakeOrder
    <2>2. CASE BreakKey(k)
      BY <2>2, SameOrder DEF BreakKey, osVars, ttyVars
    <2> QED  BY <1>6, <2>1, <2>2
  <1> QED  BY <1>1, <1>2, <1>3, <1>4, <1>5, <1>6 DEF Next

\* The invariant of the key presses holds in every state: the manager either listens with nothing
\* in the buffer, or exactly one core has one press in hand and later ones wait, numbered upwards
\* (ps2/mod.rs next_key and handle_key_state_changed, vt.rs listen_for_keypress).
THEOREM OrderInvariant == Spec => []OrderInv
  BY InitOrder, NextOrder, BootInvariant, DriverInvariant, PTL DEF Spec

\* What readers were given and what still waits is what the user typed, in order, less whole key
\* presses that met a full buffer, for every number of cores and size of the buffers (ps2/mod.rs
\* handle_key_state_changed, vt.rs handle_key_pressed, tty.rs push_bytes and read).
THEOREM OrderSafe == Spec => []KeysInOrder
  BY OrderInvariant, DriverInvariant, OrderImplies, PTL
=============================================================================
