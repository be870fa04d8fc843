----------------------------- MODULE SlabProofs -----------------------------
(***************************************************************************)
(* The slab allocators lose no memory and hand none out twice, for any     *)
(* number of allocators, cores and blocks and any size of slabs and bit    *)
(* vectors.                                                                *)
(***************************************************************************)
EXTENDS Slab, FunctionTheorems, FiniteSetTheorems, SequenceTheorems,
        WellFoundedInduction, TLAPS

-----------------------------------------------------------------------------
(* Arithmetic                                                              *)

\* Every nonempty set of naturals has a least element.
LEMMA LeastNatural ==
    ASSUME NEW S \in SUBSET Nat, S # {}
    PROVE  \E x \in S : \A y \in S : x <= y
  <1> DEFINE R == OpToRel(<, Nat)
  <1>1. IsWellFoundedOn(R, Nat)
    BY NatLessThanWellFounded, Zenon
  <1>2. \A x, y \in Nat : <<y, x>> \in R <=> y < x
    BY DEF OpToRel
  <1> HIDE DEF R
  <1>3. \E x \in S : \A y \in S : ~(<<y, x>> \in R)
    BY <1>1, WFMin
  <1>4. PICK x \in S : \A y \in S : ~(<<y, x>> \in R)
    BY <1>3
  <1>5. \A y \in S : ~(y < x)
    BY <1>2, <1>4
  <1>6. \A y \in S : x <= y
    BY <1>5
  <1> QED  BY <1>6

\* Min is defined by CHOOSE; on naturals it chooses the least.
LEMMA MinOf ==
    ASSUME NEW S \in SUBSET Nat, S # {}
    PROVE  Bits!Min(S) \in S /\ \A y \in S : Bits!Min(S) <= y
  BY LeastNatural DEF Bits!Min

\* Quotient and remainder.
LEMMA DivMod == ASSUME NEW w \in Nat \ {0}, NEW i \in Nat
  PROVE /\ i \div w \in Nat /\ i % w \in 0 .. w - 1
        /\ i = (i \div w) * w + (i % w)
  <1>1. i \div w \in Nat
    OBVIOUS
  <1>2. i % w \in 0 .. w - 1
    OBVIOUS
  <1>3. i = w * (i \div w) + (i % w)
    OBVIOUS
  <1>4. i = (i \div w) * w + (i % w)
    BY <1>3
  <1> QED BY <1>1, <1>2, <1>4

\* A word number and a bit number give the bit's number, and it gives them back.
LEMMA DivModUnique == ASSUME NEW w \in Nat \ {0}, NEW q \in Nat, NEW r \in 0 .. w - 1
  PROVE (q * w + r) \div w = q /\ (q * w + r) % w = r
  OBVIOUS

\* The bits of an earlier word come before those of a later one.
LEMMA MulMono == ASSUME NEW w \in Nat \ {0}, NEW p \in Nat, NEW q \in Nat, p < q
  PROVE p * w + w <= q * w
  OBVIOUS

-----------------------------------------------------------------------------
(* FixedBitVector, for any number of bits and any size of a word           *)

\* The words of a vector have no bit beyond the last.
Vectors ==
    {v \in [Bits!Indices -> SUBSET Bits!Ones] :
        \A k \in Bits!Indices : \A b \in v[k] : k * WordBits + b < Cap}

\* get_bit_pos: every bit is in a word there is.
LEMMA BitIndex ==
    ASSUME NEW i \in 0 .. Cap - 1
    PROVE  /\ Bits!WordOf(i) \in Bits!Indices /\ Bits!BitOf(i) \in Bits!Ones
           /\ Bits!WordOf(i) * WordBits + Bits!BitOf(i) = i
  <1> DEFINE q == i \div WordBits
             r == i % WordBits
             m == Cap + WordBits - 1
             Q == m \div WordBits
             R == m % WordBits
  <1>1. Cap \in Nat /\ WordBits \in Nat \ {0} /\ i \in Nat /\ m \in Nat /\ i < Cap
    BY SlabAssumption
  <1>2. q \in Nat /\ r \in 0 .. WordBits - 1 /\ i = q * WordBits + r
    BY <1>1, DivMod
  <1>3. Q \in Nat /\ R \in 0 .. WordBits - 1 /\ m = Q * WordBits + R
    BY <1>1, DivMod
  <1> DEFINE a == q * WordBits
             b == Q * WordBits
  <1>4. a \in Nat /\ b \in Nat
    BY <1>1, <1>2, <1>3
  <1>5. Q <= q => b <= a
    <2>1. Q < q => b + WordBits <= a
      BY <1>1, <1>2, <1>3, MulMono
    <2>2. Q = q => b = a
      OBVIOUS
    <2> HIDE DEF a, b, q, Q
    <2> QED  BY <1>1, <1>2, <1>3, <1>4, <2>1, <2>2
  <1>6. i = a + r /\ m = b + R
    BY <1>2, <1>3
  <1>7. q < Q
    <2> HIDE DEF a, b, q, Q, r, R
    <2>1. b >= Cap
      BY <1>1, <1>3, <1>4, <1>6 DEF m
    <2>2. a < Cap
      BY <1>1, <1>2, <1>4, <1>6
    <2> QED  BY <1>1, <1>2, <1>3, <1>4, <1>5, <2>1, <2>2
  <1>8. Bits!WordOf(i) = q /\ Bits!BitOf(i) = r
    BY DEF Bits!WordOf, Bits!BitOf
  <1>9. Bits!Indices = 0 .. Q - 1 /\ Bits!Ones = 0 .. WordBits - 1
    BY DEF Bits!Indices, Bits!InnerSize, Bits!Words, Bits!Ones
  <1> HIDE DEF q, r, Q, R
  <1> QED  BY <1>2, <1>3, <1>7, <1>8, <1>9

\* get_idx is its inverse.
LEMMA IndexBit ==
    ASSUME NEW k \in Bits!Indices, NEW b \in Bits!Ones
    PROVE  /\ k \in Nat /\ b \in Nat /\ k * WordBits + b \in Nat
           /\ Bits!WordOf(k * WordBits + b) = k
           /\ Bits!BitOf(k * WordBits + b) = b
  <1>1. WordBits \in Nat \ {0} /\ k \in Nat /\ b \in 0 .. WordBits - 1
    BY SlabAssumption DEF Bits!Indices, Bits!Ones
  <1> QED  BY <1>1, DivModUnique DEF Bits!WordOf, Bits!BitOf

\* The set a vector stands for.
LEMMA BitElements ==
    ASSUME NEW v
    PROVE  Bits!Elements(v) = {i \in 0 .. Cap - 1 : Bits!BitOf(i) \in v[Bits!WordOf(i)]}
  BY DEF Bits!Elements, Bits!Bit

\* set() changes the one bit, whatever the others of its word are.
LEMMA SetBitElements ==
    ASSUME NEW v \in Vectors, NEW i \in 0 .. Cap - 1
    PROVE  /\ Bits!SetBit(v, i, TRUE) \in Vectors
           /\ Bits!SetBit(v, i, FALSE) \in Vectors
           /\ Bits!Elements(Bits!SetBit(v, i, TRUE)) = Bits!Elements(v) \cup {i}
           /\ Bits!Elements(Bits!SetBit(v, i, FALSE)) = Bits!Elements(v) \ {i}
  <1>1. /\ Bits!WordOf(i) \in Bits!Indices /\ Bits!BitOf(i) \in Bits!Ones
        /\ Bits!WordOf(i) * WordBits + Bits!BitOf(i) = i /\ i < Cap
    BY BitIndex, SlabAssumption
  <1>2. ASSUME NEW j \in 0 .. Cap - 1
        PROVE  /\ Bits!WordOf(j) \in Bits!Indices
               /\ Bits!WordOf(j) = Bits!WordOf(i) /\ Bits!BitOf(j) = Bits!BitOf(i) => j = i
    <2>1. /\ Bits!WordOf(j) \in Bits!Indices
          /\ Bits!WordOf(j) * WordBits + Bits!BitOf(j) = j
      BY BitIndex
    <2> QED  BY <1>1, <2>1
  <1> DEFINE k == Bits!WordOf(i)
             b == Bits!BitOf(i)
             s == Bits!SetBit(v, i, TRUE)
             t == Bits!SetBit(v, i, FALSE)
  <1>3. /\ s = [v EXCEPT ![k] = v[k] \cup {b}]
        /\ t = [v EXCEPT ![k] = v[k] \ {b}]
    BY DEF Bits!SetBit, Bits!Assign
  <1>4. k \in Bits!Indices /\ b \in Bits!Ones /\ k * WordBits + b < Cap
    BY <1>1
  <1>5. v \in [Bits!Indices -> SUBSET Bits!Ones]
        /\ \A l \in Bits!Indices : \A c \in v[l] : l * WordBits + c < Cap
    BY DEF Vectors
  <1> HIDE DEF s, t
  <1>6. s \in Vectors
    <2>1. s \in [Bits!Indices -> SUBSET Bits!Ones]
      BY <1>3, <1>4, <1>5
    <2>2. ASSUME NEW l \in Bits!Indices, NEW c \in s[l] PROVE l * WordBits + c < Cap
      <3>1. CASE l = k /\ c = b  BY <1>4, <3>1
      <3>2. CASE ~(l = k /\ c = b)
        <4>1. c \in v[l]  BY <1>3, <1>4, <1>5, <3>2
        <4> QED  BY <1>5, <4>1
      <3> QED  BY <3>1, <3>2
    <2> QED  BY <2>1, <2>2 DEF Vectors
  <1>7. t \in Vectors
    <2>1. t \in [Bits!Indices -> SUBSET Bits!Ones]
      BY <1>3, <1>4, <1>5
    <2>2. ASSUME NEW l \in Bits!Indices, NEW c \in t[l] PROVE l * WordBits + c < Cap
      <3>1. c \in v[l]  BY <1>3, <1>4, <1>5
      <3> QED  BY <1>5, <3>1
    <2> QED  BY <2>1, <2>2 DEF Vectors
  <1>8. Bits!Elements(s) = Bits!Elements(v) \cup {i}
    <2>1. ASSUME NEW j \in 0 .. Cap - 1
          PROVE  Bits!BitOf(j) \in s[Bits!WordOf(j)] <=> Bits!BitOf(j) \in v[Bits!WordOf(j)] \/ j = i
      BY <1>2, <1>3, <1>4, <1>5
    <2> QED  BY <2>1, BitElements
  <1>9. Bits!Elements(t) = Bits!Elements(v) \ {i}
    <2>1. ASSUME NEW j \in 0 .. Cap - 1
          PROVE  Bits!BitOf(j) \in t[Bits!WordOf(j)] <=> Bits!BitOf(j) \in v[Bits!WordOf(j)] /\ j # i
      BY <1>2, <1>3, <1>4, <1>5
    <2> QED  BY <2>1, BitElements
  <1> QED  BY <1>6, <1>7, <1>8, <1>9 DEF s, t

\* Bit 0 is the first of word 0.
LEMMA WordOfZero == Bits!WordOf(0) = 0 /\ Bits!BitOf(0) = 0
  BY SlabAssumption DEF Bits!WordOf, Bits!BitOf

\* The set_range of SlabInfo::new frees the slots there are, and none beyond.
LEMMA NewElements ==
    ASSUME NEW n \in 2 .. Cap, NEW b
    PROVE  /\ New(b, n).free \in Vectors
           /\ Bits!Elements(New(b, n).free) = 0 .. n - 1
  <1> DEFINE v == New(b, n).free
             e == n - 1
  <1>1. /\ Cap \in Nat /\ WordBits \in Nat \ {0} /\ n \in Nat /\ e \in 0 .. Cap - 1
        /\ ~(e <= 0)
    BY SlabAssumption
  <1>2. v = Bits!SetRange(Bits!NewBits(FALSE), 0, e, TRUE)
    BY DEF New
  <1>3. v = [k \in Bits!Indices |-> IF k \in Bits!WordOf(0) .. Bits!WordOf(e)
                THEN Bits!NewBits(FALSE)[k] \cup Bits!MaskOf(k, 0, e)
                ELSE Bits!NewBits(FALSE)[k]]
    BY <1>1, <1>2 DEF Bits!SetRange, Bits!Assign
  <1>4. \A k \in Bits!Indices : Bits!NewBits(FALSE)[k] = {}
    BY DEF Bits!NewBits
  <1> DEFINE q == Bits!WordOf(e)
             r == Bits!BitOf(e)
  <1>5. /\ q \in Bits!Indices /\ r \in Bits!Ones /\ q * WordBits + r = e
        /\ q \in Nat /\ r \in 0 .. WordBits - 1
    BY <1>1, BitIndex DEF Bits!Indices, Bits!Ones
  <1>6. \A k \in Bits!Indices : Bits!MaskOf(k, 0, e) =
            {c \in Bits!Ones : (k = 0 => c >= 0) /\ (k = q => c <= r)}
    BY WordOfZero DEF Bits!MaskOf
  <1> HIDE DEF v, e, q, r
  <1>7. v = [k \in Bits!Indices |->
                {c \in Bits!Ones : k \in 0 .. q /\ (k = q => c <= r)}]
    <2>1. ASSUME NEW k \in Bits!Indices, k \in 0 .. q
          PROVE  Bits!NewBits(FALSE)[k] \cup Bits!MaskOf(k, 0, e)
                    = {c \in Bits!Ones : k \in 0 .. q /\ (k = q => c <= r)}
      <3>1. \A c \in Bits!Ones : c >= 0
        BY DEF Bits!Ones
      <3>2. Bits!MaskOf(k, 0, e) = {c \in Bits!Ones : (k = 0 => c >= 0) /\ (k = q => c <= r)}
        BY <1>6
      <3>3. Bits!MaskOf(k, 0, e) = {c \in Bits!Ones : k \in 0 .. q /\ (k = q => c <= r)}
        BY <2>1, <3>1, <3>2, Zenon
      <3> QED  BY <1>4, <3>3
    <2>2. ASSUME NEW k \in Bits!Indices, ~(k \in 0 .. q)
          PROVE  Bits!NewBits(FALSE)[k]
                    = {c \in Bits!Ones : k \in 0 .. q /\ (k = q => c <= r)}
      BY <1>4, <2>2
    <2> QED  BY <1>3, <2>1, <2>2, WordOfZero DEF q
  <1>8. ASSUME NEW k \in Bits!Indices, NEW c \in Bits!Ones
        PROVE  (k \in 0 .. q /\ (k = q => c <= r)) <=> k * WordBits + c <= e
    <2>1. k \in Nat /\ c \in 0 .. WordBits - 1
      BY DEF Bits!Indices, Bits!Ones
    <2> DEFINE x == k * WordBits
               y == q * WordBits
    <2>2. x \in Nat /\ y \in Nat /\ y + r = e
      BY <1>1, <1>5, <2>1
    <2>3. k < q => x + WordBits <= y
      BY <1>1, <1>5, <2>1, MulMono
    <2>4. q < k => y + WordBits <= x
      BY <1>1, <1>5, <2>1, MulMono
    <2>5. k = q => x = y
      OBVIOUS
    <2> HIDE DEF x, y
    <2>6. (k \in 0 .. q /\ (k = q => c <= r)) <=> x + c <= e
      BY <1>1, <1>5, <2>1, <2>2, <2>3, <2>4, <2>5
    <2> QED  BY <2>6 DEF x
  <1>9. v \in Vectors
    <2>1. v \in [Bits!Indices -> SUBSET Bits!Ones]
      BY <1>7
    <2>2. ASSUME NEW k \in Bits!Indices, NEW c \in v[k] PROVE k * WordBits + c < Cap
      <3>1. c \in Bits!Ones /\ k * WordBits + c <= e
        BY <1>7, <1>8
      <3> QED  BY <1>1, <3>1, IndexBit
    <2> QED  BY <2>1, <2>2 DEF Vectors
  <1>10. Bits!Elements(v) = 0 .. e
    <2>1. ASSUME NEW j \in 0 .. Cap - 1
          PROVE  Bits!BitOf(j) \in v[Bits!WordOf(j)] <=> j <= e
      <3>1. /\ Bits!WordOf(j) \in Bits!Indices /\ Bits!BitOf(j) \in Bits!Ones
            /\ Bits!WordOf(j) * WordBits + Bits!BitOf(j) = j
        BY BitIndex
      <3>2. Bits!BitOf(j) \in v[Bits!WordOf(j)] <=>
              Bits!WordOf(j) \in 0 .. q /\ (Bits!WordOf(j) = q => Bits!BitOf(j) <= r)
        BY <1>7, <3>1
      <3>3. Bits!BitOf(j) \in v[Bits!WordOf(j)] <=>
              Bits!WordOf(j) * WordBits + Bits!BitOf(j) <= e
        BY <1>8, <3>1, <3>2
      <3> QED  BY <3>1, <3>3
    <2>2. Bits!Elements(v) = {j \in 0 .. Cap - 1 : j <= e}
      BY <2>1, BitElements
    <2> QED  BY <1>1, <2>2
  <1> QED  BY <1>9, <1>10 DEF v, e

\* find_next(0) finds a bit that is one, if there is any.
LEMMA FindNextElements ==
    ASSUME NEW v \in Vectors
    PROVE  /\ Bits!FindNext(v, 0) = Bits!NoBit <=> Bits!Elements(v) = {}
           /\ Bits!FindNext(v, 0) # Bits!NoBit =>
                Bits!FindNext(v, 0) \in Bits!Elements(v)
  <1> DEFINE words == {k \in Bits!Indices : k >= Bits!WordOf(0) /\ Bits!FromBit(v, k, 0) # {}}
  <1>1. /\ v \in [Bits!Indices -> SUBSET Bits!Ones] /\ Cap \in Nat /\ ~(0 >= Cap)
        /\ \A l \in Bits!Indices : \A c \in v[l] : l * WordBits + c < Cap
    BY SlabAssumption DEF Vectors
  <1>2. \A k \in Bits!Indices : Bits!FromBit(v, k, 0) = v[k]
    BY <1>1, WordOfZero DEF Bits!FromBit, Bits!Ones
  <1>3. words = {k \in Bits!Indices : v[k] # {}} /\ words \in SUBSET Nat
    BY <1>2, WordOfZero DEF Bits!Indices
  <1> DEFINE m == Bits!Min(words)
             b == Bits!Min(Bits!FromBit(v, m, 0))
  <1>4. Bits!FindNext(v, 0) = IF words = {} THEN Bits!NoBit ELSE m * WordBits + b
    BY <1>1 DEF Bits!FindNext, Bits!IdxOf
  <1> HIDE DEF words
  <1>5. CASE words = {}
    <2>1. \A k \in Bits!Indices : v[k] = {}
      BY <1>3, <1>5
    <2>2. \A j \in 0 .. Cap - 1 : ~(Bits!BitOf(j) \in v[Bits!WordOf(j)])
      BY <2>1, BitIndex
    <2>3. Bits!Elements(v) = {}
      BY <2>2, BitElements
    <2> QED  BY <1>4, <1>5, <2>3
  <1>6. CASE words # {}
    <2>1. m \in Bits!Indices /\ v[m] # {}
      BY <1>3, <1>6, MinOf
    <2> HIDE DEF m
    <2>2. Bits!FromBit(v, m, 0) = v[m]
      BY <1>2, <2>1
    <2>3. v[m] \in SUBSET Nat /\ v[m] \in SUBSET Bits!Ones
      BY <1>1, <2>1 DEF Bits!Ones
    <2>4. b \in v[m]
      BY <2>1, <2>2, <2>3, MinOf
    <2> HIDE DEF b
    <2> DEFINE i == m * WordBits + b
    <2>5. i \in Nat /\ i < Cap /\ Bits!WordOf(i) = m /\ Bits!BitOf(i) = b
      BY <1>1, <2>1, <2>3, <2>4, IndexBit
    <2>6. Bits!FindNext(v, 0) = i
      BY <1>4, <1>6
    <2> HIDE DEF i
    <2>7. i \in Bits!Elements(v)
      BY <1>1, <2>4, <2>5, BitElements
    <2>8. i # Bits!NoBit
      BY <2>5 DEF Bits!NoBit
    <2> QED  BY <2>6, <2>7, <2>8
  <1> QED  BY <1>5, <1>6

\* The bits that are one in all words are as many as the elements.
LEMMA CountElements ==
    ASSUME NEW v \in Vectors
    PROVE  Bits!Count(v) = Cardinality(Bits!Elements(v))
  <1> DEFINE S == {x \in Bits!Indices \X Bits!Ones : x[2] \in v[x[1]]}
             E == Bits!Elements(v)
             f == [i \in E |-> <<Bits!WordOf(i), Bits!BitOf(i)>>]
  <1>1. Bits!Count(v) = Cardinality(S)
    BY DEF Bits!Count, Bits!Cardinality, Cardinality
  <1>2. E = {i \in 0 .. Cap - 1 : Bits!BitOf(i) \in v[Bits!WordOf(i)]}
    BY BitElements
  <1>3. \A l \in Bits!Indices : \A c \in v[l] : l * WordBits + c < Cap
    BY DEF Vectors
  <1> HIDE DEF E
  <1>4. f \in [E -> S]
    <2>1. ASSUME NEW i \in E PROVE <<Bits!WordOf(i), Bits!BitOf(i)>> \in S
      BY <1>2, BitIndex
    <2> QED  BY <2>1
  <1>5. ASSUME NEW i \in E, NEW j \in E, f[i] = f[j] PROVE i = j
    <2>1. /\ Bits!WordOf(i) * WordBits + Bits!BitOf(i) = i
          /\ Bits!WordOf(j) * WordBits + Bits!BitOf(j) = j
      BY <1>2, BitIndex
    <2>2. Bits!WordOf(i) = Bits!WordOf(j) /\ Bits!BitOf(i) = Bits!BitOf(j)
      BY <1>5
    <2> QED  BY <2>1, <2>2
  <1>6. ASSUME NEW x \in S PROVE \E i \in E : f[i] = x
    <2>1. x[1] \in Bits!Indices /\ x[2] \in Bits!Ones /\ x[2] \in v[x[1]] /\ x = <<x[1], x[2]>>
      OBVIOUS
    <2> DEFINE i == x[1] * WordBits + x[2]
    <2>2. i \in Nat /\ i < Cap /\ Bits!WordOf(i) = x[1] /\ Bits!BitOf(i) = x[2]
      BY <1>3, <2>1, IndexBit
    <2> HIDE DEF i
    <2>3. i \in E
      BY <1>2, <2>1, <2>2, SlabAssumption
    <2> QED  BY <2>1, <2>2, <2>3
  <1>7. ExistsBijection(E, S)
    BY <1>4, <1>5, <1>6, Fun_IsBij DEF ExistsBijection
  <1>8. IsFiniteSet(E)
    <2>1. 0 \in Int /\ Cap - 1 \in Int
      BY SlabAssumption
    <2>2. IsFiniteSet(0 .. Cap - 1)
      BY <2>1, FS_Interval
    <2> QED  BY <1>2, <2>2, FS_Subset
  <1>9. Cardinality(E) = Cardinality(S)
    BY <1>7, <1>8, FS_Bijection
  <1> QED  BY <1>1, <1>9 DEF E

\* FixedBitVector as SlabInfo uses it is a set of slots, for any number of bits
\* and any word size: new() has the slots of the slab, set() adds and removes
\* one, find_next(0) finds one if there is any, and the sum of count_ones is
\* the number there are.
THEOREM BitsAreSlots ==
    ASSUME NEW v \in Vectors
    PROVE  /\ Bits!Count(v) = Cardinality(Bits!Elements(v))
           /\ Bits!FindNext(v, 0) = Bits!NoBit <=> Bits!Elements(v) = {}
           /\ Bits!FindNext(v, 0) # Bits!NoBit => Bits!FindNext(v, 0) \in Bits!Elements(v)
           /\ \A i \in 0 .. Cap - 1 :
                /\ Bits!SetBit(v, i, TRUE) \in Vectors
                /\ Bits!SetBit(v, i, FALSE) \in Vectors
                /\ Bits!Elements(Bits!SetBit(v, i, TRUE)) = Bits!Elements(v) \cup {i}
                /\ Bits!Elements(Bits!SetBit(v, i, FALSE)) = Bits!Elements(v) \ {i}
           /\ \A b : \A n \in 2 .. Cap :
                New(b, n).free \in Vectors /\ Bits!Elements(New(b, n).free) = 0 .. n - 1
  <1>1. Bits!Count(v) = Cardinality(Bits!Elements(v))
    BY CountElements
  <1>2. /\ Bits!FindNext(v, 0) = Bits!NoBit <=> Bits!Elements(v) = {}
        /\ Bits!FindNext(v, 0) # Bits!NoBit => Bits!FindNext(v, 0) \in Bits!Elements(v)
    BY FindNextElements
  <1>3. \A i \in 0 .. Cap - 1 :
          /\ Bits!SetBit(v, i, TRUE) \in Vectors
          /\ Bits!SetBit(v, i, FALSE) \in Vectors
          /\ Bits!Elements(Bits!SetBit(v, i, TRUE)) = Bits!Elements(v) \cup {i}
          /\ Bits!Elements(Bits!SetBit(v, i, FALSE)) = Bits!Elements(v) \ {i}
    BY SetBitElements
  <1>4. \A b : \A n \in 2 .. Cap :
          New(b, n).free \in Vectors /\ Bits!Elements(New(b, n).free) = 0 .. n - 1
    BY NewElements
  <1> QED  BY <1>1, <1>2, <1>3, <1>4

-----------------------------------------------------------------------------
(* The inductive invariant                                                 *)

Places == Blocks \X InfoSlots
Size(a) == IF a = INFO THEN NInfo ELSE N
SlabInfos == [ptr : Blocks, free : Vectors, num_free : 0 .. Cap]
Calls == [pc : {"alloc", "info", "undo", "drop", "dropinfo"}, alloc : Users]

Types ==
    /\ pages \in SUBSET Blocks
    /\ info \in [Blocks -> [InfoSlots -> SlabInfos \cup {Junk}]]
    /\ slabs \in [Allocs -> Seq(Places)]
    /\ freeSlabs \in [Allocs -> Seq(Places)]
    /\ lock \in [Allocs -> Cores \cup {None}]
    /\ at \in [Cores -> {Idle} \cup Calls]
    /\ block \in [Cores -> Blocks \cup {None}]
    /\ held \in [Users -> SUBSET (Blocks \X (0 .. N - 1))]
    /\ panicked = FALSE

\* Who holds which lock, and what a core has in its hands.
LocksHeld ==
    /\ \A c \in Cores : at[c] # Idle => lock[at[c].alloc] = c
    /\ \A a \in Users : lock[a] # None => at[lock[a]] # Idle /\ at[lock[a]].alloc = a
    /\ lock[INFO] # None => at[lock[INFO]].pc \in {"info", "undo"}
    /\ \A c \in Cores : at[c].pc = "undo" => lock[INFO] = c
    /\ \A c \in Cores : block[c] # None <=> at[c].pc \in {"info", "undo"}
    /\ \A c \in Cores : at[c].pc \in {"drop", "dropinfo"} =>
        /\ slabs[at[c].alloc] # << >> /\ freeSlabs[at[c].alloc] = << >>
        /\ held[at[c].alloc] = {}

\* A SlabInfo counts its free slots, all of which exist.
Good(p, n) ==
    /\ At(p) \in SlabInfos
    /\ At(p).num_free = Cardinality(FreeSlots(p))
    /\ FreeSlots(p) \subseteq 0 .. n - 1

Slabs(a) == Range(slabs[a])
Ptr(p) == At(p).ptr

Infos == \A a \in Allocs : \A p \in Slabs(a) : Good(p, Size(a))

\* The two lists of an allocator.
Lists ==
    \A a \in Allocs :
        /\ IsInjective(slabs[a]) /\ IsInjective(freeSlabs[a])
        /\ Range(freeSlabs[a]) \subseteq Slabs(a)
        /\ ~Dropping(a) =>
            \A p \in Slabs(a) : p \in Range(freeSlabs[a]) <=> FreeSlots(p) # {}

\* A SlabInfo of SLAB_INFO describes the block it is in; every other is in a
\* slot of such a block, and every slot that is not free has one.
Homes ==
    /\ \A p \in Slabs(INFO) : p[2] = 0 /\ Ptr(p) = p[1]
    /\ \A a \in Allocs : \A p \in Slabs(a) :
        <<p[1], 0>> \in Slabs(INFO) /\ p[2] \notin FreeSlots(<<p[1], 0>>)
    /\ \A p \in Slabs(INFO) : \A i \in InfoSlots :
        i \in FreeSlots(p) \/ \E a \in Allocs : <<p[1], i>> \in Slabs(a)
    /\ \A a, b \in Allocs : a # b => Slabs(a) \cap Slabs(b) = {}

Objects ==
    \A a \in Users :
        /\ \A o \in held[a] : \E p \in Slabs(a) : Ptr(p) = o[1] /\ o[2] \notin FreeSlots(p)
        /\ \A p \in Slabs(a) : \A i \in 0 .. N - 1 :
            i \in FreeSlots(p) \/ <<Ptr(p), i>> \in held[a]

\* The slabs of an allocator without the one whose pages a drop has freed.
Freeing(a) == lock[a] # None /\ at[lock[a]].pc = "dropinfo"
Live(a) == {p \in Slabs(a) : ~(Freeing(a) /\ p = Head(slabs[a]))}

Pages ==
    /\ \A a, b \in Allocs : \A p \in Live(a), q \in Live(b) : Ptr(p) = Ptr(q) => p = q
    /\ \A a \in Allocs : \A p, q \in Slabs(a) : Ptr(p) = Ptr(q) => p = q
    /\ \A a \in Allocs : \A p \in Live(a) :
        Ptr(p) \notin pages /\ \A c \in Cores : block[c] # Ptr(p)
    /\ \A c \in Cores : block[c] \notin pages
    /\ \A c, d \in Cores : block[c] = block[d] => c = d \/ block[c] = None
    /\ \A b \in Blocks \ pages :
        (\E c \in Cores : block[c] = b) \/ \E a \in Allocs : \E p \in Live(a) : Ptr(p) = b

SlabInv == Types /\ LocksHeld /\ Infos /\ Lists /\ Homes /\ Objects /\ Pages

-----------------------------------------------------------------------------
(* Lists and memory                                                        *)

\* A list with a new head.
LEMMA RangePush ==
    ASSUME NEW s \in Seq(Places), NEW p \in Places
    PROVE  /\ <<p>> \o s \in Seq(Places)
           /\ Range(<<p>> \o s) = {p} \cup Range(s)
           /\ Head(<<p>> \o s) = p
           /\ <<p>> \o s # << >>
           /\ IsInjective(s) /\ p \notin Range(s) => IsInjective(<<p>> \o s)
  <1> DEFINE r == <<p>> \o s
  <1>1. /\ r \in Seq(Places) /\ Len(r) = Len(s) + 1 /\ Len(s) \in Nat
        /\ \A i \in 1 .. Len(r) : r[i] = IF i = 1 THEN p ELSE s[i - 1]
    BY ConcatProperties
  <1> HIDE DEF r
  <1>2. DOMAIN r = 1 .. Len(s) + 1 /\ DOMAIN s = 1 .. Len(s)
    BY <1>1
  <1>3. r[1] = p /\ \A i \in 1 .. Len(s) : r[i + 1] = s[i]
    BY <1>1
  <1>4. Range(r) = {p} \cup Range(s)
    <2>1. ASSUME NEW x \in Range(r) PROVE x \in {p} \cup Range(s)
      <3>1. PICK i \in 1 .. Len(s) + 1 : x = r[i]
        BY <1>2 DEF Range
      <3>2. CASE i = 1  BY <1>3, <3>1, <3>2
      <3>3. CASE i # 1
        <4>1. i - 1 \in DOMAIN s /\ x = s[i - 1]
          BY <1>1, <1>2, <3>1, <3>3
        <4> QED  BY <4>1 DEF Range
      <3> QED  BY <3>2, <3>3
    <2>2. p \in Range(r)
      BY <1>1, <1>2, <1>3 DEF Range
    <2>3. ASSUME NEW x \in Range(s) PROVE x \in Range(r)
      <3>1. PICK i \in 1 .. Len(s) : x = s[i]
        BY <1>2 DEF Range
      <3>2. i + 1 \in DOMAIN r /\ r[i + 1] = x
        BY <1>1, <1>2, <1>3, <3>1
      <3> QED  BY <3>2 DEF Range
    <2> QED  BY <2>1, <2>2, <2>3
  <1>5. r # << >> /\ Head(r) = p
    BY <1>1, <1>3
  <1>6. ASSUME IsInjective(s), p \notin Range(s) PROVE IsInjective(r)
    <2> SUFFICES ASSUME NEW i \in 1 .. Len(s) + 1, NEW j \in 1 .. Len(s) + 1, r[i] = r[j]
                 PROVE  i = j
      BY <1>2 DEF IsInjective
    <2>1. \A k \in 1 .. Len(s) : s[k] # p
      BY <1>2, <1>6 DEF Range
    <2>2. \A k, l \in 1 .. Len(s) : s[k] = s[l] => k = l
      BY <1>2, <1>6 DEF IsInjective
    <2>3. CASE i = 1
      BY <1>1, <2>1, <2>3
    <2>4. CASE j = 1
      BY <1>1, <2>1, <2>4
    <2>5. CASE i # 1 /\ j # 1
      <3>1. i - 1 \in 1 .. Len(s) /\ j - 1 \in 1 .. Len(s) /\ s[i - 1] = s[j - 1]
        BY <1>1, <2>5
      <3> QED  BY <2>2, <3>1
    <2> QED  BY <2>3, <2>4, <2>5
  <1> QED  BY <1>1, <1>4, <1>5, <1>6 DEF r

\* A list without its head.
LEMMA RangePop ==
    ASSUME NEW s \in Seq(Places), s # << >>
    PROVE  /\ Tail(s) \in Seq(Places)
           /\ Head(s) \in Range(s) /\ Head(s) \in Places
           /\ IsInjective(s) => /\ IsInjective(Tail(s))
                                /\ Range(Tail(s)) = Range(s) \ {Head(s)}
  <1>1. /\ Tail(s) \in Seq(Places) /\ Head(s) = s[1] /\ Head(s) \in Places
        /\ Len(s) \in Nat \ {0}
        /\ Len(Tail(s)) = Len(s) - 1
        /\ \A i \in 1 .. Len(s) - 1 : Tail(s)[i] = s[i + 1]
    BY HeadTailProperties
  <1> DEFINE t == Tail(s)
  <1>2. DOMAIN t = 1 .. Len(s) - 1 /\ DOMAIN s = 1 .. Len(s)
    BY <1>1
  <1>3. \A i \in 1 .. Len(s) - 1 : t[i] = s[i + 1]
    BY <1>1
  <1> HIDE DEF t
  <1>4. Head(s) \in Range(s)
    BY <1>1, <1>2 DEF Range
  <1>5. ASSUME IsInjective(s) PROVE IsInjective(t) /\ Range(t) = Range(s) \ {Head(s)}
    <2>1. \A k, l \in 1 .. Len(s) : s[k] = s[l] => k = l
      BY <1>2, <1>5 DEF IsInjective
    <2>2. IsInjective(t)
      <3> SUFFICES ASSUME NEW i \in 1 .. Len(s) - 1, NEW j \in 1 .. Len(s) - 1, t[i] = t[j]
                   PROVE  i = j
        BY <1>2 DEF IsInjective
      <3>1. i + 1 \in 1 .. Len(s) /\ j + 1 \in 1 .. Len(s) /\ s[i + 1] = s[j + 1]
        BY <1>1, <1>3
      <3> QED  BY <2>1, <3>1
    <2>3. ASSUME NEW x \in Range(t) PROVE x \in Range(s) \ {Head(s)}
      <3>1. PICK i \in 1 .. Len(s) - 1 : x = t[i]
        BY <1>2 DEF Range
      <3>2. i + 1 \in 1 .. Len(s) /\ x = s[i + 1] /\ i + 1 # 1 /\ 1 \in 1 .. Len(s)
        BY <1>1, <1>3, <3>1
      <3>3. x # s[1]
        BY <2>1, <3>2
      <3> QED  BY <1>1, <1>2, <3>2, <3>3 DEF Range
    <2>4. ASSUME NEW x \in Range(s), x # Head(s) PROVE x \in Range(t)
      <3>1. PICK i \in 1 .. Len(s) : x = s[i]
        BY <1>2 DEF Range
      <3>2. i # 1
        BY <1>1, <2>4, <3>1
      <3>3. i - 1 \in 1 .. Len(s) - 1 /\ t[i - 1] = x
        BY <1>1, <1>3, <3>1, <3>2
      <3> QED  BY <1>2, <3>3 DEF Range
    <2> QED  BY <2>2, <2>3, <2>4
  <1> QED  BY <1>1, <1>4, <1>5 DEF t

\* What a list has.
LEMMA RangeSeq ==
    ASSUME NEW s \in Seq(Places)
    PROVE  /\ Range(s) \subseteq Places
           /\ Range(<< >>) = {} /\ IsInjective(<< >>)
           /\ s # << >> => Head(s) \in Range(s)
  BY RangePop DEF Range, IsInjective

\* Writing a SlabInfo changes what is at that place only.
LEMMA WriteAt ==
    ASSUME NEW X, info \in [Blocks -> [InfoSlots -> X]],
           NEW p \in Places, NEW s \in X, info' = Write(p, s)
    PROVE  /\ info' \in [Blocks -> [InfoSlots -> X]]
           /\ At(p)' = s
           /\ \A q \in Places : q # p => At(q)' = At(q)
  <1>1. p = <<p[1], p[2]>> /\ p[1] \in Blocks /\ p[2] \in InfoSlots
    BY DEF Places
  <1>2. info' = [info EXCEPT ![p[1]] = [info[p[1]] EXCEPT ![p[2]] = s]]
    BY DEF Write
  <1>3. ASSUME NEW q \in Places, q # p PROVE At(q)' = At(q)
    <2>1. q = <<q[1], q[2]>> /\ q[1] \in Blocks /\ q[2] \in InfoSlots
      BY DEF Places
    <2>2. q[1] # p[1] \/ q[2] # p[2]
      BY <1>1, <1>3, <2>1
    <2> QED  BY <1>1, <1>2, <2>1, <2>2 DEF At
  <1> QED  BY <1>1, <1>2, <1>3 DEF At

\* What the invariant says of one slab.
LEMMA SlabFacts ==
    ASSUME SlabInv, NEW a \in Allocs, NEW p \in Slabs(a)
    PROVE  /\ p \in Places /\ p = <<p[1], p[2]>> /\ p[1] \in Blocks /\ p[2] \in InfoSlots
           /\ At(p) \in SlabInfos /\ Ptr(p) \in Blocks
           /\ At(p).free \in Vectors /\ FreeSlots(p) = Bits!Elements(At(p).free)
           /\ At(p).num_free = Cardinality(FreeSlots(p))
           /\ FreeSlots(p) \subseteq 0 .. Size(a) - 1
           /\ Size(a) \in 2 .. Cap
           /\ IsFiniteSet(FreeSlots(p)) /\ Cardinality(FreeSlots(p)) \in Nat
  <1>1. slabs[a] \in Seq(Places) /\ Slabs(a) \subseteq Places
    BY RangeSeq DEF SlabInv, Types, Slabs
  <1>2. Good(p, Size(a))
    BY DEF SlabInv, Infos
  <1>3. Size(a) \in 2 .. Cap /\ Size(a) \in Int
    BY SlabAssumption DEF Size
  <1>4. IsFiniteSet(FreeSlots(p))
    <2>1. 0 \in Int /\ Size(a) - 1 \in Int
      BY <1>3
    <2>2. IsFiniteSet(0 .. Size(a) - 1)
      BY <2>1, FS_Interval
    <2> QED  BY <1>2, <2>2, FS_Subset DEF Good
  <1>5. Cardinality(FreeSlots(p)) \in Nat
    BY <1>4, FS_CardinalityType
  <1> QED  BY <1>1, <1>2, <1>3, <1>4, <1>5 DEF Good, Places, SlabInfos, Ptr, FreeSlots

\* A slab of the free list has a free slot, and find_next finds one.  The slot
\* is taken, the count follows, and a full slab leaves the list.
LEMMA TakeFacts ==
    ASSUME SlabInv, NEW a \in Allocs, ~Dropping(a), freeSlabs[a] # << >>
    PROVE  LET h == Head(freeSlabs[a])
               i == SlotFound(a)
               s == TakeInfo(a)
               L == ListAfterTake(a)
           IN /\ h \in Slabs(a) /\ ~NoSlot(a)
              /\ i \in FreeSlots(h) /\ Taken(a) = <<Ptr(h), i>>
              /\ s \in SlabInfos /\ s.ptr = Ptr(h)
              /\ Bits!Elements(s.free) = FreeSlots(h) \ {i}
              /\ s.num_free = Cardinality(FreeSlots(h) \ {i})
              /\ L \in [Allocs -> Seq(Places)]
              /\ \A b \in Allocs \ {a} : L[b] = freeSlabs[b]
              /\ IsInjective(L[a])
              /\ Range(L[a]) = IF FreeSlots(h) \ {i} = {} THEN Range(freeSlabs[a]) \ {h}
                                                         ELSE Range(freeSlabs[a])
  <1> DEFINE h == Head(freeSlabs[a])
             i == SlotFound(a)
             s == TakeInfo(a)
             L == ListAfterTake(a)
  <1>1. freeSlabs \in [Allocs -> Seq(Places)] /\ freeSlabs[a] \in Seq(Places)
    BY DEF SlabInv, Types
  <1>2. h \in Range(freeSlabs[a]) /\ h \in Slabs(a) /\ FreeSlots(h) # {}
    BY <1>1, RangePop DEF SlabInv, Lists
  <1>3. /\ h \in Places /\ At(h) \in SlabInfos /\ At(h).free \in Vectors
        /\ FreeSlots(h) = Bits!Elements(At(h).free)
        /\ At(h).num_free = Cardinality(FreeSlots(h))
        /\ FreeSlots(h) \subseteq 0 .. Size(a) - 1 /\ Size(a) \in 2 .. Cap
        /\ IsFiniteSet(FreeSlots(h)) /\ Cardinality(FreeSlots(h)) \in Nat
    BY <1>2, SlabFacts
  <1>4. FirstFree(a) = At(h) /\ i = Bits!FindNext(At(h).free, 0)
    BY DEF FirstFree, SlotFound
  <1>5. i \in FreeSlots(h) /\ i # Bits!NoBit
    BY <1>2, <1>3, <1>4, FindNextElements
  <1>6. ~NoSlot(a) /\ Taken(a) = <<Ptr(h), i>>
    BY <1>4, <1>5 DEF NoSlot, Taken, Ptr
  <1>7. i \in 0 .. Cap - 1
    BY <1>3, <1>5, SlabAssumption
  <1>8. s = [At(h) EXCEPT !.free = Bits!SetBit(At(h).free, i, FALSE),
                          !.num_free = At(h).num_free - 1]
    BY <1>4 DEF TakeInfo
  <1>9. /\ Bits!SetBit(At(h).free, i, FALSE) \in Vectors
        /\ Bits!Elements(Bits!SetBit(At(h).free, i, FALSE)) = FreeSlots(h) \ {i}
    BY <1>3, <1>7, SetBitElements
  <1>10. /\ IsFiniteSet(FreeSlots(h) \ {i})
         /\ Cardinality(FreeSlots(h) \ {i}) = Cardinality(FreeSlots(h)) - 1
         /\ Cardinality(FreeSlots(h) \ {i}) \in Nat
         /\ Cardinality(FreeSlots(h) \ {i}) = 0 <=> FreeSlots(h) \ {i} = {}
    <2>1. /\ IsFiniteSet(FreeSlots(h) \ {i})
          /\ Cardinality(FreeSlots(h) \ {i}) = Cardinality(FreeSlots(h)) - 1
      BY <1>3, <1>5, FS_RemoveElement
    <2> QED  BY <2>1, FS_CardinalityType, FS_EmptySet
  <1>11. At(h).ptr \in Blocks /\ At(h).num_free \in 0 .. Cap
    BY <1>3 DEF SlabInfos
  <1> HIDE DEF i, s
  <1>12. /\ s \in SlabInfos /\ s.ptr = Ptr(h)
         /\ s.free = Bits!SetBit(At(h).free, i, FALSE)
         /\ s.num_free = Cardinality(FreeSlots(h) \ {i})
    <2>1. At(h).num_free - 1 \in 0 .. Cap /\ At(h).num_free - 1 = Cardinality(FreeSlots(h) \ {i})
      BY <1>3, <1>10, <1>11, SlabAssumption
    <2> QED  BY <1>3, <1>8, <1>9, <2>1 DEF SlabInfos, Ptr
  <1>13. /\ L \in [Allocs -> Seq(Places)]
         /\ \A b \in Allocs \ {a} : L[b] = freeSlabs[b]
         /\ IsInjective(L[a])
         /\ Range(L[a]) = IF FreeSlots(h) \ {i} = {} THEN Range(freeSlabs[a]) \ {h}
                                                    ELSE Range(freeSlabs[a])
    <2>1. IsInjective(freeSlabs[a])
      BY DEF SlabInv, Lists
    <2>2. /\ Tail(freeSlabs[a]) \in Seq(Places) /\ IsInjective(Tail(freeSlabs[a]))
          /\ Range(Tail(freeSlabs[a])) = Range(freeSlabs[a]) \ {h}
      BY <1>1, <2>1, RangePop
    <2>3. At(h).num_free = 1 <=> FreeSlots(h) \ {i} = {}
      BY <1>3, <1>10
    <2>4. L = IF At(h).num_free = 1 THEN [freeSlabs EXCEPT ![a] = Tail(freeSlabs[a])] ELSE freeSlabs
      BY <1>4 DEF ListAfterTake
    <2> HIDE DEF L, h
    <2>5. CASE FreeSlots(h) \ {i} = {}
      <3>1. L = [freeSlabs EXCEPT ![a] = Tail(freeSlabs[a])]
        BY <2>3, <2>4, <2>5
      <3> QED  BY <1>1, <2>2, <2>5, <3>1
    <2>6. CASE FreeSlots(h) \ {i} # {}
      <3>1. L = freeSlabs
        BY <2>3, <2>4, <2>6
      <3> QED  BY <1>1, <2>1, <2>6, <3>1
    <2> QED  BY <2>5, <2>6
  <1> QED  BY <1>2, <1>5, <1>6, <1>9, <1>12, <1>13 DEF i, s

\* A slot that is in use becomes free, the count follows, and a slab that was
\* full joins the list.
LEMMA FreedFacts ==
    ASSUME SlabInv, NEW a \in Allocs, NEW p \in Slabs(a), ~Dropping(a),
           NEW i \in 0 .. Size(a) - 1, i \notin FreeSlots(p)
    PROVE  LET s == Freed(p, i)
               L == ListAfterFree(a, p)
           IN /\ ~Bits!Bit(At(p).free, i)
              /\ s \in SlabInfos /\ s.ptr = Ptr(p)
              /\ Bits!Elements(s.free) = FreeSlots(p) \cup {i}
              /\ s.num_free = Cardinality(FreeSlots(p) \cup {i})
              /\ L \in [Allocs -> Seq(Places)]
              /\ \A b \in Allocs \ {a} : L[b] = freeSlabs[b]
              /\ IsInjective(L[a])
              /\ Range(L[a]) = Range(freeSlabs[a]) \cup {p}
  <1> DEFINE s == Freed(p, i)
             L == ListAfterFree(a, p)
  <1>1. freeSlabs \in [Allocs -> Seq(Places)] /\ freeSlabs[a] \in Seq(Places)
    BY DEF SlabInv, Types
  <1>2. /\ p \in Places /\ At(p) \in SlabInfos /\ At(p).free \in Vectors
        /\ FreeSlots(p) = Bits!Elements(At(p).free)
        /\ At(p).num_free = Cardinality(FreeSlots(p))
        /\ FreeSlots(p) \subseteq 0 .. Size(a) - 1 /\ Size(a) \in 2 .. Cap
        /\ IsFiniteSet(FreeSlots(p)) /\ Cardinality(FreeSlots(p)) \in Nat
    BY SlabFacts
  <1>3. i \in 0 .. Cap - 1
    BY <1>2, SlabAssumption
  <1>4. ~Bits!Bit(At(p).free, i)
    BY <1>2, <1>3 DEF Bits!Elements
  <1>5. s = [At(p) EXCEPT !.free = Bits!SetBit(At(p).free, i, TRUE),
                          !.num_free = At(p).num_free + 1]
    BY DEF Freed
  <1>6. /\ Bits!SetBit(At(p).free, i, TRUE) \in Vectors
        /\ Bits!Elements(Bits!SetBit(At(p).free, i, TRUE)) = FreeSlots(p) \cup {i}
    BY <1>2, <1>3, SetBitElements
  <1>7. /\ IsFiniteSet(FreeSlots(p) \cup {i})
        /\ Cardinality(FreeSlots(p) \cup {i}) = Cardinality(FreeSlots(p)) + 1
    BY <1>2, FS_AddElement
  <1>8. Cardinality(FreeSlots(p) \cup {i}) <= Size(a)
    <2>1. 0 \in Int /\ Size(a) - 1 \in Int /\ ~(0 > Size(a) - 1) /\ Size(a) - 1 - 0 + 1 = Size(a)
      BY <1>2
    <2>2. IsFiniteSet(0 .. Size(a) - 1) /\ Cardinality(0 .. Size(a) - 1) = Size(a)
      BY <2>1, FS_Interval
    <2>3. FreeSlots(p) \cup {i} \subseteq 0 .. Size(a) - 1
      BY <1>2
    <2> QED  BY <2>2, <2>3, FS_Subset
  <1>9. At(p).ptr \in Blocks
    BY <1>2 DEF SlabInfos
  <1> HIDE DEF s
  <1>10. /\ s \in SlabInfos /\ s.ptr = Ptr(p)
         /\ s.free = Bits!SetBit(At(p).free, i, TRUE)
         /\ s.num_free = Cardinality(FreeSlots(p) \cup {i})
    <2>1. At(p).num_free + 1 \in 0 .. Cap /\ At(p).num_free + 1 = Cardinality(FreeSlots(p) \cup {i})
      BY <1>2, <1>7, <1>8, SlabAssumption
    <2> QED  BY <1>2, <1>5, <1>6, <2>1 DEF SlabInfos, Ptr
  <1>11. /\ L \in [Allocs -> Seq(Places)]
         /\ \A b \in Allocs \ {a} : L[b] = freeSlabs[b]
         /\ IsInjective(L[a])
         /\ Range(L[a]) = Range(freeSlabs[a]) \cup {p}
    <2>1. /\ IsInjective(freeSlabs[a])
          /\ p \in Range(freeSlabs[a]) <=> FreeSlots(p) # {}
      BY DEF SlabInv, Lists
    <2>2. At(p).num_free = 0 <=> FreeSlots(p) = {}
      BY <1>2, FS_EmptySet
    <2>3. L = IF At(p).num_free = 0 THEN [freeSlabs EXCEPT ![a] = <<p>> \o freeSlabs[a]] ELSE freeSlabs
      BY DEF ListAfterFree
    <2>4. CASE FreeSlots(p) = {}
      <3>1. L = [freeSlabs EXCEPT ![a] = <<p>> \o freeSlabs[a]]
        BY <2>2, <2>3, <2>4
      <3>2. /\ <<p>> \o freeSlabs[a] \in Seq(Places) /\ IsInjective(<<p>> \o freeSlabs[a])
            /\ Range(<<p>> \o freeSlabs[a]) = {p} \cup Range(freeSlabs[a])
        BY <1>1, <1>2, <2>1, <2>4, RangePush
      <3> QED  BY <1>1, <3>1, <3>2
    <2>5. CASE FreeSlots(p) # {}
      <3>1. L = freeSlabs
        BY <2>2, <2>3, <2>5
      <3> QED  BY <1>1, <2>1, <2>5, <3>1
    <2> QED  BY <2>4, <2>5
  <1> QED  BY <1>4, <1>6, <1>10, <1>11 DEF s

-----------------------------------------------------------------------------
(* Who does what                                                           *)

\* What the invariant says of a core in the middle of a call.
LEMMA CallFacts ==
    ASSUME SlabInv, NEW c \in Cores, at[c].pc # "idle"
    PROVE  /\ at[c] \in Calls /\ at[c] # Idle
           /\ at[c].alloc \in Users /\ at[c].alloc \in Allocs /\ at[c].alloc # INFO
           /\ lock[at[c].alloc] = c /\ c # None
  <1>1. at[c] \in {Idle} \cup Calls
    BY DEF SlabInv, Types
  <1>2. at[c] # Idle
    BY DEF Idle
  <1> QED  BY <1>1, <1>2, SlabAssumption DEF SlabInv, LocksHeld, Calls, Allocs

\* Nobody drops SLAB_INFO, which is static.
LEMMA InfoStays ==
    ASSUME SlabInv
    PROVE  ~Dropping(INFO) /\ ~Freeing(INFO)
  BY DEF SlabInv, LocksHeld, Dropping, Freeing

\* A step of a core that drops nothing leaves everyone else's drop alone.
LEMMA ModesKept ==
    ASSUME SlabInv, NEW c \in Cores, at \in [Cores -> {Idle} \cup Calls],
           at[c].pc \notin {"drop", "dropinfo"}, at'[c].pc \notin {"drop", "dropinfo"},
           \A d \in Cores : d # c => at'[d] = at[d],
           \A b \in Allocs : \/ lock'[b] = lock[b]
                             \/ lock'[b] \in {None, c} /\ lock[b] \in {None, c}
    PROVE  \A b \in Allocs : (Dropping(b)' <=> Dropping(b)) /\ (Freeing(b)' <=> Freeing(b))
  <1> SUFFICES ASSUME NEW b \in Allocs
               PROVE  (Dropping(b)' <=> Dropping(b)) /\ (Freeing(b)' <=> Freeing(b))
    OBVIOUS
  <1>1. lock[b] \in Cores \cup {None}
    BY DEF SlabInv, Types
  <1>2. CASE lock'[b] = lock[b] /\ lock[b] \notin {None, c}
    <2>1. at'[lock[b]] = at[lock[b]]
      BY <1>1, <1>2
    <2> QED  BY <1>2, <2>1 DEF Dropping, Freeing
  <1>3. CASE lock'[b] \in {None, c} /\ lock[b] \in {None, c}
    <2>1. ~(lock[b] # None /\ at[lock[b]].pc \in {"drop", "dropinfo"})
      BY <1>3
    <2>2. ~(lock'[b] # None /\ at'[lock'[b]].pc \in {"drop", "dropinfo"})
      BY <1>3
    <2> QED  BY <2>1, <2>2 DEF Dropping, Freeing
  <1> QED  BY <1>2, <1>3

\* What a step means that writes no SlabInfo and links no slab.
LEMMA SameSlabs ==
    ASSUME info' = info, slabs' = slabs
    PROVE  /\ \A a : Slabs(a)' = Slabs(a)
           /\ \A p : At(p)' = At(p) /\ Ptr(p)' = Ptr(p) /\ FreeSlots(p)' = FreeSlots(p)
           /\ (Infos <=> Infos') /\ (Homes <=> Homes')
           /\ (held' = held => (Objects <=> Objects'))
  BY DEF Slabs, At, Ptr, FreeSlots, Infos, Good, Homes, Objects

\* The slabs stay live if no drop moves on.
LEMMA SameLive ==
    ASSUME slabs' = slabs, \A a \in Allocs : Freeing(a)' <=> Freeing(a)
    PROVE  \A a \in Allocs : Live(a)' = Live(a)
  <1> SUFFICES ASSUME NEW a \in Allocs PROVE Live(a)' = Live(a)
    OBVIOUS
  <1>1. Slabs(a)' = Slabs(a) /\ Head(slabs[a])' = Head(slabs[a])
    BY DEF Slabs
  <1>2. Live(a) = {p \in Slabs(a) : ~(Freeing(a) /\ p = Head(slabs[a]))}
    BY DEF Live
  <1>3. Live(a)' = {p \in Slabs(a)' : ~(Freeing(a)' /\ p = Head(slabs[a])')}
    BY DEF Live
  <1> QED  BY <1>1, <1>2, <1>3, Zenon

\* Pages is about where SlabInfos, pages and blocks are.
LEMMA SamePages ==
    ASSUME Pages, info' = info, slabs' = slabs, pages' = pages, block' = block,
           \A a \in Allocs : Freeing(a)' <=> Freeing(a)
    PROVE  Pages'
  <1>1. \A a \in Allocs : Slabs(a)' = Slabs(a) /\ Live(a)' = Live(a)
    BY SameSlabs, SameLive
  <1>2. \A p : Ptr(p)' = Ptr(p)
    BY DEF Ptr, At
  <1> QED  BY <1>1, <1>2 DEF Pages

\* Lists is about the two lists, the SlabInfos and who drops what.
LEMMA SameLists ==
    ASSUME Lists, info' = info, slabs' = slabs, freeSlabs' = freeSlabs,
           \A a \in Allocs : Dropping(a)' <=> Dropping(a)
    PROVE  Lists'
  <1>1. \A a : Slabs(a)' = Slabs(a)
    BY DEF Slabs
  <1>2. \A p : FreeSlots(p)' = FreeSlots(p)
    BY DEF FreeSlots, At
  <1> QED  BY <1>1, <1>2 DEF Lists

-----------------------------------------------------------------------------
(* The steps that take and release locks and pages                         *)

\* A call that locks its allocator disturbs nobody.
LEMMA BeginInv ==
    ASSUME SlabInv, NEW c \in Cores, NEW a \in Users, Begin(c, a)
    PROVE  SlabInv'
  <1> DEFINE call == [pc |-> "alloc", alloc |-> a]
  <1>1. /\ at[c] = Idle /\ lock[a] = None
        /\ lock' = [lock EXCEPT ![a] = c] /\ at' = [at EXCEPT ![c] = call]
        /\ UNCHANGED <<pages, info, slabs, freeSlabs, block, held, panicked>>
    BY DEF Begin
  <1>2. /\ Types /\ LocksHeld /\ Infos /\ Lists /\ Homes /\ Objects /\ Pages
        /\ lock \in [Allocs -> Cores \cup {None}] /\ at \in [Cores -> {Idle} \cup Calls]
    BY DEF SlabInv, Types
  <1>3. /\ a \in Allocs /\ a # INFO /\ None \notin Cores /\ INFO \in Allocs
        /\ call.pc = "alloc" /\ call.alloc = a /\ call \in Calls /\ call # Idle
        /\ Idle.pc = "idle"
    BY SlabAssumption DEF Allocs, Calls, Idle
  <1> HIDE DEF call
  <1>4. /\ lock'[a] = c /\ \A b \in Allocs : b # a => lock'[b] = lock[b]
        /\ at'[c] = call /\ \A d \in Cores : d # c => at'[d] = at[d]
        /\ lock' \in [Allocs -> Cores \cup {None}] /\ at' \in [Cores -> {Idle} \cup Calls]
    BY <1>1, <1>2, <1>3
  <1>5. \A b \in Allocs : (Dropping(b)' <=> Dropping(b)) /\ (Freeing(b)' <=> Freeing(b))
    BY <1>1, <1>2, <1>3, <1>4, ModesKept
  <1>6. Types'
    BY <1>1, <1>2, <1>4 DEF Types
  <1>7. LocksHeld'
    <2>1. \A b \in Allocs : lock[b] # c
      BY <1>1, <1>2, <1>3 DEF LocksHeld, Allocs
    <2>2. \A d \in Cores : at'[d] # Idle => lock'[at'[d].alloc] = d
      BY <1>1, <1>2, <1>3, <1>4, CallFacts DEF LocksHeld
    <2>3. \A b \in Users : lock'[b] # None => at'[lock'[b]] # Idle /\ at'[lock'[b]].alloc = b
      <3> SUFFICES ASSUME NEW b \in Users, lock'[b] # None
                   PROVE  at'[lock'[b]] # Idle /\ at'[lock'[b]].alloc = b
        OBVIOUS
      <3>1. CASE b = a  BY <1>3, <1>4, <3>1
      <3>2. CASE b # a
        <4>1. b \in Allocs /\ lock'[b] = lock[b] /\ lock[b] \in Cores /\ lock[b] # c
          BY <1>2, <1>4, <2>1, <3>2 DEF Allocs
        <4> QED  BY <1>2, <1>4, <4>1 DEF LocksHeld
      <3> QED  BY <3>1, <3>2
    <2>4. lock'[INFO] # None => at'[lock'[INFO]].pc \in {"info", "undo"}
      <3>1. lock'[INFO] = lock[INFO] /\ lock[INFO] # c /\ lock[INFO] \in Cores \cup {None}
        BY <1>2, <1>3, <1>4, <2>1
      <3> QED  BY <1>2, <1>4, <3>1 DEF LocksHeld
    <2>5. \A d \in Cores : at'[d].pc = "undo" => lock'[INFO] = d
      BY <1>2, <1>3, <1>4 DEF LocksHeld
    <2>6. \A d \in Cores : block'[d] # None <=> at'[d].pc \in {"info", "undo"}
      BY <1>1, <1>2, <1>3, <1>4 DEF LocksHeld
    <2>7. \A d \in Cores : at'[d].pc \in {"drop", "dropinfo"} =>
            /\ slabs'[at'[d].alloc] # << >> /\ freeSlabs'[at'[d].alloc] = << >>
            /\ held'[at'[d].alloc] = {}
      BY <1>1, <1>2, <1>3, <1>4 DEF LocksHeld
    <2> QED  BY <2>2, <2>3, <2>4, <2>5, <2>6, <2>7 DEF LocksHeld
  <1>8. Infos' /\ Homes' /\ Objects'
    BY <1>1, <1>2, SameSlabs
  <1>9. Lists'
    BY <1>1, <1>2, <1>5, SameLists
  <1>10. Pages'
    BY <1>1, <1>2, <1>5, SamePages
  <1> QED  BY <1>6, <1>7, <1>8, <1>9, <1>10 DEF SlabInv

\* The second lock is taken with the first held.
LEMMA LockInfoInv ==
    ASSUME SlabInv, NEW c \in Cores, LockInfo(c)
    PROVE  SlabInv'
  <1>1. /\ at[c].pc = "info" /\ lock[INFO] = None
        /\ lock' = [lock EXCEPT ![INFO] = c]
        /\ UNCHANGED <<pages, info, slabs, freeSlabs, at, block, held, panicked>>
    BY DEF LockInfo
  <1>2. /\ Types /\ LocksHeld /\ Infos /\ Lists /\ Homes /\ Objects /\ Pages
        /\ lock \in [Allocs -> Cores \cup {None}] /\ at \in [Cores -> {Idle} \cup Calls]
    BY DEF SlabInv, Types
  <1>3. INFO \in Allocs /\ None \notin Cores /\ INFO \notin Users /\ \A a \in Users : a \in Allocs
    BY SlabAssumption DEF Allocs
  <1>4. /\ lock'[INFO] = c /\ \A b \in Allocs : b # INFO => lock'[b] = lock[b]
        /\ lock' \in [Allocs -> Cores \cup {None}]
    BY <1>1, <1>2, <1>3
  <1>5. \A b \in Allocs : (Dropping(b)' <=> Dropping(b)) /\ (Freeing(b)' <=> Freeing(b))
    BY <1>1, <1>2, <1>4, ModesKept
  <1>6. Types'
    BY <1>1, <1>2, <1>4 DEF Types
  <1>7. LocksHeld'
    <2>1. \A d \in Cores : at[d] # Idle => lock'[at[d].alloc] = d
      <3> SUFFICES ASSUME NEW d \in Cores, at[d] # Idle PROVE lock'[at[d].alloc] = d
        OBVIOUS
      <3>1. at[d].alloc \in Users
        BY <1>2 DEF Calls
      <3> QED  BY <1>2, <1>3, <1>4, <3>1 DEF LocksHeld
    <2>2. \A b \in Users : lock'[b] = lock[b]
      BY <1>3, <1>4
    <2>3. \A d \in Cores : at[d].pc = "undo" => lock'[INFO] = d
      BY <1>1, <1>2, <1>3 DEF LocksHeld
    <2> QED  BY <1>1, <1>2, <1>4, <2>1, <2>2, <2>3 DEF LocksHeld
  <1>8. Infos' /\ Homes' /\ Objects'
    BY <1>1, <1>2, SameSlabs
  <1>9. Lists'
    BY <1>1, <1>2, <1>5, SameLists
  <1>10. Pages'
    BY <1>1, <1>2, <1>5, SamePages
  <1> QED  BY <1>6, <1>7, <1>8, <1>9, <1>10 DEF SlabInv

\* A core that returns from a call releases what it has locked.
LEMMA LocksReturn ==
    ASSUME SlabInv, NEW c \in Cores, at[c].pc # "idle", at'[c] = Idle,
           \A d \in Cores : d # c => at'[d] = at[d] /\ block'[d] = block[d],
           block'[c] = None, lock'[at[c].alloc] = None,
           \A b \in Users : b # at[c].alloc =>
              /\ lock'[b] = lock[b] /\ slabs'[b] = slabs[b]
              /\ freeSlabs'[b] = freeSlabs[b] /\ held'[b] = held[b],
           lock'[INFO] = IF lock[INFO] = c THEN None ELSE lock[INFO]
    PROVE  LocksHeld'
  <1>1. /\ at[c] \in Calls /\ at[c].alloc \in Users /\ lock[at[c].alloc] = c
        /\ at \in [Cores -> {Idle} \cup Calls] /\ lock \in [Allocs -> Cores \cup {None}]
        /\ LocksHeld /\ None \notin Cores /\ Idle.pc = "idle" /\ INFO \in Allocs
    BY CallFacts, SlabAssumption DEF SlabInv, Types, Idle, Allocs
  <1>2. \A d \in Cores : d # c /\ at[d] # Idle =>
            at[d].alloc \in Users /\ at[d].alloc # at[c].alloc
    BY <1>1 DEF LocksHeld, Calls
  <1>3. \A d \in Cores : d # c /\ at[d].pc # "idle" => at[d] # Idle
    BY <1>1
  <1>4. \A b \in Users : b # at[c].alloc => lock[b] # c
    BY <1>1 DEF LocksHeld
  <1>5. \A d \in Cores : at'[d] # Idle => lock'[at'[d].alloc] = d
    BY <1>1, <1>2 DEF LocksHeld
  <1>6. \A b \in Users : lock'[b] # None => at'[lock'[b]] # Idle /\ at'[lock'[b]].alloc = b
    <2> SUFFICES ASSUME NEW b \in Users, lock'[b] # None
                 PROVE  at'[lock'[b]] # Idle /\ at'[lock'[b]].alloc = b
      OBVIOUS
    <2>1. b # at[c].alloc /\ lock'[b] = lock[b] /\ lock[b] # c /\ lock[b] \in Cores
      BY <1>1, <1>4 DEF Allocs
    <2> QED  BY <1>1, <2>1 DEF LocksHeld
  <1>7. lock'[INFO] # None => at'[lock'[INFO]].pc \in {"info", "undo"}
    <2> SUFFICES ASSUME lock'[INFO] # None PROVE at'[lock'[INFO]].pc \in {"info", "undo"}
      OBVIOUS
    <2>1. lock[INFO] # c /\ lock'[INFO] = lock[INFO] /\ lock[INFO] \in Cores
      BY <1>1
    <2> QED  BY <1>1, <2>1 DEF LocksHeld
  <1>8. \A d \in Cores : at'[d].pc = "undo" => lock'[INFO] = d
    BY <1>1 DEF LocksHeld
  <1>9. \A d \in Cores : block'[d] # None <=> at'[d].pc \in {"info", "undo"}
    BY <1>1 DEF LocksHeld
  <1>10. \A d \in Cores : at'[d].pc \in {"drop", "dropinfo"} =>
            /\ slabs'[at'[d].alloc] # << >> /\ freeSlabs'[at'[d].alloc] = << >>
            /\ held'[at'[d].alloc] = {}
    <2> SUFFICES ASSUME NEW d \in Cores, at'[d].pc \in {"drop", "dropinfo"}
                 PROVE  /\ slabs'[at'[d].alloc] # << >> /\ freeSlabs'[at'[d].alloc] = << >>
                        /\ held'[at'[d].alloc] = {}
      OBVIOUS
    <2>1. d # c /\ at'[d] = at[d] /\ at[d] # Idle
      BY <1>1
    <2> QED  BY <1>1, <1>2, <2>1 DEF LocksHeld
  <1> QED  BY <1>5, <1>6, <1>7, <1>8, <1>9, <1>10 DEF LocksHeld

\* A core that goes on with alloc() keeps its allocator's lock, and has a
\* block in its hands until the SlabInfo is written.
LEMMA LocksMove ==
    ASSUME SlabInv, NEW c \in Cores, at[c].pc \in {"alloc", "info"},
           at'[c] \in Calls, at'[c].alloc = at[c].alloc,
           at'[c].pc \in {"alloc", "info", "undo"},
           \A d \in Cores : d # c => at'[d] = at[d] /\ block'[d] = block[d],
           block'[c] # None <=> at'[c].pc \in {"info", "undo"},
           \A b \in Users : lock'[b] = lock[b],
           \/ lock'[INFO] = lock[INFO]
           \/ lock[INFO] = c /\ lock'[INFO] = None,
           at'[c].pc = "undo" => lock'[INFO] = c,
           at'[c].pc = "alloc" => lock'[INFO] # c,
           \A b \in Users : b # at[c].alloc =>
              slabs'[b] = slabs[b] /\ freeSlabs'[b] = freeSlabs[b],
           held' = held
    PROVE  LocksHeld'
  <1>1. /\ at[c] \in Calls /\ at[c].alloc \in Users /\ lock[at[c].alloc] = c
        /\ at \in [Cores -> {Idle} \cup Calls] /\ lock \in [Allocs -> Cores \cup {None}]
        /\ LocksHeld /\ None \notin Cores /\ Idle.pc = "idle" /\ INFO \in Allocs
        /\ at'[c] # Idle /\ at[c] # Idle
    <2>1. at[c].pc # "idle" /\ Idle.pc = "idle" /\ at'[c].pc # "idle"
      BY DEF Idle
    <2> QED  BY <2>1, CallFacts, SlabAssumption DEF SlabInv, Types, Allocs
  <1>2. \A d \in Cores : d # c /\ at[d] # Idle =>
            at[d].alloc \in Users /\ at[d].alloc # at[c].alloc
    BY <1>1 DEF LocksHeld, Calls
  <1>3. \A d \in Cores : at'[d] # Idle => lock'[at'[d].alloc] = d
    BY <1>1, <1>2 DEF LocksHeld
  <1>4. \A b \in Users : lock'[b] # None => at'[lock'[b]] # Idle /\ at'[lock'[b]].alloc = b
    <2> SUFFICES ASSUME NEW b \in Users, lock[b] # None
                 PROVE  at'[lock[b]] # Idle /\ at'[lock[b]].alloc = b
      OBVIOUS
    <2>1. lock[b] \in Cores
      BY <1>1 DEF Allocs
    <2> QED  BY <1>1, <2>1 DEF LocksHeld
  <1>5. lock'[INFO] # None => at'[lock'[INFO]].pc \in {"info", "undo"}
    <2> SUFFICES ASSUME lock'[INFO] # None PROVE at'[lock'[INFO]].pc \in {"info", "undo"}
      OBVIOUS
    <2>1. lock'[INFO] = lock[INFO] /\ lock[INFO] \in Cores
      BY <1>1
    <2> QED  BY <1>1, <2>1 DEF LocksHeld
  <1>6. \A d \in Cores : at'[d].pc = "undo" => lock'[INFO] = d
    BY <1>1 DEF LocksHeld
  <1>7. \A d \in Cores : block'[d] # None <=> at'[d].pc \in {"info", "undo"}
    BY <1>1 DEF LocksHeld
  <1>8. \A d \in Cores : at'[d].pc \in {"drop", "dropinfo"} =>
            /\ slabs'[at'[d].alloc] # << >> /\ freeSlabs'[at'[d].alloc] = << >>
            /\ held'[at'[d].alloc] = {}
    <2> SUFFICES ASSUME NEW d \in Cores, at'[d].pc \in {"drop", "dropinfo"}
                 PROVE  /\ slabs'[at'[d].alloc] # << >> /\ freeSlabs'[at'[d].alloc] = << >>
                        /\ held'[at'[d].alloc] = {}
      OBVIOUS
    <2>1. d # c /\ at'[d] = at[d] /\ at[d] # Idle
      BY <1>1
    <2> QED  BY <1>1, <1>2, <2>1 DEF LocksHeld
  <1> QED  BY <1>3, <1>4, <1>5, <1>6, <1>7, <1>8 DEF LocksHeld

\* The pages go back to where they came from.
LEMMA UndoInv ==
    ASSUME SlabInv, NEW c \in Cores, Undo(c)
    PROVE  SlabInv'
  <1> DEFINE a == at[c].alloc
  <1>1. /\ at[c].pc = "undo" /\ pages' = pages \cup {block[c]}
        /\ block' = [block EXCEPT ![c] = None]
        /\ lock' = [b \in Allocs |-> IF b \in {INFO, a} THEN None ELSE lock[b]]
        /\ at' = [at EXCEPT ![c] = Idle]
        /\ UNCHANGED <<info, slabs, freeSlabs, held, panicked>>
    BY DEF Undo, Unlock
  <1>2. /\ Types /\ LocksHeld /\ Infos /\ Lists /\ Homes /\ Objects /\ Pages
        /\ lock \in [Allocs -> Cores \cup {None}] /\ at \in [Cores -> {Idle} \cup Calls]
        /\ block \in [Cores -> Blocks \cup {None}] /\ pages \in SUBSET Blocks
    BY DEF SlabInv, Types
  <1>3. /\ a \in Users /\ a \in Allocs /\ a # INFO /\ lock[a] = c /\ lock[INFO] = c
        /\ INFO \in Allocs /\ Users \subseteq Allocs /\ Idle.pc = "idle"
        /\ block[c] \in Blocks
    BY <1>1, <1>2, CallFacts DEF LocksHeld, Allocs, Idle
  <1> HIDE DEF a
  <1>4. /\ lock' \in [Allocs -> Cores \cup {None}] /\ at' \in [Cores -> {Idle} \cup Calls]
        /\ block' \in [Cores -> Blocks \cup {None}]
        /\ lock'[a] = None /\ lock'[INFO] = None
        /\ \A b \in Allocs : b # a /\ b # INFO => lock'[b] = lock[b]
        /\ at'[c] = Idle /\ block'[c] = None
        /\ \A d \in Cores : d # c => at'[d] = at[d] /\ block'[d] = block[d]
    BY <1>1, <1>2, <1>3
  <1>5. \A b \in Allocs : (Dropping(b)' <=> Dropping(b)) /\ (Freeing(b)' <=> Freeing(b))
    <2>1. at[c].pc \notin {"drop", "dropinfo"} /\ at'[c].pc \notin {"drop", "dropinfo"}
      BY <1>1, <1>3, <1>4
    <2> QED  BY <1>2, <1>3, <1>4, <2>1, ModesKept
  <1>6. Types'
    BY <1>1, <1>2, <1>3, <1>4 DEF Types
  <1>7. LocksHeld'
    <2>1. at[c].pc # "idle"
      BY <1>1
    <2>2. \A b \in Users : b # a =>
            /\ lock'[b] = lock[b] /\ slabs'[b] = slabs[b]
            /\ freeSlabs'[b] = freeSlabs[b] /\ held'[b] = held[b]
      BY <1>1, <1>3, <1>4, SlabAssumption
    <2>3. lock'[INFO] = IF lock[INFO] = c THEN None ELSE lock[INFO]
      BY <1>3, <1>4
    <2> QED  BY <1>4, <2>1, <2>2, <2>3, LocksReturn DEF a
  <1>8. Infos' /\ Homes' /\ Objects'
    BY <1>1, <1>2, SameSlabs
  <1>9. Lists'
    BY <1>1, <1>2, <1>5, SameLists
  <1>10. Pages'
    <2>1. \A b \in Allocs : Slabs(b)' = Slabs(b) /\ Live(b)' = Live(b)
      BY <1>1, <1>5, SameSlabs, SameLive
    <2>2. \A p : Ptr(p)' = Ptr(p)
      BY <1>1 DEF Ptr, At
    <2>3. None \notin Blocks
      BY SlabAssumption
    <2>4. \A b \in Allocs : \A p \in Live(b) : Ptr(p) \in Blocks
      BY SlabFacts DEF Live
    <2>5. \A b \in Allocs : \A p \in Live(b) :
            Ptr(p) \notin pages' /\ \A d \in Cores : block'[d] # Ptr(p)
      BY <1>1, <1>2, <1>4, <2>3, <2>4 DEF Pages
    <2>6. \A d \in Cores : block'[d] \notin pages'
      BY <1>1, <1>2, <1>3, <1>4, <2>3 DEF Pages
    <2>7. \A d, e \in Cores : block'[d] = block'[e] => d = e \/ block'[d] = None
      BY <1>2, <1>4 DEF Pages
    <2>8. \A b \in Blocks \ pages' :
            (\E d \in Cores : block'[d] = b) \/ \E x \in Allocs : \E p \in Live(x) : Ptr(p) = b
      BY <1>1, <1>2, <1>4 DEF Pages
    <2> QED  BY <1>2, <2>1, <2>2, <2>5, <2>6, <2>7, <2>8 DEF Pages
  <1> QED  BY <1>6, <1>7, <1>8, <1>9, <1>10 DEF SlabInv

\* A core moves on within its call.
LEMMA GotoFacts ==
    ASSUME SlabInv, NEW c \in Cores, at[c].pc # "idle",
           NEW x \in {"alloc", "info", "undo", "drop", "dropinfo"}, Goto(c, x)
    PROVE  /\ at' \in [Cores -> {Idle} \cup Calls]
           /\ at'[c] \in Calls /\ at'[c].pc = x /\ at'[c].alloc = at[c].alloc
           /\ \A d \in Cores : d # c => at'[d] = at[d]
  <1>1. at \in [Cores -> {Idle} \cup Calls] /\ at[c] \in Calls
    BY CallFacts DEF SlabInv, Types
  <1>2. at' = [at EXCEPT ![c] = [at[c] EXCEPT !.pc = x]]
    BY DEF Goto
  <1> DEFINE r == [at[c] EXCEPT !.pc = x]
  <1>3. r \in Calls /\ r.pc = x /\ r.alloc = at[c].alloc
    BY <1>1 DEF Calls
  <1> HIDE DEF r
  <1>4. at' = [at EXCEPT ![c] = r]
    BY <1>2 DEF r
  <1> QED  BY <1>1, <1>3, <1>4

\* A block goes from the page allocator to the core, or the call fails.
LEMMA GetPagesInv ==
    ASSUME SlabInv, NEW c \in Cores, GetPages(c)
    PROVE  SlabInv'
  <1> DEFINE a == at[c].alloc
  <1>1. /\ at[c].pc = "alloc"
        /\ UNCHANGED <<info, slabs, freeSlabs, held, panicked>>
        /\ \/ /\ lock' = [b \in Allocs |-> IF b \in {a} THEN None ELSE lock[b]]
              /\ at' = [at EXCEPT ![c] = Idle] /\ UNCHANGED <<pages, block>>
           \/ \E b \in pages : /\ pages' = pages \ {b} /\ block' = [block EXCEPT ![c] = b]
                               /\ Goto(c, "info") /\ UNCHANGED lock
    BY DEF GetPages, Unlock
  <1>2. /\ Types /\ LocksHeld /\ Infos /\ Lists /\ Homes /\ Objects /\ Pages
        /\ lock \in [Allocs -> Cores \cup {None}] /\ at \in [Cores -> {Idle} \cup Calls]
        /\ block \in [Cores -> Blocks \cup {None}] /\ pages \in SUBSET Blocks
    BY DEF SlabInv, Types
  <1>3. /\ a \in Users /\ a \in Allocs /\ a # INFO /\ lock[a] = c /\ lock[INFO] # c
        /\ INFO \in Allocs /\ Users \subseteq Allocs /\ INFO \notin Users /\ Idle.pc = "idle"
        /\ block[c] = None /\ None \notin Cores /\ None \notin Blocks
    <2>1. at[c].pc # "idle"
      BY <1>1
    <2>2. INFO \in Allocs /\ Users \subseteq Allocs /\ Idle.pc = "idle"
      BY DEF Allocs, Idle
    <2> QED  BY <1>1, <1>2, <2>1, <2>2, CallFacts, SlabAssumption DEF LocksHeld
  <1> HIDE DEF a
  <1>4. Infos' /\ Homes' /\ Objects'
    BY <1>1, <1>2, SameSlabs
  <1>5. CASE /\ lock' = [b \in Allocs |-> IF b \in {a} THEN None ELSE lock[b]]
             /\ at' = [at EXCEPT ![c] = Idle] /\ UNCHANGED <<pages, block>>
    <2>1. /\ lock' \in [Allocs -> Cores \cup {None}] /\ at' \in [Cores -> {Idle} \cup Calls]
          /\ lock'[a] = None /\ \A b \in Allocs : b # a => lock'[b] = lock[b]
          /\ at'[c] = Idle /\ block'[c] = None
          /\ \A d \in Cores : d # c => at'[d] = at[d] /\ block'[d] = block[d]
      BY <1>2, <1>3, <1>5
    <2>2. \A b \in Allocs : (Dropping(b)' <=> Dropping(b)) /\ (Freeing(b)' <=> Freeing(b))
      <3>1. at[c].pc \notin {"drop", "dropinfo"} /\ at'[c].pc \notin {"drop", "dropinfo"}
        BY <1>1, <1>3, <2>1
      <3> QED  BY <1>2, <1>3, <2>1, <3>1, ModesKept
    <2>3. Types'
      BY <1>1, <1>2, <1>5, <2>1 DEF Types
    <2>4. LocksHeld'
      <3>1. at[c].pc # "idle"
        BY <1>1
      <3>2. \A b \in Users : b # a =>
            /\ lock'[b] = lock[b] /\ slabs'[b] = slabs[b]
            /\ freeSlabs'[b] = freeSlabs[b] /\ held'[b] = held[b]
        BY <1>1, <1>3, <2>1
      <3>3. lock'[INFO] = IF lock[INFO] = c THEN None ELSE lock[INFO]
        BY <1>3, <2>1
      <3> QED  BY <2>1, <3>1, <3>2, <3>3, LocksReturn DEF a
    <2>5. Lists'
      BY <1>1, <1>2, <2>2, SameLists
    <2>6. Pages'
      BY <1>1, <1>2, <1>5, <2>2, SamePages
    <2> QED  BY <1>4, <2>3, <2>4, <2>5, <2>6 DEF SlabInv
  <1>6. ASSUME NEW x \in pages, pages' = pages \ {x}, block' = [block EXCEPT ![c] = x],
               Goto(c, "info"), UNCHANGED lock
        PROVE  SlabInv'
    <2>1. /\ at' \in [Cores -> {Idle} \cup Calls]
          /\ at'[c] \in Calls /\ at'[c].pc = "info" /\ at'[c].alloc = a
          /\ \A d \in Cores : d # c => at'[d] = at[d]
      <3>1. at[c].pc # "idle"
        BY <1>1
      <3> QED  BY <1>6, <3>1, GotoFacts DEF a
    <2>2. /\ x \in Blocks /\ x # None /\ block' \in [Cores -> Blocks \cup {None}]
          /\ block'[c] = x /\ \A d \in Cores : d # c => block'[d] = block[d]
      BY <1>2, <1>3, <1>6
    <2>3. \A b \in Allocs : (Dropping(b)' <=> Dropping(b)) /\ (Freeing(b)' <=> Freeing(b))
      <3>1. at[c].pc \notin {"drop", "dropinfo"} /\ at'[c].pc \notin {"drop", "dropinfo"}
        BY <1>1, <2>1
      <3> QED  BY <1>2, <1>6, <2>1, <3>1, ModesKept
    <2>4. Types'
      BY <1>1, <1>2, <1>6, <2>1, <2>2 DEF Types
    <2>5. LocksHeld'
      <3>1. /\ at[c].pc \in {"alloc", "info"} /\ at'[c].pc \in {"alloc", "info", "undo"}
            /\ at'[c].pc # "undo" /\ at'[c].pc # "alloc"
            /\ (block'[c] # None <=> at'[c].pc \in {"info", "undo"})
        BY <1>1, <2>1, <2>2
      <3>2. /\ \A d \in Cores : d # c => at'[d] = at[d] /\ block'[d] = block[d]
            /\ lock' = lock /\ slabs' = slabs /\ freeSlabs' = freeSlabs /\ held' = held
        BY <1>1, <1>6, <2>1, <2>2
      <3> QED  BY <2>1, <3>1, <3>2, LocksMove DEF a
    <2>6. Lists'
      BY <1>1, <1>2, <2>3, SameLists
    <2>7. Pages'
      <3>1. \A b \in Allocs : Slabs(b)' = Slabs(b) /\ Live(b)' = Live(b)
        BY <1>1, <2>3, SameSlabs, SameLive
      <3>2. \A p : Ptr(p)' = Ptr(p)
        BY <1>1 DEF Ptr, At
      <3>3. \A b \in Allocs : \A p \in Live(b) :
              Ptr(p) \notin pages' /\ \A d \in Cores : block'[d] # Ptr(p)
        BY <1>2, <1>6, <2>2 DEF Pages
      <3>4. \A d \in Cores : block'[d] \notin pages'
        BY <1>2, <1>6, <2>2 DEF Pages
      <3>5. \A d, e \in Cores : block'[d] = block'[e] => d = e \/ block'[d] = None
        BY <1>2, <1>6, <2>2 DEF Pages
      <3>6. \A b \in Blocks \ pages' :
              (\E d \in Cores : block'[d] = b) \/ \E y \in Allocs : \E p \in Live(y) : Ptr(p) = b
        <4> SUFFICES ASSUME NEW b \in Blocks \ pages'
                     PROVE  \/ \E d \in Cores : block'[d] = b
                            \/ \E y \in Allocs : \E p \in Live(y) : Ptr(p) = b
          OBVIOUS
        <4>1. CASE b = x  BY <2>2, <4>1
        <4>2. CASE b # x
          <5>1. b \in Blocks \ pages
            BY <1>6, <4>2
          <5>2. CASE \E d \in Cores : block[d] = b
            BY <1>2, <1>3, <2>2, <5>2
          <5> QED  BY <1>2, <5>1, <5>2 DEF Pages
        <4> QED  BY <4>1, <4>2
      <3> QED  BY <1>2, <3>1, <3>2, <3>3, <3>4, <3>5, <3>6 DEF Pages
    <2> QED  BY <1>4, <2>4, <2>5, <2>6, <2>7 DEF SlabInv
  <1> QED  BY <1>1, <1>5, <1>6

\* An allocator is dropped only by a core that has it to itself.
LEMMA BeginDropInv ==
    ASSUME SlabInv, NEW c \in Cores, NEW a \in Users, BeginDrop(c, a)
    PROVE  SlabInv'
  <1> DEFINE call == [pc |-> "drop", alloc |-> a]
  <1>1. /\ at[c] = Idle /\ lock[a] = None /\ held[a] = {} /\ slabs[a] # << >>
        /\ lock' = [lock EXCEPT ![a] = c] /\ at' = [at EXCEPT ![c] = call]
        /\ freeSlabs' = [freeSlabs EXCEPT ![a] = << >>]
        /\ UNCHANGED <<pages, info, slabs, block, held, panicked>>
    BY DEF BeginDrop
  <1>2. /\ Types /\ LocksHeld /\ Infos /\ Lists /\ Homes /\ Objects /\ Pages
        /\ lock \in [Allocs -> Cores \cup {None}] /\ at \in [Cores -> {Idle} \cup Calls]
        /\ freeSlabs \in [Allocs -> Seq(Places)]
    BY DEF SlabInv, Types
  <1>3. /\ a \in Allocs /\ a # INFO /\ None \notin Cores /\ INFO \in Allocs
        /\ call.pc = "drop" /\ call.alloc = a /\ call \in Calls /\ call # Idle
        /\ Idle.pc = "idle"
    BY SlabAssumption DEF Allocs, Calls, Idle
  <1> HIDE DEF call
  <1>4. /\ lock'[a] = c /\ \A b \in Allocs : b # a => lock'[b] = lock[b]
        /\ at'[c] = call /\ \A d \in Cores : d # c => at'[d] = at[d]
        /\ lock' \in [Allocs -> Cores \cup {None}] /\ at' \in [Cores -> {Idle} \cup Calls]
        /\ freeSlabs' \in [Allocs -> Seq(Places)] /\ freeSlabs'[a] = << >>
        /\ \A b \in Allocs : b # a => freeSlabs'[b] = freeSlabs[b]
    BY <1>1, <1>2, <1>3
  <1>5. \A b \in Allocs : lock[b] # c
    BY <1>1, <1>2, <1>3 DEF LocksHeld, Allocs
  <1>6. /\ Dropping(a)' /\ ~Freeing(a)' /\ ~Freeing(a)
        /\ \A b \in Allocs : b # a => (Dropping(b)' <=> Dropping(b)) /\ (Freeing(b)' <=> Freeing(b))
    <2>1. Dropping(a)' /\ ~Freeing(a)' /\ ~Freeing(a)
      BY <1>1, <1>3, <1>4 DEF Dropping, Freeing
    <2>2. ASSUME NEW b \in Allocs, b # a
          PROVE  (Dropping(b)' <=> Dropping(b)) /\ (Freeing(b)' <=> Freeing(b))
      <3>1. lock'[b] = lock[b] /\ lock[b] # c /\ lock[b] \in Cores \cup {None}
        BY <1>2, <1>4, <1>5, <2>2
      <3>2. CASE lock[b] = None
        BY <3>1, <3>2 DEF Dropping, Freeing
      <3>3. CASE lock[b] # None
        <4>1. at'[lock[b]] = at[lock[b]]
          BY <1>4, <3>1, <3>3
        <4> QED  BY <3>1, <4>1 DEF Dropping, Freeing
      <3> QED  BY <3>2, <3>3
    <2> QED  BY <2>1, <2>2
  <1>7. Types'
    BY <1>1, <1>2, <1>4 DEF Types
  <1>8. LocksHeld'
    <2>1. \A d \in Cores : at'[d] # Idle => lock'[at'[d].alloc] = d
      BY <1>1, <1>2, <1>3, <1>4, CallFacts DEF LocksHeld
    <2>2. \A b \in Users : lock'[b] # None => at'[lock'[b]] # Idle /\ at'[lock'[b]].alloc = b
      <3> SUFFICES ASSUME NEW b \in Users, lock'[b] # None
                   PROVE  at'[lock'[b]] # Idle /\ at'[lock'[b]].alloc = b
        OBVIOUS
      <3>1. CASE b = a  BY <1>3, <1>4, <3>1
      <3>2. CASE b # a
        <4>1. b \in Allocs /\ lock'[b] = lock[b] /\ lock[b] \in Cores /\ lock[b] # c
          BY <1>2, <1>4, <1>5, <3>2 DEF Allocs
        <4> QED  BY <1>2, <1>4, <4>1 DEF LocksHeld
      <3> QED  BY <3>1, <3>2
    <2>3. lock'[INFO] # None => at'[lock'[INFO]].pc \in {"info", "undo"}
      <3>1. lock'[INFO] = lock[INFO] /\ lock[INFO] # c /\ lock[INFO] \in Cores \cup {None}
        BY <1>2, <1>3, <1>4, <1>5
      <3> QED  BY <1>2, <1>4, <3>1 DEF LocksHeld
    <2>4. ASSUME NEW d \in Cores, at'[d].pc = "undo" PROVE lock'[INFO] = d
      <3>1. d # c
        BY <1>3, <1>4, <2>4
      <3>2. at[d].pc = "undo" /\ lock'[INFO] = lock[INFO]
        BY <1>3, <1>4, <2>4, <3>1
      <3> QED  BY <1>2, <3>2 DEF LocksHeld
    <2>5. \A d \in Cores : block'[d] # None <=> at'[d].pc \in {"info", "undo"}
      BY <1>1, <1>2, <1>3, <1>4 DEF LocksHeld
    <2>6. ASSUME NEW d \in Cores, at'[d].pc \in {"drop", "dropinfo"}
          PROVE  /\ slabs'[at'[d].alloc] # << >> /\ freeSlabs'[at'[d].alloc] = << >>
                 /\ held'[at'[d].alloc] = {}
      <3>1. CASE d = c
        BY <1>1, <1>3, <1>4, <3>1
      <3>2. CASE d # c
        <4>1. at'[d] = at[d] /\ at[d].pc # "idle"
          BY <1>4, <2>6, <3>2
        <4>2. at[d].alloc \in Allocs /\ lock[at[d].alloc] = d
          BY <4>1, CallFacts
        <4>3. at[d].alloc # a
          BY <1>1, <1>3, <4>2
        <4>4. at[d].pc \in {"drop", "dropinfo"}
          BY <2>6, <4>1
        <4>5. /\ slabs[at[d].alloc] # << >> /\ freeSlabs[at[d].alloc] = << >>
              /\ held[at[d].alloc] = {}
          BY <1>2, <4>4 DEF LocksHeld
        <4>6. freeSlabs'[at[d].alloc] = freeSlabs[at[d].alloc]
          BY <1>4, <4>2, <4>3
        <4> QED  BY <1>1, <4>1, <4>5, <4>6
      <3> QED  BY <3>1, <3>2
    <2> QED  BY <2>1, <2>2, <2>3, <2>4, <2>5, <2>6 DEF LocksHeld
  <1>9. Infos' /\ Homes' /\ Objects'
    BY <1>1, <1>2, SameSlabs
  <1>10. Lists'
    <2>1. \A b : Slabs(b)' = Slabs(b)
      BY <1>1 DEF Slabs
    <2>2. \A p : FreeSlots(p)' = FreeSlots(p)
      BY <1>1 DEF FreeSlots, At
    <2>3. Range(freeSlabs'[a]) = {} /\ IsInjective(freeSlabs'[a])
      BY <1>2, <1>3, <1>4, RangeSeq
    <2> QED  BY <1>1, <1>2, <1>4, <1>6, <2>1, <2>2, <2>3 DEF Lists
  <1>11. Pages'
    BY <1>1, <1>2, <1>6, SamePages
  <1> QED  BY <1>7, <1>8, <1>9, <1>10, <1>11 DEF SlabInv

\* Nobody has an object of the slab, so that all its slots are free and the
\* checks of drop() hold.
LEMMA DropPagesInv ==
    ASSUME SlabInv, NEW c \in Cores, DropPages(c)
    PROVE  SlabInv'
  <1>0. PICK a, h : a = at[c].alloc /\ h = Head(slabs[a])
    OBVIOUS
  <1>1. /\ at[c].pc = "drop"
        /\ UNCHANGED <<info, slabs, freeSlabs, lock, block, held>>
        /\ IF At(h).num_free # Bits!Count(At(h).free) \/ At(h).num_free # N
           THEN panicked' = TRUE /\ UNCHANGED <<pages, at>>
           ELSE pages' = pages \cup {Ptr(h)} /\ Goto(c, "dropinfo") /\ UNCHANGED panicked
    BY <1>0 DEF DropPages, Ptr
  <1>2. /\ Types /\ LocksHeld /\ Infos /\ Lists /\ Homes /\ Objects /\ Pages
        /\ lock \in [Allocs -> Cores \cup {None}] /\ at \in [Cores -> {Idle} \cup Calls]
        /\ slabs \in [Allocs -> Seq(Places)] /\ pages \in SUBSET Blocks
    BY DEF SlabInv, Types
  <1>3. /\ a \in Users /\ a \in Allocs /\ a # INFO /\ lock[a] = c /\ at[c].pc # "idle"
        /\ c # None /\ slabs[a] # << >> /\ held[a] = {}
    BY <1>0, <1>1, <1>2, CallFacts DEF LocksHeld
  <1>4. h \in Slabs(a) /\ h \in Places
    BY <1>0, <1>2, <1>3, RangePop DEF Slabs
  <1>5. At(h).num_free = N /\ Bits!Count(At(h).free) = N
    <2>1. /\ At(h).free \in Vectors /\ FreeSlots(h) = Bits!Elements(At(h).free)
          /\ At(h).num_free = Cardinality(FreeSlots(h))
          /\ FreeSlots(h) \subseteq 0 .. N - 1 /\ N \in Nat /\ N >= 2
      BY <1>3, <1>4, SlabFacts, SlabAssumption DEF Size
    <2>2. FreeSlots(h) = 0 .. N - 1
      BY <1>2, <1>3, <1>4, <2>1 DEF Objects
    <2>3. 0 \in Int /\ N - 1 \in Int /\ ~(0 > N - 1) /\ N - 1 - 0 + 1 = N
      BY <2>1
    <2>4. Cardinality(0 .. N - 1) = N
      BY <2>3, FS_Interval
    <2> QED  BY <2>1, <2>2, <2>4, CountElements
  <1>6. pages' = pages \cup {Ptr(h)} /\ Goto(c, "dropinfo") /\ panicked' = panicked
    BY <1>1, <1>5
  <1>7. /\ at' \in [Cores -> {Idle} \cup Calls]
        /\ at'[c] \in Calls /\ at'[c].pc = "dropinfo" /\ at'[c].alloc = a
        /\ \A d \in Cores : d # c => at'[d] = at[d]
    BY <1>0, <1>3, <1>6, GotoFacts
  <1>8. Ptr(h) \in Blocks /\ Ptr(h) # None
    BY <1>3, <1>4, SlabFacts, SlabAssumption
  <1>9. /\ Freeing(a)' /\ ~Freeing(a) /\ \A b \in Allocs : Dropping(b)' <=> Dropping(b)
        /\ \A b \in Allocs : b # a => (Freeing(b)' <=> Freeing(b))
    <2>1. Freeing(a)' /\ ~Freeing(a) /\ Dropping(a)' /\ Dropping(a)
      BY <1>1, <1>3, <1>7 DEF Freeing, Dropping
    <2>2. ASSUME NEW b \in Allocs, b # a
          PROVE  (Dropping(b)' <=> Dropping(b)) /\ (Freeing(b)' <=> Freeing(b))
      <3>1. lock[b] # c
        <4>1. b = INFO => lock[b] # c
          BY <1>1, <1>2, <1>3 DEF LocksHeld
        <4>2. b \in Users /\ lock[b] = c => b = a
          BY <1>0, <1>2, <1>3 DEF LocksHeld
        <4> QED  BY <2>2, <4>1, <4>2 DEF Allocs
      <3>2. lock'[b] = lock[b] /\ lock[b] \in Cores \cup {None}
        BY <1>1, <1>2
      <3>3. CASE lock[b] = None
        BY <3>2, <3>3 DEF Dropping, Freeing
      <3>4. CASE lock[b] # None
        <4>1. at'[lock[b]] = at[lock[b]]
          BY <1>7, <3>1, <3>2, <3>4
        <4> QED  BY <3>2, <4>1 DEF Dropping, Freeing
      <3> QED  BY <3>3, <3>4
    <2> QED  BY <2>1, <2>2
  <1>10. Types'
    BY <1>1, <1>2, <1>6, <1>7, <1>8 DEF Types
  <1>11. LocksHeld'
    <2>1. at[c] # Idle /\ at'[c] # Idle
      BY <1>3, <1>7 DEF Idle
    <2>2. \A d \in Cores : /\ at'[d].alloc = at[d].alloc /\ (at'[d] = Idle <=> at[d] = Idle)
                           /\ at'[d].pc = at[d].pc \/ d = c
      BY <1>0, <1>7, <2>1
    <2>3. \A b \in Allocs : lock[b] \in Cores \cup {None}
      BY <1>2
    <2>4. \A b \in Users : b \in Allocs
      BY DEF Allocs
    <2>5. lock[INFO] # c /\ INFO \in Allocs
      BY <1>1, <1>2, <1>3 DEF LocksHeld, Allocs
    <2>6. \A d \in Cores : at'[d] # Idle => lock'[at'[d].alloc] = d
      BY <1>1, <1>2, <2>2 DEF LocksHeld
    <2>7. \A b \in Users : lock'[b] # None => at'[lock'[b]] # Idle /\ at'[lock'[b]].alloc = b
      BY <1>1, <1>2, <2>2, <2>3, <2>4 DEF LocksHeld
    <2>8. lock'[INFO] # None => at'[lock'[INFO]].pc \in {"info", "undo"}
      BY <1>1, <1>2, <1>7, <2>3, <2>5 DEF LocksHeld
    <2>9. \A d \in Cores : at'[d].pc = "undo" => lock'[INFO] = d
      BY <1>1, <1>2, <1>7 DEF LocksHeld
    <2>10. \A d \in Cores : block'[d] # None <=> at'[d].pc \in {"info", "undo"}
      BY <1>1, <1>2, <1>7 DEF LocksHeld
    <2>11. ASSUME NEW d \in Cores, at'[d].pc \in {"drop", "dropinfo"}
           PROVE  /\ slabs'[at'[d].alloc] # << >> /\ freeSlabs'[at'[d].alloc] = << >>
                  /\ held'[at'[d].alloc] = {}
      <3>1. at[d].pc \in {"drop", "dropinfo"} /\ at'[d].alloc = at[d].alloc
        BY <1>1, <2>2, <2>11
      <3>2. /\ slabs[at[d].alloc] # << >> /\ freeSlabs[at[d].alloc] = << >>
            /\ held[at[d].alloc] = {}
        BY <1>2, <3>1 DEF LocksHeld
      <3> QED  BY <1>1, <3>1, <3>2
    <2> QED  BY <2>6, <2>7, <2>8, <2>9, <2>10, <2>11 DEF LocksHeld
  <1>12. Infos' /\ Homes' /\ Objects'
    BY <1>1, <1>2, SameSlabs
  <1>13. Lists'
    BY <1>1, <1>2, <1>9, SameLists
  <1>14. Pages'
    <2>1. \A b : Slabs(b)' = Slabs(b)
      BY <1>1 DEF Slabs
    <2>2. \A p : Ptr(p)' = Ptr(p)
      BY <1>1 DEF Ptr, At
    <2>3. Live(a) = Slabs(a) /\ Live(a)' = Slabs(a) \ {h}
      BY <1>0, <1>1, <1>9, <2>1 DEF Live
    <2>4. \A b \in Allocs : b # a => Live(b)' = Live(b)
      <3> SUFFICES ASSUME NEW b \in Allocs, b # a PROVE Live(b)' = Live(b)
        OBVIOUS
      <3>1. (Freeing(b)' <=> Freeing(b)) /\ Head(slabs'[b]) = Head(slabs[b]) /\ Slabs(b)' = Slabs(b)
        BY <1>1, <1>9, <2>1
      <3>2. Live(b) = {p \in Slabs(b) : ~(Freeing(b) /\ p = Head(slabs[b]))}
        BY DEF Live
      <3>3. Live(b)' = {p \in Slabs(b)' : ~(Freeing(b)' /\ p = Head(slabs'[b]))}
        BY DEF Live
      <3> QED  BY <3>1, <3>2, <3>3, Zenon
    <2>5. \A b \in Allocs : Live(b)' \subseteq Live(b) /\ \A p \in Live(b)' : Ptr(p) # Ptr(h)
      <3>1. h \in Live(a)
        BY <1>4, <2>3
      <3>2. \A b \in Allocs : \A p \in Live(b) : Ptr(p) = Ptr(h) => p = h
        BY <1>2, <1>3, <3>1 DEF Pages
      <3>3. \A p \in Live(a)' : p \in Live(a) /\ p # h
        BY <2>3
      <3>4. ASSUME NEW b \in Allocs, b # a PROVE h \notin Live(b)
        BY <1>2, <1>3, <1>4, <3>4 DEF Homes, Live
      <3> QED  BY <2>4, <3>2, <3>3, <3>4
    <2>6. \A d \in Cores : block[d] # Ptr(h)
      BY <1>2, <1>3, <1>4, <2>3 DEF Pages
    <2>7. \A p : \A b \in Allocs : p \in Live(b) => p \in Live(b)' \/ (b = a /\ p = h)
      BY <2>3, <2>4
    <2>8. \A b, x \in Allocs : \A p \in Live(b)', q \in Live(x)' : Ptr(p)' = Ptr(q)' => p = q
      BY <1>2, <2>2, <2>5 DEF Pages
    <2>9. \A x \in Allocs : \A p, q \in Slabs(x)' : Ptr(p)' = Ptr(q)' => p = q
      BY <1>2, <2>1, <2>2 DEF Pages
    <2>10. \A x \in Allocs : \A p \in Live(x)' :
             Ptr(p)' \notin pages' /\ \A d \in Cores : block'[d] # Ptr(p)'
      BY <1>1, <1>2, <1>6, <2>2, <2>5 DEF Pages
    <2>11. \A d \in Cores : block'[d] \notin pages'
      BY <1>1, <1>2, <1>6, <2>6 DEF Pages
    <2>12. \A d, e \in Cores : block'[d] = block'[e] => d = e \/ block'[d] = None
      BY <1>1, <1>2 DEF Pages
    <2>13. \A b \in Blocks \ pages' :
             (\E d \in Cores : block'[d] = b) \/ \E x \in Allocs : \E p \in Live(x)' : Ptr(p)' = b
      BY <1>1, <1>2, <1>6, <2>2, <2>7 DEF Pages
    <2> QED  BY <2>8, <2>9, <2>10, <2>11, <2>12, <2>13 DEF Pages
  <1> QED  BY <1>10, <1>11, <1>12, <1>13, <1>14 DEF SlabInv

-----------------------------------------------------------------------------
(* The steps that write one SlabInfo                                       *)

\* A SlabInfo is written over with one for the same block.
LEMMA ChangeOne ==
    ASSUME SlabInv, NEW a \in Allocs, NEW p \in Slabs(a),
           NEW s \in SlabInfos, s.ptr = Ptr(p), info' = Write(p, s)
    PROVE  /\ info' \in [Blocks -> [InfoSlots -> SlabInfos \cup {Junk}]]
           /\ At(p)' = s /\ FreeSlots(p)' = Bits!Elements(s.free)
           /\ \A q \in Places : /\ Ptr(q)' = Ptr(q)
                                /\ q # p => At(q)' = At(q) /\ FreeSlots(q)' = FreeSlots(q)
  <1>1. p \in Places /\ info \in [Blocks -> [InfoSlots -> SlabInfos \cup {Junk}]]
    BY SlabFacts DEF SlabInv, Types
  <1>2. /\ info' \in [Blocks -> [InfoSlots -> SlabInfos \cup {Junk}]]
        /\ At(p)' = s /\ \A q \in Places : q # p => At(q)' = At(q)
    <2> DEFINE X == SlabInfos \cup {Junk}
    <2>1. s \in X /\ info \in [Blocks -> [InfoSlots -> X]]
      BY <1>1
    <2> HIDE DEF X
    <2>2. /\ info' \in [Blocks -> [InfoSlots -> X]]
          /\ At(p)' = s /\ \A q \in Places : q # p => At(q)' = At(q)
      BY <1>1, <2>1, WriteAt
    <2> QED  BY <2>2 DEF X
  <1>3. FreeSlots(p)' = Bits!Elements(s.free)
    BY <1>2 DEF FreeSlots
  <1>4. \A q \in Places : q # p => FreeSlots(q)' = FreeSlots(q) /\ Ptr(q)' = Ptr(q)
    BY <1>2 DEF FreeSlots, Ptr
  <1>5. Ptr(p)' = Ptr(p)
    BY <1>2 DEF Ptr
  <1> QED  BY <1>2, <1>3, <1>4, <1>5

\* An allocator's slabs are places, and no two allocators share one.
LEMMA SlabsApart ==
    ASSUME SlabInv
    PROVE  /\ \A a \in Allocs : Slabs(a) \subseteq Places
           /\ \A a, b \in Allocs : \A p \in Slabs(a) : p \in Slabs(b) => a = b
  <1>1. \A a \in Allocs : Slabs(a) \subseteq Places
    BY RangeSeq DEF SlabInv, Types, Slabs
  <1>2. \A a, b \in Allocs : \A p \in Slabs(a) : p \in Slabs(b) => a = b
    BY DEF SlabInv, Homes
  <1> QED  BY <1>1, <1>2

\* The SlabInfos of SLAB_INFO stay, and so does where the others are.
LEMMA KeepHomes ==
    ASSUME SlabInv, slabs' = slabs,
           \A q \in Slabs(INFO) : Ptr(q)' = Ptr(q) /\ FreeSlots(q)' = FreeSlots(q)
    PROVE  Homes'
  <1>1. \A a : Slabs(a)' = Slabs(a)
    BY DEF Slabs
  <1>2. Homes
    BY DEF SlabInv
  <1>3. \A a \in Allocs : \A p \in Slabs(a) :
          <<p[1], 0>> \in Slabs(INFO) /\ p[2] \notin FreeSlots(<<p[1], 0>>)'
    <2> SUFFICES ASSUME NEW a \in Allocs, NEW p \in Slabs(a)
                 PROVE  <<p[1], 0>> \in Slabs(INFO) /\ p[2] \notin FreeSlots(<<p[1], 0>>)'
      OBVIOUS
    <2>1. PICK q : q = <<p[1], 0>>
      OBVIOUS
    <2>2. q \in Slabs(INFO) /\ p[2] \notin FreeSlots(q)
      BY <1>2, <2>1 DEF Homes
    <2>3. p[2] \notin FreeSlots(q)'
      BY <2>2
    <2> QED  BY <2>1, <2>2, <2>3
  <1>4. \A p \in Slabs(INFO) : \A i \in InfoSlots :
          i \in FreeSlots(p)' \/ \E a \in Allocs : <<p[1], i>> \in Slabs(a)
    BY <1>2 DEF Homes
  <1>5. \A p \in Slabs(INFO) : p[2] = 0 /\ Ptr(p)' = p[1]
    BY <1>2 DEF Homes
  <1> QED  BY <1>1, <1>2, <1>3, <1>4, <1>5 DEF Homes

\* No slab is linked or unlinked and no page changes hands.
LEMMA KeepPages ==
    ASSUME SlabInv, slabs' = slabs, pages' = pages, block' = block,
           \A a \in Allocs : Freeing(a)' <=> Freeing(a),
           \A q \in Places : Ptr(q)' = Ptr(q)
    PROVE  Pages'
  <1>1. \A a \in Allocs : Slabs(a)' = Slabs(a) /\ Live(a)' = Live(a)
    BY SameLive DEF Slabs
  <1>2. \A a \in Allocs : Slabs(a) \subseteq Places /\ Live(a) \subseteq Places
    BY SlabsApart DEF Live
  <1>3. Pages
    BY DEF SlabInv
  <1> QED  BY <1>1, <1>2, <1>3 DEF Pages

\* The SlabInfos stay good, but for one that is given.
LEMMA InfosOne ==
    ASSUME SlabInv, NEW a \in Allocs, NEW p \in Slabs(a), NEW s \in SlabInfos,
           s.num_free = Cardinality(Bits!Elements(s.free)),
           Bits!Elements(s.free) \subseteq 0 .. Size(a) - 1,
           At(p)' = s, \A q \in Places : q # p => At(q)' = At(q),
           slabs' = slabs
    PROVE  Infos'
  <1> SUFFICES ASSUME NEW b \in Allocs, NEW q \in Slabs(b) PROVE Good(q, Size(b))'
    BY DEF Infos, Slabs
  <1>1. q \in Places /\ (q = p => a = b)
    BY SlabsApart
  <1>2. Good(q, Size(b))
    BY DEF SlabInv, Infos
  <1>3. CASE q = p
    <2>1. Good(p, Size(a))'
      BY DEF Good, FreeSlots
    <2> QED  BY <1>1, <1>3, <2>1
  <1>4. CASE q # p
    <2>1. At(q)' = At(q)
      BY <1>1, <1>4
    <2> QED  BY <1>2, <2>1 DEF Good, FreeSlots
  <1> QED  BY <1>3, <1>4

\* One slot of one slab goes from free to used or back, and the slab is in
\* the free list as long as there is a free slot.
LEMMA ListsOne ==
    ASSUME SlabInv, NEW a \in Allocs, NEW p \in Slabs(a),
           slabs' = slabs,
           \A b \in Allocs : Dropping(b)' <=> Dropping(b), ~Dropping(a),
           \A q \in Places : q # p => FreeSlots(q)' = FreeSlots(q),
           \A b \in Allocs \ {a} : freeSlabs'[b] = freeSlabs[b],
           IsInjective(freeSlabs'[a]),
           Range(freeSlabs'[a]) = IF FreeSlots(p)' = {} THEN Range(freeSlabs[a]) \ {p}
                                                       ELSE Range(freeSlabs[a]) \cup {p}
    PROVE  Lists'
  <1> SUFFICES ASSUME NEW b \in Allocs
               PROVE  /\ IsInjective(slabs[b]) /\ IsInjective(freeSlabs'[b])
                      /\ Range(freeSlabs'[b]) \subseteq Slabs(b)
                      /\ ~Dropping(b) => \A q \in Slabs(b) :
                            q \in Range(freeSlabs'[b]) <=> FreeSlots(q)' # {}
    BY DEF Lists, Slabs
  <1>1. /\ IsInjective(slabs[b]) /\ IsInjective(freeSlabs[b])
        /\ Range(freeSlabs[b]) \subseteq Slabs(b)
        /\ ~Dropping(b) => \A q \in Slabs(b) : q \in Range(freeSlabs[b]) <=> FreeSlots(q) # {}
    BY DEF SlabInv, Lists
  <1>2. Slabs(b) \subseteq Places /\ \A q \in Slabs(b) : q = p => a = b
    BY SlabsApart
  <1>3. CASE b = a
    BY <1>1, <1>2, <1>3
  <1>4. CASE b # a
    BY <1>1, <1>2, <1>4
  <1> QED  BY <1>3, <1>4

\* The object taken is nobody's, and becomes the caller's.
LEMMA TakeInv ==
    ASSUME SlabInv, NEW c \in Cores, Take(c)
    PROVE  SlabInv'
  <1>0. PICK a, h, i, s, L :
          /\ a = at[c].alloc /\ h = Head(freeSlabs[a]) /\ i = SlotFound(a)
          /\ s = TakeInfo(a) /\ L = ListAfterTake(a)
    OBVIOUS
  <1>1. /\ at[c].pc = "alloc" /\ freeSlabs[a] # << >>
        /\ IF NoSlot(a)
           THEN panicked' = TRUE /\ UNCHANGED <<info, freeSlabs, held>>
           ELSE /\ info' = Write(h, s) /\ freeSlabs' = L
                /\ held' = [held EXCEPT ![a] = held[a] \cup {Taken(a)}] /\ UNCHANGED panicked
        /\ lock' = [b \in Allocs |-> IF b \in {a} THEN None ELSE lock[b]]
        /\ at' = [at EXCEPT ![c] = Idle]
        /\ UNCHANGED <<pages, slabs, block>>
    BY <1>0 DEF Take, Unlock
  <1>2. /\ Types /\ LocksHeld /\ Infos /\ Lists /\ Homes /\ Objects /\ Pages
        /\ lock \in [Allocs -> Cores \cup {None}] /\ at \in [Cores -> {Idle} \cup Calls]
        /\ held \in [Users -> SUBSET (Blocks \X (0 .. N - 1))]
    BY DEF SlabInv, Types
  <1>3. /\ a \in Users /\ a \in Allocs /\ a # INFO /\ lock[a] = c /\ lock[INFO] # c
        /\ INFO \in Allocs /\ Users \subseteq Allocs /\ INFO \notin Users /\ Idle.pc = "idle"
        /\ block[c] = None /\ None \notin Cores
    <2>1. at[c].pc # "idle"
      BY <1>1
    <2>2. INFO \in Allocs /\ Users \subseteq Allocs /\ Idle.pc = "idle"
      BY DEF Allocs, Idle
    <2> QED  BY <1>0, <1>1, <1>2, <2>1, <2>2, CallFacts, SlabAssumption DEF LocksHeld
  <1>4. ~Dropping(a)
    BY <1>1, <1>3 DEF Dropping
  <1>5. /\ h \in Slabs(a) /\ ~NoSlot(a)
        /\ i \in FreeSlots(h) /\ Taken(a) = <<Ptr(h), i>>
        /\ s \in SlabInfos /\ s.ptr = Ptr(h)
        /\ Bits!Elements(s.free) = FreeSlots(h) \ {i}
        /\ s.num_free = Cardinality(FreeSlots(h) \ {i})
        /\ L \in [Allocs -> Seq(Places)]
        /\ \A b \in Allocs \ {a} : L[b] = freeSlabs[b]
        /\ IsInjective(L[a])
        /\ Range(L[a]) = IF FreeSlots(h) \ {i} = {} THEN Range(freeSlabs[a]) \ {h}
                                                   ELSE Range(freeSlabs[a])
    BY <1>0, <1>1, <1>3, <1>4, TakeFacts
  <1>6. /\ info' = Write(h, s) /\ freeSlabs' = L /\ panicked' = panicked
        /\ held' = [held EXCEPT ![a] = held[a] \cup {<<Ptr(h), i>>}]
    BY <1>1, <1>5
  <1>7. /\ info' \in [Blocks -> [InfoSlots -> SlabInfos \cup {Junk}]]
        /\ At(h)' = s /\ FreeSlots(h)' = FreeSlots(h) \ {i}
        /\ \A q \in Places : /\ Ptr(q)' = Ptr(q)
                             /\ q # h => At(q)' = At(q) /\ FreeSlots(q)' = FreeSlots(q)
    BY <1>3, <1>5, <1>6, ChangeOne
  <1>8. /\ lock' \in [Allocs -> Cores \cup {None}] /\ at' \in [Cores -> {Idle} \cup Calls]
        /\ lock'[a] = None /\ \A b \in Allocs : b # a => lock'[b] = lock[b]
        /\ at'[c] = Idle /\ block'[c] = None
        /\ \A d \in Cores : d # c => at'[d] = at[d] /\ block'[d] = block[d]
    BY <1>1, <1>2, <1>3
  <1>9. \A b \in Allocs : (Dropping(b)' <=> Dropping(b)) /\ (Freeing(b)' <=> Freeing(b))
    <2>1. at[c].pc \notin {"drop", "dropinfo"} /\ at'[c].pc \notin {"drop", "dropinfo"}
      BY <1>1, <1>3, <1>8
    <2> QED  BY <1>2, <1>3, <1>8, <2>1, ModesKept
  <1>10. /\ Slabs(a) \subseteq Places /\ h \notin Slabs(INFO) /\ h \in Places
         /\ Slabs(INFO) \subseteq Places
         /\ \A b \in Allocs : Slabs(b) \subseteq Places /\ (b # a => h \notin Slabs(b))
    BY <1>3, <1>5, SlabsApart
  <1>11. Ptr(h) \in Blocks /\ i \in 0 .. N - 1 /\ FreeSlots(h) \subseteq 0 .. N - 1 /\ Size(a) = N
    BY <1>3, <1>5, SlabFacts DEF Size
  <1>12. /\ held' \in [Users -> SUBSET (Blocks \X (0 .. N - 1))]
         /\ held'[a] = held[a] \cup {<<Ptr(h), i>>}
         /\ \A b \in Users : b # a => held'[b] = held[b]
    BY <1>2, <1>3, <1>6, <1>11
  <1>13. Types'
    BY <1>1, <1>2, <1>5, <1>6, <1>7, <1>8, <1>12 DEF Types
  <1>14. LocksHeld'
    <2>1. at[c].pc # "idle"
      BY <1>1
    <2>2. \A b \in Users : b # a =>
            /\ lock'[b] = lock[b] /\ slabs'[b] = slabs[b]
            /\ freeSlabs'[b] = freeSlabs[b] /\ held'[b] = held[b]
      BY <1>1, <1>3, <1>5, <1>6, <1>8, <1>12
    <2>3. lock'[INFO] = IF lock[INFO] = c THEN None ELSE lock[INFO]
      BY <1>3, <1>8
    <2> QED  BY <1>0, <1>8, <2>1, <2>2, <2>3, LocksReturn
  <1>15. Infos'
    <2>1. /\ s.num_free = Cardinality(Bits!Elements(s.free))
          /\ Bits!Elements(s.free) \subseteq 0 .. Size(a) - 1
      BY <1>5, <1>11
    <2> QED  BY <1>1, <1>3, <1>5, <1>7, <2>1, InfosOne
  <1>16. Lists'
    <2>1. h \in Range(freeSlabs[a])
      <3>1. freeSlabs[a] \in Seq(Places)
        BY <1>2, <1>3 DEF Types
      <3> QED  BY <1>0, <1>1, <3>1, RangePop
    <2>2. Range(freeSlabs'[a]) = IF FreeSlots(h)' = {} THEN Range(freeSlabs[a]) \ {h}
                                                       ELSE Range(freeSlabs[a]) \cup {h}
      BY <1>5, <1>6, <1>7, <2>1
    <2> QED  BY <1>1, <1>3, <1>4, <1>5, <1>6, <1>7, <1>9, <2>2, ListsOne
  <1>17. Homes'
    BY <1>1, <1>7, <1>10, KeepHomes
  <1>18. Objects'
    <2>1. \A b : Slabs(b)' = Slabs(b)
      BY <1>1 DEF Slabs
    <2>2. ASSUME NEW b \in Users, NEW o \in held'[b]
          PROVE  \E p \in Slabs(b) : Ptr(p)' = o[1] /\ o[2] \notin FreeSlots(p)'
      <3>1. CASE b = a /\ o = <<Ptr(h), i>>
        BY <1>5, <1>7, <1>10, <3>1
      <3>2. CASE ~(b = a /\ o = <<Ptr(h), i>>)
        <4>1. o \in held[b]
          BY <1>12, <2>2, <3>2
        <4>2. PICK p \in Slabs(b) : Ptr(p) = o[1] /\ o[2] \notin FreeSlots(p)
          BY <1>2, <4>1 DEF Objects
        <4>3. p \in Places
          BY <1>3, <1>10
        <4>4. Ptr(p)' = o[1] /\ o[2] \notin FreeSlots(p)'
          BY <1>7, <4>2, <4>3
        <4> QED  BY <4>4
      <3> QED  BY <3>1, <3>2
    <2>3. ASSUME NEW b \in Users, NEW p \in Slabs(b), NEW j \in 0 .. N - 1
          PROVE  j \in FreeSlots(p)' \/ <<Ptr(p)', j>> \in held'[b]
      <3>1. p \in Places /\ (b # a => p # h)
        BY <1>3, <1>10
      <3>2. j \in FreeSlots(p) \/ <<Ptr(p), j>> \in held[b]
        BY <1>2 DEF Objects
      <3>3. <<Ptr(p), j>> \in held[b] => <<Ptr(p)', j>> \in held'[b]
        BY <1>7, <1>12, <3>1
      <3>4. CASE p = h /\ j = i
        BY <1>7, <1>12, <3>1, <3>4
      <3>5. CASE p = h /\ j # i
        BY <1>7, <3>2, <3>3, <3>5
      <3>6. CASE p # h
        BY <1>7, <3>1, <3>2, <3>3, <3>6
      <3> QED  BY <3>4, <3>5, <3>6
    <2> QED  BY <2>1, <2>2, <2>3 DEF Objects
  <1>19. Pages'
    BY <1>1, <1>7, <1>9, KeepPages
  <1> QED  BY <1>13, <1>14, <1>15, <1>16, <1>17, <1>18, <1>19 DEF SlabInv

\* The object's slab is the one whose block it is in, and the slot was in use.
LEMMA FreeInv ==
    ASSUME SlabInv, NEW a \in Users, NEW o \in held[a], Free(a, o)
    PROVE  SlabInv'
  <1>0. PICK h, i, s, L :
          /\ h = SlabOf(a, o) /\ i = o[2] /\ s = Freed(h, i) /\ L = ListAfterFree(a, h)
    OBVIOUS
  <1>1. /\ lock[a] = None /\ info' = Write(h, s) /\ freeSlabs' = L
        /\ panicked' = (panicked \/ Bits!Bit(At(h).free, i))
        /\ held' = [held EXCEPT ![a] = held[a] \ {o}]
        /\ UNCHANGED <<pages, slabs, lock, at, block>>
    BY <1>0 DEF Free, DoubleFree
  <1>2. /\ Types /\ LocksHeld /\ Infos /\ Lists /\ Homes /\ Objects /\ Pages
        /\ lock \in [Allocs -> Cores \cup {None}] /\ at \in [Cores -> {Idle} \cup Calls]
        /\ held \in [Users -> SUBSET (Blocks \X (0 .. N - 1))] /\ panicked = FALSE
    BY DEF SlabInv, Types
  <1>3. /\ a \in Allocs /\ a # INFO /\ INFO \in Allocs /\ Users \subseteq Allocs
        /\ Size(a) = N /\ ~Dropping(a)
        /\ o = <<o[1], o[2]>> /\ o[1] \in Blocks /\ i \in 0 .. N - 1
    BY <1>0, <1>1, <1>2, SlabAssumption DEF Allocs, Size, Dropping
  <1>4. h \in Slabs(a) /\ Ptr(h) = o[1] /\ i \notin FreeSlots(h)
    <2>1. PICK p \in Slabs(a) : Ptr(p) = o[1] /\ o[2] \notin FreeSlots(p)
      BY <1>2 DEF Objects
    <2>2. \A q \in Slabs(a) : Ptr(q) = o[1] => q = p
      BY <1>2, <1>3, <2>1 DEF Pages
    <2>3. h = CHOOSE q \in Slabs(a) : Ptr(q) = o[1]
      BY <1>0 DEF SlabOf, Slabs, Ptr
    <2>4. h = p
      BY <2>1, <2>2, <2>3
    <2> QED  BY <1>0, <2>1, <2>4
  <1>5. /\ ~Bits!Bit(At(h).free, i)
        /\ s \in SlabInfos /\ s.ptr = Ptr(h)
        /\ Bits!Elements(s.free) = FreeSlots(h) \cup {i}
        /\ s.num_free = Cardinality(FreeSlots(h) \cup {i})
        /\ L \in [Allocs -> Seq(Places)]
        /\ \A b \in Allocs \ {a} : L[b] = freeSlabs[b]
        /\ IsInjective(L[a])
        /\ Range(L[a]) = Range(freeSlabs[a]) \cup {h}
    <2>1. i \in 0 .. Size(a) - 1
      BY <1>3
    <2>2. /\ ~Bits!Bit(At(h).free, i)
          /\ Freed(h, i) \in SlabInfos /\ Freed(h, i).ptr = Ptr(h)
          /\ Bits!Elements(Freed(h, i).free) = FreeSlots(h) \cup {i}
          /\ Freed(h, i).num_free = Cardinality(FreeSlots(h) \cup {i})
          /\ ListAfterFree(a, h) \in [Allocs -> Seq(Places)]
          /\ \A b \in Allocs \ {a} : ListAfterFree(a, h)[b] = freeSlabs[b]
          /\ IsInjective(ListAfterFree(a, h)[a])
          /\ Range(ListAfterFree(a, h)[a]) = Range(freeSlabs[a]) \cup {h}
      BY <1>3, <1>4, <2>1, FreedFacts
    <2>3. s = Freed(h, i) /\ L = ListAfterFree(a, h)
      BY <1>0
    <2> QED  BY <2>2, <2>3, Zenon
  <1>6. panicked' = FALSE
    BY <1>1, <1>2, <1>5
  <1>7. /\ info' \in [Blocks -> [InfoSlots -> SlabInfos \cup {Junk}]]
        /\ At(h)' = s /\ FreeSlots(h)' = FreeSlots(h) \cup {i}
        /\ \A q \in Places : /\ Ptr(q)' = Ptr(q)
                             /\ q # h => At(q)' = At(q) /\ FreeSlots(q)' = FreeSlots(q)
    BY <1>1, <1>3, <1>4, <1>5, ChangeOne
  <1>8. \A b \in Allocs : (Dropping(b)' <=> Dropping(b)) /\ (Freeing(b)' <=> Freeing(b))
    BY <1>1 DEF Dropping, Freeing
  <1>9. /\ Slabs(INFO) \subseteq Places /\ h \notin Slabs(INFO) /\ h \in Places
        /\ \A b \in Allocs : Slabs(b) \subseteq Places /\ (b # a => h \notin Slabs(b))
    BY <1>3, <1>4, SlabsApart
  <1>10. /\ held' \in [Users -> SUBSET (Blocks \X (0 .. N - 1))]
         /\ held'[a] = held[a] \ {o} /\ \A b \in Users : b # a => held'[b] = held[b]
    BY <1>1, <1>2
  <1>11. Types'
    BY <1>1, <1>2, <1>5, <1>6, <1>7, <1>10 DEF Types
  <1>12. LocksHeld'
    <2>1. ASSUME NEW d \in Cores, at[d].pc \in {"drop", "dropinfo"}
          PROVE  /\ slabs[at[d].alloc] # << >> /\ freeSlabs'[at[d].alloc] = << >>
                 /\ held'[at[d].alloc] = {}
      <3>1. at[d].pc # "idle"
        BY <2>1
      <3>2. at[d].alloc \in Users /\ at[d].alloc \in Allocs /\ at[d].alloc # a
        BY <1>1, <3>1, CallFacts
      <3>3. /\ slabs[at[d].alloc] # << >> /\ freeSlabs[at[d].alloc] = << >>
            /\ held[at[d].alloc] = {}
        BY <1>2, <2>1 DEF LocksHeld
      <3>4. freeSlabs'[at[d].alloc] = freeSlabs[at[d].alloc] /\ held'[at[d].alloc] = held[at[d].alloc]
        BY <1>1, <1>5, <1>10, <3>2
      <3> QED  BY <3>3, <3>4
    <2> QED  BY <1>1, <1>2, <2>1 DEF LocksHeld
  <1>13. Infos'
    <2>1. FreeSlots(h) \subseteq 0 .. N - 1
      BY <1>3, <1>4, SlabFacts
    <2>2. /\ s.num_free = Cardinality(Bits!Elements(s.free))
          /\ Bits!Elements(s.free) \subseteq 0 .. Size(a) - 1
      BY <1>3, <1>5, <2>1
    <2> QED  BY <1>1, <1>3, <1>4, <1>5, <1>7, <2>2, InfosOne
  <1>14. Lists'
    <2>1. FreeSlots(h)' # {}
      BY <1>7
    <2>2. Range(freeSlabs'[a]) = IF FreeSlots(h)' = {} THEN Range(freeSlabs[a]) \ {h}
                                                       ELSE Range(freeSlabs[a]) \cup {h}
      BY <1>1, <1>5, <2>1
    <2> QED  BY <1>1, <1>3, <1>4, <1>5, <1>7, <1>8, <2>2, ListsOne
  <1>15. Homes'
    BY <1>1, <1>7, <1>9, KeepHomes
  <1>16. Objects'
    <2>1. \A b : Slabs(b)' = Slabs(b)
      BY <1>1 DEF Slabs
    <2>2. ASSUME NEW b \in Users, NEW x \in held'[b]
          PROVE  \E p \in Slabs(b) : Ptr(p)' = x[1] /\ x[2] \notin FreeSlots(p)'
      <3>1. x \in held[b] /\ (b = a => x # o)
        BY <1>10
      <3>2. PICK p \in Slabs(b) : Ptr(p) = x[1] /\ x[2] \notin FreeSlots(p)
        BY <1>2, <3>1 DEF Objects
      <3>3. p \in Places /\ (p = h => b = a)
        BY <1>3, <1>9
      <3>4. x = <<x[1], x[2]>>
        BY <1>2, <3>1
      <3>5. p = h => x[2] # i
        BY <1>0, <1>3, <1>4, <3>1, <3>2, <3>3, <3>4
      <3>6. Ptr(p)' = x[1] /\ x[2] \notin FreeSlots(p)'
        BY <1>7, <3>2, <3>3, <3>5
      <3> QED  BY <3>6
    <2>3. ASSUME NEW b \in Users, NEW p \in Slabs(b), NEW j \in 0 .. N - 1
          PROVE  j \in FreeSlots(p)' \/ <<Ptr(p)', j>> \in held'[b]
      <3>1. p \in Places /\ (b # a => p # h) /\ b \in Allocs
        BY <1>3, <1>9
      <3>2. j \in FreeSlots(p) \/ <<Ptr(p), j>> \in held[b]
        BY <1>2 DEF Objects
      <3>3. j \in FreeSlots(p) => j \in FreeSlots(p)'
        BY <1>7, <3>1
      <3>4. CASE b = a /\ <<Ptr(p), j>> = o
        <4>1. p = h /\ j = i
          BY <1>0, <1>2, <1>3, <1>4, <3>4 DEF Pages
        <4> QED  BY <1>7, <4>1
      <3>5. CASE ~(b = a /\ <<Ptr(p), j>> = o)
        <4>1. <<Ptr(p), j>> \in held[b] => <<Ptr(p)', j>> \in held'[b]
          BY <1>7, <1>10, <3>1, <3>5
        <4> QED  BY <3>2, <3>3, <4>1
      <3> QED  BY <3>4, <3>5
    <2> QED  BY <2>1, <2>2, <2>3 DEF Objects
  <1>17. Pages'
    BY <1>1, <1>7, <1>8, KeepPages
  <1> QED  BY <1>11, <1>12, <1>13, <1>14, <1>15, <1>16, <1>17 DEF SlabInv

-----------------------------------------------------------------------------
(* The steps that link and unlink slabs                                    *)

\* What SlabInfo::new writes, and what it writes in a slab that describes itself.
LEMMA NewFacts ==
    ASSUME NEW b \in Blocks
    PROVE  /\ New(b, N) \in SlabInfos /\ New(b, N).ptr = b
           /\ Bits!Elements(New(b, N).free) = 0 .. N - 1
           /\ New(b, N).num_free = Cardinality(0 .. N - 1) /\ 0 .. N - 1 # {}
           /\ NewOwn(b) \in SlabInfos /\ NewOwn(b).ptr = b
           /\ Bits!Elements(NewOwn(b).free) = 1 .. NInfo - 1
           /\ NewOwn(b).num_free = Cardinality(1 .. NInfo - 1) /\ 1 .. NInfo - 1 # {}
  <1>1. /\ N \in 2 .. Cap /\ NInfo \in 2 .. Cap /\ Cap \in Nat /\ N \in Nat /\ NInfo \in Nat
        /\ 0 \in 0 .. Cap - 1 /\ 0 .. N - 1 # {} /\ 1 .. NInfo - 1 # {}
    <2>1. N \in 2 .. Cap /\ NInfo \in 2 .. Cap /\ Cap \in Nat
      BY SlabAssumption
    <2>2. 0 \in 0 .. N - 1 /\ 1 \in 1 .. NInfo - 1 /\ 0 \in 0 .. Cap - 1
      BY <2>1
    <2>3. N \in Nat /\ NInfo \in Nat
      BY <2>1
    <2> QED  BY <2>1, <2>2, <2>3
  <1>2. \A n \in 2 .. Cap : New(b, n).free \in Vectors /\ Bits!Elements(New(b, n).free) = 0 .. n - 1
    BY NewElements
  <1>3. \A n : New(b, n).ptr = b /\ New(b, n).num_free = n
    BY DEF New
  <1>4. \A n \in 2 .. Cap : New(b, n) \in SlabInfos
    <2> SUFFICES ASSUME NEW n \in 2 .. Cap PROVE New(b, n) \in SlabInfos
      OBVIOUS
    <2>1. New(b, n).free \in Vectors /\ n \in 0 .. Cap
      BY <1>1, <1>2
    <2>2. New(b, n) = [ptr |-> b, free |-> New(b, n).free, num_free |-> n]
      BY DEF New
    <2> QED  BY <2>1, <2>2 DEF SlabInfos
  <1>5. Cardinality(0 .. N - 1) = N
    <2>1. 0 \in Int /\ N - 1 \in Int /\ ~(0 > N - 1) /\ N - 1 - 0 + 1 = N
      BY <1>1
    <2> QED  BY <2>1, FS_Interval
  <1>6. Cardinality(1 .. NInfo - 1) = NInfo - 1
    <2>1. 1 \in Int /\ NInfo - 1 \in Int /\ ~(1 > NInfo - 1) /\ NInfo - 1 - 1 + 1 = NInfo - 1
      BY <1>1
    <2> QED  BY <2>1, FS_Interval
  <1> DEFINE m == New(b, NInfo)
             f == Bits!SetBit(m.free, 0, FALSE)
  <1>7. NewOwn(b) = [m EXCEPT !.free = f, !.num_free = m.num_free - 1]
    BY DEF NewOwn
  <1>8. /\ m \in SlabInfos /\ m.ptr = b /\ m.num_free = NInfo
        /\ m.free \in Vectors /\ Bits!Elements(m.free) = 0 .. NInfo - 1
    BY <1>1, <1>2, <1>3, <1>4
  <1>9. f \in Vectors /\ Bits!Elements(f) = (0 .. NInfo - 1) \ {0}
    BY <1>1, <1>8, SetBitElements
  <1> HIDE DEF m, f
  <1>10. (0 .. NInfo - 1) \ {0} = 1 .. NInfo - 1
    BY <1>1
  <1>11. /\ NewOwn(b) \in SlabInfos /\ NewOwn(b).ptr = b /\ NewOwn(b).free = f
         /\ NewOwn(b).num_free = NInfo - 1
    <2>1. NInfo - 1 \in 0 .. Cap
      BY <1>1
    <2> QED  BY <1>7, <1>8, <1>9, <2>1 DEF SlabInfos
  <1> QED  BY <1>1, <1>2, <1>3, <1>4, <1>5, <1>6, <1>9, <1>10, <1>11

\* A SlabInfo of SLAB_INFO and the place in its slab that it is about.
WriteBoth(p, s, q, t) == [Write(p, s) EXCEPT ![q[1]][q[2]] = t]

\* What memory can hold.
Cells == SlabInfos \cup {Junk}

\* The two places are all that changes.
LEMMA WriteTwo ==
    ASSUME info \in [Blocks -> [InfoSlots -> Cells]],
           NEW p \in Places, NEW q \in Places, p # q, NEW s \in Cells, NEW t \in Cells,
           info' = WriteBoth(p, s, q, t)
    PROVE  /\ info' \in [Blocks -> [InfoSlots -> Cells]]
           /\ At(p)' = s /\ At(q)' = t
           /\ \A r \in Places : r # p /\ r # q => At(r)' = At(r)
  <1>1. /\ p = <<p[1], p[2]>> /\ p[1] \in Blocks /\ p[2] \in InfoSlots
        /\ q = <<q[1], q[2]>> /\ q[1] \in Blocks /\ q[2] \in InfoSlots
        /\ p[1] # q[1] \/ p[2] # q[2]
    BY DEF Places
  <1>2. PICK w : w = [info EXCEPT ![p[1]] = [info[p[1]] EXCEPT ![p[2]] = s]]
    OBVIOUS
  <1>3. /\ w \in [Blocks -> [InfoSlots -> Cells]] /\ w[p[1]][p[2]] = s
        /\ \A b \in Blocks, i \in InfoSlots : b # p[1] \/ i # p[2] => w[b][i] = info[b][i]
    BY <1>1, <1>2
  <1>4. info' = [w EXCEPT ![q[1]] = [w[q[1]] EXCEPT ![q[2]] = t]]
    BY <1>2 DEF Write, WriteBoth
  <1>5. /\ info' \in [Blocks -> [InfoSlots -> Cells]] /\ info'[q[1]][q[2]] = t
        /\ \A b \in Blocks, i \in InfoSlots : b # q[1] \/ i # q[2] => info'[b][i] = w[b][i]
    <2>1. PICK row : row = [w[q[1]] EXCEPT ![q[2]] = t]
      OBVIOUS
    <2>2. /\ row \in [InfoSlots -> Cells] /\ row[q[2]] = t
          /\ \A i \in InfoSlots : i # q[2] => row[i] = w[q[1]][i]
      BY <1>1, <1>3, <2>1
    <2>3. info' = [w EXCEPT ![q[1]] = row]
      BY <1>4, <2>1
    <2>4. /\ info' \in [Blocks -> [InfoSlots -> Cells]] /\ info'[q[1]] = row
          /\ \A b \in Blocks : b # q[1] => info'[b] = w[b]
      BY <1>1, <1>3, <2>2, <2>3
    <2> QED  BY <1>1, <2>2, <2>4
  <1>6. At(p)' = s /\ At(q)' = t
    BY <1>1, <1>3, <1>5 DEF At
  <1>7. ASSUME NEW r \in Places, r # p, r # q PROVE At(r)' = At(r)
    <2>1. /\ r = <<r[1], r[2]>> /\ r[1] \in Blocks /\ r[2] \in InfoSlots
          /\ r[1] # p[1] \/ r[2] # p[2]
          /\ r[1] # q[1] \/ r[2] # q[2]
      BY <1>1, <1>7 DEF Places
    <2> QED  BY <1>3, <1>5, <2>1 DEF At
  <1> QED  BY <1>5, <1>6, <1>7

\* A slab is linked at the head of its allocator's list.
LEMMA AddSlab ==
    ASSUME SlabInv, NEW a \in Allocs, NEW p \in Places,
           \A x \in Allocs : p \notin Slabs(x),
           slabs' = [slabs EXCEPT ![a] = <<p>> \o @],
           \A x \in Allocs : Freeing(x)' <=> Freeing(x), ~Freeing(a)
    PROVE  /\ slabs' \in [Allocs -> Seq(Places)] /\ slabs'[a] # << >>
           /\ \A x \in Allocs : x # a => slabs'[x] = slabs[x]
           /\ IsInjective(slabs'[a])
           /\ Slabs(a)' = Slabs(a) \cup {p} /\ Live(a)' = Slabs(a) \cup {p}
           /\ Live(a) = Slabs(a)
           /\ \A x \in Allocs : x # a => Slabs(x)' = Slabs(x) /\ Live(x)' = Live(x)
  <1>1. slabs \in [Allocs -> Seq(Places)] /\ IsInjective(slabs[a])
    BY DEF SlabInv, Types, Lists
  <1>2. /\ <<p>> \o slabs[a] \in Seq(Places) /\ <<p>> \o slabs[a] # << >>
        /\ Range(<<p>> \o slabs[a]) = {p} \cup Range(slabs[a])
        /\ IsInjective(<<p>> \o slabs[a])
    BY <1>1, RangePush DEF Slabs
  <1>3. /\ slabs' \in [Allocs -> Seq(Places)] /\ slabs'[a] = <<p>> \o slabs[a]
        /\ \A x \in Allocs : x # a => slabs'[x] = slabs[x]
    BY <1>1, <1>2
  <1>4. Slabs(a)' = Slabs(a) \cup {p}
    BY <1>2, <1>3 DEF Slabs
  <1>5. Live(a)' = Slabs(a)' /\ Live(a) = Slabs(a)
    BY DEF Live
  <1>6. ASSUME NEW x \in Allocs, x # a PROVE Slabs(x)' = Slabs(x) /\ Live(x)' = Live(x)
    <2>1. slabs'[x] = slabs[x] /\ (Freeing(x)' <=> Freeing(x))
      BY <1>3, <1>6
    <2>2. Slabs(x)' = Slabs(x)
      BY <2>1 DEF Slabs
    <2>3. Live(x) = {q \in Slabs(x) : ~(Freeing(x) /\ q = Head(slabs[x]))}
      BY DEF Live
    <2>4. Live(x)' = {q \in Slabs(x)' : ~(Freeing(x)' /\ q = Head(slabs'[x]))}
      BY DEF Live
    <2> QED  BY <2>1, <2>2, <2>3, <2>4, Zenon
  <1> QED  BY <1>2, <1>3, <1>4, <1>5, <1>6

\* A block that was free, or in the hands of a core, becomes the slab's.
LEMMA PagesAdd ==
    ASSUME SlabInv, NEW a \in Allocs, NEW p \in Places, NEW b \in Blocks,
           \A x \in Allocs : p \notin Slabs(x),
           Slabs(a)' = Slabs(a) \cup {p}, Live(a)' = Slabs(a) \cup {p}, Live(a) = Slabs(a),
           \A x \in Allocs : x # a => Slabs(x)' = Slabs(x) /\ Live(x)' = Live(x),
           \A q \in Places : q # p => Ptr(q)' = Ptr(q), Ptr(p)' = b,
           b \in pages \/ \E c \in Cores : block[c] = b,
           pages' = pages \ {b},
           \A c \in Cores : block'[c] = IF block[c] = b THEN None ELSE block[c]
    PROVE  Pages'
  <1>1. Pages /\ pages \in SUBSET Blocks /\ None \notin Blocks
    BY SlabAssumption DEF SlabInv, Types
  <1>2. \A x \in Allocs : Slabs(x) \subseteq Places /\ Live(x) \subseteq Slabs(x)
    BY SlabsApart DEF Live
  <1>3. \A x \in Allocs : \A q \in Live(x) :
          q # p /\ q \in Places /\ Ptr(q)' = Ptr(q) /\ Ptr(q) # b
    BY <1>1, <1>2 DEF Pages
  <1>4. \A x \in Allocs : \A q \in Live(x)' : q \in Live(x) \/ (x = a /\ q = p)
    OBVIOUS
  <1>5. \A x \in Allocs : \A q \in Live(x) : q \in Live(x)'
    OBVIOUS
  <1>6. p \in Live(a)'
    OBVIOUS
  <1>7. ASSUME NEW x \in Allocs, NEW y \in Allocs, NEW q \in Live(x)', NEW r \in Live(y)',
               Ptr(q)' = Ptr(r)'
        PROVE  q = r
    <2>1. CASE q \in Live(x) /\ r \in Live(y)
      BY <1>1, <1>3, <1>7, <2>1 DEF Pages
    <2>2. CASE q \in Live(x) /\ r = p
      BY <1>3, <1>7, <2>2
    <2>3. CASE q = p /\ r \in Live(y)
      BY <1>3, <1>7, <2>3
    <2> QED  BY <1>4, <2>1, <2>2, <2>3
  <1>8. ASSUME NEW x \in Allocs, NEW q \in Slabs(x)', NEW r \in Slabs(x)', Ptr(q)' = Ptr(r)'
        PROVE  q = r
    <2>1. CASE x = a
      BY <1>7, <1>8, <2>1
    <2>2. CASE x # a
      <3>1. q \in Slabs(x) /\ r \in Slabs(x) /\ q # p /\ r # p /\ q \in Places /\ r \in Places
        BY <1>2, <2>2
      <3> QED  BY <1>1, <1>8, <3>1 DEF Pages
    <2> QED  BY <2>1, <2>2
  <1>9. ASSUME NEW x \in Allocs, NEW q \in Live(x)'
        PROVE  Ptr(q)' \notin pages' /\ \A c \in Cores : block'[c] # Ptr(q)'
    <2>1. CASE q \in Live(x)
      <3>1. Ptr(q) \in Blocks
        BY <1>2, <2>1, SlabFacts
      <3> QED  BY <1>1, <1>3, <2>1, <3>1 DEF Pages
    <2>2. CASE q = p
      BY <1>1, <2>2
    <2> QED  BY <1>4, <2>1, <2>2
  <1>10. \A c \in Cores : block'[c] \notin pages'
    BY <1>1 DEF Pages
  <1>11. \A c, d \in Cores : block'[c] = block'[d] => c = d \/ block'[c] = None
    BY <1>1 DEF Pages
  <1>12. ASSUME NEW y \in Blocks \ pages'
         PROVE  (\E c \in Cores : block'[c] = y) \/ \E x \in Allocs : \E q \in Live(x)' : Ptr(q)' = y
    <2>1. CASE y = b
      BY <1>6, <2>1
    <2>2. CASE y # b
      <3>1. y \in Blocks \ pages
        BY <2>2
      <3>2. CASE \E c \in Cores : block[c] = y
        BY <2>2, <3>2
      <3>3. CASE \E x \in Allocs : \E q \in Live(x) : Ptr(q) = y
        BY <1>3, <1>5, <3>3
      <3> QED  BY <1>1, <3>1, <3>2, <3>3 DEF Pages
    <2> QED  BY <2>1, <2>2
  <1> QED  BY <1>7, <1>8, <1>9, <1>10, <1>11, <1>12 DEF Pages

\* SLAB_INFO grows by a block whose first slot describes it.
LEMMA GrowInfoInv ==
    ASSUME SlabInv, NEW c \in Cores, GrowInfo(c)
    PROVE  SlabInv'
  <1>1. /\ at[c].pc = "info" /\ lock[INFO] = c /\ freeSlabs[INFO] = << >>
        /\ UNCHANGED <<lock, block, held, panicked>>
        /\ \/ Goto(c, "undo") /\ UNCHANGED <<pages, info, slabs, freeSlabs>>
           \/ \E b \in pages :
                /\ pages' = pages \ {b}
                /\ info' = Write(<<b, 0>>, NewOwn(b))
                /\ slabs' = [slabs EXCEPT ![INFO] = <<<<b, 0>>>> \o @]
                /\ freeSlabs' = [freeSlabs EXCEPT ![INFO] = <<<<b, 0>>>> \o @]
                /\ UNCHANGED at
    BY DEF GrowInfo
  <1>2. /\ Types /\ LocksHeld /\ Infos /\ Lists /\ Homes /\ Objects /\ Pages
        /\ lock \in [Allocs -> Cores \cup {None}] /\ at \in [Cores -> {Idle} \cup Calls]
        /\ block \in [Cores -> Blocks \cup {None}] /\ pages \in SUBSET Blocks
        /\ freeSlabs \in [Allocs -> Seq(Places)]
        /\ info \in [Blocks -> [InfoSlots -> SlabInfos \cup {Junk}]]
    BY DEF SlabInv, Types
  <1>3. /\ INFO \in Allocs /\ Users \subseteq Allocs /\ INFO \notin Users /\ at[c].pc # "idle"
        /\ block[c] # None /\ ~Dropping(INFO) /\ ~Freeing(INFO)
    BY <1>1, <1>2, InfoStays, SlabAssumption DEF Allocs, LocksHeld
  <1>4. CASE Goto(c, "undo") /\ UNCHANGED <<pages, info, slabs, freeSlabs>>
    <2>1. /\ at' \in [Cores -> {Idle} \cup Calls]
          /\ at'[c] \in Calls /\ at'[c].pc = "undo" /\ at'[c].alloc = at[c].alloc
          /\ \A d \in Cores : d # c => at'[d] = at[d]
      BY <1>3, <1>4, GotoFacts
    <2>2. \A b \in Allocs : (Dropping(b)' <=> Dropping(b)) /\ (Freeing(b)' <=> Freeing(b))
      <3>1. at[c].pc \notin {"drop", "dropinfo"} /\ at'[c].pc \notin {"drop", "dropinfo"}
        BY <1>1, <2>1
      <3> QED  BY <1>1, <1>2, <2>1, <3>1, ModesKept
    <2>3. Types'
      BY <1>1, <1>2, <1>4, <2>1 DEF Types
    <2>4. LocksHeld'
      <3>1. /\ at[c].pc \in {"alloc", "info"} /\ at'[c].pc \in {"alloc", "info", "undo"}
            /\ at'[c].pc # "alloc" /\ lock'[INFO] = c
            /\ (block'[c] # None <=> at'[c].pc \in {"info", "undo"})
        BY <1>1, <1>3, <2>1
      <3>2. /\ \A d \in Cores : d # c => at'[d] = at[d] /\ block'[d] = block[d]
            /\ lock' = lock /\ slabs' = slabs /\ freeSlabs' = freeSlabs /\ held' = held
        BY <1>1, <1>4, <2>1
      <3> QED  BY <2>1, <3>1, <3>2, LocksMove
    <2>5. Infos' /\ Homes' /\ Objects'
      BY <1>1, <1>2, <1>4, SameSlabs
    <2>6. Lists'
      BY <1>1, <1>2, <1>4, <2>2, SameLists
    <2>7. Pages'
      BY <1>1, <1>2, <1>4, <2>2, SamePages
    <2> QED  BY <2>3, <2>4, <2>5, <2>6, <2>7 DEF SlabInv
  <1>5. ASSUME NEW b \in pages, NEW p, p = <<b, 0>>,
               pages' = pages \ {b}, info' = Write(p, NewOwn(b)),
               slabs' = [slabs EXCEPT ![INFO] = <<p>> \o @],
               freeSlabs' = [freeSlabs EXCEPT ![INFO] = <<p>> \o @], UNCHANGED at
        PROVE  SlabInv'
    <2>1. /\ b \in Blocks /\ 0 \in InfoSlots /\ p \in Places /\ p[1] = b /\ p[2] = 0
      BY <1>2, <1>5, SlabAssumption DEF Places, InfoSlots
    <2>2. PICK s : s = NewOwn(b)
      OBVIOUS
    <2>3. /\ s \in SlabInfos /\ s.ptr = b /\ Bits!Elements(s.free) = 1 .. NInfo - 1
          /\ s.num_free = Cardinality(1 .. NInfo - 1) /\ 1 .. NInfo - 1 # {}
      BY <2>1, <2>2, NewFacts
    <2>4. \A x \in Allocs : p \notin Slabs(x)
      <3> SUFFICES ASSUME NEW x \in Allocs, p \in Slabs(x) PROVE FALSE
        OBVIOUS
      <3>1. p \in Slabs(INFO)
        BY <1>2, <1>5, <2>1 DEF Homes
      <3>2. Ptr(p) = b /\ p \in Live(INFO)
        BY <1>2, <1>3, <2>1, <3>1 DEF Homes, Live
      <3> QED  BY <1>2, <1>3, <1>5, <3>2 DEF Pages
    <2>5. \A x \in Allocs : (Dropping(x)' <=> Dropping(x)) /\ (Freeing(x)' <=> Freeing(x))
      BY <1>1, <1>5 DEF Dropping, Freeing
    <2>6. /\ info' \in [Blocks -> [InfoSlots -> SlabInfos \cup {Junk}]]
          /\ At(p)' = s /\ \A q \in Places : q # p => At(q)' = At(q)
      <3> DEFINE X == SlabInfos \cup {Junk}
      <3>1. s \in X /\ info \in [Blocks -> [InfoSlots -> X]] /\ info' = Write(p, s)
        BY <1>2, <1>5, <2>2, <2>3
      <3> HIDE DEF X
      <3>2. /\ info' \in [Blocks -> [InfoSlots -> X]]
            /\ At(p)' = s /\ \A q \in Places : q # p => At(q)' = At(q)
        BY <2>1, <3>1, WriteAt
      <3> QED  BY <3>2 DEF X
    <2>7. /\ slabs' \in [Allocs -> Seq(Places)]
          /\ \A x \in Allocs : x # INFO => slabs'[x] = slabs[x]
          /\ IsInjective(slabs'[INFO])
          /\ Slabs(INFO)' = Slabs(INFO) \cup {p} /\ Live(INFO)' = Slabs(INFO) \cup {p}
          /\ Live(INFO) = Slabs(INFO)
          /\ \A x \in Allocs : x # INFO => Slabs(x)' = Slabs(x) /\ Live(x)' = Live(x)
      BY <1>3, <1>5, <2>1, <2>4, <2>5, AddSlab
    <2>8. /\ freeSlabs' \in [Allocs -> Seq(Places)] /\ IsInjective(freeSlabs'[INFO])
          /\ Range(freeSlabs[INFO]) = {} /\ Range(freeSlabs'[INFO]) = {p}
          /\ \A x \in Allocs : x # INFO => freeSlabs'[x] = freeSlabs[x]
      <3>1. << >> \in Seq(Places) /\ Range(<< >>) = {} /\ IsInjective(<< >>)
        BY <1>1, <1>2, <1>3, RangeSeq
      <3>2. /\ <<p>> \o << >> \in Seq(Places) /\ IsInjective(<<p>> \o << >>)
            /\ Range(<<p>> \o << >>) = {p} \cup {}
        BY <2>1, <3>1, RangePush
      <3>3. freeSlabs' = [freeSlabs EXCEPT ![INFO] = <<p>> \o << >>]
        BY <1>1, <1>5
      <3> QED  BY <1>1, <1>2, <1>3, <3>1, <3>2, <3>3
    <2>9. \A q \in Places : q # p => Ptr(q)' = Ptr(q) /\ FreeSlots(q)' = FreeSlots(q)
      BY <2>6 DEF Ptr, FreeSlots
    <2>10. Ptr(p)' = b /\ FreeSlots(p)' = 1 .. NInfo - 1
      BY <2>3, <2>6 DEF Ptr, FreeSlots
    <2>11. \A x \in Allocs : \A q \in Slabs(x) : q \in Places /\ q # p
      BY <2>4, SlabsApart
    <2>12. \A x \in Allocs : \A q \in Slabs(x)' : q \in Slabs(x) \/ (x = INFO /\ q = p)
      BY <2>7
    <2>13. Types'
      BY <1>1, <1>2, <1>5, <2>6, <2>7, <2>8 DEF Types
    <2>14. LocksHeld'
      <3>1. \A d \in Cores : at[d].pc \in {"drop", "dropinfo"} => at[d].alloc \in Allocs /\ at[d].alloc # INFO
        BY CallFacts
      <3>2. ASSUME NEW d \in Cores, at[d].pc \in {"drop", "dropinfo"}
            PROVE  /\ slabs'[at[d].alloc] # << >> /\ freeSlabs'[at[d].alloc] = << >>
                   /\ held[at[d].alloc] = {}
        <4>1. /\ slabs[at[d].alloc] # << >> /\ freeSlabs[at[d].alloc] = << >>
              /\ held[at[d].alloc] = {}
          BY <1>2, <3>2 DEF LocksHeld
        <4> QED  BY <2>7, <2>8, <3>1, <3>2, <4>1
      <3> QED  BY <1>1, <1>2, <1>5, <3>2 DEF LocksHeld
    <2>15. Infos'
      <3> SUFFICES ASSUME NEW x \in Allocs, NEW q \in Slabs(x)' PROVE Good(q, Size(x))'
        BY DEF Infos
      <3>1. CASE q \in Slabs(x)
        <4>1. Good(q, Size(x)) /\ At(q)' = At(q)
          BY <1>2, <2>6, <2>11, <3>1 DEF Infos
        <4> QED  BY <4>1 DEF Good, FreeSlots
      <3>2. CASE x = INFO /\ q = p
        <4>1. 1 .. NInfo - 1 \subseteq 0 .. NInfo - 1 /\ Size(INFO) = NInfo
          BY SlabAssumption DEF Size
        <4>2. Good(p, Size(INFO))'
          BY <2>3, <2>6, <2>10, <4>1 DEF Good
        <4> QED  BY <3>2, <4>2
      <3> QED  BY <2>12, <3>1, <3>2
    <2>16. Lists'
      <3> SUFFICES ASSUME NEW x \in Allocs
                   PROVE  /\ IsInjective(slabs'[x]) /\ IsInjective(freeSlabs'[x])
                          /\ Range(freeSlabs'[x]) \subseteq Slabs(x)'
                          /\ ~Dropping(x) => \A q \in Slabs(x)' :
                                q \in Range(freeSlabs'[x]) <=> FreeSlots(q)' # {}
        BY <2>5 DEF Lists
      <3>1. CASE x = INFO
        <4>1. \A q \in Slabs(INFO) : FreeSlots(q)' = {} /\ q # p
          BY <1>2, <1>3, <2>8, <2>9, <2>11 DEF Lists
        <4> QED  BY <2>3, <2>7, <2>8, <2>10, <3>1, <4>1
      <3>2. CASE x # INFO
        <4>1. slabs'[x] = slabs[x] /\ freeSlabs'[x] = freeSlabs[x] /\ Slabs(x)' = Slabs(x)
          BY <2>7, <2>8, <3>2
        <4>2. \A q \in Slabs(x) : FreeSlots(q)' = FreeSlots(q)
          BY <2>9, <2>11
        <4> QED  BY <1>2, <4>1, <4>2 DEF Lists
      <3> QED  BY <3>1, <3>2
    <2>17. Homes'
      <3>1. \A q \in Slabs(INFO)' : q[2] = 0 /\ Ptr(q)' = q[1]
        BY <1>2, <1>3, <2>1, <2>7, <2>9, <2>10, <2>11 DEF Homes
      <3>2. ASSUME NEW x \in Allocs, NEW q \in Slabs(x)', NEW r, r = <<q[1], 0>>
            PROVE  r \in Slabs(INFO)' /\ q[2] \notin FreeSlots(r)'
        <4>1. CASE q \in Slabs(x)
          <5>1. r \in Slabs(INFO) /\ q[2] \notin FreeSlots(r)
            BY <1>2, <3>2, <4>1 DEF Homes
          <5> QED  BY <1>3, <2>7, <2>9, <2>11, <5>1
        <4>2. CASE q = p
          <5>1. r = p /\ 0 \notin 1 .. NInfo - 1
            BY <1>5, <2>1, <3>2, <4>2
          <5> QED  BY <2>1, <2>7, <2>10, <4>2, <5>1
        <4> QED  BY <2>12, <4>1, <4>2
      <3>3. ASSUME NEW q \in Slabs(INFO)', NEW i \in InfoSlots
            PROVE  i \in FreeSlots(q)' \/ \E x \in Allocs : <<q[1], i>> \in Slabs(x)'
        <4>1. CASE q \in Slabs(INFO)
          <5>1. i \in FreeSlots(q) \/ \E x \in Allocs : <<q[1], i>> \in Slabs(x)
            BY <1>2, <4>1 DEF Homes
          <5>2. FreeSlots(q)' = FreeSlots(q)
            BY <1>3, <2>9, <2>11, <4>1
          <5>3. \A x \in Allocs : Slabs(x) \subseteq Slabs(x)'
            BY <2>7
          <5> QED  BY <5>1, <5>2, <5>3
        <4>2. CASE q = p
          <5>1. CASE i = 0
            BY <1>3, <1>5, <2>1, <2>7, <4>2, <5>1
          <5>2. CASE i # 0
            <6>1. i \in 1 .. NInfo - 1
              BY <5>2, SlabAssumption DEF InfoSlots
            <6> QED  BY <2>10, <4>2, <6>1
          <5> QED  BY <5>1, <5>2
        <4> QED  BY <1>3, <2>12, <4>1, <4>2
      <3>4. \A x, y \in Allocs : x # y => Slabs(x)' \cap Slabs(y)' = {}
        BY <1>2, <2>11, <2>12 DEF Homes
      <3> QED  BY <3>1, <3>2, <3>3, <3>4 DEF Homes
    <2>18. Objects'
      <3>1. \A x \in Users : /\ held'[x] = held[x] /\ Slabs(x)' = Slabs(x)
                             /\ \A q \in Slabs(x) : Ptr(q)' = Ptr(q) /\ FreeSlots(q)' = FreeSlots(q)
        BY <1>1, <1>3, <2>7, <2>9, <2>11
      <3> QED  BY <1>2, <3>1 DEF Objects
    <2>19. Pages'
      <3>1. \A d \in Cores : block'[d] = IF block[d] = b THEN None ELSE block[d]
        BY <1>1, <1>2, <1>5 DEF Pages
      <3>2. /\ b \in pages \/ \E d \in Cores : block[d] = b
            /\ INFO \in Allocs /\ p \in Places /\ b \in Blocks /\ pages' = pages \ {b}
            /\ \A q \in Places : q # p => Ptr(q)' = Ptr(q)
            /\ Ptr(p)' = b
        BY <1>3, <1>5, <2>1, <2>9, <2>10
      <3> QED  BY <2>4, <2>7, <3>1, <3>2, PagesAdd
    <2> QED  BY <2>13, <2>14, <2>15, <2>16, <2>17, <2>18, <2>19 DEF SlabInv
  <1> QED  BY <1>1, <1>4, <1>5

\* The new SlabInfo goes to a slot of SLAB_INFO nothing else is in.
LEMMA LinkInv ==
    ASSUME SlabInv, NEW c \in Cores, Link(c)
    PROVE  SlabInv'
  <1>0. PICK a, b, h, i, s, t, L, p :
          /\ a = at[c].alloc /\ b = block[c] /\ h = Head(freeSlabs[INFO]) /\ i = SlotFound(INFO)
          /\ s = TakeInfo(INFO) /\ t = New(b, N) /\ L = ListAfterTake(INFO) /\ p = Taken(INFO)
    OBVIOUS
  <1>1. /\ at[c].pc = "info" /\ lock[INFO] = c /\ freeSlabs[INFO] # << >>
        /\ IF NoSlot(INFO)
           THEN panicked' = TRUE /\ UNCHANGED <<info, slabs, freeSlabs>>
           ELSE /\ info' = WriteBoth(h, s, p, t)
                /\ slabs' = [slabs EXCEPT ![a] = <<p>> \o @]
                /\ freeSlabs' = [L EXCEPT ![a] = <<p>> \o @]
                /\ UNCHANGED panicked
        /\ block' = [block EXCEPT ![c] = None]
        /\ Goto(c, "alloc")
        /\ lock' = [x \in Allocs |-> IF x \in {INFO} THEN None ELSE lock[x]]
        /\ UNCHANGED <<pages, held>>
    BY <1>0 DEF Link, Unlock, WriteBoth
  <1>2. /\ Types /\ LocksHeld /\ Infos /\ Lists /\ Homes /\ Objects /\ Pages
        /\ lock \in [Allocs -> Cores \cup {None}] /\ at \in [Cores -> {Idle} \cup Calls]
        /\ block \in [Cores -> Blocks \cup {None}] /\ pages \in SUBSET Blocks
        /\ freeSlabs \in [Allocs -> Seq(Places)]
        /\ info \in [Blocks -> [InfoSlots -> SlabInfos \cup {Junk}]]
    BY DEF SlabInv, Types
  <1>3. /\ INFO \in Allocs /\ Users \subseteq Allocs /\ INFO \notin Users /\ at[c].pc # "idle"
        /\ a \in Users /\ a \in Allocs /\ a # INFO /\ lock[a] = c
        /\ b \in Blocks /\ b # None /\ None \notin Cores /\ None \notin Blocks
        /\ ~Dropping(INFO) /\ ~Freeing(INFO) /\ ~Dropping(a) /\ ~Freeing(a)
    <2>1. at[c].pc # "idle" /\ at[c].pc \notin {"drop", "dropinfo"} /\ b # None /\ b \in Blocks
      BY <1>0, <1>1, <1>2 DEF LocksHeld
    <2>2. a \in Users /\ a \in Allocs /\ a # INFO /\ lock[a] = c
      BY <1>0, <2>1, CallFacts
    <2>3. ~Dropping(a) /\ ~Freeing(a)
      BY <2>1, <2>2 DEF Dropping, Freeing
    <2>4. INFO \in Allocs /\ Users \subseteq Allocs
      BY DEF Allocs
    <2> QED  BY <2>1, <2>2, <2>3, <2>4, InfoStays, SlabAssumption
  <1>4. /\ h \in Slabs(INFO) /\ ~NoSlot(INFO)
        /\ i \in FreeSlots(h) /\ Taken(INFO) = <<Ptr(h), i>>
        /\ s \in SlabInfos /\ s.ptr = Ptr(h)
        /\ Bits!Elements(s.free) = FreeSlots(h) \ {i}
        /\ s.num_free = Cardinality(FreeSlots(h) \ {i})
        /\ L \in [Allocs -> Seq(Places)]
        /\ \A x \in Allocs \ {INFO} : L[x] = freeSlabs[x]
        /\ IsInjective(L[INFO])
        /\ Range(L[INFO]) = IF FreeSlots(h) \ {i} = {} THEN Range(freeSlabs[INFO]) \ {h}
                                                      ELSE Range(freeSlabs[INFO])
    BY <1>0, <1>1, <1>3, TakeFacts
  <1>5. /\ h \in Places /\ h = <<h[1], 0>> /\ h[1] \in Blocks /\ Ptr(h) = h[1]
        /\ FreeSlots(h) \subseteq 0 .. NInfo - 1
    <2>1. /\ h \in Places /\ h = <<h[1], h[2]>> /\ h[1] \in Blocks
          /\ FreeSlots(h) \subseteq 0 .. NInfo - 1
      BY <1>3, <1>4, SlabFacts DEF Size
    <2>2. h[2] = 0 /\ Ptr(h) = h[1]
      BY <1>2, <1>4 DEF Homes
    <2> QED  BY <2>1, <2>2
  <1>6. /\ p = <<h[1], i>> /\ p[1] = h[1] /\ p[2] = i /\ p \in Places
        /\ \A x \in Allocs : p \notin Slabs(x)
    <2>1. p = <<h[1], i>> /\ i \in InfoSlots
      BY <1>0, <1>4, <1>5 DEF InfoSlots
    <2>2. p[1] = h[1] /\ p[2] = i /\ p \in Places
      BY <1>5, <2>1 DEF Places
    <2>3. ASSUME NEW x \in Allocs, p \in Slabs(x) PROVE FALSE
      <3>1. p[2] \notin FreeSlots(<<p[1], 0>>)
        BY <1>2, <2>3 DEF Homes
      <3>2. <<p[1], 0>> = h
        BY <1>5, <2>2
      <3>3. p[2] \notin FreeSlots(h)
        BY <3>1, <3>2
      <3> QED  BY <1>4, <2>2, <3>3
    <2> QED  BY <2>1, <2>2, <2>3
  <1>7. p # h
    BY <1>3, <1>4, <1>6
  <1>8. /\ t \in SlabInfos /\ t.ptr = b /\ Bits!Elements(t.free) = 0 .. N - 1
        /\ t.num_free = Cardinality(0 .. N - 1) /\ 0 .. N - 1 # {}
    BY <1>0, <1>3, NewFacts
  <1>9. /\ info' = WriteBoth(h, s, p, t)
        /\ slabs' = [slabs EXCEPT ![a] = <<p>> \o @]
        /\ freeSlabs' = [L EXCEPT ![a] = <<p>> \o @] /\ panicked' = panicked
    BY <1>1, <1>4
  <1>10. /\ info' \in [Blocks -> [InfoSlots -> SlabInfos \cup {Junk}]]
         /\ At(h)' = s /\ At(p)' = t /\ \A q \in Places : q # h /\ q # p => At(q)' = At(q)
    <2>1. s \in Cells /\ t \in Cells /\ info \in [Blocks -> [InfoSlots -> Cells]]
      BY <1>2, <1>4, <1>8 DEF Cells
    <2>2. h \in Places /\ p \in Places /\ h # p
      BY <1>5, <1>6, <1>7
    <2>3. info' = WriteBoth(h, s, p, t)
      BY <1>9
    <2>4. /\ info' \in [Blocks -> [InfoSlots -> Cells]]
          /\ At(h)' = s /\ At(p)' = t /\ \A q \in Places : q # h /\ q # p => At(q)' = At(q)
      BY <2>1, <2>2, <2>3, WriteTwo
    <2> QED  BY <2>4 DEF Cells
  <1>11. /\ FreeSlots(h)' = FreeSlots(h) \ {i} /\ Ptr(h)' = Ptr(h)
         /\ FreeSlots(p)' = 0 .. N - 1 /\ Ptr(p)' = b
         /\ \A q \in Places : q # h /\ q # p => FreeSlots(q)' = FreeSlots(q) /\ Ptr(q)' = Ptr(q)
    BY <1>4, <1>8, <1>10 DEF FreeSlots, Ptr
  <1>12. /\ at' \in [Cores -> {Idle} \cup Calls]
         /\ at'[c] \in Calls /\ at'[c].pc = "alloc" /\ at'[c].alloc = a
         /\ \A d \in Cores : d # c => at'[d] = at[d]
    BY <1>0, <1>1, <1>3, GotoFacts
  <1>13. /\ lock' \in [Allocs -> Cores \cup {None}] /\ lock'[INFO] = None
         /\ \A x \in Allocs : x # INFO => lock'[x] = lock[x]
         /\ block' \in [Cores -> Blocks \cup {None}] /\ block'[c] = None
         /\ \A d \in Cores : d # c => block'[d] = block[d]
    BY <1>1, <1>2, <1>3
  <1>14. \A x \in Allocs : (Dropping(x)' <=> Dropping(x)) /\ (Freeing(x)' <=> Freeing(x))
    <2>1. at[c].pc \notin {"drop", "dropinfo"} /\ at'[c].pc \notin {"drop", "dropinfo"}
      BY <1>1, <1>12
    <2> QED  BY <1>1, <1>2, <1>12, <1>13, <2>1, ModesKept
  <1>15. /\ slabs' \in [Allocs -> Seq(Places)]
         /\ \A x \in Allocs : x # a => slabs'[x] = slabs[x]
         /\ IsInjective(slabs'[a])
         /\ Slabs(a)' = Slabs(a) \cup {p} /\ Live(a)' = Slabs(a) \cup {p}
         /\ Live(a) = Slabs(a)
         /\ \A x \in Allocs : x # a => Slabs(x)' = Slabs(x) /\ Live(x)' = Live(x)
    BY <1>3, <1>6, <1>9, <1>14, AddSlab
  <1>16. /\ freeSlabs' \in [Allocs -> Seq(Places)] /\ freeSlabs'[INFO] = L[INFO]
         /\ IsInjective(freeSlabs'[a]) /\ Range(freeSlabs'[a]) = {p} \cup Range(freeSlabs[a])
         /\ \A x \in Allocs : x # INFO /\ x # a => freeSlabs'[x] = freeSlabs[x]
    <2>1. L[a] = freeSlabs[a] /\ freeSlabs[a] \in Seq(Places) /\ IsInjective(freeSlabs[a])
          /\ p \notin Range(freeSlabs[a])
      BY <1>2, <1>3, <1>4, <1>6 DEF Lists
    <2>2. /\ <<p>> \o freeSlabs[a] \in Seq(Places) /\ IsInjective(<<p>> \o freeSlabs[a])
          /\ Range(<<p>> \o freeSlabs[a]) = {p} \cup Range(freeSlabs[a])
      BY <1>6, <2>1, RangePush
    <2>3. freeSlabs' = [L EXCEPT ![a] = <<p>> \o freeSlabs[a]]
      BY <1>9, <2>1
    <2> QED  BY <1>3, <1>4, <2>2, <2>3
  <1>17. \A x \in Allocs : \A q \in Slabs(x) : q \in Places /\ q # p /\ (q = h => x = INFO)
    BY <1>3, <1>4, <1>6, SlabsApart
  <1>18. \A x \in Allocs : \A q \in Slabs(x)' : q \in Slabs(x) \/ (x = a /\ q = p)
    BY <1>15
  <1>19. Types'
    BY <1>1, <1>2, <1>9, <1>10, <1>12, <1>13, <1>15, <1>16 DEF Types
  <1>20. LocksHeld'
    <2>1. /\ at[c].pc \in {"alloc", "info"} /\ at'[c].pc \in {"alloc", "info", "undo"}
          /\ at'[c].pc # "undo" /\ lock'[INFO] # c /\ lock[INFO] = c /\ lock'[INFO] = None
          /\ (block'[c] # None <=> at'[c].pc \in {"info", "undo"})
      BY <1>1, <1>3, <1>12, <1>13
    <2>2. /\ \A d \in Cores : d # c => at'[d] = at[d] /\ block'[d] = block[d]
          /\ \A x \in Users : lock'[x] = lock[x]
          /\ \A x \in Users : x # a => slabs'[x] = slabs[x] /\ freeSlabs'[x] = freeSlabs[x]
          /\ held' = held
      BY <1>1, <1>3, <1>12, <1>13, <1>15, <1>16
    <2> QED  BY <1>0, <1>12, <2>1, <2>2, LocksMove
  <1>21. Infos'
    <2> SUFFICES ASSUME NEW x \in Allocs, NEW q \in Slabs(x)' PROVE Good(q, Size(x))'
      BY DEF Infos
    <2>1. CASE x = a /\ q = p
      <3>1. Good(p, N)'
        BY <1>8, <1>10, <1>11 DEF Good
      <3>2. Size(a) = N
        BY <1>3 DEF Size
      <3> QED  BY <2>1, <3>1, <3>2
    <2>2. CASE q \in Slabs(x) /\ q = h
      <3>1. Good(h, NInfo)'
        BY <1>4, <1>5, <1>10, <1>11 DEF Good
      <3>2. x = INFO /\ Size(INFO) = NInfo
        BY <1>17, <2>2 DEF Size
      <3> QED  BY <2>2, <3>1, <3>2
    <2>3. CASE q \in Slabs(x) /\ q # h
      <3>1. Good(q, Size(x)) /\ At(q)' = At(q)
        BY <1>2, <1>10, <1>17, <2>3 DEF Infos
      <3> QED  BY <3>1 DEF Good, FreeSlots
    <2> QED  BY <1>18, <2>1, <2>2, <2>3
  <1>22. Lists'
    <2> SUFFICES ASSUME NEW x \in Allocs
                 PROVE  /\ IsInjective(slabs'[x]) /\ IsInjective(freeSlabs'[x])
                        /\ Range(freeSlabs'[x]) \subseteq Slabs(x)'
                        /\ ~Dropping(x) => \A q \in Slabs(x)' :
                              q \in Range(freeSlabs'[x]) <=> FreeSlots(q)' # {}
      BY <1>14 DEF Lists
    <2>0. /\ IsInjective(slabs[x]) /\ IsInjective(freeSlabs[x])
          /\ Range(freeSlabs[x]) \subseteq Slabs(x)
          /\ ~Dropping(x) => \A q \in Slabs(x) : q \in Range(freeSlabs[x]) <=> FreeSlots(q) # {}
      BY <1>2 DEF Lists
    <2>1. CASE x = INFO
      <3>1. slabs'[x] = slabs[x] /\ Slabs(x)' = Slabs(x) /\ freeSlabs'[x] = L[x]
        BY <1>3, <1>15, <1>16, <2>1
      <3>2. \A q \in Slabs(x) : q # h => FreeSlots(q)' = FreeSlots(q)
        BY <1>11, <1>17
      <3>3. FreeSlots(h) # {} /\ ~Dropping(x)
        BY <1>3, <1>4, <2>1
      <3> QED  BY <1>4, <1>11, <2>0, <2>1, <3>1, <3>2, <3>3
    <2>2. CASE x = a
      <3>1. \A q \in Slabs(a) : FreeSlots(q)' = FreeSlots(q) /\ q # p
        BY <1>3, <1>11, <1>17
      <3> QED  BY <1>3, <1>8, <1>11, <1>15, <1>16, <2>0, <2>2, <3>1
    <2>3. CASE x # INFO /\ x # a
      <3>1. slabs'[x] = slabs[x] /\ freeSlabs'[x] = freeSlabs[x] /\ Slabs(x)' = Slabs(x)
        BY <1>15, <1>16, <2>3
      <3>2. \A q \in Slabs(x) : FreeSlots(q)' = FreeSlots(q)
        BY <1>11, <1>17, <2>3
      <3> QED  BY <2>0, <3>1, <3>2
    <2> QED  BY <2>1, <2>2, <2>3
  <1>23. Homes'
    <2>1. Slabs(INFO)' = Slabs(INFO) /\ \A q \in Slabs(INFO) : Ptr(q)' = Ptr(q)
      BY <1>3, <1>11, <1>15, <1>17
    <2>2. \A q \in Slabs(INFO)' : q[2] = 0 /\ Ptr(q)' = q[1]
      BY <1>2, <2>1 DEF Homes
    <2>3. \A q \in Slabs(INFO) : FreeSlots(q)' \subseteq FreeSlots(q)
      BY <1>3, <1>11, <1>17
    <2>4. ASSUME NEW x \in Allocs, NEW q \in Slabs(x)', NEW r, r = <<q[1], 0>>
          PROVE  r \in Slabs(INFO)' /\ q[2] \notin FreeSlots(r)'
      <3>1. CASE q \in Slabs(x)
        <4>1. r \in Slabs(INFO) /\ q[2] \notin FreeSlots(r)
          BY <1>2, <2>4, <3>1 DEF Homes
        <4> QED  BY <2>1, <2>3, <4>1
      <3>2. CASE q = p
        <4>1. r = h /\ q[2] = i
          BY <1>5, <1>6, <2>4, <3>2
        <4> QED  BY <1>4, <1>11, <2>1, <4>1
      <3> QED  BY <1>18, <3>1, <3>2
    <2>5. ASSUME NEW q \in Slabs(INFO)', NEW j \in InfoSlots
          PROVE  j \in FreeSlots(q)' \/ \E x \in Allocs : <<q[1], j>> \in Slabs(x)'
      <3>1. q \in Slabs(INFO)
        BY <2>1
      <3>2. j \in FreeSlots(q) \/ \E x \in Allocs : <<q[1], j>> \in Slabs(x)
        BY <1>2, <3>1 DEF Homes
      <3>3. \A x \in Allocs : Slabs(x) \subseteq Slabs(x)'
        BY <1>15
      <3>4. CASE q = h /\ j = i
        <4>1. <<q[1], j>> = p /\ p \in Slabs(a)'
          BY <1>6, <1>15, <3>4
        <4> QED  BY <1>3, <4>1
      <3>5. CASE ~(q = h /\ j = i)
        <4>1. j \in FreeSlots(q) => j \in FreeSlots(q)'
          BY <1>3, <1>11, <1>17, <3>1, <3>5
        <4> QED  BY <3>2, <3>3, <4>1
      <3> QED  BY <3>4, <3>5
    <2>6. \A x, y \in Allocs : x # y => Slabs(x)' \cap Slabs(y)' = {}
      BY <1>2, <1>17, <1>18 DEF Homes
    <2> QED  BY <2>2, <2>4, <2>5, <2>6 DEF Homes
  <1>24. Objects'
    <2>1. \A x \in Users : \A q \in Slabs(x) : Ptr(q)' = Ptr(q) /\ FreeSlots(q)' = FreeSlots(q)
      BY <1>3, <1>11, <1>17
    <2>2. \A x \in Users : Slabs(x) \subseteq Slabs(x)'
      BY <1>3, <1>15
    <2>3. \A x \in Users : \A o \in held'[x] :
            \E q \in Slabs(x)' : Ptr(q)' = o[1] /\ o[2] \notin FreeSlots(q)'
      <3> SUFFICES ASSUME NEW x \in Users, NEW o \in held[x]
                   PROVE  \E q \in Slabs(x)' : Ptr(q)' = o[1] /\ o[2] \notin FreeSlots(q)'
        BY <1>1
      <3>1. PICK q \in Slabs(x) : Ptr(q) = o[1] /\ o[2] \notin FreeSlots(q)
        BY <1>2 DEF Objects
      <3>2. q \in Slabs(x)' /\ Ptr(q)' = o[1] /\ o[2] \notin FreeSlots(q)'
        BY <2>1, <2>2, <3>1
      <3> QED  BY <3>2
    <2>4. ASSUME NEW x \in Users, NEW q \in Slabs(x)', NEW j \in 0 .. N - 1
          PROVE  j \in FreeSlots(q)' \/ <<Ptr(q)', j>> \in held'[x]
      <3>1. CASE q \in Slabs(x)
        BY <1>1, <1>2, <2>1, <3>1 DEF Objects
      <3>2. CASE q = p
        BY <1>11, <3>2
      <3> QED  BY <1>3, <1>18, <3>1, <3>2
    <2> QED  BY <2>3, <2>4 DEF Objects
  <1>25. Pages'
    <2>1. \A d \in Cores : block'[d] = IF block[d] = b THEN None ELSE block[d]
      BY <1>0, <1>2, <1>3, <1>13 DEF Pages
    <2>2. /\ b \in pages \/ \E d \in Cores : block[d] = b
          /\ b \notin pages /\ pages' = pages
      BY <1>0, <1>1, <1>2 DEF Pages
    <2>3. pages' = pages \ {b}
      BY <2>2
    <2>4. /\ \A q \in Places : q # p => Ptr(q)' = Ptr(q)
          /\ Ptr(p)' = b
      BY <1>11
    <2>5. a \in Allocs /\ p \in Places /\ b \in Blocks /\ \A x \in Allocs : p \notin Slabs(x)
      BY <1>3, <1>6
    <2>6. b \in pages \/ \E d \in Cores : block[d] = b
      BY <2>2
    <2> QED  BY <1>15, <2>1, <2>3, <2>4, <2>5, <2>6, PagesAdd
  <1> QED  BY <1>19, <1>20, <1>21, <1>22, <1>23, <1>24, <1>25 DEF SlabInv

\* The SlabInfo's slot goes back to the slab of SLAB_INFO it is in.
LEMMA DropInfoInv ==
    ASSUME SlabInv, NEW c \in Cores, DropInfo(c)
    PROVE  SlabInv'
  <1>0. PICK a, p, h, i, s, L :
          /\ a = at[c].alloc /\ p = Head(slabs[a]) /\ h = SlabOf(INFO, p) /\ i = p[2]
          /\ s = Freed(h, i) /\ L = ListAfterFree(INFO, h)
    OBVIOUS
  <1>1. /\ at[c].pc = "dropinfo" /\ lock[INFO] = None
        /\ info' = WriteBoth(h, s, p, Junk) /\ freeSlabs' = L
        /\ panicked' = (panicked \/ Bits!Bit(At(h).free, i))
        /\ slabs' = [slabs EXCEPT ![a] = Tail(slabs[a])]
        /\ IF Tail(slabs[a]) = << >>
           THEN /\ lock' = [x \in Allocs |-> IF x \in {a} THEN None ELSE lock[x]]
                /\ at' = [at EXCEPT ![c] = Idle]
           ELSE UNCHANGED lock /\ Goto(c, "drop")
        /\ UNCHANGED <<pages, block, held>>
    BY <1>0 DEF DropInfo, Unlock, WriteBoth, DoubleFree
  <1>2. /\ Types /\ LocksHeld /\ Infos /\ Lists /\ Homes /\ Objects /\ Pages
        /\ lock \in [Allocs -> Cores \cup {None}] /\ at \in [Cores -> {Idle} \cup Calls]
        /\ slabs \in [Allocs -> Seq(Places)] /\ panicked = FALSE
        /\ info \in [Blocks -> [InfoSlots -> Cells]]
    BY DEF SlabInv, Types, Cells
  <1>3. /\ INFO \in Allocs /\ Users \subseteq Allocs /\ INFO \notin Users /\ at[c].pc # "idle"
        /\ a \in Users /\ a \in Allocs /\ a # INFO /\ lock[a] = c /\ c # None
        /\ block[c] = None /\ slabs[a] # << >> /\ freeSlabs[a] = << >> /\ held[a] = {}
        /\ ~Dropping(INFO) /\ ~Freeing(INFO) /\ Freeing(a) /\ Dropping(a)
        /\ Idle.pc = "idle"
    <2>1. at[c].pc # "idle"
      BY <1>1
    <2>2. a \in Users /\ a \in Allocs /\ a # INFO /\ lock[a] = c /\ c # None
      BY <1>0, <2>1, CallFacts
    <2>3. /\ block[c] = None /\ slabs[a] # << >> /\ freeSlabs[a] = << >> /\ held[a] = {}
      BY <1>0, <1>1, <1>2 DEF LocksHeld
    <2>4. Freeing(a) /\ Dropping(a)
      BY <1>1, <2>2 DEF Freeing, Dropping
    <2>5. INFO \in Allocs /\ Users \subseteq Allocs /\ Idle.pc = "idle"
      BY DEF Allocs, Idle
    <2> QED  BY <2>1, <2>2, <2>3, <2>4, <2>5, InfoStays, SlabAssumption
  <1>4. /\ p \in Slabs(a) /\ p \in Places /\ p = <<p[1], i>> /\ p[1] \in Blocks /\ i \in InfoSlots
        /\ Tail(slabs[a]) \in Seq(Places) /\ IsInjective(Tail(slabs[a]))
        /\ Range(Tail(slabs[a])) = Slabs(a) \ {p}
    <2>1. slabs[a] \in Seq(Places) /\ IsInjective(slabs[a])
      BY <1>2, <1>3 DEF Lists
    <2>2. /\ Head(slabs[a]) \in Range(slabs[a]) /\ Head(slabs[a]) \in Places
          /\ Tail(slabs[a]) \in Seq(Places) /\ IsInjective(Tail(slabs[a]))
          /\ Range(Tail(slabs[a])) = Range(slabs[a]) \ {Head(slabs[a])}
      BY <1>3, <2>1, RangePop
    <2>3. p \in Slabs(a) /\ p \in Places
      BY <1>0, <2>2 DEF Slabs
    <2> QED  BY <1>0, <2>2, <2>3 DEF Places, Slabs
  <1>5. /\ h = <<p[1], 0>> /\ h \in Slabs(INFO) /\ Ptr(h) = p[1] /\ h[1] = p[1]
        /\ i \notin FreeSlots(h)
    <2>1. PICK r : r = <<p[1], 0>>
      OBVIOUS
    <2>2. r \in Slabs(INFO) /\ p[2] \notin FreeSlots(r)
      BY <1>2, <1>3, <1>4, <2>1 DEF Homes
    <2>3. Ptr(r) = p[1] /\ r[1] = p[1]
      BY <1>2, <2>1, <2>2 DEF Homes
    <2>4. \A q \in Slabs(INFO) : Ptr(q) = p[1] => q = r
      <3> SUFFICES ASSUME NEW q \in Slabs(INFO), Ptr(q) = p[1] PROVE q = r
        OBVIOUS
      <3>1. q[2] = 0 /\ Ptr(q) = q[1]
        BY <1>2 DEF Homes
      <3>2. q = <<q[1], q[2]>>
        BY <1>3, SlabFacts
      <3> QED  BY <2>1, <3>1, <3>2
    <2>5. h = CHOOSE q \in Slabs(INFO) : Ptr(q) = p[1]
      BY <1>0 DEF SlabOf, Slabs, Ptr
    <2>6. h = r
      BY <2>2, <2>3, <2>4, <2>5
    <2> QED  BY <1>0, <2>1, <2>2, <2>3, <2>6
  <1>6. /\ ~Bits!Bit(At(h).free, i)
        /\ s \in SlabInfos /\ s.ptr = Ptr(h)
        /\ Bits!Elements(s.free) = FreeSlots(h) \cup {i}
        /\ s.num_free = Cardinality(FreeSlots(h) \cup {i})
        /\ L \in [Allocs -> Seq(Places)]
        /\ \A x \in Allocs \ {INFO} : L[x] = freeSlabs[x]
        /\ IsInjective(L[INFO])
        /\ Range(L[INFO]) = Range(freeSlabs[INFO]) \cup {h}
    <2>1. i \in 0 .. Size(INFO) - 1
      BY <1>4 DEF Size, InfoSlots
    <2>2. /\ ~Bits!Bit(At(h).free, i)
          /\ Freed(h, i) \in SlabInfos /\ Freed(h, i).ptr = Ptr(h)
          /\ Bits!Elements(Freed(h, i).free) = FreeSlots(h) \cup {i}
          /\ Freed(h, i).num_free = Cardinality(FreeSlots(h) \cup {i})
          /\ ListAfterFree(INFO, h) \in [Allocs -> Seq(Places)]
          /\ \A x \in Allocs \ {INFO} : ListAfterFree(INFO, h)[x] = freeSlabs[x]
          /\ IsInjective(ListAfterFree(INFO, h)[INFO])
          /\ Range(ListAfterFree(INFO, h)[INFO]) = Range(freeSlabs[INFO]) \cup {h}
      BY <1>3, <1>5, <2>1, FreedFacts
    <2>3. s = Freed(h, i) /\ L = ListAfterFree(INFO, h)
      BY <1>0
    <2> QED  BY <2>2, <2>3, Zenon
  <1>7. h \in Places /\ h # p /\ FreeSlots(h) \subseteq 0 .. NInfo - 1
    <2>1. h \in Places /\ FreeSlots(h) \subseteq 0 .. NInfo - 1
      BY <1>3, <1>5, SlabFacts DEF Size
    <2>2. h # p
      BY <1>3, <1>4, <1>5, SlabsApart
    <2> QED  BY <2>1, <2>2
  <1>8. /\ info' \in [Blocks -> [InfoSlots -> Cells]]
        /\ At(h)' = s /\ At(p)' = Junk /\ \A q \in Places : q # h /\ q # p => At(q)' = At(q)
    <2>1. s \in Cells /\ Junk \in Cells
      BY <1>6 DEF Cells
    <2> QED  BY <1>1, <1>2, <1>4, <1>7, <2>1, WriteTwo
  <1>9. /\ FreeSlots(h)' = FreeSlots(h) \cup {i} /\ Ptr(h)' = Ptr(h)
        /\ \A q \in Places : q # h /\ q # p => FreeSlots(q)' = FreeSlots(q)
        /\ \A q \in Places : q # p => Ptr(q)' = Ptr(q)
    BY <1>6, <1>8 DEF FreeSlots, Ptr
  <1>10. panicked' = FALSE
    BY <1>1, <1>2, <1>6
  <1>11. /\ slabs' \in [Allocs -> Seq(Places)] /\ slabs'[a] = Tail(slabs[a])
         /\ \A x \in Allocs : x # a => slabs'[x] = slabs[x] /\ Slabs(x)' = Slabs(x)
         /\ Slabs(a)' = Slabs(a) \ {p} /\ IsInjective(slabs'[a])
    <2>1. /\ slabs' \in [Allocs -> Seq(Places)] /\ slabs'[a] = Tail(slabs[a])
          /\ \A x \in Allocs : x # a => slabs'[x] = slabs[x]
      BY <1>1, <1>2, <1>3, <1>4
    <2> QED  BY <1>4, <2>1 DEF Slabs
  <1>12. \A x \in Allocs : \A q \in Slabs(x) : /\ q \in Places /\ (q = h => x = INFO)
                                               /\ (q = p => x = a)
    BY <1>3, <1>4, <1>5, SlabsApart
  <1>13. \A x \in Allocs : \A q \in Slabs(x)' : q \in Slabs(x) /\ q # p /\ q \in Places
    BY <1>11, <1>12
  <1>14. /\ at' \in [Cores -> {Idle} \cup Calls] /\ lock' \in [Allocs -> Cores \cup {None}]
         /\ \A d \in Cores : d # c => at'[d] = at[d]
         /\ \A x \in Allocs : x # a => lock'[x] = lock[x]
         /\ IF Tail(slabs[a]) = << >>
            THEN at'[c] = Idle /\ lock'[a] = None
            ELSE /\ at'[c] \in Calls /\ at'[c].pc = "drop" /\ at'[c].alloc = a
                 /\ lock' = lock
    <2>1. CASE Tail(slabs[a]) = << >>
      <3>1. /\ lock' = [x \in Allocs |-> IF x \in {a} THEN None ELSE lock[x]]
            /\ at' = [at EXCEPT ![c] = Idle]
        BY <1>1, <2>1
      <3>2. at' \in [Cores -> {Idle} \cup Calls] /\ at'[c] = Idle
            /\ \A d \in Cores : d # c => at'[d] = at[d]
        BY <1>2, <3>1
      <3>3. /\ lock' \in [Allocs -> Cores \cup {None}] /\ lock'[a] = None
            /\ \A x \in Allocs : x # a => lock'[x] = lock[x]
        BY <1>2, <1>3, <3>1
      <3> QED  BY <2>1, <3>2, <3>3
    <2>2. CASE Tail(slabs[a]) # << >>
      <3>1. Goto(c, "drop") /\ lock' = lock
        BY <1>1, <2>2
      <3>2. /\ at' \in [Cores -> {Idle} \cup Calls]
            /\ at'[c] \in Calls /\ at'[c].pc = "drop" /\ at'[c].alloc = at[c].alloc
            /\ \A d \in Cores : d # c => at'[d] = at[d]
        BY <1>3, <3>1, GotoFacts
      <3> QED  BY <1>0, <1>2, <2>2, <3>1, <3>2
    <2> QED  BY <2>1, <2>2
  <1>15. /\ ~Freeing(a)' /\ (Dropping(a)' <=> Tail(slabs[a]) # << >>)
         /\ \A x \in Allocs : x # a => (Dropping(x)' <=> Dropping(x)) /\ (Freeing(x)' <=> Freeing(x))
    <2>1. ~Freeing(a)' /\ (Dropping(a)' <=> Tail(slabs[a]) # << >>)
      BY <1>3, <1>14 DEF Freeing, Dropping
    <2>2. ASSUME NEW x \in Allocs, x # a
          PROVE  (Dropping(x)' <=> Dropping(x)) /\ (Freeing(x)' <=> Freeing(x))
      <3>1. lock[x] # c
        <4>1. x = INFO => lock[x] # c
          BY <1>1, <1>3
        <4>2. x \in Users /\ lock[x] = c => x = a
          BY <1>0, <1>2, <1>3 DEF LocksHeld
        <4> QED  BY <2>2, <4>1, <4>2 DEF Allocs
      <3>2. lock'[x] = lock[x] /\ lock[x] \in Cores \cup {None}
        BY <1>2, <1>14, <2>2
      <3>3. CASE lock[x] = None
        BY <3>2, <3>3 DEF Dropping, Freeing
      <3>4. CASE lock[x] # None
        <4>1. at'[lock[x]] = at[lock[x]]
          BY <1>14, <3>1, <3>2, <3>4
        <4> QED  BY <3>2, <4>1 DEF Dropping, Freeing
      <3> QED  BY <3>3, <3>4
    <2> QED  BY <2>1, <2>2
  <1>16. \A x \in Allocs : Live(x)' = Live(x)
    <2> SUFFICES ASSUME NEW x \in Allocs PROVE Live(x)' = Live(x)
      OBVIOUS
    <2>1. CASE x = a
      <3>1. Live(a)' = Slabs(a)' /\ Live(a) = Slabs(a) \ {p}
        BY <1>0, <1>3, <1>15 DEF Live
      <3> QED  BY <1>11, <2>1, <3>1
    <2>2. CASE x # a
      <3>1. slabs'[x] = slabs[x] /\ Slabs(x)' = Slabs(x) /\ (Freeing(x)' <=> Freeing(x))
        BY <1>11, <1>15, <2>2
      <3>2. Live(x) = {q \in Slabs(x) : ~(Freeing(x) /\ q = Head(slabs[x]))}
        BY DEF Live
      <3>3. Live(x)' = {q \in Slabs(x)' : ~(Freeing(x)' /\ q = Head(slabs'[x]))}
        BY DEF Live
      <3> QED  BY <3>1, <3>2, <3>3, Zenon
    <2> QED  BY <2>1, <2>2
  <1>17. Types'
    BY <1>1, <1>2, <1>6, <1>8, <1>10, <1>11, <1>14 DEF Types, Cells
  <1>18. LocksHeld'
    <2>1. CASE Tail(slabs[a]) = << >>
      <3>1. \A x \in Users : x # a =>
              /\ lock'[x] = lock[x] /\ slabs'[x] = slabs[x]
              /\ freeSlabs'[x] = freeSlabs[x] /\ held'[x] = held[x]
        BY <1>1, <1>3, <1>6, <1>11, <1>14
      <3>2. lock'[INFO] = IF lock[INFO] = c THEN None ELSE lock[INFO]
        BY <1>1, <1>3, <1>14
      <3>3. /\ \A d \in Cores : d # c => at'[d] = at[d] /\ block'[d] = block[d]
            /\ at'[c] = Idle /\ block'[c] = None /\ lock'[a] = None
        BY <1>1, <1>3, <1>14, <2>1
      <3> QED  BY <1>0, <1>3, <3>1, <3>2, <3>3, LocksReturn
    <2>2. CASE Tail(slabs[a]) # << >>
      <3>0. /\ at'[c] \in Calls /\ at'[c].pc = "drop" /\ at'[c].alloc = a /\ lock' = lock
            /\ at'[c] # Idle /\ at[c] # Idle /\ lock[INFO] = None
        BY <1>1, <1>3, <1>14, <2>2
      <3>1. \A d \in Cores : /\ at'[d].alloc = at[d].alloc /\ (at'[d] = Idle <=> at[d] = Idle)
                             /\ at'[d].pc = at[d].pc \/ d = c
        BY <1>0, <1>14, <3>0
      <3>2. \A d \in Cores : at'[d] # Idle => lock'[at'[d].alloc] = d
        BY <1>2, <3>0, <3>1 DEF LocksHeld
      <3>3. \A x \in Users : lock'[x] # None => at'[lock'[x]] # Idle /\ at'[lock'[x]].alloc = x
        <4> SUFFICES ASSUME NEW x \in Users, lock[x] # None
                     PROVE  at'[lock[x]] # Idle /\ at'[lock[x]].alloc = x
          BY <3>0
        <4>1. lock[x] \in Cores
          BY <1>2, <1>3
        <4> QED  BY <1>2, <3>1, <4>1 DEF LocksHeld
      <3>4. ASSUME NEW d \in Cores, at'[d].pc = "undo" PROVE lock'[INFO] = d
        <4>1. at[d].pc = "undo"
          BY <3>0, <3>1, <3>4
        <4> QED  BY <1>2, <3>0, <4>1 DEF LocksHeld
      <3>5. \A d \in Cores : block'[d] # None <=> at'[d].pc \in {"info", "undo"}
        <4> SUFFICES ASSUME NEW d \in Cores
                     PROVE  block[d] # None <=> at'[d].pc \in {"info", "undo"}
          BY <1>1
        <4>1. CASE d = c  BY <1>3, <3>0, <4>1
        <4>2. CASE d # c  BY <1>2, <1>14, <4>2 DEF LocksHeld
        <4> QED  BY <4>1, <4>2
      <3>6. ASSUME NEW d \in Cores, at'[d].pc \in {"drop", "dropinfo"}
            PROVE  /\ slabs'[at'[d].alloc] # << >> /\ freeSlabs'[at'[d].alloc] = << >>
                   /\ held'[at'[d].alloc] = {}
        <4>1. CASE d = c
          <5>1. freeSlabs'[a] = << >> /\ slabs'[a] # << >> /\ held'[a] = {}
            BY <1>1, <1>3, <1>6, <1>11, <2>2
          <5> QED  BY <3>0, <4>1, <5>1
        <4>2. CASE d # c
          <5>1. at'[d] = at[d] /\ at[d].pc \in {"drop", "dropinfo"} /\ at[d].pc # "idle"
            BY <1>14, <3>6, <4>2
          <5>2. at[d].alloc \in Allocs /\ at[d].alloc # INFO /\ lock[at[d].alloc] = d
            BY <5>1, CallFacts
          <5>3. at[d].alloc # a
            BY <1>3, <4>2, <5>2
          <5>4. /\ slabs[at[d].alloc] # << >> /\ freeSlabs[at[d].alloc] = << >>
                /\ held[at[d].alloc] = {}
            BY <1>2, <5>1 DEF LocksHeld
          <5>5. /\ slabs'[at[d].alloc] = slabs[at[d].alloc]
                /\ freeSlabs'[at[d].alloc] = freeSlabs[at[d].alloc]
            BY <1>1, <1>6, <1>11, <5>2, <5>3
          <5> QED  BY <1>1, <5>1, <5>4, <5>5
        <4> QED  BY <4>1, <4>2
      <3> QED  BY <3>0, <3>2, <3>3, <3>4, <3>5, <3>6 DEF LocksHeld
    <2> QED  BY <2>1, <2>2
  <1>19. Infos'
    <2> SUFFICES ASSUME NEW x \in Allocs, NEW q \in Slabs(x)' PROVE Good(q, Size(x))'
      BY DEF Infos
    <2>1. q \in Slabs(x) /\ q # p /\ q \in Places
      BY <1>13
    <2>2. CASE q = h
      <3>1. FreeSlots(h) \cup {i} \subseteq 0 .. NInfo - 1
        BY <1>4, <1>7 DEF InfoSlots
      <3>2. Good(h, NInfo)'
        BY <1>6, <1>8, <1>9, <3>1 DEF Good
      <3>3. x = INFO /\ Size(INFO) = NInfo
        BY <1>12, <2>1, <2>2 DEF Size
      <3> QED  BY <2>2, <3>2, <3>3
    <2>3. CASE q # h
      <3>1. Good(q, Size(x)) /\ At(q)' = At(q)
        BY <1>2, <1>8, <2>1, <2>3 DEF Infos
      <3> QED  BY <3>1 DEF Good, FreeSlots
    <2> QED  BY <2>2, <2>3
  <1>20. Lists'
    <2> SUFFICES ASSUME NEW x \in Allocs
                 PROVE  /\ IsInjective(slabs'[x]) /\ IsInjective(freeSlabs'[x])
                        /\ Range(freeSlabs'[x]) \subseteq Slabs(x)'
                        /\ ~Dropping(x)' => \A q \in Slabs(x)' :
                              q \in Range(freeSlabs'[x]) <=> FreeSlots(q)' # {}
      BY DEF Lists
    <2>0. /\ IsInjective(slabs[x]) /\ IsInjective(freeSlabs[x])
          /\ Range(freeSlabs[x]) \subseteq Slabs(x)
          /\ ~Dropping(x) => \A q \in Slabs(x) : q \in Range(freeSlabs[x]) <=> FreeSlots(q) # {}
      BY <1>2 DEF Lists
    <2>1. CASE x = INFO
      <3>1. slabs'[x] = slabs[x] /\ Slabs(x)' = Slabs(x) /\ freeSlabs'[x] = L[x]
        BY <1>1, <1>3, <1>11, <2>1
      <3>2. \A q \in Slabs(x) : q # h => FreeSlots(q)' = FreeSlots(q)
        BY <1>3, <1>9, <1>12, <2>1
      <3>3. ~Dropping(x) /\ h \in Slabs(x) /\ FreeSlots(h)' # {}
        BY <1>3, <1>5, <1>9, <2>1
      <3> QED  BY <1>6, <2>0, <2>1, <3>1, <3>2, <3>3
    <2>2. CASE x = a
      <3>1. freeSlabs'[a] = << >>
        BY <1>1, <1>3, <1>6
      <3>2. Range(<< >>) = {} /\ IsInjective(<< >>)
        BY <1>4, RangeSeq
      <3>3. ~Dropping(a)' => Slabs(a)' = {}
        BY <1>11, <1>15, <3>2 DEF Slabs
      <3> QED  BY <1>11, <2>2, <3>1, <3>2, <3>3
    <2>3. CASE x # INFO /\ x # a
      <3>1. /\ slabs'[x] = slabs[x] /\ freeSlabs'[x] = freeSlabs[x] /\ Slabs(x)' = Slabs(x)
            /\ (Dropping(x)' <=> Dropping(x))
        BY <1>1, <1>6, <1>11, <1>15, <2>3
      <3>2. \A q \in Slabs(x) : FreeSlots(q)' = FreeSlots(q)
        BY <1>9, <1>12, <2>3
      <3> QED  BY <2>0, <3>1, <3>2
    <2> QED  BY <2>1, <2>2, <2>3
  <1>21. Homes'
    <2>1. Slabs(INFO)' = Slabs(INFO) /\ \A q \in Slabs(INFO) : Ptr(q)' = Ptr(q) /\ q # p
      BY <1>3, <1>9, <1>11, <1>12
    <2>2. \A q \in Slabs(INFO)' : q[2] = 0 /\ Ptr(q)' = q[1]
      BY <1>2, <2>1 DEF Homes
    <2>3. \A q \in Slabs(INFO) : q # h => FreeSlots(q)' = FreeSlots(q)
      BY <1>3, <1>9, <1>12
    <2>4. ASSUME NEW x \in Allocs, NEW q \in Slabs(x)', NEW r, r = <<q[1], 0>>
          PROVE  r \in Slabs(INFO)' /\ q[2] \notin FreeSlots(r)'
      <3>1. q \in Slabs(x) /\ q # p /\ q \in Places
        BY <1>13
      <3>2. r \in Slabs(INFO) /\ q[2] \notin FreeSlots(r)
        BY <1>2, <2>4, <3>1 DEF Homes
      <3>3. r = h => q[2] # i
        <4> SUFFICES ASSUME r = h, q[2] = i PROVE FALSE
          OBVIOUS
        <4>1. q = <<q[1], q[2]>>
          BY <3>1 DEF Places
        <4>2. q[1] = p[1]
          BY <1>5, <2>4
        <4> QED  BY <1>4, <3>1, <4>1, <4>2
      <3> QED  BY <1>9, <2>1, <2>3, <3>2, <3>3
    <2>5. ASSUME NEW q \in Slabs(INFO)', NEW j \in InfoSlots
          PROVE  j \in FreeSlots(q)' \/ \E x \in Allocs : <<q[1], j>> \in Slabs(x)'
      <3>1. q \in Slabs(INFO)
        BY <2>1
      <3>2. j \in FreeSlots(q) \/ \E x \in Allocs : <<q[1], j>> \in Slabs(x)
        BY <1>2, <3>1 DEF Homes
      <3>3. j \in FreeSlots(q) => j \in FreeSlots(q)'
        BY <1>9, <2>3, <3>1
      <3>4. CASE <<q[1], j>> = p
        <4>1. q[1] = p[1] /\ j = i
          BY <1>4, <3>4
        <4>2. q = h
          <5>1. q[2] = 0 /\ q = <<q[1], q[2]>>
            BY <1>2, <1>3, <3>1, SlabFacts DEF Homes
          <5> QED  BY <1>5, <4>1, <5>1
        <4> QED  BY <1>9, <4>1, <4>2
      <3>5. CASE <<q[1], j>> # p
        <4>1. \A x \in Allocs : <<q[1], j>> \in Slabs(x) => <<q[1], j>> \in Slabs(x)'
          BY <1>11, <3>5
        <4> QED  BY <3>2, <3>3, <4>1
      <3> QED  BY <3>4, <3>5
    <2>6. \A x, y \in Allocs : x # y => Slabs(x)' \cap Slabs(y)' = {}
      BY <1>2, <1>13 DEF Homes
    <2> QED  BY <2>2, <2>4, <2>5, <2>6 DEF Homes
  <1>22. Objects'
    <2>1. \A x \in Users : \A q \in Slabs(x)' :
            q \in Slabs(x) /\ Ptr(q)' = Ptr(q) /\ FreeSlots(q)' = FreeSlots(q)
      BY <1>3, <1>9, <1>12, <1>13
    <2>2. ASSUME NEW x \in Users, NEW o \in held'[x]
          PROVE  \E q \in Slabs(x)' : Ptr(q)' = o[1] /\ o[2] \notin FreeSlots(q)'
      <3>1. x # a /\ o \in held[x] /\ Slabs(x)' = Slabs(x)
        BY <1>1, <1>3, <1>11
      <3>2. PICK q \in Slabs(x) : Ptr(q) = o[1] /\ o[2] \notin FreeSlots(q)
        BY <1>2, <3>1 DEF Objects
      <3>3. q \in Slabs(x)' /\ Ptr(q)' = o[1] /\ o[2] \notin FreeSlots(q)'
        BY <2>1, <3>1, <3>2
      <3> QED  BY <3>3
    <2>3. \A x \in Users : \A q \in Slabs(x)' : \A j \in 0 .. N - 1 :
            j \in FreeSlots(q)' \/ <<Ptr(q)', j>> \in held'[x]
      BY <1>1, <1>2, <2>1 DEF Objects
    <2> QED  BY <2>2, <2>3 DEF Objects
  <1>23. Pages'
    <2>1. \A x \in Allocs : \A q \in Live(x) : Ptr(q)' = Ptr(q)
      BY <1>9, <1>13, <1>16 DEF Live
    <2>2. \A x \in Allocs : \A q \in Slabs(x)' : Ptr(q)' = Ptr(q) /\ q \in Slabs(x)
      BY <1>9, <1>13
    <2>3. \A x, y \in Allocs : \A q \in Live(x)', r \in Live(y)' : Ptr(q)' = Ptr(r)' => q = r
      BY <1>2, <1>16, <2>1 DEF Pages
    <2>4. \A x \in Allocs : \A q, r \in Slabs(x)' : Ptr(q)' = Ptr(r)' => q = r
      BY <1>2, <2>2 DEF Pages
    <2>5. \A x \in Allocs : \A q \in Live(x)' :
            Ptr(q)' \notin pages' /\ \A d \in Cores : block'[d] # Ptr(q)'
      BY <1>1, <1>2, <1>16, <2>1 DEF Pages
    <2>6. \A y \in Blocks \ pages' :
            (\E d \in Cores : block'[d] = y) \/ \E x \in Allocs : \E q \in Live(x)' : Ptr(q)' = y
      <3> SUFFICES ASSUME NEW y \in Blocks \ pages
                   PROVE  \/ \E d \in Cores : block[d] = y
                          \/ \E x \in Allocs : \E q \in Live(x)' : Ptr(q)' = y
        BY <1>1
      <3>1. ASSUME NEW x \in Allocs, NEW q \in Live(x), Ptr(q) = y
            PROVE  q \in Live(x)' /\ Ptr(q)' = y
        BY <1>16, <2>1, <3>1
      <3>2. (\E d \in Cores : block[d] = y) \/ \E x \in Allocs : \E q \in Live(x) : Ptr(q) = y
        BY <1>2 DEF Pages
      <3> QED  BY <3>1, <3>2
    <2> QED  BY <1>1, <1>2, <2>3, <2>4, <2>5, <2>6 DEF Pages
  <1> QED  BY <1>17, <1>18, <1>19, <1>20, <1>21, <1>22, <1>23 DEF SlabInv

-----------------------------------------------------------------------------
(* The invariant                                                           *)

\* Nothing is allocated.
LEMMA InitInv ==
    ASSUME Init
    PROVE  SlabInv
  <1>1. /\ pages = Blocks /\ info = [b \in Blocks |-> [i \in InfoSlots |-> Junk]]
        /\ slabs = [a \in Allocs |-> << >>] /\ freeSlabs = [a \in Allocs |-> << >>]
        /\ lock = [a \in Allocs |-> None] /\ at = [c \in Cores |-> Idle]
        /\ block = [c \in Cores |-> None] /\ held = [a \in Users |-> {}] /\ panicked = FALSE
    BY DEF Init
  <1>2. /\ INFO \in Allocs /\ Users \subseteq Allocs /\ Idle.pc = "idle" /\ None \notin Blocks
    BY SlabAssumption DEF Allocs, Idle
  <1>3. << >> \in Seq(Places) /\ Range(<< >>) = {} /\ IsInjective(<< >>)
    BY DEF Range, IsInjective
  <1>4. \A a \in Allocs : Slabs(a) = {} /\ Live(a) = {} /\ Range(freeSlabs[a]) = {}
    BY <1>1, <1>3 DEF Slabs, Live
  <1>5. Types
    BY <1>1, <1>3 DEF Types
  <1>6. LocksHeld
    BY <1>1, <1>2 DEF LocksHeld
  <1>7. Infos
    BY <1>4 DEF Infos
  <1>8. Lists
    BY <1>1, <1>3, <1>4 DEF Lists
  <1>9. Homes
    BY <1>2, <1>4 DEF Homes
  <1>10. Objects
    BY <1>1, <1>2, <1>4 DEF Objects
  <1>11. Pages
    BY <1>1, <1>2, <1>4 DEF Pages
  <1> QED  BY <1>5, <1>6, <1>7, <1>8, <1>9, <1>10, <1>11 DEF SlabInv

\* Every step keeps the invariant.
LEMMA NextInv ==
    ASSUME SlabInv, [Next]_vars
    PROVE  SlabInv'
  <1>1. CASE \E c \in Cores, a \in Users : Begin(c, a) \/ BeginDrop(c, a)
    BY <1>1, BeginInv, BeginDropInv
  <1>2. CASE \E a \in Users : \E o \in held[a] : Free(a, o)
    BY <1>2, FreeInv
  <1>3. ASSUME NEW c \in Cores, Call(c) PROVE SlabInv'
    BY <1>3, TakeInv, GetPagesInv, LockInfoInv, GrowInfoInv, LinkInv, UndoInv,
       DropPagesInv, DropInfoInv DEF Call
  <1>4. CASE UNCHANGED vars
    <2>1. UNCHANGED <<pages, info, slabs, freeSlabs, lock, at, block, held, panicked>>
      BY <1>4 DEF vars
    <2>2. \A a \in Allocs : (Dropping(a)' <=> Dropping(a)) /\ (Freeing(a)' <=> Freeing(a))
      BY <2>1 DEF Dropping, Freeing
    <2>3. Types' /\ LocksHeld'
      BY <2>1 DEF SlabInv, Types, LocksHeld
    <2>4. Infos' /\ Homes' /\ Objects'
      BY <2>1, SameSlabs DEF SlabInv
    <2>5. Lists' /\ Pages'
      BY <2>1, <2>2, SameLists, SamePages DEF SlabInv
    <2> QED  BY <2>3, <2>4, <2>5 DEF SlabInv
  <1> QED  BY <1>1, <1>2, <1>3, <1>4 DEF Next

\* SlabInv holds in every state, for any allocators, cores, blocks and sizes.
THEOREM SlabInvariance == Spec => []SlabInv
  <1>1. Init => SlabInv
    BY InitInv
  <1>2. SlabInv /\ [Next]_vars => SlabInv'
    BY NextInv
  <1> QED  BY <1>1, <1>2, PTL DEF Spec

-----------------------------------------------------------------------------
(* What it says of the allocators                                          *)

\* The lists and counts are what FreeListExact says.
LEMMA ListExact ==
    ASSUME SlabInv
    PROVE  FreeListExact
  <1>1. panicked = FALSE
    BY DEF SlabInv, Types
  <1>2. ASSUME NEW a \in Allocs, NEW p \in Slabs(a)
        PROVE  /\ At(p) # Junk /\ At(p).num_free = Cardinality(FreeSlots(p))
               /\ At(p).num_free > 0 <=> FreeSlots(p) # {}
    <2>1. /\ At(p) \in SlabInfos /\ At(p).num_free = Cardinality(FreeSlots(p))
          /\ IsFiniteSet(FreeSlots(p)) /\ Cardinality(FreeSlots(p)) \in Nat
      BY SlabFacts
    <2>2. At(p) \in [ptr : Blocks, num_free : 0 .. Cap,
                     free : [Bits!Indices -> SUBSET Bits!Ones]]
      BY <2>1 DEF SlabInfos, Vectors
    <2>3. At(p) # Junk
      BY <2>2, SlabAssumption
    <2>4. Cardinality(FreeSlots(p)) = 0 <=> FreeSlots(p) = {}
      BY <2>1, FS_EmptySet
    <2> QED  BY <2>1, <2>3, <2>4
  <1>3. ASSUME NEW a \in Allocs, ~Dropping(a)
        PROVE  /\ IsInjective(freeSlabs[a])
               /\ Range(freeSlabs[a]) = {p \in Slabs(a) : At(p).num_free > 0}
    <2>1. /\ IsInjective(freeSlabs[a]) /\ Range(freeSlabs[a]) \subseteq Slabs(a)
          /\ \A p \in Slabs(a) : p \in Range(freeSlabs[a]) <=> FreeSlots(p) # {}
      BY <1>3 DEF SlabInv, Lists
    <2> QED  BY <1>2, <2>1
  <1> QED  BY <1>1, <1>2, <1>3 DEF FreeListExact, Slabs

\* The objects in use are the slots that are not free.
LEMMA ObjectsExact ==
    ASSUME SlabInv
    PROVE  ObjectsAccounted
  <1> SUFFICES ASSUME NEW a \in Users
               PROVE  held[a] = {<<At(p).ptr, i>> : p \in Slabs(a), i \in 0 .. N - 1}
                          \ UNION {{<<At(p).ptr, i>> : i \in FreeSlots(p)} : p \in Slabs(a)}
    BY DEF ObjectsAccounted, Slabs
  <1> DEFINE all == {<<At(p).ptr, i>> : p \in Slabs(a), i \in 0 .. N - 1}
             free == UNION {{<<At(p).ptr, i>> : i \in FreeSlots(p)} : p \in Slabs(a)}
  <1>1. a \in Allocs /\ held[a] \in SUBSET (Blocks \X (0 .. N - 1))
    BY DEF SlabInv, Types, Allocs
  <1>2. \A p, q \in Slabs(a) : At(p).ptr = At(q).ptr => p = q
    BY <1>1 DEF SlabInv, Pages, Ptr
  <1>3. ASSUME NEW o \in held[a] PROVE o \in all /\ o \notin free
    <2>1. o = <<o[1], o[2]>> /\ o[2] \in 0 .. N - 1
      BY <1>1
    <2>2. PICK p \in Slabs(a) : At(p).ptr = o[1] /\ o[2] \notin FreeSlots(p)
      BY DEF SlabInv, Objects, Ptr
    <2>3. o \in all
      BY <2>1, <2>2
    <2>4. ASSUME NEW q \in Slabs(a), NEW i \in FreeSlots(q), o = <<At(q).ptr, i>> PROVE FALSE
      <3>1. At(q).ptr = o[1] /\ i = o[2]
        BY <2>4
      <3>2. q = p
        BY <1>2, <2>2, <3>1
      <3> QED  BY <2>2, <3>1, <3>2
    <2> QED  BY <2>3, <2>4
  <1>4. ASSUME NEW o \in all, o \notin free PROVE o \in held[a]
    <2>1. PICK p \in Slabs(a), i \in 0 .. N - 1 : o = <<At(p).ptr, i>>
      OBVIOUS
    <2>2. i \notin FreeSlots(p)
      BY <1>4, <2>1
    <2>3. i \in FreeSlots(p) \/ <<At(p).ptr, i>> \in held[a]
      BY DEF SlabInv, Objects, Ptr
    <2> QED  BY <2>1, <2>2, <2>3
  <1> QED  BY <1>3, <1>4

\* Every SlabInfo is in a slot of SLAB_INFO that is not free, and every such
\* slot has one.
LEMMA InfosExact ==
    ASSUME SlabInv
    PROVE  InfoAccounted
  <1> DEFINE used == UNION {{<<At(p).ptr, i>> : i \in InfoSlots \ FreeSlots(p)} : p \in Slabs(INFO)}
             every == UNION {Slabs(a) : a \in Allocs}
  <1>1. Homes /\ INFO \in Allocs
    BY DEF SlabInv, Allocs
  <1>2. ASSUME NEW x \in used PROVE x \in every
    <2>1. PICK p \in Slabs(INFO) : \E i \in InfoSlots \ FreeSlots(p) : x = <<At(p).ptr, i>>
      OBVIOUS
    <2>2. PICK i \in InfoSlots \ FreeSlots(p) : x = <<At(p).ptr, i>>
      BY <2>1
    <2>3. At(p).ptr = p[1]
      BY <1>1 DEF Homes, Ptr
    <2>4. \E a \in Allocs : <<p[1], i>> \in Slabs(a)
      BY <1>1 DEF Homes
    <2> QED  BY <2>2, <2>3, <2>4
  <1>3. ASSUME NEW x \in every PROVE x \in used
    <2>1. PICK a \in Allocs : x \in Slabs(a)
      OBVIOUS
    <2>2. PICK r : r = <<x[1], 0>>
      OBVIOUS
    <2>3. r \in Slabs(INFO) /\ x[2] \notin FreeSlots(r)
      BY <1>1, <2>1, <2>2 DEF Homes
    <2>4. At(r).ptr = x[1]
      BY <1>1, <2>2, <2>3 DEF Homes, Ptr
    <2>5. x = <<x[1], x[2]>> /\ x[2] \in InfoSlots
      BY <2>1, SlabFacts
    <2>6. x[2] \in InfoSlots \ FreeSlots(r) /\ x = <<At(r).ptr, x[2]>>
      BY <2>3, <2>4, <2>5
    <2>7. x \in {<<At(r).ptr, i>> : i \in InfoSlots \ FreeSlots(r)}
      BY <2>6
    <2> QED  BY <2>3, <2>7
  <1>4. used = every
    BY <1>2, <1>3
  <1>5. \A a, b \in Allocs : a # b => Slabs(a) \cap Slabs(b) = {}
    BY <1>1 DEF Homes
  <1>6. \A a \in Allocs : IsInjective(slabs[a])
    BY DEF SlabInv, Lists
  <1> QED  BY <1>4, <1>5, <1>6 DEF InfoAccounted, Slabs

\* The blocks PagesAccounted counts are those of the live slabs.
LEMMA BlocksOfLive ==
    ASSUME SlabInv, NEW a \in Allocs
    PROVE  BlocksOf(a) = {Ptr(p) : p \in Live(a)}
  <1>1. slabs[a] \in Seq(Places) /\ IsInjective(slabs[a])
    BY DEF SlabInv, Types, Lists
  <1>2. PICK s : s = slabs[a]
    OBVIOUS
  <1>3. /\ s \in Seq(Places) /\ DOMAIN s = 1 .. Len(s) /\ Len(s) \in Nat
        /\ \A i, j \in 1 .. Len(s) : s[i] = s[j] => i = j
    BY <1>1, <1>2 DEF IsInjective
  <1>4. s # << >> => Head(s) = s[1]
    BY <1>3
  <1>5. Slabs(a) = {s[i] : i \in 1 .. Len(s)}
    BY <1>2, <1>3 DEF Slabs, Range
  <1>6. Live(a) = {p \in Slabs(a) : ~(Freeing(a) /\ p = s[1])}
    <2>1. s = << >> => Slabs(a) = {}
      BY <1>3, <1>5
    <2> QED  BY <1>2, <1>4, <2>1 DEF Live
  <1>7. \A i \in 1 .. Len(s) :
          (i = 1 => lock[a] = None \/ at[lock[a]].pc # "dropinfo") <=> ~(Freeing(a) /\ s[i] = s[1])
    <2> SUFFICES ASSUME NEW i \in 1 .. Len(s)
                 PROVE  (i = 1 => lock[a] = None \/ at[lock[a]].pc # "dropinfo")
                          <=> ~(Freeing(a) /\ s[i] = s[1])
      OBVIOUS
    <2>1. 1 \in 1 .. Len(s)
      BY <1>3
    <2>2. s[i] = s[1] <=> i = 1
      BY <1>3, <2>1
    <2> QED  BY <2>2 DEF Freeing
  <1>8. BlocksOf(a) = {Ptr(s[i]) : i \in {i \in 1 .. Len(s) : ~(Freeing(a) /\ s[i] = s[1])}}
    <2>1. BlocksOf(a) = {Ptr(s[i]) : i \in {i \in 1 .. Len(s) :
              i = 1 => lock[a] = None \/ at[lock[a]].pc # "dropinfo"}}
      BY <1>2 DEF BlocksOf, Ptr
    <2>2. {i \in 1 .. Len(s) : i = 1 => lock[a] = None \/ at[lock[a]].pc # "dropinfo"}
            = {i \in 1 .. Len(s) : ~(Freeing(a) /\ s[i] = s[1])}
      BY <1>7
    <2> QED  BY <2>1, <2>2
  <1>9. ASSUME NEW x \in BlocksOf(a) PROVE x \in {Ptr(p) : p \in Live(a)}
    <2>1. PICK i \in 1 .. Len(s) : x = Ptr(s[i]) /\ ~(Freeing(a) /\ s[i] = s[1])
      BY <1>8, <1>9
    <2>2. s[i] \in Live(a)
      BY <1>5, <1>6, <2>1
    <2> QED  BY <2>1, <2>2
  <1>10. ASSUME NEW p \in Live(a) PROVE Ptr(p) \in BlocksOf(a)
    <2>1. p \in Slabs(a) /\ ~(Freeing(a) /\ p = s[1])
      BY <1>6
    <2>2. PICK i \in 1 .. Len(s) : p = s[i]
      BY <1>5, <2>1
    <2>3. i \in {k \in 1 .. Len(s) : ~(Freeing(a) /\ s[k] = s[1])}
      BY <2>1, <2>2
    <2> QED  BY <1>8, <2>2, <2>3
  <1> QED  BY <1>9, <1>10

\* Every block is free, in a core's hands or a live slab's.
LEMMA PagesExact ==
    ASSUME SlabInv
    PROVE  PagesAccounted
  <1> DEFINE taken == {block[c] : c \in Cores} \ {None}
             used == UNION {BlocksOf(a) : a \in Allocs}
  <1>1. /\ Pages /\ pages \in SUBSET Blocks /\ block \in [Cores -> Blocks \cup {None}]
        /\ None \notin Blocks
    BY SlabAssumption DEF SlabInv, Types
  <1>2. \A a \in Allocs : BlocksOf(a) = {Ptr(p) : p \in Live(a)}
    BY BlocksOfLive
  <1>3. \A a \in Allocs : \A p \in Live(a) : Ptr(p) \in Blocks /\ p \in Slabs(a)
    BY SlabFacts DEF Live
  <1>4. \A x \in used : x \in Blocks /\ x \notin pages /\ x \notin taken
    BY <1>1, <1>2, <1>3 DEF Pages
  <1>5. \A x \in taken : x \in Blocks /\ x \notin pages
    BY <1>1 DEF Pages
  <1>6. ASSUME NEW x \in Blocks, x \notin pages PROVE x \in taken \cup used
    <2>1. CASE \E c \in Cores : block[c] = x
      BY <1>1, <2>1
    <2>2. CASE \E a \in Allocs : \E p \in Live(a) : Ptr(p) = x
      BY <1>2, <2>2
    <2> QED  BY <1>1, <1>6, <2>1, <2>2 DEF Pages
  <1>7. pages = Blocks \ (taken \cup used) /\ taken \cap used = {}
    BY <1>1, <1>4, <1>5, <1>6
  <1>8. ASSUME NEW a \in Allocs, NEW b \in Allocs, a # b, NEW x \in BlocksOf(a), x \in BlocksOf(b)
        PROVE  FALSE
    <2>1. PICK p \in Live(a) : x = Ptr(p)
      BY <1>2
    <2>2. PICK q \in Live(b) : x = Ptr(q)
      BY <1>2, <1>8
    <2>3. p = q
      BY <1>1, <2>1, <2>2 DEF Pages
    <2> QED  BY <1>3, <1>8, <2>3, SlabsApart
  <1>9. \A a, b \in Allocs : a # b => BlocksOf(a) \cap BlocksOf(b) = {}
    BY <1>8
  <1>10. \A a \in Allocs : \A p, q \in Range(slabs[a]) : At(p).ptr = At(q).ptr => p = q
    BY <1>1 DEF Pages, Slabs, Ptr
  <1>11. \A c, d \in Cores : block[c] = block[d] => c = d \/ block[c] = None
    BY <1>1 DEF Pages
  <1> QED  BY <1>7, <1>9, <1>10, <1>11 DEF PagesAccounted

\* The free list of every allocator has each slab with room once and no other,
\* the counts are right, and no expect or panic of the allocator is reached.
THEOREM FreeListsExact == Spec => []FreeListExact
  BY SlabInvariance, ListExact, PTL

\* The slots of a slab that are not free are the objects its clients have.
THEOREM NoObjectLost == Spec => []ObjectsAccounted
  BY SlabInvariance, ObjectsExact, PTL

\* Every SlabInfo and every block of pages has one owner, through every
\* failure, race and drop.
THEOREM NoMemoryLost == Spec => []MemoryAccounted
  <1>1. SlabInv => MemoryAccounted
    BY InfosExact, PagesExact DEF MemoryAccounted
  <1> QED  BY <1>1, SlabInvariance, PTL

=============================================================================
