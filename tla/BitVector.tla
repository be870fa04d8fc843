----------------------------- MODULE BitVector -----------------------------
(***************************************************************************)
(* FixedBitVector of util.rs: N bits kept in words of W.  A word is the    *)
(* set of its bits that are one, so that masks are sets too.               *)
(***************************************************************************)
EXTENDS Integers, FiniteSets, FiniteSetsExt

CONSTANTS N,    \* number of bits, the const parameter (512 in SlabInfo)
          W     \* bits of a word (32)

\* A vector of m bits has m.div_ceil(W) words; all bits of a word; those of word k that exist.
Words(m) == (m + W - 1) \div W
InnerSize == Words(N)
Indices == 0 .. InnerSize - 1
Ones == 0 .. W - 1
LastBits == IF N % W # 0 THEN 0 .. (N % W) - 1 ELSE Ones
Existing(k) == IF k = InnerSize - 1 THEN LastBits ELSE Ones

NewBits(default) == [k \in Indices |-> IF default THEN Existing(k) ELSE {}]

\* get_bit_pos and get_idx
WordOf(i) == i \div W
BitOf(i) == i % W
IdxOf(k, bit) == k * W + bit

Bit(v, i) == BitOf(i) \in v[WordOf(i)]

Assign(word, mask, val) == IF val THEN word \cup mask ELSE word \ mask

SetBit(v, i, val) == [v EXCEPT ![WordOf(i)] = Assign(@, {BitOf(i)}, val)]

\* set_range, with the first and the last bit of the range: it does nothing
\* for an empty range, and nothing for a range of one bit either.
MaskOf(k, start, end) ==
    {b \in Ones : /\ k = WordOf(start) => b >= BitOf(start)
                  /\ k = WordOf(end) => b <= BitOf(end)}
SetRange(v, start, end, val) ==
    IF end <= start
    THEN v
    ELSE [k \in Indices |-> IF k \in WordOf(start) .. WordOf(end)
                            THEN Assign(v[k], MaskOf(k, start, end), val)
                            ELSE v[k]]

Invert(v) == [k \in Indices |-> Existing(k) \ v[k]]

\* count_ones of all words together
Count(v) == Cardinality({x \in Indices \X Ones : x[2] \in v[x[1]]})

\* find_next: the lowest bit of the first word that has one from start on.
FromBit(v, k, start) ==
    IF k = WordOf(start) THEN {b \in v[k] : b >= BitOf(start)} ELSE v[k]
NoBit == -1
FindNext(v, start) ==
    LET words == {k \in Indices : k >= WordOf(start) /\ FromBit(v, k, start) # {}}
    IN IF start >= N \/ words = {}
       THEN NoBit
       ELSE IdxOf(Min(words), Min(FromBit(v, Min(words), start)))

And(v, u) == [k \in Indices |-> v[k] \cap u[k]]
Or(v, u) == [k \in Indices |-> v[k] \cup u[k]]
Minus(v, u) == [k \in Indices |-> v[k] \ u[k]]

\* resize, and with it grow and shrink, to a vector of m bits
Resize(v, m) ==
    [k \in 0 .. Words(m) - 1 |->
        IF m >= N
        THEN IF k \in Indices THEN v[k] ELSE {}
        ELSE IF k = Words(m) - 1 /\ m % W # 0 THEN v[k] \cap (0 .. (m % W) - 1) ELSE v[k]]

-----------------------------------------------------------------------------
\* The vector as the set it stands for, and back.
Elements(v) == {i \in 0 .. N - 1 : Bit(v, i)}
Vector(S) == [k \in Indices |-> {b \in Ones : IdxOf(k, b) \in S}]

\* The operations do on words what they should do on the sets, whatever the
\* number of bits in the last word; no bit beyond the last is ever one.
WordsAreSets ==
    LET All == 0 .. N - 1
        Sets == SUBSET All
        Is(v, S) == v = Vector(S)
    IN /\ Is(NewBits(TRUE), All) /\ Is(NewBits(FALSE), {})
       /\ \A S \in Sets :
            /\ Elements(Vector(S)) = S
            /\ Is(Invert(Vector(S)), All \ S)
            /\ Count(Vector(S)) = Cardinality(S)
            /\ \A i \in All :
                /\ Is(SetBit(Vector(S), i, TRUE), S \cup {i})
                /\ Is(SetBit(Vector(S), i, FALSE), S \ {i})
                /\ \A j \in i + 1 .. N - 1 :
                    /\ Is(SetRange(Vector(S), i, j, TRUE), S \cup (i .. j))
                    /\ Is(SetRange(Vector(S), i, j, FALSE), S \ (i .. j))
            /\ \A i \in 0 .. N :
                LET later == {j \in S : j >= i}
                IN FindNext(Vector(S), i) = IF later = {} THEN NoBit ELSE Min(later)
            /\ \A m \in 1 .. N + W :
                Resize(Vector(S), m) =
                    [k \in 0 .. Words(m) - 1 |-> {b \in Ones : IdxOf(k, b) \in S \cap (0 .. m - 1)}]
            /\ \A T \in Sets :
                /\ Is(And(Vector(S), Vector(T)), S \cap T)
                /\ Is(Or(Vector(S), Vector(T)), S \cup T)
                /\ Is(Minus(Vector(S), Vector(T)), S \ T)

=============================================================================
