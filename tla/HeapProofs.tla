----------------------------- MODULE HeapProofs -----------------------------
(***************************************************************************)
(* The kernel heap hands no word or frame out twice and loses none, finds  *)
(* the allocator of every pointer again, and keeps the kernel's pages in   *)
(* every address space, for any sizes of memory, pages and page tables and *)
(* any layouts.                                                            *)
(***************************************************************************)
EXTENDS Heap, FunctionTheorems, FiniteSetTheorems, WellFoundedInduction, TLAPS

\* The word after a block of the early allocator, and the pages of an
\* allocation of whole pages.
EndOf(a) == a.ptr + FullSize(a.size)
Span(a) == PagesFrom(a, NumPages(a.size))

\* get_new_alloc_type once USE_EARLY_ALLOC is off
LateType(size, align) ==
    LET n == IF size > align THEN size ELSE align
    IN IF n > Page \div 2 THEN Page ELSE Least({c \in Classes : n <= c})

Blocks(allocs) == {a \in allocs : a.ty = Early}
SlabPage(pages, p) == \E c \in Classes : p \in pages[c]
AllocPage(allocs, p) == \E a \in allocs : a.ty = Page /\ p \in Span(a)

\* The pages a call has mapped, the frames it has not, and all mapped pages.
DonePages == IF call = None THEN {} ELSE PageSpan(call.start, call.done)
Got == IF call = None THEN {} ELSE call.got
Mapped == HeapPages \cup DonePages

-----------------------------------------------------------------------------
(* The inductive invariant.  Its parts are about sets of allocations, pages *)
(* and frames, which HeapInv takes from the state.                         *)

AllocsOK(allocs) ==
    /\ allocs \subseteq Allocations
    /\ \A a \in allocs : a.size # 0 /\ \E l \in Layouts : a.align = l[2]
    /\ \A a, b \in allocs : a.ptr = b.ptr => a = b

Types ==
    /\ early \in [mark : 0 .. EarlySize, word : [0 .. EarlySize - 1 -> Int \cup {Junk}]]
    /\ useEarly \in BOOLEAN /\ booted \in BOOLEAN
    /\ free \subseteq HeapFrames /\ regions \subseteq AllPages
    /\ slabs \in [Classes -> SUBSET AllPages]
    /\ AllocsOK(live)
    /\ call \in Calls \cup {None}
    /\ newRoot \in HeapFrames \cup {None}

\* What boot has not done yet.
BootOK ==
    /\ ~booted => useEarly /\ regions = {} /\ table = BootTable
    /\ useEarly => /\ \A a \in live : a.ty = Early
                   /\ \A c \in Classes : slabs[c] = {}
                   /\ call = None /\ newRoot = None /\ spaces = {}
    /\ booted /\ panic = None => \A i \in 0 .. Slots - 1 : table[KRoot][i] # None

\* Early blocks are apart, below the mark and aligned.  The word before the end
\* of a block says how far back its start is; if it does not, because the block
\* was shrunk below another, the mark will never be at that end again.
EarlyOK(e, blocks) ==
    /\ \A a \in blocks : a.base <= a.ptr /\ EndOf(a) <= e.mark /\ a.ptr % a.align = 0
    /\ \A a, b \in blocks : a.ptr # b.ptr => EndOf(a) <= b.base \/ EndOf(b) <= a.base
    /\ \A a \in blocks :
        \/ e.word[EndOf(a) - 1] = EndOf(a) - a.base
        \/ EndOf(a) < e.mark /\ \A b \in blocks : b.base # EndOf(a)

\* The others are where their layout sends them: an object of a slab, or pages.
Placed(a, pages) ==
    /\ a.ty = LateType(a.size, a.align)
    /\ a.ptr >= EarlySize
    /\ a.ty = Page => a.ptr = Addr(PageAt(a.ptr)) /\ a.align <= Page
    /\ a.ty # Page => /\ PageAt(a.ptr) \in pages[a.ty]
                      /\ \E k \in 0 .. Page : /\ a.ptr = Addr(PageAt(a.ptr)) + k * a.ty
                                              /\ k * a.ty + a.ty <= Page

LateOK(allocs, pages) == \A a \in allocs : a.ty # Early => Placed(a, pages)

\* The call of allocate under way keeps to its region.
CallOK ==
    call # None =>
        /\ call.n > 0 /\ call.done <= call.n
        /\ Cardinality(call.got) <= call.n - call.done
        /\ call.old \subseteq live
        /\ call.layout[1] # 0 /\ \E l \in Layouts : call.layout[2] = l[2]
        /\ call.ty = LateType(call.layout[1], call.layout[2])
        /\ call.ty = Page => call.n = NumPages(call.layout[1]) /\ call.layout[2] <= Page
        /\ call.ty # Page => call.n = 1

\* No page is in two slabs, in a slab and an allocation, or in two allocations.
PagesApart(allocs, pages) ==
    /\ \A c, d \in Classes : c # d => pages[c] \cap pages[d] = {}
    /\ \A a \in allocs : a.ty = Page => \A p \in Span(a) : ~SlabPage(pages, p)
    /\ \A a, b \in allocs : a.ty = Page /\ b.ty = Page /\ a.ptr # b.ptr => Span(a) \cap Span(b) = {}

\* A page has one owner: the region allocator, the heap or the call.
PagesOwned(heap, unused, inCall) ==
    /\ heap \cap unused = {} /\ heap \cap inCall = {} /\ unused \cap inCall = {}
    /\ heap \subseteq AllPages /\ inCall \subseteq AllPages
    /\ booted => FreePages(BootTable, KRoot) = unused \cup heap \cup inCall

\* A frame has one owner: the frame allocator, a table, the root being made, a
\* mapped page or the call.
FramesOwned(mapped, t, unused, got, root) ==
    /\ \A p \in mapped :
        /\ GetPage(t, KRoot, p) \in HeapFrames
        /\ GetPage(t, KRoot, p) \notin unused \cup DOMAIN t \cup got \cup {root}
    /\ \A p, q \in mapped : GetPage(t, KRoot, p) = GetPage(t, KRoot, q) => p = q
    /\ unused \cap DOMAIN t = {} /\ unused \cap got = {} /\ got \cap DOMAIN t = {}
    /\ root \notin unused \cup got \cup DOMAIN t
    /\ DOMAIN BootTable \subseteq DOMAIN t /\ DOMAIN t \subseteq DOMAIN BootTable \cup HeapFrames
    /\ \A f \in HeapFrames :
        f \in unused \cup DOMAIN t \cup got \cup {root} \/ \E p \in mapped : GetPage(t, KRoot, p) = f

\* The tables are a tree below the kernel's root, and below every other.
TreesOK ==
    /\ IsTree(table, KRoot)
    /\ \A r \in spaces : /\ r \in DOMAIN table /\ r # KRoot
                         /\ table[r] = table[KRoot]
                         /\ \A i \in 0 .. Slots - 1 : LET m == table[KRoot][i] IN
                                m # None => m # r /\ \A j \in 0 .. Fan - 1 : table[m][j] # r

HeapInv ==
    /\ Types /\ BootOK /\ CallOK /\ TreesOK
    /\ EarlyOK(early, Blocks(live))
    /\ LateOK(live, slabs) /\ PagesApart(live, slabs)
    /\ PagesOwned(HeapPages, regions, CallPages)
    /\ FramesOwned(Mapped, table, free, Got, newRoot)
    /\ panic # "page is not mapped"

-----------------------------------------------------------------------------
(* Arithmetic                                                              *)

\* Every nonempty set of naturals has a least element.
LEMMA LeastNatural ==
    ASSUME NEW S \in SUBSET Nat, S # {}
    PROVE  \E x \in S : \A y \in S : x <= y
  <1> DEFINE R == OpToRel(<, Nat)
  <1>1. IsWellFoundedOn(R, Nat)
    BY NatLessThanWellFounded, Zenon
  <1>2. \A x, y \in Nat : <<y, x>> \in R <=> y < x
    BY DEF OpToRel
  <1> HIDE DEF R
  <1>3. \E x \in S : \A y \in S : ~(<<y, x>> \in R)
    BY <1>1, WFMin
  <1>4. PICK x \in S : \A y \in S : ~(<<y, x>> \in R)
    BY <1>3
  <1>5. \A y \in S : ~(y < x)
    BY <1>2, <1>4
  <1>6. \A y \in S : x <= y
    BY <1>5
  <1> QED  BY <1>6

\* Least and Greatest are defined by CHOOSE.
LEMMA LeastOf ==
    ASSUME NEW S \in SUBSET Nat, S # {}
    PROVE  Least(S) \in S /\ \A y \in S : Least(S) <= y
  BY LeastNatural DEF Least

\* Quotient and remainder.
LEMMA DivMod == ASSUME NEW w \in Nat \ {0}, NEW i \in Nat
  PROVE /\ i \div w \in Nat /\ i % w \in 0 .. w - 1
        /\ i = (i \div w) * w + (i % w)
  <1>1. i \div w \in Nat
    OBVIOUS
  <1>2. i % w \in 0 .. w - 1
    OBVIOUS
  <1>3. i = w * (i \div w) + (i % w)
    OBVIOUS
  <1>4. i = (i \div w) * w + (i % w)
    BY <1>3
  <1> QED BY <1>1, <1>2, <1>4

\* There is only one.
LEMMA DivModUnique == ASSUME NEW w \in Nat \ {0}, NEW q \in Nat, NEW r \in 0 .. w - 1
  PROVE (q * w + r) \div w = q /\ (q * w + r) % w = r
  OBVIOUS

\* Products of positive numbers are positive.
LEMMA Products == ASSUME NEW m \in Nat \ {0}, NEW n \in Nat \ {0} PROVE m * n \in Nat \ {0}
  OBVIOUS

\* Multiples of w are at least w apart.
LEMMA MulMono == ASSUME NEW w \in Nat, NEW p \in Nat, NEW q \in Nat, p < q
  PROVE p * w + w <= q * w
  OBVIOUS

\* A divisor divides multiples and sums.
LEMMA Multiples ==
    ASSUME NEW a \in Nat \ {0}, NEW m \in Nat, NEW n \in Nat, NEW k \in Nat,
           m % a = 0, n % a = 0
    PROVE  (m + k * n) % a = 0
  <1>1. PICK p \in Nat : m = p * a + 0
    BY DivMod
  <1>2. PICK q \in Nat : n = q * a + 0
    BY DivMod
  <1> DEFINE t == p + k * q
  <1>3. t \in Nat /\ m + k * n = t * a + 0
    BY <1>1, <1>2
  <1>4. 0 \in 0 .. a - 1
    OBVIOUS
  <1> HIDE DEF t
  <1> QED  BY <1>3, <1>4, DivModUnique

\* get_new_alloc_type and the early allocator round a start up to its alignment.
LEMMA AlignUp ==
    ASSUME NEW m \in Nat, NEW a \in Nat \ {0}
    PROVE  AlignOffset(m, a) \in 0 .. a - 1 /\ (m + AlignOffset(m, a)) % a = 0
  <1>1. PICK q \in Nat, r \in 0 .. a - 1 : m = q * a + r /\ m % a = r
    BY DivMod
  <1>2. CASE r = 0
    <2>1. a = 1 * a + 0 /\ 0 \in 0 .. a - 1
      OBVIOUS
    <2>2. a % a = 0
      BY <2>1, DivModUnique
    <2>3. AlignOffset(m, a) = 0
      BY <1>1, <1>2, <2>2 DEF AlignOffset
    <2> QED  BY <1>1, <1>2, <2>3
  <1>3. CASE r # 0
    <2> DEFINE d == a - r
    <2>1. d \in 0 .. a - 1 /\ d = 0 * a + d
      BY <1>3
    <2>2. d % a = d
      BY <2>1, DivModUnique
    <2>3. AlignOffset(m, a) = d
      BY <1>1, <2>2 DEF AlignOffset
    <2> DEFINE t == q + 1
    <2>4. m + d = t * a + 0 /\ t \in Nat /\ 0 \in 0 .. a - 1
      BY <1>1
    <2> HIDE DEF d, t
    <2>5. (t * a + 0) % a = 0
      BY <2>4, DivModUnique
    <2>6. (m + d) % a = 0
      BY <2>4, <2>5
    <2> QED  BY <2>1, <2>3, <2>6
  <1> QED  BY <1>2, <1>3

-----------------------------------------------------------------------------
(* Sizes, words and pages                                                  *)

\* The sizes of pages and classes.
LEMMA Sizes ==
    /\ Page \in Nat \ {0} /\ EarlySize \in Nat /\ Page \div 2 \in Nat /\ Page \div 2 < Page
    /\ \A c \in Classes : c \in Nat \ {0} /\ c <= Page \div 2 /\ c < Page
    /\ Page \notin Classes /\ Early \notin Classes /\ Page # Early
  <1>1. Page \in Nat /\ EarlySize \in Nat /\ Page \div 2 \in Classes
    BY HeapAssumption
  <1>2. \A c \in Classes : c \in 1 .. Page \div 2
    BY Zenon DEF Classes
  <1>3. Page \div 2 \in 1 .. Page \div 2
    BY <1>1, <1>2
  <1>4. Page \div 2 \in Nat /\ Page \div 2 < Page /\ Page # 0
    BY <1>1, <1>3
  <1> QED  BY <1>1, <1>2, <1>4 DEF Early

\* get_new_alloc_type finds a class, and it is large enough.
LEMMA LateTypes ==
    ASSUME NEW size \in Nat, NEW align \in Nat
    PROVE  /\ LateType(size, align) \in Classes \cup {Page}
           /\ LateType(size, align) # Page =>
                /\ LateType(size, align) \in Classes
                /\ size <= LateType(size, align) /\ align <= LateType(size, align)
  <1> DEFINE n == IF size > align THEN size ELSE align
             S == {c \in Classes : n <= c}
  <1>1. n \in Nat /\ size <= n /\ align <= n
    OBVIOUS
  <1>2. LateType(size, align) = IF n > Page \div 2 THEN Page ELSE Least(S)
    BY DEF LateType
  <1>3. ASSUME ~(n > Page \div 2) PROVE Least(S) \in S
    <2> DEFINE h == Page \div 2
    <2>1. h \in S
      <3>1. h \in Classes /\ h \in Nat
        BY Sizes, HeapAssumption
      <3> HIDE DEF n
      <3>2. n <= h
        BY <1>1, <1>3, <3>1
      <3> QED  BY <3>1, <3>2
    <2>2. S \in SUBSET Nat
      BY Sizes
    <2> QED  BY <2>1, <2>2, LeastOf
  <1>4. ASSUME Least(S) \in S
        PROVE  Least(S) \in Classes /\ size <= Least(S) /\ align <= Least(S)
    <2> DEFINE x == Least(S)
    <2>1. x \in Classes /\ n <= x
      BY <1>4
    <2>2. x \in Nat
      BY <2>1, Sizes
    <2> HIDE DEF x, n
    <2>3. x \in Classes /\ size <= x /\ align <= x
      BY <1>1, <2>1, <2>2
    <2> QED  BY <2>3 DEF x
  <1> HIDE DEF n, S
  <1> QED  BY <1>1, <1>2, <1>3, <1>4, Sizes

\* get_new_alloc_type depends on USE_EARLY_ALLOC and the layout.
LEMMA NewTypeIs ==
    ASSUME NEW size, NEW align
    PROVE  NewType(size, align) = IF useEarly THEN Early ELSE LateType(size, align)
  BY DEF NewType, LateType

\* The page of a word.
LEMMA WordsOfPage ==
    ASSUME NEW p \in Nat, NEW x \in 0 .. Page - 1
    PROVE  PageAt(Addr(p) + x) = p /\ Addr(p) \in Nat /\ Addr(p) >= EarlySize
  <1>1. Page \in Nat \ {0} /\ EarlySize \in Nat
    BY Sizes
  <1> DEFINE t == p * Page
  <1>2. t \in Nat
    BY <1>1
  <1>3. (t + x) \div Page = p
    BY <1>1, DivModUnique
  <1>4. Addr(p) = EarlySize + t
    BY DEF Addr
  <1> HIDE DEF t
  <1>5. (Addr(p) + x) - EarlySize = t + x
    BY <1>1, <1>2, <1>4
  <1> QED  BY <1>1, <1>2, <1>3, <1>4, <1>5 DEF PageAt

\* Every word above the early area is in a page.
LEMMA PageOfWord ==
    ASSUME NEW w \in Nat, w >= EarlySize
    PROVE  PageAt(w) \in Nat /\ \E x \in 0 .. Page - 1 : w = Addr(PageAt(w)) + x
  <1>1. Page \in Nat \ {0} /\ EarlySize \in Nat
    BY Sizes
  <1> DEFINE v == w - EarlySize
             q == v \div Page
             x == v % Page
  <1>2. v \in Nat /\ w = EarlySize + v
    BY <1>1
  <1>3. q \in Nat /\ x \in 0 .. Page - 1 /\ v = q * Page + x
    BY <1>1, <1>2, DivMod
  <1>4. PageAt(w) = q /\ Addr(q) = EarlySize + q * Page
    BY DEF PageAt, Addr
  <1> HIDE DEF v, q, x
  <1>5. w = Addr(q) + x
    BY <1>1, <1>2, <1>3, <1>4
  <1> QED  BY <1>3, <1>4, <1>5

\* The pages of an allocation hold all of its words.
LEMMA EnoughPages ==
    ASSUME NEW size \in Nat \ {0}
    PROVE  NumPages(size) \in Nat \ {0} /\ size <= NumPages(size) * Page
  <1>1. Page \in Nat \ {0}
    BY Sizes
  <1> DEFINE m == size + Page - 1
             q == m \div Page
             r == m % Page
             t == q * Page
  <1>2. m \in Nat
    BY <1>1
  <1>3. q \in Nat /\ r \in 0 .. Page - 1 /\ m = t + r
    BY <1>1, <1>2, DivMod
  <1>4. t \in Nat /\ (q = 0 => t = 0)
    BY <1>1, <1>3
  <1>5. NumPages(size) = q
    BY DEF NumPages
  <1> HIDE DEF q, r, t
  <1>6. size <= t /\ q # 0
    BY <1>1, <1>3, <1>4 DEF m
  <1> QED  BY <1>3, <1>5, <1>6 DEF t

\* A word of n pages is in one of them.
LEMMA WordsInSpan ==
    ASSUME NEW p \in Nat, NEW n \in Nat, NEW w \in Nat,
           Addr(p) <= w, w < Addr(p) + n * Page
    PROVE  PageAt(w) \in PageSpan(p, n)
  <1>1. Page \in Nat \ {0} /\ EarlySize \in Nat /\ Addr(p) \in Nat /\ Addr(p) >= EarlySize
    <2>1. 0 \in 0 .. Page - 1
      BY Sizes
    <2> QED  BY <2>1, Sizes, WordsOfPage
  <1>2. PICK x \in 0 .. Page - 1 : w = Addr(PageAt(w)) + x
    BY <1>1, PageOfWord
  <1>3. PageAt(w) \in Nat
    BY <1>1, PageOfWord
  <1> DEFINE q == PageAt(w)
             s == p + n
             P1 == p * Page
             Q1 == q * Page
             S1 == s * Page
             N1 == n * Page
  <1>4. q \in Nat /\ s \in Nat /\ P1 \in Nat /\ Q1 \in Nat /\ S1 \in Nat /\ N1 \in Nat /\ S1 = P1 + N1
    BY <1>1, <1>3
  <1>5. Addr(p) = EarlySize + P1 /\ Addr(q) = EarlySize + Q1
    BY DEF Addr
  <1>6. (q < p => Q1 + Page <= P1) /\ (s < q => S1 + Page <= Q1) /\ (s = q => S1 = Q1)
    BY <1>1, <1>4, MulMono
  <1> HIDE DEF q, s, P1, Q1, S1, N1
  <1>7. EarlySize + P1 <= EarlySize + Q1 + x /\ EarlySize + Q1 + x < EarlySize + S1
    BY <1>1, <1>2, <1>4, <1>5 DEF q, N1
  <1>8. p <= q /\ q < s
    BY <1>1, <1>4, <1>6, <1>7
  <1> QED  BY <1>4, <1>8 DEF PageSpan, q, s

-----------------------------------------------------------------------------
(* Page tables                                                             *)

\* The indices on the way to a page are in range and determine the page.
LEMMA PageIndices ==
    ASSUME NEW p \in AllPages
    PROVE  /\ p \in Nat
           /\ SlotOf(p) \in 0 .. Slots - 1 /\ MidOf(p) \in 0 .. Fan - 1 /\ LeafOf(p) \in 0 .. Fan - 1
           /\ p = (SlotOf(p) * Fan + MidOf(p)) * Fan + LeafOf(p)
  <1>1. /\ Fan \in Nat \ {0} /\ Slots \in Nat \ {0} /\ Fan * Fan \in Nat \ {0}
        /\ Slots * (Fan * Fan) \in Nat
    <2>1. Fan \in Nat \ {0} /\ Slots \in Nat \ {0}
      BY HeapAssumption
    <2>2. Fan * Fan \in Nat \ {0}
      BY <2>1, Products
    <2> QED  BY <2>1, <2>2, Products
  <1>2. p \in Nat /\ p < Slots * (Fan * Fan)
    BY <1>1 DEF AllPages, SlotPages
  <1> DEFINE m == p \div Fan
             l == p % Fan
             s == m \div Fan
             i == m % Fan
             FF == Fan * Fan
  <1>3. m \in Nat /\ l \in 0 .. Fan - 1 /\ p = m * Fan + l
    BY <1>1, <1>2, DivMod
  <1>4. s \in Nat /\ i \in 0 .. Fan - 1 /\ m = s * Fan + i
    BY <1>1, <1>3, DivMod
  <1> HIDE DEF m, l, s, i
  <1> DEFINE r == i * Fan + l
  <1>5. r \in 0 .. FF - 1
    <2>1. i + 1 <= Fan
      BY <1>1, <1>4
    <2>2. i * Fan + Fan <= FF
      <3>1. CASE i + 1 = Fan
        BY <1>1, <1>4, <3>1
      <3>2. CASE i + 1 # Fan
        <4>1. i < Fan
          BY <1>1, <1>4
        <4> QED  BY <4>1, <1>1, <1>4, MulMono
      <3> QED  BY <3>1, <3>2
    <2>3. i * Fan \in Nat
      BY <1>1, <1>4
    <2> QED  BY <1>1, <1>3, <2>2, <2>3
  <1>6. p = s * FF + r
    BY <1>1, <1>3, <1>4
  <1> HIDE DEF r
  <1>7. p \div FF = s
    BY <1>1, <1>4, <1>5, <1>6, DivModUnique
  <1>8. s < Slots
    <2>1. SUFFICES ASSUME Slots <= s PROVE FALSE
      BY <1>1, <1>4
    <2>2. Slots * FF <= s * FF
      <3>1. CASE Slots = s
        BY <3>1, <1>1, <1>4
      <3>2. CASE Slots < s
        <4>1. Slots * FF + FF <= s * FF
          BY <3>2, <1>1, <1>4, MulMono
        <4>2. s * FF \in Nat
          BY <1>1, <1>4
        <4> QED  BY <4>1, <4>2, <1>1
      <3> QED  BY <2>1, <3>1, <3>2, <1>1, <1>4
    <2>3. s * FF \in Nat
      BY <1>1, <1>4
    <2> HIDE DEF FF
    <2> QED  BY <1>1, <1>2, <1>5, <1>6, <2>2, <2>3 DEF FF
  <1>9. SlotOf(p) = s
    BY <1>7 DEF SlotOf, SlotPages
  <1>10. MidOf(p) = i /\ LeafOf(p) = l
    BY DEF MidOf, LeafOf, m, i, l
  <1> QED  BY <1>1, <1>2, <1>3, <1>4, <1>8, <1>9, <1>10

\* Two pages with the same indices are one.
LEMMA SamePage ==
    ASSUME NEW p \in AllPages, NEW q \in AllPages,
           SlotOf(p) = SlotOf(q), MidOf(p) = MidOf(q), LeafOf(p) = LeafOf(q)
    PROVE  p = q
  <1>1. p = (SlotOf(p) * Fan + MidOf(p)) * Fan + LeafOf(p)
    BY PageIndices
  <1>2. q = (SlotOf(q) * Fan + MidOf(q)) * Fan + LeafOf(q)
    BY PageIndices
  <1> QED  BY <1>1, <1>2

\* The tables of the middle level, and IsTree in terms of them.
Mids(t) == {t[KRoot][i] : i \in 0 .. Slots - 1} \ {None}

Tree(t) ==
    /\ KRoot \in DOMAIN t /\ DOMAIN t[KRoot] = 0 .. Slots - 1
    /\ \A m \in Mids(t) : m \in DOMAIN t /\ m # KRoot /\ DOMAIN t[m] = 0 .. Fan - 1
    /\ \A i, j \in 0 .. Slots - 1 : t[KRoot][i] = t[KRoot][j] => i = j \/ t[KRoot][i] = None
    /\ \A m \in Mids(t), i \in 0 .. Fan - 1 : t[m][i] # None =>
        /\ t[m][i] \in DOMAIN t /\ t[m][i] \notin Mids(t) /\ t[m][i] # KRoot
        /\ DOMAIN t[t[m][i]] = 0 .. Fan - 1
    /\ \A m, n \in Mids(t), i, j \in 0 .. Fan - 1 :
        t[m][i] = t[n][j] => (m = n /\ i = j) \/ t[m][i] = None

\* Tree is IsTree at the kernel's root.
LEMMA TreeIs ==
    ASSUME NEW t
    PROVE  IsTree(t, KRoot) <=> Tree(t)
  <1>1. ASSUME IsTree(t, KRoot) PROVE Tree(t)
    BY <1>1, Zenon DEF IsTree, Tree, Mids
  <1>2. ASSUME Tree(t) PROVE IsTree(t, KRoot)
    <2>1. ASSUME NEW m \in Mids(t), NEW i \in 0 .. Fan - 1, t[m][i] # None
          PROVE  /\ t[m][i] \in DOMAIN t \ (Mids(t) \cup {KRoot})
                 /\ DOMAIN t[t[m][i]] = 0 .. Fan - 1
                 /\ \A n \in Mids(t), j \in 0 .. Fan - 1 : t[n][j] = t[m][i] => n = m /\ j = i
      BY <1>2, <2>1 DEF Tree
    <2>2. /\ KRoot \in DOMAIN t \ Mids(t) /\ Mids(t) \subseteq DOMAIN t
          /\ DOMAIN t[KRoot] = 0 .. Slots - 1
          /\ \A m \in Mids(t) : DOMAIN t[m] = 0 .. Fan - 1
      BY <1>2 DEF Tree
    <2>3. \A i, j \in 0 .. Slots - 1 : t[KRoot][i] = t[KRoot][j] => i = j \/ t[KRoot][i] = None
      BY <1>2 DEF Tree
    <2> QED  BY <2>1, <2>2, <2>3, Zenon DEF IsTree, Mids
  <1> QED  BY <1>1, <1>2

\* An entry of the root that is used leads to a middle table.
LEMMA MidsOf ==
    ASSUME NEW t, NEW i \in 0 .. Slots - 1, t[KRoot][i] # None
    PROVE  t[KRoot][i] \in Mids(t)
  BY DEF Mids

\* A change to leaves only, or to frames that are not tables, keeps the tree.
LEMMA TreeKept ==
    ASSUME NEW t, NEW u, Tree(t),
           DOMAIN t \subseteq DOMAIN u,
           \A i \in 0 .. Slots - 1 : u[KRoot][i] = t[KRoot][i],
           \A m \in Mids(t), i \in 0 .. Fan - 1 : u[m][i] = t[m][i],
           \A g \in DOMAIN t : DOMAIN u[g] = DOMAIN t[g]
    PROVE  /\ Tree(u) /\ Mids(u) = Mids(t)
           /\ \A q \in AllPages : LeafTable(u, KRoot, q) = LeafTable(t, KRoot, q)
  <1>1. Mids(u) = Mids(t)
    BY DEF Mids
  <1>2. Tree(u)
    BY <1>1 DEF Tree
  <1>3. ASSUME NEW q \in AllPages PROVE LeafTable(u, KRoot, q) = LeafTable(t, KRoot, q)
    <2>1. SlotOf(q) \in 0 .. Slots - 1 /\ MidOf(q) \in 0 .. Fan - 1
      BY PageIndices
    <2>2. MidTable(u, KRoot, q) = MidTable(t, KRoot, q)
      BY <2>1 DEF MidTable
    <2>3. MidTable(t, KRoot, q) = None \/ MidTable(t, KRoot, q) \in Mids(t)
      BY <2>1, MidsOf DEF MidTable
    <2> QED  BY <2>1, <2>2, <2>3 DEF LeafTable
  <1> QED  BY <1>1, <1>2, <1>3

\* The table of a page's entry is a leaf, and two pages share an entry only if
\* they are one page.
LEMMA LeafOfTree ==
    ASSUME NEW t, Tree(t), NEW p \in AllPages, LeafTable(t, KRoot, p) # None
    PROVE  LET l == LeafTable(t, KRoot, p)
           IN /\ l \in DOMAIN t /\ l \notin Mids(t) /\ l # KRoot
              /\ DOMAIN t[l] = 0 .. Fan - 1
              /\ MidTable(t, KRoot, p) \in Mids(t)
              /\ l = t[MidTable(t, KRoot, p)][MidOf(p)]
              /\ \A q \in AllPages : LeafTable(t, KRoot, q) = l /\ LeafOf(q) = LeafOf(p) => q = p
  <1> DEFINE l == LeafTable(t, KRoot, p)
             m == MidTable(t, KRoot, p)
  <1>1. SlotOf(p) \in 0 .. Slots - 1 /\ MidOf(p) \in 0 .. Fan - 1
    BY PageIndices
  <1>2. m # None /\ l = t[m][MidOf(p)] /\ m = t[KRoot][SlotOf(p)]
    BY DEF LeafTable, MidTable
  <1>3. m \in Mids(t)
    BY <1>1, <1>2, MidsOf
  <1>4. l \in DOMAIN t /\ l \notin Mids(t) /\ l # KRoot /\ DOMAIN t[l] = 0 .. Fan - 1
    BY <1>1, <1>2, <1>3 DEF Tree
  <1>5. ASSUME NEW q \in AllPages, LeafTable(t, KRoot, q) = l, LeafOf(q) = LeafOf(p)
        PROVE  q = p
    <2> DEFINE k == MidTable(t, KRoot, q)
    <2>1. SlotOf(q) \in 0 .. Slots - 1 /\ MidOf(q) \in 0 .. Fan - 1
      BY PageIndices
    <2>2. k # None /\ l = t[k][MidOf(q)] /\ k = t[KRoot][SlotOf(q)]
      BY <1>5 DEF LeafTable, MidTable
    <2>3. k \in Mids(t)
      BY <2>1, <2>2, MidsOf
    <2> HIDE DEF l, m, k
    <2>4. l # None
      BY DEF l
    <2>5. k = m /\ MidOf(q) = MidOf(p)
      BY <1>1, <1>2, <1>3, <2>1, <2>2, <2>3, <2>4 DEF Tree
    <2>6. SlotOf(q) = SlotOf(p)
      BY <1>1, <1>2, <2>1, <2>2, <2>5 DEF Tree
    <2> QED  BY <1>5, <2>5, <2>6, SamePage
  <1> QED  BY <1>2, <1>3, <1>4, <1>5

\* set_page on a page whose table is there changes that page's entry.
LEMMA SetPageSets ==
    ASSUME NEW t, Tree(t), NEW p \in AllPages, LeafTable(t, KRoot, p) # None, NEW f
    PROVE  LET u == SetPage(t, KRoot, p, f)
           IN /\ Tree(u) /\ DOMAIN u = DOMAIN t /\ Mids(u) = Mids(t) /\ u[KRoot] = t[KRoot]
              /\ \A g \in DOMAIN t : g # LeafTable(t, KRoot, p) => u[g] = t[g]
              /\ \A q \in AllPages : /\ LeafTable(u, KRoot, q) = LeafTable(t, KRoot, q)
                                     /\ GetPage(u, KRoot, q) = IF q = p THEN f ELSE GetPage(t, KRoot, q)
  <1> DEFINE u == SetPage(t, KRoot, p, f)
             l == LeafTable(t, KRoot, p)
  <1>1. /\ l \in DOMAIN t /\ l \notin Mids(t) /\ l # KRoot /\ DOMAIN t[l] = 0 .. Fan - 1
        /\ \A q \in AllPages : LeafTable(t, KRoot, q) = l /\ LeafOf(q) = LeafOf(p) => q = p
    BY LeafOfTree
  <1>2. LeafOf(p) \in 0 .. Fan - 1 /\ \A q \in AllPages : LeafOf(q) \in 0 .. Fan - 1
    BY PageIndices
  <1>3. u = [t EXCEPT ![l] = [t[l] EXCEPT ![LeafOf(p)] = f]]
    BY DEF SetPage
  <1> HIDE DEF u, l
  <1>4. /\ DOMAIN u = DOMAIN t
        /\ u[l] = [t[l] EXCEPT ![LeafOf(p)] = f]
        /\ \A g \in DOMAIN t : g # l => u[g] = t[g]
    BY <1>1, <1>3
  <1>5. DOMAIN u[l] = DOMAIN t[l] /\ u[KRoot] = t[KRoot] /\ \A m \in Mids(t) : u[m] = t[m]
    BY <1>1, <1>4 DEF Tree
  <1>6. /\ Tree(u) /\ Mids(u) = Mids(t)
        /\ \A q \in AllPages : LeafTable(u, KRoot, q) = LeafTable(t, KRoot, q)
    <2>1. \A g \in DOMAIN t : DOMAIN u[g] = DOMAIN t[g]
      BY <1>4, <1>5
    <2>2. /\ \A i \in 0 .. Slots - 1 : u[KRoot][i] = t[KRoot][i]
          /\ \A m \in Mids(t), i \in 0 .. Fan - 1 : u[m][i] = t[m][i]
      BY <1>5
    <2>3. DOMAIN t \subseteq DOMAIN u
      BY <1>4
    <2> QED  BY <2>1, <2>2, <2>3, TreeKept
  <1>7. ASSUME NEW q \in AllPages
        PROVE  GetPage(u, KRoot, q) = IF q = p THEN f ELSE GetPage(t, KRoot, q)
    <2>1. LeafTable(u, KRoot, q) = LeafTable(t, KRoot, q)
      BY <1>6
    <2>2. CASE q = p
      <3>1. u[l][LeafOf(p)] = f
        BY <1>1, <1>2, <1>4
      <3>2. LeafTable(u, KRoot, q) = l /\ l # None
        BY <2>1, <2>2 DEF l
      <3> QED  BY <2>2, <3>1, <3>2 DEF GetPage
    <2>3. CASE q # p
      <3> DEFINE k == LeafTable(t, KRoot, q)
      <3>1. k = None => GetPage(u, KRoot, q) = GetPage(t, KRoot, q)
        BY <2>1 DEF GetPage
      <3>2. ASSUME k # None PROVE u[k][LeafOf(q)] = t[k][LeafOf(q)]
        <4>1. k \in DOMAIN t
          BY <3>2, LeafOfTree
        <4>2. k = l => LeafOf(q) # LeafOf(p)
          BY <1>1, <2>3
        <4> HIDE DEF k
        <4>3. CASE k = l
          BY <1>1, <1>2, <1>4, <4>2, <4>3
        <4>4. CASE k # l
          BY <1>4, <4>1, <4>4
        <4> QED  BY <4>3, <4>4
      <3> QED  BY <2>1, <2>3, <3>1, <3>2 DEF GetPage
    <2> QED  BY <2>2, <2>3
  <1> QED  BY <1>4, <1>5, <1>6, <1>7 DEF u, l

\* Unmapping pages clears their entries.
LEMMA UnmappedClears ==
    ASSUME NEW t, Tree(t), None \notin DOMAIN t, NEW ps \in SUBSET AllPages
    PROVE  LET u == Unmapped(t, KRoot, ps)
           IN /\ Tree(u) /\ DOMAIN u = DOMAIN t /\ Mids(u) = Mids(t)
              /\ \A g \in DOMAIN t : (\A q \in ps : LeafTable(t, KRoot, q) # g) =>
                    u[g] = [i \in DOMAIN t[g] |-> t[g][i]]
              /\ \A q \in AllPages :
                    GetPage(u, KRoot, q) = IF q \in ps THEN None ELSE GetPage(t, KRoot, q)
  <1> DEFINE u == Unmapped(t, KRoot, ps)
             at == {<<LeafTable(t, KRoot, p), LeafOf(p)>> : p \in ps}
  <1>1. u = [g \in DOMAIN t |-> [i \in DOMAIN t[g] |-> IF <<g, i>> \in at THEN None ELSE t[g][i]]]
    BY DEF Unmapped
  <1>2. \A g, i : <<g, i>> \in at <=> \E p \in ps : g = LeafTable(t, KRoot, p) /\ i = LeafOf(p)
    OBVIOUS
  <1> HIDE DEF u, at
  <1>3. /\ DOMAIN u = DOMAIN t
        /\ \A g \in DOMAIN t : DOMAIN u[g] = DOMAIN t[g]
        /\ \A g \in DOMAIN t : \A i \in DOMAIN t[g] :
                u[g][i] = IF <<g, i>> \in at THEN None ELSE t[g][i]
    BY <1>1
  <1>4. ASSUME NEW g \in DOMAIN t, \A q \in ps : LeafTable(t, KRoot, q) # g
        PROVE  u[g] = [i \in DOMAIN t[g] |-> t[g][i]]
    <2>1. \A i : <<g, i>> \notin at
      BY <1>2, <1>4
    <2> QED  BY <1>1, <2>1
  <1>5. \A g \in Mids(t) \cup {KRoot} : \A q \in ps : LeafTable(t, KRoot, q) # g
    <2> SUFFICES ASSUME NEW g \in Mids(t) \cup {KRoot}, NEW q \in ps, LeafTable(t, KRoot, q) = g
                 PROVE  FALSE
      OBVIOUS
    <2>1. g \in DOMAIN t
      BY DEF Tree
    <2>2. LeafTable(t, KRoot, q) # None
      BY <2>1
    <2> QED  BY <2>2, LeafOfTree
  <1>6. \A g \in Mids(t) \cup {KRoot} : g \in DOMAIN t /\ \A i \in DOMAIN t[g] : u[g][i] = t[g][i]
    <2> TAKE g \in Mids(t) \cup {KRoot}
    <2>1. g \in DOMAIN t
      BY DEF Tree
    <2>2. u[g] = [i \in DOMAIN t[g] |-> t[g][i]]
      BY <1>4, <1>5, <2>1
    <2> QED  BY <2>1, <2>2
  <1>7. /\ Tree(u) /\ Mids(u) = Mids(t)
        /\ \A q \in AllPages : LeafTable(u, KRoot, q) = LeafTable(t, KRoot, q)
    <2>1. /\ \A i \in 0 .. Slots - 1 : u[KRoot][i] = t[KRoot][i]
          /\ \A m \in Mids(t), i \in 0 .. Fan - 1 : u[m][i] = t[m][i]
      BY <1>6 DEF Tree
    <2> QED  BY <1>3, <2>1, TreeKept
  <1>8. ASSUME NEW q \in AllPages
        PROVE  GetPage(u, KRoot, q) = IF q \in ps THEN None ELSE GetPage(t, KRoot, q)
    <2> DEFINE k == LeafTable(t, KRoot, q)
    <2>1. LeafTable(u, KRoot, q) = k
      BY <1>7
    <2>2. CASE k = None
      BY <2>1, <2>2 DEF GetPage
    <2>3. CASE k # None
      <3>1. /\ k \in DOMAIN t /\ DOMAIN t[k] = 0 .. Fan - 1
            /\ \A p \in AllPages : LeafTable(t, KRoot, p) = k /\ LeafOf(p) = LeafOf(q) => p = q
        BY <2>3, LeafOfTree
      <3>2. LeafOf(q) \in 0 .. Fan - 1
        BY PageIndices
      <3>3. <<k, LeafOf(q)>> \in at <=> q \in ps
        BY <1>2, <3>1
      <3>4. u[k][LeafOf(q)] = IF q \in ps THEN None ELSE t[k][LeafOf(q)]
        BY <1>3, <3>1, <3>2, <3>3
      <3> QED  BY <2>1, <2>3, <3>4 DEF GetPage
    <2> QED  BY <2>2, <2>3
  <1> QED  BY <1>3, <1>4, <1>7, <1>8 DEF u

\* A leaf that is missing is made of a frame that is no table yet.
LEMMA NewLeaf ==
    ASSUME NEW t, Tree(t), NEW p \in AllPages, NEW f,
           MidTable(t, KRoot, p) # None, LeafTable(t, KRoot, p) = None,
           f \notin DOMAIN t, f # None
    PROVE  LET u == WithTables(t, KRoot, p, <<f>>)
           IN /\ Tree(u) /\ DOMAIN u = DOMAIN t \cup {f} /\ Mids(u) = Mids(t) /\ u[KRoot] = t[KRoot]
              /\ \A g \in DOMAIN t : g \notin Mids(t) => u[g] = t[g]
              /\ \A m \in Mids(t), j \in 0 .. Fan - 1 : u[m][j] = t[m][j] \/ u[m][j] = f
              /\ LeafTable(u, KRoot, p) = f
              /\ \A q \in AllPages : GetPage(u, KRoot, q) = GetPage(t, KRoot, q)
  <1> DEFINE u == WithTables(t, KRoot, p, <<f>>)
             k == MidTable(t, KRoot, p)
             e == MidOf(p)
  <1>1. SlotOf(p) \in 0 .. Slots - 1 /\ e \in 0 .. Fan - 1
    BY PageIndices
  <1>2. k \in Mids(t) /\ k = t[KRoot][SlotOf(p)] /\ t[k][e] = None
    BY <1>1, MidsOf DEF MidTable, LeafTable
  <1>3. k \in DOMAIN t /\ DOMAIN t[k] = 0 .. Fan - 1 /\ k # KRoot /\ k # f
    BY <1>2 DEF Tree
  <1>4. u = [NewTable(t, f) EXCEPT ![k][e] = f]
    <2>1. WithMid(t, KRoot, p, <<f>>) = t
      BY DEF WithMid
    <2>2. <<f>>[Len(<<f>>)] = f
      OBVIOUS
    <2> QED  BY <2>1, <2>2 DEF WithTables
  <1>5. /\ DOMAIN u = DOMAIN t \cup {f} /\ u[f] = EmptyTable
        /\ u[k] = [t[k] EXCEPT ![e] = f]
        /\ \A g \in DOMAIN t : g # k => u[g] = t[g]
    <2> DEFINE v == NewTable(t, f)
    <2>1. /\ DOMAIN v = DOMAIN t \cup {f} /\ v[f] = EmptyTable
          /\ \A g \in DOMAIN t : v[g] = t[g]
      BY DEF NewTable
    <2> HIDE DEF v
    <2>2. u = [v EXCEPT ![k] = [v[k] EXCEPT ![e] = f]]
      BY <1>4 DEF v
    <2> HIDE DEF u, k
    <2> QED  BY <1>3, <2>1, <2>2
  <1> HIDE DEF u, k
  <1>6. /\ u[k][e] = f /\ DOMAIN u[k] = 0 .. Fan - 1
        /\ \A j \in 0 .. Fan - 1 : j # e => u[k][j] = t[k][j]
    BY <1>1, <1>3, <1>5
  <1>7. u[KRoot] = t[KRoot] /\ Mids(u) = Mids(t)
    <2>1. u[KRoot] = t[KRoot]
      BY <1>3, <1>5 DEF Tree
    <2> QED  BY <2>1 DEF Mids
  <1>8. DOMAIN EmptyTable = 0 .. Fan - 1 /\ \A i \in 0 .. Fan - 1 : EmptyTable[i] = None
    BY DEF EmptyTable
  <1>9. \A m \in Mids(t), j \in 0 .. Fan - 1 :
            /\ m \in DOMAIN t /\ m # f
            /\ u[m][j] = IF m = k /\ j = e THEN f ELSE t[m][j]
    BY <1>5, <1>6 DEF Tree
  <1>10. \A m \in Mids(t) : DOMAIN u[m] = 0 .. Fan - 1
    BY <1>5, <1>6 DEF Tree
  <1>11. Tree(u)
    <2>1. KRoot \in DOMAIN u /\ DOMAIN u[KRoot] = 0 .. Slots - 1
      BY <1>5, <1>7 DEF Tree
    <2>2. \A m \in Mids(u) : m \in DOMAIN u /\ m # KRoot /\ DOMAIN u[m] = 0 .. Fan - 1
      BY <1>5, <1>7, <1>10 DEF Tree
    <2>3. \A i, j \in 0 .. Slots - 1 : u[KRoot][i] = u[KRoot][j] => i = j \/ u[KRoot][i] = None
      BY <1>7 DEF Tree
    <2>4. ASSUME NEW m \in Mids(u), NEW i \in 0 .. Fan - 1, u[m][i] # None
          PROVE  /\ u[m][i] \in DOMAIN u /\ u[m][i] \notin Mids(u) /\ u[m][i] # KRoot
                 /\ DOMAIN u[u[m][i]] = 0 .. Fan - 1
      <3>1. CASE m = k /\ i = e
        <4>1. u[m][i] = f
          BY <1>6, <3>1
        <4>2. f \notin Mids(u) /\ f # KRoot
          BY <1>7 DEF Tree
        <4> QED  BY <1>5, <1>8, <4>1, <4>2
      <3>2. CASE ~(m = k /\ i = e)
        <4>1. u[m][i] = t[m][i] /\ m \in Mids(t)
          BY <1>7, <1>9, <3>2
        <4> DEFINE l == t[m][i]
        <4>2. l \in DOMAIN t /\ l \notin Mids(t) /\ l # KRoot /\ DOMAIN t[l] = 0 .. Fan - 1
          BY <2>4, <4>1 DEF Tree
        <4>3. l # k
          BY <1>2, <4>2
        <4> HIDE DEF l
        <4>4. u[l] = t[l]
          BY <1>5, <4>2, <4>3
        <4> QED  BY <1>5, <1>7, <4>1, <4>2, <4>4 DEF l
      <3> QED  BY <3>1, <3>2
    <2>5. ASSUME NEW m \in Mids(u), NEW n \in Mids(u), NEW i \in 0 .. Fan - 1, NEW j \in 0 .. Fan - 1,
                 u[m][i] = u[n][j], u[m][i] # None
          PROVE  m = n /\ i = j
      <3>1. \A mm \in Mids(t), ii \in 0 .. Fan - 1 : t[mm][ii] # f
        BY DEF Tree
      <3>2. m \in Mids(t) /\ n \in Mids(t)
        BY <1>7
      <3>3. /\ u[m][i] = IF m = k /\ i = e THEN f ELSE t[m][i]
            /\ u[n][j] = IF n = k /\ j = e THEN f ELSE t[n][j]
        BY <1>9, <3>2
      <3>4. t[m][i] # f /\ t[n][j] # f
        BY <3>1, <3>2
      <3>5. CASE u[m][i] = f
        BY <2>5, <3>3, <3>4, <3>5
      <3>6. CASE u[m][i] # f
        <4>1. u[m][i] = t[m][i] /\ u[n][j] = t[n][j]
          BY <2>5, <3>3, <3>6
        <4>2. t[m][i] = t[n][j] /\ t[m][i] # None
          BY <2>5, <4>1
        <4>3. \A m1, n1 \in Mids(t), i1, j1 \in 0 .. Fan - 1 :
                t[m1][i1] = t[n1][j1] => (m1 = n1 /\ i1 = j1) \/ t[m1][i1] = None
          BY DEF Tree
        <4> QED  BY <3>2, <4>2, <4>3
      <3> QED  BY <3>5, <3>6
    <2> QED  BY <2>1, <2>2, <2>3, <2>4, <2>5 DEF Tree
  <1>12. ASSUME NEW q \in AllPages
         PROVE  GetPage(u, KRoot, q) = GetPage(t, KRoot, q)
    <2> DEFINE m == MidTable(t, KRoot, q)
    <2>1. SlotOf(q) \in 0 .. Slots - 1 /\ MidOf(q) \in 0 .. Fan - 1 /\ LeafOf(q) \in 0 .. Fan - 1
      BY PageIndices
    <2>2. MidTable(u, KRoot, q) = m
      BY <1>7 DEF MidTable
    <2>3. m = None => GetPage(u, KRoot, q) = GetPage(t, KRoot, q)
      BY <2>2 DEF GetPage, LeafTable
    <2>4. ASSUME m # None PROVE GetPage(u, KRoot, q) = GetPage(t, KRoot, q)
      <3>1. m \in Mids(t)
        BY <2>1, <2>4, MidsOf DEF MidTable
      <3>2. /\ LeafTable(u, KRoot, q) = u[m][MidOf(q)]
            /\ LeafTable(t, KRoot, q) = t[m][MidOf(q)]
        BY <2>2, <2>4 DEF LeafTable
      <3> HIDE DEF m
      <3>3. CASE m = k /\ MidOf(q) = e
        <4>1. LeafTable(u, KRoot, q) = f /\ LeafTable(t, KRoot, q) = None
          BY <1>2, <1>6, <3>2, <3>3
        <4> QED  BY <1>5, <1>8, <2>1, <4>1 DEF GetPage
      <3>4. CASE ~(m = k /\ MidOf(q) = e)
        <4> DEFINE l == t[m][MidOf(q)]
        <4>1. LeafTable(u, KRoot, q) = l /\ LeafTable(t, KRoot, q) = l
          BY <1>9, <2>1, <3>1, <3>2, <3>4
        <4>2. l # None => l \in DOMAIN t /\ l # k
          BY <1>2, <2>1, <3>1 DEF Tree
        <4> HIDE DEF l
        <4>3. l # None => u[l] = t[l]
          BY <1>5, <4>2
        <4> QED  BY <4>1, <4>3 DEF GetPage
      <3> QED  BY <3>3, <3>4
    <2> QED  BY <2>3, <2>4
  <1>13. LeafTable(u, KRoot, p) = f
    <2>1. MidTable(u, KRoot, p) = k
      BY <1>7 DEF MidTable, k
    <2> QED  BY <1>2, <1>6, <2>1 DEF LeafTable, k
  <1>14. \A g \in DOMAIN t : g \notin Mids(t) => u[g] = t[g]
    BY <1>2, <1>5
  <1>15. \A m \in Mids(t), j \in 0 .. Fan - 1 : u[m][j] = t[m][j] \/ u[m][j] = f
    BY <1>9
  <1> QED  BY <1>5, <1>7, <1>11, <1>12, <1>13, <1>14, <1>15 DEF u

\* Tables that are added but not linked change nothing.
LEMMA TableAdded ==
    ASSUME NEW t, NEW u, Tree(t), DOMAIN t \subseteq DOMAIN u,
           \A g \in DOMAIN t : u[g] = t[g]
    PROVE  /\ Tree(u) /\ Mids(u) = Mids(t)
           /\ \A q \in AllPages : GetPage(u, KRoot, q) = GetPage(t, KRoot, q)
  <1>1. /\ \A i \in 0 .. Slots - 1 : u[KRoot][i] = t[KRoot][i]
        /\ \A m \in Mids(t), i \in 0 .. Fan - 1 : u[m][i] = t[m][i]
        /\ \A g \in DOMAIN t : DOMAIN u[g] = DOMAIN t[g]
    BY DEF Tree
  <1>2. /\ Tree(u) /\ Mids(u) = Mids(t)
        /\ \A q \in AllPages : LeafTable(u, KRoot, q) = LeafTable(t, KRoot, q)
    BY <1>1, TreeKept
  <1>3. ASSUME NEW q \in AllPages PROVE GetPage(u, KRoot, q) = GetPage(t, KRoot, q)
    <2>1. LeafTable(t, KRoot, q) # None => LeafTable(t, KRoot, q) \in DOMAIN t
      BY LeafOfTree
    <2> QED  BY <1>2, <2>1 DEF GetPage
  <1> QED  BY <1>2, <1>3

\* The root tables S of other address spaces are copies of the kernel's.
Roots(t, S) ==
    \A r \in S : /\ r \in DOMAIN t /\ r # KRoot /\ t[r] = t[KRoot]
                 /\ r \notin Mids(t) /\ \A m \in Mids(t), j \in 0 .. Fan - 1 : t[m][j] # r

\* A table that no entry leads to, said of entries and of tables.
LEMMA RootIs ==
    ASSUME NEW t, NEW r
    PROVE  (\A i \in 0 .. Slots - 1 : LET m == t[KRoot][i] IN
                m # None => m # r /\ \A j \in 0 .. Fan - 1 : t[m][j] # r)
           <=> r \notin Mids(t) /\ \A m \in Mids(t), j \in 0 .. Fan - 1 : t[m][j] # r
  BY Zenon DEF Mids

\* TreesOK in these terms.
LEMMA TreesAre ==
    /\ TreesOK <=> Tree(table) /\ Roots(table, spaces)
    /\ TreesOK' <=> Tree(table') /\ Roots(table', spaces')
  <1>1. TreesOK <=> Tree(table) /\ Roots(table, spaces)
    BY TreeIs, RootIs, Zenon DEF TreesOK, Roots
  <1>2. TreesOK' <=> Tree(table') /\ Roots(table', spaces')
    BY TreeIs, RootIs, Zenon DEF TreesOK, Roots
  <1> QED  BY <1>1, <1>2

\* What unmaps pages or fills entries of leaves keeps the roots copies.
LEMMA RootsKept ==
    ASSUME NEW t, NEW u, NEW S, Tree(t), Roots(t, S),
           DOMAIN t \subseteq DOMAIN u, Mids(u) = Mids(t),
           \A r \in S : u[r] = u[KRoot],
           \A m \in Mids(t), j \in 0 .. Fan - 1 : u[m][j] = t[m][j] \/ u[m][j] \notin S
    PROVE  Roots(u, S)
  <1> SUFFICES ASSUME NEW r \in S
               PROVE  /\ r \in DOMAIN u /\ r # KRoot /\ u[r] = u[KRoot] /\ r \notin Mids(u)
                      /\ \A m \in Mids(u), j \in 0 .. Fan - 1 : u[m][j] # r
    BY DEF Roots
  <1>1. r \in DOMAIN t /\ r # KRoot /\ r \notin Mids(t) /\ \A m \in Mids(t), j \in 0 .. Fan - 1 : t[m][j] # r
    BY DEF Roots
  <1>2. \A m \in Mids(t), j \in 0 .. Fan - 1 : u[m][j] # r
    BY <1>1
  <1> QED  BY <1>1, <1>2

\* The frames D, listed in fs, are what the leaf table of p needs: one or none.
LeafFrames(t, p, fs, D) ==
    \/ LeafTable(t, KRoot, p) # None /\ D = {}
    \/ \E g : /\ LeafTable(t, KRoot, p) = None /\ g \notin DOMAIN t /\ g # None
              /\ fs = <<g>> /\ D = {g}

\* The whole of set_page_kernel, once the root is filled.
MapsPage(t, S, p, f, fs, D, u) ==
    /\ Tree(t) /\ Roots(t, S) /\ p \in AllPages /\ None \notin DOMAIN t
    /\ t[KRoot][SlotOf(p)] # None /\ LeafFrames(t, p, fs, D)
    /\ u = SetPage(WithTables(t, KRoot, p, fs), KRoot, p, f)

HasPage(t, S, p, f, D, u) ==
    /\ Tree(u) /\ Roots(u, S) /\ DOMAIN u = DOMAIN t \cup D /\ u[KRoot] = t[KRoot]
    /\ \A q \in AllPages :
            GetPage(u, KRoot, q) = IF q = p THEN f ELSE GetPage(t, KRoot, q)

\* It changes the entry of that page and adds at most one table.
LEMMA PageMapped ==
    ASSUME NEW t, NEW S, NEW p, NEW f, NEW fs, NEW D, NEW u, MapsPage(t, S, p, f, fs, D, u)
    PROVE  HasPage(t, S, p, f, D, u)
  <1> USE DEF MapsPage
  <1> DEFINE v == WithTables(t, KRoot, p, fs)
  <1>1. /\ Tree(v) /\ Roots(v, S) /\ DOMAIN v = DOMAIN t \cup D /\ v[KRoot] = t[KRoot]
        /\ LeafTable(v, KRoot, p) # None
        /\ \A q \in AllPages : GetPage(v, KRoot, q) = GetPage(t, KRoot, q)
    <2>0. MidTable(t, KRoot, p) # None
      BY DEF MidTable
    <2>1. CASE LeafTable(t, KRoot, p) # None /\ D = {}
      <3>1. WithMid(t, KRoot, p, fs) = t
        BY <2>0 DEF WithMid
      <3>2. v = t
        BY <2>1, <3>1 DEF WithTables
      <3> QED  BY <2>1, <3>2
    <2>2. CASE \E g : /\ LeafTable(t, KRoot, p) = None /\ g \notin DOMAIN t /\ g # None
                      /\ fs = <<g>> /\ D = {g}
      <3>1. PICK g : /\ LeafTable(t, KRoot, p) = None /\ g \notin DOMAIN t /\ g # None
                     /\ fs = <<g>> /\ D = {g}
        BY <2>2
      <3> HIDE DEF v
      <3>2. /\ Tree(v) /\ DOMAIN v = DOMAIN t \cup {g} /\ Mids(v) = Mids(t) /\ v[KRoot] = t[KRoot]
            /\ \A h \in DOMAIN t : h \notin Mids(t) => v[h] = t[h]
            /\ \A m \in Mids(t), j \in 0 .. Fan - 1 : v[m][j] = t[m][j] \/ v[m][j] = g
            /\ LeafTable(v, KRoot, p) = g
            /\ \A q \in AllPages : GetPage(v, KRoot, q) = GetPage(t, KRoot, q)
        BY <2>0, <3>1, NewLeaf DEF v
      <3>3. \A r \in S : v[r] = v[KRoot] /\ r # g
        BY <3>1, <3>2 DEF Roots
      <3>4. \A m \in Mids(t), j \in 0 .. Fan - 1 : v[m][j] = t[m][j] \/ v[m][j] \notin S
        BY <3>2, <3>3
      <3>5. Roots(v, S)
        BY <3>2, <3>3, <3>4, RootsKept
      <3> QED  BY <3>1, <3>2, <3>5
    <2> QED  BY <2>1, <2>2 DEF LeafFrames
  <1> HIDE DEF v
  <1> DEFINE l == LeafTable(v, KRoot, p)
  <1>0. u = SetPage(v, KRoot, p, f)
    BY DEF MapsPage, v
  <1>2. /\ Tree(u) /\ DOMAIN u = DOMAIN v /\ Mids(u) = Mids(v) /\ u[KRoot] = v[KRoot]
        /\ \A g \in DOMAIN v : g # l => u[g] = v[g]
        /\ \A q \in AllPages : GetPage(u, KRoot, q) = IF q = p THEN f ELSE GetPage(v, KRoot, q)
    BY <1>0, <1>1, SetPageSets
  <1>3. /\ l \in DOMAIN v /\ l \notin Mids(v) /\ l # KRoot
        /\ MidTable(v, KRoot, p) \in Mids(v) /\ l = v[MidTable(v, KRoot, p)][MidOf(p)]
    BY <1>1, LeafOfTree
  <1>4. MidOf(p) \in 0 .. Fan - 1
    BY PageIndices
  <1> HIDE DEF l
  <1>5. \A r \in S : r # l /\ r \in DOMAIN v /\ v[r] = v[KRoot]
    BY <1>1, <1>3, <1>4 DEF Roots
  <1>6. \A r \in S : u[r] = u[KRoot]
    BY <1>2, <1>5
  <1>7. \A m \in Mids(v), j \in 0 .. Fan - 1 : u[m][j] = v[m][j]
    <2>1. \A m \in Mids(v) : m \in DOMAIN v /\ m # l
      BY <1>1, <1>3 DEF Tree
    <2> QED  BY <1>2, <2>1
  <1>8. Roots(u, S)
    <2>1. DOMAIN v \subseteq DOMAIN u
      BY <1>2
    <2>2. \A m \in Mids(v), j \in 0 .. Fan - 1 : u[m][j] = v[m][j] \/ u[m][j] \notin S
      BY <1>7
    <2> QED  BY <1>1, <1>2, <1>6, <2>1, <2>2, RootsKept
  <1> QED  BY <1>1, <1>2, <1>8 DEF HasPage

\* Unmapping, with the other roots.
LEMMA PagesUnmapped ==
    ASSUME NEW t, NEW S, Tree(t), Roots(t, S), None \notin DOMAIN t, NEW ps \in SUBSET AllPages
    PROVE  LET u == Unmapped(t, KRoot, ps)
           IN /\ Tree(u) /\ Roots(u, S) /\ DOMAIN u = DOMAIN t
              /\ \A i \in 0 .. Slots - 1 : u[KRoot][i] = t[KRoot][i]
              /\ \A q \in AllPages :
                    GetPage(u, KRoot, q) = IF q \in ps THEN None ELSE GetPage(t, KRoot, q)
  <1> DEFINE u == Unmapped(t, KRoot, ps)
  <1>1. /\ Tree(u) /\ DOMAIN u = DOMAIN t /\ Mids(u) = Mids(t)
        /\ \A g \in DOMAIN t : (\A q \in ps : LeafTable(t, KRoot, q) # g) =>
                u[g] = [i \in DOMAIN t[g] |-> t[g][i]]
        /\ \A q \in AllPages : GetPage(u, KRoot, q) = IF q \in ps THEN None ELSE GetPage(t, KRoot, q)
    BY UnmappedClears
  <1> HIDE DEF u
  <1>2. \A q \in ps : LeafTable(t, KRoot, q) # None =>
            /\ LeafTable(t, KRoot, q) \notin Mids(t) /\ LeafTable(t, KRoot, q) # KRoot
            /\ \A r \in S : LeafTable(t, KRoot, q) # r
    <2> SUFFICES ASSUME NEW q \in ps, LeafTable(t, KRoot, q) # None
                 PROVE  /\ LeafTable(t, KRoot, q) \notin Mids(t) /\ LeafTable(t, KRoot, q) # KRoot
                        /\ \A r \in S : LeafTable(t, KRoot, q) # r
      OBVIOUS
    <2>1. /\ LeafTable(t, KRoot, q) \notin Mids(t) /\ LeafTable(t, KRoot, q) # KRoot
          /\ MidTable(t, KRoot, q) \in Mids(t)
          /\ LeafTable(t, KRoot, q) = t[MidTable(t, KRoot, q)][MidOf(q)]
      BY LeafOfTree
    <2>2. MidOf(q) \in 0 .. Fan - 1
      BY PageIndices
    <2> QED  BY <2>1, <2>2 DEF Roots
  <1>3. \A g \in Mids(t) \cup {KRoot} \cup S :
            g \in DOMAIN t /\ u[g] = [i \in DOMAIN t[g] |-> t[g][i]]
    <2> SUFFICES ASSUME NEW g \in Mids(t) \cup {KRoot} \cup S
                 PROVE  g \in DOMAIN t /\ u[g] = [i \in DOMAIN t[g] |-> t[g][i]]
      OBVIOUS
    <2>1. g \in DOMAIN t
      BY DEF Tree, Roots
    <2>2. \A q \in ps : LeafTable(t, KRoot, q) # g
      BY <1>2, <2>1
    <2> QED  BY <1>1, <2>1, <2>2
  <1>4. \A i \in 0 .. Slots - 1 : u[KRoot][i] = t[KRoot][i]
    <2>1. DOMAIN t[KRoot] = 0 .. Slots - 1
      BY DEF Tree
    <2> QED  BY <1>3, <2>1
  <1>5. \A r \in S : u[r] = u[KRoot]
    BY <1>3 DEF Roots
  <1>6. \A m \in Mids(t), j \in 0 .. Fan - 1 : u[m][j] = t[m][j] \/ u[m][j] \notin S
    <2>1. \A m \in Mids(t) : DOMAIN t[m] = 0 .. Fan - 1
      BY DEF Tree
    <2> QED  BY <1>3, <2>1
  <1>7. Roots(u, S)
    <2>1. DOMAIN t \subseteq DOMAIN u
      BY <1>1
    <2> QED  BY <1>1, <1>5, <1>6, <2>1, RootsKept
  <1> QED  BY <1>1, <1>4, <1>7 DEF u

-----------------------------------------------------------------------------
(* The frames that are handed out                                          *)

Rank(S, x) == Cardinality({y \in S : y < x})

\* Ranks number the elements of a finite set of naturals.
LEMMA Ranks ==
    ASSUME NEW S \in SUBSET Nat, IsFiniteSet(S)
    PROVE  /\ \A x \in S : Rank(S, x) \in 0 .. Cardinality(S) - 1
           /\ \A x, y \in S : Rank(S, x) = Rank(S, y) => x = y
           /\ \A k \in 0 .. Cardinality(S) - 1 : \E x \in S : Rank(S, x) = k
  <1> DEFINE Below(x) == {y \in S : y < x}
             n == Cardinality(S)
             R == [x \in S |-> Rank(S, x)]
  <1>1. n \in Nat
    BY FS_CardinalityType
  <1>2. \A x \in S : IsFiniteSet(Below(x)) /\ Cardinality(Below(x)) \in Nat
    <2> TAKE x \in S
    <2>1. Below(x) \in SUBSET S
      OBVIOUS
    <2> HIDE DEF Below
    <2> QED  BY <2>1, FS_Subset, FS_CardinalityType
  <1>3. \A x \in S : Rank(S, x) = Cardinality(Below(x))
    BY DEF Rank
  <1>4. ASSUME NEW x \in S PROVE Rank(S, x) \in 0 .. n - 1
    <2>1. Below(x) \in SUBSET S /\ x \notin Below(x)
      OBVIOUS
    <2> HIDE DEF Below
    <2>2. Cardinality(Below(x)) <= n /\ (n = Cardinality(Below(x)) => S = Below(x))
      BY <2>1, FS_Subset
    <2>3. S # Below(x)
      BY <2>1
    <2> HIDE DEF n
    <2> QED  BY <1>1, <1>2, <1>3, <2>2, <2>3
  <1>5. ASSUME NEW x \in S, NEW y \in S, x < y PROVE Rank(S, x) < Rank(S, y)
    <2>0. x \in Nat /\ y \in Nat
      OBVIOUS
    <2>1. Below(x) \in SUBSET Below(y) /\ x \notin Below(x) /\ x \in Below(y)
      <3>1. \A z \in S : z < x => z < y
        BY <1>5, <2>0
      <3>2. \A z \in S : z \in Below(x) => z \in Below(y)
        BY <3>1
      <3>3. Below(x) \subseteq S
        OBVIOUS
      <3>4. ~(x < x)
        BY <2>0
      <3>5. x \notin Below(x) /\ x \in Below(y)
        BY <1>5, <3>4
      <3> HIDE DEF Below
      <3> QED  BY <3>2, <3>3, <3>5
    <2> HIDE DEF Below
    <2>2. /\ Cardinality(Below(x)) <= Cardinality(Below(y))
          /\ Cardinality(Below(y)) = Cardinality(Below(x)) => Below(y) = Below(x)
      BY <1>2, <2>1, FS_Subset
    <2>3. Below(y) # Below(x)
      BY <2>1
    <2> QED  BY <1>2, <1>3, <2>2, <2>3
  <1>6. ASSUME NEW x \in S, NEW y \in S, Rank(S, x) = Rank(S, y) PROVE x = y
    <2>1. Rank(S, x) \in Nat /\ Rank(S, y) \in Nat
      BY <1>2, <1>3
    <2>2. ~(x < y) /\ ~(y < x)
      BY <1>5, <1>6, <2>1
    <2>3. x \in Nat /\ y \in Nat
      OBVIOUS
    <2> QED  BY <2>2, <2>3
  <1>7. ASSUME NEW k \in 0 .. n - 1 PROVE \E x \in S : Rank(S, x) = k
    <2>1. R \in Injection(S, 0 .. n - 1)
      BY <1>4, <1>6 DEF Injection, IsInjective
    <2>2. IsFiniteSet(0 .. n - 1) /\ Cardinality(0 .. n - 1) = n
      BY <1>1, FS_Interval
    <2> DEFINE K == 0 .. n - 1
    <2>3. R \in Injection(S, K) /\ IsFiniteSet(K) /\ Cardinality(K) = Cardinality(S)
      BY <2>1, <2>2
    <2> HIDE DEF K, R, n
    <2>4. R \in Surjection(S, K)
      BY <2>3, FS_Injection
    <2>5. \E x \in S : R[x] = k
      BY <2>4 DEF Surjection, K
    <2> QED  BY <2>5 DEF R
  <1> QED  BY <1>4, <1>6, <1>7

\* alloc_many gives as many frames as it is asked for, or all there are.
LEMMA FirstFramesCount ==
    ASSUME NEW n \in Nat, free \in SUBSET Nat, IsFiniteSet(free)
    PROVE  /\ FirstFrames(n) \in SUBSET free /\ IsFiniteSet(FirstFrames(n))
           /\ Cardinality(FirstFrames(n)) \in Nat /\ Cardinality(FirstFrames(n)) <= n
           /\ n <= Cardinality(free) => Cardinality(FirstFrames(n)) = n
  <1> DEFINE F == FirstFrames(n)
             K == 0 .. n - 1
             R == [x \in F |-> Rank(free, x)]
  <1>1. F = {x \in free : Rank(free, x) < n}
    BY DEF FirstFrames, Rank
  <1>2. F \in SUBSET free
    BY <1>1
  <1> HIDE DEF F
  <1>3. IsFiniteSet(F) /\ Cardinality(F) \in Nat
    BY <1>2, FS_Subset, FS_CardinalityType
  <1>4. IsFiniteSet(K) /\ Cardinality(K) = n
    BY FS_Interval
  <1>5. \A x \in F : Rank(free, x) \in K
    <2>1. Cardinality(free) \in Nat
      BY FS_CardinalityType
    <2>2. \A x \in free : Rank(free, x) \in 0 .. Cardinality(free) - 1
      BY Ranks
    <2> QED  BY <1>1, <2>1, <2>2
  <1>6. R \in Injection(F, K)
    <2>1. \A x, y \in F : Rank(free, x) = Rank(free, y) => x = y
      BY <1>2, Ranks
    <2> QED  BY <1>5, <2>1 DEF Injection, IsInjective
  <1>7. Cardinality(F) <= n
    <2> HIDE DEF K, R
    <2>1. Cardinality(F) <= Cardinality(K)
      BY <1>4, <1>6, FS_Injection
    <2> QED  BY <1>4, <2>1
  <1>8. ASSUME n <= Cardinality(free) PROVE Cardinality(F) = n
    <2>1. \A k \in K : \E x \in F : Rank(free, x) = k
      <3> TAKE k \in K
      <3>1. Cardinality(free) \in Nat
        BY FS_CardinalityType
      <3>2. k \in 0 .. Cardinality(free) - 1 /\ k < n
        BY <1>8, <3>1
      <3>3. PICK x \in free : Rank(free, x) = k
        BY <3>2, Ranks
      <3> QED  BY <1>1, <3>2, <3>3
    <2>2. R \in Surjection(F, K)
      BY <1>5, <2>1 DEF Surjection
    <2> HIDE DEF K, R
    <2>3. Cardinality(F) = Cardinality(K)
      BY <1>4, <1>6, <2>2, FS_Injection
    <2> QED  BY <1>4, <2>3
  <1> QED  BY <1>2, <1>3, <1>7, <1>8 DEF F

\* Every set of naturals that is bounded has a greatest element.
LEMMA GreatestNatural ==
    ASSUME NEW S \in SUBSET Nat, S # {}, NEW b \in Nat, \A x \in S : x <= b
    PROVE  \E x \in S : \A y \in S : y <= x
  <1> DEFINE T == {b - x : x \in S}
  <1>1. T \in SUBSET Nat /\ T # {}
    <2>1. \A x \in S : b - x \in Nat
      OBVIOUS
    <2> QED  BY <2>1
  <1>2. PICK z \in T : \A y \in T : z <= y
    BY <1>1, LeastNatural
  <1>3. PICK x \in S : z = b - x
    BY <1>2
  <1>4. ASSUME NEW y \in S PROVE y <= x
    <2>1. b - y \in T
      OBVIOUS
    <2>2. b - x <= b - y
      BY <1>2, <1>3, <2>1
    <2> QED  BY <2>2
  <1> QED  BY <1>4

\* The region a request gets is made of free pages.
LEMMA RegionFound ==
    ASSUME NEW n \in Nat, regions \in SUBSET AllPages, RunsOf(n) # {}
    PROVE  RegionStart(n) \in Nat /\ PageSpan(RegionStart(n), n) \subseteq regions
  <1> DEFINE last == Slots * SlotPages - 1
             Good(p) == /\ p - 1 \notin regions
                        /\ \A q \in RunsOf(n) : q > p => PageSpan(p, q - p) \subseteq regions
  <1>1. regions \in SUBSET Nat /\ Slots * SlotPages \in Nat \ {0}
    <2>1. Fan \in Nat \ {0} /\ Slots \in Nat \ {0}
      BY HeapAssumption
    <2>2. Fan * Fan \in Nat \ {0}
      BY <2>1, Products
    <2>3. SlotPages \in Nat \ {0}
      BY <2>2 DEF SlotPages
    <2> QED  BY <2>1, <2>3, Products DEF AllPages
  <1>2. last \in Nat /\ \A x \in regions : x <= last
    <2>1. \A x \in AllPages : x <= last
      BY <1>1 DEF AllPages
    <2> QED  BY <1>1, <2>1
  <1>3. RunsOf(n) \in SUBSET regions
    BY DEF RunsOf
  <1> HIDE DEF last
  <1>4. PICK g \in RunsOf(n) : \A q \in RunsOf(n) : q <= g
    BY <1>1, <1>2, <1>3, GreatestNatural
  <1>5. g \in Nat /\ g \in regions /\ PageSpan(g, n) \subseteq regions
    BY <1>1, <1>4 DEF RunsOf
  <1> DEFINE X == {x \in regions : x <= g /\ x .. g \subseteq regions}
  <1>6. g \in X /\ X \in SUBSET Nat
    <2>1. \A x \in g .. g : x = g
      BY <1>5
    <2>2. g .. g \subseteq regions /\ g <= g
      BY <1>5, <2>1
    <2> QED  BY <1>1, <1>5, <2>2
  <1>7. PICK p \in X : \A x \in X : p <= x
    BY <1>6, LeastNatural
  <1>8. p \in Nat /\ p \in regions /\ p <= g /\ p .. g \subseteq regions
    BY <1>1, <1>7
  <1>9. p - 1 \notin regions
    <2> SUFFICES ASSUME p - 1 \in regions PROVE FALSE
      OBVIOUS
    <2>1. p - 1 \in Nat
      BY <1>1
    <2>2. (p - 1) .. g \subseteq regions
      BY <1>5, <1>8, <2>1
    <2>3. p - 1 \in X
      BY <1>5, <1>8, <2>1, <2>2
    <2> QED  BY <1>7, <1>8, <2>3
  <1>10. PageSpan(p, n) \subseteq regions
    <2> SUFFICES ASSUME NEW x \in p .. p + n - 1 PROVE x \in regions
      BY DEF PageSpan
    <2>1. CASE x <= g
      BY <1>5, <1>8, <2>1
    <2>2. CASE ~(x <= g)
      <3>1. x \in g .. g + n - 1
        BY <1>5, <1>8, <2>2
      <3> QED  BY <1>5, <3>1 DEF PageSpan
    <2> QED  BY <2>1, <2>2
  <1>11. p \in RunsOf(n)
    BY <1>8, <1>10 DEF RunsOf
  <1>12. ASSUME NEW q \in RunsOf(n), q > p PROVE PageSpan(p, q - p) \subseteq regions
    <2>1. q \in Nat /\ q <= g
      BY <1>1, <1>3, <1>4
    <2>2. \A x \in p .. p + (q - p) - 1 : x \in p .. g
      BY <1>5, <1>8, <2>1
    <2> QED  BY <1>8, <2>2 DEF PageSpan
  <1>13. \E x \in RunsOf(n) : Good(x)
    BY <1>9, <1>11, <1>12
  <1>14. RegionStart(n) = CHOOSE x \in RunsOf(n) : Good(x)
    BY DEF RegionStart
  <1> HIDE DEF Good
  <1>15. RegionStart(n) \in RunsOf(n)
    BY <1>13, <1>14
  <1> QED  BY <1>1, <1>15 DEF RunsOf

\* u is t with the new tables h[i] below the entries i its root has not used.
Hung(t, u, new, h) ==
    /\ new \cap DOMAIN t = {} /\ None \notin new
    /\ \A i \in UnusedSlots(t, KRoot) : h[i] \in new
    /\ \A i, j \in UnusedSlots(t, KRoot) : h[i] = h[j] => i = j
    /\ DOMAIN u = DOMAIN t \cup new
    /\ \A g \in new : u[g] = EmptyTable
    /\ \A g \in DOMAIN t : g # KRoot => u[g] = t[g]
    /\ DOMAIN u[KRoot] = 0 .. Slots - 1
    /\ \A i \in 0 .. Slots - 1 :
            u[KRoot][i] = IF i \in UnusedSlots(t, KRoot) THEN h[i] ELSE t[KRoot][i]

\* They leave all pages as they are.
LEMMA TablesHung ==
    ASSUME NEW t, NEW u, NEW new, NEW h, Tree(t), None \notin DOMAIN t, Hung(t, u, new, h)
    PROVE  /\ Tree(u) /\ \A i \in 0 .. Slots - 1 : u[KRoot][i] # None
           /\ \A q \in AllPages : GetPage(u, KRoot, q) = GetPage(t, KRoot, q)
  <1> USE DEF Hung
  <1> DEFINE un == UnusedSlots(t, KRoot)
  <1>1. \A i \in 0 .. Slots - 1 : i \in un <=> t[KRoot][i] = None
    BY DEF UnusedSlots
  <1>2. un \subseteq 0 .. Slots - 1
    BY DEF UnusedSlots
  <1> HIDE DEF un
  <1>3. \A i \in 0 .. Slots - 1 :
            u[KRoot][i] # None /\ (i \in un => u[KRoot][i] \in new)
                               /\ (i \notin un => u[KRoot][i] = t[KRoot][i] /\ u[KRoot][i] \in Mids(t))
    <2> TAKE i \in 0 .. Slots - 1
    <2>1. CASE i \in un
      BY <2>1 DEF un
    <2>2. CASE i \notin un
      <3>1. u[KRoot][i] = t[KRoot][i] /\ t[KRoot][i] # None
        BY <1>1, <2>2 DEF un
      <3> QED  BY <2>2, <3>1, MidsOf
    <2> QED  BY <2>1, <2>2
  <1>4. \A m \in Mids(u) : m \in new \/ m \in Mids(t)
    <2> SUFFICES ASSUME NEW m \in Mids(u) PROVE m \in new \/ m \in Mids(t)
      OBVIOUS
    <2>1. PICK i \in 0 .. Slots - 1 : m = u[KRoot][i]
      BY DEF Mids
    <2> QED  BY <1>3, <2>1
  <1>5. KRoot \in DOMAIN t /\ KRoot \notin new
    BY DEF Tree
  <1>6. \A m \in Mids(t) : m \in DOMAIN t /\ m # KRoot /\ m \notin new /\ u[m] = t[m]
    BY DEF Tree
  <1>7. DOMAIN EmptyTable = 0 .. Fan - 1 /\ \A i \in 0 .. Fan - 1 : EmptyTable[i] = None
    BY DEF EmptyTable
  <1>8. \A m \in Mids(u), i \in 0 .. Fan - 1 : u[m][i] # None => m \in Mids(t) /\ u[m][i] = t[m][i]
    BY <1>4, <1>6, <1>7
  <1>9. Tree(u)
    <2>1. KRoot \in DOMAIN u
      BY <1>5
    <2>2. \A m \in Mids(u) : m \in DOMAIN u /\ m # KRoot /\ DOMAIN u[m] = 0 .. Fan - 1
      <3> TAKE m \in Mids(u)
      <3>1. CASE m \in new
        BY <1>5, <1>7, <3>1
      <3>2. CASE m \in Mids(t)
        <4>1. DOMAIN t[m] = 0 .. Fan - 1
          BY <3>2 DEF Tree
        <4> QED  BY <1>6, <3>2, <4>1
      <3> QED  BY <1>4, <3>1, <3>2
    <2>3. ASSUME NEW i \in 0 .. Slots - 1, NEW j \in 0 .. Slots - 1, u[KRoot][i] = u[KRoot][j]
          PROVE  i = j
      <3>1. i \in un <=> j \in un
        BY <1>3, <1>6, <2>3
      <3>2. CASE i \in un
        <4>1. j \in un
          BY <3>1, <3>2
        <4>2. u[KRoot][i] = h[i] /\ u[KRoot][j] = h[j]
          BY <3>2, <4>1 DEF un
        <4>3. h[i] = h[j]
          BY <2>3, <4>2
        <4> QED  BY <3>2, <4>1, <4>3 DEF un
      <3>3. CASE i \notin un
        <4>1. t[KRoot][i] = t[KRoot][j] /\ t[KRoot][i] # None
          BY <1>1, <1>3, <2>3, <3>1, <3>3
        <4> QED  BY <4>1 DEF Tree
      <3> QED  BY <3>2, <3>3
    <2>4. ASSUME NEW m \in Mids(u), NEW i \in 0 .. Fan - 1, u[m][i] # None
          PROVE  /\ u[m][i] \in DOMAIN u /\ u[m][i] \notin Mids(u) /\ u[m][i] # KRoot
                 /\ DOMAIN u[u[m][i]] = 0 .. Fan - 1
      <3> DEFINE l == t[m][i]
      <3>1. m \in Mids(t) /\ u[m][i] = l /\ l # None
        BY <1>8, <2>4
      <3>2. l \in DOMAIN t /\ l \notin Mids(t) /\ l # KRoot /\ DOMAIN t[l] = 0 .. Fan - 1
        BY <3>1 DEF Tree
      <3> HIDE DEF l
      <3>3. u[l] = t[l] /\ l \notin new
        BY <3>2
      <3>4. l \notin Mids(u)
        BY <1>4, <3>2, <3>3
      <3> QED  BY <3>1, <3>2, <3>3, <3>4
    <2>5. ASSUME NEW m \in Mids(u), NEW n \in Mids(u), NEW i \in 0 .. Fan - 1, NEW j \in 0 .. Fan - 1,
                 u[m][i] = u[n][j], u[m][i] # None
          PROVE  m = n /\ i = j
      <3>1. m \in Mids(t) /\ n \in Mids(t) /\ t[m][i] = t[n][j] /\ t[m][i] # None
        BY <1>8, <2>5
      <3>2. \A m1, n1 \in Mids(t), i1, j1 \in 0 .. Fan - 1 :
                t[m1][i1] = t[n1][j1] => (m1 = n1 /\ i1 = j1) \/ t[m1][i1] = None
        BY DEF Tree
      <3> QED  BY <3>1, <3>2
    <2> QED  BY <2>1, <2>2, <2>3, <2>4, <2>5 DEF Tree
  <1>10. ASSUME NEW q \in AllPages PROVE GetPage(u, KRoot, q) = GetPage(t, KRoot, q)
    <2> DEFINE s == SlotOf(q)
               e == MidOf(q)
    <2>1. s \in 0 .. Slots - 1 /\ e \in 0 .. Fan - 1
      BY PageIndices
    <2>2. CASE s \in un
      <3>1. u[KRoot][s] \in new /\ t[KRoot][s] = None
        BY <1>1, <1>3, <2>1, <2>2
      <3> DEFINE m == u[KRoot][s]
      <3>2. m # None /\ u[m][e] = None
        BY <1>7, <2>1, <3>1
      <3>3. LeafTable(u, KRoot, q) = None
        BY <3>2 DEF LeafTable, MidTable
      <3>4. LeafTable(t, KRoot, q) = None
        BY <3>1 DEF LeafTable, MidTable
      <3> QED  BY <3>3, <3>4 DEF GetPage
    <2>3. CASE s \notin un
      <3> DEFINE m == t[KRoot][s]
      <3>1. u[KRoot][s] = m /\ m \in Mids(t) /\ m # None
        BY <1>1, <1>3, <2>1, <2>3
      <3>2. u[m] = t[m]
        BY <1>6, <3>1
      <3> DEFINE l == t[m][e]
      <3>3. LeafTable(t, KRoot, q) = l
        BY <3>1 DEF LeafTable, MidTable
      <3>4. LeafTable(u, KRoot, q) = l
        BY <3>1, <3>2 DEF LeafTable, MidTable
      <3>5. l # None => l \in DOMAIN t /\ l # KRoot
        BY <2>1, <3>1 DEF Tree
      <3> HIDE DEF l
      <3>6. l # None => u[l] = t[l]
        BY <3>5
      <3> QED  BY <3>3, <3>4, <3>6 DEF GetPage
    <2> QED  BY <2>2, <2>3
  <1> QED  BY <1>3, <1>9, <1>10

\* init_kernel_addrspace fills the root.
LEMMA RootFilled ==
    ASSUME Tree(table), None \notin DOMAIN table, None \notin free,
           free \in SUBSET Nat, IsFiniteSet(free), free \cap DOMAIN table = {},
           Cardinality(UnusedSlots(table, KRoot)) <= Cardinality(free),
           NEW u, u = Filled(KRoot)
    PROVE  /\ Tree(u) /\ \A i \in 0 .. Slots - 1 : u[KRoot][i] # None
           /\ \E new \in SUBSET free : DOMAIN u = DOMAIN table \cup new
           /\ \A q \in AllPages : GetPage(u, KRoot, q) = GetPage(table, KRoot, q)
  <1> DEFINE un == UnusedSlots(table, KRoot)
             n == Cardinality(un)
             new == FirstFrames(n)
             P(i, f) == Rank(new, f) = Rank(un, i)
             h == [i \in un |-> CHOOSE f \in new : P(i, f)]
  <1>1. un \in SUBSET Nat /\ IsFiniteSet(un) /\ un \subseteq 0 .. Slots - 1
    <2>1. Slots \in Nat
      BY HeapAssumption
    <2>2. IsFiniteSet(0 .. Slots - 1)
      BY <2>1, FS_Interval
    <2>3. un \in SUBSET (0 .. Slots - 1)
      BY DEF UnusedSlots
    <2>4. un \in SUBSET Nat
      BY <2>1, <2>3
    <2> HIDE DEF un
    <2> QED  BY <2>2, <2>3, <2>4, FS_Subset
  <1>2. n \in Nat
    BY <1>1, FS_CardinalityType
  <1>3. new \in SUBSET free /\ IsFiniteSet(new) /\ Cardinality(new) = n
    <2> HIDE DEF n
    <2>1. n <= Cardinality(free)
      BY DEF n
    <2> QED  BY <1>2, <2>1, FirstFramesCount
  <1>4. u = [g \in DOMAIN table \cup new |->
                IF g \in new THEN EmptyTable
                ELSE IF g # KRoot THEN table[g]
                ELSE [i \in DOMAIN table[g] |->
                        IF i \in un THEN (CHOOSE f \in new : P(i, f)) ELSE table[g][i]]]
    BY DEF Filled, FilledFrom, Rank
  <1> HIDE DEF new, n, un
  <1>5. new \in SUBSET Nat
    BY <1>3
  <1>6. ASSUME NEW i \in un PROVE h[i] \in new /\ Rank(new, h[i]) = Rank(un, i)
    <2>1. Rank(un, i) \in 0 .. n - 1
      BY <1>1, Ranks DEF n
    <2>2. \E f \in new : P(i, f)
      BY <1>3, <1>5, <2>1, Ranks
    <2>3. h[i] = CHOOSE f \in new : P(i, f)
      OBVIOUS
    <2> DEFINE c == CHOOSE f \in new : P(i, f)
    <2>4. c \in new /\ P(i, c)
      <3> HIDE DEF P
      <3> QED  BY <2>2
    <2> HIDE DEF c
    <2>5. h[i] = c
      BY <2>3 DEF c
    <2> QED  BY <2>4, <2>5
  <1>7. ASSUME NEW i \in un, NEW j \in un, h[i] = h[j] PROVE i = j
    <2>1. Rank(un, i) = Rank(un, j)
      BY <1>6, <1>7
    <2> QED  BY <1>1, <2>1, Ranks
  <1>8. KRoot \in DOMAIN table /\ DOMAIN table[KRoot] = 0 .. Slots - 1 /\ new \cap DOMAIN table = {}
        /\ None \notin new /\ KRoot \notin new
    BY <1>3 DEF Tree
  <1>9. u[KRoot] = [i \in DOMAIN table[KRoot] |->
                        IF i \in un THEN (CHOOSE f \in new : P(i, f)) ELSE table[KRoot][i]]
    <2> HIDE DEF P
    <2>1. KRoot \in DOMAIN table \cup new /\ KRoot \notin new
      BY <1>8
    <2> QED  BY <1>4, <2>1, ZenonT(60)
  <1>10. \A i \in un : h[i] = CHOOSE f \in new : P(i, f)
    OBVIOUS
  <1> HIDE DEF P, h
  <1>11. /\ DOMAIN u[KRoot] = 0 .. Slots - 1
         /\ \A i \in 0 .. Slots - 1 : u[KRoot][i] = IF i \in un THEN h[i] ELSE table[KRoot][i]
    BY <1>8, <1>9, <1>10
  <1>12. /\ DOMAIN u = DOMAIN table \cup new
         /\ \A g \in new : u[g] = EmptyTable
         /\ \A g \in DOMAIN table : g # KRoot => u[g] = table[g]
    BY <1>4, <1>8
  <1>13. /\ Tree(u) /\ \A i \in 0 .. Slots - 1 : u[KRoot][i] # None
         /\ \A q \in AllPages : GetPage(u, KRoot, q) = GetPage(table, KRoot, q)
    <2>1. \A i \in UnusedSlots(table, KRoot) : h[i] \in new
      BY <1>6 DEF un
    <2>2. \A i, j \in UnusedSlots(table, KRoot) : h[i] = h[j] => i = j
      BY <1>7 DEF un
    <2>3. \A i \in 0 .. Slots - 1 :
            u[KRoot][i] = IF i \in UnusedSlots(table, KRoot) THEN h[i] ELSE table[KRoot][i]
      BY <1>11 DEF un
    <2>4. DOMAIN u[KRoot] = 0 .. Slots - 1 /\ new \cap DOMAIN table = {} /\ None \notin new
      BY <1>8, <1>11
    <2>5. /\ Tree(u) /\ \A i \in 0 .. Slots - 1 : u[KRoot][i] # None
          /\ \A q \in AllPages : GetPage(u, KRoot, q) = GetPage(table, KRoot, q)
      <3>1. Hung(table, u, new, h)
        BY <1>12, <2>1, <2>2, <2>3, <2>4 DEF Hung
      <3> QED  BY <3>1, TablesHung
    <2> QED  BY <2>5
  <1> QED  BY <1>3, <1>12, <1>13

-----------------------------------------------------------------------------
(* Changes to the set of allocations                                       *)

\* b is a, but that a realloc may have moved it.
Like(b, a) ==
    b.ptr = a.ptr /\ b.size = a.size /\ b.align = a.align /\ b.ty = a.ty /\ b.base = a.base

\* The allocations were x and are y: gone are not there any more, new are.
Evolves(x, y, gone, new) ==
    /\ gone \subseteq x /\ new \subseteq y
    /\ \A b \in y : b \in new \/ \E a \in x \ gone : Like(b, a)
    /\ \A a \in x \ gone : \E b \in y : Like(b, a)

\* A new allocation, at an address where there is none.
LEMMA ReplacesEvolves ==
    ASSUME AllocsOK(live), NEW old \in SUBSET live, NEW n \in Allocations, Replaces(old, n),
           n.size # 0, \E l \in Layouts : n.align = l[2], \A a \in live : a.ptr # n.ptr
    PROVE  AllocsOK(live') /\ Evolves(live, live', {}, {n})
  <1> DEFINE D(o) == [o EXCEPT !.dying = TRUE]
  <1>1. \A a \in live : a \in Allocations /\ D(a) \in Allocations /\ Like(D(a), a) /\ Like(a, a)
    BY DEF AllocsOK, Allocations, Like
  <1>2. live' = {n} \cup (live \ old) \cup {D(o) : o \in old}
    <2>1. CASE old = {}
      BY <2>1 DEF Replaces
    <2>2. CASE old # {}
      BY <2>2 DEF Replaces
    <2> QED  BY <2>1, <2>2
  <1> HIDE DEF D
  <1>3. \A b \in live' : b = n \/ \E a \in live : /\ b \in Allocations /\ Like(b, a)
                                                  /\ b = IF a \in old THEN D(a) ELSE a
    BY <1>1, <1>2
  <1>4. ASSUME NEW a \in live PROVE \E b \in live' : Like(b, a)
    <2>1. CASE a \in old
      <3>1. D(a) \in live'
        BY <1>2, <2>1
      <3> QED  BY <1>1, <3>1
    <2>2. CASE a \notin old
      <3>1. a \in live'
        BY <1>2, <2>2
      <3> QED  BY <1>1, <3>1
    <2> QED  BY <2>1, <2>2
  <1>5. Evolves(live, live', {}, {n})
    <2>1. n \in live'
      BY <1>2
    <2> QED  BY <1>3, <1>4, <2>1 DEF Evolves
  <1>6. live' \subseteq Allocations
    BY <1>3
  <1>7. ASSUME NEW b \in live' PROVE b.size # 0 /\ \E l \in Layouts : b.align = l[2]
    <2>1. CASE b = n
      BY <2>1
    <2>2. CASE \E a \in live : Like(b, a)
      <3>1. PICK a \in live : b.size = a.size /\ b.align = a.align
        BY <2>2 DEF Like
      <3>2. a.size # 0 /\ \E l \in Layouts : a.align = l[2]
        BY DEF AllocsOK
      <3> QED  BY <3>1, <3>2
    <2> QED  BY <1>3, <2>1, <2>2
  <1>8. ASSUME NEW b \in live', NEW d \in live', b.ptr = d.ptr PROVE b = d
    <2>1. CASE b = n /\ d = n
      BY <2>1
    <2>2. CASE (b = n) # (d = n)
      BY <1>3, <1>8, <2>2 DEF Like
    <2>3. CASE b # n /\ d # n
      <3>1. PICK a \in live : b.ptr = a.ptr /\ b = IF a \in old THEN D(a) ELSE a
        BY <1>3, <2>3 DEF Like
      <3>2. PICK c \in live : d.ptr = c.ptr /\ d = IF c \in old THEN D(c) ELSE c
        BY <1>3, <2>3 DEF Like
      <3>3. a = c
        BY <1>8, <3>1, <3>2 DEF AllocsOK
      <3> QED  BY <3>1, <3>2, <3>3
    <2> QED  BY <2>1, <2>2, <2>3
  <1> QED  BY <1>5, <1>6, <1>7, <1>8 DEF AllocsOK

\* A reallocation in place.
LEMMA ResizeEvolves ==
    ASSUME AllocsOK(live), NEW a \in live, NEW size \in Nat \ {0}, Resize(a, size)
    PROVE  LET n == [a EXCEPT !.size = size]
           IN /\ AllocsOK(live') /\ Evolves(live, live', {a}, {n})
              /\ n \in Allocations /\ n.size = size /\ n.ptr = a.ptr /\ n.align = a.align
              /\ n.ty = a.ty /\ n.base = a.base
  <1> DEFINE n == [a EXCEPT !.size = size]
  <1>1. /\ n \in Allocations /\ n.size = size /\ n.ptr = a.ptr /\ n.align = a.align
        /\ n.ty = a.ty /\ n.base = a.base
    BY DEF AllocsOK, Allocations
  <1>2. live' = (live \ {a}) \cup {n}
    BY DEF Resize
  <1> HIDE DEF n
  <1>3. \A b : Like(b, b)
    BY DEF Like
  <1>4. Evolves(live, live', {a}, {n})
    BY <1>2, <1>3 DEF Evolves
  <1>5. AllocsOK(live')
    <2>1. live' \subseteq Allocations
      BY <1>1, <1>2 DEF AllocsOK
    <2>2. \A b \in live' : b.size # 0 /\ \E l \in Layouts : b.align = l[2]
      BY <1>1, <1>2 DEF AllocsOK
    <2>3. \A b, d \in live' : b.ptr = d.ptr => b = d
      BY <1>1, <1>2 DEF AllocsOK
    <2> QED  BY <2>1, <2>2, <2>3 DEF AllocsOK
  <1> QED  BY <1>1, <1>4, <1>5 DEF n

\* An allocation goes.
LEMMA DeallocEvolves ==
    ASSUME AllocsOK(live), NEW a \in live, live' = live \ {a}
    PROVE  AllocsOK(live') /\ Evolves(live, live', {a}, {})
  BY DEF AllocsOK, Evolves, Like

\* What is known of early blocks is known of blocks like them.
LEMMA EarlyLike ==
    ASSUME NEW e, NEW X, NEW Y, EarlyOK(e, X), \A b \in Y : \E a \in X : Like(b, a)
    PROVE  EarlyOK(e, Y)
  <1>1. \A b \in Y : \E a \in X : Like(b, a)
    OBVIOUS
  <1>2. \A b, a : Like(b, a) => EndOf(b) = EndOf(a)
    BY DEF Like, EndOf
  <1>3. ASSUME NEW b \in Y
        PROVE  /\ b.base <= b.ptr /\ EndOf(b) <= e.mark /\ b.ptr % b.align = 0
               /\ \/ e.word[EndOf(b) - 1] = EndOf(b) - b.base
                  \/ EndOf(b) < e.mark /\ \A d \in Y : d.base # EndOf(b)
    <2>1. PICK a \in X : Like(b, a)
      BY <1>1
    <2>2. a.base <= a.ptr /\ EndOf(a) <= e.mark /\ a.ptr % a.align = 0
      BY DEF EarlyOK
    <2>3. \/ e.word[EndOf(a) - 1] = EndOf(a) - a.base
          \/ EndOf(a) < e.mark /\ \A d \in X : d.base # EndOf(a)
      BY DEF EarlyOK
    <2>4. EndOf(b) = EndOf(a) /\ b.base = a.base /\ b.ptr = a.ptr /\ b.align = a.align
      BY <1>2, <2>1 DEF Like
    <2>5. (\A d \in X : d.base # EndOf(a)) => \A d \in Y : d.base # EndOf(a)
      BY <1>1 DEF Like
    <2> QED  BY <2>2, <2>3, <2>4, <2>5
  <1>4. ASSUME NEW b \in Y, NEW d \in Y, b.ptr # d.ptr
        PROVE  EndOf(b) <= d.base \/ EndOf(d) <= b.base
    <2>1. PICK a \in X : Like(b, a)
      BY <1>1
    <2>2. PICK c \in X : Like(d, c)
      BY <1>1
    <2>3. EndOf(b) = EndOf(a) /\ b.base = a.base /\ EndOf(d) = EndOf(c) /\ d.base = c.base
      BY <1>2, <2>1, <2>2 DEF Like
    <2>4. a.ptr # c.ptr
      BY <1>4, <2>1, <2>2 DEF Like
    <2>5. EndOf(a) <= c.base \/ EndOf(c) <= a.base
      BY <2>4 DEF EarlyOK
    <2> QED  BY <2>3, <2>5
  <1> QED  BY <1>3, <1>4 DEF EarlyOK

\* Early blocks that nobody touches stay as they are.
LEMMA EarlyKept ==
    ASSUME NEW e, NEW x, NEW y, NEW gone, NEW new, EarlyOK(e, Blocks(x)), Evolves(x, y, gone, new),
           \A n \in gone \cup new : n.ty # Early
    PROVE  EarlyOK(e, Blocks(y))
  <1>1. \A b \in Blocks(y) : \E a \in Blocks(x) : Like(b, a)
    BY DEF Evolves, Blocks, Like
  <1> QED  BY <1>1, EarlyLike

\* Allocations stay where they are, and slabs where they were.
LEMMA LateKept ==
    ASSUME NEW x, NEW y, NEW gone, NEW new, NEW s, NEW t,
           AllocsOK(x), LateOK(x, s), Evolves(x, y, gone, new),
           \A c \in Classes : s[c] \subseteq t[c],
           \A n \in new : n.ty # Early => Placed(n, t)
    PROVE  LateOK(y, t)
  <1> SUFFICES ASSUME NEW b \in y, b.ty # Early PROVE Placed(b, t)
    BY DEF LateOK
  <1>1. CASE b \in new
    BY <1>1
  <1>2. CASE \E a \in x : Like(b, a)
    <2>1. PICK a \in x : Like(b, a)
      BY <1>2
    <2>2. a.ty # Early /\ Placed(a, s)
      BY <2>1 DEF LateOK, Like
    <2>3. a.ty # Page => a.ty \in Classes
      <3>1. a.size \in Nat /\ a.align \in Nat
        BY DEF AllocsOK, Allocations
      <3> QED  BY <2>2, <3>1, LateTypes DEF Placed
    <2>4. Placed(a, t)
      BY <2>2, <2>3 DEF Placed
    <2> QED  BY <2>1, <2>4 DEF Placed, Like
  <1> QED  BY <1>1, <1>2 DEF Evolves

\* The pages of allocations are those there were, but for those gone, and new ones.
LEMMA PagesEvolve ==
    ASSUME NEW x, NEW y, NEW gone, NEW new, NEW s, NEW p,
           AllocsOK(x), PagesApart(x, s), Evolves(x, y, gone, new)
    PROVE  AllocPage(y, p) <=> (AllocPage(x, p) /\ ~AllocPage(gone, p)) \/ AllocPage(new, p)
  <1>1. \A b, a : Like(b, a) => Span(b) = Span(a) /\ b.ty = a.ty
    BY DEF Like, Span, PagesFrom
  <1>2. ASSUME AllocPage(y, p), ~AllocPage(new, p)
        PROVE  AllocPage(x, p) /\ ~AllocPage(gone, p)
    <2>1. PICK b \in y : b.ty = Page /\ p \in Span(b)
      BY <1>2 DEF AllocPage
    <2>2. PICK a \in x \ gone : Like(b, a)
      BY <1>2, <2>1 DEF Evolves, AllocPage
    <2>3. a.ty = Page /\ p \in Span(a)
      BY <1>1, <2>1, <2>2
    <2>4. ASSUME NEW g \in gone, g.ty = Page, p \in Span(g) PROVE FALSE
      <3>1. g \in x /\ g # a
        BY <2>2 DEF Evolves
      <3>2. g.ptr # a.ptr
        BY <3>1 DEF AllocsOK
      <3> QED  BY <2>3, <2>4, <3>1, <3>2 DEF PagesApart
    <2> QED  BY <2>3, <2>4 DEF AllocPage
  <1>3. ASSUME AllocPage(x, p), ~AllocPage(gone, p) PROVE AllocPage(y, p)
    <2>1. PICK a \in x : a.ty = Page /\ p \in Span(a)
      BY <1>3 DEF AllocPage
    <2>2. a \notin gone
      BY <1>3, <2>1 DEF AllocPage
    <2>3. PICK b \in y : Like(b, a)
      BY <2>1, <2>2 DEF Evolves
    <2> QED  BY <1>1, <2>1, <2>3 DEF AllocPage
  <1>4. AllocPage(new, p) => AllocPage(y, p)
    BY DEF Evolves, AllocPage
  <1> QED  BY <1>2, <1>3, <1>4

\* At most one allocation is new, and the pages it or a slab gets are new too.
NewPages(x, gone, new, s, t) ==
    /\ \A c, d \in Classes : c # d => t[c] \cap t[d] = {}
    /\ \A p : SlabPage(t, p) => SlabPage(s, p) \/ ~AllocPage(x, p)
    /\ \A m, n \in new : m = n
    /\ \A n \in new : n.ty = Page =>
            \A p \in Span(n) : ~SlabPage(t, p) /\ ~AllocPage(x \ gone, p)

\* Then no page gets a second owner.
LEMMA ApartKept ==
    ASSUME NEW x, NEW y, NEW gone, NEW new, NEW s, NEW t,
           AllocsOK(x), PagesApart(x, s), Evolves(x, y, gone, new), NewPages(x, gone, new, s, t)
    PROVE  PagesApart(y, t)
  <1> USE DEF NewPages
  <1>1. \A b, a : Like(b, a) => Span(b) = Span(a) /\ b.ty = a.ty /\ b.ptr = a.ptr
    BY DEF Like, Span, PagesFrom
  <1>2. \A b \in y : b \in new \/ \E a \in x \ gone : Like(b, a)
    BY DEF Evolves
  <1>3. ASSUME NEW b \in y, b.ty = Page, NEW p \in Span(b) PROVE ~SlabPage(t, p)
    <2>1. CASE b \in new
      BY <1>3, <2>1
    <2>2. CASE b \notin new
      <3>1. PICK a \in x : a.ty = Page /\ p \in Span(a)
        BY <1>1, <1>2, <1>3, <2>2
      <3>2. ~SlabPage(s, p) /\ AllocPage(x, p)
        BY <3>1 DEF PagesApart, AllocPage
      <3> QED  BY <3>2
    <2> QED  BY <2>1, <2>2
  <1>4. ASSUME NEW b \in y, NEW d \in y, b.ty = Page, d.ty = Page, b.ptr # d.ptr,
               NEW p \in Span(b), p \in Span(d)
        PROVE  FALSE
    <2>1. \A e \in y : e \notin new /\ e.ty = Page /\ p \in Span(e) =>
                \E a \in x \ gone : a.ty = Page /\ p \in Span(a) /\ a.ptr = e.ptr
      BY <1>1, <1>2
    <2>2. CASE b \in new /\ d \in new
      BY <1>4, <2>2
    <2>3. CASE b \in new /\ d \notin new
      <3>1. AllocPage(x \ gone, p)
        BY <1>4, <2>1, <2>3 DEF AllocPage
      <3> QED  BY <1>4, <2>3, <3>1
    <2>4. CASE b \notin new /\ d \in new
      <3>1. AllocPage(x \ gone, p)
        BY <1>4, <2>1, <2>4 DEF AllocPage
      <3> QED  BY <1>4, <2>4, <3>1
    <2>5. CASE b \notin new /\ d \notin new
      <3>1. PICK a \in x : a.ty = Page /\ p \in Span(a) /\ a.ptr = b.ptr
        BY <1>4, <2>1, <2>5
      <3>2. PICK c \in x : c.ty = Page /\ p \in Span(c) /\ c.ptr = d.ptr
        BY <1>4, <2>1, <2>5
      <3> QED  BY <1>4, <3>1, <3>2 DEF PagesApart
    <2> QED  BY <2>2, <2>3, <2>4, <2>5
  <1> QED  BY <1>3, <1>4 DEF PagesApart

\* The pages of the heap are those of slabs and of allocations.
LEMMA HeapPagesAre ==
    /\ \A p : p \in HeapPages <=> SlabPage(slabs, p) \/ AllocPage(live, p)
    /\ \A p : p \in HeapPages' <=> SlabPage(slabs', p) \/ AllocPage(live', p)
  BY Zenon DEF HeapPages, SlabPage, AllocPage, Span

-----------------------------------------------------------------------------
(* The early allocator                                                     *)

Areas == [mark : 0 .. EarlySize, word : [0 .. EarlySize - 1 -> Int \cup {Junk}]]

\* get_full_size adds the header's word.
LEMMA EndIs ==
    ASSUME NEW a \in Allocations
    PROVE  EndOf(a) \in Nat /\ EndOf(a) = a.ptr + a.size + 1 /\ FullSize(a.size) = a.size + 1
  BY DEF EndOf, FullSize, Allocations

\* write_bytes changes only the words it is given.
LEMMA WipedIs ==
    ASSUME NEW w \in [0 .. EarlySize - 1 -> Int \cup {Junk}], NEW from \in Int, NEW to \in Int
    PROVE  /\ Wiped(w, from, to) \in [0 .. EarlySize - 1 -> Int \cup {Junk}]
           /\ \A i \in 0 .. EarlySize - 1 : i < from \/ to <= i => Wiped(w, from, to)[i] = w[i]
  <1>1. DOMAIN w = 0 .. EarlySize - 1 /\ \A i \in 0 .. EarlySize - 1 : w[i] \in Int \cup {Junk}
    OBVIOUS
  <1>2. Wiped(w, from, to) = [i \in 0 .. EarlySize - 1 |-> IF from <= i /\ i < to THEN Junk ELSE w[i]]
    BY <1>1 DEF Wiped
  <1>3. \A i \in 0 .. EarlySize - 1 : (i < from \/ to <= i) => ~(from <= i /\ i < to)
    <2>1. \A i \in 0 .. EarlySize - 1 : i \in Int
      OBVIOUS
    <2> QED  BY <2>1
  <1> QED  BY <1>1, <1>2, <1>3

\* alloc: the block is new, behind the others, and its header leads back.
LEMMA EarlyAllocated ==
    ASSUME NEW e \in Areas, NEW B \in SUBSET Allocations, EarlyOK(e, B),
           NEW l \in (Nat \ {0}) \X (Nat \ {0}), HasRoomFor(e, AllocSize(e, l[1], l[2]))
    PROVE  LET n == New(EarlyPtr(e, l[2]), l, Early, e.mark)
               d == EarlyAlloc(e, l[1], l[2])
           IN /\ n \in Allocations /\ n.size = l[1] /\ n.align = l[2] /\ n.ty = Early
              /\ \A a \in B : a.ptr # n.ptr
              /\ d \in Areas /\ EarlyOK(d, B \cup {n})
  <1> DEFINE n == New(EarlyPtr(e, l[2]), l, Early, e.mark)
             d == EarlyAlloc(e, l[1], l[2])
             off == AlignOffset(e.mark, l[2])
             end == e.mark + (off + (l[1] + 1))
             v == Wiped(e.word, e.mark, end)
  <1>1. /\ e.mark \in Nat /\ e.mark <= EarlySize /\ EarlySize \in Nat
        /\ e.word \in [0 .. EarlySize - 1 -> Int \cup {Junk}]
        /\ l[1] \in Nat \ {0} /\ l[2] \in Nat \ {0}
    <2>1. EarlySize \in Nat
      BY Sizes
    <2>2. e.mark \in 0 .. EarlySize /\ e.word \in [0 .. EarlySize - 1 -> Int \cup {Junk}]
      BY DEF Areas
    <2>3. e.mark \in Nat /\ e.mark <= EarlySize
      BY <2>1, <2>2
    <2>4. l[1] \in Nat \ {0} /\ l[2] \in Nat \ {0}
      OBVIOUS
    <2> QED  BY <2>1, <2>2, <2>3, <2>4
  <1>2. off \in Nat /\ (e.mark + off) % l[2] = 0
    <2>1. off \in 0 .. l[2] - 1 /\ (e.mark + off) % l[2] = 0
      BY <1>1, AlignUp
    <2> HIDE DEF off
    <2> QED  BY <1>1, <2>1
  <1>3. AllocSize(e, l[1], l[2]) = off + (l[1] + 1)
    BY <1>1 DEF AllocSize, FullSize
  <1>4. n = [ptr |-> e.mark + off, size |-> l[1], align |-> l[2], ty |-> Early, base |-> e.mark, dying |-> FALSE]
    BY DEF New, EarlyPtr
  <1>5. d = [mark |-> end, word |-> [v EXCEPT ![end - 1] = end - e.mark]]
    BY <1>3 DEF EarlyAlloc
  <1>6. end \in Nat /\ end <= EarlySize /\ e.mark < end /\ end - 1 \in 0 .. EarlySize - 1
    <2> HIDE DEF off
    <2>1. EarlySize - e.mark >= off + (l[1] + 1)
      BY <1>3 DEF HasRoomFor
    <2> DEFINE s == l[1]
               m == e.mark
    <2>2. m \in Nat /\ s \in Nat \ {0} /\ EarlySize - m >= off + (s + 1) /\ end = m + (off + (s + 1))
      BY <1>1, <2>1
    <2> HIDE DEF s, m, end
    <2>3. end \in Nat /\ end <= EarlySize /\ m < end /\ end - 1 \in 0 .. EarlySize - 1
      BY <1>1, <1>2, <2>2
    <2> QED  BY <2>3 DEF m
  <1> HIDE DEF off
  <1>7. /\ n \in Allocations /\ n.size = l[1] /\ n.align = l[2] /\ n.ty = Early
        /\ n.ptr = e.mark + off /\ n.base = e.mark
    <2> DEFINE s == l[1]
               g == l[2]
               m == e.mark
               o == m + off
    <2>1. s \in Nat /\ g \in Nat /\ m \in Nat /\ o \in Nat /\ Early \in Nat
      BY <1>1, <1>2 DEF Early
    <2>2. n = [ptr |-> o, size |-> s, align |-> g, ty |-> Early, base |-> m, dying |-> FALSE]
      BY <1>4
    <2> HIDE DEF s, g, m, o, n
    <2>3. /\ n \in Allocations /\ n.size = s /\ n.align = g /\ n.ty = Early
          /\ n.ptr = o /\ n.base = m
      BY <2>1, <2>2 DEF Allocations
    <2> QED  BY <2>3 DEF s, g, m, o
  <1> HIDE DEF n
  <1>8. EndOf(n) = end /\ EndOf(n) \in Nat
    <2>1. EndOf(n) = n.ptr + n.size + 1
      BY <1>7, EndIs
    <2> QED  BY <1>1, <1>2, <1>7, <2>1
  <1> HIDE DEF end
  <1>9. /\ v \in [0 .. EarlySize - 1 -> Int \cup {Junk}]
        /\ \A i \in 0 .. EarlySize - 1 : i < e.mark => v[i] = e.word[i]
    BY <1>1, <1>6, WipedIs, SMTT(30)
  <1> HIDE DEF v
  <1>10. /\ d.mark = end /\ d.word \in [0 .. EarlySize - 1 -> Int \cup {Junk}]
         /\ d.word[end - 1] = end - e.mark
         /\ \A i \in 0 .. EarlySize - 1 : i < e.mark => d.word[i] = e.word[i]
    BY <1>1, <1>5, <1>6, <1>9
  <1>11. d \in Areas
    BY <1>5, <1>6, <1>10 DEF Areas
  <1> HIDE DEF d
  <1>12. \A a \in B : /\ a.ptr \in Nat /\ a.base \in Nat /\ EndOf(a) \in Nat
                      /\ a.base <= a.ptr /\ a.ptr < EndOf(a) /\ EndOf(a) <= e.mark /\ a.ptr % a.align = 0
    <2> TAKE a \in B
    <2>1. a \in Allocations /\ a.ptr \in Nat /\ a.base \in Nat /\ a.size \in Nat
      BY DEF Allocations
    <2>2. EndOf(a) \in Nat /\ EndOf(a) = a.ptr + a.size + 1
      BY <2>1, EndIs
    <2>3. a.base <= a.ptr /\ EndOf(a) <= e.mark /\ a.ptr % a.align = 0
      BY DEF EarlyOK
    <2> QED  BY <2>1, <2>2, <2>3
  <1>13. \A a \in B : a.ptr # n.ptr
    BY <1>1, <1>2, <1>7, <1>12
  <1>14. EarlyOK(d, B \cup {n})
    <2>1. ASSUME NEW a \in B \cup {n}
          PROVE  a.base <= a.ptr /\ EndOf(a) <= d.mark /\ a.ptr % a.align = 0
      <3>1. CASE a = n
        BY <1>1, <1>2, <1>6, <1>7, <1>8, <1>10, <3>1
      <3>2. CASE a \in B
        BY <1>1, <1>6, <1>10, <1>12, <3>2
      <3> QED  BY <3>1, <3>2
    <2>2. ASSUME NEW a \in B \cup {n}, NEW b \in B \cup {n}, a.ptr # b.ptr
          PROVE  EndOf(a) <= b.base \/ EndOf(b) <= a.base
      <3>1. CASE a \in B /\ b \in B
        BY <2>2, <3>1 DEF EarlyOK
      <3>2. CASE a \in B /\ b = n
        BY <1>7, <1>12, <3>2
      <3>3. CASE a = n /\ b \in B
        BY <1>7, <1>12, <3>3
      <3> QED  BY <2>2, <3>1, <3>2, <3>3
    <2>3. ASSUME NEW a \in B \cup {n}
          PROVE  \/ d.word[EndOf(a) - 1] = EndOf(a) - a.base
                 \/ EndOf(a) < d.mark /\ \A b \in B \cup {n} : b.base # EndOf(a)
      <3>1. CASE a = n
        BY <1>7, <1>8, <1>10, <3>1
      <3>2. CASE a \in B
        <4>1. EndOf(a) - 1 \in 0 .. EarlySize - 1 /\ EndOf(a) - 1 < e.mark /\ EndOf(a) \in Nat
          BY <1>1, <1>12, <3>2
        <4>2. d.word[EndOf(a) - 1] = e.word[EndOf(a) - 1]
          BY <1>10, <4>1
        <4>3. \/ e.word[EndOf(a) - 1] = EndOf(a) - a.base
              \/ EndOf(a) < e.mark /\ \A b \in B : b.base # EndOf(a)
          BY <3>2 DEF EarlyOK
        <4>4. EndOf(a) < e.mark => EndOf(a) < d.mark /\ n.base # EndOf(a)
          BY <1>1, <1>6, <1>7, <1>10, <4>1
        <4> QED  BY <4>2, <4>3, <4>4
      <3> QED  BY <3>1, <3>2
    <2> QED  BY <2>1, <2>2, <2>3 DEF EarlyOK
  <1> QED  BY <1>7, <1>11, <1>13, <1>14 DEF n, d

\* What EarlyOK says of one block.
LEMMA BlockIs ==
    ASSUME NEW e \in Areas, NEW B \in SUBSET Allocations, EarlyOK(e, B), NEW a \in B
    PROVE  /\ a.ptr \in Nat /\ a.base \in Nat /\ a.size \in Nat /\ EndOf(a) \in Nat
           /\ e.mark \in Nat /\ e.mark <= EarlySize /\ EarlySize \in Nat
           /\ e.word \in [0 .. EarlySize - 1 -> Int \cup {Junk}]
           /\ EndOf(a) = a.ptr + a.size + 1 /\ FullSize(a.size) = a.size + 1
           /\ a.base <= a.ptr /\ a.ptr < EndOf(a) /\ EndOf(a) <= e.mark /\ a.ptr % a.align = 0
           /\ EndOf(a) - 1 \in 0 .. EarlySize - 1
           /\ EndOf(a) = e.mark => e.word[EndOf(a) - 1] = EndOf(a) - a.base
  <1>1. a \in Allocations /\ a.ptr \in Nat /\ a.base \in Nat /\ a.size \in Nat
    BY DEF Allocations
  <1>2. EndOf(a) \in Nat /\ EndOf(a) = a.ptr + a.size + 1 /\ FullSize(a.size) = a.size + 1
    BY <1>1, EndIs
  <1>3. a.base <= a.ptr /\ EndOf(a) <= e.mark /\ a.ptr % a.align = 0
    BY DEF EarlyOK
  <1>4. EarlySize \in Nat
    BY Sizes
  <1>5. e.mark \in 0 .. EarlySize /\ e.word \in [0 .. EarlySize - 1 -> Int \cup {Junk}]
    BY DEF Areas
  <1>6. e.mark \in Nat /\ e.mark <= EarlySize
    BY <1>4, <1>5
  <1>7. EndOf(a) - 1 \in 0 .. EarlySize - 1 /\ a.ptr < EndOf(a)
    BY <1>1, <1>2, <1>3, <1>4, <1>6
  <1>8. \/ e.word[EndOf(a) - 1] = EndOf(a) - a.base
        \/ EndOf(a) < e.mark
    BY DEF EarlyOK
  <1>9. EndOf(a) = e.mark => e.word[EndOf(a) - 1] = EndOf(a) - a.base
    BY <1>2, <1>6, <1>8
  <1> QED  BY <1>1, <1>2, <1>3, <1>4, <1>5, <1>6, <1>7, <1>9

\* free: the other blocks keep their headers, and the mark does not pass them.
LEMMA EarlyFreed ==
    ASSUME NEW e \in Areas, NEW B \in SUBSET Allocations, EarlyOK(e, B), NEW a \in B,
           \A b, c \in B : b.ptr = c.ptr => b = c
    PROVE  LET d == EarlyFree(e, a.ptr, a.size)
           IN d \in Areas /\ EarlyOK(d, B \ {a})
  <1> DEFINE d == EarlyFree(e, a.ptr, a.size)
  <1>1. /\ a.ptr \in Nat /\ a.base \in Nat /\ a.size \in Nat /\ EndOf(a) \in Nat
        /\ e.mark \in Nat /\ e.mark <= EarlySize /\ EarlySize \in Nat
        /\ e.word \in [0 .. EarlySize - 1 -> Int \cup {Junk}]
        /\ EndOf(a) = a.ptr + a.size + 1 /\ FullSize(a.size) = a.size + 1
        /\ a.base <= a.ptr /\ a.ptr < EndOf(a) /\ EndOf(a) <= e.mark
        /\ EndOf(a) = e.mark => e.word[EndOf(a) - 1] = EndOf(a) - a.base
    BY BlockIs
  <1>2. \A b \in B : /\ b.ptr \in Nat /\ b.base \in Nat /\ EndOf(b) \in Nat
                     /\ b.base <= b.ptr /\ b.ptr < EndOf(b) /\ EndOf(b) <= e.mark /\ b.ptr % b.align = 0
                     /\ EndOf(b) - 1 \in 0 .. EarlySize - 1
    BY BlockIs
  <1>3. \A b \in B \ {a} : EndOf(b) <= a.base \/ EndOf(a) <= b.base
    <2>1. \A b \in B \ {a} : b.ptr # a.ptr
      OBVIOUS
    <2> QED  BY <2>1 DEF EarlyOK
  <1>4. \A b, c \in B \ {a} : b.ptr # c.ptr => EndOf(b) <= c.base \/ EndOf(c) <= b.base
    BY DEF EarlyOK
  <1>5. \A b \in B \ {a} : \/ e.word[EndOf(b) - 1] = EndOf(b) - b.base
                           \/ EndOf(b) < e.mark /\ \A c \in B : c.base # EndOf(b)
    BY DEF EarlyOK
  <1>6. EndsAtMark(e, a.ptr, a.size) <=> e.mark = EndOf(a)
    BY DEF EndsAtMark, EndOf
  <1>7. CASE e.mark = EndOf(a)
    <2> DEFINE v == Wiped(e.word, a.ptr, e.mark)
    <2>1. Header(e, a.ptr, a.size) = e.mark - a.base
      <3>1. Header(e, a.ptr, a.size) = e.word[EndOf(a) - 1]
        <4>1. a.ptr + FullSize(a.size) - 1 = EndOf(a) - 1
          BY <1>1
        <4> QED  BY <4>1, Zenon DEF Header
      <3> QED  BY <1>1, <1>7, <3>1
    <2>2. d = [mark |-> e.mark - (e.mark - a.base), word |-> v]
      BY <1>6, <1>7, <2>1 DEF EarlyFree
    <2>3. d = [mark |-> a.base, word |-> v]
      <3>1. e.mark - (e.mark - a.base) = a.base
        BY <1>1
      <3> QED  BY <2>2, <3>1
    <2>4. /\ v \in [0 .. EarlySize - 1 -> Int \cup {Junk}]
          /\ \A i \in 0 .. EarlySize - 1 : i < a.ptr => v[i] = e.word[i]
      BY <1>1, WipedIs, SMTT(30)
    <2> HIDE DEF v, d
    <2>5. d.mark = a.base /\ d.word = v /\ a.base \in 0 .. EarlySize
      BY <1>1, <2>3
    <2>6. d \in Areas
      BY <2>3, <2>4, <2>5 DEF Areas
    <2>7. \A b \in B \ {a} : EndOf(b) <= a.base
      <3> TAKE b \in B \ {a}
      <3>1. b.ptr \in Nat /\ b.base \in Nat /\ EndOf(b) \in Nat /\ b.base <= b.ptr /\ b.ptr < EndOf(b)
            /\ EndOf(b) <= e.mark
        BY <1>2
      <3>2. EndOf(b) <= a.base \/ EndOf(a) <= b.base
        BY <1>3
      <3> QED  BY <1>1, <1>7, <3>1, <3>2
    <2>8. \A b \in B \ {a} : d.word[EndOf(b) - 1] = e.word[EndOf(b) - 1]
      <3>1. \A b \in B \ {a} : EndOf(b) - 1 < a.ptr
        BY <1>1, <1>2, <2>7
      <3> QED  BY <1>2, <2>4, <2>5, <3>1
    <2>9. \A b \in B \ {a} : (\A c \in B : c.base # EndOf(b)) => EndOf(b) < a.base
      <3> TAKE b \in B \ {a}
      <3>1. EndOf(b) <= a.base /\ EndOf(b) \in Nat
        BY <1>2, <2>7
      <3> QED  BY <1>1, <3>1
    <2>10. \A b \in B \ {a} : b.base <= b.ptr /\ EndOf(b) <= d.mark /\ b.ptr % b.align = 0
      BY <1>2, <2>5, <2>7
    <2>11. \A b \in B \ {a} : \/ d.word[EndOf(b) - 1] = EndOf(b) - b.base
                              \/ EndOf(b) < d.mark /\ \A c \in B \ {a} : c.base # EndOf(b)
      BY <1>5, <2>5, <2>8, <2>9
    <2>12. EarlyOK(d, B \ {a})
      BY <1>4, <2>10, <2>11 DEF EarlyOK
    <2> QED  BY <2>6, <2>12 DEF d
  <1>8. CASE e.mark # EndOf(a)
    <2> DEFINE v == Wiped(e.word, a.ptr, a.ptr + a.size)
    <2>1. d = [e EXCEPT !.word = v]
      BY <1>6, <1>8 DEF EarlyFree
    <2>2. /\ v \in [0 .. EarlySize - 1 -> Int \cup {Junk}]
          /\ \A i \in 0 .. EarlySize - 1 : i < a.ptr \/ a.ptr + a.size <= i => v[i] = e.word[i]
      BY <1>1, WipedIs, SMTT(30)
    <2> HIDE DEF v, d
    <2>3. d.mark = e.mark /\ d.word = v /\ d \in Areas
      BY <2>1, <2>2 DEF Areas
    <2>4. \A b \in B \ {a} : d.word[EndOf(b) - 1] = e.word[EndOf(b) - 1]
      <3>1. \A b \in B \ {a} : EndOf(b) - 1 < a.ptr \/ a.ptr + a.size <= EndOf(b) - 1
        <4> TAKE b \in B \ {a}
        <4>1. b.ptr \in Nat /\ b.base \in Nat /\ EndOf(b) \in Nat /\ b.base <= b.ptr /\ b.ptr < EndOf(b)
          BY <1>2
        <4>2. EndOf(b) <= a.base \/ EndOf(a) <= b.base
          BY <1>3
        <4> QED  BY <1>1, <4>1, <4>2, SMTT(30)
      <3> QED  BY <1>2, <2>2, <2>3, <3>1
    <2>5. EarlyOK(d, B \ {a})
      BY <1>2, <1>4, <1>5, <2>3, <2>4 DEF EarlyOK
    <2> QED  BY <2>3, <2>5 DEF d
  <1> QED  BY <1>7, <1>8

\* The last block gets another end, and a header that still leads to its base.
LEMMA EarlyMoved ==
    ASSUME NEW e \in Areas, NEW B \in SUBSET Allocations, EarlyOK(e, B), NEW a \in B, NEW n \in Allocations,
           \A b, c \in B : b.ptr = c.ptr => b = c,
           n.ptr = a.ptr, n.align = a.align, n.base = a.base, e.mark = EndOf(a),
           NEW d \in Areas, d.mark = EndOf(n),
           d.word[EndOf(n) - 1] = EndOf(n) - n.base,
           \A i \in 0 .. EarlySize - 1 : i < a.ptr => d.word[i] = e.word[i]
    PROVE  EarlyOK(d, (B \ {a}) \cup {n})
  <1>1. /\ a.ptr \in Nat /\ a.base \in Nat /\ EndOf(a) \in Nat /\ a.base <= a.ptr /\ a.ptr < EndOf(a)
        /\ a.ptr % a.align = 0
    BY BlockIs
  <1>2. EndOf(n) \in Nat /\ a.ptr < EndOf(n)
    <2>1. EndOf(n) = n.ptr + n.size + 1 /\ EndOf(n) \in Nat /\ n.size \in Nat
      BY EndIs DEF Allocations
    <2> QED  BY <1>1, <2>1
  <1>3. \A b \in B : /\ b.ptr \in Nat /\ b.base \in Nat /\ EndOf(b) \in Nat
                     /\ b.base <= b.ptr /\ b.ptr < EndOf(b) /\ EndOf(b) <= e.mark /\ b.ptr % b.align = 0
                     /\ EndOf(b) - 1 \in 0 .. EarlySize - 1
    BY BlockIs
  <1>4. \A b \in B \ {a} : EndOf(b) <= a.base
    <2>1. \A b \in B \ {a} : b.ptr # a.ptr
      OBVIOUS
    <2>2. \A b \in B \ {a} : EndOf(b) <= a.base \/ EndOf(a) <= b.base
      BY <2>1 DEF EarlyOK
    <2> QED  BY <1>1, <1>3, <2>2
  <1>5. \A b \in B \ {a} : EndOf(b) - 1 < a.ptr /\ EndOf(b) < EndOf(n) /\ b.base < EndOf(n)
    BY <1>1, <1>2, <1>3, <1>4
  <1>6. \A b \in B \ {a} : d.word[EndOf(b) - 1] = e.word[EndOf(b) - 1]
    BY <1>3, <1>5
  <1>7. ASSUME NEW b \in (B \ {a}) \cup {n}
        PROVE  b.base <= b.ptr /\ EndOf(b) <= d.mark /\ b.ptr % b.align = 0
    BY <1>1, <1>2, <1>3, <1>5
  <1>8. ASSUME NEW b \in (B \ {a}) \cup {n}, NEW c \in (B \ {a}) \cup {n}, b.ptr # c.ptr
        PROVE  EndOf(b) <= c.base \/ EndOf(c) <= b.base
    <2>1. CASE b \in B \ {a} /\ c \in B \ {a}
      BY <1>8, <2>1 DEF EarlyOK
    <2>2. CASE ~(b \in B \ {a} /\ c \in B \ {a})
      BY <1>4, <1>8, <2>2
    <2> QED  BY <2>1, <2>2
  <1>9. ASSUME NEW b \in (B \ {a}) \cup {n}
        PROVE  \/ d.word[EndOf(b) - 1] = EndOf(b) - b.base
               \/ EndOf(b) < d.mark /\ \A c \in (B \ {a}) \cup {n} : c.base # EndOf(b)
    <2>1. CASE b = n
      BY <2>1
    <2>2. CASE b \in B \ {a}
      <3>1. \/ e.word[EndOf(b) - 1] = EndOf(b) - b.base
            \/ \A c \in B : c.base # EndOf(b)
        BY <2>2 DEF EarlyOK
      <3>2. (\A c \in B : c.base # EndOf(b)) => \A c \in (B \ {a}) \cup {n} : c.base # EndOf(b)
        OBVIOUS
      <3> QED  BY <1>5, <1>6, <2>2, <3>1, <3>2
    <2> QED  BY <2>1, <2>2
  <1> QED  BY <1>7, <1>8, <1>9 DEF EarlyOK

\* A new mark and a header.
LEMMA HeaderSet ==
    ASSUME NEW w \in [0 .. EarlySize - 1 -> Int \cup {Junk}], NEW m \in 0 .. EarlySize,
           NEW at \in 0 .. EarlySize - 1, NEW val \in Int,
           NEW d, d = [mark |-> m, word |-> [w EXCEPT ![at] = val]]
    PROVE  /\ d \in Areas /\ d.mark = m /\ d.word[at] = val
           /\ \A i \in 0 .. EarlySize - 1 : i # at => d.word[i] = w[i]
  <1>1. /\ d.mark = m /\ d.word = [w EXCEPT ![at] = val]
        /\ d.word \in [0 .. EarlySize - 1 -> Int \cup {Junk}]
    OBVIOUS
  <1>2. d \in Areas
    BY <1>1 DEF Areas
  <1> QED  BY <1>1, <1>2

HeaderIs(x, p, old, new, h) ==
    p \in Nat /\ old \in Nat /\ new \in Nat /\ h \in Int /\ x.word[p + old] = h

\* The end of realloc_grow and realloc_shrink, in words.
LEMMA MovedIs ==
    ASSUME NEW x, NEW p, NEW old, NEW new, NEW h, HeaderIs(x, p, old, new, h)
    PROVE  Moved(x, p, old, new) =
                [mark |-> p + new + 1, word |-> [x.word EXCEPT ![p + new] = h - old + new]]
  <1> USE DEF HeaderIs
  <1>1. FullSize(old) = old + 1 /\ FullSize(new) = new + 1
    BY DEF FullSize
  <1>2. p + (old + 1) - 1 = p + old /\ p + (new + 1) - 1 = p + new /\ p + (new + 1) = p + new + 1
    OBVIOUS
  <1>3. Header(x, p, old) = h
    BY <1>1, <1>2 DEF Header
  <1>4. h - (old + 1) + (new + 1) = h - old + new
    OBVIOUS
  <1> QED  BY <1>1, <1>2, <1>3, <1>4 DEF Moved

\* The header of a resized block changes by what its size does.
LEMMA SizeMoves ==
    ASSUME NEW x \in Int, NEW old \in Int, NEW new \in Int, NEW b \in Int,
           NEW h, h = x + old + 1 - b
    PROVE  h - old + new = x + new + 1 - b
  OBVIOUS

\* realloc_grow
LEMMA EarlyGrown ==
    ASSUME NEW e \in Areas, NEW B \in SUBSET Allocations, EarlyOK(e, B), NEW a \in B,
           \A b, c \in B : b.ptr = c.ptr => b = c,
           NEW size \in Nat, size > a.size, EndsAtMark(e, a.ptr, a.size),
           HasRoomFor(e, FullSize(size) - FullSize(a.size)),
           NEW n \in Allocations, n.ptr = a.ptr, n.align = a.align, n.base = a.base, n.size = size
    PROVE  LET d == EarlyGrow(e, a.ptr, a.size, size)
           IN d \in Areas /\ EarlyOK(d, (B \ {a}) \cup {n})
  <1> DEFINE d == EarlyGrow(e, a.ptr, a.size, size)
             p == a.ptr
             old == a.size
             v == Wiped(e.word, p + FullSize(old), p + FullSize(size))
             x == [e EXCEPT !.word = v]
             h == EndOf(a) - a.base
  <1>1. /\ p \in Nat /\ a.base \in Nat /\ old \in Nat /\ EndOf(a) \in Nat
        /\ e.mark \in Nat /\ EarlySize \in Nat
        /\ e.word \in [0 .. EarlySize - 1 -> Int \cup {Junk}]
        /\ EndOf(a) = p + old + 1 /\ FullSize(old) = old + 1
        /\ EndOf(a) - 1 \in 0 .. EarlySize - 1
        /\ EndOf(a) = e.mark => e.word[EndOf(a) - 1] = EndOf(a) - a.base
    BY BlockIs
  <1>2. e.mark = EndOf(a)
    BY DEF EndsAtMark, EndOf
  <1>3. FullSize(size) = size + 1
    BY DEF FullSize
  <1>4. d = Moved(x, p, old, size)
    BY DEF EarlyGrow
  <1>5. p + FullSize(old) \in Int /\ p + FullSize(size) \in Int
    BY <1>1, <1>3
  <1>6. /\ v \in [0 .. EarlySize - 1 -> Int \cup {Junk}]
        /\ \A i \in 0 .. EarlySize - 1 : i < p + FullSize(old) => v[i] = e.word[i]
    BY <1>1, <1>5, WipedIs, ZenonT(40)
  <1> HIDE DEF v
  <1>7. x \in Areas /\ x.word = v
    BY <1>6 DEF Areas
  <1> HIDE DEF x
  <1>8. EarlySize - e.mark >= (size + 1) - (old + 1)
    <2>1. EarlySize - e.mark >= FullSize(size) - FullSize(old)
      BY DEF HasRoomFor
    <2>2. FullSize(old) = old + 1
      BY <1>1
    <2> HIDE DEF p, old
    <2> QED  BY <1>3, <2>1, <2>2
  <1> HIDE DEF d, p, old
  <1>9. p + size + 1 <= EarlySize /\ size > old
    <2>1. size > old
      BY DEF old
    <2>2. p \in Int /\ old \in Int /\ EarlySize \in Int /\ size \in Int
      BY <1>1
    <2>3. EarlySize - (p + old + 1) >= (size + 1) - (old + 1)
      BY <1>1, <1>2, <1>8
    <2>4. \A i, j, k, m \in Int : m - (i + j + 1) >= (k + 1) - (j + 1) => i + k + 1 <= m
      OBVIOUS
    <2>5. p + size + 1 <= EarlySize
      BY <2>2, <2>3, <2>4
    <2> QED  BY <2>1, <2>5
  <1>10. p + old \in 0 .. EarlySize - 1 /\ p + old = EndOf(a) - 1 /\ p + old < p + FullSize(old)
    BY <1>1
  <1>11. x.word[p + old] = h /\ h \in Int
    <2>1. v[p + old] = e.word[p + old]
      BY <1>6, <1>10
    <2> QED  BY <1>1, <1>2, <1>7, <1>10, <2>1
  <1> HIDE DEF h
  <1>12. /\ d \in Areas /\ d.mark = p + size + 1
         /\ d.word[p + size] = h - old + size
         /\ \A i \in 0 .. EarlySize - 1 : i # p + size => d.word[i] = x.word[i]
    <2>1. /\ x \in Areas /\ p \in Nat /\ old \in Nat /\ h \in Int
          /\ p + size + 1 <= EarlySize /\ x.word[p + old] = h /\ d = Moved(x, p, old, size)
      BY <1>1, <1>4, <1>7, <1>9, <1>11
    <2> DEFINE at == p + size
               m == p + size + 1
               val == h - old + size
    <2>2. d = [mark |-> m, word |-> [x.word EXCEPT ![at] = val]]
      <3>1. HeaderIs(x, p, old, size, h)
        BY <2>1 DEF HeaderIs
      <3>2. Moved(x, p, old, size) = [mark |-> m, word |-> [x.word EXCEPT ![at] = val]]
        BY <3>1, MovedIs
      <3> QED  BY <2>1, <3>2
    <2>3. at \in 0 .. EarlySize - 1 /\ m \in 0 .. EarlySize /\ val \in Int
      BY <1>1, <2>1
    <2>4. x.word \in [0 .. EarlySize - 1 -> Int \cup {Junk}]
      BY <1>6, <1>7
    <2> DEFINE xw == x.word
    <2>5. d = [mark |-> m, word |-> [xw EXCEPT ![at] = val]] /\ xw \in [0 .. EarlySize - 1 -> Int \cup {Junk}]
      BY <2>2, <2>4
    <2> HIDE DEF at, m, val, xw
    <2>6. /\ d \in Areas /\ d.mark = m /\ d.word[at] = val
          /\ \A i \in 0 .. EarlySize - 1 : i # at => d.word[i] = xw[i]
      BY <2>3, <2>5, HeaderSet
    <2> QED  BY <2>6 DEF at, m, val, xw
  <1>13. EndOf(n) = p + size + 1 /\ EndOf(n) - 1 = p + size
    <2>1. EndOf(n) = n.ptr + n.size + 1
      BY EndIs
    <2>2. n.ptr = p
      BY DEF p
    <2> QED  BY <1>1, <2>1, <2>2
  <1>14. h - old + size = EndOf(n) - n.base
    <2>1. h = p + old + 1 - a.base /\ EndOf(n) - n.base = p + size + 1 - a.base
      BY <1>1, <1>13 DEF h
    <2>2. p \in Int /\ old \in Int /\ a.base \in Int /\ size \in Int
      BY <1>1
    <2> HIDE DEF h, p, old
    <2>3. h - old + size = p + size + 1 - a.base
      BY <2>1, <2>2, SizeMoves
    <2> QED  BY <2>1, <2>3
  <1>15. \A i \in 0 .. EarlySize - 1 : i < p => d.word[i] = e.word[i]
    <2> TAKE i \in 0 .. EarlySize - 1
    <2> HAVE i < p
    <2>1. i # p + size /\ i < p + FullSize(old)
      BY <1>1
    <2> QED  BY <1>6, <1>7, <1>12, <2>1
  <1>16. EarlyOK(d, (B \ {a}) \cup {n})
    <2>1. d.mark = EndOf(n) /\ d.word[EndOf(n) - 1] = EndOf(n) - n.base
      BY <1>12, <1>13, <1>14
    <2>2. \A i \in 0 .. EarlySize - 1 : i < a.ptr => d.word[i] = e.word[i]
      BY <1>15 DEF p
    <2> QED  BY <1>2, <1>12, <2>1, <2>2, EarlyMoved
  <1> QED  BY <1>12, <1>16 DEF d, p, old

\* realloc_shrink
LEMMA EarlyShrunk ==
    ASSUME NEW e \in Areas, NEW B \in SUBSET Allocations, EarlyOK(e, B), NEW a \in B,
           \A b, c \in B : b.ptr = c.ptr => b = c,
           NEW size \in Nat, size < a.size,
           NEW n \in Allocations, n.ptr = a.ptr, n.align = a.align, n.base = a.base, n.size = size
    PROVE  LET d == EarlyShrink(e, a.ptr, a.size, size)
           IN d \in Areas /\ EarlyOK(d, (B \ {a}) \cup {n})
  <1> DEFINE d == EarlyShrink(e, a.ptr, a.size, size)
             p == a.ptr
             old == a.size
             v == Wiped(e.word, p + size, p + old)
             w == [e EXCEPT !.word = v]
             m == Moved(w, p, old, size)
             h == EndOf(a) - a.base
  <1>1. /\ p \in Nat /\ a.base \in Nat /\ old \in Nat /\ EndOf(a) \in Nat
        /\ e.mark \in Nat /\ e.mark <= EarlySize /\ EarlySize \in Nat
        /\ e.word \in [0 .. EarlySize - 1 -> Int \cup {Junk}]
        /\ EndOf(a) = p + old + 1
        /\ a.base <= p /\ EndOf(a) <= e.mark
        /\ EndOf(a) - 1 \in 0 .. EarlySize - 1
        /\ EndOf(a) = e.mark => e.word[EndOf(a) - 1] = EndOf(a) - a.base
    BY BlockIs
  <1>2. EndsAtMark(e, p, old) <=> e.mark = EndOf(a)
    BY DEF EndsAtMark, EndOf
  <1>3. d = IF EndsAtMark(e, p, old) THEN [m EXCEPT !.word = Wiped(@, m.mark, e.mark)] ELSE w
    BY DEF EarlyShrink
  <1>4. /\ v \in [0 .. EarlySize - 1 -> Int \cup {Junk}]
        /\ \A i \in 0 .. EarlySize - 1 : i < p + size \/ p + old <= i => v[i] = e.word[i]
    <2> DEFINE from == p + size
               to == p + old
               x == e.word
    <2>1. from \in Int /\ to \in Int /\ x \in [0 .. EarlySize - 1 -> Int \cup {Junk}] /\ v = Wiped(x, from, to)
      <3>1. p \in Nat /\ old \in Nat /\ x \in [0 .. EarlySize - 1 -> Int \cup {Junk}]
        BY <1>1
      <3> HIDE DEF p, old
      <3>2. from \in Int /\ to \in Int
        BY <3>1
      <3>3. v = Wiped(x, from, to)
        OBVIOUS
      <3> HIDE DEF from, to, x, v
      <3> QED  BY <3>1, <3>2, <3>3
    <2> HIDE DEF from, to, x, v
    <2>2. /\ v \in [0 .. EarlySize - 1 -> Int \cup {Junk}]
          /\ \A i \in 0 .. EarlySize - 1 : i < from \/ to <= i => v[i] = x[i]
      BY <2>1, WipedIs
    <2> QED  BY <2>2 DEF from, to, x
  <1> HIDE DEF v
  <1>5. w \in Areas /\ w.word = v /\ w.mark = e.mark
    BY <1>4 DEF Areas
  <1> HIDE DEF w
  <1>6. EndOf(n) = p + size + 1 /\ EndOf(n) - 1 = p + size /\ EndOf(n) \in Nat
    <2>1. EndOf(n) = n.ptr + n.size + 1
      BY EndIs
    <2>2. n.ptr = p /\ n.size = size /\ p \in Nat
      BY <1>1
    <2> HIDE DEF p
    <2> QED  BY <2>1, <2>2
  <1> HIDE DEF d, m
  <1>7. size < old /\ n.base = a.base /\ n.ptr = p /\ p % n.align = 0
    <2>1. p % a.align = 0
      BY BlockIs
    <2> QED  BY <2>1
  <1>8. CASE e.mark = EndOf(a)
    <2> HIDE DEF p, old
    <2>1. d = [m EXCEPT !.word = Wiped(@, m.mark, e.mark)]
      BY <1>2, <1>3, <1>8
    <2>2. p + old = EndOf(a) - 1 /\ p + old \in 0 .. EarlySize - 1
      BY <1>1
    <2>3. w.word[p + old] = h /\ h \in Int
      <3>1. p + old <= p + old
        BY <2>2
      <3>2. v[p + old] = e.word[p + old]
        BY <1>4, <2>2, <3>1
      <3> QED  BY <1>1, <1>5, <1>8, <2>2, <3>2
    <2> HIDE DEF h
    <2>4. p + size + 1 <= EarlySize
      BY <1>1, <1>7
    <2>5. /\ m \in Areas /\ m.mark = p + size + 1
          /\ m.word[p + size] = h - old + size
          /\ \A i \in 0 .. EarlySize - 1 : i # p + size => m.word[i] = w.word[i]
      <3>1. /\ w \in Areas /\ p \in Nat /\ old \in Nat /\ h \in Int
            /\ p + size + 1 <= EarlySize /\ w.word[p + old] = h /\ m = Moved(w, p, old, size)
        BY <1>1, <1>5, <2>3, <2>4 DEF m
      <3> DEFINE at == p + size
                 k == p + size + 1
                 val == h - old + size
      <3>2. m = [mark |-> k, word |-> [w.word EXCEPT ![at] = val]]
        <4>1. HeaderIs(w, p, old, size, h)
          BY <3>1 DEF HeaderIs
        <4>2. Moved(w, p, old, size) = [mark |-> k, word |-> [w.word EXCEPT ![at] = val]]
          BY <4>1, MovedIs
        <4> QED  BY <3>1, <4>2
      <3>3. at \in 0 .. EarlySize - 1 /\ k \in 0 .. EarlySize /\ val \in Int
        BY <1>1, <3>1, SMTT(30)
      <3>4. w.word \in [0 .. EarlySize - 1 -> Int \cup {Junk}]
        BY <1>4, <1>5
      <3> HIDE DEF at, k, val
      <3>5. /\ m \in Areas /\ m.mark = k /\ m.word[at] = val
            /\ \A i \in 0 .. EarlySize - 1 : i # at => m.word[i] = w.word[i]
        BY <3>2, <3>3, <3>4, HeaderSet
      <3> QED  BY <3>5 DEF at, k, val
    <2>6. m.word \in [0 .. EarlySize - 1 -> Int \cup {Junk}] /\ m.mark \in Nat
      BY <1>1, <2>5 DEF Areas
    <2> DEFINE u == Wiped(m.word, m.mark, e.mark)
    <2>7. /\ u \in [0 .. EarlySize - 1 -> Int \cup {Junk}]
          /\ \A i \in 0 .. EarlySize - 1 : i < m.mark => u[i] = m.word[i]
      BY <1>1, <2>6, WipedIs, SMTT(30)
    <2>8. d = [m EXCEPT !.word = u]
      BY <2>1
    <2> HIDE DEF u
    <2>9. d \in Areas /\ d.mark = m.mark /\ d.word = u
      BY <2>5, <2>7, <2>8 DEF Areas
    <2>10. d.word[EndOf(n) - 1] = EndOf(n) - n.base
      <3>1. p + size \in 0 .. EarlySize - 1 /\ p + size < m.mark
        BY <1>1, <2>4, <2>5
      <3>2. d.word[p + size] = h - old + size
        BY <2>5, <2>7, <2>9, <3>1
      <3>3. h - old + size = EndOf(n) - n.base
        <4>1. h = p + old + 1 - a.base /\ EndOf(n) - n.base = p + size + 1 - a.base
          BY <1>1, <1>6, <1>7 DEF h
        <4>2. p \in Int /\ old \in Int /\ a.base \in Int /\ size \in Int
          BY <1>1
        <4>3. h - old + size = p + size + 1 - a.base
          BY <4>1, <4>2, SizeMoves
        <4> QED  BY <4>1, <4>3
      <3> QED  BY <1>6, <3>2, <3>3
    <2>11. \A i \in 0 .. EarlySize - 1 : i < a.ptr => d.word[i] = e.word[i]
      <3> SUFFICES ASSUME NEW i \in 0 .. EarlySize - 1, i < p PROVE d.word[i] = e.word[i]
        BY DEF p
      <3>1. i # p + size /\ i < p + size /\ i < m.mark
        BY <1>1, <2>5
      <3> QED  BY <1>4, <1>5, <2>5, <2>7, <2>9, <3>1
    <2>12. EarlyOK(d, (B \ {a}) \cup {n})
      <3>1. d.mark = EndOf(n)
        BY <1>6, <2>5, <2>9
      <3> QED  BY <1>8, <2>9, <2>10, <2>11, <3>1, EarlyMoved
    <2> QED  BY <2>9, <2>12 DEF d, p, old
  <1>9. CASE e.mark # EndOf(a)
    <2>1. d = w
      BY <1>2, <1>3, <1>9
    <2>2. \A b \in B : /\ b.ptr \in Nat /\ b.base \in Nat /\ EndOf(b) \in Nat
                       /\ b.base <= b.ptr /\ b.ptr < EndOf(b) /\ EndOf(b) <= e.mark /\ b.ptr % b.align = 0
                       /\ EndOf(b) - 1 \in 0 .. EarlySize - 1
      BY BlockIs
    <2>3. \A b \in B \ {a} : EndOf(b) <= a.base \/ EndOf(a) <= b.base
      <3>1. \A b \in B \ {a} : b.ptr # a.ptr
        OBVIOUS
      <3> QED  BY <3>1 DEF EarlyOK
    <2>4. ASSUME NEW b \in B \ {a}
          PROVE  /\ d.word[EndOf(b) - 1] = e.word[EndOf(b) - 1] /\ b.base # EndOf(n)
                 /\ EndOf(b) <= n.base \/ EndOf(n) <= b.base
      <3>1. /\ b.ptr \in Nat /\ b.base \in Nat /\ EndOf(b) \in Nat /\ b.base <= b.ptr /\ b.ptr < EndOf(b)
            /\ EndOf(b) - 1 \in 0 .. EarlySize - 1
        BY <2>2
      <3>2. EndOf(b) <= a.base \/ EndOf(a) <= b.base
        BY <2>3
      <3> HIDE DEF p, old
      <3>3. EndOf(b) - 1 < p + size \/ p + old <= EndOf(b) - 1
        BY <1>1, <3>1, <3>2
      <3>4. b.base # EndOf(n) /\ (EndOf(b) <= n.base \/ EndOf(n) <= b.base)
        BY <1>1, <1>6, <1>7, <3>1, <3>2
      <3> QED  BY <1>4, <1>5, <2>1, <3>1, <3>3, <3>4
    <2>5. n.base <= n.ptr /\ EndOf(n) < e.mark /\ n.ptr % n.align = 0 /\ n.base # EndOf(n)
      <3> HIDE DEF p, old
      <3>1. EndOf(n) < EndOf(a)
        BY <1>1, <1>6, <1>7
      <3> QED  BY <1>1, <1>6, <1>7, <3>1
    <2>6. d.mark = e.mark /\ d \in Areas
      BY <1>5, <2>1
    <2> HIDE DEF p, old
    <2> DEFINE C == (B \ {a}) \cup {n}
    <2>7. \A b \in C : b.base <= b.ptr /\ EndOf(b) <= d.mark /\ b.ptr % b.align = 0
      <3>1. EndOf(n) <= e.mark
        BY <1>1, <1>6, <2>5
      <3> QED  BY <2>2, <2>5, <2>6, <3>1
    <2>8. ASSUME NEW b \in C, NEW c \in C, b.ptr # c.ptr PROVE EndOf(b) <= c.base \/ EndOf(c) <= b.base
      <3>1. CASE b \in B \ {a} /\ c \in B \ {a}
        BY <2>8, <3>1 DEF EarlyOK
      <3>2. CASE b = n \/ c = n
        BY <2>4, <2>8, <3>2
      <3> QED  BY <3>1, <3>2
    <2>9. ASSUME NEW b \in C
          PROVE  \/ d.word[EndOf(b) - 1] = EndOf(b) - b.base
                 \/ EndOf(b) < d.mark /\ \A c \in C : c.base # EndOf(b)
      <3>1. CASE b = n
        BY <2>4, <2>5, <2>6, <3>1
      <3>2. CASE b \in B \ {a}
        <4>1. \/ e.word[EndOf(b) - 1] = EndOf(b) - b.base
              \/ EndOf(b) < e.mark /\ \A c \in B : c.base # EndOf(b)
          BY <3>2 DEF EarlyOK
        <4>2. (\A c \in B : c.base # EndOf(b)) => \A c \in C : c.base # EndOf(b)
          BY <1>7
        <4> QED  BY <2>4, <2>6, <3>2, <4>1, <4>2
      <3> QED  BY <3>1, <3>2
    <2>10. EarlyOK(d, C)
      BY <2>7, <2>8, <2>9 DEF EarlyOK
    <2> QED  BY <2>6, <2>10 DEF d, p, old
  <1> QED  BY <1>8, <1>9

-----------------------------------------------------------------------------
(* Frames that change hands                                                *)

\* No frame is None.
LEMMA NotNone == None \notin HeapFrames /\ None \notin DOMAIN BootTable
  BY HeapAssumption

\* A call takes frames.
LEMMA FramesTaken ==
    ASSUME NEW M, NEW t, NEW F \in SUBSET HeapFrames, NEW r, NEW S \in SUBSET F, FramesOwned(M, t, F, {}, r)
    PROVE  FramesOwned(M, t, F \ S, S, r)
  BY DEF FramesOwned

\* A call maps a page, perhaps with a new table.
LEMMA FrameMapped ==
    ASSUME NEW M \in SUBSET AllPages, NEW t, NEW F \in SUBSET HeapFrames, NEW G \in SUBSET HeapFrames, NEW r,
           FramesOwned(M, t, F, G, r), NEW f \in G, NEW p \in AllPages \ M, NEW D \in SUBSET F,
           NEW u, DOMAIN u = DOMAIN t \cup D,
           \A q \in AllPages : GetPage(u, KRoot, q) = IF q = p THEN f ELSE GetPage(t, KRoot, q)
    PROVE  FramesOwned(M \cup {p}, u, F \ D, G \ {f}, r)
  <1>1. GetPage(u, KRoot, p) = f
    OBVIOUS
  <1>2. \A q \in M : q # p /\ GetPage(u, KRoot, q) = GetPage(t, KRoot, q)
    OBVIOUS
  <1>3. \A q \in M : /\ GetPage(t, KRoot, q) \in HeapFrames
                     /\ GetPage(t, KRoot, q) \notin F \cup DOMAIN t \cup G \cup {r}
    BY DEF FramesOwned
  <1>4. \A q1, q2 \in M : GetPage(t, KRoot, q1) = GetPage(t, KRoot, q2) => q1 = q2
    BY DEF FramesOwned
  <1>5. /\ F \cap DOMAIN t = {} /\ F \cap G = {} /\ G \cap DOMAIN t = {}
        /\ r \notin F \cup G \cup DOMAIN t
        /\ DOMAIN BootTable \subseteq DOMAIN t /\ DOMAIN t \subseteq DOMAIN BootTable \cup HeapFrames
    BY DEF FramesOwned
  <1>6. \A g \in HeapFrames :
            g \in F \cup DOMAIN t \cup G \cup {r} \/ \E q \in M : GetPage(t, KRoot, q) = g
    BY DEF FramesOwned
  <1>7. ASSUME NEW q \in M \cup {p}
        PROVE  /\ GetPage(u, KRoot, q) \in HeapFrames
               /\ GetPage(u, KRoot, q) \notin (F \ D) \cup DOMAIN u \cup (G \ {f}) \cup {r}
    <2>1. CASE q = p
      BY <1>1, <1>5, <2>1
    <2>2. CASE q \in M
      BY <1>2, <1>3, <1>5, <2>2
    <2> QED  BY <2>1, <2>2
  <1>8. ASSUME NEW q1 \in M \cup {p}, NEW q2 \in M \cup {p}, GetPage(u, KRoot, q1) = GetPage(u, KRoot, q2)
        PROVE  q1 = q2
    <2>1. CASE q1 \in M /\ q2 \in M
      BY <1>2, <1>4, <1>8, <2>1
    <2>2. CASE q1 = p /\ q2 \in M
      BY <1>1, <1>2, <1>3, <1>8, <2>2
    <2>3. CASE q1 \in M /\ q2 = p
      BY <1>1, <1>2, <1>3, <1>8, <2>3
    <2> QED  BY <2>1, <2>2, <2>3
  <1>9. ASSUME NEW g \in HeapFrames
        PROVE  \/ g \in (F \ D) \cup DOMAIN u \cup (G \ {f}) \cup {r}
               \/ \E q \in M \cup {p} : GetPage(u, KRoot, q) = g
    <2>1. CASE g = f
      BY <1>1, <2>1
    <2>2. CASE g # f
      BY <1>2, <1>6, <2>2
    <2> QED  BY <2>1, <2>2
  <1>10. /\ (F \ D) \cap DOMAIN u = {} /\ (F \ D) \cap (G \ {f}) = {} /\ (G \ {f}) \cap DOMAIN u = {}
         /\ r \notin (F \ D) \cup (G \ {f}) \cup DOMAIN u
         /\ DOMAIN BootTable \subseteq DOMAIN u /\ DOMAIN u \subseteq DOMAIN BootTable \cup HeapFrames
    BY <1>5
  <1> QED  BY <1>7, <1>8, <1>9, <1>10 DEF FramesOwned

\* The frames of pages are freed.
LEMMA FramesFreed ==
    ASSUME NEW M, NEW t, NEW F \in SUBSET HeapFrames, NEW G, NEW r, FramesOwned(M, t, F, G, r),
           NEW ps \in SUBSET M, NEW u, DOMAIN u = DOMAIN t,
           \A q \in M \ ps : GetPage(u, KRoot, q) = GetPage(t, KRoot, q)
    PROVE  LET E == F \cup {GetPage(t, KRoot, q) : q \in ps}
           IN E \subseteq HeapFrames /\ FramesOwned(M \ ps, u, E, G, r)
  <1> DEFINE E == F \cup {GetPage(t, KRoot, q) : q \in ps}
  <1>1. \A g : g \in E <=> g \in F \/ \E q \in ps : g = GetPage(t, KRoot, q)
    OBVIOUS
  <1> HIDE DEF E
  <1>2. \A q \in M : /\ GetPage(t, KRoot, q) \in HeapFrames
                     /\ GetPage(t, KRoot, q) \notin F \cup DOMAIN t \cup G \cup {r}
    BY DEF FramesOwned
  <1>3. \A q1, q2 \in M : GetPage(t, KRoot, q1) = GetPage(t, KRoot, q2) => q1 = q2
    BY DEF FramesOwned
  <1>4. /\ F \cap DOMAIN t = {} /\ F \cap G = {} /\ G \cap DOMAIN t = {}
        /\ r \notin F \cup G \cup DOMAIN t
        /\ DOMAIN BootTable \subseteq DOMAIN t /\ DOMAIN t \subseteq DOMAIN BootTable \cup HeapFrames
    BY DEF FramesOwned
  <1>5. \A g \in HeapFrames :
            g \in F \cup DOMAIN t \cup G \cup {r} \/ \E q \in M : GetPage(t, KRoot, q) = g
    BY DEF FramesOwned
  <1>6. E \subseteq HeapFrames
    BY <1>1, <1>2
  <1>7. E \cap DOMAIN u = {} /\ E \cap G = {} /\ r \notin E
    BY <1>1, <1>2, <1>4
  <1>8. ASSUME NEW q \in M \ ps
        PROVE  /\ GetPage(u, KRoot, q) \in HeapFrames
               /\ GetPage(u, KRoot, q) \notin E \cup DOMAIN u \cup G \cup {r}
    <2>1. GetPage(u, KRoot, q) = GetPage(t, KRoot, q)
      OBVIOUS
    <2>2. GetPage(t, KRoot, q) \notin E
      BY <1>1, <1>2, <1>3
    <2> QED  BY <1>2, <2>1, <2>2
  <1>9. \A q1, q2 \in M \ ps : GetPage(u, KRoot, q1) = GetPage(u, KRoot, q2) => q1 = q2
    BY <1>3
  <1>10. ASSUME NEW g \in HeapFrames
         PROVE  g \in E \cup DOMAIN u \cup G \cup {r} \/ \E q \in M \ ps : GetPage(u, KRoot, q) = g
    <2>1. CASE g \in F \cup DOMAIN t \cup G \cup {r}
      BY <1>1, <2>1
    <2>2. CASE \E q \in M : GetPage(t, KRoot, q) = g
      <3>1. PICK q \in M : GetPage(t, KRoot, q) = g
        BY <2>2
      <3>2. CASE q \in ps
        BY <1>1, <3>1, <3>2
      <3>3. CASE q \notin ps
        BY <3>1, <3>3
      <3> QED  BY <3>2, <3>3
    <2> QED  BY <1>5, <2>1, <2>2
  <1> QED  BY <1>4, <1>6, <1>7, <1>8, <1>9, <1>10 DEF FramesOwned, E

\* A frame becomes the root of an address space, first in hand and then a table.
LEMMA RootTaken ==
    ASSUME NEW M, NEW t, NEW F \in SUBSET HeapFrames, NEW G, FramesOwned(M, t, F, G, None), NEW f \in F
    PROVE  FramesOwned(M, t, F \ {f}, G, f)
  <1>1. f \in HeapFrames /\ f # None
    BY NotNone
  <1>2. \A g \in HeapFrames : g # None
    BY NotNone
  <1> QED  BY <1>1, <1>2 DEF FramesOwned

\* Then AddressSpace::new fills it, and it is a table.
LEMMA RootMade ==
    ASSUME NEW M, NEW t, NEW F \in SUBSET HeapFrames, NEW G \in SUBSET HeapFrames, NEW r \in HeapFrames,
           FramesOwned(M, t, F, G, r),
           NEW u, DOMAIN u = DOMAIN t \cup {r},
           \A q \in M : GetPage(u, KRoot, q) = GetPage(t, KRoot, q)
    PROVE  FramesOwned(M, u, F, G, None)
  <1>1. \A g \in HeapFrames \cup DOMAIN BootTable : g # None
    BY NotNone
  <1>2. None \notin F \cup G \cup DOMAIN u
    BY <1>1 DEF FramesOwned
  <1>3. \A q \in M : /\ GetPage(u, KRoot, q) \in HeapFrames
                     /\ GetPage(u, KRoot, q) \notin F \cup DOMAIN u \cup G \cup {None}
    BY <1>1 DEF FramesOwned
  <1>4. \A p, q \in M : GetPage(u, KRoot, p) = GetPage(u, KRoot, q) => p = q
    BY DEF FramesOwned
  <1>5. F \cap DOMAIN u = {} /\ F \cap G = {} /\ G \cap DOMAIN u = {}
    BY DEF FramesOwned
  <1>6. DOMAIN BootTable \subseteq DOMAIN u /\ DOMAIN u \subseteq DOMAIN BootTable \cup HeapFrames
    BY DEF FramesOwned
  <1>7. \A f \in HeapFrames :
            f \in F \cup DOMAIN u \cup G \cup {None} \/ \E p \in M : GetPage(u, KRoot, p) = f
    BY DEF FramesOwned
  <1> QED  BY <1>2, <1>3, <1>4, <1>5, <1>6, <1>7 DEF FramesOwned

\* Frames become tables.
LEMMA TablesMade ==
    ASSUME NEW t, NEW F \in SUBSET HeapFrames, FramesOwned({}, t, F, {}, None),
           NEW D \in SUBSET F, NEW u, DOMAIN u = DOMAIN t \cup D
    PROVE  F \ DOMAIN u = F \ D /\ FramesOwned({}, u, F \ D, {}, None)
  <1>1. \A g \in HeapFrames : g # None
    BY NotNone
  <1> QED  BY <1>1 DEF FramesOwned

-----------------------------------------------------------------------------
(* What the invariant says of one allocation                               *)

\* It is early or in its place, and its type is found again from its address.
LEMMA AllocIs ==
    ASSUME HeapInv, NEW a \in live
    PROVE  /\ a \in Allocations /\ a.ptr \in Nat /\ a.size \in Nat \ {0} /\ a.align \in Nat \ {0}
           /\ \E l \in Layouts : a.align = l[2]
           /\ a.ty = Early => a.ptr < EarlySize
           /\ a.ty # Early => /\ Placed(a, slabs) /\ a.ptr >= EarlySize /\ ~useEarly
                              /\ a.ty \in Classes \cup {Page}
           /\ ExistingType(a) = a.ty
  <1>1. a \in Allocations /\ a.size # 0 /\ \E l \in Layouts : a.align = l[2]
    BY DEF HeapInv, Types, AllocsOK
  <1>2. a.ptr \in Nat /\ a.size \in Nat \ {0} /\ a.align \in Nat
    BY <1>1 DEF Allocations
  <1>3. a.align \in Nat \ {0}
    BY <1>1, HeapAssumption
  <1>4. ASSUME a.ty = Early PROVE a.ptr < EarlySize
    <2>1. early \in Areas /\ a \in Blocks(live) /\ EarlyOK(early, Blocks(live))
      BY <1>4 DEF HeapInv, Types, Areas, Blocks
    <2>2. EndOf(a) <= early.mark
      BY <2>1 DEF EarlyOK
    <2>3. early.mark \in 0 .. EarlySize
      BY <2>1 DEF Areas
    <2> QED  BY <1>1, <1>2, <2>2, <2>3, EndIs, Sizes
  <1>5. ASSUME a.ty # Early
        PROVE  /\ Placed(a, slabs) /\ a.ptr >= EarlySize /\ ~useEarly
               /\ a.ty \in Classes \cup {Page} /\ a.ty = LateType(a.size, a.align)
    <2>1. Placed(a, slabs)
      BY <1>5 DEF HeapInv, LateOK
    <2>2. ~useEarly
      BY <1>5 DEF HeapInv, BootOK
    <2>3. a.ty = LateType(a.size, a.align) /\ a.ptr >= EarlySize
      BY <2>1 DEF Placed
    <2> QED  BY <1>2, <2>1, <2>2, <2>3, LateTypes
  <1>6. ExistingType(a) = a.ty
    <2>1. CASE a.ty = Early
      BY <1>2, <1>4, <2>1 DEF ExistingType, InEarlyRegion
    <2>2. CASE a.ty # Early
      <3>1. ~InEarlyRegion(a.ptr)
        BY <1>2, <1>5, <2>2, Sizes DEF InEarlyRegion
      <3>2. NewType(a.size, a.align) = LateType(a.size, a.align)
        BY <1>5, <2>2, NewTypeIs
      <3> QED  BY <1>5, <2>2, <3>1, <3>2 DEF ExistingType
    <2> QED  BY <2>1, <2>2
  <1> QED  BY <1>1, <1>2, <1>3, <1>4, <1>5, <1>6

\* A free object of a slab is an address of no allocation.
LEMMA ObjectFound ==
    ASSUME HeapInv, NEW c \in Classes, FreeObjects(c) # {}, NEW o, o = Least(FreeObjects(c))
    PROVE  /\ o \in Nat /\ o >= EarlySize /\ PageAt(o) \in slabs[c]
           /\ \E k \in 0 .. Page : o = Addr(PageAt(o)) + k * c /\ k * c + c <= Page
           /\ \A a \in live : a.ptr # o
  <1>1. c \in Nat \ {0} /\ c < Page /\ Page \in Nat \ {0} /\ EarlySize \in Nat
    BY Sizes
  <1>2. slabs[c] \subseteq AllPages
    BY DEF HeapInv, Types
  <1>3. ASSUME NEW x \in Objects(c)
        PROVE  /\ x \in Nat /\ x >= EarlySize /\ PageAt(x) \in slabs[c]
               /\ \E k \in 0 .. Page : x = Addr(PageAt(x)) + k * c /\ k * c + c <= Page
    <2>1. PICK p \in slabs[c], k \in 0 .. Page \div c - 1 : x = Addr(p) + k * c
      BY DEF Objects
    <2>2. p \in Nat
      BY <1>2, PageIndices
    <2> DEFINE d == Page \div c
    <2>3. d \in Nat /\ d * c <= Page
      BY <1>1, DivMod
    <2>4. k \in Nat /\ k < d
      BY <2>1, <2>3
    <2> HIDE DEF d
    <2>5. k * c + c <= d * c
      BY <1>1, <2>3, <2>4, MulMono
    <2>6. k * c \in Nat
      BY <1>1, <2>4
    <2>7. k <= k * c
      BY <1>1, <2>4
    <2> DEFINE m == k * c
    <2> HIDE DEF m
    <2>8. m \in 0 .. Page - 1 /\ m + c <= Page /\ k \in 0 .. Page
      <3>1. d * c \in Nat /\ m \in Nat /\ m + c <= d * c /\ k <= m
        BY <1>1, <2>3, <2>5, <2>6, <2>7 DEF m
      <3> QED  BY <1>1, <2>3, <2>4, <3>1
    <2>9. x = Addr(p) + m
      BY <2>1 DEF m
    <2>10. PageAt(x) = p /\ Addr(p) \in Nat /\ Addr(p) >= EarlySize
      BY <2>2, <2>8, <2>9, WordsOfPage
    <2>11. x \in Nat /\ x >= EarlySize
      BY <1>1, <2>8, <2>9, <2>10
    <2>12. x = Addr(PageAt(x)) + k * c /\ k * c + c <= Page
      BY <2>8, <2>9, <2>10 DEF m
    <2> QED  BY <2>1, <2>8, <2>10, <2>11, <2>12
  <1>4. FreeObjects(c) \in SUBSET Nat
    BY <1>3 DEF FreeObjects
  <1>5. o \in FreeObjects(c)
    BY <1>4, LeastOf
  <1>6. o \in Objects(c) /\ \A a \in live : a.ty = c => a.ptr # o
    BY <1>5 DEF FreeObjects
  <1>7. ASSUME NEW a \in live, a.ptr = o PROVE FALSE
    <2>1. o \in Nat /\ o >= EarlySize /\ PageAt(o) \in slabs[c]
      BY <1>3, <1>6
    <2>2. a.ty # Early
      BY <1>1, <1>7, <2>1, AllocIs
    <2>3. Placed(a, slabs) /\ a.ty \in Classes \cup {Page}
      BY <2>2, AllocIs
    <2>4. CASE a.ty = Page
      <3>1. PageAt(o) \in Span(a)
        <4>1. NumPages(a.size) \in Nat \ {0}
          BY AllocIs, EnoughPages
        <4>2. PageAt(o) \in Nat
          BY <2>1, PageOfWord
        <4> QED  BY <1>7, <4>1, <4>2 DEF Span, PagesFrom, PageSpan
      <3>2. SlabPage(slabs, PageAt(o))
        BY <2>1 DEF SlabPage
      <3> QED  BY <2>4, <3>1, <3>2 DEF HeapInv, PagesApart
    <2>5. CASE a.ty # Page
      <3>1. a.ty \in Classes /\ PageAt(o) \in slabs[a.ty]
        BY <1>7, <2>3, <2>5 DEF Placed
      <3>2. a.ty = c
        BY <2>1, <3>1 DEF HeapInv, PagesApart
      <3> QED  BY <1>6, <1>7, <3>2
    <2> QED  BY <2>4, <2>5
  <1> QED  BY <1>3, <1>6, <1>7

-----------------------------------------------------------------------------
(* Steps that leave pages, frames and tables alone                         *)

\* Tables, pages and frames keep their owners.
LEMMA PagesQuiet ==
    ASSUME HeapInv, HeapPages' = HeapPages,
           UNCHANGED <<free, table, regions, call, spaces, newRoot, booted>>
    PROVE  /\ TreesOK' /\ PagesOwned(HeapPages, regions, CallPages)'
           /\ FramesOwned(Mapped, table, free, Got, newRoot)'
  <1>1. TreesOK'
    <2>1. TreesOK
      BY DEF HeapInv
    <2> QED  BY <2>1 DEF TreesOK
  <1>2. CallPages' = CallPages /\ Mapped' = Mapped /\ Got' = Got
    BY DEF CallPages, Mapped, Got, DonePages
  <1>3. PagesOwned(HeapPages, regions, CallPages)'
    BY <1>2 DEF HeapInv, PagesOwned
  <1>4. FramesOwned(Mapped, table, free, Got, newRoot)'
    BY <1>2 DEF HeapInv, FramesOwned
  <1> QED  BY <1>1, <1>3, <1>4

\* Allocations that are no pages leave the pages of the heap alone.
LEMMA SmallEvolves ==
    ASSUME HeapInv, NEW gone, NEW new, Evolves(live, live', gone, new), slabs' = slabs,
           \A n \in gone \cup new : n.ty # Page
    PROVE  HeapPages' = HeapPages /\ PagesApart(live', slabs')
  <1>1. AllocsOK(live) /\ PagesApart(live, slabs)
    BY DEF HeapInv, Types
  <1>2. \A p : ~AllocPage(gone, p) /\ ~AllocPage(new, p)
    BY DEF AllocPage
  <1>3. \A p : AllocPage(live', p) <=> AllocPage(live, p)
    BY <1>1, <1>2, PagesEvolve
  <1>4. \A p : p \in HeapPages' <=> p \in HeapPages
    BY <1>3, HeapPagesAre
  <1>5. HeapPages' = HeapPages
    BY <1>4 DEF HeapPages
  <1>6. PagesApart(live', slabs)
    <2> DEFINE u == live'
    <2>1. Evolves(live, u, gone, new)
      OBVIOUS
    <2> HIDE DEF u
    <2>2. \A c, d \in Classes : c # d => slabs[c] \cap slabs[d] = {}
      BY <1>1 DEF PagesApart
    <2>3. \A a, b \in u : a.ty = Page /\ b.ty = Page => \E x, y \in live : Like(a, x) /\ Like(b, y)
      BY <2>1 DEF Evolves
    <2>4. \A a, x : Like(a, x) => Span(a) = Span(x) /\ a.ptr = x.ptr /\ a.ty = x.ty
      BY DEF Like, Span, PagesFrom
    <2> QED  BY <1>1, <2>2, <2>3, <2>4 DEF PagesApart, u
  <1> QED  BY <1>5, <1>6

-----------------------------------------------------------------------------
(* Every step keeps the invariant                                          *)

\* The kernel panics, for a reason that is not excluded.
LEMMA PanicOnly ==
    ASSUME HeapInv, panic = None, panic' # "page is not mapped",
           UNCHANGED <<early, useEarly, booted, free, table, regions, slabs, live, call, spaces, newRoot>>
    PROVE  HeapInv'
  <1>1. HeapPages' = HeapPages
    BY DEF HeapPages, PagesFrom, PageSpan, PageAt, NumPages
  <1>2. /\ TreesOK' /\ PagesOwned(HeapPages, regions, CallPages)'
        /\ FramesOwned(Mapped, table, free, Got, newRoot)'
    BY <1>1, PagesQuiet
  <1>3. Types'
    BY DEF HeapInv, Types
  <1>4. BootOK'
    BY DEF HeapInv, BootOK
  <1>5. CallOK'
    BY DEF HeapInv, CallOK
  <1>6. EarlyOK(early, Blocks(live))' /\ LateOK(live, slabs)' /\ PagesApart(live, slabs)'
    BY DEF HeapInv
  <1> QED  BY <1>2, <1>3, <1>4, <1>5, <1>6 DEF HeapInv

\* A layout a client may ask for.
Asked(l) == l \in (Nat \ {0}) \X (Nat \ {0}) /\ \E k \in Layouts : l[2] = k[2]

\* alloc of the early allocator
LEMMA EarlyServed ==
    ASSUME HeapInv, Running, useEarly, NEW l, Asked(l), EarlyServe(l, {}),
           UNCHANGED <<bootVars, spaceVars>>
    PROVE  HeapInv'
  <1>1. panic = None /\ call = None
    BY DEF Running
  <1>2. CASE HasRoomFor(early, AllocSize(early, l[1], l[2]))
    <2> DEFINE n == New(EarlyPtr(early, l[2]), l, Early, early.mark)
               d == EarlyAlloc(early, l[1], l[2])
               B == Blocks(live)
    <2>1. /\ early' = d /\ Replaces({}, n)
          /\ UNCHANGED <<panic, free, table, regions, slabs, call, useEarly, booted, spaces, newRoot>>
      BY <1>2 DEF EarlyServe, pageVars, bootVars, spaceVars
    <2>2. B = live /\ early \in Areas /\ B \in SUBSET Allocations /\ EarlyOK(early, B)
      <3>1. \A a \in live : a.ty = Early
        BY DEF HeapInv, BootOK
      <3> QED  BY <3>1 DEF HeapInv, Blocks, Types, AllocsOK, Areas
    <2>3. /\ n \in Allocations /\ n.size = l[1] /\ n.align = l[2] /\ n.ty = Early
          /\ \A a \in B : a.ptr # n.ptr
          /\ d \in Areas /\ EarlyOK(d, B \cup {n})
      <3>1. l \in (Nat \ {0}) \X (Nat \ {0})
        BY DEF Asked
      <3> HIDE DEF B
      <3> QED  BY <1>2, <2>2, <3>1, EarlyAllocated
    <2> HIDE DEF n, d, B
    <2>4. n.size # 0 /\ \E k \in Layouts : n.align = k[2]
      BY <2>3 DEF Asked
    <2>5. AllocsOK(live') /\ Evolves(live, live', {}, {n})
      <3>1. AllocsOK(live) /\ {} \in SUBSET live
        BY DEF HeapInv, Types
      <3> QED  BY <2>1, <2>2, <2>3, <2>4, <3>1, ReplacesEvolves
    <2>6. live' = live \cup {n}
      BY <2>1 DEF Replaces
    <2>7. \A a \in live' : a.ty = Early
      BY <2>3, <2>6 DEF HeapInv, BootOK
    <2>8. Blocks(live') = B \cup {n}
      BY <2>2, <2>6, <2>7 DEF Blocks
    <2>9. HeapPages' = HeapPages /\ PagesApart(live', slabs')
      BY <2>1, <2>3, <2>5, SmallEvolves, Sizes
    <2>10. /\ TreesOK' /\ PagesOwned(HeapPages, regions, CallPages)'
           /\ FramesOwned(Mapped, table, free, Got, newRoot)'
      BY <2>1, <2>9, PagesQuiet
    <2>11. Types'
      BY <2>1, <2>3, <2>5 DEF HeapInv, Types, Areas
    <2>12. BootOK'
      BY <2>1, <2>7 DEF HeapInv, BootOK
    <2>13. CallOK'
      BY <1>1, <2>1 DEF CallOK
    <2>14. EarlyOK(early', Blocks(live'))
      BY <2>1, <2>3, <2>8
    <2>15. LateOK(live', slabs')
      BY <2>7 DEF LateOK
    <2>16. panic' # "page is not mapped"
      BY <2>1 DEF HeapInv
    <2> QED  BY <2>9, <2>10, <2>11, <2>12, <2>13, <2>14, <2>15, <2>16 DEF HeapInv
  <1>3. CASE ~HasRoomFor(early, AllocSize(early, l[1], l[2]))
    <2>1. panic' = "early memory" /\ UNCHANGED <<early, live>>
      BY <1>3 DEF EarlyServe, Panic
    <2>2. UNCHANGED <<free, table, regions, slabs, call, useEarly, booted, spaces, newRoot>>
      BY DEF EarlyServe, pageVars, bootVars, spaceVars
    <2>3. panic' # "page is not mapped"
      BY <2>1
    <2> QED  BY <1>1, <2>1, <2>2, <2>3, PanicOnly
  <1> QED  BY <1>2, <1>3

\* An object of a slab that is there.
LEMMA SlabServed ==
    ASSUME HeapInv, Running, ~useEarly, NEW l, Asked(l), NEW old \in SUBSET live,
           NEW c \in Classes, c = LateType(l[1], l[2]), SlabServe(c, l, old),
           UNCHANGED <<bootVars, spaceVars>>
    PROVE  HeapInv'
  <1>1. panic = None /\ call = None
    BY DEF Running
  <1> DEFINE o == Least(FreeObjects(c))
             n == New(o, l, c, 0)
  <1>2. /\ o \in Nat /\ o >= EarlySize /\ PageAt(o) \in slabs[c]
        /\ \E k \in 0 .. Page : o = Addr(PageAt(o)) + k * c /\ k * c + c <= Page
        /\ \A a \in live : a.ptr # o
    BY ObjectFound DEF SlabServe
  <1>3. /\ Replaces(old, n)
        /\ UNCHANGED <<early, panic, free, table, regions, slabs, call, useEarly, booted, spaces, newRoot>>
    BY DEF SlabServe, pageVars, bootVars, spaceVars
  <1> HIDE DEF o
  <1>4. /\ n \in Allocations /\ n.ptr = o /\ n.size = l[1] /\ n.align = l[2] /\ n.ty = c
        /\ n.size # 0 /\ \E k \in Layouts : n.align = k[2]
    BY <1>2, Sizes DEF New, Allocations, Asked
  <1>5. c # Early /\ c # Page
    BY Sizes
  <1> HIDE DEF n
  <1>6. AllocsOK(live') /\ Evolves(live, live', {}, {n})
    <2>1. AllocsOK(live)
      BY DEF HeapInv, Types
    <2> QED  BY <1>2, <1>3, <1>4, <2>1, ReplacesEvolves
  <1>7. HeapPages' = HeapPages /\ PagesApart(live', slabs')
    BY <1>3, <1>4, <1>5, <1>6, SmallEvolves
  <1>8. /\ TreesOK' /\ PagesOwned(HeapPages, regions, CallPages)'
        /\ FramesOwned(Mapped, table, free, Got, newRoot)'
    BY <1>3, <1>7, PagesQuiet
  <1>9. Types'
    BY <1>3, <1>6 DEF HeapInv, Types
  <1>10. BootOK'
    BY <1>3 DEF HeapInv, BootOK
  <1>11. CallOK'
    BY <1>1, <1>3 DEF CallOK
  <1>12. EarlyOK(early', Blocks(live'))
    <2>1. EarlyOK(early, Blocks(live))
      BY DEF HeapInv
    <2>2. EarlyOK(early, Blocks(live'))
      BY <1>4, <1>5, <1>6, <2>1, EarlyKept
    <2> QED  BY <1>3, <2>2
  <1>13. LateOK(live', slabs')
    <2>1. Placed(n, slabs)
      BY <1>2, <1>4, <1>5 DEF Placed
    <2>2. AllocsOK(live) /\ LateOK(live, slabs)
      BY DEF HeapInv, Types
    <2>3. LateOK(live', slabs)
      BY <1>6, <2>1, <2>2, LateKept
    <2> QED  BY <1>3, <2>3
  <1>14. panic' # "page is not mapped"
    BY <1>3 DEF HeapInv
  <1> QED  BY <1>7, <1>8, <1>9, <1>10, <1>11, <1>12, <1>13, <1>14 DEF HeapInv

\* allocate up to its region
LEMMA PagesBegun ==
    ASSUME HeapInv, Running, ~useEarly, NEW l, Asked(l), NEW old \in SUBSET live,
           NEW ty, ty = LateType(l[1], l[2]), BeginPages(ty, l, old),
           UNCHANGED <<bootVars, spaceVars>>
    PROVE  HeapInv'
  <1>1. panic = None /\ call = None
    BY DEF Running
  <1> DEFINE n == IF ty = Page THEN NumPages(l[1]) ELSE 1
             s == RegionStart(n)
  <1>2. UNCHANGED <<free, table, early, slabs, live, useEarly, booted, spaces, newRoot>>
    BY DEF BeginPages, bootVars, spaceVars
  <1>3. CASE (ty = Page /\ l[2] > Page) \/ RunsOf(n) = {}
    <2>1. panic' = "alloc error" /\ UNCHANGED <<regions, call>>
      BY <1>3 DEF BeginPages, Panic
    <2>2. panic' # "page is not mapped"
      BY <2>1
    <2> QED  BY <1>1, <1>2, <2>1, <2>2, PanicOnly
  <1>4. CASE ~((ty = Page /\ l[2] > Page) \/ RunsOf(n) = {})
    <2>1. /\ regions' = regions \ PageSpan(s, n)
          /\ call' = [ty |-> ty, layout |-> l, old |-> old, n |-> n, start |-> s, done |-> 0, got |-> {}]
          /\ panic' = panic
      BY <1>4 DEF BeginPages
    <2>2. l[1] \in Nat \ {0} /\ l[2] \in Nat \ {0} /\ l \in Nat \X Nat /\ \E k \in Layouts : l[2] = k[2]
      BY DEF Asked
    <2>3. n \in Nat \ {0}
      BY <2>2, EnoughPages
    <2>4. regions \in SUBSET AllPages
      BY DEF HeapInv, Types
    <2>5. s \in Nat /\ PageSpan(s, n) \subseteq regions
      <3> DEFINE m == n
      <3>1. RunsOf(m) # {} /\ m \in Nat
        BY <1>4, <2>3
      <3> HIDE DEF m
      <3>2. RegionStart(m) \in Nat /\ PageSpan(RegionStart(m), m) \subseteq regions
        BY <2>4, <3>1, RegionFound
      <3> QED  BY <3>2 DEF m
    <2>6. ty \in Nat /\ ty \in Classes \cup {Page}
      BY <2>2, LateTypes, Sizes
    <2>7. ty = Page => n = NumPages(l[1]) /\ l[2] <= Page
      BY <1>4, <2>2, Sizes
    <2>8. ty # Page => n = 1
      OBVIOUS
    <2> HIDE DEF n, s
    <2>9. /\ call'.ty = ty /\ call'.layout = l /\ call'.old = old /\ call'.n = n
          /\ call'.start = s /\ call'.done = 0 /\ call'.got = {}
      BY <2>1
    <2>10. call' \in Calls
      <3>1. old \in SUBSET Allocations
        BY DEF HeapInv, Types, AllocsOK
      <3> QED  BY <2>1, <2>2, <2>3, <2>5, <2>6, <3>1 DEF Calls
    <2>11. call' # None
      BY <2>10, HeapAssumption
    <2>12. Types'
      BY <1>2, <2>1, <2>10 DEF HeapInv, Types
    <2>13. BootOK'
      BY <1>2, <2>1 DEF HeapInv, BootOK
    <2>14. CallOK'
      <3>1. Cardinality({}) = 0
        BY FS_EmptySet
      <3>2. Cardinality(call'.got) <= call'.n - call'.done
        BY <2>3, <2>9, <3>1
      <3>3. call'.old \subseteq live'
        BY <1>2, <2>9
      <3>4. call'.n > 0 /\ call'.done <= call'.n
        BY <2>3, <2>9
      <3>5. call'.layout[1] # 0 /\ \E k \in Layouts : call'.layout[2] = k[2]
        BY <2>2, <2>9
      <3> QED  BY <2>7, <2>8, <2>9, <3>2, <3>3, <3>4, <3>5 DEF CallOK
    <2>15. TreesOK'
      <3>1. TreesOK
        BY DEF HeapInv
      <3> QED  BY <1>2, <3>1 DEF TreesOK
    <2>16. HeapPages' = HeapPages
      BY <1>2 DEF HeapPages, PagesFrom, PageSpan, PageAt, NumPages
    <2>17. CallPages = {} /\ CallPages' = PageSpan(s, n)
      BY <1>1, <2>9, <2>11 DEF CallPages
    <2>18. PagesOwned(HeapPages, regions, CallPages)'
      <3>1. PagesOwned(HeapPages, regions, {})
        BY <2>17 DEF HeapInv
      <3>2. PagesOwned(HeapPages, regions', PageSpan(s, n))
        BY <2>1, <2>4, <2>5, <3>1 DEF PagesOwned
      <3> QED  BY <1>2, <2>16, <2>17, <3>2 DEF PagesOwned
    <2>19. Mapped' = Mapped /\ Got' = {} /\ Got = {}
      <3>1. DonePages = {} /\ Got = {}
        BY <1>1 DEF DonePages, Got
      <3>2. DonePages' = PageSpan(s, 0) /\ Got' = {}
        BY <2>9, <2>11 DEF DonePages, Got
      <3>3. PageSpan(s, 0) = {}
        BY <2>5 DEF PageSpan
      <3> QED  BY <2>16, <3>1, <3>2, <3>3 DEF Mapped
    <2>20. FramesOwned(Mapped, table, free, Got, newRoot)'
      BY <1>2, <2>19 DEF HeapInv
    <2>21. /\ EarlyOK(early, Blocks(live))' /\ LateOK(live, slabs)' /\ PagesApart(live, slabs)'
           /\ panic' # "page is not mapped"
      BY <1>2, <2>1 DEF HeapInv
    <2> QED  BY <2>12, <2>13, <2>14, <2>15, <2>18, <2>20, <2>21 DEF HeapInv
  <1> QED  BY <1>3, <1>4

\* DefaultAlloc::alloc; only before USE_EARLY_ALLOC is off may it be early.
LEMMA Served ==
    ASSUME HeapInv, Running, NEW l, Asked(l), NEW old \in SUBSET live, useEarly => old = {},
           Serve(l, old), UNCHANGED <<bootVars, spaceVars>>
    PROVE  HeapInv'
  <1> DEFINE ty == NewType(l[1], l[2])
  <1>1. ty = IF useEarly THEN Early ELSE LateType(l[1], l[2])
    BY NewTypeIs
  <1>2. l[1] \in Nat /\ l[2] \in Nat
    BY DEF Asked
  <1>3. ~useEarly => ty # Early
    BY <1>1, <1>2, LateTypes, Sizes
  <1>4. useEarly => ty \notin Classes \cup {Page}
    BY <1>1, Sizes
  <1>5. CASE ty = Early /\ EarlyServe(l, old)
    BY <1>3, <1>5, EarlyServed
  <1>6. CASE ty \in Classes /\ SlabServe(ty, l, old)
    BY <1>1, <1>4, <1>6, SlabServed
  <1>7. CASE ty \in Classes \cup {Page} /\ BeginPages(ty, l, old)
    BY <1>1, <1>4, <1>7, PagesBegun
  <1> HIDE DEF ty
  <1>8. \/ ty = Early /\ EarlyServe(l, old)
        \/ ty \in Classes /\ SlabServe(ty, l, old)
        \/ ty \in Classes \cup {Page} /\ BeginPages(ty, l, old)
    BY DEF Serve, ty
  <1> QED  BY <1>5, <1>6, <1>7, <1>8

\* DefaultAlloc::alloc keeps the invariant.
LEMMA AllocKeeps ==
    ASSUME HeapInv, NEW l \in Layouts, Alloc(l)
    PROVE  HeapInv'
  <1>1. Asked(l)
    BY HeapAssumption DEF Asked
  <1>2. Running /\ Serve(l, {}) /\ UNCHANGED <<bootVars, spaceVars>>
    BY DEF Alloc
  <1> QED  BY <1>1, <1>2, Served

-----------------------------------------------------------------------------
(* The steps of a call of allocate                                         *)

\* What the invariant says of the call under way.
LEMMA CallIs ==
    ASSUME HeapInv, InCall
    PROVE  /\ call \in Calls /\ call # None /\ panic = None /\ booted /\ ~useEarly
           /\ call.n \in Nat \ {0} /\ call.start \in Nat /\ call.done \in Nat /\ call.done <= call.n
           /\ call.got \subseteq HeapFrames /\ call.got \subseteq Nat /\ IsFiniteSet(call.got)
           /\ Cardinality(call.got) \in Nat /\ Cardinality(call.got) <= call.n - call.done
           /\ CallPages = PageSpan(call.start, call.n) /\ DonePages = PageSpan(call.start, call.done)
           /\ Got = call.got
           /\ CallPages \subseteq AllPages /\ HeapPages \subseteq AllPages /\ HeapPages \cap CallPages = {}
           /\ DonePages \subseteq CallPages
  <1>1. call # None /\ panic = None /\ call \in Calls
    BY DEF InCall, HeapInv, Types
  <1>2. booted /\ ~useEarly
    BY <1>1 DEF HeapInv, BootOK, Types
  <1>3. call.n \in Nat /\ call.start \in Nat /\ call.done \in Nat /\ call.got \in SUBSET HeapFrames
    BY <1>1 DEF Calls
  <1>4. call.n > 0 /\ call.done <= call.n /\ Cardinality(call.got) <= call.n - call.done
    BY <1>1 DEF HeapInv, CallOK
  <1>5. IsFiniteSet(call.got) /\ Cardinality(call.got) \in Nat /\ call.got \subseteq Nat
    BY <1>3, HeapAssumption, FS_Subset, FS_CardinalityType
  <1>6. /\ CallPages = PageSpan(call.start, call.n) /\ DonePages = PageSpan(call.start, call.done)
        /\ Got = call.got
    BY <1>1 DEF CallPages, DonePages, Got
  <1>7. CallPages \subseteq AllPages /\ HeapPages \subseteq AllPages /\ HeapPages \cap CallPages = {}
    BY DEF HeapInv, PagesOwned
  <1>8. PageSpan(call.start, call.done) \subseteq PageSpan(call.start, call.n)
    BY <1>3, <1>4 DEF PageSpan
  <1> QED  BY <1>1, <1>2, <1>3, <1>4, <1>5, <1>6, <1>7, <1>8

\* The frames that are free are a finite set of numbers, and no tables.
LEMMA FreeIs ==
    ASSUME HeapInv
    PROVE  /\ free \in SUBSET HeapFrames /\ free \in SUBSET Nat /\ IsFiniteSet(free)
           /\ None \notin free /\ None \notin DOMAIN table /\ free \cap DOMAIN table = {}
           /\ Tree(table) /\ Roots(table, spaces)
  <1>1. free \in SUBSET HeapFrames
    BY DEF HeapInv, Types
  <1>2. free \in SUBSET Nat /\ IsFiniteSet(free)
    BY <1>1, HeapAssumption, FS_Subset
  <1>3. None \notin DOMAIN table /\ free \cap DOMAIN table = {}
    BY NotNone DEF HeapInv, FramesOwned
  <1>4. Tree(table) /\ Roots(table, spaces)
    BY TreesAre DEF HeapInv
  <1> QED  BY <1>1, <1>2, <1>3, <1>4, NotNone

\* Taking a batch of frames keeps it.
LEMMA GetBatchKeeps ==
    ASSUME HeapInv, GetBatch
    PROVE  HeapInv'
  <1> DEFINE b == Lesser(call.n - call.done, Batch)
             S == FirstFrames(b)
  <1>1. /\ InCall /\ call.got = {} /\ call.done < call.n
        /\ call' = [call EXCEPT !.got = S] /\ free' = free \ S
        /\ UNCHANGED <<early, useEarly, booted, table, regions, slabs, live, spaces, newRoot, panic>>
    BY DEF GetBatch, bootVars, spaceVars
  <1>2. /\ call \in Calls /\ call # None /\ call.n \in Nat /\ call.done \in Nat /\ call.done <= call.n
        /\ CallPages = PageSpan(call.start, call.n) /\ DonePages = PageSpan(call.start, call.done)
        /\ Got = {}
    BY <1>1, CallIs
  <1>3. b \in Nat /\ b <= call.n - call.done
    <2>1. Batch \in Nat
      BY HeapAssumption
    <2> QED  BY <1>2, <2>1 DEF Lesser
  <1>4. free \in SUBSET HeapFrames /\ free \in SUBSET Nat /\ IsFiniteSet(free)
    BY FreeIs
  <1> HIDE DEF b
  <1>5. S \in SUBSET free /\ Cardinality(S) \in Nat /\ Cardinality(S) <= b
    BY <1>3, <1>4, FirstFramesCount
  <1> HIDE DEF S
  <1>6. /\ call'.ty = call.ty /\ call'.layout = call.layout /\ call'.old = call.old /\ call'.n = call.n
        /\ call'.start = call.start /\ call'.done = call.done /\ call'.got = S /\ call' \in Calls
    BY <1>1, <1>2, <1>4, <1>5 DEF Calls
  <1>7. call' # None
    BY <1>6, HeapAssumption
  <1>8. Types'
    BY <1>1, <1>4, <1>6 DEF HeapInv, Types
  <1>9. BootOK'
    BY <1>1, CallIs DEF HeapInv, BootOK
  <1>10. CallOK'
    <2>1. Cardinality(call'.got) <= call'.n - call'.done
      BY <1>2, <1>3, <1>5, <1>6
    <2> QED  BY <1>1, <1>2, <1>6, <2>1 DEF HeapInv, CallOK
  <1>11. TreesOK'
    <2>1. TreesOK
      BY DEF HeapInv
    <2> QED  BY <1>1, <2>1 DEF TreesOK
  <1>12. HeapPages' = HeapPages
    BY <1>1 DEF HeapPages, PagesFrom, PageSpan, PageAt, NumPages
  <1>13. CallPages' = CallPages /\ DonePages' = DonePages /\ Got' = S
    BY <1>2, <1>6, <1>7 DEF CallPages, DonePages, Got
  <1>14. PagesOwned(HeapPages, regions, CallPages)'
    BY <1>1, <1>12, <1>13 DEF HeapInv, PagesOwned
  <1>15. FramesOwned(Mapped, table, free, Got, newRoot)'
    <2>1. FramesOwned(Mapped, table, free, {}, newRoot)
      BY <1>2 DEF HeapInv
    <2>2. FramesOwned(Mapped, table, free \ S, S, newRoot)
      BY <1>4, <1>5, <2>1, FramesTaken
    <2>3. Mapped' = Mapped
      BY <1>12, <1>13 DEF Mapped
    <2> QED  BY <1>1, <1>13, <2>2, <2>3
  <1>16. /\ EarlyOK(early, Blocks(live))' /\ LateOK(live, slabs)' /\ PagesApart(live, slabs)'
         /\ panic' # "page is not mapped"
    BY <1>1 DEF HeapInv
  <1> QED  BY <1>8, <1>9, <1>10, <1>11, <1>14, <1>15, <1>16 DEF HeapInv

\* Giving all back after a batch that failed keeps it.
LEMMA UndoKeeps ==
    ASSUME HeapInv, Undo
    PROVE  HeapInv'
  <1> DEFINE ps == DonePages
             u == Unmapped(table, KRoot, ps)
             E == free \cup {GetPage(table, KRoot, q) : q \in ps}
  <1>1. InCall
    BY DEF Undo
  <1>2. /\ call # None /\ call.got = {} /\ booted /\ ~useEarly /\ panic = None
        /\ CallPages = PageSpan(call.start, call.n) /\ ps = PageSpan(call.start, call.done)
        /\ Got = {} /\ ps \subseteq CallPages /\ CallPages \subseteq AllPages
        /\ HeapPages \subseteq AllPages /\ HeapPages \cap CallPages = {}
    BY <1>1, CallIs DEF Undo
  <1>3. /\ free' = E /\ table' = u /\ regions' = regions \cup CallPages /\ call' = None
        /\ panic' = "alloc error"
        /\ UNCHANGED <<early, useEarly, booted, slabs, live, spaces, newRoot>>
    BY <1>2 DEF Undo, FramesAt, FrameAt, Panic, bootVars, spaceVars
  <1>4. Mapped = HeapPages \cup ps
    BY DEF Mapped
  <1> HIDE DEF ps
  <1>5. /\ Tree(u) /\ Roots(u, spaces) /\ DOMAIN u = DOMAIN table
        /\ \A i \in 0 .. Slots - 1 : u[KRoot][i] = table[KRoot][i]
        /\ \A q \in AllPages :
                GetPage(u, KRoot, q) = IF q \in ps THEN None ELSE GetPage(table, KRoot, q)
    <2>1. ps \in SUBSET AllPages
      BY <1>2
    <2> QED  BY <2>1, FreeIs, PagesUnmapped
  <1> HIDE DEF u
  <1>6. E \subseteq HeapFrames /\ FramesOwned(Mapped \ ps, u, E, {}, newRoot)
    <2>1. FramesOwned(Mapped, table, free, {}, newRoot) /\ free \in SUBSET HeapFrames
      BY <1>2, FreeIs DEF HeapInv
    <2>2. ps \in SUBSET Mapped
      BY <1>4
    <2>3. \A q \in Mapped \ ps : GetPage(u, KRoot, q) = GetPage(table, KRoot, q)
      BY <1>2, <1>4, <1>5
    <2> QED  BY <1>5, <2>1, <2>2, <2>3, FramesFreed, ZenonT(40)
  <1> HIDE DEF E
  <1>7. HeapPages' = HeapPages
    BY <1>3 DEF HeapPages, PagesFrom, PageSpan, PageAt, NumPages
  <1>8. CallPages' = {} /\ DonePages' = {} /\ Got' = {} /\ Mapped' = Mapped \ ps
    <2>1. CallPages' = {} /\ DonePages' = {} /\ Got' = {}
      BY <1>3 DEF CallPages, DonePages, Got
    <2> QED  BY <1>2, <1>4, <1>7, <2>1 DEF Mapped
  <1>9. FramesOwned(Mapped, table, free, Got, newRoot)'
    BY <1>3, <1>6, <1>8
  <1>10. PagesOwned(HeapPages, regions, CallPages)'
    <2>1. PagesOwned(HeapPages, regions, CallPages)
      BY DEF HeapInv
    <2>2. PagesOwned(HeapPages, regions', {})
      BY <1>3, <2>1 DEF PagesOwned
    <2> QED  BY <1>3, <1>7, <1>8, <2>2 DEF PagesOwned
  <1>11. TreesOK'
    <2>1. TreesOK' <=> Tree(table') /\ Roots(table', spaces')
      BY TreesAre
    <2> QED  BY <1>3, <1>5, <2>1
  <1>12. Types'
    BY <1>2, <1>3, <1>6 DEF HeapInv, Types
  <1>13. BootOK'
    <2>1. \A i \in 0 .. Slots - 1 : table'[KRoot][i] # None
      BY <1>2, <1>3, <1>5 DEF HeapInv, BootOK
    <2> QED  BY <1>2, <1>3, <2>1 DEF BootOK
  <1>14. CallOK'
    BY <1>3 DEF CallOK
  <1>15. EarlyOK(early, Blocks(live))' /\ LateOK(live, slabs)' /\ PagesApart(live, slabs)'
    BY <1>3 DEF HeapInv
  <1>16. panic' # "page is not mapped"
    BY <1>3
  <1> QED  BY <1>9, <1>10, <1>11, <1>12, <1>13, <1>14, <1>15, <1>16 DEF HeapInv

\* The frames set_page_kernel takes once the root is filled: one or none.
LEMMA TableFrames ==
    ASSUME HeapInv, InCall, NEW p \in AllPages,
           NEW need, need = FirstFrames(Missing(table, KRoot, p)),
           Cardinality(need) >= Missing(table, KRoot, p),
           NEW fs, fs = IF Cardinality(need) = 2 THEN <<Least(need), Greatest(need)>>
                        ELSE IF Cardinality(need) = 1 THEN <<Least(need)>> ELSE <<>>
    PROVE  /\ need \in SUBSET free /\ table[KRoot][SlotOf(p)] # None
           /\ LeafFrames(table, p, fs, need)
  <1>1. table[KRoot][SlotOf(p)] # None
    BY CallIs, PageIndices DEF HeapInv, BootOK
  <1>2. Missing(table, KRoot, p) = IF LeafTable(table, KRoot, p) = None THEN 1 ELSE 0
    BY <1>1 DEF Missing, MidTable
  <1> DEFINE n == Missing(table, KRoot, p)
  <1>3. n \in {0, 1}
    BY <1>2
  <1>4. need = FirstFrames(n) /\ Cardinality(need) >= n
    OBVIOUS
  <1>5. /\ free \in SUBSET Nat /\ IsFiniteSet(free) /\ None \notin free
        /\ free \cap DOMAIN table = {}
    BY FreeIs
  <1> HIDE DEF n
  <1>6. /\ need \in SUBSET free /\ IsFiniteSet(need)
        /\ Cardinality(need) \in Nat /\ Cardinality(need) <= n
    BY <1>3, <1>4, <1>5, FirstFramesCount
  <1>7. CASE LeafTable(table, KRoot, p) # None
    <2>1. Cardinality(need) = 0
      BY <1>2, <1>3, <1>6, <1>7 DEF n
    <2>2. need = {}
      BY <1>6, <2>1, FS_EmptySet
    <2> QED  BY <1>1, <1>6, <1>7, <2>2 DEF LeafFrames
  <1>8. CASE LeafTable(table, KRoot, p) = None
    <2>1. n = 1
      BY <1>2, <1>8 DEF n
    <2>2. Cardinality(need) = 1
      BY <1>4, <1>6, <2>1
    <2>3. PICK g : need = {g}
      BY <1>6, <2>2, FS_Singleton
    <2>4. g \in Nat /\ g \notin DOMAIN table /\ g # None
      BY <1>5, <1>6, <2>3
    <2>5. Least(need) = g
      BY <2>3, <2>4, LeastOf
    <2>6. fs = <<g>>
      BY <2>2, <2>5
    <2> QED  BY <1>1, <1>6, <1>8, <2>3, <2>4, <2>6 DEF LeafFrames
  <1> QED  BY <1>7, <1>8

\* Mapping one page, with a table where one is missing, keeps it.
LEMMA MapPageKeeps ==
    ASSUME HeapInv, MapPage
    PROVE  HeapInv'
  <1> DEFINE p    == call.start + call.done
             f    == Least(call.got)
             need == FirstFrames(Missing(table, KRoot, p))
             fs   == IF Cardinality(need) = 2 THEN <<Least(need), Greatest(need)>>
                     ELSE IF Cardinality(need) = 1 THEN <<Least(need)>> ELSE <<>>
             u    == SetPage(WithTables(table, KRoot, p, fs), KRoot, p, f)
  <1>1. /\ InCall /\ call.got # {}
        /\ UNCHANGED <<early, useEarly, booted, regions, slabs, live, spaces, newRoot>>
    BY DEF MapPage, bootVars, spaceVars
  <1>2. /\ call \in Calls /\ call # None /\ panic = None /\ booted /\ ~useEarly
        /\ call.n \in Nat \ {0} /\ call.start \in Nat /\ call.done \in Nat /\ call.done <= call.n
        /\ call.got \subseteq HeapFrames /\ call.got \subseteq Nat /\ IsFiniteSet(call.got)
        /\ Cardinality(call.got) \in Nat /\ Cardinality(call.got) <= call.n - call.done
        /\ CallPages = PageSpan(call.start, call.n) /\ DonePages = PageSpan(call.start, call.done)
        /\ Got = call.got
        /\ CallPages \subseteq AllPages /\ HeapPages \subseteq AllPages /\ HeapPages \cap CallPages = {}
        /\ DonePages \subseteq CallPages
    BY <1>1, CallIs
  <1>3. CASE panic' \in {"page is mapped", "no frame for a table"} /\ UNCHANGED <<free, table, call>>
    <2>1. panic' # "page is not mapped"
      BY <1>3
    <2> QED  BY <1>1, <1>2, <1>3, <2>1, PanicOnly
  <1>4. CASE /\ Cardinality(need) >= Missing(table, KRoot, p)
             /\ table' = u /\ free' = free \ need
             /\ call' = [call EXCEPT !.got = @ \ {f}, !.done = @ + 1]
             /\ panic' = panic
    <2>1. f \in call.got
      BY <1>1, <1>2, LeastOf
    <2>2. /\ IsFiniteSet(call.got \ {f}) /\ Cardinality(call.got \ {f}) = Cardinality(call.got) - 1
          /\ Cardinality(call.got \ {f}) \in Nat
      <3> DEFINE S == call.got
      <3>1. IsFiniteSet(S) /\ f \in S
        BY <1>2, <2>1
      <3> HIDE DEF S, f
      <3>2. IsFiniteSet(S \ {f}) /\ Cardinality(S \ {f}) = Cardinality(S) - 1
        BY <3>1, FS_RemoveElement
      <3>3. Cardinality(S \ {f}) \in Nat
        BY <3>2, FS_CardinalityType
      <3> QED  BY <3>2, <3>3 DEF S
    <2> HIDE DEF f
    <2>3. call.done < call.n /\ Cardinality(call.got \ {f}) <= call.n - (call.done + 1)
      BY <1>2, <2>2
    <2>4. p \in CallPages /\ p \notin DonePages
      BY <1>2, <2>3, SMTT(30) DEF PageSpan
    <2>5. PageSpan(call.start, call.done + 1) = DonePages \cup {p}
      <3> DEFINE s == call.start
                 d == call.done
      <3>1. s \in Nat /\ d \in Nat
        BY <1>2
      <3> HIDE DEF s, d
      <3>2. \A x : x \in s .. s + (d + 1) - 1 <=> x \in s .. s + d - 1 \/ x = s + d
        BY <3>1
      <3>3. PageSpan(s, d + 1) = PageSpan(s, d) \cup {s + d}
        BY <3>2 DEF PageSpan
      <3> QED  BY <1>2, <3>3 DEF s, d
    <2>6. p \in AllPages /\ p \notin Mapped /\ Mapped \subseteq AllPages
      BY <1>2, <2>4 DEF Mapped
    <2> HIDE DEF p
    <2>7. /\ need \in SUBSET free /\ table[KRoot][SlotOf(p)] # None
          /\ LeafFrames(table, p, fs, need)
      BY <1>1, <1>4, <2>6, TableFrames
    <2> HIDE DEF fs, need
    <2>8. /\ Tree(u) /\ Roots(u, spaces) /\ DOMAIN u = DOMAIN table \cup need /\ u[KRoot] = table[KRoot]
          /\ \A q \in AllPages :
                GetPage(u, KRoot, q) = IF q = p THEN f ELSE GetPage(table, KRoot, q)
      <3>1. Tree(table) /\ Roots(table, spaces) /\ None \notin DOMAIN table
        BY FreeIs
      <3>2. /\ p \in AllPages /\ table[KRoot][SlotOf(p)] # None
            /\ LeafFrames(table, p, fs, need)
        BY <2>6, <2>7
      <3>3. u = SetPage(WithTables(table, KRoot, p, fs), KRoot, p, f)
        OBVIOUS
      <3> HIDE DEF u
      <3>4. MapsPage(table, spaces, p, f, fs, need, u)
        BY <3>1, <3>2, <3>3 DEF MapsPage
      <3>5. HasPage(table, spaces, p, f, need, u)
        BY <3>4, PageMapped
      <3> QED  BY <3>5 DEF HasPage
    <2> HIDE DEF u
    <2>9. /\ call'.ty = call.ty /\ call'.layout = call.layout /\ call'.old = call.old /\ call'.n = call.n
          /\ call'.start = call.start /\ call'.done = call.done + 1 /\ call'.got = call.got \ {f}
          /\ call' \in Calls
      <3> DEFINE g == call.got \ {f}
                 d == call.done + 1
      <3>1. g \in SUBSET HeapFrames /\ d \in Nat /\ call' = [call EXCEPT !.got = g, !.done = d]
        BY <1>2, <1>4
      <3> HIDE DEF g, d
      <3>2. /\ call'.ty = call.ty /\ call'.layout = call.layout /\ call'.old = call.old /\ call'.n = call.n
            /\ call'.start = call.start /\ call'.done = d /\ call'.got = g /\ call' \in Calls
        BY <1>2, <3>1 DEF Calls
      <3> QED  BY <3>2 DEF g, d
    <2>10. call' # None
      BY <2>9, HeapAssumption
    <2>11. Types'
      BY <1>1, <1>4, <2>9 DEF HeapInv, Types
    <2>12. BootOK'
      <3>1. \A i \in 0 .. Slots - 1 : table'[KRoot][i] # None
        BY <1>2, <1>4, <2>8 DEF HeapInv, BootOK
      <3> QED  BY <1>1, <1>2, <3>1 DEF BootOK
    <2>13. CallOK'
      <3>1. Cardinality(call'.got) <= call'.n - call'.done
        BY <2>3, <2>9
      <3>2. call'.done <= call'.n
        BY <1>2, <2>3, <2>9
      <3> QED  BY <1>1, <1>2, <2>9, <3>1, <3>2 DEF HeapInv, CallOK
    <2>14. TreesOK'
      BY <1>1, <1>4, <2>8, TreesAre
    <2>15. HeapPages' = HeapPages
      BY <1>1 DEF HeapPages, PagesFrom, PageSpan, PageAt, NumPages
    <2>16. CallPages' = CallPages /\ DonePages' = DonePages \cup {p} /\ Got' = call.got \ {f}
      BY <1>2, <2>5, <2>9, <2>10 DEF CallPages, DonePages, Got
    <2>17. PagesOwned(HeapPages, regions, CallPages)'
      BY <1>1, <2>15, <2>16 DEF HeapInv, PagesOwned
    <2>18. FramesOwned(Mapped, table, free, Got, newRoot)'
      <3>1. FramesOwned(Mapped, table, free, call.got, newRoot) /\ free \in SUBSET HeapFrames
        BY <1>2, FreeIs DEF HeapInv
      <3>2. p \in AllPages \ Mapped /\ Mapped \in SUBSET AllPages /\ call.got \in SUBSET HeapFrames
        BY <1>2, <2>6
      <3>3. FramesOwned(Mapped \cup {p}, u, free \ need, call.got \ {f}, newRoot)
        BY <2>1, <2>7, <2>8, <3>1, <3>2, FrameMapped
      <3>4. Mapped' = Mapped \cup {p}
        BY <2>15, <2>16 DEF Mapped
      <3> QED  BY <1>1, <1>4, <2>16, <3>3, <3>4
    <2>19. EarlyOK(early, Blocks(live))' /\ LateOK(live, slabs)' /\ PagesApart(live, slabs)'
      BY <1>1 DEF HeapInv
    <2>20. panic' # "page is not mapped"
      BY <1>4 DEF HeapInv
    <2> QED  BY <2>11, <2>12, <2>13, <2>14, <2>17, <2>18, <2>19, <2>20 DEF HeapInv
  <1>5. \/ panic' \in {"page is mapped", "no frame for a table"} /\ UNCHANGED <<free, table, call>>
        \/ /\ ~(Cardinality(need) < Missing(table, KRoot, p))
           /\ table' = u /\ free' = free \ need
           /\ call' = [call EXCEPT !.got = @ \ {f}, !.done = @ + 1]
           /\ panic' = panic
    BY DEF MapPage, Panic
  <1>6. ~(Cardinality(need) < Missing(table, KRoot, p)) => Cardinality(need) >= Missing(table, KRoot, p)
    <2> DEFINE m == Missing(table, KRoot, p)
    <2>1. m \in Nat
      BY DEF Missing
    <2>2. need = FirstFrames(m)
      OBVIOUS
    <2> HIDE DEF m
    <2>3. Cardinality(FirstFrames(m)) \in Nat
      BY <2>1, FreeIs, FirstFramesCount
    <2>4. ~(Cardinality(FirstFrames(m)) < m) => Cardinality(FirstFrames(m)) >= m
      BY <2>1, <2>3
    <2> QED  BY <2>2, <2>4 DEF m
  <1> HIDE DEF p, f, need, u, fs
  <1> QED  BY <1>3, <1>4, <1>5, <1>6

\* What is not an early block starts in a page of the heap.
LEMMA LatePage ==
    ASSUME HeapInv, NEW a \in live, a.ty # Early
    PROVE  PageAt(a.ptr) \in HeapPages
  <1>1. Placed(a, slabs) /\ a.ty \in Classes \cup {Page} /\ a.ptr \in Nat /\ a.ptr >= EarlySize
    BY AllocIs
  <1>2. CASE a.ty = Page
    <2>1. NumPages(a.size) \in Nat \ {0}
      BY AllocIs, EnoughPages
    <2>2. PageAt(a.ptr) \in Nat
      BY <1>1, PageOfWord
    <2>3. PageAt(a.ptr) \in Span(a)
      BY <2>1, <2>2 DEF Span, PagesFrom, PageSpan
    <2> QED  BY <1>2, <2>3, HeapPagesAre DEF AllocPage
  <1>3. CASE a.ty # Page
    BY <1>1, <1>3, HeapPagesAre DEF Placed, SlabPage
  <1> QED  BY <1>2, <1>3

\* The allocation a call ends with: pages, or the first object of a new slab.
LEMMA PagesServed ==
    ASSUME HeapInv, InCall, Finish, NEW n, n = New(Addr(call.start), call.layout, call.ty, 0)
    PROVE  /\ Types' /\ Evolves(live, live', {}, {n}) /\ n.ty # Early
           /\ LateOK(live', slabs') /\ PagesApart(live', slabs')
           /\ HeapPages' = HeapPages \cup CallPages
  <1> DEFINE s == call.start
             ty == call.ty
  <1>1. /\ call \in Calls /\ s \in Nat /\ call.n \in Nat \ {0}
        /\ CallPages = PageSpan(s, call.n) /\ CallPages \subseteq AllPages
        /\ HeapPages \cap CallPages = {} /\ call # None
    BY CallIs
  <1>2. /\ slabs' = IF ty = Page THEN slabs ELSE [slabs EXCEPT ![ty] = @ \cup {s}]
        /\ Replaces(call.old, n) /\ call' = None
        /\ UNCHANGED <<early, useEarly, booted, free, table, regions, spaces, newRoot, panic>>
    BY DEF Finish, bootVars, pageVars, spaceVars
  <1>3. /\ call.layout \in Nat \X Nat /\ call.layout[1] # 0 /\ \E l \in Layouts : call.layout[2] = l[2]
        /\ ty = LateType(call.layout[1], call.layout[2])
        /\ ty = Page => call.n = NumPages(call.layout[1]) /\ call.layout[2] <= Page
        /\ ty # Page => call.n = 1
        /\ call.old \in SUBSET live
    BY <1>1 DEF HeapInv, CallOK, Calls
  <1>4. ty \in Classes \cup {Page} /\ ty \in Nat /\ ty # Early
    BY <1>3, LateTypes, Sizes
  <1>5. PageAt(Addr(s)) = s /\ Addr(s) \in Nat /\ Addr(s) >= EarlySize
    <2>1. 0 \in 0 .. Page - 1
      BY Sizes
    <2>2. PageAt(Addr(s) + 0) = s /\ Addr(s) \in Nat /\ Addr(s) >= EarlySize
      BY <1>1, <2>1, WordsOfPage
    <2>3. Addr(s) + 0 = Addr(s)
      BY <2>2
    <2> QED  BY <2>2, <2>3
  <1>6. s \in CallPages
    BY <1>1 DEF PageSpan
  <1> HIDE DEF s, ty
  <1>7. /\ n \in Allocations /\ n.ptr = Addr(s) /\ n.size = call.layout[1] /\ n.align = call.layout[2]
        /\ n.ty = ty /\ n.size # 0 /\ \E l \in Layouts : n.align = l[2]
    BY <1>3, <1>4, <1>5 DEF New, Allocations, s, ty
  <1>8. ASSUME NEW a \in live PROVE a.ptr # n.ptr
    <2>1. CASE a.ty = Early
      BY <1>5, <1>7, <2>1, AllocIs, Sizes
    <2>2. CASE a.ty # Early
      BY <1>1, <1>5, <1>6, <1>7, <2>2, LatePage
    <2> QED  BY <2>1, <2>2
  <1>9. AllocsOK(live') /\ Evolves(live, live', {}, {n})
    <2>1. AllocsOK(live)
      BY DEF HeapInv, Types
    <2> QED  BY <1>2, <1>3, <1>7, <1>8, <2>1, ReplacesEvolves
  <1>10. AllocsOK(live) /\ LateOK(live, slabs) /\ PagesApart(live, slabs) /\ slabs \in [Classes -> SUBSET AllPages]
    BY DEF HeapInv, Types
  <1>11. \A p \in CallPages : ~SlabPage(slabs, p) /\ ~AllocPage(live, p)
    BY <1>1, HeapPagesAre
  <1>12. \A p : AllocPage(live', p) <=> AllocPage(live, p) \/ AllocPage({n}, p)
    <2>1. \A p : ~AllocPage({}, p)
      BY DEF AllocPage
    <2> QED  BY <1>9, <1>10, <2>1, PagesEvolve
  <1>13. CASE ty = Page
    <2>1. slabs' = slabs
      BY <1>2, <1>13
    <2>2. Span(n) = CallPages
      BY <1>1, <1>3, <1>5, <1>7, <1>13 DEF Span, PagesFrom
    <2>3. Placed(n, slabs)
      BY <1>3, <1>5, <1>7, <1>13 DEF Placed
    <2>4. LateOK(live', slabs)
      BY <1>9, <1>10, <2>3, LateKept
    <2>5. PagesApart(live', slabs)
      <3>1. live \ {} = live
        OBVIOUS
      <3>2. \A c, d \in Classes : c # d => slabs[c] \cap slabs[d] = {}
        BY <1>10 DEF PagesApart
      <3>3. \A m \in {n} : m.ty = Page =>
                \A p \in Span(m) : ~SlabPage(slabs, p) /\ ~AllocPage(live \ {}, p)
        BY <1>11, <2>2, <3>1
      <3>4. \A x, y \in {n} : x = y
        OBVIOUS
      <3>5. NewPages(live, {}, {n}, slabs, slabs)
        BY <3>2, <3>3, <3>4 DEF NewPages
      <3> QED  BY <1>9, <1>10, <3>5, ApartKept
    <2>6. \A p : AllocPage({n}, p) <=> p \in CallPages
      BY <1>7, <1>13, <2>2 DEF AllocPage
    <2>7. \A p : p \in HeapPages' <=> p \in HeapPages \/ p \in CallPages
      BY <1>12, <2>1, <2>6, HeapPagesAre
    <2>8. HeapPages' = HeapPages \cup CallPages
      BY <2>7
    <2>9. Types'
      BY <1>2, <1>9, <2>1 DEF HeapInv, Types
    <2> QED  BY <1>4, <1>7, <1>9, <2>1, <2>4, <2>5, <2>8, <2>9
  <1>14. CASE ty # Page
    <2>1. ty \in Classes /\ slabs' = [slabs EXCEPT ![ty] = @ \cup {s}] /\ CallPages = {s}
      <3>1. PageSpan(s, 1) = {s}
        BY <1>1 DEF PageSpan, s
      <3> QED  BY <1>1, <1>2, <1>3, <1>4, <1>14, <3>1 DEF s
    <2>2. slabs'[ty] = slabs[ty] \cup {s} /\ \A c \in Classes : c # ty => slabs'[c] = slabs[c]
      BY <1>10, <2>1
    <2>3. slabs' \in [Classes -> SUBSET AllPages]
      BY <1>1, <1>6, <1>10, <2>1
    <2>4. \A p : SlabPage(slabs', p) <=> SlabPage(slabs, p) \/ p = s
      BY <2>1, <2>2 DEF SlabPage
    <2>5. Placed(n, slabs')
      <3>1. 0 \in 0 .. Page /\ Addr(s) = Addr(s) + 0 * ty /\ 0 * ty + ty <= Page
        BY <1>4, <1>5, <2>1, Sizes
      <3> QED  BY <1>3, <1>5, <1>7, <1>14, <2>2, <3>1 DEF Placed
    <2>6. LateOK(live', slabs')
      <3>1. \A c \in Classes : slabs[c] \subseteq slabs'[c]
        BY <2>2
      <3>2. \A m \in {n} : m.ty # Early => Placed(m, slabs')
        BY <2>5
      <3> QED  BY <1>9, <1>10, <3>1, <3>2, LateKept
    <2>7. PagesApart(live', slabs')
      <3>1. \A c \in Classes : s \notin slabs[c]
        BY <1>6, <1>11 DEF SlabPage
      <3>2. \A c, d \in Classes : c # d => slabs[c] \cap slabs[d] = {}
        BY <1>10 DEF PagesApart
      <3>3. \A c, d \in Classes : c # d => slabs'[c] \cap slabs'[d] = {}
        BY <2>2, <3>1, <3>2
      <3>4. \A p : SlabPage(slabs', p) => SlabPage(slabs, p) \/ ~AllocPage(live, p)
        BY <1>6, <1>11, <2>4
      <3>5. \A m \in {n} : m.ty = Page =>
                \A p \in Span(m) : ~SlabPage(slabs', p) /\ ~AllocPage(live \ {}, p)
        BY <1>7, <1>14
      <3>6. \A x, y \in {n} : x = y
        OBVIOUS
      <3>7. NewPages(live, {}, {n}, slabs, slabs')
        BY <3>3, <3>4, <3>5, <3>6 DEF NewPages
      <3> QED  BY <1>9, <1>10, <3>7, ApartKept
    <2>8. \A p : ~AllocPage({n}, p)
      BY <1>7, <1>14 DEF AllocPage
    <2>9. \A p : p \in HeapPages' <=> p \in HeapPages \/ p \in CallPages
      BY <1>12, <2>1, <2>4, <2>8, HeapPagesAre
    <2>10. HeapPages' = HeapPages \cup CallPages
      BY <2>9
    <2>11. Types'
      BY <1>2, <1>9, <2>3 DEF HeapInv, Types
    <2> QED  BY <1>4, <1>7, <1>9, <2>6, <2>7, <2>10, <2>11
  <1> QED  BY <1>13, <1>14

\* Handing the pages to the caller, or making a slab of them, keeps it.
LEMMA FinishKeeps ==
    ASSUME HeapInv, Finish
    PROVE  HeapInv'
  <1> DEFINE n == New(Addr(call.start), call.layout, call.ty, 0)
  <1>1. InCall /\ call.got = {} /\ call.done = call.n /\ call' = None
    BY DEF Finish
  <1>2. UNCHANGED <<early, useEarly, booted, free, table, regions, spaces, newRoot, panic>>
    BY DEF Finish, bootVars, pageVars, spaceVars
  <1>3. /\ Types' /\ Evolves(live, live', {}, {n}) /\ n.ty # Early
        /\ LateOK(live', slabs') /\ PagesApart(live', slabs')
        /\ HeapPages' = HeapPages \cup CallPages
    BY <1>1, PagesServed
  <1> HIDE DEF n
  <1>4. DonePages = CallPages /\ Got = {} /\ ~useEarly /\ booted /\ panic = None
    BY <1>1, CallIs
  <1>5. CallPages' = {} /\ DonePages' = {} /\ Got' = {}
    BY <1>1 DEF CallPages, DonePages, Got
  <1>6. Mapped' = Mapped
    BY <1>3, <1>4, <1>5 DEF Mapped
  <1>7. FramesOwned(Mapped, table, free, Got, newRoot)'
    BY <1>2, <1>4, <1>5, <1>6 DEF HeapInv
  <1>8. PagesOwned(HeapPages, regions, CallPages)'
    <2>1. PagesOwned(HeapPages, regions, CallPages)
      BY DEF HeapInv
    <2>2. PagesOwned(HeapPages \cup CallPages, regions, {})
      BY <2>1 DEF PagesOwned
    <2> QED  BY <1>2, <1>3, <1>5, <2>2 DEF PagesOwned
  <1>9. TreesOK'
    <2>1. TreesOK
      BY DEF HeapInv
    <2> QED  BY <1>2, <2>1 DEF TreesOK
  <1>10. BootOK'
    BY <1>2, <1>4 DEF HeapInv, BootOK
  <1>11. CallOK'
    BY <1>1 DEF CallOK
  <1>12. EarlyOK(early', Blocks(live'))
    <2>1. EarlyOK(early, Blocks(live))
      BY DEF HeapInv
    <2>2. EarlyOK(early, Blocks(live'))
      BY <1>3, <2>1, EarlyKept
    <2> QED  BY <1>2, <2>2
  <1>13. panic' # "page is not mapped"
    BY <1>2 DEF HeapInv
  <1> QED  BY <1>3, <1>7, <1>8, <1>9, <1>10, <1>11, <1>12, <1>13 DEF HeapInv

-----------------------------------------------------------------------------
(* dealloc and realloc                                                     *)

\* No page of the heap is without a frame.
LEMMA FramesThere ==
    ASSUME HeapInv, NEW ps \in SUBSET HeapPages
    PROVE  None \notin FramesAt(ps)
  <1>1. \A p \in ps : FrameAt(p) \in HeapFrames
    BY DEF HeapInv, FramesOwned, Mapped, FrameAt
  <1> QED  BY <1>1, NotNone DEF FramesAt

\* The frames of pages and the pages go back, whether they are unmapped or not.
LEMMA PagesFreed ==
    ASSUME HeapInv, Running, NEW ps \in SUBSET HeapPages, HeapPages' = HeapPages \ ps,
           free' = free \cup FramesAt(ps), regions' = regions \cup ps,
           table' \in {table, Unmapped(table, KRoot, ps)},
           UNCHANGED <<booted, call, spaces, newRoot>>
    PROVE  /\ free' \subseteq HeapFrames /\ regions' \subseteq AllPages /\ TreesOK'
           /\ \A i \in 0 .. Slots - 1 : table'[KRoot][i] = table[KRoot][i]
           /\ PagesOwned(HeapPages, regions, CallPages)'
           /\ FramesOwned(Mapped, table, free, Got, newRoot)'
  <1>1. CallPages = {} /\ DonePages = {} /\ Got = {} /\ CallPages' = {} /\ DonePages' = {} /\ Got' = {}
    BY DEF Running, CallPages, DonePages, Got
  <1>2. Mapped = HeapPages /\ Mapped' = HeapPages \ ps
    BY <1>1 DEF Mapped
  <1>3. HeapPages \subseteq AllPages /\ regions \subseteq AllPages
    BY DEF HeapInv, PagesOwned, Types
  <1> DEFINE u == table'
  <1>4. /\ Tree(u) /\ Roots(u, spaces) /\ DOMAIN u = DOMAIN table
        /\ \A i \in 0 .. Slots - 1 : u[KRoot][i] = table[KRoot][i]
        /\ \A q \in HeapPages \ ps : GetPage(u, KRoot, q) = GetPage(table, KRoot, q)
    <2>1. CASE table' = table
      BY <2>1, FreeIs
    <2>2. CASE table' = Unmapped(table, KRoot, ps)
      <3>1. ps \in SUBSET AllPages
        BY <1>3
      <3> DEFINE v == Unmapped(table, KRoot, ps)
      <3>2. /\ Tree(v) /\ Roots(v, spaces) /\ DOMAIN v = DOMAIN table
            /\ \A i \in 0 .. Slots - 1 : v[KRoot][i] = table[KRoot][i]
            /\ \A q \in AllPages :
                    GetPage(v, KRoot, q) = IF q \in ps THEN None ELSE GetPage(table, KRoot, q)
        BY <3>1, FreeIs, PagesUnmapped
      <3> HIDE DEF v
      <3>3. u = v
        BY <2>2 DEF v
      <3> HIDE DEF u
      <3>4. \A q \in HeapPages \ ps : GetPage(v, KRoot, q) = GetPage(table, KRoot, q)
        BY <1>3, <3>2
      <3> QED  BY <3>2, <3>3, <3>4
    <2> QED  BY <2>1, <2>2
  <1> DEFINE E == free \cup {GetPage(table, KRoot, q) : q \in ps}
  <1>5. free' = E
    BY DEF FramesAt, FrameAt
  <1> HIDE DEF u
  <1>6. E \subseteq HeapFrames /\ FramesOwned(HeapPages \ ps, u, E, {}, newRoot)
    <2>1. FramesOwned(HeapPages, table, free, {}, newRoot) /\ free \in SUBSET HeapFrames
      BY <1>1, <1>2, FreeIs DEF HeapInv
    <2> QED  BY <1>4, <2>1, FramesFreed
  <1> HIDE DEF E
  <1>7. FramesOwned(Mapped, table, free, Got, newRoot)'
    BY <1>1, <1>2, <1>5, <1>6 DEF u
  <1>8. TreesOK'
    BY <1>4, TreesAre DEF u
  <1>9. PagesOwned(HeapPages, regions, CallPages)'
    <2>1. PagesOwned(HeapPages, regions, {})
      BY <1>1 DEF HeapInv
    <2>2. PagesOwned(HeapPages \ ps, regions \cup ps, {})
      BY <2>1 DEF PagesOwned
    <2> QED  BY <1>1, <2>2 DEF PagesOwned
  <1> QED  BY <1>3, <1>4, <1>5, <1>6, <1>7, <1>8, <1>9 DEF u

\* The pages of one allocation.
LEMMA SpanIs ==
    ASSUME HeapInv, NEW a \in live, a.ty = Page
    PROVE  /\ Span(a) \subseteq HeapPages
           /\ \A p \in Span(a) : ~SlabPage(slabs, p) /\ ~AllocPage(live \ {a}, p)
           /\ \A p : AllocPage({a}, p) <=> p \in Span(a)
  <1>1. Span(a) \subseteq HeapPages
    BY HeapPagesAre DEF AllocPage
  <1>2. \A p \in Span(a) : ~SlabPage(slabs, p)
    BY DEF HeapInv, PagesApart
  <1>3. \A b \in live : b # a => b.ptr # a.ptr
    BY DEF HeapInv, Types, AllocsOK
  <1>4. \A p \in Span(a) : ~AllocPage(live \ {a}, p)
    BY <1>3 DEF HeapInv, PagesApart, AllocPage
  <1>5. \A p : AllocPage({a}, p) <=> p \in Span(a)
    BY DEF AllocPage
  <1> QED  BY <1>1, <1>2, <1>4, <1>5

\* DefaultAlloc::dealloc keeps the invariant.
LEMMA DeallocKeeps ==
    ASSUME HeapInv, NEW a \in live, Dealloc(a)
    PROVE  HeapInv'
  <1>1. ExistingType(a) = a.ty /\ a.ty \in {Early, Page} \cup Classes
    BY AllocIs
  <1>2. /\ Running /\ live' = live \ {a}
        /\ early' = IF a.ty = Early THEN EarlyFree(early, a.ptr, a.size) ELSE early
        /\ IF a.ty = Page THEN FreePagesOf(Span(a)) ELSE UNCHANGED <<free, table, regions, panic>>
        /\ UNCHANGED <<useEarly, booted, slabs, call, spaces, newRoot>>
    BY <1>1 DEF Dealloc, Span, bootVars, spaceVars, pageVars
  <1>3. panic = None /\ call = None
    BY <1>2 DEF Running
  <1>4. AllocsOK(live) /\ LateOK(live, slabs) /\ PagesApart(live, slabs) /\ EarlyOK(early, Blocks(live))
    BY DEF HeapInv, Types
  <1>5. AllocsOK(live') /\ Evolves(live, live', {a}, {})
    BY <1>2, <1>4, DeallocEvolves
  <1>6. LateOK(live', slabs')
    <2>1. LateOK(live', slabs)
      BY <1>4, <1>5, LateKept
    <2> QED  BY <1>2, <2>1
  <1>7. CallOK'
    BY <1>2, <1>3 DEF CallOK
  <1>8. early' \in Areas /\ EarlyOK(early', Blocks(live'))
    <2>1. early \in Areas /\ Blocks(live) \in SUBSET Allocations
      BY DEF HeapInv, Types, Areas, AllocsOK, Blocks
    <2>2. CASE a.ty = Early
      <3> DEFINE B == Blocks(live)
                 d == EarlyFree(early, a.ptr, a.size)
      <3>1. a \in B /\ Blocks(live') = B \ {a} /\ \A b, c \in B : b.ptr = c.ptr => b = c
        BY <1>2, <1>4, <2>2 DEF Blocks, AllocsOK
      <3>2. B \in SUBSET Allocations /\ EarlyOK(early, B)
        BY <1>4, <2>1
      <3> HIDE DEF B
      <3>3. d \in Areas /\ EarlyOK(d, B \ {a})
        BY <2>1, <3>1, <3>2, EarlyFreed
      <3> HIDE DEF d
      <3>4. early' = d
        BY <1>2, <2>2 DEF d
      <3> QED  BY <3>1, <3>3, <3>4
    <2>3. CASE a.ty # Early
      <3>1. EarlyOK(early, Blocks(live'))
        BY <1>4, <1>5, <2>3, EarlyKept
      <3> QED  BY <1>2, <2>1, <2>3, <3>1
    <2> QED  BY <2>2, <2>3
  <1>9. CASE a.ty # Page
    <2>1. UNCHANGED <<free, table, regions, panic>>
      BY <1>2, <1>9
    <2>2. HeapPages' = HeapPages /\ PagesApart(live', slabs')
      BY <1>2, <1>5, <1>9, SmallEvolves
    <2>3. /\ TreesOK' /\ PagesOwned(HeapPages, regions, CallPages)'
          /\ FramesOwned(Mapped, table, free, Got, newRoot)'
      BY <1>2, <2>1, <2>2, PagesQuiet
    <2>4. Types'
      BY <1>2, <1>5, <1>8, <2>1 DEF HeapInv, Types, Areas
    <2>5. BootOK'
      BY <1>2, <2>1 DEF HeapInv, BootOK
    <2>6. panic' # "page is not mapped"
      BY <2>1 DEF HeapInv
    <2> QED  BY <1>6, <1>7, <1>8, <2>2, <2>3, <2>4, <2>5, <2>6 DEF HeapInv
  <1>10. CASE a.ty = Page
    <2> DEFINE ps == Span(a)
    <2>1. /\ ps \subseteq HeapPages
          /\ \A p \in ps : ~SlabPage(slabs, p) /\ ~AllocPage(live \ {a}, p)
          /\ \A p : AllocPage({a}, p) <=> p \in ps
      BY <1>10, SpanIs
    <2>2. /\ free' = free \cup FramesAt(ps) /\ table' = Unmapped(table, KRoot, ps)
          /\ regions' = regions \cup ps /\ panic' = panic
      BY <1>2, <1>10, <2>1, FramesThere DEF FreePagesOf
    <2> HIDE DEF ps
    <2>3. \A p : p \in HeapPages' <=> p \in HeapPages /\ p \notin ps
      <3>1. \A p : ~AllocPage({}, p)
        BY DEF AllocPage
      <3>2. \A p : AllocPage(live', p) <=> AllocPage(live, p) /\ ~AllocPage({a}, p)
        BY <1>4, <1>5, <3>1, PagesEvolve
      <3> QED  BY <1>2, <2>1, <3>2, HeapPagesAre
    <2>4. HeapPages' = HeapPages \ ps
      BY <2>3
    <2>5. /\ free' \subseteq HeapFrames /\ regions' \subseteq AllPages /\ TreesOK'
          /\ \A i \in 0 .. Slots - 1 : table'[KRoot][i] = table[KRoot][i]
          /\ PagesOwned(HeapPages, regions, CallPages)'
          /\ FramesOwned(Mapped, table, free, Got, newRoot)'
      BY <1>2, <2>1, <2>2, <2>4, PagesFreed
    <2>6. PagesApart(live', slabs')
      <3>1. NewPages(live, {a}, {}, slabs, slabs)
        BY <1>4 DEF NewPages, PagesApart
      <3>2. PagesApart(live', slabs)
        BY <1>4, <1>5, <3>1, ApartKept
      <3> QED  BY <1>2, <3>2
    <2>7. Types'
      BY <1>2, <1>5, <1>8, <2>5 DEF HeapInv, Types, Areas
    <2>8. ~useEarly /\ booted
      BY <1>10, AllocIs, Sizes DEF HeapInv, BootOK, Types
    <2>9. BootOK'
      <3>1. \A i \in 0 .. Slots - 1 : table'[KRoot][i] # None
        BY <1>3, <2>5, <2>8 DEF HeapInv, BootOK
      <3> QED  BY <1>2, <2>8, <3>1 DEF BootOK
    <2>10. panic' # "page is not mapped"
      BY <2>2 DEF HeapInv
    <2> QED  BY <1>6, <1>7, <1>8, <2>5, <2>6, <2>7, <2>9, <2>10 DEF HeapInv
  <1> QED  BY <1>9, <1>10

\* The early allocator grows or shrinks the block that ends at its mark.
LEMMA EarlyResized ==
    ASSUME HeapInv, Running, NEW a \in live, a.ty = Early, NEW size \in Nat \ {0},
           EarlyRealloc(a, size), UNCHANGED <<bootVars, spaceVars>>
    PROVE  HeapInv'
  <1>1. panic = None /\ call = None
    BY DEF Running
  <1>2. UNCHANGED <<useEarly, booted, spaces, newRoot, free, table, regions, slabs, call>>
    BY DEF EarlyRealloc, pageVars, bootVars, spaceVars
  <1>3. CASE panic' \in {"early realloc", "early memory"} /\ UNCHANGED <<early, live>>
    <2>1. panic' # "page is not mapped"
      BY <1>3
    <2> QED  BY <1>1, <1>2, <1>3, <2>1, PanicOnly
  <1>4. CASE /\ size > a.size => /\ EndsAtMark(early, a.ptr, a.size)
                                 /\ HasRoomFor(early, FullSize(size) - FullSize(a.size))
             /\ early' = IF size > a.size THEN EarlyGrow(early, a.ptr, a.size, size)
                         ELSE IF size < a.size THEN EarlyShrink(early, a.ptr, a.size, size)
                         ELSE early
             /\ Resize(a, size) /\ panic' = panic
    <2> DEFINE n == [a EXCEPT !.size = size]
               B == Blocks(live)
    <2>1. AllocsOK(live) /\ LateOK(live, slabs) /\ early \in Areas
      BY DEF HeapInv, Types, Areas
    <2>2. /\ AllocsOK(live') /\ Evolves(live, live', {a}, {n})
          /\ n \in Allocations /\ n.size = size /\ n.ptr = a.ptr /\ n.align = a.align
          /\ n.ty = a.ty /\ n.base = a.base
      BY <1>4, <2>1, ResizeEvolves
    <2>3. live' = (live \ {a}) \cup {n}
      BY <1>4 DEF Resize
    <2> HIDE DEF n
    <2>4. /\ B \in SUBSET Allocations /\ EarlyOK(early, B) /\ a \in B
          /\ \A b, c \in B : b.ptr = c.ptr => b = c
          /\ Blocks(live') = (B \ {a}) \cup {n}
      BY <2>1, <2>2, <2>3 DEF HeapInv, Blocks, AllocsOK
    <2> HIDE DEF B
    <2>5. a.size \in Nat
      BY AllocIs
    <2>6. early' \in Areas /\ EarlyOK(early', Blocks(live'))
      <3>1. CASE size > a.size
        <4> DEFINE d == EarlyGrow(early, a.ptr, a.size, size)
        <4>1. d \in Areas /\ EarlyOK(d, (B \ {a}) \cup {n})
          <5>1. /\ EndsAtMark(early, a.ptr, a.size)
                /\ HasRoomFor(early, FullSize(size) - FullSize(a.size))
            BY <1>4, <3>1
          <5> QED  BY <2>1, <2>2, <2>4, <3>1, <5>1, EarlyGrown
        <4>2. early' = d
          BY <1>4, <3>1
        <4> HIDE DEF d
        <4> QED  BY <2>4, <4>1, <4>2
      <3>2. CASE size < a.size
        <4> DEFINE d == EarlyShrink(early, a.ptr, a.size, size)
        <4>1. d \in Areas /\ EarlyOK(d, (B \ {a}) \cup {n})
          BY <2>1, <2>2, <2>4, <3>2, EarlyShrunk
        <4>2. early' = d
          <5>1. ~(size > a.size)
            BY <2>5, <3>2
          <5> QED  BY <1>4, <3>2, <5>1
        <4> HIDE DEF d
        <4> QED  BY <2>4, <4>1, <4>2
      <3>3. CASE size = a.size
        <4>1. early' = early
          <5>1. ~(size > a.size) /\ ~(size < a.size)
            BY <2>5, <3>3
          <5> QED  BY <1>4, <5>1
        <4>2. Like(n, a)
          BY <2>2, <3>3 DEF Like
        <4>3. \A b \in (B \ {a}) \cup {n} : \E c \in B : Like(b, c)
          <5>1. \A b \in B : Like(b, b)
            BY DEF Like
          <5> QED  BY <2>4, <4>2, <5>1
        <4>4. EarlyOK(early, (B \ {a}) \cup {n})
          BY <2>4, <4>3, EarlyLike
        <4> QED  BY <2>1, <2>4, <4>1, <4>4
      <3> QED  BY <2>5, <3>1, <3>2, <3>3
    <2>7. a.ty # Page /\ n.ty = Early /\ n.ty # Page
      BY <2>2, Sizes
    <2>8. HeapPages' = HeapPages /\ PagesApart(live', slabs')
      BY <1>2, <2>2, <2>7, SmallEvolves
    <2>9. /\ TreesOK' /\ PagesOwned(HeapPages, regions, CallPages)'
          /\ FramesOwned(Mapped, table, free, Got, newRoot)'
      BY <1>2, <2>8, PagesQuiet
    <2>10. LateOK(live', slabs')
      <3>1. \A m \in {n} : m.ty # Early => Placed(m, slabs)
        BY <2>7
      <3>2. LateOK(live', slabs)
        BY <2>1, <2>2, <3>1, LateKept
      <3> QED  BY <1>2, <3>2
    <2>11. Types'
      BY <1>2, <2>2, <2>6 DEF HeapInv, Types, Areas
    <2>12. BootOK'
      <3>1. useEarly => \A b \in live' : b.ty = Early
        BY <2>3, <2>7 DEF HeapInv, BootOK
      <3> QED  BY <1>2, <1>4, <3>1 DEF HeapInv, BootOK
    <2>13. CallOK'
      BY <1>1, <1>2 DEF CallOK
    <2>14. panic' # "page is not mapped"
      BY <1>4 DEF HeapInv
    <2> QED  BY <2>6, <2>8, <2>9, <2>10, <2>11, <2>12, <2>13, <2>14 DEF HeapInv
  <1>5. \/ panic' \in {"early realloc", "early memory"} /\ UNCHANGED <<early, live>>
        \/ /\ size > a.size => /\ EndsAtMark(early, a.ptr, a.size)
                               /\ HasRoomFor(early, FullSize(size) - FullSize(a.size))
           /\ early' = IF size > a.size THEN EarlyGrow(early, a.ptr, a.size, size)
                       ELSE IF size < a.size THEN EarlyShrink(early, a.ptr, a.size, size)
                       ELSE early
           /\ Resize(a, size) /\ panic' = panic
    BY DEF EarlyRealloc, Panic
  <1> QED  BY <1>3, <1>4, <1>5

\* What is not an early block gets another size where it is, in as many pages or
\* fewer: the rest of them go back.
LEMMA LateResized ==
    ASSUME HeapInv, Running, ~useEarly, NEW a \in live, a.ty # Early, NEW size \in Nat \ {0},
           LateType(size, a.align) = a.ty, Resize(a, size),
           NEW rest, rest = IF a.ty = Page THEN Span(a) \ PagesFrom(a, NumPages(size)) ELSE {},
           a.ty = Page => PagesFrom(a, NumPages(size)) \subseteq Span(a),
           free' = free \cup FramesAt(rest), regions' = regions \cup rest,
           UNCHANGED <<early, useEarly, booted, table, slabs, call, spaces, newRoot, panic>>
    PROVE  HeapInv'
  <1> DEFINE n == [a EXCEPT !.size = size]
  <1>1. /\ AllocsOK(live) /\ LateOK(live, slabs) /\ PagesApart(live, slabs)
        /\ EarlyOK(early, Blocks(live)) /\ panic = None /\ call = None
    BY DEF HeapInv, Types, Running
  <1>2. /\ AllocsOK(live') /\ Evolves(live, live', {a}, {n})
        /\ n \in Allocations /\ n.size = size /\ n.ptr = a.ptr /\ n.align = a.align
        /\ n.ty = a.ty /\ n.base = a.base
    BY <1>1, ResizeEvolves
  <1> HIDE DEF n
  <1>3. Placed(n, slabs)
    <2>1. Placed(a, slabs)
      BY AllocIs
    <2> QED  BY <1>2, <2>1 DEF Placed
  <1>4. LateOK(live', slabs')
    <2>1. \A m \in {n} : m.ty # Early => Placed(m, slabs)
      BY <1>3
    <2>2. LateOK(live', slabs)
      BY <1>1, <1>2, <2>1, LateKept
    <2> QED  BY <2>2
  <1>5. EarlyOK(early', Blocks(live'))
    <2>1. \A m \in {a} \cup {n} : m.ty # Early
      BY <1>2
    <2>2. EarlyOK(early, Blocks(live'))
      BY <1>1, <1>2, <2>1, EarlyKept
    <2> QED  BY <2>2
  <1>6. rest \in SUBSET HeapPages /\ HeapPages' = HeapPages \ rest /\ PagesApart(live', slabs')
    <2>1. CASE a.ty = Page
      <3> DEFINE kept == PagesFrom(a, NumPages(size))
      <3>1. Span(n) = kept /\ kept \subseteq Span(a) /\ rest = Span(a) \ kept
        BY <1>2, <2>1 DEF Span, PagesFrom
      <3> HIDE DEF kept
      <3>2. /\ Span(a) \subseteq HeapPages
            /\ \A p \in Span(a) : ~SlabPage(slabs, p) /\ ~AllocPage(live \ {a}, p)
            /\ \A p : AllocPage({a}, p) <=> p \in Span(a)
        BY <2>1, SpanIs
      <3>3. \A p : AllocPage({n}, p) <=> p \in kept
        BY <1>2, <2>1, <3>1 DEF AllocPage
      <3>4. \A p : AllocPage(live', p) <=> (AllocPage(live, p) /\ ~AllocPage({a}, p)) \/ AllocPage({n}, p)
        BY <1>1, <1>2, PagesEvolve
      <3>5. \A p : p \in HeapPages' <=> p \in HeapPages /\ p \notin rest
        BY <3>1, <3>2, <3>3, <3>4, HeapPagesAre
      <3>6. HeapPages' = HeapPages \ rest
        BY <3>5
      <3>7. NewPages(live, {a}, {n}, slabs, slabs)
        <4>1. \A c, d \in Classes : c # d => slabs[c] \cap slabs[d] = {}
          BY <1>1 DEF PagesApart
        <4> QED  BY <3>1, <3>2, <4>1 DEF NewPages
      <3>8. PagesApart(live', slabs)
        BY <1>1, <1>2, <3>7, ApartKept
      <3> QED  BY <3>1, <3>2, <3>6, <3>8
    <2>2. CASE a.ty # Page
      <3>1. HeapPages' = HeapPages /\ PagesApart(live', slabs')
        BY <1>2, <2>2, SmallEvolves
      <3> QED  BY <2>2, <3>1
    <2> QED  BY <2>1, <2>2
  <1>7. /\ free' \subseteq HeapFrames /\ regions' \subseteq AllPages /\ TreesOK'
        /\ PagesOwned(HeapPages, regions, CallPages)'
        /\ FramesOwned(Mapped, table, free, Got, newRoot)'
    <2>1. table' \in {table, Unmapped(table, KRoot, rest)}
      OBVIOUS
    <2> QED  BY <1>6, <2>1, PagesFreed
  <1>8. Types'
    BY <1>2, <1>7 DEF HeapInv, Types
  <1>9. BootOK'
    BY DEF HeapInv, BootOK
  <1>10. CallOK'
    BY <1>1 DEF CallOK
  <1>11. panic' # "page is not mapped"
    BY DEF HeapInv
  <1> QED  BY <1>4, <1>5, <1>6, <1>7, <1>8, <1>9, <1>10, <1>11 DEF HeapInv

\* grow and shrink of PageBasedAlloc
LEMMA PagesResized ==
    ASSUME HeapInv, Running, ~useEarly, NEW a \in live, a.ty = Page, NEW size \in Nat \ {0},
           LateType(size, a.align) = Page, PageRealloc(a, size), UNCHANGED <<bootVars, spaceVars>>
    PROVE  HeapInv'
  <1> DEFINE had  == NumPages(a.size)
             has  == NumPages(size)
             rest == PagesFrom(a, had) \ PagesFrom(a, has)
  <1>1. panic = None /\ call = None
    BY DEF Running
  <1>2. UNCHANGED <<useEarly, booted, spaces, newRoot>>
    BY DEF bootVars, spaceVars
  <1>3. a.size \in Nat \ {0} /\ a.align \in Nat \ {0} /\ \E l \in Layouts : a.align = l[2]
    BY AllocIs
  <1>4. CASE a.align >= Page
    <2>1. panic' = "alloc error" /\ UNCHANGED <<free, table, regions, early, slabs, live, call>>
      BY <1>4 DEF PageRealloc, Panic, pageVars
    <2>2. panic' # "page is not mapped"
      BY <2>1
    <2> QED  BY <1>1, <1>2, <2>1, <2>2, PanicOnly
  <1>5. CASE ~(a.align >= Page) /\ has > had
    <2> DEFINE l == <<size, a.align>>
    <2>1. BeginPages(Page, l, {a})
      BY <1>5 DEF PageRealloc
    <2>2. Asked(l) /\ l[1] = size /\ l[2] = a.align
      BY <1>3 DEF Asked
    <2> HIDE DEF l
    <2>3. Page = LateType(l[1], l[2]) /\ {a} \in SUBSET live
      BY <2>2
    <2> QED  BY <2>1, <2>2, <2>3, PagesBegun
  <1>6. CASE ~(a.align >= Page) /\ ~(has > had)
    <2>1. had \in Nat /\ has \in Nat /\ has <= had
      BY <1>3, <1>6, EnoughPages
    <2>2. a.ty # Early /\ a.ptr \in Nat /\ a.ptr >= EarlySize
      BY AllocIs, Sizes
    <2>3. PagesFrom(a, has) \subseteq Span(a) /\ Span(a) = PagesFrom(a, had)
      <3>1. PageAt(a.ptr) \in Nat
        BY <2>2, PageOfWord
      <3> HIDE DEF had, has
      <3>2. PagesFrom(a, has) \subseteq PagesFrom(a, had)
        BY <2>1, <3>1 DEF PagesFrom, PageSpan
      <3> QED  BY <3>2 DEF Span, had, has
    <2>4. Span(a) \subseteq HeapPages
      BY SpanIs
    <2>5. rest \in SUBSET HeapPages /\ rest = Span(a) \ PagesFrom(a, has)
      BY <2>3, <2>4
    <2>6. None \notin FramesAt(rest)
      BY <2>5, FramesThere
    <2>7. /\ free' = free \cup FramesAt(rest) /\ regions' = regions \cup rest
          /\ Resize(a, size) /\ UNCHANGED <<panic, table, early, slabs, call>>
      BY <1>6, <2>6 DEF PageRealloc
    <2> HIDE DEF rest
    <2> QED  BY <1>2, <2>2, <2>3, <2>5, <2>7, LateResized
  <1> QED  BY <1>4, <1>5, <1>6

\* DefaultAlloc::realloc keeps the invariant, in place or by way of a new allocation.
LEMMA ReallocKeeps ==
    ASSUME HeapInv, NEW a \in live, NEW size \in NewSizes, Realloc(a, size)
    PROVE  HeapInv'
  <1> DEFINE ty == NewType(size, a.align)
  <1>1. size \in Nat \ {0}
    BY HeapAssumption
  <1>2. /\ a.align \in Nat \ {0} /\ \E l \in Layouts : a.align = l[2]
        /\ ExistingType(a) = a.ty /\ (a.ty # Early => ~useEarly)
    BY AllocIs
  <1>3. ty = IF useEarly THEN Early ELSE LateType(size, a.align)
    BY NewTypeIs
  <1>4. Running /\ UNCHANGED <<bootVars, spaceVars>>
    BY DEF Realloc
  <1>5. CASE ty # a.ty /\ Serve(<<size, a.align>>, {a})
    <2> DEFINE l == <<size, a.align>>
    <2>1. Asked(l) /\ Serve(l, {a})
      BY <1>1, <1>2, <1>5 DEF Asked
    <2>2. ~useEarly
      BY <1>2, <1>3, <1>5
    <2> HIDE DEF l
    <2>3. {a} \in SUBSET live
      OBVIOUS
    <2> QED  BY <1>4, <2>1, <2>2, <2>3, Served
  <1>6. CASE ty = a.ty /\ ty = Early /\ EarlyRealloc(a, size)
    BY <1>1, <1>4, <1>6, EarlyResized
  <1>7. CASE ty = a.ty /\ ty \in Classes /\ SlabRealloc(a, size)
    <2>1. a.ty # Early /\ a.ty # Page /\ ~useEarly /\ LateType(size, a.align) = a.ty
      BY <1>2, <1>3, <1>7, Sizes
    <2>2. Resize(a, size) /\ UNCHANGED <<free, table, regions, early, slabs, call, panic>>
      BY <1>7 DEF SlabRealloc, pageVars
    <2>3. UNCHANGED <<useEarly, booted, spaces, newRoot>>
      BY <1>4 DEF bootVars, spaceVars
    <2>4. FramesAt({}) = {}
      BY DEF FramesAt
    <2>5. {} = IF a.ty = Page THEN Span(a) \ PagesFrom(a, NumPages(size)) ELSE {}
      BY <2>1
    <2>6. free' = free \cup FramesAt({}) /\ regions' = regions \cup {}
      BY <2>2, <2>4
    <2> QED  BY <1>1, <1>4, <2>1, <2>2, <2>3, <2>5, <2>6, LateResized
  <1>8. CASE ty = a.ty /\ ty = Page /\ PageRealloc(a, size)
    <2>1. ~useEarly /\ LateType(size, a.align) = Page
      BY <1>3, <1>8, Sizes
    <2> QED  BY <1>1, <1>4, <1>8, <2>1, PagesResized
  <1> HIDE DEF ty
  <1>9. \/ ty # a.ty /\ Serve(<<size, a.align>>, {a})
        \/ ty = a.ty /\ ty = Early /\ EarlyRealloc(a, size)
        \/ ty = a.ty /\ ty \in Classes /\ SlabRealloc(a, size)
        \/ ty = a.ty /\ ty = Page /\ PageRealloc(a, size)
    BY <1>2 DEF Realloc, ty
  <1> QED  BY <1>5, <1>6, <1>7, <1>8, <1>9

-----------------------------------------------------------------------------
(* Boot, and the other address spaces                                      *)

\* init_kernel_addrspace: all pages that are free are the region allocator's, and the root is full.
LEMMA InitKernelAddrspaceKeeps ==
    ASSUME HeapInv, InitKernelAddrspace
    PROVE  HeapInv'
  <1>1. panic = None /\ call = None /\ ~booted
    BY DEF InitKernelAddrspace, Running
  <1>2. /\ booted' = TRUE /\ regions' = FreePages(table, KRoot)
        /\ UNCHANGED <<early, useEarly, slabs, live, call, spaces, newRoot>>
    BY DEF InitKernelAddrspace, spaceVars
  <1>3. /\ useEarly /\ table = BootTable /\ newRoot = None /\ spaces = {}
        /\ \A a \in live : a.ty = Early
        /\ \A c \in Classes : slabs[c] = {}
    BY <1>1 DEF HeapInv, BootOK
  <1>4. HeapPages = {} /\ HeapPages' = {}
    <2>1. \A p : ~SlabPage(slabs, p) /\ ~AllocPage(live, p)
      BY <1>3, Sizes DEF SlabPage, AllocPage
    <2>2. \A p : p \notin HeapPages /\ p \notin HeapPages'
      BY <1>2, <2>1, HeapPagesAre
    <2> QED  BY <2>2
  <1>5. /\ CallPages = {} /\ DonePages = {} /\ Got = {} /\ Mapped = {}
        /\ CallPages' = {} /\ DonePages' = {} /\ Got' = {} /\ Mapped' = {}
    BY <1>1, <1>2, <1>4 DEF CallPages, DonePages, Got, Mapped
  <1>6. regions' \subseteq AllPages
    BY <1>2 DEF FreePages
  <1>7. PagesOwned(HeapPages, regions, CallPages)'
    BY <1>2, <1>3, <1>4, <1>5, <1>6 DEF PagesOwned
  <1>8. EarlyOK(early, Blocks(live))' /\ LateOK(live, slabs)' /\ PagesApart(live, slabs)'
    BY <1>2 DEF HeapInv
  <1>9. CallOK'
    BY <1>1, <1>2 DEF CallOK
  <1>10. FramesOwned({}, table, free, {}, None)
    BY <1>3, <1>5 DEF HeapInv
  <1>11. CASE panic' = "no frame for a table" /\ UNCHANGED <<free, table>>
             /\ Cardinality(free) < Cardinality(UnusedSlots(table, KRoot))
    <2>1. TreesOK'
      BY <1>2, <1>11, FreeIs, TreesAre
    <2>2. FramesOwned(Mapped, table, free, Got, newRoot)'
      BY <1>2, <1>3, <1>5, <1>10, <1>11
    <2>3. Types'
      BY <1>2, <1>6, <1>11 DEF HeapInv, Types
    <2>4. BootOK'
      <3>1. panic' # None
        <4>1. None # "no frame for a table"
          BY HeapAssumption
        <4> QED  BY <1>11, <4>1
      <3> QED  BY <1>1, <1>2, <1>3, <3>1 DEF BootOK
    <2>5. panic' # "page is not mapped"
      BY <1>11
    <2> QED  BY <1>7, <1>8, <1>9, <2>1, <2>2, <2>3, <2>4, <2>5 DEF HeapInv
  <1>12. CASE /\ ~(Cardinality(free) < Cardinality(UnusedSlots(table, KRoot)))
              /\ table' = Filled(KRoot) /\ free' = free \ DOMAIN table' /\ panic' = panic
    <2> DEFINE u == Filled(KRoot)
    <2>1. Cardinality(UnusedSlots(table, KRoot)) <= Cardinality(free)
      <3>1. IsFiniteSet(free) /\ Cardinality(free) \in Nat
        BY FreeIs, FS_CardinalityType
      <3>2. IsFiniteSet(0 .. Slots - 1)
        <4>1. Slots \in Nat
          BY HeapAssumption
        <4>2. 0 \in Int /\ Slots - 1 \in Int
          BY <4>1
        <4> QED  BY <4>2, FS_Interval
      <3>3. IsFiniteSet(UnusedSlots(table, KRoot))
        BY <3>2, FS_Subset DEF UnusedSlots
      <3>4. Cardinality(UnusedSlots(table, KRoot)) \in Nat
        BY <3>3, FS_CardinalityType
      <3> QED  BY <1>12, <3>1, <3>4
    <2>2. /\ Tree(u) /\ \A i \in 0 .. Slots - 1 : u[KRoot][i] # None
          /\ \E new \in SUBSET free : DOMAIN u = DOMAIN table \cup new
          /\ \A q \in AllPages : GetPage(u, KRoot, q) = GetPage(table, KRoot, q)
      BY <2>1, FreeIs, RootFilled
    <2> HIDE DEF u
    <2>3. table' = u
      BY <1>12 DEF u
    <2>4. PICK D \in SUBSET free : DOMAIN u = DOMAIN table \cup D
      BY <2>2
    <2>5. free \ DOMAIN u = free \ D /\ FramesOwned({}, u, free \ D, {}, None)
      BY <1>10, <2>4, FreeIs, TablesMade
    <2>6. FramesOwned(Mapped, table, free, Got, newRoot)'
      BY <1>2, <1>3, <1>5, <1>12, <2>3, <2>5
    <2>7. TreesOK'
      <3>1. Roots(u, {})
        BY DEF Roots
      <3> QED  BY <1>2, <1>3, <2>2, <2>3, <3>1, TreesAre
    <2>8. Types'
      BY <1>2, <1>6, <1>12 DEF HeapInv, Types
    <2>9. BootOK'
      BY <1>1, <1>2, <1>3, <2>2, <2>3 DEF BootOK
    <2>10. panic' # "page is not mapped"
      BY <1>12 DEF HeapInv
    <2> QED  BY <1>7, <1>8, <1>9, <2>6, <2>7, <2>8, <2>9, <2>10 DEF HeapInv
  <1> QED  BY <1>11, <1>12 DEF InitKernelAddrspace, Panic

\* The switch to the later allocators changes nothing else.
LEMMA SetUseEarlyAllocKeeps ==
    ASSUME HeapInv, SetUseEarlyAlloc
    PROVE  HeapInv'
  <1>1. /\ booted /\ useEarly' = FALSE
        /\ UNCHANGED <<early, booted, free, table, regions, slabs, live, call, spaces, newRoot, panic>>
    BY DEF SetUseEarlyAlloc, pageVars, spaceVars
  <1>2. HeapPages' = HeapPages
    BY <1>1 DEF HeapPages, PagesFrom, PageSpan, PageAt, NumPages
  <1>3. /\ TreesOK' /\ PagesOwned(HeapPages, regions, CallPages)'
        /\ FramesOwned(Mapped, table, free, Got, newRoot)'
    BY <1>1, <1>2, PagesQuiet
  <1>4. Types'
    BY <1>1 DEF HeapInv, Types
  <1>5. BootOK'
    BY <1>1 DEF HeapInv, BootOK
  <1>6. CallOK'
    BY <1>1 DEF HeapInv, CallOK
  <1>7. /\ EarlyOK(early, Blocks(live))' /\ LateOK(live, slabs)' /\ PagesApart(live, slabs)'
        /\ panic' # "page is not mapped"
    BY <1>1 DEF HeapInv
  <1> QED  BY <1>3, <1>4, <1>5, <1>6, <1>7 DEF HeapInv

\* AddressSpace::new takes a frame, perhaps in the middle of a call of allocate,
LEMMA TakeRootKeeps ==
    ASSUME HeapInv, TakeRoot
    PROVE  HeapInv'
  <1>1. /\ panic = None /\ ~useEarly /\ newRoot = None
        /\ UNCHANGED <<early, useEarly, booted, table, regions, slabs, live, call, spaces>>
    BY DEF TakeRoot, bootVars
  <1>2. CASE free = {}
    <2>1. panic' = "no frame for a table" /\ UNCHANGED <<free, newRoot>>
      BY <1>2 DEF TakeRoot, Panic
    <2>2. panic' # "page is not mapped"
      BY <2>1
    <2> QED  BY <1>1, <2>1, <2>2, PanicOnly
  <1>3. CASE free # {}
    <2> DEFINE r == Least(free)
    <2>1. newRoot' = r /\ free' = free \ {r} /\ panic' = panic
      BY <1>3 DEF TakeRoot
    <2>2. r \in free /\ free \in SUBSET HeapFrames
      BY <1>3, FreeIs, LeastOf
    <2> HIDE DEF r
    <2>3. HeapPages' = HeapPages
      BY <1>1 DEF HeapPages, PagesFrom, PageSpan, PageAt, NumPages
    <2>4. Mapped' = Mapped /\ Got' = Got /\ CallPages' = CallPages
      BY <1>1, <2>3 DEF Mapped, DonePages, Got, CallPages
    <2>5. FramesOwned(Mapped, table, free, Got, newRoot)'
      <3>1. FramesOwned(Mapped, table, free, Got, None)
        BY <1>1 DEF HeapInv
      <3>2. FramesOwned(Mapped, table, free \ {r}, Got, r)
        BY <2>2, <3>1, RootTaken
      <3> QED  BY <1>1, <2>1, <2>4, <3>2
    <2>6. PagesOwned(HeapPages, regions, CallPages)'
      BY <1>1, <2>3, <2>4 DEF HeapInv, PagesOwned
    <2>7. TreesOK'
      BY <1>1, FreeIs, TreesAre
    <2>8. Types'
      BY <1>1, <2>1, <2>2 DEF HeapInv, Types
    <2>9. BootOK'
      BY <1>1, <2>1 DEF HeapInv, BootOK
    <2>10. CallOK'
      BY <1>1 DEF HeapInv, CallOK
    <2>11. /\ EarlyOK(early, Blocks(live))' /\ LateOK(live, slabs)' /\ PagesApart(live, slabs)'
           /\ panic' # "page is not mapped"
      BY <1>1, <2>1 DEF HeapInv
    <2> QED  BY <2>5, <2>6, <2>7, <2>8, <2>9, <2>10, <2>11 DEF HeapInv
  <1> QED  BY <1>2, <1>3

\* and makes it a copy of the kernel's root, which is full.
LEMMA CopyUpperHalfKeeps ==
    ASSUME HeapInv, CopyUpperHalf
    PROVE  HeapInv'
  <1> DEFINE r == newRoot
             u == [g \in DOMAIN table \cup {r} |-> IF g = r THEN table[KRoot] ELSE table[g]]
  <1>1. /\ panic = None /\ call = None /\ r # None /\ table' = u
        /\ spaces' = spaces \cup {r} /\ newRoot' = None
        /\ UNCHANGED <<early, useEarly, booted, free, regions, slabs, live, call, panic>>
    BY DEF CopyUpperHalf, Running, bootVars
  <1>2. r \in HeapFrames /\ r \notin DOMAIN table
    BY <1>1 DEF HeapInv, Types, FramesOwned
  <1>3. Tree(table) /\ Roots(table, spaces) /\ KRoot \in DOMAIN table
    BY FreeIs DEF Tree
  <1> HIDE DEF r
  <1>4. /\ DOMAIN u = DOMAIN table \cup {r} /\ u[r] = table[KRoot]
        /\ \A g \in DOMAIN table : u[g] = table[g]
    BY <1>2
  <1> HIDE DEF u
  <1>5. /\ Tree(u) /\ Mids(u) = Mids(table)
        /\ \A q \in AllPages : GetPage(u, KRoot, q) = GetPage(table, KRoot, q)
    <2>1. DOMAIN table \subseteq DOMAIN u
      BY <1>4
    <2> QED  BY <1>3, <1>4, <2>1, TableAdded
  <1>6. Roots(u, spaces \cup {r})
    <2>1. \A m \in Mids(table) : m \in DOMAIN table /\ u[m] = table[m] /\ m # r
      BY <1>2, <1>3, <1>4 DEF Tree
    <2>2. \A m \in Mids(table), j \in 0 .. Fan - 1 : u[m][j] # r
      BY <1>1, <1>2, <1>3, <2>1 DEF Tree
    <2>3. u[KRoot] = table[KRoot] /\ r # KRoot
      BY <1>2, <1>3, <1>4
    <2>4. ASSUME NEW s \in spaces \cup {r}
          PROVE  /\ s \in DOMAIN u /\ s # KRoot /\ u[s] = u[KRoot] /\ s \notin Mids(u)
                 /\ \A m \in Mids(u), j \in 0 .. Fan - 1 : u[m][j] # s
      <3>1. CASE s = r
        BY <1>4, <1>5, <2>1, <2>2, <2>3, <3>1
      <3>2. CASE s \in spaces
        BY <1>3, <1>4, <1>5, <2>1, <2>3, <3>2 DEF Roots
      <3> QED  BY <3>1, <3>2
    <2> QED  BY <2>4 DEF Roots
  <1>7. TreesOK'
    BY <1>1, <1>5, <1>6, TreesAre
  <1>8. HeapPages' = HeapPages
    BY <1>1 DEF HeapPages, PagesFrom, PageSpan, PageAt, NumPages
  <1>9. Mapped' = Mapped /\ Got' = Got /\ CallPages' = CallPages
    BY <1>1, <1>8 DEF Mapped, DonePages, Got, CallPages
  <1>10. FramesOwned(Mapped, table, free, Got, newRoot)'
    <2>1. FramesOwned(Mapped, table, free, Got, r) /\ free \in SUBSET HeapFrames
      BY FreeIs DEF HeapInv, r
    <2>2. Got = {} /\ Mapped = HeapPages
      BY <1>1 DEF Got, Mapped, DonePages
    <2>3. \A q \in Mapped : GetPage(u, KRoot, q) = GetPage(table, KRoot, q)
      BY <1>5, <2>2 DEF HeapInv, PagesOwned
    <2>4. Got \in SUBSET HeapFrames
      BY <2>2
    <2>5. FramesOwned(Mapped, u, free, Got, None)
      BY <1>2, <1>4, <2>1, <2>3, <2>4, RootMade
    <2> QED  BY <1>1, <1>9, <2>5
  <1>11. PagesOwned(HeapPages, regions, CallPages)'
    BY <1>1, <1>8, <1>9 DEF HeapInv, PagesOwned
  <1>12. Types'
    BY <1>1 DEF HeapInv, Types
  <1>13. BootOK'
    <2>1. ~useEarly /\ booted
      BY <1>1 DEF HeapInv, BootOK, Types, r
    <2>2. \A i \in 0 .. Slots - 1 : table'[KRoot][i] # None
      BY <1>1, <1>3, <1>4, <2>1 DEF HeapInv, BootOK
    <2> QED  BY <1>1, <2>1, <2>2 DEF BootOK
  <1>14. CallOK'
    BY <1>1 DEF CallOK
  <1>15. /\ EarlyOK(early, Blocks(live))' /\ LateOK(live, slabs)' /\ PagesApart(live, slabs)'
         /\ panic' # "page is not mapped"
    BY <1>1 DEF HeapInv
  <1> QED  BY <1>7, <1>10, <1>11, <1>12, <1>13, <1>14, <1>15 DEF HeapInv

-----------------------------------------------------------------------------
(* The invariant                                                           *)

\* The heap starts in the invariant.
LEMMA HeapInvStarts ==
    ASSUME Init
    PROVE  HeapInv
  <1> USE DEF Init
  <1>1. Types
    <2>1. EarlySize \in Nat
      BY Sizes
    <2>2. early \in [mark : 0 .. EarlySize, word : [0 .. EarlySize - 1 -> Int \cup {Junk}]]
      BY <2>1 DEF EarlyInit
    <2>3. AllocsOK(live)
      BY DEF AllocsOK
    <2> QED  BY <2>2, <2>3 DEF Types
  <1>2. BootOK /\ CallOK
    BY DEF BootOK, CallOK
  <1>3. TreesOK
    BY HeapAssumption DEF TreesOK
  <1>4. EarlyOK(early, Blocks(live)) /\ LateOK(live, slabs)
    BY DEF EarlyOK, Blocks, LateOK
  <1>5. PagesApart(live, slabs)
    BY DEF PagesApart
  <1>6. HeapPages = {}
    <2>1. \A p : ~SlabPage(slabs, p) /\ ~AllocPage(live, p)
      BY DEF SlabPage, AllocPage
    <2> QED  BY <2>1, HeapPagesAre
  <1>7. CallPages = {} /\ Mapped = {} /\ Got = {}
    BY <1>6 DEF CallPages, DonePages, Mapped, Got
  <1>8. PagesOwned(HeapPages, regions, CallPages)
    BY <1>6, <1>7 DEF PagesOwned
  <1>9. FramesOwned({}, BootTable, HeapFrames, {}, None)
    <2>1. HeapFrames \cap DOMAIN BootTable = {} /\ None \notin HeapFrames \cup DOMAIN BootTable
      BY HeapAssumption
    <2> QED  BY <2>1 DEF FramesOwned
  <1>10. panic # "page is not mapped"
    <2>1. None # "page is not mapped"
      BY HeapAssumption
    <2> QED  BY <2>1
  <1> QED  BY <1>1, <1>2, <1>3, <1>4, <1>5, <1>7, <1>8, <1>9, <1>10 DEF HeapInv

\* A kernel that has stopped stays in it.
LEMMA StutterKeeps ==
    ASSUME HeapInv, UNCHANGED vars
    PROVE  HeapInv'
  <1>1. UNCHANGED <<early, useEarly, booted, free, table, regions, slabs, live, call, spaces, newRoot, panic>>
    BY DEF vars
  <1>2. HeapPages' = HeapPages
    BY <1>1 DEF HeapPages, PagesFrom, PageSpan, PageAt, NumPages
  <1>3. /\ TreesOK' /\ PagesOwned(HeapPages, regions, CallPages)'
        /\ FramesOwned(Mapped, table, free, Got, newRoot)'
    BY <1>1, <1>2, PagesQuiet
  <1>4. Types'
    BY <1>1 DEF HeapInv, Types
  <1>5. BootOK'
    BY <1>1 DEF HeapInv, BootOK
  <1>6. CallOK'
    BY <1>1 DEF HeapInv, CallOK
  <1>7. /\ EarlyOK(early, Blocks(live))' /\ LateOK(live, slabs)' /\ PagesApart(live, slabs)'
        /\ panic' # "page is not mapped"
    BY <1>1 DEF HeapInv
  <1> QED  BY <1>3, <1>4, <1>5, <1>6, <1>7 DEF HeapInv

\* HeapInv holds in every state: what is allocated, mapped, free and in the
\* hands of a call is kept apart by every step of the heap.
THEOREM HeapInvariance == Spec => []HeapInv
  <1>1. Init => HeapInv
    BY HeapInvStarts
  <1>2. HeapInv /\ [Next]_vars => HeapInv'
    <2> SUFFICES ASSUME HeapInv, [Next]_vars PROVE HeapInv'
      OBVIOUS
    <2>1. ASSUME NEW l \in Layouts, Alloc(l) PROVE HeapInv'
      BY <2>1, AllocKeeps
    <2>2. CASE GetBatch
      BY <2>2, GetBatchKeeps
    <2>3. CASE Undo
      BY <2>3, UndoKeeps
    <2>4. CASE MapPage
      BY <2>4, MapPageKeeps
    <2>5. CASE Finish
      BY <2>5, FinishKeeps
    <2>6. ASSUME NEW a \in live, Dealloc(a) PROVE HeapInv'
      BY <2>6, DeallocKeeps
    <2>7. ASSUME NEW a \in live, NEW size \in NewSizes, Realloc(a, size) PROVE HeapInv'
      BY <2>7, ReallocKeeps
    <2>8. CASE InitKernelAddrspace
      BY <2>8, InitKernelAddrspaceKeeps
    <2>9. CASE SetUseEarlyAlloc
      BY <2>9, SetUseEarlyAllocKeeps
    <2>10. CASE TakeRoot
      BY <2>10, TakeRootKeeps
    <2>11. CASE CopyUpperHalf
      BY <2>11, CopyUpperHalfKeeps
    <2>12. CASE Halted
      BY <2>12, StutterKeeps DEF Halted
    <2>13. CASE UNCHANGED vars
      BY <2>13, StutterKeeps
    <2> QED
      BY <2>1, <2>2, <2>3, <2>4, <2>5, <2>6, <2>7, <2>8, <2>9, <2>10, <2>11, <2>12, <2>13 DEF Next
  <1> QED  BY <1>1, <1>2, PTL DEF Spec

-----------------------------------------------------------------------------
(* What follows from the invariant                                         *)

\* dealloc and realloc find the allocator that served a pointer.
THEOREM OwnerIsFound == Spec => []OwnerFound
  <1>1. HeapInv => OwnerFound
    BY AllocIs DEF OwnerFound
  <1> QED  BY <1>1, HeapInvariance, PTL

\* Freeing the last early block returns the mark to where it was.
THEOREM MarkReturns == Spec => []EarlyMarkReturns
  <1>1. HeapInv => EarlyMarkReturns
    <2> SUFFICES ASSUME HeapInv, NEW a \in live, a.ty = Early
                 PROVE  /\ a.ptr + FullSize(a.size) <= early.mark
                        /\ EndsAtMark(early, a.ptr, a.size) =>
                                early.mark - Header(early, a.ptr, a.size) = a.base
      BY DEF EarlyMarkReturns
    <2>1. early \in Areas /\ a \in Blocks(live) /\ EarlyOK(early, Blocks(live)) /\ Blocks(live) \in SUBSET Allocations
      BY DEF HeapInv, Types, Areas, Blocks, AllocsOK
    <2>2. /\ a.base \in Nat /\ EndOf(a) \in Nat /\ early.mark \in Nat /\ EndOf(a) <= early.mark
          /\ EndOf(a) = early.mark => early.word[EndOf(a) - 1] = EndOf(a) - a.base
      BY <2>1, BlockIs
    <2>3. EndOf(a) = a.ptr + FullSize(a.size)
      BY DEF EndOf
    <2>4. Header(early, a.ptr, a.size) = early.word[EndOf(a) - 1]
      <3>1. a.ptr \in Nat /\ FullSize(a.size) \in Nat
        BY <2>1, BlockIs
      <3>2. a.ptr + FullSize(a.size) - 1 = EndOf(a) - 1
        BY <2>3, <3>1
      <3> QED  BY <3>2 DEF Header
    <2>5. EndsAtMark(early, a.ptr, a.size) <=> early.mark = EndOf(a)
      BY <2>3 DEF EndsAtMark
    <2>6. ASSUME early.mark = EndOf(a) PROVE early.mark - early.word[EndOf(a) - 1] = a.base
      BY <2>2, <2>6
    <2> QED  BY <2>2, <2>3, <2>4, <2>5, <2>6
  <1> QED  BY <1>1, HeapInvariance, PTL

\* Every address space maps the kernel's pages alike.
THEOREM UpperHalfIsShared == Spec => []UpperHalfShared
  <1>1. HeapInv => UpperHalfShared
    <2> SUFFICES ASSUME HeapInv, NEW r \in spaces, NEW p \in AllPages
                 PROVE  GetPage(table, r, p) = GetPage(table, KRoot, p)
      BY DEF UpperHalfShared, FrameAt
    <2>1. table[r] = table[KRoot]
      BY DEF HeapInv, TreesOK
    <2>2. MidTable(table, r, p) = MidTable(table, KRoot, p)
      BY <2>1 DEF MidTable
    <2>3. LeafTable(table, r, p) = LeafTable(table, KRoot, p)
      BY <2>2 DEF LeafTable
    <2> QED  BY <2>3 DEF GetPage
  <1> QED  BY <1>1, HeapInvariance, PTL

\* Every frame and every page has exactly one owner.
THEOREM NothingIsLeaked == Spec => []NothingLeaks
  <1>1. HeapInv => NothingLeaks
    <2> SUFFICES ASSUME HeapInv, booted PROVE NothingLeaks
      BY DEF NothingLeaks
    <2> DEFINE own  == DOMAIN table \ DOMAIN BootTable
               root == {newRoot} \ {None}
               used == FramesAt(HeapPages)
    <2>1. CallFrames = Got \cup FramesAt(DonePages)
      <3>1. FramesAt({}) = {}
        BY DEF FramesAt
      <3> QED  BY <3>1 DEF CallFrames, Got, DonePages
    <2>2. HeapPages \cap DonePages = {}
      <3>1. CASE call = None
        BY <3>1 DEF DonePages
      <3>2. CASE call # None
        <4>1. call.n \in Nat /\ call.done \in Nat /\ call.start \in Nat /\ call.done <= call.n
          BY <3>2 DEF HeapInv, Types, Calls, CallOK
        <4>2. PageSpan(call.start, call.done) \subseteq PageSpan(call.start, call.n)
          BY <4>1 DEF PageSpan
        <4>3. DonePages \subseteq CallPages
          BY <3>2, <4>2 DEF DonePages, CallPages
        <4> QED  BY <4>3 DEF HeapInv, PagesOwned
      <3> QED  BY <3>1, <3>2
    <2>3. FramesOwned(Mapped, table, free, Got, newRoot) /\ Mapped = HeapPages \cup DonePages
      BY DEF HeapInv, Mapped
    <2>4. \A g : g \in used <=> \E p \in HeapPages : g = GetPage(table, KRoot, p)
      BY DEF FramesAt, FrameAt
    <2>5. \A g : g \in CallFrames <=> g \in Got \/ \E p \in DonePages : g = GetPage(table, KRoot, p)
      BY <2>1 DEF FramesAt, FrameAt
    <2>6. /\ free \subseteq HeapFrames /\ Got \subseteq HeapFrames /\ root \subseteq HeapFrames
          /\ None \notin HeapFrames /\ HeapFrames \cap DOMAIN BootTable = {}
      <3>1. Got \subseteq HeapFrames
        BY DEF HeapInv, Types, Calls, Got
      <3>2. HeapFrames \cap DOMAIN BootTable = {}
        BY HeapAssumption
      <3>3. free \subseteq HeapFrames /\ newRoot \in HeapFrames \cup {None}
        BY DEF HeapInv, Types
      <3> QED  BY <3>1, <3>2, <3>3, NotNone
    <2> HIDE DEF used
    <2>7. HeapFrames = free \cup own \cup root \cup used \cup CallFrames
      <3>1. ASSUME NEW g \in HeapFrames PROVE g \in free \cup own \cup root \cup used \cup CallFrames
        <4>1. g \in free \cup DOMAIN table \cup Got \cup {newRoot} \/ \E p \in Mapped : GetPage(table, KRoot, p) = g
          BY <2>3 DEF FramesOwned
        <4> QED  BY <2>3, <2>4, <2>5, <2>6, <4>1
      <3>2. own \subseteq HeapFrames
        BY <2>3 DEF FramesOwned
      <3>3. used \subseteq HeapFrames /\ CallFrames \subseteq HeapFrames
        <4>1. \A p \in HeapPages \cup DonePages : GetPage(table, KRoot, p) \in HeapFrames
          BY <2>3 DEF FramesOwned
        <4> QED  BY <2>4, <2>5, <2>6, <4>1
      <3> QED  BY <2>6, <3>1, <3>2, <3>3
    <2>8. /\ \A p \in HeapPages \cup DonePages : GetPage(table, KRoot, p) \notin free \cup Got
          /\ \A p, q \in HeapPages \cup DonePages : GetPage(table, KRoot, p) = GetPage(table, KRoot, q) => p = q
          /\ free \cap DOMAIN table = {} /\ free \cap Got = {} /\ newRoot \notin free
      BY <2>3 DEF FramesOwned
    <2>9. free \cap (own \cup root \cup used \cup CallFrames) = {}
      BY <2>4, <2>5, <2>8
    <2>10. used \cap CallFrames = {}
      BY <2>2, <2>4, <2>5, <2>8
    <2>11. /\ FreePages(BootTable, KRoot) = regions \cup HeapPages \cup CallPages
           /\ regions \cap (HeapPages \cup CallPages) = {} /\ HeapPages \cap CallPages = {}
      BY DEF HeapInv, PagesOwned
    <2> QED  BY <2>7, <2>9, <2>10, <2>11 DEF NothingLeaks, used
  <1> QED  BY <1>1, HeapInvariance, PTL

\* An allocation is aligned: areas, pages and objects start at multiples.
LEMMA AllocAligned ==
    ASSUME HeapInv, NEW a \in live
    PROVE  a.ptr % a.align = 0
  <1>1. CASE a.ty = Early
    <2>1. a \in Blocks(live) /\ EarlyOK(early, Blocks(live))
      BY <1>1 DEF HeapInv, Blocks
    <2> QED  BY <2>1 DEF EarlyOK
  <1>2. CASE a.ty # Early
    <2> DEFINE g == a.align
               p == PageAt(a.ptr)
    <2>1. /\ a.ptr \in Nat /\ a.size \in Nat /\ g \in Nat \ {0} /\ Placed(a, slabs)
          /\ a.ptr >= EarlySize /\ a.ty \in Classes \cup {Page} /\ \E l \in Layouts : g = l[2]
      BY <1>2, AllocIs
    <2>2. p \in Nat
      BY <2>1, PageOfWord
    <2>3. a.ty = LateType(a.size, g)
      BY <2>1 DEF Placed
    <2>4. \A c \in Classes \cup {Page} : g <= c => c % g = 0
      BY <2>1, HeapAssumption
    <2>5. Page \in Nat \ {0} /\ EarlySize \in Nat /\ EarlySize % Page = 0
      BY HeapAssumption, Sizes
    <2>6. g <= Page
      <3>1. CASE a.ty = Page
        BY <2>1, <3>1 DEF Placed
      <3>2. CASE a.ty # Page
        <4>1. g <= a.ty /\ a.ty \in Classes
          BY <2>1, <2>3, <3>2, LateTypes
        <4> QED  BY <2>1, <4>1, Sizes
      <3> QED  BY <3>1, <3>2
    <2> HIDE DEF g, p
    <2>7. Page % g = 0
      BY <2>4, <2>6
    <2>8. 0 % g = 0
      BY <2>1
    <2>9. EarlySize % g = 0
      <3>1. PICK e \in Nat : EarlySize = e * Page + 0
        BY <2>5, DivMod
      <3>2. (0 + e * Page) % g = 0
        BY <2>1, <2>5, <2>7, <2>8, Multiples
      <3>3. EarlySize = 0 + e * Page
        BY <2>5, <3>1
      <3> QED  BY <3>2, <3>3
    <2>10. Addr(p) % g = 0 /\ Addr(p) \in Nat
      <3>1. (EarlySize + p * Page) % g = 0
        BY <2>1, <2>2, <2>5, <2>7, <2>9, Multiples
      <3>2. Addr(p) \in Nat
        BY <2>2, <2>5 DEF Addr
      <3> QED  BY <3>1, <3>2 DEF Addr
    <2>11. CASE a.ty = Page
      BY <2>1, <2>10, <2>11 DEF Placed, p, g
    <2>12. CASE a.ty # Page
      <3> DEFINE c == a.ty
      <3>1. c \in Classes /\ g <= c
        BY <2>1, <2>3, <2>12, LateTypes
      <3>2. PICK k \in 0 .. Page : a.ptr = Addr(p) + k * c
        BY <2>1, <2>12 DEF Placed, p
      <3>3. c % g = 0 /\ c \in Nat
        BY <2>4, <3>1, Sizes
      <3> HIDE DEF c
      <3>4. k \in Nat
        BY <3>2
      <3>5. (Addr(p) + k * c) % g = 0
        BY <2>1, <2>10, <3>3, <3>4, Multiples, ZenonT(40)
      <3> QED  BY <3>2, <3>5 DEF g
    <2> QED  BY <2>11, <2>12
  <1> QED  BY <1>1, <1>2

\* Where the words of an allocation are.
LEMMA WordsAt ==
    ASSUME HeapInv, NEW a \in live, NEW w \in WordsOf(a)
    PROVE  /\ w \in Nat /\ a.ptr <= w /\ w < a.ptr + a.size
           /\ a.ty = Early => w < EarlySize
           /\ a.ty # Early => w >= EarlySize /\ PageAt(w) \in HeapPages
           /\ a.ty = Page => PageAt(w) \in Span(a)
           /\ a.ty \notin {Early, Page} => PageAt(w) = PageAt(a.ptr)
  <1>1. a.ptr \in Nat /\ a.size \in Nat \ {0} /\ EarlySize \in Nat /\ Page \in Nat \ {0}
    BY AllocIs, Sizes
  <1>2. w \in Nat /\ a.ptr <= w /\ w < a.ptr + a.size
    BY <1>1 DEF WordsOf
  <1>3. ASSUME a.ty = Early PROVE w < EarlySize
    <2>1. early \in Areas /\ a \in Blocks(live) /\ EarlyOK(early, Blocks(live)) /\ Blocks(live) \in SUBSET Allocations
      BY <1>3 DEF HeapInv, Types, Areas, Blocks, AllocsOK
    <2>2. EndOf(a) = a.ptr + a.size + 1 /\ EndOf(a) <= early.mark /\ early.mark <= EarlySize /\ early.mark \in Nat
      BY <2>1, BlockIs
    <2> QED  BY <1>1, <1>2, <2>2
  <1>4. ASSUME a.ty # Early
        PROVE  /\ w >= EarlySize /\ PageAt(w) \in HeapPages
               /\ a.ty = Page => PageAt(w) \in Span(a)
               /\ a.ty # Page => PageAt(w) = PageAt(a.ptr)
    <2>1. /\ Placed(a, slabs) /\ a.ptr >= EarlySize /\ a.ty \in Classes \cup {Page}
          /\ a.size \in Nat /\ a.align \in Nat
      BY <1>4, AllocIs
    <2> DEFINE p == PageAt(a.ptr)
    <2>2. p \in Nat
      BY <1>1, <2>1, PageOfWord
    <2>3. w >= EarlySize
      BY <1>1, <1>2, <2>1
    <2>4. Addr(p) \in Nat
      BY <1>1, <2>2 DEF Addr
    <2>5. CASE a.ty = Page
      <3> DEFINE n == NumPages(a.size)
      <3>1. n \in Nat /\ a.size <= n * Page
        BY <1>1, EnoughPages
      <3>2. a.ptr = Addr(p)
        BY <2>1, <2>5 DEF Placed
      <3> HIDE DEF n, p
      <3>3. n * Page \in Nat
        BY <1>1, <3>1
      <3>4. Addr(p) <= w /\ w < Addr(p) + n * Page
        BY <1>1, <1>2, <2>4, <3>1, <3>2, <3>3
      <3>5. PageAt(w) \in PageSpan(p, n)
        BY <1>2, <2>2, <3>1, <3>4, WordsInSpan
      <3>6. PageAt(w) \in Span(a)
        BY <3>5 DEF Span, PagesFrom, p, n
      <3>7. Span(a) \subseteq HeapPages
        BY <2>5, SpanIs
      <3> QED  BY <2>3, <2>5, <3>6, <3>7
    <2>6. CASE a.ty # Page
      <3> DEFINE c == a.ty
      <3>1. c \in Classes /\ c = LateType(a.size, a.align) /\ c \in Nat \ {0}
        BY <2>1, <2>6, Sizes DEF Placed
      <3>2. a.size <= c
        BY <2>1, <2>6, <3>1, LateTypes
      <3>3. PICK k \in 0 .. Page : a.ptr = Addr(p) + k * c /\ k * c + c <= Page
        BY <2>1, <2>6 DEF Placed
      <3> DEFINE m == k * c
                 x == w - Addr(p)
      <3> HIDE DEF c
      <3>4. m \in Nat
        BY <3>1, <3>3
      <3>5. a.ptr = Addr(p) + m /\ m + c <= Page
        BY <3>3
      <3> HIDE DEF m, p
      <3>6. x \in 0 .. Page - 1 /\ w = Addr(p) + x
        BY <1>1, <1>2, <2>4, <3>1, <3>2, <3>4, <3>5
      <3> HIDE DEF x
      <3>7. PageAt(w) = p
        BY <2>2, <3>6, WordsOfPage
      <3>8. p \in HeapPages
        BY <1>4, LatePage DEF p
      <3> QED  BY <2>3, <2>6, <3>7, <3>8 DEF p
    <2> QED  BY <2>5, <2>6
  <1>5. a.ty \in {Early, Page} \cup Classes /\ Page # Early
    BY AllocIs, Sizes
  <1> QED  BY <1>2, <1>3, <1>4, <1>5

\* Two objects of one slab.
LEMMA ObjectsApart ==
    ASSUME NEW base \in Nat, NEW c \in Nat, NEW k \in Nat, NEW m \in Nat, k < m,
           NEW size \in Nat, size <= c, NEW w \in Nat,
           w < (base + k * c) + size, base + m * c <= w
    PROVE  FALSE
  <1>1. k * c + c <= m * c /\ k * c \in Nat /\ m * c \in Nat
    BY MulMono
  <1> DEFINE x == k * c
             y == m * c
  <1>2. x + c <= y /\ x \in Nat /\ y \in Nat /\ w < (base + x) + size /\ base + y <= w
    BY <1>1
  <1> HIDE DEF x, y
  <1> QED  BY <1>2

\* No two allocations share a word.
LEMMA WordsApart ==
    ASSUME HeapInv, NEW a \in live, NEW b \in live, a # b, NEW w \in WordsOf(a), w \in WordsOf(b)
    PROVE  FALSE
  <1>1. a.ptr # b.ptr
    BY DEF HeapInv, Types, AllocsOK
  <1>2. a.ty \in {Early, Page} \cup Classes /\ b.ty \in {Early, Page} \cup Classes
    BY AllocIs
  <1>3. CASE a.ty = Early /\ b.ty = Early
    <2> DEFINE B == Blocks(live)
    <2>1. early \in Areas /\ a \in B /\ b \in B /\ EarlyOK(early, B) /\ B \in SUBSET Allocations
      BY <1>3 DEF HeapInv, Types, Areas, Blocks, AllocsOK
    <2> HIDE DEF B
    <2>2. \A x \in {a, b} : /\ x.ptr \in Nat /\ x.size \in Nat /\ x.base \in Nat
                            /\ EndOf(x) = x.ptr + x.size + 1 /\ x.base <= x.ptr
      BY <2>1, BlockIs
    <2>3. EndOf(a) <= b.base \/ EndOf(b) <= a.base
      BY <1>1, <2>1 DEF EarlyOK
    <2>4. w \in Nat /\ a.ptr <= w /\ w < a.ptr + a.size /\ b.ptr <= w /\ w < b.ptr + b.size
      BY WordsAt
    <2> QED  BY <2>2, <2>3, <2>4
  <1>4. CASE (a.ty = Early /\ b.ty # Early) \/ (a.ty # Early /\ b.ty = Early)
    <2>1. w \in Nat /\ EarlySize \in Nat /\ w < EarlySize /\ w >= EarlySize
      BY <1>4, WordsAt, Sizes
    <2> QED  BY <2>1
  <1>5. CASE a.ty = Page /\ b.ty = Page
    <2>1. PageAt(w) \in Span(a) /\ PageAt(w) \in Span(b)
      BY <1>5, WordsAt
    <2> QED  BY <1>1, <1>5, <2>1 DEF HeapInv, PagesApart
  <1>6. ASSUME NEW x \in {a, b}, NEW y \in {a, b}, x.ty = Page, y.ty \in Classes PROVE FALSE
    <2>1. PageAt(w) \in Span(x)
      BY <1>6, WordsAt
    <2>2. y.ty # Early /\ y.ty # Page /\ PageAt(w) = PageAt(y.ptr)
      BY <1>6, WordsAt, Sizes
    <2>3. PageAt(w) \in slabs[y.ty]
      BY <2>2, AllocIs DEF Placed
    <2>4. SlabPage(slabs, PageAt(w))
      BY <1>6, <2>3 DEF SlabPage
    <2> QED  BY <1>6, <2>1, <2>4, SpanIs
  <1>7. CASE a.ty \in Classes /\ b.ty \in Classes
    <2> DEFINE c == a.ty
               p == PageAt(w)
    <2>1. /\ a.ty # Early /\ a.ty # Page /\ b.ty # Early /\ b.ty # Page
          /\ PageAt(a.ptr) = p /\ PageAt(b.ptr) = p
      BY <1>7, WordsAt, Sizes
    <2>2. Placed(a, slabs) /\ Placed(b, slabs)
      BY <2>1, AllocIs
    <2>3. p \in slabs[a.ty] /\ p \in slabs[b.ty]
      BY <2>1, <2>2 DEF Placed
    <2>4. b.ty = c
      BY <1>7, <2>3 DEF HeapInv, PagesApart
    <2>5. PICK k \in 0 .. Page : a.ptr = Addr(p) + k * c
      BY <2>1, <2>2 DEF Placed
    <2>6. PICK m \in 0 .. Page : b.ptr = Addr(p) + m * c
      BY <2>1, <2>2, <2>4 DEF Placed
    <2>7. a.size \in Nat /\ a.align \in Nat /\ b.size \in Nat /\ b.align \in Nat
      BY AllocIs
    <2>8. a.size <= c /\ b.size <= c /\ c \in Nat
      <3>1. c = LateType(a.size, a.align) /\ c = LateType(b.size, b.align)
        BY <2>2, <2>4 DEF Placed
      <3>2. c # Page /\ c \in Nat
        BY <1>7, Sizes
      <3> HIDE DEF c
      <3>3. a.size <= c
        BY <2>7, <3>1, <3>2, LateTypes
      <3>4. b.size <= c
        BY <2>7, <3>1, <3>2, LateTypes
      <3> QED  BY <3>2, <3>3, <3>4
    <2>9. w \in Nat /\ a.ptr <= w /\ w < a.ptr + a.size /\ b.ptr <= w /\ w < b.ptr + b.size
      BY WordsAt
    <2>10. Addr(p) \in Nat
      <3>1. w >= EarlySize
        BY <2>1, WordsAt
      <3>2. p \in Nat
        BY <2>9, <3>1, PageOfWord
      <3> QED  BY <3>2, Sizes DEF Addr
    <2>11. k \in Nat /\ m \in Nat /\ (k < m \/ m < k)
      BY <1>1, <2>5, <2>6
    <2> HIDE DEF c, p
    <2>12. CASE k < m
      BY <2>5, <2>6, <2>7, <2>8, <2>9, <2>10, <2>11, <2>12, ObjectsApart
    <2>13. CASE m < k
      BY <2>5, <2>6, <2>7, <2>8, <2>9, <2>10, <2>11, <2>13, ObjectsApart
    <2> QED  BY <2>11, <2>12, <2>13
  <1> QED  BY <1>2, <1>3, <1>4, <1>5, <1>6, <1>7

\* Live allocations are aligned, apart, and in pages with frames of their own.
THEOREM LiveIsDisjoint == Spec => []LiveDisjoint
  <1>1. HeapInv => LiveDisjoint
    <2> SUFFICES ASSUME HeapInv PROVE LiveDisjoint
      OBVIOUS
    <2>1. panic # "page is not mapped" /\ \A a \in live : a.ptr % a.align = 0
      BY AllocAligned DEF HeapInv
    <2>2. \A a, b \in live : a # b => WordsOf(a) \cap WordsOf(b) = {}
      BY WordsApart
    <2>3. \A a \in live : a.ty # Early => {PageAt(w) : w \in WordsOf(a)} \subseteq HeapPages
      BY WordsAt
    <2>4. FramesOwned(Mapped, table, free, Got, newRoot) /\ HeapPages \subseteq Mapped
      BY DEF HeapInv, Mapped
    <2>5. \A p \in HeapPages : FrameAt(p) \notin free \cup DOMAIN table \cup {None}
      BY <2>4, NotNone DEF FramesOwned, FrameAt
    <2>6. \A p, q \in HeapPages : FrameAt(p) = FrameAt(q) => p = q
      BY <2>4 DEF FramesOwned, FrameAt
    <2> QED  BY <2>1, <2>2, <2>3, <2>5, <2>6 DEF LiveDisjoint
  <1> QED  BY <1>1, HeapInvariance, PTL

=============================================================================
