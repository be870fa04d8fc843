----------------------------- MODULE VirtAlloc -----------------------------
(***************************************************************************)
(* The virtual region allocator of mem/virt.rs.  The free regions of an    *)
(* address space are kept sorted in a doubly linked list of pages, each    *)
(* with up to R regions; a full page is split, small neighbours are        *)
(* combined, and regions that touch are coalesced, across pages too.       *)
(*                                                                         *)
(* The allocator is used under one lock (AddressSpace), so each call is    *)
(* one step.  Its heap is a value, s below; calls map heaps to heaps.      *)
(***************************************************************************)
EXTENDS Integers, Sequences, FiniteSets

CONSTANTS
    Pages,    \* virtual pages that may be free; all others never are
    R,        \* REGIONS_PER_PAGE
    Ids,      \* frames for list pages
    MaxRegions, \* bound on the number of free regions
    Null      \* the null pointer

VirtAssumption ==
    /\ Pages \subseteq Nat /\ IsFiniteSet(Pages) /\ Pages # {}
    /\ R \in Nat /\ R > 3
    /\ Ids \subseteq Nat /\ Null \notin Ids
    /\ MaxRegions \in Nat

VARIABLES
    heap,   \* [head, pg, live, ok]: ok is false once an assertion failed
    free    \* history: the pages given to free and not handed out since

vars == <<heap, free>>

\* A region is <<first page, page after the last>>.
PagesOf(r) == r[1] .. r[2] - 1
SizeOf(r) == r[2] - r[1]
Regions == {r \in Pages \X {p + 1 : p \in Pages} : r[1] < r[2] /\ PagesOf(r) \subseteq Pages}

SplitPoint == R \div 2

Blank == [prev |-> Null, next |-> Null, regs |-> <<>>]

-----------------------------------------------------------------------------
(* VirtualAllocPage                                                        *)

Regs(s, p) == s.pg[p].regs
Count(s, p) == Len(Regs(s, p))
FirstOf(s, p) == Regs(s, p)[1]
LastOf(s, p) == Regs(s, p)[Count(s, p)]

Panic(s) == [s EXCEPT !.ok = FALSE]
WithRegs(s, p, regs) == [s EXCEPT !.pg[p].regs = regs]

\* insert_region and remove_region, at index i counted from one
InsertAt(q, i, r) == SubSeq(q, 1, i - 1) \o <<r>> \o SubSeq(q, i, Len(q))
RemoveFrom(q, i) == SubSeq(q, 1, i - 1) \o SubSeq(q, i + 1, Len(q))

\* split moves half of full page p to its neighbour or to a new page, and says
\* where the region of index i is now.
MoveToPrevOldIndex(s, p, i) ==
    LET prev == s.pg[p].prev
    IN [s |-> [s EXCEPT !.pg[prev].regs = @ \o SubSeq(Regs(s, p), 1, SplitPoint),
                        !.pg[p].regs = SubSeq(@, SplitPoint + 1, R)],
        p |-> IF i <= SplitPoint THEN prev ELSE p,
        i |-> IF i <= SplitPoint THEN i ELSE i - SplitPoint]

MoveToPrev(s, p, i) ==
    LET prev == s.pg[p].prev
        n    == Count(s, prev)
    IN [s |-> [s EXCEPT !.pg[prev].regs = @ \o SubSeq(Regs(s, p), 1, SplitPoint),
                        !.pg[p].regs = SubSeq(@, SplitPoint + 1, R)],
        p |-> IF i <= SplitPoint THEN prev ELSE p,
        i |-> IF i <= SplitPoint THEN n + i ELSE i - SplitPoint]

MoveToNext(s, p, i) ==
    LET next == s.pg[p].next
    IN [s |-> [s EXCEPT !.pg[next].regs = SubSeq(Regs(s, p), SplitPoint + 1, R) \o @,
                        !.pg[p].regs = SubSeq(@, 1, SplitPoint)],
        p |-> IF i > SplitPoint THEN next ELSE p,
        i |-> IF i > SplitPoint THEN i - SplitPoint ELSE i]

\* A new page after p.  The page that was p's next keeps p as its prev.
NewPage(s, p) ==
    LET n == CHOOSE m \in Ids \ s.live : \A k \in Ids \ s.live : m <= k
    IN [s EXCEPT !.pg[n] = [prev |-> p, next |-> s.pg[p].next, regs |-> <<>>],
                 !.pg[p].next = n,
                 !.live = @ \cup {n}]

Small(s, p) == p # Null /\ Count(s, p) < R \div 4

Split(s, p, i) ==
    IF Small(s, s.pg[p].prev) THEN MoveToPrev(s, p, i)
    ELSE IF Small(s, s.pg[p].next) THEN MoveToNext(s, p, i)
    ELSE MoveToNext(NewPage(s, p), p, i)

\* find_idx_for_region_insert: the region that ends where r starts, if any,
\* and the number of regions that end before.
Before(s, p, r) == Cardinality({i \in 1 .. Count(s, p) : Regs(s, p)[i][2] < r[1]})
EndsAt(s, p, r) == {i \in 1 .. Count(s, p) : Regs(s, p)[i][2] = r[1]}

AlreadyFreeTouching(s, p, r) ==
    LET n == Before(s, p, r) + Cardinality(EndsAt(s, p, r))
    IN n < Count(s, p) /\ r[2] >= Regs(s, p)[n + 1][1]

AlreadyFree(s, p, r) ==
    LET n == Before(s, p, r) + Cardinality(EndsAt(s, p, r))
        prev == s.pg[p].prev
        next == s.pg[p].next
    IN \/ n = 0 /\ prev # Null /\ r[1] < LastOf(s, prev)[2]
       \/ n = Count(s, p) /\ next # Null /\ r[2] > FirstOf(s, next)[1]
       \/ n < Count(s, p) /\ r[2] > Regs(s, p)[n + 1][1]

-----------------------------------------------------------------------------
(* VirtualAllocator                                                        *)

Differ(m, n) == IF m > n THEN m - n ELSE n - m

ShouldCombineUnbounded(s, p1, p2) ==
    \/ Count(s, p1) = 0 \/ Count(s, p2) = 0
    \/ Count(s, p1) + Count(s, p2) < R \div 4
    \/ Differ(Count(s, p1), Count(s, p2)) >= R \div 8

ShouldCombine(s, p1, p2) ==
    /\ Count(s, p1) + Count(s, p2) <= R
    /\ \/ Count(s, p1) = 0 \/ Count(s, p2) = 0
       \/ Count(s, p1) + Count(s, p2) < R \div 4
       \/ Differ(Count(s, p1), Count(s, p2)) >= R \div 8

CombinePages(s, p1, p2) ==
    LET next   == s.pg[p2].next
        joined == [s EXCEPT !.pg[p1].regs = @ \o Regs(s, p2),
                            !.pg[p1].next = next,
                            !.pg[p2] = Blank,
                            !.live = @ \ {p2}]
    IN IF s.pg[p1].next # p2 THEN Panic(s)
       ELSE IF next = Null THEN joined
       ELSE [joined EXCEPT !.pg[next].prev = p1]

RECURSIVE CombineIfSmall(_, _)
CombineIfSmall(s, p) ==
    LET prev == s.pg[p].prev
        next == s.pg[p].next
    IN IF ~s.ok \/ p \notin s.live THEN Panic(s)
       ELSE IF prev # Null /\ ShouldCombine(s, prev, p)
            THEN CombineIfSmall(CombinePages(s, prev, p), prev)
       ELSE IF next # Null /\ ShouldCombine(s, p, next)
            THEN CombineIfSmall(CombinePages(s, p, next), p)
       ELSE s

\* The last region of p and the first of the next page become one.
TouchesNext(s, p) ==
    /\ Count(s, p) > 0 /\ s.pg[p].next # Null
    /\ LastOf(s, p)[2] = FirstOf(s, s.pg[p].next)[1]

RECURSIVE TryCoalesceAt(_, _)
TryCoalesceAt(s, p) ==
    LET next  == s.pg[p].next
        moved == [s EXCEPT !.pg[next].regs[1][1] = LastOf(s, p)[1],
                           !.pg[p].regs = SubSeq(@, 1, Count(s, p) - 1)]
    IN IF ~TouchesNext(s, p) THEN s
       ELSE CombineIfSmall(IF Count(s, next) = 1 THEN TryCoalesceAt(moved, next) ELSE moved, p)

\* free walks to the last page that starts no later than the region's end.
RECURSIVE PageFor(_, _, _)
PageFor(s, p, r) ==
    LET next == s.pg[p].next
    IN IF next # Null /\ r[2] >= FirstOf(s, next)[1] THEN PageFor(s, next, r) ELSE p

\* free puts the region into page p: it grows a region there or is inserted.
Put(s, p, r) ==
    LET n    == Before(s, p, r)
        regs == Regs(s, p)
        here == [s |-> s, p |-> p, i |-> n + 1]
    IN IF EndsAt(s, p, r) # {} /\ n + 2 <= Len(regs) /\ regs[n + 2][1] = r[2]
       THEN [here EXCEPT !.s = WithRegs(s, p, RemoveFrom([regs EXCEPT ![n + 1][2] = regs[n + 2][2]], n + 2))]
       ELSE IF EndsAt(s, p, r) # {}
       THEN [here EXCEPT !.s.pg[p].regs[n + 1][2] = r[2]]
       ELSE IF n < Len(regs) /\ regs[n + 1][1] = r[2]
       THEN [here EXCEPT !.s.pg[p].regs[n + 1][1] = r[1]]
       ELSE LET at == IF Len(regs) = R THEN Split(s, p, n + 1) ELSE here
            IN [at EXCEPT !.s.pg[at.p].regs = InsertAt(@, at.i, r)]

\* The first region was put at index i of p: it may touch a neighbour page.
CoalesceAround(s, p, i) ==
    LET prev == s.pg[p].prev
    IN IF i = 1 /\ prev # Null /\ TouchesNext(s, prev) THEN TryCoalesceAt(s, prev)
       ELSE IF i = Count(s, p) THEN TryCoalesceAt(s, p)
       ELSE s

FreeRegion(s, r) ==
    LET begun == IF s.head # Null THEN s
                 ELSE LET n == CHOOSE m \in Ids : \A k \in Ids : m <= k
                      IN [s EXCEPT !.head = n, !.live = {n}]
        p  == PageFor(begun, begun.head, r)
        at == Put(begun, p, r)
    IN IF AlreadyFree(begun, p, r) THEN Panic(s) ELSE CoalesceAround(at.s, at.p, at.i)

\* alloc: pages from the head on, in each the last region that is large enough.
RECURSIVE FitFrom(_, _, _)
FitFrom(s, p, size) ==
    IF p = Null THEN [p |-> Null, i |-> 0]
    ELSE LET fits == {i \in 1 .. Count(s, p) : SizeOf(Regs(s, p)[i]) >= size}
         IN IF fits = {} THEN FitFrom(s, s.pg[p].next, size)
            ELSE [p |-> p, i |-> CHOOSE i \in fits : \A j \in fits : j <= i]

Fit(s, size) == FitFrom(s, s.head, size)

\* Cutting a region off the front, or taking it whole.
Take(s, p, i, size) ==
    LET r == Regs(s, p)[i]
    IN IF SizeOf(r) = size
       THEN CombineIfSmall(WithRegs(s, p, RemoveFrom(Regs(s, p), i)), p)
       ELSE [s EXCEPT !.pg[p].regs[i][1] = @ + size]

\* reserve: the page whose range holds the region's start, the last region in
\* it that starts no later, and whether that holds all of the region.
RECURSIVE RangePage(_, _, _)
RangePage(s, p, r) ==
    IF p = Null THEN Null
    ELSE IF Count(s, p) = 0 THEN RangePage(s, s.pg[p].next, r)
    ELSE IF r[1] < FirstOf(s, p)[1] THEN Null
    ELSE IF r[1] < LastOf(s, p)[2] THEN p
    ELSE RangePage(s, s.pg[p].next, r)

StartsBefore(s, p, r) == Cardinality({i \in 1 .. Count(s, p) : Regs(s, p)[i][1] <= r[1]})

CanReserve(s, r) ==
    LET p == RangePage(s, s.head, r)
    IN p # Null /\ r[1] < Regs(s, p)[StartsBefore(s, p, r)][2] /\ r[2] <= Regs(s, p)[StartsBefore(s, p, r)][2]

ReserveForgetsRest(s, r) ==
    LET p == RangePage(s, s.head, r)
        i == StartsBefore(s, p, r)
        m == Regs(s, p)[i]
    IN IF r = m THEN CombineIfSmall(WithRegs(s, p, RemoveFrom(Regs(s, p), i)), p)
       ELSE IF r[1] = m[1] THEN [s EXCEPT !.pg[p].regs[i][1] = r[2]]
       ELSE [s EXCEPT !.pg[p].regs[i][2] = r[1]]

ReserveRegion(s, r) ==
    LET p == RangePage(s, s.head, r)
        i == StartsBefore(s, p, r)
        m == Regs(s, p)[i]
    IN IF r = m THEN CombineIfSmall(WithRegs(s, p, RemoveFrom(Regs(s, p), i)), p)
       ELSE IF r[1] = m[1] THEN [s EXCEPT !.pg[p].regs[i][1] = r[2]]
       ELSE IF r[2] = m[2] THEN [s EXCEPT !.pg[p].regs[i][2] = r[1]]
       ELSE LET at == IF Count(s, p) = R THEN Split(s, p, i) ELSE [s |-> s, p |-> p, i |-> i]
                cut == [at.s EXCEPT !.pg[at.p].regs[at.i][2] = r[1]]
            IN WithRegs(cut, at.p, InsertAt(Regs(cut, at.p), at.i + 1, <<r[2], m[2]>>))

\* All regions of the list in order: what free_regions iterates over.
RECURSIVE RegionsFrom(_, _)
RegionsFrom(s, p) == IF p = Null THEN <<>> ELSE Regs(s, p) \o RegionsFrom(s, s.pg[p].next)

FreeRegions(s) == RegionsFrom(s, s.head)

-----------------------------------------------------------------------------
(* The calls                                                               *)

Free(r) ==
    /\ heap.ok
    /\ PagesOf(r) \cap free = {}
    /\ heap' = FreeRegion(heap, r)
    /\ Len(FreeRegions(heap')) <= MaxRegions
    /\ free' = free \cup PagesOf(r)

Alloc(size) ==
    LET at == Fit(heap, size) IN
    /\ heap.ok
    /\ at.p # Null
    /\ heap' = Take(heap, at.p, at.i, size)
    /\ LET start == Regs(heap, at.p)[at.i][1] IN free' = free \ (start .. start + size - 1)

Reserve(r) ==
    /\ heap.ok
    /\ CanReserve(heap, r)
    /\ heap' = ReserveRegion(heap, r)
    /\ Len(FreeRegions(heap')) <= MaxRegions
    /\ free' = free \ PagesOf(r)

Init ==
    /\ heap = [head |-> Null, pg |-> [p \in Ids |-> Blank], live |-> {}, ok |-> TRUE]
    /\ free = {}

Next ==
    \/ \E r \in Regions : Free(r) \/ Reserve(r)
    \/ \E size \in 1 .. Cardinality(Pages) : Alloc(size)

Spec == Init /\ [][Next]_vars

-----------------------------------------------------------------------------
(* Correctness                                                             *)

\* The pages of the list in order, by following next from the head.
RECURSIVE ChainFrom(_, _)
ChainFrom(s, p) == IF p = Null THEN <<>> ELSE <<p>> \o ChainFrom(s, s.pg[p].next)

Chain == ChainFrom(heap, heap.head)

Listed == FreeRegions(heap)

\* No call panics: no assertion fails, no double free is seen where there is
\* none, no page is used after it was freed.
NoPanic == heap.ok

\* The regions listed are sorted and are exactly the free pages, and regions
\* that touch are one region, in one page or across two.
ListsFreeRuns ==
    /\ UNION {PagesOf(Listed[i]) : i \in 1 .. Len(Listed)} = free
    /\ \A i \in 1 .. Len(Listed) : Listed[i][1] < Listed[i][2]
    /\ \A i \in 1 .. Len(Listed) - 1 : Listed[i][2] < Listed[i + 1][1]

\* The pages of the list are the ones in use, none is lost or overfull, prev
\* undoes next, and only a lone page is empty.
LinksConsistent ==
    /\ heap.live = {Chain[i] : i \in 1 .. Len(Chain)}
    /\ \A p \in Ids : Count(heap, p) <= R
    /\ \A i \in 1 .. Len(Chain) :
        heap.pg[Chain[i]].prev = IF i = 1 THEN Null ELSE Chain[i - 1]
    /\ Len(Chain) > 1 => \A i \in 1 .. Len(Chain) : Count(heap, Chain[i]) > 0

\* alloc finds room exactly when some run of free pages is long enough, and
\* reserve succeeds exactly when no page of the region is allocated.
RequestsDecided ==
    /\ \A size \in {SizeOf(r) : r \in Regions} :
        Fit(heap, size).p # Null <=> \E r \in Regions : SizeOf(r) = size /\ PagesOf(r) \subseteq free
    /\ \A r \in Regions : CanReserve(heap, r) <=> PagesOf(r) \subseteq free

=============================================================================
