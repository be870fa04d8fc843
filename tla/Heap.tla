-------------------------------- MODULE Heap --------------------------------
(***************************************************************************)
(* The kernel heap of mem/mod.rs: DefaultAlloc, which sends a request to   *)
(* the early allocator, a slab allocator or PageBasedAlloc, and            *)
(* PageBasedAlloc with the kernel address space it maps pages in.          *)
(*                                                                         *)
(* The region allocator, the frame allocator and the slab allocators are   *)
(* what VirtAlloc, FrameAlloc and Slab are shown to be: sets of free pages *)
(* and frames and, for each class, of slabs with free objects.  A slab is  *)
(* one page.  A call of PageBasedAlloc::allocate holds the address space's *)
(* lock through all of its steps; frames may go to others meanwhile.       *)
(***************************************************************************)
EXTENDS EarlyAlloc, PageTable

CONSTANTS
    Page,       \* words of a page
    HeapFrames,     \* free frames when the frame allocator is ready, numbers
    KRoot,      \* the kernel's root table
    BootTable,  \* the page tables the bootloader has made
    Batch,      \* frames PageBasedAlloc asks for at a time (16)
    Layouts,    \* layouts clients ask for, as <<size, align>>
    NewSizes,   \* sizes they reallocate to
    MaxLive,    \* bound on the number of allocations at a time
    MaxSpaces   \* bound on the number of user address spaces

VARIABLES
    early,     \* the early allocator
    useEarly,  \* USE_EARLY_ALLOC
    booted,    \* init_kernel_addrspace has run
    free,      \* frames of the frame allocator
    table,     \* page tables
    regions,   \* free pages of the kernel's VirtualAllocator
    slabs,     \* class -> pages of its slabs
    live,      \* allocations that are not freed yet
    call,      \* the call of PageBasedAlloc::allocate under way, or None
    spaces,    \* root tables of the address spaces AddressSpace::new made
    newRoot,   \* the frame it has and has not filled yet, or None
    panic      \* why the kernel stopped, or None

vars == <<early, useEarly, booted, free, table, regions, slabs, live, call,
          spaces, newRoot, panic>>
pageVars == <<free, table, regions>>
bootVars == <<useEarly, booted>>
spaceVars == <<spaces, newRoot>>

Least(S) == CHOOSE x \in S : \A y \in S : x <= y
Greatest(S) == CHOOSE x \in S : \A y \in S : x >= y
Lesser(m, n) == IF m < n THEN m ELSE n

\* The n frames the frame allocator hands out; free frames are interchangeable.
FirstFrames(n) == {f \in free : Cardinality({g \in free : g < f}) < n}

\* AllocType: 0, the object size of a slab allocator, or a page
Early == 0
Classes == {2 ^ k : k \in 0 .. Page} \cap 1 .. Page \div 2

\* An allocation, as its client knows it and with the allocator that served
\* it, and a call of PageBasedAlloc::allocate under way.
Allocations == [ptr : Nat, size : Nat, align : Nat, ty : Nat, base : Nat, dying : BOOLEAN]
Calls == [ty : Nat, layout : Nat \X Nat, old : SUBSET Allocations, n : Nat,
          start : Nat, done : Nat, got : SUBSET HeapFrames]

\* A page is at least two words, the least power of two a class can be half of.
\* The area of the early allocator is a number of pages.  Clients ask for at
\* least a word, and alignments, classes and pages are powers of two, so that
\* the smaller divides the larger.  The bootloader's tables are a tree, in
\* frames that it does not report as free.
ASSUME HeapAssumption ==
    /\ Page \in Nat /\ Page \div 2 \in Classes
    /\ EarlySize \in Nat /\ EarlySize % Page = 0
    /\ Slots \in Nat \ {0} /\ Fan \in Nat \ {0} /\ Batch \in Nat
    /\ Layouts \subseteq (Nat \ {0}) \X (Nat \ {0}) /\ NewSizes \subseteq Nat \ {0}
    /\ \A l \in Layouts, c \in Classes \cup {Page} : l[2] <= c => c % l[2] = 0
    /\ HeapFrames \subseteq Nat /\ IsFiniteSet(HeapFrames)
    /\ IsTree(BootTable, KRoot)
    /\ HeapFrames \cap DOMAIN BootTable = {}
    /\ None \notin HeapFrames \cup DOMAIN BootTable \cup Calls
    /\ None \notin {"page is not mapped", "no frame for a table"}

\* get_new_alloc_type
NewType(size, align) ==
    LET n == IF size > align THEN size ELSE align
    IN IF useEarly THEN Early
       ELSE IF n > Page \div 2 THEN Page ELSE Least({c \in Classes : n <= c})

\* get_existing_alloc_type
ExistingType(a) ==
    IF InEarlyRegion(a.ptr) THEN Early ELSE NewType(a.size, a.align)

NumPagesFloor(size) == size \div Page
NumPages(size) == (size + Page - 1) \div Page
Addr(p) == EarlySize + p * Page
PageAt(ptr) == (ptr - EarlySize) \div Page
PageSpan(p, n) == p .. p + n - 1
PagesFrom(a, n) == PageSpan(PageAt(a.ptr), n)

\* Kernel pages are mapped through the kernel's root.
FrameAt(p) == GetPage(table, KRoot, p)
FramesAt(ps) == {FrameAt(p) : p \in ps}

Panic(why) == panic' = why

-----------------------------------------------------------------------------
(* A new allocation.  old is the allocation it replaces, or None: realloc  *)
(* copies it and then deallocates it.                                      *)

New(ptr, l, ty, base) ==
    [ptr |-> ptr, size |-> l[1], align |-> l[2], ty |-> ty, base |-> base, dying |-> FALSE]

Replaces(old, a) ==
    live' = {a} \cup IF old = {} THEN live
                     ELSE (live \ old) \cup {[o EXCEPT !.dying = TRUE] : o \in old}

EarlyServe(l, old) ==
    /\ IF HasRoomFor(early, AllocSize(early, l[1], l[2]))
       THEN /\ early' = EarlyAlloc(early, l[1], l[2])
            /\ Replaces(old, New(EarlyPtr(early, l[2]), l, Early, early.mark))
            /\ UNCHANGED panic
       ELSE Panic("early memory") /\ UNCHANGED <<early, live>>
    /\ UNCHANGED <<pageVars, slabs, call>>

Objects(c) == {Addr(p) + k * c : p \in slabs[c], k \in 0 .. Page \div c - 1}
FreeObjects(c) == Objects(c) \ {a.ptr : a \in {b \in live : b.ty = c}}

SlabServe(c, l, old) ==
    /\ FreeObjects(c) # {}
    /\ Replaces(old, New(Least(FreeObjects(c)), l, c, 0))
    /\ UNCHANGED <<pageVars, early, slabs, call, panic>>

\* The region the region allocator gives: the front of the last one that is
\* large enough, with all of the regions in one page of its list.
RunsOf(n) == {p \in regions : PageSpan(p, n) \subseteq regions}
RegionStart(n) ==
    CHOOSE p \in RunsOf(n) :
        /\ p - 1 \notin regions
        /\ \A q \in RunsOf(n) : q > p => PageSpan(p, q - p) \subseteq regions

\* allocate up to the region
BeginPages(ty, l, old) ==
    LET n == IF ty = Page THEN NumPages(l[1]) ELSE 1
    IN /\ IF (ty = Page /\ l[2] > Page) \/ RunsOf(n) = {}
          THEN Panic("alloc error") /\ UNCHANGED <<regions, call>>
          ELSE /\ regions' = regions \ PageSpan(RegionStart(n), n)
               /\ call' = [ty |-> ty, layout |-> l, old |-> old, n |-> n,
                           start |-> RegionStart(n), done |-> 0, got |-> {}]
               /\ UNCHANGED panic
       /\ UNCHANGED <<free, table, early, slabs, live>>

\* DefaultAlloc::alloc
Serve(l, old) ==
    LET ty == NewType(l[1], l[2]) IN
    \/ ty = Early /\ EarlyServe(l, old)
    \/ ty \in Classes /\ SlabServe(ty, l, old)
    \/ ty \in Classes /\ FreeObjects(ty) = {} /\ BeginPages(ty, l, old)
    \/ ty = Page /\ BeginPages(ty, l, old)

Running == panic = None /\ call = None

Alloc(l) ==
    /\ Running /\ Cardinality(live) < MaxLive
    /\ Serve(l, {})
    /\ UNCHANGED <<bootVars, spaceVars>>

-----------------------------------------------------------------------------
(* The steps of PageBasedAlloc::allocate                                   *)

InCall == panic = None /\ call # None

\* A batch of frames, or all of it undone: the frames are read back from the
\* page table and freed, the pages unmapped, the region freed.
GetBatch ==
    LET b == Lesser(call.n - call.done, Batch) IN
    /\ InCall /\ call.got = {} /\ call.done < call.n
    /\ Cardinality(free) >= b
    /\ call' = [call EXCEPT !.got = FirstFrames(b)]
    /\ free' = free \ FirstFrames(b)
    /\ UNCHANGED <<early, bootVars, table, regions, slabs, live, spaceVars, panic>>

UndoFramesOnly ==
    LET mapped == PageSpan(call.start, call.done) IN
    /\ InCall /\ call.got = {} /\ call.done < call.n
    /\ Cardinality(free) < Lesser(call.n - call.done, Batch)
    /\ free' = free \cup FramesAt(mapped)
    /\ table' = Unmapped(table, KRoot, mapped)
    /\ call' = None
    /\ Panic("alloc error")
    /\ UNCHANGED <<early, bootVars, regions, slabs, live, spaceVars>>

Undo ==
    LET mapped == PageSpan(call.start, call.done) IN
    /\ InCall /\ call.got = {} /\ call.done < call.n
    /\ Cardinality(free) < Lesser(call.n - call.done, Batch)
    /\ free' = free \cup FramesAt(mapped)
    /\ table' = Unmapped(table, KRoot, mapped)
    /\ regions' = regions \cup PageSpan(call.start, call.n)
    /\ call' = None
    /\ Panic("alloc error")
    /\ UNCHANGED <<early, bootVars, slabs, live, spaceVars>>

\* One page: assert_eq!(get_page, None), then set_page_kernel, which takes
\* frames for the tables it misses and panics when there are none.
MapPage ==
    LET p    == call.start + call.done
        f    == Least(call.got)
        need == FirstFrames(Missing(table, KRoot, p))
        fs   == IF Cardinality(need) = 2 THEN <<Least(need), Greatest(need)>>
                ELSE IF Cardinality(need) = 1 THEN <<Least(need)>> ELSE <<>>
    IN
    /\ InCall /\ call.got # {}
    /\ IF FrameAt(p) # None
       THEN Panic("page is mapped") /\ UNCHANGED <<free, table, call>>
       ELSE IF Cardinality(need) < Missing(table, KRoot, p)
       THEN Panic("no frame for a table") /\ UNCHANGED <<free, table, call>>
       ELSE /\ table' = SetPage(WithTables(table, KRoot, p, fs), KRoot, p, f)
            /\ free' = free \ need
            /\ call' = [call EXCEPT !.got = @ \ {f}, !.done = @ + 1]
            /\ UNCHANGED panic
    /\ UNCHANGED <<early, bootVars, regions, slabs, live, spaceVars>>

\* All pages are mapped: the caller gets the first, or a slab made of it.
Finish ==
    /\ InCall /\ call.got = {} /\ call.done = call.n
    /\ slabs' = IF call.ty = Page THEN slabs
                ELSE [slabs EXCEPT ![call.ty] = @ \cup {call.start}]
    /\ Replaces(call.old, New(Addr(call.start), call.layout, call.ty, 0))
    /\ call' = None
    /\ UNCHANGED <<early, bootVars, pageVars, spaceVars, panic>>

-----------------------------------------------------------------------------
(* dealloc and realloc of an allocation a                                  *)

\* PageBasedAlloc::deallocate of n pages
FreePagesOf(ps) ==
    IF None \in FramesAt(ps)
    THEN Panic("page is not mapped") /\ UNCHANGED pageVars
    ELSE /\ free' = free \cup FramesAt(ps)
         /\ table' = Unmapped(table, KRoot, ps)
         /\ regions' = regions \cup ps
         /\ UNCHANGED panic

\* A client's dealloc, or the last step of a realloc that moved a.
Dealloc(a) ==
    LET ty == ExistingType(a) IN
    /\ Running
    /\ live' = live \ {a}
    /\ early' = IF ty = Early THEN EarlyFree(early, a.ptr, a.size) ELSE early
    /\ IF ty = Page THEN FreePagesOf(PagesFrom(a, NumPages(a.size)))
       ELSE UNCHANGED <<pageVars, panic>>
    /\ UNCHANGED <<bootVars, slabs, call, spaceVars>>

Resize(a, size) == live' = (live \ {a}) \cup {[a EXCEPT !.size = size]}

\* early::realloc; a null pointer is unwrapped.
EarlyRealloc(a, size) ==
    LET extra == FullSize(size) - FullSize(a.size) IN
    /\ IF size > a.size /\ ~EndsAtMark(early, a.ptr, a.size)
       THEN Panic("early realloc") /\ UNCHANGED <<early, live>>
       ELSE IF size > a.size /\ ~HasRoomFor(early, extra)
       THEN Panic("early memory") /\ UNCHANGED <<early, live>>
       ELSE /\ early' = IF size > a.size THEN EarlyGrow(early, a.ptr, a.size, size)
                        ELSE IF size < a.size THEN EarlyShrink(early, a.ptr, a.size, size)
                        ELSE early
            /\ Resize(a, size)
            /\ UNCHANGED panic
    /\ UNCHANGED <<pageVars, slabs, call>>

\* grow and shrink of a slab allocator: the object stays where it is.
SlabRealloc(a, size) ==
    /\ Resize(a, size)
    /\ UNCHANGED <<pageVars, early, slabs, call, panic>>

\* grow and shrink of PageBasedAlloc.  shrink leaves the pages mapped.
PageRealloc(a, size) ==
    LET had  == NumPages(a.size)
        has  == NumPages(size)
        rest == PagesFrom(a, had) \ PagesFrom(a, has)
    IN IF a.align >= Page
       THEN Panic("alloc error") /\ UNCHANGED <<pageVars, early, slabs, live, call>>
       ELSE IF has > had
       THEN BeginPages(Page, <<size, a.align>>, {a})
       ELSE /\ IF None \in FramesAt(rest)
               THEN Panic("page is not mapped") /\ UNCHANGED <<free, regions, live>>
               ELSE /\ free' = free \cup FramesAt(rest)
                    /\ regions' = regions \cup rest
                    /\ Resize(a, size)
                    /\ UNCHANGED panic
            /\ UNCHANGED <<table, early, slabs, call>>

\* DefaultAlloc::realloc
Realloc(a, size) ==
    LET ty == NewType(size, a.align) IN
    /\ Running /\ ~a.dying
    /\ \/ ty # ExistingType(a) /\ Serve(<<size, a.align>>, {a})
       \/ ty = ExistingType(a) /\ ty = Early /\ EarlyRealloc(a, size)
       \/ ty = ExistingType(a) /\ ty \in Classes /\ SlabRealloc(a, size)
       \/ ty = ExistingType(a) /\ ty = Page /\ PageRealloc(a, size)
    /\ UNCHANGED <<bootVars, spaceVars>>

-----------------------------------------------------------------------------
(* Boot, and the other address spaces                                      *)

\* The root entries that are unused get a table each, so that every root made
\* from this one shares all the tables below.
FilledFrom(root, slots) ==
    LET new == FirstFrames(Cardinality(slots))
        at(i) == CHOOSE f \in new :
                    Cardinality({g \in new : g < f}) = Cardinality({j \in slots : j < i})
    IN [g \in DOMAIN table \cup new |->
            IF g \in new THEN EmptyTable
            ELSE IF g # root THEN table[g]
            ELSE [i \in DOMAIN table[g] |-> IF i \in slots THEN at(i) ELSE table[g][i]]]

FilledButFirst(root) == FilledFrom(root, UnusedSlots(table, root) \ {Least(UnusedSlots(table, root))})
Filled(root) == FilledFrom(root, UnusedSlots(table, root))

\* init_kernel_addrspace: free regions are found before the root is filled.
InitKernelAddrspace ==
    LET n == Cardinality(UnusedSlots(table, KRoot)) IN
    /\ Running /\ ~booted
    /\ booted' = TRUE
    /\ regions' = FreePages(table, KRoot)
    /\ IF Cardinality(free) < n
       THEN Panic("no frame for a table") /\ UNCHANGED <<free, table>>
       ELSE table' = Filled(KRoot) /\ free' = free \ DOMAIN table' /\ UNCHANGED panic
    /\ UNCHANGED <<early, useEarly, slabs, live, call, spaceVars>>

\* set_use_early_alloc(false)
SetUseEarlyAlloc ==
    /\ Running /\ booted /\ useEarly
    /\ useEarly' = FALSE
    /\ UNCHANGED <<early, booted, pageVars, slabs, live, call, spaceVars, panic>>

\* AddressSpace::new: a frame for the root, then, under the lock of the kernel's
\* address space, the upper half of the kernel's root.
TakeRoot ==
    /\ panic = None /\ ~useEarly /\ newRoot = None /\ Cardinality(spaces) < MaxSpaces
    /\ IF free = {}
       THEN Panic("no frame for a table") /\ UNCHANGED <<free, newRoot>>
       ELSE newRoot' = Least(free) /\ free' = free \ {newRoot'} /\ UNCHANGED panic
    /\ UNCHANGED <<early, bootVars, table, regions, slabs, live, call, spaces>>

CopyUpperHalf ==
    /\ Running /\ newRoot # None
    /\ table' = [g \in DOMAIN table \cup {newRoot} |-> IF g = newRoot THEN table[KRoot] ELSE table[g]]
    /\ spaces' = spaces \cup {newRoot}
    /\ newRoot' = None
    /\ UNCHANGED <<early, bootVars, free, regions, slabs, live, call, panic>>

\* The panic handler never returns.
Halted == panic # None /\ UNCHANGED vars

-----------------------------------------------------------------------------
Init ==
    /\ early = EarlyInit
    /\ useEarly = TRUE
    /\ booted = FALSE
    /\ free = HeapFrames
    /\ table = BootTable
    /\ regions = {}
    /\ slabs = [c \in Classes |-> {}]
    /\ live = {}
    /\ call = None
    /\ spaces = {}
    /\ newRoot = None
    /\ panic = None

Next ==
    \/ \E l \in Layouts : Alloc(l)
    \/ GetBatch \/ Undo \/ MapPage \/ Finish
    \/ \E a \in live : Dealloc(a)
    \/ \E a \in live, size \in NewSizes : Realloc(a, size)
    \/ InitKernelAddrspace \/ SetUseEarlyAlloc
    \/ TakeRoot \/ CopyUpperHalf
    \/ Halted

Spec == Init /\ [][Next]_vars

-----------------------------------------------------------------------------
(* Correctness                                                             *)

WordsOf(a) == a.ptr .. a.ptr + a.size - 1
HeapPages == UNION ({slabs[c] : c \in Classes}
                    \cup {PagesFrom(a, NumPages(a.size)) : a \in {b \in live : b.ty = Page}})

\* No two allocations that are live share a word, whichever allocators served
\* them and however they were reallocated, and each is aligned; the pages that
\* hold them are mapped, each to a frame of its own that is not free and holds
\* no page table, so that deallocate never unwraps a page that is not there.
LiveDisjoint ==
    /\ panic # "page is not mapped"
    /\ \A a \in live : a.ptr % a.align = 0
    /\ \A a, b \in live : a # b => WordsOf(a) \cap WordsOf(b) = {}
    /\ \A a \in live : a.ty # Early => {PageAt(w) : w \in WordsOf(a)} \subseteq HeapPages
    /\ \A p \in HeapPages : FrameAt(p) \notin free \cup DOMAIN table \cup {None}
    /\ \A p, q \in HeapPages : FrameAt(p) = FrameAt(q) => p = q

\* dealloc and realloc take every allocation to the allocator that served it,
\* though they only know its address, its layout and today's USE_EARLY_ALLOC.
OwnerFound == \A a \in live : ExistingType(a) = a.ty

\* The frames and pages a call of allocate has.
CallFrames == IF call = None THEN {} ELSE call.got \cup FramesAt(PageSpan(call.start, call.done))
CallPages == IF call = None THEN {} ELSE PageSpan(call.start, call.n)

\* Every frame is free, a page table, a page of the heap or in a call's hands,
\* and every page of the region allocator is free, in the heap or in a call's
\* hands: an allocate that fails half way gives back all it took.
NothingLeaks ==
    LET own == DOMAIN table \ DOMAIN BootTable
        root == {newRoot} \ {None}
        used == FramesAt(HeapPages)
    IN booted =>
        /\ HeapFrames = free \cup own \cup root \cup used \cup CallFrames
        /\ free \cap (own \cup root \cup used \cup CallFrames) = {}
        /\ used \cap CallFrames = {}
        /\ FreePages(BootTable, KRoot) = regions \cup HeapPages \cup CallPages
        /\ regions \cap (HeapPages \cup CallPages) = {} /\ HeapPages \cap CallPages = {}

\* Freeing the early block that ends at the mark returns the mark to where it
\* was when the block was made, so no live block is uncovered and no gap is
\* lost, after any sequence of grows and shrinks.
EarlyMarkReturns ==
    \A a \in {b \in live : b.ty = Early} :
        /\ a.ptr + FullSize(a.size) <= early.mark
        /\ EndsAtMark(early, a.ptr, a.size) =>
            early.mark - Header(early, a.ptr, a.size) = a.base

\* A page of the upper half is mapped alike in every address space, whenever
\* the space was made and the page mapped, although nobody updates the roots.
UpperHalfShared ==
    \A r \in spaces, p \in AllPages : GetPage(table, r, p) = FrameAt(p)

\* allocate never maps over a page that is mapped: the assertion in its loop.
RegionUnmapped == panic # "page is mapped"

=============================================================================
