-------------------------------- MODULE Slab --------------------------------
(***************************************************************************)
(* The slab allocators of mem/slab.rs.  A slab is a block of pages cut     *)
(* into objects and described by a SlabInfo.  The SlabInfos of the user    *)
(* allocators (SLAB_8 .. SLAB_2048) are objects of the allocator SLAB_INFO, *)
(* and those of SLAB_INFO live in slot 0 of the slab they describe.        *)
(*                                                                         *)
(* An allocator's singly linked lists, which only change at the head, are  *)
(* sequences of pointers to SlabInfos; the SlabInfos themselves are where  *)
(* they are in memory, so that memory used twice shows.                    *)
(***************************************************************************)
EXTENDS Integers, Sequences, FiniteSets, SequencesExt

CONSTANTS
    Users,    \* the allocators with OWN_INFO = false
    INFO,     \* SLAB_INFO
    Cores,
    Blocks,   \* blocks of pages PageBasedAlloc can give out
    N,        \* OBJECTS_PER_SLAB of a user allocator
    NInfo,    \* OBJECTS_PER_SLAB of SLAB_INFO
    Cap,      \* bits of SlabInfo::free (512)
    WordBits, \* bits of a word of it (32)
    None,
    Junk      \* memory that is not a SlabInfo

VARIABLES
    pages,      \* the blocks PageBasedAlloc has free
    info,       \* info[b][i]: the SlabInfo written at slot i of block b
    slabs,      \* allocator -> its SlabInfos from `first` on
    freeSlabs,  \* allocator -> its SlabInfos from `first_free` on
    lock,       \* allocator -> the core that has its lock
    at,         \* core -> where it is in alloc or drop, for which allocator
    block,      \* core -> the block it has taken and not yet linked
    held,       \* user allocator -> the objects its clients have
    panicked

vars == <<pages, info, slabs, freeSlabs, lock, at, block, held, panicked>>

Allocs == Users \cup {INFO}
InfoSlots == 0 .. NInfo - 1
Idle == [pc |-> "idle", alloc |-> None]

\* FixedBitVector<512>
Bits == INSTANCE BitVector WITH N <- Cap, W <- WordBits

ASSUME SlabAssumption ==
    /\ IsFiniteSet(Blocks)
    /\ Cap \in Nat /\ N \in 2 .. Cap /\ NInfo \in 2 .. Cap /\ WordBits \in Nat \ {0}
    /\ INFO \notin Users
    /\ None \notin Blocks \cup Cores
    /\ Junk \notin [ptr : Blocks, num_free : 0 .. Cap,
                    free : [Bits!Indices -> SUBSET Bits!Ones]]

\* SlabInfo::new.  set_range ignores a range of one bit, which is why a slab
\* has two objects at least (pages_per_slab sees to four).
New(b, n) == [ptr |-> b,
              free |-> Bits!SetRange(Bits!NewBits(FALSE), 0, n - 1, TRUE),
              num_free |-> n]

\* The SlabInfo of a slab that describes itself in its slot 0.
NewOwnKeepsSlot(b) == New(b, NInfo)
NewOwn(b) == [New(b, NInfo) EXCEPT !.free = Bits!SetBit(@, 0, FALSE), !.num_free = @ - 1]

At(p) == info[p[1]][p[2]]
Write(p, s) == [info EXCEPT ![p[1]][p[2]] = s]

Goto(c, pc) == at' = [at EXCEPT ![c].pc = pc]
Unlock(as) == lock' = [a \in Allocs |-> IF a \in as THEN None ELSE lock[a]]

-----------------------------------------------------------------------------
(* Taking a slot of the first free slab, and giving one back               *)

FirstFree(a) == At(Head(freeSlabs[a]))
SlotFound(a) == Bits!FindNext(FirstFree(a).free, 0)
Taken(a) == <<FirstFree(a).ptr, SlotFound(a)>>

\* The head slab once a slot is taken, and the list it may leave.
TakeKeepsBit(a) == [FirstFree(a) EXCEPT !.num_free = @ - 1]
TakeInfo(a) ==
    [FirstFree(a) EXCEPT !.free = Bits!SetBit(@, SlotFound(a), FALSE),
                         !.num_free = @ - 1]

ListAfterTake(a) ==
    IF FirstFree(a).num_free = 1
    THEN [freeSlabs EXCEPT ![a] = Tail(@)]
    ELSE freeSlabs

\* Slot i of the slab described at p is free again; the panic if it was.
Freed(p, i) == [At(p) EXCEPT !.free = Bits!SetBit(@, i, TRUE), !.num_free = @ + 1]
DoubleFree(p, i) == panicked' = (panicked \/ Bits!Bit(At(p).free, i))

ListAfterFreeAlways(a, p) == [freeSlabs EXCEPT ![a] = <<p>> \o @]
ListAfterFree(a, p) ==
    IF At(p).num_free = 0
    THEN [freeSlabs EXCEPT ![a] = <<p>> \o @]
    ELSE freeSlabs

\* Whose slab an object is in: the walk of free()
SlabOf(a, o) == CHOOSE p \in Range(slabs[a]) : At(p).ptr = o[1]

\* expect("slab in freelist has no free slots")
NoSlot(a) == freeSlabs[a] # <<>> /\ SlotFound(a) = Bits!NoBit

-----------------------------------------------------------------------------
(* alloc() of a user allocator                                             *)

Begin(c, a) ==
    /\ at[c] = Idle /\ lock[a] = None
    /\ lock' = [lock EXCEPT ![a] = c]
    /\ at' = [at EXCEPT ![c] = [pc |-> "alloc", alloc |-> a]]
    /\ UNCHANGED <<pages, info, slabs, freeSlabs, block, held, panicked>>

\* There is a slab with room: take a slot and return.
Take(c) ==
    LET a == at[c].alloc IN
    /\ at[c].pc = "alloc" /\ freeSlabs[a] # <<>>
    /\ IF NoSlot(a)
       THEN panicked' = TRUE /\ UNCHANGED <<info, freeSlabs, held>>
       ELSE /\ info' = Write(Head(freeSlabs[a]), TakeInfo(a))
            /\ freeSlabs' = ListAfterTake(a)
            /\ held' = [held EXCEPT ![a] = @ \cup {Taken(a)}]
            /\ UNCHANGED panicked
    /\ Unlock({a}) /\ at' = [at EXCEPT ![c] = Idle]
    /\ UNCHANGED <<pages, slabs, block>>

\* No slab has room: pages for a new one, which PageBasedAlloc may refuse.
GetPages(c) ==
    LET a == at[c].alloc IN
    /\ at[c].pc = "alloc" /\ freeSlabs[a] = <<>>
    /\ \/ /\ Unlock({a}) /\ at' = [at EXCEPT ![c] = Idle]
          /\ UNCHANGED <<pages, block>>
       \/ \E b \in pages :
            /\ pages' = pages \ {b}
            /\ block' = [block EXCEPT ![c] = b]
            /\ Goto(c, "info")
            /\ UNCHANGED lock
    /\ UNCHANGED <<info, slabs, freeSlabs, held, panicked>>

\* SLAB_INFO.lock().alloc() for its SlabInfo
LockInfo(c) ==
    /\ at[c].pc = "info" /\ lock[INFO] = None
    /\ lock' = [lock EXCEPT ![INFO] = c]
    /\ UNCHANGED <<pages, info, slabs, freeSlabs, at, block, held, panicked>>

\* SLAB_INFO has no room: a block that describes itself, or failure.
GrowInfo(c) ==
    /\ at[c].pc = "info" /\ lock[INFO] = c /\ freeSlabs[INFO] = <<>>
    /\ \/ /\ Goto(c, "undo")
          /\ UNCHANGED <<pages, info, slabs, freeSlabs>>
       \/ \E b \in pages :
            /\ pages' = pages \ {b}
            /\ info' = Write(<<b, 0>>, NewOwn(b))
            /\ slabs' = [slabs EXCEPT ![INFO] = <<<<b, 0>>>> \o @]
            /\ freeSlabs' = [freeSlabs EXCEPT ![INFO] = <<<<b, 0>>>> \o @]
            /\ UNCHANGED at
    /\ UNCHANGED <<lock, block, held, panicked>>

\* The SlabInfo is written and the slab linked into both lists; SLAB_INFO's
\* guard is dropped at the end of the if let.
Link(c) ==
    LET a == at[c].alloc  p == Taken(INFO) IN
    /\ at[c].pc = "info" /\ lock[INFO] = c /\ freeSlabs[INFO] # <<>>
    /\ IF NoSlot(INFO)
       THEN panicked' = TRUE /\ UNCHANGED <<info, slabs, freeSlabs>>
       ELSE /\ info' = [Write(Head(freeSlabs[INFO]), TakeInfo(INFO))
                            EXCEPT ![p[1]][p[2]] = New(block[c], N)]
            /\ slabs' = [slabs EXCEPT ![a] = <<p>> \o @]
            /\ freeSlabs' = [ListAfterTake(INFO) EXCEPT ![a] = <<p>> \o @]
            /\ UNCHANGED panicked
    /\ block' = [block EXCEPT ![c] = None]
    /\ Goto(c, "alloc") /\ Unlock({INFO})
    /\ UNCHANGED <<pages, held>>

\* The else branch: the pages go back, both guards are dropped, None.
UndoLeaks(c) ==
    /\ at[c].pc = "undo"
    /\ block' = [block EXCEPT ![c] = None]
    /\ Unlock({INFO, at[c].alloc}) /\ at' = [at EXCEPT ![c] = Idle]
    /\ UNCHANGED <<pages, info, slabs, freeSlabs, held, panicked>>

Undo(c) ==
    /\ at[c].pc = "undo"
    /\ pages' = pages \cup {block[c]}
    /\ block' = [block EXCEPT ![c] = None]
    /\ Unlock({INFO, at[c].alloc}) /\ at' = [at EXCEPT ![c] = Idle]
    /\ UNCHANGED <<info, slabs, freeSlabs, held, panicked>>

-----------------------------------------------------------------------------
\* deallocate(): one critical section, which takes no other lock
Free(a, o) ==
    /\ lock[a] = None /\ o \in held[a]
    /\ LET p == SlabOf(a, o) IN
        /\ info' = Write(p, Freed(p, o[2]))
        /\ freeSlabs' = ListAfterFree(a, p)
        /\ DoubleFree(p, o[2])
    /\ held' = [held EXCEPT ![a] = @ \ {o}]
    /\ UNCHANGED <<pages, slabs, lock, at, block>>

\* Drop of an allocator none of whose objects is in use.  It has &mut self:
\* nobody else can lock the allocator, and no list is left of it; a later
\* Begin is the first call of a new allocator.
BeginDrop(c, a) ==
    /\ at[c] = Idle /\ lock[a] = None /\ held[a] = {} /\ slabs[a] # <<>>
    /\ lock' = [lock EXCEPT ![a] = c]
    /\ at' = [at EXCEPT ![c] = [pc |-> "drop", alloc |-> a]]
    /\ freeSlabs' = [freeSlabs EXCEPT ![a] = <<>>]
    /\ UNCHANGED <<pages, info, slabs, block, held, panicked>>

\* One slab: its counts are checked, then its pages are freed ...
DropPages(c) ==
    LET s == At(Head(slabs[at[c].alloc])) IN
    /\ at[c].pc = "drop"
    /\ IF s.num_free # Bits!Count(s.free) \/ s.num_free # N
       THEN panicked' = TRUE /\ UNCHANGED <<pages, at>>
       ELSE pages' = pages \cup {s.ptr} /\ Goto(c, "dropinfo") /\ UNCHANGED panicked
    /\ UNCHANGED <<info, slabs, freeSlabs, lock, block, held>>

\* ... and then its SlabInfo, under SLAB_INFO's lock.
DropInfo(c) ==
    LET a == at[c].alloc
        p == Head(slabs[a])
        own == SlabOf(INFO, p)
    IN
    /\ at[c].pc = "dropinfo" /\ lock[INFO] = None
    /\ info' = [Write(own, Freed(own, p[2])) EXCEPT ![p[1]][p[2]] = Junk]
    /\ freeSlabs' = ListAfterFree(INFO, own)
    /\ DoubleFree(own, p[2])
    /\ slabs' = [slabs EXCEPT ![a] = Tail(@)]
    /\ IF Tail(slabs[a]) = <<>>
       THEN Unlock({a}) /\ at' = [at EXCEPT ![c] = Idle]
       ELSE UNCHANGED lock /\ Goto(c, "drop")
    /\ UNCHANGED <<pages, block, held>>

-----------------------------------------------------------------------------
Init ==
    /\ pages = Blocks
    /\ info = [b \in Blocks |-> [i \in InfoSlots |-> Junk]]
    /\ slabs = [a \in Allocs |-> <<>>]
    /\ freeSlabs = [a \in Allocs |-> <<>>]
    /\ lock = [a \in Allocs |-> None]
    /\ at = [c \in Cores |-> Idle]
    /\ block = [c \in Cores |-> None]
    /\ held = [a \in Users |-> {}]
    /\ panicked = FALSE

Call(c) ==
    \/ Take(c) \/ GetPages(c)
    \/ LockInfo(c) \/ GrowInfo(c) \/ Link(c) \/ Undo(c)
    \/ DropPages(c) \/ DropInfo(c)

Next ==
    \/ \E c \in Cores, a \in Users : Begin(c, a) \/ BeginDrop(c, a)
    \/ \E a \in Users : \E o \in held[a] : Free(a, o)
    \/ \E c \in Cores : Call(c)

Spec == Init /\ [][Next]_vars

-----------------------------------------------------------------------------
(* Correctness                                                             *)

FreeSlots(p) == Bits!Elements(At(p).free)

\* The allocators nobody is dropping.
Dropping(a) == lock[a] # None /\ at[lock[a]].pc \in {"drop", "dropinfo"}

\* The free list of an allocator has each slab with room once and no other,
\* and num_free is the number of free slots: alloc() finds room wherever there
\* is some, and never an empty slab, whatever the order of alloc and free.
FreeListExact ==
    /\ ~panicked
    /\ \A a \in Allocs :
        /\ \A p \in Range(slabs[a]) :
            At(p) # Junk /\ At(p).num_free = Cardinality(FreeSlots(p))
        /\ ~ Dropping(a) =>
            /\ IsInjective(freeSlabs[a])
            /\ Range(freeSlabs[a]) = {p \in Range(slabs[a]) : At(p).num_free > 0}

\* The slots of a user allocator that are not free are exactly the objects
\* its clients have, so no object is handed out twice and none is lost.
ObjectsAccounted ==
    \A a \in Users :
        held[a] = {<<At(p).ptr, i>> : p \in Range(slabs[a]), i \in 0 .. N - 1}
                    \ UNION {{<<At(p).ptr, i>> : i \in FreeSlots(p)} : p \in Range(slabs[a])}

\* The slots of SLAB_INFO that are not free hold the SlabInfos of the slabs
\* there are, its own in slot 0: a failed or raced alloc() leaks none, and
\* nobody writes over one that is in use.
InfoAccounted ==
    LET own == Range(slabs[INFO]) IN
    /\ UNION {{<<At(p).ptr, i>> : i \in InfoSlots \ FreeSlots(p)} : p \in own}
        = UNION {Range(slabs[a]) : a \in Allocs}
    /\ \A a, b \in Allocs : a # b => Range(slabs[a]) \cap Range(slabs[b]) = {}
    /\ \A a \in Allocs : IsInjective(slabs[a])

\* The blocks of an allocator's slabs, without the one a drop has just freed.
BlocksOf(a) ==
    {At(slabs[a][i]).ptr : i \in
        {i \in 1 .. Len(slabs[a]) :
            i = 1 => lock[a] = None \/ at[lock[a]].pc # "dropinfo"}}

\* Every block of pages is free, in one slab of one allocator, or in the hands
\* of one core: the error paths give back what they took, and only that.
PagesAccounted ==
    LET taken == {block[c] : c \in Cores} \ {None}
        used == UNION {BlocksOf(a) : a \in Allocs}
    IN /\ pages = Blocks \ (taken \cup used)
       /\ taken \cap used = {}
       /\ \A c, d \in Cores : block[c] = block[d] => c = d \/ block[c] = None
       /\ \A a, b \in Allocs : a # b => BlocksOf(a) \cap BlocksOf(b) = {}
       /\ \A a \in Allocs : \A p, q \in Range(slabs[a]) :
            At(p).ptr = At(q).ptr => p = q

\* Neither SlabInfos nor blocks of pages are lost or used twice.
MemoryAccounted == InfoAccounted /\ PagesAccounted

=============================================================================
