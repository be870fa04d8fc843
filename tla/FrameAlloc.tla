----------------------------- MODULE FrameAlloc -----------------------------
(***************************************************************************)
(* The physical frame allocator of mem/frame.rs: a StackFrameAllocator     *)
(* behind a lock.  The stack of free frames is kept in the free frames     *)
(* themselves: one in P of them is a stack page, whose slot 0 links to the *)
(* page below and whose other slots hold frames; the page is itself the    *)
(* last frame of its group to be handed out.                               *)
(*                                                                         *)
(* A frame that is in use belongs to its user, who may have written        *)
(* anything: all its slots are Garbage.                                    *)
(***************************************************************************)
EXTENDS Integers, Sequences, FiniteSets

CONSTANTS
    Frames,   \* the page frames of the memory map that are free at boot
    Callers,  \* threads of any core that use the allocator
    P,        \* NUM_FRAMES_PER_PAGE
    Nil,      \* Option::None and PhysAddr::zero()
    Garbage   \* whatever the user of a frame left in it

ASSUME FrameAssumption ==
    /\ IsFiniteSet(Frames)
    /\ P \in Nat /\ P > 1
    /\ Nil \notin Frames \cup Callers /\ Garbage \notin Frames /\ Nil # Garbage

VARIABLES
    num,      \* num_frames_available
    top,      \* stack_top
    mem,      \* frame -> slot -> what is written there
    inUse,    \* frames somebody has
    many,     \* caller -> frames its alloc_many or free_many has still to do
    lock,     \* the caller that has the lock across steps, or Nil
    stack,    \* history: the free frames, oldest first
    failed    \* an assertion or unwrap failed, or a wild frame was used

allocVars == <<num, top, mem, stack>>
frameVars == <<allocVars, inUse, many, lock, failed>>

PageSlots == 0 .. P - 1

\* frames_on_top_stack_frame
TopCount == IF num % P = 0 THEN P ELSE num % P

-----------------------------------------------------------------------------
(* StackFrameAllocator                                                     *)

\* free_one
FreeOneLosesLink(f) ==
    /\ IF num = 0 \/ TopCount = P
       THEN top' = f /\ mem' = [mem EXCEPT ![f][0] = Nil]
       ELSE top' = top /\ mem' = [mem EXCEPT ![top][TopCount] = f]
    /\ num' = num + 1
    /\ stack' = Append(stack, f)
    /\ inUse' = inUse \ {f}
    /\ UNCHANGED failed

FreeOne(f) ==
    /\ IF num = 0
       THEN top' = f /\ mem' = [mem EXCEPT ![f][0] = Nil]
       ELSE IF TopCount = P
            THEN top' = f /\ mem' = [mem EXCEPT ![f][0] = top]
            ELSE top' = top /\ mem' = [mem EXCEPT ![top][TopCount] = f]
    /\ num' = num + 1
    /\ stack' = Append(stack, f)
    /\ inUse' = inUse \ {f}
    /\ UNCHANGED failed

\* The frame alloc_one returns, and the page that is then on top.
PoppedPageFirst == top
Popped == IF TopCount = 1 THEN top ELSE mem[top][TopCount - 1]

TopAfterKeepsPage == top
TopAfter ==
    IF TopCount # 1 THEN top
    ELSE IF num = 1 THEN Nil ELSE mem[top][0]

\* alloc_one with a frame available
Pop ==
    /\ num # 0
    /\ failed' = (failed \/ Popped \notin Frames \/ Popped \in inUse)
    /\ inUse' = inUse \cup {Popped}
    /\ mem' = [f \in Frames |-> IF f = Popped THEN [s \in PageSlots |-> Garbage] ELSE mem[f]]
    /\ top' = TopAfter
    /\ num' = num - 1
    /\ stack' = SubSeq(stack, 1, Len(stack) - 1)

-----------------------------------------------------------------------------
(* LockFrameAllocator                                                      *)

Locked(c) == lock = Nil /\ UNCHANGED <<lock, many>>

\* A caller returns a frame it has; free_many, and the loop of init over the
\* memory map, are runs of this under one lock.
Free(c, f) ==
    /\ Locked(c)
    /\ f \in inUse
    /\ FreeOne(f)

AllocOne(c) ==
    /\ Locked(c)
    /\ Pop

\* alloc_many checks the number available, under the lock it keeps.
Enough(n) == ~(num < n)

AllocManyUnlocked(c, n) ==
    /\ lock = Nil /\ many[c] = 0
    /\ Enough(n)
    /\ many' = [many EXCEPT ![c] = n]
    /\ UNCHANGED <<allocVars, inUse, failed, lock>>

AllocMany(c, n) ==
    /\ lock = Nil /\ many[c] = 0
    /\ Enough(n)
    /\ lock' = c
    /\ many' = [many EXCEPT ![c] = n]
    /\ UNCHANGED <<allocVars, inUse, failed>>

\* One round of its loop; alloc_one().unwrap() panics if nothing is left.
AllocManyStep(c) ==
    /\ many[c] > 0
    /\ many' = [many EXCEPT ![c] = many[c] - 1]
    /\ lock' = IF many[c] = 1 THEN Nil ELSE lock
    /\ \/ Pop
       \/ num = 0 /\ failed' = TRUE /\ UNCHANGED <<allocVars, inUse>>

FrameInit ==
    /\ num = 0
    /\ top = Nil
    /\ mem = [f \in Frames |-> [s \in PageSlots |-> Garbage]]
    /\ inUse = Frames
    /\ many = [c \in Callers |-> 0]
    /\ lock = Nil
    /\ stack = <<>>
    /\ failed = FALSE

FrameNext ==
    \E c \in Callers :
        \/ \E f \in Frames : Free(c, f)
        \/ AllocOne(c)
        \/ \E n \in 1 .. Cardinality(Frames) : AllocMany(c, n)
        \/ AllocManyStep(c)

FrameSpec == FrameInit /\ [][FrameNext]_frameVars

-----------------------------------------------------------------------------
(* Correctness                                                             *)

\* Every variable has its type; num_frames_available does not underflow.
TypeOK ==
    /\ num \in Nat
    /\ top \in Frames \cup {Nil}
    /\ mem \in [Frames -> [PageSlots -> Frames \cup {Nil, Garbage}]]
    /\ inUse \subseteq Frames
    /\ many \in [Callers -> Nat]
    /\ lock \in Callers \cup {Nil}
    /\ stack \in Seq(Frames)
    /\ failed \in BOOLEAN

\* No frame is handed out that is already in use or was never there, and
\* alloc_many never unwraps a None after it found enough frames.
NoFailure == ~failed

\* The slot of the k-th free frame in its group's page, and the first of the
\* group, which is that page.
SlotIn(k) == (k - 1) % P
Base(k) == k - SlotIn(k)

\* The pages written in free memory hold exactly the free frames: each frame
\* but the first of a group is in the group's page, each page links to the
\* one below, and the allocator points to the last page.
StackInPages ==
    /\ num = Len(stack)
    /\ top = IF num = 0 THEN Nil ELSE stack[Base(num)]
    /\ \A k \in 1 .. Len(stack) :
        IF k = Base(k)
        THEN mem[stack[k]][0] = IF k = 1 THEN Nil ELSE stack[k - P]
        ELSE mem[stack[Base(k)]][SlotIn(k)] = stack[k]

\* A frame is free or in use, never both and never twice free: nobody writes
\* over the allocator's pages.
FreeXorInUse ==
    /\ \A k \in 1 .. Len(stack) : stack[k] \notin inUse
    /\ \A j, k \in 1 .. Len(stack) : stack[j] = stack[k] => j = k
    /\ \A f \in Frames : f \in inUse \/ \E k \in 1 .. Len(stack) : stack[k] = f

\* The three together: the list of free frames kept in free memory is sound.
FramesSound == StackInPages /\ FreeXorInUse /\ NoFailure

\* An alloc_many under way finds all of its frames.
ManyCovered == \A c \in Callers : many[c] <= num

\* The allocator implements the pool of frames that its trait describes.
Pool == INSTANCE FramePool WITH
            free <- Frames \ inUse, inUse <- inUse, due <- many
ImplementsPool == Pool!Spec

=============================================================================
