----------------------------- MODULE FramePool -----------------------------
(***************************************************************************)
(* What mem/frame.rs promises of a FrameAllocator: a pool of free physical *)
(* frames.  A frame is either free or in use; allocating takes a free one, *)
(* several at a time only if there are enough.                             *)
(***************************************************************************)
EXTENDS Naturals, FiniteSets

CONSTANTS Frames, Callers

VARIABLES
    free,    \* frames in the pool
    inUse,   \* frames somebody has
    due      \* caller -> frames it is still to be given by its alloc_many

poolVars == <<free, inUse, due>>

Init ==
    /\ free = {}
    /\ inUse = Frames
    /\ due = [c \in Callers |-> 0]

Free(f) ==
    /\ f \in inUse
    /\ free' = free \cup {f}
    /\ inUse' = inUse \ {f}
    /\ UNCHANGED due

Take(f) ==
    /\ f \in free
    /\ free' = free \ {f}
    /\ inUse' = inUse \cup {f}

AllocOne == \E f \in free : Take(f) /\ UNCHANGED due

\* alloc_many is promised all of its frames when it starts.
Promise(c, n) ==
    /\ n <= Cardinality(free)
    /\ due' = [due EXCEPT ![c] = n]
    /\ UNCHANGED <<free, inUse>>

Deliver(c) ==
    /\ due[c] > 0
    /\ \E f \in free : Take(f)
    /\ due' = [due EXCEPT ![c] = due[c] - 1]

Next ==
    \/ AllocOne
    \/ \E f \in Frames : Free(f)
    \/ \E c \in Callers, n \in 1 .. Cardinality(Frames) : Promise(c, n) \/ Deliver(c)

Spec == Init /\ [][Next]_poolVars
=============================================================================
