------------------------------ MODULE MCMemory ------------------------------
(***************************************************************************)
(* The kernel heap and the two allocators below it, side by side: a        *)
(* behaviour is one of the heap, one of the region allocator or one of the *)
(* frame allocator alone.                                                  *)
(***************************************************************************)
EXTENDS Heap, FrameAlloc, TLC

VARIABLES
    part,
    list, freePages

\* The bootloader maps the first three pages.
Boot == (KRoot :> [i \in 0 .. Slots - 1 |-> IF i = 0 THEN 101 ELSE None])
     @@ (101 :> [i \in 0 .. Fan - 1 |-> 102 + i])
     @@ (102 :> [i \in 0 .. Fan - 1 |-> 104 + i])
     @@ (103 :> [i \in 0 .. Fan - 1 |-> IF i = 0 THEN 106 ELSE None])

ClientLayouts == {<<1, 2>>, <<4, 4>>, <<9, 1>>}

\* Twelve pages of which three are adjacent, and thirteen that never touch:
\* enough to fill a list page between two others.
V == INSTANCE VirtAlloc WITH
        Pages <- {2 * n : n \in 0 .. 10} \cup {9}, R <- 8, Ids <- 1 .. 4, Null <- 0,
        MaxRegions <- 10, heap <- list, free <- freePages

W == INSTANCE VirtAlloc WITH
        Pages <- {2 * n : n \in 0 .. 12}, R <- 8, Ids <- 1 .. 4, Null <- 0,
        MaxRegions <- 10, heap <- list, free <- freePages

ASSUME V!VirtAssumption /\ W!VirtAssumption

listVars == <<list, freePages>>

MemInit ==
    /\ part \in {"heap", "regions", "sparse", "frames"}
    /\ Init
    /\ V!Init
    /\ FrameInit

MemNext ==
    \/ part = "heap" /\ Next /\ UNCHANGED <<part, listVars, frameVars>>
    \/ part = "regions" /\ V!Next /\ UNCHANGED <<part, vars, frameVars>>
    \/ part = "sparse" /\ W!Next /\ UNCHANGED <<part, vars, frameVars>>
    \/ part = "frames" /\ FrameNext /\ UNCHANGED <<part, vars, listVars>>

MemSpec == MemInit /\ [][MemNext]_<<part, vars, listVars, frameVars>>

\* The callers of the frame allocator are interchangeable.
CallerSym == Permutations(Callers)

-----------------------------------------------------------------------------
\* The properties of VirtAlloc (mem/virt.rs): no call panics, the list is
\* linked both ways, and it lists the free pages, in order and coalesced,
ListSound == part \in {"regions", "sparse"} =>
                V!NoPanic /\ V!LinksConsistent /\ V!ListsFreeRuns

\* and alloc and reserve succeed exactly when they can.
RequestsDecided == /\ part = "regions" => V!RequestsDecided
                   /\ part = "sparse" => W!RequestsDecided

=============================================================================
