------------------------------- MODULE MCHeap -------------------------------
EXTENDS Heap, TLC

Root == 100

\* The bootloader maps the first page.
Boot == (Root :> [i \in 0 .. Slots - 1 |-> IF i = 0 THEN 101 ELSE None])
     @@ (101 :> [i \in 0 .. Fan - 1 |-> IF i = 0 THEN 102 ELSE None])
     @@ (102 :> [i \in 0 .. Fan - 1 |-> IF i = 0 THEN 103 ELSE None])

ThreePages == {<<9, 1>>}
=============================================================================
