------------------------------- MODULE MCSlab -------------------------------
(***************************************************************************)
(* Small instance of Slab, with bit vectors of two words; and, evaluated   *)
(* on the way, the operations of bit vectors with a full and with a partly *)
(* used last word.                                                         *)
(***************************************************************************)
EXTENDS Slab

Sym == Permutations(Blocks) \cup Permutations(Cores) \cup Permutations(Users)

Even == INSTANCE BitVector WITH N <- 6, W <- 3
Odd  == INSTANCE BitVector WITH N <- 5, W <- 3

ASSUME Even!WordsAreSets /\ Odd!WordsAreSets
=============================================================================
