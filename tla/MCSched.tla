------------------------------- MODULE MCSched -------------------------------
EXTENDS Sched, TLC
ThreadSym == Permutations(Threads \ (Listers \cup {InitThread}))
=============================================================================
