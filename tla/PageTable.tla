----------------------------- MODULE PageTable -----------------------------
(***************************************************************************)
(* The page tables of arch/x86_64/page.rs, as a function from the frames   *)
(* that hold tables to their entries.  The middle level stands for L3 and  *)
(* L2, which the code walks in the same way; a root (L4) has one entry for *)
(* each slot, of which an address space owns the lower ones and shares the *)
(* upper ones.  Only upper slots, and pages in them, are modelled: nothing *)
(* maps user pages.                                                        *)
(***************************************************************************)
EXTENDS Integers, Sequences, FiniteSets

CONSTANTS
    Slots,   \* number of upper root entries (256)
    Fan,     \* entries of a table that is not a root (512)
    None     \* an entry that is not present

SlotPages == Fan * Fan
AllPages == 0 .. Slots * SlotPages - 1
SlotOf(p) == p \div SlotPages
MidOf(p) == (p \div Fan) % Fan
LeafOf(p) == p % Fan

EmptyTable == [i \in 0 .. Fan - 1 |-> None]

\* The tables on the way to a page, None where there is none.
MidTable(table, root, p) == table[root][SlotOf(p)]
LeafTable(table, root, p) ==
    IF MidTable(table, root, p) = None THEN None
    ELSE table[MidTable(table, root, p)][MidOf(p)]

\* The tables below a root are a tree: every table is below one entry, and
\* those of the middle level and the leaves are apart.
IsTree(table, root) ==
    LET mids == {table[root][i] : i \in 0 .. Slots - 1} \ {None}
    IN /\ root \in DOMAIN table \ mids /\ mids \subseteq DOMAIN table
       /\ DOMAIN table[root] = 0 .. Slots - 1
       /\ \A i, j \in 0 .. Slots - 1 :
            table[root][i] = table[root][j] => i = j \/ table[root][i] = None
       /\ \A m \in mids : DOMAIN table[m] = 0 .. Fan - 1
       /\ \A m \in mids, i \in 0 .. Fan - 1 :
            LET leaf == table[m][i]
            IN leaf # None =>
                /\ leaf \in DOMAIN table \ (mids \cup {root})
                /\ DOMAIN table[leaf] = 0 .. Fan - 1
                /\ \A n \in mids, j \in 0 .. Fan - 1 : table[n][j] = leaf => n = m /\ j = i

\* get_page
GetPage(table, root, p) ==
    IF LeafTable(table, root, p) = None THEN None
    ELSE table[LeafTable(table, root, p)][LeafOf(p)]

\* set_page_internal with a mapping, and with None, which makes no table
Missing(table, root, p) ==
    IF MidTable(table, root, p) = None THEN 2
    ELSE IF LeafTable(table, root, p) = None THEN 1 ELSE 0

NewTable(table, f) == [g \in DOMAIN table \cup {f} |-> IF g = f THEN EmptyTable ELSE table[g]]

\* The missing tables are put in the frames fs, from the top down.
WithMid(table, root, p, fs) ==
    IF MidTable(table, root, p) # None THEN table
    ELSE [NewTable(table, fs[1]) EXCEPT ![root][SlotOf(p)] = fs[1]]
WithTables(table, root, p, fs) ==
    LET t == WithMid(table, root, p, fs)
        f == fs[Len(fs)]
    IN IF LeafTable(t, root, p) # None THEN t
       ELSE [NewTable(t, f) EXCEPT ![MidTable(t, root, p)][MidOf(p)] = f]

SetPage(table, root, p, f) == [table EXCEPT ![LeafTable(table, root, p)][LeafOf(p)] = f]

Unmapped(table, root, ps) ==
    LET at == {<<LeafTable(table, root, p), LeafOf(p)>> : p \in ps}
    IN [g \in DOMAIN table |->
            [i \in DOMAIN table[g] |-> IF <<g, i>> \in at THEN None ELSE table[g][i]]]

\* find_free_regions_in: the pages below no entry, in all slots but the last.
FreePages(table, root) ==
    {p \in AllPages : SlotOf(p) < Slots - 1 /\ GetPage(table, root, p) = None}

UnusedSlots(table, root) == {i \in 0 .. Slots - 1 : table[root][i] = None}
=============================================================================
