---------------------------- MODULE EarlyAlloc ----------------------------
(***************************************************************************)
(* The early allocator of mem/early.rs: a mark that moves through a fixed  *)
(* area.  The last word of a block is its header, the length of the block  *)
(* with header and alignment gap; only the block that ends at the mark can *)
(* be freed, grown or shrunk.  The area's first word has address 0, sizes  *)
(* count words, and client data and what lies above the mark are Junk.     *)
(***************************************************************************)
EXTENDS Integers

CONSTANTS
    EarlySize,   \* EARLY_ALLOC_SIZE
    Junk

\* The area once init has set the mark.
EarlyInit == [mark |-> 0, word |-> [i \in 0 .. EarlySize - 1 |-> Junk]]

\* get_full_size
FullSize(size) == IF size = 0 THEN 1 ELSE size + 1

AlignOffset(p, align) == (align - (p % align)) % align
AllocSize(e, size, align) == AlignOffset(e.mark, align) + FullSize(size)

\* write_bytes of 0xAD or 0xEA to the words from .. to - 1
Wiped(w, from, to) == [i \in DOMAIN w |-> IF from <= i /\ i < to THEN Junk ELSE w[i]]

HasRoomFor(e, words) == EarlySize - e.mark >= words

\* alloc, for a block there is room for, and the pointer it returns
EarlyAlloc(e, size, align) ==
    LET end == e.mark + AllocSize(e, size, align)
    IN [mark |-> end,
        word |-> [Wiped(e.word, e.mark, end) EXCEPT ![end - 1] = end - e.mark]]
EarlyPtr(e, align) == e.mark + AlignOffset(e.mark, align)

EndsAtMark(e, p, size) == e.mark = p + FullSize(size)
Header(e, p, size) == e.word[p + FullSize(size) - 1]

\* free
EarlyFree(e, p, size) ==
    IF EndsAtMark(e, p, size)
    THEN [mark |-> e.mark - Header(e, p, size), word |-> Wiped(e.word, p, e.mark)]
    ELSE [e EXCEPT !.word = Wiped(@, p, p + size)]

MovedForgetsGap(e, p, old, new) ==
    [mark |-> p + FullSize(new),
     word |-> [e.word EXCEPT ![p + FullSize(new) - 1] = FullSize(new)]]

\* The end of realloc_grow and realloc_shrink: the block that ends at the mark
\* gets a new end and a header there.
Moved(e, p, old, new) ==
    [mark |-> p + FullSize(new),
     word |-> [e.word EXCEPT ![p + FullSize(new) - 1] =
                    Header(e, p, old) - FullSize(old) + FullSize(new)]]

EarlyGrow(e, p, old, new) ==
    Moved([e EXCEPT !.word = Wiped(@, p + FullSize(old), p + FullSize(new))], p, old, new)

EarlyShrink(e, p, old, new) ==
    LET w == [e EXCEPT !.word = Wiped(@, p + new, p + old)]
        m == Moved(w, p, old, new)
    IN IF EndsAtMark(e, p, old)
       THEN [m EXCEPT !.word = Wiped(@, m.mark, e.mark)] ELSE w

\* is_in_early_alloc_region
InEarlyRegionStrict(p) == 0 < p /\ p < EarlySize
InEarlyRegion(p) == 0 <= p /\ p < EarlySize
=============================================================================
