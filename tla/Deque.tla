------------------------------- MODULE Deque -------------------------------
(***************************************************************************)
(* ArrayDeque of util.rs: a double-ended queue in a ring of N slots.  A    *)
(* deque is a record of head, len and data; a slot that holds no element   *)
(* holds Uninit, which no caller may ever see.  Results are those of the   *)
(* methods that return the changed deque; push on a full deque gives the   *)
(* element back and leaves the deque alone.                                *)
(***************************************************************************)
EXTENDS Naturals, Sequences

CONSTANTS N,        \* number of slots, the const parameter of ArrayDeque
          Uninit    \* what an unused slot holds

New == [head |-> 0, len |-> 0, data |-> [i \in 0 .. N - 1 |-> Uninit]]

IsFull(d) == d.len = N

(* The slot of the i-th element, counted from 0. *)
Idx(head, i) == IF i >= N - head THEN i - (N - head) ELSE head + i

Front(d) == d.data[Idx(d.head, 0)]
Back(d) == d.data[Idx(d.head, d.len - 1)]

PushBack(d, v) ==
  IF IsFull(d) THEN d
  ELSE [head |-> d.head, len |-> d.len + 1,
        data |-> [d.data EXCEPT ![Idx(d.head, d.len)] = v]]

PushFront(d, v) ==
  IF IsFull(d) THEN d
  ELSE LET h == IF d.head = 0 THEN N - 1 ELSE d.head - 1
       IN  [head |-> h, len |-> d.len + 1, data |-> [d.data EXCEPT ![h] = v]]

PopFront(d) ==
  IF d.len = 0 THEN d
  ELSE [head |-> IF d.head = N - 1 THEN 0 ELSE d.head + 1, len |-> d.len - 1,
        data |-> [d.data EXCEPT ![d.head] = Uninit]]

PopBack(d) ==
  IF d.len = 0 THEN d
  ELSE [head |-> d.head, len |-> d.len - 1,
        data |-> [d.data EXCEPT ![Idx(d.head, d.len - 1)] = Uninit]]

(* The elements from front to back, what iter() and drain() yield. *)
Contents(d) == [i \in 1 .. d.len |-> d.data[Idx(d.head, i - 1)]]
=============================================================================
