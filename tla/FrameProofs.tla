---------------------------- MODULE FrameProofs ----------------------------
(***************************************************************************)
(* The frame allocator's stack in free memory, proved for any number of    *)
(* frames, callers and slots per page.                                     *)
(***************************************************************************)
EXTENDS FrameAlloc, SequenceTheorems, FiniteSetTheorems, TLAPS

USE FrameAssumption

\* An alloc_many under way has the lock.
ManyLocked == \A c \in Callers : many[c] > 0 => lock = c

\* The inductive invariant.  FreeXorInUse is what makes the pages safe from
\* the users of frames; ManyLocked is what makes alloc_many's check last.
IInv ==
    /\ TypeOK
    /\ NoFailure
    /\ StackInPages
    /\ FreeXorInUse
    /\ ManyLocked
    /\ ManyCovered

-----------------------------------------------------------------------------
(* Arithmetic                                                              *)

LEMMA ModRange ==
    ASSUME NEW n \in Nat
    PROVE  n % P \in 0 .. P - 1 /\ n % P \in Nat
OBVIOUS

LEMMA ModOfSum ==
    ASSUME NEW q \in Int, NEW r \in 0 .. P - 1
    PROVE  (P * q + r) % P = r
BY SMT

\* Counting up by one moves to the next slot, or to slot 0 of the next page.
LEMMA ModNext ==
    ASSUME NEW n \in Nat
    PROVE  (n + 1) % P = IF n % P = P - 1 THEN 0 ELSE (n % P) + 1
<1> DEFINE q == n \div P
           r == n % P
<1>1. q \in Int /\ r \in 0 .. P - 1 /\ n = P * q + r
  BY SMT
<1> HIDE DEF q
<1>2. CASE r = P - 1
  <2>1. n + 1 = P * (q + 1) + 0 /\ q + 1 \in Int
    BY <1>1, <1>2
  <2>2. (P * (q + 1) + 0) % P = 0
    BY <2>1, ModOfSum
  <2> QED BY <2>1, <2>2, <1>2
<1>3. CASE r # P - 1
  <2> DEFINE s == r + 1
  <2>1. s \in 0 .. P - 1 /\ n + 1 = P * q + s
    BY <1>1, <1>3
  <2> HIDE DEF s
  <2>2. (P * q + s) % P = s
    BY <2>1, <1>1, ModOfSum
  <2>3. (n + 1) % P = s
    BY <2>1, <2>2
  <2> QED BY <2>3, <1>3 DEF s
<1> QED BY <1>2, <1>3

\* The slot of the next entry, and the bases of groups.
LEMMA Bases ==
    ASSUME NEW k \in Nat, k > 0
    PROVE  /\ SlotIn(k) \in 0 .. P - 1 /\ SlotIn(k) \in PageSlots /\ SlotIn(k) \in Nat
           /\ Base(k) \in 1 .. k /\ Base(k) = k - SlotIn(k)
           /\ SlotIn(k + 1) = IF SlotIn(k) = P - 1 THEN 0 ELSE SlotIn(k) + 1
           /\ Base(k + 1) = (k + 1) - SlotIn(k + 1)
<1> DEFINE m == k - 1
<1>1. m \in Nat /\ SlotIn(k) = m % P /\ SlotIn(k + 1) = (m + 1) % P
  <2>1. (k + 1) - 1 = m + 1 /\ m \in Nat
    OBVIOUS
  <2> QED BY <2>1 DEF SlotIn
<1>2. k = m + 1
  OBVIOUS
<1> HIDE DEF m
<1>3. m % P \in 0 .. P - 1 /\ m % P <= m
  BY <1>1
<1>4. (m + 1) % P = IF m % P = P - 1 THEN 0 ELSE (m % P) + 1
  BY <1>1, ModNext
<1> QED BY <1>1, <1>2, <1>3, <1>4 DEF Base, PageSlots

\* frames_on_top_stack_frame is one more than the slot of the last frame.
LEMMA TopCounts ==
    ASSUME num \in Nat, num > 0
    PROVE  TopCount = SlotIn(num) + 1
<1> DEFINE m == num - 1
<1>1. m \in Nat /\ num = m + 1 /\ SlotIn(num) = m % P
  BY DEF SlotIn
<1> HIDE DEF m
<1>2. m % P \in 0 .. P - 1
  BY <1>1
<1>3. num % P = IF m % P = P - 1 THEN 0 ELSE (m % P) + 1
  BY <1>1, ModNext
<1> QED BY <1>1, <1>2, <1>3 DEF TopCount

-----------------------------------------------------------------------------
(* free_one                                                                *)

\* A frame given back is pushed: into the top page, or as a page of its own.
LEMMA FreeOneKeeps ==
    ASSUME TypeOK, NoFailure, StackInPages, FreeXorInUse,
           NEW f \in inUse, FreeOne(f)
    PROVE  /\ num' = num + 1 /\ failed' = failed
           /\ num' \in Nat /\ top' \in Frames \cup {Nil}
           /\ mem' \in [Frames -> [PageSlots -> Frames \cup {Nil, Garbage}]]
           /\ inUse' \subseteq Frames /\ stack' \in Seq(Frames)
           /\ StackInPages' /\ FreeXorInUse'
<1> DEFINE n == Len(stack)
<1>1. /\ f \in Frames /\ num = n /\ n \in Nat /\ stack \in Seq(Frames)
      /\ mem \in [Frames -> [PageSlots -> Frames \cup {Nil, Garbage}]]
      /\ inUse \subseteq Frames /\ 0 \in PageSlots /\ n = Len(stack)
  BY DEF TypeOK, StackInPages, PageSlots
<1> HIDE DEF n
<1>2. /\ stack' = Append(stack, f) /\ inUse' = inUse \ {f} /\ num' = n + 1
      /\ failed' = failed
  BY <1>1 DEF FreeOne
<1>3. /\ stack' \in Seq(Frames) /\ Len(stack') = n + 1 /\ stack'[n + 1] = f
      /\ \A k \in 1 .. n : stack'[k] = stack[k] /\ stack[k] \in Frames /\ stack[k] # f
  <2>1. \A k \in 1 .. n : stack[k] \in Frames /\ stack[k] # f
    BY <1>1 DEF FreeXorInUse
  <2> QED BY <1>1, <1>2, <2>1
<1>4. FreeXorInUse'
  <2>1. \A k \in 1 .. Len(stack') : stack'[k] \notin inUse'
    BY <1>1, <1>2, <1>3 DEF FreeXorInUse
  <2>2. \A j, k \in 1 .. Len(stack') : stack'[j] = stack'[k] => j = k
    BY <1>1, <1>3 DEF FreeXorInUse
  <2>3. \A g \in Frames : g \in inUse' \/ \E k \in 1 .. Len(stack') : stack'[k] = g
    <3> SUFFICES ASSUME NEW g \in Frames, g \notin inUse'
                 PROVE  \E k \in 1 .. Len(stack') : stack'[k] = g
      OBVIOUS
    <3>1. CASE g = f
      BY <3>1, <1>1, <1>3
    <3>2. CASE g # f
      <4>1. g \notin inUse
        BY <3>2, <1>2
      <4>2. PICK k \in 1 .. n : stack[k] = g
        BY <4>1, <1>1 DEF FreeXorInUse
      <4>3. k \in 1 .. Len(stack') /\ stack'[k] = g
        BY <4>2, <1>1, <1>3
      <4> QED BY <4>3
    <3> QED BY <3>1, <3>2
  <2> QED BY <2>1, <2>2, <2>3 DEF FreeXorInUse
<1>5. \A k \in 1 .. n : Base(k) \in 1 .. n /\ Base(k) \in 1 .. k
  <2> SUFFICES ASSUME NEW k \in 1 .. n PROVE Base(k) \in 1 .. n /\ Base(k) \in 1 .. k
    OBVIOUS
  <2>1. k \in Nat /\ k > 0 /\ k <= n
    BY <1>1
  <2>2. Base(k) \in 1 .. k
    BY <2>1, Bases
  <2> QED BY <2>1, <2>2, <1>1
\* What is written for entry k; unchanged if its page was not written to.
<1> DEFINE Entry(k) == IF k = Base(k)
                       THEN mem'[stack'[k]][0] = IF k = 1 THEN Nil ELSE stack'[k - P]
                       ELSE mem'[stack'[Base(k)]][SlotIn(k)] = stack'[k]
           Untouched(k) == IF k = Base(k)
                           THEN mem'[stack[k]][0] = mem[stack[k]][0]
                           ELSE mem'[stack[Base(k)]][SlotIn(k)] = mem[stack[Base(k)]][SlotIn(k)]
<1>6. ASSUME \A k \in 1 .. n : Untouched(k)
      PROVE  \A k \in 1 .. n : Entry(k)
  <2> SUFFICES ASSUME NEW k \in 1 .. n PROVE Entry(k)
    OBVIOUS
  <2>1. stack'[k] = stack[k] /\ stack'[Base(k)] = stack[Base(k)]
    BY <1>3, <1>5
  <2>2. k = Base(k) /\ k # 1 => stack'[k - P] = stack[k - P]
    <3> SUFFICES ASSUME k = Base(k), k # 1 PROVE k - P \in 1 .. n
      BY <1>3
    <3> DEFINE j == k - 1
    <3>1. j \in Nat /\ j > 0 /\ j + 1 = k
      BY <1>1
    <3> HIDE DEF j
    <3>2. /\ Base(j) \in 1 .. j /\ Base(j) = j - SlotIn(j) /\ SlotIn(j) \in Nat
          /\ SlotIn(k) = IF SlotIn(j) = P - 1 THEN 0 ELSE SlotIn(j) + 1
          /\ Base(k) = k - SlotIn(k)
      BY <3>1, Bases
    <3> QED BY <3>1, <3>2, <1>1
  <2>3. IF k = Base(k) THEN mem[stack[k]][0] = IF k = 1 THEN Nil ELSE stack[k - P]
        ELSE mem[stack[Base(k)]][SlotIn(k)] = stack[k]
    BY <1>1 DEF StackInPages
  <2> QED BY <1>6, <2>1, <2>2, <2>3
<1>10. ASSUME \A k \in 1 .. n : Entry(k), Entry(n + 1), top' = stack'[Base(n + 1)]
       PROVE  StackInPages'
  <2>1. \A k \in 1 .. n + 1 : k \in 1 .. n \/ k = n + 1
    BY <1>1
  <2> HIDE DEF Entry
  <2>2. \A k \in 1 .. n + 1 : Entry(k)
    BY <2>1, <1>10
  <2>3. num' # 0
    BY <1>1, <1>2
  <2> QED BY <2>2, <2>3, <1>2, <1>3, <1>10 DEF StackInPages, Entry
<1>7. CASE n = 0
  <2>1. top' = f /\ mem' = [mem EXCEPT ![f][0] = Nil]
    BY <1>1, <1>7 DEF FreeOne
  <2>2. Base(1) = 1
    BY Bases
  <2>3. mem' \in [Frames -> [PageSlots -> Frames \cup {Nil, Garbage}]] /\ mem'[f][0] = Nil
    BY <1>1, <2>1
  <2>4. StackInPages'
    BY <1>2, <1>3, <1>7, <2>1, <2>2, <2>3 DEF StackInPages
  <2> QED BY <1>1, <1>2, <1>3, <1>4, <2>1, <2>3, <2>4
<1>8. CASE n > 0 /\ TopCount = P
  <2>0. /\ SlotIn(n) \in Nat /\ Base(n) \in 1 .. n /\ Base(n) = n - SlotIn(n)
        /\ SlotIn(n + 1) = IF SlotIn(n) = P - 1 THEN 0 ELSE SlotIn(n) + 1
        /\ Base(n + 1) = (n + 1) - SlotIn(n + 1) /\ TopCount = SlotIn(n) + 1
    BY <1>1, <1>8, Bases, TopCounts
  <2>1. SlotIn(n) = P - 1 /\ SlotIn(n + 1) = 0
    BY <2>0, <1>8
  <2>2. /\ top' = f /\ mem' = [mem EXCEPT ![f][0] = top]
        /\ top = stack[Base(n)]
    BY <1>1, <1>8 DEF FreeOne, StackInPages
  <2>3. Base(n) = n + 1 - P /\ Base(n + 1) = n + 1 /\ Base(n) \in 1 .. n
    BY <1>1, <2>0, <2>1
  <2>4. top \in Frames
    BY <1>3, <2>2, <2>3
  <2>5. /\ mem' \in [Frames -> [PageSlots -> Frames \cup {Nil, Garbage}]] /\ mem'[f][0] = top
        /\ \A g \in Frames : g # f => mem'[g] = mem[g]
    BY <1>1, <2>2, <2>4
  <2>6. \A k \in 1 .. n : Entry(k)
    BY <1>3, <1>5, <1>6, <2>5
  <2>7. Entry(n + 1)
    BY <1>1, <1>3, <1>8, <2>2, <2>3, <2>5
  <2>8. StackInPages'
    BY <1>1, <1>2, <1>10, <2>2, <2>3, <2>6, <2>7, <1>3
  <2> QED BY <1>1, <1>2, <1>3, <1>4, <2>2, <2>5, <2>8
<1>9. CASE n > 0 /\ TopCount # P
  <2>0. /\ SlotIn(n) \in 0 .. P - 1 /\ Base(n) \in 1 .. n /\ Base(n) = n - SlotIn(n)
        /\ SlotIn(n + 1) = IF SlotIn(n) = P - 1 THEN 0 ELSE SlotIn(n) + 1
        /\ Base(n + 1) = (n + 1) - SlotIn(n + 1) /\ TopCount = SlotIn(n) + 1
    BY <1>1, <1>9, Bases, TopCounts
  <2>1. /\ SlotIn(n) # P - 1 /\ SlotIn(n + 1) = SlotIn(n) + 1 /\ TopCount = SlotIn(n + 1)
        /\ SlotIn(n + 1) \in PageSlots /\ SlotIn(n + 1) # 0
        /\ Base(n) \in 1 .. n /\ Base(n) = n - SlotIn(n) /\ SlotIn(n) \in Nat
        /\ Base(n + 1) = Base(n) /\ Base(n + 1) # n + 1
    BY <1>1, <1>9, <2>0 DEF PageSlots
  <2>2. /\ top' = top /\ mem' = [mem EXCEPT ![top][SlotIn(n + 1)] = f]
        /\ top = stack[Base(n)]
    <3>1. num # 0 /\ num = n /\ TopCount # P /\ TopCount = SlotIn(n + 1)
      BY <1>1, <1>9, <2>1
    <3>2. top' = top /\ mem' = [mem EXCEPT ![top][TopCount] = f]
      BY <3>1 DEF FreeOne
    <3>3. top = stack[Base(n)]
      BY <3>1 DEF StackInPages
    <3> QED BY <3>1, <3>2, <3>3
  <2>3. top \in Frames
    BY <1>3, <2>1, <2>2
  <2>4. /\ mem' \in [Frames -> [PageSlots -> Frames \cup {Nil, Garbage}]]
        /\ mem'[top][SlotIn(n + 1)] = f
        /\ \A g \in Frames, i \in PageSlots : g # top \/ i # SlotIn(n + 1) => mem'[g][i] = mem[g][i]
    BY <1>1, <2>1, <2>2, <2>3
  <2>5. \A k \in 1 .. n : Untouched(k)
    <3> SUFFICES ASSUME NEW k \in 1 .. n PROVE Untouched(k)
      OBVIOUS
    <3>1. stack[k] \in Frames /\ stack[Base(k)] \in Frames /\ Base(k) \in 1 .. n
      BY <1>3, <1>5
    <3>2. SlotIn(k) \in PageSlots /\ Base(k) = k - SlotIn(k) /\ SlotIn(k) \in Nat
      <4>1. k \in Nat /\ k > 0
        BY <1>1
      <4> QED BY <4>1, Bases
    <3>3. stack[Base(k)] = top => Base(k) = Base(n)
      BY <1>1, <2>1, <2>2, <3>1 DEF FreeXorInUse
    <3>4. Base(k) = Base(n) => SlotIn(k) # SlotIn(n + 1)
      BY <1>1, <2>1, <3>2
    <3>5. CASE k = Base(k)
      BY <3>5, <3>1, <1>1, <2>1, <2>4
    <3>6. CASE k # Base(k)
      BY <3>6, <3>1, <3>2, <3>3, <3>4, <2>4
    <3> QED BY <3>5, <3>6
  <2>6. \A k \in 1 .. n : Entry(k)
    BY <1>6, <2>5
  <2>7. Entry(n + 1) /\ top' = stack'[Base(n + 1)]
    <3>1. stack'[Base(n + 1)] = top
      BY <1>1, <1>3, <2>1, <2>2
    <3> QED BY <3>1, <1>3, <2>1, <2>2, <2>4
  <2>8. StackInPages'
    BY <1>1, <1>2, <1>10, <2>6, <2>7
  <2> QED BY <1>1, <1>2, <1>3, <1>4, <2>2, <2>3, <2>4, <2>8
<1> QED BY <1>1, <1>7, <1>8, <1>9

-----------------------------------------------------------------------------
(* alloc_one                                                               *)

\* What alloc_one reads in the top page is the last free frame.
LEMMA PoppedIsLast ==
    ASSUME TypeOK, StackInPages, FreeXorInUse, num # 0
    PROVE  /\ num \in Nat /\ num > 0 /\ num = Len(stack)
           /\ Popped = stack[num] /\ Popped \in Frames /\ Popped \notin inUse
           /\ TopAfter = IF num = 1 THEN Nil ELSE stack[Base(num - 1)]
<1>1. /\ num \in Nat /\ num > 0 /\ num = Len(stack) /\ stack \in Seq(Frames)
      /\ top = stack[Base(num)] /\ num \in 1 .. Len(stack)
  BY DEF TypeOK, StackInPages
<1>2. /\ SlotIn(num) \in Nat /\ Base(num) \in 1 .. num /\ Base(num) = num - SlotIn(num)
      /\ TopCount = SlotIn(num) + 1
  BY <1>1, Bases, TopCounts
<1>3. TopCount = 1 <=> num = Base(num)
  BY <1>1, <1>2
<1>4. /\ num = Base(num) => mem[top][0] = IF num = 1 THEN Nil ELSE stack[num - P]
      /\ num # Base(num) => mem[top][SlotIn(num)] = stack[num]
  BY <1>1 DEF StackInPages
<1>5. Popped = stack[num]
  <2>1. TopCount - 1 = SlotIn(num)
    BY <1>2
  <2> QED BY <2>1, <1>1, <1>3, <1>4 DEF Popped
<1>6. stack[num] \in Frames /\ stack[num] \notin inUse
  BY <1>1 DEF FreeXorInUse
<1>7. TopAfter = IF num = 1 THEN Nil ELSE stack[Base(num - 1)]
  <2>1. CASE num = 1
    <3>1. num = Base(num)
      BY <1>2, <2>1
    <3> QED BY <3>1, <2>1, <1>3 DEF TopAfter
  <2>2. CASE num # 1
    <3> DEFINE j == num - 1
    <3>1. j \in Nat /\ j > 0 /\ j + 1 = num
      BY <1>1, <2>2
    <3> HIDE DEF j
    <3>2. /\ Base(j) = j - SlotIn(j) /\ SlotIn(j) \in Nat
          /\ SlotIn(num) = IF SlotIn(j) = P - 1 THEN 0 ELSE SlotIn(j) + 1
      BY <3>1, Bases
    <3>3. CASE num = Base(num)
      <4>1. Base(j) = num - P
        BY <3>1, <3>2, <3>3, <1>1, <1>2
      <4> QED BY <4>1, <3>3, <2>2, <1>3, <1>4 DEF TopAfter, j
    <3>4. CASE num # Base(num)
      <4>1. Base(j) = Base(num)
        BY <3>1, <3>2, <3>4, <1>1, <1>2
      <4> QED BY <4>1, <3>4, <2>2, <1>1, <1>3 DEF TopAfter, j
    <3> QED BY <3>3, <3>4
  <2> QED BY <2>1, <2>2
<1> QED BY <1>1, <1>5, <1>6, <1>7

\* Taking it leaves the pages of the others alone.
LEMMA PopKeeps ==
    ASSUME TypeOK, NoFailure, StackInPages, FreeXorInUse, Pop
    PROVE  /\ num' = num - 1 /\ failed' = FALSE
           /\ num' \in Nat /\ top' \in Frames \cup {Nil}
           /\ mem' \in [Frames -> [PageSlots -> Frames \cup {Nil, Garbage}]]
           /\ inUse' \subseteq Frames /\ stack' \in Seq(Frames)
           /\ StackInPages' /\ FreeXorInUse'
<1> DEFINE n == Len(stack)
           last == stack[n]
<1>1. /\ num \in Nat /\ num > 0 /\ num = n /\ n \in Nat /\ n = Len(stack)
      /\ Popped = last /\ last \in Frames /\ last \notin inUse /\ last = stack[n]
      /\ TopAfter = IF n = 1 THEN Nil ELSE stack[Base(n - 1)]
      /\ stack \in Seq(Frames) /\ inUse \subseteq Frames /\ failed = FALSE
      /\ mem \in [Frames -> [PageSlots -> Frames \cup {Nil, Garbage}]]
  BY PoppedIsLast DEF Pop, TypeOK, NoFailure
<1> HIDE DEF n, last
<1>2. /\ failed' = FALSE /\ inUse' = inUse \cup {last} /\ num' = n - 1
      /\ mem' = [f \in Frames |-> IF f = last THEN [s \in PageSlots |-> Garbage] ELSE mem[f]]
      /\ top' = TopAfter /\ stack' = SubSeq(stack, 1, n - 1)
  BY <1>1 DEF Pop
<1>3. /\ stack' \in Seq(Frames) /\ Len(stack') = n - 1
      /\ \A k \in 1 .. n - 1 : stack'[k] = stack[k]
  BY <1>1, <1>2, SubSeqProperties
<1>4. \A k \in 1 .. n - 1 : stack[k] \in Frames /\ stack[k] # last /\ stack[k] \notin inUse
  BY <1>1 DEF FreeXorInUse
<1>5. \A k \in 1 .. n - 1 : Base(k) \in 1 .. n - 1
  <2> SUFFICES ASSUME NEW k \in 1 .. n - 1 PROVE Base(k) \in 1 .. n - 1
    OBVIOUS
  <2>1. k \in Nat /\ k > 0 /\ k <= n - 1
    BY <1>1
  <2>2. Base(k) \in 1 .. k
    BY <2>1, Bases
  <2> QED BY <2>1, <2>2, <1>1
<1>6. mem' \in [Frames -> [PageSlots -> Frames \cup {Nil, Garbage}]]
  BY <1>1, <1>2
<1>7. n # 1 => top' = stack'[Base(n - 1)] /\ top' \in Frames
  <2> SUFFICES ASSUME n # 1 PROVE top' = stack'[Base(n - 1)] /\ top' \in Frames
    OBVIOUS
  <2>1. n - 1 \in 1 .. n - 1
    BY <1>1
  <2>2. Base(n - 1) \in 1 .. n - 1
    BY <2>1, <1>5
  <2> QED BY <2>2, <1>1, <1>2, <1>3, <1>4
<1>8. FreeXorInUse'
  <2>1. \A k \in 1 .. Len(stack') : stack'[k] \notin inUse'
    BY <1>2, <1>3, <1>4
  <2>2. \A j, k \in 1 .. Len(stack') : stack'[j] = stack'[k] => j = k
    <3> SUFFICES ASSUME NEW j \in 1 .. n - 1, NEW k \in 1 .. n - 1, stack'[j] = stack'[k]
                 PROVE  j = k
      BY <1>3
    <3>1. stack[j] = stack[k] /\ j \in 1 .. Len(stack) /\ k \in 1 .. Len(stack)
      BY <1>1, <1>3
    <3> QED BY <3>1 DEF FreeXorInUse
  <2>3. \A f \in Frames : f \in inUse' \/ \E k \in 1 .. Len(stack') : stack'[k] = f
    <3> SUFFICES ASSUME NEW f \in Frames, f \notin inUse'
                 PROVE  \E k \in 1 .. Len(stack') : stack'[k] = f
      OBVIOUS
    <3>1. f \notin inUse /\ f # last
      BY <1>2
    <3>2. PICK k \in 1 .. n : stack[k] = f
      BY <3>1, <1>1 DEF FreeXorInUse
    <3>3. k \in 1 .. n - 1
      BY <3>1, <3>2, <1>1
    <3> QED BY <3>2, <3>3, <1>3
  <2> QED BY <2>1, <2>2, <2>3 DEF FreeXorInUse
<1>9. \A k \in 1 .. n - 1 :
        IF k = Base(k) THEN mem'[stack'[k]][0] = IF k = 1 THEN Nil ELSE stack'[k - P]
        ELSE mem'[stack'[Base(k)]][SlotIn(k)] = stack'[k]
  <2> SUFFICES ASSUME NEW k \in 1 .. n - 1
               PROVE  IF k = Base(k)
                      THEN mem'[stack'[k]][0] = IF k = 1 THEN Nil ELSE stack'[k - P]
                      ELSE mem'[stack'[Base(k)]][SlotIn(k)] = stack'[k]
    OBVIOUS
  <2>1. /\ stack'[k] = stack[k] /\ stack'[Base(k)] = stack[Base(k)]
        /\ mem'[stack[k]] = mem[stack[k]] /\ mem'[stack[Base(k)]] = mem[stack[Base(k)]]
    BY <1>2, <1>3, <1>4, <1>5
  <2>2. k = Base(k) /\ k # 1 => stack'[k - P] = stack[k - P]
    <3> SUFFICES ASSUME k = Base(k), k # 1 PROVE k - P \in 1 .. n - 1
      BY <1>3
    <3> DEFINE j == k - 1
    <3>1. j \in Nat /\ j > 0 /\ j + 1 = k /\ j < n - 1
      BY <1>1
    <3> HIDE DEF j
    <3>2. /\ Base(j) \in 1 .. j /\ Base(j) = j - SlotIn(j) /\ SlotIn(j) \in Nat
          /\ SlotIn(k) = IF SlotIn(j) = P - 1 THEN 0 ELSE SlotIn(j) + 1
          /\ Base(k) = k - SlotIn(k)
      BY <3>1, Bases
    <3> QED BY <3>1, <3>2, <1>1
  <2>3. IF k = Base(k) THEN mem[stack[k]][0] = IF k = 1 THEN Nil ELSE stack[k - P]
        ELSE mem[stack[Base(k)]][SlotIn(k)] = stack[k]
    <3>1. k \in 1 .. Len(stack)
      BY <1>1
    <3> QED BY <3>1 DEF StackInPages
  <2> QED BY <2>1, <2>2, <2>3
<1>10. StackInPages'
  <2>1. top' = IF num' = 0 THEN Nil ELSE stack'[Base(num')]
    <3>1. CASE n = 1
      BY <3>1, <1>1, <1>2
    <3>2. CASE n # 1
      <4>1. num' # 0
        BY <3>2, <1>1, <1>2
      <4> QED BY <4>1, <3>2, <1>2, <1>7
    <3> QED BY <3>1, <3>2
  <2> QED BY <2>1, <1>2, <1>3, <1>9 DEF StackInPages
<1>11. top' \in Frames \cup {Nil}
  BY <1>1, <1>2, <1>7
<1>12. num' \in Nat /\ num' = num - 1
  BY <1>1, <1>2
<1> QED BY <1>1, <1>2, <1>3, <1>6, <1>8, <1>10, <1>11, <1>12

-----------------------------------------------------------------------------
(* The theorems                                                            *)

\* Every operation keeps the free frames exactly in the pages.
LEMMA Inductive == IInv /\ [FrameNext]_frameVars => IInv'
<1> SUFFICES ASSUME IInv, [FrameNext]_frameVars PROVE IInv'
  OBVIOUS
<1> USE DEF IInv
<1>1. ASSUME NEW c \in Callers, NEW f \in Frames, Free(c, f)
      PROVE  IInv'
  <2>1. f \in inUse /\ FreeOne(f) /\ lock = Nil /\ lock' = lock /\ many' = many
    BY <1>1 DEF Free, Locked
  <2>2. /\ num' = num + 1 /\ failed' = failed
        /\ num' \in Nat /\ top' \in Frames \cup {Nil}
        /\ mem' \in [Frames -> [PageSlots -> Frames \cup {Nil, Garbage}]]
        /\ inUse' \subseteq Frames /\ stack' \in Seq(Frames)
        /\ StackInPages' /\ FreeXorInUse'
    BY <2>1, FreeOneKeeps
  <2>3. TypeOK' /\ NoFailure'
    BY <2>1, <2>2 DEF TypeOK, NoFailure
  <2>4. ManyLocked'
    BY <2>1 DEF ManyLocked
  <2>5. ManyCovered'
    BY <2>1, <2>2 DEF TypeOK, ManyCovered
  <2> QED BY <2>2, <2>3, <2>4, <2>5
<1>2. ASSUME NEW c \in Callers, AllocOne(c)
      PROVE  IInv'
  <2>1. Pop /\ lock = Nil /\ lock' = lock /\ many' = many
    BY <1>2 DEF AllocOne, Locked
  <2>2. /\ num' = num - 1 /\ failed' = FALSE
        /\ num' \in Nat /\ top' \in Frames \cup {Nil}
        /\ mem' \in [Frames -> [PageSlots -> Frames \cup {Nil, Garbage}]]
        /\ inUse' \subseteq Frames /\ stack' \in Seq(Frames)
        /\ StackInPages' /\ FreeXorInUse'
    BY <2>1, PopKeeps
  <2>3. TypeOK' /\ NoFailure'
    BY <2>1, <2>2 DEF TypeOK, NoFailure
  <2>4. ManyLocked'
    BY <2>1 DEF ManyLocked
  <2>5. \A d \in Callers : many[d] = 0
    BY <2>1 DEF ManyLocked, TypeOK
  <2>6. ManyCovered'
    BY <2>1, <2>2, <2>5 DEF ManyCovered
  <2> QED BY <2>2, <2>3, <2>4, <2>6
<1>3. ASSUME NEW c \in Callers, NEW n \in 1 .. Cardinality(Frames), AllocMany(c, n)
      PROVE  IInv'
  <2>1. /\ lock = Nil /\ lock' = c /\ many' = [many EXCEPT ![c] = n] /\ ~(num < n)
        /\ UNCHANGED <<num, top, mem, stack, inUse, failed>>
    BY <1>3 DEF AllocMany, Enough, allocVars
  <2>2. n \in Nat
    BY FS_CardinalityType
  <2>3. \A d \in Callers : many[d] = 0
    BY <2>1 DEF ManyLocked, TypeOK
  <2>4. TypeOK' /\ NoFailure'
    BY <2>1, <2>2 DEF TypeOK, NoFailure
  <2>5. StackInPages' /\ FreeXorInUse'
    BY <2>1 DEF StackInPages, FreeXorInUse
  <2>6. ManyLocked' /\ ManyCovered'
    BY <2>1, <2>2, <2>3 DEF ManyLocked, ManyCovered, TypeOK
  <2> QED BY <2>4, <2>5, <2>6
<1>4. ASSUME NEW c \in Callers, AllocManyStep(c)
      PROVE  IInv'
  <2>1. /\ many[c] > 0 /\ many[c] \in Nat /\ lock = c /\ many[c] <= num
        /\ many' = [many EXCEPT ![c] = many[c] - 1]
        /\ lock' = IF many[c] = 1 THEN Nil ELSE c
    BY <1>4 DEF AllocManyStep, ManyLocked, ManyCovered, TypeOK
  <2>2. num # 0
    BY <2>1
  <2>3. Pop
    BY <1>4, <2>2 DEF AllocManyStep
  <2>4. /\ num' = num - 1 /\ failed' = FALSE
        /\ num' \in Nat /\ top' \in Frames \cup {Nil}
        /\ mem' \in [Frames -> [PageSlots -> Frames \cup {Nil, Garbage}]]
        /\ inUse' \subseteq Frames /\ stack' \in Seq(Frames)
        /\ StackInPages' /\ FreeXorInUse'
    BY <2>3, PopKeeps
  <2>5. \A d \in Callers : d # c => many[d] = 0
    BY <2>1 DEF ManyLocked, TypeOK
  <2>6. many' \in [Callers -> Nat]
    BY <2>1 DEF TypeOK
  <2>7. TypeOK' /\ NoFailure'
    BY <2>1, <2>4, <2>6 DEF TypeOK, NoFailure
  <2>8. ManyLocked' /\ ManyCovered'
    BY <2>1, <2>4, <2>5 DEF ManyLocked, ManyCovered, TypeOK
  <2> QED BY <2>4, <2>7, <2>8
<1>5. CASE UNCHANGED frameVars
  BY <1>5 DEF frameVars, allocVars, TypeOK, NoFailure, StackInPages, FreeXorInUse, ManyLocked, ManyCovered
<1> QED BY <1>1, <1>2, <1>3, <1>4, <1>5 DEF FrameNext

\* The invariant holds in every state of the allocator.
LEMMA Invariant == FrameSpec => []IInv
<1>1. FrameInit => IInv
  <2> SUFFICES ASSUME FrameInit PROVE IInv
    OBVIOUS
  <2> USE DEF FrameInit
  <2>1. stack = <<>> /\ Len(stack) = 0 /\ stack \in Seq(Frames)
    OBVIOUS
  <2>2. TypeOK /\ NoFailure
    BY <2>1 DEF TypeOK, NoFailure
  <2>3. StackInPages /\ FreeXorInUse
    BY <2>1 DEF StackInPages, FreeXorInUse
  <2>4. ManyLocked /\ ManyCovered
    BY DEF ManyLocked, ManyCovered
  <2> QED BY <2>2, <2>3, <2>4 DEF IInv
<1> QED BY <1>1, Inductive, PTL DEF FrameSpec

\* The stack pages that free_one and alloc_one write in free memory hold
\* exactly the free frames, for any number of frames and slots per page.
THEOREM PagesExact == FrameSpec => []StackInPages
<1>1. IInv => StackInPages
  BY DEF IInv
<1> QED BY <1>1, Invariant, PTL

\* No frame is ever both free and in use, or twice on the stack.
THEOREM NoFrameTwice == FrameSpec => []FreeXorInUse
<1>1. IInv => FreeXorInUse
  BY DEF IInv
<1> QED BY <1>1, Invariant, PTL

\* alloc_one never hands out a frame that is in use, and the unwrap in
\* alloc_many never panics, whatever other callers do meanwhile.
THEOREM AllocatorSound == FrameSpec => []NoFailure
<1>1. IInv => NoFailure
  BY DEF IInv
<1> QED BY <1>1, Invariant, PTL

\* The three together: what the page allocator above relies on.
THEOREM FreeListSound == FrameSpec => []FramesSound
<1>1. IInv => FramesSound
  BY DEF IInv, FramesSound
<1> QED BY <1>1, Invariant, PTL

-----------------------------------------------------------------------------
(* The allocator is a pool of frames                                       *)

\* The number available is the number of free frames: the stack counts them.
LEMMA NumIsFree ==
    ASSUME IInv
    PROVE  num = Cardinality(Frames \ inUse)
<1> DEFINE n == Len(stack)
           F == Frames \ inUse
<1>1. /\ stack \in Seq(Frames) /\ n \in Nat /\ num = n
      /\ stack \in [1 .. n -> Frames]
  BY DEF IInv, TypeOK, StackInPages
<1>2. stack \in [1 .. n -> F]
  BY <1>1 DEF IInv, FreeXorInUse
<1>3. \A f \in F : \E k \in 1 .. n : stack[k] = f
  BY DEF IInv, FreeXorInUse
<1>4. \A j, k \in 1 .. n : stack[j] = stack[k] => j = k
  BY DEF IInv, FreeXorInUse
<1> HIDE DEF F, n
<1>5. stack \in Bijection(1 .. n, F)
  BY <1>2, <1>3, <1>4, Zenon DEF Bijection, Injection, Surjection, IsInjective
<1>6. ExistsBijection(1 .. n, F)
  BY <1>5 DEF ExistsBijection
<1>7. Cardinality(F) = n
  BY <1>1, <1>6, FS_CountingElements
<1> QED BY <1>1, <1>7 DEF F

\* Handing out a frame takes one from the pool.
LEMMA PopTakes ==
    ASSUME IInv, Pop
    PROVE  \E f \in Frames \ inUse :
                /\ Frames \ inUse' = (Frames \ inUse) \ {f}
                /\ inUse' = inUse \cup {f}
<1>1. Popped \in Frames /\ Popped \notin inUse
  BY PoppedIsLast DEF IInv, Pop
<1>2. inUse' = inUse \cup {Popped}
  BY DEF Pop
<1> QED BY <1>1, <1>2

\* Every step of the allocator is a step of the pool or changes nothing of it.
LEMMA StepSimulates == IInv /\ [FrameNext]_frameVars => [Pool!Next]_(Pool!poolVars)
<1> SUFFICES ASSUME IInv, [FrameNext]_frameVars PROVE Pool!Next \/ UNCHANGED Pool!poolVars
  OBVIOUS
<1>1. ASSUME NEW c \in Callers, NEW f \in Frames, Free(c, f)
      PROVE  Pool!Next
  <2>1. f \in inUse /\ inUse' = inUse \ {f} /\ many' = many
    BY <1>1 DEF Free, FreeOne, Locked
  <2>2. Frames \ inUse' = (Frames \ inUse) \cup {f}
    BY <2>1
  <2>3. Pool!Free(f)
    BY <2>1, <2>2 DEF Pool!Free
  <2> QED BY <2>3 DEF Pool!Next
<1>2. ASSUME NEW c \in Callers, AllocOne(c)
      PROVE  Pool!Next
  <2>1. Pop /\ many' = many
    BY <1>2 DEF AllocOne, Locked
  <2>2. Pool!AllocOne
    BY <2>1, PopTakes DEF Pool!AllocOne, Pool!Take
  <2> QED BY <2>2 DEF Pool!Next
<1>3. ASSUME NEW c \in Callers, NEW n \in 1 .. Cardinality(Frames), AllocMany(c, n)
      PROVE  Pool!Next
  <2>1. many' = [many EXCEPT ![c] = n] /\ ~(num < n) /\ inUse' = inUse
    BY <1>3 DEF AllocMany, Enough
  <2>2. num \in Nat /\ n \in Nat /\ num = Cardinality(Frames \ inUse)
    BY NumIsFree, FS_CardinalityType DEF IInv, TypeOK
  <2>3. n <= Cardinality(Frames \ inUse)
    BY <2>1, <2>2
  <2>4. Pool!Promise(c, n)
    BY <2>1, <2>3 DEF Pool!Promise, Pool!Cardinality, Cardinality
  <2>5. n \in 1 .. Pool!Cardinality(Frames)
    BY DEF Pool!Cardinality, Cardinality
  <2> QED BY <2>4, <2>5 DEF Pool!Next
<1>4. ASSUME NEW c \in Callers, AllocManyStep(c)
      PROVE  Pool!Next
  <2>1. many[c] > 0 /\ many' = [many EXCEPT ![c] = many[c] - 1]
    BY <1>4 DEF AllocManyStep
  <2>2. many[c] \in Nat /\ num \in Nat /\ many[c] <= num
    BY DEF IInv, TypeOK, ManyCovered
  <2>3. Pop
    BY <1>4, <2>1, <2>2 DEF AllocManyStep
  <2>4. Pool!Deliver(c)
    BY <2>1, <2>3, PopTakes DEF Pool!Deliver, Pool!Take
  <2>5. 1 \in 1 .. Cardinality(Frames)
    <3>1. IsFiniteSet(Frames \ inUse)
      BY FS_Difference
    <3>2. Cardinality(Frames \ inUse) <= Cardinality(Frames)
      BY FS_Subset
    <3>3. Cardinality(Frames \ inUse) > 0 /\ Cardinality(Frames) \in Nat
      BY <2>1, <2>2, NumIsFree, FS_CardinalityType
    <3> QED BY <3>2, <3>3, <2>2, NumIsFree
  <2>6. 1 \in 1 .. Pool!Cardinality(Frames)
    BY <2>5 DEF Pool!Cardinality, Cardinality
  <2> QED BY <2>4, <2>6 DEF Pool!Next
<1>5. ASSUME UNCHANGED frameVars PROVE UNCHANGED Pool!poolVars
  BY <1>5 DEF frameVars, Pool!poolVars
<1> QED BY <1>1, <1>2, <1>3, <1>4, <1>5 DEF FrameNext

\* The stack in free memory implements the pool that the trait FrameAllocator
\* describes: alloc_many gets all of its frames or none, for any number of
\* frames, callers and slots per page.
THEOREM ImplementsFramePool == FrameSpec => ImplementsPool
<1>1. FrameInit => Pool!Init
  BY DEF FrameInit, Pool!Init
<1> QED BY <1>1, Invariant, StepSimulates, PTL DEF FrameSpec, ImplementsPool, Pool!Spec

=============================================================================
