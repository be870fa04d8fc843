----------------------------- MODULE SyncProofs -----------------------------
(***************************************************************************)
(* The two locks of the kernel.  The guards of one core are counted        *)
(* exactly, nothing panics and soft interrupts run first, for any          *)
(* spinlocks, threads and pending soft interrupts; and the mutex excludes, *)
(* guards its list and loses no waiter, for any number of threads and      *)
(* cores.                                                                  *)
(***************************************************************************)
EXTENDS MCSync, SequenceTheorems, FiniteSetTheorems, TLAPS

Kinds == {"thread", "soft", "now", "irq", "drop", "end", "boot", "handled", "switched"}

Frames == [kind : Kinds, locks : SUBSET SpinLocks, plain : {0, 1}, iret : BOOLEAN]

\* Every variable of the core has its type, and no frame has panicked.
CoreTypes ==
    /\ dis \in [n : Nat, was : BOOLEAN, on : BOOLEAN]
    /\ stack \in Seq(Frames)
    /\ inInt \in BOOLEAN
    /\ soft \in Nat
    /\ cur \in CoreThreads \cup {Idle}
    /\ savedIF \in [CoreThreads -> BOOLEAN]
    /\ booted \in BOOLEAN

\* Calls nest at most three deep: a thread, above it one call that the thread
\* makes or one interrupt, above that a soft interrupt and nothing more.
Shape ==
    /\ Len(stack) \in 1..3
    /\ stack[Len(stack)].kind = "thread"
    /\ Len(stack) = 1 \/ stack[1].kind # "thread"
    /\ Len(stack) = 3 <=> stack[1].kind = "soft"
    /\ Len(stack) = 3 => stack[2].kind \in {"drop", "end", "boot"}

\* The call that is interrupted or waits for the soft interrupts.
Under == IF stack[1].kind = "soft" THEN stack[2] ELSE stack[1]

\* What a frame of each kind holds; frames under the innermost hold nothing
\* but the guard that run_soft_interrupts takes.
Held ==
    /\ IsFiniteSet(stack[1].locks)
    /\ \A i \in 2..Len(stack) : stack[i].locks = {}
    /\ Len(stack) > 1 => stack[Len(stack)].plain = 0
    /\ Under.kind \in {"drop", "end", "boot"} => Under.locks = {} /\ Under.plain = 1
    /\ Under.kind \in {"handled", "switched"} => Under.locks = {} /\ Under.plain = 0
    /\ Under.kind = "now" => Under.plain = 1
    /\ Under.kind = "irq" => IrqHandlers \in Under.locks

\* The counter, and the interrupt flag while somebody holds a guard.
Counted ==
    /\ dis.n = I!Guards(stack[1]) + (IF stack[1].kind = "soft" THEN 1 ELSE 0)
    /\ dis.n > 0 => ~dis.on

\* What will become of the interrupt flag when the last guard goes.
Flags ==
    /\ Under.kind = "thread" =>
        /\ dis.n = 0 => (dis.on <=> booted)
        /\ dis.n > 0 => (dis.was <=> booted)
    /\ Under.kind \in {"now", "boot"} => dis.was
    /\ Under.kind = "boot" <=> ~booted /\ Under.kind # "thread"
    /\ Under.kind \in {"irq", "drop", "end"} => ~dis.was
    /\ Under.kind \in {"handled", "switched"} => ~dis.on

\* IN_INTERRUPT is set while the frame of an interrupt exists, and such a frame
\* returns to code that had interrupts enabled.
Interrupted ==
    /\ inInt <=> Under.kind \in {"irq", "handled", "switched", "end"}
    /\ inInt => Under.iret
    /\ \A t \in CoreThreads : t # cur => savedIF[t]

CoreInv == CoreTypes /\ Shape /\ Held /\ Counted /\ Flags /\ Interrupted /\ SoftRunFirst

-----------------------------------------------------------------------------
(* The stack                                                               *)

\* What Push leaves on the stack.
LEMMA PushStack ==
    ASSUME NEW s \in Seq(Frames), NEW f \in Frames
    PROVE  /\ <<f>> \o s \in Seq(Frames)
           /\ Len(<<f>> \o s) = Len(s) + 1
           /\ (<<f>> \o s)[1] = f
           /\ \A i \in 1..Len(s) : (<<f>> \o s)[i + 1] = s[i]
  <1>1. <<f>> \in Seq(Frames) /\ Len(<<f>>) = 1 /\ <<f>>[1] = f
    OBVIOUS
  <1> QED  BY <1>1, ConcatProperties

\* What a return leaves.
LEMMA TailStack ==
    ASSUME NEW s \in Seq(Frames), Len(s) >= 1
    PROVE  /\ s[1] \in Frames /\ Head(s) = s[1]
           /\ Tail(s) \in Seq(Frames)
           /\ Len(Tail(s)) = Len(s) - 1
           /\ \A i \in 1..(Len(s) - 1) : Tail(s)[i] = s[i + 1]
  <1>1. s # << >>
    OBVIOUS
  <1> QED  BY <1>1, HeadTailProperties

\* What SetTop leaves.
LEMMA SetTopStack ==
    ASSUME NEW s \in Seq(Frames), Len(s) >= 1, NEW f \in Frames
    PROVE  /\ <<f>> \o Tail(s) \in Seq(Frames)
           /\ Len(<<f>> \o Tail(s)) = Len(s)
           /\ (<<f>> \o Tail(s))[1] = f
           /\ \A i \in 2..Len(s) : (<<f>> \o Tail(s))[i] = s[i]
  <1>1. /\ Tail(s) \in Seq(Frames) /\ Len(Tail(s)) = Len(s) - 1
        /\ \A i \in 1..(Len(s) - 1) : Tail(s)[i] = s[i + 1]
    BY TailStack
  <1>2. /\ <<f>> \o Tail(s) \in Seq(Frames)
        /\ Len(<<f>> \o Tail(s)) = Len(Tail(s)) + 1
        /\ (<<f>> \o Tail(s))[1] = f
        /\ \A i \in 1..Len(Tail(s)) : (<<f>> \o Tail(s))[i + 1] = Tail(s)[i]
    BY <1>1, PushStack
  <1>3. ASSUME NEW i \in 2..Len(s) PROVE (<<f>> \o Tail(s))[i] = s[i]
    <2>1. i - 1 \in 1..(Len(s) - 1) /\ (i - 1) + 1 = i
      OBVIOUS
    <2> QED  BY <2>1, <1>1, <1>2
  <1> QED  BY <1>1, <1>2, <1>3

\* What dropping the last guard leaves: the frame, and run_soft_interrupts on
\* top of it.
LEMMA DropStack ==
    ASSUME NEW s \in Seq(Frames), Len(s) >= 1, NEW f \in Frames, NEW g \in Frames
    PROVE  /\ <<g, f>> \o Tail(s) \in Seq(Frames)
           /\ Len(<<g, f>> \o Tail(s)) = Len(s) + 1
           /\ (<<g, f>> \o Tail(s))[1] = g
           /\ (<<g, f>> \o Tail(s))[2] = f
           /\ \A i \in 2..Len(s) : (<<g, f>> \o Tail(s))[i + 1] = s[i]
  <1>1. /\ Tail(s) \in Seq(Frames) /\ Len(Tail(s)) = Len(s) - 1
        /\ \A i \in 1..(Len(s) - 1) : Tail(s)[i] = s[i + 1]
    BY TailStack
  <1>2. <<g, f>> \in Seq(Frames) /\ Len(<<g, f>>) = 2 /\ <<g, f>>[1] = g /\ <<g, f>>[2] = f
    OBVIOUS
  <1>3. /\ <<g, f>> \o Tail(s) \in Seq(Frames)
        /\ Len(<<g, f>> \o Tail(s)) = 2 + Len(Tail(s))
        /\ \A i \in 1..(2 + Len(Tail(s))) : (<<g, f>> \o Tail(s))[i] =
                IF i <= 2 THEN <<g, f>>[i] ELSE Tail(s)[i - 2]
    BY <1>1, <1>2, ConcatProperties
  <1>4. ASSUME NEW i \in 2..Len(s) PROVE (<<g, f>> \o Tail(s))[i + 1] = s[i]
    <2>1. /\ i - 1 \in 1..(Len(s) - 1) /\ (i - 1) + 1 = i /\ (i + 1) - 2 = i - 1
          /\ i + 1 \in 1..(2 + Len(Tail(s))) /\ ~(i + 1 <= 2)
      BY <1>1
    <2> QED  BY <2>1, <1>1, <1>3
  <1> QED  BY <1>1, <1>2, <1>3, <1>4

\* Cardinality means the same in the instance.
LEMMA GuardsDef ==
    ASSUME NEW f
    PROVE  I!Guards(f) = Cardinality(f.locks) + f.plain
  BY DEF I!Guards, I!Cardinality, Cardinality

\* A frame's guards: none exactly when it holds no lock and no plain guard, and
\* one more or fewer with each lock.
LEMMA GuardsOf ==
    ASSUME NEW f \in Frames, IsFiniteSet(f.locks)
    PROVE  /\ I!Guards(f) \in Nat
           /\ I!Guards(f) >= f.plain
           /\ I!Guards(f) = 0 <=> f.locks = {} /\ f.plain = 0
           /\ f.locks = {} => I!Guards(f) = f.plain
           /\ f.locks # {} => I!Guards(f) >= f.plain + 1
           /\ \A k \in SpinLocks : f.locks = {k} => I!Guards(f) = f.plain + 1
  <1>1. Cardinality(f.locks) \in Nat /\ (Cardinality(f.locks) = 0 <=> f.locks = {})
    BY FS_CardinalityType, FS_EmptySet
  <1>2. \A k \in SpinLocks : Cardinality({k}) = 1
    BY FS_Singleton
  <1>3. f.plain \in {0, 1}
    BY DEF Frames
  <1>4. ASSUME NEW k \in SpinLocks, f.locks = {k} PROVE Cardinality(f.locks) = 1
    BY <1>2, <1>4
  <1> QED  BY <1>1, <1>3, <1>4, GuardsDef

LEMMA GuardsLock ==
    ASSUME NEW f \in Frames, IsFiniteSet(f.locks), NEW k \in SpinLocks
    PROVE  /\ [f EXCEPT !.locks = @ \cup {k}] \in Frames
           /\ IsFiniteSet(f.locks \cup {k})
           /\ k \notin f.locks =>
                I!Guards([f EXCEPT !.locks = @ \cup {k}]) = I!Guards(f) + 1
           /\ [f EXCEPT !.locks = @ \ {k}] \in Frames
           /\ IsFiniteSet(f.locks \ {k})
           /\ k \in f.locks =>
                I!Guards([f EXCEPT !.locks = @ \ {k}]) = I!Guards(f) - 1
  <1>1. Cardinality(f.locks) \in Nat
    BY FS_CardinalityType
  <1>2. /\ IsFiniteSet(f.locks \cup {k})
        /\ k \notin f.locks => Cardinality(f.locks \cup {k}) = Cardinality(f.locks) + 1
    BY FS_AddElement
  <1>3. /\ IsFiniteSet(f.locks \ {k})
        /\ k \in f.locks => Cardinality(f.locks \ {k}) = Cardinality(f.locks) - 1
    BY FS_RemoveElement
  <1>4. f.plain \in {0, 1} /\ f.locks \in SUBSET SpinLocks
    BY DEF Frames
  <1> DEFINE g == [f EXCEPT !.locks = @ \cup {k}]
             h == [f EXCEPT !.locks = @ \ {k}]
  <1>5. /\ g \in Frames /\ g.locks = f.locks \cup {k} /\ g.plain = f.plain
        /\ h \in Frames /\ h.locks = f.locks \ {k} /\ h.plain = f.plain
    BY <1>4 DEF Frames
  <1>6. /\ I!Guards(f) = Cardinality(f.locks) + f.plain
        /\ I!Guards(g) = Cardinality(g.locks) + g.plain
        /\ I!Guards(h) = Cardinality(h.locks) + h.plain
    BY GuardsDef
  <1> HIDE DEF g, h
  <1>7. k \notin f.locks => I!Guards(g) = I!Guards(f) + 1
    BY <1>1, <1>2, <1>4, <1>5, <1>6
  <1>8. k \in f.locks => I!Guards(h) = I!Guards(f) - 1
    BY <1>1, <1>3, <1>4, <1>5, <1>6
  <1> QED  BY <1>2, <1>3, <1>5, <1>7, <1>8 DEF g, h

-----------------------------------------------------------------------------
(* The actions                                                             *)

\* The innermost frame, and the guards it has.
LEMMA TopFacts ==
    ASSUME CoreInv
    PROVE  /\ stack \in Seq(Frames) /\ Len(stack) \in 1..3 /\ Len(stack) >= 1
           /\ I!Top = stack[1]
           /\ stack[1] \in Frames
           /\ IsFiniteSet(stack[1].locks)
           /\ stack[1].locks \in SUBSET SpinLocks /\ stack[1].plain \in {0, 1}
           /\ I!Guards(stack[1]) \in Nat
           /\ dis.n \in Nat /\ dis.was \in BOOLEAN /\ dis.on \in BOOLEAN
           /\ dis = [n |-> dis.n, was |-> dis.was, on |-> dis.on]
  <1>1. stack \in Seq(Frames) /\ Len(stack) \in 1..3 /\ IsFiniteSet(stack[1].locks)
    BY DEF CoreInv, CoreTypes, Shape, Held
  <1>2. stack[1] \in Frames /\ Head(stack) = stack[1]
    BY <1>1, TailStack
  <1>3. I!Guards(stack[1]) \in Nat
    BY <1>1, <1>2, GuardsOf
  <1> QED  BY <1>1, <1>2, <1>3 DEF CoreInv, CoreTypes, Frames, I!Top

\* InterruptDisabler::new and the drop of a guard, field by field.
LEMMA NewFacts ==
    ASSUME NEW d \in [n : Nat, was : BOOLEAN, on : BOOLEAN]
    PROVE  /\ I!New(d) \in [n : Nat, was : BOOLEAN, on : BOOLEAN]
           /\ I!New(d).n = d.n + 1
           /\ d.n = 0 => (I!New(d).was <=> d.on)
           /\ d.n = 0 => ~I!New(d).on
           /\ d.n > 0 => (I!New(d).was <=> d.was)
           /\ d.n > 0 => (I!New(d).on <=> d.on)
  <1>0. d.n \in Nat /\ d.was \in BOOLEAN /\ d.on \in BOOLEAN
    OBVIOUS
  <1>1. CASE d.n = 0
    <2>1. I!New(d) = [n |-> d.n + 1, was |-> d.on, on |-> FALSE]
      BY <1>1, Zenon DEF I!New
    <2>2. I!New(d).n = d.n + 1
      BY <2>1
    <2>3. I!New(d).was = d.on
      BY <2>1
    <2>4. ~I!New(d).on
      BY <2>1
    <2>5. I!New(d) \in [n : Nat, was : BOOLEAN, on : BOOLEAN]
      BY <2>1, <1>0
    <2> QED BY <1>1, <2>2, <2>3, <2>4, <2>5
  <1>2. CASE d.n # 0
    <2>1. I!New(d) = [n |-> d.n + 1, was |-> d.was, on |-> d.on]
      <3>1. (d.n # 0 /\ d.on) = d.on  BY <1>0, <1>2
      <3> QED BY <1>2, <1>0, <3>1, Zenon DEF I!New
    <2>2. I!New(d).n = d.n + 1
      BY <2>1
    <2>3. I!New(d).was = d.was
      BY <2>1
    <2>4. I!New(d).on = d.on
      BY <2>1
    <2>5. I!New(d) \in [n : Nat, was : BOOLEAN, on : BOOLEAN]
      BY <2>1, <1>0
    <2> QED BY <1>0, <1>2, <2>2, <2>3, <2>4, <2>5
  <1> QED  BY <1>1, <1>2

LEMMA DroppedFacts ==
    ASSUME NEW d \in [n : Nat, was : BOOLEAN, on : BOOLEAN], d.n > 0
    PROVE  /\ I!Dropped(d) \in [n : Nat, was : BOOLEAN, on : BOOLEAN]
           /\ I!Dropped(d).n = d.n - 1
           /\ I!Dropped(d).was <=> d.was
           /\ I!Dropped(d).on <=> d.on
  BY DEF I!Dropped

\* A step that takes a guard and enables nothing.
LEMMA TakeFacts ==
    ASSUME CoreInv, dis' = I!New(dis)
    PROVE  /\ dis' \in [n : Nat, was : BOOLEAN, on : BOOLEAN]
           /\ dis'.n = dis.n + 1
           /\ dis.n = 0 => (dis'.was <=> dis.on)
           /\ dis.n > 0 => (dis'.was <=> dis.was)
           /\ ~dis'.on
  <1>1. dis \in [n : Nat, was : BOOLEAN, on : BOOLEAN] /\ (dis.n > 0 => ~dis.on)
    BY DEF CoreInv, CoreTypes, Counted
  <1>2. dis.n \in Nat /\ (dis.n = 0 \/ dis.n > 0)
    BY <1>1
  <1>3. /\ I!New(dis) \in [n : Nat, was : BOOLEAN, on : BOOLEAN]
        /\ I!New(dis).n = dis.n + 1
        /\ dis.n = 0 => (I!New(dis).was <=> dis.on)
        /\ dis.n = 0 => ~I!New(dis).on
        /\ dis.n > 0 => (I!New(dis).was <=> dis.was)
        /\ dis.n > 0 => (I!New(dis).on <=> dis.on)
    BY <1>1, NewFacts, Zenon
  <1>4. ~I!New(dis).on
    BY <1>1, <1>2, <1>3, Zenon
  <1> QED  BY <1>3, <1>4, Zenon

\* While no guard exists only a thread runs, or an interrupt returns.
LEMMA NoGuards ==
    ASSUME CoreInv, dis.n = 0
    PROVE  /\ Under = stack[1]
           /\ stack[1].kind \in {"thread", "handled", "switched"}
           /\ stack[1].locks = {} /\ stack[1].plain = 0
  <1>1. /\ stack[1] \in Frames /\ IsFiniteSet(stack[1].locks)
        /\ I!Guards(stack[1]) \in Nat
        /\ stack[1].locks \in SUBSET SpinLocks /\ stack[1].plain \in {0, 1}
    BY TopFacts
  <1>2. I!Guards(stack[1]) = 0 /\ stack[1].kind # "soft"
    BY <1>1 DEF CoreInv, Counted
  <1>3. stack[1].locks = {} /\ stack[1].plain = 0
    BY <1>1, <1>2, GuardsOf
  <1> QED  BY <1>1, <1>2, <1>3 DEF CoreInv, Held, Under, Frames, Kinds

\* The innermost frame takes or drops a guard and stays innermost.
LEMMA ChangeTop ==
    ASSUME CoreInv, NEW f \in Frames, stack' = <<f>> \o Tail(stack),
           stack[1].kind \in {"thread", "soft", "now", "irq"},
           f.kind = stack[1].kind, f.iret = stack[1].iret,
           IsFiniteSet(f.locks),
           f.kind = "now" => f.plain = 1,
           f.kind = "irq" => IrqHandlers \in f.locks,
           UNCHANGED <<inInt, soft, cur, savedIF, booted>>,
           dis' \in [n : Nat, was : BOOLEAN, on : BOOLEAN],
           ~dis'.on,
           dis'.n = I!Guards(f) + (IF f.kind = "soft" THEN 1 ELSE 0),
           Under.kind = "thread" /\ dis'.n = 0 => ~booted,
           Under.kind = "thread" /\ dis'.n > 0 => (dis'.was <=> booted),
           Under.kind \in {"now", "boot"} => dis'.was,
           Under.kind \in {"irq", "drop", "end"} => ~dis'.was
    PROVE  CoreInv'
<1>1. /\ stack \in Seq(Frames) /\ Len(stack) \in 1..3 /\ Len(stack) >= 1
      /\ stack[1] \in Frames
  BY TopFacts
<1>2. /\ stack' \in Seq(Frames) /\ Len(stack') = Len(stack)
      /\ stack'[1] = f /\ \A i \in 2..Len(stack) : stack'[i] = stack[i]
  BY <1>1, SetTopStack
<1> USE DEF CoreInv
<1>3. CoreTypes'
  BY <1>2 DEF CoreTypes
<1>4. Shape'
  BY <1>1, <1>2 DEF Shape
<1>5. Held'
  BY <1>1, <1>2 DEF Held, Shape, Under
<1>6. Counted'
  BY <1>1, <1>2 DEF Counted
<1>7. Under'.kind = Under.kind /\ Under'.iret = Under.iret
  BY <1>1, <1>2 DEF Shape, Under
<1>8. Under.kind \in {"thread", "now", "irq", "drop", "end", "boot"}
  BY <1>1 DEF Shape, Under
<1>9. Flags'
  BY <1>7, <1>8 DEF Flags
<1>10. Interrupted'
  BY <1>7 DEF Interrupted
<1>11. SoftRunFirst'
  BY DEF SoftRunFirst, I!SoftRunFirst
<1> QED  BY <1>3, <1>4, <1>5, <1>6, <1>9, <1>10, <1>11

\* A thread, and one call or interrupt above it.
LEMMA TwoFrames ==
    ASSUME NEW f \in Frames, Len(stack') = 2, stack' \in Seq(Frames), stack'[1] = f,
           stack'[2].kind = "thread", stack'[2].locks = {}, stack'[2].plain = 0,
           f.kind \notin {"thread", "soft"}, IsFiniteSet(f.locks),
           f.kind \in {"drop", "end", "boot"} => f.locks = {} /\ f.plain = 1,
           f.kind \in {"handled", "switched"} => f.locks = {} /\ f.plain = 0,
           f.kind = "now" => f.plain = 1,
           f.kind = "irq" => IrqHandlers \in f.locks,
           dis' \in [n : Nat, was : BOOLEAN, on : BOOLEAN],
           dis'.n = I!Guards(f), ~dis'.on,
           f.kind \in {"now", "boot"} => dis'.was,
           f.kind \in {"irq", "drop", "end"} => ~dis'.was,
           booted' \in BOOLEAN, f.kind = "boot" <=> ~booted',
           inInt' \in BOOLEAN,
           inInt' <=> f.kind \in {"irq", "handled", "switched", "end"},
           inInt' => f.iret,
           soft' \in Nat, cur' \in CoreThreads \cup {Idle},
           savedIF' \in [CoreThreads -> BOOLEAN],
           \A t \in CoreThreads : t # cur' => savedIF'[t]
    PROVE  CoreInv'
<1>1. Under' = f
  BY DEF Under
<1>2. CoreTypes'
  BY DEF CoreTypes
<1>3. Shape'
  BY DEF Shape
<1>4. Held'
  BY <1>1 DEF Held
<1>5. Counted'
  BY DEF Counted
<1>6. Flags'
  BY <1>1 DEF Flags
<1>7. Interrupted'
  BY <1>1 DEF Interrupted
<1>8. SoftRunFirst'
  BY DEF SoftRunFirst, I!SoftRunFirst
<1> QED  BY <1>2, <1>3, <1>4, <1>5, <1>6, <1>7, <1>8 DEF CoreInv

\* A thread without a guard.
LEMMA OneFrame ==
    ASSUME Len(stack') = 1, stack' \in Seq(Frames),
           stack'[1].kind = "thread", stack'[1].locks = {}, stack'[1].plain = 0,
           dis' \in [n : Nat, was : BOOLEAN, on : BOOLEAN], dis'.n = 0,
           booted' \in BOOLEAN, dis'.on <=> booted', soft' \in Nat,
           booted' => soft' = 0,
           inInt' \in BOOLEAN, ~inInt', cur' \in CoreThreads \cup {Idle},
           savedIF' \in [CoreThreads -> BOOLEAN],
           \A t \in CoreThreads : t # cur' => savedIF'[t]
    PROVE  CoreInv'
<1>1. Under' = stack'[1]
  BY DEF Under
<1>2. CoreTypes'
  BY DEF CoreTypes
<1>3. Shape'
  BY DEF Shape
<1>4. Held'
  BY <1>1, FS_EmptySet DEF Held
<1>5. Counted'
  <2>1. Cardinality({}) = 0
    BY FS_EmptySet
  <2>2. I!Guards(stack'[1]) = Cardinality(stack'[1].locks) + stack'[1].plain
    BY GuardsDef
  <2> QED  BY <2>1, <2>2 DEF Counted
<1>6. Flags'
  BY <1>1 DEF Flags
<1>7. Interrupted'
  BY <1>1 DEF Interrupted
<1>8. SoftRunFirst'
  BY DEF SoftRunFirst, I!SoftRunFirst
<1> QED  BY <1>2, <1>3, <1>4, <1>5, <1>6, <1>7, <1>8 DEF CoreInv

\* The last guard has gone and run_soft_interrupts is called: from here on the
\* flag is off and a guard is held, until the queue is empty.
LEMMA BeginDrop ==
    ASSUME CoreInv, booted', Len(stack') = 2, stack' \in Seq(Frames),
           stack'[1] \in Frames, stack'[1].kind = "drop",
           stack'[1].locks = {}, stack'[1].plain = 1,
           stack'[2].kind = "thread", stack'[2].locks = {}, stack'[2].plain = 0,
           dis' \in [n : Nat, was : BOOLEAN, on : BOOLEAN],
           dis'.n = 1, ~dis'.was, ~dis'.on, ~inInt, booted' \in BOOLEAN,
           UNCHANGED <<inInt, soft, cur, savedIF>>
    PROVE  CoreInv'
<1>1. I!Guards(stack'[1]) = 1 /\ IsFiniteSet(stack'[1].locks)
  <2>1. Cardinality({}) = 0 /\ IsFiniteSet({})
    BY FS_EmptySet
  <2>2. I!Guards(stack'[1]) = Cardinality(stack'[1].locks) + stack'[1].plain
    BY GuardsDef
  <2> QED  BY <2>1, <2>2
<1>2. /\ inInt' \in BOOLEAN /\ ~inInt' /\ soft' \in Nat
      /\ cur' \in CoreThreads \cup {Idle}
      /\ savedIF' \in [CoreThreads -> BOOLEAN]
      /\ \A t \in CoreThreads : t # cur' => savedIF'[t]
  BY DEF CoreInv, CoreTypes, Interrupted
<1> QED  BY <1>1, <1>2, TwoFrames

\* A guard goes and interrupts stay off.
LEMMA GiveFacts ==
    ASSUME CoreInv, dis.n > 0, dis' = I!Dropped(dis)
    PROVE  /\ dis' \in [n : Nat, was : BOOLEAN, on : BOOLEAN]
           /\ dis'.n = dis.n - 1
           /\ dis'.was <=> dis.was
           /\ ~dis'.on
  <1>1. dis \in [n : Nat, was : BOOLEAN, on : BOOLEAN] /\ ~dis.on
    BY DEF CoreInv, CoreTypes, Counted
  <1> QED  BY <1>1, DroppedFacts, Zenon

\* The last guard goes and a new one is taken for run_soft_interrupts.
LEMMA RegrabFacts ==
    ASSUME NEW d \in [n : Nat, was : BOOLEAN, on : BOOLEAN], d.n = 1, ~d.on
    PROVE  /\ I!New(I!Dropped(d)) \in [n : Nat, was : BOOLEAN, on : BOOLEAN]
           /\ I!New(I!Dropped(d)).n = 1
           /\ ~I!New(I!Dropped(d)).was
           /\ ~I!New(I!Dropped(d)).on
  <1> DEFINE e == I!Dropped(d)
  <1>1. e \in [n : Nat, was : BOOLEAN, on : BOOLEAN] /\ e.n = 0 /\ ~e.on
    BY DroppedFacts
  <1> HIDE DEF e
  <1>2. /\ I!New(e) \in [n : Nat, was : BOOLEAN, on : BOOLEAN]
        /\ I!New(e).n = 0 + 1 /\ ~I!New(e).was /\ ~I!New(e).on
    BY <1>1, NewFacts
  <1>3. 0 + 1 = 1
    OBVIOUS
  <1> QED  BY <1>2, <1>3 DEF e

\* The innermost frame takes a guard.
LEMMA TakeTop ==
    ASSUME CoreInv, NEW f \in Frames, stack' = <<f>> \o Tail(stack),
           stack[1].kind \in {"thread", "soft", "now", "irq"},
           f.kind = stack[1].kind, f.iret = stack[1].iret,
           IsFiniteSet(f.locks),
           f.plain >= stack[1].plain, stack[1].locks \subseteq f.locks,
           UNCHANGED <<inInt, soft, cur, savedIF, booted>>,
           dis' = I!New(dis), I!Guards(f) = I!Guards(stack[1]) + 1
    PROVE  CoreInv'
<1>1. /\ I!Guards(stack[1]) \in Nat /\ dis.n \in Nat
      /\ stack[1].plain \in {0, 1} /\ f.plain \in {0, 1}
      /\ dis.n = I!Guards(stack[1]) + (IF stack[1].kind = "soft" THEN 1 ELSE 0)
  BY TopFacts DEF Frames, CoreInv, Counted
<1>2. /\ dis' \in [n : Nat, was : BOOLEAN, on : BOOLEAN]
      /\ dis'.n = dis.n + 1
      /\ dis.n = 0 => (dis'.was <=> dis.on)
      /\ dis.n > 0 => (dis'.was <=> dis.was)
      /\ ~dis'.on
  BY TakeFacts
<1>3. /\ f.kind = "now" => f.plain = 1
      /\ f.kind = "irq" => IrqHandlers \in f.locks
  BY <1>1 DEF CoreInv, Held, Under
<1>4. dis'.n = I!Guards(f) + (IF f.kind = "soft" THEN 1 ELSE 0) /\ dis'.n > 0
  BY <1>1, <1>2
<1>5. /\ Under.kind = "thread" => (dis'.was <=> booted)
      /\ Under.kind \in {"now", "boot"} => dis'.was
      /\ Under.kind \in {"irq", "drop", "end"} => ~dis'.was
  <2>1. CASE dis.n = 0
    BY <1>2, <2>1, NoGuards DEF CoreInv, Flags
  <2>2. CASE dis.n > 0
    BY <1>2, <2>2 DEF CoreInv, Flags
  <2> QED  BY <1>1, <2>1, <2>2
<1> QED  BY <1>1, <1>2, <1>3, <1>4, <1>5, ChangeTop

\* The innermost frame f drops a guard: the last one leads to
\* run_soft_interrupts, any other leaves interrupts off.
LEMMA GiveTop ==
    ASSUME CoreInv, NEW f \in Frames,
           stack[1].kind \in {"thread", "soft", "now", "irq"},
           f.kind = stack[1].kind, f.iret = stack[1].iret,
           IsFiniteSet(f.locks), I!Guards(f) + 1 = I!Guards(stack[1]),
           f.kind = "now" => f.plain = 1,
           f.kind = "irq" => IrqHandlers \in f.locks,
           UNCHANGED <<inInt, soft, cur, savedIF, booted>>,
           I!DropGuard(f)
    PROVE  CoreInv'
<1>1. /\ stack \in Seq(Frames) /\ Len(stack) >= 1 /\ Len(stack) \in 1..3
      /\ I!Guards(stack[1]) \in Nat /\ dis.n \in Nat
      /\ dis.n = I!Guards(stack[1]) + (IF stack[1].kind = "soft" THEN 1 ELSE 0)
  BY TopFacts DEF CoreInv, Counted
<1>2. /\ I!Guards(f) \in Nat
      /\ I!Guards(f) = 0 <=> f.locks = {} /\ f.plain = 0
  BY GuardsOf
<1>3. dis \in [n : Nat, was : BOOLEAN, on : BOOLEAN] /\ dis.n > 0 /\ ~dis.on
  BY <1>1, <1>2 DEF CoreInv, CoreTypes, Counted
<1>4. CASE I!DropEnables(dis)
  <2>1. dis.n = 1 /\ dis.was
    BY <1>4 DEF I!DropEnables
  <2>2. f.locks = {} /\ f.plain = 0 /\ stack[1].kind # "soft"
    BY <1>1, <1>2, <2>1
  <2>3. Under = stack[1] /\ stack[1].kind = "thread"
    BY <2>1, <2>2 DEF Under, CoreInv, Flags
  <2>4. booted /\ ~inInt
    BY <1>3, <2>1, <2>3 DEF CoreInv, Flags, Interrupted
  <2>5. Len(stack) = 1
    BY <1>1, <2>3 DEF CoreInv, Shape
  <2> DEFINE g == I!Frame("drop", 1, FALSE)
  <2>6. dis' = I!New(I!Dropped(dis)) /\ stack' = <<g, f>> \o Tail(stack)
    BY <1>4 DEF I!DropGuard
  <2>7. g \in Frames /\ g.kind = "drop" /\ g.locks = {} /\ g.plain = 1
    BY DEF I!Frame, Frames, Kinds
  <2> HIDE DEF g
  <2>8. /\ stack' \in Seq(Frames) /\ Len(stack') = 2
        /\ stack'[1] = g /\ stack'[2] = f
    <3>1. /\ <<g, f>> \o Tail(stack) \in Seq(Frames)
          /\ Len(<<g, f>> \o Tail(stack)) = Len(stack) + 1
          /\ (<<g, f>> \o Tail(stack))[1] = g /\ (<<g, f>> \o Tail(stack))[2] = f
      BY <1>1, <2>7, DropStack
    <3>2. /\ stack' \in Seq(Frames) /\ Len(stack') = Len(stack) + 1
          /\ stack'[1] = g /\ stack'[2] = f
      BY <2>6, <3>1, Zenon
    <3> QED  BY <2>5, <3>2
  <2>9. /\ dis' \in [n : Nat, was : BOOLEAN, on : BOOLEAN]
        /\ dis'.n = 1 /\ ~dis'.was /\ ~dis'.on
    BY <1>3, <2>1, <2>6, RegrabFacts
  <2>10. booted'
    BY <2>4
  <2> QED  BY <2>2, <2>3, <2>4, <2>7, <2>8, <2>9, <2>10, BeginDrop
<1>5. CASE ~I!DropEnables(dis)
  <2>1. dis' = I!Dropped(dis) /\ stack' = <<f>> \o Tail(stack)
    BY <1>5 DEF I!DropGuard, I!SetTop
  <2>2. /\ dis' \in [n : Nat, was : BOOLEAN, on : BOOLEAN]
        /\ dis'.n = dis.n - 1 /\ (dis'.was <=> dis.was) /\ ~dis'.on
    BY <1>3, <2>1, GiveFacts
  <2>3. dis.n = 1 => ~dis.was
    BY <1>5 DEF I!DropEnables
  <2>4. dis'.n = I!Guards(f) + (IF f.kind = "soft" THEN 1 ELSE 0)
    BY <1>1, <1>2, <2>2
  <2>5. /\ Under.kind = "thread" /\ dis'.n = 0 => ~booted
        /\ Under.kind = "thread" /\ dis'.n > 0 => (dis'.was <=> booted)
        /\ Under.kind \in {"now", "boot"} => dis'.was
        /\ Under.kind \in {"irq", "drop", "end"} => ~dis'.was
    BY <1>3, <2>2, <2>3 DEF CoreInv, Flags
  <2> QED  BY <2>1, <2>2, <2>4, <2>5, ChangeTop
<1> QED  BY <1>4, <1>5

LEMMA NewGuardStep ==
    ASSUME CoreInv, I!NewGuard
    PROVE  CoreInv'
<1> DEFINE f == [stack[1] EXCEPT !.plain = 1]
<1>1. /\ I!Top = stack[1] /\ stack[1] \in Frames /\ IsFiniteSet(stack[1].locks)
      /\ dis.n \in Nat
  BY TopFacts
<1>2. stack[1].kind \in {"thread", "soft", "now", "irq"} /\ stack[1].plain = 0
  BY <1>1 DEF I!NewGuard, I!RunsCode
<1>3. /\ f \in Frames /\ f.kind = stack[1].kind /\ f.locks = stack[1].locks
      /\ f.plain = 1 /\ f.iret = stack[1].iret
  BY <1>1 DEF Frames
<1>4. I!Guards(f) = I!Guards(stack[1]) + 1 /\ I!Guards(stack[1]) \in Nat
  <2>1. Cardinality(stack[1].locks) \in Nat
    BY <1>1, FS_CardinalityType
  <2>2. I!Guards(stack[1]) = Cardinality(stack[1].locks) + 0
    BY <1>2, GuardsDef
  <2>3. I!Guards(f) = Cardinality(stack[1].locks) + 1
    BY <1>3, GuardsDef
  <2> QED  BY <2>1, <2>2, <2>3
<1>5. stack' = <<f>> \o Tail(stack)
  BY <1>1 DEF I!NewGuard, I!SetTop
<1> HIDE DEF f
<1>6. dis' = I!New(dis) /\ UNCHANGED <<inInt, soft, cur, savedIF, booted>>
  BY DEF I!NewGuard
<1> QED  BY <1>1, <1>2, <1>3, <1>4, <1>5, <1>6, TakeTop

\* Dropping a plain guard finds interrupts off, and drops one guard.
LEMMA DropPlainStep ==
    ASSUME CoreInv, I!DropPlain
    PROVE  CoreInv'
<1> DEFINE f == [stack[1] EXCEPT !.plain = @ - 1]
<1>1. /\ I!Top = stack[1] /\ stack[1] \in Frames /\ IsFiniteSet(stack[1].locks)
      /\ dis.n \in Nat /\ I!Guards(stack[1]) \in Nat /\ stack[1].plain \in {0, 1}
      /\ dis.n = I!Guards(stack[1]) + (IF stack[1].kind = "soft" THEN 1 ELSE 0)
      /\ dis.n > 0 => ~dis.on
  BY TopFacts DEF CoreInv, Counted
<1>2. stack[1].kind \in {"thread", "soft", "irq"} /\ stack[1].plain = 1
  BY <1>1 DEF I!DropPlain, I!RunsCode
<1>3. /\ f \in Frames /\ f.kind = stack[1].kind /\ f.locks = stack[1].locks
      /\ f.plain = 0 /\ f.iret = stack[1].iret
  BY <1>1, <1>2 DEF Frames
<1>4. I!Guards(f) + 1 = I!Guards(stack[1])
  <2>1. Cardinality(stack[1].locks) \in Nat
    BY <1>1, FS_CardinalityType
  <2>2. I!Guards(stack[1]) = Cardinality(stack[1].locks) + 1
    BY <1>2, GuardsDef
  <2>3. I!Guards(f) = Cardinality(stack[1].locks) + 0
    BY <1>3, GuardsDef
  <2> QED  BY <2>1, <2>2, <2>3
<1>5. ~dis.on
  <2>1. I!Guards(stack[1]) >= 1
    BY <1>1, <1>2, GuardsOf
  <2> QED  BY <1>1, <2>1
<1>6. I!DropGuard(f)
  BY <1>1, <1>5 DEF I!DropPlain
<1>7. f.kind = "irq" => IrqHandlers \in f.locks
  BY <1>3 DEF CoreInv, Held, Under
<1> HIDE DEF f
<1>8. UNCHANGED <<inInt, soft, cur, savedIF, booted>>
  BY DEF I!DropPlain
<1> QED  BY <1>1, <1>2, <1>3, <1>4, <1>6, <1>7, <1>8, GiveTop

\* No frame below holds a spinlock, so the lock is taken.
LEMMA LockStep ==
    ASSUME CoreInv, NEW k \in SpinLocks, I!Lock(k)
    PROVE  CoreInv'
<1> DEFINE f == [stack[1] EXCEPT !.locks = @ \cup {k}]
<1>1. /\ I!Top = stack[1] /\ stack[1] \in Frames /\ IsFiniteSet(stack[1].locks)
      /\ stack[1].plain \in {0, 1}
  BY TopFacts
<1>2. stack[1].kind \in {"thread", "soft", "now", "irq"} /\ k \notin stack[1].locks
  BY <1>1 DEF I!Lock, I!RunsCode
<1>3. k \notin I!HeldBelow
  BY DEF I!HeldBelow, CoreInv, Held
<1>4. /\ f \in Frames /\ f.kind = stack[1].kind /\ f.locks = stack[1].locks \cup {k}
      /\ f.plain = stack[1].plain /\ f.iret = stack[1].iret
  BY <1>1 DEF Frames
<1>5. IsFiniteSet(stack[1].locks \cup {k}) /\ I!Guards(f) = I!Guards(stack[1]) + 1
  BY <1>1, <1>2, GuardsLock
<1>6. stack' = <<f>> \o Tail(stack)
  BY <1>1, <1>3 DEF I!Lock, I!SetTop
<1> HIDE DEF f
<1>7. dis' = I!New(dis) /\ UNCHANGED <<inInt, soft, cur, savedIF, booted>>
  BY DEF I!Lock
<1>8. f.plain >= stack[1].plain /\ stack[1].locks \subseteq f.locks
  BY <1>1, <1>4
<1> QED  BY <1>1, <1>2, <1>4, <1>5, <1>6, <1>7, <1>8, TakeTop

\* Unlocking finds interrupts off; a handler keeps IRQ_HANDLERS.
LEMMA UnlockStep ==
    ASSUME CoreInv, NEW k \in SpinLocks, I!Unlock(k)
    PROVE  CoreInv'
<1> DEFINE f == [stack[1] EXCEPT !.locks = @ \ {k}]
<1>1. /\ I!Top = stack[1] /\ stack[1] \in Frames /\ IsFiniteSet(stack[1].locks)
      /\ dis.n \in Nat /\ I!Guards(stack[1]) \in Nat /\ stack[1].plain \in {0, 1}
      /\ dis.n = I!Guards(stack[1]) + (IF stack[1].kind = "soft" THEN 1 ELSE 0)
      /\ dis.n > 0 => ~dis.on
  BY TopFacts DEF CoreInv, Counted
<1>2. /\ stack[1].kind \in {"thread", "soft", "now", "irq"} /\ k \in stack[1].locks
      /\ stack[1].kind = "irq" => k # IrqHandlers
  BY <1>1 DEF I!Unlock, I!RunsCode
<1>3. /\ f \in Frames /\ f.kind = stack[1].kind /\ f.locks = stack[1].locks \ {k}
      /\ f.plain = stack[1].plain /\ f.iret = stack[1].iret
  BY <1>1 DEF Frames
<1>4. IsFiniteSet(stack[1].locks \ {k}) /\ I!Guards(f) + 1 = I!Guards(stack[1])
  <2>1. IsFiniteSet(stack[1].locks \ {k}) /\ I!Guards(f) = I!Guards(stack[1]) - 1
    BY <1>1, <1>2, GuardsLock
  <2> QED  BY <1>1, <2>1
<1>5. ~dis.on
  <2>1. I!Guards(stack[1]) >= stack[1].plain + 1
    BY <1>1, <1>2, GuardsOf
  <2> QED  BY <1>1, <2>1
<1>6. I!DropGuard(f)
  BY <1>1, <1>5 DEF I!Unlock
<1>7. /\ f.kind = "irq" => IrqHandlers \in f.locks
      /\ f.kind = "now" => f.plain = 1
  BY <1>2, <1>3 DEF CoreInv, Held, Under
<1> HIDE DEF f
<1>8. UNCHANGED <<inInt, soft, cur, savedIF, booted>>
  BY DEF I!Unlock
<1> QED  BY <1>1, <1>2, <1>3, <1>4, <1>6, <1>7, <1>8, GiveTop

\* The types of what most actions leave alone.
LEMMA KeptTypes ==
    ASSUME CoreInv
    PROVE  /\ dis \in [n : Nat, was : BOOLEAN, on : BOOLEAN]
           /\ inInt \in BOOLEAN /\ soft \in Nat /\ booted \in BOOLEAN
           /\ cur \in CoreThreads \cup {Idle}
           /\ savedIF \in [CoreThreads -> BOOLEAN]
           /\ \A t \in CoreThreads : t # cur => savedIF[t]
  BY DEF CoreInv, CoreTypes, Interrupted

\* A frame without spinlocks.
LEMMA BareFrame ==
    ASSUME NEW f, f.locks = {}, f.plain \in {0, 1}
    PROVE  IsFiniteSet(f.locks) /\ I!Guards(f) = f.plain
  <1>1. Cardinality({}) = 0 /\ IsFiniteSet({})
    BY FS_EmptySet
  <1>2. I!Guards(f) = Cardinality(f.locks) + f.plain
    BY GuardsDef
  <1> QED  BY <1>1, <1>2

\* With interrupts enabled a thread runs, without a guard and with nothing
\* above it.
LEMMA EnabledFacts ==
    ASSUME CoreInv, dis.on
    PROVE  /\ dis.n = 0 /\ Len(stack) = 1
           /\ stack[1].kind = "thread" /\ stack[1].locks = {} /\ stack[1].plain = 0
           /\ booted /\ ~inInt /\ soft = 0
  <1>1. dis.n = 0 /\ Len(stack) \in 1..3
    BY TopFacts DEF CoreInv, Counted
  <1>2. /\ Under = stack[1]
        /\ stack[1].kind \in {"thread", "handled", "switched"}
        /\ stack[1].locks = {} /\ stack[1].plain = 0
    BY <1>1, NoGuards
  <1>3. stack[1].kind = "thread"
    BY <1>2 DEF CoreInv, Flags
  <1>4. booted /\ ~inInt
    BY <1>1, <1>2, <1>3 DEF CoreInv, Flags, Interrupted
  <1>5. Len(stack) = 1
    BY <1>1, <1>3 DEF CoreInv, Shape
  <1> QED  BY <1>1, <1>2, <1>3, <1>4, <1>5 DEF CoreInv, SoftRunFirst, I!SoftRunFirst

\* A call on top of a thread that has no guard.
LEMMA PushOnThread ==
    ASSUME CoreInv, Len(stack) = 1, stack[1].locks = {}, stack[1].plain = 0,
           NEW f \in Frames, stack' = <<f>> \o stack
    PROVE  /\ stack' \in Seq(Frames) /\ Len(stack') = 2 /\ stack'[1] = f
           /\ stack'[2].kind = "thread" /\ stack'[2].locks = {} /\ stack'[2].plain = 0
  <1>1. stack \in Seq(Frames)
    BY TopFacts
  <1>2. /\ <<f>> \o stack \in Seq(Frames) /\ Len(<<f>> \o stack) = Len(stack) + 1
        /\ (<<f>> \o stack)[1] = f
        /\ \A i \in 1..Len(stack) : (<<f>> \o stack)[i + 1] = stack[i]
    BY <1>1, PushStack
  <1>3. stack'[2] = stack[1]
    BY <1>2
  <1>4. stack[1].kind = "thread"
    BY DEF CoreInv, Shape
  <1> QED  BY <1>2, <1>3, <1>4

\* try_lock gives its guard back: the counter is as before, and a thread that
\* had interrupts enabled runs what is pending.
LEMMA TryLockFailsStep ==
    ASSUME CoreInv, I!TryLockFails
    PROVE  CoreInv'
<1> DEFINE d == I!New(dis)
<1>1. /\ I!Top = stack[1] /\ dis.n \in Nat /\ stack \in Seq(Frames)
      /\ dis.n > 0 => ~dis.on
  BY TopFacts DEF CoreInv, Counted
<1>2. stack[1].kind \in {"thread", "soft", "now", "irq"}
  BY <1>1 DEF I!TryLockFails, I!RunsCode
<1>3. UNCHANGED <<inInt, soft, cur, savedIF, booted>>
  BY DEF I!TryLockFails
<1>4. /\ d \in [n : Nat, was : BOOLEAN, on : BOOLEAN] /\ d.n = dis.n + 1
      /\ dis.n = 0 => (d.was <=> dis.on)
      /\ dis.n > 0 => (d.was <=> dis.was)
      /\ ~d.on
  <2>1. /\ dis.n = 0 => ~d.on
        /\ dis.n > 0 => (d.on <=> dis.on)
        /\ d \in [n : Nat, was : BOOLEAN, on : BOOLEAN] /\ d.n = dis.n + 1
        /\ dis.n = 0 => (d.was <=> dis.on)
        /\ dis.n > 0 => (d.was <=> dis.was)
    BY KeptTypes, NewFacts
  <2>2. dis.n = 0 \/ dis.n > 0
    BY <1>1
  <2>3. ~d.on
    BY <1>1, <2>1, <2>2, Zenon
  <2> QED  BY <2>1, <2>3, Zenon
<1>5. CASE I!DropEnables(d)
  <2>1. dis.n = 0 /\ d.n = 1 /\ dis.on
    BY <1>1, <1>4, <1>5 DEF I!DropEnables
  <2> DEFINE g == I!Frame("drop", 1, FALSE)
  <2>2. dis' = I!New(I!Dropped(d)) /\ stack' = <<g>> \o stack
    BY <1>5 DEF I!TryLockFails, I!Push
  <2>3. g \in Frames /\ g.kind = "drop" /\ g.locks = {} /\ g.plain = 1
    BY DEF I!Frame, Frames, Kinds
  <2> HIDE DEF d, g
  <2>4. /\ Len(stack) = 1 /\ stack[1].locks = {} /\ stack[1].plain = 0
        /\ booted /\ ~inInt
    BY <2>1, EnabledFacts
  <2>5. /\ stack' \in Seq(Frames) /\ Len(stack') = 2 /\ stack'[1] = g
        /\ stack'[2].kind = "thread" /\ stack'[2].locks = {} /\ stack'[2].plain = 0
    BY <2>2, <2>3, <2>4, PushOnThread
  <2>6. /\ dis' \in [n : Nat, was : BOOLEAN, on : BOOLEAN]
        /\ dis'.n = 1 /\ ~dis'.was /\ ~dis'.on
    BY <1>4, <2>1, <2>2, RegrabFacts
  <2>7. booted' /\ booted' \in BOOLEAN
    BY <1>3, <2>4, KeptTypes
  <2> QED  BY <1>3, <2>3, <2>4, <2>5, <2>6, <2>7, BeginDrop
<1>6. CASE ~I!DropEnables(d)
  <2>1. dis' = I!Dropped(d) /\ stack' = stack
    BY <1>6 DEF I!TryLockFails
  <2>2. dis.n = 0 => ~dis.on
    BY <1>1, <1>4, <1>6 DEF I!DropEnables
  <2> HIDE DEF d
  <2>3. /\ dis' \in [n : Nat, was : BOOLEAN, on : BOOLEAN]
        /\ dis'.n = dis.n
        /\ dis'.was <=> d.was
        /\ ~dis'.on
    <3>1. d.n > 0 /\ d.n - 1 = dis.n
      BY <1>1, <1>4
    <3>2. /\ I!Dropped(d) \in [n : Nat, was : BOOLEAN, on : BOOLEAN]
          /\ I!Dropped(d).n = d.n - 1
          /\ I!Dropped(d).was <=> d.was
          /\ I!Dropped(d).on <=> d.on
      BY <1>4, <3>1, DroppedFacts
    <3> QED  BY <1>4, <2>1, <3>1, <3>2
  <2> USE DEF CoreInv
  <2>4. CoreTypes' /\ Shape' /\ Held' /\ Interrupted'
    BY <1>3, <2>1, <2>3 DEF CoreTypes, Shape, Held, Interrupted, Under
  <2>5. Counted'
    BY <2>1, <2>3 DEF Counted
  <2>6. Flags'
    <3>1. Under' = Under
      BY <2>1 DEF Under
    <3>2. CASE dis.n = 0
      BY <1>2, <1>3, <1>4, <2>2, <2>3, <3>1, <3>2, NoGuards DEF Flags
    <3>3. CASE dis.n > 0
      BY <1>3, <1>4, <2>3, <3>1, <3>3 DEF Flags
    <3> QED  BY <1>1, <3>2, <3>3
  <2>7. SoftRunFirst'
    BY <2>3 DEF SoftRunFirst, I!SoftRunFirst
  <2> QED  BY <2>4, <2>5, <2>6, <2>7
<1> QED  BY <1>5, <1>6

\* enqueue_soft_interrupt: a function called at once holds a guard above a
\* thread; a queued one leaves everything else alone, and interrupts are off.
LEMMA EnqueueSoftStep ==
    ASSUME CoreInv, I!EnqueueSoft
    PROVE  CoreInv'
<1>1. UNCHANGED <<inInt, cur, savedIF, booted>>
  BY DEF I!EnqueueSoft
<1>2. CASE ~inInt /\ dis.on
  <2> DEFINE g == I!Frame("now", 1, FALSE)
  <2>1. dis' = I!New(dis) /\ stack' = <<g>> \o stack /\ soft' = soft
    BY <1>2 DEF I!EnqueueSoft, I!Push
  <2>2. g \in Frames /\ g.kind = "now" /\ g.locks = {} /\ g.plain = 1
    BY DEF I!Frame, Frames, Kinds
  <2> HIDE DEF g
  <2>7. IsFiniteSet(g.locks) /\ I!Guards(g) = 1
    BY <2>2, BareFrame
  <2>3. /\ dis.n = 0 /\ Len(stack) = 1 /\ stack[1].locks = {} /\ stack[1].plain = 0
        /\ booted /\ ~inInt
    BY <1>2, EnabledFacts
  <2>4. /\ stack' \in Seq(Frames) /\ Len(stack') = 2 /\ stack'[1] = g
        /\ stack'[2].kind = "thread" /\ stack'[2].locks = {} /\ stack'[2].plain = 0
    BY <2>1, <2>2, <2>3, PushOnThread
  <2>5. /\ dis' \in [n : Nat, was : BOOLEAN, on : BOOLEAN]
        /\ dis'.n = 1 /\ dis'.was /\ ~dis'.on
    BY <1>2, <2>1, <2>3, TakeFacts
  <2>6. /\ inInt' \in BOOLEAN /\ ~inInt' /\ booted' \in BOOLEAN /\ booted'
        /\ soft' \in Nat /\ cur' \in CoreThreads \cup {Idle}
        /\ savedIF' \in [CoreThreads -> BOOLEAN]
        /\ \A t \in CoreThreads : t # cur' => savedIF'[t]
    BY <1>1, <2>1, <2>3, KeptTypes
  <2> QED  BY <2>2, <2>4, <2>5, <2>6, <2>7, TwoFrames
<1>3. CASE ~(~inInt /\ dis.on)
  <2>1. soft' = soft + 1 /\ UNCHANGED <<dis, stack>>
    BY <1>3 DEF I!EnqueueSoft
  <2>2. ~dis.on
    BY <1>3, EnabledFacts
  <2>3. /\ CoreTypes' /\ Shape' /\ Held' /\ Counted' /\ Flags' /\ Interrupted'
    BY <1>1, <2>1 DEF CoreInv, CoreTypes, Shape, Held, Counted, Flags, Interrupted, Under
  <2>4. SoftRunFirst'
    BY <2>1, <2>2 DEF SoftRunFirst, I!SoftRunFirst
  <2> QED  BY <2>3, <2>4 DEF CoreInv
<1> QED  BY <1>2, <1>3

\* A call or an interrupt above a thread, which has no guard.
LEMMA MiddleFrame ==
    ASSUME CoreInv, stack[1].kind \notin {"thread", "soft"}
    PROVE  /\ Len(stack) = 2 /\ Under = stack[1]
           /\ stack[2].kind = "thread" /\ stack[2].locks = {} /\ stack[2].plain = 0
           /\ dis.n = I!Guards(stack[1])
  <1>1. /\ stack \in Seq(Frames) /\ Len(stack) \in 1..3
        /\ I!Guards(stack[1]) \in Nat
    BY TopFacts
  <1>2. Len(stack) = 2
    BY <1>1 DEF CoreInv, Shape
  <1> QED  BY <1>1, <1>2 DEF CoreInv, Shape, Held, Counted, Under

\* It gives way to another, ...
LEMMA ReplaceMiddle ==
    ASSUME CoreInv, stack[1].kind \notin {"thread", "soft"},
           NEW f \in Frames, stack' = <<f>> \o Tail(stack)
    PROVE  /\ stack' \in Seq(Frames) /\ Len(stack') = 2 /\ stack'[1] = f
           /\ stack'[2].kind = "thread" /\ stack'[2].locks = {} /\ stack'[2].plain = 0
  <1>1. stack \in Seq(Frames) /\ Len(stack) >= 1
    BY TopFacts
  <1>2. Len(stack) = 2 /\ stack[2].kind = "thread" /\ stack[2].locks = {} /\ stack[2].plain = 0
    BY MiddleFrame
  <1>3. /\ stack' \in Seq(Frames) /\ Len(stack') = Len(stack) /\ stack'[1] = f
        /\ \A i \in 2..Len(stack) : stack'[i] = stack[i]
    BY <1>1, SetTopStack
  <1>4. stack'[2] = stack[2] /\ Len(stack') = 2
    BY <1>2, <1>3
  <1> QED  BY <1>2, <1>3, <1>4, Zenon

\* ... or returns to the thread.
LEMMA ReturnMiddle ==
    ASSUME CoreInv, stack[1].kind \notin {"thread", "soft"}, stack' = Tail(stack)
    PROVE  /\ stack' \in Seq(Frames) /\ Len(stack') = 1
           /\ stack'[1].kind = "thread" /\ stack'[1].locks = {} /\ stack'[1].plain = 0
  <1>1. stack \in Seq(Frames) /\ Len(stack) >= 1
    BY TopFacts
  <1>2. Len(stack) = 2 /\ stack[2].kind = "thread" /\ stack[2].locks = {} /\ stack[2].plain = 0
    BY MiddleFrame
  <1>3. /\ Tail(stack) \in Seq(Frames) /\ Len(Tail(stack)) = Len(stack) - 1
        /\ \A i \in 1..(Len(stack) - 1) : Tail(stack)[i] = stack[i + 1]
    BY <1>1, TailStack
  <1>4. Tail(stack)[1] = stack[2] /\ Len(Tail(stack)) = 1
    BY <1>2, <1>3
  <1> QED  BY <1>2, <1>3, <1>4, Zenon

\* The function called at once returns: interrupts were enabled, so what is
\* pending runs.
LEMMA NowReturnsStep ==
    ASSUME CoreInv, I!NowReturns
    PROVE  CoreInv'
<1> DEFINE g == I!Frame("drop", 1, FALSE)
<1>1. I!Top = stack[1] /\ dis.n \in Nat
  BY TopFacts
<1>2. stack[1].kind = "now" /\ stack[1].locks = {} /\ stack[1].plain = 1
  BY <1>1 DEF I!NowReturns
<1>3. dis.n = 1 /\ Under = stack[1]
  BY <1>2, MiddleFrame, BareFrame
<1>4. /\ dis.was /\ ~dis.on /\ booted /\ ~inInt
  BY <1>2, <1>3 DEF CoreInv, Counted, Flags, Interrupted
<1>5. dis' = I!New(I!Dropped(dis)) /\ stack' = <<g>> \o Tail(stack)
  BY <1>3, <1>4 DEF I!NowReturns, I!DropEnables, I!SetTop
<1>6. g \in Frames /\ g.kind = "drop" /\ g.locks = {} /\ g.plain = 1
  BY DEF I!Frame, Frames, Kinds
<1> HIDE DEF g
<1>7. /\ stack' \in Seq(Frames) /\ Len(stack') = 2 /\ stack'[1] = g
      /\ stack'[2].kind = "thread" /\ stack'[2].locks = {} /\ stack'[2].plain = 0
  BY <1>2, <1>5, <1>6, ReplaceMiddle
<1>8. /\ dis' \in [n : Nat, was : BOOLEAN, on : BOOLEAN]
      /\ dis'.n = 1 /\ ~dis'.was /\ ~dis'.on
  BY <1>3, <1>4, <1>5, KeptTypes, RegrabFacts
<1>9. UNCHANGED <<inInt, soft, cur, savedIF, booted>>
  BY DEF I!NowReturns
<1>10. booted' /\ booted' \in BOOLEAN
  BY <1>4, <1>9, KeptTypes
<1> QED  BY <1>4, <1>6, <1>7, <1>8, <1>9, <1>10, BeginDrop

\* run_soft_interrupts calls a function, above a guard of its own.
LEMMA RunSoftStep ==
    ASSUME CoreInv, I!RunSoft
    PROVE  CoreInv'
<1> DEFINE g == I!Frame("soft", 0, FALSE)
<1>1. I!Top = stack[1] /\ stack \in Seq(Frames) /\ Len(stack) >= 1
  BY TopFacts
<1>2. stack[1].kind \in {"drop", "end", "boot"}
  BY <1>1 DEF I!RunSoft, I!Draining
<1>3. /\ soft' = soft - 1 /\ soft > 0 /\ stack' = <<g>> \o stack
      /\ UNCHANGED <<dis, inInt, cur, savedIF, booted>>
  BY DEF I!RunSoft, I!Push
<1>4. g \in Frames /\ g.kind = "soft" /\ g.locks = {} /\ g.plain = 0
  BY DEF I!Frame, Frames, Kinds
<1> HIDE DEF g
<1>5. IsFiniteSet(g.locks) /\ I!Guards(g) = 0
  BY <1>4, BareFrame
<1>6. /\ Len(stack) = 2 /\ Under = stack[1]
      /\ stack[2].kind = "thread" /\ stack[2].locks = {} /\ stack[2].plain = 0
      /\ stack[1].locks = {} /\ stack[1].plain = 1
      /\ dis.n = I!Guards(stack[1])
  <2>1. Under = stack[1]
    BY <1>2, MiddleFrame
  <2> QED  BY <1>2, <2>1, MiddleFrame DEF CoreInv, Held
<1>7. dis.n = 1
  BY <1>6, BareFrame
<1>8. /\ stack' \in Seq(Frames) /\ Len(stack') = 3
      /\ stack'[1] = g /\ stack'[2] = stack[1] /\ stack'[3] = stack[2]
  <2>1. /\ <<g>> \o stack \in Seq(Frames) /\ Len(<<g>> \o stack) = Len(stack) + 1
        /\ (<<g>> \o stack)[1] = g
        /\ \A i \in 1..Len(stack) : (<<g>> \o stack)[i + 1] = stack[i]
    BY <1>1, <1>4, PushStack
  <2> QED  BY <1>3, <1>6, <2>1
<1>9. Under' = Under
  BY <1>4, <1>6, <1>8 DEF Under
<1> USE DEF CoreInv
<1>10. CoreTypes'
  BY <1>3, <1>8 DEF CoreTypes
<1>11. Shape'
  BY <1>2, <1>4, <1>6, <1>8 DEF Shape
<1>12. Held'
  <2>1. \A i \in 2..Len(stack') : stack'[i].locks = {}
    BY <1>6, <1>8
  <2>2. IsFiniteSet(stack'[1].locks)
    BY <1>5, <1>8, Zenon
  <2>3. stack'[Len(stack')].plain = 0
    BY <1>6, <1>8
  <2> QED  BY <1>9, <2>1, <2>2, <2>3 DEF Held
<1>13. Counted'
  BY <1>3, <1>4, <1>5, <1>7, <1>8 DEF Counted
<1>14. Flags' /\ Interrupted'
  BY <1>3, <1>9 DEF Flags, Interrupted
<1>15. SoftRunFirst'
  BY <1>3, <1>7 DEF SoftRunFirst, I!SoftRunFirst, Counted
<1> QED  BY <1>10, <1>11, <1>12, <1>13, <1>14, <1>15

\* A soft interrupt returns without a guard.
LEMMA SoftReturnsStep ==
    ASSUME CoreInv, I!SoftReturns
    PROVE  CoreInv'
<1>1. I!Top = stack[1] /\ stack \in Seq(Frames) /\ Len(stack) >= 1 /\ Len(stack) \in 1..3
  BY TopFacts
<1>2. /\ stack[1].kind = "soft" /\ stack[1].locks = {} /\ stack[1].plain = 0
      /\ stack' = Tail(stack) /\ UNCHANGED <<dis, inInt, soft, cur, savedIF, booted>>
  BY <1>1 DEF I!SoftReturns
<1>3. /\ Len(stack) = 3 /\ Under = stack[2]
      /\ stack[2].kind \in {"drop", "end", "boot"}
      /\ stack[3].kind = "thread" /\ stack[3].locks = {} /\ stack[3].plain = 0
      /\ stack[2].locks = {} /\ stack[2].plain = 1
  <2>1. Len(stack) = 3 /\ Under = stack[2] /\ stack[2].kind \in {"drop", "end", "boot"}
    BY <1>1, <1>2 DEF CoreInv, Shape, Under
  <2> QED  BY <2>1 DEF CoreInv, Shape, Held
<1>4. I!Guards(stack[1]) = 0 /\ IsFiniteSet(stack[2].locks) /\ I!Guards(stack[2]) = 1
  BY <1>2, <1>3, BareFrame
<1>5. dis.n = 1
  BY <1>2, <1>4 DEF CoreInv, Counted
<1>6. /\ stack' \in Seq(Frames) /\ Len(stack') = 2
      /\ stack'[1] = stack[2] /\ stack'[2] = stack[3]
  <2>1. /\ Tail(stack) \in Seq(Frames) /\ Len(Tail(stack)) = Len(stack) - 1
        /\ \A i \in 1..(Len(stack) - 1) : Tail(stack)[i] = stack[i + 1]
    BY <1>1, TailStack
  <2>2. Len(stack) = 3
    BY <1>3
  <2>3. Len(Tail(stack)) = 2 /\ Tail(stack)[1] = stack[2] /\ Tail(stack)[2] = stack[3]
    <3>1. /\ 1 \in 1..(Len(stack) - 1) /\ 2 \in 1..(Len(stack) - 1)
          /\ 1 + 1 = 2 /\ 2 + 1 = 3 /\ Len(stack) - 1 = 2
      BY <2>2
    <3> QED  BY <2>1, <3>1, Zenon
  <2> QED  BY <1>2, <2>1, <2>3, Zenon
<1>7. Under' = Under
  BY <1>3, <1>6 DEF Under
<1> USE DEF CoreInv
<1>8. CoreTypes'
  BY <1>2, <1>6 DEF CoreTypes
<1>9. Shape'
  BY <1>3, <1>6 DEF Shape
<1>10. Held'
  <2>1. \A i \in 2..Len(stack') : stack'[i].locks = {}
    BY <1>3, <1>6
  <2>2. IsFiniteSet(stack'[1].locks)
    BY <1>4, <1>6, Zenon
  <2>3. stack'[Len(stack')].plain = 0
    BY <1>3, <1>6
  <2> QED  BY <1>7, <2>1, <2>2, <2>3 DEF Held
<1>11. Counted'
  <2>1. I!Guards(stack'[1]) = 1
    BY <1>4, <1>6, Zenon
  <2>2. stack'[1].kind # "soft"
    BY <1>3, <1>6
  <2>3. dis' = dis /\ ~dis.on
    BY <1>2, <1>5 DEF Counted
  <2>4. dis'.n = 1 /\ ~dis'.on
    BY <1>5, <2>3
  <2> QED  BY <2>1, <2>2, <2>4 DEF Counted
<1>12. Flags' /\ Interrupted'
  BY <1>2, <1>7 DEF Flags, Interrupted
<1>13. SoftRunFirst'
  BY <1>2, <1>5 DEF SoftRunFirst, I!SoftRunFirst, Counted
<1> QED  BY <1>8, <1>9, <1>10, <1>11, <1>12, <1>13

\* The queue is empty and the guard of run_soft_interrupts is the last: the
\* assertion holds and interrupts are enabled.
LEMMA DropDoneStep ==
    ASSUME CoreInv, I!DropDone
    PROVE  CoreInv'
<1>1. I!Top = stack[1]
  BY TopFacts
<1>2. stack[1].kind = "drop" /\ soft = 0 /\ UNCHANGED <<inInt, soft, cur, savedIF, booted>>
  BY <1>1 DEF I!DropDone
<1>3. Under = stack[1]
  BY <1>2, MiddleFrame
<1>4. stack[1].locks = {} /\ stack[1].plain = 1
  BY <1>2, <1>3 DEF CoreInv, Held
<1>5. dis.n = 1
  BY <1>2, <1>4, MiddleFrame, BareFrame
<1>6. ~dis.was /\ booted /\ ~inInt
  BY <1>2, <1>3 DEF CoreInv, Flags, Interrupted
<1>7. dis' = [I!Dropped(dis) EXCEPT !.on = TRUE] /\ stack' = Tail(stack)
  BY <1>5, <1>6 DEF I!DropDone, I!DropEnables
<1>8. /\ stack' \in Seq(Frames) /\ Len(stack') = 1
      /\ stack'[1].kind = "thread" /\ stack'[1].locks = {} /\ stack'[1].plain = 0
  BY <1>2, <1>7, ReturnMiddle
<1>9. /\ dis' \in [n : Nat, was : BOOLEAN, on : BOOLEAN] /\ dis'.n = 0 /\ dis'.on
  <2>1. I!Dropped(dis) \in [n : Nat, was : BOOLEAN, on : BOOLEAN] /\ I!Dropped(dis).n = 0
    BY <1>5, KeptTypes, DroppedFacts
  <2> QED  BY <1>7, <2>1
<1>10. /\ inInt' \in BOOLEAN /\ ~inInt' /\ booted' \in BOOLEAN /\ booted'
       /\ soft' \in Nat /\ soft' = 0 /\ cur' \in CoreThreads \cup {Idle}
       /\ savedIF' \in [CoreThreads -> BOOLEAN]
       /\ \A t \in CoreThreads : t # cur' => savedIF'[t]
  BY <1>2, <1>6, KeptTypes
<1> QED  BY <1>8, <1>9, <1>10, OneFrame

\* init_phase_1 enables interrupts and takes a guard for run_soft_interrupts.
LEMMA BootStep ==
    ASSUME CoreInv, I!Boot
    PROVE  CoreInv'
<1> DEFINE g == I!Frame("boot", 1, FALSE)
           d == [dis EXCEPT !.on = TRUE]
<1>1. I!Top = stack[1] /\ Len(stack) \in 1..3
  BY TopFacts
<1>2. /\ ~booted /\ stack[1].kind = "thread" /\ dis.n = 0 /\ ~inInt
      /\ dis' = I!New(d) /\ stack' = <<g>> \o stack
      /\ UNCHANGED <<inInt, soft, cur, savedIF, booted>>
  BY <1>1 DEF I!Boot, I!Push
<1>3. Len(stack) = 1 /\ stack[1].locks = {} /\ stack[1].plain = 0
  BY <1>1, <1>2, NoGuards DEF CoreInv, Shape
<1>4. g \in Frames /\ g.kind = "boot" /\ g.locks = {} /\ g.plain = 1
  BY DEF I!Frame, Frames, Kinds
<1>5. d \in [n : Nat, was : BOOLEAN, on : BOOLEAN] /\ d.n = 0 /\ d.on
  BY <1>2, KeptTypes
<1> HIDE DEF g, d
<1>6. IsFiniteSet(g.locks) /\ I!Guards(g) = 1
  BY <1>4, BareFrame
<1>7. /\ stack' \in Seq(Frames) /\ Len(stack') = 2 /\ stack'[1] = g
      /\ stack'[2].kind = "thread" /\ stack'[2].locks = {} /\ stack'[2].plain = 0
  BY <1>2, <1>3, <1>4, PushOnThread
<1>8. /\ dis' \in [n : Nat, was : BOOLEAN, on : BOOLEAN]
      /\ dis'.n = 1 /\ dis'.was /\ ~dis'.on
  BY <1>2, <1>5, NewFacts
<1>9. /\ inInt' \in BOOLEAN /\ ~inInt' /\ booted' \in BOOLEAN /\ ~booted'
      /\ soft' \in Nat /\ cur' \in CoreThreads \cup {Idle}
      /\ savedIF' \in [CoreThreads -> BOOLEAN]
      /\ \A t \in CoreThreads : t # cur' => savedIF'[t]
  BY <1>2, KeptTypes
<1> QED  BY <1>4, <1>6, <1>7, <1>8, <1>9, TwoFrames

\* The boot's guard is the last, and it was taken with interrupts enabled.
LEMMA BootDoneStep ==
    ASSUME CoreInv, I!BootDone
    PROVE  CoreInv'
<1> DEFINE g == I!Frame("drop", 1, FALSE)
<1>1. I!Top = stack[1]
  BY TopFacts
<1>2. stack[1].kind = "boot" /\ booted' = TRUE /\ UNCHANGED <<inInt, soft, cur, savedIF>>
  BY <1>1 DEF I!BootDone
<1>3. Under = stack[1]
  BY <1>2, MiddleFrame
<1>4. stack[1].locks = {} /\ stack[1].plain = 1
  BY <1>2, <1>3 DEF CoreInv, Held
<1>5. dis.n = 1
  BY <1>2, <1>4, MiddleFrame, BareFrame
<1>6. dis.was /\ ~dis.on /\ ~inInt
  BY <1>2, <1>3, <1>5 DEF CoreInv, Counted, Flags, Interrupted
<1>7. dis' = I!New(I!Dropped(dis)) /\ stack' = <<g>> \o Tail(stack)
  BY <1>5, <1>6 DEF I!BootDone, I!DropEnables, I!SetTop
<1>8. g \in Frames /\ g.kind = "drop" /\ g.locks = {} /\ g.plain = 1
  BY DEF I!Frame, Frames, Kinds
<1> HIDE DEF g
<1>9. /\ stack' \in Seq(Frames) /\ Len(stack') = 2 /\ stack'[1] = g
      /\ stack'[2].kind = "thread" /\ stack'[2].locks = {} /\ stack'[2].plain = 0
  BY <1>2, <1>7, <1>8, ReplaceMiddle
<1>10. /\ dis' \in [n : Nat, was : BOOLEAN, on : BOOLEAN]
       /\ dis'.n = 1 /\ ~dis'.was /\ ~dis'.on
  BY <1>5, <1>6, <1>7, KeptTypes, RegrabFacts
<1>11. booted' /\ booted' \in BOOLEAN
  BY <1>2
<1> QED  BY <1>2, <1>6, <1>8, <1>9, <1>10, <1>11, BeginDrop

\* An interrupt comes while interrupts are enabled, so nobody holds
\* IRQ_HANDLERS.
LEMMA IrqStep ==
    ASSUME CoreInv, I!Irq
    PROVE  CoreInv'
<1> DEFINE g == [I!Frame("irq", 0, TRUE) EXCEPT !.locks = {IrqHandlers}]
           d == [dis EXCEPT !.on = FALSE]
<1>1. I!Top = stack[1]
  BY TopFacts
<1>2. dis.on /\ inInt' = TRUE /\ dis' = I!New(d) /\ UNCHANGED <<soft, cur, savedIF, booted>>
  BY DEF I!Irq
<1>3. /\ dis.n = 0 /\ Len(stack) = 1 /\ stack[1].locks = {} /\ stack[1].plain = 0
      /\ booted
  BY <1>2, EnabledFacts
<1>4. IrqHandlers \notin I!HeldBelow \cup I!Top.locks
  BY <1>1, <1>3 DEF I!HeldBelow
<1>5. stack' = <<g>> \o stack
  BY <1>4 DEF I!Irq, I!Push
<1>6. /\ g \in Frames /\ g.kind = "irq" /\ g.locks = {IrqHandlers} /\ g.plain = 0
      /\ g.iret
  BY CoreAssumption DEF I!InterruptsAssumption, I!Frame, Frames, Kinds
<1>7. d \in [n : Nat, was : BOOLEAN, on : BOOLEAN] /\ d.n = 0 /\ ~d.on
  BY <1>3, KeptTypes
<1> HIDE DEF g, d
<1>8. IsFiniteSet(g.locks) /\ I!Guards(g) = 1
  <2>1. Cardinality({IrqHandlers}) = 1 /\ IsFiniteSet({IrqHandlers})
    BY FS_Singleton
  <2>2. I!Guards(g) = Cardinality(g.locks) + g.plain
    BY GuardsDef
  <2> QED  BY <1>6, <2>1, <2>2
<1>9. /\ stack' \in Seq(Frames) /\ Len(stack') = 2 /\ stack'[1] = g
      /\ stack'[2].kind = "thread" /\ stack'[2].locks = {} /\ stack'[2].plain = 0
  BY <1>3, <1>5, <1>6, PushOnThread
<1>10. /\ dis' \in [n : Nat, was : BOOLEAN, on : BOOLEAN]
       /\ dis'.n = 1 /\ ~dis'.was /\ ~dis'.on
  BY <1>2, <1>7, NewFacts
<1>11. /\ inInt' \in BOOLEAN /\ inInt' /\ booted' \in BOOLEAN /\ booted'
       /\ soft' \in Nat /\ cur' \in CoreThreads \cup {Idle}
       /\ savedIF' \in [CoreThreads -> BOOLEAN]
       /\ \A t \in CoreThreads : t # cur' => savedIF'[t]
  BY <1>2, <1>3, KeptTypes
<1> QED  BY <1>6, <1>8, <1>9, <1>10, <1>11, TwoFrames

\* IRQ_HANDLERS was locked with interrupts already off, so unlocking it
\* enables nothing.
LEMMA IrqHandledStep ==
    ASSUME CoreInv, I!IrqHandled
    PROVE  CoreInv'
<1> DEFINE g == I!Frame("handled", 0, stack[1].iret)
<1>1. I!Top = stack[1]
  BY TopFacts
<1>2. /\ stack[1].kind = "irq" /\ stack[1].locks = {IrqHandlers} /\ stack[1].plain = 0
      /\ UNCHANGED <<inInt, soft, cur, savedIF, booted>>
  BY <1>1 DEF I!IrqHandled
<1>3. Under = stack[1]
  BY <1>2, MiddleFrame
<1>4. dis.n = 1
  <2>1. IrqHandlers \in SpinLocks
    BY CoreAssumption DEF I!InterruptsAssumption
  <2>2. I!Guards(stack[1]) = stack[1].plain + 1
    BY <1>2, <2>1, TopFacts, GuardsOf
  <2> QED  BY <1>2, <2>2, MiddleFrame
<1>5. ~dis.was /\ ~dis.on /\ booted /\ inInt /\ stack[1].iret
  BY <1>2, <1>3, <1>4 DEF CoreInv, Counted, Flags, Interrupted
<1>6. dis' = I!Dropped(dis) /\ stack' = <<g>> \o Tail(stack)
  BY <1>1, <1>5 DEF I!IrqHandled, I!DropGuard, I!DropEnables, I!SetTop
<1>7. g \in Frames /\ g.kind = "handled" /\ g.locks = {} /\ g.plain = 0 /\ g.iret
  BY <1>5, TopFacts DEF I!Frame, Frames, Kinds
<1> HIDE DEF g
<1>8. IsFiniteSet(g.locks) /\ I!Guards(g) = 0
  BY <1>7, BareFrame
<1>9. /\ stack' \in Seq(Frames) /\ Len(stack') = 2 /\ stack'[1] = g
      /\ stack'[2].kind = "thread" /\ stack'[2].locks = {} /\ stack'[2].plain = 0
  BY <1>2, <1>6, <1>7, ReplaceMiddle
<1>10. /\ dis' \in [n : Nat, was : BOOLEAN, on : BOOLEAN]
       /\ dis'.n = 0 /\ ~dis'.on
  BY <1>4, <1>6, GiveFacts
<1>11. /\ inInt' \in BOOLEAN /\ inInt' /\ booted' \in BOOLEAN /\ booted'
       /\ soft' \in Nat /\ cur' \in CoreThreads \cup {Idle}
       /\ savedIF' \in [CoreThreads -> BOOLEAN]
       /\ \A t \in CoreThreads : t # cur' => savedIF'[t]
  BY <1>2, <1>5, KeptTypes
<1> QED  BY <1>7, <1>8, <1>9, <1>10, <1>11, TwoFrames

\* end_interrupt takes a guard, with interrupts off.
LEMMA EndInterruptStep ==
    ASSUME CoreInv, I!EndInterrupt
    PROVE  CoreInv'
<1> DEFINE g == I!Frame("end", 1, stack[1].iret)
<1>1. I!Top = stack[1]
  BY TopFacts
<1>2. /\ stack[1].kind \in {"handled", "switched"}
      /\ dis' = I!New(dis) /\ stack' = <<g>> \o Tail(stack)
      /\ UNCHANGED <<inInt, soft, cur, savedIF, booted>>
  BY <1>1 DEF I!EndInterrupt, I!SetTop
<1>3. Under = stack[1]
  BY <1>2, MiddleFrame
<1>4. stack[1].locks = {} /\ stack[1].plain = 0
  BY <1>2, <1>3 DEF CoreInv, Held
<1>5. dis.n = 0
  BY <1>2, <1>4, MiddleFrame, BareFrame
<1>6. ~dis.on /\ booted /\ inInt /\ stack[1].iret
  BY <1>2, <1>3 DEF CoreInv, Flags, Interrupted
<1>7. g \in Frames /\ g.kind = "end" /\ g.locks = {} /\ g.plain = 1 /\ g.iret
  BY <1>6, TopFacts DEF I!Frame, Frames, Kinds
<1> HIDE DEF g
<1>8. IsFiniteSet(g.locks) /\ I!Guards(g) = 1
  BY <1>7, BareFrame
<1>9. /\ stack' \in Seq(Frames) /\ Len(stack') = 2 /\ stack'[1] = g
      /\ stack'[2].kind = "thread" /\ stack'[2].locks = {} /\ stack'[2].plain = 0
  BY <1>2, <1>7, ReplaceMiddle
<1>10. /\ dis' \in [n : Nat, was : BOOLEAN, on : BOOLEAN]
       /\ dis'.n = 1 /\ ~dis'.was /\ ~dis'.on
  BY <1>2, <1>5, <1>6, TakeFacts
<1>11. /\ inInt' \in BOOLEAN /\ inInt' /\ booted' \in BOOLEAN /\ booted'
       /\ soft' \in Nat /\ cur' \in CoreThreads \cup {Idle}
       /\ savedIF' \in [CoreThreads -> BOOLEAN]
       /\ \A t \in CoreThreads : t # cur' => savedIF'[t]
  BY <1>2, <1>6, KeptTypes
<1> QED  BY <1>7, <1>8, <1>9, <1>10, <1>11, TwoFrames

\* iretq goes back to a thread or to hlt, and enables interrupts in each case.
LEMMA EndInterruptDoneStep ==
    ASSUME CoreInv, I!EndInterruptDone
    PROVE  CoreInv'
<1>1. I!Top = stack[1]
  BY TopFacts
<1>2. /\ stack[1].kind = "end" /\ soft = 0 /\ inInt' = FALSE
      /\ UNCHANGED <<soft, savedIF, booted>>
  BY <1>1 DEF I!EndInterruptDone
<1>3. Under = stack[1]
  BY <1>2, MiddleFrame
<1>4. stack[1].locks = {} /\ stack[1].plain = 1
  BY <1>2, <1>3 DEF CoreInv, Held
<1>5. dis.n = 1
  BY <1>2, <1>4, MiddleFrame, BareFrame
<1>6. booted /\ inInt /\ stack[1].iret
  BY <1>2, <1>3 DEF CoreInv, Flags, Interrupted
<1>7. PICK t \in IF cur = Idle THEN CoreThreads \cup {Idle} ELSE {cur} :
        /\ cur' = t
        /\ dis' = [I!Dropped(dis) EXCEPT !.on =
                    IF cur = Idle THEN t = Idle \/ savedIF[t] ELSE I!Top.iret]
        /\ stack' = Tail(stack)
  BY <1>6 DEF I!EndInterruptDone
<1>8. /\ stack' \in Seq(Frames) /\ Len(stack') = 1
      /\ stack'[1].kind = "thread" /\ stack'[1].locks = {} /\ stack'[1].plain = 0
  BY <1>2, <1>7, ReturnMiddle
<1>9. /\ cur' \in CoreThreads \cup {Idle}
      /\ \A u \in CoreThreads : u # cur' => savedIF'[u]
  BY <1>2, <1>7, KeptTypes, CoreAssumption DEF I!InterruptsAssumption
<1> DEFINE b == IF cur = Idle THEN t = Idle \/ savedIF[t] ELSE I!Top.iret
<1>10. b = TRUE
  <2>1. CASE cur = Idle
    <3>1. CASE t = Idle
      BY <2>1, <3>1
    <3>2. CASE t # Idle
      <4>1. t \in CoreThreads /\ t # cur
        BY <1>7, <2>1, <3>2
      <4>2. savedIF[t]
        BY <4>1, KeptTypes
      <4> QED  BY <2>1, <4>2
    <3> QED  BY <3>1, <3>2
  <2>2. CASE cur # Idle
    <3>1. stack[1].iret = TRUE
      BY <1>6, TopFacts DEF Frames
    <3> QED  BY <1>1, <2>2, <3>1
  <2> QED  BY <2>1, <2>2
<1>11. dis' = [I!Dropped(dis) EXCEPT !.on = b]
  BY <1>7
<1> HIDE DEF b
<1>12. dis' \in [n : Nat, was : BOOLEAN, on : BOOLEAN] /\ dis'.n = 0 /\ dis'.on
  <2>1. I!Dropped(dis) \in [n : Nat, was : BOOLEAN, on : BOOLEAN] /\ I!Dropped(dis).n = 0
    BY <1>5, KeptTypes, DroppedFacts
  <2> QED  BY <1>10, <1>11, <2>1
<1>13. /\ inInt' \in BOOLEAN /\ ~inInt' /\ booted' \in BOOLEAN /\ booted'
       /\ soft' \in Nat /\ soft' = 0
       /\ savedIF' \in [CoreThreads -> BOOLEAN]
  BY <1>2, <1>6, KeptTypes
<1> QED  BY <1>8, <1>9, <1>12, <1>13, OneFrame

\* A context switch finds the thread's own lock as the one guard, and leaves
\* the interrupt flag the thread had in its saved registers.
LEMMA SuspendStep ==
    ASSUME CoreInv, I!Suspend
    PROVE  CoreInv'
<1> DEFINE d == I!New(dis)
           e == I!ForceRemainDisabled(d)
           r == I!Dropped(e)
<1>1. I!Top = stack[1]
  BY TopFacts
<1>2. /\ stack[1].kind = "thread" /\ Len(stack) = 1 /\ cur # Idle /\ booted
      /\ stack[1].locks = {} /\ stack[1].plain = 0
      /\ UNCHANGED <<soft, booted>>
  BY <1>1 DEF I!Suspend
<1>3. PICK t \in CoreThreads \cup {Idle} :
        /\ cur' = t
        /\ savedIF' = [savedIF EXCEPT ![cur] = I!SavedFlag(d)]
        /\ inInt' = TRUE
        /\ dis' = I!Dropped(I!New(r))
        /\ stack' = <<IF d.n = 1 /\ ~I!DropEnables(e)
                      THEN I!Frame("switched", 0, t = Idle \/ savedIF'[t])
                      ELSE I!Frame("panic", 0, FALSE)>> \o stack
  BY DEF I!Suspend, I!Push
<1>4. dis.n = 0 /\ dis.on /\ Under = stack[1]
  <2>1. I!Guards(stack[1]) = 0
    BY <1>2, BareFrame
  <2>2. dis.n = 0 /\ Under = stack[1]
    BY <1>2, <2>1 DEF CoreInv, Counted, Under
  <2> QED  BY <1>2, <2>2 DEF CoreInv, Flags
<1>5. d \in [n : Nat, was : BOOLEAN, on : BOOLEAN] /\ d.n = 1 /\ d.was /\ ~d.on
  <2>1. /\ d \in [n : Nat, was : BOOLEAN, on : BOOLEAN] /\ d.n = dis.n + 1
        /\ d.was <=> dis.on
        /\ ~d.on
    BY <1>4, KeptTypes, NewFacts
  <2> QED  BY <1>4, <2>1
<1>6. d.was = TRUE
  BY <1>5
<1> HIDE DEF d
<1>7. /\ e \in [n : Nat, was : BOOLEAN, on : BOOLEAN] /\ e.n = 1 /\ ~e.was /\ ~e.on
      /\ ~I!DropEnables(e)
  <2>1. e = [d EXCEPT !.was = FALSE]
    BY DEF I!ForceRemainDisabled
  <2>2. e \in [n : Nat, was : BOOLEAN, on : BOOLEAN] /\ e.n = 1 /\ ~e.was /\ ~e.on
    BY <1>5, <2>1
  <2> QED  BY <2>2 DEF I!DropEnables
<1> HIDE DEF e
<1>8. r \in [n : Nat, was : BOOLEAN, on : BOOLEAN] /\ r.n = 0 /\ ~r.on
  BY <1>7, DroppedFacts
<1> HIDE DEF r
<1>9. /\ I!New(r) \in [n : Nat, was : BOOLEAN, on : BOOLEAN]
      /\ I!New(r).n = 1 /\ ~I!New(r).on
  BY <1>8, NewFacts
<1>10. dis' \in [n : Nat, was : BOOLEAN, on : BOOLEAN] /\ dis'.n = 0 /\ ~dis'.on
  BY <1>3, <1>9, DroppedFacts
<1>11. /\ savedIF' \in [CoreThreads -> BOOLEAN]
       /\ \A u \in CoreThreads : savedIF'[u] = TRUE
  <2>1. /\ savedIF \in [CoreThreads -> BOOLEAN] /\ cur \in CoreThreads
        /\ \A u \in CoreThreads : u # cur => savedIF[u]
    BY <1>2, KeptTypes
  <2>2. savedIF' = [savedIF EXCEPT ![cur] = TRUE]
    BY <1>3, <1>6 DEF I!SavedFlag
  <2> QED  BY <2>1, <2>2
<1> DEFINE b == (t = Idle \/ savedIF'[t])
           g == I!Frame("switched", 0, b)
<1>12. b = TRUE
  BY <1>11
<1>13. stack' = <<g>> \o stack
  BY <1>3, <1>5, <1>7
<1> HIDE DEF b
<1>14. g \in Frames /\ g.kind = "switched" /\ g.locks = {} /\ g.plain = 0 /\ g.iret
  BY <1>12 DEF I!Frame, Frames, Kinds
<1> HIDE DEF g
<1>15. IsFiniteSet(g.locks) /\ I!Guards(g) = 0
  BY <1>14, BareFrame
<1>16. /\ stack' \in Seq(Frames) /\ Len(stack') = 2 /\ stack'[1] = g
       /\ stack'[2].kind = "thread" /\ stack'[2].locks = {} /\ stack'[2].plain = 0
  BY <1>2, <1>13, <1>14, PushOnThread
<1>17. /\ inInt' \in BOOLEAN /\ inInt' /\ booted' \in BOOLEAN /\ booted'
       /\ soft' \in Nat /\ cur' \in CoreThreads \cup {Idle}
       /\ \A u \in CoreThreads : u # cur' => savedIF'[u]
  BY <1>2, <1>3, <1>11, KeptTypes
<1> QED  BY <1>10, <1>11, <1>14, <1>15, <1>16, <1>17, TwoFrames

-----------------------------------------------------------------------------
(* The theorems                                                            *)

\* The boot processor starts in the invariant.
LEMMA InitCore == I!Init => CoreInv
  <1> SUFFICES ASSUME I!Init PROVE CoreInv
    OBVIOUS
  <1> DEFINE f == I!Frame("thread", 0, FALSE)
  <1>1. /\ dis = [n |-> 0, was |-> FALSE, on |-> FALSE] /\ stack = <<f>>
        /\ inInt = FALSE /\ soft = 0 /\ cur = BootThread /\ booted = FALSE
        /\ savedIF = [t \in CoreThreads |-> t # BootThread]
    BY DEF I!Init
  <1>2. f \in Frames /\ f.kind = "thread" /\ f.locks = {} /\ f.plain = 0
    BY DEF I!Frame, Frames, Kinds
  <1> HIDE DEF f
  <1>3. IsFiniteSet(f.locks) /\ I!Guards(f) = 0
    BY <1>2, BareFrame
  <1>4. stack \in Seq(Frames) /\ Len(stack) = 1 /\ stack[1] = f
    BY <1>1, <1>2
  <1>5. Under = f
    BY <1>2, <1>4 DEF Under
  <1>6. CoreTypes
    BY <1>1, <1>4, CoreAssumption DEF CoreTypes, I!InterruptsAssumption
  <1>7. Shape
    BY <1>2, <1>4 DEF Shape
  <1>10. Held
    <2>1. IsFiniteSet(stack[1].locks) /\ \A i \in 2..Len(stack) : FALSE
      BY <1>3, <1>4
    <2> QED  BY <1>2, <1>4, <1>5, <2>1 DEF Held
  <1>8. Counted /\ Flags
    BY <1>1, <1>2, <1>3, <1>4, <1>5 DEF Counted, Flags
  <1>9. Interrupted /\ SoftRunFirst
    BY <1>1, <1>2, <1>5 DEF Interrupted, SoftRunFirst, I!SoftRunFirst
  <1> QED  BY <1>6, <1>7, <1>8, <1>9, <1>10 DEF CoreInv

\* Every action of the core preserves it.
LEMMA NextCore == CoreInv /\ [I!Next]_(I!vars) => CoreInv'
  <1> SUFFICES ASSUME CoreInv, [I!Next]_(I!vars) PROVE CoreInv'
    OBVIOUS
  <1>1. CASE I!NewGuard  BY <1>1, NewGuardStep
  <1>2. CASE I!DropPlain  BY <1>2, DropPlainStep
  <1>3. ASSUME NEW k \in SpinLocks, I!Lock(k) PROVE CoreInv'  BY <1>3, LockStep
  <1>4. ASSUME NEW k \in SpinLocks, I!Unlock(k) PROVE CoreInv'  BY <1>4, UnlockStep
  <1>5. CASE I!TryLockFails  BY <1>5, TryLockFailsStep
  <1>6. CASE I!EnqueueSoft  BY <1>6, EnqueueSoftStep
  <1>7. CASE I!NowReturns  BY <1>7, NowReturnsStep
  <1>8. CASE I!RunSoft  BY <1>8, RunSoftStep
  <1>9. CASE I!SoftReturns  BY <1>9, SoftReturnsStep
  <1>10. CASE I!DropDone  BY <1>10, DropDoneStep
  <1>11. CASE I!Boot  BY <1>11, BootStep
  <1>12. CASE I!BootDone  BY <1>12, BootDoneStep
  <1>13. CASE I!Irq  BY <1>13, IrqStep
  <1>14. CASE I!IrqHandled  BY <1>14, IrqHandledStep
  <1>15. CASE I!EndInterrupt  BY <1>15, EndInterruptStep
  <1>16. CASE I!EndInterruptDone  BY <1>16, EndInterruptDoneStep
  <1>17. CASE I!Suspend  BY <1>17, SuspendStep
  <1>18. CASE UNCHANGED I!vars
    BY <1>18 DEF I!vars, CoreInv, CoreTypes, Shape, Held, Counted, Flags,
                 Interrupted, SoftRunFirst, I!SoftRunFirst, Under, I!Guards, I!Cardinality
  <1> QED
    BY <1>1, <1>2, <1>3, <1>4, <1>5, <1>6, <1>7, <1>8, <1>9, <1>10, <1>11,
       <1>12, <1>13, <1>14, <1>15, <1>16, <1>17, <1>18 DEF I!Next

\* The guards on the stack add up to those of the innermost frame and the one
\* under a soft interrupt: FoldGuards, unfolded for the three depths there are.
LEMMA FoldOne ==
    ASSUME CoreInv
    PROVE  I!FoldGuards = dis.n
<1>1. /\ stack \in Seq(Frames) /\ Len(stack) \in 1..3 /\ I!Guards(stack[1]) \in Nat
  BY TopFacts
<1> DEFINE G(g) == [i \in 0..Len(stack) |->
                     IF i = 0 THEN 0 ELSE g[i - 1] + I!Guards(stack[i])]
           w == [i \in 0..Len(stack) |-> IF i = 0 THEN 0
                    ELSE IF i = 1 THEN I!Guards(stack[1])
                    ELSE IF i = 2 THEN I!Guards(stack[1]) + I!Guards(stack[2])
                    ELSE I!Guards(stack[1]) + I!Guards(stack[2]) + I!Guards(stack[3])]
           c == CHOOSE g : g = G(g)
<1>2. w = G(w)
  BY <1>1
<1>3. c = G(c)
  BY <1>2
<1>4. I!FoldGuards = c[Len(stack)]
  BY DEF I!FoldGuards
<1> HIDE DEF c, w
<1>5. c = [i \in 0..Len(stack) |->
            IF i = 0 THEN 0 ELSE c[i - 1] + I!Guards(stack[i])]
  BY <1>3
<1>6. /\ c[0] = 0
      /\ \A i \in 1..Len(stack) : c[i] = c[i - 1] + I!Guards(stack[i])
  BY <1>1, <1>5
<1>7. c[1] = I!Guards(stack[1])
  BY <1>1, <1>6
<1>8. dis.n = I!Guards(stack[1]) + (IF stack[1].kind = "soft" THEN 1 ELSE 0)
  BY DEF CoreInv, Counted
<1>9. CASE Len(stack) = 1
  <2>1. stack[1].kind = "thread"
    BY <1>9 DEF CoreInv, Shape
  <2> QED  BY <1>1, <1>4, <1>7, <1>8, <1>9, <2>1
<1>10. CASE Len(stack) = 2
  <2>1. /\ stack[1].kind # "soft" /\ stack[2].locks = {} /\ stack[2].plain = 0
    BY <1>10 DEF CoreInv, Shape, Held
  <2>2. I!Guards(stack[2]) = 0
    BY <2>1, BareFrame
  <2>3. c[2] = c[1] + I!Guards(stack[2])
    <3>1. 2 \in 1..Len(stack) /\ 2 - 1 = 1
      BY <1>10
    <3> QED  BY <1>6, <3>1, Zenon
  <2> QED  BY <1>1, <1>4, <1>7, <1>8, <1>10, <2>1, <2>2, <2>3
<1>11. CASE Len(stack) = 3
  <2>1. /\ stack[1].kind = "soft" /\ stack[2].kind \in {"drop", "end", "boot"}
        /\ Under = stack[2]
    BY <1>11 DEF CoreInv, Shape, Under
  <2>2. /\ stack[2].locks = {} /\ stack[2].plain = 1
        /\ stack[3].locks = {} /\ stack[3].plain = 0
    BY <1>11, <2>1 DEF CoreInv, Held
  <2>3. I!Guards(stack[2]) = 1 /\ I!Guards(stack[3]) = 0
    BY <2>2, BareFrame
  <2>4. c[2] = c[1] + I!Guards(stack[2]) /\ c[3] = c[2] + I!Guards(stack[3])
    <3>1. 2 \in 1..Len(stack) /\ 2 - 1 = 1 /\ 3 \in 1..Len(stack) /\ 3 - 1 = 2
      BY <1>11
    <3> QED  BY <1>6, <3>1, Zenon
  <2> QED  BY <1>1, <1>4, <1>7, <1>8, <1>11, <2>1, <2>3, <2>4
<1> QED  BY <1>1, <1>9, <1>10, <1>11

\* CoreInv is an invariant of a core: calls nest at most three deep, only the
\* innermost holds spinlocks, and the counter and the interrupt flag follow.
THEOREM CoreInvariance == I!Spec => []CoreInv
  BY InitCore, NextCore, PTL DEF I!Spec

\* No assertion of InterruptDisabler or of a context switch fails and no code
\* waits for a spinlock that what it interrupts holds, for any spinlocks and
\* threads and however soft interrupts are queued.
THEOREM GuardsNeverPanic == I!Spec => []NoGuardPanic
  <1>1. ASSUME CoreInv PROVE NoGuardPanic
    <2>1. stack \in Seq(Frames)
      BY <1>1, TopFacts
    <2>2. ASSUME NEW i \in 1..Len(stack) PROVE stack[i].kind # "panic"
      <3>1. stack[i] \in Frames
        BY <2>1
      <3> QED  BY <3>1 DEF Frames, Kinds
    <2> QED  BY <2>2 DEF NoGuardPanic, I!NoPanic
  <1> QED  BY <1>1, CoreInvariance, PTL

\* INTERRUPT_DISABLER_STATE counts the guards that exist on the core, no
\* interrupt comes while there is one, and a thread that has none gets its
\* interrupts back.
THEOREM GuardsExact == I!Spec => []InterruptsFollowGuards
  <1>1. ASSUME CoreInv PROVE InterruptsFollowGuards
    <2>1. I!GuardsCounted
      BY <1>1, FoldOne DEF I!GuardsCounted, CoreInv, Counted
    <2>2. I!InterruptsRestored
      <3> SUFFICES ASSUME booted, Len(stack) = 1, I!Top.kind = "thread",
                          I!Guards(I!Top) = 0
                   PROVE  dis.on /\ ~inInt
        BY DEF I!InterruptsRestored
      <3>1. stack[1].kind = "thread" /\ I!Guards(stack[1]) = 0
        BY <1>1, TopFacts
      <3>2. Under = stack[1] /\ dis.n = 0
        BY <1>1, <3>1 DEF CoreInv, Counted, Under
      <3> QED  BY <1>1, <3>1, <3>2 DEF CoreInv, Flags, Interrupted
    <2> QED  BY <2>1, <2>2 DEF InterruptsFollowGuards, I!InterruptsFollowGuards
  <1> QED  BY <1>1, CoreInvariance, PTL

\* Whenever a booted core has interrupts enabled, run_soft_interrupts has
\* emptied the queue.
THEOREM SoftAlwaysRunFirst == I!Spec => []SoftRunFirst
  <1>1. CoreInv => SoftRunFirst
    BY DEF CoreInv
  <1> QED  BY <1>1, CoreInvariance, PTL

-----------------------------------------------------------------------------
(* The mutex                                                               *)

USE MutexAssumption

\* The words the mutex stores are those of the enumeration MutexLockState.
LEMMA WordOwner ==
    ASSUME NEW w \in Words
    PROVE  /\ w.owner \in Threads \cup {None}
           /\ w.tag \in {"Unlocked", "NoWaiters", "WithWaiters", "WaitersLocked"}
           /\ w.owner = None <=> w.tag = "Unlocked"
           /\ w = [tag |-> w.tag, owner |-> w.owner]
  BY DEF Words, Unlocked, LockedNoWaiters, LockedWithWaiters, LockedWaitersLocked

\* Seen words: what from_usize makes of a stored word.
SeenWords == Words \cup {LockedWaitersLocked(Mangled(t)) : t \in Threads}

LEMMA FromUsizeType ==
    ASSUME NEW w \in Words
    PROVE  /\ FromUsize(w) \in SeenWords
           /\ \A t \in Threads : FromUsize(w).owner = t => w.owner = t
  <1>1. CASE w.tag = "WaitersLocked"
    <2>1. w.owner \in Threads  BY <1>1, WordOwner
    <2>2. FromUsize(w) = LockedWaitersLocked(Mangled(w.owner))  BY <1>1 DEF FromUsize
    <2>3. FromUsize(w).owner = Mangled(w.owner)  BY <2>2 DEF LockedWaitersLocked
    <2> QED  BY <2>1, <2>2, <2>3 DEF SeenWords
  <1>2. CASE w.tag # "WaitersLocked"
    BY <1>2 DEF FromUsize, SeenWords
  <1> QED  BY <1>1, <1>2

\* The four kinds of words are stored words, and their owner is the thread.
LEMMA WordForms ==
    /\ Unlocked \in Words /\ Unlocked.owner = None
    /\ \A t \in Threads :
        /\ LockedNoWaiters(t) \in Words /\ LockedNoWaiters(t).owner = t
        /\ LockedWithWaiters(t) \in Words /\ LockedWithWaiters(t).owner = t
        /\ LockedWaitersLocked(t) \in Words /\ LockedWaitersLocked(t).owner = t
  BY DEF Words, Unlocked, LockedNoWaiters, LockedWithWaiters, LockedWaitersLocked

\* The inductive invariant: types, and the word names the holder of the guard.
\* Mutual exclusion alone is not inductive: a thread about to take the mutex
\* must know from the word that nobody else has it.
IInv == TypeOK /\ OwnerNamed

\* A compare_exchange that fails changes only what the thread has seen.
LEMMA FailsType ==
    ASSUME TypeOK, NEW t \in Threads, NEW a, Fails(t, a)
    PROVE  seen' \in [Threads -> SeenWords] /\ word' = word
  BY FromUsizeType DEF TypeOK, Fails, SeenWords

\* MutexLock::new establishes the invariant.
LEMMA InitIInv == Init => IInv
  <1> SUFFICES ASSUME Init PROVE IInv
    OBVIOUS
  <1>1. Cardinality(Threads) \in Nat  BY FS_CardinalityType
  <1>2. readyQ \in [1..Cardinality(Threads) -> Threads]  BY DEF Init
  <1>3. readyQ \in Seq(Threads)  BY <1>1, <1>2
  <1> QED  BY <1>3, WordForms DEF Init, IInv, TypeOK, OwnerNamed, Holds, PCs

\* Every step of the mutex and of the scheduler preserves the invariant.
LEMMA NextIInv == IInv /\ [Next]_vars => IInv'
  <1> SUFFICES ASSUME IInv, [Next]_vars PROVE IInv'
    OBVIOUS
  <1> USE DEF Goto, CompareExchange, sched
  <1>t. TypeOK /\ OwnerNamed  BY DEF IInv
  <1>0. CASE UNCHANGED vars
    BY <1>0, <1>t DEF vars, IInv, TypeOK, OwnerNamed, Holds
  <1>1. ASSUME NEW t \in Threads, Acquire(t) PROVE IInv'
    <2>1. CASE word = Unlocked /\ word' = LockedNoWaiters(t)
      BY <1>1, <1>t, <2>1, WordForms DEF Acquire, Fails, IInv, TypeOK, OwnerNamed, Holds, PCs
    <2>2. CASE Fails(t, Unlocked)
      BY <1>1, <1>t, <2>2, FailsType DEF Acquire, Fails, IInv, TypeOK, OwnerNamed, Holds, PCs, SeenWords
    <2> QED  BY <1>1, <2>1, <2>2 DEF Acquire
  <1>2. ASSUME NEW t \in Threads, TryAcquire(t) PROVE IInv'
    BY <1>2, <1>t, WordForms DEF TryAcquire, IInv, TypeOK, OwnerNamed, Holds, PCs
  <1>3. ASSUME NEW t \in Threads, SlowRetry(t) PROVE IInv'
    <2>1. CASE word = Unlocked /\ word' = LockedNoWaiters(t)
      BY <1>3, <1>t, <2>1, WordForms DEF SlowRetry, Fails, IInv, TypeOK, OwnerNamed, Holds, PCs
    <2>2. CASE Fails(t, Unlocked)
      BY <1>3, <1>t, <2>2, FailsType DEF SlowRetry, Fails, IInv, TypeOK, OwnerNamed, Holds, PCs, SeenWords
    <2> QED  BY <1>3, <2>1, <2>2 DEF SlowRetry
  <1>4. ASSUME NEW t \in Threads, SlowLockList(t) PROVE IInv'
    <2>1. CASE word = seen[t] /\ word' = LockedWaitersLocked(seen[t].owner)
      <3>1. seen[t].owner \in Threads /\ seen[t].owner = word.owner
        BY <1>4, <1>t, <2>1, WordOwner DEF SlowLockList, TypeOK
      <3>2. word' \in Words /\ word'.owner = word.owner  BY <2>1, <3>1, WordForms
      <3> QED  BY <1>4, <1>t, <2>1, <3>2 DEF SlowLockList, Fails, IInv, TypeOK, OwnerNamed, Holds, PCs
    <2>2. CASE Fails(t, seen[t])
      BY <1>4, <1>t, <2>2, FailsType DEF SlowLockList, Fails, IInv, TypeOK, OwnerNamed, Holds, PCs, SeenWords
    <2> QED  BY <1>4, <2>1, <2>2 DEF SlowLockList
  <1>5. ASSUME NEW t \in Threads, SlowSpin(t) PROVE IInv'
    <2>1. seen' \in [Threads -> SeenWords]
      BY <1>5, <1>t, FromUsizeType DEF SlowSpin, TypeOK, SeenWords
    <2> QED  BY <1>5, <1>t, <2>1 DEF SlowSpin, IInv, TypeOK, OwnerNamed, Holds, SeenWords
  <1>6. ASSUME NEW t \in Threads, Enqueue(t) PROVE IInv'
    <2>1. waitQ' \in Seq(Threads)  BY <1>6, <1>t DEF Enqueue, TypeOK
    <2> QED  BY <1>6, <1>t, <2>1 DEF Enqueue, IInv, TypeOK, OwnerNamed, Holds, PCs
  <1>7. ASSUME NEW t \in Threads, UnlockList(t) PROVE IInv'
    <2>1. CASE word = LockedWaitersLocked(seen[t].owner) /\ word' = LockedWithWaiters(seen[t].owner)
      <3>1. word.owner = seen[t].owner /\ word.tag = "WaitersLocked"
        BY <2>1 DEF LockedWaitersLocked
      <3>2. seen[t].owner \in Threads  BY <3>1, <1>t, WordOwner DEF TypeOK
      <3>3. word' \in Words /\ word'.owner = word.owner  BY <2>1, <3>1, <3>2, WordForms
      <3> QED  BY <1>7, <1>t, <2>1, <3>3 DEF UnlockList, IInv, TypeOK, OwnerNamed, Holds, PCs
    <2>2. CASE UNCHANGED word
      BY <1>7, <1>t, <2>2 DEF UnlockList, IInv, TypeOK, OwnerNamed, Holds, PCs
    <2> QED  BY <1>7, <2>1, <2>2 DEF UnlockList
  <1>8. ASSUME NEW t \in Threads, Suspend(t) PROVE IInv'
    BY <1>8, <1>t DEF Suspend, IInv, TypeOK, OwnerNamed, Holds, PCs
  <1>9. ASSUME NEW t \in Threads, AwaitOwner(t) PROVE IInv'
    BY <1>9, <1>t DEF AwaitOwner, IInv, TypeOK, OwnerNamed, Holds, PCs
  <1>10. ASSUME NEW t \in Threads, CheckOwner(t) PROVE IInv'
    <2>1. FromUsize(word).owner = t => word.owner = t
      BY <1>t, FromUsizeType DEF TypeOK
    <2> QED  BY <1>10, <1>t, <2>1 DEF CheckOwner, IInv, TypeOK, OwnerNamed, Holds, PCs
  <1>11. ASSUME NEW t \in Threads, Release(t) PROVE IInv'
    <2>1. CASE word = LockedNoWaiters(t) /\ word' = Unlocked
      BY <1>11, <1>t, <2>1, WordForms DEF Release, Fails, IInv, TypeOK, OwnerNamed, Holds, PCs
    <2>2. CASE Fails(t, LockedNoWaiters(t))
      BY <1>11, <1>t, <2>2, FailsType DEF Release, Fails, IInv, TypeOK, OwnerNamed, Holds, PCs, SeenWords
    <2> QED  BY <1>11, <2>1, <2>2 DEF Release
  <1>12. ASSUME NEW t \in Threads, ReleaseLockList(t) PROVE IInv'
    <2>1. CASE word = LockedWithWaiters(t) /\ word' = LockedWaitersLocked(t)
      BY <1>12, <1>t, <2>1, WordForms DEF ReleaseLockList, Fails, IInv, TypeOK, OwnerNamed, Holds, PCs
    <2>2. CASE Fails(t, LockedWithWaiters(t))
      BY <1>12, <1>t, <2>2, FailsType DEF ReleaseLockList, Fails, IInv, TypeOK, OwnerNamed, Holds, PCs, SeenWords
    <2> QED  BY <1>12, <2>1, <2>2 DEF ReleaseLockList
  <1>13. ASSUME NEW t \in Threads, ReleasePanic(t) PROVE IInv'
    BY <1>13, <1>t DEF ReleasePanic, IInv, TypeOK, OwnerNamed, Holds, PCs
  <1>14. ASSUME NEW t \in Threads, WakeOne(t) PROVE IInv'
    <2>1. CASE waitQ = <<>>
      BY <1>14, <1>t, <2>1 DEF WakeOne, IInv, TypeOK, OwnerNamed, Holds, PCs
    <2>2. CASE waitQ # <<>>
      <3>1. Head(waitQ) \in Threads /\ Tail(waitQ) \in Seq(Threads)
        BY <1>t, <2>2, HeadTailProperties DEF TypeOK
      <3> DEFINE w == Head(waitQ)
      <3>2. /\ pc[t] = "wake" /\ pc[w] = "asleep"
            /\ pc' = [pc EXCEPT ![t] = "store", ![w] = "woken"]
            /\ next' = [next EXCEPT ![t] = w]
            /\ waitQ' = Tail(waitQ)
            /\ readyQ' = Append(readyQ, w)
            /\ UNCHANGED <<word, seen, running>>
        BY <1>14, <2>2 DEF WakeOne
      <3> HIDE DEF w
      <3>3. readyQ' \in Seq(Threads) /\ next' \in [Threads -> Threads \cup {None}]
        BY <1>t, <3>1, <3>2 DEF TypeOK, w
      <3>4. pc' \in [Threads -> PCs]  BY <1>t, <3>2 DEF TypeOK, PCs
      <3>5. \A s \in Threads : Holds(s)' => Holds(s)
        BY <1>t, <3>2 DEF TypeOK, Holds, PCs
      <3> QED  BY <1>t, <3>1, <3>2, <3>3, <3>4, <3>5 DEF IInv, TypeOK, OwnerNamed
    <2> QED  BY <2>1, <2>2
  <1>15. ASSUME NEW t \in Threads, Store(t) PROVE IInv'
    <2>1. word' \in Words  BY <1>15, <1>t, WordForms DEF Store, NewWord, TypeOK
    <2>2. word.owner = t /\ \A s \in Threads : Holds(s) => s = t
      BY <1>15, <1>t DEF Store, OwnerNamed, Holds
    <2> QED  BY <1>15, <1>t, <2>1, <2>2 DEF Store, IInv, TypeOK, OwnerNamed, Holds, PCs
  <1>16. ASSUME NEW t \in Threads, Yield(t) PROVE IInv'
    <2>1. readyQ' \in Seq(Threads)  BY <1>16, <1>t DEF Yield, TypeOK
    <2> QED  BY <1>16, <1>t, <2>1 DEF Yield, IInv, TypeOK, OwnerNamed, Holds, PCs
  <1>17. CASE Dispatch
    <2>1. Head(readyQ) \in Threads /\ Tail(readyQ) \in Seq(Threads)
      BY <1>17, <1>t, HeadTailProperties DEF Dispatch, TypeOK
    <2> QED  BY <1>17, <1>t, <2>1 DEF Dispatch, IInv, TypeOK, OwnerNamed, Holds
  <1> HIDE DEF IInv
  <1> QED
    BY <1>0, <1>1, <1>2, <1>3, <1>4, <1>5, <1>6, <1>7, <1>8, <1>9, <1>10, <1>11,
       <1>12, <1>13, <1>14, <1>15, <1>16, <1>17 DEF Next, AcquireStep, ReleaseStep

\* The mutex keeps its types, and the word names the holder of the guard.
THEOREM HolderNamed == Spec => []IInv
  BY InitIInv, NextIInv, PTL DEF Spec

\* Mutual exclusion: two threads never have a guard at once, however many
\* cores and threads there are.
THEOREM Exclusion == Spec => []MutualExclusion
  <1>1. IInv => MutualExclusion
    BY DEF IInv, OwnerNamed, MutualExclusion
  <1> QED  BY <1>1, HolderNamed, PTL

-----------------------------------------------------------------------------
(* No waiter is forgotten                                                  *)

\* The invariant of the wait list: how the list may be used, and that the
\* word announces whoever sleeps.
LInv == IInv /\ WaitListGuarded /\ WaitersAnnounced

\* A step that leaves the word and the list alone, and moves one thread
\* between places outside of the list's users, preserves the invariant.
LEMMA ListUntouched ==
    ASSUME LInv, IInv', NEW t \in Threads, NEW p \in PCs,
           word' = word, waitQ' = waitQ, next' = next,
           \A s \in Threads : s # t => seen'[s] = seen[s],
           pc' = [pc EXCEPT ![t] = p],
           ~UsesList(t), ~Queued(t),
           p \notin {"enqueue", "unlock", "wake", "store", "suspend", "asleep"}
    PROVE  LInv'
  <1>1. WaitListGuarded /\ WaitersAnnounced /\ TypeOK  BY DEF LInv, IInv
  <1>2. /\ pc'[t] = p
        /\ \A s \in Threads : s # t => pc'[s] = pc[s]
    BY <1>1 DEF TypeOK
  <1>3. \A s \in Threads : UsesList(s)' => UsesList(s) /\ s # t
    BY <1>2 DEF UsesList
  <1>4. \A s \in Threads : Queued(s)' <=> Queued(s)
    BY <1>2 DEF Queued
  <1>5. WaitListGuarded'
    <2>1. \A s \in Threads : pc'[s] \in {"enqueue", "unlock"} =>
                pc[s] \in {"enqueue", "unlock"} /\ s # t
      BY <1>2
    <2>2. \A s \in Threads : pc'[s] = "store" => pc[s] = "store"
      BY <1>2
    <2> QED  BY <1>1, <1>3, <1>4, <2>1, <2>2 DEF WaitListGuarded
  <1>6. WaitersAnnounced'
    BY <1>1, <1>2 DEF WaitersAnnounced
  <1> QED  BY <1>5, <1>6 DEF LInv

\* MutexLock::new establishes it.
LEMMA InitLInv == Init => LInv
  BY InitIInv DEF Init, LInv, WaitListGuarded, WaitersAnnounced, UsesList, Queued

\* Every step preserves it.
LEMMA NextLInv == LInv /\ IInv' /\ [Next]_vars => LInv'
  <1> SUFFICES ASSUME LInv, IInv', [Next]_vars PROVE LInv'
    OBVIOUS
  <1> USE DEF Goto, CompareExchange, sched
  <1>t. TypeOK /\ OwnerNamed /\ WaitListGuarded /\ WaitersAnnounced
    BY DEF LInv, IInv
  <1>0. CASE UNCHANGED vars
    BY <1>0, <1>t DEF vars, LInv, WaitListGuarded, WaitersAnnounced, UsesList, Queued
  <1>1. ASSUME NEW t \in Threads, Acquire(t) PROVE LInv'
    <2>1. CASE word = Unlocked /\ word' = LockedNoWaiters(t)
      <3>1. \A s \in Threads : ~UsesList(s) /\ pc[s] \notin {"suspend", "asleep"}
        BY <1>t, <2>1 DEF WaitListGuarded, WaitersAnnounced, Unlocked
      <3>2. pc' = [pc EXCEPT ![t] = "in"] /\ waitQ' = waitQ /\ next' = next
        BY <1>1, <2>1 DEF Acquire, Fails
      <3> QED  BY <1>t, <3>1, <3>2 DEF LInv, WaitListGuarded, WaitersAnnounced, UsesList, Queued, TypeOK, PCs
    <2>2. CASE word' = word
      <3>1. pc' = [pc EXCEPT ![t] = "slow"] /\ waitQ' = waitQ /\ next' = next
        BY <1>1, <1>t, <2>2 DEF Acquire, Fails, TypeOK, Unlocked, LockedNoWaiters
      <3>2. \A s \in Threads : s # t => seen'[s] = seen[s]
        BY <1>1, <1>t DEF Acquire, Fails, TypeOK
      <3> QED  BY <1>1, <2>2, <3>1, <3>2, ListUntouched DEF Acquire, UsesList, Queued, PCs
    <2> QED  BY <1>1, <2>1, <2>2 DEF Acquire, Fails
  <1>2. ASSUME NEW t \in Threads, TryAcquire(t) PROVE LInv'
    <2>1. \A s \in Threads : ~UsesList(s) /\ pc[s] \notin {"suspend", "asleep"}
      BY <1>2, <1>t DEF TryAcquire, WaitListGuarded, WaitersAnnounced, Unlocked
    <2>2. pc' = [pc EXCEPT ![t] = "in"] /\ waitQ' = waitQ /\ next' = next
      BY <1>2 DEF TryAcquire
    <2> QED  BY <1>t, <2>1, <2>2 DEF LInv, WaitListGuarded, WaitersAnnounced, UsesList, Queued, TypeOK, PCs
  <1>3. ASSUME NEW t \in Threads, SlowRetry(t) PROVE LInv'
    <2>1. CASE word = Unlocked /\ word' = LockedNoWaiters(t)
      <3>1. \A s \in Threads : ~UsesList(s) /\ pc[s] \notin {"suspend", "asleep"}
        BY <1>t, <2>1 DEF WaitListGuarded, WaitersAnnounced, Unlocked
      <3>2. pc' = [pc EXCEPT ![t] = "in"] /\ waitQ' = waitQ /\ next' = next
        BY <1>3, <2>1 DEF SlowRetry, Fails
      <3> QED  BY <1>t, <3>1, <3>2 DEF LInv, WaitListGuarded, WaitersAnnounced, UsesList, Queued, TypeOK, PCs
    <2>2. CASE word' = word
      <3>1. pc' = [pc EXCEPT ![t] = "slow"] /\ waitQ' = waitQ /\ next' = next
        BY <1>3, <1>t, <2>2 DEF SlowRetry, Fails, TypeOK, Unlocked, LockedNoWaiters
      <3>2. \A s \in Threads : s # t => seen'[s] = seen[s]
        BY <1>3, <1>t DEF SlowRetry, Fails, TypeOK
      <3> QED  BY <1>3, <2>2, <3>1, <3>2, ListUntouched DEF SlowRetry, UsesList, Queued, PCs
    <2> QED  BY <1>3, <2>1, <2>2 DEF SlowRetry, Fails
  <1>4. ASSUME NEW t \in Threads, SlowLockList(t) PROVE LInv'
    <2>1. CASE word = seen[t] /\ word' = LockedWaitersLocked(seen[t].owner)
      <3>1. \A s \in Threads : ~UsesList(s)
        BY <1>4, <1>t, <2>1 DEF SlowLockList, WaitListGuarded
      <3>2. /\ pc' = [pc EXCEPT ![t] = "enqueue"] /\ pc[t] = "slow"
            /\ waitQ' = waitQ /\ next' = next /\ seen' = seen
        BY <1>4, <2>1 DEF SlowLockList, Fails
      <3>3. word'.tag = "WaitersLocked"  BY <2>1 DEF LockedWaitersLocked
      <3>4. WaitersAnnounced'  BY <3>3 DEF WaitersAnnounced
      <3>5. WaitListGuarded'
        BY <1>t, <2>1, <3>1, <3>2, <3>3 DEF WaitListGuarded, UsesList, Queued, TypeOK, PCs
      <3> QED  BY <3>4, <3>5 DEF LInv
    <2>2. CASE Fails(t, seen[t])
      <3>1. pc' = [pc EXCEPT ![t] = "slow"] /\ waitQ' = waitQ /\ next' = next /\ word' = word
        BY <1>4, <1>t, <2>2 DEF SlowLockList, Fails, TypeOK
      <3>2. \A s \in Threads : s # t => seen'[s] = seen[s]
        BY <1>t, <2>2 DEF Fails, TypeOK
      <3> QED  BY <1>4, <3>1, <3>2, ListUntouched DEF SlowLockList, UsesList, Queued, PCs
    <2> QED  BY <1>4, <2>1, <2>2 DEF SlowLockList
  <1>5. ASSUME NEW t \in Threads, SlowSpin(t) PROVE LInv'
    <2>1. pc' = [pc EXCEPT ![t] = "slow"] /\ waitQ' = waitQ /\ next' = next /\ word' = word
      BY <1>5, <1>t DEF SlowSpin, TypeOK
    <2>2. \A s \in Threads : s # t => seen'[s] = seen[s]
      BY <1>5, <1>t DEF SlowSpin, TypeOK
    <2> QED  BY <1>5, <2>1, <2>2, ListUntouched DEF SlowSpin, UsesList, Queued, PCs
  <1>6. ASSUME NEW t \in Threads, Enqueue(t) PROVE LInv'
    <2>1. /\ pc[t] = "enqueue" /\ pc' = [pc EXCEPT ![t] = "unlock"]
          /\ waitQ' = Append(waitQ, t)
          /\ word' = word /\ next' = next /\ seen' = seen
      BY <1>6 DEF Enqueue
    <2>2. pc'[t] = "unlock" /\ \A s \in Threads : s # t => pc'[s] = pc[s]
      BY <1>t, <2>1 DEF TypeOK
    <2>3. /\ Len(waitQ') = Len(waitQ) + 1 /\ Len(waitQ) \in Nat
          /\ waitQ'[Len(waitQ) + 1] = t
          /\ \A i \in 1..Len(waitQ) : waitQ'[i] = waitQ[i] /\ waitQ[i] # t
      <3>1. ~Queued(t)  BY <2>1 DEF Queued
      <3> QED  BY <1>t, <2>1, <3>1 DEF TypeOK, WaitListGuarded
    <2>4. \A s \in Threads : Queued(s)' <=> \E i \in 1..Len(waitQ') : waitQ'[i] = s
      <3> SUFFICES ASSUME NEW s \in Threads
                   PROVE  Queued(s)' <=> \E i \in 1..Len(waitQ') : waitQ'[i] = s
        OBVIOUS
      <3>1. CASE s = t  BY <2>2, <2>3, <3>1 DEF Queued
      <3>2. CASE s # t
        <4>1. Queued(s)' <=> Queued(s)  BY <2>2, <3>2 DEF Queued
        <4>2. Queued(s) <=> \E i \in 1..Len(waitQ) : waitQ[i] = s
          BY <1>t DEF WaitListGuarded
        <4> QED  BY <2>3, <3>2, <4>1, <4>2
      <3> QED  BY <3>1, <3>2
    <2>5. \A i, j \in 1..Len(waitQ') : waitQ'[i] = waitQ'[j] => i = j
      <3>1. \A i, j \in 1..Len(waitQ) : waitQ[i] = waitQ[j] => i = j
        BY <1>t DEF WaitListGuarded
      <3> QED  BY <2>3, <3>1
    <2>6. \A s \in Threads : UsesList(s)' => UsesList(s)
      BY <2>1, <2>2 DEF UsesList
    <2>7. \A s \in Threads : ~(pc'[s] = "store")
      <3>1. \A s \in Threads : UsesList(s) => s = t
        BY <1>t, <2>1 DEF WaitListGuarded, UsesList
      <3> QED  BY <2>2, <3>1 DEF UsesList
    <2>8. word.tag = "WaitersLocked"
      BY <1>t, <2>1 DEF WaitListGuarded, UsesList
    <2>9. \A s \in Threads : pc'[s] \in {"enqueue", "unlock"} =>
                word' = LockedWaitersLocked(seen'[s].owner)
      BY <1>t, <2>1, <2>2 DEF WaitListGuarded
    <2>10. WaitListGuarded'
      BY <1>t, <2>1, <2>4, <2>5, <2>6, <2>7, <2>8, <2>9 DEF WaitListGuarded
    <2> QED  BY <2>1, <2>8, <2>10 DEF LInv, WaitersAnnounced
  <1>7. ASSUME NEW t \in Threads, UnlockList(t) PROVE LInv'
    <2>1. pc[t] = "unlock" /\ word = LockedWaitersLocked(seen[t].owner)
      BY <1>7, <1>t DEF UnlockList, WaitListGuarded
    <2>2. /\ word' = LockedWithWaiters(seen[t].owner)
          /\ pc' = [pc EXCEPT ![t] = "suspend"]
          /\ waitQ' = waitQ /\ next' = next /\ seen' = seen
      BY <1>7, <2>1 DEF UnlockList
    <2>3. word'.tag = "WithWaiters"  BY <2>2 DEF LockedWithWaiters
    <2>4. \A s \in Threads : UsesList(s) => s = t
      BY <1>t, <2>1 DEF WaitListGuarded, UsesList
    <2>5. \A s \in Threads : ~UsesList(s)' /\ (Queued(s)' <=> Queued(s))
      BY <1>t, <2>1, <2>2, <2>4 DEF UsesList, Queued, TypeOK
    <2>6. WaitListGuarded'
      BY <1>t, <2>2, <2>5 DEF WaitListGuarded, UsesList
    <2> QED  BY <2>3, <2>6 DEF LInv, WaitersAnnounced
  <1>8. ASSUME NEW t \in Threads, Suspend(t) PROVE LInv'
    <2>1. /\ pc[t] = "suspend" /\ pc' = [pc EXCEPT ![t] = "asleep"]
          /\ word' = word /\ waitQ' = waitQ /\ next' = next /\ seen' = seen
      BY <1>8 DEF Suspend
    <2>2. \A s \in Threads : (UsesList(s)' <=> UsesList(s)) /\ (Queued(s)' <=> Queued(s))
      BY <1>t, <2>1 DEF UsesList, Queued, TypeOK
    <2>3. WaitListGuarded'
      <3>1. \A s \in Threads : s # t => pc'[s] = pc[s]  BY <1>t, <2>1 DEF TypeOK
      <3>2. pc'[t] = "asleep"  BY <1>t, <2>1 DEF TypeOK
      <3> QED  BY <1>t, <2>1, <2>2, <3>1, <3>2 DEF WaitListGuarded
    <2> QED  BY <1>t, <2>1, <2>3 DEF LInv, WaitersAnnounced
  <1>9. ASSUME NEW t \in Threads, AwaitOwner(t) PROVE LInv'
    <2>1. /\ pc[t] = "woken" /\ pc' = [pc EXCEPT ![t] = "check"]
          /\ word' = word /\ waitQ' = waitQ /\ next' = next /\ seen' = seen
      BY <1>9 DEF AwaitOwner
    <2> QED  BY <2>1, ListUntouched DEF UsesList, Queued, PCs
  <1>10. ASSUME NEW t \in Threads, CheckOwner(t) PROVE LInv'
    <2>1. PICK p \in {"in", "panic"} :
            /\ pc[t] = "check" /\ pc' = [pc EXCEPT ![t] = p]
            /\ word' = word /\ waitQ' = waitQ /\ next' = next /\ seen' = seen
      BY <1>10 DEF CheckOwner
    <2> QED  BY <2>1, ListUntouched DEF UsesList, Queued, PCs
  <1>11. ASSUME NEW t \in Threads, Release(t) PROVE LInv'
    <2>1. CASE word = LockedNoWaiters(t) /\ word' = Unlocked
      <3>1. \A s \in Threads : ~UsesList(s) /\ pc[s] \notin {"suspend", "asleep"}
        BY <1>t, <2>1 DEF WaitListGuarded, WaitersAnnounced, LockedNoWaiters
      <3>2. pc' = [pc EXCEPT ![t] = "out"] /\ waitQ' = waitQ /\ next' = next
        BY <1>11, <2>1 DEF Release, Fails
      <3> QED  BY <1>11, <1>t, <3>1, <3>2 DEF Release, LInv, WaitListGuarded, WaitersAnnounced, UsesList, Queued, TypeOK, PCs
    <2>2. CASE Fails(t, LockedNoWaiters(t))
      <3>1. /\ pc[t] = "in" /\ pc' = [pc EXCEPT ![t] = "release"]
            /\ waitQ' = waitQ /\ next' = next /\ word' = word
        BY <1>11, <2>2 DEF Release, Fails
      <3>2. \A s \in Threads : s # t => seen'[s] = seen[s]
        BY <1>t, <2>2 DEF Fails, TypeOK
      <3> QED  BY <3>1, <3>2, ListUntouched DEF UsesList, Queued, PCs
    <2> QED  BY <1>11, <2>1, <2>2 DEF Release
  <1>12. ASSUME NEW t \in Threads, ReleaseLockList(t) PROVE LInv'
    <2>1. CASE word = LockedWithWaiters(t) /\ word' = LockedWaitersLocked(t)
      <3>1. \A s \in Threads : ~UsesList(s)
        BY <1>t, <2>1 DEF WaitListGuarded, LockedWithWaiters
      <3>2. /\ pc' = [pc EXCEPT ![t] = "wake"] /\ pc[t] = "release"
            /\ waitQ' = waitQ /\ next' = next /\ seen' = seen
        BY <1>12, <2>1 DEF ReleaseLockList, Fails
      <3>3. word'.tag = "WaitersLocked"  BY <2>1 DEF LockedWaitersLocked
      <3>4. WaitersAnnounced'  BY <3>3 DEF WaitersAnnounced
      <3>5. WaitListGuarded'
        BY <1>t, <3>1, <3>2, <3>3 DEF WaitListGuarded, UsesList, Queued, TypeOK, PCs
      <3> QED  BY <3>4, <3>5 DEF LInv
    <2>2. CASE Fails(t, LockedWithWaiters(t))
      <3>1. /\ pc[t] = "release" /\ pc' = [pc EXCEPT ![t] = "release"]
            /\ waitQ' = waitQ /\ next' = next /\ word' = word
        BY <1>12, <1>t, <2>2 DEF ReleaseLockList, Fails, TypeOK
      <3>2. \A s \in Threads : s # t => seen'[s] = seen[s]
        BY <1>t, <2>2 DEF Fails, TypeOK
      <3> QED  BY <3>1, <3>2, ListUntouched DEF UsesList, Queued, PCs
    <2> QED  BY <1>12, <2>1, <2>2 DEF ReleaseLockList
  <1>13. ASSUME NEW t \in Threads, ReleasePanic(t) PROVE LInv'
    <2>1. /\ pc[t] = "release" /\ pc' = [pc EXCEPT ![t] = "panic"]
          /\ word' = word /\ waitQ' = waitQ /\ next' = next /\ seen' = seen
      BY <1>13 DEF ReleasePanic
    <2> QED  BY <2>1, ListUntouched DEF UsesList, Queued, PCs
  <1>14. ASSUME NEW t \in Threads, WakeOne(t) PROVE LInv'
    <2>0. /\ pc[t] = "wake" /\ word' = word /\ seen' = seen
      BY <1>14 DEF WakeOne
    <2>a. word.tag = "WaitersLocked" /\ \A s \in Threads : UsesList(s) => s = t
      BY <1>t, <2>0 DEF WaitListGuarded, UsesList
    <2>b. WaitersAnnounced'  BY <2>0, <2>a DEF WaitersAnnounced
    <2>1. CASE waitQ = <<>>
      <3>1. /\ pc' = [pc EXCEPT ![t] = "store"] /\ next' = [next EXCEPT ![t] = None]
            /\ waitQ' = waitQ
        BY <1>14, <2>1 DEF WakeOne
      <3>2. WaitListGuarded'
        BY <1>t, <2>0, <2>1, <2>a, <3>1 DEF WaitListGuarded, UsesList, Queued, TypeOK, PCs
      <3> QED  BY <2>b, <3>2 DEF LInv
    <2>2. CASE waitQ # <<>>
      <3>1. Head(waitQ) \in Threads /\ Tail(waitQ) \in Seq(Threads)
        BY <1>t, <2>2, HeadTailProperties DEF TypeOK
      <3> DEFINE w == Head(waitQ)
      <3>2. /\ pc[w] = "asleep"
            /\ pc' = [pc EXCEPT ![t] = "store", ![w] = "woken"]
            /\ next' = [next EXCEPT ![t] = w]
            /\ waitQ' = Tail(waitQ)
        BY <1>14, <2>2 DEF WakeOne
      <3>3. /\ Len(waitQ) \in Nat /\ Len(waitQ') = Len(waitQ) - 1 /\ waitQ[1] = w
            /\ \A i \in 1..Len(waitQ') : waitQ'[i] = waitQ[i + 1]
            /\ Len(waitQ) > 0
        BY <1>t, <2>2, <3>2 DEF TypeOK
      <3>4. w \in Threads  BY <3>1
      <3> HIDE DEF w
      <3>5. /\ pc'[t] = "store" /\ pc'[w] = "woken" /\ w # t
            /\ \A s \in Threads : s # t /\ s # w => pc'[s] = pc[s]
        BY <1>t, <2>0, <3>2, <3>4 DEF TypeOK
      <3>6. \A i, j \in 1..Len(waitQ) : waitQ[i] = waitQ[j] => i = j
        BY <1>t DEF WaitListGuarded
      <3>7. \A i, j \in 1..Len(waitQ') : waitQ'[i] = waitQ'[j] => i = j
        BY <3>3, <3>6
      <3>8. \A s \in Threads : Queued(s)' <=> \E i \in 1..Len(waitQ') : waitQ'[i] = s
        <4> SUFFICES ASSUME NEW s \in Threads
                     PROVE  Queued(s)' <=> \E i \in 1..Len(waitQ') : waitQ'[i] = s
          OBVIOUS
        <4>1. Queued(s) <=> \E i \in 1..Len(waitQ) : waitQ[i] = s
          BY <1>t DEF WaitListGuarded
        <4>2. Queued(s)' <=> Queued(s) /\ s # w
          BY <2>0, <3>5 DEF Queued
        <4>3. (\E i \in 1..Len(waitQ') : waitQ'[i] = s)
                <=> \E i \in 2..Len(waitQ) : waitQ[i] = s
          <5>1. ASSUME NEW i \in 1..Len(waitQ'), waitQ'[i] = s
                PROVE  i + 1 \in 2..Len(waitQ) /\ waitQ[i + 1] = s
            BY <3>3, <5>1
          <5>2. ASSUME NEW i \in 2..Len(waitQ), waitQ[i] = s
                PROVE  i - 1 \in 1..Len(waitQ') /\ waitQ'[i - 1] = s
            BY <3>3, <5>2
          <5> QED  BY <5>1, <5>2
        <4>4. (\E i \in 2..Len(waitQ) : waitQ[i] = s)
                <=> s # w /\ \E i \in 1..Len(waitQ) : waitQ[i] = s
          BY <3>3, <3>6
        <4> QED  BY <4>1, <4>2, <4>3, <4>4
      <3>9. \A s \in Threads : UsesList(s)' => s = t
        BY <2>a, <3>5 DEF UsesList
      <3>10. \A s \in Threads : pc'[s] \notin {"enqueue", "unlock"}
        BY <2>0, <2>a, <3>5 DEF UsesList
      <3>11. \A s \in Threads : pc'[s] = "store" => next'[s] # None
        <4>1. \A s \in Threads : pc'[s] = "store" => s = t  BY <3>9 DEF UsesList
        <4>2. next'[t] = w  BY <1>t, <3>2 DEF TypeOK
        <4> QED  BY <3>4, <4>1, <4>2
      <3>12. WaitListGuarded'
        BY <2>0, <2>a, <3>7, <3>8, <3>9, <3>10, <3>11 DEF WaitListGuarded
      <3> QED  BY <2>b, <3>12 DEF LInv
    <2> QED  BY <2>1, <2>2
  <1>15. ASSUME NEW t \in Threads, Store(t) PROVE LInv'
    <2>1. /\ pc[t] = "store" /\ pc' = [pc EXCEPT ![t] = "out"]
          /\ word' = NewWord(next[t]) /\ waitQ' = waitQ /\ next' = next /\ seen' = seen
      BY <1>15 DEF Store
    <2>2. \A s \in Threads : UsesList(s) => s = t
      BY <1>t, <2>1 DEF WaitListGuarded, UsesList
    <2>3. \A s \in Threads : ~UsesList(s)' /\ (Queued(s)' <=> Queued(s))
      BY <1>t, <2>1, <2>2 DEF UsesList, Queued, TypeOK
    <2>4. WaitListGuarded'
      BY <1>t, <2>1, <2>3 DEF WaitListGuarded, UsesList
    <2>5. CASE next[t] = None
      <3>1. waitQ = <<>>  BY <1>t, <2>1, <2>5 DEF WaitListGuarded
      <3>2. \A s \in Threads : ~Queued(s)  BY <1>t, <3>1 DEF WaitListGuarded
      <3> QED  BY <2>3, <2>4, <3>2 DEF LInv, WaitersAnnounced, Queued
    <2>6. CASE next[t] # None
      BY <2>1, <2>4, <2>6 DEF LInv, WaitersAnnounced, NewWord, LockedWithWaiters
    <2> QED  BY <2>5, <2>6
  <1>16. ASSUME NEW t \in Threads, Yield(t) PROVE LInv'
    <2>1. pc' = pc /\ word' = word /\ waitQ' = waitQ /\ next' = next /\ seen' = seen
      BY <1>16 DEF Yield
    <2> QED  BY <1>t, <2>1 DEF LInv, WaitListGuarded, WaitersAnnounced, UsesList, Queued
  <1>17. CASE Dispatch
    <2>1. pc' = pc /\ word' = word /\ waitQ' = waitQ /\ next' = next /\ seen' = seen
      BY <1>17 DEF Dispatch
    <2> QED  BY <1>t, <2>1 DEF LInv, WaitListGuarded, WaitersAnnounced, UsesList, Queued
  <1> HIDE DEF LInv
  <1> QED
    BY <1>0, <1>1, <1>2, <1>3, <1>4, <1>5, <1>6, <1>7, <1>8, <1>9, <1>10, <1>11,
       <1>12, <1>13, <1>14, <1>15, <1>16, <1>17 DEF Next, AcquireStep, ReleaseStep

\* The wait list has one user at a time and holds exactly the sleepers.
THEOREM ListGuarded == Spec => []WaitListGuarded
  <1>1. LInv => WaitListGuarded  BY DEF LInv
  <1> QED  BY <1>1, InitLInv, NextLInv, HolderNamed, PTL DEF Spec

\* No lost wake-up: while a thread sleeps on the mutex, the word tells the
\* owner to take the slow path of release(), whatever the number of cores.
THEOREM NoLostWaiter == Spec => []WaitersAnnounced
  <1>1. LInv => WaitersAnnounced  BY DEF LInv
  <1> QED  BY <1>1, InitLInv, NextLInv, HolderNamed, PTL DEF Spec
=============================================================================
