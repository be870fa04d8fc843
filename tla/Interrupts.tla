----------------------------- MODULE Interrupts -----------------------------
(***************************************************************************)
(* How one core disables and enables its interrupts: the guards of         *)
(* sync/uninterruptible.rs (InterruptDisabler, UninterruptibleSpinlock),   *)
(* the soft interrupts of sched/mod.rs that run when the last guard goes,  *)
(* and the interrupt entry of arch/x86_64/interrupt.rs.                    *)
(*                                                                         *)
(* Everything here is local to a core, so there is one actor; what makes   *)
(* it hard is nesting: an interrupt or a soft interrupt runs on top of     *)
(* whatever was executing, and takes the same locks.  The calls that are   *)
(* in progress are a stack of frames, the innermost first.                 *)
(***************************************************************************)
EXTENDS Naturals, Sequences, FiniteSets

CONSTANTS
    Locks,       \* uninterruptible spinlocks
    IrqHandlers, \* the one that handle_interrupt holds around a handler
    Threads,     \* threads of this core
    BootThread,  \* the one that boots the kernel
    Idle,        \* no current thread
    MaxSoft      \* bound on the pending soft interrupts

InterruptsAssumption ==
    /\ IrqHandlers \in Locks
    /\ BootThread \in Threads
    /\ Idle \notin Threads
    /\ MaxSoft \in Nat

VARIABLES
    dis,      \* INTERRUPT_DISABLER_STATE (n, was) and the interrupt flag (on)
    stack,    \* the calls in progress, innermost first
    inInt,    \* IN_INTERRUPT
    soft,     \* number of entries of SOFT_INTERRUPTS
    cur,      \* CURRENT_THREAD
    savedIF,  \* thread -> interrupt flag of its saved registers
    booted    \* init_phase_1 has enabled interrupts and run what was pending

vars == <<dis, stack, inInt, soft, cur, savedIF, booted>>

-----------------------------------------------------------------------------
(* InterruptDisabler                                                       *)

\* InterruptDisabler::new
NewAlwaysReads(d) == [n |-> d.n + 1, was |-> d.on, on |-> FALSE]
New(d) == [n |-> d.n + 1,
           was |-> IF d.n = 0 THEN d.on ELSE d.was,
           on |-> d.n # 0 /\ d.on]

\* The counter after a guard is dropped; whether the drop then runs the soft
\* interrupts and enables interrupts again.
Dropped(d) == [d EXCEPT !.n = @ - 1]
DropEnablesAny(d) == d.was
DropEnables(d) == d.n = 1 /\ d.was

\* InterruptDisabler::force_remain_disabled
ForceRemainDisabled(d) == [d EXCEPT !.was = FALSE]

SavedFlag(d) == d.was

\* A frame: the call, the spinlocks and the plain guards it holds, and the
\* interrupt flag its iretq restores.
Frame(k, g, f) == [kind |-> k, locks |-> {}, plain |-> g, iret |-> f]

Top == Head(stack)

\* Frames whose code is arbitrary kernel code: a thread, a soft interrupt, one
\* that enqueue_soft_interrupt calls at once, an interrupt handler.
RunsCode ==
    /\ Top.kind \in {"thread", "soft", "now", "irq"}
    /\ Top.kind = "thread" => cur # Idle

Push(f) == stack' = <<f>> \o stack
SetTop(f) == stack' = <<f>> \o Tail(stack)

HeldBelow == UNION {stack[i].locks : i \in 2..Len(stack)}

\* Drop for InterruptDisabler on behalf of a frame that becomes f: dropping
\* the last guard calls run_soft_interrupts, which takes a guard of its own.
DropGuard(f) ==
    IF DropEnables(dis)
    THEN /\ dis' = New(Dropped(dis))
         /\ stack' = <<Frame("drop", 1, FALSE), f>> \o Tail(stack)
    ELSE /\ dis' = Dropped(dis)
         /\ SetTop(f)

Panic(f) == [f EXCEPT !.kind = "panic"]

-----------------------------------------------------------------------------
(* What kernel code does with guards                                       *)

NewGuard ==
    /\ RunsCode /\ Top.plain = 0
    /\ dis' = New(dis)
    /\ SetTop([Top EXCEPT !.plain = 1])
    /\ UNCHANGED <<inInt, soft, cur, savedIF, booted>>

DropPlain ==
    /\ RunsCode /\ Top.plain > 0
    /\ Top.kind # "now"
    /\ DropGuard(IF dis.on THEN Panic(Top) ELSE [Top EXCEPT !.plain = @ - 1])
    /\ UNCHANGED <<inInt, soft, cur, savedIF, booted>>

\* UninterruptibleSpinlock::lock.  A lock that this core holds already is the
\* panic of check_spinlock_for_deadlock, or a core that spins for ever.
Lock(k) ==
    /\ RunsCode
    /\ k \notin Top.locks
    /\ dis' = New(dis)
    /\ SetTop(IF k \in HeldBelow THEN Panic(Top) ELSE [Top EXCEPT !.locks = @ \cup {k}])
    /\ UNCHANGED <<inInt, soft, cur, savedIF, booted>>

\* UninterruptibleSpinlock::try_lock on a lock that is held elsewhere: the
\* guard is dropped again
TryLockFails ==
    /\ RunsCode
    /\ IF DropEnables(New(dis))
       THEN /\ dis' = New(Dropped(New(dis)))
            /\ Push(Frame("drop", 1, FALSE))
       ELSE /\ dis' = Dropped(New(dis))
            /\ UNCHANGED stack
    /\ UNCHANGED <<inInt, soft, cur, savedIF, booted>>

\* Drop of an UninterruptibleSpinlockGuard: the spinlock first, then the
\* interrupt guard.
UnlockLast(k) ==
    /\ RunsCode
    /\ k \in Top.locks
    /\ Top.kind = "irq" => k # IrqHandlers
    /\ IF DropEnables(dis)
       THEN /\ dis' = New(Dropped(dis))
            /\ Push(Frame("drop", 1, FALSE))
       ELSE /\ dis' = Dropped(dis)
            /\ SetTop([Top EXCEPT !.locks = @ \ {k}])
    /\ UNCHANGED <<inInt, soft, cur, savedIF, booted>>

Unlock(k) ==
    /\ RunsCode
    /\ k \in Top.locks
    /\ Top.kind = "irq" => k # IrqHandlers
    /\ DropGuard(IF dis.on THEN Panic(Top) ELSE [Top EXCEPT !.locks = @ \ {k}])
    /\ UNCHANGED <<inInt, soft, cur, savedIF, booted>>

-----------------------------------------------------------------------------
(* Soft interrupts                                                         *)

\* enqueue_soft_interrupt calls the function at once, under a guard, or
\* queues it.
EnqueueSoft ==
    /\ RunsCode
    /\ IF ~inInt /\ dis.on
       THEN /\ dis' = New(dis)
            /\ Push(Frame("now", 1, FALSE))
            /\ UNCHANGED soft
       ELSE /\ soft < MaxSoft
            /\ soft' = soft + 1
            /\ UNCHANGED <<dis, stack>>
    /\ UNCHANGED <<inInt, cur, savedIF, booted>>

\* The function called at once returns and the guard goes.
NowReturns ==
    /\ Top.kind = "now" /\ Top.locks = {} /\ Top.plain = 1
    /\ IF DropEnables(dis)
       THEN /\ dis' = New(Dropped(dis))
            /\ SetTop(Frame("drop", 1, FALSE))
       ELSE /\ dis' = Dropped(dis)
            /\ stack' = Tail(stack)
    /\ UNCHANGED <<inInt, soft, cur, savedIF, booted>>

Draining == Top.kind \in {"drop", "end", "boot"}

\* run_soft_interrupts: one round of its loop
RunSoft ==
    /\ Draining
    /\ soft > 0
    /\ soft' = soft - 1
    /\ Push(Frame("soft", 0, FALSE))
    /\ UNCHANGED <<dis, inInt, cur, savedIF, booted>>

SoftReturns ==
    /\ Top.kind = "soft" /\ Top.locks = {} /\ Top.plain = 0
    /\ stack' = Tail(stack)
    /\ UNCHANGED <<dis, inInt, soft, cur, savedIF, booted>>

DropDoneEarly ==
    /\ Top.kind = "drop"
    /\ dis' = [Dropped(dis) EXCEPT !.on = TRUE]
    /\ stack' = Tail(stack)
    /\ UNCHANGED <<inInt, soft, cur, savedIF, booted>>

\* The queue is empty.  The caller of run_soft_interrupts drops the guard,
\* asserts that none is left and enables interrupts.
DropDone ==
    /\ Top.kind = "drop"
    /\ soft = 0
    /\ IF DropEnables(dis)
       THEN dis' = New(Dropped(dis)) /\ UNCHANGED stack
       ELSE /\ dis' = [Dropped(dis) EXCEPT !.on = TRUE]
            /\ stack' = IF dis.n = 1 THEN Tail(stack)
                        ELSE <<Panic(Top)>> \o Tail(stack)
    /\ UNCHANGED <<inInt, soft, cur, savedIF, booted>>

\* init_phase_1 enables interrupts and runs what the boot queued.
Boot ==
    /\ ~booted /\ Top.kind = "thread" /\ dis.n = 0 /\ ~dis.on /\ ~inInt
    /\ dis' = New([dis EXCEPT !.on = TRUE])
    /\ Push(Frame("boot", 1, FALSE))
    /\ UNCHANGED <<inInt, soft, cur, savedIF, booted>>

BootDone ==
    /\ Top.kind = "boot"
    /\ soft = 0
    /\ booted' = TRUE
    /\ IF DropEnables(dis)
       THEN dis' = New(Dropped(dis)) /\ SetTop(Frame("drop", 1, FALSE))
       ELSE dis' = Dropped(dis) /\ stack' = Tail(stack)
    /\ UNCHANGED <<inInt, soft, cur, savedIF>>

-----------------------------------------------------------------------------
(* Interrupts                                                              *)

\* handle_interrupt up to the call of the handler
Irq ==
    /\ dis.on
    /\ inInt' = TRUE
    /\ dis' = New([dis EXCEPT !.on = FALSE])
    /\ Push(IF IrqHandlers \in HeldBelow \cup Top.locks
            THEN Frame("panic", 0, TRUE)
            ELSE [Frame("irq", 0, TRUE) EXCEPT !.locks = {IrqHandlers}])
    /\ UNCHANGED <<soft, cur, savedIF, booted>>

\* The handler returns, IRQ_HANDLERS is unlocked, and end_interrupt calls
\* run_soft_interrupts.
IrqHandled ==
    /\ Top.kind = "irq" /\ Top.locks = {IrqHandlers} /\ Top.plain = 0
    /\ DropGuard(Frame("handled", 0, Top.iret))
    /\ UNCHANGED <<inInt, soft, cur, savedIF, booted>>

EndInterrupt ==
    /\ Top.kind \in {"handled", "switched"}
    /\ dis' = New(dis)
    /\ SetTop(Frame("end", 1, Top.iret))
    /\ UNCHANGED <<inInt, soft, cur, savedIF, booted>>

\* The rest of end_interrupt, and iretq: an idle core looks for a thread, or
\* goes back to hlt, before which it enables interrupts.
EndInterruptDone ==
    /\ Top.kind = "end"
    /\ soft = 0
    /\ inInt' = FALSE
    /\ \E t \in IF cur = Idle /\ booted THEN Threads \cup {Idle} ELSE {cur} :
        /\ cur' = t
        /\ dis' = [Dropped(dis) EXCEPT !.on =
                    IF cur = Idle THEN t = Idle \/ savedIF[t] ELSE Top.iret]
        /\ stack' = Tail(stack)
    /\ UNCHANGED <<soft, savedIF, booted>>

\* Thread::suspend_current, int 0x30 and the context switch: the thread's own
\* lock is the one guard that may be held.  It is dropped by the switch, which
\* must not enable interrupts; the flag is left in the saved registers.
Suspend ==
    /\ Top.kind = "thread" /\ Len(stack) = 1 /\ cur # Idle /\ booted
    /\ Top.locks = {} /\ Top.plain = 0
    /\ LET d == New(dis)
           r == Dropped(ForceRemainDisabled(d))
       IN \E t \in Threads \cup {Idle} :
            /\ cur' = t
            /\ savedIF' = [savedIF EXCEPT ![cur] = SavedFlag(d)]
            /\ inInt' = TRUE
            /\ dis' = Dropped(New(r))
            /\ Push(IF d.n = 1 /\ ~DropEnables(ForceRemainDisabled(d))
                    THEN Frame("switched", 0, t = Idle \/ savedIF'[t])
                    ELSE Frame("panic", 0, FALSE))
    /\ UNCHANGED <<soft, booted>>

\* The boot processor starts with interrupts disabled; a new thread's saved
\* registers have the interrupt flag set.
Init ==
    /\ dis = [n |-> 0, was |-> FALSE, on |-> FALSE]
    /\ stack = <<Frame("thread", 0, FALSE)>>
    /\ inInt = FALSE
    /\ soft = 0
    /\ cur = BootThread
    /\ savedIF = [t \in Threads |-> t # BootThread]
    /\ booted = FALSE

Next ==
    \/ NewGuard \/ DropPlain
    \/ \E k \in Locks : Lock(k) \/ Unlock(k)
    \/ TryLockFails
    \/ EnqueueSoft \/ NowReturns
    \/ RunSoft \/ SoftReturns
    \/ DropDone
    \/ Boot \/ BootDone
    \/ Irq \/ IrqHandled \/ EndInterrupt \/ EndInterruptDone
    \/ Suspend

Spec == Init /\ [][Next]_vars

-----------------------------------------------------------------------------
(* Correctness                                                             *)

Guards(f) == Cardinality(f.locks) + f.plain
FoldGuards == LET g[i \in 0..Len(stack)] ==
                    IF i = 0 THEN 0 ELSE g[i - 1] + Guards(stack[i])
              IN g[Len(stack)]

\* No assertion fails and no code meets a spinlock held by what it interrupts:
\* interrupts stay off from the first guard to the last, soft interrupts start
\* with nothing locked and may take any lock, and a context switch finds one
\* guard.
NoPanic == \A i \in 1..Len(stack) : stack[i].kind # "panic"

\* The counter is the number of guards that exist on the core, through nested
\* interrupts, soft interrupts and context switches, and while it is not zero
\* interrupts are disabled.
GuardsCounted == dis.n = FoldGuards /\ (dis.n > 0 => ~dis.on)

\* Once booted, a thread without a guard runs with interrupts enabled: every
\* path that disabled them has restored them.
InterruptsRestored ==
    (booted /\ Len(stack) = 1 /\ Top.kind = "thread" /\ Guards(Top) = 0)
        => (dis.on /\ ~inInt)

\* Interrupts are off exactly for as long as somebody wants them off: the two
\* directions above.
InterruptsFollowGuards == GuardsCounted /\ InterruptsRestored

\* Whenever interrupts are enabled, no soft interrupt is pending: none waits
\* for an unrelated later interrupt to be run.
SoftRunFirst == booted /\ dis.on => soft = 0

=============================================================================
