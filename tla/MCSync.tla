------------------------------- MODULE MCSync -------------------------------
(***************************************************************************)
(* The two locks of the kernel, side by side: a behaviour is one of the    *)
(* mutex, three threads on two cores, or one of the interrupt guards and   *)
(* spinlocks of a core, with soft interrupts and context switches.         *)
(***************************************************************************)
EXTENDS Mutex

CONSTANTS
    SpinLocks, IrqHandlers,             \* the core's spinlocks
    CoreThreads, BootThread, Idle,      \* its threads, or none
    MaxSoft                             \* its pending soft interrupts

VARIABLES part, dis, stack, inInt, soft, cur, savedIF, booted

intVars == <<dis, stack, inInt, soft, cur, savedIF, booted>>

I == INSTANCE Interrupts WITH
        Locks <- SpinLocks, Threads <- CoreThreads

ASSUME CoreAssumption == I!InterruptsAssumption

InMutex(A) == part = "mutex" /\ A /\ UNCHANGED <<part, intVars>>

\* A panic in the mutex may leave all other threads waiting.
Stopped == InMutex(~NoPanic /\ UNCHANGED vars)

SyncInit ==
    /\ part \in {"mutex", "interrupts"}
    /\ Init /\ I!Init
    /\ part = "interrupts" => readyQ[1] = CHOOSE t \in Threads : TRUE

SyncNext ==
    \/ InMutex(Next)
    \/ Stopped
    \/ part = "interrupts" /\ I!Next
        /\ UNCHANGED <<part, word, waitQ, pc, seen, next, running, readyQ>>

\* The fairness of Mutex, in its part.
SyncSpec ==
    /\ SyncInit /\ [][SyncNext]_<<part, vars, intVars>>
    /\ WF_vars(InMutex(Dispatch))
    /\ \A t \in Threads :
        /\ WF_vars(InMutex(AcquireStep(t) \/ ReleaseStep(t)))
        /\ SF_vars(InMutex(Release(t)))
        /\ WF_vars(InMutex(t \in running /\ pc[t] = "out" /\ (Yield(t) \/ Acquire(t))))

-----------------------------------------------------------------------------
\* The properties of Interrupts: no assertion about guards fails and no code
\* meets a spinlock of what it interrupts (sync/uninterruptible.rs),
NoGuardPanic == I!NoPanic

\* interrupts are off exactly while a guard exists (InterruptDisabler),
InterruptsFollowGuards == I!InterruptsFollowGuards

\* and pending soft interrupts run before interrupts come back
\* (sched/mod.rs).
SoftRunFirst == I!SoftRunFirst

=============================================================================
