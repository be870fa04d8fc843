-------------------------------- MODULE Mutex --------------------------------
(***************************************************************************)
(* The blocking mutex of sync/mutex.rs.  Its lock is one atomic word: the  *)
(* address of the owner with two tag bits, and next to it a wait list that *)
(* whoever sets the word to LockedWaitersLocked may use.  release() hands  *)
(* the mutex over to the first waiter.                                     *)
(*                                                                         *)
(* A step is the code between two accesses to the word, to the wait list   *)
(* or to the scheduler.  Threads run on NCores cores, are not preempted,   *)
(* and the scheduler is the atomic first-in first-out one of SchedAbs.     *)
(***************************************************************************)
EXTENDS Naturals, Sequences, FiniteSets

CONSTANTS
    Threads,   \* the threads that use the mutex
    NCores,    \* number of cores
    None       \* no thread

\* The address of t with bit 1 still set, which is no thread's address:
\* threads are aligned to more than four bytes.
Mangled(t) == <<"bit 1 set", t>>

ASSUME MutexAssumption ==
    /\ None \notin Threads
    /\ \A t \in Threads : Mangled(t) \notin Threads
    /\ NCores \in Nat \ {0}
    /\ IsFiniteSet(Threads)

VARIABLES
    word,     \* MutexLock.state
    waitQ,    \* MutexLock.wait, first waiter first
    pc,       \* thread -> where it is
    seen,     \* thread -> the decoded value of the word it acts on
    next,     \* thread -> the waiter its release woke
    running,  \* the threads on a core
    readyQ    \* the ready queue

vars == <<word, waitQ, pc, seen, next, running, readyQ>>

-----------------------------------------------------------------------------
(* The word                                                                *)

Unlocked             == [tag |-> "Unlocked", owner |-> None]
LockedNoWaiters(t)     == [tag |-> "NoWaiters", owner |-> t]
LockedWithWaiters(t)   == [tag |-> "WithWaiters", owner |-> t]
LockedWaitersLocked(t) == [tag |-> "WaitersLocked", owner |-> t]

Words == {Unlocked} \cup {LockedNoWaiters(t) : t \in Threads}
            \cup {LockedWithWaiters(t) : t \in Threads}
            \cup {LockedWaitersLocked(t) : t \in Threads}

\* MutexLockState::from_usize.  Both tag bits are set in the third locked
\* state and only bit 0 is cleared from the address.
FromUsize(w) == IF w.tag = "WaitersLocked" THEN LockedWaitersLocked(Mangled(w.owner))
                                           ELSE w

-----------------------------------------------------------------------------
(* Acquiring                                                               *)

Goto(t, p) == pc' = [pc EXCEPT ![t] = p]

\* compare_exchange of the word from a to b, and what each outcome does.
CompareExchange(a, b) == word = a /\ word' = b
Fails(t, a) ==
    /\ word # a
    /\ seen' = [seen EXCEPT ![t] = FromUsize(word)]
    /\ UNCHANGED word

sched == <<running, readyQ>>

\* try_acquire_fast in acquire
Acquire(t) ==
    /\ t \in running /\ pc[t] = "out"
    /\ \/ /\ CompareExchange(Unlocked, LockedNoWaiters(t))
          /\ Goto(t, "in")
          /\ UNCHANGED seen
       \/ /\ Fails(t, Unlocked)
          /\ Goto(t, "slow")
    /\ UNCHANGED <<waitQ, next, sched>>

\* try_acquire; when it fails it changes nothing
TryAcquire(t) ==
    /\ t \in running /\ pc[t] = "out"
    /\ CompareExchange(Unlocked, LockedNoWaiters(t))
    /\ Goto(t, "in")
    /\ UNCHANGED <<waitQ, seen, next, sched>>

SlowRetryStores(t) ==
    /\ t \in running /\ pc[t] = "slow" /\ seen[t] = Unlocked
    /\ word' = LockedNoWaiters(t)
    /\ Goto(t, "in")
    /\ UNCHANGED <<waitQ, seen, next, sched>>

\* acquire_slow, one round of its loop: the mutex looked free, ...
SlowRetry(t) ==
    /\ t \in running /\ pc[t] = "slow" /\ seen[t] = Unlocked
    /\ \/ /\ CompareExchange(Unlocked, LockedNoWaiters(t))
          /\ Goto(t, "in")
          /\ UNCHANGED seen
       \/ /\ Fails(t, Unlocked)
          /\ UNCHANGED pc
    /\ UNCHANGED <<waitQ, next, sched>>

\* ... was locked, so the thread asks for the wait list, ...
SlowLockList(t) ==
    /\ t \in running /\ pc[t] = "slow"
    /\ seen[t].tag \in {"NoWaiters", "WithWaiters"}
    /\ \/ /\ CompareExchange(seen[t], LockedWaitersLocked(seen[t].owner))
          /\ Goto(t, "enqueue")
          /\ UNCHANGED seen
       \/ /\ Fails(t, seen[t])
          /\ UNCHANGED pc
    /\ UNCHANGED <<waitQ, next, sched>>

\* ... or somebody had the wait list: spin until the word changes.
SlowSpin(t) ==
    /\ t \in running /\ pc[t] = "slow"
    /\ seen[t].tag = "WaitersLocked" /\ word.tag # "WaitersLocked"
    /\ seen' = [seen EXCEPT ![t] = FromUsize(word)]
    /\ UNCHANGED <<word, waitQ, pc, next, sched>>

\* self.wait.wait(): from here on the thread's own spinlock is held
Enqueue(t) ==
    /\ t \in running /\ pc[t] = "enqueue"
    /\ waitQ' = Append(waitQ, t)
    /\ Goto(t, "unlock")
    /\ UNCHANGED <<word, seen, next, sched>>

\* The wait list is given back; a word that changed meanwhile is a panic.
UnlockList(t) ==
    /\ t \in running /\ pc[t] = "unlock"
    /\ \/ /\ CompareExchange(LockedWaitersLocked(seen[t].owner),
                             LockedWithWaiters(seen[t].owner))
          /\ Goto(t, "suspend")
       \/ /\ word # LockedWaitersLocked(seen[t].owner)
          /\ Goto(t, "panic")
          /\ UNCHANGED word
    /\ UNCHANGED <<waitQ, seen, next, sched>>

\* suspend.suspend(): the core and the thread's spinlock are given up
Suspend(t) ==
    /\ t \in running /\ pc[t] = "suspend"
    /\ running' = running \ {t}
    /\ Goto(t, "asleep")
    /\ UNCHANGED <<word, waitQ, seen, next, readyQ>>

\* Awake again: spin while the word still names the owner of old, ...
AwaitOwner(t) ==
    /\ t \in running /\ pc[t] = "woken"
    /\ FromUsize(word).owner # seen[t].owner
    /\ Goto(t, "check")
    /\ UNCHANGED <<word, waitQ, seen, next, sched>>

\* ... then assert that it names this thread.
CheckOwner(t) ==
    /\ t \in running /\ pc[t] = "check"
    /\ Goto(t, IF FromUsize(word).owner = t THEN "in" ELSE "panic")
    /\ UNCHANGED <<word, waitQ, seen, next, sched>>

-----------------------------------------------------------------------------
(* Releasing                                                               *)

\* MutexGuard::drop, release
Release(t) ==
    /\ t \in running /\ pc[t] = "in"
    /\ \/ /\ CompareExchange(LockedNoWaiters(t), Unlocked)
          /\ Goto(t, "out")
          /\ UNCHANGED seen
       \/ /\ Fails(t, LockedNoWaiters(t))
          /\ Goto(t, "release")
    /\ UNCHANGED <<waitQ, next, sched>>

ReleaseWithoutList(t) ==
    /\ t \in running /\ pc[t] = "release" /\ seen[t] = LockedWithWaiters(t)
    /\ Goto(t, "wake")
    /\ UNCHANGED <<word, waitQ, seen, next, sched>>

\* release_slow, one round of its loop: take the wait list, ...
ReleaseLockList(t) ==
    /\ t \in running /\ pc[t] = "release" /\ seen[t] = LockedWithWaiters(t)
    /\ \/ /\ CompareExchange(LockedWithWaiters(t), LockedWaitersLocked(t))
          /\ Goto(t, "wake")
          /\ UNCHANGED seen
       \/ /\ Fails(t, LockedWithWaiters(t))
          /\ UNCHANGED pc
    /\ UNCHANGED <<waitQ, next, sched>>

\* ... or panic.  The arm that spins on LockedWaitersLocked(lock_thread) asks
\* for lock_thread = t, and from_usize never yields that.
ReleasePanic(t) ==
    /\ t \in running /\ pc[t] = "release" /\ seen[t] # LockedWithWaiters(t)
    /\ seen[t] # LockedWaitersLocked(t)
    /\ Goto(t, "panic")
    /\ UNCHANGED <<word, waitQ, seen, next, sched>>

\* wake_one: the first waiter becomes ready.  A core that gets here while the
\* waiter still holds its own spinlock waits until it is asleep.
WakeOneLifo(t) ==
    /\ t \in running /\ pc[t] = "wake"
    /\ IF waitQ = <<>>
       THEN Goto(t, "store") /\ next' = [next EXCEPT ![t] = None]
                             /\ UNCHANGED <<waitQ, readyQ>>
       ELSE LET w == waitQ[Len(waitQ)] IN
            /\ pc[w] = "asleep"
            /\ pc' = [pc EXCEPT ![t] = "store", ![w] = "woken"]
            /\ next' = [next EXCEPT ![t] = w]
            /\ waitQ' = SubSeq(waitQ, 1, Len(waitQ) - 1)
            /\ readyQ' = Append(readyQ, w)
    /\ UNCHANGED <<word, seen, running>>

WakeOne(t) ==
    /\ t \in running /\ pc[t] = "wake"
    /\ IF waitQ = <<>>
       THEN Goto(t, "store") /\ next' = [next EXCEPT ![t] = None]
                             /\ UNCHANGED <<waitQ, readyQ>>
       ELSE LET w == Head(waitQ) IN
            /\ pc[w] = "asleep"
            /\ pc' = [pc EXCEPT ![t] = "store", ![w] = "woken"]
            /\ next' = [next EXCEPT ![t] = w]
            /\ waitQ' = Tail(waitQ)
            /\ readyQ' = Append(readyQ, w)
    /\ UNCHANGED <<word, seen, running>>

\* The mutex now belongs to the woken thread, or to nobody.
NewWordNoWaiters(n) == IF n = None THEN Unlocked ELSE LockedNoWaiters(n)
NewWord(n) == IF n = None THEN Unlocked ELSE LockedWithWaiters(n)

Store(t) ==
    /\ t \in running /\ pc[t] = "store"
    /\ word' = NewWord(next[t])
    /\ Goto(t, "out")
    /\ UNCHANGED <<waitQ, seen, next, sched>>

-----------------------------------------------------------------------------
(* The scheduler, as SchedAbs describes it                                 *)

\* Thread::yield_current, with or without the mutex
Yield(t) ==
    /\ t \in running /\ pc[t] \in {"out", "in"}
    /\ running' = running \ {t}
    /\ readyQ' = Append(readyQ, t)
    /\ UNCHANGED <<word, waitQ, pc, seen, next>>

\* A free core takes the first ready thread.
Dispatch ==
    /\ readyQ # <<>>
    /\ Cardinality(running) < NCores
    /\ running' = running \cup {Head(readyQ)}
    /\ readyQ' = Tail(readyQ)
    /\ UNCHANGED <<word, waitQ, pc, seen, next>>

\* MutexLock::new; every thread is ready and outside, in some order
Init ==
    /\ word = Unlocked
    /\ waitQ = <<>>
    /\ pc = [t \in Threads |-> "out"]
    /\ seen = [t \in Threads |-> Unlocked]
    /\ next = [t \in Threads |-> None]
    /\ running = {}
    /\ readyQ \in {q \in [1..Cardinality(Threads) -> Threads] :
                    \A i, j \in DOMAIN q : q[i] = q[j] => i = j}

\* A call of lock() that has begun, once it is on a core
AcquireStep(t) ==
    \/ SlowRetry(t) \/ SlowLockList(t) \/ SlowSpin(t)
    \/ Enqueue(t) \/ UnlockList(t) \/ Suspend(t)
    \/ AwaitOwner(t) \/ CheckOwner(t)

\* The drop of a guard, from its first instruction on
ReleaseStep(t) ==
    Release(t) \/ ReleaseLockList(t) \/ ReleasePanic(t) \/ WakeOne(t) \/ Store(t)

Next ==
    \/ \E t \in Threads :
        \/ Acquire(t) \/ TryAcquire(t)
        \/ AcquireStep(t) \/ ReleaseStep(t)
        \/ Yield(t)
    \/ Dispatch

Spec == Init /\ [][Next]_vars

-----------------------------------------------------------------------------
(* Correctness                                                             *)

PCs == {"out", "in", "slow", "enqueue", "unlock", "suspend", "asleep",
        "woken", "check", "release", "wake", "store", "panic"}

\* Every variable of the mutex model has its type.
TypeOK ==
    /\ word \in Words
    /\ waitQ \in Seq(Threads)
    /\ pc \in [Threads -> PCs]
    /\ seen \in [Threads -> Words \cup {LockedWaitersLocked(Mangled(t)) : t \in Threads}]
    /\ next \in [Threads -> Threads \cup {None}]
    /\ running \in SUBSET Threads
    /\ readyQ \in Seq(Threads)

\* Thread t has a MutexGuard, or is in the middle of dropping it.
Holds(t) == pc[t] \in {"in", "release", "wake", "store"}

\* The word names the thread that has the guard, through every hand-over of
\* the mutex and of its wait list.
OwnerNamed == \A t \in Threads : Holds(t) => word.owner = t

\* Two guards never exist at once, on however many cores and even when some
\* thread has run into one of the mutex's panics.
MutualExclusion == \A s, t \in Threads : Holds(s) /\ Holds(t) => s = t

\* No thread sees a state of the word that the code calls unexpected, and a
\* woken thread owns the mutex: the panics of acquire_slow and release_slow
\* and its assertion about the owner.
NoPanic == \A t \in Threads : pc[t] # "panic"

\* A thread that sleeps on the mutex's list, or is about to, will be found by
\* the owner's release: the word says that there are waiters.
WaitersAnnounced ==
    (\E t \in Threads : pc[t] \in {"suspend", "asleep"}) =>
        word.tag \in {"WithWaiters", "WaitersLocked"}

\* Thread t works on the wait list; thread t is on it.
UsesList(t) == pc[t] \in {"enqueue", "unlock", "wake", "store"}
Queued(t)   == pc[t] \in {"unlock", "suspend", "asleep"}

\* The wait list is used by one thread at a time, and only while the word
\* says so; it holds each sleeper once, and whoever stores Unlocked has seen
\* it empty.
WaitListGuarded ==
    /\ \A s, t \in Threads : UsesList(s) /\ UsesList(t) => s = t
    /\ \A t \in Threads : UsesList(t) => word.tag = "WaitersLocked"
    /\ \A t \in Threads : pc[t] \in {"enqueue", "unlock"} =>
            word = LockedWaitersLocked(seen[t].owner)
    /\ \A t \in Threads : Queued(t) <=> \E i \in 1..Len(waitQ) : waitQ[i] = t
    /\ \A i, j \in 1..Len(waitQ) : waitQ[i] = waitQ[j] => i = j
    /\ \A t \in Threads : pc[t] = "store" /\ next[t] = None => waitQ = <<>>

\* Threads use the mutex as its tests do: a guard is dropped some time, and
\* no thread keeps its core for ever.
Fairness ==
    /\ WF_vars(Dispatch)
    /\ \A t \in Threads :
        /\ WF_vars(AcquireStep(t) \/ ReleaseStep(t))
        /\ SF_vars(Release(t))
        /\ WF_vars(t \in running /\ pc[t] = "out" /\ (Yield(t) \/ Acquire(t)))

FairSpec == Spec /\ Fairness

\* A thread that sleeps on the mutex gets it, however often others take it
\* meanwhile, unless some thread has run into one of the mutex's panics.  (One
\* that is still retrying may be overtaken for ever.)
SleeperServed ==
    \A t \in Threads : pc[t] = "asleep" ~> (pc[t] = "in" \/ ~NoPanic)

=============================================================================
