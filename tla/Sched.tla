-------------------------------- MODULE Sched --------------------------------
(***************************************************************************)
(* The thread scheduler of the kernel: sched/mod.rs, sched/task.rs and     *)
(* sched/wait.rs, with the part of arch/x86_64/interrupt.rs that drives it.*)
(*                                                                         *)
(* A core runs its current thread until the thread gives the core up       *)
(* (yield, wait list, death); an idle core is given a thread at the end of *)
(* an interrupt.  Everything is kept consistent by spinlocks that disable  *)
(* interrupts on the core that holds them, so a step of this module is the *)
(* code between two lock operations of one core, and an interrupt arrives  *)
(* only where the core holds no lock.                                      *)
(*                                                                         *)
(* Intrusive lists are sequences here, saved registers are the one bit     *)
(* "up to date or not", and only the kernel process exists, as in          *)
(* perform_context_switch_interrupt.                                       *)
(***************************************************************************)
EXTENDS Naturals, Sequences

CONSTANTS
    Cores,       \* CPU cores
    Threads,     \* every thread that may ever exist
    Objs,        \* wait lists owned by other kernel objects
    Listers,     \* threads that run the shell command "proc threads"
    InitThread,  \* the thread made by init_kernel_process
    BootCore,    \* the core it runs on
    None         \* a null pointer, an unlocked lock, an empty Option

ASSUME SchedAssumption ==
    /\ InitThread \in Threads
    /\ BootCore \in Cores
    /\ Listers \subseteq Threads
    /\ Threads \cap Objs = {}
    /\ None \notin Cores \cup Threads \cup Objs

\* The join_writer of a thread owns a wait list too; it bears the thread's name.
Lists == Threads \cup Objs

\* The spinlocks: one per thread, per wait list and per join future, the
\* kernel process's, the process list's and that of IRQ_HANDLERS.
ThreadLock(t) == <<"thread", t>>
ListLock(l)   == <<"list", l>>
FutureLock(t) == <<"future", t>>
ProcessLock   == <<"process", None>>
ProcessList   == <<"processes", None>>
IrqHandlers   == <<"irqs", None>>

Locks == {ThreadLock(t) : t \in Threads} \cup {FutureLock(t) : t \in Threads}
            \cup {ListLock(l) : l \in Lists}
            \cup {ProcessLock, ProcessList, IrqHandlers}

VARIABLES
    state,     \* ThreadState of each thread, "New" before it is created
    waitOn,    \* the list of ThreadState::Waiting(list), else None
    saved,     \* thread -> its saved registers are those it must resume with
    alive,     \* the threads on the process's list of threads
    readyQ,    \* ready_head .. ready_tail of the kernel process
    waitQ,     \* list -> head .. tail
    resolved,  \* thread -> its join future is resolved
    joining,   \* thread -> the thread whose join future it blocks on, or None
    owner,     \* lock -> the core that holds it, or None
    pc,        \* core -> where its kernel code is
    cur,       \* core -> CURRENT_THREAD
    inInt,     \* core -> IN_INTERRUPT
    tgt,       \* core -> the thread it is waking or switching to
    lst,       \* core -> the wait list it is working on
    from,      \* core -> where the wake-up in progress was called from
    loop,      \* core -> context -> the list a wake_all in progress empties
    todo       \* core -> threads "proc threads" has still to print

threadVars == <<state, waitOn, saved, alive, resolved, joining>>
queueVars  == <<readyQ, waitQ>>
coreVars   == <<cur, inInt, tgt, lst, from, loop, todo>>
vars == <<threadVars, queueVars, owner, pc, coreVars>>

-----------------------------------------------------------------------------
(* Locks and small helpers                                                 *)

Free(k) == owner[k] = None
Held(c) == {k \in Locks : owner[k] = c}

\* owner after core c acquired the locks of A and released those of R.
Owning(c, A, R) == [k \in Locks |-> IF k \in R THEN None
                                    ELSE IF k \in A THEN c ELSE owner[k]]

Goto(c, p) == pc' = [pc EXCEPT ![c] = p]

\* A failed assertion of the code stops the core at "panic".
GotoIf(c, ok, p) == Goto(c, IF ok THEN p ELSE "panic")

Elems(s) == {s[i] : i \in 1..Len(s)}

\* ProcessLock::enqueue_ready_thread and ::dequeue_ready_thread: the queue
\* after the call.
ReadyEnqueueFront(q, t) == <<t>> \o q
ReadyEnqueueOverwritesHead(q, t) == <<t>>
ReadyEnqueue(q, t) == Append(q, t)
ReadyDequeueKeepsHead(q) == q
ReadyDequeue(q) == Tail(q)

\* ThreadWaitListInternal::dequeue: the list after the call.
WaitDequeueLosesRest(q) == <<>>
WaitDequeueKeepsHead(q) == q
WaitDequeue(q) == Tail(q)

\* ThreadLock::save_cpu_state
SaveNothing(t) == saved
SaveCpuState(t) == [saved EXCEPT ![t] = TRUE]

\* The lock of the join future that the waiting thread t holds and drops
\* before it suspends.
KeepsFutureLock(t) == {}
WaiterFutureLock(t) == {FutureLock(a) : a \in {joining[t]} \cap Threads}

\* A thread is on a wait list exactly while its ThreadWaitState is valid.
OnWaitList(t) == \E l \in Lists : t \in Elems(waitQ[l])

Context(c) == IF inInt[c] THEN "irq" ELSE "thread"

\* The current thread of c is at a point of its own code where it may call
\* any scheduler operation.
InThread(c) ==
    /\ pc[c] = "exec"
    /\ cur[c] # None
    /\ joining[cur[c]] = None
    /\ loop[c]["thread"] = None

-----------------------------------------------------------------------------
(* Giving up the core                                                      *)

\* Thread::yield_current
YieldCurrent(c) ==
    LET t == cur[c] IN
    /\ InThread(c)
    /\ Free(ThreadLock(t))
    /\ owner' = Owning(c, {ThreadLock(t)}, {})
    /\ state' = [state EXCEPT ![t] = "Ready"]
    /\ GotoIf(c, state[t] = "Running", "suspend")
    /\ UNCHANGED <<waitOn, saved, alive, resolved, joining, queueVars, coreVars>>

\* ThreadWaitList::wait on the list of some kernel object: the thread's own
\* lock comes first.
Wait(c, l) ==
    LET t == cur[c] IN
    /\ InThread(c)
    /\ Free(ThreadLock(t))
    /\ owner' = Owning(c, {ThreadLock(t)}, {})
    /\ lst' = [lst EXCEPT ![c] = l]
    /\ Goto(c, "wait_l")
    /\ UNCHANGED <<threadVars, queueVars, cur, inInt, tgt, from, loop, todo>>

\* The rest of ThreadWaitList::wait.  A caller that waits for a future holds
\* the future's lock up to here and drops it before it suspends.
WaitEnqueue(c) ==
    LET t == cur[c]
        l == lst[c]
    IN
    /\ pc[c] = "wait_l"
    /\ Free(ListLock(l))
    /\ state' = [state EXCEPT ![t] = "Waiting"]
    /\ waitOn' = [waitOn EXCEPT ![t] = l]
    /\ waitQ' = [waitQ EXCEPT ![l] = Append(@, t)]
    /\ owner' = Owning(c, {}, WaiterFutureLock(t))
    /\ lst' = [lst EXCEPT ![c] = None]
    /\ GotoIf(c, state[t] = "Running" /\ ~OnWaitList(t), "suspend")
    /\ UNCHANGED <<saved, alive, resolved, joining, readyQ,
                   cur, inInt, tgt, from, loop, todo>>

\* Thread::suspend_current and the 0x30 arm of handle_interrupt up to the
\* point where the old thread's lock is dropped, its registers saved.
SuspendCurrent(c) ==
    LET t == cur[c] IN
    /\ pc[c] = "suspend"
    /\ saved' = SaveCpuState(t)
    /\ inInt' = [inInt EXCEPT ![c] = TRUE]
    /\ owner' = Owning(c, {}, {ThreadLock(t)})
    /\ GotoIf(c, state[t] # "Running" /\ Held(c) = {ThreadLock(t)},
              IF state[t] = "Ready" THEN "enq_p" ELSE "deq")
    /\ UNCHANGED <<state, waitOn, alive, resolved, joining, queueVars,
                   cur, tgt, lst, from, loop, todo>>

\* perform_context_switch_interrupt: a thread that stays ready goes back to
\* the queue, under its process's lock and then its own.
LockOldProcess(c) ==
    /\ pc[c] = "enq_p"
    /\ Free(ProcessLock)
    /\ owner' = Owning(c, {ProcessLock}, {})
    /\ Goto(c, "enq_t")
    /\ UNCHANGED <<threadVars, queueVars, coreVars>>

\* ProcessLock::enqueue_ready_thread may be called for this thread.
MayEnqueue(t) == state[t] = "Ready" /\ t \notin Elems(readyQ)

EnqueueOld(c) ==
    LET t == cur[c] IN
    /\ pc[c] = "enq_t"
    /\ Free(ThreadLock(t))
    /\ readyQ' = ReadyEnqueue(readyQ, t)
    /\ owner' = Owning(c, {}, {ProcessLock})
    /\ GotoIf(c, MayEnqueue(t), "deq")
    /\ UNCHANGED <<threadVars, waitQ, coreVars>>

-----------------------------------------------------------------------------
(* Taking a thread                                                         *)

\* ProcessLock::dequeue_ready_thread in perform_context_switch_interrupt:
\* "deq" when a thread gave up the core, "idle_deq" when end_interrupt found
\* the core idle.  Without a ready thread the core becomes idle.
DequeueReady(c) ==
    /\ pc[c] \in {"deq", "idle_deq"}
    /\ Free(ProcessLock)
    /\ IF readyQ # <<>>
       THEN /\ tgt' = [tgt EXCEPT ![c] = Head(readyQ)]
            /\ readyQ' = ReadyDequeue(readyQ)
            /\ Goto(c, IF pc[c] = "deq" THEN "disp" ELSE "idle_disp")
            /\ UNCHANGED <<cur, inInt>>
       ELSE /\ cur' = [cur EXCEPT ![c] = None]
            /\ inInt' = [inInt EXCEPT ![c] = pc[c] = "deq"]
            /\ Goto(c, IF pc[c] = "deq" THEN "soft" ELSE "exec")
            /\ UNCHANGED <<tgt, readyQ>>
    /\ UNCHANGED <<threadVars, waitQ, owner, lst, from, loop, todo>>

\* The thread is locked, set running, its registers loaded into the frame.
Dispatch(c) ==
    LET t == tgt[c] IN
    /\ pc[c] \in {"disp", "idle_disp"}
    /\ Free(ThreadLock(t))
    /\ state' = [state EXCEPT ![t] = "Running"]
    /\ saved' = [saved EXCEPT ![t] = FALSE]
    /\ cur' = [cur EXCEPT ![c] = t]
    /\ tgt' = [tgt EXCEPT ![c] = None]
    /\ inInt' = [inInt EXCEPT ![c] = pc[c] = "disp"]
    /\ GotoIf(c, state[t] = "Ready", IF pc[c] = "disp" THEN "soft" ELSE "exec")
    /\ UNCHANGED <<waitOn, alive, resolved, joining, queueVars, owner,
                   lst, from, loop, todo>>

\* handle_interrupt for a hardware interrupt: the handler runs under the
\* lock of IRQ_HANDLERS.
Irq(c) ==
    /\ pc[c] = "exec"
    /\ Free(IrqHandlers)
    /\ owner' = Owning(c, {IrqHandlers}, {})
    /\ inInt' = [inInt EXCEPT ![c] = TRUE]
    /\ Goto(c, "irq")
    /\ UNCHANGED <<threadVars, queueVars, cur, tgt, lst, from, loop, todo>>

IrqHandled(c) ==
    /\ pc[c] = "irq"
    /\ loop[c]["irq"] = None
    /\ owner' = Owning(c, {}, {IrqHandlers})
    /\ Goto(c, "soft")
    /\ UNCHANGED <<threadVars, queueVars, coreVars>>

EndInterruptStaysIdle(c) ==
    /\ pc[c] = "soft"
    /\ loop[c]["irq"] = None
    /\ inInt' = [inInt EXCEPT ![c] = FALSE]
    /\ Goto(c, "exec")
    /\ UNCHANGED <<threadVars, queueVars, owner, cur, tgt, lst, from, loop, todo>>

\* end_interrupt once the soft interrupts have run: only an idle core looks
\* for a thread.
EndInterrupt(c) ==
    /\ pc[c] = "soft"
    /\ loop[c]["irq"] = None
    /\ inInt' = [inInt EXCEPT ![c] = cur[c] = None]
    /\ Goto(c, IF cur[c] = None THEN "idle_deq" ELSE "exec")
    /\ UNCHANGED <<threadVars, queueVars, owner, cur, tgt, lst, from, loop, todo>>

-----------------------------------------------------------------------------
(* Waking threads                                                          *)

\* ThreadWaitListInternal::dequeue under the list's lock, which the caller
\* keeps until the thread is awake.
Dequeue(c, l) ==
    /\ owner' = Owning(c, {ListLock(l)}, {})
    /\ waitQ' = [waitQ EXCEPT ![l] = WaitDequeue(@)]
    /\ tgt' = [tgt EXCEPT ![c] = Head(waitQ[l])]
    /\ lst' = [lst EXCEPT ![c] = l]
    /\ from' = [from EXCEPT ![c] = pc[c]]
    /\ Goto(c, "wake_t")
    /\ UNCHANGED <<threadVars, readyQ, cur, inInt, todo>>

\* wake_one (all = FALSE) or wake_all on a kernel object's list, called by a
\* thread, an interrupt handler or a soft interrupt.  On an empty list the
\* call changes nothing.
Wake(c, l, all) ==
    /\ \/ InThread(c)
       \/ pc[c] \in {"irq", "soft"} /\ loop[c]["irq"] = None
    /\ Free(ListLock(l))
    /\ waitQ[l] # <<>>
    /\ loop' = [loop EXCEPT ![c][Context(c)] = IF all THEN l ELSE None]
    /\ Dequeue(c, l)

\* Another round of wake_all.  The one in FutureWriter::finish_internal runs
\* under the future's lock, which goes when the list is empty.
WakeMore(c) ==
    LET l == loop[c][Context(c)] IN
    /\ pc[c] \in {"exec", "irq", "soft", "finish"}
    /\ l # None
    /\ Free(ListLock(l))
    /\ IF waitQ[l] # <<>>
       THEN Dequeue(c, l) /\ UNCHANGED loop
       ELSE /\ loop' = [loop EXCEPT ![c][Context(c)] = None]
            /\ owner' = IF pc[c] = "finish"
                        THEN Owning(c, {}, {FutureLock(l)}) ELSE owner
            /\ Goto(c, IF pc[c] = "finish" THEN "suspend" ELSE pc[c])
            /\ UNCHANGED <<threadVars, queueVars, cur, inInt, tgt, lst, from, todo>>

\* ThreadWaitList::try_wake up to the point where ThreadLock::wake locks the
\* process.  A dead thread is dropped, any other state is a panic.
TryWake(c) ==
    LET t == tgt[c]
        waiting == state[t] = "Waiting" /\ waitOn[t] = lst[c]
    IN
    /\ pc[c] = "wake_t"
    /\ Free(ThreadLock(t))
    /\ state' = [state EXCEPT ![t] = IF waiting THEN "Ready" ELSE @]
    /\ waitOn' = [waitOn EXCEPT ![t] = IF waiting THEN None ELSE @]
    /\ owner' = IF waiting THEN Owning(c, {ThreadLock(t)}, {})
                           ELSE Owning(c, {}, {ListLock(lst[c])})
    /\ GotoIf(c, waiting \/ state[t] = "Dead",
              IF waiting THEN "wake_p" ELSE from[c])
    /\ from' = [from EXCEPT ![c] = IF waiting THEN @ ELSE "exec"]
    /\ UNCHANGED <<saved, alive, resolved, joining, queueVars,
                   cur, inInt, tgt, lst, loop, todo>>

\* ThreadLock::wake takes the process's lock while it holds the thread's.
WakeEnqueue(c) ==
    LET t == tgt[c] IN
    /\ pc[c] = "wake_p"
    /\ Free(ProcessLock)
    /\ readyQ' = ReadyEnqueue(readyQ, t)
    /\ tgt' = [tgt EXCEPT ![c] = None]
    /\ lst' = [lst EXCEPT ![c] = None]
    /\ from' = [from EXCEPT ![c] = "exec"]
    /\ owner' = Owning(c, {}, {ThreadLock(t)} \cup
                              {ListLock(l) : l \in {lst[c]} \cap Lists})
    /\ GotoIf(c, MayEnqueue(t), from[c])
    /\ UNCHANGED <<threadVars, waitQ, cur, inInt, loop, todo>>

-----------------------------------------------------------------------------
(* The life of a thread                                                    *)

\* ProcessLock::create_kernel_thread; Thread::create_internal
CreateThread(c, t) ==
    /\ InThread(c)
    /\ state[t] = "New"
    /\ Free(ProcessLock)
    /\ state' = [state EXCEPT ![t] = "Suspended"]
    /\ saved' = [saved EXCEPT ![t] = TRUE]
    /\ alive' = alive \cup {t}
    /\ UNCHANGED <<waitOn, resolved, joining, queueVars, owner, pc, coreVars>>

\* thread.lock().wake() on a thread that was never started
StartThread(c, t) ==
    /\ InThread(c)
    /\ state[t] = "Suspended"
    /\ Free(ThreadLock(t))
    /\ owner' = Owning(c, {ThreadLock(t)}, {})
    /\ state' = [state EXCEPT ![t] = "Ready"]
    /\ tgt' = [tgt EXCEPT ![c] = t]
    /\ lst' = [lst EXCEPT ![c] = None]
    /\ from' = [from EXCEPT ![c] = "exec"]
    /\ Goto(c, "wake_p")
    /\ UNCHANGED <<waitOn, saved, alive, resolved, joining, queueVars,
                   cur, inInt, loop, todo>>

\* Thread::kill_current: process lock, thread lock, then the join future is
\* resolved with the thread's lock still held.
KillCurrent(c) ==
    /\ InThread(c)
    /\ Free(ProcessLock)
    /\ owner' = Owning(c, {ProcessLock}, {})
    /\ Goto(c, "kill_t")
    /\ UNCHANGED <<threadVars, queueVars, coreVars>>

KillRemoveKeepsProcess(c) ==
    LET t == cur[c] IN
    /\ pc[c] = "kill_t"
    /\ Free(ThreadLock(t))
    /\ state' = [state EXCEPT ![t] = "Dead"]
    /\ alive' = alive \ {t}
    /\ owner' = Owning(c, {ThreadLock(t)}, {})
    /\ GotoIf(c, state[t] = "Running" /\ t \notin Elems(readyQ), "finish_f")
    /\ UNCHANGED <<waitOn, saved, resolved, joining, queueVars, coreVars>>

KillRemove(c) ==
    LET t == cur[c] IN
    /\ pc[c] = "kill_t"
    /\ Free(ThreadLock(t))
    /\ state' = [state EXCEPT ![t] = "Dead"]
    /\ alive' = alive \ {t}
    /\ owner' = Owning(c, {ThreadLock(t)}, {ProcessLock})
    /\ GotoIf(c, state[t] = "Running" /\ t \notin Elems(readyQ), "finish_f")
    /\ UNCHANGED <<waitOn, saved, resolved, joining, queueVars, coreVars>>

\* FutureWriter::finish on the join_writer
FinishJoin(c) ==
    LET t == cur[c] IN
    /\ pc[c] = "finish_f"
    /\ Free(FutureLock(t))
    /\ owner' = Owning(c, {FutureLock(t)}, {})
    /\ resolved' = [resolved EXCEPT ![t] = TRUE]
    /\ loop' = [loop EXCEPT ![c]["thread"] = t]
    /\ Goto(c, "finish")
    /\ UNCHANGED <<state, waitOn, saved, alive, joining, queueVars,
                   cur, inInt, tgt, lst, from, todo>>

\* a.lock().join() on a thread that is not dead (the join future of a dead
\* one is done and is not waited for)
Join(c, a) ==
    /\ InThread(c)
    /\ a # cur[c]
    /\ state[a] \notin {"New", "Dead"}
    /\ Free(ThreadLock(a))
    /\ owner' = Owning(c, {ThreadLock(a)}, {})
    /\ joining' = [joining EXCEPT ![cur[c]] = a]
    /\ Goto(c, "join_f")
    /\ UNCHANGED <<state, waitOn, saved, alive, resolved, queueVars, coreVars>>

\* FutureWriter::as_future, then the thread's lock goes
JoinAsFuture(c) ==
    LET a == joining[cur[c]] IN
    /\ pc[c] = "join_f"
    /\ Free(FutureLock(a))
    /\ owner' = Owning(c, {}, {ThreadLock(a)})
    /\ Goto(c, "exec")
    /\ UNCHANGED <<threadVars, queueVars, coreVars>>

BlockUntilReadyUnlocked(c) ==
    LET t == cur[c]
        a == joining[t]
    IN
    /\ pc[c] = "exec" /\ t # None /\ a # None
    /\ Free(FutureLock(a))
    /\ joining' = [joining EXCEPT ![t] = IF resolved[a] THEN None ELSE a]
    /\ Goto(c, IF resolved[a] THEN "exec" ELSE "wait_t")
    /\ UNCHANGED <<state, waitOn, saved, alive, resolved, queueVars, owner, coreVars>>

\* One round of Future::block_until_ready on the join future
BlockUntilReady(c) ==
    LET t == cur[c]
        a == joining[t]
    IN
    /\ pc[c] = "exec"
    /\ t # None
    /\ a # None
    /\ Free(FutureLock(a))
    /\ IF resolved[a]
       THEN /\ joining' = [joining EXCEPT ![t] = None]
            /\ UNCHANGED <<owner, pc>>
       ELSE /\ owner' = Owning(c, {FutureLock(a)}, {})
            /\ Goto(c, "wait_t")
            /\ UNCHANGED joining
    /\ UNCHANGED <<state, waitOn, saved, alive, resolved, queueVars, coreVars>>

\* ThreadWaitList::wait called by FutureWaitGenericLock::wait
WaitJoin(c) ==
    LET t == cur[c] IN
    /\ pc[c] = "wait_t"
    /\ Free(ThreadLock(t))
    /\ owner' = Owning(c, {ThreadLock(t)}, {})
    /\ lst' = [lst EXCEPT ![c] = joining[t]]
    /\ Goto(c, "wait_l")
    /\ UNCHANGED <<threadVars, queueVars, cur, inInt, tgt, from, loop, todo>>

-----------------------------------------------------------------------------
(* The shell command "proc threads": process list, process, every thread   *)

ListThreads(c) ==
    /\ InThread(c)
    /\ cur[c] \in Listers
    /\ Free(ProcessList)
    /\ owner' = Owning(c, {ProcessList}, {})
    /\ Goto(c, "list_p")
    /\ UNCHANGED <<threadVars, queueVars, coreVars>>

ListLockProcess(c) ==
    /\ pc[c] = "list_p"
    /\ Free(ProcessLock)
    /\ owner' = Owning(c, {ProcessLock}, {})
    /\ todo' = [todo EXCEPT ![c] = alive]
    /\ Goto(c, "list_t")
    /\ UNCHANGED <<threadVars, queueVars, cur, inInt, tgt, lst, from, loop>>

ListPrint(c, t) ==
    /\ pc[c] = "list_t"
    /\ t \in todo[c]
    /\ Free(ThreadLock(t))
    /\ todo' = [todo EXCEPT ![c] = @ \ {t}]
    /\ IF todo[c] = {t}
       THEN owner' = Owning(c, {}, {ProcessLock, ProcessList}) /\ Goto(c, "exec")
       ELSE UNCHANGED <<owner, pc>>
    /\ UNCHANGED <<threadVars, queueVars, cur, inInt, tgt, lst, from, loop>>

-----------------------------------------------------------------------------
(* The specification                                                       *)

\* Process::init_kernel_process
Init ==
    /\ state = [t \in Threads |-> IF t = InitThread THEN "Running" ELSE "New"]
    /\ waitOn = [t \in Threads |-> None]
    /\ saved = [t \in Threads |-> FALSE]
    /\ alive = {InitThread}
    /\ resolved = [t \in Threads |-> FALSE]
    /\ joining = [t \in Threads |-> None]
    /\ readyQ = <<>>
    /\ waitQ = [l \in Lists |-> <<>>]
    /\ owner = [k \in Locks |-> None]
    /\ pc = [c \in Cores |-> "exec"]
    /\ cur = [c \in Cores |-> IF c = BootCore THEN InitThread ELSE None]
    /\ inInt = [c \in Cores |-> FALSE]
    /\ tgt = [c \in Cores |-> None]
    /\ lst = [c \in Cores |-> None]
    /\ from = [c \in Cores |-> "exec"]
    /\ loop = [c \in Cores |-> [x \in {"thread", "irq"} |-> None]]
    /\ todo = [c \in Cores |-> {}]

\* What the running thread may decide to do.
ThreadCall(c) ==
    \/ YieldCurrent(c)
    \/ \E l \in Objs : Wait(c, l)
    \/ KillCurrent(c)
    \/ \E t \in Threads : CreateThread(c, t) \/ StartThread(c, t) \/ Join(c, t)
    \/ ListThreads(c)

\* What a core does once it is inside the scheduler.
CoreStep(c) ==
    \/ WaitEnqueue(c)
    \/ SuspendCurrent(c)
    \/ LockOldProcess(c)
    \/ EnqueueOld(c)
    \/ DequeueReady(c)
    \/ Dispatch(c)
    \/ IrqHandled(c)
    \/ EndInterrupt(c)
    \/ WakeMore(c)
    \/ TryWake(c)
    \/ WakeEnqueue(c)
    \/ KillRemove(c)
    \/ FinishJoin(c)
    \/ JoinAsFuture(c)
    \/ BlockUntilReady(c)
    \/ WaitJoin(c)
    \/ ListLockProcess(c)
    \/ \E t \in Threads : ListPrint(c, t)

Next ==
    \E c \in Cores :
        \/ ThreadCall(c)
        \/ CoreStep(c)
        \/ Irq(c)
        \/ \E l \in Objs, all \in BOOLEAN : Wake(c, l, all)

Spec == Init /\ [][Next]_vars

-----------------------------------------------------------------------------
(* Correctness                                                             *)

PCs == {"exec", "suspend", "enq_p", "enq_t", "deq", "disp", "idle_deq",
        "idle_disp", "irq", "soft", "wait_t", "wait_l", "wake_t", "wake_p",
        "kill_t", "finish_f", "finish", "join_f", "list_p", "list_t", "panic"}

ThreadStates == {"New", "Suspended", "Ready", "Running", "Waiting", "Dead"}

\* Every variable of the scheduler has its type, and a pointer to a thread or
\* to a wait list is not null where the code follows it.
TypeOK ==
    /\ state \in [Threads -> ThreadStates]
    /\ waitOn \in [Threads -> Lists \cup {None}]
    /\ saved \in [Threads -> BOOLEAN]
    /\ alive \in SUBSET Threads
    /\ resolved \in [Threads -> BOOLEAN]
    /\ joining \in [Threads -> Threads \cup {None}]
    /\ readyQ \in Seq(Threads)
    /\ waitQ \in [Lists -> Seq(Threads)]
    /\ owner \in [Locks -> Cores \cup {None}]
    /\ pc \in [Cores -> PCs]
    /\ cur \in [Cores -> Threads \cup {None}]
    /\ inInt \in [Cores -> BOOLEAN]
    /\ tgt \in [Cores -> Threads \cup {None}]
    /\ lst \in [Cores -> Lists \cup {None}]
    /\ from \in [Cores -> {"exec", "irq", "soft", "finish"}]
    /\ loop \in [Cores -> [{"thread", "irq"} -> Lists \cup {None}]]
    /\ todo \in [Cores -> SUBSET Threads]
    /\ \A c \in Cores :
        /\ pc[c] \in {"suspend", "enq_p", "enq_t", "wait_t", "wait_l", "kill_t",
                      "finish_f", "finish", "join_f"} => cur[c] # None
        /\ pc[c] \in {"disp", "idle_disp", "wake_t", "wake_p"} => tgt[c] # None
        /\ pc[c] = "finish" => loop[c]["thread"] # None
        /\ from[c] = "finish" => /\ pc[c] \in {"wake_t", "wake_p", "panic"}
                                 /\ cur[c] # None
                                 /\ loop[c]["thread"] # None

\* The assertions of the scheduler hold: a thread is suspended with exactly
\* its own lock held, it is enqueued once and in the state its queue stands
\* for, and what try_wake finds on a wait list waits on that list.
NoPanic == \A c \in Cores : pc[c] # "panic"

\* Core c is executing the code of its current thread, or is in an interrupt
\* or a scheduler call that returns to it.
Executes(c) ==
    /\ cur[c] # None
    /\ \/ pc[c] \in {"exec", "irq", "soft", "wait_t", "wait_l", "kill_t",
                     "join_f", "list_p", "list_t"}
       \/ pc[c] \in {"wake_t", "wake_p"} /\ from[c] # "finish"

\* Core c puts thread t on the ready queue in a step to come, or has taken it
\* off and runs it in a step to come.
Enqueues(c, t) ==
    \/ cur[c] = t /\ pc[c] \in {"enq_p", "enq_t"}
    \/ cur[c] = t /\ pc[c] = "suspend" /\ state[t] = "Ready"
    \/ tgt[c] = t /\ pc[c] = "wake_p"
Dispatches(c, t) == tgt[c] = t /\ pc[c] \in {"disp", "idle_disp"}
Wakes(c, t) == tgt[c] = t /\ pc[c] = "wake_t"

Unique(S) == \A x, y \in S : x = y

\* A running thread runs on exactly one core, and a core executes no thread
\* that is not running: two cores never resume the same thread, whatever
\* wake-ups, yields and interrupts race with its suspension.
RunningOnOneCore ==
    \A t \in Threads :
        LET on == {c \in Cores : Executes(c) /\ cur[c] = t} IN
        Unique(on) /\ (state[t] = "Running" <=> on # {})

\* A ready thread is in one place: once on the ready queue, or in the hands
\* of one core that enqueues or dispatches it.  So none is lost between
\* wake(), yield_current() and the context switch, and none is run twice.
ReadyInOnePlace ==
    \A t \in Threads :
        LET queued == {i \in 1..Len(readyQ) : readyQ[i] = t}
            hands  == {c \in Cores : Enqueues(c, t) \/ Dispatches(c, t)}
        IN /\ Unique(queued) /\ Unique(hands)
           /\ queued = {} \/ hands = {}
           /\ state[t] = "Ready" <=> queued # {} \/ hands # {}

\* A thread another core can pick up has its registers saved: the lock taken
\* before it became visible on a list is dropped only after save_cpu_state.
ResumesSavedState ==
    \A t \in Threads :
        t \in Elems(readyQ) \/ (\E c \in Cores : Dispatches(c, t)) => saved[t]

\* A waiting thread is once on the list it waits on, or one core that took it
\* off is waking it; nothing else is on a wait list.  No sleeper is forgotten.
WaitersOnTheirList ==
    /\ \A l \in Lists : \A i, j \in 1..Len(waitQ[l]) :
            /\ state[waitQ[l][i]] = "Waiting" /\ waitOn[waitQ[l][i]] = l
            /\ waitQ[l][i] = waitQ[l][j] => i = j
    /\ \A t \in Threads : state[t] = "Waiting" =>
            LET by == {c \in Cores : Wakes(c, t)} IN
            /\ Unique(by)
            /\ t \in Elems(waitQ[waitOn[t]]) <=> by = {}

\* Every thread is in exactly one place: on a core, on the ready queue or on
\* a wait list, or in the hands of the one core that moves it between them.
ThreadInOnePlace == RunningOnOneCore /\ ReadyInOnePlace /\ WaitersOnTheirList

\* A thread sleeps on the join future of a dead thread only while that
\* thread's finish still holds the future's lock and is emptying the list: a
\* join that races with kill_current never sleeps for good.
JoinWakeupNotLost ==
    \A a \in Threads :
        resolved[a] /\ waitQ[a] # <<>> => owner[FutureLock(a)] # None

\* The locks core c spins on; any one of them lets it go on.
Wants(c) ==
    CASE pc[c] \in {"enq_t", "kill_t", "wait_t"} -> {ThreadLock(cur[c])}
      [] pc[c] \in {"disp", "idle_disp", "wake_t"} -> {ThreadLock(tgt[c])}
      [] pc[c] \in {"enq_p", "deq", "idle_deq", "wake_p", "list_p"} -> {ProcessLock}
      [] pc[c] = "wait_l" -> {ListLock(lst[c])}
      [] pc[c] = "finish" -> {ListLock(loop[c]["thread"])}
      [] pc[c] = "finish_f" -> {FutureLock(cur[c])}
      [] pc[c] = "join_f" -> {FutureLock(joining[cur[c]])}
      [] pc[c] = "list_t" -> {ThreadLock(t) : t \in todo[c]}
      [] OTHER -> {}

\* Threads that wait for each other's end in a circle.
CircularJoin ==
    \E T \in (SUBSET Threads) \ {{}} : \A t \in T : \E u \in T : joining[u] = t

\* No set of cores spins on locks that only they hold, unless threads join
\* each other in a circle: the lock order of the scheduler admits no other
\* deadlock.
DeadlockFree ==
    \A S \in (SUBSET Cores) \ {{}} :
        \/ \E c \in S : \/ Wants(c) = {}
                        \/ \E k \in Wants(c) : owner[k] \notin S
        \/ CircularJoin

-----------------------------------------------------------------------------
(* The promise the scheduler keeps                                         *)

\* The core that has taken the first thread of l off and not yet made it ready.
Waker(l) == {c \in Cores : lst[c] = l /\ pc[c] \in {"wake_t", "wake_p"}}

\* The threads that are not started, the thread core c runs, the threads
\* asleep in l and the dead ones, as the promise sees them: a thread changes
\* its place where it enters or leaves a queue.
Idle == {t \in Threads :
            \/ state[t] = "Suspended"
            \/ \E c \in Cores : tgt[c] = t /\ pc[c] = "wake_p" /\ lst[c] = None}
On(c) == IF pc[c] \in {"disp", "idle_disp"} THEN tgt[c]
         ELSE IF Executes(c) \/ Enqueues(c, cur[c]) THEN cur[c]
         ELSE None
Asleep(l) == IF Waker(l) = {} THEN waitQ[l]
             ELSE <<tgt[CHOOSE c \in Waker(l) : TRUE]>> \o waitQ[l]
Dead == {t \in Threads : state[t] = "Dead"}

Abs == INSTANCE SchedAbs WITH
    idle <- Idle,
    on <- [c \in Cores |-> On(c)],
    ready <- readyQ,
    asleep <- [l \in Lists |-> Asleep(l)],
    dead <- Dead

\* The scheduler with its locks and interrupts implements the atomic
\* first-in first-out scheduler: no interleaving of cores makes a thread
\* overtake another on the ready queue or on a wait list, run before it is
\* queued, or be in two places at once.
ImplementsAbs == Abs!Spec

-----------------------------------------------------------------------------
(* Progress on one core                                                    *)

\* The step with which a thread gives the core up of its own accord.
GiveUp(c) == YieldCurrent(c) \/ KillCurrent(c) \/ \E l \in Objs : Wait(c, l)

\* A core that is inside the scheduler goes on.  Threads are not preempted,
\* so a running thread is assumed to give the core up some time, and
\* interrupts to leave it time to do so; a handler or soft interrupt wakes
\* finitely many threads and returns.
Fairness ==
    \A c \in Cores :
        /\ WF_vars(CoreStep(c))
        /\ SF_vars(GiveUp(c)) /\ SF_vars(BlockUntilReady(c)) /\ SF_vars(WakeMore(c))
        /\ SF_vars(IrqHandled(c)) /\ SF_vars(EndInterrupt(c))

FairSpec == Spec /\ Fairness

\* Every ready thread runs: the queue is first-in first-out and a halted core
\* never leaves one behind.
ReadyThreadRuns ==
    \A t \in Threads : state[t] = "Ready" ~> state[t] = "Running"

\* Whoever joins a thread that dies gets to go on.
JoinerGoesOn ==
    \A t, a \in Threads :
        joining[t] = a /\ resolved[a] ~> joining[t] # a

=============================================================================
