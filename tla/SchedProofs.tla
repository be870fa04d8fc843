----------------------------- MODULE SchedProofs -----------------------------
(***************************************************************************)
(* Theorems about the scheduler, for any number of cores, threads and wait *)
(* lists.  After the types comes the inductive invariant SchedInv (which   *)
(* locks a core holds, in which state its thread is, that no two cores     *)
(* have the same thread, and where every thread is), from which the safety *)
(* properties of Sched follow, the absence of deadlock last.               *)
(***************************************************************************)
EXTENDS Sched, TLAPS

\* Sequences: what the queue operations return.
LEMMA QueueTypes ==
    ASSUME NEW S, NEW q \in Seq(S), NEW t \in S
    PROVE  /\ ReadyEnqueue(q, t) \in Seq(S)
           /\ Append(q, t) \in Seq(S)
           /\ q # <<>> => /\ ReadyDequeue(q) \in Seq(S)
                          /\ WaitDequeue(q) \in Seq(S)
                          /\ Head(q) \in S
  BY DEF ReadyEnqueue, ReadyDequeue, WaitDequeue

\* Taking and dropping locks leaves owner a function to cores.
LEMMA OwningType ==
    ASSUME TypeOK, NEW c \in Cores, NEW A, NEW R
    PROVE  Owning(c, A, R) \in [Locks -> Cores \cup {None}]
  BY DEF TypeOK, Owning

\* A dequeue from a wait list that is not empty keeps every type, if the list
\* a wake_all goes on with is one.
LEMMA DequeueType ==
    ASSUME TypeOK, NEW c \in Cores, NEW l \in Lists,
           waitQ[l] # <<>>, Dequeue(c, l),
           pc[c] \in {"exec", "irq", "soft", "finish"},
           \/ UNCHANGED loop
           \/ /\ pc[c] # "finish"
              /\ \E x \in {"thread", "irq"}, m \in Lists \cup {None} :
                        loop' = [loop EXCEPT ![c][x] = m]
    PROVE  TypeOK'
<1>1. Head(waitQ[l]) \in Threads /\ WaitDequeue(waitQ[l]) \in Seq(Threads)
  BY QueueTypes DEF TypeOK
<1>2. waitQ' \in [Lists -> Seq(Threads)]
  BY <1>1 DEF Dequeue, TypeOK
<1>3. loop' \in [Cores -> [{"thread", "irq"} -> Lists \cup {None}]]
  <2>1. CASE UNCHANGED loop
    BY <2>1 DEF TypeOK
  <2>2. ASSUME NEW x \in {"thread", "irq"}, NEW m \in Lists \cup {None},
               loop' = [loop EXCEPT ![c][x] = m]
        PROVE  loop' \in [Cores -> [{"thread", "irq"} -> Lists \cup {None}]]
    <3>1. [loop[c] EXCEPT ![x] = m] \in [{"thread", "irq"} -> Lists \cup {None}]
      BY DEF TypeOK
    <3>2. QED
      BY <2>2, <3>1 DEF TypeOK
  <2>3. QED
    BY <2>1, <2>2
<1>4. QED
  BY <1>1, <1>2, <1>3, SchedAssumption, OwningType
     DEF Dequeue, TypeOK, PCs, Lists, threadVars, Goto

\* Every variable has its type at first,
LEMMA InitType == Init => TypeOK
  BY SchedAssumption DEF Init, TypeOK, Lists, PCs, ThreadStates

\* and after every step.
LEMMA NextType == TypeOK /\ [Next]_vars => TypeOK'
<1> SUFFICES ASSUME TypeOK, [Next]_vars PROVE TypeOK'
  OBVIOUS
<1> USE SchedAssumption, OwningType DEF TypeOK, Lists, PCs, ThreadStates, threadVars, queueVars, coreVars
<1>1. ASSUME NEW c \in Cores, YieldCurrent(c) PROVE TypeOK'
  BY <1>1 DEF YieldCurrent, InThread, Goto, GotoIf
<1>2. ASSUME NEW c \in Cores, NEW l \in Objs, Wait(c, l) PROVE TypeOK'
  BY <1>2 DEF Wait, InThread, Goto, GotoIf
<1>3. ASSUME NEW c \in Cores, KillCurrent(c) PROVE TypeOK'
  BY <1>3 DEF KillCurrent, InThread, Goto, GotoIf
<1>4. ASSUME NEW c \in Cores, NEW t \in Threads, CreateThread(c, t) PROVE TypeOK'
  BY <1>4 DEF CreateThread, InThread, Goto, GotoIf
<1>5. ASSUME NEW c \in Cores, NEW t \in Threads, StartThread(c, t) PROVE TypeOK'
  BY <1>5 DEF StartThread, InThread, Goto, GotoIf
<1>6. ASSUME NEW c \in Cores, NEW t \in Threads, Join(c, t) PROVE TypeOK'
  BY <1>6 DEF Join, InThread, Goto, GotoIf
<1>7. ASSUME NEW c \in Cores, ListThreads(c) PROVE TypeOK'
  BY <1>7 DEF ListThreads, InThread, Goto, GotoIf
<1>8. ASSUME NEW c \in Cores, WaitEnqueue(c) PROVE TypeOK'
  <2>1. cur[c] \in Threads
    BY <1>8 DEF WaitEnqueue
  <2>2. waitQ' \in [Lists -> Seq(Threads)]
    BY <1>8, <2>1, QueueTypes DEF WaitEnqueue
  <2>3. QED
    BY <1>8, <2>1, <2>2 DEF WaitEnqueue, Goto, GotoIf
<1>9. ASSUME NEW c \in Cores, SuspendCurrent(c) PROVE TypeOK'
  BY <1>9 DEF SuspendCurrent, SaveCpuState, Goto, GotoIf
<1>10. ASSUME NEW c \in Cores, LockOldProcess(c) PROVE TypeOK'
  BY <1>10 DEF LockOldProcess, Goto, GotoIf
<1>11. ASSUME NEW c \in Cores, EnqueueOld(c) PROVE TypeOK'
  <2>1. readyQ' \in Seq(Threads)
    BY <1>11, QueueTypes DEF EnqueueOld
  <2>2. QED
    BY <1>11, <2>1 DEF EnqueueOld, Goto, GotoIf
<1>12. ASSUME NEW c \in Cores, DequeueReady(c) PROVE TypeOK'
  <2>1. CASE readyQ # <<>>
    <3>1. Head(readyQ) \in Threads /\ ReadyDequeue(readyQ) \in Seq(Threads)
      BY <2>1, QueueTypes
    <3>2. PICK p \in {"disp", "idle_disp"} : pc' = [pc EXCEPT ![c] = p]
      BY <1>12, <2>1 DEF DequeueReady, Goto
    <3>3. /\ pc[c] \in {"deq", "idle_deq"}
          /\ tgt' = [tgt EXCEPT ![c] = Head(readyQ)]
          /\ readyQ' = ReadyDequeue(readyQ)
          /\ UNCHANGED <<cur, inInt, threadVars, waitQ, owner, lst, from, loop, todo>>
      BY <1>12, <2>1 DEF DequeueReady
    <3>4. QED
      BY <3>1, <3>2, <3>3
  <2>2. CASE readyQ = <<>>
    <3>1. PICK p \in {"soft", "exec"} : pc' = [pc EXCEPT ![c] = p]
      BY <1>12, <2>2 DEF DequeueReady, Goto
    <3>2. inInt' \in [Cores -> BOOLEAN]
      BY <1>12, <2>2 DEF DequeueReady
    <3>3. QED
      BY <1>12, <2>2, <3>1, <3>2 DEF DequeueReady
  <2>3. QED
    BY <2>1, <2>2
<1>13. ASSUME NEW c \in Cores, Dispatch(c) PROVE TypeOK'
  BY <1>13 DEF Dispatch, Goto, GotoIf
<1>14. ASSUME NEW c \in Cores, IrqHandled(c) PROVE TypeOK'
  BY <1>14 DEF IrqHandled, Goto, GotoIf
<1>15. ASSUME NEW c \in Cores, EndInterrupt(c) PROVE TypeOK'
  BY <1>15 DEF EndInterrupt, Goto, GotoIf
<1>16. ASSUME NEW c \in Cores, WakeMore(c) PROVE TypeOK'
  <2> DEFINE l == loop[c][Context(c)]
  <2>1. Context(c) \in {"thread", "irq"} /\ l \in Lists
    BY <1>16 DEF WakeMore, Context
  <2>2. CASE waitQ[l] # <<>>
    <3>1. Dequeue(c, l) /\ UNCHANGED loop
      BY <1>16, <2>2 DEF WakeMore
    <3>2. QED
      BY <1>16, <2>1, <2>2, <3>1, DequeueType DEF WakeMore
  <2>3. CASE waitQ[l] = <<>>
    <3>1. PICK p \in PCs : /\ pc' = [pc EXCEPT ![c] = p]
                           /\ p = IF pc[c] = "finish" THEN "suspend" ELSE pc[c]
      BY <1>16, <2>3 DEF WakeMore, Goto
    <3>2. [loop[c] EXCEPT ![Context(c)] = None] \in [{"thread", "irq"} -> Lists \cup {None}]
      BY <2>1
    <3>3. loop' = [loop EXCEPT ![c] = [loop[c] EXCEPT ![Context(c)] = None]]
      BY <1>16, <2>3 DEF WakeMore
    <3>4. owner' \in [Locks -> Cores \cup {None}]
      BY <1>16, <2>3 DEF WakeMore
    <3>5. QED
      BY <1>16, <2>1, <2>3, <3>1, <3>2, <3>3, <3>4 DEF WakeMore
  <2>4. QED
    BY <2>2, <2>3
<1>17. ASSUME NEW c \in Cores, TryWake(c) PROVE TypeOK'
  BY <1>17 DEF TryWake, Goto, GotoIf
<1>18. ASSUME NEW c \in Cores, WakeEnqueue(c) PROVE TypeOK'
  <2>1. readyQ' \in Seq(Threads)
    BY <1>18, QueueTypes DEF WakeEnqueue
  <2>2. QED
    BY <1>18, <2>1 DEF WakeEnqueue, Goto, GotoIf
<1>19. ASSUME NEW c \in Cores, KillRemove(c) PROVE TypeOK'
  BY <1>19 DEF KillRemove, Goto, GotoIf
<1>20. ASSUME NEW c \in Cores, FinishJoin(c) PROVE TypeOK'
  BY <1>20 DEF FinishJoin, Goto, GotoIf
<1>21. ASSUME NEW c \in Cores, JoinAsFuture(c) PROVE TypeOK'
  BY <1>21 DEF JoinAsFuture, Goto, GotoIf
<1>22. ASSUME NEW c \in Cores, BlockUntilReady(c) PROVE TypeOK'
  <2>1. CASE resolved[joining[cur[c]]]
    BY <1>22, <2>1 DEF BlockUntilReady
  <2>2. CASE ~resolved[joining[cur[c]]]
    <3>1. pc' = [pc EXCEPT ![c] = "wait_t"] /\ owner' \in [Locks -> Cores \cup {None}]
      BY <1>22, <2>2 DEF BlockUntilReady, Goto
    <3>2. QED
      BY <1>22, <2>2, <3>1 DEF BlockUntilReady
  <2>3. QED
    BY <2>1, <2>2
<1>23. ASSUME NEW c \in Cores, WaitJoin(c) PROVE TypeOK'
  BY <1>23 DEF WaitJoin, Goto, GotoIf
<1>24. ASSUME NEW c \in Cores, ListLockProcess(c) PROVE TypeOK'
  BY <1>24 DEF ListLockProcess, Goto, GotoIf
<1>25. ASSUME NEW c \in Cores, NEW t \in Threads, ListPrint(c, t) PROVE TypeOK'
  <2>1. CASE todo[c] = {t}
    <3>1. pc' = [pc EXCEPT ![c] = "exec"] /\ owner' \in [Locks -> Cores \cup {None}]
      BY <1>25, <2>1 DEF ListPrint, Goto
    <3>2. QED
      BY <1>25, <2>1, <3>1 DEF ListPrint
  <2>2. CASE todo[c] # {t}
    BY <1>25, <2>2 DEF ListPrint
  <2>3. QED
    BY <2>1, <2>2
<1>26. ASSUME NEW c \in Cores, Irq(c) PROVE TypeOK'
  BY <1>26 DEF Irq, Goto, GotoIf
<1>27. ASSUME NEW c \in Cores, NEW l \in Objs, NEW all \in BOOLEAN, Wake(c, l, all)
       PROVE  TypeOK'
  <2>1. Context(c) \in {"thread", "irq"}
    BY DEF Context
  <2>2. QED
    BY <1>27, <2>1, DequeueType DEF Wake, InThread
<1>28. CASE UNCHANGED vars
  BY <1>28 DEF vars
<1> HIDE DEF TypeOK
<1>29. QED
  BY <1>1, <1>2, <1>3, <1>4, <1>5, <1>6, <1>7, <1>8, <1>9, <1>10, <1>11, <1>12, <1>13,
     <1>14, <1>15, <1>16, <1>17, <1>18, <1>19, <1>20, <1>21, <1>22, <1>23, <1>24, <1>25,
     <1>26, <1>27, <1>28 DEF Next, ThreadCall, CoreStep

\* The scheduler keeps its types and follows no null pointer to a thread, on
\* any number of cores and threads.
THEOREM TypeCorrect == Spec => []TypeOK
  BY InitType, NextType, PTL DEF Spec

-----------------------------------------------------------------------------
(* The inductive invariant                                                 *)

\* Core c is in kill_current, past the point where its thread died.
Finishing(c) ==
    /\ cur[c] # None
    /\ \/ pc[c] \in {"finish_f", "finish"}
       \/ pc[c] \in {"wake_t", "wake_p"} /\ from[c] = "finish"

\* CURRENT_THREAD of core c is not yet visible to the other cores as a thread
\* to run: c has not reached the dequeue of the next one.
Bound(c) == cur[c] # None /\ pc[c] \notin {"deq", "disp"}

\* Core c has a thread in hand that it took off a queue or makes ready.
Hand == {"disp", "idle_disp", "wake_t", "wake_p"}

\* The locks a core holds, as its code position tells.
HoldsThread(c, t) ==
    \/ cur[c] = t /\ (pc[c] \in {"suspend", "wait_l"} \/ Finishing(c))
    \/ tgt[c] = t /\ pc[c] = "wake_p"
    \/ pc[c] = "join_f" /\ joining[cur[c]] = t
HoldsList(c, l) == lst[c] = l /\ pc[c] \in {"wake_t", "wake_p"}
HoldsFuture(c, a) ==
    \/ pc[c] \in {"wait_t", "wait_l"} /\ joining[cur[c]] = a
    \/ cur[c] = a /\ Finishing(c) /\ pc[c] # "finish_f"

ThreadLocksHeld ==
    \A c \in Cores, t \in Threads : owner[ThreadLock(t)] = c <=> HoldsThread(c, t)
ListLocksHeld ==
    \A c \in Cores, l \in Lists : owner[ListLock(l)] = c <=> HoldsList(c, l)
FutureLocksHeld ==
    \A c \in Cores, t \in Threads : owner[FutureLock(t)] = c <=> HoldsFuture(c, t)
GlobalLocksHeld ==
    \A c \in Cores :
        /\ owner[ProcessLock] = c <=> pc[c] \in {"enq_t", "kill_t", "list_t"}
        /\ owner[ProcessList] = c <=> pc[c] \in {"list_p", "list_t"}
        /\ owner[IrqHandlers] = c <=>
              pc[c] = "irq" \/ (pc[c] \in {"wake_t", "wake_p"} /\ from[c] = "irq")

\* A core holds exactly the locks its position in the code says.
LocksHeld == ThreadLocksHeld /\ ListLocksHeld /\ FutureLocksHeld /\ GlobalLocksHeld

\* The thread a core works on is in the state the code there expects.
StatesOK ==
    \A c \in Cores :
        /\ Executes(c) => state[cur[c]] = "Running"
        /\ pc[c] = "suspend" => state[cur[c]] \in {"Ready", "Waiting", "Dead"}
        /\ pc[c] \in {"enq_p", "enq_t"} => state[cur[c]] = "Ready"
        /\ Finishing(c) => state[cur[c]] = "Dead"
        /\ pc[c] \in {"disp", "idle_disp", "wake_p"} => state[tgt[c]] = "Ready"
        /\ pc[c] = "wake_t" => /\ state[tgt[c]] = "Waiting"
                               /\ lst[c] # None
                               /\ waitOn[tgt[c]] = lst[c]

\* What a core remembers of the call it is in: a switch from the idle state
\* has no old thread; a join waits for another, unfinished thread, on the list
\* of that thread's future.
CallsOK ==
    \A c \in Cores :
        /\ pc[c] \in {"idle_deq", "idle_disp"} => cur[c] = None
        /\ pc[c] \in {"list_p", "list_t"} => cur[c] \in Listers
        /\ pc[c] \in {"wait_t", "join_f"} => joining[cur[c]] # None
        /\ pc[c] = "join_f" => joining[cur[c]] # cur[c]
        /\ pc[c] = "wait_l" =>
              /\ lst[c] # None
              /\ joining[cur[c]] # None => lst[c] = joining[cur[c]]
              /\ lst[c] \in Threads => lst[c] = joining[cur[c]]
        /\ pc[c] \in {"wait_t", "wait_l"} /\ joining[cur[c]] # None
              => ~resolved[joining[cur[c]]]

\* IN_INTERRUPT is set only in interrupt code; the wake_all of a dying thread's
\* join future empties that future's list, and nobody else works on the list.
ContextOK ==
    \A c \in Cores :
        /\ inInt[c] => \/ pc[c] \in {"irq", "soft", "enq_p", "enq_t", "deq", "disp",
                                     "idle_deq", "idle_disp"}
                       \/ pc[c] \in {"wake_t", "wake_p"} /\ from[c] \in {"irq", "soft"}
        /\ Finishing(c) /\ pc[c] # "finish_f" => loop[c]["thread"] = cur[c] /\ ~inInt[c]
        /\ loop[c]["irq"] \notin Threads
        /\ loop[c]["thread"] \in Threads => Finishing(c) /\ pc[c] # "finish_f"
        /\ pc[c] \in {"wake_t", "wake_p"} /\ lst[c] \in Threads => from[c] = "finish" /\ lst[c] = cur[c]

\* No two cores have the same thread: as current thread, in hand, or one as
\* the thread it gives up and the other in hand.
CoresApart ==
    \A c, d \in Cores :
        /\ Bound(c) /\ Bound(d) /\ cur[c] = cur[d] => c = d
        /\ pc[c] \in Hand /\ pc[d] \in Hand /\ tgt[c] = tgt[d] => c = d
        /\ /\ pc[c] \in {"suspend", "enq_p", "enq_t"}
           /\ pc[d] \in {"disp", "idle_disp", "wake_p"}
           => cur[c] # tgt[d]

Inj(q) == \A i, j \in 1..Len(q) : q[i] = q[j] => i = j

\* What is queued is there once, in the right state and in no core's hand.
ReadyOK ==
    /\ Inj(readyQ)
    /\ \A t \in Elems(readyQ) :
        /\ state[t] = "Ready"
        /\ \A c \in Cores : ~Enqueues(c, t) /\ ~Dispatches(c, t)
WaitOK ==
    \A l \in Lists :
        /\ Inj(waitQ[l])
        /\ \A t \in Elems(waitQ[l]) :
            /\ state[t] = "Waiting" /\ waitOn[t] = l
            /\ \A c \in Cores : ~Wakes(c, t)

\* A running thread is on a core; a ready one is queued or in a hand; a waiting
\* one is on its list or in the hand of the core that wakes it.
RunningSomewhere ==
    \A t \in Threads : state[t] = "Running" => \E c \in Cores : Executes(c) /\ cur[c] = t
ReadySomewhere ==
    \A t \in Threads : state[t] = "Ready" =>
        t \in Elems(readyQ) \/ \E c \in Cores : Enqueues(c, t) \/ Dispatches(c, t)
WaitingSomewhere ==
    \A t \in Threads : state[t] = "Waiting" =>
        /\ waitOn[t] \in Lists
        /\ t \in Elems(waitQ[waitOn[t]]) \/ \E c \in Cores : Wakes(c, t)

\* The registers of a thread that is not running are saved, unless a core is
\* still on its way to save them, with the thread locked.
SavedOK ==
    \A t \in Threads :
        /\ state[t] \in {"Ready", "Waiting", "Suspended"}
        /\ \A c \in Cores : ~(pc[c] = "suspend" /\ cur[c] = t)
        => saved[t]

SchedInv ==
    /\ TypeOK /\ NoPanic
    /\ LocksHeld
    /\ StatesOK /\ CallsOK /\ ContextOK /\ CoresApart
    /\ ReadyOK /\ WaitOK
    /\ RunningSomewhere /\ ReadySomewhere /\ WaitingSomewhere
    /\ SavedOK
    /\ JoinWakeupNotLost

-----------------------------------------------------------------------------
(* Locks, queues and cores                                                 *)

\* The names of the locks tell them apart.
LEMMA LockNames ==
    /\ \A t : /\ ThreadLock(t) \in Locks <=> t \in Threads
              /\ FutureLock(t) \in Locks <=> t \in Threads
              /\ ListLock(t) \in Locks <=> t \in Lists
    /\ ProcessLock \in Locks /\ ProcessList \in Locks /\ IrqHandlers \in Locks
    /\ \A t, u : /\ ThreadLock(t) = ThreadLock(u) <=> t = u
                 /\ FutureLock(t) = FutureLock(u) <=> t = u
                 /\ ListLock(t) = ListLock(u) <=> t = u
                 /\ ThreadLock(t) # FutureLock(u) /\ ThreadLock(t) # ListLock(u)
                 /\ FutureLock(t) # ListLock(u)
    /\ \A t : /\ ProcessLock # ThreadLock(t) /\ ProcessLock # FutureLock(t) /\ ProcessLock # ListLock(t)
              /\ ProcessList # ThreadLock(t) /\ ProcessList # FutureLock(t) /\ ProcessList # ListLock(t)
              /\ IrqHandlers # ThreadLock(t) /\ IrqHandlers # FutureLock(t) /\ IrqHandlers # ListLock(t)
    /\ ProcessLock # ProcessList /\ ProcessLock # IrqHandlers /\ ProcessList # IrqHandlers
  BY DEF Locks, ThreadLock, FutureLock, ListLock, ProcessLock, ProcessList, IrqHandlers

\* What the queue operations do to the elements of a queue without repetition.
LEMMA QueueElems ==
    ASSUME NEW S, NEW q \in Seq(S), NEW t \in S
    PROVE  /\ Elems(q) \subseteq S
           /\ Elems(Append(q, t)) = Elems(q) \cup {t}
           /\ Inj(q) /\ t \notin Elems(q) => Inj(Append(q, t))
           /\ q # <<>> => Head(q) \in Elems(q)
           /\ q # <<>> /\ Inj(q) => /\ Elems(Tail(q)) = Elems(q) \ {Head(q)}
                                    /\ Inj(Tail(q))
           /\ q = <<>> => Elems(q) = {}
<1>1. Elems(q) \subseteq S /\ (q = <<>> => Elems(q) = {})
  BY DEF Elems
<1>2. Elems(Append(q, t)) = Elems(q) \cup {t}
  <2>1. Len(Append(q, t)) = Len(q) + 1
    OBVIOUS
  <2>2. \A i \in 1..Len(q) : Append(q, t)[i] = q[i]
    OBVIOUS
  <2>3. Append(q, t)[Len(q) + 1] = t
    OBVIOUS
  <2>4. Len(q) \in Nat
    OBVIOUS
  <2>5. QED
    BY <2>1, <2>2, <2>3, <2>4 DEF Elems
<1>3. Inj(q) /\ t \notin Elems(q) => Inj(Append(q, t))
  BY DEF Elems, Inj
<1>4. q # <<>> => Head(q) \in Elems(q)
  BY DEF Elems
<1>5. ASSUME q # <<>>, Inj(q) PROVE Elems(Tail(q)) = Elems(q) \ {Head(q)} /\ Inj(Tail(q))
  <2>1. Len(q) \in Nat /\ Len(q) # 0 /\ Len(Tail(q)) = Len(q) - 1 /\ Head(q) = q[1]
    BY <1>5
  <2>2. \A i \in 1..Len(q)-1 : Tail(q)[i] = q[i+1]
    BY <1>5
  <2>3. Inj(Tail(q))
    BY <1>5, <2>1, <2>2 DEF Inj
  <2>4. Elems(Tail(q)) \subseteq Elems(q) \ {Head(q)}
    BY <1>5, <2>1, <2>2 DEF Inj, Elems
  <2>5. ASSUME NEW i \in 1..Len(q), q[i] # Head(q) PROVE q[i] \in Elems(Tail(q))
    <3>1. i - 1 \in 1..Len(Tail(q)) /\ Tail(q)[i-1] = q[i]
      BY <2>1, <2>2, <2>5
    <3>2. QED
      BY <3>1 DEF Elems
  <2>6. Elems(q) \ {Head(q)} \subseteq Elems(Tail(q))
    BY <2>5 DEF Elems
  <2>7. QED
    BY <2>3, <2>4, <2>6
<1>6. QED
  BY <1>1, <1>2, <1>3, <1>4, <1>5

-----------------------------------------------------------------------------
(* Under the invariant no assertion fails, and each step of the scheduler  *)
(* is one of Steps, in which every branch of the code is a step of its own.*)

\* DequeueReady, with a ready thread and without: from p the core goes to q.
TakeReady(c, p, q) ==
    /\ pc[c] = p /\ pc' = [pc EXCEPT ![c] = q]
    /\ Free(ProcessLock) /\ readyQ # <<>>
    /\ tgt' = [tgt EXCEPT ![c] = Head(readyQ)]
    /\ readyQ' = Tail(readyQ)
    /\ UNCHANGED <<threadVars, waitQ, owner, cur, inInt, lst, from, loop, todo>>
GoIdle(c, p, q, b) ==
    /\ pc[c] = p /\ pc' = [pc EXCEPT ![c] = q]
    /\ cur' = [cur EXCEPT ![c] = None]
    /\ inInt' = [inInt EXCEPT ![c] = b]
    /\ UNCHANGED <<threadVars, queueVars, owner, tgt, lst, from, loop, todo>>

\* EndInterrupt on an idle core and on one with a thread.
LookForThread(c) ==
    /\ pc[c] = "soft" /\ pc' = [pc EXCEPT ![c] = "idle_deq"]
    /\ cur[c] = None /\ inInt' = [inInt EXCEPT ![c] = TRUE]
    /\ UNCHANGED <<threadVars, queueVars, owner, cur, tgt, lst, from, loop, todo>>
ReturnToThread(c) ==
    /\ pc[c] = "soft" /\ pc' = [pc EXCEPT ![c] = "exec"]
    /\ cur[c] # None /\ inInt' = [inInt EXCEPT ![c] = FALSE]
    /\ UNCHANGED <<threadVars, queueVars, owner, cur, tgt, lst, from, loop, todo>>

\* Wake or WakeMore takes the first thread off the list l.
TakeWaiter(c, l) ==
    /\ pc[c] \in {"exec", "irq", "soft", "finish"} /\ pc' = [pc EXCEPT ![c] = "wake_t"]
    /\ Free(ListLock(l)) /\ waitQ[l] # <<>>
    /\ owner' = Owning(c, {ListLock(l)}, {})
    /\ waitQ' = [waitQ EXCEPT ![l] = Tail(@)]
    /\ tgt' = [tgt EXCEPT ![c] = Head(waitQ[l])]
    /\ lst' = [lst EXCEPT ![c] = l]
    /\ from' = [from EXCEPT ![c] = pc[c]]
    /\ l \in Threads => pc[c] = "finish" /\ l = cur[c]
    /\ \/ UNCHANGED loop
       \/ /\ pc[c] # "finish"
          /\ \E x \in {"thread", "irq"}, m \in Objs \cup {None} :
                    loop' = [loop EXCEPT ![c][x] = m]
    /\ UNCHANGED <<threadVars, readyQ, cur, inInt, todo>>

\* WakeMore at the end of the list.
FinishDone(c) ==
    /\ pc[c] = "finish" /\ pc' = [pc EXCEPT ![c] = "suspend"]
    /\ Free(ListLock(cur[c])) /\ waitQ[cur[c]] = <<>>
    /\ owner' = Owning(c, {}, {FutureLock(cur[c])})
    /\ loop' = [loop EXCEPT ![c]["thread"] = None]
    /\ UNCHANGED <<threadVars, queueVars, cur, inInt, tgt, lst, from, todo>>
LoopDone(c) ==
    /\ pc[c] \in {"exec", "irq", "soft"}
    /\ \E x \in {"thread", "irq"} : loop' = [loop EXCEPT ![c][x] = None]
    /\ UNCHANGED <<threadVars, queueVars, owner, pc, cur, inInt, tgt, lst, from, todo>>

\* TryWake and WakeEnqueue with the assertions passed.
MakeReady(c) ==
    /\ pc[c] = "wake_t" /\ pc' = [pc EXCEPT ![c] = "wake_p"]
    /\ Free(ThreadLock(tgt[c]))
    /\ state' = [state EXCEPT ![tgt[c]] = "Ready"]
    /\ waitOn' = [waitOn EXCEPT ![tgt[c]] = None]
    /\ owner' = Owning(c, {ThreadLock(tgt[c])}, {})
    /\ UNCHANGED <<saved, alive, resolved, joining, queueVars, coreVars>>
QueueWoken(c) ==
    /\ pc[c] = "wake_p" /\ pc' = [pc EXCEPT ![c] = from[c]]
    /\ Free(ProcessLock)
    /\ readyQ' = Append(readyQ, tgt[c])
    /\ tgt' = [tgt EXCEPT ![c] = None]
    /\ lst' = [lst EXCEPT ![c] = None]
    /\ from' = [from EXCEPT ![c] = "exec"]
    /\ owner' = Owning(c, {}, {ThreadLock(tgt[c]), ListLock(lst[c])})
    /\ UNCHANGED <<threadVars, waitQ, cur, inInt, loop, todo>>

\* BlockUntilReady on a resolved future and on another.
JoinDone(c) ==
    /\ pc[c] = "exec" /\ cur[c] # None /\ joining[cur[c]] # None
    /\ resolved[joining[cur[c]]]
    /\ joining' = [joining EXCEPT ![cur[c]] = None]
    /\ UNCHANGED <<state, waitOn, saved, alive, resolved, queueVars, owner, pc, coreVars>>
JoinBlocks(c) ==
    /\ pc[c] = "exec" /\ pc' = [pc EXCEPT ![c] = "wait_t"]
    /\ cur[c] # None /\ joining[cur[c]] # None
    /\ Free(FutureLock(joining[cur[c]]))
    /\ ~resolved[joining[cur[c]]]
    /\ owner' = Owning(c, {FutureLock(joining[cur[c]])}, {})
    /\ UNCHANGED <<threadVars, queueVars, coreVars>>

\* ListPrint before and at the last thread.
PrintOne(c) ==
    /\ pc[c] = "list_t"
    /\ \E S \in SUBSET Threads : todo' = [todo EXCEPT ![c] = S]
    /\ UNCHANGED <<threadVars, queueVars, owner, pc, cur, inInt, tgt, lst, from, loop>>
PrintLast(c) ==
    /\ pc[c] = "list_t" /\ pc' = [pc EXCEPT ![c] = "exec"]
    /\ owner' = Owning(c, {}, {ProcessLock, ProcessList})
    /\ todo' = [todo EXCEPT ![c] = {}]
    /\ UNCHANGED <<threadVars, queueVars, cur, inInt, tgt, lst, from, loop>>

\* The other steps that assert something, with the assertion passed.
Yields(c) ==
    /\ pc[c] = "exec" /\ pc' = [pc EXCEPT ![c] = "suspend"]
    /\ cur[c] # None /\ joining[cur[c]] = None
    /\ Free(ThreadLock(cur[c]))
    /\ owner' = Owning(c, {ThreadLock(cur[c])}, {})
    /\ state' = [state EXCEPT ![cur[c]] = "Ready"]
    /\ UNCHANGED <<waitOn, saved, alive, resolved, joining, queueVars, coreVars>>
Sleeps(c) ==
    /\ pc[c] = "wait_l" /\ pc' = [pc EXCEPT ![c] = "suspend"]
    /\ Free(ListLock(lst[c]))
    /\ state' = [state EXCEPT ![cur[c]] = "Waiting"]
    /\ waitOn' = [waitOn EXCEPT ![cur[c]] = lst[c]]
    /\ waitQ' = [waitQ EXCEPT ![lst[c]] = Append(@, cur[c])]
    /\ owner' = Owning(c, {}, {FutureLock(joining[cur[c]])})
    /\ lst' = [lst EXCEPT ![c] = None]
    /\ UNCHANGED <<saved, alive, resolved, joining, readyQ, cur, inInt, tgt, from, loop, todo>>
Suspends(c, q) ==
    /\ pc[c] = "suspend" /\ pc' = [pc EXCEPT ![c] = q]
    /\ saved' = [saved EXCEPT ![cur[c]] = TRUE]
    /\ inInt' = [inInt EXCEPT ![c] = TRUE]
    /\ owner' = Owning(c, {}, {ThreadLock(cur[c])})
    /\ UNCHANGED <<state, waitOn, alive, resolved, joining, queueVars, cur, tgt, lst,
                   from, loop, todo>>
QueueOld(c) ==
    /\ pc[c] = "enq_t" /\ pc' = [pc EXCEPT ![c] = "deq"]
    /\ readyQ' = Append(readyQ, cur[c])
    /\ owner' = Owning(c, {}, {ProcessLock})
    /\ UNCHANGED <<threadVars, waitQ, coreVars>>
Resumes(c, p, q, b) ==
    /\ pc[c] = p /\ pc' = [pc EXCEPT ![c] = q]
    /\ Free(ThreadLock(tgt[c]))
    /\ state' = [state EXCEPT ![tgt[c]] = "Running"]
    /\ saved' = [saved EXCEPT ![tgt[c]] = FALSE]
    /\ cur' = [cur EXCEPT ![c] = tgt[c]]
    /\ tgt' = [tgt EXCEPT ![c] = None]
    /\ inInt' = [inInt EXCEPT ![c] = b]
    /\ UNCHANGED <<waitOn, alive, resolved, joining, queueVars, owner, lst, from, loop, todo>>
Dies(c) ==
    /\ pc[c] = "kill_t" /\ pc' = [pc EXCEPT ![c] = "finish_f"]
    /\ Free(ThreadLock(cur[c]))
    /\ state' = [state EXCEPT ![cur[c]] = "Dead"]
    /\ alive' = alive \ {cur[c]}
    /\ owner' = Owning(c, {ThreadLock(cur[c])}, {ProcessLock})
    /\ UNCHANGED <<waitOn, saved, resolved, joining, queueVars, coreVars>>
StepOf(c) ==
    \/ Yields(c)
    \/ \E l \in Objs : Wait(c, l)
    \/ KillCurrent(c)
    \/ \E t \in Threads : CreateThread(c, t)
    \/ \E t \in Threads : StartThread(c, t)
    \/ \E t \in Threads : Join(c, t)
    \/ ListThreads(c)
    \/ Sleeps(c)
    \/ Suspends(c, IF state[cur[c]] = "Ready" THEN "enq_p" ELSE "deq")
    \/ LockOldProcess(c)
    \/ QueueOld(c)
    \/ TakeReady(c, "deq", "disp")
    \/ TakeReady(c, "idle_deq", "idle_disp")
    \/ GoIdle(c, "deq", "soft", TRUE)
    \/ GoIdle(c, "idle_deq", "exec", FALSE)
    \/ Resumes(c, "disp", "soft", TRUE)
    \/ Resumes(c, "idle_disp", "exec", FALSE)
    \/ IrqHandled(c)
    \/ LookForThread(c)
    \/ ReturnToThread(c)
    \/ \E l \in Lists : TakeWaiter(c, l)
    \/ FinishDone(c)
    \/ LoopDone(c)
    \/ MakeReady(c)
    \/ QueueWoken(c)
    \/ Dies(c)
    \/ FinishJoin(c)
    \/ JoinAsFuture(c)
    \/ JoinDone(c)
    \/ JoinBlocks(c)
    \/ WaitJoin(c)
    \/ ListLockProcess(c)
    \/ PrintOne(c)
    \/ PrintLast(c)
    \/ Irq(c)
Step == UNCHANGED vars \/ \E c \in Cores : StepOf(c)

\* A core is executing its current thread, giving it up or ending it.
LEMMA BoundCases ==
    ASSUME TypeOK, NoPanic, CallsOK, NEW c \in Cores, Bound(c)
    PROVE  \/ Executes(c) \/ Finishing(c)
           \/ pc[c] \in {"suspend", "enq_p", "enq_t"}
  BY DEF TypeOK, NoPanic, CallsOK, Bound, Executes, Finishing, PCs

\* A thread that a core executes is on no other core and in no hand.
LEMMA ExecutesAlone ==
    ASSUME TypeOK, StatesOK, CoresApart, NEW c \in Cores, Executes(c)
    PROVE  \A d \in Cores : /\ d # c /\ Bound(d) => cur[d] # cur[c]
                            /\ pc[d] \in Hand => tgt[d] # cur[c]
<1>1. Bound(c) /\ state[cur[c]] = "Running"
  BY DEF Bound, Executes, StatesOK
<1>2. \A d \in Cores : pc[d] \in Hand => tgt[d] # cur[c]
  BY <1>1 DEF StatesOK, Hand
<1>3. QED
  BY <1>1, <1>2 DEF CoresApart

\* A thread in the hand of a core is the current thread of none, but perhaps
\* of one that is giving it up and has not dropped its lock.
LEMMA InHandAlone ==
    ASSUME TypeOK, NoPanic, CallsOK, StatesOK, CoresApart, NEW c \in Cores, pc[c] \in Hand
    PROVE  /\ \A d \in Cores : d # c /\ pc[d] \in Hand => tgt[d] # tgt[c]
           /\ \A d \in Cores : Bound(d) /\ cur[d] = tgt[c] => pc[c] = "wake_t" /\ pc[d] = "suspend"
<1>1. ASSUME NEW d \in Cores, Bound(d), cur[d] = tgt[c] PROVE pc[c] = "wake_t" /\ pc[d] = "suspend"
  <2>1. state[tgt[c]] \in {"Ready", "Waiting"} /\ (state[tgt[c]] = "Waiting" <=> pc[c] = "wake_t")
    BY DEF StatesOK, Hand
  <2>2. state[cur[d]] \notin {"Running", "Dead"}
    BY <1>1, <2>1
  <2>3. pc[d] \in {"suspend", "enq_p", "enq_t"}
    BY <1>1, <2>2, BoundCases DEF StatesOK
  <2>4. pc[c] \notin {"disp", "idle_disp", "wake_p"}
    BY <1>1, <2>3 DEF CoresApart
  <2>5. QED
    BY <1>1, <2>1, <2>3, <2>4 DEF StatesOK, Hand
<1>2. QED
  BY <1>1 DEF CoresApart

\* What is queued is ready or waiting, and in no hand.
LEMMA FirstReady ==
    ASSUME TypeOK, ReadyOK, readyQ # <<>>
    PROVE  /\ Head(readyQ) \in Elems(readyQ) /\ Head(readyQ) \in Threads
           /\ state[Head(readyQ)] = "Ready"
           /\ \A c \in Cores : ~Enqueues(c, Head(readyQ)) /\ ~Dispatches(c, Head(readyQ))
           /\ Elems(Tail(readyQ)) = Elems(readyQ) \ {Head(readyQ)}
           /\ Inj(Tail(readyQ))
  BY QueueElems, QueueTypes DEF TypeOK, ReadyOK

\* The first on a wait list waits on it and nobody is waking it.
LEMMA FirstWaiter ==
    ASSUME TypeOK, WaitOK, NEW l \in Lists, waitQ[l] # <<>>
    PROVE  /\ Head(waitQ[l]) \in Elems(waitQ[l]) /\ Head(waitQ[l]) \in Threads
           /\ state[Head(waitQ[l])] = "Waiting" /\ waitOn[Head(waitQ[l])] = l
           /\ \A c \in Cores : ~Wakes(c, Head(waitQ[l]))
           /\ Elems(Tail(waitQ[l])) = Elems(waitQ[l]) \ {Head(waitQ[l])}
           /\ Inj(Tail(waitQ[l]))
<1> DEFINE q == waitQ[l]
<1>1. q \in Seq(Threads) /\ Inj(q) /\ q # <<>>
  BY DEF TypeOK, WaitOK
<1> HIDE DEF q
<1>2. Head(q) \in Threads /\ Head(q) \in Elems(q)
  BY <1>1, QueueTypes, QueueElems
<1>3. Elems(Tail(q)) = Elems(q) \ {Head(q)} /\ Inj(Tail(q))
  BY <1>1, <1>2, QueueElems
<1>4. QED
  BY <1>2, <1>3 DEF WaitOK, q

\* A core that executes a thread at exec shares it with no core in a join.
LEMMA JoinersApart ==
    ASSUME TypeOK, CoresApart, NEW c \in Cores, pc[c] = "exec", cur[c] # None
    PROVE  \A d \in Cores : /\ pc[d] \in {"wait_t", "wait_l", "join_f"}
                            => d # c /\ cur[d] \in Threads /\ cur[d] # cur[c]
<1>1. Bound(c)
  BY DEF Bound
<1>2. ASSUME NEW d \in Cores, pc[d] \in {"wait_t", "wait_l", "join_f"}
      PROVE  Bound(d) /\ cur[d] \in Threads /\ d # c
  BY <1>2 DEF Bound, TypeOK
<1>3. QED
  BY <1>1, <1>2 DEF CoresApart

\* A core that has not panicked has passed the assertion.
LEMMA AssertionHolds ==
    ASSUME TypeOK, NoPanic', NEW c \in Cores, NEW ok \in BOOLEAN, NEW p, GotoIf(c, ok, p)
    PROVE  ok /\ pc' = [pc EXCEPT ![c] = p]
  BY DEF TypeOK, NoPanic, GotoIf, Goto

\* Under the invariant a step of the scheduler is one of Step.
LEMMA NextIsStep ==
    ASSUME SchedInv, NoPanic', [Next]_vars
    PROVE  Step
<1> USE SchedAssumption, LockNames DEF TypeOK, PCs, Lists, ThreadStates, threadVars, queueVars, coreVars, Goto, GotoIf, Free, NoPanic, SchedInv
<1>1. ASSUME NEW c \in Cores, YieldCurrent(c) PROVE StepOf(c)
  <2>1. pc' = [pc EXCEPT ![c] = "suspend"]
    BY <1>1, AssertionHolds DEF YieldCurrent
  <2>2. Yields(c)
    BY <1>1, <2>1 DEF YieldCurrent, Yields, InThread
  <2>3. QED
    BY <2>2 DEF StepOf
<1>2. ASSUME NEW c \in Cores, NEW l \in Objs, Wait(c, l) PROVE StepOf(c)
  BY <1>2 DEF StepOf
<1>3. ASSUME NEW c \in Cores, KillCurrent(c) PROVE StepOf(c)
  BY <1>3 DEF StepOf
<1>4. ASSUME NEW c \in Cores, NEW t \in Threads, CreateThread(c, t) PROVE StepOf(c)
  BY <1>4 DEF StepOf
<1>5. ASSUME NEW c \in Cores, NEW t \in Threads, StartThread(c, t) PROVE StepOf(c)
  BY <1>5 DEF StepOf
<1>6. ASSUME NEW c \in Cores, NEW t \in Threads, Join(c, t) PROVE StepOf(c)
  BY <1>6 DEF StepOf
<1>7. ASSUME NEW c \in Cores, ListThreads(c) PROVE StepOf(c)
  BY <1>7 DEF StepOf
<1>8. ASSUME NEW c \in Cores, WaitEnqueue(c) PROVE StepOf(c)
  <2>1. pc' = [pc EXCEPT ![c] = "suspend"]
    BY <1>8, AssertionHolds DEF WaitEnqueue
  <2>2. cur[c] \in Threads /\ joining[cur[c]] \in Threads \cup {None}
    BY <1>8 DEF WaitEnqueue
  <2>3. owner' = Owning(c, {}, {FutureLock(joining[cur[c]])})
    BY <1>8, <2>2 DEF WaitEnqueue, WaiterFutureLock, Owning
  <2>4. Sleeps(c)
    BY <1>8, <2>1, <2>3 DEF WaitEnqueue, Sleeps
  <2>5. QED
    BY <2>4 DEF StepOf
<1>9. ASSUME NEW c \in Cores, SuspendCurrent(c) PROVE StepOf(c)
  <2>1. pc' = [pc EXCEPT ![c] = IF state[cur[c]] = "Ready" THEN "enq_p" ELSE "deq"]
    BY <1>9, AssertionHolds DEF SuspendCurrent
  <2>2. Suspends(c, IF state[cur[c]] = "Ready" THEN "enq_p" ELSE "deq")
    BY <1>9, <2>1 DEF SuspendCurrent, Suspends, SaveCpuState
  <2>3. QED
    BY <2>2 DEF StepOf
<1>10. ASSUME NEW c \in Cores, LockOldProcess(c) PROVE StepOf(c)
  BY <1>10 DEF StepOf
<1>11. ASSUME NEW c \in Cores, EnqueueOld(c) PROVE StepOf(c)
  <2>1. pc' = [pc EXCEPT ![c] = "deq"]
    BY <1>11, AssertionHolds DEF EnqueueOld
  <2>2. QueueOld(c)
    BY <1>11, <2>1 DEF EnqueueOld, QueueOld, ReadyEnqueue
  <2>3. QED
    BY <2>2 DEF StepOf
<1>12. ASSUME NEW c \in Cores, DequeueReady(c) PROVE StepOf(c)
  BY <1>12 DEF DequeueReady, ReadyDequeue, TakeReady, GoIdle, StepOf, StatesOK, CallsOK,
         ContextOK
<1>13. ASSUME NEW c \in Cores, Dispatch(c) PROVE StepOf(c)
  BY <1>13 DEF Dispatch, Resumes, StepOf, StatesOK, CallsOK, ContextOK
<1>14. ASSUME NEW c \in Cores, IrqHandled(c) PROVE StepOf(c)
  BY <1>14 DEF StepOf
<1>15. ASSUME NEW c \in Cores, EndInterrupt(c) PROVE StepOf(c)
  BY <1>15 DEF EndInterrupt, LookForThread, ReturnToThread, StepOf, StatesOK, CallsOK, ContextOK
<1>16. ASSUME NEW c \in Cores, WakeMore(c) PROVE StepOf(c)
  <2> DEFINE l == loop[c][Context(c)]
  <2>1. Context(c) \in {"thread", "irq"} /\ l \in Lists /\ pc[c] \in {"exec", "irq", "soft", "finish"}
    BY <1>16 DEF WakeMore, Context
  <2>2. CASE waitQ[l] # <<>>
    <3>1. l \in Threads => pc[c] = "finish" /\ l = cur[c]
      BY <1>16, <2>1 DEF WakeMore, ContextOK, Context, Finishing
    <3>2. TakeWaiter(c, l)
      BY <1>16, <2>1, <2>2, <3>1 DEF WakeMore, Dequeue, TakeWaiter, WaitDequeue
    <3>3. QED
      BY <2>1, <3>2 DEF StepOf
  <2>3. CASE waitQ[l] = <<>> /\ pc[c] = "finish"
    <3>1. Context(c) = "thread" /\ l = cur[c]
      BY <2>1, <2>3 DEF ContextOK, Finishing, Context
    <3>2. FinishDone(c)
      BY <1>16, <2>1, <2>3, <3>1 DEF WakeMore, FinishDone
    <3>3. QED
      BY <3>2 DEF StepOf
  <2>4. CASE waitQ[l] = <<>> /\ pc[c] # "finish"
    <3>1. pc' = pc
      BY <1>16, <2>1, <2>4 DEF WakeMore
    <3>2. LoopDone(c)
      BY <1>16, <2>1, <2>4, <3>1 DEF WakeMore, LoopDone
    <3>3. QED
      BY <3>2 DEF StepOf
  <2>5. QED
    BY <2>2, <2>3, <2>4
<1>17. ASSUME NEW c \in Cores, TryWake(c) PROVE StepOf(c)
  <2>1. state[tgt[c]] = "Waiting" /\ waitOn[tgt[c]] = lst[c]
    BY <1>17 DEF TryWake, StatesOK
  <2>2. pc' = [pc EXCEPT ![c] = "wake_p"] /\ from' = from
    BY <1>17, <2>1 DEF TryWake
  <2>3. MakeReady(c)
    BY <1>17, <2>1, <2>2 DEF TryWake, MakeReady
  <2>4. QED
    BY <2>3 DEF StepOf
<1>18. ASSUME NEW c \in Cores, WakeEnqueue(c) PROVE StepOf(c)
  <2>1. pc' = [pc EXCEPT ![c] = from[c]]
    <3>1. GotoIf(c, MayEnqueue(tgt[c]), from[c])
      BY <1>18 DEF WakeEnqueue
    <3>2. QED
      BY <3>1, AssertionHolds DEF MayEnqueue
  <2>2. lst[c] \in Lists \cup {None}
    OBVIOUS
  <2>3. owner' = Owning(c, {}, {ThreadLock(tgt[c]), ListLock(lst[c])})
    BY <1>18, <2>2 DEF WakeEnqueue, Owning
  <2>4. QueueWoken(c)
    BY <1>18, <2>1, <2>3 DEF WakeEnqueue, QueueWoken, ReadyEnqueue
  <2>5. QED
    BY <2>4 DEF StepOf
<1>19. ASSUME NEW c \in Cores, KillRemove(c) PROVE StepOf(c)
  <2>1. pc' = [pc EXCEPT ![c] = "finish_f"]
    BY <1>19, AssertionHolds DEF KillRemove
  <2>2. Dies(c)
    BY <1>19, <2>1 DEF KillRemove, Dies
  <2>3. QED
    BY <2>2 DEF StepOf
<1>20. ASSUME NEW c \in Cores, FinishJoin(c) PROVE StepOf(c)
  BY <1>20 DEF StepOf
<1>21. ASSUME NEW c \in Cores, JoinAsFuture(c) PROVE StepOf(c)
  BY <1>21 DEF StepOf
<1>22. ASSUME NEW c \in Cores, BlockUntilReady(c) PROVE StepOf(c)
  BY <1>22 DEF BlockUntilReady, JoinDone, JoinBlocks, StepOf, StatesOK, CallsOK, ContextOK
<1>23. ASSUME NEW c \in Cores, WaitJoin(c) PROVE StepOf(c)
  BY <1>23 DEF StepOf
<1>24. ASSUME NEW c \in Cores, ListLockProcess(c) PROVE StepOf(c)
  BY <1>24 DEF StepOf
<1>25. ASSUME NEW c \in Cores, NEW t \in Threads, ListPrint(c, t) PROVE StepOf(c)
  <2>1. CASE todo[c] = {t}
    <3>1. todo[c] \ {t} = {}
      BY <2>1
    <3>2. PrintLast(c)
      BY <1>25, <2>1, <3>1 DEF ListPrint, PrintLast
    <3>3. QED
      BY <3>2 DEF StepOf
  <2>2. CASE todo[c] # {t}
    <3>1. todo[c] \ {t} \in SUBSET Threads /\ todo' = [todo EXCEPT ![c] = todo[c] \ {t}]
      BY <1>25 DEF ListPrint
    <3>2. PrintOne(c)
      BY <1>25, <2>2, <3>1 DEF ListPrint, PrintOne
    <3>3. QED
      BY <3>2 DEF StepOf
  <2>3. QED
    BY <2>1, <2>2
<1>26. ASSUME NEW c \in Cores, Irq(c) PROVE StepOf(c)
  BY <1>26 DEF StepOf
<1>27. ASSUME NEW c \in Cores, NEW l \in Objs, NEW all \in BOOLEAN, Wake(c, l, all) PROVE StepOf(c)
  BY <1>27 DEF Wake, InThread, Dequeue, Context, WaitDequeue, TakeWaiter, StepOf, StatesOK,
         CallsOK, ContextOK
<1>28. CASE UNCHANGED vars
  BY <1>28 DEF Step
<1> HIDE DEF TypeOK, PCs, Lists, ThreadStates, threadVars, queueVars, coreVars, Goto, GotoIf, Free, NoPanic, SchedInv
<1>29. QED
  BY <1>1, <1>2, <1>3, <1>4, <1>5, <1>6, <1>7, <1>8, <1>9, <1>10, <1>11, <1>12,
     <1>13, <1>14, <1>15, <1>16, <1>17, <1>18, <1>19, <1>20, <1>21, <1>22, <1>23, <1>24, <1>25,
     <1>26, <1>27, <1>28
     DEF Next, ThreadCall, CoreStep, Step

\* Under the invariant no step fails an assertion.
LEMMA NextNoPanic ==
    ASSUME SchedInv, [Next]_vars
    PROVE  NoPanic'
<1> USE SchedAssumption, LockNames
        DEF TypeOK, PCs, Lists, ThreadStates, threadVars, queueVars, coreVars, Goto, GotoIf,
            Free, NoPanic, SchedInv
<1>1. ASSUME NEW c \in Cores, YieldCurrent(c) PROVE NoPanic'
  BY <1>1 DEF YieldCurrent, InThread, StatesOK, Executes
<1>2. ASSUME NEW c \in Cores, NEW l \in Objs, Wait(c, l) PROVE NoPanic'
  BY <1>2 DEF Wait, InThread
<1>3. ASSUME NEW c \in Cores, KillCurrent(c) PROVE NoPanic'
  BY <1>3 DEF KillCurrent, InThread
<1>4. ASSUME NEW c \in Cores, NEW t \in Threads, CreateThread(c, t) PROVE NoPanic'
  BY <1>4 DEF CreateThread, InThread
<1>5. ASSUME NEW c \in Cores, NEW t \in Threads, StartThread(c, t) PROVE NoPanic'
  BY <1>5 DEF StartThread, InThread
<1>6. ASSUME NEW c \in Cores, NEW t \in Threads, Join(c, t) PROVE NoPanic'
  BY <1>6 DEF Join, InThread
<1>7. ASSUME NEW c \in Cores, ListThreads(c) PROVE NoPanic'
  BY <1>7 DEF ListThreads, InThread
<1>8. ASSUME NEW c \in Cores, WaitEnqueue(c) PROVE NoPanic'
  BY <1>8 DEF WaitEnqueue, WaiterFutureLock, StatesOK, Executes, OnWaitList, WaitOK
<1>9. ASSUME NEW c \in Cores, SuspendCurrent(c) PROVE NoPanic'
  <2>1. pc[c] = "suspend" /\ cur[c] \in Threads
    BY <1>9 DEF SuspendCurrent
  <2>2. ASSUME NEW u \in Threads
        PROVE  (owner[ThreadLock(u)] = c <=> u = cur[c]) /\ owner[FutureLock(u)] # c
    <3>1. ~Finishing(c) /\ (HoldsThread(c, u) <=> u = cur[c]) /\ ~HoldsFuture(c, u)
      BY <2>1 DEF HoldsThread, HoldsFuture, Finishing
    <3>2. QED
      BY <3>1 DEF LocksHeld, ThreadLocksHeld, FutureLocksHeld
  <2>3. \A m \in Lists : owner[ListLock(m)] # c
    BY <2>1 DEF LocksHeld, ListLocksHeld, HoldsList
  <2>4. owner[ProcessLock] # c /\ owner[ProcessList] # c /\ owner[IrqHandlers] # c
    BY <2>1 DEF LocksHeld, GlobalLocksHeld
  <2>5. Held(c) = {ThreadLock(cur[c])}
    BY <2>1, <2>2, <2>3, <2>4 DEF Held, Locks
  <2>6. state[cur[c]] # "Running"
    BY <2>1 DEF StatesOK
  <2>7. pc' = [pc EXCEPT ![c] = IF state[cur[c]] = "Ready" THEN "enq_p" ELSE "deq"]
    BY <1>9, <2>5, <2>6 DEF SuspendCurrent
  <2>8. QED
    BY <2>7
<1>10. ASSUME NEW c \in Cores, LockOldProcess(c) PROVE NoPanic'
  BY <1>10 DEF LockOldProcess
<1>11. ASSUME NEW c \in Cores, EnqueueOld(c) PROVE NoPanic'
  BY <1>11 DEF EnqueueOld, MayEnqueue, ReadyEnqueue, StatesOK, ReadyOK, Enqueues
<1>12. ASSUME NEW c \in Cores, DequeueReady(c) PROVE NoPanic'
  BY <1>12 DEF DequeueReady, ReadyDequeue
<1>13. ASSUME NEW c \in Cores, Dispatch(c) PROVE NoPanic'
  BY <1>13 DEF Dispatch, StatesOK
<1>14. ASSUME NEW c \in Cores, IrqHandled(c) PROVE NoPanic'
  BY <1>14 DEF IrqHandled
<1>15. ASSUME NEW c \in Cores, EndInterrupt(c) PROVE NoPanic'
  BY <1>15 DEF EndInterrupt
<1>16. ASSUME NEW c \in Cores, WakeMore(c) PROVE NoPanic'
  BY <1>16 DEF WakeMore, Dequeue, Context, WaitDequeue
<1>17. ASSUME NEW c \in Cores, TryWake(c) PROVE NoPanic'
  BY <1>17 DEF TryWake, StatesOK
<1>18. ASSUME NEW c \in Cores, WakeEnqueue(c) PROVE NoPanic'
  <2>1. MayEnqueue(tgt[c])
    BY <1>18 DEF WakeEnqueue, MayEnqueue, StatesOK, ReadyOK, Enqueues
  <2>2. GotoIf(c, MayEnqueue(tgt[c]), from[c])
    BY <1>18 DEF WakeEnqueue
  <2>3. pc' = [pc EXCEPT ![c] = from[c]] /\ from[c] # "panic"
    BY <2>1, <2>2
  <2>4. QED
    BY <2>3
<1>19. ASSUME NEW c \in Cores, KillRemove(c) PROVE NoPanic'
  BY <1>19 DEF KillRemove, StatesOK, Executes, ReadyOK
<1>20. ASSUME NEW c \in Cores, FinishJoin(c) PROVE NoPanic'
  BY <1>20 DEF FinishJoin
<1>21. ASSUME NEW c \in Cores, JoinAsFuture(c) PROVE NoPanic'
  BY <1>21 DEF JoinAsFuture
<1>22. ASSUME NEW c \in Cores, BlockUntilReady(c) PROVE NoPanic'
  BY <1>22 DEF BlockUntilReady
<1>23. ASSUME NEW c \in Cores, WaitJoin(c) PROVE NoPanic'
  BY <1>23 DEF WaitJoin
<1>24. ASSUME NEW c \in Cores, ListLockProcess(c) PROVE NoPanic'
  BY <1>24 DEF ListLockProcess
<1>25. ASSUME NEW c \in Cores, NEW t \in Threads, ListPrint(c, t) PROVE NoPanic'
  BY <1>25 DEF ListPrint
<1>26. ASSUME NEW c \in Cores, Irq(c) PROVE NoPanic'
  BY <1>26 DEF Irq
<1>27. ASSUME NEW c \in Cores, NEW l \in Objs, NEW all \in BOOLEAN, Wake(c, l, all) PROVE NoPanic'
  BY <1>27 DEF Wake, InThread, Dequeue, Context, WaitDequeue
<1>28. CASE UNCHANGED vars
  BY <1>28 DEF vars
<1> HIDE DEF TypeOK, PCs, Lists, ThreadStates, threadVars, queueVars, coreVars, Goto, GotoIf, Free, NoPanic, SchedInv
<1>29. QED BY <1>1, <1>2, <1>3, <1>4, <1>5, <1>6, <1>7, <1>8, <1>9, <1>10, <1>11, <1>12, <1>13,
     <1>14, <1>15, <1>16, <1>17, <1>18, <1>19, <1>20, <1>21, <1>22, <1>23, <1>24, <1>25, <1>26,
     <1>27, <1>28
     DEF Next, ThreadCall, CoreStep

\* A thread's lock is taken and dropped where HoldsThread says.
LEMMA NextThreadLocksHeld ==
    ASSUME SchedInv, Step
    PROVE  ThreadLocksHeld'
<1> USE SchedAssumption, LockNames
        DEF TypeOK, NoPanic, SchedInv, PCs, Lists, ThreadStates, threadVars, queueVars,
            coreVars, Goto, Free, Owning, LocksHeld, ThreadLocksHeld
<1>1. ASSUME NEW c \in Cores, Yields(c) PROVE ThreadLocksHeld'
  BY <1>1 DEF Yields, HoldsThread, Finishing, CallsOK, StatesOK, CoresApart, Bound, Hand
<1>2. ASSUME NEW c \in Cores, NEW l \in Objs, Wait(c, l) PROVE ThreadLocksHeld'
  BY <1>2 DEF Wait, InThread, HoldsThread, Finishing, CallsOK, StatesOK, CoresApart, Bound, Hand
<1>3. ASSUME NEW c \in Cores, KillCurrent(c) PROVE ThreadLocksHeld'
  BY <1>3 DEF KillCurrent, InThread, HoldsThread, Finishing, CallsOK, StatesOK, CoresApart,
         Bound, Hand
<1>4. ASSUME NEW c \in Cores, NEW t \in Threads, CreateThread(c, t) PROVE ThreadLocksHeld'
  BY <1>4 DEF CreateThread, InThread, HoldsThread, Finishing, CallsOK, StatesOK, CoresApart,
         Bound, Hand
<1>5. ASSUME NEW c \in Cores, NEW t \in Threads, StartThread(c, t) PROVE ThreadLocksHeld'
  BY <1>5 DEF StartThread, InThread, HoldsThread, Finishing, CallsOK, StatesOK, CoresApart,
         Bound, Hand
<1>6. ASSUME NEW c \in Cores, NEW t \in Threads, Join(c, t) PROVE ThreadLocksHeld'
  BY <1>6 DEF Join, InThread, HoldsThread, Finishing, CallsOK, StatesOK, CoresApart, Bound, Hand
<1>7. ASSUME NEW c \in Cores, ListThreads(c) PROVE ThreadLocksHeld'
  BY <1>7 DEF ListThreads, InThread, HoldsThread, Finishing, CallsOK, StatesOK, CoresApart,
         Bound, Hand
<1>8. ASSUME NEW c \in Cores, Sleeps(c) PROVE ThreadLocksHeld'
  BY <1>8 DEF Sleeps, HoldsThread, Finishing, CallsOK, StatesOK, CoresApart, Bound, Hand
<1>9. ASSUME NEW c \in Cores, Suspends(c, IF state[cur[c]] = "Ready" THEN "enq_p" ELSE "deq")
      PROVE  ThreadLocksHeld'
  BY <1>9 DEF Suspends, HoldsThread, Finishing, CallsOK, StatesOK, CoresApart, Bound, Hand
<1>10. ASSUME NEW c \in Cores, LockOldProcess(c) PROVE ThreadLocksHeld'
  BY <1>10 DEF LockOldProcess, HoldsThread, Finishing, CallsOK, StatesOK, CoresApart, Bound,
         Hand
<1>11. ASSUME NEW c \in Cores, QueueOld(c) PROVE ThreadLocksHeld'
  BY <1>11 DEF QueueOld, HoldsThread, Finishing, CallsOK, StatesOK, CoresApart, Bound, Hand
<1>12. ASSUME NEW c \in Cores, TakeReady(c, "deq", "disp") PROVE ThreadLocksHeld'
  BY <1>12 DEF TakeReady, HoldsThread, Finishing, CallsOK, StatesOK, CoresApart, Bound, Hand
<1>13. ASSUME NEW c \in Cores, TakeReady(c, "idle_deq", "idle_disp") PROVE ThreadLocksHeld'
  BY <1>13 DEF TakeReady, HoldsThread, Finishing, CallsOK, StatesOK, CoresApart, Bound, Hand
<1>14. ASSUME NEW c \in Cores, GoIdle(c, "deq", "soft", TRUE) PROVE ThreadLocksHeld'
  BY <1>14 DEF GoIdle, HoldsThread, Finishing, CallsOK, StatesOK, CoresApart, Bound, Hand
<1>15. ASSUME NEW c \in Cores, GoIdle(c, "idle_deq", "exec", FALSE) PROVE ThreadLocksHeld'
  BY <1>15 DEF GoIdle, HoldsThread, Finishing, CallsOK, StatesOK, CoresApart, Bound, Hand
<1>16. ASSUME NEW c \in Cores, Resumes(c, "disp", "soft", TRUE) PROVE ThreadLocksHeld'
  BY <1>16 DEF Resumes, HoldsThread, Finishing, CallsOK, StatesOK, CoresApart, Bound, Hand
<1>17. ASSUME NEW c \in Cores, Resumes(c, "idle_disp", "exec", FALSE) PROVE ThreadLocksHeld'
  BY <1>17 DEF Resumes, HoldsThread, Finishing, CallsOK, StatesOK, CoresApart, Bound, Hand
<1>18. ASSUME NEW c \in Cores, IrqHandled(c) PROVE ThreadLocksHeld'
  BY <1>18 DEF IrqHandled, HoldsThread, Finishing, CallsOK, StatesOK, CoresApart, Bound, Hand
<1>19. ASSUME NEW c \in Cores, LookForThread(c) PROVE ThreadLocksHeld'
  BY <1>19 DEF LookForThread, HoldsThread, Finishing, CallsOK, StatesOK, CoresApart, Bound, Hand
<1>20. ASSUME NEW c \in Cores, ReturnToThread(c) PROVE ThreadLocksHeld'
  BY <1>20 DEF ReturnToThread, HoldsThread, Finishing, CallsOK, StatesOK, CoresApart, Bound,
         Hand
<1>21. ASSUME NEW c \in Cores, NEW l \in Lists, TakeWaiter(c, l) PROVE ThreadLocksHeld'
  BY <1>21 DEF TakeWaiter, HoldsThread, Finishing, CallsOK, StatesOK, CoresApart, Bound, Hand
<1>22. ASSUME NEW c \in Cores, FinishDone(c) PROVE ThreadLocksHeld'
  BY <1>22 DEF FinishDone, HoldsThread, Finishing, CallsOK, StatesOK, CoresApart, Bound, Hand
<1>23. ASSUME NEW c \in Cores, LoopDone(c) PROVE ThreadLocksHeld'
  BY <1>23 DEF LoopDone, HoldsThread, Finishing, CallsOK, StatesOK, CoresApart, Bound, Hand
<1>24. ASSUME NEW c \in Cores, MakeReady(c) PROVE ThreadLocksHeld'
  BY <1>24 DEF MakeReady, HoldsThread, Finishing, CallsOK, StatesOK, CoresApart, Bound, Hand
<1>25. ASSUME NEW c \in Cores, QueueWoken(c) PROVE ThreadLocksHeld'
  <2>1. CASE from[c] = "exec"
    BY <1>25, <2>1 DEF QueueWoken, HoldsThread, Finishing, CallsOK, StatesOK, CoresApart, Bound, Hand
  <2>2. CASE from[c] = "irq"
    BY <1>25, <2>2 DEF QueueWoken, HoldsThread, Finishing, CallsOK, StatesOK, CoresApart, Bound, Hand
  <2>3. CASE from[c] = "soft"
    BY <1>25, <2>3 DEF QueueWoken, HoldsThread, Finishing, CallsOK, StatesOK, CoresApart, Bound, Hand
  <2>4. CASE from[c] = "finish"
    BY <1>25, <2>4 DEF QueueWoken, HoldsThread, Finishing, CallsOK, StatesOK, CoresApart, Bound, Hand
  <2>5. QED
    BY <2>1, <2>2, <2>3, <2>4
<1>26. ASSUME NEW c \in Cores, Dies(c) PROVE ThreadLocksHeld'
  BY <1>26 DEF Dies, HoldsThread, Finishing, CallsOK, StatesOK, CoresApart, Bound, Hand
<1>27. ASSUME NEW c \in Cores, FinishJoin(c) PROVE ThreadLocksHeld'
  BY <1>27 DEF FinishJoin, HoldsThread, Finishing, CallsOK, StatesOK, CoresApart, Bound, Hand
<1>28. ASSUME NEW c \in Cores, JoinAsFuture(c) PROVE ThreadLocksHeld'
  BY <1>28 DEF JoinAsFuture, HoldsThread, Finishing, CallsOK, StatesOK, CoresApart, Bound, Hand
<1>29. ASSUME NEW c \in Cores, JoinDone(c) PROVE ThreadLocksHeld'
  BY <1>29, JoinersApart DEF JoinDone, HoldsThread, Finishing, CallsOK
<1>30. ASSUME NEW c \in Cores, JoinBlocks(c) PROVE ThreadLocksHeld'
  BY <1>30 DEF JoinBlocks, HoldsThread, Finishing, CallsOK, StatesOK, CoresApart, Bound, Hand
<1>31. ASSUME NEW c \in Cores, WaitJoin(c) PROVE ThreadLocksHeld'
  BY <1>31 DEF WaitJoin, HoldsThread, Finishing, CallsOK, StatesOK, CoresApart, Bound, Hand
<1>32. ASSUME NEW c \in Cores, ListLockProcess(c) PROVE ThreadLocksHeld'
  BY <1>32 DEF ListLockProcess, HoldsThread, Finishing, CallsOK, StatesOK, CoresApart, Bound,
         Hand
<1>33. ASSUME NEW c \in Cores, PrintOne(c) PROVE ThreadLocksHeld'
  BY <1>33 DEF PrintOne, HoldsThread, Finishing, CallsOK, StatesOK, CoresApart, Bound, Hand
<1>34. ASSUME NEW c \in Cores, PrintLast(c) PROVE ThreadLocksHeld'
  BY <1>34 DEF PrintLast, HoldsThread, Finishing, CallsOK, StatesOK, CoresApart, Bound, Hand
<1>35. ASSUME NEW c \in Cores, Irq(c) PROVE ThreadLocksHeld'
  BY <1>35 DEF Irq, HoldsThread, Finishing, CallsOK, StatesOK, CoresApart, Bound, Hand
<1>36. CASE UNCHANGED vars
  BY <1>36 DEF vars, HoldsThread, Finishing, CallsOK, StatesOK, CoresApart, Bound, Hand
<1> HIDE DEF TypeOK, NoPanic, SchedInv, PCs, Lists, ThreadStates, threadVars, queueVars,
            coreVars, Goto, Free, Owning, LocksHeld, ThreadLocksHeld
<1>37. QED
  BY <1>1, <1>2, <1>3, <1>4, <1>5, <1>6, <1>7, <1>8, <1>9, <1>10, <1>11, <1>12,
     <1>13, <1>14, <1>15, <1>16, <1>17, <1>18, <1>19, <1>20, <1>21, <1>22, <1>23, <1>24, <1>25,
     <1>26, <1>27, <1>28, <1>29, <1>30, <1>31, <1>32, <1>33, <1>34, <1>35, <1>36 DEF Step, StepOf

\* The same for the locks of wait lists,
LEMMA NextListLocksHeld ==
    ASSUME SchedInv, Step
    PROVE  ListLocksHeld'
<1> USE SchedAssumption, LockNames
        DEF TypeOK, NoPanic, SchedInv, PCs, Lists, ThreadStates, threadVars, queueVars,
            coreVars, Goto, Free, Owning, LocksHeld, ListLocksHeld
<1>1. ASSUME NEW c \in Cores, Yields(c) PROVE ListLocksHeld'
  BY <1>1 DEF Yields, HoldsList, StatesOK
<1>2. ASSUME NEW c \in Cores, NEW l \in Objs, Wait(c, l) PROVE ListLocksHeld'
  BY <1>2 DEF Wait, InThread, HoldsList, StatesOK
<1>3. ASSUME NEW c \in Cores, KillCurrent(c) PROVE ListLocksHeld'
  BY <1>3 DEF KillCurrent, InThread, HoldsList, StatesOK
<1>4. ASSUME NEW c \in Cores, NEW t \in Threads, CreateThread(c, t) PROVE ListLocksHeld'
  BY <1>4 DEF CreateThread, InThread, HoldsList, StatesOK
<1>5. ASSUME NEW c \in Cores, NEW t \in Threads, StartThread(c, t) PROVE ListLocksHeld'
  BY <1>5 DEF StartThread, InThread, HoldsList, StatesOK
<1>6. ASSUME NEW c \in Cores, NEW t \in Threads, Join(c, t) PROVE ListLocksHeld'
  BY <1>6 DEF Join, InThread, HoldsList, StatesOK
<1>7. ASSUME NEW c \in Cores, ListThreads(c) PROVE ListLocksHeld'
  BY <1>7 DEF ListThreads, InThread, HoldsList, StatesOK
<1>8. ASSUME NEW c \in Cores, Sleeps(c) PROVE ListLocksHeld'
  BY <1>8 DEF Sleeps, HoldsList, StatesOK
<1>9. ASSUME NEW c \in Cores, Suspends(c, IF state[cur[c]] = "Ready" THEN "enq_p" ELSE "deq")
      PROVE  ListLocksHeld'
  BY <1>9 DEF Suspends, HoldsList, StatesOK
<1>10. ASSUME NEW c \in Cores, LockOldProcess(c) PROVE ListLocksHeld'
  BY <1>10 DEF LockOldProcess, HoldsList, StatesOK
<1>11. ASSUME NEW c \in Cores, QueueOld(c) PROVE ListLocksHeld'
  BY <1>11 DEF QueueOld, HoldsList, StatesOK
<1>12. ASSUME NEW c \in Cores, TakeReady(c, "deq", "disp") PROVE ListLocksHeld'
  BY <1>12 DEF TakeReady, HoldsList, StatesOK
<1>13. ASSUME NEW c \in Cores, TakeReady(c, "idle_deq", "idle_disp") PROVE ListLocksHeld'
  BY <1>13 DEF TakeReady, HoldsList, StatesOK
<1>14. ASSUME NEW c \in Cores, GoIdle(c, "deq", "soft", TRUE) PROVE ListLocksHeld'
  BY <1>14 DEF GoIdle, HoldsList, StatesOK
<1>15. ASSUME NEW c \in Cores, GoIdle(c, "idle_deq", "exec", FALSE) PROVE ListLocksHeld'
  BY <1>15 DEF GoIdle, HoldsList, StatesOK
<1>16. ASSUME NEW c \in Cores, Resumes(c, "disp", "soft", TRUE) PROVE ListLocksHeld'
  BY <1>16 DEF Resumes, HoldsList, StatesOK
<1>17. ASSUME NEW c \in Cores, Resumes(c, "idle_disp", "exec", FALSE) PROVE ListLocksHeld'
  BY <1>17 DEF Resumes, HoldsList, StatesOK
<1>18. ASSUME NEW c \in Cores, IrqHandled(c) PROVE ListLocksHeld'
  BY <1>18 DEF IrqHandled, HoldsList, StatesOK
<1>19. ASSUME NEW c \in Cores, LookForThread(c) PROVE ListLocksHeld'
  BY <1>19 DEF LookForThread, HoldsList, StatesOK
<1>20. ASSUME NEW c \in Cores, ReturnToThread(c) PROVE ListLocksHeld'
  BY <1>20 DEF ReturnToThread, HoldsList, StatesOK
<1>21. ASSUME NEW c \in Cores, NEW l \in Lists, TakeWaiter(c, l) PROVE ListLocksHeld'
  BY <1>21 DEF TakeWaiter, HoldsList, StatesOK
<1>22. ASSUME NEW c \in Cores, FinishDone(c) PROVE ListLocksHeld'
  BY <1>22 DEF FinishDone, HoldsList, StatesOK
<1>23. ASSUME NEW c \in Cores, LoopDone(c) PROVE ListLocksHeld'
  BY <1>23 DEF LoopDone, HoldsList, StatesOK
<1>24. ASSUME NEW c \in Cores, MakeReady(c) PROVE ListLocksHeld'
  BY <1>24 DEF MakeReady, HoldsList, StatesOK
<1>25. ASSUME NEW c \in Cores, QueueWoken(c) PROVE ListLocksHeld'
  BY <1>25 DEF QueueWoken, HoldsList, StatesOK
<1>26. ASSUME NEW c \in Cores, Dies(c) PROVE ListLocksHeld'
  BY <1>26 DEF Dies, HoldsList, StatesOK
<1>27. ASSUME NEW c \in Cores, FinishJoin(c) PROVE ListLocksHeld'
  BY <1>27 DEF FinishJoin, HoldsList, StatesOK
<1>28. ASSUME NEW c \in Cores, JoinAsFuture(c) PROVE ListLocksHeld'
  BY <1>28 DEF JoinAsFuture, HoldsList, StatesOK
<1>29. ASSUME NEW c \in Cores, JoinDone(c) PROVE ListLocksHeld'
  BY <1>29 DEF JoinDone, HoldsList, StatesOK
<1>30. ASSUME NEW c \in Cores, JoinBlocks(c) PROVE ListLocksHeld'
  BY <1>30 DEF JoinBlocks, HoldsList, StatesOK
<1>31. ASSUME NEW c \in Cores, WaitJoin(c) PROVE ListLocksHeld'
  BY <1>31 DEF WaitJoin, HoldsList, StatesOK
<1>32. ASSUME NEW c \in Cores, ListLockProcess(c) PROVE ListLocksHeld'
  BY <1>32 DEF ListLockProcess, HoldsList, StatesOK
<1>33. ASSUME NEW c \in Cores, PrintOne(c) PROVE ListLocksHeld'
  BY <1>33 DEF PrintOne, HoldsList, StatesOK
<1>34. ASSUME NEW c \in Cores, PrintLast(c) PROVE ListLocksHeld'
  BY <1>34 DEF PrintLast, HoldsList, StatesOK
<1>35. ASSUME NEW c \in Cores, Irq(c) PROVE ListLocksHeld'
  BY <1>35 DEF Irq, HoldsList, StatesOK
<1>36. CASE UNCHANGED vars
  BY <1>36 DEF vars, HoldsList, StatesOK
<1> HIDE DEF TypeOK, NoPanic, SchedInv, PCs, Lists, ThreadStates, threadVars, queueVars,
            coreVars, Goto, Free, Owning, LocksHeld, ListLocksHeld
<1>37. QED
  BY <1>1, <1>2, <1>3, <1>4, <1>5, <1>6, <1>7, <1>8, <1>9, <1>10, <1>11, <1>12,
     <1>13, <1>14, <1>15, <1>16, <1>17, <1>18, <1>19, <1>20, <1>21, <1>22, <1>23, <1>24, <1>25,
     <1>26, <1>27, <1>28, <1>29, <1>30, <1>31, <1>32, <1>33, <1>34, <1>35, <1>36 DEF Step, StepOf

\* for the locks of join futures,
LEMMA NextFutureLocksHeld ==
    ASSUME SchedInv, Step
    PROVE  FutureLocksHeld'
<1> USE SchedAssumption, LockNames
        DEF TypeOK, NoPanic, SchedInv, PCs, Lists, ThreadStates, threadVars, queueVars,
            coreVars, Goto, Free, Owning, LocksHeld, FutureLocksHeld
<1>1. ASSUME NEW c \in Cores, Yields(c) PROVE FutureLocksHeld'
  BY <1>1 DEF Yields, HoldsFuture, Finishing, Bound, CoresApart, CallsOK
<1>2. ASSUME NEW c \in Cores, NEW l \in Objs, Wait(c, l) PROVE FutureLocksHeld'
  BY <1>2 DEF Wait, InThread, HoldsFuture, Finishing, Bound, CoresApart, CallsOK
<1>3. ASSUME NEW c \in Cores, KillCurrent(c) PROVE FutureLocksHeld'
  BY <1>3 DEF KillCurrent, InThread, HoldsFuture, Finishing, Bound, CoresApart, CallsOK
<1>4. ASSUME NEW c \in Cores, NEW t \in Threads, CreateThread(c, t) PROVE FutureLocksHeld'
  BY <1>4 DEF CreateThread, InThread, HoldsFuture, Finishing, Bound, CoresApart, CallsOK
<1>5. ASSUME NEW c \in Cores, NEW t \in Threads, StartThread(c, t) PROVE FutureLocksHeld'
  BY <1>5 DEF StartThread, InThread, HoldsFuture, Finishing, Bound, CoresApart, CallsOK
<1>6. ASSUME NEW c \in Cores, NEW t \in Threads, Join(c, t) PROVE FutureLocksHeld'
  BY <1>6, JoinersApart DEF Join, InThread, HoldsFuture, Finishing, CallsOK
<1>7. ASSUME NEW c \in Cores, ListThreads(c) PROVE FutureLocksHeld'
  BY <1>7 DEF ListThreads, InThread, HoldsFuture, Finishing, Bound, CoresApart, CallsOK
<1>8. ASSUME NEW c \in Cores, Sleeps(c) PROVE FutureLocksHeld'
  BY <1>8 DEF Sleeps, HoldsFuture, Finishing, Bound, CoresApart, CallsOK
<1>9. ASSUME NEW c \in Cores, Suspends(c, IF state[cur[c]] = "Ready" THEN "enq_p" ELSE "deq")
      PROVE  FutureLocksHeld'
  BY <1>9 DEF Suspends, HoldsFuture, Finishing, Bound, CoresApart, CallsOK
<1>10. ASSUME NEW c \in Cores, LockOldProcess(c) PROVE FutureLocksHeld'
  BY <1>10 DEF LockOldProcess, HoldsFuture, Finishing, Bound, CoresApart, CallsOK
<1>11. ASSUME NEW c \in Cores, QueueOld(c) PROVE FutureLocksHeld'
  BY <1>11 DEF QueueOld, HoldsFuture, Finishing, Bound, CoresApart, CallsOK
<1>12. ASSUME NEW c \in Cores, TakeReady(c, "deq", "disp") PROVE FutureLocksHeld'
  BY <1>12 DEF TakeReady, HoldsFuture, Finishing, Bound, CoresApart, CallsOK
<1>13. ASSUME NEW c \in Cores, TakeReady(c, "idle_deq", "idle_disp") PROVE FutureLocksHeld'
  BY <1>13 DEF TakeReady, HoldsFuture, Finishing, Bound, CoresApart, CallsOK
<1>14. ASSUME NEW c \in Cores, GoIdle(c, "deq", "soft", TRUE) PROVE FutureLocksHeld'
  BY <1>14 DEF GoIdle, HoldsFuture, Finishing, Bound, CoresApart, CallsOK
<1>15. ASSUME NEW c \in Cores, GoIdle(c, "idle_deq", "exec", FALSE) PROVE FutureLocksHeld'
  BY <1>15 DEF GoIdle, HoldsFuture, Finishing, Bound, CoresApart, CallsOK
<1>16. ASSUME NEW c \in Cores, Resumes(c, "disp", "soft", TRUE) PROVE FutureLocksHeld'
  BY <1>16 DEF Resumes, HoldsFuture, Finishing, Bound, CoresApart, CallsOK
<1>17. ASSUME NEW c \in Cores, Resumes(c, "idle_disp", "exec", FALSE) PROVE FutureLocksHeld'
  BY <1>17 DEF Resumes, HoldsFuture, Finishing, Bound, CoresApart, CallsOK
<1>18. ASSUME NEW c \in Cores, IrqHandled(c) PROVE FutureLocksHeld'
  BY <1>18 DEF IrqHandled, HoldsFuture, Finishing, Bound, CoresApart, CallsOK
<1>19. ASSUME NEW c \in Cores, LookForThread(c) PROVE FutureLocksHeld'
  BY <1>19 DEF LookForThread, HoldsFuture, Finishing, Bound, CoresApart, CallsOK
<1>20. ASSUME NEW c \in Cores, ReturnToThread(c) PROVE FutureLocksHeld'
  BY <1>20 DEF ReturnToThread, HoldsFuture, Finishing, Bound, CoresApart, CallsOK
<1>21. ASSUME NEW c \in Cores, NEW l \in Lists, TakeWaiter(c, l) PROVE FutureLocksHeld'
  BY <1>21 DEF TakeWaiter, HoldsFuture, Finishing, Bound, CoresApart, CallsOK
<1>22. ASSUME NEW c \in Cores, FinishDone(c) PROVE FutureLocksHeld'
  <2>1. cur[c] \in Threads /\ HoldsFuture(c, cur[c])
    BY <1>22 DEF FinishDone, HoldsFuture, Finishing
  <2>2. \A d \in Cores, t \in Threads : HoldsFuture(d, t)' <=> HoldsFuture(d, t) /\ d # c
    BY <1>22 DEF FinishDone, HoldsFuture, Finishing
  <2>3. \A k \in Locks : owner'[k] = IF k = FutureLock(cur[c]) THEN None ELSE owner[k]
    BY <1>22 DEF FinishDone
  <2>4. \A t \in Threads : owner[FutureLock(t)] = c => t = cur[c]
    BY <1>22 DEF FinishDone, HoldsFuture, Finishing
  <2>5. QED
    BY <2>1, <2>2, <2>3, <2>4
<1>23. ASSUME NEW c \in Cores, LoopDone(c) PROVE FutureLocksHeld'
  BY <1>23 DEF LoopDone, HoldsFuture, Finishing, Bound, CoresApart, CallsOK
<1>24. ASSUME NEW c \in Cores, MakeReady(c) PROVE FutureLocksHeld'
  BY <1>24 DEF MakeReady, HoldsFuture, Finishing, Bound, CoresApart, CallsOK
<1>25. ASSUME NEW c \in Cores, QueueWoken(c) PROVE FutureLocksHeld'
  <2>1. CASE from[c] = "exec"
    BY <1>25, <2>1 DEF QueueWoken, HoldsFuture, Finishing, Bound, CoresApart, CallsOK
  <2>2. CASE from[c] = "irq"
    BY <1>25, <2>2 DEF QueueWoken, HoldsFuture, Finishing, Bound, CoresApart, CallsOK
  <2>3. CASE from[c] = "soft"
    BY <1>25, <2>3 DEF QueueWoken, HoldsFuture, Finishing, Bound, CoresApart, CallsOK
  <2>4. CASE from[c] = "finish"
    BY <1>25, <2>4 DEF QueueWoken, HoldsFuture, Finishing, Bound, CoresApart, CallsOK
  <2>5. QED
    BY <2>1, <2>2, <2>3, <2>4
<1>26. ASSUME NEW c \in Cores, Dies(c) PROVE FutureLocksHeld'
  BY <1>26 DEF Dies, HoldsFuture, Finishing, Bound, CoresApart, CallsOK
<1>27. ASSUME NEW c \in Cores, FinishJoin(c) PROVE FutureLocksHeld'
  BY <1>27 DEF FinishJoin, HoldsFuture, Finishing, Bound, CoresApart, CallsOK
<1>28. ASSUME NEW c \in Cores, JoinAsFuture(c) PROVE FutureLocksHeld'
  BY <1>28 DEF JoinAsFuture, HoldsFuture, Finishing, Bound, CoresApart, CallsOK
<1>29. ASSUME NEW c \in Cores, JoinDone(c) PROVE FutureLocksHeld'
  BY <1>29 DEF JoinDone, HoldsFuture, Finishing, Bound, CoresApart, CallsOK
<1>30. ASSUME NEW c \in Cores, JoinBlocks(c) PROVE FutureLocksHeld'
  BY <1>30 DEF JoinBlocks, HoldsFuture, Finishing, Bound, CoresApart, CallsOK
<1>31. ASSUME NEW c \in Cores, WaitJoin(c) PROVE FutureLocksHeld'
  BY <1>31 DEF WaitJoin, HoldsFuture, Finishing, Bound, CoresApart, CallsOK
<1>32. ASSUME NEW c \in Cores, ListLockProcess(c) PROVE FutureLocksHeld'
  BY <1>32 DEF ListLockProcess, HoldsFuture, Finishing, Bound, CoresApart, CallsOK
<1>33. ASSUME NEW c \in Cores, PrintOne(c) PROVE FutureLocksHeld'
  BY <1>33 DEF PrintOne, HoldsFuture, Finishing, Bound, CoresApart, CallsOK
<1>34. ASSUME NEW c \in Cores, PrintLast(c) PROVE FutureLocksHeld'
  BY <1>34 DEF PrintLast, HoldsFuture, Finishing, Bound, CoresApart, CallsOK
<1>35. ASSUME NEW c \in Cores, Irq(c) PROVE FutureLocksHeld'
  BY <1>35 DEF Irq, HoldsFuture, Finishing, Bound, CoresApart, CallsOK
<1>36. CASE UNCHANGED vars
  BY <1>36 DEF vars, HoldsFuture, Finishing, Bound, CoresApart, CallsOK
<1> HIDE DEF TypeOK, NoPanic, SchedInv, PCs, Lists, ThreadStates, threadVars, queueVars,
            coreVars, Goto, Free, Owning, LocksHeld, FutureLocksHeld
<1>37. QED
  BY <1>1, <1>2, <1>3, <1>4, <1>5, <1>6, <1>7, <1>8, <1>9, <1>10, <1>11, <1>12,
     <1>13, <1>14, <1>15, <1>16, <1>17, <1>18, <1>19, <1>20, <1>21, <1>22, <1>23, <1>24, <1>25,
     <1>26, <1>27, <1>28, <1>29, <1>30, <1>31, <1>32, <1>33, <1>34, <1>35, <1>36 DEF Step, StepOf

\* and for the locks of the process, the process list and IRQ_HANDLERS.
LEMMA NextGlobalLocksHeld ==
    ASSUME SchedInv, Step
    PROVE  GlobalLocksHeld'
<1> USE SchedAssumption, LockNames
        DEF TypeOK, NoPanic, SchedInv, PCs, Lists, ThreadStates, threadVars, queueVars,
            coreVars, Goto, Free, Owning, LocksHeld, GlobalLocksHeld
<1>1. ASSUME NEW c \in Cores, Yields(c) PROVE GlobalLocksHeld'
  BY <1>1 DEF Yields
<1>2. ASSUME NEW c \in Cores, NEW l \in Objs, Wait(c, l) PROVE GlobalLocksHeld'
  BY <1>2 DEF Wait, InThread
<1>3. ASSUME NEW c \in Cores, KillCurrent(c) PROVE GlobalLocksHeld'
  BY <1>3 DEF KillCurrent, InThread
<1>4. ASSUME NEW c \in Cores, NEW t \in Threads, CreateThread(c, t) PROVE GlobalLocksHeld'
  BY <1>4 DEF CreateThread, InThread
<1>5. ASSUME NEW c \in Cores, NEW t \in Threads, StartThread(c, t) PROVE GlobalLocksHeld'
  BY <1>5 DEF StartThread, InThread
<1>6. ASSUME NEW c \in Cores, NEW t \in Threads, Join(c, t) PROVE GlobalLocksHeld'
  BY <1>6 DEF Join, InThread
<1>7. ASSUME NEW c \in Cores, ListThreads(c) PROVE GlobalLocksHeld'
  BY <1>7 DEF ListThreads, InThread
<1>8. ASSUME NEW c \in Cores, Sleeps(c) PROVE GlobalLocksHeld'
  BY <1>8 DEF Sleeps
<1>9. ASSUME NEW c \in Cores, Suspends(c, IF state[cur[c]] = "Ready" THEN "enq_p" ELSE "deq")
      PROVE  GlobalLocksHeld'
  BY <1>9 DEF Suspends
<1>10. ASSUME NEW c \in Cores, LockOldProcess(c) PROVE GlobalLocksHeld'
  BY <1>10 DEF LockOldProcess
<1>11. ASSUME NEW c \in Cores, QueueOld(c) PROVE GlobalLocksHeld'
  BY <1>11 DEF QueueOld
<1>12. ASSUME NEW c \in Cores, TakeReady(c, "deq", "disp") PROVE GlobalLocksHeld'
  BY <1>12 DEF TakeReady
<1>13. ASSUME NEW c \in Cores, TakeReady(c, "idle_deq", "idle_disp") PROVE GlobalLocksHeld'
  BY <1>13 DEF TakeReady
<1>14. ASSUME NEW c \in Cores, GoIdle(c, "deq", "soft", TRUE) PROVE GlobalLocksHeld'
  BY <1>14 DEF GoIdle
<1>15. ASSUME NEW c \in Cores, GoIdle(c, "idle_deq", "exec", FALSE) PROVE GlobalLocksHeld'
  BY <1>15 DEF GoIdle
<1>16. ASSUME NEW c \in Cores, Resumes(c, "disp", "soft", TRUE) PROVE GlobalLocksHeld'
  BY <1>16 DEF Resumes
<1>17. ASSUME NEW c \in Cores, Resumes(c, "idle_disp", "exec", FALSE) PROVE GlobalLocksHeld'
  BY <1>17 DEF Resumes
<1>18. ASSUME NEW c \in Cores, IrqHandled(c) PROVE GlobalLocksHeld'
  BY <1>18 DEF IrqHandled
<1>19. ASSUME NEW c \in Cores, LookForThread(c) PROVE GlobalLocksHeld'
  BY <1>19 DEF LookForThread
<1>20. ASSUME NEW c \in Cores, ReturnToThread(c) PROVE GlobalLocksHeld'
  BY <1>20 DEF ReturnToThread
<1>21. ASSUME NEW c \in Cores, NEW l \in Lists, TakeWaiter(c, l) PROVE GlobalLocksHeld'
  BY <1>21 DEF TakeWaiter
<1>22. ASSUME NEW c \in Cores, FinishDone(c) PROVE GlobalLocksHeld'
  BY <1>22 DEF FinishDone
<1>23. ASSUME NEW c \in Cores, LoopDone(c) PROVE GlobalLocksHeld'
  BY <1>23 DEF LoopDone
<1>24. ASSUME NEW c \in Cores, MakeReady(c) PROVE GlobalLocksHeld'
  BY <1>24 DEF MakeReady
<1>25. ASSUME NEW c \in Cores, QueueWoken(c) PROVE GlobalLocksHeld'
  <2>1. CASE from[c] = "exec"
    BY <1>25, <2>1 DEF QueueWoken
  <2>2. CASE from[c] = "irq"
    BY <1>25, <2>2 DEF QueueWoken
  <2>3. CASE from[c] = "soft"
    BY <1>25, <2>3 DEF QueueWoken
  <2>4. CASE from[c] = "finish"
    BY <1>25, <2>4 DEF QueueWoken
  <2>5. QED
    BY <2>1, <2>2, <2>3, <2>4
<1>26. ASSUME NEW c \in Cores, Dies(c) PROVE GlobalLocksHeld'
  BY <1>26 DEF Dies
<1>27. ASSUME NEW c \in Cores, FinishJoin(c) PROVE GlobalLocksHeld'
  BY <1>27 DEF FinishJoin
<1>28. ASSUME NEW c \in Cores, JoinAsFuture(c) PROVE GlobalLocksHeld'
  BY <1>28 DEF JoinAsFuture
<1>29. ASSUME NEW c \in Cores, JoinDone(c) PROVE GlobalLocksHeld'
  BY <1>29 DEF JoinDone
<1>30. ASSUME NEW c \in Cores, JoinBlocks(c) PROVE GlobalLocksHeld'
  BY <1>30 DEF JoinBlocks
<1>31. ASSUME NEW c \in Cores, WaitJoin(c) PROVE GlobalLocksHeld'
  BY <1>31 DEF WaitJoin
<1>32. ASSUME NEW c \in Cores, ListLockProcess(c) PROVE GlobalLocksHeld'
  BY <1>32 DEF ListLockProcess
<1>33. ASSUME NEW c \in Cores, PrintOne(c) PROVE GlobalLocksHeld'
  BY <1>33 DEF PrintOne
<1>34. ASSUME NEW c \in Cores, PrintLast(c) PROVE GlobalLocksHeld'
  BY <1>34 DEF PrintLast
<1>35. ASSUME NEW c \in Cores, Irq(c) PROVE GlobalLocksHeld'
  BY <1>35 DEF Irq
<1>36. CASE UNCHANGED vars
  BY <1>36 DEF vars
<1> HIDE DEF TypeOK, NoPanic, SchedInv, PCs, Lists, ThreadStates, threadVars, queueVars,
            coreVars, Goto, Free, Owning, LocksHeld, GlobalLocksHeld
<1>37. QED
  BY <1>1, <1>2, <1>3, <1>4, <1>5, <1>6, <1>7, <1>8, <1>9, <1>10, <1>11, <1>12,
     <1>13, <1>14, <1>15, <1>16, <1>17, <1>18, <1>19, <1>20, <1>21, <1>22, <1>23, <1>24, <1>25,
     <1>26, <1>27, <1>28, <1>29, <1>30, <1>31, <1>32, <1>33, <1>34, <1>35, <1>36 DEF Step, StepOf

\* A step changes the state of a thread only where the core that makes it has
\* the thread to itself, so the other cores find theirs as they left it.
LEMMA NextStatesOK ==
    ASSUME SchedInv, Step
    PROVE  StatesOK'
<1> USE SchedAssumption, LockNames
        DEF TypeOK, NoPanic, SchedInv, PCs, Lists, ThreadStates, threadVars, queueVars,
            coreVars, Goto, Free
<1>1. ASSUME NEW c \in Cores, Yields(c) PROVE StatesOK'
  <2>1. Executes(c)
    BY <1>1 DEF Yields, Executes
  <2>2. QED
    BY <1>1, <2>1, ExecutesAlone DEF Yields, StatesOK, Bound, Executes, Finishing, Hand
<1>2. ASSUME NEW c \in Cores, NEW l \in Objs, Wait(c, l) PROVE StatesOK'
  BY <1>2 DEF Wait, InThread, StatesOK, CoresApart, Bound, Hand, Executes, Finishing
<1>3. ASSUME NEW c \in Cores, KillCurrent(c) PROVE StatesOK'
  BY <1>3 DEF KillCurrent, InThread, StatesOK, CoresApart, Bound, Hand, Executes, Finishing
<1>4. ASSUME NEW c \in Cores, NEW t \in Threads, CreateThread(c, t) PROVE StatesOK'
  BY <1>4 DEF CreateThread, InThread, StatesOK, CoresApart, Bound, Hand, Executes, Finishing
<1>5. ASSUME NEW c \in Cores, NEW t \in Threads, StartThread(c, t) PROVE StatesOK'
  BY <1>5 DEF StartThread, InThread, LocksHeld, ThreadLocksHeld, HoldsThread, StatesOK,
         CoresApart, Bound, Hand, Executes, Finishing
<1>6. ASSUME NEW c \in Cores, NEW t \in Threads, Join(c, t) PROVE StatesOK'
  BY <1>6 DEF Join, InThread, StatesOK, CoresApart, Bound, Hand, Executes, Finishing
<1>7. ASSUME NEW c \in Cores, ListThreads(c) PROVE StatesOK'
  BY <1>7 DEF ListThreads, InThread, StatesOK, CoresApart, Bound, Hand, Executes, Finishing
<1>8. ASSUME NEW c \in Cores, Sleeps(c) PROVE StatesOK'
  <2>1. Executes(c)
    BY <1>8 DEF Sleeps, Executes
  <2>2. QED
    BY <1>8, <2>1, ExecutesAlone DEF Sleeps, StatesOK, Bound, Executes, Finishing, Hand, CallsOK
<1>9. ASSUME NEW c \in Cores, Suspends(c, IF state[cur[c]] = "Ready" THEN "enq_p" ELSE "deq")
      PROVE  StatesOK'
  BY <1>9 DEF Suspends, StatesOK, CoresApart, Bound, Hand, Executes, Finishing
<1>10. ASSUME NEW c \in Cores, LockOldProcess(c) PROVE StatesOK'
  BY <1>10 DEF LockOldProcess, StatesOK, CoresApart, Bound, Hand, Executes, Finishing
<1>11. ASSUME NEW c \in Cores, QueueOld(c) PROVE StatesOK'
  BY <1>11 DEF QueueOld, StatesOK, CoresApart, Bound, Hand, Executes, Finishing
<1>12. ASSUME NEW c \in Cores, TakeReady(c, "deq", "disp") PROVE StatesOK'
  BY <1>12, FirstReady DEF TakeReady, StatesOK, CoresApart, Bound, Hand, Executes, Finishing
<1>13. ASSUME NEW c \in Cores, TakeReady(c, "idle_deq", "idle_disp") PROVE StatesOK'
  BY <1>13, FirstReady DEF TakeReady, StatesOK, CoresApart, Bound, Hand, Executes, Finishing
<1>14. ASSUME NEW c \in Cores, GoIdle(c, "deq", "soft", TRUE) PROVE StatesOK'
  BY <1>14 DEF GoIdle, StatesOK, CoresApart, Bound, Hand, Executes, Finishing
<1>15. ASSUME NEW c \in Cores, GoIdle(c, "idle_deq", "exec", FALSE) PROVE StatesOK'
  BY <1>15 DEF GoIdle, StatesOK, CoresApart, Bound, Hand, Executes, Finishing
<1>16. ASSUME NEW c \in Cores, Resumes(c, "disp", "soft", TRUE) PROVE StatesOK'
  BY <1>16 DEF Resumes, LocksHeld, ThreadLocksHeld, HoldsThread, StatesOK, CoresApart, Bound,
         Hand, Executes, Finishing
<1>17. ASSUME NEW c \in Cores, Resumes(c, "idle_disp", "exec", FALSE) PROVE StatesOK'
  BY <1>17 DEF Resumes, LocksHeld, ThreadLocksHeld, HoldsThread, StatesOK, CoresApart, Bound,
         Hand, Executes, Finishing
<1>18. ASSUME NEW c \in Cores, IrqHandled(c) PROVE StatesOK'
  BY <1>18 DEF IrqHandled, StatesOK, CoresApart, Bound, Hand, Executes, Finishing
<1>19. ASSUME NEW c \in Cores, LookForThread(c) PROVE StatesOK'
  BY <1>19 DEF LookForThread, StatesOK, CoresApart, Bound, Hand, Executes, Finishing
<1>20. ASSUME NEW c \in Cores, ReturnToThread(c) PROVE StatesOK'
  BY <1>20 DEF ReturnToThread, StatesOK, CoresApart, Bound, Hand, Executes, Finishing
<1>21. ASSUME NEW c \in Cores, NEW l \in Lists, TakeWaiter(c, l) PROVE StatesOK'
  BY <1>21, FirstWaiter DEF TakeWaiter, StatesOK, CoresApart, Bound, Hand, Executes, Finishing
<1>22. ASSUME NEW c \in Cores, FinishDone(c) PROVE StatesOK'
  BY <1>22 DEF FinishDone, StatesOK, CoresApart, Bound, Hand, Executes, Finishing
<1>23. ASSUME NEW c \in Cores, LoopDone(c) PROVE StatesOK'
  BY <1>23 DEF LoopDone, StatesOK, CoresApart, Bound, Hand, Executes, Finishing
<1>24. ASSUME NEW c \in Cores, MakeReady(c) PROVE StatesOK'
  BY <1>24 DEF MakeReady, LocksHeld, ThreadLocksHeld, HoldsThread, StatesOK, CoresApart, Bound,
         Hand, Executes, Finishing
<1>25. ASSUME NEW c \in Cores, QueueWoken(c) PROVE StatesOK'
  BY <1>25 DEF QueueWoken, StatesOK, CoresApart, Bound, Hand, Executes, Finishing
<1>26. ASSUME NEW c \in Cores, Dies(c) PROVE StatesOK'
  <2>1. Executes(c)
    BY <1>26 DEF Dies, Executes
  <2>2. QED
    BY <1>26, <2>1, ExecutesAlone DEF Dies, StatesOK, Bound, Executes, Finishing, Hand
<1>27. ASSUME NEW c \in Cores, FinishJoin(c) PROVE StatesOK'
  BY <1>27 DEF FinishJoin, StatesOK, CoresApart, Bound, Hand, Executes, Finishing
<1>28. ASSUME NEW c \in Cores, JoinAsFuture(c) PROVE StatesOK'
  BY <1>28 DEF JoinAsFuture, StatesOK, CoresApart, Bound, Hand, Executes, Finishing
<1>29. ASSUME NEW c \in Cores, JoinDone(c) PROVE StatesOK'
  BY <1>29 DEF JoinDone, StatesOK, CoresApart, Bound, Hand, Executes, Finishing
<1>30. ASSUME NEW c \in Cores, JoinBlocks(c) PROVE StatesOK'
  BY <1>30 DEF JoinBlocks, StatesOK, CoresApart, Bound, Hand, Executes, Finishing
<1>31. ASSUME NEW c \in Cores, WaitJoin(c) PROVE StatesOK'
  BY <1>31 DEF WaitJoin, StatesOK, CoresApart, Bound, Hand, Executes, Finishing
<1>32. ASSUME NEW c \in Cores, ListLockProcess(c) PROVE StatesOK'
  BY <1>32 DEF ListLockProcess, StatesOK, CoresApart, Bound, Hand, Executes, Finishing
<1>33. ASSUME NEW c \in Cores, PrintOne(c) PROVE StatesOK'
  BY <1>33 DEF PrintOne, StatesOK, CoresApart, Bound, Hand, Executes, Finishing
<1>34. ASSUME NEW c \in Cores, PrintLast(c) PROVE StatesOK'
  BY <1>34 DEF PrintLast, StatesOK, CoresApart, Bound, Hand, Executes, Finishing
<1>35. ASSUME NEW c \in Cores, Irq(c) PROVE StatesOK'
  BY <1>35 DEF Irq, StatesOK, CoresApart, Bound, Hand, Executes, Finishing
<1>36. CASE UNCHANGED vars
  BY <1>36 DEF vars, StatesOK, CoresApart, Bound, Hand, Executes, Finishing
<1> HIDE DEF TypeOK, NoPanic, SchedInv, PCs, Lists, ThreadStates, threadVars, queueVars,
            coreVars, Goto, Free
<1>37. QED
  BY <1>1, <1>2, <1>3, <1>4, <1>5, <1>6, <1>7, <1>8, <1>9, <1>10, <1>11, <1>12,
     <1>13, <1>14, <1>15, <1>16, <1>17, <1>18, <1>19, <1>20, <1>21, <1>22, <1>23, <1>24, <1>25,
     <1>26, <1>27, <1>28, <1>29, <1>30, <1>31, <1>32, <1>33, <1>34, <1>35, <1>36 DEF Step, StepOf

\* What a core remembers of its call is what the call is about.
LEMMA NextCallsOK ==
    ASSUME SchedInv, Step
    PROVE  CallsOK'
<1> USE SchedAssumption, LockNames
        DEF TypeOK, NoPanic, SchedInv, PCs, Lists, ThreadStates, threadVars, queueVars,
            coreVars, Goto, Free
<1>1. ASSUME NEW c \in Cores, Yields(c) PROVE CallsOK'
  BY <1>1 DEF Yields, CallsOK, CoresApart, Bound
<1>2. ASSUME NEW c \in Cores, NEW l \in Objs, Wait(c, l) PROVE CallsOK'
  BY <1>2 DEF Wait, InThread, CallsOK, CoresApart, Bound
<1>3. ASSUME NEW c \in Cores, KillCurrent(c) PROVE CallsOK'
  BY <1>3 DEF KillCurrent, InThread, CallsOK, CoresApart, Bound
<1>4. ASSUME NEW c \in Cores, NEW t \in Threads, CreateThread(c, t) PROVE CallsOK'
  BY <1>4 DEF CreateThread, InThread, CallsOK, CoresApart, Bound
<1>5. ASSUME NEW c \in Cores, NEW t \in Threads, StartThread(c, t) PROVE CallsOK'
  BY <1>5 DEF StartThread, InThread, CallsOK, CoresApart, Bound
<1>6. ASSUME NEW c \in Cores, NEW t \in Threads, Join(c, t) PROVE CallsOK'
  BY <1>6, JoinersApart DEF Join, InThread, CallsOK
<1>7. ASSUME NEW c \in Cores, ListThreads(c) PROVE CallsOK'
  BY <1>7 DEF ListThreads, InThread, CallsOK, CoresApart, Bound
<1>8. ASSUME NEW c \in Cores, Sleeps(c) PROVE CallsOK'
  BY <1>8 DEF Sleeps, CallsOK, CoresApart, Bound
<1>9. ASSUME NEW c \in Cores, Suspends(c, IF state[cur[c]] = "Ready" THEN "enq_p" ELSE "deq")
      PROVE  CallsOK'
  BY <1>9 DEF Suspends, CallsOK, CoresApart, Bound
<1>10. ASSUME NEW c \in Cores, LockOldProcess(c) PROVE CallsOK'
  BY <1>10 DEF LockOldProcess, CallsOK, CoresApart, Bound
<1>11. ASSUME NEW c \in Cores, QueueOld(c) PROVE CallsOK'
  BY <1>11 DEF QueueOld, CallsOK, CoresApart, Bound
<1>12. ASSUME NEW c \in Cores, TakeReady(c, "deq", "disp") PROVE CallsOK'
  BY <1>12 DEF TakeReady, CallsOK, CoresApart, Bound
<1>13. ASSUME NEW c \in Cores, TakeReady(c, "idle_deq", "idle_disp") PROVE CallsOK'
  BY <1>13 DEF TakeReady, CallsOK, CoresApart, Bound
<1>14. ASSUME NEW c \in Cores, GoIdle(c, "deq", "soft", TRUE) PROVE CallsOK'
  BY <1>14 DEF GoIdle, CallsOK, CoresApart, Bound
<1>15. ASSUME NEW c \in Cores, GoIdle(c, "idle_deq", "exec", FALSE) PROVE CallsOK'
  BY <1>15 DEF GoIdle, CallsOK, CoresApart, Bound
<1>16. ASSUME NEW c \in Cores, Resumes(c, "disp", "soft", TRUE) PROVE CallsOK'
  BY <1>16 DEF Resumes, CallsOK, CoresApart, Bound
<1>17. ASSUME NEW c \in Cores, Resumes(c, "idle_disp", "exec", FALSE) PROVE CallsOK'
  BY <1>17 DEF Resumes, CallsOK, CoresApart, Bound
<1>18. ASSUME NEW c \in Cores, IrqHandled(c) PROVE CallsOK'
  BY <1>18 DEF IrqHandled, CallsOK, CoresApart, Bound
<1>19. ASSUME NEW c \in Cores, LookForThread(c) PROVE CallsOK'
  BY <1>19 DEF LookForThread, CallsOK, CoresApart, Bound
<1>20. ASSUME NEW c \in Cores, ReturnToThread(c) PROVE CallsOK'
  BY <1>20 DEF ReturnToThread, CallsOK, CoresApart, Bound
<1>21. ASSUME NEW c \in Cores, NEW l \in Lists, TakeWaiter(c, l) PROVE CallsOK'
  BY <1>21 DEF TakeWaiter, CallsOK, CoresApart, Bound
<1>22. ASSUME NEW c \in Cores, FinishDone(c) PROVE CallsOK'
  BY <1>22 DEF FinishDone, CallsOK, CoresApart, Bound
<1>23. ASSUME NEW c \in Cores, LoopDone(c) PROVE CallsOK'
  BY <1>23 DEF LoopDone, CallsOK, CoresApart, Bound
<1>24. ASSUME NEW c \in Cores, MakeReady(c) PROVE CallsOK'
  BY <1>24 DEF MakeReady, CallsOK, CoresApart, Bound
<1>25. ASSUME NEW c \in Cores, QueueWoken(c) PROVE CallsOK'
  <2>1. CASE from[c] = "exec"
    BY <1>25, <2>1 DEF QueueWoken, CallsOK
  <2>2. CASE from[c] = "irq"
    BY <1>25, <2>2 DEF QueueWoken, CallsOK
  <2>3. CASE from[c] = "soft"
    BY <1>25, <2>3 DEF QueueWoken, CallsOK
  <2>4. CASE from[c] = "finish"
    BY <1>25, <2>4 DEF QueueWoken, CallsOK
  <2>5. QED
    BY <2>1, <2>2, <2>3, <2>4
<1>26. ASSUME NEW c \in Cores, Dies(c) PROVE CallsOK'
  BY <1>26 DEF Dies, CallsOK, CoresApart, Bound
<1>27. ASSUME NEW c \in Cores, FinishJoin(c) PROVE CallsOK'
  BY <1>27 DEF FinishJoin, LocksHeld, FutureLocksHeld, HoldsFuture, Finishing, CallsOK,
         CoresApart, Bound
<1>28. ASSUME NEW c \in Cores, JoinAsFuture(c) PROVE CallsOK'
  BY <1>28 DEF JoinAsFuture, CallsOK, CoresApart, Bound
<1>29. ASSUME NEW c \in Cores, JoinDone(c) PROVE CallsOK'
  BY <1>29, JoinersApart DEF JoinDone, CallsOK
<1>30. ASSUME NEW c \in Cores, JoinBlocks(c) PROVE CallsOK'
  BY <1>30 DEF JoinBlocks, CallsOK, CoresApart, Bound
<1>31. ASSUME NEW c \in Cores, WaitJoin(c) PROVE CallsOK'
  BY <1>31 DEF WaitJoin, CallsOK, CoresApart, Bound
<1>32. ASSUME NEW c \in Cores, ListLockProcess(c) PROVE CallsOK'
  BY <1>32 DEF ListLockProcess, CallsOK, CoresApart, Bound
<1>33. ASSUME NEW c \in Cores, PrintOne(c) PROVE CallsOK'
  BY <1>33 DEF PrintOne, CallsOK, CoresApart, Bound
<1>34. ASSUME NEW c \in Cores, PrintLast(c) PROVE CallsOK'
  BY <1>34 DEF PrintLast, CallsOK, CoresApart, Bound
<1>35. ASSUME NEW c \in Cores, Irq(c) PROVE CallsOK'
  BY <1>35 DEF Irq, CallsOK, CoresApart, Bound
<1>36. CASE UNCHANGED vars
  BY <1>36 DEF vars, CallsOK, CoresApart, Bound
<1> HIDE DEF TypeOK, NoPanic, SchedInv, PCs, Lists, ThreadStates, threadVars, queueVars,
            coreVars, Goto, Free
<1>37. QED
  BY <1>1, <1>2, <1>3, <1>4, <1>5, <1>6, <1>7, <1>8, <1>9, <1>10, <1>11, <1>12,
     <1>13, <1>14, <1>15, <1>16, <1>17, <1>18, <1>19, <1>20, <1>21, <1>22, <1>23, <1>24, <1>25,
     <1>26, <1>27, <1>28, <1>29, <1>30, <1>31, <1>32, <1>33, <1>34, <1>35, <1>36 DEF Step, StepOf

\* Interrupt code and thread code keep their wake_all apart.
LEMMA NextContextOK ==
    ASSUME SchedInv, Step
    PROVE  ContextOK'
<1> USE SchedAssumption, LockNames
        DEF TypeOK, NoPanic, SchedInv, PCs, Lists, ThreadStates, threadVars, queueVars,
            coreVars, Goto, Free
<1>1. ASSUME NEW c \in Cores, Yields(c) PROVE ContextOK'
  BY <1>1 DEF Yields, ContextOK, Finishing, Context
<1>2. ASSUME NEW c \in Cores, NEW l \in Objs, Wait(c, l) PROVE ContextOK'
  BY <1>2 DEF Wait, InThread, ContextOK, Finishing, Context
<1>3. ASSUME NEW c \in Cores, KillCurrent(c) PROVE ContextOK'
  BY <1>3 DEF KillCurrent, InThread, ContextOK, Finishing, Context
<1>4. ASSUME NEW c \in Cores, NEW t \in Threads, CreateThread(c, t) PROVE ContextOK'
  BY <1>4 DEF CreateThread, InThread, ContextOK, Finishing, Context
<1>5. ASSUME NEW c \in Cores, NEW t \in Threads, StartThread(c, t) PROVE ContextOK'
  BY <1>5 DEF StartThread, InThread, ContextOK, Finishing, Context
<1>6. ASSUME NEW c \in Cores, NEW t \in Threads, Join(c, t) PROVE ContextOK'
  BY <1>6 DEF Join, InThread, ContextOK, Finishing, Context
<1>7. ASSUME NEW c \in Cores, ListThreads(c) PROVE ContextOK'
  BY <1>7 DEF ListThreads, InThread, ContextOK, Finishing, Context
<1>8. ASSUME NEW c \in Cores, Sleeps(c) PROVE ContextOK'
  BY <1>8 DEF Sleeps, ContextOK, Finishing, Context
<1>9. ASSUME NEW c \in Cores, Suspends(c, IF state[cur[c]] = "Ready" THEN "enq_p" ELSE "deq")
      PROVE  ContextOK'
  BY <1>9 DEF Suspends, ContextOK, Finishing, Context
<1>10. ASSUME NEW c \in Cores, LockOldProcess(c) PROVE ContextOK'
  BY <1>10 DEF LockOldProcess, ContextOK, Finishing, Context
<1>11. ASSUME NEW c \in Cores, QueueOld(c) PROVE ContextOK'
  BY <1>11 DEF QueueOld, ContextOK, Finishing, Context
<1>12. ASSUME NEW c \in Cores, TakeReady(c, "deq", "disp") PROVE ContextOK'
  BY <1>12 DEF TakeReady, ContextOK, Finishing, Context
<1>13. ASSUME NEW c \in Cores, TakeReady(c, "idle_deq", "idle_disp") PROVE ContextOK'
  BY <1>13 DEF TakeReady, ContextOK, Finishing, Context
<1>14. ASSUME NEW c \in Cores, GoIdle(c, "deq", "soft", TRUE) PROVE ContextOK'
  BY <1>14 DEF GoIdle, ContextOK, Finishing, Context
<1>15. ASSUME NEW c \in Cores, GoIdle(c, "idle_deq", "exec", FALSE) PROVE ContextOK'
  BY <1>15 DEF GoIdle, ContextOK, Finishing, Context
<1>16. ASSUME NEW c \in Cores, Resumes(c, "disp", "soft", TRUE) PROVE ContextOK'
  BY <1>16 DEF Resumes, ContextOK, Finishing, Context
<1>17. ASSUME NEW c \in Cores, Resumes(c, "idle_disp", "exec", FALSE) PROVE ContextOK'
  BY <1>17 DEF Resumes, ContextOK, Finishing, Context
<1>18. ASSUME NEW c \in Cores, IrqHandled(c) PROVE ContextOK'
  BY <1>18 DEF IrqHandled, ContextOK, Finishing, Context
<1>19. ASSUME NEW c \in Cores, LookForThread(c) PROVE ContextOK'
  BY <1>19 DEF LookForThread, ContextOK, Finishing, Context
<1>20. ASSUME NEW c \in Cores, ReturnToThread(c) PROVE ContextOK'
  BY <1>20 DEF ReturnToThread, ContextOK, Finishing, Context
<1>21. ASSUME NEW c \in Cores, NEW l \in Lists, TakeWaiter(c, l) PROVE ContextOK'
  BY <1>21 DEF TakeWaiter, ContextOK, Finishing, Context
<1>22. ASSUME NEW c \in Cores, FinishDone(c) PROVE ContextOK'
  BY <1>22 DEF FinishDone, ContextOK, Finishing, Context
<1>23. ASSUME NEW c \in Cores, LoopDone(c) PROVE ContextOK'
  BY <1>23 DEF LoopDone, ContextOK, Finishing, Context
<1>24. ASSUME NEW c \in Cores, MakeReady(c) PROVE ContextOK'
  BY <1>24 DEF MakeReady, ContextOK, Finishing, Context
<1>25. ASSUME NEW c \in Cores, QueueWoken(c) PROVE ContextOK'
  BY <1>25 DEF QueueWoken, ContextOK, Finishing, Context
<1>26. ASSUME NEW c \in Cores, Dies(c) PROVE ContextOK'
  BY <1>26 DEF Dies, ContextOK, Finishing, Context
<1>27. ASSUME NEW c \in Cores, FinishJoin(c) PROVE ContextOK'
  BY <1>27 DEF FinishJoin, ContextOK, Finishing, Context
<1>28. ASSUME NEW c \in Cores, JoinAsFuture(c) PROVE ContextOK'
  BY <1>28 DEF JoinAsFuture, ContextOK, Finishing, Context
<1>29. ASSUME NEW c \in Cores, JoinDone(c) PROVE ContextOK'
  BY <1>29 DEF JoinDone, ContextOK, Finishing, Context
<1>30. ASSUME NEW c \in Cores, JoinBlocks(c) PROVE ContextOK'
  BY <1>30 DEF JoinBlocks, ContextOK, Finishing, Context
<1>31. ASSUME NEW c \in Cores, WaitJoin(c) PROVE ContextOK'
  BY <1>31 DEF WaitJoin, ContextOK, Finishing, Context
<1>32. ASSUME NEW c \in Cores, ListLockProcess(c) PROVE ContextOK'
  BY <1>32 DEF ListLockProcess, ContextOK, Finishing, Context
<1>33. ASSUME NEW c \in Cores, PrintOne(c) PROVE ContextOK'
  BY <1>33 DEF PrintOne, ContextOK, Finishing, Context
<1>34. ASSUME NEW c \in Cores, PrintLast(c) PROVE ContextOK'
  BY <1>34 DEF PrintLast, ContextOK, Finishing, Context
<1>35. ASSUME NEW c \in Cores, Irq(c) PROVE ContextOK'
  BY <1>35 DEF Irq, ContextOK, Finishing, Context
<1>36. CASE UNCHANGED vars
  BY <1>36 DEF vars, ContextOK, Finishing, Context
<1> HIDE DEF TypeOK, NoPanic, SchedInv, PCs, Lists, ThreadStates, threadVars, queueVars,
            coreVars, Goto, Free
<1>37. QED
  BY <1>1, <1>2, <1>3, <1>4, <1>5, <1>6, <1>7, <1>8, <1>9, <1>10, <1>11, <1>12,
     <1>13, <1>14, <1>15, <1>16, <1>17, <1>18, <1>19, <1>20, <1>21, <1>22, <1>23, <1>24, <1>25,
     <1>26, <1>27, <1>28, <1>29, <1>30, <1>31, <1>32, <1>33, <1>34, <1>35, <1>36 DEF Step, StepOf

\* Two cores never come to share a thread.
LEMMA NextCoresApart ==
    ASSUME SchedInv, Step
    PROVE  CoresApart'
<1> USE SchedAssumption, LockNames
        DEF TypeOK, NoPanic, SchedInv, PCs, Lists, ThreadStates, threadVars, queueVars,
            coreVars, Goto, Free
<1>1. ASSUME NEW c \in Cores, Yields(c) PROVE CoresApart'
  BY <1>1 DEF Yields, StatesOK, CoresApart, Bound, Hand, Executes, Finishing
<1>2. ASSUME NEW c \in Cores, NEW l \in Objs, Wait(c, l) PROVE CoresApart'
  BY <1>2 DEF Wait, InThread, StatesOK, CoresApart, Bound, Hand, Executes, Finishing
<1>3. ASSUME NEW c \in Cores, KillCurrent(c) PROVE CoresApart'
  BY <1>3 DEF KillCurrent, InThread, StatesOK, CoresApart, Bound, Hand, Executes, Finishing
<1>4. ASSUME NEW c \in Cores, NEW t \in Threads, CreateThread(c, t) PROVE CoresApart'
  BY <1>4 DEF CreateThread, InThread, StatesOK, CoresApart, Bound, Hand, Executes, Finishing
<1>5. ASSUME NEW c \in Cores, NEW t \in Threads, StartThread(c, t) PROVE CoresApart'
  <2>1. Executes(c)
    BY <1>5 DEF StartThread, Executes, InThread
  <2>2. QED
    BY <1>5, <2>1, ExecutesAlone DEF StartThread, CoresApart, Bound, Hand, InThread, StatesOK
<1>6. ASSUME NEW c \in Cores, NEW t \in Threads, Join(c, t) PROVE CoresApart'
  BY <1>6 DEF Join, InThread, StatesOK, CoresApart, Bound, Hand, Executes, Finishing
<1>7. ASSUME NEW c \in Cores, ListThreads(c) PROVE CoresApart'
  BY <1>7 DEF ListThreads, InThread, StatesOK, CoresApart, Bound, Hand, Executes, Finishing
<1>8. ASSUME NEW c \in Cores, Sleeps(c) PROVE CoresApart'
  BY <1>8 DEF Sleeps, StatesOK, CoresApart, Bound, Hand, Executes, Finishing
<1>9. ASSUME NEW c \in Cores, Suspends(c, IF state[cur[c]] = "Ready" THEN "enq_p" ELSE "deq")
      PROVE  CoresApart'
  BY <1>9 DEF Suspends, StatesOK, CoresApart, Bound, Hand, Executes, Finishing
<1>10. ASSUME NEW c \in Cores, LockOldProcess(c) PROVE CoresApart'
  BY <1>10 DEF LockOldProcess, StatesOK, CoresApart, Bound, Hand, Executes, Finishing
<1>11. ASSUME NEW c \in Cores, QueueOld(c) PROVE CoresApart'
  BY <1>11 DEF QueueOld, StatesOK, CoresApart, Bound, Hand, Executes, Finishing
<1>12. ASSUME NEW c \in Cores, TakeReady(c, "deq", "disp") PROVE CoresApart'
  BY <1>12, FirstReady DEF TakeReady, Enqueues, Dispatches, StatesOK, CoresApart, Bound, Hand,
         Executes, Finishing
<1>13. ASSUME NEW c \in Cores, TakeReady(c, "idle_deq", "idle_disp") PROVE CoresApart'
  BY <1>13, FirstReady DEF TakeReady, Enqueues, Dispatches, StatesOK, CoresApart, Bound, Hand,
         Executes, Finishing
<1>14. ASSUME NEW c \in Cores, GoIdle(c, "deq", "soft", TRUE) PROVE CoresApart'
  BY <1>14 DEF GoIdle, StatesOK, CoresApart, Bound, Hand, Executes, Finishing
<1>15. ASSUME NEW c \in Cores, GoIdle(c, "idle_deq", "exec", FALSE) PROVE CoresApart'
  BY <1>15 DEF GoIdle, StatesOK, CoresApart, Bound, Hand, Executes, Finishing
<1>16. ASSUME NEW c \in Cores, Resumes(c, "disp", "soft", TRUE) PROVE CoresApart'
  BY <1>16, InHandAlone DEF Resumes, CoresApart, Bound, Hand
<1>17. ASSUME NEW c \in Cores, Resumes(c, "idle_disp", "exec", FALSE) PROVE CoresApart'
  BY <1>17, InHandAlone DEF Resumes, CoresApart, Bound, Hand
<1>18. ASSUME NEW c \in Cores, IrqHandled(c) PROVE CoresApart'
  BY <1>18 DEF IrqHandled, StatesOK, CoresApart, Bound, Hand, Executes, Finishing
<1>19. ASSUME NEW c \in Cores, LookForThread(c) PROVE CoresApart'
  BY <1>19 DEF LookForThread, StatesOK, CoresApart, Bound, Hand, Executes, Finishing
<1>20. ASSUME NEW c \in Cores, ReturnToThread(c) PROVE CoresApart'
  BY <1>20 DEF ReturnToThread, StatesOK, CoresApart, Bound, Hand, Executes, Finishing
<1>21. ASSUME NEW c \in Cores, NEW l \in Lists, TakeWaiter(c, l) PROVE CoresApart'
  BY <1>21, FirstWaiter DEF TakeWaiter, Wakes, StatesOK, CoresApart, Bound, Hand, Executes,
         Finishing
<1>22. ASSUME NEW c \in Cores, FinishDone(c) PROVE CoresApart'
  BY <1>22 DEF FinishDone, StatesOK, CoresApart, Bound, Hand, Executes, Finishing
<1>23. ASSUME NEW c \in Cores, LoopDone(c) PROVE CoresApart'
  BY <1>23 DEF LoopDone, StatesOK, CoresApart, Bound, Hand, Executes, Finishing
<1>24. ASSUME NEW c \in Cores, MakeReady(c) PROVE CoresApart'
  BY <1>24 DEF MakeReady, LocksHeld, ThreadLocksHeld, HoldsThread, StatesOK, CoresApart, Bound,
         Hand, Executes, Finishing
<1>25. ASSUME NEW c \in Cores, QueueWoken(c) PROVE CoresApart'
  BY <1>25 DEF QueueWoken, StatesOK, CoresApart, Bound, Hand, Executes, Finishing
<1>26. ASSUME NEW c \in Cores, Dies(c) PROVE CoresApart'
  BY <1>26 DEF Dies, StatesOK, CoresApart, Bound, Hand, Executes, Finishing
<1>27. ASSUME NEW c \in Cores, FinishJoin(c) PROVE CoresApart'
  BY <1>27 DEF FinishJoin, StatesOK, CoresApart, Bound, Hand, Executes, Finishing
<1>28. ASSUME NEW c \in Cores, JoinAsFuture(c) PROVE CoresApart'
  BY <1>28 DEF JoinAsFuture, StatesOK, CoresApart, Bound, Hand, Executes, Finishing
<1>29. ASSUME NEW c \in Cores, JoinDone(c) PROVE CoresApart'
  BY <1>29 DEF JoinDone, StatesOK, CoresApart, Bound, Hand, Executes, Finishing
<1>30. ASSUME NEW c \in Cores, JoinBlocks(c) PROVE CoresApart'
  BY <1>30 DEF JoinBlocks, StatesOK, CoresApart, Bound, Hand, Executes, Finishing
<1>31. ASSUME NEW c \in Cores, WaitJoin(c) PROVE CoresApart'
  BY <1>31 DEF WaitJoin, StatesOK, CoresApart, Bound, Hand, Executes, Finishing
<1>32. ASSUME NEW c \in Cores, ListLockProcess(c) PROVE CoresApart'
  BY <1>32 DEF ListLockProcess, StatesOK, CoresApart, Bound, Hand, Executes, Finishing
<1>33. ASSUME NEW c \in Cores, PrintOne(c) PROVE CoresApart'
  BY <1>33 DEF PrintOne, StatesOK, CoresApart, Bound, Hand, Executes, Finishing
<1>34. ASSUME NEW c \in Cores, PrintLast(c) PROVE CoresApart'
  BY <1>34 DEF PrintLast, StatesOK, CoresApart, Bound, Hand, Executes, Finishing
<1>35. ASSUME NEW c \in Cores, Irq(c) PROVE CoresApart'
  BY <1>35 DEF Irq, StatesOK, CoresApart, Bound, Hand, Executes, Finishing
<1>36. CASE UNCHANGED vars
  BY <1>36 DEF vars, StatesOK, CoresApart, Bound, Hand, Executes, Finishing
<1> HIDE DEF TypeOK, NoPanic, SchedInv, PCs, Lists, ThreadStates, threadVars, queueVars,
            coreVars, Goto, Free
<1>37. QED
  BY <1>1, <1>2, <1>3, <1>4, <1>5, <1>6, <1>7, <1>8, <1>9, <1>10, <1>11, <1>12,
     <1>13, <1>14, <1>15, <1>16, <1>17, <1>18, <1>19, <1>20, <1>21, <1>22, <1>23, <1>24, <1>25,
     <1>26, <1>27, <1>28, <1>29, <1>30, <1>31, <1>32, <1>33, <1>34, <1>35, <1>36 DEF Step, StepOf

\* A thread is put on the ready queue once.
LEMMA NextReadyOK ==
    ASSUME SchedInv, Step
    PROVE  ReadyOK'
<1> USE SchedAssumption, LockNames
        DEF TypeOK, NoPanic, SchedInv, PCs, Lists, ThreadStates, threadVars, queueVars,
            coreVars, Goto, Free
<1>1. ASSUME NEW c \in Cores, Yields(c) PROVE ReadyOK'
  BY <1>1 DEF Yields, ReadyOK, Enqueues, Dispatches, Hand, StatesOK, Executes
<1>2. ASSUME NEW c \in Cores, NEW l \in Objs, Wait(c, l) PROVE ReadyOK'
  BY <1>2 DEF Wait, InThread, ReadyOK, Enqueues, Dispatches, Hand, StatesOK, Executes
<1>3. ASSUME NEW c \in Cores, KillCurrent(c) PROVE ReadyOK'
  BY <1>3 DEF KillCurrent, InThread, ReadyOK, Enqueues, Dispatches, Hand, StatesOK, Executes
<1>4. ASSUME NEW c \in Cores, NEW t \in Threads, CreateThread(c, t) PROVE ReadyOK'
  BY <1>4 DEF CreateThread, InThread, ReadyOK, Enqueues, Dispatches, Hand, StatesOK, Executes
<1>5. ASSUME NEW c \in Cores, NEW t \in Threads, StartThread(c, t) PROVE ReadyOK'
  BY <1>5 DEF StartThread, InThread, ReadyOK, Enqueues, Dispatches, Hand, StatesOK, Executes
<1>6. ASSUME NEW c \in Cores, NEW t \in Threads, Join(c, t) PROVE ReadyOK'
  BY <1>6 DEF Join, InThread, ReadyOK, Enqueues, Dispatches, Hand, StatesOK, Executes
<1>7. ASSUME NEW c \in Cores, ListThreads(c) PROVE ReadyOK'
  BY <1>7 DEF ListThreads, InThread, ReadyOK, Enqueues, Dispatches, Hand, StatesOK, Executes
<1>8. ASSUME NEW c \in Cores, Sleeps(c) PROVE ReadyOK'
  BY <1>8 DEF Sleeps, ReadyOK, Enqueues, Dispatches, Hand, StatesOK, Executes
<1>9. ASSUME NEW c \in Cores, Suspends(c, IF state[cur[c]] = "Ready" THEN "enq_p" ELSE "deq")
      PROVE  ReadyOK'
  BY <1>9 DEF Suspends, ReadyOK, Enqueues, Dispatches, Hand, StatesOK, Executes
<1>10. ASSUME NEW c \in Cores, LockOldProcess(c) PROVE ReadyOK'
  BY <1>10 DEF LockOldProcess, ReadyOK, Enqueues, Dispatches, Hand, StatesOK, Executes
<1>11. ASSUME NEW c \in Cores, QueueOld(c) PROVE ReadyOK'
  <2>1. cur[c] \in Threads /\ state[cur[c]] = "Ready" /\ Enqueues(c, cur[c])
    BY <1>11 DEF QueueOld, StatesOK, Enqueues
  <2>2. Elems(readyQ') = Elems(readyQ) \cup {cur[c]} /\ Inj(readyQ')
    BY <1>11, <2>1, QueueElems DEF QueueOld, ReadyOK
  <2>3. ASSUME NEW d \in Cores, NEW t, t = cur[c] PROVE ~Enqueues(d, t)' /\ ~Dispatches(d, t)'
    <3>1. pc'[c] = "deq" /\ UNCHANGED <<cur, tgt, state>> /\ (d # c => pc'[d] = pc[d])
      BY <1>11 DEF QueueOld
    <3>2. ~Dispatches(d, t)'
      BY <1>11, <2>1, <2>3, <3>1 DEF QueueOld, Dispatches, CoresApart
    <3>3. ~Enqueues(d, t)'
      <4>1. d # c => ~(pc[d] \in {"suspend", "enq_p", "enq_t"} /\ cur[d] = cur[c])
        BY <1>11, <2>1 DEF QueueOld, CoresApart, Bound
      <4>2. ~(pc[d] = "wake_p" /\ tgt[d] = cur[c])
        BY <1>11, <2>1 DEF QueueOld, CoresApart
      <4>3. QED
        BY <2>3, <3>1, <4>1, <4>2 DEF Enqueues
    <3>4. QED
      BY <3>2, <3>3
  <2>4. \A d \in Cores, t \in Elems(readyQ) : ~Enqueues(d, t)' /\ ~Dispatches(d, t)'
    BY <1>11 DEF QueueOld, Enqueues, Dispatches, ReadyOK
  <2>5. QED
    BY <1>11, <2>1, <2>2, <2>3, <2>4 DEF QueueOld, ReadyOK
<1>12. ASSUME NEW c \in Cores, TakeReady(c, "deq", "disp") PROVE ReadyOK'
  BY <1>12, FirstReady DEF TakeReady, ReadyOK, Enqueues, Dispatches
<1>13. ASSUME NEW c \in Cores, TakeReady(c, "idle_deq", "idle_disp") PROVE ReadyOK'
  BY <1>13, FirstReady DEF TakeReady, ReadyOK, Enqueues, Dispatches
<1>14. ASSUME NEW c \in Cores, GoIdle(c, "deq", "soft", TRUE) PROVE ReadyOK'
  BY <1>14 DEF GoIdle, ReadyOK, Enqueues, Dispatches, Hand, StatesOK, Executes
<1>15. ASSUME NEW c \in Cores, GoIdle(c, "idle_deq", "exec", FALSE) PROVE ReadyOK'
  BY <1>15 DEF GoIdle, ReadyOK, Enqueues, Dispatches, Hand, StatesOK, Executes
<1>16. ASSUME NEW c \in Cores, Resumes(c, "disp", "soft", TRUE) PROVE ReadyOK'
  BY <1>16 DEF Resumes, ReadyOK, Enqueues, Dispatches, Hand, StatesOK, Executes
<1>17. ASSUME NEW c \in Cores, Resumes(c, "idle_disp", "exec", FALSE) PROVE ReadyOK'
  BY <1>17 DEF Resumes, ReadyOK, Enqueues, Dispatches, Hand, StatesOK, Executes
<1>18. ASSUME NEW c \in Cores, IrqHandled(c) PROVE ReadyOK'
  BY <1>18 DEF IrqHandled, ReadyOK, Enqueues, Dispatches, Hand, StatesOK, Executes
<1>19. ASSUME NEW c \in Cores, LookForThread(c) PROVE ReadyOK'
  BY <1>19 DEF LookForThread, ReadyOK, Enqueues, Dispatches, Hand, StatesOK, Executes
<1>20. ASSUME NEW c \in Cores, ReturnToThread(c) PROVE ReadyOK'
  BY <1>20 DEF ReturnToThread, ReadyOK, Enqueues, Dispatches, Hand, StatesOK, Executes
<1>21. ASSUME NEW c \in Cores, NEW l \in Lists, TakeWaiter(c, l) PROVE ReadyOK'
  BY <1>21 DEF TakeWaiter, ReadyOK, Enqueues, Dispatches, Hand, StatesOK, Executes
<1>22. ASSUME NEW c \in Cores, FinishDone(c) PROVE ReadyOK'
  <2>1. \A d \in Cores, t \in Threads :
            /\ Enqueues(d, t)' => Enqueues(d, t) \/ state[t] = "Dead"
            /\ Dispatches(d, t)' => Dispatches(d, t)
    BY <1>22 DEF FinishDone, Enqueues, Dispatches, StatesOK, Finishing
  <2>2. Elems(readyQ) \subseteq Threads
    BY QueueElems
  <2>3. UNCHANGED <<state, readyQ>>
    BY <1>22 DEF FinishDone
  <2>4. ASSUME NEW t \in Elems(readyQ), NEW d \in Cores
        PROVE  state[t] = "Ready" /\ ~Enqueues(d, t)' /\ ~Dispatches(d, t)'
    <3>1. t \in Threads /\ state[t] = "Ready" /\ ~Enqueues(d, t) /\ ~Dispatches(d, t)
      BY <2>2 DEF ReadyOK
    <3>2. QED
      BY <2>1, <3>1
  <2>5. QED
    BY <2>3, <2>4 DEF ReadyOK
<1>23. ASSUME NEW c \in Cores, LoopDone(c) PROVE ReadyOK'
  BY <1>23 DEF LoopDone, ReadyOK, Enqueues, Dispatches, Hand, StatesOK, Executes
<1>24. ASSUME NEW c \in Cores, MakeReady(c) PROVE ReadyOK'
  BY <1>24 DEF MakeReady, ReadyOK, Enqueues, Dispatches, Hand, StatesOK, Executes
<1>25. ASSUME NEW c \in Cores, QueueWoken(c) PROVE ReadyOK'
  <2>1. tgt[c] \in Threads /\ state[tgt[c]] = "Ready" /\ Enqueues(c, tgt[c])
    BY <1>25 DEF QueueWoken, StatesOK, Enqueues
  <2>2. Elems(readyQ') = Elems(readyQ) \cup {tgt[c]} /\ Inj(readyQ')
    BY <1>25, <2>1, QueueElems DEF QueueWoken, ReadyOK
  <2>3. pc'[c] \notin {"suspend", "enq_p", "enq_t", "disp", "idle_disp", "wake_p"}
    <3>1. pc'[c] = from[c] /\ from[c] \in {"exec", "irq", "soft", "finish"}
      BY <1>25 DEF QueueWoken
    <3>2. QED
      BY <3>1
  <2>4. ASSUME NEW d \in Cores, NEW t, t = tgt[c] PROVE ~Enqueues(d, t)' /\ ~Dispatches(d, t)'
    <3>1. UNCHANGED <<cur, state>> /\ (d # c => pc'[d] = pc[d] /\ tgt'[d] = tgt[d])
      BY <1>25 DEF QueueWoken
    <3>2. d # c => ~(pc[d] \in Hand /\ tgt[d] = tgt[c])
      BY <1>25 DEF QueueWoken, CoresApart, Hand
    <3>3. ~(pc[d] \in {"suspend", "enq_p", "enq_t"} /\ cur[d] = tgt[c])
      BY <1>25 DEF QueueWoken, CoresApart
    <3>4. QED
      BY <2>3, <2>4, <3>1, <3>2, <3>3 DEF Enqueues, Dispatches, Hand
  <2>5. \A d \in Cores, t \in Elems(readyQ) : ~Enqueues(d, t)' /\ ~Dispatches(d, t)'
    BY <1>25, <2>3 DEF QueueWoken, Enqueues, Dispatches, ReadyOK
  <2>6. UNCHANGED state
    BY <1>25 DEF QueueWoken
  <2>7. QED
    BY <2>1, <2>2, <2>4, <2>5, <2>6 DEF ReadyOK
<1>26. ASSUME NEW c \in Cores, Dies(c) PROVE ReadyOK'
  BY <1>26 DEF Dies, ReadyOK, Enqueues, Dispatches, Hand, StatesOK, Executes
<1>27. ASSUME NEW c \in Cores, FinishJoin(c) PROVE ReadyOK'
  BY <1>27 DEF FinishJoin, ReadyOK, Enqueues, Dispatches, Hand, StatesOK, Executes
<1>28. ASSUME NEW c \in Cores, JoinAsFuture(c) PROVE ReadyOK'
  BY <1>28 DEF JoinAsFuture, ReadyOK, Enqueues, Dispatches, Hand, StatesOK, Executes
<1>29. ASSUME NEW c \in Cores, JoinDone(c) PROVE ReadyOK'
  BY <1>29 DEF JoinDone, ReadyOK, Enqueues, Dispatches, Hand, StatesOK, Executes
<1>30. ASSUME NEW c \in Cores, JoinBlocks(c) PROVE ReadyOK'
  BY <1>30 DEF JoinBlocks, ReadyOK, Enqueues, Dispatches, Hand, StatesOK, Executes
<1>31. ASSUME NEW c \in Cores, WaitJoin(c) PROVE ReadyOK'
  BY <1>31 DEF WaitJoin, ReadyOK, Enqueues, Dispatches, Hand, StatesOK, Executes
<1>32. ASSUME NEW c \in Cores, ListLockProcess(c) PROVE ReadyOK'
  BY <1>32 DEF ListLockProcess, ReadyOK, Enqueues, Dispatches, Hand, StatesOK, Executes
<1>33. ASSUME NEW c \in Cores, PrintOne(c) PROVE ReadyOK'
  BY <1>33 DEF PrintOne, ReadyOK, Enqueues, Dispatches, Hand, StatesOK, Executes
<1>34. ASSUME NEW c \in Cores, PrintLast(c) PROVE ReadyOK'
  BY <1>34 DEF PrintLast, ReadyOK, Enqueues, Dispatches, Hand, StatesOK, Executes
<1>35. ASSUME NEW c \in Cores, Irq(c) PROVE ReadyOK'
  BY <1>35 DEF Irq, ReadyOK, Enqueues, Dispatches, Hand, StatesOK, Executes
<1>36. CASE UNCHANGED vars
  BY <1>36 DEF vars, ReadyOK, Enqueues, Dispatches, Hand, StatesOK, Executes
<1> HIDE DEF TypeOK, NoPanic, SchedInv, PCs, Lists, ThreadStates, threadVars, queueVars,
            coreVars, Goto, Free
<1>37. QED
  BY <1>1, <1>2, <1>3, <1>4, <1>5, <1>6, <1>7, <1>8, <1>9, <1>10, <1>11, <1>12,
     <1>13, <1>14, <1>15, <1>16, <1>17, <1>18, <1>19, <1>20, <1>21, <1>22, <1>23, <1>24, <1>25,
     <1>26, <1>27, <1>28, <1>29, <1>30, <1>31, <1>32, <1>33, <1>34, <1>35, <1>36 DEF Step, StepOf

\* A thread is put on one wait list, once.
LEMMA NextWaitOK ==
    ASSUME SchedInv, Step
    PROVE  WaitOK'
<1> USE SchedAssumption, LockNames
        DEF TypeOK, NoPanic, SchedInv, PCs, Lists, ThreadStates, threadVars, queueVars,
            coreVars, Goto, Free
<1>1. ASSUME NEW c \in Cores, Yields(c) PROVE WaitOK'
  BY <1>1 DEF Yields, WaitOK, Wakes, StatesOK, Executes
<1>2. ASSUME NEW c \in Cores, NEW l \in Objs, Wait(c, l) PROVE WaitOK'
  BY <1>2 DEF Wait, InThread, WaitOK, Wakes, StatesOK, Executes
<1>3. ASSUME NEW c \in Cores, KillCurrent(c) PROVE WaitOK'
  BY <1>3 DEF KillCurrent, InThread, WaitOK, Wakes, StatesOK, Executes
<1>4. ASSUME NEW c \in Cores, NEW t \in Threads, CreateThread(c, t) PROVE WaitOK'
  BY <1>4 DEF CreateThread, InThread, WaitOK, Wakes, StatesOK, Executes
<1>5. ASSUME NEW c \in Cores, NEW t \in Threads, StartThread(c, t) PROVE WaitOK'
  BY <1>5 DEF StartThread, InThread, WaitOK, Wakes, StatesOK, Executes
<1>6. ASSUME NEW c \in Cores, NEW t \in Threads, Join(c, t) PROVE WaitOK'
  BY <1>6 DEF Join, InThread, WaitOK, Wakes, StatesOK, Executes
<1>7. ASSUME NEW c \in Cores, ListThreads(c) PROVE WaitOK'
  BY <1>7 DEF ListThreads, InThread, WaitOK, Wakes, StatesOK, Executes
<1>8. ASSUME NEW c \in Cores, Sleeps(c) PROVE WaitOK'
  <2>1. PICK t \in Threads, l \in Lists : t = cur[c] /\ l = lst[c] /\ state[t] = "Running"
    BY <1>8 DEF Sleeps, StatesOK, CallsOK, Executes
  <2>2. \A m \in Lists : t \notin Elems(waitQ[m])
    BY <2>1 DEF WaitOK
  <2>3. waitQ[l] \in Seq(Threads) /\ waitQ' = [waitQ EXCEPT ![l] = Append(waitQ[l], t)]
    BY <1>8, <2>1 DEF Sleeps
  <2>4. Elems(waitQ'[l]) = Elems(waitQ[l]) \cup {t} /\ Inj(waitQ'[l])
    BY <2>1, <2>2, <2>3, QueueElems DEF WaitOK
  <2>5. state'[t] = "Waiting" /\ waitOn'[t] = l /\ \A d \in Cores : ~Wakes(d, t)'
    BY <1>8, <2>1 DEF Sleeps, StatesOK, Wakes
  <2>6. ASSUME NEW m \in Lists, NEW u \in Elems(waitQ[m])
        PROVE  state'[u] = "Waiting" /\ waitOn'[u] = m /\ \A d \in Cores : ~Wakes(d, u)'
    <3>1. u \in Threads /\ u # t
      BY <2>2, QueueElems
    <3>2. state[u] = "Waiting" /\ waitOn[u] = m /\ \A d \in Cores : ~Wakes(d, u)
      BY DEF WaitOK
    <3>3. QED
      BY <1>8, <2>1, <3>1, <3>2 DEF Sleeps, Wakes
  <2>7. \A m \in Lists : m # l => waitQ'[m] = waitQ[m] /\ Inj(waitQ[m])
    BY <2>3 DEF WaitOK
  <2>8. QED
    <3>1. \A m \in Lists : \A u \in Elems(waitQ'[m]) : (u = t /\ m = l) \/ u \in Elems(waitQ[m])
      BY <2>4, <2>7
    <3>2. \A m \in Lists : Inj(waitQ'[m])
      BY <2>4, <2>7
    <3>3. ASSUME NEW m \in Lists, NEW u \in Elems(waitQ'[m])
          PROVE  state'[u] = "Waiting" /\ waitOn'[u] = m /\ \A d \in Cores : ~Wakes(d, u)'
      <4>1. CASE u = t /\ m = l
        BY <2>5, <4>1
      <4>2. CASE u \in Elems(waitQ[m])
        BY <2>6, <4>2
      <4>3. QED
        BY <3>1, <4>1, <4>2
    <3>4. QED
      BY <3>2, <3>3 DEF WaitOK
<1>9. ASSUME NEW c \in Cores, Suspends(c, IF state[cur[c]] = "Ready" THEN "enq_p" ELSE "deq")
      PROVE  WaitOK'
  BY <1>9 DEF Suspends, WaitOK, Wakes, StatesOK, Executes
<1>10. ASSUME NEW c \in Cores, LockOldProcess(c) PROVE WaitOK'
  BY <1>10 DEF LockOldProcess, WaitOK, Wakes, StatesOK, Executes
<1>11. ASSUME NEW c \in Cores, QueueOld(c) PROVE WaitOK'
  BY <1>11 DEF QueueOld, WaitOK, Wakes, StatesOK, Executes
<1>12. ASSUME NEW c \in Cores, TakeReady(c, "deq", "disp") PROVE WaitOK'
  BY <1>12 DEF TakeReady, WaitOK, Wakes, StatesOK, Executes
<1>13. ASSUME NEW c \in Cores, TakeReady(c, "idle_deq", "idle_disp") PROVE WaitOK'
  BY <1>13 DEF TakeReady, WaitOK, Wakes, StatesOK, Executes
<1>14. ASSUME NEW c \in Cores, GoIdle(c, "deq", "soft", TRUE) PROVE WaitOK'
  BY <1>14 DEF GoIdle, WaitOK, Wakes, StatesOK, Executes
<1>15. ASSUME NEW c \in Cores, GoIdle(c, "idle_deq", "exec", FALSE) PROVE WaitOK'
  BY <1>15 DEF GoIdle, WaitOK, Wakes, StatesOK, Executes
<1>16. ASSUME NEW c \in Cores, Resumes(c, "disp", "soft", TRUE) PROVE WaitOK'
  BY <1>16 DEF Resumes, WaitOK, Wakes, StatesOK, Executes
<1>17. ASSUME NEW c \in Cores, Resumes(c, "idle_disp", "exec", FALSE) PROVE WaitOK'
  BY <1>17 DEF Resumes, WaitOK, Wakes, StatesOK, Executes
<1>18. ASSUME NEW c \in Cores, IrqHandled(c) PROVE WaitOK'
  BY <1>18 DEF IrqHandled, WaitOK, Wakes, StatesOK, Executes
<1>19. ASSUME NEW c \in Cores, LookForThread(c) PROVE WaitOK'
  BY <1>19 DEF LookForThread, WaitOK, Wakes, StatesOK, Executes
<1>20. ASSUME NEW c \in Cores, ReturnToThread(c) PROVE WaitOK'
  BY <1>20 DEF ReturnToThread, WaitOK, Wakes, StatesOK, Executes
<1>21. ASSUME NEW c \in Cores, NEW l \in Lists, TakeWaiter(c, l) PROVE WaitOK'
  <2> DEFINE t == Head(waitQ[l])
  <2>1. /\ t \in Threads /\ Inj(Tail(waitQ[l]))
        /\ Elems(Tail(waitQ[l])) = Elems(waitQ[l]) \ {t}
    BY <1>21, FirstWaiter DEF TakeWaiter
  <2>2. waitQ' = [waitQ EXCEPT ![l] = Tail(waitQ[l])]
    BY <1>21 DEF TakeWaiter
  <2>3. \A m \in Lists : Inj(waitQ'[m]) /\ Elems(waitQ'[m]) \subseteq Elems(waitQ[m]) \ {t}
    <3>1. \A m \in Lists : m # l => waitQ'[m] = waitQ[m]
      BY <2>2
    <3>2. \A m \in Lists : m # l => Inj(waitQ[m]) /\ t \notin Elems(waitQ[m])
      <4>1. waitOn[t] = l
        BY <1>21, FirstWaiter DEF TakeWaiter
      <4> HIDE DEF t
      <4>2. QED
        BY <4>1 DEF WaitOK
    <3>3. waitQ'[l] = Tail(waitQ[l])
      BY <2>2
    <3> HIDE DEF t
    <3>4. ASSUME NEW m \in Lists
          PROVE  Inj(waitQ'[m]) /\ Elems(waitQ'[m]) \subseteq Elems(waitQ[m]) \ {t}
      <4>1. CASE m = l
        BY <4>1, <2>1, <3>3
      <4>2. CASE m # l
        BY <4>2, <3>1, <3>2
      <4>3. QED
        BY <4>1, <4>2
    <3>5. QED
      BY <3>4
  <2>4. \A d \in Cores, u \in Threads : Wakes(d, u)' => Wakes(d, u) \/ u = t
    BY <1>21 DEF TakeWaiter, Wakes
  <2>5. \A m \in Lists : Elems(waitQ[m]) \subseteq Threads
    BY QueueElems
  <2> HIDE DEF t
  <2>6. ASSUME NEW m \in Lists, NEW u \in Elems(waitQ'[m])
        PROVE  state[u] = "Waiting" /\ waitOn[u] = m /\ \A d \in Cores : ~Wakes(d, u)'
    <3>1. u \in Threads /\ u # t /\ u \in Elems(waitQ[m])
      BY <2>3, <2>5
    <3>2. QED
      BY <2>4, <3>1 DEF WaitOK
  <2>7. UNCHANGED <<state, waitOn>>
    BY <1>21 DEF TakeWaiter
  <2>8. QED
    BY <2>3, <2>6, <2>7 DEF WaitOK
<1>22. ASSUME NEW c \in Cores, FinishDone(c) PROVE WaitOK'
  BY <1>22 DEF FinishDone, WaitOK, Wakes, StatesOK, Executes
<1>23. ASSUME NEW c \in Cores, LoopDone(c) PROVE WaitOK'
  BY <1>23 DEF LoopDone, WaitOK, Wakes, StatesOK, Executes
<1>24. ASSUME NEW c \in Cores, MakeReady(c) PROVE WaitOK'
  BY <1>24 DEF MakeReady, WaitOK, Wakes, StatesOK, Executes
<1>25. ASSUME NEW c \in Cores, QueueWoken(c) PROVE WaitOK'
  <2>1. \A d \in Cores, t \in Threads : Wakes(d, t)' => Wakes(d, t)
    BY <1>25 DEF QueueWoken, Wakes
  <2>2. \A m \in Lists : Elems(waitQ[m]) \subseteq Threads
    BY QueueElems
  <2>3. QED
    BY <1>25, <2>1, <2>2 DEF QueueWoken, WaitOK
<1>26. ASSUME NEW c \in Cores, Dies(c) PROVE WaitOK'
  BY <1>26 DEF Dies, WaitOK, Wakes, StatesOK, Executes
<1>27. ASSUME NEW c \in Cores, FinishJoin(c) PROVE WaitOK'
  BY <1>27 DEF FinishJoin, WaitOK, Wakes, StatesOK, Executes
<1>28. ASSUME NEW c \in Cores, JoinAsFuture(c) PROVE WaitOK'
  BY <1>28 DEF JoinAsFuture, WaitOK, Wakes, StatesOK, Executes
<1>29. ASSUME NEW c \in Cores, JoinDone(c) PROVE WaitOK'
  BY <1>29 DEF JoinDone, WaitOK, Wakes, StatesOK, Executes
<1>30. ASSUME NEW c \in Cores, JoinBlocks(c) PROVE WaitOK'
  BY <1>30 DEF JoinBlocks, WaitOK, Wakes, StatesOK, Executes
<1>31. ASSUME NEW c \in Cores, WaitJoin(c) PROVE WaitOK'
  BY <1>31 DEF WaitJoin, WaitOK, Wakes, StatesOK, Executes
<1>32. ASSUME NEW c \in Cores, ListLockProcess(c) PROVE WaitOK'
  BY <1>32 DEF ListLockProcess, WaitOK, Wakes, StatesOK, Executes
<1>33. ASSUME NEW c \in Cores, PrintOne(c) PROVE WaitOK'
  BY <1>33 DEF PrintOne, WaitOK, Wakes, StatesOK, Executes
<1>34. ASSUME NEW c \in Cores, PrintLast(c) PROVE WaitOK'
  BY <1>34 DEF PrintLast, WaitOK, Wakes, StatesOK, Executes
<1>35. ASSUME NEW c \in Cores, Irq(c) PROVE WaitOK'
  BY <1>35 DEF Irq, WaitOK, Wakes, StatesOK, Executes
<1>36. CASE UNCHANGED vars
  BY <1>36 DEF vars, WaitOK, Wakes, StatesOK, Executes
<1> HIDE DEF TypeOK, NoPanic, SchedInv, PCs, Lists, ThreadStates, threadVars, queueVars,
            coreVars, Goto, Free
<1>37. QED
  BY <1>1, <1>2, <1>3, <1>4, <1>5, <1>6, <1>7, <1>8, <1>9, <1>10, <1>11, <1>12,
     <1>13, <1>14, <1>15, <1>16, <1>17, <1>18, <1>19, <1>20, <1>21, <1>22, <1>23, <1>24, <1>25,
     <1>26, <1>27, <1>28, <1>29, <1>30, <1>31, <1>32, <1>33, <1>34, <1>35, <1>36 DEF Step, StepOf

\* A thread stops running only on its way to save_cpu_state.
LEMMA NextSavedOK ==
    ASSUME SchedInv, Step
    PROVE  SavedOK'
<1> USE SchedAssumption, LockNames
        DEF TypeOK, NoPanic, SchedInv, PCs, Lists, ThreadStates, threadVars, queueVars,
            coreVars, Goto, Free
<1>1. ASSUME NEW c \in Cores, Yields(c) PROVE SavedOK'
  BY <1>1 DEF Yields, SavedOK, StatesOK, Executes
<1>2. ASSUME NEW c \in Cores, NEW l \in Objs, Wait(c, l) PROVE SavedOK'
  BY <1>2 DEF Wait, InThread, SavedOK, StatesOK, Executes
<1>3. ASSUME NEW c \in Cores, KillCurrent(c) PROVE SavedOK'
  BY <1>3 DEF KillCurrent, InThread, SavedOK, StatesOK, Executes
<1>4. ASSUME NEW c \in Cores, NEW t \in Threads, CreateThread(c, t) PROVE SavedOK'
  BY <1>4 DEF CreateThread, InThread, SavedOK, StatesOK, Executes
<1>5. ASSUME NEW c \in Cores, NEW t \in Threads, StartThread(c, t) PROVE SavedOK'
  BY <1>5 DEF StartThread, InThread, SavedOK, StatesOK, Executes
<1>6. ASSUME NEW c \in Cores, NEW t \in Threads, Join(c, t) PROVE SavedOK'
  BY <1>6 DEF Join, InThread, SavedOK, StatesOK, Executes
<1>7. ASSUME NEW c \in Cores, ListThreads(c) PROVE SavedOK'
  BY <1>7 DEF ListThreads, InThread, SavedOK, StatesOK, Executes
<1>8. ASSUME NEW c \in Cores, Sleeps(c) PROVE SavedOK'
  BY <1>8 DEF Sleeps, SavedOK, StatesOK, Executes
<1>9. ASSUME NEW c \in Cores, Suspends(c, IF state[cur[c]] = "Ready" THEN "enq_p" ELSE "deq")
      PROVE  SavedOK'
  BY <1>9 DEF Suspends, SavedOK, StatesOK, Executes
<1>10. ASSUME NEW c \in Cores, LockOldProcess(c) PROVE SavedOK'
  BY <1>10 DEF LockOldProcess, SavedOK, StatesOK, Executes
<1>11. ASSUME NEW c \in Cores, QueueOld(c) PROVE SavedOK'
  BY <1>11 DEF QueueOld, SavedOK, StatesOK, Executes
<1>12. ASSUME NEW c \in Cores, TakeReady(c, "deq", "disp") PROVE SavedOK'
  BY <1>12 DEF TakeReady, SavedOK, StatesOK, Executes
<1>13. ASSUME NEW c \in Cores, TakeReady(c, "idle_deq", "idle_disp") PROVE SavedOK'
  BY <1>13 DEF TakeReady, SavedOK, StatesOK, Executes
<1>14. ASSUME NEW c \in Cores, GoIdle(c, "deq", "soft", TRUE) PROVE SavedOK'
  BY <1>14 DEF GoIdle, SavedOK, StatesOK, Executes
<1>15. ASSUME NEW c \in Cores, GoIdle(c, "idle_deq", "exec", FALSE) PROVE SavedOK'
  BY <1>15 DEF GoIdle, SavedOK, StatesOK, Executes
<1>16. ASSUME NEW c \in Cores, Resumes(c, "disp", "soft", TRUE) PROVE SavedOK'
  BY <1>16 DEF Resumes, SavedOK, StatesOK, Executes
<1>17. ASSUME NEW c \in Cores, Resumes(c, "idle_disp", "exec", FALSE) PROVE SavedOK'
  BY <1>17 DEF Resumes, SavedOK, StatesOK, Executes
<1>18. ASSUME NEW c \in Cores, IrqHandled(c) PROVE SavedOK'
  BY <1>18 DEF IrqHandled, SavedOK, StatesOK, Executes
<1>19. ASSUME NEW c \in Cores, LookForThread(c) PROVE SavedOK'
  BY <1>19 DEF LookForThread, SavedOK, StatesOK, Executes
<1>20. ASSUME NEW c \in Cores, ReturnToThread(c) PROVE SavedOK'
  BY <1>20 DEF ReturnToThread, SavedOK, StatesOK, Executes
<1>21. ASSUME NEW c \in Cores, NEW l \in Lists, TakeWaiter(c, l) PROVE SavedOK'
  BY <1>21 DEF TakeWaiter, SavedOK, StatesOK, Executes
<1>22. ASSUME NEW c \in Cores, FinishDone(c) PROVE SavedOK'
  BY <1>22 DEF FinishDone, SavedOK, StatesOK, Executes
<1>23. ASSUME NEW c \in Cores, LoopDone(c) PROVE SavedOK'
  BY <1>23 DEF LoopDone, SavedOK, StatesOK, Executes
<1>24. ASSUME NEW c \in Cores, MakeReady(c) PROVE SavedOK'
  BY <1>24 DEF MakeReady, SavedOK, StatesOK, Executes
<1>25. ASSUME NEW c \in Cores, QueueWoken(c) PROVE SavedOK'
  BY <1>25 DEF QueueWoken, SavedOK, StatesOK, Executes
<1>26. ASSUME NEW c \in Cores, Dies(c) PROVE SavedOK'
  BY <1>26 DEF Dies, SavedOK, StatesOK, Executes
<1>27. ASSUME NEW c \in Cores, FinishJoin(c) PROVE SavedOK'
  BY <1>27 DEF FinishJoin, SavedOK, StatesOK, Executes
<1>28. ASSUME NEW c \in Cores, JoinAsFuture(c) PROVE SavedOK'
  BY <1>28 DEF JoinAsFuture, SavedOK, StatesOK, Executes
<1>29. ASSUME NEW c \in Cores, JoinDone(c) PROVE SavedOK'
  BY <1>29 DEF JoinDone, SavedOK, StatesOK, Executes
<1>30. ASSUME NEW c \in Cores, JoinBlocks(c) PROVE SavedOK'
  BY <1>30 DEF JoinBlocks, SavedOK, StatesOK, Executes
<1>31. ASSUME NEW c \in Cores, WaitJoin(c) PROVE SavedOK'
  BY <1>31 DEF WaitJoin, SavedOK, StatesOK, Executes
<1>32. ASSUME NEW c \in Cores, ListLockProcess(c) PROVE SavedOK'
  BY <1>32 DEF ListLockProcess, SavedOK, StatesOK, Executes
<1>33. ASSUME NEW c \in Cores, PrintOne(c) PROVE SavedOK'
  BY <1>33 DEF PrintOne, SavedOK, StatesOK, Executes
<1>34. ASSUME NEW c \in Cores, PrintLast(c) PROVE SavedOK'
  BY <1>34 DEF PrintLast, SavedOK, StatesOK, Executes
<1>35. ASSUME NEW c \in Cores, Irq(c) PROVE SavedOK'
  BY <1>35 DEF Irq, SavedOK, StatesOK, Executes
<1>36. CASE UNCHANGED vars
  BY <1>36 DEF vars, SavedOK, StatesOK, Executes
<1> HIDE DEF TypeOK, NoPanic, SchedInv, PCs, Lists, ThreadStates, threadVars, queueVars,
            coreVars, Goto, Free
<1>37. QED
  BY <1>1, <1>2, <1>3, <1>4, <1>5, <1>6, <1>7, <1>8, <1>9, <1>10, <1>11, <1>12,
     <1>13, <1>14, <1>15, <1>16, <1>17, <1>18, <1>19, <1>20, <1>21, <1>22, <1>23, <1>24, <1>25,
     <1>26, <1>27, <1>28, <1>29, <1>30, <1>31, <1>32, <1>33, <1>34, <1>35, <1>36 DEF Step, StepOf

\* Nobody enters the wait list of a resolved future.
LEMMA NextJoinWakeupNotLost ==
    ASSUME SchedInv, Step
    PROVE  JoinWakeupNotLost'
<1> USE SchedAssumption, LockNames
        DEF TypeOK, NoPanic, SchedInv, PCs, Lists, ThreadStates, threadVars, queueVars,
            coreVars, Goto, Free, Owning
<1>1. ASSUME NEW c \in Cores, Yields(c) PROVE JoinWakeupNotLost'
  BY <1>1 DEF Yields, JoinWakeupNotLost
<1>2. ASSUME NEW c \in Cores, NEW l \in Objs, Wait(c, l) PROVE JoinWakeupNotLost'
  BY <1>2 DEF Wait, InThread, JoinWakeupNotLost
<1>3. ASSUME NEW c \in Cores, KillCurrent(c) PROVE JoinWakeupNotLost'
  BY <1>3 DEF KillCurrent, InThread, JoinWakeupNotLost
<1>4. ASSUME NEW c \in Cores, NEW t \in Threads, CreateThread(c, t) PROVE JoinWakeupNotLost'
  BY <1>4 DEF CreateThread, InThread, JoinWakeupNotLost
<1>5. ASSUME NEW c \in Cores, NEW t \in Threads, StartThread(c, t) PROVE JoinWakeupNotLost'
  BY <1>5 DEF StartThread, InThread, JoinWakeupNotLost
<1>6. ASSUME NEW c \in Cores, NEW t \in Threads, Join(c, t) PROVE JoinWakeupNotLost'
  BY <1>6 DEF Join, InThread, JoinWakeupNotLost
<1>7. ASSUME NEW c \in Cores, ListThreads(c) PROVE JoinWakeupNotLost'
  BY <1>7 DEF ListThreads, InThread, JoinWakeupNotLost
<1>8. ASSUME NEW c \in Cores, Sleeps(c) PROVE JoinWakeupNotLost'
  <2>1. \A a \in Threads : waitQ'[a] # waitQ[a] => a = joining[cur[c]]
    BY <1>8 DEF Sleeps, CallsOK
  <2>2. \A a \in Threads : resolved[a] => a # joining[cur[c]]
    BY <1>8 DEF Sleeps, CallsOK
  <2>3. QED
    BY <1>8, <2>1, <2>2 DEF Sleeps, JoinWakeupNotLost
<1>9. ASSUME NEW c \in Cores, Suspends(c, IF state[cur[c]] = "Ready" THEN "enq_p" ELSE "deq")
      PROVE  JoinWakeupNotLost'
  BY <1>9 DEF Suspends, JoinWakeupNotLost
<1>10. ASSUME NEW c \in Cores, LockOldProcess(c) PROVE JoinWakeupNotLost'
  BY <1>10 DEF LockOldProcess, JoinWakeupNotLost
<1>11. ASSUME NEW c \in Cores, QueueOld(c) PROVE JoinWakeupNotLost'
  BY <1>11 DEF QueueOld, JoinWakeupNotLost
<1>12. ASSUME NEW c \in Cores, TakeReady(c, "deq", "disp") PROVE JoinWakeupNotLost'
  BY <1>12 DEF TakeReady, JoinWakeupNotLost
<1>13. ASSUME NEW c \in Cores, TakeReady(c, "idle_deq", "idle_disp")
      PROVE  JoinWakeupNotLost'
  BY <1>13 DEF TakeReady, JoinWakeupNotLost
<1>14. ASSUME NEW c \in Cores, GoIdle(c, "deq", "soft", TRUE) PROVE JoinWakeupNotLost'
  BY <1>14 DEF GoIdle, JoinWakeupNotLost
<1>15. ASSUME NEW c \in Cores, GoIdle(c, "idle_deq", "exec", FALSE) PROVE JoinWakeupNotLost'
  BY <1>15 DEF GoIdle, JoinWakeupNotLost
<1>16. ASSUME NEW c \in Cores, Resumes(c, "disp", "soft", TRUE) PROVE JoinWakeupNotLost'
  BY <1>16 DEF Resumes, JoinWakeupNotLost
<1>17. ASSUME NEW c \in Cores, Resumes(c, "idle_disp", "exec", FALSE)
      PROVE  JoinWakeupNotLost'
  BY <1>17 DEF Resumes, JoinWakeupNotLost
<1>18. ASSUME NEW c \in Cores, IrqHandled(c) PROVE JoinWakeupNotLost'
  BY <1>18 DEF IrqHandled, JoinWakeupNotLost
<1>19. ASSUME NEW c \in Cores, LookForThread(c) PROVE JoinWakeupNotLost'
  BY <1>19 DEF LookForThread, JoinWakeupNotLost
<1>20. ASSUME NEW c \in Cores, ReturnToThread(c) PROVE JoinWakeupNotLost'
  BY <1>20 DEF ReturnToThread, JoinWakeupNotLost
<1>21. ASSUME NEW c \in Cores, NEW l \in Lists, TakeWaiter(c, l) PROVE JoinWakeupNotLost'
  BY <1>21 DEF TakeWaiter, JoinWakeupNotLost
<1>22. ASSUME NEW c \in Cores, FinishDone(c) PROVE JoinWakeupNotLost'
  BY <1>22 DEF FinishDone, JoinWakeupNotLost
<1>23. ASSUME NEW c \in Cores, LoopDone(c) PROVE JoinWakeupNotLost'
  BY <1>23 DEF LoopDone, JoinWakeupNotLost
<1>24. ASSUME NEW c \in Cores, MakeReady(c) PROVE JoinWakeupNotLost'
  BY <1>24 DEF MakeReady, JoinWakeupNotLost
<1>25. ASSUME NEW c \in Cores, QueueWoken(c) PROVE JoinWakeupNotLost'
  BY <1>25 DEF QueueWoken, JoinWakeupNotLost
<1>26. ASSUME NEW c \in Cores, Dies(c) PROVE JoinWakeupNotLost'
  BY <1>26 DEF Dies, JoinWakeupNotLost
<1>27. ASSUME NEW c \in Cores, FinishJoin(c) PROVE JoinWakeupNotLost'
  BY <1>27 DEF FinishJoin, JoinWakeupNotLost
<1>28. ASSUME NEW c \in Cores, JoinAsFuture(c) PROVE JoinWakeupNotLost'
  BY <1>28 DEF JoinAsFuture, JoinWakeupNotLost
<1>29. ASSUME NEW c \in Cores, JoinDone(c) PROVE JoinWakeupNotLost'
  BY <1>29 DEF JoinDone, JoinWakeupNotLost
<1>30. ASSUME NEW c \in Cores, JoinBlocks(c) PROVE JoinWakeupNotLost'
  BY <1>30 DEF JoinBlocks, JoinWakeupNotLost
<1>31. ASSUME NEW c \in Cores, WaitJoin(c) PROVE JoinWakeupNotLost'
  BY <1>31 DEF WaitJoin, JoinWakeupNotLost
<1>32. ASSUME NEW c \in Cores, ListLockProcess(c) PROVE JoinWakeupNotLost'
  BY <1>32 DEF ListLockProcess, JoinWakeupNotLost
<1>33. ASSUME NEW c \in Cores, PrintOne(c) PROVE JoinWakeupNotLost'
  BY <1>33 DEF PrintOne, JoinWakeupNotLost
<1>34. ASSUME NEW c \in Cores, PrintLast(c) PROVE JoinWakeupNotLost'
  BY <1>34 DEF PrintLast, JoinWakeupNotLost
<1>35. ASSUME NEW c \in Cores, Irq(c) PROVE JoinWakeupNotLost'
  BY <1>35 DEF Irq, JoinWakeupNotLost
<1>36. CASE UNCHANGED vars
  BY <1>36 DEF vars, JoinWakeupNotLost
<1> HIDE DEF TypeOK, NoPanic, SchedInv, PCs, Lists, ThreadStates, threadVars, queueVars,
            coreVars, Goto, Free, Owning
<1>37. QED
  BY <1>1, <1>2, <1>3, <1>4, <1>5, <1>6, <1>7, <1>8, <1>9, <1>10, <1>11, <1>12,
     <1>13, <1>14, <1>15, <1>16, <1>17, <1>18, <1>19, <1>20, <1>21, <1>22, <1>23, <1>24, <1>25,
     <1>26, <1>27, <1>28, <1>29, <1>30, <1>31, <1>32, <1>33, <1>34, <1>35, <1>36 DEF Step, StepOf

\* No step loses a running thread,
LEMMA NextRunningSomewhere ==
    ASSUME SchedInv, Step
    PROVE  RunningSomewhere'
<1> USE SchedAssumption, LockNames
        DEF TypeOK, NoPanic, SchedInv, PCs, Lists, ThreadStates, threadVars, queueVars,
            coreVars, Goto, Free
<1>1. ASSUME NEW c \in Cores, Yields(c) PROVE RunningSomewhere'
  <2>1. \A d \in Cores, u \in Threads :
            Executes(d) /\ cur[d] = u /\ state'[u] = "Running" => Executes(d)' /\ cur'[d] = u
    BY <1>1 DEF Yields, Executes, StatesOK
  <2>2. \A u \in Threads :
            state'[u] = "Running" => state[u] = "Running" \/ (Executes(c)' /\ cur'[c] = u)
    BY <1>1 DEF Yields, Executes, StatesOK
  <2>3. QED
    BY <2>1, <2>2 DEF RunningSomewhere
<1>2. ASSUME NEW c \in Cores, NEW l \in Objs, Wait(c, l) PROVE RunningSomewhere'
  BY <1>2 DEF Wait, InThread, RunningSomewhere, StatesOK, Executes
<1>3. ASSUME NEW c \in Cores, KillCurrent(c) PROVE RunningSomewhere'
  BY <1>3 DEF KillCurrent, InThread, RunningSomewhere, StatesOK, Executes
<1>4. ASSUME NEW c \in Cores, NEW t \in Threads, CreateThread(c, t) PROVE RunningSomewhere'
  BY <1>4 DEF CreateThread, InThread, RunningSomewhere, StatesOK, Executes
<1>5. ASSUME NEW c \in Cores, NEW t \in Threads, StartThread(c, t) PROVE RunningSomewhere'
  BY <1>5 DEF StartThread, InThread, RunningSomewhere, StatesOK, Executes
<1>6. ASSUME NEW c \in Cores, NEW t \in Threads, Join(c, t) PROVE RunningSomewhere'
  BY <1>6 DEF Join, InThread, RunningSomewhere, StatesOK, Executes
<1>7. ASSUME NEW c \in Cores, ListThreads(c) PROVE RunningSomewhere'
  BY <1>7 DEF ListThreads, InThread, RunningSomewhere, StatesOK, Executes
<1>8. ASSUME NEW c \in Cores, Sleeps(c) PROVE RunningSomewhere'
  <2>1. \A d \in Cores, u \in Threads :
            Executes(d) /\ cur[d] = u /\ state'[u] = "Running" => Executes(d)' /\ cur'[d] = u
    BY <1>8 DEF Sleeps, Executes, StatesOK
  <2>2. \A u \in Threads :
            state'[u] = "Running" => state[u] = "Running" \/ (Executes(c)' /\ cur'[c] = u)
    BY <1>8 DEF Sleeps, Executes, StatesOK
  <2>3. QED
    BY <2>1, <2>2 DEF RunningSomewhere
<1>9. ASSUME NEW c \in Cores, Suspends(c, IF state[cur[c]] = "Ready" THEN "enq_p" ELSE "deq")
      PROVE  RunningSomewhere'
  <2>1. \A d \in Cores, u \in Threads :
            Executes(d) /\ cur[d] = u /\ state'[u] = "Running" => Executes(d)' /\ cur'[d] = u
    BY <1>9 DEF Suspends, Executes, StatesOK
  <2>2. \A u \in Threads :
            state'[u] = "Running" => state[u] = "Running" \/ (Executes(c)' /\ cur'[c] = u)
    BY <1>9 DEF Suspends, Executes, StatesOK
  <2>3. QED
    BY <2>1, <2>2 DEF RunningSomewhere
<1>10. ASSUME NEW c \in Cores, LockOldProcess(c) PROVE RunningSomewhere'
  <2>1. \A d \in Cores, u \in Threads :
            Executes(d) /\ cur[d] = u /\ state'[u] = "Running" => Executes(d)' /\ cur'[d] = u
    BY <1>10 DEF LockOldProcess, Executes, StatesOK
  <2>2. \A u \in Threads :
            state'[u] = "Running" => state[u] = "Running" \/ (Executes(c)' /\ cur'[c] = u)
    BY <1>10 DEF LockOldProcess, Executes, StatesOK
  <2>3. QED
    BY <2>1, <2>2 DEF RunningSomewhere
<1>11. ASSUME NEW c \in Cores, QueueOld(c) PROVE RunningSomewhere'
  <2>1. \A d \in Cores, u \in Threads :
            Executes(d) /\ cur[d] = u /\ state'[u] = "Running" => Executes(d)' /\ cur'[d] = u
    BY <1>11 DEF QueueOld, Executes, StatesOK
  <2>2. \A u \in Threads :
            state'[u] = "Running" => state[u] = "Running" \/ (Executes(c)' /\ cur'[c] = u)
    BY <1>11 DEF QueueOld, Executes, StatesOK
  <2>3. QED
    BY <2>1, <2>2 DEF RunningSomewhere
<1>12. ASSUME NEW c \in Cores, TakeReady(c, "deq", "disp") PROVE RunningSomewhere'
  <2>1. \A d \in Cores, u \in Threads :
            Executes(d) /\ cur[d] = u /\ state'[u] = "Running" => Executes(d)' /\ cur'[d] = u
    BY <1>12 DEF TakeReady, Executes, StatesOK
  <2>2. \A u \in Threads :
            state'[u] = "Running" => state[u] = "Running" \/ (Executes(c)' /\ cur'[c] = u)
    BY <1>12 DEF TakeReady, Executes, StatesOK
  <2>3. QED
    BY <2>1, <2>2 DEF RunningSomewhere
<1>13. ASSUME NEW c \in Cores, TakeReady(c, "idle_deq", "idle_disp") PROVE RunningSomewhere'
  <2>1. \A d \in Cores, u \in Threads :
            Executes(d) /\ cur[d] = u /\ state'[u] = "Running" => Executes(d)' /\ cur'[d] = u
    BY <1>13 DEF TakeReady, Executes, StatesOK
  <2>2. \A u \in Threads :
            state'[u] = "Running" => state[u] = "Running" \/ (Executes(c)' /\ cur'[c] = u)
    BY <1>13 DEF TakeReady, Executes, StatesOK
  <2>3. QED
    BY <2>1, <2>2 DEF RunningSomewhere
<1>14. ASSUME NEW c \in Cores, GoIdle(c, "deq", "soft", TRUE) PROVE RunningSomewhere'
  BY <1>14 DEF GoIdle, RunningSomewhere, StatesOK, Executes
<1>15. ASSUME NEW c \in Cores, GoIdle(c, "idle_deq", "exec", FALSE) PROVE RunningSomewhere'
  BY <1>15 DEF GoIdle, RunningSomewhere, StatesOK, Executes
<1>16. ASSUME NEW c \in Cores, Resumes(c, "disp", "soft", TRUE) PROVE RunningSomewhere'
  <2>1. \A d \in Cores, u \in Threads :
            Executes(d) /\ cur[d] = u /\ state'[u] = "Running" => Executes(d)' /\ cur'[d] = u
    BY <1>16, InHandAlone DEF Resumes, Executes, StatesOK, Bound, Hand
  <2>2. \A u \in Threads :
            state'[u] = "Running" => state[u] = "Running" \/ (Executes(c)' /\ cur'[c] = u)
    BY <1>16, InHandAlone DEF Resumes, Executes, StatesOK, Bound, Hand
  <2>3. QED
    BY <2>1, <2>2 DEF RunningSomewhere
<1>17. ASSUME NEW c \in Cores, Resumes(c, "idle_disp", "exec", FALSE)
      PROVE  RunningSomewhere'
  <2>1. \A d \in Cores, u \in Threads :
            Executes(d) /\ cur[d] = u /\ state'[u] = "Running" => Executes(d)' /\ cur'[d] = u
    BY <1>17, InHandAlone DEF Resumes, Executes, StatesOK, Bound, Hand
  <2>2. \A u \in Threads :
            state'[u] = "Running" => state[u] = "Running" \/ (Executes(c)' /\ cur'[c] = u)
    BY <1>17, InHandAlone DEF Resumes, Executes, StatesOK, Bound, Hand
  <2>3. QED
    BY <2>1, <2>2 DEF RunningSomewhere
<1>18. ASSUME NEW c \in Cores, IrqHandled(c) PROVE RunningSomewhere'
  BY <1>18 DEF IrqHandled, RunningSomewhere, StatesOK, Executes
<1>19. ASSUME NEW c \in Cores, LookForThread(c) PROVE RunningSomewhere'
  <2>1. \A d \in Cores, u \in Threads :
            Executes(d) /\ cur[d] = u /\ state'[u] = "Running" => Executes(d)' /\ cur'[d] = u
    BY <1>19 DEF LookForThread, Executes, StatesOK
  <2>2. \A u \in Threads :
            state'[u] = "Running" => state[u] = "Running" \/ (Executes(c)' /\ cur'[c] = u)
    BY <1>19 DEF LookForThread, Executes, StatesOK
  <2>3. QED
    BY <2>1, <2>2 DEF RunningSomewhere
<1>20. ASSUME NEW c \in Cores, ReturnToThread(c) PROVE RunningSomewhere'
  BY <1>20 DEF ReturnToThread, RunningSomewhere, StatesOK, Executes
<1>21. ASSUME NEW c \in Cores, NEW l \in Lists, TakeWaiter(c, l) PROVE RunningSomewhere'
  <2>1. \A d \in Cores, u \in Threads :
            Executes(d) /\ cur[d] = u /\ state'[u] = "Running" => Executes(d)' /\ cur'[d] = u
    BY <1>21 DEF TakeWaiter, Executes, StatesOK
  <2>2. \A u \in Threads :
            state'[u] = "Running" => state[u] = "Running" \/ (Executes(c)' /\ cur'[c] = u)
    BY <1>21 DEF TakeWaiter, Executes, StatesOK
  <2>3. QED
    BY <2>1, <2>2 DEF RunningSomewhere
<1>22. ASSUME NEW c \in Cores, FinishDone(c) PROVE RunningSomewhere'
  <2>1. \A d \in Cores, u \in Threads :
            Executes(d) /\ cur[d] = u /\ state'[u] = "Running" => Executes(d)' /\ cur'[d] = u
    BY <1>22 DEF FinishDone, Executes, StatesOK
  <2>2. \A u \in Threads :
            state'[u] = "Running" => state[u] = "Running" \/ (Executes(c)' /\ cur'[c] = u)
    BY <1>22 DEF FinishDone, Executes, StatesOK
  <2>3. QED
    BY <2>1, <2>2 DEF RunningSomewhere
<1>23. ASSUME NEW c \in Cores, LoopDone(c) PROVE RunningSomewhere'
  BY <1>23 DEF LoopDone, RunningSomewhere, StatesOK, Executes
<1>24. ASSUME NEW c \in Cores, MakeReady(c) PROVE RunningSomewhere'
  <2>1. \A d \in Cores, u \in Threads :
            Executes(d) /\ cur[d] = u /\ state'[u] = "Running" => Executes(d)' /\ cur'[d] = u
    BY <1>24 DEF MakeReady, Executes, StatesOK
  <2>2. \A u \in Threads :
            state'[u] = "Running" => state[u] = "Running" \/ (Executes(c)' /\ cur'[c] = u)
    BY <1>24 DEF MakeReady, Executes, StatesOK
  <2>3. QED
    BY <2>1, <2>2 DEF RunningSomewhere
<1>25. ASSUME NEW c \in Cores, QueueWoken(c) PROVE RunningSomewhere'
  <2>1. \A d \in Cores, u \in Threads :
            Executes(d) /\ cur[d] = u /\ state'[u] = "Running" => Executes(d)' /\ cur'[d] = u
    BY <1>25 DEF QueueWoken, Executes, StatesOK
  <2>2. \A u \in Threads :
            state'[u] = "Running" => state[u] = "Running" \/ (Executes(c)' /\ cur'[c] = u)
    BY <1>25 DEF QueueWoken, Executes, StatesOK
  <2>3. QED
    BY <2>1, <2>2 DEF RunningSomewhere
<1>26. ASSUME NEW c \in Cores, Dies(c) PROVE RunningSomewhere'
  <2>1. \A d \in Cores, u \in Threads :
            Executes(d) /\ cur[d] = u /\ state'[u] = "Running" => Executes(d)' /\ cur'[d] = u
    BY <1>26 DEF Dies, Executes, StatesOK
  <2>2. \A u \in Threads :
            state'[u] = "Running" => state[u] = "Running" \/ (Executes(c)' /\ cur'[c] = u)
    BY <1>26 DEF Dies, Executes, StatesOK
  <2>3. QED
    BY <2>1, <2>2 DEF RunningSomewhere
<1>27. ASSUME NEW c \in Cores, FinishJoin(c) PROVE RunningSomewhere'
  <2>1. \A d \in Cores, u \in Threads :
            Executes(d) /\ cur[d] = u /\ state'[u] = "Running" => Executes(d)' /\ cur'[d] = u
    BY <1>27 DEF FinishJoin, Executes, StatesOK
  <2>2. \A u \in Threads :
            state'[u] = "Running" => state[u] = "Running" \/ (Executes(c)' /\ cur'[c] = u)
    BY <1>27 DEF FinishJoin, Executes, StatesOK
  <2>3. QED
    BY <2>1, <2>2 DEF RunningSomewhere
<1>28. ASSUME NEW c \in Cores, JoinAsFuture(c) PROVE RunningSomewhere'
  BY <1>28 DEF JoinAsFuture, RunningSomewhere, StatesOK, Executes
<1>29. ASSUME NEW c \in Cores, JoinDone(c) PROVE RunningSomewhere'
  BY <1>29 DEF JoinDone, RunningSomewhere, StatesOK, Executes
<1>30. ASSUME NEW c \in Cores, JoinBlocks(c) PROVE RunningSomewhere'
  BY <1>30 DEF JoinBlocks, RunningSomewhere, StatesOK, Executes
<1>31. ASSUME NEW c \in Cores, WaitJoin(c) PROVE RunningSomewhere'
  BY <1>31 DEF WaitJoin, RunningSomewhere, StatesOK, Executes
<1>32. ASSUME NEW c \in Cores, ListLockProcess(c) PROVE RunningSomewhere'
  BY <1>32 DEF ListLockProcess, RunningSomewhere, StatesOK, Executes
<1>33. ASSUME NEW c \in Cores, PrintOne(c) PROVE RunningSomewhere'
  BY <1>33 DEF PrintOne, RunningSomewhere, StatesOK, Executes
<1>34. ASSUME NEW c \in Cores, PrintLast(c) PROVE RunningSomewhere'
  BY <1>34 DEF PrintLast, RunningSomewhere, StatesOK, Executes
<1>35. ASSUME NEW c \in Cores, Irq(c) PROVE RunningSomewhere'
  BY <1>35 DEF Irq, RunningSomewhere, StatesOK, Executes
<1>36. CASE UNCHANGED vars
  BY <1>36 DEF vars, RunningSomewhere, StatesOK, Executes
<1> HIDE DEF TypeOK, NoPanic, SchedInv, PCs, Lists, ThreadStates, threadVars, queueVars,
            coreVars, Goto, Free
<1>37. QED
  BY <1>1, <1>2, <1>3, <1>4, <1>5, <1>6, <1>7, <1>8, <1>9, <1>10, <1>11, <1>12,
     <1>13, <1>14, <1>15, <1>16, <1>17, <1>18, <1>19, <1>20, <1>21, <1>22, <1>23, <1>24, <1>25,
     <1>26, <1>27, <1>28, <1>29, <1>30, <1>31, <1>32, <1>33, <1>34, <1>35, <1>36 DEF Step, StepOf

\* a ready one,
LEMMA NextReadySomewhere ==
    ASSUME SchedInv, Step
    PROVE  ReadySomewhere'
<1> USE SchedAssumption, LockNames
        DEF TypeOK, NoPanic, SchedInv, PCs, Lists, ThreadStates, threadVars, queueVars,
            coreVars, Goto, Free
<1>1. ASSUME NEW c \in Cores, Yields(c) PROVE ReadySomewhere'
  <2>1. \A d \in Cores, u \in Threads :
            (Enqueues(d, u) \/ Dispatches(d, u)) /\ state'[u] = "Ready"
            => (Enqueues(d, u) \/ Dispatches(d, u))' \/ u \in Elems(readyQ')
    BY <1>1 DEF Yields, Enqueues, Dispatches, StatesOK
  <2>2. \A u \in Threads : u \in Elems(readyQ) => u \in Elems(readyQ') \/ Dispatches(c, u)'
    BY <1>1 DEF Yields, Dispatches
  <2>3. \A u \in Threads : state'[u] = "Ready" => state[u] = "Ready" \/ Enqueues(c, u)'
    BY <1>1 DEF Yields, Enqueues
  <2>4. QED
    BY <2>1, <2>2, <2>3 DEF ReadySomewhere
<1>2. ASSUME NEW c \in Cores, NEW l \in Objs, Wait(c, l) PROVE ReadySomewhere'
  BY <1>2 DEF Wait, InThread, ReadySomewhere, StatesOK, Enqueues, Dispatches
<1>3. ASSUME NEW c \in Cores, KillCurrent(c) PROVE ReadySomewhere'
  BY <1>3 DEF KillCurrent, InThread, ReadySomewhere, StatesOK, Enqueues, Dispatches
<1>4. ASSUME NEW c \in Cores, NEW t \in Threads, CreateThread(c, t) PROVE ReadySomewhere'
  BY <1>4 DEF CreateThread, InThread, ReadySomewhere, StatesOK, Enqueues, Dispatches
<1>5. ASSUME NEW c \in Cores, NEW t \in Threads, StartThread(c, t) PROVE ReadySomewhere'
  <2>1. \A d \in Cores, u \in Threads :
            (Enqueues(d, u) \/ Dispatches(d, u)) /\ state'[u] = "Ready"
            => (Enqueues(d, u) \/ Dispatches(d, u))' \/ u \in Elems(readyQ')
    BY <1>5 DEF StartThread, Enqueues, Dispatches, StatesOK, InThread
  <2>2. \A u \in Threads : u \in Elems(readyQ) => u \in Elems(readyQ') \/ Dispatches(c, u)'
    BY <1>5 DEF StartThread, Dispatches, InThread
  <2>3. \A u \in Threads : state'[u] = "Ready" => state[u] = "Ready" \/ Enqueues(c, u)'
    BY <1>5 DEF StartThread, Enqueues, InThread
  <2>4. QED
    BY <2>1, <2>2, <2>3 DEF ReadySomewhere
<1>6. ASSUME NEW c \in Cores, NEW t \in Threads, Join(c, t) PROVE ReadySomewhere'
  BY <1>6 DEF Join, InThread, ReadySomewhere, StatesOK, Enqueues, Dispatches
<1>7. ASSUME NEW c \in Cores, ListThreads(c) PROVE ReadySomewhere'
  BY <1>7 DEF ListThreads, InThread, ReadySomewhere, StatesOK, Enqueues, Dispatches
<1>8. ASSUME NEW c \in Cores, Sleeps(c) PROVE ReadySomewhere'
  <2>1. \A d \in Cores, u \in Threads :
            (Enqueues(d, u) \/ Dispatches(d, u)) /\ state'[u] = "Ready"
            => (Enqueues(d, u) \/ Dispatches(d, u))' \/ u \in Elems(readyQ')
    BY <1>8 DEF Sleeps, Enqueues, Dispatches, StatesOK
  <2>2. \A u \in Threads : u \in Elems(readyQ) => u \in Elems(readyQ') \/ Dispatches(c, u)'
    BY <1>8 DEF Sleeps, Dispatches
  <2>3. \A u \in Threads : state'[u] = "Ready" => state[u] = "Ready" \/ Enqueues(c, u)'
    BY <1>8 DEF Sleeps, Enqueues
  <2>4. QED
    BY <2>1, <2>2, <2>3 DEF ReadySomewhere
<1>9. ASSUME NEW c \in Cores, Suspends(c, IF state[cur[c]] = "Ready" THEN "enq_p" ELSE "deq")
      PROVE  ReadySomewhere'
  <2>1. \A d \in Cores, u \in Threads :
            (Enqueues(d, u) \/ Dispatches(d, u)) /\ state'[u] = "Ready"
            => (Enqueues(d, u) \/ Dispatches(d, u))' \/ u \in Elems(readyQ')
    BY <1>9 DEF Suspends, Enqueues, Dispatches, StatesOK
  <2>2. \A u \in Threads : u \in Elems(readyQ) => u \in Elems(readyQ') \/ Dispatches(c, u)'
    BY <1>9 DEF Suspends, Dispatches
  <2>3. \A u \in Threads : state'[u] = "Ready" => state[u] = "Ready" \/ Enqueues(c, u)'
    BY <1>9 DEF Suspends, Enqueues
  <2>4. QED
    BY <2>1, <2>2, <2>3 DEF ReadySomewhere
<1>10. ASSUME NEW c \in Cores, LockOldProcess(c) PROVE ReadySomewhere'
  BY <1>10 DEF LockOldProcess, ReadySomewhere, StatesOK, Enqueues, Dispatches
<1>11. ASSUME NEW c \in Cores, QueueOld(c) PROVE ReadySomewhere'
  <2>1. \A d \in Cores, u \in Threads :
            (Enqueues(d, u) \/ Dispatches(d, u)) /\ state'[u] = "Ready"
            => (Enqueues(d, u) \/ Dispatches(d, u))' \/ u \in Elems(readyQ')
    BY <1>11, QueueElems DEF QueueOld, Enqueues, Dispatches, StatesOK
  <2>2. \A u \in Threads : u \in Elems(readyQ) => u \in Elems(readyQ') \/ Dispatches(c, u)'
    BY <1>11, QueueElems DEF QueueOld, Dispatches
  <2>3. \A u \in Threads : state'[u] = "Ready" => state[u] = "Ready" \/ Enqueues(c, u)'
    BY <1>11, QueueElems DEF QueueOld, Enqueues
  <2>4. QED
    BY <2>1, <2>2, <2>3 DEF ReadySomewhere
<1>12. ASSUME NEW c \in Cores, TakeReady(c, "deq", "disp") PROVE ReadySomewhere'
  <2>1. \A d \in Cores, u \in Threads :
            (Enqueues(d, u) \/ Dispatches(d, u)) /\ state'[u] = "Ready"
            => (Enqueues(d, u) \/ Dispatches(d, u))' \/ u \in Elems(readyQ')
    BY <1>12, FirstReady DEF TakeReady, Enqueues, Dispatches, StatesOK
  <2>2. \A u \in Threads : u \in Elems(readyQ) => u \in Elems(readyQ') \/ Dispatches(c, u)'
    BY <1>12, FirstReady DEF TakeReady, Dispatches
  <2>3. \A u \in Threads : state'[u] = "Ready" => state[u] = "Ready" \/ Enqueues(c, u)'
    BY <1>12, FirstReady DEF TakeReady, Enqueues
  <2>4. QED
    BY <2>1, <2>2, <2>3 DEF ReadySomewhere
<1>13. ASSUME NEW c \in Cores, TakeReady(c, "idle_deq", "idle_disp") PROVE ReadySomewhere'
  <2>1. \A d \in Cores, u \in Threads :
            (Enqueues(d, u) \/ Dispatches(d, u)) /\ state'[u] = "Ready"
            => (Enqueues(d, u) \/ Dispatches(d, u))' \/ u \in Elems(readyQ')
    BY <1>13, FirstReady DEF TakeReady, Enqueues, Dispatches, StatesOK
  <2>2. \A u \in Threads : u \in Elems(readyQ) => u \in Elems(readyQ') \/ Dispatches(c, u)'
    BY <1>13, FirstReady DEF TakeReady, Dispatches
  <2>3. \A u \in Threads : state'[u] = "Ready" => state[u] = "Ready" \/ Enqueues(c, u)'
    BY <1>13, FirstReady DEF TakeReady, Enqueues
  <2>4. QED
    BY <2>1, <2>2, <2>3 DEF ReadySomewhere
<1>14. ASSUME NEW c \in Cores, GoIdle(c, "deq", "soft", TRUE) PROVE ReadySomewhere'
  BY <1>14 DEF GoIdle, ReadySomewhere, StatesOK, Enqueues, Dispatches
<1>15. ASSUME NEW c \in Cores, GoIdle(c, "idle_deq", "exec", FALSE) PROVE ReadySomewhere'
  BY <1>15 DEF GoIdle, ReadySomewhere, StatesOK, Enqueues, Dispatches
<1>16. ASSUME NEW c \in Cores, Resumes(c, "disp", "soft", TRUE) PROVE ReadySomewhere'
  BY <1>16 DEF Resumes, ReadySomewhere, StatesOK, Enqueues, Dispatches
<1>17. ASSUME NEW c \in Cores, Resumes(c, "idle_disp", "exec", FALSE) PROVE ReadySomewhere'
  BY <1>17 DEF Resumes, ReadySomewhere, StatesOK, Enqueues, Dispatches
<1>18. ASSUME NEW c \in Cores, IrqHandled(c) PROVE ReadySomewhere'
  BY <1>18 DEF IrqHandled, ReadySomewhere, StatesOK, Enqueues, Dispatches
<1>19. ASSUME NEW c \in Cores, LookForThread(c) PROVE ReadySomewhere'
  BY <1>19 DEF LookForThread, ReadySomewhere, StatesOK, Enqueues, Dispatches
<1>20. ASSUME NEW c \in Cores, ReturnToThread(c) PROVE ReadySomewhere'
  BY <1>20 DEF ReturnToThread, ReadySomewhere, StatesOK, Enqueues, Dispatches
<1>21. ASSUME NEW c \in Cores, NEW l \in Lists, TakeWaiter(c, l) PROVE ReadySomewhere'
  BY <1>21 DEF TakeWaiter, ReadySomewhere, StatesOK, Enqueues, Dispatches
<1>22. ASSUME NEW c \in Cores, FinishDone(c) PROVE ReadySomewhere'
  BY <1>22 DEF FinishDone, ReadySomewhere, StatesOK, Enqueues, Dispatches
<1>23. ASSUME NEW c \in Cores, LoopDone(c) PROVE ReadySomewhere'
  BY <1>23 DEF LoopDone, ReadySomewhere, StatesOK, Enqueues, Dispatches
<1>24. ASSUME NEW c \in Cores, MakeReady(c) PROVE ReadySomewhere'
  <2>1. \A d \in Cores, u \in Threads :
            (Enqueues(d, u) \/ Dispatches(d, u)) /\ state'[u] = "Ready"
            => (Enqueues(d, u) \/ Dispatches(d, u))' \/ u \in Elems(readyQ')
    BY <1>24 DEF MakeReady, Enqueues, Dispatches, StatesOK
  <2>2. \A u \in Threads : u \in Elems(readyQ) => u \in Elems(readyQ') \/ Dispatches(c, u)'
    BY <1>24 DEF MakeReady, Dispatches
  <2>3. \A u \in Threads : state'[u] = "Ready" => state[u] = "Ready" \/ Enqueues(c, u)'
    BY <1>24 DEF MakeReady, Enqueues
  <2>4. QED
    BY <2>1, <2>2, <2>3 DEF ReadySomewhere
<1>25. ASSUME NEW c \in Cores, QueueWoken(c) PROVE ReadySomewhere'
  <2>1. \A d \in Cores, u \in Threads :
            (Enqueues(d, u) \/ Dispatches(d, u)) /\ state'[u] = "Ready"
            => (Enqueues(d, u) \/ Dispatches(d, u))' \/ u \in Elems(readyQ')
    BY <1>25, QueueElems DEF QueueWoken, Enqueues, Dispatches, StatesOK
  <2>2. \A u \in Threads : u \in Elems(readyQ) => u \in Elems(readyQ') \/ Dispatches(c, u)'
    BY <1>25, QueueElems DEF QueueWoken, Dispatches
  <2>3. \A u \in Threads : state'[u] = "Ready" => state[u] = "Ready" \/ Enqueues(c, u)'
    BY <1>25, QueueElems DEF QueueWoken, Enqueues
  <2>4. QED
    BY <2>1, <2>2, <2>3 DEF ReadySomewhere
<1>26. ASSUME NEW c \in Cores, Dies(c) PROVE ReadySomewhere'
  <2>1. \A d \in Cores, u \in Threads :
            (Enqueues(d, u) \/ Dispatches(d, u)) /\ state'[u] = "Ready"
            => (Enqueues(d, u) \/ Dispatches(d, u))' \/ u \in Elems(readyQ')
    BY <1>26 DEF Dies, Enqueues, Dispatches, StatesOK
  <2>2. \A u \in Threads : u \in Elems(readyQ) => u \in Elems(readyQ') \/ Dispatches(c, u)'
    BY <1>26 DEF Dies, Dispatches
  <2>3. \A u \in Threads : state'[u] = "Ready" => state[u] = "Ready" \/ Enqueues(c, u)'
    BY <1>26 DEF Dies, Enqueues
  <2>4. QED
    BY <2>1, <2>2, <2>3 DEF ReadySomewhere
<1>27. ASSUME NEW c \in Cores, FinishJoin(c) PROVE ReadySomewhere'
  BY <1>27 DEF FinishJoin, ReadySomewhere, StatesOK, Enqueues, Dispatches
<1>28. ASSUME NEW c \in Cores, JoinAsFuture(c) PROVE ReadySomewhere'
  BY <1>28 DEF JoinAsFuture, ReadySomewhere, StatesOK, Enqueues, Dispatches
<1>29. ASSUME NEW c \in Cores, JoinDone(c) PROVE ReadySomewhere'
  BY <1>29 DEF JoinDone, ReadySomewhere, StatesOK, Enqueues, Dispatches
<1>30. ASSUME NEW c \in Cores, JoinBlocks(c) PROVE ReadySomewhere'
  BY <1>30 DEF JoinBlocks, ReadySomewhere, StatesOK, Enqueues, Dispatches
<1>31. ASSUME NEW c \in Cores, WaitJoin(c) PROVE ReadySomewhere'
  BY <1>31 DEF WaitJoin, ReadySomewhere, StatesOK, Enqueues, Dispatches
<1>32. ASSUME NEW c \in Cores, ListLockProcess(c) PROVE ReadySomewhere'
  BY <1>32 DEF ListLockProcess, ReadySomewhere, StatesOK, Enqueues, Dispatches
<1>33. ASSUME NEW c \in Cores, PrintOne(c) PROVE ReadySomewhere'
  BY <1>33 DEF PrintOne, ReadySomewhere, StatesOK, Enqueues, Dispatches
<1>34. ASSUME NEW c \in Cores, PrintLast(c) PROVE ReadySomewhere'
  BY <1>34 DEF PrintLast, ReadySomewhere, StatesOK, Enqueues, Dispatches
<1>35. ASSUME NEW c \in Cores, Irq(c) PROVE ReadySomewhere'
  BY <1>35 DEF Irq, ReadySomewhere, StatesOK, Enqueues, Dispatches
<1>36. CASE UNCHANGED vars
  BY <1>36 DEF vars, ReadySomewhere, StatesOK, Enqueues, Dispatches
<1> HIDE DEF TypeOK, NoPanic, SchedInv, PCs, Lists, ThreadStates, threadVars, queueVars,
            coreVars, Goto, Free
<1>37. QED
  BY <1>1, <1>2, <1>3, <1>4, <1>5, <1>6, <1>7, <1>8, <1>9, <1>10, <1>11, <1>12,
     <1>13, <1>14, <1>15, <1>16, <1>17, <1>18, <1>19, <1>20, <1>21, <1>22, <1>23, <1>24, <1>25,
     <1>26, <1>27, <1>28, <1>29, <1>30, <1>31, <1>32, <1>33, <1>34, <1>35, <1>36 DEF Step, StepOf

\* or a waiting one.
LEMMA NextWaitingSomewhere ==
    ASSUME SchedInv, Step
    PROVE  WaitingSomewhere'
<1> USE SchedAssumption, LockNames
        DEF TypeOK, NoPanic, SchedInv, PCs, Lists, ThreadStates, threadVars, queueVars,
            coreVars, Goto, Free
<1>1. ASSUME NEW c \in Cores, Yields(c) PROVE WaitingSomewhere'
  <2>1. \A d \in Cores, u \in Threads : Wakes(d, u) /\ state'[u] = "Waiting" => Wakes(d, u)'
    BY <1>1 DEF Yields, Wakes, StatesOK
  <2>2. \A u \in Threads, m \in Lists :
            u \in Elems(waitQ[m]) => u \in Elems(waitQ'[m]) \/ Wakes(c, u)'
    BY <1>1 DEF Yields, Wakes
  <2>3. \A u \in Threads : state'[u] = "Waiting" =>
            \/ state[u] = "Waiting" /\ waitOn'[u] = waitOn[u]
            \/ waitOn'[u] \in Lists /\ u \in Elems(waitQ'[waitOn'[u]])
    BY <1>1 DEF Yields, Wakes
  <2>4. QED
    BY <2>1, <2>2, <2>3 DEF WaitingSomewhere
<1>2. ASSUME NEW c \in Cores, NEW l \in Objs, Wait(c, l) PROVE WaitingSomewhere'
  BY <1>2 DEF Wait, InThread, WaitingSomewhere, StatesOK, Wakes
<1>3. ASSUME NEW c \in Cores, KillCurrent(c) PROVE WaitingSomewhere'
  BY <1>3 DEF KillCurrent, InThread, WaitingSomewhere, StatesOK, Wakes
<1>4. ASSUME NEW c \in Cores, NEW t \in Threads, CreateThread(c, t) PROVE WaitingSomewhere'
  <2>1. \A d \in Cores, u \in Threads : Wakes(d, u) /\ state'[u] = "Waiting" => Wakes(d, u)'
    BY <1>4 DEF CreateThread, Wakes, StatesOK, InThread
  <2>2. \A u \in Threads, m \in Lists :
            u \in Elems(waitQ[m]) => u \in Elems(waitQ'[m]) \/ Wakes(c, u)'
    BY <1>4 DEF CreateThread, Wakes, InThread
  <2>3. \A u \in Threads : state'[u] = "Waiting" =>
            \/ state[u] = "Waiting" /\ waitOn'[u] = waitOn[u]
            \/ waitOn'[u] \in Lists /\ u \in Elems(waitQ'[waitOn'[u]])
    BY <1>4 DEF CreateThread, Wakes, InThread
  <2>4. QED
    BY <2>1, <2>2, <2>3 DEF WaitingSomewhere
<1>5. ASSUME NEW c \in Cores, NEW t \in Threads, StartThread(c, t) PROVE WaitingSomewhere'
  <2>1. \A d \in Cores, u \in Threads : Wakes(d, u) /\ state'[u] = "Waiting" => Wakes(d, u)'
    BY <1>5 DEF StartThread, Wakes, StatesOK, InThread
  <2>2. \A u \in Threads, m \in Lists :
            u \in Elems(waitQ[m]) => u \in Elems(waitQ'[m]) \/ Wakes(c, u)'
    BY <1>5 DEF StartThread, Wakes, InThread
  <2>3. \A u \in Threads : state'[u] = "Waiting" =>
            \/ state[u] = "Waiting" /\ waitOn'[u] = waitOn[u]
            \/ waitOn'[u] \in Lists /\ u \in Elems(waitQ'[waitOn'[u]])
    BY <1>5 DEF StartThread, Wakes, InThread
  <2>4. QED
    BY <2>1, <2>2, <2>3 DEF WaitingSomewhere
<1>6. ASSUME NEW c \in Cores, NEW t \in Threads, Join(c, t) PROVE WaitingSomewhere'
  BY <1>6 DEF Join, InThread, WaitingSomewhere, StatesOK, Wakes
<1>7. ASSUME NEW c \in Cores, ListThreads(c) PROVE WaitingSomewhere'
  BY <1>7 DEF ListThreads, InThread, WaitingSomewhere, StatesOK, Wakes
<1>8. ASSUME NEW c \in Cores, Sleeps(c) PROVE WaitingSomewhere'
  <2>1. \A d \in Cores, u \in Threads : Wakes(d, u) /\ state'[u] = "Waiting" => Wakes(d, u)'
    BY <1>8, QueueElems DEF Sleeps, Wakes, StatesOK, CallsOK
  <2>2. \A u \in Threads, m \in Lists :
            u \in Elems(waitQ[m]) => u \in Elems(waitQ'[m]) \/ Wakes(c, u)'
    BY <1>8, QueueElems DEF Sleeps, Wakes, CallsOK
  <2>3. \A u \in Threads : state'[u] = "Waiting" =>
            \/ state[u] = "Waiting" /\ waitOn'[u] = waitOn[u]
            \/ waitOn'[u] \in Lists /\ u \in Elems(waitQ'[waitOn'[u]])
    BY <1>8, QueueElems DEF Sleeps, Wakes, CallsOK
  <2>4. QED
    BY <2>1, <2>2, <2>3 DEF WaitingSomewhere
<1>9. ASSUME NEW c \in Cores, Suspends(c, IF state[cur[c]] = "Ready" THEN "enq_p" ELSE "deq")
      PROVE  WaitingSomewhere'
  BY <1>9 DEF Suspends, WaitingSomewhere, StatesOK, Wakes
<1>10. ASSUME NEW c \in Cores, LockOldProcess(c) PROVE WaitingSomewhere'
  BY <1>10 DEF LockOldProcess, WaitingSomewhere, StatesOK, Wakes
<1>11. ASSUME NEW c \in Cores, QueueOld(c) PROVE WaitingSomewhere'
  BY <1>11 DEF QueueOld, WaitingSomewhere, StatesOK, Wakes
<1>12. ASSUME NEW c \in Cores, TakeReady(c, "deq", "disp") PROVE WaitingSomewhere'
  BY <1>12 DEF TakeReady, WaitingSomewhere, StatesOK, Wakes
<1>13. ASSUME NEW c \in Cores, TakeReady(c, "idle_deq", "idle_disp") PROVE WaitingSomewhere'
  BY <1>13 DEF TakeReady, WaitingSomewhere, StatesOK, Wakes
<1>14. ASSUME NEW c \in Cores, GoIdle(c, "deq", "soft", TRUE) PROVE WaitingSomewhere'
  BY <1>14 DEF GoIdle, WaitingSomewhere, StatesOK, Wakes
<1>15. ASSUME NEW c \in Cores, GoIdle(c, "idle_deq", "exec", FALSE) PROVE WaitingSomewhere'
  BY <1>15 DEF GoIdle, WaitingSomewhere, StatesOK, Wakes
<1>16. ASSUME NEW c \in Cores, Resumes(c, "disp", "soft", TRUE) PROVE WaitingSomewhere'
  <2>1. \A d \in Cores, u \in Threads : Wakes(d, u) /\ state'[u] = "Waiting" => Wakes(d, u)'
    BY <1>16 DEF Resumes, Wakes, StatesOK
  <2>2. \A u \in Threads, m \in Lists :
            u \in Elems(waitQ[m]) => u \in Elems(waitQ'[m]) \/ Wakes(c, u)'
    BY <1>16 DEF Resumes, Wakes
  <2>3. \A u \in Threads : state'[u] = "Waiting" =>
            \/ state[u] = "Waiting" /\ waitOn'[u] = waitOn[u]
            \/ waitOn'[u] \in Lists /\ u \in Elems(waitQ'[waitOn'[u]])
    BY <1>16 DEF Resumes, Wakes
  <2>4. QED
    BY <2>1, <2>2, <2>3 DEF WaitingSomewhere
<1>17. ASSUME NEW c \in Cores, Resumes(c, "idle_disp", "exec", FALSE)
      PROVE  WaitingSomewhere'
  <2>1. \A d \in Cores, u \in Threads : Wakes(d, u) /\ state'[u] = "Waiting" => Wakes(d, u)'
    BY <1>17 DEF Resumes, Wakes, StatesOK
  <2>2. \A u \in Threads, m \in Lists :
            u \in Elems(waitQ[m]) => u \in Elems(waitQ'[m]) \/ Wakes(c, u)'
    BY <1>17 DEF Resumes, Wakes
  <2>3. \A u \in Threads : state'[u] = "Waiting" =>
            \/ state[u] = "Waiting" /\ waitOn'[u] = waitOn[u]
            \/ waitOn'[u] \in Lists /\ u \in Elems(waitQ'[waitOn'[u]])
    BY <1>17 DEF Resumes, Wakes
  <2>4. QED
    BY <2>1, <2>2, <2>3 DEF WaitingSomewhere
<1>18. ASSUME NEW c \in Cores, IrqHandled(c) PROVE WaitingSomewhere'
  BY <1>18 DEF IrqHandled, WaitingSomewhere, StatesOK, Wakes
<1>19. ASSUME NEW c \in Cores, LookForThread(c) PROVE WaitingSomewhere'
  BY <1>19 DEF LookForThread, WaitingSomewhere, StatesOK, Wakes
<1>20. ASSUME NEW c \in Cores, ReturnToThread(c) PROVE WaitingSomewhere'
  BY <1>20 DEF ReturnToThread, WaitingSomewhere, StatesOK, Wakes
<1>21. ASSUME NEW c \in Cores, NEW l \in Lists, TakeWaiter(c, l) PROVE WaitingSomewhere'
  <2>1. \A d \in Cores, u \in Threads : Wakes(d, u) /\ state'[u] = "Waiting" => Wakes(d, u)'
    BY <1>21 DEF TakeWaiter, Wakes, StatesOK
  <2>2. \A u \in Threads, m \in Lists :
            u \in Elems(waitQ[m]) => u \in Elems(waitQ'[m]) \/ Wakes(c, u)'
    <3>1. waitQ'[l] = Tail(waitQ[l]) /\ tgt'[c] = Head(waitQ[l]) /\ pc'[c] = "wake_t"
      BY <1>21 DEF TakeWaiter
    <3>2. \A u \in Threads : u \in Elems(waitQ[l]) => u \in Elems(waitQ'[l]) \/ Wakes(c, u)'
      <4>1. Elems(waitQ'[l]) = Elems(waitQ[l]) \ {Head(waitQ[l])}
        BY <1>21, <3>1, FirstWaiter DEF TakeWaiter
      <4>2. QED
        BY <3>1, <4>1 DEF Wakes
    <3>3. \A m \in Lists : m # l => waitQ'[m] = waitQ[m]
      BY <1>21 DEF TakeWaiter
    <3>4. QED
      BY <3>2, <3>3
  <2>3. \A u \in Threads : state'[u] = "Waiting" =>
            \/ state[u] = "Waiting" /\ waitOn'[u] = waitOn[u]
            \/ waitOn'[u] \in Lists /\ u \in Elems(waitQ'[waitOn'[u]])
    BY <1>21 DEF TakeWaiter, Wakes
  <2>4. QED
    BY <2>1, <2>2, <2>3 DEF WaitingSomewhere
<1>22. ASSUME NEW c \in Cores, FinishDone(c) PROVE WaitingSomewhere'
  BY <1>22 DEF FinishDone, WaitingSomewhere, StatesOK, Wakes
<1>23. ASSUME NEW c \in Cores, LoopDone(c) PROVE WaitingSomewhere'
  <2>1. \A d \in Cores, u \in Threads : Wakes(d, u) /\ state'[u] = "Waiting" => Wakes(d, u)'
    BY <1>23 DEF LoopDone, Wakes, StatesOK
  <2>2. \A u \in Threads, m \in Lists :
            u \in Elems(waitQ[m]) => u \in Elems(waitQ'[m]) \/ Wakes(c, u)'
    BY <1>23 DEF LoopDone, Wakes
  <2>3. \A u \in Threads : state'[u] = "Waiting" =>
            \/ state[u] = "Waiting" /\ waitOn'[u] = waitOn[u]
            \/ waitOn'[u] \in Lists /\ u \in Elems(waitQ'[waitOn'[u]])
    BY <1>23 DEF LoopDone, Wakes
  <2>4. QED
    BY <2>1, <2>2, <2>3 DEF WaitingSomewhere
<1>24. ASSUME NEW c \in Cores, MakeReady(c) PROVE WaitingSomewhere'
  <2>1. \A d \in Cores, u \in Threads : Wakes(d, u) /\ state'[u] = "Waiting" => Wakes(d, u)'
    BY <1>24 DEF MakeReady, Wakes, StatesOK
  <2>2. \A u \in Threads, m \in Lists :
            u \in Elems(waitQ[m]) => u \in Elems(waitQ'[m]) \/ Wakes(c, u)'
    BY <1>24 DEF MakeReady, Wakes
  <2>3. \A u \in Threads : state'[u] = "Waiting" =>
            \/ state[u] = "Waiting" /\ waitOn'[u] = waitOn[u]
            \/ waitOn'[u] \in Lists /\ u \in Elems(waitQ'[waitOn'[u]])
    BY <1>24 DEF MakeReady, Wakes
  <2>4. QED
    BY <2>1, <2>2, <2>3 DEF WaitingSomewhere
<1>25. ASSUME NEW c \in Cores, QueueWoken(c) PROVE WaitingSomewhere'
  BY <1>25 DEF QueueWoken, WaitingSomewhere, StatesOK, Wakes
<1>26. ASSUME NEW c \in Cores, Dies(c) PROVE WaitingSomewhere'
  <2>1. \A d \in Cores, u \in Threads : Wakes(d, u) /\ state'[u] = "Waiting" => Wakes(d, u)'
    BY <1>26 DEF Dies, Wakes, StatesOK
  <2>2. \A u \in Threads, m \in Lists :
            u \in Elems(waitQ[m]) => u \in Elems(waitQ'[m]) \/ Wakes(c, u)'
    BY <1>26 DEF Dies, Wakes
  <2>3. \A u \in Threads : state'[u] = "Waiting" =>
            \/ state[u] = "Waiting" /\ waitOn'[u] = waitOn[u]
            \/ waitOn'[u] \in Lists /\ u \in Elems(waitQ'[waitOn'[u]])
    BY <1>26 DEF Dies, Wakes
  <2>4. QED
    BY <2>1, <2>2, <2>3 DEF WaitingSomewhere
<1>27. ASSUME NEW c \in Cores, FinishJoin(c) PROVE WaitingSomewhere'
  BY <1>27 DEF FinishJoin, WaitingSomewhere, StatesOK, Wakes
<1>28. ASSUME NEW c \in Cores, JoinAsFuture(c) PROVE WaitingSomewhere'
  BY <1>28 DEF JoinAsFuture, WaitingSomewhere, StatesOK, Wakes
<1>29. ASSUME NEW c \in Cores, JoinDone(c) PROVE WaitingSomewhere'
  <2>1. \A d \in Cores, u \in Threads : Wakes(d, u) /\ state'[u] = "Waiting" => Wakes(d, u)'
    BY <1>29 DEF JoinDone, Wakes, StatesOK
  <2>2. \A u \in Threads, m \in Lists :
            u \in Elems(waitQ[m]) => u \in Elems(waitQ'[m]) \/ Wakes(c, u)'
    BY <1>29 DEF JoinDone, Wakes
  <2>3. \A u \in Threads : state'[u] = "Waiting" =>
            \/ state[u] = "Waiting" /\ waitOn'[u] = waitOn[u]
            \/ waitOn'[u] \in Lists /\ u \in Elems(waitQ'[waitOn'[u]])
    BY <1>29 DEF JoinDone, Wakes
  <2>4. QED
    BY <2>1, <2>2, <2>3 DEF WaitingSomewhere
<1>30. ASSUME NEW c \in Cores, JoinBlocks(c) PROVE WaitingSomewhere'
  BY <1>30 DEF JoinBlocks, WaitingSomewhere, StatesOK, Wakes
<1>31. ASSUME NEW c \in Cores, WaitJoin(c) PROVE WaitingSomewhere'
  BY <1>31 DEF WaitJoin, WaitingSomewhere, StatesOK, Wakes
<1>32. ASSUME NEW c \in Cores, ListLockProcess(c) PROVE WaitingSomewhere'
  BY <1>32 DEF ListLockProcess, WaitingSomewhere, StatesOK, Wakes
<1>33. ASSUME NEW c \in Cores, PrintOne(c) PROVE WaitingSomewhere'
  <2>1. \A d \in Cores, u \in Threads : Wakes(d, u) /\ state'[u] = "Waiting" => Wakes(d, u)'
    BY <1>33 DEF PrintOne, Wakes, StatesOK
  <2>2. \A u \in Threads, m \in Lists :
            u \in Elems(waitQ[m]) => u \in Elems(waitQ'[m]) \/ Wakes(c, u)'
    BY <1>33 DEF PrintOne, Wakes
  <2>3. \A u \in Threads : state'[u] = "Waiting" =>
            \/ state[u] = "Waiting" /\ waitOn'[u] = waitOn[u]
            \/ waitOn'[u] \in Lists /\ u \in Elems(waitQ'[waitOn'[u]])
    BY <1>33 DEF PrintOne, Wakes
  <2>4. QED
    BY <2>1, <2>2, <2>3 DEF WaitingSomewhere
<1>34. ASSUME NEW c \in Cores, PrintLast(c) PROVE WaitingSomewhere'
  BY <1>34 DEF PrintLast, WaitingSomewhere, StatesOK, Wakes
<1>35. ASSUME NEW c \in Cores, Irq(c) PROVE WaitingSomewhere'
  BY <1>35 DEF Irq, WaitingSomewhere, StatesOK, Wakes
<1>36. CASE UNCHANGED vars
  <2>1. UNCHANGED <<state, waitOn, waitQ>> /\ \A d \in Cores, u \in Threads : Wakes(d, u)' <=> Wakes(d, u)
    BY <1>36 DEF vars, Wakes
  <2>2. QED
    BY <2>1 DEF WaitingSomewhere
<1> HIDE DEF TypeOK, NoPanic, SchedInv, PCs, Lists, ThreadStates, threadVars, queueVars,
            coreVars, Goto, Free
<1>37. QED
  BY <1>1, <1>2, <1>3, <1>4, <1>5, <1>6, <1>7, <1>8, <1>9, <1>10, <1>11, <1>12,
     <1>13, <1>14, <1>15, <1>16, <1>17, <1>18, <1>19, <1>20, <1>21, <1>22, <1>23, <1>24, <1>25,
     <1>26, <1>27, <1>28, <1>29, <1>30, <1>31, <1>32, <1>33, <1>34, <1>35, <1>36 DEF Step, StepOf

-----------------------------------------------------------------------------
(* The theorems                                                            *)

\* The invariant holds when the kernel process has been made.
LEMMA InitInv == Init => SchedInv
<1> SUFFICES ASSUME Init PROVE SchedInv
  OBVIOUS
<1> USE SchedAssumption, LockNames DEF Init
<1>1. TypeOK
  BY InitType
<1>2. LocksHeld
  BY DEF LocksHeld, ThreadLocksHeld, ListLocksHeld, FutureLocksHeld, GlobalLocksHeld,
         HoldsThread, HoldsList, HoldsFuture, Finishing
<1>3. NoPanic /\ StatesOK /\ CallsOK /\ ContextOK
  BY DEF NoPanic, StatesOK, CallsOK, ContextOK, Executes, Finishing
<1>4. CoresApart
  BY DEF CoresApart, Bound, Hand
<1>5. Elems(readyQ) = {} /\ Inj(readyQ)
  BY DEF Elems, Inj
<1>6. \A l \in Lists : Elems(waitQ[l]) = {} /\ Inj(waitQ[l])
  BY DEF Elems, Inj
<1>7. ReadyOK /\ WaitOK
  BY <1>5, <1>6 DEF ReadyOK, WaitOK
<1>8. RunningSomewhere /\ ReadySomewhere /\ WaitingSomewhere
  BY DEF RunningSomewhere, ReadySomewhere, WaitingSomewhere, Executes
<1>9. SavedOK /\ JoinWakeupNotLost
  BY DEF SavedOK, JoinWakeupNotLost, Lists
<1>10. QED
  BY <1>1, <1>2, <1>3, <1>4, <1>7, <1>8, <1>9 DEF SchedInv

\* Every step keeps it.
LEMMA NextInv == SchedInv /\ [Next]_vars => SchedInv'
<1> SUFFICES ASSUME SchedInv, [Next]_vars PROVE SchedInv'
  OBVIOUS
<1>1. TypeOK' /\ NoPanic'
  BY NextType, NextNoPanic DEF SchedInv
<1>2. Step
  BY <1>1, NextIsStep
<1>3. LocksHeld'
  BY <1>2, NextThreadLocksHeld, NextListLocksHeld, NextFutureLocksHeld, NextGlobalLocksHeld
     DEF LocksHeld
<1>4. StatesOK' /\ CallsOK' /\ ContextOK' /\ CoresApart'
  BY <1>2, NextStatesOK, NextCallsOK, NextContextOK, NextCoresApart
<1>5. ReadyOK' /\ WaitOK' /\ SavedOK' /\ JoinWakeupNotLost'
  BY <1>2, NextReadyOK, NextWaitOK, NextSavedOK, NextJoinWakeupNotLost
<1>6. RunningSomewhere' /\ ReadySomewhere' /\ WaitingSomewhere'
  BY <1>2, NextRunningSomewhere, NextReadySomewhere, NextWaitingSomewhere
<1>7. QED
  BY <1>1, <1>3, <1>4, <1>5, <1>6 DEF SchedInv

\* What the invariant says of running, ready and waiting threads.
LEMMA InvRunning == SchedInv => RunningOnOneCore
<1> SUFFICES ASSUME SchedInv, NEW t \in Threads
             PROVE  LET on == {c \in Cores : Executes(c) /\ cur[c] = t}
                    IN  Unique(on) /\ (state[t] = "Running" <=> on # {})
  BY DEF RunningOnOneCore
<1>1. \A c \in Cores : Executes(c) => Bound(c)
  BY DEF Executes, Bound
<1>2. \A c, d \in Cores : Executes(c) /\ Executes(d) /\ cur[c] = cur[d] => c = d
  BY <1>1 DEF SchedInv, CoresApart
<1>3. state[t] = "Running" => \E c \in Cores : Executes(c) /\ cur[c] = t
  BY DEF SchedInv, RunningSomewhere
<1>4. \A c \in Cores : Executes(c) /\ cur[c] = t => state[t] = "Running"
  BY DEF SchedInv, StatesOK
<1>5. QED
  BY <1>2, <1>3, <1>4 DEF Unique

LEMMA InvReady == SchedInv => ReadyInOnePlace
<1> SUFFICES ASSUME SchedInv, NEW t \in Threads
             PROVE  LET queued == {i \in 1..Len(readyQ) : readyQ[i] = t}
                        hands  == {c \in Cores : Enqueues(c, t) \/ Dispatches(c, t)}
                    IN /\ Unique(queued) /\ Unique(hands)
                       /\ queued = {} \/ hands = {}
                       /\ state[t] = "Ready" <=> queued # {} \/ hands # {}
  BY DEF ReadyInOnePlace
<1> DEFINE queued == {i \in 1..Len(readyQ) : readyQ[i] = t}
           hands  == {c \in Cores : Enqueues(c, t) \/ Dispatches(c, t)}
<1>1. Unique(queued)
  BY DEF SchedInv, ReadyOK, Inj, Unique
<1>2. queued # {} <=> t \in Elems(readyQ)
  BY DEF Elems
<1>3. ASSUME NEW c \in Cores, NEW d \in Cores,
             Enqueues(c, t) \/ Dispatches(c, t), Enqueues(d, t) \/ Dispatches(d, t)
      PROVE  c = d
  <2>1. t # None
    BY SchedAssumption
  <2>2. \/ tgt[c] = t /\ pc[c] \in {"disp", "idle_disp", "wake_p"}
        \/ cur[c] = t /\ pc[c] \in {"suspend", "enq_p", "enq_t"}
    BY <1>3 DEF Enqueues, Dispatches
  <2>3. \/ tgt[d] = t /\ pc[d] \in {"disp", "idle_disp", "wake_p"}
        \/ cur[d] = t /\ pc[d] \in {"suspend", "enq_p", "enq_t"}
    BY <1>3 DEF Enqueues, Dispatches
  <2>4. QED
    BY <2>1, <2>2, <2>3 DEF SchedInv, CoresApart, Bound, Hand
<1>4. \A c \in hands : state[t] = "Ready"
  BY DEF SchedInv, StatesOK, Enqueues, Dispatches
<1>5. t \in Elems(readyQ) => state[t] = "Ready" /\ hands = {}
  BY DEF SchedInv, ReadyOK
<1>6. state[t] = "Ready" => t \in Elems(readyQ) \/ hands # {}
  BY DEF SchedInv, ReadySomewhere
<1>7. Unique(hands)
  BY <1>3 DEF Unique
<1> HIDE DEF queued, hands
<1>8. QED
  BY <1>1, <1>2, <1>4, <1>5, <1>6, <1>7 DEF queued, hands

LEMMA InvWaiters == SchedInv => WaitersOnTheirList
<1> SUFFICES ASSUME SchedInv PROVE WaitersOnTheirList
  OBVIOUS
<1>1. ASSUME NEW l \in Lists, NEW i \in 1..Len(waitQ[l]), NEW j \in 1..Len(waitQ[l])
      PROVE  /\ state[waitQ[l][i]] = "Waiting" /\ waitOn[waitQ[l][i]] = l
             /\ waitQ[l][i] = waitQ[l][j] => i = j
  <2>1. waitQ[l][i] \in Elems(waitQ[l])
    BY DEF Elems
  <2>2. QED
    BY <2>1 DEF SchedInv, WaitOK, Inj
<1>2. ASSUME NEW t \in Threads, state[t] = "Waiting"
      PROVE  LET by == {c \in Cores : Wakes(c, t)}
             IN  Unique(by) /\ (t \in Elems(waitQ[waitOn[t]]) <=> by = {})
  <2>1. Unique({c \in Cores : Wakes(c, t)})
    BY DEF SchedInv, CoresApart, Wakes, Hand, Unique
  <2>2. waitOn[t] \in Lists /\ (t \in Elems(waitQ[waitOn[t]]) \/ \E c \in Cores : Wakes(c, t))
    BY <1>2 DEF SchedInv, WaitingSomewhere
  <2>3. t \in Elems(waitQ[waitOn[t]]) => \A c \in Cores : ~Wakes(c, t)
    BY <2>2 DEF SchedInv, WaitOK
  <2>4. QED
    BY <2>1, <2>2, <2>3
<1>3. QED
  BY <1>1, <1>2 DEF WaitersOnTheirList

\* A ready thread that another core can reach is past save_cpu_state.
LEMMA InvSaved == SchedInv => ResumesSavedState
<1> SUFFICES ASSUME SchedInv, NEW t \in Threads,
                    t \in Elems(readyQ) \/ (\E c \in Cores : Dispatches(c, t))
             PROVE  saved[t]
  BY DEF ResumesSavedState
<1>1. state[t] = "Ready"
  BY DEF SchedInv, ReadyOK, StatesOK, Dispatches
<1>2. \A c \in Cores : ~(pc[c] = "suspend" /\ cur[c] = t)
  BY <1>1 DEF SchedInv, ReadyOK, CoresApart, Enqueues, Dispatches
<1>3. QED
  BY <1>1, <1>2 DEF SchedInv, SavedOK

\* The locks each core holds, the state of the thread it works on, the
\* separation of the cores and the place of every thread, all as SchedInv says,
\* hold throughout.
THEOREM Invariance == Spec => []SchedInv
  BY InitInv, NextInv, PTL DEF Spec

\* No assertion of the scheduler fails, on any number of cores, threads and
\* wait lists: suspend_current finds the thread's own lock and no other held,
\* enqueue_ready_thread a ready thread that is on no queue, try_wake a thread
\* that waits on the list it was taken from.
THEOREM NeverPanics == Spec => []NoPanic
<1>1. SchedInv => NoPanic
  BY DEF SchedInv
<1>2. QED
  BY <1>1, Invariance, PTL

\* Every thread is in one place, whatever the interleaving of the cores.
THEOREM OnePlace == Spec => []ThreadInOnePlace
<1>1. SchedInv => ThreadInOnePlace
  BY InvRunning, InvReady, InvWaiters DEF ThreadInOnePlace
<1>2. QED
  BY <1>1, Invariance, PTL

\* A core resumes a thread only with the registers that were saved for it.
THEOREM SavedBeforeResumed == Spec => []ResumesSavedState
  BY InvSaved, Invariance, PTL

\* No thread sleeps for good on the join future of a dead one.
THEOREM JoinersWoken == Spec => []JoinWakeupNotLost
<1>1. SchedInv => JoinWakeupNotLost
  BY DEF SchedInv
<1>2. QED
  BY <1>1, Invariance, PTL

-----------------------------------------------------------------------------
(* Deadlock                                                                *)

\* The cores of S spin on locks that only they hold.
Stuck(S) ==
    /\ S # {}
    /\ \A c \in S : Wants(c) # {} /\ \A k \in Wants(c) : owner[k] \in S

\* Whoever spins on a thread's lock, in a set of stuck cores, spins on a core
\* that is about to ask for the thread's join future.
LEMMA StuckOnThread ==
    ASSUME SchedInv, Listers = {}, NEW S \in SUBSET Cores, Stuck(S), NEW c \in S,
           pc[c] \in {"enq_t", "kill_t", "wait_t", "disp", "idle_disp", "wake_t"}
    PROVE  LET t == IF pc[c] \in {"enq_t", "kill_t", "wait_t"} THEN cur[c] ELSE tgt[c]
           IN  \E d \in S : pc[d] = "join_f" /\ joining[cur[d]] = t
<1>1. PICK t \in Threads : /\ t = IF pc[c] \in {"enq_t", "kill_t", "wait_t"} THEN cur[c] ELSE tgt[c]
                           /\ Wants(c) = {ThreadLock(t)}
  BY DEF SchedInv, TypeOK, Wants
<1>2. PICK d \in S : owner[ThreadLock(t)] = d
  BY <1>1 DEF Stuck
<1>3. HoldsThread(d, t) /\ pc[d] # "suspend"
  BY <1>2 DEF SchedInv, LocksHeld, ThreadLocksHeld, Stuck, Wants
<1>4. /\ pc[c] \in {"kill_t", "wait_t"} => state[t] = "Running"
      /\ pc[c] \in {"enq_t", "disp", "idle_disp"} => state[t] = "Ready"
      /\ pc[c] = "wake_t" => state[t] = "Waiting"
  <2>1. /\ pc[c] \in {"kill_t", "wait_t"} => state[cur[c]] = "Running"
        /\ pc[c] = "enq_t" => state[cur[c]] = "Ready"
    BY <1>1, SchedAssumption DEF SchedInv, StatesOK, Executes
  <2>2. /\ pc[c] \in {"disp", "idle_disp"} => state[tgt[c]] = "Ready"
        /\ pc[c] = "wake_t" => state[tgt[c]] = "Waiting"
    BY DEF SchedInv, StatesOK
  <2>3. QED
    BY <1>1, <2>1, <2>2
<1>5. ~(cur[d] = t /\ Finishing(d))
  BY <1>4 DEF SchedInv, StatesOK
<1>6. ~(cur[d] = t /\ pc[d] = "wait_l")
  <2>1. ASSUME cur[d] = t, pc[d] = "wait_l" PROVE FALSE
    <3>1. state[t] = "Running" /\ Bound(d)
      BY <2>1, SchedAssumption DEF SchedInv, StatesOK, Executes, Bound
    <3>2. pc[c] \in {"kill_t", "wait_t"} /\ Bound(c) /\ cur[c] = t
      BY <1>1, <1>4, <3>1, SchedAssumption DEF Bound
    <3>3. QED
      BY <2>1, <3>1, <3>2 DEF SchedInv, CoresApart
  <2>2. QED
    BY <2>1
<1>7. ~(tgt[d] = t /\ pc[d] = "wake_p")
  <2>1. ASSUME tgt[d] = t, pc[d] = "wake_p" PROVE FALSE
    <3>1. state[t] = "Ready"
      BY <2>1 DEF SchedInv, StatesOK
    <3>2. pc[c] \in {"enq_t", "disp", "idle_disp"}
      BY <1>4, <3>1
    <3>3. QED
      BY <1>1, <2>1, <3>2 DEF SchedInv, CoresApart, Hand
  <2>2. QED
    BY <2>1
<1>8. pc[d] = "join_f" /\ joining[cur[d]] = t
  BY <1>3, <1>5, <1>6, <1>7 DEF HoldsThread
<1>9. QED
  BY <1>1, <1>8

\* The lock of the process is held only to take the lock of a thread.
LEMMA StuckOnProcess ==
    ASSUME SchedInv, Listers = {}, NEW S \in SUBSET Cores, Stuck(S), NEW c \in S,
           pc[c] \in {"enq_p", "deq", "idle_deq", "wake_p"}
    PROVE  \E d \in S : pc[d] = "join_f"
<1>1. Wants(c) = {ProcessLock}
  BY DEF Wants
<1>2. PICK d \in S : owner[ProcessLock] = d
  BY <1>1 DEF Stuck
<1>3. pc[d] \in {"enq_t", "kill_t"}
  BY <1>2 DEF SchedInv, LocksHeld, GlobalLocksHeld, CallsOK
<1>4. QED
  BY <1>3, StuckOnThread

\* The lock of a wait list is held only to make a thread ready.
LEMMA StuckOnList ==
    ASSUME SchedInv, Listers = {}, NEW S \in SUBSET Cores, Stuck(S), NEW c \in S,
           NEW l \in Lists, Wants(c) = {ListLock(l)}
    PROVE  /\ \E d \in S : pc[d] = "join_f"
           /\ \E d \in S : HoldsList(d, l)
<1>1. PICK d \in S : owner[ListLock(l)] = d
  BY DEF Stuck
<1>2. HoldsList(d, l) /\ pc[d] \in {"wake_t", "wake_p"}
  BY <1>1 DEF SchedInv, LocksHeld, ListLocksHeld, HoldsList
<1>3. QED
  BY <1>2, StuckOnThread, StuckOnProcess

\* Whoever spins on the join future of a thread spins on a core that has
\* found it unresolved and goes to sleep on it.
LEMMA StuckOnFuture ==
    ASSUME SchedInv, Listers = {}, NEW S \in SUBSET Cores, Stuck(S), NEW c \in S,
           NEW a \in Threads, pc[c] \in {"join_f", "finish_f"}, Wants(c) = {FutureLock(a)}
    PROVE  \E d \in S : pc[d] = "wait_t" /\ joining[cur[d]] = a
<1>1. PICK d \in S : owner[FutureLock(a)] = d
  BY DEF Stuck
<1>2. HoldsFuture(d, a)
  BY <1>1 DEF SchedInv, LocksHeld, FutureLocksHeld
<1>3. ~(cur[d] = a /\ Finishing(d) /\ pc[d] # "finish_f")
  <2>1. ASSUME cur[d] = a, Finishing(d), pc[d] # "finish_f" PROVE FALSE
    <3>1. owner[ThreadLock(a)] = d
      BY <2>1 DEF SchedInv, LocksHeld, ThreadLocksHeld, HoldsThread
    <3>2. HoldsThread(c, a)
      <4>1. CASE pc[c] = "join_f"
        BY <4>1, LockNames DEF Wants, HoldsThread
      <4>2. CASE pc[c] = "finish_f"
        BY <4>2, LockNames DEF Wants, HoldsThread, Finishing, SchedInv, TypeOK
      <4>3. QED
        BY <4>1, <4>2
    <3>3. owner[ThreadLock(a)] = c
      BY <3>2 DEF SchedInv, LocksHeld, ThreadLocksHeld
    <3>4. QED
      BY <2>1, <3>1, <3>3 DEF Finishing
  <2>2. QED
    BY <2>1
<1>4. pc[d] \in {"wait_t", "wait_l"} /\ joining[cur[d]] = a
  BY <1>2, <1>3 DEF HoldsFuture
<1>5. ASSUME pc[d] = "wait_l" PROVE FALSE
  <2>1. a # None /\ a \in Lists
    BY SchedAssumption DEF Lists
  <2>2. Wants(d) = {ListLock(a)}
    BY <1>4, <1>5, <2>1 DEF Wants, SchedInv, CallsOK
  <2>3. PICK e \in S : HoldsList(e, a)
    BY <2>1, <2>2, StuckOnList
  <2>4. pc[e] \in {"wake_t", "wake_p"} /\ lst[e] = a /\ from[e] = "finish" /\ cur[e] = a
    BY <2>3 DEF HoldsList, SchedInv, ContextOK
  <2>5. HoldsFuture(e, a)
    BY <2>1, <2>4 DEF HoldsFuture, Finishing
  <2>6. owner[FutureLock(a)] = e
    BY <2>5 DEF SchedInv, LocksHeld, FutureLocksHeld
  <2>7. QED
    BY <1>1, <1>5, <2>4, <2>6
<1>6. QED
  BY <1>4, <1>5

\* Cores that are stuck are so because threads join each other in a circle.
LEMMA StuckCircular ==
    ASSUME SchedInv, Listers = {}, NEW S \in SUBSET Cores, Stuck(S)
    PROVE  CircularJoin
<1>1. ASSUME NEW d \in S, pc[d] = "join_f"
      PROVE  \E e \in S : pc[e] = "wait_t" /\ joining[cur[e]] = joining[cur[d]]
  <2>1. joining[cur[d]] \in Threads
    BY <1>1 DEF SchedInv, TypeOK, CallsOK
  <2>2. Wants(d) = {FutureLock(joining[cur[d]])}
    BY <1>1 DEF Wants
  <2>3. QED
    BY <1>1, <2>1, <2>2, StuckOnFuture
<1>2. \E d \in S : pc[d] = "join_f"
  <2>1. PICK c \in S : Wants(c) # {}
    BY DEF Stuck
  <2>2. pc[c] \in {"enq_t", "kill_t", "wait_t", "disp", "idle_disp", "wake_t", "enq_p", "deq",
                   "idle_deq", "wake_p", "wait_l", "finish", "finish_f", "join_f"}
    BY <2>1 DEF Wants, SchedInv, TypeOK, PCs, CallsOK
  <2>3. CASE pc[c] \in {"enq_t", "kill_t", "wait_t", "disp", "idle_disp", "wake_t"}
    BY <2>3, StuckOnThread
  <2>4. CASE pc[c] \in {"enq_p", "deq", "idle_deq", "wake_p"}
    BY <2>4, StuckOnProcess
  <2>5. CASE pc[c] = "wait_l"
    <3>1. Wants(c) = {ListLock(lst[c])} /\ lst[c] \in Lists
      BY <2>5 DEF Wants, SchedInv, TypeOK, CallsOK
    <3>2. QED
      BY <3>1, StuckOnList
  <2>6. CASE pc[c] = "finish"
    <3>1. Wants(c) = {ListLock(loop[c]["thread"])} /\ loop[c]["thread"] \in Lists
      BY <2>6 DEF Wants, SchedInv, TypeOK
    <3>2. QED
      BY <3>1, StuckOnList
  <2>7. CASE pc[c] = "finish_f"
    <3>1. Wants(c) = {FutureLock(cur[c])} /\ cur[c] \in Threads
      BY <2>7 DEF Wants, SchedInv, TypeOK
    <3>2. PICK d \in S : pc[d] = "wait_t"
      BY <2>7, <3>1, StuckOnFuture
    <3>3. QED
      BY <3>2, StuckOnThread
  <2>8. QED
    BY <2>2, <2>3, <2>4, <2>5, <2>6, <2>7
<1> DEFINE T == {cur[c] : c \in {e \in S : pc[e] = "wait_t"}}
<1>3. T \in (SUBSET Threads) \ {{}}
  <2>1. \A e \in S : pc[e] = "wait_t" => cur[e] \in Threads
    BY DEF SchedInv, TypeOK
  <2>2. \E e \in S : pc[e] = "wait_t"
    BY <1>1, <1>2
  <2>3. QED
    BY <2>1, <2>2
<1>4. ASSUME NEW t \in T PROVE \E u \in T : joining[u] = t
  <2>1. PICK c \in S : pc[c] = "wait_t" /\ cur[c] = t
    OBVIOUS
  <2>2. PICK d \in S : pc[d] = "join_f" /\ joining[cur[d]] = t
    BY <2>1, StuckOnThread
  <2>3. PICK e \in S : pc[e] = "wait_t" /\ joining[cur[e]] = t
    BY <2>2, <1>1
  <2>4. QED
    BY <2>3
<1> HIDE DEF T
<1>5. QED
  BY <1>3, <1>4 DEF CircularJoin

\* The lock order of the scheduler (process, thread, join future, wait list,
\* thread to wake, process) admits no deadlock on any number of cores, as long
\* as nobody runs "proc threads" and threads do not join in a circle.
THEOREM NoDeadlock == Listers = {} => (Spec => []DeadlockFree)
<1> SUFFICES ASSUME Listers = {} PROVE Spec => []DeadlockFree
  OBVIOUS
<1>1. SchedInv => DeadlockFree
  <2>1. ASSUME SchedInv, NEW S \in SUBSET Cores, S # {},
               ~\E c \in S : Wants(c) = {} \/ \E k \in Wants(c) : owner[k] \notin S
        PROVE  CircularJoin
    <3>1. Stuck(S)
      BY <2>1 DEF Stuck
    <3>2. QED
      BY <2>1, <3>1, StuckCircular
  <2>2. QED
    BY <2>1 DEF DeadlockFree
<1>2. QED
  BY <1>1, Invariance, PTL

-----------------------------------------------------------------------------
(* The scheduler implements SchedAbs, for any number of cores, threads and *)
(* wait lists.  Six of its steps are steps of the abstract scheduler: the  *)
(* creation of a thread, the one that puts it on a wait list, the two that *)
(* put one on the ready queue, the one that takes one off it, and death.   *)
(* The others leave the places of the threads as they are: what a core has *)
(* in its hands counts as on the core, or as asleep, until it is queued.   *)

\* While the lock of a wait list is held, the thread taken off it is still
\* asleep for the abstract scheduler.
AsleepByOwner ==
    \A l \in Lists :
        Asleep(l) = IF owner[ListLock(l)] = None THEN waitQ[l]
                    ELSE <<tgt[owner[ListLock(l)]]>> \o waitQ[l]

\* The invariant gives that before a step,
LEMMA InvAsleep == SchedInv => AsleepByOwner
<1> SUFFICES ASSUME SchedInv, NEW l \in Lists
             PROVE  Asleep(l) = IF owner[ListLock(l)] = None THEN waitQ[l]
                                ELSE <<tgt[owner[ListLock(l)]]>> \o waitQ[l]
  BY DEF AsleepByOwner
<1>1. owner[ListLock(l)] \in Cores \cup {None}
  BY LockNames DEF SchedInv, TypeOK
<1>2. \A c \in Cores : c \in Waker(l) <=> owner[ListLock(l)] = c
  BY DEF SchedInv, LocksHeld, ListLocksHeld, HoldsList, Waker
<1>3. CASE owner[ListLock(l)] = None
  <2>1. Waker(l) = {}
    BY <1>2, <1>3, SchedAssumption DEF Waker
  <2>2. QED
    BY <1>3, <2>1 DEF Asleep
<1>4. CASE owner[ListLock(l)] # None
  <2>1. Waker(l) = {owner[ListLock(l)]}
    BY <1>1, <1>2, <1>4 DEF Waker
  <2>2. (CHOOSE c \in Waker(l) : TRUE) = owner[ListLock(l)]
    BY <2>1
  <2>3. QED
    BY <1>4, <2>1, <2>2 DEF Asleep
<1>5. QED
  BY <1>3, <1>4

\* and after it.
LEMMA InvAsleepNext == SchedInv' => AsleepByOwner'
  BY InvAsleep, PTL

\* What the mapping says of one list, before and after a step.
LEMMA AsleepHere ==
    ASSUME SchedInv, SchedInv', NEW m \in Lists
    PROVE  /\ Asleep(m) = IF owner[ListLock(m)] = None THEN waitQ[m]
                          ELSE <<tgt[owner[ListLock(m)]]>> \o waitQ[m]
           /\ Asleep(m)' = IF owner'[ListLock(m)] = None THEN waitQ'[m]
                           ELSE <<tgt'[owner'[ListLock(m)]]>> \o waitQ'[m]
  BY InvAsleep, InvAsleepNext DEF AsleepByOwner

\* The step touches no wait list, no lock of one and no thread taken off one.
KeepsLists ==
    /\ waitQ' = waitQ
    /\ \A l \in Lists : owner'[ListLock(l)] = owner[ListLock(l)]
    /\ \A d \in Cores : pc[d] \in {"wake_t", "wake_p"} => tgt'[d] = tgt[d]

\* With the lists left alone the sleepers are the same.
LEMMA KeepsAsleep ==
    ASSUME SchedInv, SchedInv', KeepsLists
    PROVE  \A l \in Lists : Asleep(l)' = Asleep(l)
<1> SUFFICES ASSUME NEW m \in Lists PROVE Asleep(m)' = Asleep(m)
  OBVIOUS
<1>1. /\ owner[ListLock(m)] \in Cores \cup {None}
      /\ owner[ListLock(m)] \in Cores => pc[owner[ListLock(m)]] \in {"wake_t", "wake_p"}
  BY LockNames DEF SchedInv, TypeOK, LocksHeld, ListLocksHeld, HoldsList
<1>2. QED
  BY <1>1, AsleepHere DEF KeepsLists

\* The steps that the abstract scheduler does not see.
StutterOf(c) ==
    \/ Yields(c)
    \/ \E l \in Objs : Wait(c, l)
    \/ KillCurrent(c)
    \/ \E t \in Threads : StartThread(c, t)
    \/ \E t \in Threads : Join(c, t)
    \/ ListThreads(c)
    \/ Suspends(c, IF state[cur[c]] = "Ready" THEN "enq_p" ELSE "deq")
    \/ LockOldProcess(c)
    \/ GoIdle(c, "deq", "soft", TRUE)
    \/ GoIdle(c, "idle_deq", "exec", FALSE)
    \/ Resumes(c, "disp", "soft", TRUE)
    \/ Resumes(c, "idle_disp", "exec", FALSE)
    \/ IrqHandled(c)
    \/ LookForThread(c)
    \/ ReturnToThread(c)
    \/ \E l \in Lists : TakeWaiter(c, l)
    \/ FinishDone(c)
    \/ LoopDone(c)
    \/ MakeReady(c)
    \/ FinishJoin(c)
    \/ JoinAsFuture(c)
    \/ JoinDone(c)
    \/ JoinBlocks(c)
    \/ WaitJoin(c)
    \/ ListLockProcess(c)
    \/ PrintOne(c)
    \/ PrintLast(c)
    \/ Irq(c)

\* A stuttering step starts no thread and kills none.
LEMMA StutterIdle ==
    ASSUME SchedInv, NEW c \in Cores, StutterOf(c)
    PROVE  Idle' = Idle /\ Dead' = Dead
<1> USE SchedAssumption, LockNames DEF Lists, threadVars, queueVars, coreVars, Goto, Free, TypeOK
<1>1. ASSUME Yields(c) PROVE Idle' = Idle /\ Dead' = Dead
  BY <1>1 DEF Yields, Idle, Dead, StatesOK, SchedInv, Executes
<1>2. ASSUME NEW l \in Objs, Wait(c, l) PROVE Idle' = Idle /\ Dead' = Dead
  BY <1>2 DEF Wait, InThread, Idle, Dead, StatesOK, SchedInv
<1>3. ASSUME KillCurrent(c) PROVE Idle' = Idle /\ Dead' = Dead
  BY <1>3 DEF KillCurrent, InThread, Idle, Dead, StatesOK, SchedInv
<1>4. ASSUME NEW t \in Threads, StartThread(c, t) PROVE Idle' = Idle /\ Dead' = Dead
  BY <1>4 DEF StartThread, InThread, Idle, Dead, StatesOK, SchedInv
<1>5. ASSUME NEW t \in Threads, Join(c, t) PROVE Idle' = Idle /\ Dead' = Dead
  BY <1>5 DEF Join, InThread, Idle, Dead, StatesOK, SchedInv
<1>6. ASSUME ListThreads(c) PROVE Idle' = Idle /\ Dead' = Dead
  BY <1>6 DEF ListThreads, InThread, Idle, Dead, StatesOK, SchedInv
<1>7. ASSUME Suspends(c, IF state[cur[c]] = "Ready" THEN "enq_p" ELSE "deq")
      PROVE  Idle' = Idle /\ Dead' = Dead
  BY <1>7 DEF Suspends, Idle, Dead, StatesOK, SchedInv
<1>8. ASSUME LockOldProcess(c) PROVE Idle' = Idle /\ Dead' = Dead
  BY <1>8 DEF LockOldProcess, Idle, Dead, StatesOK, SchedInv
<1>9. ASSUME GoIdle(c, "deq", "soft", TRUE) PROVE Idle' = Idle /\ Dead' = Dead
  BY <1>9 DEF GoIdle, Idle, Dead, StatesOK, SchedInv
<1>10. ASSUME GoIdle(c, "idle_deq", "exec", FALSE) PROVE Idle' = Idle /\ Dead' = Dead
  BY <1>10 DEF GoIdle, Idle, Dead, StatesOK, SchedInv
<1>11. ASSUME Resumes(c, "disp", "soft", TRUE) PROVE Idle' = Idle /\ Dead' = Dead
  BY <1>11 DEF Resumes, Idle, Dead, StatesOK, SchedInv
<1>12. ASSUME Resumes(c, "idle_disp", "exec", FALSE) PROVE Idle' = Idle /\ Dead' = Dead
  BY <1>12 DEF Resumes, Idle, Dead, StatesOK, SchedInv
<1>13. ASSUME IrqHandled(c) PROVE Idle' = Idle /\ Dead' = Dead
  BY <1>13 DEF IrqHandled, Idle, Dead, StatesOK, SchedInv
<1>14. ASSUME LookForThread(c) PROVE Idle' = Idle /\ Dead' = Dead
  BY <1>14 DEF LookForThread, Idle, Dead, StatesOK, SchedInv
<1>15. ASSUME ReturnToThread(c) PROVE Idle' = Idle /\ Dead' = Dead
  BY <1>15 DEF ReturnToThread, Idle, Dead, StatesOK, SchedInv
<1>16. ASSUME NEW l \in Lists, TakeWaiter(c, l) PROVE Idle' = Idle /\ Dead' = Dead
  BY <1>16 DEF TakeWaiter, Idle, Dead, StatesOK, SchedInv
<1>17. ASSUME FinishDone(c) PROVE Idle' = Idle /\ Dead' = Dead
  BY <1>17 DEF FinishDone, Idle, Dead, StatesOK, SchedInv
<1>18. ASSUME LoopDone(c) PROVE Idle' = Idle /\ Dead' = Dead
  BY <1>18 DEF LoopDone, Idle, Dead, StatesOK, SchedInv
<1>19. ASSUME MakeReady(c) PROVE Idle' = Idle /\ Dead' = Dead
  BY <1>19 DEF MakeReady, Idle, Dead, StatesOK, SchedInv
<1>20. ASSUME FinishJoin(c) PROVE Idle' = Idle /\ Dead' = Dead
  BY <1>20 DEF FinishJoin, Idle, Dead, StatesOK, SchedInv
<1>21. ASSUME JoinAsFuture(c) PROVE Idle' = Idle /\ Dead' = Dead
  BY <1>21 DEF JoinAsFuture, Idle, Dead, StatesOK, SchedInv
<1>22. ASSUME JoinDone(c) PROVE Idle' = Idle /\ Dead' = Dead
  BY <1>22 DEF JoinDone, Idle, Dead, StatesOK, SchedInv
<1>23. ASSUME JoinBlocks(c) PROVE Idle' = Idle /\ Dead' = Dead
  BY <1>23 DEF JoinBlocks, Idle, Dead, StatesOK, SchedInv
<1>24. ASSUME WaitJoin(c) PROVE Idle' = Idle /\ Dead' = Dead
  BY <1>24 DEF WaitJoin, Idle, Dead, StatesOK, SchedInv
<1>25. ASSUME ListLockProcess(c) PROVE Idle' = Idle /\ Dead' = Dead
  BY <1>25 DEF ListLockProcess, Idle, Dead, StatesOK, SchedInv
<1>26. ASSUME PrintOne(c) PROVE Idle' = Idle /\ Dead' = Dead
  BY <1>26 DEF PrintOne, Idle, Dead, StatesOK, SchedInv
<1>27. ASSUME PrintLast(c) PROVE Idle' = Idle /\ Dead' = Dead
  BY <1>27 DEF PrintLast, Idle, Dead, StatesOK, SchedInv
<1>28. ASSUME Irq(c) PROVE Idle' = Idle /\ Dead' = Dead
  BY <1>28 DEF Irq, Idle, Dead, StatesOK, SchedInv
<1> HIDE DEF Lists, threadVars, queueVars, coreVars, Goto, Free, TypeOK
<1>29. QED
  BY <1>1, <1>2, <1>3, <1>4, <1>5, <1>6, <1>7, <1>8, <1>9, <1>10, <1>11, <1>12,
     <1>13, <1>14, <1>15, <1>16, <1>17, <1>18, <1>19, <1>20, <1>21, <1>22, <1>23, <1>24, <1>25,
     <1>26, <1>27, <1>28 DEF StutterOf

\* The thread a core runs for the abstract scheduler, without the state of
\* the other cores.
OnPlace(d) ==
    IF pc[d] \in {"disp", "idle_disp"} THEN tgt[d]
    ELSE IF \/ Executes(d) \/ pc[d] \in {"enq_p", "enq_t"}
            \/ pc[d] = "suspend" /\ state[cur[d]] = "Ready"
    THEN cur[d] ELSE None
OnByPlace == \A d \in Cores : On(d) = OnPlace(d)

\* The two agree before a step,
LEMMA InvOn == SchedInv => OnByPlace
<1> SUFFICES ASSUME SchedInv, NEW d \in Cores
             PROVE  On(d) = OnPlace(d)
  BY DEF OnByPlace
<1>1. ~(tgt[d] = cur[d] /\ pc[d] = "wake_p")
  BY DEF SchedInv, TypeOK, StatesOK, Executes, Finishing
<1>2. QED
  BY <1>1 DEF On, OnPlace, Enqueues

\* and after it.
LEMMA InvOnNext == SchedInv' => OnByPlace'
  BY InvOn, PTL

\* A stuttering step changes no thread that another core suspends: its lock is held.
LEMMA StutterSuspended ==
    ASSUME SchedInv, TypeOK, NEW c \in Cores, StutterOf(c)
    PROVE  \A d \in Cores \ {c} : pc[d] = "suspend" => state'[cur[d]] = state[cur[d]]
<1>0. \A d \in Cores : pc[d] = "suspend" => owner[ThreadLock(cur[d])] = d /\ cur[d] \in Threads
  BY DEF SchedInv, TypeOK, LocksHeld, ThreadLocksHeld, HoldsThread
<1> USE <1>0
<1> USE SchedAssumption, LockNames DEF Lists, threadVars, queueVars, coreVars, Goto, Free, TypeOK
<1>1. ASSUME Yields(c)
      PROVE  \A d \in Cores \ {c} : pc[d] = "suspend" => state'[cur[d]] = state[cur[d]]
  BY <1>1 DEF Yields
<1>2. ASSUME NEW l \in Objs, Wait(c, l)
      PROVE  \A d \in Cores \ {c} : pc[d] = "suspend" => state'[cur[d]] = state[cur[d]]
  BY <1>2 DEF Wait, InThread
<1>3. ASSUME KillCurrent(c)
      PROVE  \A d \in Cores \ {c} : pc[d] = "suspend" => state'[cur[d]] = state[cur[d]]
  BY <1>3 DEF KillCurrent, InThread
<1>4. ASSUME NEW t \in Threads, StartThread(c, t)
      PROVE  \A d \in Cores \ {c} : pc[d] = "suspend" => state'[cur[d]] = state[cur[d]]
  BY <1>4 DEF StartThread, InThread
<1>5. ASSUME NEW t \in Threads, Join(c, t)
      PROVE  \A d \in Cores \ {c} : pc[d] = "suspend" => state'[cur[d]] = state[cur[d]]
  BY <1>5 DEF Join, InThread
<1>6. ASSUME ListThreads(c)
      PROVE  \A d \in Cores \ {c} : pc[d] = "suspend" => state'[cur[d]] = state[cur[d]]
  BY <1>6 DEF ListThreads, InThread
<1>7. ASSUME Suspends(c, IF state[cur[c]] = "Ready" THEN "enq_p" ELSE "deq")
      PROVE  \A d \in Cores \ {c} : pc[d] = "suspend" => state'[cur[d]] = state[cur[d]]
  BY <1>7 DEF Suspends
<1>8. ASSUME LockOldProcess(c)
      PROVE  \A d \in Cores \ {c} : pc[d] = "suspend" => state'[cur[d]] = state[cur[d]]
  BY <1>8 DEF LockOldProcess
<1>9. ASSUME GoIdle(c, "deq", "soft", TRUE)
      PROVE  \A d \in Cores \ {c} : pc[d] = "suspend" => state'[cur[d]] = state[cur[d]]
  BY <1>9 DEF GoIdle
<1>10. ASSUME GoIdle(c, "idle_deq", "exec", FALSE)
      PROVE  \A d \in Cores \ {c} : pc[d] = "suspend" => state'[cur[d]] = state[cur[d]]
  BY <1>10 DEF GoIdle
<1>11. ASSUME Resumes(c, "disp", "soft", TRUE)
      PROVE  \A d \in Cores \ {c} : pc[d] = "suspend" => state'[cur[d]] = state[cur[d]]
  BY <1>11 DEF Resumes
<1>12. ASSUME Resumes(c, "idle_disp", "exec", FALSE)
      PROVE  \A d \in Cores \ {c} : pc[d] = "suspend" => state'[cur[d]] = state[cur[d]]
  BY <1>12 DEF Resumes
<1>13. ASSUME IrqHandled(c)
      PROVE  \A d \in Cores \ {c} : pc[d] = "suspend" => state'[cur[d]] = state[cur[d]]
  BY <1>13 DEF IrqHandled
<1>14. ASSUME LookForThread(c)
      PROVE  \A d \in Cores \ {c} : pc[d] = "suspend" => state'[cur[d]] = state[cur[d]]
  BY <1>14 DEF LookForThread
<1>15. ASSUME ReturnToThread(c)
      PROVE  \A d \in Cores \ {c} : pc[d] = "suspend" => state'[cur[d]] = state[cur[d]]
  BY <1>15 DEF ReturnToThread
<1>16. ASSUME NEW l \in Lists, TakeWaiter(c, l)
      PROVE  \A d \in Cores \ {c} : pc[d] = "suspend" => state'[cur[d]] = state[cur[d]]
  BY <1>16 DEF TakeWaiter
<1>17. ASSUME FinishDone(c)
      PROVE  \A d \in Cores \ {c} : pc[d] = "suspend" => state'[cur[d]] = state[cur[d]]
  BY <1>17 DEF FinishDone
<1>18. ASSUME LoopDone(c)
      PROVE  \A d \in Cores \ {c} : pc[d] = "suspend" => state'[cur[d]] = state[cur[d]]
  BY <1>18 DEF LoopDone
<1>19. ASSUME MakeReady(c)
      PROVE  \A d \in Cores \ {c} : pc[d] = "suspend" => state'[cur[d]] = state[cur[d]]
  BY <1>19 DEF MakeReady
<1>20. ASSUME FinishJoin(c)
      PROVE  \A d \in Cores \ {c} : pc[d] = "suspend" => state'[cur[d]] = state[cur[d]]
  BY <1>20 DEF FinishJoin
<1>21. ASSUME JoinAsFuture(c)
      PROVE  \A d \in Cores \ {c} : pc[d] = "suspend" => state'[cur[d]] = state[cur[d]]
  BY <1>21 DEF JoinAsFuture
<1>22. ASSUME JoinDone(c)
      PROVE  \A d \in Cores \ {c} : pc[d] = "suspend" => state'[cur[d]] = state[cur[d]]
  BY <1>22 DEF JoinDone
<1>23. ASSUME JoinBlocks(c)
      PROVE  \A d \in Cores \ {c} : pc[d] = "suspend" => state'[cur[d]] = state[cur[d]]
  BY <1>23 DEF JoinBlocks
<1>24. ASSUME WaitJoin(c)
      PROVE  \A d \in Cores \ {c} : pc[d] = "suspend" => state'[cur[d]] = state[cur[d]]
  BY <1>24 DEF WaitJoin
<1>25. ASSUME ListLockProcess(c)
      PROVE  \A d \in Cores \ {c} : pc[d] = "suspend" => state'[cur[d]] = state[cur[d]]
  BY <1>25 DEF ListLockProcess
<1>26. ASSUME PrintOne(c)
      PROVE  \A d \in Cores \ {c} : pc[d] = "suspend" => state'[cur[d]] = state[cur[d]]
  BY <1>26 DEF PrintOne
<1>27. ASSUME PrintLast(c)
      PROVE  \A d \in Cores \ {c} : pc[d] = "suspend" => state'[cur[d]] = state[cur[d]]
  BY <1>27 DEF PrintLast
<1>28. ASSUME Irq(c)
      PROVE  \A d \in Cores \ {c} : pc[d] = "suspend" => state'[cur[d]] = state[cur[d]]
  BY <1>28 DEF Irq
<1> HIDE DEF Lists, threadVars, queueVars, coreVars, Goto, Free, TypeOK
<1>29. QED
  BY <1>1, <1>2, <1>3, <1>4, <1>5, <1>6, <1>7, <1>8, <1>9, <1>10, <1>11, <1>12,
     <1>13, <1>14, <1>15, <1>16, <1>17, <1>18, <1>19, <1>20, <1>21, <1>22, <1>23, <1>24, <1>25,
     <1>26, <1>27, <1>28 DEF StutterOf

\* A stuttering step moves no thread onto a core or off one.
LEMMA StutterOnPlace ==
    ASSUME SchedInv, TypeOK, StatesOK, NEW c \in Cores, StutterOf(c)
    PROVE  \A d \in Cores : OnPlace(d)' = OnPlace(d)
<1>0. \A d \in Cores \ {c} : pc[d] = "suspend" => state'[cur[d]] = state[cur[d]]
  BY StutterSuspended
<1> USE <1>0
<1> USE SchedAssumption, LockNames DEF Lists, threadVars, queueVars, coreVars, Goto, Free, TypeOK
<1>1. ASSUME Yields(c) PROVE \A d \in Cores : OnPlace(d)' = OnPlace(d)
  BY <1>1 DEF Yields, OnPlace, Executes, StatesOK, Finishing
<1>2. ASSUME NEW l \in Objs, Wait(c, l) PROVE \A d \in Cores : OnPlace(d)' = OnPlace(d)
  BY <1>2 DEF Wait, InThread, OnPlace, Executes
<1>3. ASSUME KillCurrent(c) PROVE \A d \in Cores : OnPlace(d)' = OnPlace(d)
  BY <1>3 DEF KillCurrent, InThread, OnPlace, Executes
<1>4. ASSUME NEW t \in Threads, StartThread(c, t)
      PROVE  \A d \in Cores : OnPlace(d)' = OnPlace(d)
  BY <1>4 DEF StartThread, InThread, OnPlace, Executes
<1>5. ASSUME NEW t \in Threads, Join(c, t) PROVE \A d \in Cores : OnPlace(d)' = OnPlace(d)
  BY <1>5 DEF Join, InThread, OnPlace, Executes
<1>6. ASSUME ListThreads(c) PROVE \A d \in Cores : OnPlace(d)' = OnPlace(d)
  BY <1>6 DEF ListThreads, InThread, OnPlace, Executes
<1>7. ASSUME Suspends(c, IF state[cur[c]] = "Ready" THEN "enq_p" ELSE "deq")
      PROVE  \A d \in Cores : OnPlace(d)' = OnPlace(d)
  BY <1>7 DEF Suspends, OnPlace, Executes, StatesOK, Finishing
<1>8. ASSUME LockOldProcess(c) PROVE \A d \in Cores : OnPlace(d)' = OnPlace(d)
  BY <1>8 DEF LockOldProcess, OnPlace, Executes
<1>9. ASSUME GoIdle(c, "deq", "soft", TRUE) PROVE \A d \in Cores : OnPlace(d)' = OnPlace(d)
  BY <1>9 DEF GoIdle, OnPlace, Executes
<1>10. ASSUME GoIdle(c, "idle_deq", "exec", FALSE)
      PROVE  \A d \in Cores : OnPlace(d)' = OnPlace(d)
  BY <1>10 DEF GoIdle, OnPlace, Executes
<1>11. ASSUME Resumes(c, "disp", "soft", TRUE)
      PROVE  \A d \in Cores : OnPlace(d)' = OnPlace(d)
  BY <1>11 DEF Resumes, OnPlace, Executes
<1>12. ASSUME Resumes(c, "idle_disp", "exec", FALSE)
      PROVE  \A d \in Cores : OnPlace(d)' = OnPlace(d)
  BY <1>12 DEF Resumes, OnPlace, Executes
<1>13. ASSUME IrqHandled(c) PROVE \A d \in Cores : OnPlace(d)' = OnPlace(d)
  BY <1>13 DEF IrqHandled, OnPlace, Executes
<1>14. ASSUME LookForThread(c) PROVE \A d \in Cores : OnPlace(d)' = OnPlace(d)
  BY <1>14 DEF LookForThread, OnPlace, Executes
<1>15. ASSUME ReturnToThread(c) PROVE \A d \in Cores : OnPlace(d)' = OnPlace(d)
  BY <1>15 DEF ReturnToThread, OnPlace, Executes
<1>16. ASSUME NEW l \in Lists, TakeWaiter(c, l)
      PROVE  \A d \in Cores : OnPlace(d)' = OnPlace(d)
  BY <1>16 DEF TakeWaiter, OnPlace, Executes
<1>17. ASSUME FinishDone(c) PROVE \A d \in Cores : OnPlace(d)' = OnPlace(d)
  BY <1>17 DEF FinishDone, OnPlace, Executes, StatesOK, Finishing
<1>18. ASSUME LoopDone(c) PROVE \A d \in Cores : OnPlace(d)' = OnPlace(d)
  BY <1>18 DEF LoopDone, OnPlace, Executes
<1>19. ASSUME MakeReady(c) PROVE \A d \in Cores : OnPlace(d)' = OnPlace(d)
  BY <1>19 DEF MakeReady, OnPlace, Executes
<1>20. ASSUME FinishJoin(c) PROVE \A d \in Cores : OnPlace(d)' = OnPlace(d)
  BY <1>20 DEF FinishJoin, OnPlace, Executes
<1>21. ASSUME JoinAsFuture(c) PROVE \A d \in Cores : OnPlace(d)' = OnPlace(d)
  BY <1>21 DEF JoinAsFuture, OnPlace, Executes
<1>22. ASSUME JoinDone(c) PROVE \A d \in Cores : OnPlace(d)' = OnPlace(d)
  BY <1>22 DEF JoinDone, OnPlace, Executes
<1>23. ASSUME JoinBlocks(c) PROVE \A d \in Cores : OnPlace(d)' = OnPlace(d)
  BY <1>23 DEF JoinBlocks, OnPlace, Executes
<1>24. ASSUME WaitJoin(c) PROVE \A d \in Cores : OnPlace(d)' = OnPlace(d)
  BY <1>24 DEF WaitJoin, OnPlace, Executes
<1>25. ASSUME ListLockProcess(c) PROVE \A d \in Cores : OnPlace(d)' = OnPlace(d)
  BY <1>25 DEF ListLockProcess, OnPlace, Executes
<1>26. ASSUME PrintOne(c) PROVE \A d \in Cores : OnPlace(d)' = OnPlace(d)
  BY <1>26 DEF PrintOne, OnPlace, Executes
<1>27. ASSUME PrintLast(c) PROVE \A d \in Cores : OnPlace(d)' = OnPlace(d)
  BY <1>27 DEF PrintLast, OnPlace, Executes
<1>28. ASSUME Irq(c) PROVE \A d \in Cores : OnPlace(d)' = OnPlace(d)
  BY <1>28 DEF Irq, OnPlace, Executes
<1> HIDE DEF Lists, threadVars, queueVars, coreVars, Goto, Free, TypeOK
<1>29. QED
  BY <1>1, <1>2, <1>3, <1>4, <1>5, <1>6, <1>7, <1>8, <1>9, <1>10, <1>11, <1>12,
     <1>13, <1>14, <1>15, <1>16, <1>17, <1>18, <1>19, <1>20, <1>21, <1>22, <1>23, <1>24, <1>25,
     <1>26, <1>27, <1>28 DEF StutterOf

\* Those of them that touch no wait list.
KeepOf(c) ==
    \/ Yields(c)
    \/ \E l \in Objs : Wait(c, l)
    \/ KillCurrent(c)
    \/ \E t \in Threads : StartThread(c, t)
    \/ \E t \in Threads : Join(c, t)
    \/ ListThreads(c)
    \/ Suspends(c, IF state[cur[c]] = "Ready" THEN "enq_p" ELSE "deq")
    \/ LockOldProcess(c)
    \/ GoIdle(c, "deq", "soft", TRUE)
    \/ GoIdle(c, "idle_deq", "exec", FALSE)
    \/ Resumes(c, "disp", "soft", TRUE)
    \/ Resumes(c, "idle_disp", "exec", FALSE)
    \/ IrqHandled(c)
    \/ LookForThread(c)
    \/ ReturnToThread(c)
    \/ FinishDone(c)
    \/ LoopDone(c)
    \/ MakeReady(c)
    \/ FinishJoin(c)
    \/ JoinAsFuture(c)
    \/ JoinDone(c)
    \/ JoinBlocks(c)
    \/ WaitJoin(c)
    \/ ListLockProcess(c)
    \/ PrintOne(c)
    \/ PrintLast(c)
    \/ Irq(c)

\* The same for the mapping itself.
LEMMA StutterOn ==
    ASSUME SchedInv, SchedInv', NEW c \in Cores, StutterOf(c)
    PROVE  \A d \in Cores : On(d)' = On(d)
<1> SUFFICES ASSUME NEW d \in Cores PROVE On(d)' = On(d)
  OBVIOUS
<1>1. On(d) = OnPlace(d) /\ On(d)' = OnPlace(d)'
  BY InvOn, InvOnNext DEF OnByPlace
<1>2. TypeOK /\ StatesOK
  BY DEF SchedInv
<1>3. OnPlace(d)' = OnPlace(d)
  BY <1>2, StutterOnPlace
<1>4. QED
  BY <1>1, <1>3

\* These steps leave the wait lists alone.
LEMMA KeepLists ==
    ASSUME TypeOK, NEW c \in Cores, KeepOf(c)
    PROVE  KeepsLists
<1> USE SchedAssumption, LockNames DEF Lists, threadVars, queueVars, coreVars, Goto, Free, TypeOK
<1>1. ASSUME Yields(c) PROVE KeepsLists
  BY <1>1 DEF Yields, Owning, KeepsLists
<1>2. ASSUME NEW l \in Objs, Wait(c, l) PROVE KeepsLists
  BY <1>2 DEF Wait, InThread, Owning, KeepsLists
<1>3. ASSUME KillCurrent(c) PROVE KeepsLists
  BY <1>3 DEF KillCurrent, InThread, Owning, KeepsLists
<1>4. ASSUME NEW t \in Threads, StartThread(c, t) PROVE KeepsLists
  BY <1>4 DEF StartThread, InThread, Owning, KeepsLists
<1>5. ASSUME NEW t \in Threads, Join(c, t) PROVE KeepsLists
  BY <1>5 DEF Join, InThread, Owning, KeepsLists
<1>6. ASSUME ListThreads(c) PROVE KeepsLists
  BY <1>6 DEF ListThreads, InThread, Owning, KeepsLists
<1>7. ASSUME Suspends(c, IF state[cur[c]] = "Ready" THEN "enq_p" ELSE "deq")
      PROVE  KeepsLists
  BY <1>7 DEF Suspends, Owning, KeepsLists
<1>8. ASSUME LockOldProcess(c) PROVE KeepsLists
  BY <1>8 DEF LockOldProcess, Owning, KeepsLists
<1>9. ASSUME GoIdle(c, "deq", "soft", TRUE) PROVE KeepsLists
  BY <1>9 DEF GoIdle, Owning, KeepsLists
<1>10. ASSUME GoIdle(c, "idle_deq", "exec", FALSE) PROVE KeepsLists
  BY <1>10 DEF GoIdle, Owning, KeepsLists
<1>11. ASSUME Resumes(c, "disp", "soft", TRUE) PROVE KeepsLists
  BY <1>11 DEF Resumes, Owning, KeepsLists
<1>12. ASSUME Resumes(c, "idle_disp", "exec", FALSE) PROVE KeepsLists
  BY <1>12 DEF Resumes, Owning, KeepsLists
<1>13. ASSUME IrqHandled(c) PROVE KeepsLists
  BY <1>13 DEF IrqHandled, Owning, KeepsLists
<1>14. ASSUME LookForThread(c) PROVE KeepsLists
  BY <1>14 DEF LookForThread, Owning, KeepsLists
<1>15. ASSUME ReturnToThread(c) PROVE KeepsLists
  BY <1>15 DEF ReturnToThread, Owning, KeepsLists
<1>16. ASSUME FinishDone(c) PROVE KeepsLists
  BY <1>16 DEF FinishDone, Owning, KeepsLists
<1>17. ASSUME LoopDone(c) PROVE KeepsLists
  BY <1>17 DEF LoopDone, Owning, KeepsLists
<1>18. ASSUME MakeReady(c) PROVE KeepsLists
  BY <1>18 DEF MakeReady, Owning, KeepsLists
<1>19. ASSUME FinishJoin(c) PROVE KeepsLists
  BY <1>19 DEF FinishJoin, Owning, KeepsLists
<1>20. ASSUME JoinAsFuture(c) PROVE KeepsLists
  BY <1>20 DEF JoinAsFuture, Owning, KeepsLists
<1>21. ASSUME JoinDone(c) PROVE KeepsLists
  BY <1>21 DEF JoinDone, Owning, KeepsLists
<1>22. ASSUME JoinBlocks(c) PROVE KeepsLists
  BY <1>22 DEF JoinBlocks, Owning, KeepsLists
<1>23. ASSUME WaitJoin(c) PROVE KeepsLists
  BY <1>23 DEF WaitJoin, Owning, KeepsLists
<1>24. ASSUME ListLockProcess(c) PROVE KeepsLists
  BY <1>24 DEF ListLockProcess, Owning, KeepsLists
<1>25. ASSUME PrintOne(c) PROVE KeepsLists
  BY <1>25 DEF PrintOne, Owning, KeepsLists
<1>26. ASSUME PrintLast(c) PROVE KeepsLists
  BY <1>26 DEF PrintLast, Owning, KeepsLists
<1>27. ASSUME Irq(c) PROVE KeepsLists
  BY <1>27 DEF Irq, Owning, KeepsLists
<1> HIDE DEF Lists, threadVars, queueVars, coreVars, Goto, Free, TypeOK
<1>28. QED
  BY <1>1, <1>2, <1>3, <1>4, <1>5, <1>6, <1>7, <1>8, <1>9, <1>10, <1>11, <1>12,
     <1>13, <1>14, <1>15, <1>16, <1>17, <1>18, <1>19, <1>20, <1>21, <1>22, <1>23, <1>24, <1>25,
     <1>26, <1>27 DEF KeepOf

\* A stuttering step wakes nobody: a thread taken off its list still counts.
LEMMA StutterAsleep ==
    ASSUME SchedInv, SchedInv', NEW c \in Cores, StutterOf(c)
    PROVE  \A l \in Lists : Asleep(l)' = Asleep(l)
<1> SUFFICES ASSUME NEW m \in Lists PROVE Asleep(m)' = Asleep(m)
  OBVIOUS
<1>1. /\ owner[ListLock(m)] \in Cores \cup {None}
      /\ owner[ListLock(m)] \in Cores => pc[owner[ListLock(m)]] \in {"wake_t", "wake_p"}
  BY LockNames DEF SchedInv, TypeOK, LocksHeld, ListLocksHeld, HoldsList
<1>2. TypeOK
  BY DEF SchedInv
<1>3. CASE KeepOf(c)
  BY <1>2, <1>3, KeepLists, KeepsAsleep
<1>4. ASSUME NEW l \in Lists, TakeWaiter(c, l) PROVE Asleep(m)' = Asleep(m)
  <2>1. waitQ[l] \in Seq(Threads) /\ waitQ[l] # <<>> /\ owner[ListLock(l)] = None
    BY <1>2, <1>4 DEF TypeOK, TakeWaiter, Free
  <2>2. /\ waitQ' = [waitQ EXCEPT ![l] = Tail(@)]
        /\ tgt' = [tgt EXCEPT ![c] = Head(waitQ[l])]
        /\ owner' = Owning(c, {ListLock(l)}, {})
        /\ pc[c] \notin {"wake_t", "wake_p"}
    BY <1>4 DEF TakeWaiter
  <2>3. CASE m = l
    <3>1. owner'[ListLock(l)] = c /\ c # None
      BY <2>2, LockNames, SchedAssumption DEF Owning
    <3>2. tgt'[c] = Head(waitQ[l]) /\ waitQ'[l] = Tail(waitQ[l])
      BY <2>2, <1>2 DEF TypeOK
    <3>3. <<Head(waitQ[l])>> \o Tail(waitQ[l]) = waitQ[l]
      BY <2>1
    <3>4. QED
      BY <2>1, <2>3, <3>1, <3>2, <3>3, AsleepHere
  <2>4. CASE m # l
    <3>1. owner'[ListLock(m)] = owner[ListLock(m)] /\ waitQ'[m] = waitQ[m]
      BY <2>2, <2>4, <1>2, LockNames DEF Owning, TypeOK
    <3>2. owner[ListLock(m)] \in Cores => tgt'[owner[ListLock(m)]] = tgt[owner[ListLock(m)]]
      BY <2>2, <1>1, <1>2 DEF TypeOK
    <3>3. QED
      BY <1>1, <3>1, <3>2, AsleepHere
  <2>5. QED
    BY <2>3, <2>4
<1>5. QED
  BY <1>3, <1>4 DEF StutterOf, KeepOf

\* The mapping of cores when one core changes.
LEMMA OnFun ==
    ASSUME NEW c \in Cores, NEW v,
           \A d \in Cores \ {c} : On(d)' = On(d), On(c)' = v
    PROVE  [d \in Cores |-> On(d)]' = [[d \in Cores |-> On(d)] EXCEPT ![c] = v]
<1>1. \A d \in Cores : On(d)' = IF d = c THEN v ELSE On(d)
  OBVIOUS
<1>2. QED
  BY <1>1

\* The mapping of cores when no core changes.
LEMMA OnFunSame ==
    ASSUME \A d \in Cores : On(d)' = On(d)
    PROVE  [d \in Cores |-> On(d)]' = [d \in Cores |-> On(d)]
  OBVIOUS

\* The mapping of lists when one list changes.
LEMMA AsleepFun ==
    ASSUME NEW l \in Lists, NEW v,
           \A m \in Lists \ {l} : Asleep(m)' = Asleep(m), Asleep(l)' = v
    PROVE  [m \in Lists |-> Asleep(m)]' = [[m \in Lists |-> Asleep(m)] EXCEPT ![l] = v]
<1>1. \A m \in Lists : Asleep(m)' = IF m = l THEN v ELSE Asleep(m)
  OBVIOUS
<1>2. QED
  BY <1>1

\* The mapping of lists when none does.
LEMMA AsleepFunSame ==
    ASSUME \A l \in Lists : Asleep(l)' = Asleep(l)
    PROVE  [l \in Lists |-> Asleep(l)]' = [l \in Lists |-> Asleep(l)]
  OBVIOUS

\* What the mapping says of one core, before and after a step.
LEMMA OnHere ==
    ASSUME SchedInv, SchedInv', NEW c \in Cores
    PROVE  On(c) = OnPlace(c) /\ On(c)' = OnPlace(c)'
  BY InvOn, InvOnNext DEF OnByPlace

\* A stuttering step leaves the ready queue alone.
LEMMA StepReady ==
    ASSUME NEW c \in Cores, StutterOf(c)
    PROVE  readyQ' = readyQ
  BY DEF StutterOf, FinishDone, FinishJoin, GoIdle, Irq, IrqHandled, Join, JoinAsFuture,
         JoinBlocks, JoinDone, KillCurrent, ListLockProcess, ListThreads, LockOldProcess,
         LookForThread, LoopDone, MakeReady, PrintLast, PrintOne, Resumes, ReturnToThread,
         StartThread, Suspends, TakeWaiter, Wait, WaitJoin, Yields, threadVars, queueVars,
         coreVars

\* A step that does nothing to the queues and places of threads is no step of
\* the abstract scheduler.
LEMMA Stutters ==
    ASSUME SchedInv, SchedInv', NEW c \in Cores, StutterOf(c)
    PROVE  UNCHANGED Abs!vars
<1>1. Idle' = Idle /\ Dead' = Dead
  BY StutterIdle
<1>2. [d \in Cores |-> On(d)]' = [d \in Cores |-> On(d)]
  BY StutterOn, OnFunSame
<1>3. [l \in Lists |-> Asleep(l)]' = [l \in Lists |-> Asleep(l)]
  BY StutterAsleep, AsleepFunSame
<1>4. readyQ' = readyQ
  BY StepReady
<1>5. QED
  BY <1>1, <1>2, <1>3, <1>4 DEF Abs!vars

\* A step of core c leaves the place of every other core's thread alone.
LEMMA OthersOn ==
    ASSUME SchedInv, SchedInv', NEW c \in Cores,
           \A d \in Cores \ {c} : /\ pc'[d] = pc[d] /\ cur'[d] = cur[d]
                                  /\ tgt'[d] = tgt[d] /\ from'[d] = from[d]
                                  /\ pc[d] = "suspend" => state'[cur[d]] = state[cur[d]]
    PROVE  \A d \in Cores \ {c} : On(d)' = On(d)
<1> SUFFICES ASSUME NEW d \in Cores \ {c} PROVE On(d)' = On(d)
  OBVIOUS
<1>1. On(d) = OnPlace(d) /\ On(d)' = OnPlace(d)'
  BY InvOn, InvOnNext DEF OnByPlace
<1>2. OnPlace(d)' = OnPlace(d)
  BY DEF OnPlace, Executes
<1>3. QED
  BY <1>1, <1>2

\* In which states the threads at the places of the abstract scheduler are.
LEMMA PlaceStates ==
    ASSUME SchedInv, NEW t \in Threads, Abs!Somewhere(t)
    PROVE  state[t] # "New"
<1>1. CASE t \in Idle \cup Dead
  BY <1>1 DEF SchedInv, TypeOK, StatesOK, Idle, Dead
<1>2. ASSUME NEW d \in Cores, [e \in Cores |-> On(e)][d] = t PROVE state[t] # "New"
  <2>1. On(d) = OnPlace(d) /\ On(d) = t
    BY <1>2, InvOn DEF OnByPlace
  <2>2. QED
    BY <2>1, SchedAssumption DEF SchedInv, TypeOK, StatesOK, OnPlace, Executes
<1>3. ASSUME NEW i \in 1..Len(readyQ), readyQ[i] = t PROVE state[t] # "New"
  BY <1>3 DEF SchedInv, ReadyOK, Elems
<1>4. ASSUME NEW l \in Lists, NEW i \in 1..Len(Asleep(l)), Asleep(l)[i] = t
      PROVE  state[t] # "New"
  <2>1. waitQ[l] \in Seq(Threads)
    BY DEF SchedInv, TypeOK
  <2>2. \A j \in 1..Len(waitQ[l]) : state[waitQ[l][j]] = "Waiting"
    BY DEF SchedInv, WaitOK, Elems
  <2>3. CASE owner[ListLock(l)] = None
    <3>1. Asleep(l) = waitQ[l]
      BY <2>3, InvAsleep DEF AsleepByOwner
    <3>2. QED
      BY <1>4, <2>2, <3>1
  <2>4. CASE owner[ListLock(l)] # None
    <3> DEFINE o == owner[ListLock(l)]
    <3>1. Asleep(l) = <<tgt[o]>> \o waitQ[l]
      BY <2>4, InvAsleep DEF AsleepByOwner
    <3>2. o \in Cores /\ pc[o] \in {"wake_t", "wake_p"}
      BY <2>4, LockNames DEF SchedInv, TypeOK, LocksHeld, ListLocksHeld, HoldsList
    <3>3. state[tgt[o]] \in {"Waiting", "Ready"} /\ tgt[o] \in Threads
      BY <3>2 DEF SchedInv, TypeOK, StatesOK
    <3> HIDE DEF o
    <3>4. i = 1 \/ (i - 1 \in 1..Len(waitQ[l]))
      BY <1>4, <2>1, <3>1, <3>3
    <3>5. /\ (<<tgt[o]>> \o waitQ[l])[1] = tgt[o]
          /\ \A j \in 1..Len(waitQ[l]) : (<<tgt[o]>> \o waitQ[l])[j+1] = waitQ[l][j]
      BY <2>1, <3>3
    <3>6. CASE i = 1
      BY <1>4, <3>1, <3>3, <3>5, <3>6
    <3>7. CASE i - 1 \in 1..Len(waitQ[l])
      <4>1. (<<tgt[o]>> \o waitQ[l])[i] = waitQ[l][i-1]
        BY <3>5, <3>7
      <4>2. QED
        BY <1>4, <2>2, <3>1, <3>7, <4>1
    <3>8. QED
      BY <3>4, <3>6, <3>7
  <2>5. QED
    BY <2>3, <2>4
<1>5. QED
  BY <1>1, <1>2, <1>3, <1>4 DEF Abs!Somewhere

\* create_kernel_thread is Create.
LEMMA CreateStep ==
    ASSUME SchedInv, SchedInv', NEW c \in Cores, NEW t \in Threads, CreateThread(c, t)
    PROVE  Abs!Create(t)
<1> USE SchedAssumption DEF CreateThread, threadVars, queueVars, coreVars
<1>1. ~Abs!Somewhere(t)
  BY PlaceStates
<1>2. Idle' = Idle \cup {t} /\ Dead' = Dead
  BY DEF SchedInv, TypeOK, Idle, Dead
<1>3. \A d \in Cores : pc[d] = "suspend" => state'[cur[d]] = state[cur[d]]
  BY DEF SchedInv, TypeOK, StatesOK
<1>4. \A d \in Cores : On(d)' = On(d)
  <2>1. OnPlace(c)' = OnPlace(c)
    BY <1>3 DEF OnPlace, Executes
  <2>2. On(c)' = On(c)
    BY <2>1, OnHere
  <2>3. \A d \in Cores \ {c} : On(d)' = On(d)
    BY <1>3, OthersOn
  <2>4. QED
    BY <2>2, <2>3
<1>5. KeepsLists
  BY DEF KeepsLists
<1>6. QED
  BY <1>1, <1>2, <1>4, <1>5, OnFunSame, KeepsAsleep, AsleepFunSame DEF Abs!Create

\* ThreadWaitList::wait is Sleep where the thread enters the list.
LEMMA SleepStep ==
    ASSUME SchedInv, SchedInv', NEW c \in Cores, Sleeps(c)
    PROVE  \E l \in Lists : Abs!Sleep(c, l)
<1>0. PICK l \in Lists : l = lst[c]
  BY DEF Sleeps, SchedInv, TypeOK, CallsOK
<1>1. /\ cur[c] \in Threads /\ Executes(c) /\ state[cur[c]] = "Running"
      /\ waitQ[l] \in Seq(Threads)
  BY DEF Sleeps, SchedInv, TypeOK, StatesOK, Executes
<1>2. Idle' = Idle /\ Dead' = Dead
  BY <1>1, SchedAssumption DEF Sleeps, SchedInv, TypeOK, StatesOK, Idle, Dead
<1>3. \A d \in Cores \ {c} : pc[d] = "suspend" => cur[d] # cur[c]
  BY DEF Sleeps, SchedInv, TypeOK, CoresApart, Bound
<1>4. \A d \in Cores \ {c} : On(d)' = On(d)
  <2>1. \A d \in Cores \ {c} : pc[d] = "suspend" => state'[cur[d]] = state[cur[d]]
    BY <1>1, <1>3 DEF Sleeps, SchedInv, TypeOK
  <2>2. QED
    BY <2>1, OthersOn DEF Sleeps, SchedInv, TypeOK
<1>5. On(c) = cur[c] /\ On(c)' = None
  <2>1. OnPlace(c) = cur[c]
    BY <1>1 DEF OnPlace, Sleeps
  <2>2. OnPlace(c)' = None
    BY <1>1 DEF OnPlace, Sleeps, Executes, SchedInv, TypeOK
  <2>3. QED
    BY <2>1, <2>2, OnHere
<1>6. \A m \in Lists \ {l} : Asleep(m)' = Asleep(m)
  <2> SUFFICES ASSUME NEW m \in Lists \ {l} PROVE Asleep(m)' = Asleep(m)
    OBVIOUS
  <2>1. owner'[ListLock(m)] = owner[ListLock(m)] /\ tgt' = tgt /\ waitQ'[m] = waitQ[m]
    BY <1>0, <1>1, LockNames DEF Sleeps, Owning, SchedInv, TypeOK
  <2>2. QED
    BY <2>1, AsleepHere
<1>7. Asleep(l)' = Append(Asleep(l), cur[c])
  <2>1. owner[ListLock(l)] = None /\ owner'[ListLock(l)] = None
    BY <1>0, <1>1, LockNames DEF Sleeps, Owning, Free
  <2>2. waitQ'[l] = Append(waitQ[l], cur[c])
    BY <1>0, <1>1 DEF Sleeps, SchedInv, TypeOK
  <2>3. QED
    BY <2>1, <2>2, AsleepHere
<1>8. [d \in Cores |-> On(d)]' = [[d \in Cores |-> On(d)] EXCEPT ![c] = None]
  BY <1>4, <1>5, OnFun
<1>9. [m \in Lists |-> Asleep(m)]' =
          [[m \in Lists |-> Asleep(m)] EXCEPT ![l] = Append(@, [d \in Cores |-> On(d)][c])]
  BY <1>5, <1>6, <1>7, AsleepFun
<1>10. readyQ' = readyQ /\ [d \in Cores |-> On(d)][c] # None
  BY <1>1, <1>5, SchedAssumption DEF Sleeps
<1>11. QED
  BY <1>2, <1>8, <1>9, <1>10 DEF Abs!Sleep

\* perform_context_switch_interrupt is Yield where it enqueues the old thread.
LEMMA YieldStep ==
    ASSUME SchedInv, SchedInv', NEW c \in Cores, QueueOld(c)
    PROVE  Abs!Yield(c)
<1>1. Idle' = Idle /\ Dead' = Dead
  BY DEF QueueOld, threadVars, coreVars, SchedInv, TypeOK, Idle, Dead
<1>2. \A d \in Cores \ {c} : On(d)' = On(d)
  BY OthersOn DEF QueueOld, threadVars, coreVars, SchedInv, TypeOK
<1>3. On(c) = cur[c] /\ On(c)' = None
  <2>1. OnPlace(c) = cur[c] /\ OnPlace(c)' = None
    BY DEF OnPlace, QueueOld, threadVars, coreVars, Executes, SchedInv, TypeOK
  <2>2. QED
    BY <2>1, OnHere
<1>4. KeepsLists
  BY LockNames DEF KeepsLists, QueueOld, Owning, threadVars, coreVars
<1>5. [l \in Lists |-> Asleep(l)]' = [l \in Lists |-> Asleep(l)]
  BY <1>4, KeepsAsleep, AsleepFunSame
<1>6. [d \in Cores |-> On(d)]' = [[d \in Cores |-> On(d)] EXCEPT ![c] = None]
  BY <1>2, <1>3, OnFun
<1>7. /\ [d \in Cores |-> On(d)][c] # None
      /\ readyQ' = Append(readyQ, [d \in Cores |-> On(d)][c])
  BY <1>3, SchedAssumption DEF QueueOld, SchedInv, TypeOK
<1>8. QED
  BY <1>1, <1>5, <1>6, <1>7 DEF Abs!Yield

\* dequeue_ready_thread is Run.
LEMMA RunStep ==
    ASSUME SchedInv, SchedInv', NEW c \in Cores, NEW p \in {"deq", "idle_deq"},
           NEW q \in {"disp", "idle_disp"}, TakeReady(c, p, q)
    PROVE  Abs!Run(c)
<1>1. Idle' = Idle /\ Dead' = Dead
  BY DEF TakeReady, threadVars, coreVars, SchedInv, TypeOK, Idle, Dead
<1>2. \A d \in Cores \ {c} : On(d)' = On(d)
  BY OthersOn DEF TakeReady, threadVars, coreVars, SchedInv, TypeOK
<1>3. On(c) = None /\ On(c)' = Head(readyQ)
  <2>1. OnPlace(c) = None /\ OnPlace(c)' = Head(readyQ)
    BY DEF OnPlace, TakeReady, threadVars, Executes, SchedInv, TypeOK
  <2>2. QED
    BY <2>1, OnHere
<1>4. KeepsLists
  BY DEF KeepsLists, TakeReady, SchedInv, TypeOK
<1>5. [l \in Lists |-> Asleep(l)]' = [l \in Lists |-> Asleep(l)]
  BY <1>4, KeepsAsleep, AsleepFunSame
<1>6. [d \in Cores |-> On(d)]' = [[d \in Cores |-> On(d)] EXCEPT ![c] = Head(readyQ)]
  BY <1>2, <1>3, OnFun
<1>7. [d \in Cores |-> On(d)][c] = None
  BY <1>3
<1>8. readyQ # <<>> /\ readyQ' = Tail(readyQ)
  BY DEF TakeReady
<1>9. QED
  BY <1>1, <1>5, <1>6, <1>7, <1>8 DEF Abs!Run

\* kill_current is Die where the thread's state becomes Dead.
LEMMA DieStep ==
    ASSUME SchedInv, SchedInv', NEW c \in Cores, Dies(c)
    PROVE  Abs!Die(c)
<1>1. cur[c] \in Threads /\ Executes(c) /\ state[cur[c]] = "Running"
  BY DEF Dies, SchedInv, TypeOK, StatesOK, Executes
<1>2. Idle' = Idle /\ Dead' = Dead \cup {cur[c]}
  BY <1>1 DEF Dies, coreVars, SchedInv, TypeOK, StatesOK, Idle, Dead
<1>3. \A d \in Cores \ {c} : On(d)' = On(d)
  <2>1. \A d \in Cores \ {c} : pc[d] = "suspend" => cur[d] # cur[c]
    BY DEF Dies, SchedInv, TypeOK, CoresApart, Bound
  <2>2. \A d \in Cores \ {c} : pc[d] = "suspend" => state'[cur[d]] = state[cur[d]]
    BY <1>1, <2>1 DEF Dies, SchedInv, TypeOK
  <2>3. QED
    BY <2>2, OthersOn DEF Dies, coreVars, SchedInv, TypeOK
<1>4. On(c) = cur[c] /\ On(c)' = None
  <2>1. OnPlace(c) = cur[c]
    BY <1>1 DEF OnPlace, Dies
  <2>2. OnPlace(c)' = None
    BY <1>1 DEF OnPlace, Dies, coreVars, Executes, SchedInv, TypeOK
  <2>3. QED
    BY <2>1, <2>2, OnHere
<1>5. KeepsLists
  BY LockNames DEF KeepsLists, Dies, Owning, queueVars, coreVars
<1>6. [l \in Lists |-> Asleep(l)]' = [l \in Lists |-> Asleep(l)]
  BY <1>5, KeepsAsleep, AsleepFunSame
<1>7. [d \in Cores |-> On(d)]' = [[d \in Cores |-> On(d)] EXCEPT ![c] = None]
  BY <1>3, <1>4, OnFun
<1>8. [d \in Cores |-> On(d)][c] # None /\ [d \in Cores |-> On(d)][c] = cur[c]
  BY <1>1, <1>4, SchedAssumption
<1>9. readyQ' = readyQ
  BY DEF Dies, queueVars
<1>10. QED
  BY <1>2, <1>6, <1>7, <1>8, <1>9 DEF Abs!Die

\* ThreadLock::wake is Start of a new thread or WakeFirst where it enqueues.
LEMMA WakeStep ==
    ASSUME SchedInv, SchedInv', NEW c \in Cores, QueueWoken(c)
    PROVE  \/ \E t \in Threads : Abs!Start(t)
           \/ \E l \in Lists : Abs!WakeFirst(l)
<1>1. PICK t \in Threads : t = tgt[c]
  BY DEF QueueWoken, SchedInv, TypeOK
<1>2. /\ pc[c] = "wake_p" /\ state[t] = "Ready" /\ readyQ' = Append(readyQ, t)
      /\ pc' = [pc EXCEPT ![c] = from[c]] /\ tgt' = [tgt EXCEPT ![c] = None]
      /\ state' = state /\ cur' = cur /\ waitQ' = waitQ
      /\ lst' = [lst EXCEPT ![c] = None] /\ from' = [from EXCEPT ![c] = "exec"]
      /\ owner' = Owning(c, {}, {ThreadLock(t), ListLock(lst[c])})
  BY <1>1 DEF QueueWoken, threadVars, SchedInv, StatesOK
<1>3. from[c] \in {"exec", "irq", "soft", "finish"} /\ TypeOK
  BY DEF SchedInv, TypeOK
<1>4. \A d \in Cores : On(d)' = On(d)
  <2>1. \A d \in Cores \ {c} : On(d)' = On(d)
    BY <1>2, <1>3, OthersOn DEF TypeOK
  <2>2. OnPlace(c)' = OnPlace(c)
    BY <1>2, <1>3 DEF OnPlace, Executes, TypeOK
  <2>3. On(c)' = On(c)
    BY <2>2, OnHere
  <2>4. QED
    BY <2>1, <2>3
<1>5. [d \in Cores |-> On(d)]' = [d \in Cores |-> On(d)]
  BY <1>4, OnFunSame
<1>6. Dead' = Dead
  BY <1>2 DEF Dead
<1>7. \A d \in Cores \ {c} : pc[d] = "wake_p" => tgt[d] # t
  BY <1>1, <1>2 DEF SchedInv, CoresApart, Hand
<1>8. CASE lst[c] = None
  <2>1. t \in Idle
    BY <1>1, <1>2, <1>8 DEF Idle
  <2>2. Idle' = Idle \ {t}
    <3>1. \A u \in Threads : u \in Idle' <=> u \in Idle /\ u # t
      BY <1>1, <1>2, <1>3, <1>7, <1>8 DEF Idle, TypeOK
    <3>2. Idle' \subseteq Threads /\ Idle \subseteq Threads
      BY DEF Idle
    <3>3. QED
      BY <3>1, <3>2
  <2>3. \A l \in Lists : Asleep(l)' = Asleep(l)
    <3> SUFFICES ASSUME NEW l \in Lists PROVE Asleep(l)' = Asleep(l)
      OBVIOUS
    <3>1. owner[ListLock(l)] # c
      BY <1>8, SchedAssumption DEF SchedInv, LocksHeld, ListLocksHeld, HoldsList, Lists
    <3>2. owner'[ListLock(l)] = owner[ListLock(l)] /\ owner[ListLock(l)] \in Cores \cup {None}
      BY <1>2, <1>3, <1>8, LockNames, SchedAssumption DEF Owning, TypeOK, Lists
    <3>3. owner[ListLock(l)] \in Cores => tgt'[owner[ListLock(l)]] = tgt[owner[ListLock(l)]]
      BY <1>2, <1>3, <3>1 DEF TypeOK
    <3>4. QED
      BY <1>2, <3>2, <3>3, AsleepHere
  <2>4. [l \in Lists |-> Asleep(l)]' = [l \in Lists |-> Asleep(l)]
    BY <2>3, AsleepFunSame
  <2>5. Abs!Start(t)
    BY <1>2, <1>5, <1>6, <2>1, <2>2, <2>4 DEF Abs!Start
  <2>6. QED
    BY <2>5
<1>9. CASE lst[c] # None
  <2>1. PICK l \in Lists : l = lst[c]
    BY <1>3, <1>9 DEF TypeOK
  <2>2. Idle' = Idle
    <3>1. \A u \in Threads : u \in Idle' <=> u \in Idle
      BY <1>1, <1>2, <1>3, <1>7, <1>9 DEF Idle, TypeOK
    <3>2. Idle' \subseteq Threads /\ Idle \subseteq Threads
      BY DEF Idle
    <3>3. QED
      BY <3>1, <3>2
  <2>3. owner[ListLock(l)] = c /\ c # None
    BY <1>2, <2>1, SchedAssumption DEF SchedInv, LocksHeld, ListLocksHeld, HoldsList
  <2>4. waitQ[l] \in Seq(Threads)
    BY <1>3 DEF TypeOK
  <2>5. Asleep(l) = <<t>> \o waitQ[l]
    BY <1>1, <2>3, AsleepHere
  <2>6. Asleep(l) # <<>> /\ Head(Asleep(l)) = t /\ Tail(Asleep(l)) = waitQ[l]
    BY <2>4, <2>5
  <2>7. Asleep(l)' = Tail(Asleep(l))
    <3>1. owner'[ListLock(l)] = None
      BY <1>2, <2>1, LockNames DEF Owning
    <3>2. QED
      BY <1>2, <2>6, <3>1, AsleepHere
  <2>8. \A m \in Lists \ {l} : Asleep(m)' = Asleep(m)
    <3> SUFFICES ASSUME NEW m \in Lists \ {l} PROVE Asleep(m)' = Asleep(m)
      OBVIOUS
    <3>1. owner[ListLock(m)] # c
      BY <2>1 DEF SchedInv, LocksHeld, ListLocksHeld, HoldsList
    <3>2. owner'[ListLock(m)] = owner[ListLock(m)] /\ owner[ListLock(m)] \in Cores \cup {None}
      BY <1>2, <1>3, <2>1, LockNames DEF Owning, TypeOK
    <3>3. owner[ListLock(m)] \in Cores => tgt'[owner[ListLock(m)]] = tgt[owner[ListLock(m)]]
      BY <1>2, <1>3, <3>1 DEF TypeOK
    <3>4. QED
      BY <1>2, <3>2, <3>3, AsleepHere
  <2>9. [m \in Lists |-> Asleep(m)]' = [[m \in Lists |-> Asleep(m)] EXCEPT ![l] = Tail(@)]
    BY <2>7, <2>8, AsleepFun
  <2>10. [m \in Lists |-> Asleep(m)][l] = Asleep(l)
    OBVIOUS
  <2>11. Abs!WakeFirst(l)
    BY <1>2, <1>5, <1>6, <2>2, <2>6, <2>9, <2>10 DEF Abs!WakeFirst
  <2>12. QED
    BY <2>11
<1>10. QED
  BY <1>8, <1>9

\* At first only the init thread exists, and runs.
LEMMA InitAbs == Init => Abs!Init
<1> SUFFICES ASSUME Init PROVE Abs!Init
  OBVIOUS
<1>1. Idle = {} /\ Dead = {}
  BY DEF Init, Idle, Dead
<1>2. \A c \in Cores : On(c) = IF c = BootCore THEN InitThread ELSE None
  BY SchedAssumption DEF Init, On, Executes, Enqueues
<1>3. \A l \in Lists : Asleep(l) = <<>>
  BY DEF Init, Asleep, Waker
<1>4. QED
  BY <1>1, <1>2, <1>3 DEF Abs!Init, Init

\* Every step of the scheduler is a step of the abstract one or changes
\* nothing of what it sees.
LEMMA NextAbs ==
    ASSUME SchedInv, SchedInv', [Next]_vars
    PROVE  [Abs!Next]_(Abs!vars)
<1>1. CASE UNCHANGED vars
  <2>1. Idle' = Idle /\ Dead' = Dead /\ readyQ' = readyQ
    BY <1>1 DEF vars, threadVars, queueVars, coreVars, Idle, Dead
  <2>2. \A c \in Cores : On(c)' = On(c)
    BY <1>1 DEF vars, threadVars, queueVars, coreVars, On, Executes, Enqueues
  <2>3. KeepsLists
    BY <1>1 DEF vars, threadVars, queueVars, coreVars, KeepsLists
  <2>4. QED
    BY <2>1, <2>2, <2>3, KeepsAsleep, OnFunSame, AsleepFunSame DEF Abs!vars
<1>2. CASE \E c \in Cores : StepOf(c)
  <2>1. PICK c \in Cores : StepOf(c)
    BY <1>2
  <2>2. CASE StutterOf(c)
    BY <2>2, Stutters
  <2>3. ASSUME NEW t \in Threads, CreateThread(c, t) PROVE Abs!Next
    BY <2>3, CreateStep DEF Abs!Next
  <2>4. CASE Sleeps(c)
    BY <2>4, SleepStep DEF Abs!Next
  <2>5. CASE QueueOld(c)
    BY <2>5, YieldStep DEF Abs!Next
  <2>6. CASE TakeReady(c, "deq", "disp") \/ TakeReady(c, "idle_deq", "idle_disp")
    BY <2>6, RunStep DEF Abs!Next
  <2>7. CASE QueueWoken(c)
    BY <2>7, WakeStep DEF Abs!Next
  <2>8. CASE Dies(c)
    BY <2>8, DieStep DEF Abs!Next
  <2>9. QED
    BY <2>1, <2>2, <2>3, <2>4, <2>5, <2>6, <2>7, <2>8 DEF StepOf, StutterOf
<1>3. QED
  BY <1>1, <1>2, NextIsStep DEF SchedInv, Step

\* The scheduler, with its locks, interrupts and half-done context switches,
\* implements the atomic first-in first-out scheduler of SchedAbs.
THEOREM Implements == Spec => ImplementsAbs
<1>1. SchedInv /\ SchedInv' /\ [Next]_vars => [Abs!Next]_(Abs!vars)
  BY NextAbs
<1>2. QED
  BY <1>1, InitAbs, Invariance, PTL DEF Spec, ImplementsAbs, Abs!Spec
=============================================================================
