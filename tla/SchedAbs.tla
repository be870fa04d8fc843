------------------------------- MODULE SchedAbs -------------------------------
(***************************************************************************)
(* What the scheduler promises to the rest of the kernel, without locks,   *)
(* interrupts, saved registers or half-done context switches: a thread is  *)
(* either not started, running on one core, in the queue of ready threads, *)
(* asleep in one wait list, or dead, and moves between them atomically and *)
(* in first-in first-out order.                                            *)
(***************************************************************************)
EXTENDS Naturals, Sequences

CONSTANTS Cores, Threads, Lists, InitThread, BootCore, None

VARIABLES
    idle,   \* threads that are created and not started
    on,     \* core -> the thread it runs, or None
    ready,  \* threads that wait for a core, the first to run first
    asleep, \* list -> threads asleep in it, the first to wake first
    dead    \* threads that have ended

vars == <<idle, on, ready, asleep, dead>>

\* Only the init thread exists, and runs.
Init ==
    /\ idle = {}
    /\ on = [c \in Cores |-> IF c = BootCore THEN InitThread ELSE None]
    /\ ready = <<>>
    /\ asleep = [l \in Lists |-> <<>>]
    /\ dead = {}

Somewhere(t) ==
    \/ t \in idle \cup dead
    \/ \E c \in Cores : on[c] = t
    \/ \E i \in 1..Len(ready) : ready[i] = t
    \/ \E l \in Lists : \E i \in 1..Len(asleep[l]) : asleep[l][i] = t

Create(t) ==
    /\ ~Somewhere(t)
    /\ idle' = idle \cup {t}
    /\ UNCHANGED <<on, ready, asleep, dead>>

Start(t) ==
    /\ t \in idle
    /\ idle' = idle \ {t}
    /\ ready' = Append(ready, t)
    /\ UNCHANGED <<on, asleep, dead>>

\* The thread on core c gives the core up and stays ready.
Yield(c) ==
    /\ on[c] # None
    /\ ready' = Append(ready, on[c])
    /\ on' = [on EXCEPT ![c] = None]
    /\ UNCHANGED <<idle, asleep, dead>>

\* The thread on core c goes to sleep.
Sleep(c, l) ==
    /\ on[c] # None
    /\ asleep' = [asleep EXCEPT ![l] = Append(@, on[c])]
    /\ on' = [on EXCEPT ![c] = None]
    /\ UNCHANGED <<idle, ready, dead>>

\* The thread that has slept longest in l becomes ready.
WakeFirst(l) ==
    /\ asleep[l] # <<>>
    /\ asleep' = [asleep EXCEPT ![l] = Tail(@)]
    /\ ready' = Append(ready, Head(asleep[l]))
    /\ UNCHANGED <<idle, on, dead>>

\* A core without a thread takes the one that has been ready longest.
Run(c) ==
    /\ on[c] = None
    /\ ready # <<>>
    /\ on' = [on EXCEPT ![c] = Head(ready)]
    /\ ready' = Tail(ready)
    /\ UNCHANGED <<idle, asleep, dead>>

Die(c) ==
    /\ on[c] # None
    /\ dead' = dead \cup {on[c]}
    /\ on' = [on EXCEPT ![c] = None]
    /\ UNCHANGED <<idle, ready, asleep>>

Next ==
    \/ \E t \in Threads : Create(t) \/ Start(t)
    \/ \E c \in Cores : Yield(c) \/ Run(c) \/ Die(c) \/ \E l \in Lists : Sleep(c, l)
    \/ \E l \in Lists : WakeFirst(l)

Spec == Init /\ [][Next]_vars

=============================================================================
