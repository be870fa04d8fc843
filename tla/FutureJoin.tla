----------------------------- MODULE FutureJoin -----------------------------
(***************************************************************************)
(* Future::all and Future::any of sync/future.rs: one future made out of   *)
(* several.  The builder walks over the inputs and hangs a callback on     *)
(* each, while the inputs resolve on other cores or in interrupt handlers; *)
(* an input that has resolved already runs its callback inside the         *)
(* builder.  Builder and callbacks share the result's FutureWait through a *)
(* raw pointer: all counts down in its value slot, any counts in           *)
(* wait_refs.                                                              *)
(*                                                                         *)
(* Each step is one critical section under the lock of the result (module  *)
(* Future has the handles of a single future).                             *)
(***************************************************************************)
EXTENDS Integers

CONSTANTS
    N,      \* bound on the number of futures the iterator yields
    Max     \* usize::MAX

JoinAssumption == N \in Nat /\ Max \in Nat /\ N < Max

VARIABLES
    len,         \* the number of futures the iterator yields
    op,          \* "all" or "any"
    step,        \* the builder: loop, hook (any), convert, drop (all), done
    num,         \* inputs the builder has taken off the iterator
    resolvedIn,  \* inputs that have resolved
    hooked,      \* inputs that hold the callback in their actions
    slot,        \* the value slot; 0 in any while it is uninitialised
    waitRefs,    \* wait_refs of the result
    resolved,    \* the result is resolved
    result,      \* the handle returned: "future", "with", "without" or "gone"
    freed,       \* FutureWait::destroy has run
    bad          \* the result was used after free, finished twice, or read unset

Inputs == 1 .. len

inVars == <<resolvedIn, hooked>>
resVars == <<slot, waitRefs, resolved, freed>>
vars == <<op, len, step, num, inVars, resVars, result, bad>>

\* dec_wait_ref_generic
DecWaitRef ==
    /\ waitRefs' = waitRefs - 1
    /\ freed' = (freed \/ waitRefs = 1)

\* FutureWriter::finish_internal, with no action left on the result
FinishInternal == resolved' = TRUE /\ DecWaitRef

Touch == bad' = (bad \/ freed)

\* The callbacks, run by an input that resolves or by the builder.
AllCallbackAtZero(i) ==
    /\ bad' = (bad \/ freed \/ (slot = 0 /\ resolved))
    /\ IF slot = 0
       THEN FinishInternal /\ UNCHANGED slot
       ELSE slot' = slot - 1 /\ UNCHANGED <<waitRefs, resolved, freed>>

AllCallback(i) ==
    /\ bad' = (bad \/ freed \/ (slot = 1 /\ resolved))
    /\ IF slot = 1
       THEN FinishInternal /\ UNCHANGED slot
       ELSE slot' = slot - 1 /\ UNCHANGED <<waitRefs, resolved, freed>>

AnyCallback(i) ==
    /\ Touch
    /\ IF ~resolved
       THEN slot' = i /\ FinishInternal
       ELSE UNCHANGED <<slot, resolved>> /\ DecWaitRef

Callback(i) == (op = "all" /\ AllCallback(i)) \/ (op = "any" /\ AnyCallback(i))

\* Future::when_resolved on an input, with the callback
HookAlwaysWaits(i) ==
    /\ hooked' = hooked \cup {i}
    /\ UNCHANGED <<resVars, bad, resolvedIn>>

Hook(i) ==
    \/ /\ i \in resolvedIn
       /\ Callback(i)
       /\ UNCHANGED inVars
    \/ /\ i \notin resolvedIn
       /\ hooked' = hooked \cup {i}
       /\ UNCHANGED <<resVars, bad, resolvedIn>>

\* An input is finished: it runs the callback if it has it.
Resolve(i) ==
    /\ i \notin resolvedIn
    /\ resolvedIn' = resolvedIn \cup {i}
    /\ \/ i \in hooked /\ hooked' = hooked \ {i} /\ Callback(i)
       \/ i \notin hooked /\ UNCHANGED <<hooked, resVars, bad>>
    /\ UNCHANGED <<op, len, step, num, result>>

-----------------------------------------------------------------------------
(* The builders                                                            *)

AllAdd ==
    /\ op = "all" /\ step = "loop" /\ num < len
    /\ num' = num + 1
    /\ Hook(num + 1)
    /\ UNCHANGED <<op, len, step, result>>

\* What is left of the head start: one per input not yet resolved.
Settle == slot - (Max - num)

AllBuiltNoCheck ==
    /\ op = "all" /\ step = "loop" /\ num = len
    /\ step' = "convert"
    /\ slot' = Settle
    /\ Touch
    /\ UNCHANGED <<op, len, num, inVars, waitRefs, resolved, freed, result>>

AllBuilt ==
    /\ op = "all" /\ step = "loop" /\ num = len
    /\ step' = "convert"
    /\ slot' = Settle
    /\ bad' = (bad \/ freed \/ (Settle = 0 /\ resolved))
    /\ IF Settle = 0 THEN FinishInternal ELSE UNCHANGED <<waitRefs, resolved, freed>>
    /\ UNCHANGED <<op, len, num, inVars, result>>

\* future.without_val() makes the handle that is returned ...
Convert ==
    /\ step = "convert"
    /\ step' = "drop"
    /\ Touch
    /\ result' = IF resolved THEN "gone" ELSE "without"
    /\ waitRefs' = IF resolved THEN waitRefs ELSE waitRefs + 1
    /\ UNCHANGED <<op, len, num, inVars, slot, resolved, freed>>

\* ... and future itself is dropped.
DropFuture ==
    /\ step = "drop"
    /\ step' = "done"
    /\ Touch
    /\ DecWaitRef
    /\ UNCHANGED <<op, len, num, inVars, slot, resolved, result>>

AnyCountNoRef ==
    /\ op = "any" /\ step = "loop" /\ num < len
    /\ step' = "hook"
    /\ num' = num + 1
    /\ UNCHANGED <<op, len, inVars, resVars, result, bad>>

AnyCount ==
    /\ op = "any" /\ step = "loop" /\ num < len
    /\ step' = "hook"
    /\ num' = num + 1
    /\ Touch
    /\ waitRefs' = waitRefs + 1
    /\ UNCHANGED <<op, len, inVars, slot, resolved, freed, result>>

AnyAdd ==
    /\ step = "hook"
    /\ step' = "loop"
    /\ Hook(num)
    /\ UNCHANGED <<op, len, num, result>>

\* The builder's own reference goes; an empty iterator gives Err(()), which
\* drops the future.
AnyBuiltKeepsRef ==
    /\ op = "any" /\ step = "loop" /\ num = len
    /\ step' = IF len = 0 THEN "drop" ELSE "done"
    /\ result' = IF len = 0 THEN "gone" ELSE "with"
    /\ Touch
    /\ UNCHANGED <<op, len, num, inVars, resVars>>

AnyBuilt ==
    /\ op = "any" /\ step = "loop" /\ num = len
    /\ step' = IF len = 0 THEN "drop" ELSE "done"
    /\ result' = IF len = 0 THEN "gone" ELSE "with"
    /\ Touch
    /\ waitRefs' = waitRefs - 1
    /\ UNCHANGED <<op, len, num, inVars, slot, resolved, freed>>

\* The caller lets go of the future returned: it drops it, or finds it
\* resolved and takes the value.
LetGo ==
    /\ step = "done" /\ result # "gone"
    /\ result' = "gone"
    /\ bad' = (bad \/ freed \/ (resolved /\ result = "with" /\ slot \notin resolvedIn))
    /\ DecWaitRef
    /\ UNCHANGED <<op, len, step, num, inVars, slot, resolved>>

\* Any of the inputs may have resolved before the call.
Init ==
    /\ op \in {"all", "any"}
    /\ len \in 0 .. N
    /\ step = "loop"
    /\ num = 0
    /\ resolvedIn \in SUBSET Inputs
    /\ hooked = {}
    /\ slot = IF op = "all" THEN Max ELSE 0
    /\ waitRefs = 2
    /\ resolved = FALSE
    /\ result = "future"
    /\ freed = FALSE
    /\ bad = FALSE

Next ==
    \/ \E i \in Inputs : Resolve(i)
    \/ AllAdd \/ AllBuilt \/ Convert \/ DropFuture
    \/ AnyCount \/ AnyAdd \/ AnyBuilt
    \/ LetGo

\* The builder runs to its end; inputs need not resolve.
Builder == AllAdd \/ AllBuilt \/ Convert \/ DropFuture \/ AnyCount \/ AnyAdd \/ AnyBuilt

Spec == Init /\ [][Next]_vars /\ WF_vars(Builder)

-----------------------------------------------------------------------------
(* Correctness                                                             *)

\* Neither callbacks nor builder use the result after it is freed, finish it
\* twice or hand out an index that was never written.
NoMisuse == ~bad

\* all: the result is resolved exactly when every input is, once the builder
\* has taken the head start away, and never before.
AllMeansAll ==
    op = "all" =>
        (resolved <=> step # "loop" /\ resolvedIn = Inputs)

\* any: the result is resolved exactly when an input the builder has been at
\* is, and its value is the index of an input that has resolved.
AnyMeansAny ==
    op = "any" =>
        /\ resolved <=> \E i \in resolvedIn : i < num \/ (i = num /\ step # "hook")
        /\ resolved => slot \in resolvedIn

\* Once the inputs have resolved and the caller has let go, the result is freed.
NothingLeaks ==
    step = "done" /\ result = "gone" /\ resolvedIn = Inputs => freed

\* What a caller of all or any relies on in every state: the result means
\* what it should, and the raw pointer the callbacks share is used well.
JoinSound == NoMisuse /\ AllMeansAll /\ AnyMeansAny /\ NothingLeaks

\* Inputs that all resolve resolve the result, whatever they overtake.
ResultResolves ==
    [](resolvedIn = Inputs /\ (op = "all" \/ len > 0) => <>resolved)

=============================================================================
