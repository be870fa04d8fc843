------------------------------- MODULE Future -------------------------------
(***************************************************************************)
(* One future of sync/future.rs: the shared FutureWait, its writer and the *)
(* Future values that refer to it.  The FutureWait is freed by whoever     *)
(* drops the last of wait_refs, the value is moved out by whoever drops    *)
(* the last of val_refs; both are raw pointers to the compiler, so only    *)
(* these counts stand between the callers and a use after free.            *)
(*                                                                         *)
(* Every operation runs under the FutureWait's spinlock from its first to  *)
(* its last access, so it is one step; callers on any core and interrupt   *)
(* handlers take such steps in any order.                                  *)
(***************************************************************************)
EXTENDS Naturals, FiniteSets

CONSTANTS
    Handles,   \* Future values that may come to exist
    First      \* the one Future::new returns

ASSUME FutureAssumption == First \in Handles /\ IsFiniteSet(Handles)

VARIABLES
    kind,      \* handle -> what FutureInternal it is, or what became of it
    writer,    \* the FutureWriter has not been given its value yet
    waitRefs,  \* FutureWaitGenericState.wait_refs
    valRefs,   \* FutureWaitGenericState.val_refs
    resolved,  \* FutureWaitGenericState.resolved
    val,       \* the value: "uninit", "set" or "moved" out
    asleep,    \* handles whose owner sleeps on the wait list
    freed,     \* FutureWait::destroy has run
    ub         \* memory was used that must not be: freed, uninit or moved

refVars == <<waitRefs, valRefs>>
vars == <<kind, writer, refVars, resolved, val, asleep, freed, ub>>

\* A handle is WithVal or WithoutVal while it is Unresolved; "act" and
\* "actUnit" are those that when_resolved turned into an action.
Unresolved(h) == kind[h] \in {"with", "without"}
Become(h, k) == kind' = [kind EXCEPT ![h] = k]

-----------------------------------------------------------------------------
(* The counts                                                              *)

\* take_val: the last reference moves the value out, the others clone it.
TakeMovesFirst(n) == "moved"
TakeVal(n) == IF n = 0 THEN "moved" ELSE val

\* dec_val_ref: the last reference drops a value that was written.
DecValNever(n) == val
DecVal(n) == IF resolved /\ n = 0 THEN "moved" ELSE val

\* dec_wait_ref: the last reference frees.
FreedAt(n) == n = 0

\* The value or the FutureWait is touched in this step.
Touch(readsVal) == ub' = (ub \/ freed \/ (readsVal /\ val # "set"))

-----------------------------------------------------------------------------
(* Operations on a Future                                                  *)

\* FutureInternal::clone on an unresolved handle, FutureWriter::as_future and
\* Future::without_val make handle g.
Clone(h, g) ==
    /\ Unresolved(h) /\ h \notin asleep /\ kind[g] = "none"
    /\ Touch(resolved /\ kind[h] = "with")
    /\ IF resolved
       THEN Become(g, "done") /\ UNCHANGED refVars
       ELSE /\ Become(g, kind[h])
            /\ waitRefs' = waitRefs + 1
            /\ valRefs' = valRefs + (IF kind[h] = "with" THEN 1 ELSE 0)
    /\ UNCHANGED <<writer, resolved, val, asleep, freed>>

AsFuture(g) ==
    /\ writer /\ kind[g] = "none"
    /\ Touch(FALSE)
    /\ Become(g, "with")
    /\ waitRefs' = waitRefs + 1
    /\ valRefs' = valRefs + 1
    /\ UNCHANGED <<writer, resolved, val, asleep, freed>>

WithoutVal(h, g) ==
    /\ Unresolved(h) /\ h \notin asleep /\ kind[g] = "none"
    /\ Touch(FALSE)
    /\ IF resolved /\ kind[h] = "with"
       THEN Become(g, "done") /\ UNCHANGED waitRefs
       ELSE Become(g, "without") /\ waitRefs' = waitRefs + 1
    /\ UNCHANGED <<writer, valRefs, resolved, val, asleep, freed>>

\* Drop for FutureInternalUnresolved
Drop(h) ==
    /\ Unresolved(h) /\ h \notin asleep
    /\ Touch(FALSE)
    /\ IF kind[h] = "with"
       THEN valRefs' = valRefs - 1 /\ val' = DecVal(valRefs - 1)
       ELSE UNCHANGED <<valRefs, val>>
    /\ waitRefs' = waitRefs - 1
    /\ freed' = (freed \/ FreedAt(waitRefs - 1))
    /\ Become(h, "gone")
    /\ UNCHANGED <<writer, resolved, asleep>>

\* try_resolve on a resolved future: the handle takes its value and lets go.
Resolve(h) ==
    /\ Touch(kind[h] = "with")
    /\ IF kind[h] = "with"
       THEN valRefs' = valRefs - 1 /\ val' = TakeVal(valRefs - 1)
       ELSE UNCHANGED <<valRefs, val>>
    /\ waitRefs' = waitRefs - 1
    /\ freed' = (freed \/ FreedAt(waitRefs - 1))
    /\ Become(h, "done")
    /\ UNCHANGED <<writer, resolved, asleep>>

\* update_readiness, try_unwrap, when_resolved and each round of
\* block_until_ready find the future resolved.
UpdateState(h) ==
    /\ Unresolved(h) /\ h \notin asleep
    /\ resolved
    /\ Resolve(h)

\* block_until_ready finds it unresolved and sleeps.
Block(h) ==
    /\ Unresolved(h) /\ h \notin asleep
    /\ ~resolved
    /\ Touch(FALSE)
    /\ asleep' = asleep \cup {h}
    /\ UNCHANGED <<kind, writer, refVars, resolved, val, freed>>

\* when_resolved leaves an action behind, which keeps the handle's val_ref.
WhenResolvedKeepsRef(h) ==
    /\ Unresolved(h) /\ h \notin asleep
    /\ ~resolved
    /\ Touch(FALSE)
    /\ Become(h, IF kind[h] = "with" THEN "act" ELSE "actUnit")
    /\ UNCHANGED <<writer, refVars, resolved, val, asleep, freed>>

WhenResolved(h) ==
    /\ Unresolved(h) /\ h \notin asleep
    /\ ~resolved
    /\ Touch(FALSE)
    /\ Become(h, IF kind[h] = "with" THEN "act" ELSE "actUnit")
    /\ waitRefs' = waitRefs - 1
    /\ UNCHANGED <<writer, valRefs, resolved, val, asleep, freed>>

-----------------------------------------------------------------------------
(* FutureWriter::finish                                                    *)

Acting(k) == {h \in Handles : kind[h] = k}

\* wake_all
WakeNone == asleep
WakeAll == {}

\* The value is stored if somebody can read it; the actions run in order, each
\* taking the value; the sleepers wake; the writer's reference goes.
Finish ==
    LET left   == valRefs - Cardinality(Acting("act"))
        stored == IF valRefs # 0 THEN "set" ELSE val
    IN
    /\ writer
    /\ ub' = (ub \/ freed \/ (Acting("act") # {} /\ stored # "set"))
    /\ resolved' = TRUE
    /\ writer' = FALSE
    /\ valRefs' = left
    /\ val' = IF Acting("act") # {} /\ left = 0 THEN "moved" ELSE stored
    /\ kind' = [h \in Handles |-> IF kind[h] \in {"act", "actUnit"} THEN "ran" ELSE kind[h]]
    /\ asleep' = WakeAll
    /\ waitRefs' = waitRefs - 1
    /\ freed' = (freed \/ FreedAt(waitRefs - 1))

\* Future::new, or FutureWriter::new
Init ==
    /\ \E with \in BOOLEAN :
        /\ kind = [h \in Handles |-> IF with /\ h = First THEN "with" ELSE "none"]
        /\ waitRefs = IF with THEN 2 ELSE 1
        /\ valRefs = IF with THEN 1 ELSE 0
    /\ writer = TRUE
    /\ resolved = FALSE
    /\ val = "uninit"
    /\ asleep = {}
    /\ freed = FALSE
    /\ ub = FALSE

Next ==
    \/ \E h, g \in Handles : Clone(h, g) \/ WithoutVal(h, g)
    \/ \E h \in Handles :
        AsFuture(h) \/ Drop(h) \/ UpdateState(h) \/ Block(h) \/ WhenResolved(h)
    \/ Finish

Spec == Init /\ [][Next]_vars

-----------------------------------------------------------------------------
(* Correctness                                                             *)

Kinds == {"none", "with", "without", "act", "actUnit", "done", "ran", "gone"}

\* Every variable has its type; in particular no count drops below zero.
TypeOK ==
    /\ kind \in [Handles -> Kinds]
    /\ writer \in BOOLEAN
    /\ waitRefs \in Nat
    /\ valRefs \in Nat
    /\ resolved \in BOOLEAN
    /\ val \in {"uninit", "set", "moved"}
    /\ asleep \in SUBSET Handles
    /\ freed \in BOOLEAN
    /\ ub \in BOOLEAN

\* No operation touches a freed FutureWait or reads a value that is not there,
\* whatever the order of clones, drops, callbacks and the finish.
NoUndefinedBehaviour == ~ub

\* The counts are exact: wait_refs counts the unresolved handles and the
\* writer, val_refs those handles and actions that will read the value.
RefsExact ==
    /\ waitRefs = Cardinality({h \in Handles : Unresolved(h)}) + (IF writer THEN 1 ELSE 0)
    /\ valRefs = Cardinality({h \in Handles : kind[h] \in {"with", "act"}})

\* What the counts stand for: the FutureWait lives while it is referred to,
\* the value from the finish to its last reader.
LifetimesFollowRefs ==
    /\ freed <=> waitRefs = 0
    /\ resolved <=> ~writer
    /\ val = "set" <=> resolved /\ valRefs > 0
    /\ ~resolved => val = "uninit"

\* The value is there for whoever will still read it, and the FutureWait for
\* whoever still points to it.
ReadersCanRead ==
    /\ resolved /\ (\E h \in Handles : kind[h] = "with") => val = "set"
    /\ freed => ~writer /\ \A h \in Handles : ~Unresolved(h)

\* Nothing leaks: once the writer and all handles are gone the FutureWait is
\* freed, its value moved out or dropped.
NothingLeaks ==
    ~writer /\ (\A h \in Handles : ~Unresolved(h)) => freed /\ val # "set"

\* Nobody sleeps on a resolved future, and no callback is left behind.
NobodyLeftWaiting ==
    resolved => asleep = {} /\ Acting("act") \cup Acting("actUnit") = {}

=============================================================================
