------------------------------ MODULE MCFutures ------------------------------
(***************************************************************************)
(* Futures, side by side: a behaviour is one of a single future and its    *)
(* handles, or one of Future::all or Future::any over several inputs, with *)
(* usize::MAX so small that the head start of all is used up to its last   *)
(* unit.                                                                   *)
(***************************************************************************)
EXTENDS Future

CONSTANTS
    MaxInputs,  \* bound on the inputs of Future::all and any
    UsizeMax    \* usize::MAX

VARIABLES part, len, op, step, num, resolvedIn, hooked, slot, refs, done,
          result, destroyed, bad

joinVars == <<len, op, step, num, resolvedIn, hooked, slot, refs, done,
              result, destroyed, bad>>

J == INSTANCE FutureJoin WITH
        N <- MaxInputs, Max <- UsizeMax,
        waitRefs <- refs, resolved <- done, freed <- destroyed

ASSUME JoinBounds == J!JoinAssumption

InJoin(A) ==
    /\ part = "join" /\ A
    /\ UNCHANGED <<part, kind, writer, waitRefs, valRefs, resolved, val, asleep, freed, ub>>

FuturesInit ==
    /\ part \in {"single", "join"}
    /\ Init /\ J!Init
    /\ part = "single" => op = "any" /\ len = 0
    /\ part = "join" => kind[First] = "none"

FuturesNext ==
    \/ part = "single" /\ Next /\ UNCHANGED <<part, joinVars>>
    \/ InJoin(J!Next)

\* The fairness of FutureJoin, in its part.
FuturesSpec ==
    /\ FuturesInit /\ [][FuturesNext]_<<part, vars, joinVars>>
    /\ WF_joinVars(InJoin(J!Builder))

-----------------------------------------------------------------------------
\* The properties of FutureJoin (sync/future.rs, Future::all and any): the
\* result means what it should and its memory is used well,
JoinSound == J!JoinSound

\* and once the inputs have resolved the result resolves.
ResultResolves == part = "join" => J!ResultResolves

=============================================================================
