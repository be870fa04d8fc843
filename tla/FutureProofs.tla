---------------------------- MODULE FutureProofs ----------------------------
(***************************************************************************)
(* The reference counts of a future, proved for any finite set of handles, *)
(* and those of Future::all and Future::any, for any number of inputs.     *)
(***************************************************************************)
EXTENDS MCFutures, Integers, FiniteSetTheorems, TLAPS

\* The handles that hold a wait_ref and those that hold a val_ref, when the
\* handles are as k says.
Waiters(k) == {h \in Handles : k[h] \in {"with", "without"}}
Readers(k) == {h \in Handles : k[h] \in {"with", "act"}}

\* The inductive invariant: the counts are exact, and what is freed, stored
\* and left waiting follows from them.
IInv ==
    /\ TypeOK
    /\ NoUndefinedBehaviour
    /\ RefsExact
    /\ LifetimesFollowRefs
    /\ NobodyLeftWaiting

\* Both sets are finite, so that their cardinalities are natural numbers.
LEMMA CountsFinite ==
    ASSUME NEW k
    PROVE  /\ IsFiniteSet(Waiters(k)) /\ Cardinality(Waiters(k)) \in Nat
           /\ IsFiniteSet(Readers(k)) /\ Cardinality(Readers(k)) \in Nat
<1>1. IsFiniteSet(Waiters(k)) /\ IsFiniteSet(Readers(k))
  BY FutureAssumption, FS_Subset DEF Waiters, Readers
<1> QED BY <1>1, FS_CardinalityType

\* RefsExact in terms of the two sets.
LEMMA RefsExactSets ==
    RefsExact <=> /\ waitRefs = Cardinality(Waiters(kind)) + (IF writer THEN 1 ELSE 0)
                  /\ valRefs = Cardinality(Readers(kind))
BY DEF RefsExact, Waiters, Readers, Unresolved

\* A new handle g of kind k enters the sets that k belongs to.
LEMMA Gains ==
    ASSUME kind \in [Handles -> Kinds], NEW g \in Handles, kind[g] = "none",
           NEW k \in Kinds, Become(g, k)
    PROVE  /\ Cardinality(Waiters(kind')) =
                Cardinality(Waiters(kind)) + (IF k \in {"with", "without"} THEN 1 ELSE 0)
           /\ Cardinality(Readers(kind')) =
                Cardinality(Readers(kind)) + (IF k \in {"with", "act"} THEN 1 ELSE 0)
<1>1. /\ g \notin Waiters(kind) /\ g \notin Readers(kind)
      /\ Waiters(kind') = IF k \in {"with", "without"} THEN Waiters(kind) \cup {g} ELSE Waiters(kind)
      /\ Readers(kind') = IF k \in {"with", "act"} THEN Readers(kind) \cup {g} ELSE Readers(kind)
  BY DEF Become, Waiters, Readers
<1>2. /\ Cardinality(Waiters(kind) \cup {g}) = Cardinality(Waiters(kind)) + 1
      /\ Cardinality(Readers(kind) \cup {g}) = Cardinality(Readers(kind)) + 1
  BY <1>1, CountsFinite, FS_AddElement
<1>3. Cardinality(Waiters(kind)) \in Nat /\ Cardinality(Readers(kind)) \in Nat
  BY CountsFinite
<1> QED BY <1>1, <1>2, <1>3

\* An unresolved handle that becomes k leaves the wait set unless k is in it,
\* and the reader set likewise.
LEMMA Loses ==
    ASSUME kind \in [Handles -> Kinds], NEW h \in Handles, Unresolved(h),
           NEW k \in Kinds \ {"with", "without"}, Become(h, k)
    PROVE  /\ Cardinality(Waiters(kind')) = Cardinality(Waiters(kind)) - 1
           /\ Cardinality(Waiters(kind)) > 0
           /\ k # "act" =>
                Cardinality(Readers(kind')) =
                  Cardinality(Readers(kind)) - (IF kind[h] = "with" THEN 1 ELSE 0)
           /\ k = "act" /\ kind[h] = "with" => Readers(kind') = Readers(kind)
           /\ kind[h] = "with" => Cardinality(Readers(kind)) > 0
<1>1. /\ h \in Waiters(kind)
      /\ Waiters(kind') = Waiters(kind) \ {h}
      /\ k # "act" => Readers(kind') = IF kind[h] = "with" THEN Readers(kind) \ {h} ELSE Readers(kind)
      /\ k = "act" /\ kind[h] = "with" => Readers(kind') = Readers(kind)
      /\ kind[h] = "with" => h \in Readers(kind)
  BY DEF Become, Waiters, Readers, Unresolved
<1>2. /\ Cardinality(Waiters(kind')) = Cardinality(Waiters(kind)) - 1
      /\ Cardinality(Waiters(kind)) > 0
  <2>1. Cardinality(Waiters(kind) \ {h}) = Cardinality(Waiters(kind)) - 1
    BY <1>1, CountsFinite, FS_RemoveElement
  <2>2. Cardinality(Waiters(kind')) \in Nat /\ Cardinality(Waiters(kind)) \in Nat
    BY CountsFinite
  <2> QED BY <1>1, <2>1, <2>2
<1>3. ASSUME kind[h] = "with"
      PROVE  /\ Cardinality(Readers(kind)) > 0
             /\ Cardinality(Readers(kind) \ {h}) = Cardinality(Readers(kind)) - 1
  <2>1. Cardinality(Readers(kind) \ {h}) = Cardinality(Readers(kind)) - 1
    BY <1>1, <1>3, CountsFinite, FS_RemoveElement
  <2>2. IsFiniteSet(Readers(kind) \ {h})
    BY CountsFinite, FS_RemoveElement
  <2>3. Cardinality(Readers(kind) \ {h}) \in Nat /\ Cardinality(Readers(kind)) \in Nat
    BY <2>2, CountsFinite, FS_CardinalityType
  <2> QED BY <2>1, <2>3
<1>4. Cardinality(Readers(kind)) \in Nat
  BY CountsFinite
<1>5. k # "act" => Cardinality(Readers(kind')) =
                     Cardinality(Readers(kind)) - (IF kind[h] = "with" THEN 1 ELSE 0)
  <2>1. CASE kind[h] = "with"
    BY <2>1, <1>1, <1>3
  <2>2. CASE kind[h] # "with"
    BY <2>2, <1>1, <1>4
  <2> QED BY <2>1, <2>2
<1> QED BY <1>1, <1>2, <1>3, <1>5

\* Before the writer has finished, the FutureWait is alive and unread.
LEMMA Alive ==
    ASSUME IInv
    PROVE  /\ waitRefs = Cardinality(Waiters(kind)) + (IF writer THEN 1 ELSE 0)
           /\ valRefs = Cardinality(Readers(kind))
           /\ writer => ~freed /\ ~resolved /\ val = "uninit"
           /\ Cardinality(Waiters(kind)) \in Nat /\ Cardinality(Readers(kind)) \in Nat
           /\ \A h \in Handles : Unresolved(h) => ~freed /\ Cardinality(Waiters(kind)) > 0
           /\ \A h \in Handles : kind[h] = "with" => Cardinality(Readers(kind)) > 0
<1>1. /\ waitRefs = Cardinality(Waiters(kind)) + (IF writer THEN 1 ELSE 0)
      /\ valRefs = Cardinality(Readers(kind))
      /\ Cardinality(Waiters(kind)) \in Nat /\ Cardinality(Readers(kind)) \in Nat
  BY RefsExactSets, CountsFinite DEF IInv
<1>2. /\ \A h \in Handles : Unresolved(h) => Cardinality(Waiters(kind)) > 0
      /\ \A h \in Handles : kind[h] = "with" => Cardinality(Readers(kind)) > 0
  <2>1. /\ \A h \in Handles : Unresolved(h) => h \in Waiters(kind)
        /\ \A h \in Handles : kind[h] = "with" => h \in Readers(kind)
    BY DEF Unresolved, Waiters, Readers
  <2>2. \A S : IsFiniteSet(S) /\ S # {} => Cardinality(S) > 0
    <3> SUFFICES ASSUME NEW S, IsFiniteSet(S), S # {}
                 PROVE  Cardinality(S) > 0
      OBVIOUS
    <3>1. Cardinality(S) \in Nat /\ Cardinality(S) # 0
      BY FS_CardinalityType, FS_EmptySet
    <3> QED BY <3>1
  <2>3. IsFiniteSet(Waiters(kind)) /\ IsFiniteSet(Readers(kind))
    BY CountsFinite
  <2> QED BY <2>1, <2>2, <2>3
<1> QED BY <1>1, <1>2 DEF IInv, LifetimesFollowRefs, TypeOK

\* A step that changes one handle, into an action only while unresolved,
\* leaves nobody waiting on a resolved future.
LEMMA StillNobodyWaits ==
    ASSUME IInv, NEW h \in Handles, NEW k \in Kinds,
           Become(h, k), resolved => k \notin {"act", "actUnit"},
           UNCHANGED <<resolved, asleep>>
    PROVE  NobodyLeftWaiting'
BY DEF IInv, TypeOK, NobodyLeftWaiting, Acting, Become

\* The types of a step that changes one handle and the counts.
LEMMA TypesKept ==
    ASSUME IInv, NEW h \in Handles, NEW k \in Kinds, Become(h, k),
           waitRefs' \in Nat, valRefs' \in Nat, ub' = FALSE,
           val' \in {"uninit", "set", "moved"}, freed' \in BOOLEAN,
           UNCHANGED <<writer, resolved, asleep>>
    PROVE  TypeOK'
<1>1. kind' \in [Handles -> Kinds]
  BY DEF IInv, TypeOK, Become
<1> QED BY <1>1 DEF IInv, TypeOK

-----------------------------------------------------------------------------
(* One lemma per operation                                                 *)

LEMMA CloneStep ==
    ASSUME IInv, NEW h \in Handles, NEW g \in Handles, Clone(h, g)
    PROVE  IInv'
<1> USE DEF Clone
<1>1. /\ kind \in [Handles -> Kinds] /\ kind[h] \in Kinds /\ "done" \in Kinds
      /\ ~freed /\ (resolved /\ kind[h] = "with" => val = "set")
  BY Alive DEF IInv, TypeOK, Kinds, LifetimesFollowRefs
<1>2. ub' = FALSE
  BY <1>1 DEF Touch, IInv, NoUndefinedBehaviour
<1>3. CASE resolved
  <2>1. Become(g, "done") /\ UNCHANGED <<waitRefs, valRefs, writer, resolved, val, asleep, freed>>
    BY <1>3 DEF refVars
  <2>2. /\ Cardinality(Waiters(kind')) = Cardinality(Waiters(kind))
        /\ Cardinality(Readers(kind')) = Cardinality(Readers(kind))
    BY <2>1, <1>1, Gains, Alive
  <2>3. RefsExact'
    BY <2>1, <2>2, Alive DEF RefsExact, Waiters, Readers, Unresolved
  <2>4. TypeOK'
    BY <2>1, <1>1, <1>2 DEF IInv, TypeOK, Become
  <2>5. NobodyLeftWaiting'
    BY <2>1, <1>1, StillNobodyWaits
  <2> QED BY <2>1, <2>3, <2>4, <2>5, <1>2
          DEF IInv, NoUndefinedBehaviour, LifetimesFollowRefs
<1>4. CASE ~resolved
  <2>1. /\ Become(g, kind[h]) /\ kind[h] \in {"with", "without"}
        /\ waitRefs' = waitRefs + 1
        /\ valRefs' = valRefs + (IF kind[h] = "with" THEN 1 ELSE 0)
        /\ UNCHANGED <<writer, resolved, val, asleep, freed>>
    BY <1>4 DEF refVars, Unresolved
  <2>2. /\ Cardinality(Waiters(kind')) = Cardinality(Waiters(kind)) + 1
        /\ Cardinality(Readers(kind')) =
             Cardinality(Readers(kind)) + (IF kind[h] = "with" THEN 1 ELSE 0)
    BY <2>1, <1>1, Gains
  <2>3. RefsExact'
    BY <2>1, <2>2, Alive DEF RefsExact, Waiters, Readers, Unresolved
  <2>4. TypeOK'
    <3>1. waitRefs' \in Nat /\ valRefs' \in Nat
      BY <2>1 DEF IInv, TypeOK
    <3>2. val' \in {"uninit", "set", "moved"} /\ freed' \in BOOLEAN
      BY <2>1 DEF IInv, TypeOK
    <3> QED BY <3>1, <3>2, <2>1, <1>1, <1>2, TypesKept
  <2>5. NobodyLeftWaiting'
    BY <2>1, <1>1, <1>4, StillNobodyWaits
  <2>6. LifetimesFollowRefs'
    BY <2>1, <1>1, <1>4 DEF IInv, TypeOK, LifetimesFollowRefs
  <2> QED BY <2>3, <2>4, <2>5, <2>6, <1>2 DEF IInv, NoUndefinedBehaviour
<1> QED BY <1>3, <1>4

LEMMA WithoutValStep ==
    ASSUME IInv, NEW h \in Handles, NEW g \in Handles, WithoutVal(h, g)
    PROVE  IInv'
<1> DEFINE k == IF resolved /\ kind[h] = "with" THEN "done" ELSE "without"
           n == IF resolved /\ kind[h] = "with" THEN 0 ELSE 1
<1>1. /\ kind \in [Handles -> Kinds] /\ k \in Kinds /\ kind[g] = "none"
      /\ ~freed /\ Cardinality(Waiters(kind)) > 0
  BY Alive DEF WithoutVal, IInv, TypeOK, Kinds
<1>2. /\ Become(g, k) /\ waitRefs' = waitRefs + n
      /\ UNCHANGED <<writer, valRefs, resolved, val, asleep, freed>>
  BY DEF WithoutVal, IInv, TypeOK
<1>3. ub' = FALSE
  BY <1>1 DEF WithoutVal, Touch, IInv, NoUndefinedBehaviour
<1>4. k \in {"done", "without"} /\ n = (IF k \in {"with", "without"} THEN 1 ELSE 0)
      /\ k \notin {"with", "act", "actUnit"}
  OBVIOUS
<1> HIDE DEF k, n
<1>5. /\ Cardinality(Waiters(kind')) = Cardinality(Waiters(kind)) + n
      /\ Cardinality(Readers(kind')) = Cardinality(Readers(kind))
  BY <1>1, <1>2, <1>4, Gains, Alive
<1>6. n \in {0, 1}
  BY <1>4
<1>7. RefsExact'
  BY <1>2, <1>5, <1>6, Alive DEF RefsExact, Waiters, Readers, Unresolved
<1>8. TypeOK'
  <2>1. waitRefs' \in Nat /\ valRefs' \in Nat
    BY <1>2, <1>6 DEF IInv, TypeOK
  <2>2. val' \in {"uninit", "set", "moved"} /\ freed' \in BOOLEAN
    BY <1>2 DEF IInv, TypeOK
  <2> QED BY <2>1, <2>2, <1>1, <1>2, <1>3, TypesKept
<1>9. NobodyLeftWaiting'
  BY <1>1, <1>2, <1>4, StillNobodyWaits
<1>10. LifetimesFollowRefs'
  BY <1>1, <1>2, <1>6, Alive DEF IInv, TypeOK, LifetimesFollowRefs
<1> QED BY <1>3, <1>7, <1>8, <1>9, <1>10 DEF IInv, NoUndefinedBehaviour

LEMMA AsFutureStep ==
    ASSUME IInv, NEW g \in Handles, AsFuture(g)
    PROVE  IInv'
<1>1. /\ kind \in [Handles -> Kinds] /\ "with" \in Kinds /\ kind[g] = "none"
      /\ ~freed /\ ~resolved /\ writer
  BY Alive DEF AsFuture, IInv, TypeOK, Kinds
<1>2. /\ Become(g, "with") /\ waitRefs' = waitRefs + 1 /\ valRefs' = valRefs + 1
      /\ UNCHANGED <<writer, resolved, val, asleep, freed>>
  BY DEF AsFuture
<1>3. ub' = FALSE
  BY <1>1 DEF AsFuture, Touch, IInv, NoUndefinedBehaviour
<1>4. /\ Cardinality(Waiters(kind')) = Cardinality(Waiters(kind)) + 1
      /\ Cardinality(Readers(kind')) = Cardinality(Readers(kind)) + 1
  BY <1>1, <1>2, Gains
<1>5. RefsExact'
  BY <1>1, <1>2, <1>4, Alive DEF RefsExact, Waiters, Readers, Unresolved
<1>6. TypeOK'
  <2>1. waitRefs' \in Nat /\ valRefs' \in Nat
    BY <1>2 DEF IInv, TypeOK
  <2>2. val' \in {"uninit", "set", "moved"} /\ freed' \in BOOLEAN
    BY <1>2 DEF IInv, TypeOK
  <2> QED BY <2>1, <2>2, <1>1, <1>2, <1>3, TypesKept
<1>7. NobodyLeftWaiting'
  BY <1>1, <1>2, StillNobodyWaits
<1>8. LifetimesFollowRefs'
  BY <1>1, <1>2 DEF IInv, TypeOK, LifetimesFollowRefs
<1> QED BY <1>3, <1>5, <1>6, <1>7, <1>8 DEF IInv, NoUndefinedBehaviour

LEMMA DropStep ==
    ASSUME IInv, NEW h \in Handles, Drop(h)
    PROVE  IInv'
<1> DEFINE n == IF kind[h] = "with" THEN 1 ELSE 0
<1>1. /\ kind \in [Handles -> Kinds] /\ "gone" \in Kinds \ {"with", "without"}
      /\ Unresolved(h) /\ ~freed
  BY Alive DEF Drop, IInv, TypeOK, Kinds
<1>2. /\ Become(h, "gone") /\ waitRefs' = waitRefs - 1
      /\ freed' = (waitRefs - 1 = 0)
      /\ UNCHANGED <<writer, resolved, asleep>>
  BY <1>1 DEF Drop, FreedAt
<1>3. /\ valRefs' = valRefs - n
      /\ n = 0 => val' = val
      /\ n = 1 => val' = IF resolved /\ valRefs' = 0 THEN "moved" ELSE val
  BY DEF Drop, DecVal, IInv, TypeOK
<1>4. ub' = FALSE
  BY <1>1 DEF Drop, Touch, IInv, NoUndefinedBehaviour
<1>5. n \in {0, 1} /\ n = (IF kind[h] = "with" THEN 1 ELSE 0)
  OBVIOUS
<1> HIDE DEF n
<1>6. /\ Cardinality(Waiters(kind')) = Cardinality(Waiters(kind)) - 1
      /\ Cardinality(Waiters(kind)) > 0
      /\ Cardinality(Readers(kind')) = Cardinality(Readers(kind)) - n
      /\ n = 1 => Cardinality(Readers(kind)) > 0
  BY <1>1, <1>2, <1>5, Loses
<1>7. RefsExact'
  BY <1>2, <1>3, <1>5, <1>6, Alive DEF RefsExact, Waiters, Readers, Unresolved
<1>8. waitRefs' \in Nat /\ valRefs' \in Nat /\ valRefs' <= valRefs /\ valRefs \in Nat
  BY <1>2, <1>3, <1>5, <1>6, Alive DEF IInv, TypeOK
<1>9. val' \in {"uninit", "set", "moved"} /\ freed' \in BOOLEAN
  BY <1>2, <1>3, <1>5 DEF IInv, TypeOK
<1>10. TypeOK'
  BY <1>1, <1>2, <1>4, <1>8, <1>9, TypesKept
<1>11. NobodyLeftWaiting'
  BY <1>1, <1>2, StillNobodyWaits
<1>12. LifetimesFollowRefs'
  BY <1>2, <1>3, <1>5, <1>8 DEF IInv, TypeOK, LifetimesFollowRefs
<1> QED BY <1>4, <1>7, <1>10, <1>11, <1>12 DEF IInv, NoUndefinedBehaviour

LEMMA UpdateStateStep ==
    ASSUME IInv, NEW h \in Handles, UpdateState(h)
    PROVE  IInv'
<1> DEFINE n == IF kind[h] = "with" THEN 1 ELSE 0
<1>1. /\ kind \in [Handles -> Kinds] /\ "done" \in Kinds \ {"with", "without"}
      /\ Unresolved(h) /\ ~freed /\ resolved
  BY Alive DEF UpdateState, IInv, TypeOK, Kinds
<1>2. /\ Become(h, "done") /\ waitRefs' = waitRefs - 1
      /\ freed' = (waitRefs - 1 = 0)
      /\ UNCHANGED <<writer, resolved, asleep>>
  BY <1>1 DEF UpdateState, Resolve, FreedAt
<1>3. /\ valRefs' = valRefs - n
      /\ n = 0 => val' = val
      /\ n = 1 => val' = IF valRefs' = 0 THEN "moved" ELSE val
  BY DEF UpdateState, Resolve, TakeVal, IInv, TypeOK
<1>4. kind[h] = "with" => val = "set"
  BY <1>1, Alive DEF IInv, LifetimesFollowRefs
<1>5. ub' = FALSE
  BY <1>1, <1>4 DEF UpdateState, Resolve, Touch, IInv, NoUndefinedBehaviour
<1>6. n \in {0, 1} /\ n = (IF kind[h] = "with" THEN 1 ELSE 0)
  OBVIOUS
<1> HIDE DEF n
<1>7. /\ Cardinality(Waiters(kind')) = Cardinality(Waiters(kind)) - 1
      /\ Cardinality(Waiters(kind)) > 0
      /\ Cardinality(Readers(kind')) = Cardinality(Readers(kind)) - n
      /\ n = 1 => Cardinality(Readers(kind)) > 0
  BY <1>1, <1>2, <1>6, Loses
<1>8. RefsExact'
  BY <1>2, <1>3, <1>6, <1>7, Alive DEF RefsExact, Waiters, Readers, Unresolved
<1>9. waitRefs' \in Nat /\ valRefs' \in Nat /\ valRefs' <= valRefs /\ valRefs \in Nat
  BY <1>2, <1>3, <1>6, <1>7, Alive DEF IInv, TypeOK
<1>10. val' \in {"uninit", "set", "moved"} /\ freed' \in BOOLEAN
  BY <1>2, <1>3, <1>6 DEF IInv, TypeOK
<1>11. TypeOK'
  BY <1>1, <1>2, <1>5, <1>9, <1>10, TypesKept
<1>12. NobodyLeftWaiting'
  BY <1>1, <1>2, StillNobodyWaits
<1>13. LifetimesFollowRefs'
  <2>1. freed' <=> waitRefs' = 0
    BY <1>2
  <2>2. val = "set" <=> valRefs > 0
    BY <1>1 DEF IInv, LifetimesFollowRefs
  <2>3. val' = "set" <=> valRefs' > 0
    BY <2>2, <1>3, <1>6, <1>9
  <2> QED BY <2>1, <2>3, <1>1, <1>2 DEF IInv, LifetimesFollowRefs
<1> QED BY <1>5, <1>8, <1>11, <1>12, <1>13 DEF IInv, NoUndefinedBehaviour

LEMMA BlockStep ==
    ASSUME IInv, NEW h \in Handles, Block(h)
    PROVE  IInv'
<1>1. /\ UNCHANGED <<kind, writer, waitRefs, valRefs, resolved, val, freed>>
      /\ asleep' = asleep \cup {h} /\ ~resolved /\ Unresolved(h)
  BY DEF Block, refVars
<1>2. ub' = FALSE
  BY <1>1, Alive DEF Block, Touch, IInv, NoUndefinedBehaviour
<1> QED BY <1>1, <1>2 DEF IInv, TypeOK, NoUndefinedBehaviour, RefsExact, Unresolved,
                          LifetimesFollowRefs, NobodyLeftWaiting

LEMMA WhenResolvedStep ==
    ASSUME IInv, NEW h \in Handles, WhenResolved(h)
    PROVE  IInv'
<1> DEFINE k == IF kind[h] = "with" THEN "act" ELSE "actUnit"
<1>1. /\ kind \in [Handles -> Kinds] /\ k \in Kinds \ {"with", "without"}
      /\ Unresolved(h) /\ ~freed /\ ~resolved
  BY Alive DEF WhenResolved, IInv, TypeOK, Kinds
<1>2. /\ Become(h, k) /\ waitRefs' = waitRefs - 1
      /\ UNCHANGED <<writer, valRefs, resolved, val, asleep, freed>>
  BY DEF WhenResolved
<1>3. ub' = FALSE
  BY <1>1 DEF WhenResolved, Touch, IInv, NoUndefinedBehaviour
<1>4. /\ kind[h] = "with" => k = "act"
      /\ kind[h] # "with" => k # "act"
  OBVIOUS
<1> HIDE DEF k
<1>5. /\ Cardinality(Waiters(kind')) = Cardinality(Waiters(kind)) - 1
      /\ Cardinality(Waiters(kind)) > 0
      /\ Cardinality(Readers(kind')) = Cardinality(Readers(kind))
  BY <1>1, <1>2, <1>4, Loses, CountsFinite
<1>6. RefsExact'
  BY <1>2, <1>5, Alive DEF RefsExact, Waiters, Readers, Unresolved
<1>7. writer /\ waitRefs' > 0 /\ waitRefs' \in Nat /\ valRefs' \in Nat
  BY <1>1, <1>2, <1>5, Alive DEF IInv, TypeOK, LifetimesFollowRefs
<1>8. val' \in {"uninit", "set", "moved"} /\ freed' \in BOOLEAN
  BY <1>2 DEF IInv, TypeOK
<1>9. TypeOK'
  BY <1>1, <1>2, <1>3, <1>7, <1>8, TypesKept
<1>10. NobodyLeftWaiting'
  BY <1>1, <1>2, StillNobodyWaits
<1>11. LifetimesFollowRefs'
  BY <1>1, <1>2, <1>7 DEF IInv, TypeOK, LifetimesFollowRefs
<1> QED BY <1>3, <1>6, <1>9, <1>10, <1>11 DEF IInv, NoUndefinedBehaviour

\* Finishing turns every action into "ran": the readers lose exactly those
\* that wanted the value.
LEMMA FinishStep ==
    ASSUME IInv, Finish
    PROVE  IInv'
<1> DEFINE A    == Acting("act")
           left == valRefs - Cardinality(A)
<1>1. /\ writer /\ ~freed /\ ~resolved /\ val = "uninit"
      /\ kind \in [Handles -> Kinds] /\ waitRefs \in Nat /\ valRefs \in Nat
  BY Alive DEF Finish, IInv, TypeOK
<1>2. /\ Waiters(kind') = Waiters(kind)
      /\ Readers(kind') = Readers(kind) \ A
      /\ A \subseteq Readers(kind)
      /\ kind' \in [Handles -> Kinds]
      /\ \A h \in Handles : kind'[h] \notin {"act", "actUnit"}
  BY <1>1 DEF Finish, Waiters, Readers, Acting, Kinds
<1>3. /\ Cardinality(Readers(kind')) = left
      /\ left \in Nat /\ left <= valRefs
      /\ Cardinality(A) \in Nat
      /\ A # {} => Cardinality(A) > 0
  <2>1. IsFiniteSet(Readers(kind)) /\ valRefs = Cardinality(Readers(kind))
    BY CountsFinite, Alive
  <2>2. IsFiniteSet(A) /\ Cardinality(A) \in Nat /\ Cardinality(A) <= valRefs
    BY <2>1, <1>2, FS_Subset, FS_CardinalityType
  <2>3. Readers(kind) \cap A = A
    BY <1>2
  <2>4. Cardinality(Readers(kind) \ A) = valRefs - Cardinality(A)
    BY <2>1, <2>2, <2>3, FS_Difference
  <2>5. A # {} => Cardinality(A) # 0
    BY <2>2, FS_EmptySet
  <2> QED BY <1>1, <1>2, <2>2, <2>4, <2>5
<1>4. /\ resolved' = TRUE /\ writer' = FALSE /\ valRefs' = left
      /\ waitRefs' = waitRefs - 1 /\ freed' = (waitRefs - 1 = 0)
      /\ asleep' = {}
      /\ val' = IF A # {} /\ left = 0 THEN "moved" ELSE IF valRefs # 0 THEN "set" ELSE val
      /\ ub' = (A # {} /\ valRefs = 0)
  BY <1>1 DEF Finish, WakeAll, FreedAt, IInv, NoUndefinedBehaviour
<1>5. A # {} => valRefs # 0
  BY <1>1, <1>3
<1> HIDE DEF A, left
<1>6. ub' = FALSE
  BY <1>4, <1>5, Zenon
<1>7. RefsExact'
  <2>1. /\ waitRefs' = Cardinality(Waiters(kind'))
        /\ valRefs' = Cardinality(Readers(kind'))
    BY <1>1, <1>2, <1>3, <1>4, Alive
  <2>2. Cardinality(Waiters(kind')) \in Nat
    BY CountsFinite
  <2>3. waitRefs' = Cardinality(Waiters(kind')) + (IF writer' THEN 1 ELSE 0)
    BY <2>1, <2>2, <1>4
  <2> QED BY <2>1, <2>3 DEF RefsExact, Waiters, Readers, Unresolved
<1>8. waitRefs' \in Nat
  BY <1>1, <1>4, Alive
<1>9. val' \in {"uninit", "set", "moved"} /\ freed' \in BOOLEAN
  BY <1>1, <1>4
<1>10. TypeOK'
  BY <1>2, <1>3, <1>4, <1>6, <1>8, <1>9 DEF TypeOK
<1>11. NobodyLeftWaiting'
  BY <1>2, <1>4 DEF NobodyLeftWaiting, Acting
<1>12. A = {} => left = valRefs
  BY <1>1, FS_EmptySet DEF left
<1>13. LifetimesFollowRefs'
  <2>1. freed' <=> waitRefs' = 0
    BY <1>4
  <2>2. val' = "set" <=> valRefs' > 0
    BY <1>1, <1>3, <1>4, <1>5, <1>12
  <2> QED BY <2>1, <2>2, <1>4 DEF LifetimesFollowRefs
<1> QED BY <1>6, <1>7, <1>10, <1>11, <1>13 DEF IInv, NoUndefinedBehaviour

-----------------------------------------------------------------------------
(* The theorems                                                            *)

\* Future::new and FutureWriter::new establish the invariant and every
\* operation preserves it, for any finite set of handles.
THEOREM CountsInvariant == Spec => []IInv
<1>1. Init => IInv
  <2> SUFFICES ASSUME Init PROVE IInv
    OBVIOUS
  <2>1. PICK with \in BOOLEAN :
           /\ kind = [h \in Handles |-> IF with /\ h = First THEN "with" ELSE "none"]
           /\ waitRefs = IF with THEN 2 ELSE 1
           /\ valRefs = IF with THEN 1 ELSE 0
    BY DEF Init
  <2>2. Waiters(kind) = (IF with THEN {First} ELSE {}) /\ Readers(kind) = Waiters(kind)
    BY <2>1, FutureAssumption DEF Waiters, Readers
  <2>3. Cardinality(Waiters(kind)) = (IF with THEN 1 ELSE 0)
    BY <2>2, FS_Singleton, FS_EmptySet
  <2>4. RefsExact
    BY <2>1, <2>2, <2>3, RefsExactSets DEF Init
  <2>5. TypeOK
    <3>1. kind \in [Handles -> Kinds]
      BY <2>1 DEF Kinds
    <3>2. waitRefs \in Nat /\ valRefs \in Nat /\ waitRefs > 0
      BY <2>1
    <3> QED BY <3>1, <3>2 DEF TypeOK, Init
  <2>6. waitRefs # 0
    BY <2>1
  <2> QED BY <2>4, <2>5, <2>6
          DEF IInv, Init, NoUndefinedBehaviour, LifetimesFollowRefs, NobodyLeftWaiting
<1>2. IInv /\ [Next]_vars => IInv'
  <2> SUFFICES ASSUME IInv, [Next]_vars PROVE IInv'
    OBVIOUS
  <2>1. CASE Next
    BY <2>1, CloneStep, WithoutValStep, AsFutureStep, DropStep, UpdateStateStep,
       BlockStep, WhenResolvedStep, FinishStep DEF Next
  <2>2. CASE UNCHANGED vars
    BY <2>2 DEF vars, refVars, IInv, TypeOK, NoUndefinedBehaviour, RefsExact, Unresolved,
                LifetimesFollowRefs, NobodyLeftWaiting, Acting
  <2> QED BY <2>1, <2>2
<1> QED BY <1>1, <1>2, PTL DEF Spec

\* No operation of future.rs touches freed memory or reads a value that is not
\* there, however many handles there are.
THEOREM MemorySafe == Spec => []NoUndefinedBehaviour
<1>1. IInv => NoUndefinedBehaviour
  BY DEF IInv
<1> QED BY <1>1, CountsInvariant, PTL

\* wait_refs and val_refs are exact for any number of handles.
THEOREM CountsExact == Spec => []RefsExact
<1>1. IInv => RefsExact
  BY DEF IInv
<1> QED BY <1>1, CountsInvariant, PTL

\* The FutureWait and the value outlive everyone who will use them.
THEOREM ReadersServed == Spec => []ReadersCanRead
<1>1. IInv => ReadersCanRead
  <2> SUFFICES ASSUME IInv PROVE ReadersCanRead
    OBVIOUS
  <2>1. resolved /\ (\E h \in Handles : kind[h] = "with") => val = "set"
    BY Alive DEF IInv, LifetimesFollowRefs
  <2>2. freed => ~writer /\ \A h \in Handles : ~Unresolved(h)
    BY Alive
  <2> QED BY <2>1, <2>2 DEF ReadersCanRead
<1> QED BY <1>1, CountsInvariant, PTL

\* The FutureWait is freed and its value gone once nobody refers to them.
THEOREM LeakFree == Spec => []NothingLeaks
<1>1. IInv => NothingLeaks
  <2> SUFFICES ASSUME IInv, ~writer, \A h \in Handles : ~Unresolved(h)
               PROVE  freed /\ val # "set"
    BY DEF NothingLeaks
  <2>1. Waiters(kind) = {}
    BY DEF Waiters, Unresolved
  <2>2. waitRefs = 0
    BY <2>1, Alive, FS_EmptySet
  <2>3. resolved /\ \A h \in Handles : kind[h] # "act"
    BY DEF IInv, LifetimesFollowRefs, NobodyLeftWaiting, Acting
  <2>4. Readers(kind) = {}
    BY <2>3 DEF Readers, Unresolved
  <2>5. valRefs = 0
    BY <2>4, Alive, FS_EmptySet
  <2> QED BY <2>2, <2>5 DEF IInv, LifetimesFollowRefs
<1> QED BY <1>1, CountsInvariant, PTL

\* No sleeper and no callback is left on a resolved future: a block_until_ready
\* or when_resolved that races with the finish is served by it.
THEOREM SleepersServed == Spec => []NobodyLeftWaiting
<1>1. IInv => NobodyLeftWaiting
  BY DEF IInv
<1> QED BY <1>1, CountsInvariant, PTL

-----------------------------------------------------------------------------
(* Future::all and Future::any                                             *)

\* The inputs on which the builder has hung its callback.
Seen == 1 .. (IF step = "hook" THEN num - 1 ELSE num)

\* A reference that exists or not.
One(b) == IF b THEN 1 ELSE 0

\* The types of the variables of FutureJoin.
JoinTypes ==
    /\ op \in {"all", "any"}
    /\ len \in 0 .. MaxInputs
    /\ num \in 0 .. len
    /\ step \in {"loop", "hook", "convert", "drop", "done"}
    /\ resolvedIn \in SUBSET (1 .. len)
    /\ slot \in Int
    /\ refs \in Nat
    /\ done \in BOOLEAN
    /\ result \in {"future", "with", "without", "gone"}

\* The builder is where its state says, and the inputs it has been at and that
\* have not resolved are those that hold a callback.
BuilderOK ==
    /\ hooked = Seen \ resolvedIn
    /\ step = "hook" => op = "any" /\ num > 0
    /\ step = "convert" => op = "all"
    /\ step \in {"convert", "drop", "done"} => num = len
    /\ step \in {"loop", "hook", "convert"} <=> result = "future"
    /\ step = "drop" => result \in {"without", "gone"}
    /\ op = "any" /\ step = "drop" => len = 0
    /\ result = "with" => op = "any"
    /\ result = "without" => op = "all"

\* all: the slot counts the callbacks to come, on top of what is left of the
\* head start; the result is referred to by the writer and by its handles.
AllCounts ==
    op = "all" =>
        /\ step = "loop" => ~done /\ slot = UsizeMax - num + Cardinality(hooked)
        /\ step # "loop" => /\ done <=> hooked = {}
                            /\ ~done => slot = Cardinality(hooked)
        /\ refs = One(step \in {"loop", "convert", "drop"}) + One(~done) + One(result = "without")

\* any: every callback to come has a reference, and so have the builder and
\* the handle.
AnyCounts ==
    op = "any" =>
        /\ done <=> Seen \cap resolvedIn # {}
        /\ done => slot \in resolvedIn
        /\ refs = Cardinality(hooked) + One(step \in {"loop", "hook"}) + One(step = "hook")
                    + One(result \in {"future", "with"} \/ step = "drop")

\* The inductive invariant.
JoinInv ==
    /\ JoinTypes
    /\ BuilderOK
    /\ AllCounts
    /\ AnyCounts
    /\ destroyed <=> refs = 0
    /\ ~bad

\* What the proofs need of the size of hooked.
LEMMA HookedCount ==
    ASSUME JoinInv
    PROVE  /\ IsFiniteSet(hooked)
           /\ Cardinality(hooked) \in Nat
           /\ Cardinality(hooked) = 0 <=> hooked = {}
           /\ \A i \in hooked : Cardinality(hooked \ {i}) = Cardinality(hooked) - 1
           /\ \A i \in Int : i \notin hooked => Cardinality(hooked \cup {i}) = Cardinality(hooked) + 1
<1>1. num \in Int /\ hooked \subseteq 1 .. num
  BY DEF JoinInv, JoinTypes, BuilderOK, Seen
<1>2. IsFiniteSet(hooked)
  <2>1. IsFiniteSet(1 .. num)
    BY <1>1, FS_Interval
  <2> QED BY <1>1, <2>1, FS_Subset
<1> QED BY <1>2, FS_CardinalityType, FS_EmptySet, FS_AddElement, FS_RemoveElement

\* Nobody who may still use the result finds it freed.
LEMMA ResultAlive ==
    ASSUME JoinInv
    PROVE  /\ step # "done" => ~destroyed
           /\ result # "gone" => ~destroyed
           /\ hooked # {} => ~destroyed
BY HookedCount DEF JoinInv, JoinTypes, BuilderOK, AllCounts, AnyCounts, One

\* An input that holds a callback resolves and runs it.
LEMMA ResolveStep ==
    ASSUME JoinInv, NEW i \in 1 .. len, J!Resolve(i)
    PROVE  JoinInv'
<1>1. /\ i \notin resolvedIn /\ resolvedIn' = resolvedIn \cup {i}
      /\ UNCHANGED <<op, len, step, num, result>>
      /\ i \in hooked <=> i \in Seen
  BY DEF J!Resolve, JoinInv, BuilderOK
<1>2. JoinTypes => resolvedIn' \in SUBSET (1 .. len)
  BY <1>1 DEF JoinTypes
<1>3. Seen' = Seen
  BY <1>1 DEF Seen
<1>4. CASE i \notin hooked
  <2>1. UNCHANGED <<hooked, slot, refs, done, destroyed, bad>>
    BY <1>4 DEF J!Resolve, J!resVars
  <2>2. hooked' = Seen' \ resolvedIn'
    BY <1>1, <1>3, <1>4, <2>1 DEF JoinInv, BuilderOK
  <2>3. Seen' \cap resolvedIn' = Seen \cap resolvedIn
    BY <1>1, <1>3, <1>4
  <2> QED BY <1>1, <1>2, <2>1, <2>2, <2>3
          DEF JoinInv, JoinTypes, BuilderOK, AllCounts, AnyCounts, One
<1>5. CASE i \in hooked
  <2>1. hooked' = hooked \ {i} /\ J!Callback(i)
    BY <1>5 DEF J!Resolve
  <2>2. /\ Cardinality(hooked') = Cardinality(hooked) - 1
        /\ Cardinality(hooked) \in Nat \ {0}
        /\ hooked' = {} <=> Cardinality(hooked) = 1
    <3>1. Cardinality(hooked') = Cardinality(hooked) - 1 /\ Cardinality(hooked) \in Nat \ {0}
      BY <1>5, <2>1, HookedCount
    <3>2. Cardinality(hooked') = 0 <=> hooked' = {}
      BY <2>1, HookedCount, FS_Subset, FS_EmptySet
    <3> QED BY <3>1, <3>2
  <2>3. hooked' = Seen' \ resolvedIn'
    BY <1>1, <1>3, <2>1 DEF JoinInv, BuilderOK
  <2>4. i \in Seen' \cap resolvedIn'
    BY <1>1, <1>3, <1>5
  <2>5. ~destroyed
    BY <1>5, ResultAlive
  <2>6. CASE op = "all"
    <3>1. J!AllCallback(i)
      BY <2>1, <2>6 DEF J!Callback
    <3>2. CASE step = "loop"
      <4>1. slot = UsizeMax - num + Cardinality(hooked) /\ slot # 1
        BY <2>2, <2>6, <3>2, JoinBounds DEF JoinInv, JoinTypes, AllCounts, J!JoinAssumption
      <4>2. slot' = slot - 1 /\ UNCHANGED <<refs, done, destroyed>> /\ ~bad'
        BY <2>5, <3>1, <4>1 DEF J!AllCallback, JoinInv
      <4>3. JoinTypes' /\ BuilderOK'
        BY <1>1, <1>2, <2>3, <4>1, <4>2 DEF JoinInv, JoinTypes, BuilderOK
      <4>4. AllCounts' /\ AnyCounts'
        BY <1>1, <2>2, <2>6, <3>2, <4>1, <4>2, JoinBounds
           DEF JoinInv, JoinTypes, AllCounts, AnyCounts, One, J!JoinAssumption
      <4> QED BY <4>2, <4>3, <4>4 DEF JoinInv
    <3>3. CASE step # "loop"
      <4>1. ~done /\ slot = Cardinality(hooked)
        BY <1>5, <2>6, <3>3 DEF JoinInv, AllCounts
      <4>2. CASE slot = 1
        <5>1. done' /\ refs' = refs - 1 /\ (destroyed' <=> refs = 1) /\ ~bad'
          BY <2>5, <3>1, <4>1, <4>2
             DEF J!AllCallback, J!FinishInternal, J!DecWaitRef, JoinInv
        <5>2. slot' = slot
          BY <3>1, <4>2 DEF J!AllCallback
        <5>3. refs > 0
          BY <2>5 DEF JoinInv, JoinTypes
        <5>4. JoinTypes' /\ BuilderOK'
          BY <1>1, <1>2, <2>3, <5>1, <5>2, <5>3 DEF JoinInv, JoinTypes, BuilderOK
        <5>5. AllCounts' /\ AnyCounts'
          BY <1>1, <2>2, <2>6, <3>3, <4>1, <4>2, <5>1, <5>3
             DEF JoinInv, JoinTypes, BuilderOK, AllCounts, AnyCounts, One
        <5>6. destroyed' <=> refs' = 0
          BY <5>1, <5>3 DEF JoinInv, JoinTypes
        <5> QED BY <5>1, <5>4, <5>5, <5>6 DEF JoinInv
      <4>3. CASE slot # 1
        <5>1. slot' = slot - 1 /\ UNCHANGED <<refs, done, destroyed>> /\ ~bad'
          BY <2>5, <3>1, <4>3 DEF J!AllCallback, JoinInv
        <5> QED BY <1>1, <1>2, <2>2, <2>3, <2>6, <3>3, <4>1, <4>3, <5>1
                DEF JoinInv, JoinTypes, BuilderOK, AllCounts, AnyCounts, One
      <4> QED BY <4>2, <4>3
    <3> QED BY <3>2, <3>3
  <2>7. CASE op = "any"
    <3>1. J!AnyCallback(i)
      BY <2>1, <2>7 DEF J!Callback
    <3>2. /\ done' /\ refs' = refs - 1 /\ (destroyed' <=> refs = 1) /\ ~bad'
          /\ slot' = IF done THEN slot ELSE i
      BY <2>5, <3>1 DEF J!AnyCallback, J!FinishInternal, J!DecWaitRef, J!Touch, JoinInv, JoinTypes
    <3>3. refs > 0
      BY <2>5 DEF JoinInv, JoinTypes
    <3>4. slot' \in resolvedIn' /\ slot' \in Int
      BY <1>1, <2>7, <3>2 DEF JoinInv, JoinTypes, AnyCounts
    <3>5. JoinTypes' /\ BuilderOK'
      BY <1>1, <1>2, <2>3, <3>2, <3>3, <3>4 DEF JoinInv, JoinTypes, BuilderOK
    <3>6. AllCounts' /\ AnyCounts'
      BY <1>1, <2>2, <2>4, <2>7, <3>2, <3>4
         DEF JoinInv, JoinTypes, BuilderOK, AllCounts, AnyCounts, One
    <3>7. destroyed' <=> refs' = 0
      BY <3>2, <3>3 DEF JoinInv, JoinTypes
    <3> QED BY <3>2, <3>5, <3>6, <3>7 DEF JoinInv
  <2> QED BY <2>6, <2>7 DEF JoinInv, JoinTypes
<1> QED BY <1>4, <1>5

\* all hangs its callback on the next input, or runs it.
LEMMA AllAddStep ==
    ASSUME JoinInv, J!AllAdd
    PROVE  JoinInv'
<1>1. /\ op = "all" /\ step = "loop" /\ num < len /\ num' = num + 1
      /\ UNCHANGED <<op, len, step, result>>
      /\ ~done /\ slot = UsizeMax - num + Cardinality(hooked) /\ ~destroyed
  BY ResultAlive DEF J!AllAdd, JoinInv, AllCounts
<1>2. num \in Nat /\ num' \in 0 .. len /\ len \in Nat /\ UsizeMax \in Nat /\ len < UsizeMax
  BY <1>1, JoinBounds DEF JoinInv, JoinTypes, J!JoinAssumption
<1>3. Seen = 1 .. num /\ Seen' = 1 .. (num + 1) /\ hooked = Seen \ resolvedIn
  BY <1>1 DEF Seen, JoinInv, BuilderOK
<1>4. Cardinality(hooked) \in Nat
  BY HookedCount
<1>5. CASE num + 1 \in resolvedIn
  <2>1. J!AllCallback(num + 1) /\ UNCHANGED <<resolvedIn, hooked>>
    BY <1>1, <1>5 DEF J!AllAdd, J!Hook, J!Callback, J!inVars
  <2>2. slot # 1
    BY <1>1, <1>2, <1>4
  <2>3. slot' = slot - 1 /\ UNCHANGED <<refs, done, destroyed>> /\ ~bad'
    BY <1>1, <2>1, <2>2 DEF J!AllCallback, JoinInv
  <2>4. hooked' = Seen' \ resolvedIn'
    BY <1>2, <1>3, <1>5, <2>1
  <2>5. JoinTypes' /\ BuilderOK'
    BY <1>1, <1>2, <2>1, <2>3, <2>4 DEF JoinInv, JoinTypes, BuilderOK
  <2>6. AllCounts' /\ AnyCounts'
    BY <1>1, <1>2, <1>4, <2>1, <2>3 DEF JoinInv, JoinTypes, AllCounts, AnyCounts, One
  <2> QED BY <2>3, <2>5, <2>6 DEF JoinInv
<1>6. CASE num + 1 \notin resolvedIn
  <2>1. hooked' = hooked \cup {num + 1} /\ UNCHANGED <<slot, refs, done, destroyed, bad, resolvedIn>>
    BY <1>1, <1>6 DEF J!AllAdd, J!Hook, J!resVars
  <2>2. Cardinality(hooked') = Cardinality(hooked) + 1
    <3>1. num + 1 \in Int /\ num + 1 \notin hooked
      BY <1>2, <1>3
    <3> QED BY <2>1, <3>1, HookedCount
  <2>3. hooked' = Seen' \ resolvedIn'
    BY <1>2, <1>3, <1>6, <2>1
  <2>4. JoinTypes' /\ BuilderOK'
    BY <1>1, <1>2, <2>1, <2>3 DEF JoinInv, JoinTypes, BuilderOK
  <2>5. AllCounts' /\ AnyCounts'
    BY <1>1, <1>2, <1>4, <2>1, <2>2 DEF JoinInv, JoinTypes, AllCounts, AnyCounts, One
  <2> QED BY <2>1, <2>4, <2>5 DEF JoinInv
<1> QED BY <1>5, <1>6

\* all takes the head start away and finishes the result if nothing is left.
LEMMA AllBuiltStep ==
    ASSUME JoinInv, J!AllBuilt
    PROVE  JoinInv'
<1>1. /\ op = "all" /\ step = "loop" /\ num = len /\ step' = "convert"
      /\ UNCHANGED <<op, len, num, resolvedIn, hooked, result>>
      /\ ~done /\ slot = UsizeMax - num + Cardinality(hooked) /\ ~destroyed
  BY ResultAlive DEF J!AllBuilt, J!inVars, JoinInv, AllCounts
<1>2. num \in Nat /\ UsizeMax \in Nat /\ Cardinality(hooked) \in Nat
  BY JoinBounds, HookedCount DEF JoinInv, JoinTypes, J!JoinAssumption
<1>3. J!Settle = Cardinality(hooked)
  BY <1>1, <1>2 DEF J!Settle
<1>4. slot' = Cardinality(hooked) /\ ~bad'
  BY <1>1, <1>3 DEF J!AllBuilt, JoinInv
<1>5. Seen' = Seen
  BY <1>1 DEF Seen
<1>6. BuilderOK'
  BY <1>1, <1>5 DEF JoinInv, BuilderOK
<1>7. refs = 2
  BY <1>1 DEF JoinInv, BuilderOK, AllCounts, One
<1>8. CASE hooked = {}
  <2>1. Cardinality(hooked) = 0
    BY <1>8, HookedCount
  <2>2. done' /\ done' \in BOOLEAN /\ refs' = 1 /\ ~destroyed'
    <3>1. J!FinishInternal
      BY <1>3, <2>1 DEF J!AllBuilt
    <3>2. done' /\ done' \in BOOLEAN
      BY <3>1 DEF J!FinishInternal
    <3>3. refs' = refs - 1 /\ (destroyed' <=> destroyed \/ refs = 1)
      BY <3>1 DEF J!FinishInternal, J!DecWaitRef
    <3> QED BY <1>1, <1>7, <3>2, <3>3
  <2>3. JoinTypes' /\ AllCounts' /\ AnyCounts'
    BY <1>1, <1>2, <1>4, <1>8, <2>2 DEF JoinInv, JoinTypes, BuilderOK, AllCounts, AnyCounts, One
  <2> QED BY <1>4, <1>6, <2>2, <2>3 DEF JoinInv
<1>9. CASE hooked # {}
  <2>1. Cardinality(hooked) # 0
    BY <1>9, HookedCount
  <2>2. UNCHANGED <<refs, done, destroyed>>
    BY <1>3, <2>1 DEF J!AllBuilt
  <2>3. JoinTypes' /\ AllCounts' /\ AnyCounts'
    BY <1>1, <1>2, <1>4, <1>9, <2>2 DEF JoinInv, JoinTypes, BuilderOK, AllCounts, AnyCounts, One
  <2> QED BY <1>4, <1>6, <2>2, <2>3 DEF JoinInv
<1> QED BY <1>8, <1>9

\* The handle without the value is made.
LEMMA ConvertStep ==
    ASSUME JoinInv, J!Convert
    PROVE  JoinInv'
<1>1. /\ step = "convert" /\ step' = "drop" /\ op = "all" /\ num = len /\ ~destroyed
      /\ UNCHANGED <<op, len, num, resolvedIn, hooked, slot, done, destroyed>>
      /\ ~bad'
      /\ result' = IF done THEN "gone" ELSE "without"
      /\ refs' = IF done THEN refs ELSE refs + 1
  BY ResultAlive DEF J!Convert, J!inVars, J!Touch, JoinInv, BuilderOK
<1>2. Seen' = Seen
  BY <1>1 DEF Seen
<1>3. JoinTypes' /\ BuilderOK'
  BY <1>1, <1>2 DEF JoinInv, JoinTypes, BuilderOK
<1>4. AllCounts' /\ AnyCounts'
  BY <1>1 DEF JoinInv, JoinTypes, BuilderOK, AllCounts, AnyCounts, One
<1>5. destroyed' <=> refs' = 0
  BY <1>1 DEF JoinInv, JoinTypes
<1> QED BY <1>1, <1>3, <1>4, <1>5 DEF JoinInv

\* The handle with the value is dropped.
LEMMA DropFutureStep ==
    ASSUME JoinInv, J!DropFuture
    PROVE  JoinInv'
<1>1. /\ step = "drop" /\ step' = "done" /\ num = len /\ ~destroyed
      /\ UNCHANGED <<op, len, num, resolvedIn, hooked, slot, done, result>>
      /\ ~bad' /\ refs' = refs - 1 /\ (destroyed' <=> refs = 1)
  BY ResultAlive DEF J!DropFuture, J!DecWaitRef, J!inVars, J!Touch, JoinInv, BuilderOK
<1>2. Seen' = Seen /\ refs \in Nat \ {0}
  BY <1>1 DEF Seen, JoinInv, JoinTypes
<1>3. JoinTypes' /\ BuilderOK'
  BY <1>1, <1>2 DEF JoinInv, JoinTypes, BuilderOK
<1>4. AllCounts' /\ AnyCounts'
  BY <1>1, <1>2, HookedCount DEF JoinInv, JoinTypes, BuilderOK, AllCounts, AnyCounts, One
<1>5. destroyed' <=> refs' = 0
  BY <1>1, <1>2
<1> QED BY <1>1, <1>3, <1>4, <1>5 DEF JoinInv

\* any counts the next input before it hangs its callback on it.
LEMMA AnyCountStep ==
    ASSUME JoinInv, J!AnyCount
    PROVE  JoinInv'
<1>1. /\ op = "any" /\ step = "loop" /\ num < len /\ step' = "hook" /\ num' = num + 1
      /\ ~destroyed /\ ~bad' /\ refs' = refs + 1
      /\ UNCHANGED <<op, len, resolvedIn, hooked, slot, done, destroyed, result>>
  BY ResultAlive DEF J!AnyCount, J!inVars, J!Touch, JoinInv
<1>2. Seen' = Seen /\ num' \in 0 .. len /\ num' > 0
  BY <1>1 DEF Seen, JoinInv, JoinTypes
<1>3. JoinTypes' /\ BuilderOK'
  BY <1>1, <1>2 DEF JoinInv, JoinTypes, BuilderOK
<1>4. AllCounts' /\ AnyCounts'
  BY <1>1, <1>2, HookedCount DEF JoinInv, JoinTypes, BuilderOK, AllCounts, AnyCounts, One
<1>5. destroyed' <=> refs' = 0
  BY <1>1 DEF JoinInv, JoinTypes
<1> QED BY <1>1, <1>3, <1>4, <1>5 DEF JoinInv

\* any hangs its callback on the input it has counted, or runs it.
LEMMA AnyAddStep ==
    ASSUME JoinInv, J!AnyAdd
    PROVE  JoinInv'
<1>1. /\ op = "any" /\ step = "hook" /\ step' = "loop" /\ num > 0 /\ ~destroyed
      /\ UNCHANGED <<op, len, num, result>>
  BY ResultAlive DEF J!AnyAdd, JoinInv, BuilderOK
<1>2. num \in Nat /\ len \in Nat /\ num <= len /\ refs \in Nat \ {0}
  BY <1>1 DEF JoinInv, JoinTypes
<1>3. Seen = 1 .. (num - 1) /\ Seen' = 1 .. num /\ hooked = Seen \ resolvedIn
  BY <1>1 DEF Seen, JoinInv, BuilderOK
<1>4. Cardinality(hooked) \in Nat
  BY HookedCount
<1>5. CASE num \in resolvedIn
  <2>1. J!AnyCallback(num) /\ UNCHANGED <<resolvedIn, hooked>>
    BY <1>1, <1>5 DEF J!AnyAdd, J!Hook, J!Callback, J!inVars
  <2>2. /\ done' /\ refs' = refs - 1 /\ (destroyed' <=> refs = 1) /\ ~bad'
        /\ slot' = IF done THEN slot ELSE num
    BY <1>1, <2>1 DEF J!AnyCallback, J!FinishInternal, J!DecWaitRef, J!Touch, JoinInv, JoinTypes
  <2>3. done' \in BOOLEAN
    BY <2>1 DEF J!AnyCallback, J!FinishInternal, JoinInv, JoinTypes
  <2>4. slot' \in resolvedIn' /\ slot' \in Int
    BY <1>1, <1>2, <1>5, <2>1, <2>2 DEF JoinInv, JoinTypes, AnyCounts
  <2>5. hooked' = Seen' \ resolvedIn' /\ num \in Seen' \cap resolvedIn'
    BY <1>2, <1>3, <1>1, <1>5, <2>1
  <2>6. JoinTypes' /\ BuilderOK'
    BY <1>1, <1>2, <2>1, <2>2, <2>3, <2>4, <2>5 DEF JoinInv, JoinTypes, BuilderOK
  <2>7. AllCounts' /\ AnyCounts'
    BY <1>1, <1>2, <1>4, <2>1, <2>2, <2>4, <2>5 DEF JoinInv, JoinTypes, BuilderOK, AllCounts, AnyCounts, One
  <2>8. destroyed' <=> refs' = 0
    BY <1>2, <2>2
  <2> QED BY <2>2, <2>6, <2>7, <2>8 DEF JoinInv
<1>6. CASE num \notin resolvedIn
  <2>1. hooked' = hooked \cup {num} /\ UNCHANGED <<slot, refs, done, destroyed, bad, resolvedIn>>
    BY <1>1, <1>6 DEF J!AnyAdd, J!Hook, J!resVars
  <2>2. Cardinality(hooked') = Cardinality(hooked) + 1
    <3>1. num \in Int /\ num \notin hooked
      BY <1>2, <1>3
    <3> QED BY <2>1, <3>1, HookedCount
  <2>3. hooked' = Seen' \ resolvedIn' /\ Seen' \cap resolvedIn' = Seen \cap resolvedIn
    BY <1>1, <1>2, <1>3, <1>6, <2>1
  <2>4. JoinTypes' /\ BuilderOK'
    BY <1>1, <1>2, <2>1, <2>3 DEF JoinInv, JoinTypes, BuilderOK
  <2>5. AllCounts' /\ AnyCounts'
    BY <1>1, <1>2, <1>4, <2>1, <2>2, <2>3 DEF JoinInv, JoinTypes, AllCounts, AnyCounts, One
  <2> QED BY <2>1, <2>4, <2>5 DEF JoinInv
<1> QED BY <1>5, <1>6

\* any gives up the builder's reference.
LEMMA AnyBuiltStep ==
    ASSUME JoinInv, J!AnyBuilt
    PROVE  JoinInv'
<1>1. /\ op = "any" /\ step = "loop" /\ num = len /\ ~destroyed /\ ~bad' /\ refs' = refs - 1
      /\ step' = IF len = 0 THEN "drop" ELSE "done"
      /\ result' = IF len = 0 THEN "gone" ELSE "with"
      /\ UNCHANGED <<op, len, num, resolvedIn, hooked, slot, done, destroyed>>
  BY ResultAlive DEF J!AnyBuilt, J!inVars, J!Touch, JoinInv
<1>2. Seen' = Seen
  BY <1>1 DEF Seen
<1>3. Cardinality(hooked) \in Nat /\ refs = Cardinality(hooked) + 2
  BY <1>1, HookedCount DEF JoinInv, BuilderOK, AnyCounts, One
<1>4. JoinTypes' /\ BuilderOK'
  BY <1>1, <1>2, <1>3 DEF JoinInv, JoinTypes, BuilderOK
<1>5. AllCounts' /\ AnyCounts'
  BY <1>1, <1>2, <1>3 DEF JoinInv, JoinTypes, BuilderOK, AllCounts, AnyCounts, One
<1>6. destroyed' <=> refs' = 0
  BY <1>1, <1>3
<1> QED BY <1>1, <1>4, <1>5, <1>6 DEF JoinInv

\* The caller lets go of the result.
LEMMA LetGoStep ==
    ASSUME JoinInv, J!LetGo
    PROVE  JoinInv'
<1>1. /\ step = "done" /\ result \in {"with", "without"} /\ result' = "gone" /\ ~destroyed
      /\ UNCHANGED <<op, len, step, num, resolvedIn, hooked, slot, done>>
      /\ refs' = refs - 1 /\ (destroyed' <=> refs = 1)
  BY ResultAlive DEF J!LetGo, J!DecWaitRef, J!inVars, JoinInv, JoinTypes, BuilderOK
<1>2. ~bad'
  BY <1>1 DEF J!LetGo, JoinInv, BuilderOK, AnyCounts
<1>3. Seen' = Seen /\ refs \in Nat \ {0}
  BY <1>1 DEF Seen, JoinInv, JoinTypes
<1>4. JoinTypes' /\ BuilderOK'
  BY <1>1, <1>3 DEF JoinInv, JoinTypes, BuilderOK
<1>5. AllCounts' /\ AnyCounts'
  BY <1>1, <1>3, HookedCount DEF JoinInv, JoinTypes, BuilderOK, AllCounts, AnyCounts, One
<1>6. destroyed' <=> refs' = 0
  BY <1>1, <1>3
<1> QED BY <1>2, <1>4, <1>5, <1>6 DEF JoinInv

\* Future::all and any keep their counts for any number of inputs below
\* usize::MAX, in whatever order the inputs resolve.
THEOREM JoinCounts == J!Spec => []JoinInv
<1>1. J!Init => JoinInv
  <2> SUFFICES ASSUME J!Init PROVE JoinInv
    OBVIOUS
  <2>1. hooked = {} /\ Seen = {} /\ Cardinality(hooked) = 0
    BY FS_EmptySet DEF J!Init, Seen
  <2>2. JoinTypes
    <3>1. len \in 0 .. MaxInputs /\ num = 0 /\ resolvedIn \in SUBSET (1 .. len) /\ refs = 2
      BY DEF J!Init, J!Inputs
    <3>2. slot \in Int /\ num \in 0 .. len
      BY <3>1, JoinBounds DEF J!Init, J!JoinAssumption
    <3>3. done \in BOOLEAN
      BY DEF J!Init
    <3>4. op \in {"all", "any"} /\ step = "loop" /\ result = "future"
      BY DEF J!Init
    <3> QED BY <3>1, <3>2, <3>3, <3>4 DEF JoinTypes
  <2>3. BuilderOK
    BY <2>1 DEF J!Init, BuilderOK
  <2>4. AllCounts /\ AnyCounts
    BY <2>1, JoinBounds DEF J!Init, J!JoinAssumption, AllCounts, AnyCounts, One
  <2> QED BY <2>2, <2>3, <2>4 DEF J!Init, JoinInv
<1>2. JoinInv /\ [J!Next]_(J!vars) => JoinInv'
  <2> SUFFICES ASSUME JoinInv, [J!Next]_(J!vars) PROVE JoinInv'
    OBVIOUS
  <2>1. CASE UNCHANGED J!vars
    BY <2>1 DEF J!vars, J!inVars, J!resVars, JoinInv, JoinTypes, BuilderOK, AllCounts, AnyCounts, One, Seen
  <2>2. CASE J!Next
    BY <2>2, ResolveStep, AllAddStep, AllBuiltStep, ConvertStep, DropFutureStep,
       AnyCountStep, AnyAddStep, AnyBuiltStep, LetGoStep DEF J!Next, J!Inputs
  <2> QED BY <2>1, <2>2
<1> QED BY <1>1, <1>2, PTL DEF J!Spec

\* The result of Future::all resolves exactly when every input has, that of
\* Future::any when one has and with its index; it is finished once, never
\* used after it is freed, and freed in the end.
THEOREM JoinsSound == J!Spec => []JoinSound
<1>1. JoinInv => JoinSound
  <2> SUFFICES ASSUME JoinInv PROVE JoinSound
    OBVIOUS
  <2>1. J!NoMisuse
    BY DEF J!NoMisuse, JoinInv
  <2>2. J!AllMeansAll
    BY DEF J!AllMeansAll, J!Inputs, JoinInv, JoinTypes, BuilderOK, AllCounts, Seen
  <2>3. J!AnyMeansAny
    BY DEF J!AnyMeansAny, JoinInv, JoinTypes, AnyCounts, Seen
  <2>4. J!NothingLeaks
    <3> SUFFICES ASSUME step = "done", result = "gone", resolvedIn = 1 .. len PROVE destroyed
      BY DEF J!NothingLeaks, J!Inputs
    <3>1. hooked = {} /\ Cardinality(hooked) = 0
      BY HookedCount DEF JoinInv, JoinTypes, BuilderOK, Seen
    <3> QED BY <3>1 DEF JoinInv, JoinTypes, AllCounts, AnyCounts, One
  <2> QED BY <2>1, <2>2, <2>3, <2>4 DEF JoinSound, J!JoinSound
<1> QED BY <1>1, JoinCounts, PTL

=============================================================================
