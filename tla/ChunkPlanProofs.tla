-------------------------- MODULE ChunkPlanProofs --------------------------
(***************************************************************************)
(* Proofs about ChunkPlan, for every value of its constants: the type      *)
(* invariant, and that the chunk limit bounds the plan.                    *)
(***************************************************************************)
EXTENDS ChunkPlan, SequenceTheorems, FiniteSetTheorems, TLAPS

-----------------------------------------------------------------------------
(* Lemmas on the helpers that build _intersectIter.                        *)

(* An entry whose chunk is a chunk id of the partition map.                *)
ChunkEntry == [chunk : Chunks, pair : BOOLEAN]

LEMMA OrdersType ==
    ASSUME NEW S, IsFiniteSet(S), NEW s \in Orders(S)
    PROVE  s \in Seq(S) /\ Len(s) = Cardinality(S)
<1>1. Cardinality(S) \in Nat
    BY FS_CardinalityType
<1>2. s \in [1..Cardinality(S) -> S]
    BY DEF Orders
<1>3. QED
    BY <1>1, <1>2, IsASeq

LEMMA SortedType ==
    ASSUME NEW S, S \subseteq Chunks, NEW s \in Sorted(S)
    PROVE  s \in Seq(Chunks)
<1>1. IsFiniteSet(S)
    BY ChunksAssumption, FS_Subset
<1>2. s \in Seq(S)
    BY <1>1, OrdersType DEF Sorted
<1>3. QED
    BY <1>2, SeqMonotonic

LEMMA PairsType ==
    ASSUME NEW T, NEW s \in Seq(T)
    PROVE  /\ Pairs(s) \in Seq([chunk : T, pair : BOOLEAN])
           /\ Bares(s) \in Seq([chunk : T, pair : BOOLEAN])
<1>1. \A i \in 1..Len(s) : s[i] \in T
    BY ElementOfSeq
<1>2. \A i \in 1..Len(s) : /\ Pair(s[i]) \in [chunk : T, pair : BOOLEAN]
                           /\ Bare(s[i]) \in [chunk : T, pair : BOOLEAN]
    BY <1>1 DEF Pair, Bare
<1>3. QED
    BY <1>2, IsASeq, LenProperties DEF Pairs, Bares

LEMMA LookupRowsType ==
    ASSUME NEW ls \in Seq(SUBSET Keys), NEW r \in LookupRows(ls)
    PROVE  r \in Seq(Chunks)
<1>1. \A l \in SUBSET Keys : IsFiniteSet(MatchingKeys(l))
    BY KeyAssumption, FS_Subset DEF MatchingKeys
<1>2. CASE Len(ls) = 1
    <2>1. PICK ks \in Orders(MatchingKeys(ls[1])) : r = KeyRows(ks)
        BY <1>2 DEF LookupRows
    <2>2. ls[1] \in SUBSET Keys
        BY <1>2, ElementOfSeq
    <2>3. ks \in Seq(MatchingKeys(ls[1]))
        BY <1>1, <2>2, OrdersType
    <2>4. \A i \in 1..Len(ks) : KeyChunk[ks[i]] \in Chunks
        <3> SUFFICES ASSUME NEW i \in 1..Len(ks) PROVE KeyChunk[ks[i]] \in Chunks
            OBVIOUS
        <3>1. ks[i] \in MatchingKeys(ls[1])
            BY <2>3, ElementOfSeq
        <3>2. ks[i] \in Keys /\ KeyChunk[ks[i]] # NoRow
            BY <2>2, <3>1 DEF MatchingKeys
        <3>3. QED
            BY <3>2, KeyAssumption
    <2>5. QED
        BY <2>1, <2>3, <2>4, IsASeq, LenProperties DEF KeyRows
<1>3. CASE Len(ls) # 1
    <2> DEFINE U == UNION {{KeyChunk[k] : k \in MatchingKeys(ls[i])} :
                               i \in 1..Len(ls)}
    <2>1. r \in Orders(U)
        BY <1>3 DEF LookupRows
    <2>2. U \subseteq Chunks
        BY ElementOfSeq, KeyAssumption DEF MatchingKeys
    <2>3. IsFiniteSet(U)
        BY <2>2, ChunksAssumption, FS_Subset
    <2>4. r \in Seq(U)
        BY <2>1, <2>3, OrdersType
    <2>5. QED
        BY <2>2, <2>4, SeqMonotonic
<1>4. QED
    BY <1>2, <1>3

-----------------------------------------------------------------------------
(* The type invariant.                                                     *)

LEMMA InitTypeOK == Init => TypeOK
<1> SUFFICES ASSUME Init PROVE TypeOK
    OBVIOUS
<1>1. lookups \in Seq(SUBSET Keys)
    BY LookupAssumption, IsASeq, LenProperties DEF Init, QueryInit
<1>2. chunkLimit \in Nat \ {0}
    BY LimitAssumption DEF Init, QueryInit, ChunkLimitOf
<1>3. QED
    BY <1>1, <1>2, EmptySeq DEF Init, QueryInit, TypeOK

LEMMA EvaluateHintsTypeOK ==
    TypeOK /\ EvaluateHints => TypeOK' /\ intersectIter' \in Seq(ChunkEntry)
<1> SUFFICES ASSUME TypeOK, EvaluateHints
             PROVE TypeOK' /\ intersectIter' \in Seq(ChunkEntry)
    OBVIOUS
<1>1. PICK rows \in IF lookups # <<>> THEN LookupRows(lookups) ELSE {<<>>},
           pm \in Sorted(Chunks), sp \in Sorted(RegionsChunks(spatial)) :
         LET spatialIter == IF spatial # {} THEN Pairs(sp) ELSE Pairs(pm)
         IN  IF rows # <<>>
             THEN /\ intersectIter' =
                       IF spatial # {} THEN spatialIter \o Bares(rows)
                                       ELSE Pairs(rows)
                  /\ isFullSky' = FALSE
             ELSE /\ intersectIter' = spatialIter
                  /\ isFullSky' = (spatial = {})
    BY DEF EvaluateHints
<1>2. rows \in Seq(Chunks)
    BY LookupRowsType, EmptySeq DEF TypeOK
<1>3. pm \in Seq(Chunks) /\ sp \in Seq(Chunks)
    <2>1. RegionsChunks(spatial) \subseteq Chunks
        BY RegionAssumption DEF TypeOK, RegionsChunks
    <2>2. QED
        BY <2>1, SortedType
<1>4. /\ Pairs(rows) \in Seq(ChunkEntry) /\ Bares(rows) \in Seq(ChunkEntry)
      /\ Pairs(pm) \in Seq(ChunkEntry) /\ Pairs(sp) \in Seq(ChunkEntry)
    BY <1>2, <1>3, PairsType DEF ChunkEntry
<1>5. intersectIter' \in Seq(ChunkEntry) /\ intersectIter' \in Seq(Entry)
    <2>1. intersectIter' \in Seq(ChunkEntry)
        BY <1>1, <1>4, ConcatProperties
    <2>2. ChunkEntry \subseteq Entry
        BY ChunksAssumption DEF ChunkEntry, Entry
    <2>3. QED
        BY <2>1, <2>2, SeqMonotonic
<1>6. isFullSky' \in BOOLEAN
    BY <1>1
<1>7. QED
    BY <1>5, <1>6, EmptySeq DEF EvaluateHints, TypeOK, queryVars, rpVars

LEMMA LoopTypeOK ==
    TypeOK /\ (RejectChunk \/ AddChunk) => TypeOK'
<1> SUFFICES ASSUME TypeOK, RejectChunk \/ AddChunk PROVE TypeOK'
    OBVIOUS
<1>1. Current \in Entry
    BY ElementOfSeq DEF RejectChunk, AddChunk, TypeOK, Current
<1>2. CASE RejectChunk
    <2>1. Reported(rpFirst, rpLast) \in Int \X Int
        BY DEF TypeOK, Reported
    <2> DEFINE c == Current.chunk
    <2>2. c \in Int
        BY <1>1 DEF Entry
    <2>3. log' \in Seq(Int \X Int) /\ rpFirst' \in Int /\ rpLast' \in Int
        <3>1. CASE rpLast # c - 1
            <4>1. log' \in {Append(log, Reported(rpFirst, rpLast)), log}
                BY <1>2, <3>1 DEF RejectChunk
            <4>2. rpFirst' = c /\ rpLast' = c
                BY <1>2, <3>1 DEF RejectChunk
            <4>3. Append(log, Reported(rpFirst, rpLast)) \in Seq(Int \X Int)
                BY <2>1, AppendProperties DEF TypeOK
            <4>4. QED
                BY <2>2, <4>1, <4>2, <4>3 DEF TypeOK
        <3>2. CASE rpLast = c - 1
            BY <1>2, <2>2, <3>2 DEF RejectChunk, TypeOK
        <3>3. QED
            BY <3>1, <3>2
    <2>4. QED
        BY <1>2, <2>3 DEF RejectChunk, TypeOK, queryVars
<1>3. CASE AddChunk
    BY <1>1, <1>3, AppendProperties DEF AddChunk, TypeOK, Entry, queryVars, rpVars
<1>4. QED
    BY <1>2, <1>3

THEOREM TypeCorrect == Spec => []TypeOK
<1>1. Init => TypeOK
    BY InitTypeOK
<1>2. TypeOK /\ [Next]_vars => TypeOK'
    <2> SUFFICES ASSUME TypeOK, [Next]_vars PROVE TypeOK'
        OBVIOUS
    <2>1. CASE EvaluateHintsFails
        BY <2>1 DEF EvaluateHintsFails, TypeOK, queryVars, rpVars
    <2>2. CASE EvaluateHints
        BY <2>2, EvaluateHintsTypeOK
    <2>3. CASE RejectChunk \/ AddChunk
        BY <2>3, LoopTypeOK
    <2>4. CASE UnpackFails
        BY <2>4 DEF UnpackFails, TypeOK, queryVars, rpVars
    <2>5. CASE LoopExhausted
        BY <2>5 DEF LoopExhausted, TypeOK, queryVars, rpVars
    <2>6. CASE FinishConstraints
        <3>1. Reported(rpFirst, rpLast) \in Int \X Int
            BY DEF TypeOK, Reported
        <3>2. QED
            BY <2>6, <3>1, DummyAssumption, AppendProperties
            DEF FinishConstraints, TypeOK, queryVars
    <2>7. CASE UNCHANGED vars
        BY <2>7 DEF vars, queryVars, planVars, rpVars, TypeOK
    <2>8. QED
        BY <2>1, <2>2, <2>3, <2>4, <2>5, <2>6, <2>7 DEF Next
<1>3. QED
    BY <1>1, <1>2, PTL DEF Spec

-----------------------------------------------------------------------------
(* The chunk limit.  CapRespected is not inductive by itself: a step of    *)
(* the loop adds a chunk, so the loop may only run while count is below    *)
(* the limit, count must equal the number of chunks added, and the dummy   *)
(* chunk is added only when count is 0.                                    *)
CapInv ==
    /\ phase = "evaluate" => count = 0
    /\ phase # "done" => Len(plan) = count
    /\ phase = "done" => Len(plan) = IF count = 0 THEN 1 ELSE count
    /\ phase = "loop" => count < chunkLimit
    /\ count <= chunkLimit

LEMMA CapInvInductive == TypeOK /\ CapInv /\ [Next]_vars => CapInv'
<1> SUFFICES ASSUME TypeOK, CapInv, [Next]_vars PROVE CapInv'
    OBVIOUS
<1>1. CASE AddChunk
    <2>1. Len(plan') = Len(plan) + 1
        BY <1>1, AppendProperties DEF AddChunk, TypeOK
    <2>2. QED
        BY <1>1, <2>1 DEF AddChunk, CapInv, TypeOK, queryVars
<1>2. CASE FinishConstraints
    <2>1. Len(plan') = IF count = 0 THEN Len(plan) + 1 ELSE Len(plan)
        BY <1>2, AppendProperties DEF FinishConstraints, TypeOK
    <2>2. QED
        BY <1>2, <2>1 DEF FinishConstraints, CapInv, TypeOK, queryVars
<1>3. CASE EvaluateHintsFails
    BY <1>3 DEF EvaluateHintsFails, CapInv, queryVars
<1>4. CASE EvaluateHints
    BY <1>4 DEF EvaluateHints, CapInv, TypeOK, queryVars
<1>5. CASE RejectChunk
    BY <1>5 DEF RejectChunk, CapInv, queryVars
<1>6. CASE UnpackFails
    BY <1>6 DEF UnpackFails, CapInv, queryVars
<1>7. CASE LoopExhausted
    BY <1>7 DEF LoopExhausted, CapInv, queryVars
<1>8. CASE UNCHANGED vars
    BY <1>8 DEF vars, queryVars, planVars, rpVars, CapInv
<1>9. QED
    BY <1>1, <1>2, <1>3, <1>4, <1>5, <1>6, <1>7, <1>8 DEF Next

(* The number of ChunkSpecs added to the session, the dummy chunk included,*)
(* never exceeds chunkLimit, whatever the hints, the index rows and the    *)
(* configured debug limit.                                                 *)
THEOREM ChunkLimitRespected == Spec => []CapRespected
<1>1. Init => CapInv
    <2> SUFFICES ASSUME Init PROVE CapInv
        OBVIOUS
    <2>1. chunkLimit \in Nat
        BY InitTypeOK DEF TypeOK
    <2>2. QED
        BY <2>1, EmptySeq DEF Init, CapInv
<1>2. TypeOK /\ CapInv => CapRespected
    <2> SUFFICES ASSUME TypeOK, CapInv PROVE CapRespected
        OBVIOUS
    <2>1. CASE phase = "done"
        <3>1. chunkLimit >= 1 /\ count <= chunkLimit
            BY DEF TypeOK, CapInv
        <3>2. Len(plan) = IF count = 0 THEN 1 ELSE count
            BY <2>1 DEF CapInv
        <3>3. QED
            BY <3>1, <3>2 DEF CapRespected
    <2>2. CASE phase # "done"
        BY <2>2 DEF TypeOK, CapInv, CapRespected
    <2>3. QED
        BY <2>1, <2>2
<1>3. QED
    BY <1>1, <1>2, CapInvInductive, TypeCorrect, PTL DEF Spec

-----------------------------------------------------------------------------
(* No chunk of the database's empty-chunk set is ever passed to addChunk:  *)
(* the loop skips them, and the dummy chunk is not a chunk of the map.     *)
NoEmptyDispatched == \A i \in DOMAIN plan : plan[i] \notin emptyChunks

LEMMA NoEmptyInductive ==
    TypeOK /\ NoEmptyDispatched /\ [Next]_vars => NoEmptyDispatched'
<1> SUFFICES ASSUME TypeOK, NoEmptyDispatched, [Next]_vars
             PROVE NoEmptyDispatched'
    OBVIOUS
<1>1. CASE AddChunk
    <2>1. Current.chunk \notin emptyChunks /\ emptyChunks' = emptyChunks
        BY <1>1 DEF AddChunk, queryVars
    <2>2. plan' = Append(plan, Current.chunk)
        BY <1>1 DEF AddChunk
    <2>3. \A i \in DOMAIN plan' : plan'[i] \in {plan[j] : j \in DOMAIN plan} \cup {Current.chunk}
        BY <2>2, AppendProperties DEF TypeOK
    <2>4. QED
        BY <2>1, <2>3 DEF NoEmptyDispatched
<1>2. CASE FinishConstraints
    <2>1. DummyChunk \notin emptyChunks
        BY DummyAssumption DEF TypeOK
    <2>2. QED
        BY <1>2, <2>1, AppendProperties
        DEF FinishConstraints, NoEmptyDispatched, TypeOK, queryVars
<1>3. CASE EvaluateHintsFails \/ EvaluateHints \/ RejectChunk
             \/ UnpackFails \/ LoopExhausted
    BY <1>3 DEF EvaluateHintsFails, EvaluateHints, RejectChunk, UnpackFails,
                LoopExhausted, NoEmptyDispatched, queryVars
<1>4. CASE UNCHANGED vars
    BY <1>4 DEF vars, queryVars, planVars, NoEmptyDispatched
<1>5. QED
    BY <1>1, <1>2, <1>3, <1>4 DEF Next

THEOREM EmptyChunksNeverDispatched == Spec => []NoEmptyDispatched
<1>1. Init => NoEmptyDispatched
    BY DEF Init, NoEmptyDispatched
<1>2. QED
    BY <1>1, NoEmptyInductive, TypeCorrect, PTL DEF Spec



-----------------------------------------------------------------------------
(* Lemmas on LiveIdx and Rank, the positions of the non-empty chunks of    *)
(* the iteration and their order, for any iteration and empty-chunk set.   *)

LEMMA LiveIdxFinite ==
    ASSUME NEW k \in Nat
    PROVE  /\ IsFiniteSet(LiveIdx(k))
           /\ Cardinality(LiveIdx(k)) \in Nat
<1>1. IsFiniteSet(1..k)
    BY FS_Interval
<1>2. IsFiniteSet(LiveIdx(k))
    BY <1>1, FS_Subset DEF LiveIdx
<1>3. QED
    BY <1>2, FS_CardinalityType

(* An earlier position has no more non-empty chunks before it.             *)
LEMMA LiveIdxMonotone ==
    ASSUME NEW i \in Nat, NEW k \in Nat, i <= k
    PROVE  /\ LiveIdx(i) \subseteq LiveIdx(k)
           /\ Rank(i) <= Cardinality(LiveIdx(k))
<1>1. LiveIdx(i) \subseteq LiveIdx(k)
    BY DEF LiveIdx
<1>2. QED
    BY <1>1, LiveIdxFinite, FS_Subset DEF Rank

(* The rank of a non-empty position among the first k is one of 1..N,      *)
(* where N is the number of non-empty positions among them.                *)
LEMMA RankBounds ==
    ASSUME NEW k \in Nat, NEW i \in LiveIdx(k)
    PROVE  Rank(i) \in 1..Cardinality(LiveIdx(k))
<1>1. i \in Nat /\ i <= k
    BY DEF LiveIdx
<1>2. i \in LiveIdx(i)
    BY <1>1 DEF LiveIdx
<1>3. Rank(i) # 0
    BY <1>1, <1>2, LiveIdxFinite, FS_EmptySet DEF Rank
<1>4. Rank(i) \in Nat
    BY <1>1, LiveIdxFinite DEF Rank
<1>5. QED
    BY <1>1, <1>3, <1>4, LiveIdxMonotone

(* One more entry of the iteration: a non-empty one is a new position with *)
(* the next rank, an empty one adds nothing.                               *)
LEMMA LiveIdxStep ==
    ASSUME NEW k \in Nat
    PROVE  /\ IterChunk(k + 1) \notin emptyChunks =>
                 /\ LiveIdx(k + 1) = LiveIdx(k) \cup {k + 1}
                 /\ Cardinality(LiveIdx(k + 1)) = Cardinality(LiveIdx(k)) + 1
           /\ IterChunk(k + 1) \in emptyChunks => LiveIdx(k + 1) = LiveIdx(k)
<1>1. k + 1 \notin LiveIdx(k)
    BY DEF LiveIdx
<1>2. IterChunk(k + 1) \notin emptyChunks => LiveIdx(k + 1) = LiveIdx(k) \cup {k + 1}
    BY DEF LiveIdx
<1>3. QED
    BY <1>1, <1>2, LiveIdxFinite, FS_AddElement DEF LiveIdx

-----------------------------------------------------------------------------
(* The walk of _intersectIter.  PlanFollowsIteration is not inductive by   *)
(* itself: a step of the loop reads entry pos + 1, so pos must stay within *)
(* the iteration; the dummy chunk may be added only at the end, so before  *)
(* it the plan follows the walked part exactly; and for DispatchComplete   *)
(* the loop may only stop early when count has reached the limit.          *)
WalkInv ==
    /\ pos \in 0..Len(intersectIter)
    /\ phase = "evaluate" => pos = 0
    /\ phase # "done" => Follows(pos)
    /\ PlanFollowsIteration
    /\ (phase \in {"finish", "done"} /\ count < chunkLimit) =>
          pos = Len(intersectIter)

(* A step that changes neither the iteration, the empty-chunk set, the     *)
(* plan nor pos keeps Follows(pos).                                        *)
LEMMA FollowsUnchanged ==
    ASSUME UNCHANGED <<intersectIter, emptyChunks, plan, pos>>, Follows(pos)
    PROVE  Follows(pos)'
BY DEF Follows, LiveIdx, Rank, IterChunk

LEMMA WalkInvInductive ==
    TypeOK /\ CapInv /\ WalkInv /\ [Next]_vars => WalkInv'
<1> SUFFICES ASSUME TypeOK, CapInv, WalkInv, [Next]_vars PROVE WalkInv'
    OBVIOUS
<1>1. CASE EvaluateHintsFails
    <2>1. Follows(pos)'
        BY <1>1, FollowsUnchanged DEF EvaluateHintsFails, WalkInv, queryVars
    <2>2. QED
        BY <1>1, <2>1 DEF EvaluateHintsFails, WalkInv, PlanFollowsIteration, queryVars
<1>2. CASE EvaluateHints
    <2>1. pos = 0 /\ pos' = 0 /\ plan' = plan /\ Len(plan) = 0
        BY <1>2 DEF EvaluateHints, WalkInv, CapInv
    <2>2. LiveIdx(0)' = {}
        BY DEF LiveIdx
    <2>3. Follows(pos)'
        BY <2>1, <2>2, FS_EmptySet DEF Follows
    <2>4. intersectIter' \in Seq(Entry)
        BY <1>2, EvaluateHintsTypeOK DEF TypeOK
    <2>5. QED
        BY <1>2, <2>1, <2>3, <2>4 DEF EvaluateHints, WalkInv, PlanFollowsIteration
<1>3. CASE RejectChunk
    <2>1. pos \in Nat /\ pos' = pos + 1 /\ pos + 1 <= Len(intersectIter)
        BY <1>3 DEF RejectChunk, WalkInv
    <2>2. IterChunk(pos + 1) \in emptyChunks
        BY <1>3 DEF RejectChunk, Current, IterChunk
    <2>3. LiveIdx(pos + 1) = LiveIdx(pos)
        BY <2>1, <2>2, LiveIdxStep
    <2>4. \A k : LiveIdx(k)' = LiveIdx(k)
        BY <1>3 DEF RejectChunk, LiveIdx, IterChunk, queryVars
    <2>5. Follows(pos)
        BY <1>3 DEF RejectChunk, WalkInv
    <2>6. Follows(pos)'
        BY <1>3, <2>1, <2>3, <2>4, <2>5 DEF RejectChunk, Follows, Rank, IterChunk
    <2>7. QED
        BY <1>3, <2>1, <2>6 DEF RejectChunk, WalkInv, PlanFollowsIteration
<1>4. CASE AddChunk
    <2>1. pos \in Nat /\ pos' = pos + 1 /\ pos + 1 <= Len(intersectIter)
        BY <1>4 DEF AddChunk, WalkInv
    <2>2. IterChunk(pos + 1) \notin emptyChunks
        BY <1>4 DEF AddChunk, Current, IterChunk
    <2> DEFINE N == Cardinality(LiveIdx(pos))
    <2>3. /\ LiveIdx(pos + 1) = LiveIdx(pos) \cup {pos + 1}
          /\ Cardinality(LiveIdx(pos + 1)) = N + 1
        BY <2>1, <2>2, LiveIdxStep
    <2>4. \A k : LiveIdx(k)' = LiveIdx(k)
        BY <1>4 DEF AddChunk, LiveIdx, IterChunk, queryVars
    <2>5. Follows(pos) /\ Len(plan) = N /\ N \in Nat
        BY <1>4, <2>1, LiveIdxFinite DEF AddChunk, WalkInv, Follows
    <2>6. /\ plan' = Append(plan, IterChunk(pos + 1))
          /\ Len(plan') = N + 1
          /\ plan'[N + 1] = IterChunk(pos + 1)
          /\ \A j \in 1..N : plan'[j] = plan[j]
        BY <1>4, <2>5, AppendProperties DEF AddChunk, Current, IterChunk, TypeOK
    <2>7. Rank(pos + 1) = N + 1
        BY <2>3 DEF Rank
    <2>8. ASSUME NEW i \in LiveIdx(pos) PROVE plan'[Rank(i)] = IterChunk(i)
        <3>1. Rank(i) \in 1..N
            BY <2>1, RankBounds
        <3>2. QED
            BY <2>5, <2>6, <3>1 DEF Follows
    <2>9. Follows(pos)'
        <3>1. Len(plan') = Cardinality(LiveIdx(pos)')
            BY <2>1, <2>3, <2>4, <2>6
        <3>2. \A i \in Nat : Rank(i)' = Rank(i) /\ IterChunk(i)' = IterChunk(i)
            BY <1>4, <2>4 DEF Rank, IterChunk, AddChunk
        <3>3. LiveIdx(pos)' = LiveIdx(pos) \cup {pos + 1}
            BY <2>1, <2>3, <2>4
        <3>4. \A i \in LiveIdx(pos) \cup {pos + 1} : plan'[Rank(i)] = IterChunk(i)
            BY <2>6, <2>7, <2>8
        <3>5. \A i \in LiveIdx(pos)' : plan'[Rank(i)'] = IterChunk(i)'
            BY <3>2, <3>3, <3>4 DEF LiveIdx
        <3>6. QED
            BY <3>1, <3>5 DEF Follows
    <2>10. phase' = "finish" => ~(count' < chunkLimit')
        BY <1>4 DEF AddChunk, queryVars, TypeOK
    <2>11. pos' \in 0..Len(intersectIter') /\ phase' \notin {"evaluate", "done"}
        BY <1>4, <2>1 DEF AddChunk
    <2>12. QED
        BY <2>9, <2>10, <2>11 DEF WalkInv, PlanFollowsIteration
<1>5. CASE UnpackFails
    <2>1. Follows(pos)'
        BY <1>5, FollowsUnchanged DEF UnpackFails, WalkInv, queryVars
    <2>2. QED
        BY <1>5, <2>1 DEF UnpackFails, WalkInv, PlanFollowsIteration, queryVars
<1>6. CASE LoopExhausted
    <2>1. Follows(pos)'
        BY <1>6, FollowsUnchanged DEF LoopExhausted, WalkInv, queryVars
    <2>2. QED
        BY <1>6, <2>1 DEF LoopExhausted, WalkInv, PlanFollowsIteration, queryVars
<1>7. CASE FinishConstraints
    <2>1. Follows(pos) /\ pos \in Nat
        BY <1>7 DEF FinishConstraints, WalkInv
    <2>2. \A k : LiveIdx(k)' = LiveIdx(k)
        BY <1>7 DEF FinishConstraints, LiveIdx, IterChunk, queryVars
    <2>3. CASE count = 0
        <3>1. Len(plan) = 0 /\ plan = <<>>
            BY <1>7, <2>3 DEF FinishConstraints, CapInv, TypeOK
        <3>2. LiveIdx(pos) = {}
            BY <2>1, <3>1, LiveIdxFinite, FS_EmptySet DEF Follows
        <3>3. plan' = <<DummyChunk>>
            BY <1>7, <2>3, <3>1 DEF FinishConstraints
        <3>4. PlanFollowsIteration'
            BY <1>7, <2>2, <3>2, <3>3 DEF FinishConstraints, PlanFollowsIteration
        <3>5. QED
            BY <1>7, <3>4 DEF FinishConstraints, WalkInv, queryVars
    <2>4. CASE count # 0
        <3>1. Follows(pos)'
            BY <1>7, <2>1, <2>4, FollowsUnchanged DEF FinishConstraints, queryVars
        <3>2. QED
            BY <1>7, <3>1 DEF FinishConstraints, WalkInv, PlanFollowsIteration, queryVars
    <2>5. QED
        BY <2>3, <2>4
<1>8. CASE UNCHANGED vars
    <2>1. Follows(pos)' = Follows(pos) /\ LiveIdx(pos)' = LiveIdx(pos)
        BY <1>8 DEF vars, queryVars, planVars, Follows, LiveIdx, Rank, IterChunk
    <2>2. QED
        BY <1>8, <2>1 DEF vars, queryVars, planVars, WalkInv, PlanFollowsIteration
<1>9. QED
    BY <1>1, <1>2, <1>3, <1>4, <1>5, <1>6, <1>7, <1>8 DEF Next

LEMMA InitWalkInv == Init => WalkInv
<1> SUFFICES ASSUME Init PROVE WalkInv
    OBVIOUS
<1>1. pos = 0 /\ plan = <<>> /\ intersectIter = <<>>
    BY DEF Init
<1>2. LiveIdx(0) = {}
    BY DEF LiveIdx
<1>3. Follows(pos)
    BY <1>1, <1>2, FS_EmptySet, EmptySeq DEF Follows
<1>4. QED
    BY <1>1, <1>3, EmptySeq DEF WalkInv, PlanFollowsIteration

(* The conjunction the walk's proofs rest on.                              *)
LEMMA PlanInvariants == Spec => [](TypeOK /\ CapInv /\ WalkInv)
<1>1. Init => CapInv
    <2> SUFFICES ASSUME Init PROVE CapInv
        OBVIOUS
    <2>1. chunkLimit \in Nat
        BY InitTypeOK DEF TypeOK
    <2>2. QED
        BY <2>1, EmptySeq DEF Init, CapInv
<1>2. QED
    BY <1>1, InitTypeOK, InitWalkInv, CapInvInductive, WalkInvInductive,
       TypeCorrect, PTL DEF Spec

(* The chunks passed to addChunk are exactly the non-empty chunks of the   *)
(* walked part of _intersectIter, in its order, or the dummy chunk alone   *)
(* when that part has none (app.py:553-572), for every iteration, empty-   *)
(* chunk set and chunk limit.                                              *)
THEOREM PlanFollowsWalk == Spec => []PlanFollowsIteration
<1>1. TypeOK /\ CapInv /\ WalkInv => PlanFollowsIteration
    BY DEF WalkInv
<1>2. QED
    BY <1>1, PlanInvariants, PTL

(* When _applyConstraints returns below the chunk limit, every non-empty   *)
(* chunk of _intersectIter was passed to addChunk: the loop breaks early   *)
(* only when count reaches chunkLimit (app.py:567-569).                    *)
THEOREM DispatchCompleteHolds == Spec => []DispatchComplete
<1>1. TypeOK /\ CapInv /\ WalkInv => DispatchComplete
    <2> SUFFICES ASSUME TypeOK, CapInv, WalkInv,
                        phase = "done", Len(plan) < chunkLimit,
                        NEW i \in DOMAIN intersectIter,
                        IterChunk(i) \notin emptyChunks
                 PROVE  IterChunk(i) \in PlanChunks
        BY DEF DispatchComplete
    <2>1. count < chunkLimit
        BY DEF CapInv, TypeOK
    <2>2. pos = Len(intersectIter) /\ pos \in Nat
        BY <2>1 DEF WalkInv
    <2>3. i \in LiveIdx(pos)
        BY <2>2 DEF LiveIdx, TypeOK
    <2>4. Follows(pos)
        BY <2>3 DEF WalkInv, PlanFollowsIteration
    <2>5. Rank(i) \in DOMAIN plan
        BY <2>2, <2>3, <2>4, RankBounds DEF Follows, TypeOK
    <2>6. QED
        BY <2>3, <2>4, <2>5 DEF Follows, PlanChunks
<1>2. QED
    BY <1>1, PlanInvariants, PTL

=============================================================================
