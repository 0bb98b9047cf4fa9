--------------------- MODULE ChunkPlanRefinementProofs ---------------------
(***************************************************************************)
(* Proof that the loop of _applyConstraints (ChunkPlan) implements its     *)
(* one-step specification ChunkPlanSpec under the mapping Abstract of      *)
(* ChunkPlan, for every value of the constants: every initial state maps   *)
(* to an initial state, the loop's steps map to stutters, and the steps    *)
(* that leave _applyConstraints (the finish, a failed unpack, a failed     *)
(* hint) map to the specification's Plan, PlanFails and EvaluateFails.     *)
(***************************************************************************)
EXTENDS ChunkPlanProofs

(* What the walk keeps beyond WalkInv for the mapping to work: the entries *)
(* come from the partition map; every walked entry unpacked, so the        *)
(* specification's Live agrees with LiveIdx there; the loop did not reach  *)
(* the limit before its last entry, so the specification's Cut is pos; and *)
(* every rank up to the number of live walked entries is taken, so the     *)
(* plan is the specification's Dispatched.                                 *)
RefInv ==
    /\ intersectIter \in Seq(ChunkEntry)
    /\ \A i \in 1..pos : intersectIter[i].pair
    /\ \A j \in 0..(pos - 1) : Cardinality(LiveIdx(j)) < chunkLimit
    /\ \A j \in 1..Cardinality(LiveIdx(pos)) : \E i \in LiveIdx(pos) : Rank(i) = j

RInv == TypeOK /\ CapInv /\ WalkInv /\ RefInv

(* A step that leaves the iteration, pos, the empty-chunk set and the      *)
(* limit alone keeps RefInv.                                               *)
LEMMA RefInvUnchanged ==
    ASSUME UNCHANGED <<intersectIter, pos, emptyChunks, chunkLimit>>, RefInv
    PROVE  RefInv'
<1>1. \A k : LiveIdx(k)' = LiveIdx(k) /\ Rank(k)' = Rank(k)
    BY DEF LiveIdx, Rank, IterChunk
<1>2. QED
    BY <1>1 DEF RefInv

LEMMA RefInvInductive == RInv /\ [Next]_vars => RefInv'
<1> SUFFICES ASSUME RInv, [Next]_vars PROVE RefInv'
    OBVIOUS
<1>0. RefInv /\ TypeOK /\ CapInv /\ WalkInv
    BY DEF RInv
<1>1. CASE EvaluateHintsFails \/ UnpackFails \/ LoopExhausted
             \/ FinishConstraints \/ UNCHANGED vars
    <2>1. UNCHANGED <<intersectIter, pos, emptyChunks, chunkLimit>>
        BY <1>1 DEF EvaluateHintsFails, UnpackFails, LoopExhausted,
                    FinishConstraints, vars, queryVars, planVars
    <2>2. QED
        BY <1>0, <2>1, RefInvUnchanged
<1>2. CASE EvaluateHints
    <2>1. pos = 0 /\ pos' = 0
        BY <1>0, <1>2 DEF EvaluateHints, WalkInv
    <2>2. LiveIdx(0)' = {}
        BY DEF LiveIdx
    <2>3. intersectIter' \in Seq(ChunkEntry)
        BY <1>0, <1>2, EvaluateHintsTypeOK
    <2>4. Cardinality(LiveIdx(pos)') = 0
        BY <2>1, <2>2, FS_EmptySet
    <2>5. (\A i \in 1..pos : intersectIter[i].pair)'
          /\ (\A j \in 0..(pos - 1) : Cardinality(LiveIdx(j)) < chunkLimit)'
        BY <2>1
    <2>6. QED
        BY <2>3, <2>4, <2>5 DEF RefInv
<1>3. CASE RejectChunk \/ AddChunk
    <2>1. /\ pos \in Nat /\ pos' = pos + 1 /\ pos + 1 <= Len(intersectIter)
          /\ intersectIter[pos + 1].pair
          /\ phase = "loop"
          /\ UNCHANGED <<intersectIter, emptyChunks, chunkLimit>>
        BY <1>0, <1>3 DEF RejectChunk, AddChunk, Current, WalkInv, queryVars
    <2>2. \A k : LiveIdx(k)' = LiveIdx(k) /\ Rank(k)' = Rank(k)
        BY <2>1 DEF LiveIdx, Rank, IterChunk
    <2> DEFINE N == Cardinality(LiveIdx(pos))
    <2>3. N = count /\ count < chunkLimit /\ N \in Nat
        BY <1>0, <2>1 DEF WalkInv, Follows, CapInv
    <2>4. (\A i \in 1..pos : intersectIter[i].pair)'
        BY <1>0, <2>1 DEF RefInv
    <2>5. (\A j \in 0..(pos - 1) : Cardinality(LiveIdx(j)) < chunkLimit)'
        BY <1>0, <2>1, <2>2, <2>3 DEF RefInv
    <2>6. (\A j \in 1..Cardinality(LiveIdx(pos)) :
               \E i \in LiveIdx(pos) : Rank(i) = j)'
        <3>1. CASE IterChunk(pos + 1) \in emptyChunks
            <4>1. LiveIdx(pos + 1) = LiveIdx(pos)
                BY <2>1, <3>1, LiveIdxStep
            <4>2. QED
                BY <1>0, <2>1, <2>2, <4>1 DEF RefInv
        <3>2. CASE IterChunk(pos + 1) \notin emptyChunks
            <4>1. /\ LiveIdx(pos + 1) = LiveIdx(pos) \cup {pos + 1}
                  /\ Cardinality(LiveIdx(pos + 1)) = N + 1
                BY <2>1, <3>2, LiveIdxStep
            <4>2. Rank(pos + 1) = N + 1
                BY <4>1 DEF Rank
            <4>3. \A j \in 1..(N + 1) : \E i \in LiveIdx(pos + 1) : Rank(i) = j
                BY <1>0, <2>3, <4>1, <4>2 DEF RefInv
            <4>4. QED
                BY <2>1, <2>2, <4>1, <4>3
        <3>3. QED
            BY <3>1, <3>2
    <2>7. QED
        BY <1>0, <2>1, <2>4, <2>5, <2>6 DEF RefInv
<1>4. QED
    BY <1>1, <1>2, <1>3 DEF Next

-----------------------------------------------------------------------------
(* The specification's operators on the walked part of the iteration.     *)

(* The instance counts with the same Cardinality of FiniteSets.           *)
LEMMA SameCardinality == \A S : Abstract!Cardinality(S) = Cardinality(S)
BY DEF Abstract!Cardinality, Cardinality

(* Up to pos, an entry is live for the specification exactly when its      *)
(* chunk is not empty: every walked entry unpacked.                        *)
LEMMA WalkedLive ==
    ASSUME RefInv, pos \in Nat, NEW k \in Nat, k <= pos
    PROVE  /\ {i \in 1..k : Abstract!Live(intersectIter, i)} = LiveIdx(k)
           /\ Abstract!NLive(intersectIter, k) = Cardinality(LiveIdx(k))
<1>1. {i \in 1..k : Abstract!Live(intersectIter, i)} = LiveIdx(k)
    BY DEF RefInv, Abstract!Live, LiveIdx, IterChunk
<1>2. QED
    BY <1>1, SameCardinality DEF Abstract!NLive

(* The chunks addChunk received are the specification's Dispatched chunks  *)
(* of the walked part.                                                     *)
LEMMA DispatchedIsPlan ==
    ASSUME TypeOK, WalkInv, RefInv, Follows(pos)
    PROVE  Abstract!Dispatched(intersectIter, pos) = plan
<1> DEFINE N == Cardinality(LiveIdx(pos))
<1> DEFINE D == Abstract!Dispatched(intersectIter, pos)
<1>1. pos \in Nat
    BY DEF WalkInv
<1>2. Abstract!NLive(intersectIter, pos) = N
    BY <1>1, WalkedLive
<1>3. D = [j \in 1..N |->
             intersectIter[CHOOSE i \in 1..pos :
                              /\ Abstract!Live(intersectIter, i)
                              /\ Abstract!NLive(intersectIter, i) = j].chunk]
    BY <1>2 DEF Abstract!Dispatched
<1>4. plan = [j \in 1..N |-> plan[j]] /\ Len(plan) = N
    BY DEF Follows, TypeOK
<1>5. ASSUME NEW j \in 1..N PROVE D[j] = plan[j]
    <2>1. PICK i0 \in LiveIdx(pos) : Rank(i0) = j
        BY DEF RefInv
    <2>2. i0 \in 1..pos /\ i0 \in LiveIdx(i0)
        BY DEF LiveIdx
    <2>3. /\ Abstract!Live(intersectIter, i0)
          /\ Abstract!NLive(intersectIter, i0) = j
        BY <1>1, <2>1, <2>2, WalkedLive DEF Rank
    <2> DEFINE c == CHOOSE i \in 1..pos :
                       /\ Abstract!Live(intersectIter, i)
                       /\ Abstract!NLive(intersectIter, i) = j
    <2>4. c \in 1..pos /\ Abstract!Live(intersectIter, c)
                       /\ Abstract!NLive(intersectIter, c) = j
        BY <2>2, <2>3
    <2>5. c \in LiveIdx(pos) /\ c \in LiveIdx(c) /\ Rank(c) = j
        BY <1>1, <2>4, WalkedLive DEF Rank
    <2>6. plan[j] = IterChunk(c)
        BY <2>5 DEF Follows
    <2>7. QED
        BY <1>3, <2>6 DEF IterChunk
<1>6. QED
    BY <1>3, <1>4, <1>5

(* No prefix shorter than the walked one stops the specification's loop.   *)
LEMMA NoEarlyStop ==
    ASSUME TypeOK, WalkInv, RefInv, NEW j \in 0..(pos - 1)
    PROVE  ~Abstract!Stops(intersectIter, j)
<1>1. pos \in Nat /\ pos <= Len(intersectIter) /\ j \in Nat /\ j < pos
    BY DEF WalkInv
<1>2. Abstract!NLive(intersectIter, j) < chunkLimit
    BY <1>1, WalkedLive DEF RefInv
<1>3. QED
    BY <1>1, <1>2 DEF Abstract!Stops, TypeOK

(* Where the loop finishes, the specification's Cut is: at the chunk limit *)
(* or at the end of the iteration, and not earlier.                        *)
LEMMA CutAtFinish ==
    ASSUME TypeOK, CapInv, WalkInv, RefInv, phase = "finish"
    PROVE  Abstract!Cut(intersectIter) = pos
<1> DEFINE P(k) == /\ Abstract!Stops(intersectIter, k)
                   /\ \A j \in 0..(k - 1) : ~Abstract!Stops(intersectIter, j)
<1>1. pos \in 0..Len(intersectIter) /\ Follows(pos)
    BY DEF WalkInv
<1>2. Abstract!Stops(intersectIter, pos)
    <2>1. Abstract!NLive(intersectIter, pos) = count
        BY <1>1, WalkedLive DEF Follows, CapInv
    <2>2. count < chunkLimit => pos = Len(intersectIter)
        BY DEF WalkInv
    <2>3. QED
        BY <2>1, <2>2 DEF Abstract!Stops, CapInv, TypeOK
<1>3. P(pos)
    BY <1>2, NoEarlyStop
<1>4. \A k \in 0..Len(intersectIter) : P(k) => k = pos
    BY <1>1, <1>2, NoEarlyStop
<1>5. QED
    BY <1>1, <1>3, <1>4 DEF Abstract!Cut

(* The specification's Cut exists: the end of the iteration always stops   *)
(* its loop, and among the stopping points there is a least one.           *)
LEMMA CutExists ==
    ASSUME TypeOK
    PROVE  LET c == Abstract!Cut(intersectIter) IN
             /\ c \in 0..Len(intersectIter)
             /\ Abstract!Stops(intersectIter, c)
             /\ \A j \in 0..(c - 1) : ~Abstract!Stops(intersectIter, j)
<1> DEFINE T == {k \in 0..Len(intersectIter) : Abstract!Stops(intersectIter, k)}
<1>1. Len(intersectIter) \in T
    BY DEF TypeOK, Abstract!Stops
<1>2. T \subseteq Nat /\ T # {}
    <2>1. Len(intersectIter) \in Nat
        BY LenProperties DEF TypeOK
    <2>2. T \subseteq Nat
        BY <2>1
    <2>3. QED
        BY <1>1, <2>2
<1>3. \E x \in T : \A y \in T : ~(<<y, x>> \in OpToRel(<, Nat))
    BY <1>2, NatLessThanWellFounded, WFMin, Zenon
<1>4. PICK x \in T : \A y \in T : ~(<<y, x>> \in OpToRel(<, Nat))
    BY <1>3
<1>5. ASSUME NEW j \in 0..(x - 1), Abstract!Stops(intersectIter, j) PROVE FALSE
    <2>1. x \in Nat /\ x <= Len(intersectIter) /\ j \in Nat /\ j < x
        BY <1>2
    <2>2. j \in T
        BY <1>5, <2>1 DEF TypeOK
    <2>3. <<j, x>> \in OpToRel(<, Nat)
        BY <2>1 DEF OpToRel
    <2>4. QED
        BY <1>4, <2>2, <2>3
<1>6. \E k \in 0..Len(intersectIter) :
          /\ Abstract!Stops(intersectIter, k)
          /\ \A j \in 0..(k - 1) : ~Abstract!Stops(intersectIter, j)
    BY <1>4, <1>5
<1>7. QED
    BY <1>6 DEF Abstract!Cut

(* While the loop runs below the limit, the specification's loop walks     *)
(* past the current entry.                                                 *)
LEMMA CutBeyondCurrent ==
    ASSUME TypeOK, CapInv, WalkInv, RefInv, phase = "loop",
           pos < Len(intersectIter)
    PROVE  Abstract!Cut(intersectIter) \in (pos + 1)..Len(intersectIter)
<1>1. pos \in Nat /\ Follows(pos)
    BY DEF WalkInv
<1>2. ~Abstract!Stops(intersectIter, pos)
    <2>1. Abstract!NLive(intersectIter, pos) = count /\ count < chunkLimit
        BY <1>1, WalkedLive DEF Follows, CapInv
    <2>2. QED
        BY <2>1 DEF Abstract!Stops, TypeOK
<1>3. \A j \in 0..pos : ~Abstract!Stops(intersectIter, j)
    BY <1>1, <1>2, NoEarlyStop
<1>4. QED
    BY <1>1, <1>3, CutExists

(* The first bare entry of the iteration is the one the loop is at.        *)
LEMMA FirstBareIsCurrent ==
    ASSUME TypeOK, WalkInv, RefInv, pos < Len(intersectIter),
           ~intersectIter[pos + 1].pair
    PROVE  Abstract!FirstBare(intersectIter) = pos + 1
<1> DEFINE P(i) == ~intersectIter[i].pair /\ \A j \in 1..(i - 1) : intersectIter[j].pair
<1>1. pos \in Nat
    BY DEF WalkInv
<1>2. P(pos + 1)
    BY <1>1 DEF RefInv
<1>3. \A i \in 1..Len(intersectIter) : P(i) => i = pos + 1
    BY <1>1 DEF RefInv
<1>4. QED
    BY <1>1, <1>2, <1>3 DEF Abstract!FirstBare

-----------------------------------------------------------------------------
(* The refinement, step by step.                                           *)


LEMMA InitRefines == Init => Abstract!Init
<1> SUFFICES ASSUME Init PROVE Abstract!Init
    OBVIOUS
<1>1. emptyChunks \in SUBSET Chunks /\ chunkLimit \in Nat \ {0}
    BY InitTypeOK DEF TypeOK
<1>2. QED
    BY <1>1 DEF Init, Abstract!Init, AbstractStatus

(* The steps inside the loop change nothing the specification sees.        *)
LEMMA LoopStepsStutter ==
    ASSUME RejectChunk \/ AddChunk \/ LoopExhausted
    PROVE  UNCHANGED Abstract!vars
<1>1. phase = "loop" /\ phase' \in {"loop", "finish"}
    BY DEF RejectChunk, AddChunk, LoopExhausted
<1>2. AbstractStatus = "planning" /\ AbstractStatus' = "planning"
    BY <1>1 DEF AbstractStatus
<1>3. QED
    BY <1>1, <1>2 DEF RejectChunk, AddChunk, LoopExhausted, queryVars, Abstract!vars

LEMMA StepRefines == RInv /\ [Next]_vars => [Abstract!Next]_Abstract!vars
<1> SUFFICES ASSUME RInv, [Next]_vars PROVE [Abstract!Next]_Abstract!vars
    OBVIOUS
<1>0. TypeOK /\ CapInv /\ WalkInv /\ RefInv
    BY DEF RInv
<1>1. CASE EvaluateHintsFails
    <2>1. plan = <<>>
        BY <1>0, <1>1 DEF EvaluateHintsFails, CapInv, TypeOK
    <2>2. Abstract!EvaluateFails
        BY <1>1, <2>1 DEF EvaluateHintsFails, Abstract!EvaluateFails, AbstractStatus, queryVars
    <2>3. QED
        BY <2>2 DEF Abstract!Next
<1>2. CASE EvaluateHints
    <2>1. intersectIter' \in Seq(Abstract!Entry)
        BY <1>0, <1>2, EvaluateHintsTypeOK DEF ChunkEntry, Abstract!Entry
    <2>2. Abstract!Evaluate
        BY <1>2, <2>1 DEF EvaluateHints, Abstract!Evaluate, AbstractStatus, queryVars
    <2>3. QED
        BY <2>2 DEF Abstract!Next
<1>3. CASE RejectChunk \/ AddChunk \/ LoopExhausted
    BY <1>3, LoopStepsStutter
<1>4. CASE FinishConstraints
    <2>1. Abstract!Cut(intersectIter) = pos /\ pos \in Nat /\ Follows(pos)
        BY <1>0, <1>4, CutAtFinish DEF FinishConstraints, WalkInv
    <2>2. ~Abstract!Fails(intersectIter)
        BY <1>0, <2>1 DEF Abstract!Fails, RefInv
    <2>3. Abstract!NLive(intersectIter, pos) = count /\ Len(plan) = count
        BY <1>0, <1>4, <2>1, WalkedLive DEF FinishConstraints, Follows, CapInv
    <2>4. plan' = Abstract!PlanOf(intersectIter)
        <3>1. CASE count = 0
            <4>1. plan = <<>>
                BY <1>0, <2>3, <3>1 DEF TypeOK
            <4>2. QED
                BY <1>4, <2>1, <2>3, <3>1, <4>1 DEF FinishConstraints, Abstract!PlanOf
        <3>2. CASE count # 0
            <4>1. Abstract!Dispatched(intersectIter, pos) = plan
                BY <1>0, <2>1, DispatchedIsPlan
            <4>2. QED
                BY <1>4, <2>1, <2>3, <3>2, <4>1 DEF FinishConstraints, Abstract!PlanOf
        <3>3. QED
            BY <3>1, <3>2
    <2>5. Abstract!Plan
        BY <1>4, <2>2, <2>4 DEF FinishConstraints, Abstract!Plan, AbstractStatus, queryVars
    <2>6. QED
        BY <2>5 DEF Abstract!Next
<1>5. CASE UnpackFails
    <2>1. /\ pos \in Nat /\ pos < Len(intersectIter) /\ ~intersectIter[pos + 1].pair
          /\ phase = "loop" /\ Follows(pos)
        BY <1>0, <1>5 DEF UnpackFails, Current, WalkInv
    <2>2. Abstract!Cut(intersectIter) \in (pos + 1)..Len(intersectIter)
        BY <1>0, <2>1, CutBeyondCurrent
    <2>3. Abstract!Fails(intersectIter)
        BY <2>1, <2>2 DEF Abstract!Fails
    <2>4. Abstract!FirstBare(intersectIter) - 1 = pos
        BY <1>0, <2>1, FirstBareIsCurrent
    <2>5. Abstract!Dispatched(intersectIter, pos) = plan
        BY <1>0, <2>1, DispatchedIsPlan
    <2>6. Abstract!PlanFails
        BY <1>5, <2>1, <2>3, <2>4, <2>5
        DEF UnpackFails, Abstract!PlanFails, AbstractStatus, queryVars
    <2>7. QED
        BY <2>6 DEF Abstract!Next
<1>6. CASE UNCHANGED vars
    BY <1>6 DEF vars, queryVars, planVars, Abstract!vars, AbstractStatus
<1>7. QED
    BY <1>1, <1>2, <1>3, <1>4, <1>5, <1>6 DEF Next

LEMMA InitRefInv == Init => RefInv
<1> SUFFICES ASSUME Init PROVE RefInv
    OBVIOUS
<1>1. pos = 0 /\ intersectIter = <<>>
    BY DEF Init
<1>2. Cardinality(LiveIdx(0)) = 0
    BY FS_EmptySet DEF LiveIdx
<1>3. QED
    BY <1>1, <1>2, EmptySeq DEF RefInv

(* _applyConstraints implements ChunkPlanSpec (ImplementsChunkPlanSpec):   *)
(* whatever the iteration, the empty chunks and the limit, when it returns *)
(* the session holds the specification's capped non-empty chunks of the    *)
(* iteration or the dummy chunk, and when a bare chunk id makes it raise,  *)
(* the chunks added before that entry.                                     *)
THEOREM RefinesChunkPlanSpec == Spec => ImplementsChunkPlanSpec
<1>1. Spec => []RInv
    <2>1. Init => RefInv
        BY InitRefInv
    <2>2. QED
        BY <2>1, PlanInvariants, RefInvInductive, PTL DEF Spec, RInv
<1>2. QED
    BY <1>1, InitRefines, StepRefines, PTL DEF Spec, ImplementsChunkPlanSpec, Abstract!Spec

=============================================================================
