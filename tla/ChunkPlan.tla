----------------------------- MODULE ChunkPlan -----------------------------
(***************************************************************************)
(* Chunk planning of one user query in the qserv master frontend           *)
(* (src/master/python/lsst/qserv/master/app.py):                           *)
(*   InbandQueryAction._applyConstraints, which calls _evaluateHints,      *)
(*   _computeSpatialRegions, _computeIndexRegions and SecondaryIndex.lookup*)
(*   and then walks self._intersectIter, dropping empty chunks (RangePrint *)
(*   logs them), calling addChunk for the others up to chunkLimit, and     *)
(*   adding the dummy chunk when nothing was added.                        *)
(*                                                                         *)
(* Data is abstracted to what the properties tell apart: a spatial region  *)
(* is a model value standing for the set of chunks it intersects, a        *)
(* secondary-index key is a model value with the chunk of its index row,   *)
(* subchunk lists are left out (no property reads them).  The evaluation   *)
(* of the hints is one step (it is sequential code with no suspension that *)
(* another actor could observe); the loop over _intersectIter is one step  *)
(* per iteration, so that a failure in the middle of it is visible.        *)
(***************************************************************************)
EXTENDS Integers, Sequences, FiniteSets

CONSTANTS
    Chunks,            \* chunk ids of the dominant database's partition map
    DummyChunk,        \* dummyEmptyChunk (app.py:126)
    DefaultChunkLimit, \* self.chunkLimit = 2**32 (app.py:409)
    CfgLimits,         \* values of config "debug.chunkLimit" (app.py:605)
    Regions,           \* spatial regions a hint can describe
    RegionChunks,      \* RegionChunks[r]: chunks pmap.intersect finds for r
    Keys,              \* secondary-index key values
    KeyChunk,          \* KeyChunk[k]: chunkId of k's index row, or NoRow
    NoRow,             \* the key has no row in the secondary index
    MaxLookups         \* bound on the number of sIndex hints of a query

ASSUME ChunksAssumption == Chunks \subseteq Nat /\ IsFiniteSet(Chunks)
ASSUME DummyAssumption == DummyChunk \in Nat \ Chunks
ASSUME LimitAssumption ==
    /\ DefaultChunkLimit \in Nat \ {0}
    /\ CfgLimits \subseteq Int
ASSUME RegionAssumption == RegionChunks \in [Regions -> SUBSET Chunks]
ASSUME KeyAssumption ==
    /\ NoRow \notin Chunks
    /\ IsFiniteSet(Keys)
    /\ KeyChunk \in [Keys -> Chunks \cup {NoRow}]
ASSUME LookupAssumption == MaxLookups \in Nat

VARIABLES
    \* the query: its hints, the empty-chunk set and the limit; fixed in Init
    spatial,       \* regions of the well-formed spatial hints
    malformed,     \* a spatial hint whose parameters the factory rejects
    lookups,       \* key sets of the sIndex hints, in hint order
    other,         \* some other constraint is in hintList
    emptyChunks,   \* metadata.getEmptyChunks(dominantDb) (app.py:530)
    chunkLimit,    \* self.chunkLimit after _importQconfig (app.py:599-608)
    \* the planning state
    phase,         \* "evaluate" | "loop" | "finish" | "done" | "failed"
    isFullSky,     \* self._isFullSky
    intersectIter, \* self._intersectIter, as a sequence of entries
    pos,           \* entries of intersectIter consumed by the for loop
    count,         \* count in _applyConstraints
    plan,          \* chunk ids passed to addChunk, in order
    rpFirst,       \* RangePrint.first
    rpLast,        \* RangePrint.last
    log            \* ranges RangePrint._print reported, as <<first, last>>

queryVars == <<spatial, malformed, lookups, other, emptyChunks, chunkLimit>>
planVars == <<phase, isFullSky, intersectIter, pos, count, plan>>
rpVars == <<rpFirst, rpLast, log>>
vars == <<queryVars, planVars, rpVars>>

-----------------------------------------------------------------------------
(* Entries of _intersectIter.  pmap.intersect and the index-only branch    *)
(* yield (chunkId, subChunks) pairs; chain(..., indexRegions) at app.py:492*)
(* appends the bare chunk ids the index lookup returned.                   *)
Entry == [chunk : Nat, pair : BOOLEAN]
Pair(c) == [chunk |-> c, pair |-> TRUE]
Bare(c) == [chunk |-> c, pair |-> FALSE]
Pairs(s) == [i \in 1..Len(s) |-> Pair(s[i])]
Bares(s) == [i \in 1..Len(s) |-> Bare(s[i])]

(* The enumerations of a finite set: the orders a SELECT without ORDER BY  *)
(* may return its distinct rows in.                                        *)
Orders(S) == {s \in [1..Cardinality(S) -> S] :
                \A i, j \in 1..Cardinality(S) : i # j => s[i] # s[j]}

(* The ascending enumeration of a set of chunk ids (a one-element set).   *)
Sorted(S) == {s \in Orders(S) : \A i \in 1..Len(s) - 1 : s[i] < s[i + 1]}

(* Iterating the partition map itself (the full-sky case, app.py:479)      *)
(* yields every chunk; pmap.intersect(regions) yields the chunks of the    *)
(* regions, merged, in chunk order.                                        *)
RegionsChunks(rs) == UNION {RegionChunks[r] : r \in rs}

(* SecondaryIndex.lookup (app.py:363-384).  One SELECT per lookup, joined  *)
(* by " UNION ": a single lookup is a plain SELECT that returns one row per*)
(* matching key, several are a UNION that returns each chunk id once.      *)
(* Either way the rows come in no specified order.                         *)
MatchingKeys(l) == {k \in l : KeyChunk[k] # NoRow}
KeyRows(ks) == [i \in 1..Len(ks) |-> KeyChunk[ks[i]]]
LookupRows(ls) ==
    IF Len(ls) = 1
    THEN {KeyRows(ks) : ks \in Orders(MatchingKeys(ls[1]))}
    ELSE Orders(UNION {{KeyChunk[k] : k \in MatchingKeys(ls[i])} :
                            i \in 1..Len(ls)})

(* A lookup with no key builds "IN ()", which the database rejects; the    *)
(* resulting exception aborts planning like QueryHintError (app.py:382).   *)
LookupFails(ls) == \E i \in 1..Len(ls) : ls[i] = {}

HasHints == spatial # {} \/ malformed \/ lookups # <<>> \/ other

(* _importQconfig (app.py:604-608): a positive "debug.chunkLimit"         *)
(* replaces the default limit.  Faulty variant: the test written >= 0.     *)
ChunkLimitOfGe(cfgLimit) == IF cfgLimit >= 0 THEN cfgLimit ELSE DefaultChunkLimit
ChunkLimitOf(cfgLimit) == IF cfgLimit > 0 THEN cfgLimit ELSE DefaultChunkLimit

-----------------------------------------------------------------------------
QueryInit ==
    /\ spatial \in SUBSET Regions
    /\ malformed \in BOOLEAN
    /\ lookups \in UNION {[1..n -> SUBSET Keys] : n \in 0..MaxLookups}
    /\ other \in BOOLEAN
    /\ emptyChunks \in SUBSET Chunks
    /\ \E cfgLimit \in CfgLimits : chunkLimit = ChunkLimitOf(cfgLimit)

Init ==
    /\ QueryInit
    /\ phase = "evaluate"
    /\ isFullSky = TRUE
    /\ intersectIter = <<>>
    /\ pos = 0
    /\ count = 0
    /\ plan = <<>>
    /\ rpFirst = -1
    /\ rpLast = -1
    /\ log = <<>>

(* A hint that cannot be evaluated raises out of _applyConstraints before  *)
(* anything is added: _computeSpatialRegions raises QueryHintError on a    *)
(* malformed spatial hint (app.py:652-655), and the index lookup runs only *)
(* after it (app.py:481-482).                                              *)
EvaluateHintsFails ==
    /\ phase = "evaluate"
    /\ HasHints
    /\ malformed \/ LookupFails(lookups)
    /\ phase' = "failed"
    /\ UNCHANGED <<queryVars, isFullSky, intersectIter, pos, count, plan,
                   rpVars>>

(* _evaluateHints (app.py:475-508) with its inputs from _applyConstraints  *)
(* (app.py:514-530): the iteration _applyConstraints will walk.  Without   *)
(* hints, or when neither a region nor an index row was found, it is the   *)
(* partition map itself and isFullSky stays TRUE.                          *)
EvaluateHints ==
    /\ phase = "evaluate"
    /\ ~malformed
    /\ ~LookupFails(lookups)
    /\ \E rows \in IF lookups # <<>> THEN LookupRows(lookups) ELSE {<<>>},
         pm \in Sorted(Chunks), sp \in Sorted(RegionsChunks(spatial)) :
         LET spatialIter == IF spatial # {} THEN Pairs(sp) ELSE Pairs(pm)
         IN  IF rows # <<>>
             THEN /\ intersectIter' =
                       IF spatial # {} THEN spatialIter \o Bares(rows)
                                       ELSE Pairs(rows)
                  /\ isFullSky' = FALSE
             ELSE /\ intersectIter' = spatialIter
                  /\ isFullSky' = (spatial = {})
    /\ phase' = "loop"
    /\ UNCHANGED <<queryVars, pos, count, plan, rpVars>>

-----------------------------------------------------------------------------
(* One iteration of "for chunkId, subIter in self._intersectIter"          *)
(* (app.py:553-569).                                                       *)
Current == intersectIter[pos + 1]

(* RangePrint._print (app.py:542-546): the range it reports.               *)
Reported(first, last) == IF last - first > 1 THEN <<first, last>>
                                             ELSE <<last, last>>

(* Faulty variant: an empty chunk ends the loop (break for continue).     *)
RejectChunkBreaks ==
    /\ phase = "loop"
    /\ pos < Len(intersectIter)
    /\ Current.pair
    /\ Current.chunk \in emptyChunks
    /\ pos' = pos + 1
    /\ phase' = "finish"
    /\ UNCHANGED <<queryVars, isFullSky, intersectIter, count, plan, rpVars>>

(* An empty chunk is skipped and handed to RangePrint.add (app.py:536-541).*)
RejectChunk ==
    /\ phase = "loop"
    /\ pos < Len(intersectIter)
    /\ Current.pair
    /\ Current.chunk \in emptyChunks
    /\ LET c == Current.chunk IN
         /\ IF rpLast # c - 1
            THEN /\ log' = IF rpLast # -1
                           THEN Append(log, Reported(rpFirst, rpLast))
                           ELSE log
                 /\ rpFirst' = c
            ELSE UNCHANGED <<log, rpFirst>>
         /\ rpLast' = c
    /\ pos' = pos + 1
    /\ UNCHANGED <<queryVars, phase, isFullSky, intersectIter, count, plan>>

(* Faulty variants: the empty-chunk test dropped; the limit tested with > *)
AddChunkNoEmptyCheck ==
    /\ phase = "loop"
    /\ pos < Len(intersectIter)
    /\ Current.pair
    /\ plan' = Append(plan, Current.chunk)
    /\ count' = count + 1
    /\ pos' = pos + 1
    /\ phase' = IF count + 1 >= chunkLimit THEN "finish" ELSE "loop"
    /\ UNCHANGED <<queryVars, isFullSky, intersectIter, rpVars>>

AddChunkLateBreak ==
    /\ phase = "loop"
    /\ pos < Len(intersectIter)
    /\ Current.pair
    /\ Current.chunk \notin emptyChunks
    /\ plan' = Append(plan, Current.chunk)
    /\ count' = count + 1
    /\ pos' = pos + 1
    /\ phase' = IF count + 1 > chunkLimit THEN "finish" ELSE "loop"
    /\ UNCHANGED <<queryVars, isFullSky, intersectIter, rpVars>>

(* Any other chunk gets a ChunkSpec and addChunk; the loop breaks when     *)
(* count reaches chunkLimit (app.py:558-569).                              *)
AddChunk ==
    /\ phase = "loop"
    /\ pos < Len(intersectIter)
    /\ Current.pair
    /\ Current.chunk \notin emptyChunks
    /\ plan' = Append(plan, Current.chunk)
    /\ count' = count + 1
    /\ pos' = pos + 1
    /\ phase' = IF count + 1 >= chunkLimit THEN "finish" ELSE "loop"
    /\ UNCHANGED <<queryVars, isFullSky, intersectIter, rpVars>>

(* A bare chunk id cannot be unpacked into (chunkId, subIter): TypeError   *)
(* leaves _applyConstraints with the chunks added so far still in the      *)
(* session.                                                                *)
UnpackFails ==
    /\ phase = "loop"
    /\ pos < Len(intersectIter)
    /\ ~Current.pair
    /\ phase' = "failed"
    /\ UNCHANGED <<queryVars, isFullSky, intersectIter, pos, count, plan,
                   rpVars>>

LoopExhausted ==
    /\ phase = "loop"
    /\ pos = Len(intersectIter)
    /\ phase' = "finish"
    /\ UNCHANGED <<queryVars, isFullSky, intersectIter, pos, count, plan,
                   rpVars>>

(* Faulty variant: the dummy chunk is never added.                         *)
FinishConstraintsNoDummy ==
    /\ phase = "finish"
    /\ log' = Append(log, Reported(rpFirst, rpLast))
    /\ phase' = "done"
    /\ UNCHANGED <<queryVars, isFullSky, intersectIter, pos, count, plan,
                   rpFirst, rpLast>>

(* After the loop: the dummy chunk when nothing was added, then            *)
(* rPrint.finish() (app.py:570-575).                                       *)
FinishConstraints ==
    /\ phase = "finish"
    /\ plan' = IF count = 0 THEN Append(plan, DummyChunk) ELSE plan
    /\ log' = Append(log, Reported(rpFirst, rpLast))
    /\ phase' = "done"
    /\ UNCHANGED <<queryVars, isFullSky, intersectIter, pos, count,
                   rpFirst, rpLast>>

Next ==
    \/ EvaluateHintsFails
    \/ EvaluateHints
    \/ RejectChunk
    \/ AddChunk
    \/ UnpackFails
    \/ LoopExhausted
    \/ FinishConstraints

Spec == Init /\ [][Next]_vars

-----------------------------------------------------------------------------
(***************************************************************************)
(* Properties.                                                             *)
(***************************************************************************)
TypeOK ==
    /\ spatial \in SUBSET Regions
    /\ malformed \in BOOLEAN
    /\ lookups \in Seq(SUBSET Keys)
    /\ other \in BOOLEAN
    /\ emptyChunks \in SUBSET Chunks
    /\ chunkLimit \in Nat \ {0}
    /\ phase \in {"evaluate", "loop", "finish", "done", "failed"}
    /\ isFullSky \in BOOLEAN
    /\ intersectIter \in Seq(Entry)
    /\ pos \in Nat
    /\ count \in Nat
    /\ plan \in Seq(Nat)
    /\ rpFirst \in Int
    /\ rpLast \in Int
    /\ log \in Seq(Int \X Int)

IterChunk(i) == intersectIter[i].chunk
PlanChunks == {plan[i] : i \in DOMAIN plan}

(* The positions among the first k entries of the iteration whose chunk is *)
(* not empty, and the rank of position i among them.                       *)
LiveIdx(k) == {i \in 1..k : IterChunk(i) \notin emptyChunks}
Rank(i) == Cardinality(LiveIdx(i))

(* plan is the subsequence of the non-empty chunks among the first k       *)
(* entries: it has one element per such entry, and the entry of rank r is  *)
(* its r-th element.                                                       *)
Follows(k) ==
    /\ Len(plan) = Cardinality(LiveIdx(k))
    /\ \A i \in LiveIdx(k) : plan[Rank(i)] = IterChunk(i)

(* The chunks addChunk received are exactly the non-empty chunks of the    *)
(* part of _intersectIter the loop has walked, in its order, or the dummy  *)
(* chunk alone when that part holds none: no empty chunk is dispatched, no *)
(* candidate is skipped or reordered, and the dummy chunk never joins real *)
(* chunks.                                                                 *)
PlanFollowsIteration ==
    \/ Follows(pos)
    \/ /\ phase = "done"
       /\ plan = <<DummyChunk>>
       /\ LiveIdx(pos) = {}

(* The chunk limit bounds the number of ChunkSpecs added to the session,   *)
(* the dummy chunk included.                                               *)
CapRespected == Len(plan) <= chunkLimit

(* When planning finishes below the chunk limit, every non-empty chunk of  *)
(* _intersectIter was dispatched: the loop only stops early at the cap.    *)
DispatchComplete ==
    (phase = "done" /\ Len(plan) < chunkLimit) =>
        \A i \in DOMAIN intersectIter :
            IterChunk(i) \notin emptyChunks => IterChunk(i) \in PlanChunks

(* spec 4.3/7: a planning failure returns no partial plan; no chunk is     *)
(* added to the session of a query whose planning fails.                   *)
NoPartialPlanOnError == phase = "failed" => plan = <<>>

(* spec 3: at most one ChunkSpec per chunkId in a plan.                    *)
NoDuplicateChunk ==
    \A i, j \in DOMAIN plan : i # j => plan[i] # plan[j]

(* The chunks the secondary index resolves the query's sIndex keys to.     *)
IndexChunks ==
    UNION {{KeyChunk[k] : k \in MatchingKeys(lookups[i])} :
               i \in DOMAIN lookups}

(* spec 4.3 steps 3, 5 and 8: a query constrained only by sIndex hints is  *)
(* not full-sky; it is dispatched to the chunks the index returned, or to  *)
(* the dummy chunk when it returned none.                                  *)
IndexConstrainedPlan ==
    (phase = "done" /\ lookups # <<>> /\ spatial = {}) =>
        PlanChunks \subseteq IndexChunks \cup {DummyChunk}

(* spec 4.3 step 7 and 8: when the chunk limit truncates the plan, the     *)
(* chunks kept are the lowest-numbered dispatchable candidates.            *)
CapKeepsLowest ==
    (phase = "done" /\ Len(plan) = chunkLimit) =>
        \A i \in DOMAIN intersectIter :
            (IterChunk(i) \notin emptyChunks \cup PlanChunks) =>
                \A c \in PlanChunks : c < IterChunk(i)

(* The chunks the loop rejected as empty.                                  *)
Rejected == {IterChunk(i) : i \in {j \in 1..pos : IterChunk(j) \in emptyChunks}}
LogCovers == UNION {r[1]..r[2] : r \in {log[i] : i \in DOMAIN log}}

(* spec 4.3 step 6: the rejection log reports exactly the rejected chunks, *)
(* a run of one as "chunk N" and a longer run as "chunks N-M".             *)
RejectLogExact == phase = "done" => LogCovers = Rejected

-----------------------------------------------------------------------------
(* Refinement mapping onto ChunkPlanSpec: the loop and the finish step are *)
(* one planning phase, and the session's chunks are visible once           *)
(* _applyConstraints has returned or raised.                               *)
AbstractStatus ==
    CASE phase = "evaluate"           -> "evaluate"
      [] phase \in {"loop", "finish"} -> "planning"
      [] OTHER                        -> phase

Abstract == INSTANCE ChunkPlanSpec
              WITH status <- AbstractStatus,
                   iter <- intersectIter,
                   result <- IF phase \in {"done", "failed"} THEN plan ELSE <<>>

(* _applyConstraints implements its one-step specification: whatever the   *)
(* interleaving of rejections, additions and the break, when it returns the *)
(* session holds exactly the capped non-empty chunks of the iteration or    *)
(* the dummy chunk, and when it raises on a bare chunk id the chunks added  *)
(* before it.                                                              *)
ImplementsChunkPlanSpec == Abstract!Spec

=============================================================================
