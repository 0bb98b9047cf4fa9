--------------------------- MODULE ChunkPlanSpec ---------------------------
(***************************************************************************)
(* What _applyConstraints (app.py:510-576) promises, without its loop: once *)
(* the hints are evaluated into an iteration of entries, the chunks left in *)
(* the C++ session are a function of that iteration, the empty-chunk set    *)
(* and the chunk limit, computed in one step.                              *)
(*                                                                         *)
(*  - Walked: the loop stops after the entry at which the chunk limit is   *)
(*    reached, or at the end of the iteration.                             *)
(*  - A bare chunk id among the walked entries makes the planning fail,    *)
(*    and the session keeps the chunks added before it.                    *)
(*  - Otherwise the session holds the non-empty walked chunks in iteration *)
(*    order, or the dummy chunk alone when there is none.                  *)
(***************************************************************************)
EXTENDS Naturals, Sequences, FiniteSets

CONSTANTS Chunks, DummyChunk

VARIABLES
    emptyChunks,  \* metadata.getEmptyChunks(dominantDb)
    chunkLimit,   \* self.chunkLimit
    status,       \* "evaluate" | "planning" | "done" | "failed"
    iter,         \* the iteration the hints evaluated to
    result        \* the chunks added to the session, in order

vars == <<emptyChunks, chunkLimit, status, iter, result>>

Entry == [chunk : Chunks, pair : BOOLEAN]

(* Entry i of s reaches addChunk: it unpacks and its chunk is not empty.   *)
Live(s, i) == s[i].pair /\ s[i].chunk \notin emptyChunks

(* The number of addChunk calls among the first k entries.                 *)
NLive(s, k) == Cardinality({i \in 1..k : Live(s, i)})

Stops(s, k) == NLive(s, k) = chunkLimit \/ k = Len(s)

(* The number of entries the loop walks when nothing fails.                *)
Cut(s) == CHOOSE k \in 0..Len(s) : Stops(s, k) /\ \A j \in 0..(k - 1) : ~Stops(s, j)

Fails(s) == \E i \in 1..Cut(s) : ~s[i].pair

FirstBare(s) == CHOOSE i \in 1..Len(s) : ~s[i].pair /\ \A j \in 1..(i - 1) : s[j].pair

(* The chunks of the live entries among the first k, in order: the j-th   *)
(* is the chunk of the live entry with exactly j live entries up to it.    *)
Dispatched(s, k) ==
    [j \in 1..NLive(s, k) |->
        s[CHOOSE i \in 1..k : Live(s, i) /\ NLive(s, i) = j].chunk]

PlanOf(s) == IF NLive(s, Cut(s)) = 0 THEN <<DummyChunk>> ELSE Dispatched(s, Cut(s))

Init ==
    /\ emptyChunks \in SUBSET Chunks
    /\ chunkLimit \in Nat \ {0}
    /\ status = "evaluate"
    /\ iter = <<>>
    /\ result = <<>>

(* _evaluateHints yields some iteration over the partition map's chunks.   *)
Evaluate ==
    /\ status = "evaluate"
    /\ iter' \in Seq(Entry)
    /\ status' = "planning"
    /\ UNCHANGED <<emptyChunks, chunkLimit, result>>

(* A hint cannot be evaluated: the planning fails before any addChunk.     *)
EvaluateFails ==
    /\ status = "evaluate"
    /\ status' = "failed"
    /\ UNCHANGED <<emptyChunks, chunkLimit, iter, result>>

Plan ==
    /\ status = "planning"
    /\ ~Fails(iter)
    /\ result' = PlanOf(iter)
    /\ status' = "done"
    /\ UNCHANGED <<emptyChunks, chunkLimit, iter>>

PlanFails ==
    /\ status = "planning"
    /\ Fails(iter)
    /\ result' = Dispatched(iter, FirstBare(iter) - 1)
    /\ status' = "failed"
    /\ UNCHANGED <<emptyChunks, chunkLimit, iter>>

Next == Evaluate \/ EvaluateFails \/ Plan \/ PlanFails

Spec == Init /\ [][Next]_vars

=============================================================================
