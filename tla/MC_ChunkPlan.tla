---------------------------- MODULE MC_ChunkPlan ----------------------------
(* Model-checking instance of ChunkPlan: three chunks (chunk 0 included,   *)
(* since RangePrint treats -1 as "no run yet"), a region over two chunks,  *)
(* one over one chunk and one outside the partition map, and index keys    *)
(* two of which share a chunk and one of which has no row.                 *)
EXTENDS ChunkPlan, TLC

CONSTANTS r1, r2, r3, k1, k2, k3, k4

MCChunks == {0, 1, 2}
MCRegions == {r1, r2, r3}
MCRegionChunks == (r1 :> {0, 1}) @@ (r2 :> {2}) @@ (r3 :> {})
MCKeys == {k1, k2, k3, k4}
MCKeyChunk == (k1 :> 0) @@ (k2 :> 2) @@ (k3 :> 2) @@ (k4 :> NoRow)
=============================================================================
