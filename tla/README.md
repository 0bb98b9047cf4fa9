# Verification of the qserv master frontend (app.py)

This directory holds TLA+ models of the query-planning and session logic of the
qserv master frontend, `src/master/python/lsst/qserv/master/app.py`. It has
TLC configurations that model-check them on small instances and TLAPS proofs of
the main planning invariants. `PROJECT.json` lists:
- the components;
- the runs and their mutants;
- the map from every model definition to the lines of code it translates;
- the findings, the hazards and the theorems.

## 1. Inventory of the system

### Parts and how they interact

`app.py` is the Python layer that turns one user query into chunk queries for
the C++ dispatcher. A client constructs an `InbandQueryAction`, calls `invoke()`
on one thread, and calls `getResult()` from the same thread or from others.

| Part | Code | State | Operations |
|------|------|-------|------------|
| Metadata cache | `MetadataCacheIface` (app.py:190-290) | module global `_defaultMetadataCacheSessionId`; C++ metadata sessions filled from qms | `getDefaultSessionId`, `newSession`, `_fetchAllData`, `_addDb`, `_addTable` |
| Query action lifecycle | `InbandQueryAction.__init__`, `invoke`, `getResult`, `_execAndJoin` (393-455, 579-597) | `_invokeLock` (a `Semaphore(1)`), `isValid`, `sessionId`, `_error` | construct, invoke, getResult |
| Chunk planning | `_applyConstraints`, `_evaluateHints`, `_computeSpatialRegions`, `_computeIndexRegions`, `SecondaryIndex.lookup`, `RangePrint`, `_importQconfig` (363-384, 475-576, 599-657) | `_intersectIter`, `_isFullSky`, `count`, the chunks given to `addChunk`, RangePrint's `first`/`last` | evaluate hints; loop over the iteration; add the dummy chunk; print the rejection log |
| C++ glue, merger, config | `_prepareForExec`, `_prepareCppConfig`, `_prepareMerger` | C++ session | marshalling only |
| Placeholders | `TaskTracker`, `KillQueryAction`, `CheckAction`, `results`, `clauses`, `debug`/`listen` | trivial | none worth checking |
| Provisioning | `src/admin/tools/provision/provision-qserv.py` | cloud resources | OpenStack API calls |

The parts interact in this order:
1. The constructor acquires `_invokeLock`.
2. It calls `getDefaultSessionId`. The first call in the process fetches every database's metadata from qms.
3. `_prepareForExec` creates the C++ session and runs chunk planning, which calls `addChunk` once per chunk.
4. `invoke` dispatches and joins the session, then releases the lock.
5. `getResult` waits on the lock.

### Hard behaviours

- **Interleaving.** `getDefaultSessionId` tests and sets the global without a lock, and the qms round trips lie between the test and the assignment. Constructors on several threads can race there. Readers of `getResult` race `invoke`.
- **Partial failure.** A `QmsException` can abort `_fetchAllData` after some databases were added. A `TypeError` can abort the chunk loop after some `addChunk` calls.
- **Exceptions escaping a lock protocol.** `invoke` releases the semaphore without `try/finally`.
- **Boundaries.** The chunk-limit test `count >= chunkLimit` and the configured limit `<= 0`. RangePrint's -1 sentinel and its run detection.
- **Unordered data.** Index rows come from a SELECT without ORDER BY. A single lookup has no UNION, so its rows can repeat.

### Properties that make each part correct

- **Planning:**
  - the chunks dispatched are exactly the non-empty candidates, in order, or the dummy chunk alone;
  - never more than the limit;
  - all candidates when the limit did not cut the loop;
  - no partial plan on error, no duplicate chunk;
  - an index-only query stays index-constrained;
  - the lowest chunks are kept under the limit;
  - the rejection log is exact.
- **Metadata cache:** no caller gets an incompletely filled session, and the metadata is fetched once.
- **Lifecycle:** `getResult` returns only after the join, and always returns once `invoke` has been called.

## 2. Modules and plan

| Module | Models | Kind |
|--------|--------|------|
| `ChunkPlan` | chunk planning of one query | component |
| `ChunkPlanSpec` | what `_applyConstraints` promises, computed in one step | abstract spec of `ChunkPlan` |
| `ChunkPlanProofs` | TLAPS proofs about `ChunkPlan` | proofs |
| `ChunkPlanRefinementProofs` | TLAPS proof that `ChunkPlan` implements `ChunkPlanSpec` | proofs |
| `MetadataCache` | `getDefaultSessionId` run by several threads | component |
| `MetadataCacheProofs` | TLAPS proofs about `MetadataCache` | proofs |
| `QueryAction` | `_invokeLock` protocol of one action with several readers | component |
| `ResultFuture` | the one-shot future of spec 9 | abstract spec of `QueryAction` |
| `QueryActionProofs` | TLAPS proofs about `QueryAction` and its refinement | proofs |
| `MC_*` | model values and constants for TLC | MC modules |

They were built in this order: ChunkPlan, then MetadataCache, then QueryAction, then the two abstract specifications and their refinements.

Planned next:
- a composition in which the constructor's outcome in `QueryAction` comes from `MetadataCache` (the "noSession" exit) and from `ChunkPlan` (the "invalid" exit).

### ChunkPlanSpec and the refinement

`ChunkPlanSpec` states the result of `_applyConstraints` as a function of three things: the iteration the hints evaluated to, the empty-chunk set and the chunk limit.
- `Cut` is the number of entries the loop walks: it stops at the entry where the limit is reached, or at the end.
- `Fails` holds when a bare chunk id lies among the walked entries. Planning then fails, and the session keeps the chunks `Dispatched` before the first bare entry.
- Otherwise `PlanOf` gives the session's chunks: the non-empty walked chunks in order, or the dummy chunk alone.

`Dispatched(s, k)` is stated by ranks: its j-th element is the chunk of the live entry that has exactly j live entries up to and including it. This is the same sequence as filtering the first k entries with `SelectSeq`. It is written this way because the provers can reason about cardinalities but not about `SelectSeq`'s recursive definition.

`ChunkPlan` maps onto it (`Abstract == INSTANCE ChunkPlanSpec WITH ...`):
- `loop` and `finish` map to `planning`;
- `iter` is `intersectIter`;
- the abstract `result` is `plan`, once `_applyConstraints` has returned or raised.

The loop's steps are then stutters. `FinishConstraints` is the abstract `Plan` step and `UnpackFails` is `PlanFails`.

### ResultFuture and the refinement

Spec 9 describes the invoke-then-join gate as a one-shot future.
- `ResultFuture` has a `resolved` flag and, for each reader, `idle`, `waiting` or `returned`.
- It is fair to a waiting reader once the future is resolved.

`QueryAction` maps onto it:
- `resolved` is invoke's release (`ipc = "done"`);
- a reader in `acquire` is `waiting`;
- a reader past the semaphore has `returned`.

### ChunkPlan

**Query inputs.** The query is fixed by `Init` and never changes. Its inputs are:
- the set of spatial regions, each a model value standing for the chunks `pmap.intersect` yields for it;
- whether a spatial hint is malformed (`QueryHintError` at 652-655);
- the key sets of the `sIndex` hints, in hint order (`MaxLookups` bounds their number);
- the empty-chunk set;
- the chunk limit computed by `ChunkLimitOf`, which is `_importQconfig` over a set of configured values (`CfgLimits`, which includes 0).

**Evaluating the hints.** `EvaluateHints` is the whole of `_evaluateHints` plus the index lookup, in one step.
- It chooses the SQL row order of the index result nondeterministically (`LookupRows`).
- A single lookup returns one row per matching key, so rows can repeat. Several lookups form a UNION and return distinct rows.
- It builds `_intersectIter` as the code does. With both a spatial and an index hint, the iteration is the spatial pairs followed by the bare ids that `chain` appends.
- `EvaluateHintsFails` is the `QueryHintError` path, and also the empty `IN ()` lookup, which the database rejects.

**The chunk loop.** One action per iteration outcome:
- `RejectChunk`: the `continue` path, including `RangePrint.add`.
- `AddChunk`: `addChunk`, then `count += 1` and the break test.
- `UnpackFails`: the TypeError raised on a bare id.
- `LoopExhausted`: the iteration ran out.
- `FinishConstraints`: the dummy chunk when `count == 0`, then `rPrint.finish()`.

**The plan property.** `PlanFollowsIteration` says the plan is the subsequence of the non-empty chunks among the first `pos` entries. It is stated with `LiveIdx(k)`, the non-empty positions among the first k, and `Rank(i) = Cardinality(LiveIdx(i))`:
- the plan has one element per such position;
- the position of rank r is the plan's r-th element.

Ranks of distinct positions differ and fill `1..Cardinality(LiveIdx(k))`, so this pins down the whole sequence. It says the same as `plan = SelectSeq(...)` over the walked chunks.

**Abstracted data.** Subchunk lists (no property reads them) and the text of the log messages. `isFullSky` is kept as the code sets it, but no property reads it. The log keeps the `<<first, last>>` range that each message reports.

### MetadataCache

**State.**
- A thread is one constructor inside `getDefaultSessionId`.
- `defaultId` is the global.
- `cache[s]` holds the databases added to C++ session `s`.

**Actions.**
- `CheckDefault`: the test at 204 when the global is already set, merged with the return at 207. Nothing runs between them on that path.
- `NewSession`: `newMetadataSession`.
- `AddDb`: one `_addDb` call plus its `_addTable` calls.
- `FetchFails`: any `QmsException` from the qms client, `_addDb` or `_addTable`. It is enabled only while a database is still missing, because once the last database is in `_fetchAllData` has returned.
- `FetchDone`: `newSession` returns.
- `AssignDefault`: the assignment at 205.
- `ReturnDefault`: the re-read of the global at 207.

Each step is atomic. That is justified because the GIL can switch threads at any qms call, and the model allows a switch at every step.

### QueryAction

**State.**
- `ctor`: the constructor's exit, one of:
  - `noSession`: `getDefaultSessionId` raised, so `self.sessionId` was never set;
  - `invalid`: `_prepareForExec` raised after `newSession`;
  - `valid`.
- `sem`: the semaphore.
- `ipc`: where the invoker is.
- `rpc[r]`: where reader `r` is in `getResult`.
- `joined`, `discarded`: the C++ session effects of `_execAndJoin`. No property reads `discarded`.

**Exceptions.** `ExecAndJoin` raises only for a `noSession` action. With a session set, the model takes `submitQuery3`, `joinSession` and `_reportError` not to raise. `ReadersReturn` holds in the passing run only under that assumption. A raise there would hang the readers exactly as `query_action_invalid_hang` shows.

**Constant.** `InvokeInvalid` says whether callers invoke actions that are not valid.

## 3. Runs

| Run | Checks | Result |
|-----|--------|--------|
| `plan_all` | TypeOK, PlanFollowsIteration, CapRespected, DispatchComplete, ImplementsChunkPlanSpec | pass (909,578 states) |
| `plan_partial_on_error` | NoPartialPlanOnError | violated: spatial `{r2}` plus lookup `{k1}` adds chunk 2, then fails with TypeError |
| `plan_duplicate_chunk` | NoDuplicateChunk | violated: the single lookup `{k2,k3}` (both in chunk 2) dispatches chunk 2 twice |
| `plan_index_miss` | IndexConstrainedPlan | violated: lookup `{k4}` (no row) is planned over the whole partition map; under limit 1 the trace dispatches its first chunk, not the dummy chunk |
| `plan_cap_order` | CapKeepsLowest | violated: limit 1 with rows in order 2, 0 keeps chunk 2 |
| `plan_reject_log` | RejectLogExact | violated: "Rejecting chunk: -1" with nothing rejected. The run of two printed as one chunk comes from reading line 543; this trace does not show it |
| `metadata` | TypeOK, ReturnedSessionComplete, DefaultOnlyComplete | pass (three threads, two databases, symmetry) |
| `metadata_duplicate_fetch` | NoDuplicateFetch | violated: two threads both fetch |
| `query_action` | TypeOK, ResultAfterJoin, ImplementsResultFuture, ReadersReturn | pass (four readers, invoke only on valid actions) |
| `query_action_invalid_hang` | ReadersReturn | violated: invoke on a `noSession` action raises before its release, so the readers block forever |

Each passing property has a mutant in `PROJECT.json`: a plausible bug in the code it covers. TLC finds each mutant violating its property.

Examples:
- `AddChunkLateBreak` (`>` for `>=`) breaks `CapRespected`.
- `NewSessionPublishing` (the global set before the fetch) breaks `ReturnedSessionComplete` and the action property `DefaultOnlyComplete`.
- `ReleaseInvokeDropped` breaks `ReadersReturn` and `ImplementsResultFuture`.
- `FinishConstraintsNoDummy` (the dummy chunk never added) breaks `ImplementsChunkPlanSpec`.

**What each property does not catch.**
- `PlanFollowsIteration` compares the plan with the iteration, whatever the iteration's order and wherever the loop stopped. It therefore misses the limit off-by-one, which `CapRespected` and `ImplementsChunkPlanSpec` catch. It also misses the row order, which `CapKeepsLowest` shows.
- A dummy chunk that is never added is caught only by `ImplementsChunkPlanSpec`.
- `NoPartialPlanOnError` shows the partial plan left in the session. No property follows that plan into `invoke`.

### Bounds and why they suffice

**ChunkPlan.**
- Instance: chunks `{0,1,2}`; regions covering `{0,1}`, `{2}` and `{}`; four keys (one in chunk 0, two in chunk 2, one with no row); up to 2 lookups; configured limits 0, 1 and 2.
- This covers every branch of `_evaluateHints`:
  - duplicate rows;
  - an empty region;
  - an index miss;
  - the limit cutting the loop at 1 and 2;
  - the default limit;
  - runs of one and two empty chunks;
  - chunk 0 next to RangePrint's -1 sentinel.
- The default limit 2^32 is represented by 2147483647. Only its being larger than any iteration matters.

**MetadataCache.** Three threads let one caller return while two race. Two databases make a half-filled session distinguishable from a full one.

**QueryAction.** Four readers reach the interesting interleavings of acquire and release with the invoker. One reader would not exercise the semaphore handoff.

### Fairness

`QueryAction` assumes weak fairness for:
- the constructor;
- `_execAndJoin`;
- invoke's release;
- a reader's release.

These are plain sequential code that a running thread finishes.

A blocked `acquire` gets strong fairness. A Python `Semaphore.release` wakes a waiter, so an acquire that is repeatedly enabled eventually succeeds.

No fairness is assumed for the caller invoking or for a reader calling `getResult`. For that reason `ReadersReturn` is stated only from the point where invoke has begun.

The other modules check only safety, and `CHECK_DEADLOCK FALSE` is set because a planning or a `getDefaultSessionId` call ends.

## 4. Proofs

### ChunkPlanProofs

`tlapm ChunkPlanProofs.tla` proves the following theorems for every value of the constants that satisfies the `ASSUME`s of `ChunkPlan`.

**`TypeCorrect`: `Spec => []TypeOK`.**
- Lemmas on the helpers: `Orders`, `Sorted` and `Pairs` return sequences of the right type, and `LookupRows` returns sequences of chunk ids.
- One lemma for `EvaluateHints`, one for the loop actions.

**`ChunkLimitRespected`: `Spec => []CapRespected`.** `CapRespected` alone is not inductive: it does not say that the loop stops before the limit is passed. The proof uses the strengthening `CapInv`:
- the length of the plan equals `count` until the end, and is `count`, or 1 for the dummy chunk, once done;
- `count < chunkLimit` while the loop runs;
- `count = 0` before evaluation.

`CapInv` is proved inductive together with `TypeOK`; `chunkLimit >= 1` comes from `ChunkLimitOf`. It was checked with TLC as an invariant before it was proved.

**`EmptyChunksNeverDispatched`: `Spec => []NoEmptyDispatched`.** This holds because the dummy chunk is not a chunk of the partition map (`DummyAssumption`) and `AddChunk` guards on emptiness.

**`PlanFollowsWalk`: `Spec => []PlanFollowsIteration`, and `DispatchCompleteHolds`: `Spec => []DispatchComplete`.** Neither is inductive by itself. The strengthening `WalkInv`, taken together with `TypeOK` and `CapInv`, says:
- `pos` stays within the iteration, and is 0 before evaluation;
- before the finish step the plan follows the walked part exactly (`Follows(pos)`), so the dummy chunk can only be added at the end;
- once the loop has finished below the limit, it has walked the whole iteration.

Lemmas on `LiveIdx` and `Rank` carry the arithmetic:
- `LiveIdx(k)` is finite;
- it grows with k;
- a non-empty position's rank lies in `1..Cardinality(LiveIdx(k))`;
- one more entry adds one position with the next rank, or none (`LiveIdxStep`, from `FS_AddElement`).

`AddChunk` then appends exactly the entry of the next rank, and `RejectChunk` leaves `LiveIdx` unchanged. `DispatchComplete` follows: at the end below the limit, `pos` is the length of the iteration, and every non-empty entry has a rank that indexes the plan. `WalkInv` was checked with TLC on the `plan_all` instance before it was proved.

### ChunkPlanRefinementProofs

**`RefinesChunkPlanSpec`: `Spec => ImplementsChunkPlanSpec`.** It holds for every value of the constants. The invariant `RefInv` adds four facts to `WalkInv`:
- the entries are chunks of the partition map (the type lemmas show `EvaluateHints` builds them from `Chunks`);
- every walked entry unpacked, so the specification's `Live` agrees with `LiveIdx` on the walked part (`WalkedLive`);
- before the last walked entry the limit was not reached;
- every rank up to the number of non-empty walked entries is taken.

The last fact is what `Dispatched` needs. Its `CHOOSE` of the entry of rank j has a witness, and whichever entry it picks, `Follows` gives that entry's chunk as the plan's j-th element (`DispatchedIsPlan`).

The steps map as follows:
- `EvaluateHintsFails` is `EvaluateFails`, and the plan is still empty;
- `EvaluateHints` is `Evaluate`;
- the loop steps are stutters (`LoopStepsStutter`);
- `FinishConstraints` is `Plan`: the specification's `Cut` is `pos` (`CutAtFinish`), and the plan, or the dummy chunk when `count = 0`, is `PlanOf`;
- `UnpackFails` is `PlanFails`: `Cut` lies beyond the current entry (`CutBeyondCurrent`), so `Fails` holds, and `FirstBare` is the current entry (`FirstBareIsCurrent`).

`CutBeyondCurrent` needs `Cut` to exist: a least stopping point of the specification's loop. `CutExists` gets it from the library's `WFMin` and `NatLessThanWellFounded`, with no induction. The instance's copy of `Cardinality` is identified with the module's own (`SameCardinality`).

### MetadataCacheProofs

These hold for any finite, non-empty set of threads and any finite set of databases.

**`MetadataCacheTypeCorrect` and `ReturnedSessionsComplete`.** Both follow from the inductive invariant `SessionInv`:
- `nextId` is one more than the number of threads that have had a session allocated (`Issued`);
- a thread at the check has no session yet;
- a thread past `FetchDone` holds a full session;
- the global, and every id returned, names a full session.

The counting conjunct keeps the ids inside `SessionIds`: a thread that allocates was not in `Issued`, so `Cardinality(Issued) + 1 <= Cardinality(Threads)` (`FS_AddElement`, `FS_Subset`).

**`DefaultOnlyCompleteHolds`: `Spec => DefaultOnlyComplete`.** This action property says the global only ever changes to the id of a completely fetched session, and never back to None. It follows from `SessionInv` in both states of a step (`DefaultStep`). Only `AssignDefault` writes the global, with the thread's own id, and `SessionInv'` makes that session full.

The lemma `FullStaysFull` gives the rest: `_fetchAllData` only adds databases, so a full session stays full. This is why another thread overwriting the global (app.py:205), or the re-read at 207, can never hand out a half-filled session.

### QueryActionProofs

These hold for any set of readers and either value of `InvokeInvalid`.

**`QueryActionTypeCorrect` and `ResultOnlyAfterJoin`.** Both follow from `LockInv`:
- before construction the semaphore is 1 and nobody has started;
- from the constructor's acquire until invoke's release, the semaphore is 0 and no reader holds it;
- invoke's release comes after the join.

**`RefinesResultFuture`.** It proves the safety part of the refinement onto `ResultFuture`:
- `CallGetResult` is `Wait`;
- `ReleaseInvoke` is `Resolve`;
- `AcquireResult` is `Return`, which is enabled because `LockInv` forces invoke to have released;
- every other step is a stutter.

### What is only model-checked
- Liveness (`ReadersReturn`) and everything under fairness: TLAPS does not handle ENABLED here.
- The fairness part of `ImplementsResultFuture`.
- The violation runs, which are counterexamples rather than theorems.
- Any fact about what a recursive definition computes for every input. The models avoid recursion. `Orders` is a set comprehension, and the plan properties and `Dispatched` are stated through cardinalities of index sets rather than through `SelectSeq`. Every invariant and action property that a passing run checks is now also proved.

## 5. Not modelled

- `provision-qserv.py`: cloud provisioning through the OpenStack API, pure external I/O.
- `_prepareCppConfig`, `_prepareMerger` and the C++ calls `setupQuery` and `submitQuery3`: marshalling, represented only by whether they raise (the `invalid` exit of the constructor).
- The geometry of regions and the partition map (the `spatial` module is not in this repository): abstracted to a set of chunks per region, iterated in ascending order.
- `TaskTracker`, `KillQueryAction`, `CheckAction`, `results`, `clauses`, `getResultTable`, `setupResultScratch`, `computeShortCircuitQuery`, `debug`/`listen`: placeholders or single I/O calls.
