# RustyGo: specifications, model checking and proofs

This directory holds TLA+ models of RustyGo's memory runtime, its codecs, its escape analysis
and its compiler plugin, the TLC configurations that check them on small instances, and TLAPS proofs about
the arena and its checkpoints, the pools, the cache, scopes, requests and the compiler plugin. Paths such as `arena.go:297` are relative to the repository.

    tlc -workers 2 -config arena_race.cfg MCArena      # one run
    tlapm ArenaProofs.tla                              # one module of proofs

`PROJECT.json` lists the components, the runs, the mutants that show a property can fail,
the source lines behind every definition, the hazards, the findings and the theorems.

## 1. The system

| Component | State | Operations | What makes it correct |
|---|---|---|---|
| Arena (`arena.go`) | list of chunks, an atomic offset per chunk, atomic pointer to the active chunk, mutex, closed flag | lock-free allocation, `allocSlow` (search, grow), `Reset`, `Mark`/`Rewind`, `Close` | ranges in use are disjoint and aligned; growth stays below `maxCap`; reclaiming keeps what is older than the mark; every call returns |
| Checkpoints (`checkpoint.go`) | the offsets and the active chunk of an instant | `Savepoint`, `Rollback`, `Transaction` | the same, although a savepoint is loaded offset by offset |
| Scope (`arena.go`, `metrics.go`) | active flag, cleanups, tracked blocks; process-wide pools of maps and channels, counters | `EnterScope`, allocation, `OnExit`, `AllocMap`, `AllocChan`, `Exit` | cleanups once and in reverse order, memory poisoned, pooled objects clean and lent once, counters exact |
| Pool, SyncPool (`pool.go`) | a Treiber stack or a `sync.Pool`, counters, debug tracker | `Alloc`, `Free`, `Stats` | an object is lent to one client at a time, none is lost, counters sound |
| ShardedArenaPool (`arena_sharded.go`) | stacks of arenas under one mutex each, shared counter, closed flag | `Borrow`, `Release`, `WithScope`, `Close` | an arena is lent once and never after its memory is released; `Close` leaves none |
| ArenaCache (`cache.go`) | two generations, each an arena and a map of slices into it | `Set` (may rotate), `Get` (may promote), `Delete`, `Close` | maps never refer to overwritten memory; `Get` answers what was stored last, or misses |
| Codecs (`codec/`) | bytes and a cursor | MessagePack, Protobuf, WebSocket, JSON readers and writers; word-wise searches and masking | what was written is read back; cut data are not taken for complete data |
| Summaries (`internal/analysis/summary`) | flags per parameter of every function | `AnalyzeSummaries` (fixpoint), `GetSummary` | independent of the visiting order; ends |
| Lifetime and escape (`internal/analysis/lifetime`, `escape`, `allocation`, `pipeline`) | flow graph, alias roots | `Analyze`, `CheckEscape`, `Classify`, `pipeline.Run` | an allocation moved to the arena does not outlive its function |
| MetricsTracker (`metrics.go`) | atomic gauges and totals, a high-water mark | `RecordArenaCreated`, `RecordArenaClosed`, `RecordScope...`, `updateHighWater` | gauges return to zero, the mark is the largest value there was |
| AutoTuner (`autotune.go`) | an estimate per call site under a lock | `Calibrate`, `RecommendedSize`, `WithAutoTunedScope` | a slab holds what the site uses, estimates do not drift |
| Session (`session.go`) | a `sync.Pool` of byte slices | `Borrow`, `Release`, `WithBorrow`, `Reset` | a buffer has one borrower and shows no bytes of the one before |
| ArenaBuffer, HTTP client (`buffer.go`, `client.go`) | a slice of arena memory that grows | `Write`, `grow`, `ReadResponseBody` | the body whole and in order, or an error |
| WithScope, context, middleware (`arena.go`, `context.go`) | | scopes of requests, left by deferred calls | every scope is left once, after a panic too |
| Source rewriter (`analyzer/`) | sites of a file, a syntax tree that it changes | choice of sites, bulk allocations, insertion of statements | the program keeps its statements; objects that share memory are apart |
| Compiler plugin (`compilerplugin/toolexec.go`) | a goroutine per file, a channel of results, temporary files | `ToolExec` | it ends, and a build is never worse off than without it |
| Region, LocalArena, C API, vet, rustygocheck, GC and guard pages, OS backends | | | not modelled, see section 7 |

How they interact: a scope allocates from its arena and gives maps and channels back to pools
that all scopes of the process share. The sharded pool and the cache own arenas and reset them
under clients that may still hold slices. The decoders copy strings into scopes. The analysis
decides which allocations a rewriter may move to an arena; its passes over several packages
share the variable `lastSummaries`. The compiler plugin runs analysis and rewriter for all files
of a package at once, on syntax trees that they share. Requests share the counters, the sites of
the tuner and the buffers of the default session.

What is hard to test: the fast path of the arena takes no lock while `Reset`, `Rewind`,
`Rollback` and `Close` store the offsets it reads; `allocSlow` publishes a chunk before it uses
it; pools recycle addresses under compare-and-swap; checks of `closed` and `active` come before
the lock they belong to; `Get` leaves its read lock before it promotes; headers change form at
length borders; the fixpoint depends on Go's map order; the high-water mark is raised some time
after the counter; the rewriter appends to a slice that it still reads. `PROJECT.json` lists each at its line.

## 2. Modules

* `Arena`: one action per step of a goroutine between two accesses to shared memory. `a.chunks`
  is the interval `taken+1 .. grown` of chunk numbers, since it only grows at its end and is
  only emptied as a whole. `live` (history) holds the ranges that callers may still use: a
  range leaves it when a store to an offset goes below its end, or when its chunk is unmapped.
  `ClientSync` restricts clients to reclaiming while no other call runs; `UseAfterClose` lets
  them go on after `Close`.
* `Transaction` adds `Arena.Transaction` to `Arena`: a savepoint, calls of the client's function,
  and a rollback if it fails, next to other goroutines.
* `RegionStack`: what an arena promises, without chunks, locks and offsets: every chunk is a
  stack of ranges. `Arena!ImplementsStack` is the refinement.
* `ShardedArenaPool`, `Pool`, `Scope`: one action per atomic operation or critical section.
  All three implement `Lending` (an object has one borrower at a time and none after its
  destruction); for `Scope` the borrowers are scopes and the objects pooled maps and channels.
  `AllocMap` and `AllocChan` are five actions: the check of `Active` (`AllocPooled`), `pool.Get`, the
  read and the write of `s.cleanups` in `OnExit`, and the return of the object to the client, with any
  step of an `Exit` between them. Clients use what they got (`Fill`, `CloseChannel`) only while the
  scope is active.
  Nodes of the Treiber stack are recycled as soon as nothing refers to them, which is when the
  garbage collector may do it; `opts` selects the backend, the debug build, `zeroOnFree` and the
  number of wrong frees a client commits.
* `ArenaCache` keeps the bytes of both generations, so that a slice that outlives its memory is
  seen to change; it implements `EvictingMap`.
* `Bytes`, `MsgPack`, `Proto`, `WSFrame`, `JSONScanner`, `Simd` are the codecs as operators on
  byte sequences; `Codec` writes items, delivers all or a prefix of the bytes, and reads them.
* `Summary` is the fixpoint iteration, one visited function per step, in every order.
  `Lifetime` holds the graph, the alias roots with their path compression, the search and the
  decision as operators. `AnalysisPipeline` composes them and writes the function under
  analysis one instruction at a time while executing it on a concrete memory, against which
  the decision is judged.
* `MetricsTracker`, `AutoTuner`, `ArenaBuffer` and `Session` each hold the state and operations of
  one component. `Request` composes them: goroutines serve requests, in `WithAutoTunedScope` with
  an arena of their own (and read a response body into it), or behind `HTTPMiddleware` or in
  `WithScope` (and borrow from the session). Clients may exit a scope early or panic, and
  the body may fail, end early or end together with its last bytes.
* `Rewriter` holds the decisions and the edits of `analyzer.go` and `fix.go` as operators on files,
  including the append that writes over its own source. `ToolExec` is the plugin around it: the
  main goroutine, one goroutine per file, the channel, and the compiler as a step that may fail
  and does fail on a name defined twice.
* `MC*` give constants their values. The modules of proofs are `ArenaProofs` (types, disjointness,
  refinement), `CheckpointProofs` (the list of chunks, growth, and what reclaiming keeps, on top of
  `ArenaProofs` and `Transaction`), `ShardedArenaPoolProofs`, `ArenaCacheProofs`, `ScopeProofs`,
  `PoolProofs`, `RequestProofs` and `ToolExecProofs`.

## 3. Runs

| Run | Instance | Shows |
|---|---|---|
| `arena_race` | 2 goroutines, 2 chunks, 2 allocations that race, a misaligned base, calls after `Close`, with fairness | disjointness, alignment, the active pointer and the offsets (`ListSound`), refinement of `RegionStack`, with no discipline asked of clients; every call returns, on error paths too (`CallsReturn`) |
| `arena_sync` | 2 goroutines, 3 chunks, 3 allocations, reclaiming only when alone, one transaction at a time | no slice panic, growth within `maxCap` that serves its request (`GrowthSound`), `Close` releases all, `Rewind` and `Rollback` keep what is older, a failed transaction leaves no trace |
| `sharded_race` | 2 goroutines, 4 shards of 1 arena, 3 arenas | `Lending`; no arena lost and a closed pool empty (`ArenasAccounted`) |
| `cache_race` | 2 goroutines, 2 keys, 2 values, generations of 4 bytes | keys and values stay intact, entries survive a rotation, `EvictingMap` |
| `cache_promotion` | 1 goroutine, 2 keys, values of 1 and 3 bytes, generations of 6 bytes | violation: a `Get` whose promotion rotates answers wrong bytes |
| `pool` | 2 goroutines, 2 objects, 3 nodes, both backends and builds | `Lending`, nothing lost or pooled twice (`PooledExactlyOnce`), counters, clean objects, the debug tracker against wrong frees |
| `scope` | 2 goroutines, 2 scopes, 1 cleanup function, 1 map and 1 channel, 1 block | cleanups once and reversed (`CleanupsExact`), poisoned memory and clean pooled objects (`ExitCleans`), `Lending` from `pool.Get` to `pool.Put` and of what clients hold, metrics |
| `codec` | up to 2 items per message, every cut | reading back, reading to the end, EOF (`CursorSound`), and the word-wise loops against references (`ImplementationsAgree`) |
| `analysis` | 6 visible functions in all 720 orders; all functions of up to 5 instructions | exact summaries, termination, soundness on tracked code |
| `analysis_unsound` | the same | violation: an allocation is moved to the arena although the caller can reach it |
| `request` | 2 goroutines, 3 requests, 1 call site, a body limit of 3 bytes, 2 session buffers | gauges and high-water mark (`CountersExact`), `SlabFitsSite`, `BodyWhole`, `BorrowPrivate` |
| `toolexec` | packages of 1 to 3 files, with fairness | the fallback, complete files, disjoint bulk objects, `ToolExec` ends |

Several properties are conjunctions of named parts, such as `ListSound` of `ActiveListed` and
`UsedWithinCapacity`; the parts are stated in the modules. Type invariants are checked for `Arena`,
`ArenaCache` and `Codec`; the proofs of the other modules contain their types.

Why the bounds are enough. In `arena_race` an allocation starts only while none has been completed, so
two are made at most, in every interleaving with each other and with calls that reclaim; longer
sequences are in `arena_sync` and, for any number of allocations, in the proofs of all the safety
properties of both runs. The arena's steps involve at most one goroutine that allocates and
one that reclaims, grows or closes; two chunks already give growth, the search through older
chunks and stale active pointers. The pool needs two goroutines and a third node for an address to be recycled
between the load and the swap. Four shards make the counter's mask differ from its modulus by
three. Generations of four bytes hold two pairs, so every second `Set` rotates; in `cache_promotion` a value of
three bytes behind another pair is long enough to overlap the place it is promoted to. The codecs run
with shortened length fields (2, 3 and 4 bytes for 16, 32 and 64 bits) and 29-bit words, because
TLC's integers have 32 bits; the border values of every header form are among the items. In
`analysis`, two mutually recursive functions that swap parameters need several rounds; five
instructions hold "allocate, allocate, take a field, store, call". In `request`, three requests
let an estimate be read between two calibrations and a buffer reach a third borrower; the body
limit of 3 bytes lets a body fit, need two growths, and be too large; the announced lengths (none, 1
and 3 bytes) take each branch that chooses the first capacity, and all of them choose 1 byte (the
default is 1, the largest 2), from which the buffer has to grow. In `toolexec` a single file
has every sequence of up to three sites of eight types (all kinds, in a loop or not, proven or
not, sharing a line or not, slices with larger capacity or grown length); bodies of
12, 13 and 20 statements lie on both sides of the length at which the append works in place. With
three files one goroutine can crash while the others send. Constants named `Max...`,
`SwarBound` and `NumNodes` are bounds of the instance and not limits of the code.

Deadlock is checked where a call can block (the arena runs) and in `codec`. It is not checked
where the bound on objects, blocks or instructions ends the run (`sharded_race`, `pool`,
`scope`, `analysis`, `request`), where the program ends (`toolexec`), or where goroutines may all stand after a fault on unmapped memory
(`cache_race`, `cache_promotion`).

Fairness. `arena_race` assumes weak fairness for a goroutine inside a call (the Go scheduler
preempts) and strong fairness for taking the mutex (`sync.Mutex` has a starvation mode that
hands the lock to the waiter). It assumes nothing that would make a compare-and-swap succeed: the
loop of the fast path is lock-free, not wait-free, so `CallsReturn` says of it that it ends unless other
goroutines reclaim memory again and again. `analysis` assumes weak fairness of the summary loop, which is
sequential code. `toolexec` assumes weak fairness of the main goroutine and of each worker: Go
runs a goroutine that can go on, and the tools it starts end. The other runs check safety and assume none.

Each property of a passing run has a mutant: a definition changed as a plausible bug would
change it (`..._OffByOne`, `..._NoUnlock`, `..._PlainStore`), for which TLC reports the
property violated. The mutants stand before the definitions they vary.

## 4. Where the code falls short

Two runs expect a violation.

* `analysis_unsound`, `lifetime/escapes.go:32`: storing a new pointer into memory of a parameter
  (`t.p = new(int)`) is no escape for the search, so the allocation is classified Arena.
* `cache_promotion`, `cache.go:118`: `Get` promotes the slice it found in the old generation with `Set`,
  and then returns that slice. If `Set` rotates, it resets the generation the slice lies in and
  copies key and value to its beginning. The new copy is right, but it is written over the slice if
  that begins behind its new place and before the end of the pair. One goroutine suffices: in
  generations of 6 bytes, with keys of 1 byte, `Set(k1, 1 byte)` and `Set(k1, 3 bytes)` put the value of
  `k1` at offset 3, `Set(k2, 3 bytes)` rotates, and `Get(k1)` rotates again to promote the value, from
  offset 3 to offset 1, where its last byte overwrites its first: `Get` answers bytes 3, 2, 3.
  `OneGoroutineReadsItsWrites` (section 5) proves that this takes a value longer than some whole pair.

Weaker guarantees that passing properties spell out, each with the case it excludes:

* `UsedWithinCapacity` (of `ListSound`): an arena that grew again after `Close` (`Reopened`). `Rollback`
  recognises an invalid savepoint only by its number of chunks (`checkpoint.go:50`, while the error of
  `checkpoint.go:9` is for an "invalid or stale savepoint"), so one from before `Close` can store
  offsets of the old chunks into smaller new ones. `tryAlloc` then refuses that chunk; nothing overlaps.
* `CloseEmptiesPool`: a `Release` past its check of `closed` pushes an arena that nobody closes.
* `ExitPoisons`: an allocation that passed the check of `Active` before `Exit` stays
  unpoisoned (README.md:113 promises poisoning on exit).
* `FailedTransactionRestores`: a goroutine that had the arena to itself. Otherwise the rollback of
  a transaction takes the allocations of others with it (`checkpoint.go:76`).
* `BorrowPrivate`: bytes a client wrote outside of the slice it released. `Release` zeroes the
  length of the slice and not its capacity, so the next borrower can see them (`session.go:98`).
* `SlabFitsSite`: the smallest use of a site, not the largest; and a slab may exceed `MaxSlab`, by
  less than a page, since the rounding comes after the limit.
* `FallsBack`: a crash of the plugin. A goroutine that builds SSA from a tree that another one has
  rewritten panics, and the `recover` of `ToolExec` is not on its stack (`toolexec.go:164`).
* `CompiledFilesComplete`: what the compiler accepted. `fix.go:554` appends into the slice it copies
  from; with two bulk sites and 13 statements or more, statements are overwritten by definitions,
  and those are defined twice. The compiler rejects that and `ToolExec` falls back, but
  `rustygocheck -fix` would write the result over the source.
* `BulkObjectsDisjoint`: objects no larger than what is reserved. A `make` with a capacity beyond
  its length, or whose length grows between the start of the function and the call, reaches
  into its neighbour.
* `CleanupsReversed`: concurrent `OnExit`, `AllocMap` and `AllocChan` lose registrations. `CleanupsOnce`
  is about functions of clients: an object that went through its pool is registered anew each time.
* `ImplementsLending` of `Scope`: what a client got through a scope that has exited and on which calls
  raced (`Leased`). `arena.go:508` says that "Scope allocations are concurrency-safe", but
  `AllocMap` registers the cleanup (`arena.go:655`) before it returns the map (`arena.go:659`). If an `Exit` runs
  in between, the cleanup puts the map back, `AllocMap` returns it all the same, and an `AllocMap` of
  another scope gets it too: two clients write the same map. TLC finds this trace when `Leased(s)` is
  `lent[s] \cup held[s]` for every scope. `AllocChan` is the same. What is left for such a scope
  is the lease from `pool.Get` to `pool.Put`, which no race breaks.
* `PooledClean` (of `ExitCleans`): clients that go on using a map or channel after `Exit`.
* `ImplementsMap`: a change by another goroutine between the lookup and the use of the value (`spoilt`).
  The promotion then brings back a deleted key, undoes a newer `Set` or stores bytes of a reset
  arena. And the promotion over the value itself, above.
* `CallsReturn`: a goroutine on the fast path whose compare-and-swap others defeat forever, by moving
  the offset up and down again between its load and its swap (`arena.go:53`).
* `ReadsAll`: an empty string read into a scope panics in the MessagePack decoder and the JSON
  scanner, since `AllocSlice` refuses size 0; `WriteWSFrame` writes fragmented control frames
  that `ReadWSFrame` rejects.
* `OffsetsFitMark`: a mark keeps 32 bits of an offset; beyond 4 GiB `Rewind` goes too low.
* `Tracked` (`AnalysisPipeline`) delimits the code on which the analysis is right. Outside it
  are: deferred calls; stores through parameters, reslices and phis; a phi of two
  allocations, or a variable that holds two, passed to a function (a value has one alias root,
  and the last one wins); an allocation passed inside a structure; callees whose summary is
  silent because the value flows through a reslice or into a function without body. TLC finds
  a counterexample for each within the bound when its conjunct is dropped, except for the
  variable with two contents, which needs seven instructions.

Other observations, not stated as properties: `allocSlow` publishes a new chunk before it allocates
from it, so fast paths of others can empty it and the call that paid for it reports "arena out of
memory" without limit or shortage (`arena.go:311`); candidates and decisions of the rewriter are matched by line, so an allocation
that must stay on the heap is moved with another one on its line; the sites of a
closure count as sites of the function around it, so two runs of the closure share one object of
the bulk memory; the original
files are compiled twice if the first, unmodified compilation fails, and the directory of
rewritten files is never removed; `rustygocheck -fix` builds SSA for the second file of a package
from trees it changed for the first; a chunk for an over-large aligned request has no
room for padding, so a less aligned base makes the call fail; `Release` of the sharded pool goes
to the shard after the one of the last `Borrow`, so a strict alternation never reuses an arena;
memory handed out again after `Reset` is not zeroed; unsigned MessagePack integers above the
range of int64 wrap; `Reader.ReadVarint` rejects a last byte that `DecodeVarint` truncates; a
WebSocket stream cut after a complete section of a header gives a plain `io.EOF`; `\/` is
rejected by the scanner because `strconv.Unquote` does.

## 5. Proofs

Every theorem below holds for any number of goroutines, and of chunks, shards, objects, scopes,
call sites, buffers, requests, keys and values, files, bodies and sites, where the runs take one
instance. The bounds of the models
(`MaxAllocs`, `NumNodes`, ...) are constants in the proofs, of any size.

| Module | Theorem | States |
|---|---|---|
| `ArenaProofs` | `TypeCorrect` | `Spec => []TypeOK` |
| | `AllocationsDisjoint` | `OffsetsFitMark => (Spec => []NoOverlap)` |
| | `ArenaImplementsStack` | `OffsetsFitMark => (Spec => ImplementsStack)` |
| `CheckpointProofs` | `ListStaysSound` | `Spec => []ListSound` |
| | `GrowthStaysSound` | `Spec => []GrowthSound` |
| | `AllocationsAligned` | `Spec => []AddressesAligned` |
| | `SlicingIsSafe` | `ClientSync => (Spec => []NoSlicePanic)` |
| | `CloseReleases` | `ClientSync /\ ~UseAfterClose => (Spec => []CloseReleasesAll)` |
| | `OlderAllocationsKept` | `ClientSync => (Spec => KeepsOlder)` |
| | `FailureRestores` | `TxSpec => []FailedTransactionRestores` |
| `ShardedArenaPoolProofs` | `PoolAccountsForArenas` | `Spec => []ArenasAccounted` |
| | `PoolImplementsLending` | `Spec => ImplementsLending` |
| `ArenaCacheProofs` | `MapsStaySound` | `Spec => []MapsSound` |
| | `NoValueIsOverwritten` | `Spec => ValuesStable` |
| | `ActiveEntriesSurvive` | `Spec => SurvivesOneRotation` |
| | `CacheImplementsMap` | `Spec => ImplementsMap` |
| | `OneGoroutineReadsItsWrites` | for one goroutine and `PairsOutweighValues`, `Spec => GetAnswersStored` |
| `ScopeProofs` | `ScopeRunsCleanups`, `ScopeLeavesNothing`, `ScopesCounted` | `Spec => []CleanupsExact`, `[]ExitCleans`, `[]MetricsExact` |
| | `ScopeImplementsLending` | `Spec => ImplementsLending` |
| `PoolProofs` | `PoolKeepsObjects`, `StatisticsSound` | `Spec => []PooledExactlyOnce`, `[]StatsSound` |
| | `CleanObjects` | `Spec => HandsOutClean` |
| | `PoolImplementsLending` | `Spec => ImplementsLending` |
| `RequestProofs` | `RequestCountersExact`, `SlabsFitSites`, `BodiesWhole`, `BorrowsPrivate` | `Spec => []CountersExact`, `[]SlabFitsSite`, `[]BodyWhole`, `[]BorrowPrivate` |
| `ToolExecProofs` | `BuildIsNeverWorse` | `Spec => []FallsBack` |
| | `NobodyWaitsToSend` | `Spec => []RoomToSend` |
| | `AcceptedFilesAreComplete` | `Spec => []CompiledFilesComplete` |
| | `BulkLayoutIsSound` | `Spec => []BulkObjectsDisjoint` |

### Assumptions

Each module of the model states types of its constants (`ArenaAssumption`, `TransactionAssumption`,
`ShardedAssumption`, `CacheAssumption`, `ScopeAssumption`, `PoolAssumption`, `TunerAssumption`,
`BufferAssumption`, `SessionAssumption`, `RequestAssumption`, `PackagesAssumption`). Beyond types they say that a cleanup function is neither
a map nor a channel (`ScopeAssumption`), and that a page has at least four bytes (`TunerAssumption`; the
code has 4096): an estimate can be one byte below the use of a site, and for three
bytes or less the added quarter does not make up for it, but the first page does. `CacheAssumption`
keeps to keys and values that are not empty (`Set` panics on others) and to pairs that fit a
generation.

Four hypotheses stand in the theorems themselves, since code and clients can do without them:

* `OffsetsFitMark`: chunk sizes and requests fit the 32-bit offset of a mark. Without it
  `NoOverlap` is false. `arena_race` has it.
* `ClientSync`: clients reclaim memory only while no other call runs. Without it a `Close` may unmap
  the chunk a fast path is about to slice. `arena_sync` has it.
* `~UseAfterClose`: `allocSlow` does not look at `closed`, so an allocation after `Close` maps memory
  again, which the next `Close` does not release.
* One goroutine, and `PairsOutweighValues`: no value is longer than a whole pair, as when all values
  have one length. Without either of them `Get` may answer wrong bytes; `cache_promotion` has longer
  values.

### Invariants

None of the properties is inductive. What has to be added, and why:

Disjointness (`ArenaProofs`). `LocalsInv`: the chunk a goroutine in mid-call works on exists, and
the range it is about to claim starts at or above the offset it loaded. `SmallInv`: every offset,
also in marks and local variables, is one a mark can hold, so that taking a mark loses nothing.
`HeapInv`: in a chunk, ranges in use are ordered by the time of allocation and end below the offset; an
offset that someone is about to store, or keeps in a mark or savepoint, together with the
instant at which it was loaded, separates the ranges of its chunk into older ones below and
younger ones above. That is why a stale mark, and a `Rewind` that races with the fast path,
only ever remove the youngest ranges, and why the next allocation goes above those that stay. A
compare-and-swap that succeeds claims a range at or above the present offset, hence above all
others.

The list (`CheckpointProofs`). `MutexInv`: a goroutine in `allocSlow`, in a reclaiming call or in
`Savepoint` holds the mutex, so only one changes the list. `ListInv`: what it is about to publish or
store fits the list as it is; the fast path may hold a chunk that is gone, but while the chunk is
listed its bound is right. `SavedInv`: until `Close`, a savepoint holds offsets of chunks that are
still there; after `Close` it need not, which is the exception in `UsedWithinCapacity`.
`GrowthInv`, `AlignInv`, `SyncInv` and `ReleaseInv` carry the other four properties.

Reclaiming (also `CheckpointProofs`). `AgeInv`: nothing in use lies above the active chunk but what
`allocSlow` has just claimed (`LiveLow`); what lies above a mark, above the chunks of a savepoint or
above its active chunk is younger than it (`YoungInv`); so every store that a sweep has left to do takes
only younger ranges (`SweepAt`), although a savepoint is loaded offset by offset. For transactions,
`TxInv` compares the savepoint, as far as it is filled, and the offsets, as far as they are
restored, with those at the beginning.

`ShardedArenaPoolProofs`. `PlaceInv`: an arena is with one client, in the hands of one call, at one
position of one shard, or closed. `DrainInv`: what is still pooled after `Close` began is ahead of its loop.

`PoolProofs`. The Treiber stack is described by reachability from `head`. `RankInv`: links go
down a rank, so there is no cycle. `CallAt`: a node that a call of `Alloc` has loaded keeps its fields,
because nobody can be given its address while somebody refers to it (the garbage collector's part in the
algorithm), and the node a call of `Free` will push is its own; with it a compare-and-swap that finds
the old head also finds the old link. `OnePlace`: an object is with one client, one call, one
node or, for the `sync.Pool`, once in the cache. `UseInv` counts arriving and leaving
calls; `PeakInv` says that the peak, once late calls have raised it, covers what is held.

`ScopeProofs`. `At`: a cleanup keeps its position through appends that race, also in the slice
that a call has read and will append to; the loop of `Exit` goes down and has left behind what it ran. From
this no function of a client runs twice, though some may never run. Objects have no such position,
since one that was given back can be listed again; an object is in a pool, in a call of `AllocMap` or
`AllocChan` that has not registered it yet (`Carries`), or at one place of one scope's cleanups that
will still run (`OwnInv`). `OrderlyInv` and `PoisonInv` speak of the scopes nobody raced on; by the
first no such scope exits while a call of `AllocMap` is about to return, which gives `HeldInv`: what clients
got is not yet given back, except through scopes that have exited and on which calls raced.

`RequestProofs`. `LocalInv` says what the local variables of a request are at each place of the code.
`SumsInv`: each gauge is the sum of what the goroutines between its two updates have added
(sums over an enumeration of a finite set, with its partial sums).
`HighWaterInv`: the mark is the peak or somebody is on the way to raise it to the peak. `SiteAt`:
an estimate stays between one below the smallest use and the largest; a byte lost by the float
arithmetic is not lost twice. `OwnSlice`: a borrowed slice belongs to one borrower and holds its own
bytes, blanks, and bytes left outside of slices that were released.

`ArenaCacheProofs`. A `Set` and a promotion are the same step, `Storing`, which writes a key and a value
at the offset of a generation, the old one if it rotates; `StoresBytes` and `StoresEntries` say what
it leaves alone. `CacheInv`: an entry lies in the memory of its own generation and below its offset, so
a store that does not rotate is behind all of them, one that rotates drops the map of the
generation it overwrites, and a slice that a `Get` holds is inside of the memory, whatever has become
of it. `AnswersInv`: as long as nothing is spoilt, the newest entry of a key and every slice a `Get`
holds have the bytes that were stored last, and a promotion finds its entry still in the old
generation only. For one goroutine `ClearInv` is added: an entry begins at 0 or no lower than the
length of the longest value, so its own value begins at the place a promotion puts it, or behind it.

`ToolExecProofs`. `StageInv` counts: goroutines run only while the main one waits for them, the counter
of the wait group is the number of those that do, and each has sent one result. `ResultsInv`: what a
result says is so, and until an error is met, one for every file that failed is on its way. `TreesInv`: a
tree is changed by the goroutine of its file after its analysis. `RunsInv` has the order of the
compilations. What the rewriter computes is proved for lists of any length by induction over
the elements of an interval: a set that holds the first and with each the next holds all of
them (`Induction`), because otherwise the successor would map a finite set into but not onto itself.
From that, a recursive function has the values its steps give it (`RecursionExists`,
`RecursionValues`), which gives the offsets of a bulk allocation (`LayoutIsSound`). `RewriteSafe`: an
append in place overwrites the statement that the other append reads next with a definition the
list already has, so a damaged body always has a name defined twice.

The refinements are proved by an initial state and one case per action: each is a step of the
abstract specification or leaves the abstract state as it is.

### Only model-checked

* Liveness (`CallsReturn`, `SummariesTerminate`, `ToolExecReturns`): the prover handles neither `ENABLED` nor
  fairness over the actions of a model.
* What the operators of the codecs (`ReadsBack`, `ReadsAll`, `CursorSound`, `ImplementationsAgree`), of
  the summaries and of the lifetime analysis (`SummariesExact`, `Sound`) compute: they are RECURSIVE, or
  use bitwise operators and folds, for which the prover has no rules. (The recursive functions of
  `Rewriter`, over an interval of numbers, are within its reach, see above.)
* `TypeOK` of `Codec`.

## 6. What the models leave out

Contents of arena memory (except in `ArenaCache`), log texts and error wording, `GlobalMetrics`
for arenas, finalizers, functions of clients that panic inside a cleanup, OS specifics of mapping
(a chunk appears at any base of `Bases`, or mapping fails), floats beyond their bit patterns,
escapes of JSON strings beyond three, `Select` and builtin calls in the analysis, the edge from a sent
value to its channel (the edge to the instruction makes it unsafe anyway), and the texts, regions and identifiers of lifetime
reports, with the collisions of identifiers. `MapUpdate` and `ChangeType`, which the analysis has no edges
for, are not among the instructions of `AnalysisPipeline`. Of `ArenaBuffer` only growth and `Write`
are modelled, as its client in `client.go` uses it; of the rewriter not the text of the new
expressions, but the memory they use. Session statistics and the wording of explanations are
left out.

## 7. Plan

Done: `RegionStack`, `Arena` and its proofs; `Transaction`; `Lending` with the three pools;
`EvictingMap` with the cache; the codecs; summaries and lifetime analysis; `Request` with metrics,
tuner, buffer and session; `Rewriter` and `ToolExec`.

Proved: the modules of section 5.

Left: the invariants of the codecs and of the analysis, for which their operators would have to be
restated as recursive functions over intervals; and `LocalArena` as a second, sequential
implementation of `RegionStack`.

Not modelled:

* `Region`: `Exit`, `EnterScope`, `Reset` and `Close` of the modelled components in sequence, for one
  client.
* `LocalArena`: the search and growth of `Arena` without concurrency, with the same rules for sizes
  and padding.
* OS backends and guard pages: hardware and OS behaviour, which `Arena` covers by a mapping at
  any base or none. GC switches: settings of the process.
* C API: a table of handles in front of `Arena`. Vet pass and linters: print what the pipeline
  decides. `rustygocheck`: drives the rewriter file by file; section 4 says what its defects mean there.
* Benchmarks and examples.
