# plaid-lint in TLA+

plaid-lint is a Go linter. One run loads a workspace through a fork of gopls' cache, serves the
packages whose result is in an on-disk cache, type-checks and analyses the others concurrently,
and writes the results back. This directory models the parts of it in which several goroutines or
processes share state, checks them with TLC on small instances, and proves the central safety
properties with TLAPS for every instance.

Paths below are relative to the repository's root; `gopls/cache` is `internal/gopls/cache`.

## 1. The system

### Parts and their state

| Part | Code | State | Operations |
|---|---|---|---|
| Incremental run | `internal/engine` | L0 entries on disk, metadata and files of a snapshot, hits, misses, dependency overrides | split into hits and misses, install overrides, analyse, write roots, write dependencies |
| Package dispatcher | `gopls/cache/analysis.go` | import DAG, three reference counts per package, summaries | enqueue, run, notify importers, decref imports, evict |
| Barrier dispatcher (the default) | `analysis_barrier_dispatch.go`, `load_phase_barrier.go` | the same DAG, barrier count, one `analyzeDone` channel per package | shortcut, type-check, signal, wait, analyse, drop references |
| Analysis gate | `analysisgate.go` | workers, packages in flight | acquire (three rules), release, deadline, cancel |
| RSS scheduler | `internal/scheduler/rss.go` | slots, bytes, waiters | acquire, release, watcher, cancel |
| Futures cache | `future.go` | map of futures with reference counts, one unit each | get (wait, compute, publish, hand over), release |
| Scope lock and batches | `internal/gopls/internal/typesyncmu`, `check.go` | phase counters, read-write lock, batch reference counts, cache writers | acquire and release a batch, lock, elided lock, phase hand-over, join writers |
| L1/L2 store | `internal/cache` | entries, version stamp, GC stamp | open, purge, put (first writer wins), get, GC, close |
| GOCACHEPROG client | `internal/cache/gocacheprog` | requests in flight, read loop, closing flag | handshake, send, answer, fail pending, shared lookup, close |
| Unit mode | `cmd/plaid-lint/unit*.go`, `internal/unit`, `internal/unitcache` | memoized configuration and registry, analyzer flags, unit entries | serve a request, look up, replay, rebuild, run, store, cancel |
| Shared IR | `shared_buildir.go`, `buildir_dispatch.go` | futures per package, program lock, semaphore | ensure a package, build |
| Workspace | `internal/workspace` | current snapshot, reference counts | set content, invalidate, take and release a snapshot, close |
| Exclusion filter | `internal/exclusion` | lines already reported, per-file caches | add a package, finish |
| Subprocess linters | `internal/subproc` | entries by workspace hash | look up, run, store |
| Quiet filter | `internal/quiet` | the process's stderr | install, restore |

Configuration, registry, output formats, the command line and the code taken over from gopls and
x/tools unchanged are sequential or pure; they are listed in `PROJECT.json` with the reason why
they are not modelled.

### How they interact

`engine.Run` asks L0 for every root package. For the misses it installs the facts that L0 holds for
their dependencies and calls `Snapshot.Analyze`. That takes the snapshot's type-checking batch
(scope lock, futures for imported packages), builds the DAG and starts one goroutine per package
whose imports are ready; each passes the analysis gate, and inside it each analyzer action may pass
the RSS scheduler. Computations of the same package by several snapshots meet in a futures cache.
Summaries are dropped as soon as their last importer has read them. A callback hands the facts of
every package to the engine, which writes them to L0 under keys derived from file contents. Type
checks and analyzer actions read and write the L1/L2 store, and L0 uses the same backends: files
below a directory all processes share, or a GOCACHEPROG helper.

`plaid-lint unit` is a second way in: a build system asks for one package at a time, often of a
persistent worker that serves requests one after the other. The worker keeps the registry of the
last configuration, and workers share a content-keyed cache of their outputs.

### What is hard about it

* Three counters per package, decremented by different goroutines in no fixed order, decide when
  it starts, when its summary is cleared and when its type information goes.
* Every package of a batch waits at one barrier, which opens only if every path, failures included,
  signals once; the gate has fewer slots than there are packages.
* The read lock is skipped when a counter says that nobody writes, and the counter is handed from
  batch to barrier to teardown.
* Waiting is done with condition variables, watcher goroutines and timers: a missing broadcast, or
  one that comes too early, is a hang.
* A cancelled computation hands its duty to a waiter, and its cache entry may be dropped meanwhile.
* Processes share a cache directory, are killed between two writes, and files change under them;
  a wrong entry is served to all later runs.
* Requests to the helper are answered in any order, by a process that may die or write nonsense at
  any moment, and everybody who waits must hear of it.
* Flags of analyzers are process-wide, so what a worker served before may change what it finds next.

### What correctness means here

A run reports what it would have reported without any cache. No package is analysed before its
imports, and none reads a summary that is gone. `Analyze` returns, whatever fails. The byte budget
and the caps hold, and nobody waits while there is room. Every computation is shared, handed over
on cancellation and published once. Readers and writers of type scopes exclude each other. A lookup
in a store returns what was published under its key, or nothing. A unit action leaves the outputs a
process of its own would have left.

## 2. Modules

| Module | Models | Used by |
|---|---|---|
| `BudgetGate` | `budgetGate`, `Acquire`, its release closure, the errgroup context of `Run` | `MCBudgetGate`, `GateProofs` |
| `AnalysisGate` | `analysisGate.acquire` and its release closure | `MCAnalysisGate`, `GateProofs` |
| `AnalysisGraph` | DAG construction and reference counting, shared by both dispatchers | `AnalysisDispatch`, `BarrierDispatch` |
| `AnalysisDispatch` | single-pass dispatcher (`PLAID_INPUT_DIGEST=0`) | `MCAnalysisDispatch`, `AnalysisDispatchProofs` |
| `SummaryLifetime` | abstract: what a dispatcher promises about summaries | instantiated by `AnalysisDispatch` |
| `BarrierDispatch` | the default dispatcher | `MCBarrierDispatch`, `BarrierDispatchProofs` |
| `FutureCache` | `futureCache.get` and `release` | `MCFutureCache`, `FutureCacheProofs` |
| `TypeSync` | scope lock, batches, phases, cache writers | `MCTypeSync`, `TypeSyncProofs` |
| `EngineL0` | `engine.Run` with the L0 cache, several processes | `MCEngineL0`, `EngineL0Proofs` |
| `BackendContract` | abstract: what the `backend` interface promises | instantiated by `CacheStore` and `CacheStoreProofs` |
| `DiskCache` | the directory: version stamp, purge, publication, lookups, collection, crashes | `CacheStore` |
| `CacheProgClient` | the client of a GOCACHEPROG helper, and a faulty helper | `CacheStore` |
| `CacheStore` | a tier on one backend or the other | `MCCacheStore`, `CacheStoreProofs` |
| `UnitAction` | unit mode: worker loop, session, driver, result cache | `MCUnitAction`, `UnitActionProofs` |

The `MC*` modules give the constants values. In every module an operator whose name says what is
wrong with it (`RoomInClusterOffByOne`, `KeyWithoutDeps`) stands before the definition it is a faulty
variant of; putting it in the definition's place makes TLC report a property as violated.

### State and actions against the code

**BudgetGate.** A critical section of `budgetGate.mu` is one step. `slots` is the field `inFlight`;
names that `AnalysisGate` has too begin with `Budget`. `sync.Cond.Wait` is the value
"parked" of `bpc`, which only a broadcast leaves ("woken"); a woken call evaluates the loop's
conditions again. The watcher goroutine is a set of calls and two actions: it broadcasts when the
context is cancelled, perhaps just after its call has returned, or exits silently when the call is
over. Byte counters are naturals: estimates
are resident-set sizes, whose sums do not reach 2^64. Counters that only feed statistics are left out.

**AnalysisGate.** The same treatment of the condition variable. The fields of an `analysisGate` that are
set when it is made (worker cap, cluster cap, whether there is a fall-through timeout) are one
variable, `gate`, chosen at the start from the constant `Gates`. Time is one bit per call, whether
`fallthroughT` has passed since it started; `DeadlinePasses` may come between the clock reads at
lines 173 and 191, which is how a call parks without a timer (`ParkPastDeadline`).

**AnalysisGraph, AnalysisDispatch.** A step is one atomic counter operation or one read or write of
a field shared between goroutines. `toNotify`, `owesPreds` and `owesConsumers` are the parts of the
loops over importers and imports that a goroutine still has before it. `actions` and `edges` say
whether the fields of that name (with `stableNames`) are set. What `runCached` computes is success
or failure. The gate is the worker cap only; its own behaviour is `AnalysisGate`'s subject.

**BarrierDispatch.** `path` records how a package got its summary: from a cache, as the leader of a
shared computation, joined to another snapshot's, or not at all. A joiner waits in
`inFlightAnalyses.get` ("joining") with its gate slot, and has signalled nobody; the other batch is
the environment, whose leader returns a summary or an error (`OtherLeaderReturns`), is cancelled, so
that the joiner leads in its place, or does neither. `waits` is what is left of
`waitForVdepAnalyzes`; `sound` and `intact` are history: whether the inputs an analysis read were
all there. The slots of the gate are this batch's own; those that other batches hold are left out.

**FutureCache.** A goroutine inside `get` is at the three-way select, computing, between the `done`
case and the read of the value, or in the deferred clean-up. A future that neither the map nor a
goroutine refers to may be allocated again, so a finite set stands for the heap. A computation that
was cancelled ends with a partial value, which must not be seen.

**TypeSync.** Clients are calls of `Analyze` or `forEachPackage`, workers their goroutines, which
write (type-check) and read (analyse), leaving cache writers behind. `RLock` is two steps: the
decision on the counter and the locking. `typeCheckMu` is held while a batch is torn down. The
cache writers are those of `check.go` and `l1.go`; the unjoined `filecache` writers of
`analysis_barrier_dispatch.go:221-231` run only without an L1 cache, which `engine.Run` requires.

**EngineL0.** Hashes are modelled by the values they are taken of, so that two keys are equal
exactly when their inputs are. Facts are the sets of sources they depend on, and diagnostics are
records of everything they depend on. Processes interleave at every cache access; `Exit` may come at
any moment; a write may fail; edits and new or removed test files come between any two steps. A run
lists the imports first (`Start`) and then reads the files one by one, in any order (`Preload`, the
goroutines of `preloadFiles`); everything later uses these contents. The analyzer set, filter and tool versions in
the key are the same in all runs here.

**DiskCache.** A step is one system call, or several on which nothing can come between: reading the
stamp, removing one file of a purge, removing the stamp, linking a file, one `stat` or `remove` of the
collection. Bodies are named by the version of the program that computed them. The decoders check
magic, kind and number of sections and no version, so a body of another version may decode (an L2
entry of version 2 does under version 3, an L1 entry does not); a file a power failure has emptied
is `Torn` and never does (names are journalled, data is never synced). `published` is history, and so
is `overlap`: two versions ran side by side, or a purge ran under a live process.

**CacheProgClient.** A caller registers, writes and receives in three steps; the read loop delivers
any outstanding response or ends, failing what is registered; `Close` has five steps. A lookup that
another caller already has under way is joined (`flight`, the singleflight group). The helper is
external and commits at most one fault: it loses or damages a file, writes a line that is no response
and is not heard any more, or dies having answered some of its requests. Pipes have room: a helper
that stops reading its input is not modelled.

**CacheStore.** `selectBackendForTier` as a function of the environment; whatever it yields, the
behaviour of the tier is that of the module behind it. With a helper, `openWithTier` still stamps and
collects the local directory, which then holds nothing of the tier; that part is left out.

**UnitAction.** `process` is a worker's memo and the flags in its address space, `act` the request it
is at and the outputs written so far. `Build` is what building a registry does to the flags: sticky
ones (set only when a configuration differs from the default) are added to what is there, the others
are set. What analyzers find is a record of all it depends on: binary, sources, configuration and flags.
The mode of an action (full, facts only, module) is part of its input. Inputs hold still during an
action, and the build system removes an action's outputs before it starts.

## 3. Model-checking runs

Run one with `tlc -config <cfg> <module>`.

| Run | Configuration | Distinct states | Shows |
|---|---|---|---|
| `budget_gate` | `MCBudgetGate.cfg` | 64,245 | slots are conserved, cap and budget hold, no wake-up is lost, calls return, cancellation unblocks |
| `analysis_gate` | `MCAnalysisGate.cfg` | 83,309 | exact counters, both caps but for what fell through, who is parked is refused, calls return |
| `dispatch` | `MCAnalysisDispatch.cfg` | 15,097 | readers find summaries, nothing is forgotten, `SummaryLifetime` is implemented, `Analyze` returns |
| `barrier` | `MCBarrierDispatch.cfg` | 172,061 | the barrier opens exactly after the last signal, `Analyze` returns unless another batch keeps a joiner waiting for ever, undisturbed batches are complete and captured |
| `future` | `MCFutureCache.cfg` | 196,927 | one unit per future, sharing, delivery, entry lifetime, stable values, every `get` returns |
| `typesync` | `MCTypeSync.cfg` | 208,754 | readers and writers exclude each other, balanced phase counters, writes landed, calls return |
| `typesync_panic` | `MCTypeSyncPanic.cfg` | violated | see findings |
| `engine_l0` | `MCEngineL0.cfg` | 325,802 | a warm run reports what a cold one would; overrides equal what they replace |
| `engine_l0_tests` | `MCEngineL0Tests.cfg` | violated | see findings |
| `store` | `MCCacheStore.cfg` | 245,962 | both backends implement `BackendContract`, entries have the version of the stamp and lookups return the own version's, calls and `Close` return |
| `unit` | `MCUnitAction.cfg` | 122,752 | every successful action and every entry is what a cold run writes |
| `unit_leak` | `MCUnitLeak.cfg` | violated | see findings |

Deadlock checking is off wherever the modelled calls simply end: all have returned and nothing is
left to do. Termination is then stated as a liveness property. In the futures cache goroutines call
`get` again and again, and deadlock is checked.

### Bounds, and what they leave out

* `budget_gate`: two slots, a budget of 4, estimates 0, 1, 2 and 5: a free, a small, a half-size and an
  oversized action, two of which share a context. Every conjunct of the admission test decides
  somewhere.
* `analysis_gate`: three calls for two packages and four gates: two or three slots with one package in
  the cluster, so that all three rules apply and a second package has to wait or fall through; one
  without the timeout; one without clustering. With three slots a call falls through while there is
  room for another of its package, which two slots hide.
* `dispatch`: a diamond with a second leaf and a root that is also a dependency; three workers, so
  that importers of one package overlap. `barrier`: a diamond with two slots, fewer than the packages
  that wait at the barrier; a cached leaf, a cached package above a stale import, and everything
  cached but the root.
* `SoundSummaries` and the last conjunct of `BatchComplete` speak of undisturbed batches: no failure,
  no joined computation, caches closed under imports. Outside of these the code does not have the
  property (section 6).
* `future`: two goroutines that call `get` for ever, a transient key that is never released and a
  persistent one that is; futures for everything that can refer to one, so that allocation never fails.
  What a goroutine may rely on is stated for keys nobody releases.
* `typesync`: two calls, two workers, divided in every way; behind the barriers of two snapshots, or
  sharing the batch of one in single-pass mode. Two `Analyze` calls on one snapshot behind barriers
  are left out (section 6). Behind barriers the exclusion is that within a snapshot.
* `store`: two processes, one key and two versions, so that an upgrade meets a crash, a collection and
  a power failure; two callers, two keys and two requests, so that requests overlap, share a round
  trip, or come after the end of the read loop. The tiers and settings of `selectBackendForTier` are
  all enumerated.
* `unit`: two workers and three sets of requests: configurations that differ in a flag every build
  sets, with one that does not validate; configurations that agree on a sticky flag, for a package, one
  that does not compile, a go.mod, an analyzer name that does not resolve and an exclusion pattern that
  does not compile; and two binaries over one cache. The case of two settings of a sticky flag is `unit_leak`.
* `engine_l0`: three runs, two processes, one edit, three packages whose imports depend on their
  contents, one that does not compile in one of its contents, one excluded, and a test variant of the
  package nobody imports. Any number of
  runs and edits is the subject of `EngineL0Proofs`. Three
  things are kept out, because the code does not have the property with them: a test variant of an
  imported package (`engine_l0_tests`), runs with `PLAID_L0_DEP_OVERRIDE=0`, and edits that change the
  imports of a package and not its closure (section 6).

Symmetry is used in the two runs that check invariants only and have interchangeable processes
(`engine_l0`, `unit`).

### Fairness

* Weak fairness of each goroutine's steps everywhere: the Go scheduler runs what can run. A context
  is never obliged to be cancelled.
* `BudgetGate`: that actions end is a premise of `BudgetAcquireReturns` only; `CancelUnblocks` needs none.
  `AnalysisGate`, the dispatchers and `FutureCache` assume that type checks, analyzers and
  computations return; timers fire and deadlines pass.
* `BarrierDispatch` assumes nothing of other batches: `OtherLeaderReturns` is not fair, and
  `AnalyzeReturns` has the premise that no joiner waits for ever. Two batches can break it for each
  other (section 6).
* Strong fairness of `SelectAcquire` in `FutureCache`: goroutines blocked on a channel are queued first
  in, first out.
* `TypeSync` and `CacheProgClient` have a bounded amount of work and no step that undoes another, so it
  is enough that some step is taken while one can be (`WF(Progress)`). A helper answers and exits at
  the end of its input unless it breaks the protocol; nobody is obliged to call `Close`.

## 4. Proofs

Check with `tlapm <module>.tla`. Assumptions are the named `ASSUME`s of the modules: finite sets of
calls, getters or packages, an acyclic import relation, positive caps.

**`GateProofs`**, for all calls, packages, estimates, budgets and caps of the two gates. In both,
that a parked call is refused is inductive because every action that lowers a counter wakes all
parked calls in the same critical section.

For `BudgetGate` the induction needs `BudgetInv`: the counters are cardinalities (`SlotsConserved`,
`WaitersCounted`), the budget holds, and who is parked is refused. From it: `BudgetTypes`, `BudgetCaps`,
`BudgetNoLostWakeup` and `BudgetWaker`: a parked call implies an action in flight since the gate admits
anything when it is empty.

For `AnalysisGate`, `GateInv` says that the two counters are the
calls that hold the gate (in all, and by package), that packages beyond the cluster cap are at most as
many as calls that fell through, and that a parked call finds no free slot or a full cluster. It does
not say that rule (A) refuses the call: a call that falls through brings its package in without a
broadcast (section 6), so that a parked call may be admissible; then a holder that fell through
has its package. From it: `AnalysisTypes`, `AnalysisCaps`, `AnalysisNoLostWakeup`, and `AnalysisWaker`:
while a call is parked somebody holds the gate, and every release broadcasts.

**The dispatchers** share `GraphInv` of `AnalysisGraph`: each atomic counter
is the number of neighbours that still owe a decrement (`CountersExact`), and a package is blocked
exactly while an import has not notified it. Each counting step keeps it, the last decrement is seen
by exactly one goroutine, and only a package nobody will read is cleared. tlapm cannot use the theorems
of an instantiated module, and the two dispatchers have the same names for different things, so these
lemmas stand in both of the next two modules.

**`AnalysisDispatchProofs`**, for every import DAG, root set and worker cap, with and without
aggressive release. `DispatchInv` adds to `GraphInv` what a goroutine owes at each place of its code
(`OwedByPhase`), that only a package nobody will read has lost its summary or its edges, and how
`Analyze` may have ended. There is one lemma per group of actions. `NobodyForgotten` uses acyclicity: when no goroutine is left and none failed, a
minimal blocked package would have been notified by all its imports. From it: `DispatchTypes` (no
counter underflows), `DispatchReads`, `DispatchResult` and `DispatchImplements`, the refinement of
`SummaryLifetime` by "done" = past the publication of the summary and "dropped" = done without one.

**`BarrierDispatchProofs`**, for the same parameters and any set of cached packages, with failures,
joined computations and cancellation. `BarrierInv` adds to `GraphInv` that the barrier's count is the
number of packages that have not signalled (`SignalsExact`), how a package gets its summary and what it
owes at each place (`PathByPhase`, `OwedByPhase`), and, for an undisturbed batch, what a package relies
on (`Relied`): imports type-checked before it is and published before it is analysed, and nobody
evicted before it has published. The last needs the wait on `analyzeDone`: a package is notified by
imports that have only been type-checked, so the reference counts alone do not order the analyses.
From it: `BarrierTypes`, `BarrierOpensLast`, `BarrierSound` and `BarrierResult`.

**`FutureCacheProofs`**, for any number of goroutines, keys and futures, persistent and transient
caches. `CoreInv` (types, exact reference counts, one key per future, one unit per future) holds with
`release`: `CacheTypes`. `KeptInv` adds, for the keys nobody releases, that the map holds every future
somebody is inside of and that a closed future has a value, whatever happens to the other keys:
`CacheComputesOnce`, `CacheDelivers` and, for transient caches, `CacheDropsTransient`. `CacheStable` is
the action property of persistent caches.

**`UnitActionProofs`**, for any number of workers, binaries, sources and configurations, with kills,
failed writes and rotten entries. The theorems are about `Steady` requests: configurations agree on
the sticky flags, and one whose session fails after the registry was built agrees with the others on
all flags. The finding `unit_leak` shows that the first half is needed. `UnitInv` says that a
process has only those sticky flags every configuration wants, that a remembered session has exactly
the flags of its configuration, and that what an action holds at each place is what a cold run would
have given. From it: `UnitReproduces` and `UnitEntries`.

`UnitTypes` needs no such hypothesis: whatever the flags, an action that succeeds has findings, and the
cache serves no damaged file. Its invariant `TypeInv` says what each field of an action is at each place.

**`TypeSyncProofs`**, for any calls, workers and snapshots and every way they share them. `BatchInv` says
that `batchRef` is the number of calls that refer to a batch, that one call at most tears a batch down
and only after the last reference, and that workers run inside their call and cache writers inside
the batch. From it: `SyncTypes` and `SyncWritesLanded`. The rest is for plans in which a snapshot behind
a barrier is used by one call (`Orderly`), as an engine run has it; with two calls the load phase is
exited twice (section 6). `PhaseInv` adds that the barrier's count is the number of workers that have
not signalled or never will, that `loadPhaseCount` is the number of batches in their load phase and
`analyzePhaseCount` the calls in their analyze phase, and who holds the lock. From it:
`SyncPhasesBalanced`, and `SyncExclusion`: a reader that elides the lock has a closed barrier behind it, so
no worker of its batch will write any more.

**`EngineL0Proofs`**, for every workspace, number of processes and order of edits, deaths and failed
writes. `Loops` says where the sets of a run stand in each phase: a root is still to be looked up, a
miss or reported, and overrides are for dependencies only. It gives `EngineTypes`. `Truth` says
that an entry's facts are those its key determines, that its diagnostics are too unless it was
written for a dependency, and that every run reports, takes over and has captured what its own snapshot
determines. Three facts carry it: `SummaryIs`, that the recursion of `Summaries` has one
solution, the closed form `Full`, overrides or not, as long as those are true; `KeyDecides`, that the
key determines the closed form; and `PutKeeps`, that the first writer of a key is as good as the next.
From it, with the hypotheses in brackets:

* `EngineOverridesSound` (`Settled`, `OneMode`): an override is what its analysis would have produced.
* `EngineReportsNothingFalse` (the same): no finding is reported that a cold run would not report.
* `EngineWarmEqualsCold` (`TestsAreLeaves` as well): none is missing either.

`Settled`: no edit changes a package's imports between the listing and the reading of its file by
the same run. `OneMode`: all runs agree on `PLAID_L0_DEP_OVERRIDE`. `TestsAreLeaves`: no imported package
has an in-package test. Without them the code does not have the properties: the third is the
finding `engine_l0_tests`, the other two are in section 6. The run `engine_l0` satisfies `OneMode` and
`TestsAreLeaves`; edits between listing and reading happen in it.

The acyclicity of imports is an assumption about all contents at once (`WorkspaceAssumption`), so
that any mixture of old and new files has a bottom.

**`CacheStoreProofs`**, for any number of processes, callers, keys and versions.

The directory, with crashes at any step and power failures: `DiskInv` says that whatever is readable
on disk or in a buffer was linked under its key, and, as long as versions do not overlap, that the
processes at work are of one version, that what a lookup has read whole is of its process's version,
that the stamp names the encoding of every whole entry and is absent only over an empty directory,
and where a process may be given the stamp: one that purges has still before it whatever is there. From it:
`DiskPresentValid`, and `DiskImplements`, the refinement of `BackendContract` by the directory alone
(overlap or not), where a lookup that decodes is `Serve` and a link that succeeds is `Publish`.

The helper, with all its faults: `ProgInv` says that a registered ID belongs to one caller, who
waits for it (`Registered`), that a response on the wire can only reach a caller that asked for its key
(`Asked`), that a shared lookup has a leader at work on it (`Led`), and what a caller holds at each place
(`CallerAt`): in particular, a path that it has been given is its key's. IDs are never used twice, so a
late response finds nobody.

The two together, whichever backend a tier has: `StoreTypes`, `StorePresentValid` and
`StoreImplements`, the refinement of `BackendContract` that the run `store` checks.

Only model-checked: all liveness (`BudgetAcquireReturns`, `CancelUnblocks`, `AcquireReturns`,
`AnalyzeReturns`, that every `get`, call and `Close` returns), which needs fairness and `ENABLED`, beyond
the prover. Every safety property of the passing runs has a theorem, under the
hypotheses named above.

## 5. Findings

* `typesync_panic`: `RUnlock` after an analyzer is not deferred (`analysis.go:1899`) while its panic is
  recovered in the same function. A read lock that was not elided stays held; the next writer waits
  for ever.
* `engine_l0_tests`: a dependency's entry is stored without diagnostics under the key the package has
  as a root (`dep_override.go:259`). A package that was only a dependency while its test variant stood
  in for it loses its findings when the test file is removed.
* `unit_leak`: wiring an analyzer sets the flags of a package-level one only when the configuration
  differs from the default (`wire_analyzers_batch2.go:109-113`). A worker that served such a configuration
  keeps the flag for the next one, and stores what it then finds under the next one's key.

## 6. Met while modelling, without a run of their own

* `analysis.go:420`, `analysis_barrier_dispatch.go:66-74`: `an.succs` is iterated after importers may
  have evicted the node; then the imports are not released early. Memory only.
* `analysis_barrier_dispatch.go:282`: for the same reason a package above a cached one may find its
  own `succs` cleared and not wait for its imports.
* `analysis_barrier_dispatch.go:94`: a package whose type check fails closes `analyzeDone` like any
  other, so its importers are analysed without its facts, although the second wait (199-201) is there
  so that `vdep.actions` "is populated". The batch then ends with the error.
* `analysis_barrier_dispatch.go:156`: a joiner waits for the leader of another batch before it signals
  its own barrier (248), and the leader waits at the barrier of its own batch (195) before it returns.
  When batch A leads p and joins q while batch B leads q and joins p, neither barrier opens and both
  `Analyze` calls wait until a context is cancelled. The joiner also keeps its slot of the gate, which
  snapshots share, so joiners that fill the gate keep the leaders they wait for from line 210: what
  lines 184-188 avoid for leaders. An engine run makes one `Analyze` call per process and never joins.
* `analysis_barrier_dispatch.go:248`: a joiner enqueues its importers before `an.compiles` is set.
* `future.go:120,156`: a getter that has seen `done` may read the value after `release` has zeroed it.
* `analysisgate.go:173-184`: a call that falls through broadcasts nothing, so a call of the same package
  that is parked for the cluster stays parked, while lines 21-23 say that "admissions for packages
  already in flight are unaffected". It is admitted at the next release or at its own deadline.
* `analysisgate.go:192`: if the deadline passes between two clock reads the call parks without a
  timer; it is admitted when a slot or the cluster frees, not by falling through.
* `rss.go:174`: blocked calls that are cancelled are counted as blocked and not as admitted, so
  statistics that subtract the two can wrap.
* `check.go:398-404, 480-488`: behind barriers, exclusion holds within a batch only: a second snapshot
  may write while analyzers of the first read without the lock. Two `Analyze` calls sharing a batch
  exit the load phase twice, and a `forEachPackage` that joins a batch after its barrier writes
  while the counter is zero. An engine run makes one `Analyze` call per process.
* `check.go:1010`: exports run outside the lock that `l2StoreWithFiles` takes for the same export.
* `dep_override.go:85`: entries of runs with `PLAID_L0_DEP_OVERRIDE=0` carry no facts, under the keys
  runs with overrides read.
* `load.go:311`: imports come from the metadata, contents from files read later. An edit in between
  that keeps the closure stores findings made with the old imports under the new key.
* `atomic.go:36-55`: bodies are never synced, so a power failure can leave an entry that does not decode,
  and publication by link never replaces it. The same happens to an entry of another version that was
  published during a purge, if it has another number of sections (L1 of version 2). Such an entry is a
  miss for good. One that has as many sections decodes and is served (L2 of version 2, encoded as in
  version 3): the purge and the keys alone keep versions apart, not the decoders (`codec.go:61-96`,
  `l2.go:92-117`). `PresentValid` says that without overlapping versions none is served.
* `cache.go:269-282`: when two processes upgrade side by side, the slower one purges what the other has
  stored and removes the new stamp; if it dies there, a process of the old version takes the directory
  for a fresh one. `cache.go:347-348`: an entry that is refreshed between `stat` and `remove` is removed
  all the same. All of this costs recomputations only.
* `cache.go:139`: `openWithTier` returns without closing the backend when the directory cannot be
  initialised; with a helper configured its process is left behind. `client.go`: so is that of a
  handshake that times out or declares no commands. With a helper the version stamp purges the local
  directory only; the helper's entries are told apart by their keys.
* `client.go:213`: the test of a nil map at 207 never fires, so a request sent after the read loop has
  ended is registered. Nothing answers it if the pipe still accepts it, as after a garbled line, and
  nothing ends it: the backend calls with `context.Background()` (`gocacheprog_backend.go:114,140,147`).
* `unit.go:238` and `:248` read the configuration twice, and inputs are hashed before they are read: a
  file that changes in between is analysed under the key of its old contents.
* `unit.go:262` changes process-wide flags before the request can still fail, so a request that fails
  later (in `SelectAnalyzers` or `NewFilter`: exclusion paths are not validated before) leaves them
  behind under the memo of an earlier session (the second half of `Steady`). `BuildFromConfig` itself
  fails only before it has touched a flag (`build.go:84-88`).
* `unit/exec.go:172-175`: an analyzer that fails is a warning, and the outputs without its findings are
  stored (`unit.go:299`). Warnings of configuration are not repeated by a memoized session, so those
  that are stored depend on what the worker served before.
* `unit.go:255-256` says that "the collect supersede rule consumes all four", but `Collect` never
  reads the mode, and `strictSuperset` compares the lengths of slices.
* `quiet.go:60`: the restore of a superseded `Install` is not the no-op that lines 47-48 call it.

## 7. Next

* `SharedIR` (futures per package with the program lock and panics), `Workspace` (snapshots and
  references) and the composition of `AnalysisGate` with `BarrierDispatch`.
* Theorems: which entries lack findings when an imported package has a test (`EngineReportsNothingFalse`
  says only that nothing false is reported); that the barrier dispatcher, too, implements an
  abstract lifetime of summaries.

## 8. Not modelled

* What type checking and analyzers compute, fact and export-data encodings, hash functions: pure.
  Equal inputs give equal outputs, as `EngineL0` and `UnitAction` have it.
* Supersession and de-duplication of findings (`Collect`), the exclusion filter and the quiet filter of
  standard error: sequential passes over a list or a stream, which unit tests reach.
* The shared IR: off by default, and its futures are of the kind `FutureCache` models.
* Workspace and snapshots: a run loads once and never edits its snapshot, so gopls' invalidation and
  its reference counts do not come into play.
* The subprocess runners: one child each, awaited by its parent.
* Memory estimates (arbitrary naturals in `BudgetGate`), pin counts of the IR manager (observational),
  statistics, logging.
* Configuration, registry, output formats, command line, benchmark and comparison tools.
