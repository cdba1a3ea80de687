------------------------------ MODULE TypeSync ------------------------------
(***************************************************************************)
(* How type-checking batches keep readers and writers of go/types scopes    *)
(* apart: the process-wide lock of internal/gopls/internal/typesyncmu with  *)
(* its elided read side, the reference-counted batches of                   *)
(* acquireTypeChecking (check.go), the phase hand-over of the load-phase    *)
(* barrier, and the cache writers a batch joins when it ends.               *)
(*                                                                          *)
(* A client is one call of Snapshot.Analyze or forEachPackage. Its workers  *)
(* type-check a package each (the write side: gcimporter's declarations),   *)
(* leave a cache writer behind (a reader) and, in Analyze, run analyzers    *)
(* (readers). Readers and writers of the lock are workers and cache writers.*)
(***************************************************************************)
EXTENDS Integers, FiniteSets

CONSTANTS
    Clients,
    Workers,
    Snapshots,
    NoBarrier,  \* a nil *loadPhaseBarrier
    Plans       \* the ways a process uses batches: who calls what on which snapshot

ASSUME TypeSyncAssumption ==
    /\ IsFiniteSet(Workers) /\ IsFiniteSet(Clients)
    /\ NoBarrier \notin Clients
    /\ \A p \in Plans :
         /\ p.client \in [Workers -> Clients]    \* the call a worker belongs to
         /\ p.snap \in [Clients -> Snapshots]    \* the snapshot of a call
         /\ p.analyzes \subseteq Clients         \* the others are forEachPackage
         /\ p.barrier \in BOOLEAN                \* inputDigestEnabled

VARIABLES
    plan,               \* what the process does; fixed
    cpc,                \* where a call is
    pc,                 \* where a worker is
    store,              \* where the cache writer of a worker is, if there is one
    batchRef,           \* Snapshot.batchRef; the batch is nil at 0
    claimed,            \* batch.loadPhaseClaimedByBarrier
    tearing,            \* calls inside the release function, holding typeCheckMu
    loadPhase,          \* batch.loadPhase: the call that installed the barrier
    at,                 \* the barrier a worker closes or waits on
    pending,            \* loadPhaseBarrier.pending, of the barrier of a call
    loadExited,         \* loadPhaseExited
    analyzeEntered,     \* analyzePhaseEntered
    loadPhaseCount, analyzePhaseCount,
    held,               \* readers whose Token is held
    leaked,             \* tokens a panic took past RUnlock
    wantsLock,          \* workers inside mu.Lock
    aborted             \* calls whose context is done

phases == <<pending, loadExited, analyzeEntered, loadPhaseCount, analyzePhaseCount>>
batch == <<batchRef, claimed, loadPhase, tearing>>
lock == <<held, leaked, wantsLock>>
running == <<cpc, pc, at, store, batch, phases, lock, aborted>>
vars == <<plan, running>>

Client == plan.client
Snap == plan.snap
Analyzes == plan.analyzes

Of(c) == {w \in Workers : Client[w] = c}
SnapOf(w) == Snap[Client[w]]
WithBarrier(c) == plan.barrier /\ c \in Analyzes

Init ==
    /\ plan \in Plans
    /\ cpc = [c \in Clients |-> "idle"]
    /\ pc = [w \in Workers |-> "idle"]
    /\ store = [w \in Workers |-> "none"]
    /\ batchRef = [s \in Snapshots |-> 0]
    /\ claimed = [s \in Snapshots |-> FALSE]
    /\ loadPhase = [s \in Snapshots |-> NoBarrier]
    /\ at = [w \in Workers |-> NoBarrier]
    /\ tearing = {}
    /\ pending = [c \in Clients |-> Cardinality(Of(c))]
    /\ loadExited = {} /\ analyzeEntered = {}
    /\ loadPhaseCount = 0 /\ analyzePhaseCount = 0
    /\ held = {} /\ leaked = {} /\ wantsLock = {}
    /\ aborted = {}

----------------------------------------------------------------------------
(* The lock *)

Writing == {w \in Workers : pc[w] = "writing"}

ElidesAlways == TRUE

\* RLock is a no-op while no batch is in its load phase. It decides once: a
\* reader that found a load phase locks even if the phase ends meanwhile.
Elides == loadPhaseCount = 0

\* sync.RWMutex: a waiting writer keeps new readers out.
RLock(r) ==
    /\ Writing = {} /\ wantsLock = {}
    /\ held' = held \cup {r}

RUnlockForgotten(r) == UNCHANGED held

RUnlock(r) == held' = held \ {r}

LockFree == Writing = {} /\ held = {} /\ leaked = {}

----------------------------------------------------------------------------
(* Batches *)

\* acquireTypeChecking joins the batch of the snapshot or starts one.
Acquire(c) ==
    /\ cpc[c] = "idle"
    /\ \A d \in tearing : Snap[d] # Snap[c]
    /\ cpc' = [cpc EXCEPT ![c] = IF WithBarrier(c) THEN "acquired" ELSE "running"]
    /\ IF batchRef[Snap[c]] = 0
         THEN /\ loadPhaseCount' = loadPhaseCount + 1
              /\ claimed' = [claimed EXCEPT ![Snap[c]] = FALSE]
              /\ loadPhase' = [loadPhase EXCEPT ![Snap[c]] = NoBarrier]
         ELSE UNCHANGED <<loadPhaseCount, claimed, loadPhase>>
    /\ batchRef' = [batchRef EXCEPT ![Snap[c]] = @ + 1]
    /\ UNCHANGED <<pc, at, store, tearing, pending, loadExited, analyzeEntered,
                   analyzePhaseCount, lock, aborted>>

\* Analyze installs its barrier, which takes over the load-phase claim and
\* closes at once when there is no package to wait for, ...
InstallBarrier(c) ==
    /\ cpc[c] = "acquired"
    /\ cpc' = [cpc EXCEPT ![c] = "running"]
    /\ claimed' = [claimed EXCEPT ![Snap[c]] = TRUE]
    /\ loadPhase' = [loadPhase EXCEPT ![Snap[c]] = c]
    /\ IF pending[c] > 0 THEN UNCHANGED phases
       ELSE /\ loadExited' = loadExited \cup {c}
            /\ analyzeEntered' = analyzeEntered \cup {c}
            /\ loadPhaseCount' = loadPhaseCount - 1
            /\ analyzePhaseCount' = analyzePhaseCount + 1
            /\ UNCHANGED pending
    /\ UNCHANGED <<pc, at, store, batchRef, tearing, lock, aborted>>

\* ... or returns before that, when it cannot get its package handles.
AnalyzeFails(c) ==
    /\ cpc[c] = "acquired"
    /\ cpc' = [cpc EXCEPT ![c] = "releasing"]
    /\ UNCHANGED <<pc, at, store, batch, phases, lock, aborted>>

\* releaseAtTeardown, deferred after (so run before) the release function.
ReleaseAtTeardown(c) ==
    /\ cpc[c] = "running"
    /\ \A w \in Of(c) : pc[w] = "done"
    /\ cpc' = [cpc EXCEPT ![c] = "releasing"]
    /\ IF ~WithBarrier(c) THEN UNCHANGED phases
       ELSE IF c \notin loadExited
         THEN /\ loadExited' = loadExited \cup {c}
              /\ loadPhaseCount' = loadPhaseCount - 1
              /\ UNCHANGED <<pending, analyzeEntered, analyzePhaseCount>>
         ELSE /\ analyzePhaseCount' = analyzePhaseCount -
                     IF c \in analyzeEntered THEN 1 ELSE 0
              /\ UNCHANGED <<pending, loadExited, analyzeEntered, loadPhaseCount>>
    /\ UNCHANGED <<pc, at, store, batch, lock, aborted>>

\* The release function, under typeCheckMu: the last reference ends the batch.
Release(c) ==
    /\ cpc[c] = "releasing"
    /\ \A d \in tearing : Snap[d] # Snap[c]
    /\ batchRef' = [batchRef EXCEPT ![Snap[c]] = @ - 1]
    /\ IF batchRef[Snap[c]] = 1
         THEN /\ tearing' = tearing \cup {c}
              /\ cpc' = [cpc EXCEPT ![c] = "joining"]
         ELSE /\ cpc' = [cpc EXCEPT ![c] = "returned"]
              /\ UNCHANGED tearing
    /\ UNCHANGED <<pc, at, store, claimed, loadPhase, phases, lock, aborted>>

\* storeWG counts the cache writers of the batch, whichever call left them.
StoresJoined(s) ==
    \A w \in Workers : SnapOf(w) = s => store[w] = "none"

JoinStoresNoWait(c) ==
    /\ cpc[c] = "joining"
    /\ tearing' = tearing \ {c}
    /\ loadPhaseCount' = loadPhaseCount - IF claimed[Snap[c]] THEN 0 ELSE 1
    /\ cpc' = [cpc EXCEPT ![c] = "returned"]
    /\ UNCHANGED <<pc, at, store, batchRef, claimed, loadPhase, pending, loadExited,
                   analyzeEntered, analyzePhaseCount, lock, aborted>>

JoinStoresUnclaimed(c) ==
    /\ cpc[c] = "joining"
    /\ StoresJoined(Snap[c])
    /\ tearing' = tearing \ {c}
    /\ loadPhaseCount' = loadPhaseCount - 1
    /\ cpc' = [cpc EXCEPT ![c] = "returned"]
    /\ UNCHANGED <<pc, at, store, batchRef, claimed, loadPhase, pending, loadExited,
                   analyzeEntered, analyzePhaseCount, lock, aborted>>

\* storeWG.Wait, then the batch's own ExitLoadPhase unless a barrier has it.
JoinStores(c) ==
    /\ cpc[c] = "joining"
    /\ StoresJoined(Snap[c])
    /\ tearing' = tearing \ {c}
    /\ loadPhaseCount' = loadPhaseCount - IF claimed[Snap[c]] THEN 0 ELSE 1
    /\ cpc' = [cpc EXCEPT ![c] = "returned"]
    /\ UNCHANGED <<pc, at, store, batchRef, claimed, loadPhase, pending, loadExited,
                   analyzeEntered, analyzePhaseCount, lock, aborted>>

----------------------------------------------------------------------------
(* Workers *)

Goto(w, l) == pc' = [pc EXCEPT ![w] = l] /\ UNCHANGED <<cpc, batch, aborted>>

\* A type check imports packages: mu.Lock.
StartTypeCheck(w) ==
    /\ cpc[Client[w]] = "running" /\ pc[w] = "idle"
    /\ Goto(w, "lock")
    /\ wantsLock' = wantsLock \cup {w}
    /\ UNCHANGED <<at, store, phases, held, leaked>>

\* No import is decoded: they are all in the batch, or the package itself comes
\* from a cache and nothing is stored.
StartWithoutWriting(w) ==
    /\ cpc[Client[w]] = "running" /\ pc[w] = "idle"
    /\ Goto(w, "checked")
    /\ \E l \in {"none", "queued"} : store' = [store EXCEPT ![w] = l]
    /\ UNCHANGED <<at, phases, lock>>

\* A package that is not reached because the call was cancelled.
GiveUp(w) ==
    /\ Client[w] \in aborted /\ pc[w] = "idle"
    /\ cpc[Client[w]] = "running"
    /\ Goto(w, "done")
    /\ UNCHANGED <<at, store, phases, lock>>

Lock(w) ==
    /\ pc[w] = "lock"
    /\ LockFree
    /\ Goto(w, "writing")
    /\ wantsLock' = wantsLock \ {w}
    /\ UNCHANGED <<at, store, phases, held, leaked>>

\* Unlock; the type-checked package is stored in the background, unless the
\* call was cancelled meanwhile.
Unlock(w) ==
    /\ pc[w] = "writing"
    /\ Goto(w, "checked")
    /\ \/ store' = [store EXCEPT ![w] = "queued"]
       \/ Client[w] \in aborted /\ UNCHANGED store
    /\ UNCHANGED <<at, phases, lock>>

\* signalDone, on the barrier the batch has now: the last signal closes it.
\* forEachPackage does not signal.
Signal(w) ==
    /\ pc[w] = "checked"
    /\ LET open == loadPhase[SnapOf(w)] IN
         CASE Client[w] \notin Analyzes -> Goto(w, "done") /\ UNCHANGED <<at, pending>>
           [] Client[w] \in Analyzes /\ open = NoBarrier ->
                Goto(w, "analyze") /\ UNCHANGED <<at, pending>>
           [] OTHER ->
                /\ pending' = [pending EXCEPT ![open] = @ - 1]
                /\ IF pending[open] = 1
                     THEN at' = [at EXCEPT ![w] = open] /\ Goto(w, "closing")
                     ELSE Goto(w, "signalled") /\ UNCHANGED at
    /\ UNCHANGED <<store, loadExited, analyzeEntered, loadPhaseCount,
                   analyzePhaseCount, lock>>

CloseSkipsLoadPhase(w) ==
    /\ pc[w] = "closing"
    /\ Goto(w, "entering")
    /\ UNCHANGED <<at, store, phases, lock>>

\* closeNow, once done is closed: load phase out, unless the teardown was first ...
CloseExitsLoadPhase(w) ==
    /\ pc[w] = "closing"
    /\ loadExited' = loadExited \cup {at[w]}
    /\ loadPhaseCount' = loadPhaseCount - IF at[w] \in loadExited THEN 0 ELSE 1
    /\ Goto(w, "entering")
    /\ UNCHANGED <<at, store, pending, analyzeEntered, analyzePhaseCount, lock>>

\* ... analyze phase in.
CloseEntersAnalyzePhase(w) ==
    /\ pc[w] = "entering"
    /\ analyzeEntered' = analyzeEntered \cup {at[w]}
    /\ analyzePhaseCount' = analyzePhaseCount + 1
    /\ at' = [at EXCEPT ![w] = NoBarrier]
    /\ Goto(w, "signalled")
    /\ UNCHANGED <<store, pending, loadExited, loadPhaseCount, lock>>

\* waitForAnalyze, on the barrier the batch has now.
WaitForAnalyze(w) ==
    /\ pc[w] = "signalled"
    /\ at' = [at EXCEPT ![w] = loadPhase[SnapOf(w)]]
    /\ Goto(w, "barrier")
    /\ UNCHANGED <<store, phases, lock>>

PassBarrier(w) ==
    /\ pc[w] = "barrier"
    /\ \/ pending[at[w]] <= 0 /\ Goto(w, "analyze")
       \/ Client[w] \in aborted /\ Goto(w, "done")
    /\ at' = [at EXCEPT ![w] = NoBarrier]
    /\ UNCHANGED <<store, phases, lock>>

\* action.exec runs an analyzer between RLock and RUnlock.
StartAnalyzer(w) ==
    /\ pc[w] = "analyze"
    /\ Goto(w, IF Elides THEN "reading" ELSE "rlock")
    /\ UNCHANGED <<at, store, phases, lock>>

AnalyzerLocks(w) ==
    /\ pc[w] = "rlock"
    /\ RLock(<<"analyzer", w>>)
    /\ Goto(w, "reading")
    /\ UNCHANGED <<at, store, phases, leaked, wantsLock>>

EndAnalyzer(w) ==
    /\ pc[w] = "reading"
    /\ RUnlock(<<"analyzer", w>>)
    /\ Goto(w, "done")
    /\ UNCHANGED <<at, store, phases, leaked, wantsLock>>

\* The analyzer panics: the recovery outside skips the RUnlock.
AnalyzerPanics(w) ==
    /\ pc[w] = "reading"
    /\ leaked' = leaked \cup (held \cap {<<"analyzer", w>>})
    /\ RUnlock(<<"analyzer", w>>)
    /\ Goto(w, "done")
    /\ UNCHANGED <<at, store, phases, wantsLock>>

StoreGoto(w, l) ==
    /\ store' = [store EXCEPT ![w] = l]
    /\ UNCHANGED <<cpc, pc, at, batch, phases, leaked, wantsLock, aborted>>

\* A cache writer first exports the package for the file cache, outside the lock
\* and whatever others do, and is done when there is no L2 cache or the entry is
\* in it already.
Export(w) ==
    /\ store[w] = "queued"
    /\ \E l \in {"exported", "none"} : StoreGoto(w, l)
    /\ UNCHANGED held

\* l2StoreWithFiles exports it again, inside the lock.
StartStore(w) ==
    /\ store[w] = "exported"
    /\ StoreGoto(w, IF Elides THEN "reading" ELSE "rlock")
    /\ UNCHANGED held

StoreLocks(w) ==
    /\ store[w] = "rlock"
    /\ RLock(<<"store", w>>)
    /\ StoreGoto(w, "reading")

EndStore(w) ==
    /\ store[w] = "reading"
    /\ RUnlock(<<"store", w>>)
    /\ StoreGoto(w, "none")

Abort(c) ==
    /\ c \notin aborted /\ cpc[c] \in {"acquired", "running"}
    /\ aborted' = aborted \cup {c}
    /\ UNCHANGED <<cpc, pc, at, store, batch, phases, lock>>

ClientStep(c) ==
    \/ Acquire(c) \/ InstallBarrier(c) \/ AnalyzeFails(c)
    \/ ReleaseAtTeardown(c) \/ Release(c) \/ JoinStores(c)

WorkerStep(w) ==
    \/ StartTypeCheck(w) \/ StartWithoutWriting(w) \/ GiveUp(w)
    \/ Unlock(w) \/ Signal(w) \/ CloseExitsLoadPhase(w)
    \/ CloseEntersAnalyzePhase(w) \/ WaitForAnalyze(w) \/ PassBarrier(w)
    \/ StartAnalyzer(w) \/ EndAnalyzer(w) \/ AnalyzerPanics(w)

StoreStep(w) == Export(w) \/ StartStore(w) \/ EndStore(w)

\* A step of a goroutine, and not of whoever cancels a context.
Progress ==
    \/ \E c \in Clients : ClientStep(c)
    \/ \E w \in Workers :
         \/ WorkerStep(w) \/ Lock(w) \/ AnalyzerLocks(w)
         \/ StoreStep(w) \/ StoreLocks(w)

Next ==
    /\ Progress \/ \E c \in Clients : Abort(c)
    /\ UNCHANGED plan

Spec == Init /\ [][Next]_vars

\* Some goroutine runs as long as one can. Every goroutine takes finitely many
\* steps, so nothing stronger is needed, of the mutex in particular.
Fairness == WF_running(Progress)

FairSpec == Spec /\ Fairness

----------------------------------------------------------------------------
Reading == {w \in Workers : pc[w] = "reading"}
Storing == {w \in Workers : store[w] = "reading"}

\* Types of calls, workers, batches and counters.
TypeOK ==
    /\ plan \in Plans
    /\ cpc \in [Clients -> {"idle", "acquired", "running", "releasing", "joining", "returned"}]
    /\ pc \in [Workers -> {"idle", "lock", "writing", "checked", "closing", "entering", "signalled",
                           "barrier", "analyze", "rlock", "reading", "done"}]
    /\ store \in [Workers -> {"none", "queued", "exported", "rlock", "reading"}]
    /\ batchRef \in [Snapshots -> Nat]
    /\ claimed \in [Snapshots -> BOOLEAN]
    /\ tearing \subseteq Clients /\ aborted \subseteq Clients
    /\ loadPhase \in [Snapshots -> Clients \cup {NoBarrier}]
    /\ at \in [Workers -> Clients \cup {NoBarrier}]
    /\ pending \in [Clients -> Int]
    /\ loadExited \subseteq Clients /\ analyzeEntered \subseteq loadExited
    /\ loadPhaseCount \in Int /\ analyzePhaseCount \in Int
    /\ held \subseteq {"analyzer", "store"} \X Workers
    /\ leaked \subseteq {"analyzer"} \X Workers
    /\ wantsLock \subseteq Workers

\* Within a batch, no goroutine that brackets its scope reads with RLock (held
\* or elided) is inside the bracket while another one writes, although every
\* analyzer elides the lock after the barrier. In single-pass mode, where no
\* barrier drops the load phase early, the same holds for the whole process.
ReadersExcludeWriters ==
    \A w \in Writing : \A r \in Reading \cup Storing :
        plan.barrier /\ SnapOf(r) # SnapOf(w)

\* EnterLoadPhase/ExitLoadPhase and EnterAnalyzePhase/ExitAnalyzePhase pair up
\* whichever of barrier, abort and batch teardown does the exit: the counters
\* never go below zero, which panics, and return to it, and "the counter is
\* non-zero whenever a writer can be in flight".
PhasesBalanced ==
    /\ Writing # {} => loadPhaseCount > 0
    /\ loadPhaseCount >= 0 /\ analyzePhaseCount >= 0
    /\ (\A c \in Clients : cpc[c] \in {"idle", "returned"}) =>
         loadPhaseCount = 0 /\ analyzePhaseCount = 0

\* When a call has returned and its batch is gone, every cache write it caused
\* has ended: the cache state is an output of the run.
WritesLanded ==
    \A c \in Clients : cpc[c] = "returned" /\ batchRef[Snap[c]] = 0 =>
        StoresJoined(Snap[c]) \/ \E d \in tearing : Snap[d] = Snap[c]

\* Every call that started returns, unless a panic took a read lock with it.
CallsReturn ==
    \A c \in Clients : cpc[c] = "running" ~> cpc[c] = "returned" \/ leaked # {}

\* The production path recovers an analyzer's panic to "press on": every call
\* returns, panics or not.
CallsReturnDespitePanics ==
    \A c \in Clients : cpc[c] = "running" ~> cpc[c] = "returned"
============================================================================
