-------------------------- MODULE BarrierDispatch --------------------------
(***************************************************************************)
(* The default dispatcher of Snapshot.Analyze (PLAID_INPUT_DIGEST unset):   *)
(* internal/gopls/cache/analysis_barrier_dispatch.go and                    *)
(* load_phase_barrier.go.  A package is type-checked, signals the load-     *)
(* phase barrier and its importers, gives its gate slot back, waits until   *)
(* every package of the batch has signalled and its imports are analysed,   *)
(* and takes a slot again to be analysed.  Packages with a cached summary   *)
(* skip type-checking and both waits.                                       *)
(***************************************************************************)
EXTENDS AnalysisGraph

CONSTANTS
    HitSets,   \* the sets of packages tryCacheShortcut may hit
    MayFail,   \* may the cache or the type checker fail without a cancellation?
    MayJoin    \* may another snapshot be computing the same key?

ASSUME BarrierAssumption ==
    /\ HitSets \in SUBSET SUBSET Nodes /\ HitSets # {}
    /\ MayFail \in BOOLEAN
    /\ MayJoin \in BOOLEAN

VARIABLES
    hits,          \* the packages tryCacheShortcut hits in this batch
    path,          \* how n gets its summary: a hit, as leader, joined, or an error
    pending,       \* the barrier's count of missing signals
    barrierOpen,   \* is the barrier's done channel closed?
    analyzeDone,   \* is an.analyzeDone closed?
    compiles,      \* has an.compiles its final value?
    waits,         \* the vdeps waitForVdepAnalyzes waits for
    intact,        \* what n read while analysing: compiles of its vdeps, its own
                   \* succs and stableNames
    sound          \* was an.actions computed from all summaries it depends on?

barrier == <<pending, barrierOpen>>
flow == <<hits, path, analyzeDone, compiles, waits, intact, sound>>
vars == <<graphVars, barrier, flow>>

Unsignalled == {"blocked", "queued", "shortcut", "joining", "signal"}
Waiting == {"barrier", "vdeps", "reacquire"}
Phases == Unsignalled \cup Waiting
            \cup {"notify", "analyzing", "tail", "decref", "self", "done", "failed"}

Active == {n \in Nodes : pc[n] \notin {"blocked", "done", "failed"}}

\* The nodes whose goroutine holds a slot of the gate.  A joiner holds it while
\* it waits; a hit keeps it to the end; every other path has given it back
\* before the tail.
Busy == {n \in Nodes : \/ pc[n] \in {"shortcut", "joining", "signal", "notify", "analyzing"}
                       \/ pc[n] \in {"decref", "self"} /\ path[n] = "hit"}

Init ==
    /\ InitNodes
    /\ hits \in HitSets
    /\ path = [n \in Nodes |-> "none"]
    /\ pending = Cardinality(Nodes)
    /\ barrierOpen = (Nodes = {})
    /\ analyzeDone = [n \in Nodes |-> FALSE]
    /\ compiles = [n \in Nodes |-> FALSE]
    /\ waits = [n \in Nodes |-> {}]
    /\ intact = [n \in Nodes |-> TRUE]
    /\ sound = [n \in Nodes |-> FALSE]

Goto(n, phase) == pc' = [pc EXCEPT ![n] = phase]

SlotFree == Cardinality(Busy) < WorkerCap

nodeState == <<counters, owed, evicting, fields, captured, cancelled, analyze>>

\* an.compiles and an.actions are set, and the callback reads an.stableNames.
PublishFields(n) ==
    /\ actions' = [actions EXCEPT ![n] = TRUE]
    /\ compiles' = [compiles EXCEPT ![n] = TRUE]
    /\ captured' = IF edges[n] THEN captured \cup {n} ELSE captured
    /\ UNCHANGED <<edges, releasedAggressive>>

-----------------------------------------------------------------------------
(* From the gate to the barrier signal *)

GateAdmit(n) ==
    /\ pc[n] = "queued" /\ ~cancelled /\ SlotFree
    /\ Goto(n, "shortcut")
    /\ UNCHANGED <<nodeState, barrier, flow>>

\* A cancelled gate.acquire signals nobody: every wait also watches the context.
GateRefuse(n) ==
    /\ pc[n] = "queued" /\ cancelled
    /\ Goto(n, "failed")
    /\ UNCHANGED <<nodeState, barrier, flow>>

Hit(n) ==
    /\ pc[n] = "shortcut" /\ n \in hits
    /\ PublishFields(n)
    /\ sound' = [sound EXCEPT ![n] = TRUE]
    /\ path' = [path EXCEPT ![n] = "hit"]
    /\ Goto(n, "signal")
    /\ UNCHANGED <<counters, owed, evicting, cancelled, analyze,
                   barrier, hits, analyzeDone, waits, intact>>

\* The leader's type check reads the compiles field of every import.
Lead(n) ==
    /\ compiles' = [compiles EXCEPT ![n] = TRUE]
    /\ intact' = [intact EXCEPT ![n] = \A s \in Succs[n] : compiles[s]]
    /\ path' = [path EXCEPT ![n] = "leader"]
    /\ Goto(n, "signal")
    /\ UNCHANGED <<nodeState, barrier, hits, analyzeDone, waits, sound>>

TypeCheck(n) == pc[n] = "shortcut" /\ n \notin hits /\ Lead(n)

FailsUnsignalled(n) ==
    /\ pc[n] = "shortcut" /\ n \notin hits
    /\ MayFail \/ cancelled
    /\ path' = [path EXCEPT ![n] = "error"]
    /\ analyzeDone' = [analyzeDone EXCEPT ![n] = TRUE]
    /\ Goto(n, "failed")
    /\ UNCHANGED <<nodeState, barrier, hits, compiles, waits, intact, sound>>

\* n did not lead, or its type check failed: on to the signals.
Resolve(n, how) ==
    /\ path' = [path EXCEPT ![n] = how]
    /\ Goto(n, "signal")
    /\ UNCHANGED <<nodeState, barrier, hits, analyzeDone, compiles, waits, intact, sound>>

\* tryCacheShortcut or typeCheck failed.
ShortcutOrTypeCheckFails(n) ==
    /\ pc[n] = "shortcut" /\ n \notin hits
    /\ MayFail \/ cancelled
    /\ Resolve(n, "error")

\* inFlightAnalyses.get found the future of another batch's leader: n waits for
\* it with its slot, and signals neither the barrier nor its importers.
Join(n) ==
    /\ pc[n] = "shortcut" /\ n \notin hits
    /\ MayJoin
    /\ Goto(n, "joining")
    /\ UNCHANGED <<nodeState, barrier, flow>>

\* The wait of the joiner ends with its own context.
JoinCancelled(n) == pc[n] = "joining" /\ cancelled /\ Resolve(n, "error")

\* The other batch's leader returns a summary or an error, or was cancelled and
\* n leads in its place.  When, if ever, is up to that batch.
OtherLeaderReturns(n) ==
    /\ pc[n] = "joining"
    /\ \/ Resolve(n, "joined")
       \/ MayFail /\ Resolve(n, "error")
       \/ Lead(n)

SignalDoneEarly(n) ==
    /\ pc[n] = "signal"
    /\ pending' = pending - 1
    /\ barrierOpen' = (barrierOpen \/ pending <= 2)
    /\ Goto(n, "notify")
    /\ UNCHANGED <<nodeState, flow>>

\* barrier.signalDone, with closeNow for the last signal.
SignalDone(n) ==
    /\ pc[n] = "signal"
    /\ pending' = pending - 1
    /\ barrierOpen' = (barrierOpen \/ pending = 1)
    /\ Goto(n, "notify")
    /\ UNCHANGED <<nodeState, flow>>

Signalled(n) == pc[n] = "notify" /\ toNotify[n] = {}

-----------------------------------------------------------------------------
(* After the signal *)

CloseAnalyzeDone(n) == analyzeDone' = [analyzeDone EXCEPT ![n] = TRUE]

Fail(n) ==
    /\ CloseAnalyzeDone(n)
    /\ Goto(n, "failed")
    /\ UNCHANGED <<nodeState, barrier, hits, path, compiles, waits, intact, sound>>

ErrorReturns(n) == Signalled(n) /\ path[n] = "error" /\ Fail(n)

JoinerPublishes(n) ==
    /\ Signalled(n) /\ path[n] = "joined"
    /\ PublishFields(n)
    /\ sound' = [sound EXCEPT ![n] = TRUE]
    /\ Goto(n, "tail")
    /\ UNCHANGED <<counters, owed, evicting, cancelled, analyze,
                   barrier, hits, path, analyzeDone, waits, intact>>

\* The slot is released before the two waits.
LeaderYields(n) ==
    /\ Signalled(n) /\ path[n] = "leader" /\ ~cancelled
    /\ Goto(n, "barrier")
    /\ UNCHANGED <<nodeState, barrier, flow>>

PassBarrier(n) ==
    /\ pc[n] = "barrier" /\ barrierOpen
    /\ waits' = [waits EXCEPT ![n] = IF edges[n] THEN Succs[n] ELSE {}]
    /\ Goto(n, "vdeps")
    /\ UNCHANGED <<nodeState, barrier, hits, path, analyzeDone, compiles, intact, sound>>

PassVdepsUnwaited(n) ==
    /\ pc[n] = "vdeps"
    /\ Goto(n, "reacquire")
    /\ UNCHANGED <<nodeState, barrier, flow>>

PassVdeps(n) ==
    /\ pc[n] = "vdeps" /\ \A s \in waits[n] : analyzeDone[s]
    /\ Goto(n, "reacquire")
    /\ UNCHANGED <<nodeState, barrier, flow>>

\* mkAction reads an.succs and an.stableNames.
Reacquire(n) ==
    /\ pc[n] = "reacquire" /\ ~cancelled /\ SlotFree
    /\ intact' = [intact EXCEPT ![n] = @ /\ edges[n]]
    /\ Goto(n, "analyzing")
    /\ UNCHANGED <<nodeState, barrier, hits, path, analyzeDone, compiles, waits, sound>>

\* The context is checked after the type check, in every wait, in the gate and
\* after the analyzers.
LeaderCancelled(n) ==
    /\ cancelled
    /\ \/ pc[n] \in Waiting \cup {"analyzing"}
       \/ Signalled(n) /\ path[n] = "leader"
    /\ Fail(n)

AnalyzeOK(n) ==
    /\ pc[n] = "analyzing" /\ ~cancelled
    /\ PublishFields(n)
    /\ sound' = [sound EXCEPT ![n] =
                    intact[n] /\ \A s \in Succs[n] : actions[s] /\ sound[s]]
    /\ Goto(n, "tail")
    /\ UNCHANGED <<counters, owed, evicting, cancelled, analyze,
                   barrier, hits, path, analyzeDone, waits, intact>>

\* dropDownstreamRefs: the range reads an.succs once.
EnterDecrefs(n) ==
    /\ \/ pc[n] = "tail"
       \/ Signalled(n) /\ path[n] = "hit"
    /\ Goto(n, IF edges[n] THEN "decref" ELSE "self")
    /\ UNCHANGED <<nodeState, barrier, flow>>

LeaveDecrefs(n) ==
    /\ pc[n] = "decref" /\ owesConsumers[n] = {} /\ evicting[n] = {}
    /\ Goto(n, "self")
    /\ UNCHANGED <<nodeState, barrier, flow>>

\* The trailing maybeReleaseAggressive, then closeAnalyzeDone.
ReleaseSelf(n) ==
    /\ pc[n] = "self"
    /\ MaybeRelease(n)
    /\ CloseAnalyzeDone(n)
    /\ Goto(n, "done")
    /\ UNCHANGED <<counters, owed, evicting, captured, cancelled, analyze,
                   barrier, hits, path, compiles, waits, intact, sound>>

-----------------------------------------------------------------------------

Cancel ==
    /\ ~cancelled /\ analyze = "dispatch"
    /\ cancelled' = TRUE
    /\ UNCHANGED <<pc, counters, owed, evicting, fields, captured, analyze, barrier, flow>>

Return ==
    /\ analyze = "dispatch" /\ Active = {}
    /\ analyze' = IF \E n \in Nodes : pc[n] = "failed" THEN "error"
                  ELSE IF \E r \in Roots : ~actions[r] THEN "panic" ELSE "ok"
    /\ UNCHANGED <<pc, counters, owed, evicting, fields, captured, cancelled, barrier, flow>>

RefStep(n) ==
    /\ \E m \in Nodes : \/ Notify(n, m) \/ DecrefPreds(n, m)
                        \/ DecrefSummaryConsumers(n, m) \/ Evict(n, m)
    /\ UNCHANGED <<barrier, flow>>

NodeStep(n) ==
    \/ GateAdmit(n) \/ GateRefuse(n) \/ Hit(n) \/ TypeCheck(n)
    \/ ShortcutOrTypeCheckFails(n) \/ Join(n) \/ JoinCancelled(n) \/ SignalDone(n)
    \/ ErrorReturns(n) \/ JoinerPublishes(n) \/ LeaderYields(n)
    \/ PassBarrier(n) \/ PassVdeps(n) \/ Reacquire(n) \/ LeaderCancelled(n)
    \/ AnalyzeOK(n) \/ EnterDecrefs(n) \/ LeaveDecrefs(n) \/ ReleaseSelf(n)
    \/ RefStep(n)

Next ==
    \/ \E n \in Nodes : NodeStep(n) \/ OtherLeaderReturns(n)
    \/ Cancel \/ Return

Spec == Init /\ [][Next]_vars

\* Goroutines are scheduled; type-checking and analyzers terminate.  Nothing is
\* assumed of the leaders of other batches.
FairSpec == Spec /\ (\A n \in Nodes : WF_vars(NodeStep(n))) /\ WF_vars(Return)

-----------------------------------------------------------------------------
(* Properties *)

\* Types of the DAG, the barrier and the goroutines: neither a reference count
\* nor the count of missing signals goes below zero.
TypeOK ==
    /\ pc \in [Nodes -> Phases]
    /\ unfinishedSuccs \in [Nodes -> Nat]
    /\ unfinishedPreds \in [Nodes -> Nat]
    /\ unfinishedSummaryConsumers \in [Nodes -> Nat]
    /\ toNotify \in [Nodes -> SUBSET Nodes]
    /\ owesPreds \in [Nodes -> SUBSET Nodes]
    /\ owesConsumers \in [Nodes -> SUBSET Nodes]
    /\ evicting \in [Nodes -> SUBSET Nodes]
    /\ actions \in [Nodes -> BOOLEAN]
    /\ edges \in [Nodes -> BOOLEAN]
    /\ releasedAggressive \in [Nodes -> BOOLEAN]
    /\ captured \subseteq Nodes
    /\ cancelled \in BOOLEAN
    /\ analyze \in {"dispatch", "ok", "error", "panic"}
    /\ hits \in HitSets
    /\ path \in [Nodes -> {"none", "hit", "leader", "joined", "error"}]
    /\ pending \in Nat
    /\ barrierOpen \in BOOLEAN
    /\ analyzeDone \in [Nodes -> BOOLEAN]
    /\ compiles \in [Nodes -> BOOLEAN]
    /\ waits \in [Nodes -> SUBSET Nodes]
    /\ intact \in [Nodes -> BOOLEAN]
    /\ sound \in [Nodes -> BOOLEAN]

\* No analyzer runs while some package of the batch may still be type-checked,
\* although signals come from hits, leaders, joiners and failures alike: the
\* barrier opens on the last of exactly one signal per package.
TypecheckBeforeAnalyze ==
    \A n \in Nodes : pc[n] = "analyzing" => \A m \in Nodes : pc[m] \notin Unsignalled

\* No package joined another snapshot or failed, and the caches of earlier runs
\* are complete: a cached package has cached imports.
Undisturbed ==
    /\ \A n \in hits : Succs[n] \subseteq hits
    /\ \A n \in Nodes : path[n] \notin {"joined", "error"}

\* In an undisturbed batch a published summary was computed by a package that
\* had its own edges and names, the error status of its imports and all their
\* summaries.
SoundSummaries == Undisturbed => \A n \in Nodes : actions[n] => sound[n]

\* Analyze does not panic on a root without a summary; a batch without error
\* has analysed every package and, undisturbed, has handed the facts of every
\* package to the engine.
BatchComplete ==
    /\ analyze # "panic"
    /\ analyze = "ok" => \A n \in Nodes : pc[n] = "done" /\ analyzeDone[n]
    /\ analyze = "ok" /\ Undisturbed => captured = Nodes

\* Unless some package waits for ever for another batch's leader, neither the
\* barrier, the waits between packages, a joiner's slot, the second admission, a
\* failure nor a cancellation leaves g.Wait waiting.
AnalyzeReturns ==
    (\A n \in Nodes : []<>(pc[n] # "joining")) => <>(analyze # "dispatch")

=============================================================================
