------------------------- MODULE AnalysisDispatch -------------------------
(***************************************************************************)
(* The single-pass dispatcher of Snapshot.Analyze, selected by              *)
(* PLAID_INPUT_DIGEST=0: one goroutine per package, imports first, each     *)
(* analysed and published before its importers are enqueued.                *)
(***************************************************************************)
EXTENDS AnalysisGraph

Holding == {"running", "notify", "decref", "self"}
Phases == {"blocked", "queued", "done", "failed"} \cup Holding
Finished == {"notify", "decref", "self", "done"}

Busy == {n \in Nodes : pc[n] \in Holding}
Active == {n \in Nodes : pc[n] \in Holding \cup {"queued"}}

vars == graphVars

Init == InitNodes

-----------------------------------------------------------------------------
(* The enqueue goroutine of one node *)

\* gate.acquire: a slot, or the error of a cancelled context.
GateAdmit(n) ==
    /\ pc[n] = "queued"
    /\ ~cancelled
    /\ Cardinality(Busy) < WorkerCap
    /\ pc' = [pc EXCEPT ![n] = "running"]
    /\ UNCHANGED <<counters, owed, evicting, fields, captured, cancelled, analyze>>

GateRefuse(n) ==
    /\ pc[n] = "queued"
    /\ cancelled
    /\ pc' = [pc EXCEPT ![n] = "failed"]
    /\ UNCHANGED <<counters, owed, evicting, fields, captured, cancelled, analyze>>

\* runCached failed (cancelled, or no package): the goroutine returns the error
\* and notifies nobody.
RunFail(n) ==
    /\ pc[n] = "running"
    /\ pc' = [pc EXCEPT ![n] = "failed"]
    /\ UNCHANGED <<counters, owed, evicting, fields, captured, cancelled, analyze>>

\* runCached returned a summary: it is copied to the node and handed to the
\* engine's callback, which needs an.stableNames.
RunOK(n) ==
    /\ pc[n] = "running"
    /\ pc' = [pc EXCEPT ![n] = "notify"]
    /\ actions' = [actions EXCEPT ![n] = TRUE]
    /\ captured' = IF edges[n] THEN captured \cup {n} ELSE captured
    /\ UNCHANGED <<counters, owed, evicting, edges, releasedAggressive, cancelled, analyze>>

\* The range over an.succs reads the field once; if a concurrent release has
\* already set it to nil the loop has no turns.
EnterDecrefs(n) ==
    /\ pc[n] = "notify"
    /\ toNotify[n] = {}
    /\ pc' = [pc EXCEPT ![n] = IF edges[n] THEN "decref" ELSE "self"]
    /\ UNCHANGED <<counters, owed, evicting, fields, captured, cancelled, analyze>>

LeaveDecrefs(n) ==
    /\ pc[n] = "decref"
    /\ owesConsumers[n] = {} /\ evicting[n] = {}
    /\ pc' = [pc EXCEPT ![n] = "self"]
    /\ UNCHANGED <<counters, owed, evicting, fields, captured, cancelled, analyze>>

\* The trailing maybeReleaseAggressive on the node itself; the goroutine then
\* returns and its deferred release frees the gate slot.
ReleaseSelf(n) ==
    /\ pc[n] = "self"
    /\ MaybeRelease(n)
    /\ pc' = [pc EXCEPT ![n] = "done"]
    /\ UNCHANGED <<counters, owed, evicting, captured, cancelled, analyze>>

-----------------------------------------------------------------------------
(* Analyze *)

Cancel ==
    /\ ~cancelled /\ analyze = "dispatch"
    /\ cancelled' = TRUE
    /\ UNCHANGED <<pc, counters, owed, evicting, fields, captured, analyze>>

ReturnCountsNodes ==
    /\ analyze = "dispatch"
    /\ \A n \in Nodes : pc[n] = "done"
    /\ analyze' = "ok"
    /\ UNCHANGED <<pc, counters, owed, evicting, fields, captured, cancelled>>

\* g.Wait returns when no goroutine is left, then the roots are inspected.
Return ==
    /\ analyze = "dispatch"
    /\ Active = {}
    /\ analyze' = IF \E n \in Nodes : pc[n] = "failed" THEN "error"
                  ELSE IF \E r \in Roots : ~actions[r] THEN "panic" ELSE "ok"
    /\ UNCHANGED <<pc, counters, owed, evicting, fields, captured, cancelled>>

NodeStep(n) ==
    \/ GateAdmit(n) \/ GateRefuse(n) \/ RunFail(n) \/ RunOK(n)
    \/ \E p \in Nodes : Notify(n, p)
    \/ EnterDecrefs(n)
    \/ \E s \in Nodes : DecrefPreds(n, s) \/ DecrefSummaryConsumers(n, s) \/ Evict(n, s)
    \/ LeaveDecrefs(n) \/ ReleaseSelf(n)

Next == (\E n \in Nodes : NodeStep(n)) \/ Cancel \/ Return

Spec == Init /\ [][Next]_vars

\* Goroutines are scheduled; type-checking and analyzers terminate.
FairSpec == Spec /\ (\A n \in Nodes : WF_vars(NodeStep(n))) /\ WF_vars(Return)

-----------------------------------------------------------------------------
(* Properties *)

\* Types of the DAG and its goroutines: no reference count goes below zero.
TypeOK ==
    /\ pc \in [Nodes -> Phases]
    /\ unfinishedSuccs \in [Nodes -> Nat]
    /\ unfinishedPreds \in [Nodes -> Nat]
    /\ unfinishedSummaryConsumers \in [Nodes -> Nat]
    /\ toNotify \in [Nodes -> SUBSET Nodes]
    /\ owesPreds \in [Nodes -> SUBSET Nodes]
    /\ owesConsumers \in [Nodes -> SUBSET Nodes]
    /\ evicting \in [Nodes -> SUBSET Nodes]
    /\ actions \in [Nodes -> BOOLEAN]
    /\ edges \in [Nodes -> BOOLEAN]
    /\ releasedAggressive \in [Nodes -> BOOLEAN]
    /\ captured \subseteq Nodes
    /\ cancelled \in BOOLEAN
    /\ analyze \in {"dispatch", "ok", "error", "panic"}

\* While a package is being analysed, every package it imports still has the
\* action summaries and stable names from which cacheKey, typeCheck and
\* action.exec read hashes, error status and facts.
ConsumersSeeSummaries ==
    \A n \in Nodes : pc[n] = "running" => \A s \in Succs[n] : actions[s] /\ edges[s]

\* Analyze never hits the "root analysisNode has nil actions" panic, and when
\* it returns without error every package was analysed and its facts reached
\* the engine's callback.
DispatchComplete ==
    /\ analyze # "panic"
    /\ analyze = "ok" => captured = Nodes /\ \A n \in Nodes : pc[n] = "done"

Done == {n \in Nodes : pc[n] \in Finished}
Dropped == {n \in Done : ~actions[n]}
Lifetime == INSTANCE SummaryLifetime WITH done <- Done, dropped <- Dropped

\* The dispatcher implements the abstract life cycle of summaries: a package is
\* analysed once, imports first, and dropped only when no importer is left.
ImplementsLifetime == Lifetime!Spec

\* Analyze returns: neither the gate nor a failed package leaves g.Wait waiting.
AnalyzeReturns == <>(analyze # "dispatch")

=============================================================================
