--------------------------- MODULE AnalysisGraph ---------------------------
(***************************************************************************)
(* The analysisNode DAG of internal/gopls/cache/analysis.go, shared by the  *)
(* two dispatchers of Snapshot.Analyze: its construction from the import    *)
(* graph and the three reference counts of a node, which decide when it is  *)
(* enqueued (unfinishedSuccs), when its summary is dropped                  *)
(* (unfinishedPreds) and when its heavy state is evicted                    *)
(* (unfinishedSummaryConsumers).                                            *)
(*                                                                          *)
(* Each atomic counter operation, and each read or write of a field shared  *)
(* between goroutines, is a step of its own.                                *)
(***************************************************************************)
EXTENDS Integers, FiniteSets

CONSTANTS
    Nodes,              \* the packages makeNode reaches from the roots
    Succs,              \* Succs[n]: DepsByPkgPath of n
    Roots,              \* the packages Analyze was called with
    WorkerCap,          \* slots of the analysis gate
    AggressiveRelease   \* PLAID_AGGRESSIVE_RELEASE # "0"

Preds(n) == {p \in Nodes : n \in Succs[p]}

\* Imports are acyclic: every non-empty set of packages has one that imports
\* no other member.
ASSUME DagAssumption ==
    /\ IsFiniteSet(Nodes)
    /\ Succs \in [Nodes -> SUBSET Nodes]
    /\ \A S \in SUBSET Nodes : S # {} => \E n \in S : Succs[n] \cap S = {}
    /\ Roots \subseteq Nodes
    /\ WorkerCap \in Nat \ {0}
    /\ AggressiveRelease \in BOOLEAN

VARIABLES
    pc,               \* where the enqueue goroutine of each node is
    unfinishedSuccs, unfinishedPreds, unfinishedSummaryConsumers,
    toNotify,         \* preds whose unfinishedSuccs n has yet to decrement
    owesPreds,        \* succs n has yet to call decrefPreds on
    owesConsumers,    \* succs n has yet to call decrefSummaryConsumers on
    evicting,         \* the succ, if any, n is about to call maybeReleaseAggressive on
    actions,          \* is an.actions set?
    edges,            \* are an.preds, an.succs and an.stableNames set?
    releasedAggressive,
    captured,         \* nodes whose facts the onNodeAnalyzed callback copied
    cancelled,        \* the Analyze context
    analyze           \* how Analyze returned

counters == <<unfinishedSuccs, unfinishedPreds, unfinishedSummaryConsumers>>
owed == <<toNotify, owesPreds, owesConsumers>>
fields == <<actions, edges, releasedAggressive>>
graphVars == <<pc, counters, owed, evicting, fields, captured, cancelled, analyze>>

CountsPredsOnCreation(n) == IF Preds(n) = {} THEN 0 ELSE 1

\* One edge, one reference, from makeNode's last lines.
CountsPreds(n) == Cardinality(Preds(n))

\* makeNode: the edges and the counters.  Roots get one more unfinishedPreds,
\* so that their actions are never cleared.
InitNodes ==
    /\ pc = [n \in Nodes |-> IF Succs[n] = {} THEN "queued" ELSE "blocked"]
    /\ unfinishedSuccs = [n \in Nodes |-> Cardinality(Succs[n])]
    /\ unfinishedPreds =
         [n \in Nodes |-> CountsPreds(n) + IF n \in Roots THEN 1 ELSE 0]
    /\ unfinishedSummaryConsumers = [n \in Nodes |-> CountsPreds(n)]
    /\ toNotify = [n \in Nodes |-> Preds(n)]
    /\ owesPreds = Succs
    /\ owesConsumers = Succs
    /\ evicting = [n \in Nodes |-> {}]
    /\ actions = [n \in Nodes |-> FALSE]
    /\ edges = [n \in Nodes |-> TRUE]
    /\ releasedAggressive = [n \in Nodes |-> FALSE]
    /\ captured = {}
    /\ cancelled = FALSE
    /\ analyze = "dispatch"

-----------------------------------------------------------------------------
(* Reference counting, by the goroutine of node n *)

LastSuccEarly(p) == unfinishedSuccs[p] <= 2

LastSuccMissed(p) == unfinishedSuccs[p] = 0

\* unfinishedSuccs.Add(-1) == 0
LastSucc(p) == unfinishedSuccs[p] = 1

\* One turn of the loop over an.preds: the last notification enqueues the pred.
Notify(n, p) ==
    /\ pc[n] = "notify"
    /\ p \in toNotify[n]
    /\ toNotify' = [toNotify EXCEPT ![n] = @ \ {p}]
    /\ unfinishedSuccs' = [unfinishedSuccs EXCEPT ![p] = @ - 1]
    /\ pc' = IF LastSucc(p) THEN [pc EXCEPT ![p] = "queued"] ELSE pc
    /\ UNCHANGED <<unfinishedPreds, unfinishedSummaryConsumers, owesPreds, owesConsumers,
                   evicting, fields, captured, cancelled, analyze>>

LastPredUnchecked(s) == TRUE

\* unfinishedPreds.Add(-1) == 0
LastPred(s) == unfinishedPreds[s] = 1

\* succ.decrefPreds()
DecrefPreds(n, s) ==
    /\ pc[n] = "decref"
    /\ owesPreds[n] = owesConsumers[n] /\ evicting[n] = {}
    /\ s \in owesPreds[n]
    /\ owesPreds' = [owesPreds EXCEPT ![n] = @ \ {s}]
    /\ unfinishedPreds' = [unfinishedPreds EXCEPT ![s] = @ - 1]
    /\ actions' = IF LastPred(s) THEN [actions EXCEPT ![s] = FALSE] ELSE actions
    /\ UNCHANGED <<pc, unfinishedSuccs, unfinishedSummaryConsumers, toNotify, owesConsumers,
                   evicting, edges, releasedAggressive, captured, cancelled, analyze>>

\* unfinishedSummaryConsumers.Add(-1) == 0
LastConsumer(s) == unfinishedSummaryConsumers[s] = 1

\* succ.decrefSummaryConsumers(): the last one goes on to maybeReleaseAggressive.
DecrefSummaryConsumers(n, s) ==
    /\ pc[n] = "decref"
    /\ s \in owesConsumers[n] \ owesPreds[n]
    /\ owesConsumers' = [owesConsumers EXCEPT ![n] = @ \ {s}]
    /\ unfinishedSummaryConsumers' = [unfinishedSummaryConsumers EXCEPT ![s] = @ - 1]
    /\ evicting' = IF LastConsumer(s) THEN [evicting EXCEPT ![n] = {s}] ELSE evicting
    /\ UNCHANGED <<pc, unfinishedSuccs, unfinishedPreds, toNotify, owesPreds,
                   fields, captured, cancelled, analyze>>

\* The guards of maybeReleaseAggressive, the compare-and-swap included.
Releasable(s) ==
    /\ AggressiveRelease
    /\ s \notin Roots
    /\ unfinishedSummaryConsumers[s] = 0
    /\ ~releasedAggressive[s]

\* maybeReleaseAggressive and releaseAggressive.
MaybeRelease(s) ==
    IF Releasable(s)
      THEN /\ releasedAggressive' = [releasedAggressive EXCEPT ![s] = TRUE]
           /\ actions' = [actions EXCEPT ![s] = FALSE]
           /\ edges' = [edges EXCEPT ![s] = FALSE]
      ELSE UNCHANGED fields

Evict(n, s) ==
    /\ pc[n] = "decref"
    /\ s \in evicting[n]
    /\ MaybeRelease(s)
    /\ evicting' = [evicting EXCEPT ![n] = {}]
    /\ UNCHANGED <<pc, counters, owed, captured, cancelled, analyze>>

-----------------------------------------------------------------------------
(* What the counters count *)

\* The sets whose cardinalities the three atomic counters hold.
Awaited(n) == {s \in Succs[n] : n \in toNotify[s]}
OwingPreds(n) == {p \in Preds(n) : n \in owesPreds[p]}
OwingConsumers(n) == {p \in Preds(n) : n \in owesConsumers[p]}

CountersExact ==
    \A n \in Nodes :
        /\ unfinishedSuccs[n] = Cardinality(Awaited(n))
        /\ unfinishedPreds[n] = Cardinality(OwingPreds(n)) + IF n \in Roots THEN 1 ELSE 0
        /\ unfinishedSummaryConsumers[n] = Cardinality(OwingConsumers(n))

\* What goroutines owe, they owe their neighbours.
OwedToNeighbours ==
    \A n \in Nodes :
        /\ toNotify[n] \subseteq Preds(n)
        /\ owesPreds[n] \subseteq owesConsumers[n]
        /\ owesConsumers[n] \subseteq Succs[n]
        /\ evicting[n] \subseteq Succs[n]

\* A node waits to be enqueued exactly as long as some import has not notified it.
BlockedIffAwaiting == \A n \in Nodes : pc[n] = "blocked" <=> Awaited(n) # {}

GraphTypes ==
    /\ unfinishedSuccs \in [Nodes -> Nat]
    /\ unfinishedPreds \in [Nodes -> Nat]
    /\ unfinishedSummaryConsumers \in [Nodes -> Nat]
    /\ toNotify \in [Nodes -> SUBSET Nodes]
    /\ owesPreds \in [Nodes -> SUBSET Nodes]
    /\ owesConsumers \in [Nodes -> SUBSET Nodes]
    /\ evicting \in [Nodes -> SUBSET Nodes]
    /\ pc = [n \in Nodes |-> pc[n]]

GraphInv == GraphTypes /\ CountersExact /\ OwedToNeighbours /\ BlockedIffAwaiting
=============================================================================
