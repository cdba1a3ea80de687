---------------------- MODULE AnalysisDispatchProofs ----------------------
(***************************************************************************)
(* Safety of the single-pass dispatcher for every import DAG, every         *)
(* choice of roots, every worker cap, with and without aggressive release.  *)
(***************************************************************************)
EXTENDS AnalysisDispatch, FiniteSetTheorems, TLAPS

-----------------------------------------------------------------------------
(* The reference counts of the DAG: the steps of AnalysisGraph keep them exact *)

\* The counting facts behind Add(-1) == 0.
LEMMA CountDown ==
  ASSUME NEW S, S \subseteq Nodes
  PROVE  /\ IsFiniteSet(S)
         /\ Cardinality(S) \in Nat
         /\ Cardinality(S) = 0 <=> S = {}
         /\ \A x \in S : /\ Cardinality(S \ {x}) = Cardinality(S) - 1
                         /\ Cardinality(S) > 0
                         /\ Cardinality(S) = 1 <=> S \ {x} = {}
<1>1. IsFiniteSet(S)
  BY Zenon, FS_Subset, DagAssumption
<1>2. Cardinality(S) \in Nat /\ (Cardinality(S) = 0 <=> S = {})
  BY Zenon, <1>1, FS_CardinalityType, FS_EmptySet
<1>3. ASSUME NEW x \in S
      PROVE  /\ Cardinality(S \ {x}) = Cardinality(S) - 1
             /\ Cardinality(S) > 0
             /\ Cardinality(S) = 1 <=> S \ {x} = {}
  <2>1. IsFiniteSet(S \ {x}) /\ Cardinality(S \ {x}) = Cardinality(S) - 1
    BY Zenon, <1>1, FS_RemoveElement
  <2>2. Cardinality(S \ {x}) = 0 <=> S \ {x} = {}
    BY Zenon, <2>1, FS_EmptySet
  <2> QED
    BY <1>2, <2>1, <2>2
<1> QED
  BY Zenon, <1>1, <1>2, <1>3

\* makeNode establishes the counts.
LEMMA GraphInit == InitNodes => GraphInv
<1> SUFFICES ASSUME InitNodes PROVE GraphInv
  BY Zenon
<1> USE DagAssumption
<1>1. ASSUME NEW n \in Nodes
      PROVE  Awaited(n) = Succs[n] /\ OwingPreds(n) = Preds(n) /\ OwingConsumers(n) = Preds(n)
  BY Zenon DEF InitNodes, Awaited, OwingPreds, OwingConsumers, Preds
<1>2. ASSUME NEW n \in Nodes
      PROVE  Cardinality(Succs[n]) \in Nat /\ Cardinality(Preds(n)) \in Nat
  <2>1. Succs[n] \subseteq Nodes /\ Preds(n) \subseteq Nodes
    BY Zenon DEF Preds
  <2> QED
    BY Zenon, <2>1, CountDown
<1>3. GraphTypes
  <2>1. unfinishedSuccs \in [Nodes -> Nat] /\ unfinishedSummaryConsumers \in [Nodes -> Nat]
    BY Zenon, <1>2 DEF InitNodes, CountsPreds
  <2>2. unfinishedPreds \in [Nodes -> Nat]
    <3>1. \A n \in Nodes : Cardinality(Preds(n)) + (IF n \in Roots THEN 1 ELSE 0) \in Nat
      BY <1>2
    <3> QED
      BY Zenon, <3>1 DEF InitNodes, CountsPreds
  <2>3. toNotify \in [Nodes -> SUBSET Nodes]
    BY Zenon DEF InitNodes, Preds
  <2> QED
    BY Zenon, <2>1, <2>2, <2>3 DEF InitNodes, GraphTypes
<1>4. CountersExact
  BY Zenon, <1>1 DEF InitNodes, CountersExact, CountsPreds
<1>5. OwedToNeighbours
  BY Zenon DEF InitNodes, OwedToNeighbours, Preds
<1>6. BlockedIffAwaiting
  BY Zenon, <1>1 DEF InitNodes, BlockedIffAwaiting
<1> QED
  BY Zenon, <1>3, <1>4, <1>5, <1>6 DEF GraphInv

\* A step that moves goroutines past the queue and decrements nothing.
LEMMA GraphKept ==
  ASSUME GraphInv, UNCHANGED <<counters, owed>>,
         evicting' \in [Nodes -> SUBSET Nodes],
         \A n \in Nodes : evicting'[n] \subseteq evicting[n],
         pc' = [n \in Nodes |-> pc'[n]],
         \A n \in Nodes : pc'[n] = "blocked" <=> pc[n] = "blocked"
  PROVE  /\ GraphInv'
         /\ \A m \in Nodes : /\ Awaited(m)' = Awaited(m)
                             /\ OwingPreds(m)' = OwingPreds(m)
                             /\ OwingConsumers(m)' = OwingConsumers(m)
<1>1. \A m \in Nodes : /\ Awaited(m)' = Awaited(m)
                       /\ OwingPreds(m)' = OwingPreds(m)
                       /\ OwingConsumers(m)' = OwingConsumers(m)
  BY Zenon DEF Awaited, OwingPreds, OwingConsumers, owed
<1>2. GraphTypes' /\ OwedToNeighbours'
  BY Zenon DEF GraphInv, GraphTypes, OwedToNeighbours, counters, owed
<1>3. CountersExact'
  BY Zenon, <1>1 DEF GraphInv, CountersExact, counters
<1>4. BlockedIffAwaiting'
  BY Zenon, <1>1 DEF GraphInv, BlockedIffAwaiting
<1> QED
  BY Zenon, <1>1, <1>2, <1>3, <1>4 DEF GraphInv

\* unfinishedSuccs.Add(-1) == 0 happens for exactly the last import, and the
\* node it enqueues was waiting.
LEMMA NotifyCounts ==
  ASSUME GraphInv, NEW n \in Nodes, NEW p \in Nodes, Notify(n, p)
  PROVE  /\ GraphInv'
         /\ p \in Preds(n) /\ p # n
         /\ pc[p] = "blocked" /\ pc'[p] \in {"blocked", "queued"}
         /\ \A m \in Nodes \ {p} : pc'[m] = pc[m]
         /\ \A m \in Nodes : OwingPreds(m)' = OwingPreds(m) /\ OwingConsumers(m)' = OwingConsumers(m)
<1> USE DagAssumption
<1>a. GraphTypes /\ CountersExact /\ OwedToNeighbours /\ BlockedIffAwaiting
  BY Zenon DEF GraphInv
<1>b. n \in Awaited(p) /\ Awaited(p) \subseteq Nodes /\ p # n /\ p \in Preds(n)
  <2>1. p \in Preds(n)
    BY Zenon, <1>a DEF Notify, OwedToNeighbours
  <2>2. p # n
    <3>1. \E m \in {n} : Succs[m] \cap {n} = {}
      BY Zenon, DagAssumption
    <3> QED
      BY Zenon, <2>1, <3>1 DEF Preds
  <2> QED
    BY Zenon, <2>1, <2>2 DEF Notify, Preds, Awaited
<1>c. /\ Awaited(p)' = Awaited(p) \ {n}
      /\ \A m \in Nodes \ {p} : Awaited(m)' = Awaited(m)
      /\ \A m \in Nodes : OwingPreds(m)' = OwingPreds(m) /\ OwingConsumers(m)' = OwingConsumers(m)
  BY <1>a, <1>b DEF Notify, Awaited, OwingPreds, OwingConsumers, GraphTypes
<1>d. /\ Cardinality(Awaited(p) \ {n}) = Cardinality(Awaited(p)) - 1
      /\ Cardinality(Awaited(p)) \in Nat \ {0}
      /\ Cardinality(Awaited(p)) = 1 <=> Awaited(p) \ {n} = {}
  BY <1>b, CountDown
<1>e. unfinishedSuccs[p] = Cardinality(Awaited(p)) /\ pc[p] = "blocked"
  BY Zenon, <1>a, <1>b DEF CountersExact, BlockedIffAwaiting
<1>f. /\ \A m \in Nodes \ {p} : pc'[m] = pc[m]
      /\ pc'[p] = IF Awaited(p)' = {} THEN "queued" ELSE "blocked"
      /\ pc' = [m \in Nodes |-> pc'[m]]
  <2>1. LastSucc(p) <=> Awaited(p)' = {}
    BY Zenon, <1>c, <1>d, <1>e DEF LastSucc
  <2>2. pc' = [m \in Nodes |-> IF m = p /\ LastSucc(p) THEN "queued" ELSE pc[m]]
    BY Zenon, <1>a DEF Notify, GraphTypes
  <2> QED
    BY Zenon, <1>e, <2>1, <2>2
<1>1. GraphTypes'
  <2>1. unfinishedSuccs[p] - 1 \in Nat
    BY <1>d, <1>e
  <2>2. unfinishedSuccs' \in [Nodes -> Nat]
    BY Zenon, <1>a, <2>1 DEF Notify, GraphTypes
  <2>3. toNotify' \in [Nodes -> SUBSET Nodes]
    BY Zenon, <1>a DEF Notify, GraphTypes
  <2> QED
    BY Zenon, <1>a, <1>f, <2>2, <2>3 DEF Notify, GraphTypes
<1>2. CountersExact'
  <2>1. ASSUME NEW m \in Nodes PROVE unfinishedSuccs'[m] = Cardinality(Awaited(m)')
    <3>1. CASE m = p
      <4>1. unfinishedSuccs'[p] = unfinishedSuccs[p] - 1
        BY Zenon, <1>a DEF Notify, GraphTypes
      <4> QED
        BY Zenon, <1>c, <1>d, <1>e, <3>1, <4>1
    <3>2. CASE m # p
      <4>1. unfinishedSuccs'[m] = unfinishedSuccs[m]
        BY <1>a, <3>2 DEF Notify, GraphTypes
      <4> QED
        BY Zenon, <1>a, <1>c, <3>2, <4>1 DEF CountersExact
    <3> QED
      BY Zenon, <3>1, <3>2
  <2> QED
    BY <1>a, <1>c, <2>1 DEF Notify, CountersExact
<1>3. OwedToNeighbours'
  BY <1>a DEF Notify, OwedToNeighbours, GraphTypes
<1>4. BlockedIffAwaiting'
  BY Zenon, <1>a, <1>c, <1>f DEF BlockedIffAwaiting
<1> QED
  BY Zenon, <1>1, <1>2, <1>3, <1>4, <1>b, <1>c, <1>e, <1>f DEF GraphInv

\* decrefPreds clears a summary only for the last importer of a non-root.
LEMMA DecrefPredsCounts ==
  ASSUME GraphInv, NEW n \in Nodes, NEW s \in Nodes, DecrefPreds(n, s)
  PROVE  /\ GraphInv'
         /\ s \in Succs[n]
         /\ \A m \in Nodes : OwingPreds(m)' \subseteq OwingPreds(m) /\ OwingConsumers(m)' = OwingConsumers(m)
         /\ LastPred(s) => s \notin Roots /\ OwingPreds(s)' = {}
<1> USE DagAssumption
<1>a. GraphTypes /\ CountersExact /\ OwedToNeighbours /\ BlockedIffAwaiting
  BY Zenon DEF GraphInv
<1>b. n \in OwingPreds(s) /\ OwingPreds(s) \subseteq Nodes /\ s \in Succs[n]
  BY Zenon, <1>a DEF DecrefPreds, OwedToNeighbours, OwingPreds, Preds
<1>c. /\ OwingPreds(s)' = OwingPreds(s) \ {n}
      /\ \A m \in Nodes \ {s} : OwingPreds(m)' = OwingPreds(m)
      /\ \A m \in Nodes : Awaited(m)' = Awaited(m) /\ OwingConsumers(m)' = OwingConsumers(m)
  BY <1>a, <1>b, SMTT(30) DEF DecrefPreds, Awaited, OwingPreds, OwingConsumers, GraphTypes
<1>d. /\ Cardinality(OwingPreds(s) \ {n}) = Cardinality(OwingPreds(s)) - 1
      /\ Cardinality(OwingPreds(s)) \in Nat \ {0}
      /\ Cardinality(OwingPreds(s)) = 1 <=> OwingPreds(s) \ {n} = {}
  BY <1>b, CountDown
<1>e. unfinishedPreds[s] = Cardinality(OwingPreds(s)) + IF s \in Roots THEN 1 ELSE 0
  BY Zenon, <1>a DEF CountersExact
<1>1. GraphTypes'
  <2>1. unfinishedPreds[s] - 1 \in Nat
    BY <1>d, <1>e
  <2>2. unfinishedPreds' \in [Nodes -> Nat] /\ owesPreds' \in [Nodes -> SUBSET Nodes]
    BY Zenon, <1>a, <2>1 DEF DecrefPreds, GraphTypes
  <2> QED
    BY Zenon, <1>a, <2>2 DEF DecrefPreds, GraphTypes
<1>2. CountersExact'
  <2>1. ASSUME NEW m \in Nodes
        PROVE  unfinishedPreds'[m] = Cardinality(OwingPreds(m)') + IF m \in Roots THEN 1 ELSE 0
    <3>1. CASE m = s
      <4>1. unfinishedPreds'[s] = unfinishedPreds[s] - 1
        BY <1>a DEF DecrefPreds, GraphTypes
      <4>2. Cardinality(OwingPreds(s)') = Cardinality(OwingPreds(s)) - 1
        BY Zenon, <1>c, <1>d
      <4>3. CASE s \in Roots
        BY <1>d, <1>e, <3>1, <4>1, <4>2, <4>3
      <4>4. CASE s \notin Roots
        BY <1>d, <1>e, <3>1, <4>1, <4>2, <4>4
      <4> QED
        BY Zenon, <4>3, <4>4
    <3>2. CASE m # s
      <4>1. unfinishedPreds'[m] = unfinishedPreds[m]
        BY <1>a, <3>2 DEF DecrefPreds, GraphTypes
      <4> QED
        BY Zenon, <1>a, <1>c, <3>2, <4>1 DEF CountersExact
    <3> QED
      BY Zenon, <3>1, <3>2
  <2> QED
    BY Zenon, <1>a, <1>c, <2>1 DEF DecrefPreds, CountersExact
<1>3. OwedToNeighbours'
  BY <1>a DEF DecrefPreds, OwedToNeighbours, GraphTypes
<1>4. BlockedIffAwaiting'
  BY Zenon, <1>a, <1>c DEF DecrefPreds, BlockedIffAwaiting
<1>5. LastPred(s) => s \notin Roots /\ OwingPreds(s)' = {}
  BY <1>c, <1>d, <1>e DEF LastPred
<1> QED
  BY Zenon, <1>1, <1>2, <1>3, <1>4, <1>5, <1>b, <1>c DEF GraphInv

\* The consumer count follows the preds count.
LEMMA DecrefConsumersCounts ==
  ASSUME GraphInv, NEW n \in Nodes, NEW s \in Nodes, DecrefSummaryConsumers(n, s)
  PROVE  /\ GraphInv'
         /\ s \in Succs[n]
         /\ \A m \in Nodes : OwingPreds(m)' = OwingPreds(m) /\ OwingConsumers(m)' \subseteq OwingConsumers(m)
<1> USE DagAssumption
<1>a. GraphTypes /\ CountersExact /\ OwedToNeighbours /\ BlockedIffAwaiting
  BY Zenon DEF GraphInv
<1>b. n \in OwingConsumers(s) /\ OwingConsumers(s) \subseteq Nodes /\ s \in Succs[n]
  BY Zenon, <1>a DEF DecrefSummaryConsumers, OwedToNeighbours, OwingConsumers, Preds
<1>c. /\ OwingConsumers(s)' = OwingConsumers(s) \ {n}
      /\ \A m \in Nodes \ {s} : OwingConsumers(m)' = OwingConsumers(m)
      /\ \A m \in Nodes : Awaited(m)' = Awaited(m) /\ OwingPreds(m)' = OwingPreds(m)
  BY <1>a, <1>b, SMTT(30) DEF DecrefSummaryConsumers, Awaited, OwingPreds, OwingConsumers, GraphTypes
<1>d. /\ Cardinality(OwingConsumers(s) \ {n}) = Cardinality(OwingConsumers(s)) - 1
      /\ Cardinality(OwingConsumers(s)) \in Nat \ {0}
  BY <1>b, CountDown
<1>e. unfinishedSummaryConsumers[s] = Cardinality(OwingConsumers(s))
  BY Zenon, <1>a DEF CountersExact
<1>1. GraphTypes'
  <2>1. unfinishedSummaryConsumers[s] - 1 \in Nat
    BY <1>d, <1>e
  <2>2. unfinishedSummaryConsumers' \in [Nodes -> Nat]
    BY Zenon, <1>a, <2>1 DEF DecrefSummaryConsumers, GraphTypes
  <2>3. evicting' \in [Nodes -> SUBSET Nodes] /\ owesConsumers' \in [Nodes -> SUBSET Nodes]
    BY <1>a DEF DecrefSummaryConsumers, GraphTypes
  <2> QED
    BY <1>a, <2>2, <2>3 DEF DecrefSummaryConsumers, GraphTypes
<1>2. CountersExact'
  <2>1. ASSUME NEW m \in Nodes
        PROVE  unfinishedSummaryConsumers'[m] = Cardinality(OwingConsumers(m)')
    <3>1. CASE m = s
      <4>1. unfinishedSummaryConsumers'[s] = unfinishedSummaryConsumers[s] - 1
        BY <1>a DEF DecrefSummaryConsumers, GraphTypes
      <4> QED
        BY Zenon, <1>c, <1>d, <1>e, <3>1, <4>1
    <3>2. CASE m # s
      <4>1. unfinishedSummaryConsumers'[m] = unfinishedSummaryConsumers[m]
        BY <1>a, <3>2, SMTT(30) DEF DecrefSummaryConsumers, GraphTypes
      <4> QED
        BY Zenon, <1>a, <1>c, <3>2, <4>1 DEF CountersExact
    <3> QED
      BY Zenon, <3>1, <3>2
  <2> QED
    BY <1>a, <1>c, <2>1, SMTT(30) DEF DecrefSummaryConsumers, CountersExact
<1>3. OwedToNeighbours'
  BY <1>a, <1>b, SMTT(30) DEF DecrefSummaryConsumers, OwedToNeighbours, GraphTypes
<1>4. BlockedIffAwaiting'
  BY Zenon, <1>a, <1>c DEF DecrefSummaryConsumers, BlockedIffAwaiting
<1> QED
  BY Zenon, <1>1, <1>2, <1>3, <1>4, <1>b, <1>c DEF GraphInv

\* maybeReleaseAggressive evicts only a dependency all importers have let go of.
LEMMA ReleaseFacts ==
  ASSUME GraphInv, NEW s \in Nodes, MaybeRelease(s)
  PROVE  \/ UNCHANGED fields
         \/ /\ s \notin Roots /\ OwingConsumers(s) = {} /\ OwingPreds(s) = {}
            /\ releasedAggressive' = [releasedAggressive EXCEPT ![s] = TRUE]
            /\ actions' = [actions EXCEPT ![s] = FALSE]
            /\ edges' = [edges EXCEPT ![s] = FALSE]
<1> USE DagAssumption
<1>1. CASE ~Releasable(s)
  BY Zenon, <1>1 DEF MaybeRelease
<1>2. CASE Releasable(s)
  <2>1. Cardinality(OwingConsumers(s)) = 0 /\ OwingConsumers(s) \subseteq Nodes
    BY Zenon, <1>2 DEF Releasable, GraphInv, CountersExact, OwingConsumers, Preds
  <2>2. OwingConsumers(s) = {}
    BY Zenon, <2>1, CountDown
  <2>3. OwingPreds(s) = {}
    BY Zenon, <2>2 DEF OwingPreds, OwingConsumers, Preds, GraphInv, OwedToNeighbours
  <2> QED
    BY Zenon, <1>2, <2>2, <2>3 DEF MaybeRelease, Releasable
<1> QED
  BY Zenon, <1>1, <1>2

-----------------------------------------------------------------------------
(* The dispatcher *)

\* What a goroutine still owes its neighbours, by where it is.
OwedByPhase ==
    \A n \in Nodes :
        /\ pc[n] \notin Finished => toNotify[n] = Preds(n)
        /\ pc[n] \in {"decref", "self", "done"} => toNotify[n] = {}
        /\ pc[n] \notin {"decref", "self", "done"} =>
             owesPreds[n] = Succs[n] /\ owesConsumers[n] = Succs[n] /\ evicting[n] = {}

\* Only a dependency with no importer left to read it loses its summary.
SummaryKept ==
    \A n \in Nodes : pc[n] \in Finished /\ ~actions[n] => n \notin Roots /\ OwingPreds(n) = {}

EvictedUnread ==
    \A n \in Nodes :
        /\ ~edges[n] => releasedAggressive[n]
        /\ releasedAggressive[n] =>
             n \notin Roots /\ OwingConsumers(n) = {} /\ pc[n] \in Finished

Outcome ==
    /\ captured = Done
    /\ analyze # "dispatch" => Active = {}
    /\ analyze # "panic"
    /\ analyze = "ok" => \A n \in Nodes : pc[n] = "done"

DispatchInv ==
    /\ TypeOK
    /\ GraphInv
    /\ OwedByPhase
    /\ SummaryKept
    /\ EvictedUnread
    /\ Outcome

\* The goroutine of an enqueued node finds all its imports finished.
LEMMA ImportsFinished ==
  ASSUME GraphInv, OwedByPhase, NEW n \in Nodes, pc[n] # "blocked", NEW s \in Succs[n]
  PROVE  s \in Nodes /\ n \in Preds(s) /\ pc[s] \in Finished /\ n \notin toNotify[s]
<1>1. s \in Nodes /\ n \in Preds(s)
  BY Zenon, DagAssumption DEF Preds
<1>2. n \notin toNotify[s]
  BY Zenon DEF GraphInv, BlockedIffAwaiting, Awaited
<1> QED
  BY Zenon, <1>1, <1>2 DEF OwedByPhase

\* makeNode establishes the invariant.
LEMMA DispatchInit == Init => DispatchInv
<1> SUFFICES ASSUME Init PROVE DispatchInv
  BY Zenon
<1> USE DagAssumption
<1>1. GraphInv
  BY Zenon, GraphInit DEF Init
<1>2. TypeOK
  BY Zenon, <1>1 DEF Init, InitNodes, TypeOK, GraphInv, GraphTypes, Phases, Holding
<1>3. OwedByPhase
  BY Zenon DEF Init, InitNodes, OwedByPhase, Finished
<1>4. SummaryKept /\ EvictedUnread
  BY Zenon DEF Init, InitNodes, SummaryKept, EvictedUnread, Finished
<1>5. Outcome
  BY Zenon DEF Init, InitNodes, Outcome, Done, Finished
<1> QED
  BY Zenon, <1>1, <1>2, <1>3, <1>4, <1>5 DEF DispatchInv

\* A step that moves one goroutine on and decrements nothing.
LEMMA Moves ==
  ASSUME DispatchInv, NEW n \in Nodes, pc[n] \notin {"blocked", "done", "failed"},
         NEW q \in Phases \ {"blocked"}, pc' = [pc EXCEPT ![n] = q],
         UNCHANGED <<counters, owed, evicting>>
  PROVE  /\ GraphInv'
         /\ \A m \in Nodes : OwingPreds(m)' = OwingPreds(m) /\ OwingConsumers(m)' = OwingConsumers(m)
         /\ \A m \in Nodes : pc'[m] = IF m = n THEN q ELSE pc[m]
         /\ n \in Active
<1>1. \A m \in Nodes : pc'[m] = IF m = n THEN q ELSE pc[m]
  BY Zenon DEF DispatchInv, TypeOK
<1>2. pc' = [m \in Nodes |-> pc'[m]]
  BY Zenon DEF DispatchInv, TypeOK
<1>3. n \in Active
  BY Zenon DEF DispatchInv, TypeOK, Active, Phases
<1> QED
  BY Zenon, <1>1, <1>2, <1>3, GraphKept DEF DispatchInv, GraphInv, GraphTypes

\* From the gate to runCached, or to the error of either.
LEMMA PhaseStep ==
  ASSUME DispatchInv, NEW n \in Nodes,
         GateAdmit(n) \/ GateRefuse(n) \/ RunFail(n)
  PROVE  DispatchInv'
<1>a. TypeOK /\ GraphInv /\ OwedByPhase /\ SummaryKept /\ EvictedUnread /\ Outcome
  BY Zenon DEF DispatchInv
<1>b. /\ pc[n] \in {"queued", "running"}
      /\ UNCHANGED <<counters, owed, evicting, fields, captured, cancelled, analyze>>
  BY Zenon DEF GateAdmit, GateRefuse, RunFail
<1>c. PICK q \in {"running", "failed"} : pc' = [pc EXCEPT ![n] = q]
  BY Zenon DEF GateAdmit, GateRefuse, RunFail
<1>d. /\ GraphInv'
      /\ \A m \in Nodes : OwingPreds(m)' = OwingPreds(m) /\ OwingConsumers(m)' = OwingConsumers(m)
      /\ \A m \in Nodes : pc'[m] = IF m = n THEN q ELSE pc[m]
      /\ n \in Active
  BY Zenon, <1>b, <1>c, Moves DEF Phases, Holding
<1>1. TypeOK'
  BY Zenon, <1>a, <1>b, <1>c DEF TypeOK, Phases, Holding, counters, owed, fields
<1>2. OwedByPhase'
  BY Zenon, <1>a, <1>b, <1>d DEF OwedByPhase, owed, Finished
<1>3. SummaryKept' /\ EvictedUnread'
  BY Zenon, <1>a, <1>b, <1>d DEF SummaryKept, EvictedUnread, fields, Finished
<1>4. Outcome'
  <2>1. Done' = Done
    BY Zenon, <1>b, <1>d DEF Done, Finished
  <2> QED
    BY Zenon, <1>a, <1>b, <1>d, <2>1 DEF Outcome
<1> QED
  BY Zenon, <1>d, <1>1, <1>2, <1>3, <1>4 DEF DispatchInv

\* Publishing a summary: the node was not evicted, so the callback gets it.
LEMMA RunOKStep ==
  ASSUME DispatchInv, NEW n \in Nodes, RunOK(n)
  PROVE  DispatchInv'
<1>a. TypeOK /\ GraphInv /\ OwedByPhase /\ SummaryKept /\ EvictedUnread /\ Outcome
  BY Zenon DEF DispatchInv
<1>b. edges[n] /\ captured' = captured \cup {n}
  BY Zenon, <1>a DEF RunOK, EvictedUnread, Finished
<1>c. /\ GraphInv'
      /\ \A m \in Nodes : OwingPreds(m)' = OwingPreds(m) /\ OwingConsumers(m)' = OwingConsumers(m)
      /\ \A m \in Nodes : pc'[m] = IF m = n THEN "notify" ELSE pc[m]
      /\ n \in Active
  BY Zenon, Moves DEF RunOK, Phases, Holding
<1>1. TypeOK'
  BY Zenon, <1>a, <1>b DEF RunOK, TypeOK, Phases, Holding, counters, owed
<1>2. OwedByPhase'
  BY <1>a, <1>c DEF RunOK, OwedByPhase, owed, Finished
<1>3. SummaryKept' /\ EvictedUnread'
  BY Zenon, <1>a, <1>c DEF RunOK, SummaryKept, EvictedUnread, TypeOK, Finished
<1>4. Outcome'
  <2>1. Done' = Done \cup {n}
    BY Zenon, <1>a, <1>c DEF RunOK, Done, Finished
  <2> QED
    BY Zenon, <1>a, <1>b, <1>c, <2>1 DEF RunOK, Outcome
<1> QED
  BY Zenon, <1>c, <1>1, <1>2, <1>3, <1>4 DEF DispatchInv

\* A notification, perhaps the last one an importer waits for.
LEMMA NotifyStep ==
  ASSUME DispatchInv, NEW n \in Nodes, NEW p \in Nodes, Notify(n, p)
  PROVE  DispatchInv'
<1>a. TypeOK /\ GraphInv /\ OwedByPhase /\ SummaryKept /\ EvictedUnread /\ Outcome
  BY Zenon DEF DispatchInv
<1>b. /\ GraphInv'
      /\ p \in Preds(n) /\ p # n
      /\ pc[p] = "blocked" /\ pc'[p] \in {"blocked", "queued"}
      /\ \A m \in Nodes \ {p} : pc'[m] = pc[m]
      /\ \A m \in Nodes : OwingPreds(m)' = OwingPreds(m) /\ OwingConsumers(m)' = OwingConsumers(m)
  BY Zenon, <1>a, NotifyCounts
<1>1. TypeOK'
  <2>1. pc' \in [Nodes -> Phases]
    BY Zenon, <1>a DEF Notify, TypeOK, Phases
  <2> QED
    BY Zenon, <1>a, <1>b, <2>1 DEF Notify, TypeOK, GraphInv, GraphTypes, fields
<1>2. OwedByPhase'
  BY <1>a, <1>b, SMTT(30) DEF Notify, OwedByPhase, GraphInv, GraphTypes, Finished
<1>3. SummaryKept' /\ EvictedUnread'
  BY <1>a, <1>b, SMTT(30) DEF Notify, SummaryKept, EvictedUnread, fields, Finished
<1>4. Outcome'
  <2>1. Done' = Done
    BY Zenon, <1>a, <1>b DEF Done, Finished
  <2>2. n \in Active
    BY Zenon DEF Notify, Active, Holding
  <2> QED
    BY Zenon, <1>a, <2>1, <2>2 DEF Notify, Outcome
<1> QED
  BY Zenon, <1>b, <1>1, <1>2, <1>3, <1>4 DEF DispatchInv

\* Entering and leaving the loop over an.succs, whether or not a concurrent
\* release has emptied it.
LEMMA LoopStep ==
  ASSUME DispatchInv, NEW n \in Nodes, EnterDecrefs(n) \/ LeaveDecrefs(n)
  PROVE  DispatchInv'
<1>a. TypeOK /\ GraphInv /\ OwedByPhase /\ SummaryKept /\ EvictedUnread /\ Outcome
  BY Zenon DEF DispatchInv
<1>b. /\ pc[n] \in {"notify", "decref"}
      /\ toNotify[n] = {}
      /\ UNCHANGED <<counters, owed, evicting, fields, captured, cancelled, analyze>>
  BY Zenon, <1>a DEF EnterDecrefs, LeaveDecrefs, OwedByPhase
<1>c. PICK q \in {"decref", "self"} : pc' = [pc EXCEPT ![n] = q]
  BY Zenon DEF EnterDecrefs, LeaveDecrefs
<1>d. /\ GraphInv'
      /\ \A m \in Nodes : OwingPreds(m)' = OwingPreds(m) /\ OwingConsumers(m)' = OwingConsumers(m)
      /\ \A m \in Nodes : pc'[m] = IF m = n THEN q ELSE pc[m]
      /\ n \in Active
  BY Zenon, <1>b, <1>c, Moves DEF Phases, Holding
<1>1. TypeOK'
  BY Zenon, <1>a, <1>b, <1>c DEF TypeOK, Phases, Holding, counters, owed, fields
<1>2. OwedByPhase'
  BY Zenon, <1>a, <1>b, <1>d DEF OwedByPhase, owed, Finished
<1>3. SummaryKept' /\ EvictedUnread'
  BY <1>a, <1>b, <1>d, SMTT(30) DEF SummaryKept, EvictedUnread, fields, Finished
<1>4. Outcome'
  <2>1. Done' = Done
    BY Zenon, <1>b, <1>d DEF Done, Finished
  <2> QED
    BY Zenon, <1>a, <1>b, <1>d, <2>1 DEF Outcome
<1> QED
  BY Zenon, <1>d, <1>1, <1>2, <1>3, <1>4 DEF DispatchInv

\* The two decrements of the loop; the first may clear a summary.
LEMMA DecrefStep ==
  ASSUME DispatchInv, NEW n \in Nodes, NEW s \in Nodes,
         DecrefPreds(n, s) \/ DecrefSummaryConsumers(n, s)
  PROVE  DispatchInv'
<1>a. TypeOK /\ GraphInv /\ OwedByPhase /\ SummaryKept /\ EvictedUnread /\ Outcome
  BY Zenon DEF DispatchInv
<1>b. /\ GraphInv'
      /\ \A m \in Nodes : OwingPreds(m)' \subseteq OwingPreds(m)
                          /\ OwingConsumers(m)' \subseteq OwingConsumers(m)
  BY Zenon, <1>a, DecrefPredsCounts, DecrefConsumersCounts
<1>c. pc' = pc /\ n \in Active /\ pc[n] = "decref" /\ UNCHANGED <<toNotify, captured, cancelled, analyze>>
  BY Zenon DEF DecrefPreds, DecrefSummaryConsumers, Active, Holding
<1>d. UNCHANGED <<edges, releasedAggressive>>
  BY Zenon DEF DecrefPreds, DecrefSummaryConsumers, fields
<1>1. TypeOK'
  <2>1. actions' = actions \/ actions' = [actions EXCEPT ![s] = FALSE]
    BY Zenon DEF DecrefPreds, DecrefSummaryConsumers, fields
  <2>2. actions' \in [Nodes -> BOOLEAN]
    BY <1>a, <2>1, Zenon DEF TypeOK
  <2> QED
    BY Zenon, <1>a, <1>b, <1>c, <1>d, <2>2 DEF TypeOK, GraphInv, GraphTypes
<1>2. OwedByPhase'
  <2>1. \A m \in Nodes \ {n} : /\ owesPreds'[m] = owesPreds[m]
                               /\ owesConsumers'[m] = owesConsumers[m]
                               /\ evicting'[m] = evicting[m]
    BY <1>a DEF DecrefPreds, DecrefSummaryConsumers, TypeOK
  <2> QED
    BY Zenon, <1>a, <1>c, <2>1 DEF OwedByPhase
<1>3. SummaryKept'
  <2>1. CASE DecrefPreds(n, s)
    <3>1. LastPred(s) => s \notin Roots /\ OwingPreds(s)' = {}
      BY Zenon, <1>a, <2>1, DecrefPredsCounts
    <3> QED
      BY <1>a, <1>b, <1>c, <2>1, <3>1, SMTT(30) DEF DecrefPreds, SummaryKept, TypeOK
  <2>2. CASE DecrefSummaryConsumers(n, s)
    BY Zenon, <1>a, <1>b, <1>c, <2>2 DEF DecrefSummaryConsumers, SummaryKept, fields
  <2> QED
    BY Zenon, <2>1, <2>2
<1>4. EvictedUnread'
  BY Zenon, <1>a, <1>b, <1>c, <1>d DEF EvictedUnread
<1>5. Outcome'
  BY Zenon, <1>a, <1>c DEF Outcome, Done, Active
<1> QED
  BY Zenon, <1>b, <1>1, <1>2, <1>3, <1>4, <1>5 DEF DispatchInv

\* Eviction, whoever does it, preserves the invariant.
LEMMA ReleaseStep ==
  ASSUME DispatchInv, NEW n \in Nodes, pc[n] \in {"decref", "self"},
         NEW s \in Nodes, pc[s] \in Finished, MaybeRelease(s),
         NEW q \in {"decref", "done"}, q = "decref" => pc[n] = "decref",
         pc' = [pc EXCEPT ![n] = q],
         NEW E \in SUBSET evicting[n], evicting' = [evicting EXCEPT ![n] = E],
         UNCHANGED <<counters, owed, captured, cancelled, analyze>>
  PROVE  DispatchInv'
<1>a. TypeOK /\ GraphInv /\ OwedByPhase /\ SummaryKept /\ EvictedUnread /\ Outcome
  BY Zenon DEF DispatchInv
<1>b. /\ pc' \in [Nodes -> Phases] /\ evicting' \in [Nodes -> SUBSET Nodes]
      /\ \A m \in Nodes : evicting'[m] \subseteq evicting[m]
  BY Zenon, <1>a DEF TypeOK, Phases
<1>c. \A m \in Nodes : /\ pc'[m] \in Finished <=> pc[m] \in Finished
                       /\ pc'[m] = "blocked" <=> pc[m] = "blocked"
  BY <1>a, SMTT(30) DEF TypeOK, Finished
<1>d. /\ GraphInv'
      /\ \A m \in Nodes : OwingPreds(m)' = OwingPreds(m) /\ OwingConsumers(m)' = OwingConsumers(m)
  BY Zenon, <1>a, <1>b, <1>c, GraphKept
<1>e. \/ UNCHANGED fields
      \/ /\ s \notin Roots /\ OwingConsumers(s) = {} /\ OwingPreds(s) = {}
         /\ releasedAggressive' = [releasedAggressive EXCEPT ![s] = TRUE]
         /\ actions' = [actions EXCEPT ![s] = FALSE]
         /\ edges' = [edges EXCEPT ![s] = FALSE]
  BY Zenon, <1>a, ReleaseFacts
<1>1. TypeOK'
  <2>1. actions' \in [Nodes -> BOOLEAN] /\ edges' \in [Nodes -> BOOLEAN]
        /\ releasedAggressive' \in [Nodes -> BOOLEAN]
    <3>1. CASE UNCHANGED fields
      BY Zenon, <1>a, <3>1 DEF TypeOK, fields
    <3>2. CASE ~UNCHANGED fields
      <4>1. /\ releasedAggressive' = [releasedAggressive EXCEPT ![s] = TRUE]
            /\ actions' = [actions EXCEPT ![s] = FALSE]
            /\ edges' = [edges EXCEPT ![s] = FALSE]
        BY Zenon, <1>e, <3>2
      <4> QED
        BY <1>a, <4>1, Zenon DEF TypeOK
    <3> QED
      BY Zenon, <3>1, <3>2
  <2> QED
    BY Zenon, <1>a, <1>b, <2>1 DEF TypeOK, counters, owed
<1>2. OwedByPhase'
  <2>1. /\ \A m \in Nodes \ {n} : pc'[m] = pc[m] /\ evicting'[m] = evicting[m]
        /\ pc'[n] = q
    BY Zenon, <1>a DEF TypeOK
  <2> QED
    BY Zenon, <1>a, <1>c, <2>1 DEF OwedByPhase, owed
<1>3. SummaryKept' /\ EvictedUnread'
  <2>1. CASE UNCHANGED fields
    BY <1>a, <1>c, <1>d, <2>1, SMTT(30) DEF SummaryKept, EvictedUnread, fields
  <2>2. CASE ~UNCHANGED fields
    BY <1>a, <1>c, <1>d, <1>e, <2>2, SMTT(30) DEF SummaryKept, EvictedUnread, TypeOK
  <2> QED
    BY Zenon, <2>1, <2>2
<1>4. Outcome'
  <2>1. Done' = Done /\ n \in Active
    BY Zenon, <1>c DEF Done, Active, Holding
  <2> QED
    BY Zenon, <1>a, <2>1 DEF Outcome
<1> QED
  BY Zenon, <1>d, <1>1, <1>2, <1>3, <1>4 DEF DispatchInv

\* The last importer evicts.
LEMMA EvictStep ==
  ASSUME DispatchInv, NEW n \in Nodes, NEW s \in Nodes, Evict(n, s)
  PROVE  DispatchInv'
<1>1. s \in Succs[n] /\ pc[n] = "decref"
  BY Zenon DEF Evict, DispatchInv, GraphInv, OwedToNeighbours
<1>2. pc[s] \in Finished
  BY Zenon, <1>1, ImportsFinished DEF DispatchInv
<1>3. pc' = [pc EXCEPT ![n] = "decref"] /\ evicting' = [evicting EXCEPT ![n] = {}]
  BY Zenon, <1>1 DEF Evict, DispatchInv, TypeOK
<1> QED
  BY Zenon, <1>1, <1>2, <1>3, ReleaseStep DEF Evict

\* A node with no importer left evicts itself at the end of its body.
LEMMA ReleaseSelfStep ==
  ASSUME DispatchInv, NEW n \in Nodes, ReleaseSelf(n)
  PROVE  DispatchInv'
<1>1. pc[n] = "self" /\ pc[n] \in Finished /\ pc' = [pc EXCEPT ![n] = "done"]
  BY Zenon DEF ReleaseSelf, Finished
<1>2. evicting' = [evicting EXCEPT ![n] = evicting[n]]
  BY Zenon DEF ReleaseSelf, DispatchInv, TypeOK
<1> QED
  BY Zenon, <1>1, <1>2, ReleaseStep DEF ReleaseSelf

\* The dispatch part of the invariant depends on the nodes alone.
LEMMA QuietStep ==
  ASSUME DispatchInv, UNCHANGED <<pc, counters, owed, evicting, fields>>
  PROVE  GraphInv' /\ OwedByPhase' /\ SummaryKept' /\ EvictedUnread'
<1>1. /\ GraphInv'
      /\ \A m \in Nodes : OwingPreds(m)' = OwingPreds(m) /\ OwingConsumers(m)' = OwingConsumers(m)
  BY Zenon, GraphKept DEF DispatchInv, GraphInv, GraphTypes
<1>2. OwedByPhase'
  BY Zenon DEF DispatchInv, OwedByPhase, owed
<1>3. SummaryKept' /\ EvictedUnread'
  BY Zenon, <1>1 DEF DispatchInv, SummaryKept, EvictedUnread, fields
<1> QED
  BY Zenon, <1>1, <1>2, <1>3

\* Cancelling the context changes nothing the invariant mentions.
LEMMA CancelStep ==
  ASSUME DispatchInv, Cancel
  PROVE  DispatchInv'
<1>1. TypeOK'
  BY Zenon DEF Cancel, DispatchInv, TypeOK, counters, owed, fields
<1>2. GraphInv' /\ OwedByPhase' /\ SummaryKept' /\ EvictedUnread'
  BY Zenon, QuietStep DEF Cancel
<1>3. Outcome'
  BY Zenon DEF Cancel, DispatchInv, Outcome, Done, Active
<1> QED
  BY Zenon, <1>1, <1>2, <1>3 DEF DispatchInv

\* When no goroutine is left and none failed, every node is done: a minimal
\* blocked node would have only finished imports, all of which notified it.
LEMMA NobodyForgotten ==
  ASSUME DispatchInv, Active = {}, \A n \in Nodes : pc[n] # "failed"
  PROVE  \A n \in Nodes : pc[n] = "done"
<1> DEFINE B == {n \in Nodes : pc[n] = "blocked"}
<1>1. \A n \in Nodes : pc[n] \in {"blocked", "done"}
  BY Zenon DEF DispatchInv, TypeOK, Phases, Active
<1>2. ASSUME B # {} PROVE FALSE
  <2>1. PICK n \in B : Succs[n] \cap B = {}
    BY Zenon, <1>2, DagAssumption
  <2>2. PICK s \in Succs[n] : n \in toNotify[s]
    BY Zenon DEF DispatchInv, GraphInv, BlockedIffAwaiting, Awaited
  <2>3. s \in Nodes /\ pc[s] = "done"
    BY Zenon, <1>1, <2>1, DagAssumption
  <2> QED
    BY Zenon, <2>2, <2>3 DEF DispatchInv, OwedByPhase
<1> QED
  BY Zenon, <1>1, <1>2

\* g.Wait returns: no root lacks its summary.
LEMMA ReturnStep ==
  ASSUME DispatchInv, Return
  PROVE  DispatchInv'
<1> USE DagAssumption
<1>1. TypeOK'
  BY Zenon DEF Return, DispatchInv, TypeOK, counters, owed, fields
<1>2. GraphInv' /\ OwedByPhase' /\ SummaryKept' /\ EvictedUnread'
  BY Zenon, QuietStep DEF Return
<1>3. Outcome'
  <2>1. Done' = Done /\ Active' = {}
    BY Zenon DEF Return, Done, Active
  <2>2. CASE \E n \in Nodes : pc[n] = "failed"
    BY Zenon, <2>1, <2>2 DEF Return, DispatchInv, Outcome
  <2>3. CASE ~\E n \in Nodes : pc[n] = "failed"
    <3>1. \A n \in Nodes : pc[n] = "done"
      BY Zenon, <2>3, NobodyForgotten DEF Return
    <3>2. \A r \in Roots : actions[r]
      BY Zenon, <3>1 DEF DispatchInv, SummaryKept, Finished
    <3> QED
      BY Zenon, <2>1, <2>3, <3>1, <3>2 DEF Return, DispatchInv, Outcome
  <2> QED
    BY Zenon, <2>2, <2>3
<1> QED
  BY Zenon, <1>1, <1>2, <1>3 DEF DispatchInv

\* Every step preserves the invariant.
LEMMA DispatchStep == DispatchInv /\ [Next]_vars => DispatchInv'
<1> SUFFICES ASSUME DispatchInv, [Next]_vars PROVE DispatchInv'
  BY Zenon
<1>1. ASSUME NEW n \in Nodes, NodeStep(n) PROVE DispatchInv'
  BY Zenon, <1>1, PhaseStep, RunOKStep, NotifyStep, LoopStep, DecrefStep, EvictStep,
     ReleaseSelfStep DEF NodeStep
<1>2. CASE Cancel
  BY Zenon, <1>2, CancelStep
<1>3. CASE Return
  BY Zenon, <1>3, ReturnStep
<1>4. CASE UNCHANGED vars
  <2>1. TypeOK'
    BY Zenon, <1>4 DEF vars, graphVars, DispatchInv, TypeOK, counters, owed, fields
  <2>2. GraphInv' /\ OwedByPhase' /\ SummaryKept' /\ EvictedUnread'
    BY Zenon, <1>4, QuietStep DEF vars, graphVars
  <2>3. Outcome'
    BY Zenon, <1>4 DEF vars, graphVars, DispatchInv, Outcome, Done, Active
  <2> QED
    BY Zenon, <2>1, <2>2, <2>3 DEF DispatchInv
<1> QED
  BY Zenon, <1>1, <1>2, <1>3, <1>4 DEF Next

-----------------------------------------------------------------------------

\* The inductive invariant holds of every reachable state.
THEOREM DispatchInvariant == Spec => []DispatchInv
<1> QED
  BY DispatchInit, DispatchStep, PTL DEF Spec

\* Type correctness; in particular no counter of a node goes below zero.
THEOREM DispatchTypes == Spec => []TypeOK
<1>1. DispatchInv => TypeOK
  BY Zenon DEF DispatchInv
<1> QED
  BY <1>1, DispatchInvariant, PTL

\* An analysis in progress never finds the summary or the stable names of an
\* import cleared by decrefPreds or releaseAggressive.
THEOREM DispatchReads == Spec => []ConsumersSeeSummaries
<1>1. DispatchInv => ConsumersSeeSummaries
  <2> SUFFICES ASSUME DispatchInv, NEW n \in Nodes, pc[n] = "running", NEW s \in Succs[n]
               PROVE  actions[s] /\ edges[s]
    BY Zenon DEF ConsumersSeeSummaries
  <2>1. s \in Nodes /\ n \in Preds(s) /\ pc[s] \in Finished
    BY Zenon, ImportsFinished DEF DispatchInv
  <2>2. n \in OwingPreds(s) /\ n \in OwingConsumers(s)
    BY Zenon, <2>1 DEF DispatchInv, OwedByPhase, OwingPreds, OwingConsumers
  <2> QED
    BY Zenon, <2>1, <2>2 DEF DispatchInv, SummaryKept, EvictedUnread
<1> QED
  BY <1>1, DispatchInvariant, PTL

\* Analyze never panics on a root without a summary, and a nil error means that
\* every package of the closure was analysed and captured.
THEOREM DispatchResult == Spec => []DispatchComplete
<1>1. DispatchInv => DispatchComplete
  BY Zenon DEF DispatchInv, Outcome, DispatchComplete, Done, Finished
<1> QED
  BY <1>1, DispatchInvariant, PTL

\* The dispatcher implements SummaryLifetime: each step completes one package
\* whose imports are done and kept, drops one summary nobody needs, or stutters.
THEOREM DispatchImplements == Spec => ImplementsLifetime
<1>1. Init => Lifetime!Init
  BY Zenon DEF Init, InitNodes, Lifetime!Init, Done, Dropped, Finished
<1>2. DispatchInv /\ DispatchInv' /\ [Next]_vars => [Lifetime!Next]_(Lifetime!lifetimeVars)
  <2> SUFFICES ASSUME DispatchInv, DispatchInv', [Next]_vars
               PROVE  [Lifetime!Next]_(Lifetime!lifetimeVars)
    BY Zenon
  <2> USE DagAssumption
  <2>a. TypeOK /\ GraphInv /\ OwedByPhase /\ SummaryKept
    BY Zenon DEF DispatchInv
  <2>1. ASSUME NEW n \in Nodes, RunOK(n) PROVE Lifetime!Complete(n)
    <3>1. Done' = Done \cup {n} /\ n \notin Done /\ Dropped' = Dropped
      BY <2>a, <2>1, SMTT(30) DEF RunOK, Done, Dropped, Finished, TypeOK
    <3>2. \A s \in Succs[n] : s \in Done /\ s \notin Dropped
      <4> SUFFICES ASSUME NEW s \in Succs[n] PROVE s \in Done /\ s \notin Dropped
        BY Zenon
      <4>1. s \in Nodes /\ n \in Preds(s) /\ pc[s] \in Finished
        BY Zenon, <2>a, <2>1, ImportsFinished DEF RunOK
      <4>2. n \in OwingPreds(s)
        BY Zenon, <2>a, <2>1, <4>1 DEF RunOK, OwedByPhase, OwingPreds
      <4> QED
        BY Zenon, <2>a, <4>1, <4>2 DEF SummaryKept, Done, Dropped
    <3> QED
      BY Zenon, <3>1, <3>2 DEF Lifetime!Complete
  <2>2. ASSUME Done' = Done, NEW s \in Done, actions' = [actions EXCEPT ![s] = FALSE]
        PROVE  Lifetime!Drop(s) \/ UNCHANGED <<Done, Dropped>>
    <3>1. s \in Nodes
      BY Zenon DEF Done
    <3>2. CASE s \in Dropped
      BY <2>a, <2>2, <3>1, <3>2, SMTT(30) DEF Dropped, TypeOK
    <3>3. CASE s \notin Dropped
      <4>1. Dropped' = Dropped \cup {s}
        BY <2>a, <2>2, <3>1 DEF Dropped, TypeOK
      <4>2. s \notin Roots /\ OwingPreds(s)' = {}
        <5>1. ~actions'[s]
          BY Zenon, <2>a, <2>2, <3>1 DEF TypeOK
        <5>2. pc'[s] \in Finished
          BY Zenon, <2>2 DEF Done
        <5> QED
          BY Zenon, <3>1, <5>1, <5>2 DEF DispatchInv, SummaryKept
      <4>3. \A p \in Preds(s) : p \in Done
        BY Zenon, <2>2, <4>2 DEF DispatchInv, OwedByPhase, OwingPreds, Preds, Done, Finished
      <4> QED
        BY Zenon, <2>2, <3>3, <4>1, <4>2, <4>3 DEF Lifetime!Drop, Lifetime!Importers, Preds
    <3> QED
      BY Zenon, <3>2, <3>3
  <2>3. ASSUME Done' = Done, actions' = actions PROVE UNCHANGED <<Done, Dropped>>
    BY Zenon, <2>3 DEF Dropped
  <2>4. ASSUME NEW n \in Nodes, NodeStep(n), ~RunOK(n)
        PROVE  UNCHANGED <<Done, Dropped>> \/ \E s \in Nodes : Lifetime!Drop(s)
    <3>1. CASE GateAdmit(n) \/ GateRefuse(n) \/ RunFail(n) \/ EnterDecrefs(n) \/ LeaveDecrefs(n)
      <4>1. Done' = Done /\ actions' = actions
        <5>1. \A m \in Nodes : pc'[m] \in Finished <=> pc[m] \in Finished
          <6>1. CASE GateAdmit(n)
            BY <2>a, <6>1 DEF GateAdmit, Finished, TypeOK
          <6>2. CASE GateRefuse(n)
            BY <2>a, <6>2 DEF GateRefuse, Finished, TypeOK
          <6>3. CASE RunFail(n)
            BY <2>a, <6>3 DEF RunFail, Finished, TypeOK
          <6>4. CASE EnterDecrefs(n)
            BY <2>a, <6>4 DEF EnterDecrefs, Finished, TypeOK
          <6>5. CASE LeaveDecrefs(n)
            BY <2>a, <6>5 DEF LeaveDecrefs, Finished, TypeOK
          <6> QED
            BY Zenon, <3>1, <6>1, <6>2, <6>3, <6>4, <6>5
        <5>2. actions' = actions
          BY Zenon, <3>1 DEF GateAdmit, GateRefuse, RunFail, EnterDecrefs, LeaveDecrefs, fields
        <5> QED
          BY Zenon, <5>1, <5>2 DEF Done
      <4> QED
        BY Zenon, <2>3, <4>1
    <3>2. ASSUME NEW p \in Nodes, Notify(n, p) PROVE UNCHANGED <<Done, Dropped>>
      <4>1. p \in Preds(n) /\ p \in toNotify[n]
        BY Zenon, <2>a, <3>2 DEF Notify, GraphInv, OwedToNeighbours
      <4>2. pc[p] = "blocked"
        BY Zenon, <2>a, <4>1 DEF GraphInv, BlockedIffAwaiting, Awaited, Preds
      <4>3. Done' = Done /\ actions' = actions
        BY <2>a, <3>2, <4>2, SMTT(30) DEF Notify, Done, Finished, TypeOK, fields
      <4> QED
        BY Zenon, <2>3, <4>3
    <3>3. ASSUME NEW s \in Nodes, DecrefPreds(n, s)
          PROVE  UNCHANGED <<Done, Dropped>> \/ Lifetime!Drop(s)
      <4>1. s \in Succs[n] /\ pc[n] # "blocked" /\ Done' = Done
        BY Zenon, <2>a, <3>3 DEF DecrefPreds, GraphInv, OwedToNeighbours, Done
      <4>2. s \in Done
        BY Zenon, <2>a, <4>1, ImportsFinished DEF Done
      <4>3. actions' = actions \/ actions' = [actions EXCEPT ![s] = FALSE]
        BY Zenon, <3>3 DEF DecrefPreds
      <4> QED
        BY Zenon, <2>2, <2>3, <4>1, <4>2, <4>3
    <3>4. ASSUME NEW s \in Nodes, DecrefSummaryConsumers(n, s) PROVE UNCHANGED <<Done, Dropped>>
      BY Zenon, <3>4 DEF DecrefSummaryConsumers, Done, Dropped, fields
    <3>5. ASSUME NEW s \in Nodes, Evict(n, s)
          PROVE  UNCHANGED <<Done, Dropped>> \/ Lifetime!Drop(s)
      <4>1. s \in Succs[n] /\ pc[n] # "blocked" /\ Done' = Done
        BY Zenon, <2>a, <3>5 DEF Evict, GraphInv, OwedToNeighbours, Done
      <4>2. s \in Done
        BY Zenon, <2>a, <4>1, ImportsFinished DEF Done
      <4>3. actions' = actions \/ actions' = [actions EXCEPT ![s] = FALSE]
        BY Zenon, <3>5 DEF Evict, MaybeRelease, fields
      <4> QED
        BY Zenon, <2>2, <2>3, <4>1, <4>2, <4>3
    <3>6. CASE ReleaseSelf(n)
      <4>1. n \in Done /\ Done' = Done
        BY <2>a, <3>6, SMTT(30) DEF ReleaseSelf, Done, Finished, TypeOK
      <4>2. actions' = actions \/ actions' = [actions EXCEPT ![n] = FALSE]
        BY Zenon, <3>6 DEF ReleaseSelf, MaybeRelease, fields
      <4> QED
        BY Zenon, <2>2, <2>3, <4>1, <4>2
    <3> QED
      BY Zenon, <2>4, <3>1, <3>2, <3>3, <3>4, <3>5, <3>6 DEF NodeStep
  <2>5. CASE Cancel \/ Return \/ UNCHANGED vars
    <3>1. pc' = pc /\ actions' = actions
      BY Zenon, <2>5 DEF Cancel, Return, vars, graphVars, fields
    <3> QED
      BY Zenon, <3>1 DEF Done, Dropped, Lifetime!lifetimeVars
  <2> QED
    BY Zenon, <2>1, <2>4, <2>5 DEF Next, Lifetime!Next, Lifetime!lifetimeVars
<1> QED
  BY <1>1, <1>2, DispatchInvariant, PTL DEF Spec, Lifetime!Spec, ImplementsLifetime

=============================================================================
