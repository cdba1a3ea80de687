----------------------- MODULE BarrierDispatchProofs -----------------------
(***************************************************************************)
(* Safety of the default dispatcher of Snapshot.Analyze for every import    *)
(* DAG, every choice of roots and cached packages and every worker cap,     *)
(* with failures, joined computations and cancellation.                     *)
(***************************************************************************)
EXTENDS BarrierDispatch, FiniteSetTheorems, TLAPS

-----------------------------------------------------------------------------
(* The reference counts of the DAG: the steps of AnalysisGraph keep them exact *)

\* The counting facts behind Add(-1) == 0.
LEMMA CountDown ==
  ASSUME NEW S, S \subseteq Nodes
  PROVE  /\ IsFiniteSet(S)
         /\ Cardinality(S) \in Nat
         /\ Cardinality(S) = 0 <=> S = {}
         /\ \A x \in S : /\ Cardinality(S \ {x}) = Cardinality(S) - 1
                         /\ Cardinality(S) > 0
                         /\ Cardinality(S) = 1 <=> S \ {x} = {}
<1>1. IsFiniteSet(S)
  BY Zenon, FS_Subset, DagAssumption
<1>2. Cardinality(S) \in Nat /\ (Cardinality(S) = 0 <=> S = {})
  BY Zenon, <1>1, FS_CardinalityType, FS_EmptySet
<1>3. ASSUME NEW x \in S
      PROVE  /\ Cardinality(S \ {x}) = Cardinality(S) - 1
             /\ Cardinality(S) > 0
             /\ Cardinality(S) = 1 <=> S \ {x} = {}
  <2>1. IsFiniteSet(S \ {x}) /\ Cardinality(S \ {x}) = Cardinality(S) - 1
    BY Zenon, <1>1, FS_RemoveElement
  <2>2. Cardinality(S \ {x}) = 0 <=> S \ {x} = {}
    BY Zenon, <2>1, FS_EmptySet
  <2> QED
    BY <1>2, <2>1, <2>2
<1> QED
  BY Zenon, <1>1, <1>2, <1>3

\* makeNode establishes the counts.
LEMMA GraphInit == InitNodes => GraphInv
<1> SUFFICES ASSUME InitNodes PROVE GraphInv
  BY Zenon
<1> USE DagAssumption
<1>1. ASSUME NEW n \in Nodes
      PROVE  Awaited(n) = Succs[n] /\ OwingPreds(n) = Preds(n) /\ OwingConsumers(n) = Preds(n)
  BY Zenon DEF InitNodes, Awaited, OwingPreds, OwingConsumers, Preds
<1>2. ASSUME NEW n \in Nodes
      PROVE  Cardinality(Succs[n]) \in Nat /\ Cardinality(Preds(n)) \in Nat
  <2>1. Succs[n] \subseteq Nodes /\ Preds(n) \subseteq Nodes
    BY Zenon DEF Preds
  <2> QED
    BY Zenon, <2>1, CountDown
<1>3. GraphTypes
  <2>1. unfinishedSuccs \in [Nodes -> Nat] /\ unfinishedSummaryConsumers \in [Nodes -> Nat]
    BY Zenon, <1>2 DEF InitNodes, CountsPreds
  <2>2. unfinishedPreds \in [Nodes -> Nat]
    <3>1. \A n \in Nodes : Cardinality(Preds(n)) + (IF n \in Roots THEN 1 ELSE 0) \in Nat
      BY <1>2
    <3> QED
      BY Zenon, <3>1 DEF InitNodes, CountsPreds
  <2>3. toNotify \in [Nodes -> SUBSET Nodes]
    BY Zenon DEF InitNodes, Preds
  <2> QED
    BY Zenon, <2>1, <2>2, <2>3 DEF InitNodes, GraphTypes
<1>4. CountersExact
  BY Zenon, <1>1 DEF InitNodes, CountersExact, CountsPreds
<1>5. OwedToNeighbours
  BY Zenon DEF InitNodes, OwedToNeighbours, Preds
<1>6. BlockedIffAwaiting
  BY Zenon, <1>1 DEF InitNodes, BlockedIffAwaiting
<1> QED
  BY Zenon, <1>3, <1>4, <1>5, <1>6 DEF GraphInv

\* A step that moves goroutines past the queue and decrements nothing.
LEMMA GraphKept ==
  ASSUME GraphInv, UNCHANGED <<counters, owed>>,
         evicting' \in [Nodes -> SUBSET Nodes],
         \A n \in Nodes : evicting'[n] \subseteq evicting[n],
         pc' = [n \in Nodes |-> pc'[n]],
         \A n \in Nodes : pc'[n] = "blocked" <=> pc[n] = "blocked"
  PROVE  /\ GraphInv'
         /\ \A m \in Nodes : /\ Awaited(m)' = Awaited(m)
                             /\ OwingPreds(m)' = OwingPreds(m)
                             /\ OwingConsumers(m)' = OwingConsumers(m)
<1>1. \A m \in Nodes : /\ Awaited(m)' = Awaited(m)
                       /\ OwingPreds(m)' = OwingPreds(m)
                       /\ OwingConsumers(m)' = OwingConsumers(m)
  BY Zenon DEF Awaited, OwingPreds, OwingConsumers, owed
<1>2. GraphTypes' /\ OwedToNeighbours'
  BY Zenon DEF GraphInv, GraphTypes, OwedToNeighbours, counters, owed
<1>3. CountersExact'
  BY Zenon, <1>1 DEF GraphInv, CountersExact, counters
<1>4. BlockedIffAwaiting'
  BY Zenon, <1>1 DEF GraphInv, BlockedIffAwaiting
<1> QED
  BY Zenon, <1>1, <1>2, <1>3, <1>4 DEF GraphInv

\* unfinishedSuccs.Add(-1) == 0 happens for exactly the last import, and the
\* node it enqueues was waiting.
LEMMA NotifyCounts ==
  ASSUME GraphInv, NEW n \in Nodes, NEW p \in Nodes, Notify(n, p)
  PROVE  /\ GraphInv'
         /\ p \in Preds(n) /\ p # n
         /\ pc[p] = "blocked" /\ pc'[p] \in {"blocked", "queued"}
         /\ \A m \in Nodes \ {p} : pc'[m] = pc[m]
         /\ \A m \in Nodes : OwingPreds(m)' = OwingPreds(m) /\ OwingConsumers(m)' = OwingConsumers(m)
<1> USE DagAssumption
<1>a. GraphTypes /\ CountersExact /\ OwedToNeighbours /\ BlockedIffAwaiting
  BY Zenon DEF GraphInv
<1>b. n \in Awaited(p) /\ Awaited(p) \subseteq Nodes /\ p # n /\ p \in Preds(n)
  <2>1. p \in Preds(n)
    BY Zenon, <1>a DEF Notify, OwedToNeighbours
  <2>2. p # n
    <3>1. \E m \in {n} : Succs[m] \cap {n} = {}
      BY Zenon, DagAssumption
    <3> QED
      BY Zenon, <2>1, <3>1 DEF Preds
  <2> QED
    BY Zenon, <2>1, <2>2 DEF Notify, Preds, Awaited
<1>c. /\ Awaited(p)' = Awaited(p) \ {n}
      /\ \A m \in Nodes \ {p} : Awaited(m)' = Awaited(m)
      /\ \A m \in Nodes : OwingPreds(m)' = OwingPreds(m) /\ OwingConsumers(m)' = OwingConsumers(m)
  BY <1>a, <1>b DEF Notify, Awaited, OwingPreds, OwingConsumers, GraphTypes
<1>d. /\ Cardinality(Awaited(p) \ {n}) = Cardinality(Awaited(p)) - 1
      /\ Cardinality(Awaited(p)) \in Nat \ {0}
      /\ Cardinality(Awaited(p)) = 1 <=> Awaited(p) \ {n} = {}
  BY <1>b, CountDown
<1>e. unfinishedSuccs[p] = Cardinality(Awaited(p)) /\ pc[p] = "blocked"
  BY Zenon, <1>a, <1>b DEF CountersExact, BlockedIffAwaiting
<1>f. /\ \A m \in Nodes \ {p} : pc'[m] = pc[m]
      /\ pc'[p] = IF Awaited(p)' = {} THEN "queued" ELSE "blocked"
      /\ pc' = [m \in Nodes |-> pc'[m]]
  <2>1. LastSucc(p) <=> Awaited(p)' = {}
    BY Zenon, <1>c, <1>d, <1>e DEF LastSucc
  <2>2. pc' = [m \in Nodes |-> IF m = p /\ LastSucc(p) THEN "queued" ELSE pc[m]]
    BY Zenon, <1>a DEF Notify, GraphTypes
  <2> QED
    BY Zenon, <1>e, <2>1, <2>2
<1>1. GraphTypes'
  <2>1. unfinishedSuccs[p] - 1 \in Nat
    BY <1>d, <1>e
  <2>2. unfinishedSuccs' \in [Nodes -> Nat]
    BY Zenon, <1>a, <2>1 DEF Notify, GraphTypes
  <2>3. toNotify' \in [Nodes -> SUBSET Nodes]
    BY Zenon, <1>a DEF Notify, GraphTypes
  <2> QED
    BY Zenon, <1>a, <1>f, <2>2, <2>3 DEF Notify, GraphTypes
<1>2. CountersExact'
  <2>1. ASSUME NEW m \in Nodes PROVE unfinishedSuccs'[m] = Cardinality(Awaited(m)')
    <3>1. CASE m = p
      <4>1. unfinishedSuccs'[p] = unfinishedSuccs[p] - 1
        BY Zenon, <1>a DEF Notify, GraphTypes
      <4> QED
        BY Zenon, <1>c, <1>d, <1>e, <3>1, <4>1
    <3>2. CASE m # p
      <4>1. unfinishedSuccs'[m] = unfinishedSuccs[m]
        BY <1>a, <3>2 DEF Notify, GraphTypes
      <4> QED
        BY Zenon, <1>a, <1>c, <3>2, <4>1 DEF CountersExact
    <3> QED
      BY Zenon, <3>1, <3>2
  <2> QED
    BY <1>a, <1>c, <2>1 DEF Notify, CountersExact
<1>3. OwedToNeighbours'
  BY <1>a DEF Notify, OwedToNeighbours, GraphTypes
<1>4. BlockedIffAwaiting'
  BY Zenon, <1>a, <1>c, <1>f DEF BlockedIffAwaiting
<1> QED
  BY Zenon, <1>1, <1>2, <1>3, <1>4, <1>b, <1>c, <1>e, <1>f DEF GraphInv

\* decrefPreds clears a summary only for the last importer of a non-root.
LEMMA DecrefPredsCounts ==
  ASSUME GraphInv, NEW n \in Nodes, NEW s \in Nodes, DecrefPreds(n, s)
  PROVE  /\ GraphInv'
         /\ s \in Succs[n]
         /\ \A m \in Nodes : OwingPreds(m)' \subseteq OwingPreds(m) /\ OwingConsumers(m)' = OwingConsumers(m)
         /\ LastPred(s) => s \notin Roots /\ OwingPreds(s)' = {}
<1> USE DagAssumption
<1>a. GraphTypes /\ CountersExact /\ OwedToNeighbours /\ BlockedIffAwaiting
  BY Zenon DEF GraphInv
<1>b. n \in OwingPreds(s) /\ OwingPreds(s) \subseteq Nodes /\ s \in Succs[n]
  BY Zenon, <1>a DEF DecrefPreds, OwedToNeighbours, OwingPreds, Preds
<1>c. /\ OwingPreds(s)' = OwingPreds(s) \ {n}
      /\ \A m \in Nodes \ {s} : OwingPreds(m)' = OwingPreds(m)
      /\ \A m \in Nodes : Awaited(m)' = Awaited(m) /\ OwingConsumers(m)' = OwingConsumers(m)
  BY <1>a, <1>b, SMTT(30) DEF DecrefPreds, Awaited, OwingPreds, OwingConsumers, GraphTypes
<1>d. /\ Cardinality(OwingPreds(s) \ {n}) = Cardinality(OwingPreds(s)) - 1
      /\ Cardinality(OwingPreds(s)) \in Nat \ {0}
      /\ Cardinality(OwingPreds(s)) = 1 <=> OwingPreds(s) \ {n} = {}
  BY <1>b, CountDown
<1>e. unfinishedPreds[s] = Cardinality(OwingPreds(s)) + IF s \in Roots THEN 1 ELSE 0
  BY Zenon, <1>a DEF CountersExact
<1>1. GraphTypes'
  <2>1. unfinishedPreds[s] - 1 \in Nat
    BY <1>d, <1>e
  <2>2. unfinishedPreds' \in [Nodes -> Nat] /\ owesPreds' \in [Nodes -> SUBSET Nodes]
    BY Zenon, <1>a, <2>1 DEF DecrefPreds, GraphTypes
  <2> QED
    BY Zenon, <1>a, <2>2 DEF DecrefPreds, GraphTypes
<1>2. CountersExact'
  <2>1. ASSUME NEW m \in Nodes
        PROVE  unfinishedPreds'[m] = Cardinality(OwingPreds(m)') + IF m \in Roots THEN 1 ELSE 0
    <3>1. CASE m = s
      <4>1. unfinishedPreds'[s] = unfinishedPreds[s] - 1
        BY <1>a DEF DecrefPreds, GraphTypes
      <4>2. Cardinality(OwingPreds(s)') = Cardinality(OwingPreds(s)) - 1
        BY Zenon, <1>c, <1>d
      <4>3. CASE s \in Roots
        BY <1>d, <1>e, <3>1, <4>1, <4>2, <4>3
      <4>4. CASE s \notin Roots
        BY <1>d, <1>e, <3>1, <4>1, <4>2, <4>4
      <4> QED
        BY Zenon, <4>3, <4>4
    <3>2. CASE m # s
      <4>1. unfinishedPreds'[m] = unfinishedPreds[m]
        BY <1>a, <3>2 DEF DecrefPreds, GraphTypes
      <4> QED
        BY Zenon, <1>a, <1>c, <3>2, <4>1 DEF CountersExact
    <3> QED
      BY Zenon, <3>1, <3>2
  <2> QED
    BY Zenon, <1>a, <1>c, <2>1 DEF DecrefPreds, CountersExact
<1>3. OwedToNeighbours'
  BY <1>a DEF DecrefPreds, OwedToNeighbours, GraphTypes
<1>4. BlockedIffAwaiting'
  BY Zenon, <1>a, <1>c DEF DecrefPreds, BlockedIffAwaiting
<1>5. LastPred(s) => s \notin Roots /\ OwingPreds(s)' = {}
  BY <1>c, <1>d, <1>e DEF LastPred
<1> QED
  BY Zenon, <1>1, <1>2, <1>3, <1>4, <1>5, <1>b, <1>c DEF GraphInv

\* The consumer count follows the preds count.
LEMMA DecrefConsumersCounts ==
  ASSUME GraphInv, NEW n \in Nodes, NEW s \in Nodes, DecrefSummaryConsumers(n, s)
  PROVE  /\ GraphInv'
         /\ s \in Succs[n]
         /\ \A m \in Nodes : OwingPreds(m)' = OwingPreds(m) /\ OwingConsumers(m)' \subseteq OwingConsumers(m)
<1> USE DagAssumption
<1>a. GraphTypes /\ CountersExact /\ OwedToNeighbours /\ BlockedIffAwaiting
  BY Zenon DEF GraphInv
<1>b. n \in OwingConsumers(s) /\ OwingConsumers(s) \subseteq Nodes /\ s \in Succs[n]
  BY Zenon, <1>a DEF DecrefSummaryConsumers, OwedToNeighbours, OwingConsumers, Preds
<1>c. /\ OwingConsumers(s)' = OwingConsumers(s) \ {n}
      /\ \A m \in Nodes \ {s} : OwingConsumers(m)' = OwingConsumers(m)
      /\ \A m \in Nodes : Awaited(m)' = Awaited(m) /\ OwingPreds(m)' = OwingPreds(m)
  BY <1>a, <1>b, SMTT(30) DEF DecrefSummaryConsumers, Awaited, OwingPreds, OwingConsumers, GraphTypes
<1>d. /\ Cardinality(OwingConsumers(s) \ {n}) = Cardinality(OwingConsumers(s)) - 1
      /\ Cardinality(OwingConsumers(s)) \in Nat \ {0}
  BY <1>b, CountDown
<1>e. unfinishedSummaryConsumers[s] = Cardinality(OwingConsumers(s))
  BY Zenon, <1>a DEF CountersExact
<1>1. GraphTypes'
  <2>1. unfinishedSummaryConsumers[s] - 1 \in Nat
    BY <1>d, <1>e
  <2>2. unfinishedSummaryConsumers' \in [Nodes -> Nat]
    BY Zenon, <1>a, <2>1 DEF DecrefSummaryConsumers, GraphTypes
  <2>3. evicting' \in [Nodes -> SUBSET Nodes] /\ owesConsumers' \in [Nodes -> SUBSET Nodes]
    BY <1>a DEF DecrefSummaryConsumers, GraphTypes
  <2> QED
    BY <1>a, <2>2, <2>3 DEF DecrefSummaryConsumers, GraphTypes
<1>2. CountersExact'
  <2>1. ASSUME NEW m \in Nodes
        PROVE  unfinishedSummaryConsumers'[m] = Cardinality(OwingConsumers(m)')
    <3>1. CASE m = s
      <4>1. unfinishedSummaryConsumers'[s] = unfinishedSummaryConsumers[s] - 1
        BY <1>a DEF DecrefSummaryConsumers, GraphTypes
      <4> QED
        BY Zenon, <1>c, <1>d, <1>e, <3>1, <4>1
    <3>2. CASE m # s
      <4>1. unfinishedSummaryConsumers'[m] = unfinishedSummaryConsumers[m]
        BY <1>a, <3>2, SMTT(30) DEF DecrefSummaryConsumers, GraphTypes
      <4> QED
        BY Zenon, <1>a, <1>c, <3>2, <4>1 DEF CountersExact
    <3> QED
      BY Zenon, <3>1, <3>2
  <2> QED
    BY <1>a, <1>c, <2>1, SMTT(30) DEF DecrefSummaryConsumers, CountersExact
<1>3. OwedToNeighbours'
  BY <1>a, <1>b, SMTT(30) DEF DecrefSummaryConsumers, OwedToNeighbours, GraphTypes
<1>4. BlockedIffAwaiting'
  BY Zenon, <1>a, <1>c DEF DecrefSummaryConsumers, BlockedIffAwaiting
<1> QED
  BY Zenon, <1>1, <1>2, <1>3, <1>4, <1>b, <1>c DEF GraphInv

\* maybeReleaseAggressive evicts only a dependency all importers have let go of.
LEMMA ReleaseFacts ==
  ASSUME GraphInv, NEW s \in Nodes, MaybeRelease(s)
  PROVE  \/ UNCHANGED fields
         \/ /\ s \notin Roots /\ OwingConsumers(s) = {} /\ OwingPreds(s) = {}
            /\ releasedAggressive' = [releasedAggressive EXCEPT ![s] = TRUE]
            /\ actions' = [actions EXCEPT ![s] = FALSE]
            /\ edges' = [edges EXCEPT ![s] = FALSE]
<1> USE DagAssumption
<1>1. CASE ~Releasable(s)
  BY Zenon, <1>1 DEF MaybeRelease
<1>2. CASE Releasable(s)
  <2>1. Cardinality(OwingConsumers(s)) = 0 /\ OwingConsumers(s) \subseteq Nodes
    BY Zenon, <1>2 DEF Releasable, GraphInv, CountersExact, OwingConsumers, Preds
  <2>2. OwingConsumers(s) = {}
    BY Zenon, <2>1, CountDown
  <2>3. OwingPreds(s) = {}
    BY Zenon, <2>2 DEF OwingPreds, OwingConsumers, Preds, GraphInv, OwedToNeighbours
  <2> QED
    BY Zenon, <1>2, <2>2, <2>3 DEF MaybeRelease, Releasable
<1> QED
  BY Zenon, <1>1, <1>2

-----------------------------------------------------------------------------
(* The dispatcher *)

\* The packages the barrier has not heard of.
Unsent == {n \in Nodes : pc[n] \in Unsignalled \/ (pc[n] = "failed" /\ path[n] = "none")}

\* The barrier's count is the number of missing signals, and it is open when
\* there is none.
SignalsExact ==
    /\ pending = Cardinality(Unsent)
    /\ barrierOpen <=> Unsent = {}
    /\ \A n \in Nodes : pc[n] \in {"vdeps", "reacquire", "analyzing"} => barrierOpen

\* How a package gets its summary, by where its goroutine is.
PathAt(n) ==
    /\ pc[n] \in {"blocked", "queued", "shortcut", "joining"} => path[n] = "none"
    /\ pc[n] = "joining" => n \notin hits
    /\ pc[n] \in {"signal", "notify"} => path[n] # "none"
    /\ pc[n] \in Waiting \cup {"analyzing"} => path[n] = "leader"
    /\ pc[n] \in {"tail", "decref", "self", "done"} => path[n] \in {"hit", "leader", "joined"}
    /\ pc[n] = "failed" => path[n] \notin {"hit", "joined"}
    /\ path[n] = "hit" => n \in hits
    /\ path[n] \in {"leader", "joined", "error"} => n \notin hits

PathByPhase == \A n \in Nodes : PathAt(n)

Published(n) == path[n] = "hit" \/ pc[n] \in {"tail", "decref", "self", "done"}

\* What a goroutine still owes its neighbours, by where it is.
OwedByPhase ==
    \A n \in Nodes :
        /\ n \in Unsent => toNotify[n] = Preds(n)
        /\ pc[n] \in Waiting \cup {"analyzing", "tail", "decref", "self", "done"} => toNotify[n] = {}
        /\ pc[n] \notin {"decref", "self", "done"} =>
             owesPreds[n] = Succs[n] /\ owesConsumers[n] = Succs[n] /\ evicting[n] = {}

\* Only a dependency with no importer left to read it loses its summary, once it
\* has one.
SummaryKept ==
    \A n \in Nodes : Published(n) /\ ~actions[n] => n \notin Roots /\ OwingPreds(n) = {}

EvictedUnread == \A n \in Nodes : ~edges[n] => releasedAggressive[n]

\* How goroutines and the batch end.
Ends ==
    /\ \A n \in Nodes : /\ analyzeDone[n] => pc[n] \in {"done", "failed"}
                        /\ pc[n] = "done" => analyzeDone[n]
                        /\ pc[n] = "failed" => cancelled \/ path[n] = "error"
    /\ analyze # "dispatch" => Active = {}
    /\ analyze # "panic"
    /\ analyze = "ok" => \A n \in Nodes : pc[n] = "done"

\* What a package relies on in an undisturbed batch: its imports have been
\* type-checked when it is, and published before it is analysed; nobody is
\* evicted before it has published, so it waits for its imports and is captured.
ReliedAt(n) ==
    /\ path[n] \in {"hit", "leader"} => compiles[n]
    /\ path[n] = "leader" /\ pc[n] \in {"signal", "notify"} \cup Waiting \cup {"analyzing"} => intact[n]
    /\ pc[n] = "vdeps" => waits[n] = Succs[n]
    /\ pc[n] = "reacquire" /\ ~cancelled => \A s \in Succs[n] : Published(s)
    /\ pc[n] \in {"analyzing", "tail", "decref", "self", "done"} => \A s \in Succs[n] : Published(s)
    /\ releasedAggressive[n] => Published(n)
    /\ Published(n) => n \in captured
    /\ actions[n] => sound[n]

Relied == \A n \in Nodes : ReliedAt(n)

BarrierInv ==
    /\ TypeOK
    /\ GraphInv
    /\ SignalsExact
    /\ PathByPhase
    /\ OwedByPhase
    /\ SummaryKept
    /\ EvictedUnread
    /\ Ends
    /\ Undisturbed => Relied

\* A step keeps what the other packages rely on.
LEMMA ReliedElsewhere ==
  ASSUME NEW m \in Nodes, ReliedAt(m),
         pc'[m] = pc[m], path'[m] = path[m], waits'[m] = waits[m], cancelled => cancelled',
         compiles[m] => compiles'[m], intact[m] => intact'[m],
         \A s \in Nodes : Published(s) => Published(s)',
         releasedAggressive'[m] => releasedAggressive[m] \/ Published(m),
         captured \subseteq captured', actions'[m] => actions[m], sound[m] => sound'[m]
  PROVE  ReliedAt(m)'
<1>1. Published(m)' <=> Published(m)
  BY Zenon DEF Published
<1> QED
  BY Zenon, <1>1, DagAssumption DEF ReliedAt

\* makeNode and the new barrier establish the invariant.
LEMMA BarrierInit == Init => BarrierInv
<1> SUFFICES ASSUME Init PROVE BarrierInv
  BY Zenon
<1> USE DagAssumption
<1>1. GraphInv
  BY Zenon, GraphInit DEF Init
<1>2. Unsent = Nodes
  BY Zenon DEF Init, InitNodes, Unsent, Unsignalled
<1>3. Cardinality(Nodes) \in Nat
  BY Zenon, CountDown
<1>4. TypeOK
  BY Zenon, <1>1, <1>3, BarrierAssumption DEF Init, InitNodes, TypeOK, GraphInv, GraphTypes, Phases, Unsignalled
<1>5. SignalsExact
  BY Zenon, <1>2 DEF Init, InitNodes, SignalsExact
<1>6. PathByPhase /\ OwedByPhase
  BY Zenon, <1>2 DEF Init, InitNodes, PathByPhase, PathAt, OwedByPhase, Waiting
<1>7. SummaryKept /\ EvictedUnread
  BY Zenon DEF Init, InitNodes, SummaryKept, EvictedUnread, Published
<1>8. Ends
  BY Zenon DEF Init, InitNodes, Ends
<1>9. Relied
  BY Zenon DEF Init, InitNodes, Relied, ReliedAt, Published
<1> QED
  BY Zenon, <1>1, <1>4, <1>5, <1>6, <1>7, <1>8, <1>9 DEF BarrierInv

\* The goroutine of an enqueued node finds that all its imports have signalled.
LEMMA ImportsSignalled ==
  ASSUME BarrierInv, NEW n \in Nodes, pc[n] # "blocked", NEW s \in Succs[n]
  PROVE  s \in Nodes /\ n \in Preds(s) /\ s \notin Unsent /\ path[s] # "none"
<1>1. s \in Nodes /\ n \in Preds(s)
  BY Zenon, DagAssumption DEF Preds
<1>2. n \notin toNotify[s]
  BY Zenon DEF BarrierInv, GraphInv, BlockedIffAwaiting, Awaited
<1>3. s \notin Unsent
  BY Zenon, <1>1, <1>2 DEF BarrierInv, OwedByPhase
<1>4. path[s] # "none"
  BY Zenon, <1>1, <1>3 DEF BarrierInv, TypeOK, Phases, PathByPhase, PathAt, Unsent
<1> QED
  BY Zenon, <1>1, <1>3, <1>4

\* A step that moves one goroutine on and decrements nothing.
LEMMA Moves ==
  ASSUME BarrierInv, NEW n \in Nodes, pc[n] \notin {"blocked", "done", "failed"},
         NEW q \in Phases \ {"blocked"}, pc' = [pc EXCEPT ![n] = q],
         UNCHANGED <<counters, owed, evicting>>
  PROVE  /\ GraphInv'
         /\ \A m \in Nodes : OwingPreds(m)' = OwingPreds(m) /\ OwingConsumers(m)' = OwingConsumers(m)
         /\ \A m \in Nodes : pc'[m] = IF m = n THEN q ELSE pc[m]
         /\ pc' \in [Nodes -> Phases]
         /\ analyze = "dispatch"
<1>1. /\ \A m \in Nodes : pc'[m] = IF m = n THEN q ELSE pc[m]
      /\ pc' \in [Nodes -> Phases]
  BY Zenon DEF BarrierInv, TypeOK
<1>2. pc' = [m \in Nodes |-> pc'[m]]
  BY Zenon, <1>1
<1>3. analyze = "dispatch"
  BY Zenon DEF BarrierInv, Ends, Active
<1> QED
  BY Zenon, <1>1, <1>2, <1>3, GraphKept DEF BarrierInv, GraphInv, GraphTypes

\* Steps that only move a goroutine: through the gate, to another batch's leader,
\* to the barrier, past the waits, into and out of the loop over an.succs.
LEMMA QuietMoves ==
  ASSUME BarrierInv, NEW n \in Nodes,
         \/ GateAdmit(n) \/ GateRefuse(n) \/ Join(n) \/ LeaderYields(n) \/ PassVdeps(n)
         \/ EnterDecrefs(n) \/ LeaveDecrefs(n)
  PROVE  BarrierInv'
<1>a. TypeOK /\ GraphInv /\ SignalsExact /\ PathByPhase /\ OwedByPhase /\ SummaryKept
      /\ EvictedUnread /\ Ends /\ (Undisturbed => Relied)
  BY Zenon DEF BarrierInv
<1>b. UNCHANGED <<nodeState, barrier, flow>>
  BY Zenon DEF GateAdmit, GateRefuse, Join, LeaderYields, PassVdeps, EnterDecrefs, LeaveDecrefs
<1>c. PICK q : /\ pc' = [pc EXCEPT ![n] = q]
               /\ \/ pc[n] = "queued" /\ q = "shortcut"
                  \/ pc[n] = "queued" /\ q = "failed" /\ cancelled
                  \/ pc[n] = "shortcut" /\ q = "joining" /\ n \notin hits
                  \/ pc[n] = "notify" /\ q = "barrier" /\ path[n] = "leader" /\ toNotify[n] = {}
                  \/ pc[n] = "vdeps" /\ q = "reacquire" /\ \A s \in waits[n] : analyzeDone[s]
                  \/ pc[n] = "tail" /\ q \in {"decref", "self"}
                  \/ pc[n] = "notify" /\ q \in {"decref", "self"} /\ path[n] = "hit" /\ toNotify[n] = {}
                  \/ pc[n] = "decref" /\ q = "self"
  BY Zenon DEF GateAdmit, GateRefuse, Join, LeaderYields, PassVdeps, EnterDecrefs, LeaveDecrefs, Goto, Signalled
<1>d. q \in Phases \ {"blocked"} /\ pc[n] \notin {"blocked", "done", "failed"}
  BY Zenon, <1>c DEF Phases, Unsignalled, Waiting
<1>e. /\ GraphInv'
      /\ \A m \in Nodes : OwingPreds(m)' = OwingPreds(m) /\ OwingConsumers(m)' = OwingConsumers(m)
      /\ \A m \in Nodes : pc'[m] = IF m = n THEN q ELSE pc[m]
      /\ pc' \in [Nodes -> Phases]
      /\ analyze = "dispatch"
  BY Zenon, <1>b, <1>c, <1>d, Moves DEF nodeState
<1>f. Unsent' = Unsent
  BY Zenon, <1>a, <1>b, <1>c, <1>e DEF Unsent, Unsignalled, flow, PathByPhase, PathAt
<1>g. \A m \in Nodes : Published(m) <=> Published(m)'
  BY Zenon, <1>a, <1>b, <1>c, <1>e DEF Published, flow, PathByPhase, PathAt
<1>1. TypeOK'
  BY Zenon, <1>a, <1>b, <1>e DEF TypeOK, nodeState, counters, owed, fields, barrier, flow
<1>2. SignalsExact'
  BY Zenon, <1>a, <1>b, <1>c, <1>e, <1>f DEF SignalsExact, barrier
<1>3. PathByPhase'
  BY Zenon, <1>a, <1>b, <1>c, <1>e DEF PathByPhase, PathAt, flow, Waiting
<1>4. OwedByPhase'
  BY Zenon, <1>a, <1>b, <1>c, <1>e, <1>f DEF OwedByPhase, nodeState, owed, Waiting
<1>5. SummaryKept' /\ EvictedUnread'
  BY Zenon, <1>a, <1>b, <1>e, <1>g DEF SummaryKept, EvictedUnread, nodeState, fields
<1>6. Ends'
  BY Zenon, <1>a, <1>b, <1>c, <1>e DEF Ends, nodeState, flow
<1>7. Undisturbed' => Relied'
  <2> SUFFICES ASSUME Undisturbed' PROVE Relied'
    BY Zenon
  <2>1. Undisturbed /\ Relied
    BY Zenon, <1>a, <1>b DEF Undisturbed, flow
  <2>2. q = "reacquire" /\ ~cancelled => \A s \in Succs[n] : Published(s)
    <3> SUFFICES ASSUME q = "reacquire", ~cancelled, NEW s \in Succs[n] PROVE Published(s)
      BY Zenon
    <3>1. s \in Nodes /\ analyzeDone[s]
      BY Zenon, <1>c, <2>1, DagAssumption DEF Relied, ReliedAt
    <3> QED
      BY Zenon, <1>a, <2>1, <3>1 DEF Ends, Undisturbed, Published
  <2>3. q \in {"decref", "self"} => \A s \in Succs[n] : Published(s)
    <3> SUFFICES ASSUME q \in {"decref", "self"}, NEW s \in Succs[n] PROVE Published(s)
      BY Zenon
    <3>1. CASE path[n] = "hit"
      <4>1. s \in Nodes /\ path[s] # "none"
        BY Zenon, <1>d, ImportsSignalled
      <4>2. s \in hits
        BY Zenon, <1>a, <2>1, <3>1 DEF PathByPhase, PathAt, Undisturbed
      <4> QED
        BY Zenon, <1>a, <4>1, <4>2 DEF PathByPhase, PathAt, TypeOK, Published
    <3>2. CASE path[n] # "hit"
      BY Zenon, <1>c, <2>1, <3>2 DEF Relied, ReliedAt
    <3> QED
      BY Zenon, <3>1, <3>2
  <2>4. q \notin {"vdeps", "analyzing", "tail", "done", "signal", "notify"}
    BY Zenon, <1>c
  <2>5. path[n] = "leader" /\ q \in Waiting => intact[n]
    BY Zenon, <1>c, <2>1 DEF Relied, ReliedAt, Waiting
  <2>8. ASSUME NEW m \in Nodes \ {n} PROVE ReliedAt(m)'
    BY Zenon, <1>b, <1>e, <1>g, <2>1, <2>2, <2>3, <2>4, <2>5, ReliedElsewhere DEF Relied, flow, nodeState, fields
  <2>9. ReliedAt(n)'
    BY Zenon, <1>b, <1>e, <1>g, <2>1, <2>2, <2>3, <2>4, <2>5, DagAssumption
    DEF Relied, ReliedAt, flow, nodeState, fields
  <2> QED
    BY Zenon, <2>8, <2>9 DEF Relied
<1> QED
  BY Zenon, <1>e, <1>1, <1>2, <1>3, <1>4, <1>5, <1>6, <1>7 DEF BarrierInv

\* A package learns how it gets its summary. A leader reads the error status of
\* imports that have all been type-checked, unless the batch is disturbed.
LEMMA PathChosen ==
  ASSUME BarrierInv, NEW n \in Nodes, \/ TypeCheck(n) \/ ShortcutOrTypeCheckFails(n)
                                     \/ JoinCancelled(n) \/ OtherLeaderReturns(n)
  PROVE  BarrierInv'
<1>a. TypeOK /\ GraphInv /\ SignalsExact /\ PathByPhase /\ OwedByPhase /\ SummaryKept
      /\ EvictedUnread /\ Ends /\ (Undisturbed => Relied)
  BY Zenon DEF BarrierInv
<1>0. Lead(n) \/ \E x \in {"error", "joined"} : Resolve(n, x)
  BY Zenon DEF TypeCheck, ShortcutOrTypeCheckFails, JoinCancelled, OtherLeaderReturns
<1>b. /\ pc[n] \in {"shortcut", "joining"} /\ n \notin hits /\ path[n] = "none"
      /\ pc' = [pc EXCEPT ![n] = "signal"]
      /\ UNCHANGED <<nodeState, barrier, hits, analyzeDone, waits, sound>>
  <2>1. pc[n] \in {"shortcut", "joining"} /\ (pc[n] = "shortcut" => n \notin hits)
    BY Zenon DEF TypeCheck, ShortcutOrTypeCheckFails, JoinCancelled, OtherLeaderReturns
  <2>2. n \notin hits /\ path[n] = "none"
    BY Zenon, <1>a, <2>1 DEF PathByPhase, PathAt
  <2> QED
    BY Zenon, <1>0, <2>1, <2>2 DEF Lead, Resolve, Goto
<1>c. PICK x \in {"leader", "error", "joined"} : path' = [path EXCEPT ![n] = x]
  BY Zenon, <1>0 DEF Lead, Resolve
<1>d. \A m \in Nodes : path'[m] = IF m = n THEN x ELSE path[m]
  BY Zenon, <1>a, <1>c DEF TypeOK
<1>e. /\ GraphInv'
      /\ \A m \in Nodes : OwingPreds(m)' = OwingPreds(m) /\ OwingConsumers(m)' = OwingConsumers(m)
      /\ \A m \in Nodes : pc'[m] = IF m = n THEN "signal" ELSE pc[m]
      /\ pc' \in [Nodes -> Phases]
      /\ analyze = "dispatch"
  BY Zenon, <1>b, Moves DEF nodeState, Phases, Unsignalled
<1>f. Unsent' = Unsent
  BY Zenon, <1>b, <1>d, <1>e DEF Unsent, Unsignalled
<1>g. \A m \in Nodes : Published(m) <=> Published(m)'
  BY Zenon, <1>b, <1>d, <1>e DEF Published
<1>1. TypeOK'
  <2>1. path' \in [Nodes -> {"none", "hit", "leader", "joined", "error"}]
    BY Zenon, <1>a, <1>c DEF TypeOK
  <2>2. compiles' \in [Nodes -> BOOLEAN] /\ intact' \in [Nodes -> BOOLEAN]
    <3>1. CASE Lead(n)
      <4>1. (\A s \in Succs[n] : compiles[s]) \in BOOLEAN
        BY Zenon
      <4> QED
        BY <1>a, <3>1, <4>1, Zenon DEF Lead, TypeOK
    <3>2. CASE UNCHANGED <<compiles, intact>>
      BY Zenon, <1>a, <3>2 DEF TypeOK
    <3> QED
      BY Zenon, <1>0, <3>1, <3>2 DEF Resolve
  <2> QED
    BY Zenon, <1>a, <1>b, <1>e, <2>1, <2>2 DEF TypeOK, nodeState, counters, owed, fields, barrier
<1>2. SignalsExact'
  BY Zenon, <1>a, <1>b, <1>e, <1>f DEF SignalsExact, barrier
<1>3. PathByPhase'
  <2> SUFFICES ASSUME NEW m \in Nodes PROVE PathAt(m)'
    BY Zenon DEF PathByPhase
  <2>1. CASE m # n
    BY Zenon, <1>a, <1>b, <1>d, <1>e, <2>1 DEF PathByPhase, PathAt
  <2>2. CASE m = n
    BY Zenon, <1>b, <1>d, <1>e, <2>2 DEF PathAt, Waiting
  <2> QED
    BY Zenon, <2>1, <2>2
<1>4. OwedByPhase'
  BY Zenon, <1>a, <1>b, <1>e, <1>f DEF OwedByPhase, nodeState, owed, Waiting
<1>5. SummaryKept' /\ EvictedUnread'
  BY Zenon, <1>a, <1>b, <1>e, <1>g DEF SummaryKept, EvictedUnread, nodeState, fields
<1>6. Ends'
  BY Zenon, <1>a, <1>b, <1>d, <1>e DEF Ends, nodeState
<1>7. Undisturbed' => Relied'
  <2> SUFFICES ASSUME Undisturbed' PROVE Relied'
    BY Zenon
  <2>1. x = "leader"
    BY Zenon, <1>d DEF Undisturbed
  <2>2. Undisturbed /\ Relied
    BY Zenon, <1>a, <1>b, <1>d DEF Undisturbed
  <2>3. Lead(n)
    BY Zenon, <1>0, <1>d, <2>1, <1>a DEF Resolve, TypeOK
  <2>4. \A s \in Succs[n] : compiles[s]
    <3> SUFFICES ASSUME NEW s \in Succs[n] PROVE compiles[s]
      BY Zenon
    <3>1. s \in Nodes /\ path[s] # "none"
      BY Zenon, <1>b, ImportsSignalled
    <3> QED
      BY Zenon, <1>a, <2>2, <3>1 DEF Undisturbed, Relied, ReliedAt, TypeOK
  <2>5. \A m \in Nodes : /\ compiles[m] \/ m = n => compiles'[m]
                         /\ intact[m] \/ m = n => intact'[m]
    <3>1. intact' = [intact EXCEPT ![n] = TRUE] /\ compiles' = [compiles EXCEPT ![n] = TRUE]
      BY Zenon, <2>3, <2>4 DEF Lead
    <3> QED
      BY Zenon, <1>a, <3>1 DEF TypeOK
  <2>8. ASSUME NEW m \in Nodes \ {n} PROVE ReliedAt(m)'
    BY Zenon, <1>b, <1>d, <1>e, <1>g, <2>1, <2>2, <2>5, ReliedElsewhere DEF Relied, nodeState, fields
  <2>9. ReliedAt(n)'
    BY Zenon, <1>b, <1>d, <1>e, <1>g, <2>1, <2>2, <2>5, DagAssumption DEF Relied, ReliedAt, nodeState, fields
  <2> QED
    BY Zenon, <2>8, <2>9 DEF Relied
<1> QED
  BY Zenon, <1>e, <1>1, <1>2, <1>3, <1>4, <1>5, <1>6, <1>7 DEF BarrierInv

\* Exactly one signal per package: the last one opens the barrier.
LEMMA SignalStep ==
  ASSUME BarrierInv, NEW n \in Nodes, SignalDone(n)
  PROVE  BarrierInv'
<1>a. TypeOK /\ GraphInv /\ SignalsExact /\ PathByPhase /\ OwedByPhase /\ SummaryKept
      /\ EvictedUnread /\ Ends /\ (Undisturbed => Relied)
  BY Zenon DEF BarrierInv
<1>b. pc[n] = "signal" /\ pc' = [pc EXCEPT ![n] = "notify"] /\ UNCHANGED <<nodeState, flow>>
  BY Zenon DEF SignalDone, Goto
<1>e. /\ GraphInv'
      /\ \A m \in Nodes : OwingPreds(m)' = OwingPreds(m) /\ OwingConsumers(m)' = OwingConsumers(m)
      /\ \A m \in Nodes : pc'[m] = IF m = n THEN "notify" ELSE pc[m]
      /\ pc' \in [Nodes -> Phases]
      /\ analyze = "dispatch"
  BY Zenon, <1>b, Moves DEF nodeState, Phases
<1>f. Unsent' = Unsent \ {n} /\ n \in Unsent /\ Unsent \subseteq Nodes
  BY Zenon, <1>b, <1>e DEF Unsent, Unsignalled, flow
<1>g. \A m \in Nodes : Published(m) <=> Published(m)'
  BY Zenon, <1>b, <1>e DEF Published, flow
<1>2. SignalsExact' /\ pending' \in Nat /\ barrierOpen' \in BOOLEAN
  <2>1. /\ Cardinality(Unsent \ {n}) = Cardinality(Unsent) - 1
        /\ Cardinality(Unsent) \in Nat \ {0}
        /\ Cardinality(Unsent) = 1 <=> Unsent \ {n} = {}
    BY Zenon, <1>f, CountDown
  <2>2. pending' = Cardinality(Unsent') /\ pending' \in Nat
    BY <1>a, <1>f, <2>1 DEF SignalDone, SignalsExact
  <2>3. ~barrierOpen /\ barrierOpen' = (pending = 1)
    BY Zenon, <1>a, <1>f DEF SignalDone, SignalsExact
  <2>4. barrierOpen' <=> Unsent' = {}
    BY Zenon, <1>a, <1>f, <2>1, <2>3 DEF SignalsExact
  <2> QED
    BY Zenon, <1>a, <1>e, <2>2, <2>3, <2>4 DEF SignalsExact
<1>1. TypeOK'
  BY Zenon, <1>a, <1>b, <1>e, <1>2 DEF TypeOK, nodeState, counters, owed, fields, flow
<1>3. PathByPhase'
  BY Zenon, <1>a, <1>b, <1>e DEF PathByPhase, PathAt, flow, Waiting
<1>4. OwedByPhase'
  BY Zenon, <1>a, <1>b, <1>e, <1>f DEF OwedByPhase, nodeState, owed, Waiting
<1>5. SummaryKept' /\ EvictedUnread'
  BY Zenon, <1>a, <1>b, <1>e, <1>g DEF SummaryKept, EvictedUnread, nodeState, fields
<1>6. Ends'
  BY Zenon, <1>a, <1>b, <1>e DEF Ends, nodeState, flow
<1>7. Undisturbed' => Relied'
  <2> SUFFICES ASSUME Undisturbed' PROVE Relied'
    BY Zenon
  <2>1. Relied
    BY Zenon, <1>a, <1>b DEF Undisturbed, flow
  <2>8. ASSUME NEW m \in Nodes \ {n} PROVE ReliedAt(m)'
    BY Zenon, <1>b, <1>e, <1>g, <2>1, ReliedElsewhere DEF Relied, flow, nodeState, fields, Waiting
  <2>9. ReliedAt(n)'
    BY Zenon, <1>b, <1>e, <1>g, <2>1, DagAssumption DEF Relied, ReliedAt, flow, nodeState, fields, Waiting
  <2> QED
    BY Zenon, <2>8, <2>9 DEF Relied
<1> QED
  BY Zenon, <1>e, <1>1, <1>2, <1>3, <1>4, <1>5, <1>6, <1>7 DEF BarrierInv

\* A goroutine ends with an error, its own or that of the context.
LEMMA FailStep ==
  ASSUME BarrierInv, NEW n \in Nodes, ErrorReturns(n) \/ LeaderCancelled(n)
  PROVE  BarrierInv'
<1>a. TypeOK /\ GraphInv /\ SignalsExact /\ PathByPhase /\ OwedByPhase /\ SummaryKept
      /\ EvictedUnread /\ Ends /\ (Undisturbed => Relied)
  BY Zenon DEF BarrierInv
<1>b. /\ pc[n] \in Waiting \cup {"analyzing", "notify"}
      /\ path[n] \in {"leader", "error"} /\ (cancelled \/ path[n] = "error")
      /\ pc' = [pc EXCEPT ![n] = "failed"]
      /\ analyzeDone' = [analyzeDone EXCEPT ![n] = TRUE]
      /\ UNCHANGED <<nodeState, barrier, hits, path, compiles, waits, intact, sound>>
  BY Zenon, <1>a DEF ErrorReturns, LeaderCancelled, Signalled, Fail, CloseAnalyzeDone, Goto, PathByPhase, PathAt
<1>c. pc[n] \notin {"blocked", "done", "failed", "tail", "decref", "self"} \cup Unsignalled
  BY Zenon, <1>b DEF Waiting, Unsignalled
<1>e. /\ GraphInv'
      /\ \A m \in Nodes : OwingPreds(m)' = OwingPreds(m) /\ OwingConsumers(m)' = OwingConsumers(m)
      /\ \A m \in Nodes : pc'[m] = IF m = n THEN "failed" ELSE pc[m]
      /\ pc' \in [Nodes -> Phases]
      /\ analyze = "dispatch"
  BY Zenon, <1>b, <1>c, Moves DEF nodeState, Phases
<1>f. Unsent' = Unsent
  BY Zenon, <1>b, <1>c, <1>e DEF Unsent, Unsignalled
<1>g. \A m \in Nodes : Published(m) <=> Published(m)'
  BY Zenon, <1>b, <1>c, <1>e DEF Published
<1>h. \A m \in Nodes : analyzeDone'[m] = (analyzeDone[m] \/ m = n)
  BY Zenon, <1>a, <1>b DEF TypeOK
<1>1. TypeOK'
  <2>1. analyzeDone' \in [Nodes -> BOOLEAN]
    BY <1>a, <1>b, Zenon DEF TypeOK
  <2> QED
    BY Zenon, <1>a, <1>b, <1>e, <2>1 DEF TypeOK, nodeState, counters, owed, fields, barrier
<1>2. SignalsExact'
  BY Zenon, <1>a, <1>b, <1>e, <1>f DEF SignalsExact, barrier
<1>3. PathByPhase'
  BY Zenon, <1>a, <1>b, <1>e DEF PathByPhase, PathAt, Waiting
<1>4. OwedByPhase'
  BY Zenon, <1>a, <1>b, <1>c, <1>e, <1>f DEF OwedByPhase, nodeState, owed, Waiting
<1>5. SummaryKept' /\ EvictedUnread'
  BY Zenon, <1>a, <1>b, <1>e, <1>g DEF SummaryKept, EvictedUnread, nodeState, fields
<1>6. Ends'
  BY Zenon, <1>a, <1>b, <1>e, <1>h DEF Ends, nodeState
<1>7. Undisturbed' => Relied'
  <2> SUFFICES ASSUME Undisturbed' PROVE Relied'
    BY Zenon
  <2>1. Relied
    BY Zenon, <1>a, <1>b DEF Undisturbed
  <2>8. ASSUME NEW m \in Nodes \ {n} PROVE ReliedAt(m)'
    BY Zenon, <1>b, <1>e, <1>g, <2>1, ReliedElsewhere DEF Relied, nodeState, fields, Waiting
  <2>9. ReliedAt(n)'
    BY Zenon, <1>b, <1>e, <1>g, <2>1, DagAssumption DEF Relied, ReliedAt, nodeState, fields, Waiting
  <2> QED
    BY Zenon, <2>8, <2>9 DEF Relied
<1> QED
  BY Zenon, <1>e, <1>1, <1>2, <1>3, <1>4, <1>5, <1>6, <1>7 DEF BarrierInv


\* A package that has yet to publish has its edges, in an undisturbed batch.
LEMMA EdgesUntilPublished ==
  ASSUME BarrierInv, Undisturbed, NEW n \in Nodes, ~Published(n)
  PROVE  edges[n]
  BY Zenon DEF BarrierInv, EvictedUnread, Relied, ReliedAt

\* A summary is published: by a hit, by a joiner, or by the leader, who has read
\* those of all imports.
LEMMA PublishStep ==
  ASSUME BarrierInv, NEW n \in Nodes, Hit(n) \/ JoinerPublishes(n) \/ AnalyzeOK(n)
  PROVE  BarrierInv'
<1>a. TypeOK /\ GraphInv /\ SignalsExact /\ PathByPhase /\ OwedByPhase /\ SummaryKept
      /\ EvictedUnread /\ Ends /\ (Undisturbed => Relied)
  BY Zenon DEF BarrierInv
<1>b. /\ UNCHANGED <<counters, owed, evicting, cancelled, analyze, barrier, hits,
                     analyzeDone, waits, intact, edges, releasedAggressive>>
      /\ actions' = [actions EXCEPT ![n] = TRUE]
      /\ compiles' = [compiles EXCEPT ![n] = TRUE]
      /\ captured' = IF edges[n] THEN captured \cup {n} ELSE captured
  BY Zenon DEF Hit, JoinerPublishes, AnalyzeOK, PublishFields
<1>c. PICK q, x :
        /\ pc' = [pc EXCEPT ![n] = q] /\ path' = [path EXCEPT ![n] = x]
        /\ \/ pc[n] = "shortcut" /\ q = "signal" /\ path[n] = "none" /\ x = "hit" /\ n \in hits
           \/ pc[n] = "notify" /\ q = "tail" /\ path[n] = "joined" /\ x = "joined" /\ toNotify[n] = {}
           \/ pc[n] = "analyzing" /\ q = "tail" /\ path[n] = "leader" /\ x = "leader"
  <2>1. CASE Hit(n)
    BY Zenon, <1>a, <2>1 DEF Hit, Goto, PathByPhase, PathAt
  <2>2. CASE JoinerPublishes(n)
    <3>1. path' = [path EXCEPT ![n] = "joined"]
      BY Zenon, <1>a, <2>2 DEF JoinerPublishes, TypeOK
    <3> QED
      BY Zenon, <2>2, <3>1 DEF JoinerPublishes, Signalled, Goto
  <2>3. CASE AnalyzeOK(n)
    <3>1. path[n] = "leader"
      BY Zenon, <1>a, <2>3 DEF AnalyzeOK, PathByPhase, PathAt
    <3>2. path' = [path EXCEPT ![n] = "leader"]
      BY Zenon, <1>a, <2>3, <3>1 DEF AnalyzeOK, TypeOK
    <3> QED
      BY Zenon, <2>3, <3>1, <3>2 DEF AnalyzeOK, Goto
  <2> QED
    BY Zenon, <2>1, <2>2, <2>3
<1>d. \A m \in Nodes : /\ path'[m] = IF m = n THEN x ELSE path[m]
                       /\ m = n \/ actions[m] <=> actions'[m]
                       /\ m = n \/ compiles[m] => compiles'[m]
  BY Zenon, <1>a, <1>b, <1>c DEF TypeOK
<1>e. /\ GraphInv'
      /\ \A m \in Nodes : OwingPreds(m)' = OwingPreds(m) /\ OwingConsumers(m)' = OwingConsumers(m)
      /\ \A m \in Nodes : pc'[m] = IF m = n THEN q ELSE pc[m]
      /\ pc' \in [Nodes -> Phases]
      /\ analyze = "dispatch"
  BY Zenon, <1>b, <1>c, Moves DEF Phases, Unsignalled
<1>f. Unsent' = Unsent
  <2>1. \A m \in Nodes \ {n} : m \in Unsent' <=> m \in Unsent
    BY Zenon, <1>d, <1>e DEF Unsent
  <2>2. pc'[n] = q /\ (pc[n] \in Unsignalled <=> q \in Unsignalled)
    BY Zenon, <1>c, <1>e DEF Unsignalled
  <2>3. n \in Unsent' <=> n \in Unsent
    BY Zenon, <1>c, <2>2 DEF Unsent
  <2>4. Unsent \subseteq Nodes /\ Unsent' \subseteq Nodes
    BY Zenon DEF Unsent
  <2> QED
    BY <2>1, <2>3, <2>4
<1>g. ~Published(n) /\ \A m \in Nodes : Published(m)' <=> (m = n \/ Published(m))
  BY Zenon, <1>c, <1>d, <1>e DEF Published
<1>h. pc[n] = "analyzing" => toNotify[n] = {}
  BY Zenon, <1>a DEF OwedByPhase
<1>1. TypeOK'
  <2>1. path' \in [Nodes -> {"none", "hit", "leader", "joined", "error"}]
    BY Zenon, <1>a, <1>c DEF TypeOK
  <2>2. actions' \in [Nodes -> BOOLEAN] /\ compiles' \in [Nodes -> BOOLEAN]
    BY <1>a, <1>b, Zenon DEF TypeOK
  <2>3. sound' \in [Nodes -> BOOLEAN]
    <3>1. CASE sound' = [sound EXCEPT ![n] = TRUE]
      BY <1>a, <3>1, Zenon DEF TypeOK
    <3>2. CASE AnalyzeOK(n)
      <4>1. (intact[n] /\ \A s \in Succs[n] : actions[s] /\ sound[s]) \in BOOLEAN
        BY Zenon
      <4> QED
        BY <1>a, <3>2, <4>1, Zenon DEF AnalyzeOK, TypeOK
    <3> QED
      BY Zenon, <3>1, <3>2 DEF Hit, JoinerPublishes
  <2>4. captured' \subseteq Nodes
    BY Zenon, <1>a, <1>b DEF TypeOK
  <2> QED
    BY Zenon, <1>a, <1>b, <1>e, <2>1, <2>2, <2>3, <2>4 DEF TypeOK, counters, owed, barrier
<1>2. SignalsExact'
  BY Zenon, <1>a, <1>b, <1>c, <1>e, <1>f DEF SignalsExact, barrier
<1>3. PathByPhase'
  <2> SUFFICES ASSUME NEW m \in Nodes PROVE PathAt(m)'
    BY Zenon DEF PathByPhase
  <2>1. CASE m # n
    BY Zenon, <1>a, <1>b, <1>d, <1>e, <2>1 DEF PathByPhase, PathAt
  <2>2. CASE m = n
    BY Zenon, <1>a, <1>b, <1>c, <1>d, <1>e, <2>2 DEF PathByPhase, PathAt, Waiting
  <2> QED
    BY Zenon, <2>1, <2>2
<1>4. OwedByPhase'
  BY Zenon, <1>a, <1>b, <1>c, <1>e, <1>f, <1>h DEF OwedByPhase, owed, Waiting
<1>5. SummaryKept' /\ EvictedUnread'
  BY Zenon, <1>a, <1>b, <1>d, <1>e, <1>g DEF SummaryKept, EvictedUnread
<1>6. Ends'
  BY Zenon, <1>a, <1>b, <1>c, <1>d, <1>e DEF Ends
<1>7. Undisturbed' => Relied'
  <2> SUFFICES ASSUME Undisturbed' PROVE Relied'
    BY Zenon
  <2>1. Undisturbed /\ Relied
    BY Zenon, <1>a, <1>b, <1>c, <1>d DEF Undisturbed
  <2>2. captured' = captured \cup {n}
    BY Zenon, <1>b, <1>g, <2>1, EdgesUntilPublished
  <2>3. sound'[n]
    <3>1. CASE sound' = [sound EXCEPT ![n] = TRUE]
      BY Zenon, <1>a, <3>1 DEF TypeOK
    <3>2. CASE AnalyzeOK(n)
      <4>1. ASSUME NEW s \in Succs[n] PROVE actions[s] /\ sound[s]
        <5>1. s \in Nodes /\ Published(s) /\ n \in Preds(s)
          BY Zenon, <2>1, <3>2, DagAssumption DEF Relied, ReliedAt, AnalyzeOK, Preds
        <5>2. n \in OwingPreds(s)
          BY Zenon, <1>a, <3>2, <5>1 DEF OwedByPhase, OwingPreds, AnalyzeOK
        <5> QED
          BY Zenon, <1>a, <2>1, <5>1, <5>2 DEF SummaryKept, Relied, ReliedAt
      <4>2. intact[n]
        BY Zenon, <1>a, <2>1, <3>2 DEF Relied, ReliedAt, AnalyzeOK, PathByPhase, PathAt
      <4>3. sound' = [sound EXCEPT ![n] = TRUE]
        BY Zenon, <3>2, <4>1, <4>2 DEF AnalyzeOK
      <4> QED
        BY Zenon, <1>a, <4>3 DEF TypeOK
    <3> QED
      BY Zenon, <3>1, <3>2 DEF Hit, JoinerPublishes
  <2>4. \A m \in Nodes \ {n} : sound'[m] = sound[m]
    BY Zenon, <1>a DEF TypeOK, Hit, JoinerPublishes, AnalyzeOK
  <2>5. q = "tail" => \A s \in Succs[n] : Published(s)
    BY Zenon, <1>c, <1>d, <2>1 DEF Undisturbed, Relied, ReliedAt
  <2>8. ASSUME NEW m \in Nodes \ {n} PROVE ReliedAt(m)'
    BY Zenon, <1>b, <1>c, <1>d, <1>e, <1>g, <2>1, <2>2, <2>3, <2>4, <2>5, ReliedElsewhere DEF Relied, Waiting
  <2>9. ReliedAt(n)'
    <3>1. /\ path'[n] = x /\ pc'[n] = q /\ compiles'[n] /\ sound'[n]
          /\ Published(n)' /\ n \in captured'
      BY Zenon, <1>d, <1>e, <1>g, <2>2, <2>3
    <3>2. q \in {"signal", "tail"} /\ (q = "signal" => x = "hit")
      BY Zenon, <1>c
    <3>3. q = "tail" => \A s \in Succs[n] : Published(s)'
      BY Zenon, <1>g, <2>5, DagAssumption
    <3> QED
      BY Zenon, <3>1, <3>2, <3>3 DEF ReliedAt, Waiting
  <2> QED
    BY Zenon, <2>8, <2>9 DEF Relied
<1> QED
  BY Zenon, <1>e, <1>1, <1>2, <1>3, <1>4, <1>5, <1>6, <1>7 DEF BarrierInv

\* The leader passes the barrier and reads its edges, then takes a slot again.
LEMMA PassStep ==
  ASSUME BarrierInv, NEW n \in Nodes, PassBarrier(n) \/ Reacquire(n)
  PROVE  BarrierInv'
<1>a. TypeOK /\ GraphInv /\ SignalsExact /\ PathByPhase /\ OwedByPhase /\ SummaryKept
      /\ EvictedUnread /\ Ends /\ (Undisturbed => Relied)
  BY Zenon DEF BarrierInv
<1>b. UNCHANGED <<nodeState, barrier, hits, path, analyzeDone, compiles, sound>>
  BY Zenon DEF PassBarrier, Reacquire
<1>c. PICK q : /\ pc' = [pc EXCEPT ![n] = q]
               /\ \/ pc[n] = "barrier" /\ q = "vdeps" /\ barrierOpen
                  \/ pc[n] = "reacquire" /\ q = "analyzing" /\ ~cancelled
  BY Zenon DEF PassBarrier, Reacquire, Goto
<1>e. /\ GraphInv'
      /\ \A m \in Nodes : OwingPreds(m)' = OwingPreds(m) /\ OwingConsumers(m)' = OwingConsumers(m)
      /\ \A m \in Nodes : pc'[m] = IF m = n THEN q ELSE pc[m]
      /\ pc' \in [Nodes -> Phases]
      /\ analyze = "dispatch"
  BY Zenon, <1>b, <1>c, Moves DEF nodeState, Phases, Waiting
<1>f. Unsent' = Unsent
  BY Zenon, <1>b, <1>c, <1>e DEF Unsent, Unsignalled
<1>g. \A m \in Nodes : Published(m) <=> Published(m)'
  BY Zenon, <1>b, <1>c, <1>e DEF Published
<1>h. ~Published(n) /\ path[n] = "leader"
  BY Zenon, <1>a, <1>c DEF Published, PathByPhase, PathAt, Waiting
<1>1. TypeOK'
  <2>1. waits' \in [Nodes -> SUBSET Nodes]
    <3>1. (IF edges[n] THEN Succs[n] ELSE {}) \in SUBSET Nodes
      BY Zenon, DagAssumption
    <3>2. waits' = waits \/ waits' = [waits EXCEPT ![n] = IF edges[n] THEN Succs[n] ELSE {}]
      BY Zenon DEF PassBarrier, Reacquire
    <3> QED
      BY Zenon, <1>a, <3>1, <3>2 DEF TypeOK
  <2>2. intact' \in [Nodes -> BOOLEAN]
    <3>1. (intact[n] /\ edges[n]) \in BOOLEAN
      BY Zenon
    <3>2. intact' = intact \/ intact' = [intact EXCEPT ![n] = intact[n] /\ edges[n]]
      BY Zenon DEF PassBarrier, Reacquire
    <3> QED
      BY <1>a, <3>1, <3>2, Zenon DEF TypeOK
  <2> QED
    BY Zenon, <1>a, <1>b, <1>e, <2>1, <2>2 DEF TypeOK, nodeState, counters, owed, fields, barrier
<1>2. SignalsExact'
  BY Zenon, <1>a, <1>b, <1>c, <1>e, <1>f DEF SignalsExact, barrier
<1>3. PathByPhase'
  BY Zenon, <1>a, <1>b, <1>c, <1>e DEF PathByPhase, PathAt, Waiting
<1>4. OwedByPhase'
  BY Zenon, <1>a, <1>b, <1>c, <1>e, <1>f DEF OwedByPhase, nodeState, owed, Waiting
<1>5. SummaryKept' /\ EvictedUnread'
  BY Zenon, <1>a, <1>b, <1>e, <1>g DEF SummaryKept, EvictedUnread, nodeState, fields
<1>6. Ends'
  BY Zenon, <1>a, <1>b, <1>c, <1>e DEF Ends, nodeState
<1>7. Undisturbed' => Relied'
  <2> SUFFICES ASSUME Undisturbed' PROVE Relied'
    BY Zenon
  <2>1. Undisturbed /\ Relied
    BY Zenon, <1>a, <1>b DEF Undisturbed
  <2>2. edges[n] /\ intact[n]
    BY Zenon, <1>c, <1>h, <2>1, EdgesUntilPublished DEF Relied, ReliedAt, Waiting
  <2>3. \A m \in Nodes : intact[m] => intact'[m]
    BY Zenon, <1>a, <2>2 DEF PassBarrier, Reacquire, TypeOK
  <2>4. /\ \A m \in Nodes \ {n} : waits'[m] = waits[m]
        /\ q = "vdeps" => waits'[n] = Succs[n]
    BY Zenon, <1>a, <1>c, <2>2 DEF PassBarrier, Reacquire, TypeOK
  <2>8. ASSUME NEW m \in Nodes \ {n} PROVE ReliedAt(m)'
    BY Zenon, <1>b, <1>c, <1>e, <1>g, <2>1, <2>2, <2>3, <2>4, ReliedElsewhere DEF Relied, nodeState, fields
  <2>9. ReliedAt(n)'
    BY Zenon, <1>b, <1>c, <1>e, <1>g, <2>1, <2>2, <2>3, <2>4, DagAssumption DEF Relied, ReliedAt, nodeState, fields
  <2> QED
    BY Zenon, <2>8, <2>9 DEF Relied
<1> QED
  BY Zenon, <1>e, <1>1, <1>2, <1>3, <1>4, <1>5, <1>6, <1>7 DEF BarrierInv


\* Eviction, by the last importer or by the package itself.
LEMMA ReleaseStep ==
  ASSUME BarrierInv, NEW n \in Nodes, NEW s \in Nodes,
         \/ Evict(n, s) /\ UNCHANGED <<barrier, flow>>
         \/ ReleaseSelf(n) /\ s = n
  PROVE  BarrierInv'
<1>a. TypeOK /\ GraphInv /\ SignalsExact /\ PathByPhase /\ OwedByPhase /\ SummaryKept
      /\ EvictedUnread /\ Ends /\ (Undisturbed => Relied)
  BY Zenon DEF BarrierInv
<1>b. /\ MaybeRelease(s)
      /\ UNCHANGED <<counters, owed, captured, cancelled, analyze, barrier, hits, path, compiles,
                     waits, intact, sound>>
  BY Zenon DEF Evict, ReleaseSelf, flow
<1>c. /\ pc[n] \in {"decref", "self"}
      /\ \A m \in Nodes \ {n} : pc'[m] = pc[m] /\ (analyzeDone'[m] <=> analyzeDone[m])
      /\ \/ pc'[n] = pc[n] /\ (analyzeDone'[n] <=> analyzeDone[n])
         \/ pc'[n] = "done" /\ analyzeDone'[n]
      /\ pc' \in [Nodes -> Phases]
  <2>1. CASE Evict(n, s) /\ UNCHANGED <<barrier, flow>>
    BY Zenon, <1>a, <2>1 DEF Evict, flow, TypeOK
  <2>2. CASE ReleaseSelf(n)
    BY Zenon, <1>a, <2>2 DEF ReleaseSelf, CloseAnalyzeDone, Goto, TypeOK, Phases
  <2> QED
    BY Zenon, <2>1, <2>2
<1>d. /\ evicting' \in [Nodes -> SUBSET Nodes]
      /\ \A m \in Nodes : evicting'[m] \subseteq evicting[m]
  <2>1. evicting' = evicting \/ evicting' = [evicting EXCEPT ![n] = {}]
    BY Zenon DEF Evict, ReleaseSelf
  <2> QED
    BY Zenon, <1>a, <2>1 DEF TypeOK
<1>e. /\ GraphInv'
      /\ \A m \in Nodes : OwingPreds(m)' = OwingPreds(m) /\ OwingConsumers(m)' = OwingConsumers(m)
  BY Zenon, <1>a, <1>b, <1>c, <1>d, GraphKept
<1>f. Unsent' = Unsent
  BY Zenon, <1>b, <1>c DEF Unsent, Unsignalled
<1>g. \A m \in Nodes : Published(m) <=> Published(m)'
  BY Zenon, <1>b, <1>c DEF Published
<1>h. \/ UNCHANGED fields
      \/ /\ s \notin Roots /\ OwingConsumers(s) = {} /\ OwingPreds(s) = {}
         /\ releasedAggressive' = [releasedAggressive EXCEPT ![s] = TRUE]
         /\ actions' = [actions EXCEPT ![s] = FALSE]
         /\ edges' = [edges EXCEPT ![s] = FALSE]
  BY Zenon, <1>a, <1>b, ReleaseFacts
<1>1. TypeOK'
  <2>1. actions' \in [Nodes -> BOOLEAN] /\ edges' \in [Nodes -> BOOLEAN]
        /\ releasedAggressive' \in [Nodes -> BOOLEAN]
    <3>1. CASE UNCHANGED fields
      BY Zenon, <1>a, <3>1 DEF TypeOK, fields
    <3>2. CASE ~UNCHANGED fields
      <4>1. /\ releasedAggressive' = [releasedAggressive EXCEPT ![s] = TRUE]
            /\ actions' = [actions EXCEPT ![s] = FALSE]
            /\ edges' = [edges EXCEPT ![s] = FALSE]
        BY Zenon, <1>h, <3>2
      <4> QED
        BY <1>a, <4>1, Zenon DEF TypeOK
    <3> QED
      BY Zenon, <3>1, <3>2
  <2>2. analyzeDone' = analyzeDone \/ analyzeDone' = [analyzeDone EXCEPT ![n] = TRUE]
    BY Zenon DEF ReleaseSelf, CloseAnalyzeDone, flow
  <2>3. analyzeDone' \in [Nodes -> BOOLEAN]
    BY <1>a, <2>2, Zenon DEF TypeOK
  <2> QED
    BY Zenon, <1>a, <1>b, <1>c, <1>d, <2>1, <2>3 DEF TypeOK, counters, owed, barrier
<1>2. SignalsExact'
  BY Zenon, <1>a, <1>b, <1>c, <1>f DEF SignalsExact, barrier
<1>3. PathByPhase'
  BY Zenon, <1>a, <1>b, <1>c DEF PathByPhase, PathAt, Waiting
<1>4. OwedByPhase'
  BY Zenon, <1>a, <1>b, <1>c, <1>d, <1>f DEF OwedByPhase, owed, Waiting
<1>5. SummaryKept' /\ EvictedUnread'
  <2>1. CASE UNCHANGED fields
    BY Zenon, <1>a, <1>e, <1>g, <2>1 DEF SummaryKept, EvictedUnread, fields
  <2>2. CASE ~UNCHANGED fields
    <3>1. /\ s \notin Roots /\ OwingPreds(s) = {}
          /\ actions' = [actions EXCEPT ![s] = FALSE]
          /\ edges' = [edges EXCEPT ![s] = FALSE]
          /\ releasedAggressive' = [releasedAggressive EXCEPT ![s] = TRUE]
      BY Zenon, <1>h, <2>2
    <3>2. \A m \in Nodes \ {s} : actions[m] => actions'[m]
      BY Zenon, <1>a, <3>1 DEF TypeOK
    <3>3. \A m \in Nodes \ {s} : edges[m] => edges'[m]
      BY Zenon, <1>a, <3>1 DEF TypeOK
    <3>4. \A m \in Nodes : releasedAggressive[m] \/ m = s => releasedAggressive'[m]
      BY Zenon, <1>a, <3>1 DEF TypeOK
    <3>5. EvictedUnread'
      BY Zenon, <1>a, <3>3, <3>4 DEF EvictedUnread
    <3>6. ASSUME NEW m \in Nodes, Published(m)', ~actions'[m] PROVE m \notin Roots /\ OwingPreds(m)' = {}
      BY Zenon, <1>a, <1>e, <1>g, <3>1, <3>2, <3>6 DEF SummaryKept
    <3> QED
      BY Zenon, <3>5, <3>6 DEF SummaryKept
  <2> QED
    BY Zenon, <2>1, <2>2
<1>6. Ends'
  <2>1. analyze = "dispatch"
    BY Zenon, <1>a, <1>c DEF Ends, Active
  <2> QED
    BY Zenon, <1>a, <1>b, <1>c, <2>1 DEF Ends
<1>7. Undisturbed' => Relied'
  <2> SUFFICES ASSUME Undisturbed' PROVE Relied'
    BY Zenon
  <2>1. Relied
    BY Zenon, <1>a, <1>b DEF Undisturbed
  <2>2. Published(s)
    <3>1. CASE Evict(n, s)
      BY Zenon, <1>a, <2>1, <3>1 DEF Evict, Relied, ReliedAt, GraphInv, OwedToNeighbours
    <3>2. CASE ReleaseSelf(n) /\ s = n
      BY Zenon, <3>2 DEF ReleaseSelf, Published
    <3> QED
      BY Zenon, <3>1, <3>2
  <2>3. \A m \in Nodes : /\ releasedAggressive'[m] => releasedAggressive[m] \/ m = s
                         /\ actions'[m] => actions[m]
    <3>1. CASE UNCHANGED fields
      BY Zenon, <3>1 DEF fields
    <3>2. CASE ~UNCHANGED fields
      <4>1. /\ releasedAggressive' = [releasedAggressive EXCEPT ![s] = TRUE]
            /\ actions' = [actions EXCEPT ![s] = FALSE]
        BY Zenon, <1>h, <3>2
      <4> QED
        BY Zenon, <1>a, <4>1 DEF TypeOK
    <3> QED
      BY Zenon, <3>1, <3>2
  <2>8. ASSUME NEW m \in Nodes \ {n} PROVE ReliedAt(m)'
    BY Zenon, <1>b, <1>c, <1>g, <2>1, <2>2, <2>3, ReliedElsewhere DEF Relied, Waiting
  <2>9. ReliedAt(n)'
    <3>1. ReliedAt(n) /\ Published(n) /\ Published(n)'
      BY Zenon, <1>c, <1>g, <2>1 DEF Relied, Published
    <3>2. CASE pc'[n] = pc[n]
      BY Zenon, <1>b, <1>g, <2>3, <3>1, <3>2, ReliedElsewhere
    <3>3. CASE pc'[n] = "done"
      <4>1. \A t \in Succs[n] : Published(t)'
        BY Zenon, <1>c, <1>g, <3>1, DagAssumption DEF ReliedAt
      <4> QED
        BY Zenon, <1>b, <2>3, <3>1, <3>3, <4>1 DEF ReliedAt, Waiting
    <3> QED
      BY Zenon, <1>c, <3>2, <3>3
  <2> QED
    BY Zenon, <2>8, <2>9 DEF Relied
<1> QED
  BY Zenon, <1>e, <1>1, <1>2, <1>3, <1>4, <1>5, <1>6, <1>7 DEF BarrierInv

\* A notification, perhaps the last one an importer waits for.
LEMMA NotifyStep ==
  ASSUME BarrierInv, NEW n \in Nodes, NEW p \in Nodes, Notify(n, p), UNCHANGED <<barrier, flow>>
  PROVE  BarrierInv'
<1>a. TypeOK /\ GraphInv /\ SignalsExact /\ PathByPhase /\ OwedByPhase /\ SummaryKept
      /\ EvictedUnread /\ Ends /\ (Undisturbed => Relied)
  BY Zenon DEF BarrierInv
<1>b. /\ GraphInv'
      /\ p # n
      /\ pc[p] = "blocked" /\ pc'[p] \in {"blocked", "queued"}
      /\ \A m \in Nodes \ {p} : pc'[m] = pc[m]
      /\ \A m \in Nodes : OwingPreds(m)' = OwingPreds(m) /\ OwingConsumers(m)' = OwingConsumers(m)
  BY Zenon, <1>a, NotifyCounts
<1>c. pc[n] = "notify" /\ \A m \in Nodes \ {n} : toNotify'[m] = toNotify[m]
  BY Zenon, <1>a DEF Notify, TypeOK
<1>d. UNCHANGED <<owesPreds, owesConsumers, evicting, fields, captured, cancelled, analyze>>
  BY Zenon DEF Notify
<1>f. Unsent' = Unsent
  BY Zenon, <1>b DEF Unsent, Unsignalled, flow
<1>g. \A m \in Nodes : Published(m) <=> Published(m)'
  BY Zenon, <1>b DEF Published, flow
<1>1. TypeOK'
  <2>1. pc' \in [Nodes -> Phases]
    BY Zenon, <1>a DEF Notify, TypeOK, Phases, Unsignalled
  <2> QED
    BY Zenon, <1>a, <1>b, <1>d, <2>1 DEF TypeOK, GraphInv, GraphTypes, fields, barrier, flow
<1>2. SignalsExact'
  BY Zenon, <1>a, <1>b, <1>f DEF SignalsExact, barrier
<1>3. PathByPhase'
  BY Zenon, <1>a, <1>b DEF PathByPhase, PathAt, flow, Waiting
<1>4. OwedByPhase'
  <2>1. n \notin Unsent
    BY Zenon, <1>a, <1>c DEF Unsent, Unsignalled
  <2> QED
    BY Zenon, <1>a, <1>b, <1>c, <1>d, <1>f, <2>1 DEF OwedByPhase, Waiting
<1>5. SummaryKept' /\ EvictedUnread'
  BY Zenon, <1>a, <1>b, <1>d, <1>g DEF SummaryKept, EvictedUnread, fields
<1>6. Ends'
  <2>1. analyze = "dispatch"
    BY Zenon, <1>a, <1>c DEF Ends, Active
  <2> QED
    BY Zenon, <1>a, <1>b, <1>d, <2>1 DEF Ends, flow
<1>7. Undisturbed' => Relied'
  <2> SUFFICES ASSUME Undisturbed' PROVE Relied'
    BY Zenon
  <2>1. Relied
    BY Zenon, <1>a DEF Undisturbed, flow
  <2>8. ASSUME NEW m \in Nodes \ {p} PROVE ReliedAt(m)'
    BY Zenon, <1>b, <1>d, <1>g, <2>1, ReliedElsewhere DEF Relied, Waiting, flow, fields
  <2>9. ReliedAt(p)'
    BY Zenon, <1>b, <1>d, <1>g, <2>1, DagAssumption DEF Relied, ReliedAt, Waiting, flow, fields
  <2> QED
    BY Zenon, <2>8, <2>9 DEF Relied
<1> QED
  BY Zenon, <1>b, <1>1, <1>2, <1>3, <1>4, <1>5, <1>6, <1>7 DEF BarrierInv

\* The two decrements of the loop; the first may clear a summary.
LEMMA DecrefStep ==
  ASSUME BarrierInv, NEW n \in Nodes, NEW s \in Nodes,
         DecrefPreds(n, s) \/ DecrefSummaryConsumers(n, s), UNCHANGED <<barrier, flow>>
  PROVE  BarrierInv'
<1>a. TypeOK /\ GraphInv /\ SignalsExact /\ PathByPhase /\ OwedByPhase /\ SummaryKept
      /\ EvictedUnread /\ Ends /\ (Undisturbed => Relied)
  BY Zenon DEF BarrierInv
<1>b. GraphInv' /\ \A m \in Nodes : OwingPreds(m)' \subseteq OwingPreds(m)
  BY Zenon, <1>a, DecrefPredsCounts, DecrefConsumersCounts
<1>c. pc[n] = "decref" /\ UNCHANGED <<pc, toNotify, captured, cancelled, analyze, edges, releasedAggressive>>
  BY Zenon DEF DecrefPreds, DecrefSummaryConsumers, fields
<1>d. actions' = actions \/ (actions' = [actions EXCEPT ![s] = FALSE] /\ DecrefPreds(n, s) /\ LastPred(s))
  BY Zenon DEF DecrefPreds, DecrefSummaryConsumers, fields
<1>f. Unsent' = Unsent /\ \A m \in Nodes : Published(m) <=> Published(m)'
  BY Zenon, <1>c DEF Unsent, Published, flow
<1>1. TypeOK'
  <2>1. actions' \in [Nodes -> BOOLEAN]
    BY <1>a, <1>d, Zenon DEF TypeOK
  <2> QED
    BY Zenon, <1>a, <1>b, <1>c, <2>1 DEF TypeOK, GraphInv, GraphTypes, barrier, flow
<1>2. SignalsExact' /\ PathByPhase'
  BY Zenon, <1>a, <1>c, <1>f DEF SignalsExact, PathByPhase, PathAt, barrier, flow
<1>3. OwedByPhase'
  <2>1. \A m \in Nodes \ {n} : /\ owesPreds'[m] = owesPreds[m]
                               /\ owesConsumers'[m] = owesConsumers[m]
                               /\ evicting'[m] = evicting[m]
    <3>1. CASE DecrefPreds(n, s)
      BY Zenon, <1>a, <3>1 DEF DecrefPreds, TypeOK
    <3>2. CASE DecrefSummaryConsumers(n, s)
      BY Zenon, <1>a, <3>2 DEF DecrefSummaryConsumers, TypeOK
    <3> QED
      BY Zenon, <3>1, <3>2
  <2> QED
    BY Zenon, <1>a, <1>c, <1>f, <2>1 DEF OwedByPhase
<1>4. SummaryKept' /\ EvictedUnread'
  <2>1. CASE actions' = actions
    BY Zenon, <1>a, <1>b, <1>c, <1>f, <2>1 DEF SummaryKept, EvictedUnread
  <2>2. CASE actions' # actions
    <3>1. s \notin Roots /\ OwingPreds(s)' = {}
      BY Zenon, <1>a, <1>d, <2>2, DecrefPredsCounts
    <3>2. \A m \in Nodes \ {s} : actions'[m] = actions[m]
      BY Zenon, <1>a, <1>d DEF TypeOK
    <3>3. EvictedUnread'
      BY Zenon, <1>a, <1>c DEF EvictedUnread
    <3>4. ASSUME NEW m \in Nodes, Published(m)', ~actions'[m] PROVE m \notin Roots /\ OwingPreds(m)' = {}
      BY Zenon, <1>a, <1>b, <1>f, <3>1, <3>2, <3>4 DEF SummaryKept
    <3> QED
      BY Zenon, <3>3, <3>4 DEF SummaryKept
  <2> QED
    BY Zenon, <2>1, <2>2
<1>5. Ends'
  BY Zenon, <1>a, <1>c DEF Ends, Active, flow
<1>6. Undisturbed' => Relied'
  <2> SUFFICES ASSUME Undisturbed' PROVE Relied'
    BY Zenon
  <2>1. Relied
    BY Zenon, <1>a DEF Undisturbed, flow
  <2>2. \A m \in Nodes : actions'[m] => actions[m]
    BY Zenon, <1>a, <1>d DEF TypeOK
  <2>3. ASSUME NEW m \in Nodes PROVE ReliedAt(m)'
    BY Zenon, <1>c, <1>f, <2>1, <2>2, ReliedElsewhere DEF Relied, flow
  <2> QED
    BY Zenon, <2>3 DEF Relied
<1> QED
  BY Zenon, <1>b, <1>1, <1>2, <1>3, <1>4, <1>5, <1>6 DEF BarrierInv


\* A step of Analyze itself, or none: no goroutine moves.
LEMMA AnalyzeSteps ==
  ASSUME BarrierInv,
         UNCHANGED <<pc, counters, owed, evicting, fields, captured, barrier, flow>>,
         cancelled' \in BOOLEAN, cancelled => cancelled',
         analyze' \in {"dispatch", "ok", "error", "panic"}, Ends'
  PROVE  BarrierInv'
<1>a. TypeOK /\ GraphInv /\ SignalsExact /\ PathByPhase /\ OwedByPhase /\ SummaryKept
      /\ EvictedUnread /\ (Undisturbed => Relied)
  BY Zenon DEF BarrierInv
<1>b. \A m \in Nodes : Published(m) <=> Published(m)'
  BY Zenon DEF Published, flow
<1>c. GraphInv' /\ \A m \in Nodes : OwingPreds(m)' = OwingPreds(m)
  BY Zenon, <1>a, GraphKept DEF GraphInv, GraphTypes
<1>1. TypeOK'
  BY Zenon, <1>a DEF TypeOK, counters, owed, fields, barrier, flow
<1>2. SignalsExact' /\ PathByPhase' /\ OwedByPhase'
  <2>1. Unsent' = Unsent
    BY Zenon DEF Unsent, flow
  <2> QED
    BY Zenon, <1>a, <2>1 DEF SignalsExact, PathByPhase, PathAt, OwedByPhase, owed, barrier, flow
<1>3. SummaryKept' /\ EvictedUnread'
  BY Zenon, <1>a, <1>b, <1>c DEF SummaryKept, EvictedUnread, fields
<1>4. Undisturbed' => Relied'
  <2> SUFFICES ASSUME Undisturbed' PROVE Relied'
    BY Zenon
  <2>1. Relied
    BY Zenon, <1>a DEF Undisturbed, flow
  <2>2. ASSUME NEW m \in Nodes PROVE ReliedAt(m)'
    BY Zenon, <1>b, <2>1, ReliedElsewhere DEF Relied, flow, fields
  <2> QED
    BY Zenon, <2>2 DEF Relied
<1> QED
  BY Zenon, <1>c, <1>1, <1>2, <1>3, <1>4 DEF BarrierInv

\* When no goroutine is left and none failed, every package is done: a minimal
\* blocked one would have only finished imports, all of which notified it.
LEMMA NobodyForgotten ==
  ASSUME BarrierInv, Active = {}, \A n \in Nodes : pc[n] # "failed"
  PROVE  \A n \in Nodes : pc[n] = "done"
<1> DEFINE B == {n \in Nodes : pc[n] = "blocked"}
<1>1. \A n \in Nodes : pc[n] \in {"blocked", "done"}
  BY Zenon DEF BarrierInv, TypeOK, Active
<1>2. ASSUME B # {} PROVE FALSE
  <2>1. PICK n \in B : Succs[n] \cap B = {}
    BY Zenon, <1>2, DagAssumption
  <2>2. PICK s \in Succs[n] : n \in toNotify[s]
    BY Zenon DEF BarrierInv, GraphInv, BlockedIffAwaiting, Awaited
  <2>3. s \in Nodes /\ pc[s] = "done"
    BY Zenon, <1>1, <2>1, DagAssumption
  <2> QED
    BY Zenon, <2>2, <2>3 DEF BarrierInv, OwedByPhase
<1> QED
  BY Zenon, <1>1, <1>2

\* g.Wait returns: no root lacks its summary.
LEMMA ReturnStep ==
  ASSUME BarrierInv, Return
  PROVE  BarrierInv'
<1>1. /\ Active = {} /\ analyze' \in {"dispatch", "ok", "error", "panic"}
      /\ UNCHANGED <<pc, counters, owed, evicting, fields, captured, cancelled, barrier, flow>>
  BY Zenon DEF Return
<1>2. Active' = {}
  BY Zenon, <1>1 DEF Active
<1>3. CASE \E n \in Nodes : pc[n] = "failed"
  <2>0. analyze' = "error"
    BY Zenon, <1>3 DEF Return
  <2>1. Ends'
    BY Zenon, <1>1, <1>2, <2>0 DEF BarrierInv, Ends, flow
  <2> QED
    BY Zenon, <1>1, <2>1, AnalyzeSteps DEF BarrierInv, TypeOK
<1>4. CASE ~\E n \in Nodes : pc[n] = "failed"
  <2>1. \A n \in Nodes : pc[n] = "done"
    BY Zenon, <1>1, <1>4, NobodyForgotten
  <2>2. \A r \in Roots : actions[r]
    BY Zenon, <2>1, DagAssumption DEF BarrierInv, SummaryKept, Published
  <2>3. analyze' = "ok"
    BY Zenon, <1>4, <2>2 DEF Return
  <2>4. Ends'
    BY Zenon, <1>1, <1>2, <2>1, <2>3 DEF BarrierInv, Ends, flow
  <2> QED
    BY Zenon, <1>1, <2>4, AnalyzeSteps DEF BarrierInv, TypeOK
<1> QED
  BY Zenon, <1>3, <1>4

\* Every step preserves the invariant.
LEMMA BarrierStep == BarrierInv /\ [Next]_vars => BarrierInv'
<1> SUFFICES ASSUME BarrierInv, [Next]_vars PROVE BarrierInv'
  BY Zenon
<1>1. ASSUME NEW n \in Nodes, NodeStep(n) PROVE BarrierInv'
  <2>1. CASE RefStep(n)
    <3>1. PICK m \in Nodes : /\ \/ Notify(n, m) \/ DecrefPreds(n, m)
                                \/ DecrefSummaryConsumers(n, m) \/ Evict(n, m)
                             /\ UNCHANGED <<barrier, flow>>
      BY Zenon, <2>1 DEF RefStep
    <3> QED
      BY Zenon, <3>1, NotifyStep, DecrefStep, ReleaseStep
  <2>2. CASE ReleaseSelf(n)
    BY Zenon, <2>2, ReleaseStep
  <2> QED
    BY Zenon, <1>1, <2>1, <2>2, QuietMoves, PathChosen, SignalStep, FailStep, PublishStep, PassStep
    DEF NodeStep
<1>2. ASSUME NEW n \in Nodes, OtherLeaderReturns(n) PROVE BarrierInv'
  BY Zenon, <1>2, PathChosen
<1>3. CASE Cancel
  <2>1. Ends'
    BY Zenon, <1>3 DEF Cancel, BarrierInv, Ends, flow
  <2> QED
    BY Zenon, <1>3, <2>1, AnalyzeSteps DEF Cancel, BarrierInv, TypeOK
<1>4. CASE Return
  BY Zenon, <1>4, ReturnStep
<1>5. CASE UNCHANGED vars
  <2>1. Ends'
    BY Zenon, <1>5 DEF vars, graphVars, BarrierInv, Ends, Active, flow
  <2> QED
    BY Zenon, <1>5, <2>1, AnalyzeSteps DEF vars, graphVars, BarrierInv, TypeOK
<1> QED
  BY Zenon, <1>1, <1>2, <1>3, <1>4, <1>5 DEF Next

-----------------------------------------------------------------------------

\* The inductive invariant holds of every reachable state.
THEOREM BarrierInvariant == Spec => []BarrierInv
<1> QED
  BY BarrierInit, BarrierStep, PTL DEF Spec

\* Type correctness; in particular neither a reference count nor the count of
\* missing signals goes below zero.
THEOREM BarrierTypes == Spec => []TypeOK
<1>1. BarrierInv => TypeOK
  BY Zenon DEF BarrierInv
<1> QED
  BY <1>1, BarrierInvariant, PTL

\* awaitAllSignalled returns only when every package has been type-checked, has
\* failed or was a hit: no analyzer runs before.
THEOREM BarrierOpensLast == Spec => []TypecheckBeforeAnalyze
<1>1. BarrierInv => TypecheckBeforeAnalyze
  BY Zenon DEF BarrierInv, SignalsExact, Unsent, TypecheckBeforeAnalyze
<1> QED
  BY <1>1, BarrierInvariant, PTL

\* In a batch without joined computations or errors every summary was computed
\* from the summaries of all imports, although the counts are dropped, summaries
\* cleared and edges evicted while other packages still wait or analyse.
THEOREM BarrierSound == Spec => []SoundSummaries
<1>1. BarrierInv => SoundSummaries
  BY Zenon DEF BarrierInv, Relied, ReliedAt, SoundSummaries
<1> QED
  BY <1>1, BarrierInvariant, PTL

\* Analyze never panics on a root without a summary, and a nil error means that
\* every package was analysed and, undisturbed, captured.
THEOREM BarrierResult == Spec => []BatchComplete
<1>1. BarrierInv => BatchComplete
  <2> SUFFICES ASSUME BarrierInv PROVE BatchComplete
    BY Zenon
  <2>1. ASSUME analyze = "ok", Undisturbed PROVE captured = Nodes
    <3>1. \A n \in Nodes : n \in captured
      BY Zenon, <2>1 DEF BarrierInv, Ends, Relied, ReliedAt, Published
    <3> QED
      BY Zenon, <3>1 DEF BarrierInv, TypeOK
  <2> QED
    BY Zenon, <2>1 DEF BarrierInv, Ends, BatchComplete
<1> QED
  BY <1>1, BarrierInvariant, PTL


=============================================================================
