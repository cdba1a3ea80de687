-------------------------- MODULE GateProofs --------------------------
(***************************************************************************)
(* Safety of the two admission gates: analysisGate of                        *)
(* internal/gopls/cache/analysisgate.go, for every set of calls and packages *)
(* and every gate newAnalysisGate makes, and budgetGate of                   *)
(* internal/scheduler/rss.go, for every set of Acquire calls, every          *)
(* estimate, budget and concurrency cap.                                     *)
(***************************************************************************)
EXTENDS AnalysisGate, BudgetGate, FiniteSetTheorems, TLAPS

\* A call is counted under a rule only when it has been admitted.
RuledWhenAdmitted ==
    \A c \in Calls : pc[c] \in {"idle", "loop", "parked"} => rule[c] = "none"

\* The inductive invariant.
GateInv ==
    /\ TypeOK
    /\ SlotsExact
    /\ ClusterBound
    /\ RuledWhenAdmitted
    /\ ParkedOnlyWhenRefused

\* Counting calls: finite sets that gain or lose one element.
LEMMA CountCalls ==
  ASSUME NEW S, S \subseteq Calls, NEW c \in Calls
  PROVE  /\ IsFiniteSet(S)
         /\ Cardinality(S) \in Nat
         /\ c \notin S => Cardinality(S \cup {c}) = Cardinality(S) + 1
         /\ c \in S => Cardinality(S \ {c}) = Cardinality(S) - 1
         /\ c \in S => Cardinality(S) > 0
<1>1. IsFiniteSet(S)
  BY Zenon, FS_Subset, AnalysisGateAssumption
<1>2. Cardinality(S) \in Nat
  BY Zenon, <1>1, FS_CardinalityType
<1>3. c \notin S => Cardinality(S \cup {c}) = Cardinality(S) + 1
  BY Zenon, <1>1, FS_AddElement
<1>4. c \in S => Cardinality(S \ {c}) = Cardinality(S) - 1
  BY Zenon, <1>1, FS_RemoveElement
<1>5. c \in S => Cardinality(S) > 0
  BY <1>1, <1>2, FS_EmptySet
<1> QED
  BY Zenon, <1>1, <1>2, <1>3, <1>4, <1>5

\* Counting packages: the map has finitely many keys, a key more adds at most
\* one, and fewer keys are not more.
LEMMA CountPackages ==
  ASSUME NEW P, P \subseteq Packages
  PROVE  /\ Cardinality(P) \in Nat
         /\ \A p \in Packages : Cardinality(P \cup {p}) <= Cardinality(P) + 1
         /\ \A Q \in SUBSET P : Cardinality(Q) \in Nat /\ Cardinality(Q) <= Cardinality(P)
<1>1. IsFiniteSet(Packages)
  <2> DEFINE f == [c \in Calls |-> Pkg[c]]
  <2>1. f \in Surjection(Calls, Packages)
    BY Zenon DEF Surjection, Packages
  <2> HIDE DEF f
  <2> QED
    BY Zenon, <2>1, FS_Surjection, AnalysisGateAssumption
<1>2. IsFiniteSet(P)
  BY Zenon, <1>1, FS_Subset
<1>3. Cardinality(P) \in Nat
  BY Zenon, <1>2, FS_CardinalityType
<1>4. ASSUME NEW p \in Packages PROVE Cardinality(P \cup {p}) <= Cardinality(P) + 1
  <2>1. CASE p \in P
    <3>1. P \cup {p} = P
      BY Zenon, <2>1
    <3> QED
      BY <1>3, <3>1
  <2>2. CASE p \notin P
    <3>1. Cardinality(P \cup {p}) = Cardinality(P) + 1
      BY Zenon, <1>2, <2>2, FS_AddElement
    <3> QED
      BY <1>3, <3>1
  <2> QED
    BY Zenon, <2>1, <2>2
<1>5. ASSUME NEW Q \in SUBSET P PROVE Cardinality(Q) \in Nat /\ Cardinality(Q) <= Cardinality(P)
  BY Zenon, <1>2, FS_Subset, FS_CardinalityType
<1> QED
  BY Zenon, <1>3, <1>4, <1>5

\* A gate nobody has called.
LEMMA GateInit == Init => GateInv
<1> SUFFICES ASSUME Init PROVE GateInv
  BY Zenon
<1>1. TypeOK
  BY Zenon DEF Init, TypeOK
<1>2. gate.workerCap \in Nat /\ gate.maxInFlight \in Nat
  BY Zenon, AnalysisGateAssumption DEF Init
<1>3. Holders = {} /\ FellThrough = {} /\ InFlightPkgs = {}
  BY DEF Init, Holders, FellThrough, InFlightPkgs
<1>4. \A p \in Packages : HoldersOf(p) = {}
  BY Zenon, <1>3 DEF HoldersOf
<1>5. SlotsExact /\ ClusterBound
  BY <1>2, <1>3, <1>4, FS_EmptySet DEF Init, SlotsExact, ClusterBound
<1>6. RuledWhenAdmitted /\ ParkedOnlyWhenRefused
  BY Zenon DEF Init, RuledWhenAdmitted, ParkedOnlyWhenRefused
<1> QED
  BY Zenon, <1>1, <1>5, <1>6 DEF GateInv

\* Steps that admit and release nobody: the counters stand, and whoever is
\* parked afterwards was parked before or has just been refused.
LEMMA QuietKeeps ==
  ASSUME GateInv, TypeOK', gate' = gate,
         UNCHANGED <<workers, inFlight, rule>>,
         \A c \in Calls : pc'[c] = "holding" <=> pc[c] = "holding",
         \A c \in Calls : pc'[c] \in {"idle", "loop", "parked"} =>
                              pc[c] \in {"idle", "loop", "parked"},
         \A c \in Calls : pc'[c] = "parked" =>
             pc[c] = "parked" \/ ~SlotFree \/ AdmittedBy(c) = "none"
  PROVE  GateInv'
<1>1. Holders' = Holders /\ FellThrough' = FellThrough /\ InFlightPkgs' = InFlightPkgs
  BY Zenon DEF Holders, FellThrough, InFlightPkgs
<1>2. \A p : HoldersOf(p)' = HoldersOf(p)
  BY Zenon, <1>1 DEF HoldersOf
<1>3. SlotsExact'
  BY Zenon, <1>1, <1>2 DEF GateInv, SlotsExact
<1>4. ClusterBound'
  BY Zenon, <1>1 DEF GateInv, ClusterBound
<1>5. RuledWhenAdmitted'
  BY Zenon DEF GateInv, RuledWhenAdmitted
<1>6. ParkedOnlyWhenRefused'
  <2> SUFFICES ASSUME NEW c \in Calls, pc'[c] = "parked", SlotFree'
               PROVE  /\ gate'.maxInFlight > 0 /\ ~RoomInCluster'
                      /\ JoinsCluster(c)' =>
                           \E d \in HoldersOf(Pkg[c])' : rule'[d] = "fallthrough"
    BY Zenon DEF ParkedOnlyWhenRefused
  <2>1. SlotFree /\ (RoomInCluster' <=> RoomInCluster) /\ (JoinsCluster(c)' <=> JoinsCluster(c))
    BY Zenon, <1>1 DEF SlotFree, RoomInCluster, JoinsCluster
  <2>2. CASE pc[c] = "parked"
    BY Zenon, <1>2, <2>1, <2>2 DEF GateInv, ParkedOnlyWhenRefused
  <2>3. CASE AdmittedBy(c) = "none"
    <3>1. gate.maxInFlight \in Nat
      BY Zenon, AnalysisGateAssumption DEF GateInv, TypeOK
    <3> QED
      BY <2>1, <2>3, <3>1 DEF AdmittedBy
  <2> QED
    BY Zenon, <2>1, <2>2, <2>3
<1> QED
  BY Zenon, <1>3, <1>4, <1>5, <1>6 DEF GateInv


\* Rules (A) to (C) and the gate without clustering.
LEMMA AdmitKeeps ==
  ASSUME GateInv, gate' = gate, NEW c \in Calls, Admit(c)
  PROVE  GateInv'
<1>0. /\ pc[c] = "loop" /\ Pkg[c] \in Packages
      /\ gate.workerCap \in Nat /\ gate.maxInFlight \in Nat
      /\ AdmittedBy(c) \in {"new", "cluster", "fallthrough"}
  BY Zenon, AnalysisGateAssumption DEF GateInv, TypeOK, Admit, AdmittedBy, Packages
<1>1. TypeOK'
  BY <1>0 DEF GateInv, TypeOK, Admit, StopTimer, Forget
<1>2. c \notin Holders /\ Holders' = Holders \cup {c}
  BY Zenon, <1>0 DEF GateInv, TypeOK, Admit, Holders
<1>3. InFlightPkgs' = InFlightPkgs \cup {Pkg[c]} /\ InFlightPkgs \subseteq Packages
  BY <1>0 DEF GateInv, TypeOK, Admit, InFlightPkgs
<1>4. \A p \in Packages : HoldersOf(p)' = IF p = Pkg[c] THEN HoldersOf(p) \cup {c} ELSE HoldersOf(p)
  BY Zenon, <1>2 DEF HoldersOf
<1>5. SlotsExact'
  <2>1. Holders \subseteq Calls /\ \A p \in Packages : HoldersOf(p) \subseteq Calls /\ c \notin HoldersOf(p)
    BY Zenon, <1>2 DEF Holders, HoldersOf
  <2>2. Cardinality(Holders') = Cardinality(Holders) + 1
    BY Zenon, <1>2, <2>1, CountCalls
  <2>3. Cardinality(HoldersOf(Pkg[c]) \cup {c}) = Cardinality(HoldersOf(Pkg[c])) + 1
    BY Zenon, <1>0, <2>1, CountCalls
  <2>4. workers' = Cardinality(Holders') /\ workers' <= gate'.workerCap
    BY <1>0, <2>2 DEF GateInv, TypeOK, SlotsExact, Admit, SlotFree
  <2>5. ASSUME NEW p \in Packages PROVE inFlight'[p] = Cardinality(HoldersOf(p)')
    BY Zenon, <1>4, <2>3 DEF GateInv, TypeOK, SlotsExact, Admit
  <2> QED
    BY Zenon, <2>4, <2>5 DEF SlotsExact
<1>6. /\ Cardinality(InFlightPkgs) \in Nat /\ Cardinality(InFlightPkgs') \in Nat
      /\ Cardinality(InFlightPkgs') <= Cardinality(InFlightPkgs) + 1
      /\ Cardinality(InFlightPkgs) <= Cardinality(InFlightPkgs')
  <2>1. InFlightPkgs \in SUBSET InFlightPkgs' /\ InFlightPkgs' \subseteq Packages
    BY Zenon, <1>0, <1>3
  <2> QED
    BY Zenon, <1>0, <1>3, <2>1, CountPackages
<1>7. ClusterBound'
  <2> SUFFICES ASSUME gate.maxInFlight > 0
               PROVE  Cardinality(InFlightPkgs') <= gate.maxInFlight + Cardinality(FellThrough')
    BY Zenon DEF ClusterBound
  <2>1. FellThrough \subseteq Calls /\ FellThrough' \subseteq Calls
    BY Zenon DEF FellThrough
  <2>2. Cardinality(FellThrough) \in Nat /\ Cardinality(FellThrough') \in Nat
    BY Zenon, <2>1, CountCalls
  <2>3. c \notin FellThrough
    BY Zenon, <1>0 DEF GateInv, RuledWhenAdmitted, FellThrough
  <2>4. CASE AdmittedBy(c) = "fallthrough"
    <3>1. FellThrough' = FellThrough \cup {c}
      BY Zenon, <2>4 DEF FellThrough, Admit, GateInv, TypeOK
    <3>2. Cardinality(FellThrough') = Cardinality(FellThrough) + 1
      BY Zenon, <2>1, <2>3, <3>1, CountCalls
    <3> QED
      BY <1>0, <1>6, <2>2, <3>2 DEF GateInv, ClusterBound
  <2>5. CASE AdmittedBy(c) = "cluster"
    <3>1. FellThrough' = FellThrough
      BY Zenon, <2>3, <2>5 DEF FellThrough, Admit, GateInv, TypeOK
    <3>2. InFlightPkgs' = InFlightPkgs
      BY Zenon, <1>0, <1>3, <2>5 DEF AdmittedBy, JoinsCluster, InFlightPkgs
    <3> QED
      BY Zenon, <3>1, <3>2 DEF GateInv, ClusterBound
  <2>6. CASE AdmittedBy(c) = "new"
    <3>1. Cardinality(InFlightPkgs) < gate.maxInFlight
      BY <2>6 DEF AdmittedBy, RoomInCluster
    <3> QED
      BY <1>0, <1>6, <2>2, <3>1
  <2> QED
    BY Zenon, <1>0, <2>4, <2>5, <2>6
<1>8. RuledWhenAdmitted'
  BY Zenon, <1>0 DEF GateInv, TypeOK, RuledWhenAdmitted, Admit
<1>9. ParkedOnlyWhenRefused'
  <2> SUFFICES ASSUME NEW d \in Calls, pc'[d] = "parked", SlotFree'
               PROVE  /\ gate'.maxInFlight > 0 /\ ~RoomInCluster'
                      /\ JoinsCluster(d)' =>
                           \E e \in HoldersOf(Pkg[d])' : rule'[e] = "fallthrough"
    BY Zenon DEF ParkedOnlyWhenRefused
  <2>0. Pkg[d] \in Packages
    BY Zenon DEF Packages
  <2>1. d # c /\ pc[d] = "parked" /\ SlotFree
    BY Zenon, <1>0 DEF GateInv, TypeOK, Admit, SlotFree
  <2>2. /\ gate.maxInFlight > 0 /\ ~RoomInCluster
        /\ JoinsCluster(d) => \E e \in HoldersOf(Pkg[d]) : rule[e] = "fallthrough"
    BY Zenon, <2>1 DEF GateInv, ParkedOnlyWhenRefused
  <2>3. ~RoomInCluster'
    BY <1>0, <1>6, <2>2 DEF RoomInCluster
  <2>4. CASE JoinsCluster(d)
    <3>1. PICK e \in HoldersOf(Pkg[d]) : rule[e] = "fallthrough"
      BY Zenon, <2>2, <2>4
    <3>2. e \in HoldersOf(Pkg[d])' /\ e # c /\ e \in Calls
      BY Zenon, <1>2, <1>4, <2>0 DEF HoldersOf, Holders
    <3>3. rule'[e] = "fallthrough"
      BY Zenon, <3>1, <3>2 DEF GateInv, TypeOK, Admit
    <3> QED
      BY Zenon, <2>2, <2>3, <3>2, <3>3
  <2>5. CASE ~JoinsCluster(d) /\ Pkg[d] = Pkg[c]
    <3>1. AdmittedBy(c) = "fallthrough"
      BY <1>0, <2>2, <2>5 DEF AdmittedBy, JoinsCluster
    <3>2. c \in HoldersOf(Pkg[d])' /\ rule'[c] = "fallthrough"
      BY Zenon, <1>4, <2>0, <2>5, <3>1 DEF GateInv, TypeOK, Admit
    <3> QED
      BY Zenon, <2>2, <2>3, <3>2
  <2>6. CASE ~JoinsCluster(d) /\ Pkg[d] # Pkg[c]
    <3>1. ~JoinsCluster(d)'
      BY Zenon, <1>0, <2>0, <2>6 DEF JoinsCluster, Admit, GateInv, TypeOK
    <3> QED
      BY Zenon, <2>2, <2>3, <3>1
  <2> QED
    BY Zenon, <2>4, <2>5, <2>6
<1> QED
  BY Zenon, <1>1, <1>5, <1>7, <1>8, <1>9 DEF GateInv


\* The release closure wakes every parked call, so that nobody is left to be
\* refused.
LEMMA ReleaseKeeps ==
  ASSUME GateInv, gate' = gate, NEW c \in Calls, Release(c)
  PROVE  GateInv'
<1>0. pc[c] = "holding" /\ Pkg[c] \in Packages /\ c \in Holders /\ c \in HoldersOf(Pkg[c])
  BY Zenon DEF Release, Packages, Holders, HoldersOf
<1>1. Holders \subseteq Calls /\ \A p \in Packages : HoldersOf(p) \subseteq Calls
  BY Zenon DEF Holders, HoldersOf
<1>2. workers > 0 /\ inFlight[Pkg[c]] > 0
  BY Zenon, <1>0, <1>1, CountCalls DEF GateInv, SlotsExact
<1>3. /\ workers' = workers - 1
      /\ inFlight' = [inFlight EXCEPT ![Pkg[c]] = @ - 1]
  BY Zenon, <1>0, <1>2 DEF GateInv, TypeOK, Release, DropPackage
<1>4. TypeOK'
  <2>1. pc' \in [Calls -> {"idle", "loop", "parked", "holding", "refused", "released"}]
    BY Zenon DEF GateInv, TypeOK, Release, Broadcast
  <2>2. workers' \in Nat /\ inFlight' \in [Packages -> Nat]
    BY <1>0, <1>2, <1>3 DEF GateInv, TypeOK
  <2> QED
    BY Zenon, <2>1, <2>2 DEF GateInv, TypeOK, Release
<1>5. Holders' = Holders \ {c}
  BY Zenon DEF Holders, Release, Broadcast
<1>6. \A p \in Packages : HoldersOf(p)' = IF p = Pkg[c] THEN HoldersOf(p) \ {c} ELSE HoldersOf(p)
  BY Zenon, <1>5 DEF HoldersOf
<1>7. SlotsExact'
  <2>1. Cardinality(Holders') = Cardinality(Holders) - 1
    BY Zenon, <1>0, <1>1, <1>5, CountCalls
  <2>2. Cardinality(HoldersOf(Pkg[c]) \ {c}) = Cardinality(HoldersOf(Pkg[c])) - 1
    BY Zenon, <1>0, <1>1, CountCalls
  <2>3. gate.workerCap \in Nat
    BY Zenon, AnalysisGateAssumption DEF GateInv, TypeOK
  <2>4. workers' = Cardinality(Holders') /\ workers' <= gate'.workerCap
    BY <1>3, <2>1, <2>3 DEF GateInv, TypeOK, SlotsExact
  <2>5. ASSUME NEW p \in Packages PROVE inFlight'[p] = Cardinality(HoldersOf(p)')
    BY Zenon, <1>3, <1>6, <2>2 DEF GateInv, TypeOK, SlotsExact
  <2> QED
    BY Zenon, <2>4, <2>5 DEF SlotsExact
<1>8. ClusterBound'
  <2>1. FellThrough' = FellThrough /\ FellThrough \subseteq Calls
    BY Zenon DEF FellThrough, Release
  <2>2. InFlightPkgs' \in SUBSET InFlightPkgs /\ InFlightPkgs \subseteq Packages
    BY <1>0, <1>3 DEF InFlightPkgs, GateInv, TypeOK
  <2>3. /\ Cardinality(InFlightPkgs') \in Nat /\ Cardinality(InFlightPkgs) \in Nat
        /\ Cardinality(InFlightPkgs') <= Cardinality(InFlightPkgs)
    BY Zenon, <2>2, CountPackages
  <2>4. Cardinality(FellThrough) \in Nat /\ gate.maxInFlight \in Nat
    BY Zenon, <2>1, CountCalls, AnalysisGateAssumption DEF GateInv, TypeOK
  <2> QED
    BY <2>1, <2>3, <2>4 DEF GateInv, ClusterBound
<1>9. RuledWhenAdmitted'
  BY Zenon DEF GateInv, TypeOK, RuledWhenAdmitted, Release, Broadcast
<1>10. ParkedOnlyWhenRefused'
  BY Zenon DEF ParkedOnlyWhenRefused, Release, Broadcast
<1> QED
  BY Zenon, <1>4, <1>7, <1>8, <1>9, <1>10 DEF GateInv

\* Every critical section of the gate preserves the invariant.
LEMMA GateStep == GateInv /\ [Next]_<<gate, vars>> => GateInv'
<1> SUFFICES ASSUME GateInv, [Next]_<<gate, vars>> PROVE GateInv'
  BY Zenon
<1>1. ASSUME NEW c \in Calls, gate' = gate,
             \/ Enter(c) \/ LoopCancelled(c)
             \/ TimerFires(c) \/ DeadlinePasses(c)
             \/ WatcherBroadcast(c) \/ WatcherExits(c) \/ Cancel(c)
      PROVE  GateInv'
  <2>1. TypeOK'
    BY Zenon, <1>1 DEF GateInv, TypeOK, Enter, LoopCancelled, TimerFires, DeadlinePasses,
       WatcherBroadcast, WatcherExits, Cancel, Broadcast, StopTimer, Forget
  <2>2. UNCHANGED <<workers, inFlight, rule>>
    BY Zenon, <1>1 DEF Enter, LoopCancelled, TimerFires, DeadlinePasses, WatcherBroadcast,
       WatcherExits, Cancel
  <2>3. \A d \in Calls : /\ pc'[d] = "holding" <=> pc[d] = "holding"
                         /\ pc'[d] = "parked" => pc[d] = "parked"
                         /\ pc'[d] \in {"idle", "loop", "parked"} =>
                              pc[d] \in {"idle", "loop", "parked"}
    BY Zenon, <1>1 DEF GateInv, TypeOK, Enter, LoopCancelled, TimerFires, DeadlinePasses,
       WatcherBroadcast, WatcherExits, Cancel, Broadcast
  <2> QED
    BY Zenon, <1>1, <2>1, <2>2, <2>3, QuietKeeps
<1>2. ASSUME NEW c \in Calls, gate' = gate,
             ParkForSlot(c) \/ ParkForCluster(c) \/ ParkPastDeadline(c)
      PROVE  GateInv'
  <2>1. /\ pc[c] = "loop" /\ pc' = [pc EXCEPT ![c] = "parked"]
        /\ UNCHANGED <<workers, inFlight, rule, cancelled, watching>>
        /\ ~SlotFree \/ AdmittedBy(c) = "none"
    BY Zenon, <1>2 DEF ParkForSlot, ParkForCluster, ParkPastDeadline, Park
  <2>2. late' \subseteq Calls /\ timer' \subseteq Calls
    BY Zenon, <1>2 DEF ParkForSlot, ParkForCluster, ParkPastDeadline, StopTimer, GateInv, TypeOK
  <2>3. TypeOK'
    BY Zenon, <1>2, <2>1, <2>2 DEF GateInv, TypeOK
  <2>4. \A d \in Calls : /\ pc'[d] = "holding" <=> pc[d] = "holding"
                         /\ pc'[d] = "parked" =>
                              pc[d] = "parked" \/ ~SlotFree \/ AdmittedBy(d) = "none"
                         /\ pc'[d] \in {"idle", "loop", "parked"} =>
                              pc[d] \in {"idle", "loop", "parked"}
    BY Zenon, <2>1 DEF GateInv, TypeOK
  <2> QED
    BY Zenon, <1>2, <2>1, <2>3, <2>4, QuietKeeps
<1>3. CASE UNCHANGED <<gate, vars>>
  <2>1. TypeOK'
    BY Zenon, <1>3 DEF GateInv, TypeOK, vars
  <2> QED
    BY Zenon, <1>3, <2>1, QuietKeeps DEF vars
<1> QED
  BY Zenon, <1>1, <1>2, <1>3, AdmitKeeps, ReleaseKeeps DEF Next, AcquireStep

\* The invariant holds in every reachable state of the gate.
THEOREM GateInvariant == Spec => []GateInv
  BY GateInit, GateStep, PTL DEF Spec

\* The gate and its calls keep their types: no counter of a package or of the
\* workers goes below zero, whatever releases and refusals overlap.
THEOREM AnalysisTypes == Spec => []TypeOK
<1>1. GateInv => TypeOK
  BY Zenon DEF GateInv
<1> QED
  BY <1>1, GateInvariant, PTL

\* Both caps hold for every gate: the counters are the calls that hold it, and
\* packages beyond maxInFlight are no more than the calls that fell through.
THEOREM AnalysisCaps == Spec => []CapsKept
<1>1. GateInv => CapsKept
  BY Zenon DEF GateInv, CapsKept
<1> QED
  BY <1>1, GateInvariant, PTL

\* No wake-up is lost: acquire sleeps only while no slot is free or the cluster
\* is full, except for a package that a call which fell through has brought in.
THEOREM AnalysisNoLostWakeup == Spec => []ParkedOnlyWhenRefused
<1>1. GateInv => ParkedOnlyWhenRefused
  BY Zenon DEF GateInv
<1> QED
  BY <1>1, GateInvariant, PTL


\* A call that is parked, with or without a timer, will be woken: some call holds
\* the gate, and its release broadcasts.
WaiterHasWaker ==
    \A c \in Calls : pc[c] = "parked" => \E d \in Calls : pc[d] = "holding"

\* Nobody sleeps in acquire while the gate is empty (Rule (C) is not needed for
\* that, and neither is the timer).
THEOREM AnalysisWaker == Spec => []WaiterHasWaker
<1>1. GateInv => WaiterHasWaker
  <2> SUFFICES ASSUME GateInv, NEW c \in Calls, pc[c] = "parked", Holders = {} PROVE FALSE
    BY Zenon DEF WaiterHasWaker, Holders
  <2>1. gate.workerCap \in Nat \ {0} /\ gate.maxInFlight \in Nat
    BY Zenon, AnalysisGateAssumption DEF GateInv, TypeOK
  <2>2. workers = 0 /\ \A p \in Packages : inFlight[p] = 0
    BY Zenon, FS_EmptySet DEF GateInv, SlotsExact, HoldersOf
  <2>3. InFlightPkgs = {}
    BY <2>2 DEF InFlightPkgs
  <2>4. Cardinality(InFlightPkgs) = 0
    BY Zenon, <2>3, FS_EmptySet
  <2> QED
    BY <2>1, <2>2, <2>4 DEF GateInv, ParkedOnlyWhenRefused, SlotFree, RoomInCluster
<1> QED
  BY <1>1, GateInvariant, PTL

-------------------------------------------------------------------------------
(* The RSS-budget scheduler *)

\* The inductive invariant: the counters are the cardinalities of the sets of
\* calls they stand for, the budget holds, and whoever is parked is refused.
BudgetInv ==
    /\ BudgetTypeOK
    /\ SlotsConserved
    /\ WaitersCounted
    /\ BudgetRespected
    /\ ParkedOnlyWhenFull

\* A call that enters or leaves a set of calls changes its cardinality by one:
\* the counting fact behind inFlight++ / inFlight-- and waiting++ / waiting--.
LEMMA CountActions ==
  ASSUME NEW S, S \subseteq Actions, NEW a \in Actions
  PROVE  /\ IsFiniteSet(S)
         /\ Cardinality(S) \in Nat
         /\ a \notin S => Cardinality(S \cup {a}) = Cardinality(S) + 1
         /\ a \in S => Cardinality(S \ {a}) = Cardinality(S) - 1
         /\ a \in S => Cardinality(S) > 0
<1>0. IsFiniteSet(Actions)
  BY Zenon, BudgetAssumption
<1>1. IsFiniteSet(S)
  BY Zenon, <1>0, FS_Subset
<1>2. Cardinality(S) \in Nat
  BY Zenon, <1>1, FS_CardinalityType
<1>3. a \notin S => Cardinality(S \cup {a}) = Cardinality(S) + 1
  BY Zenon, <1>1, FS_AddElement
<1>4. a \in S => Cardinality(S \ {a}) = Cardinality(S) - 1
  BY Zenon, <1>1, FS_RemoveElement
<1>5. a \in S => Cardinality(S) > 0
  BY <1>1, <1>2, FS_EmptySet
<1> QED
  BY Zenon, <1>1, <1>2, <1>3, <1>4, <1>5

\* waiting-- of a call that comes out of cond.Wait keeps the count exact.
LEMMA LeaveWait ==
  ASSUME BudgetTypeOK, WaitersCounted, NEW a \in Actions, waiting' = StillWaiting(a),
         InWait' = IF bpc[a] = "woken" THEN InWait \ {a} ELSE InWait
  PROVE  waiting' = Cardinality(InWait') /\ waiting' \in Nat
<1>1. InWait \subseteq Actions
  BY Zenon DEF InWait
<1>2. CASE bpc[a] = "woken"
  <2>1. a \in InWait
    BY Zenon, <1>2 DEF InWait
  <2>2. Cardinality(InWait') = Cardinality(InWait) - 1 /\ Cardinality(InWait) > 0
    BY Zenon, <1>1, <1>2, <2>1, CountActions
  <2> QED
    BY <1>2, <2>2 DEF StillWaiting, WaitersCounted, BudgetTypeOK
<1>3. CASE bpc[a] # "woken"
  BY <1>3 DEF StillWaiting, WaitersCounted, BudgetTypeOK
<1> QED
  BY Zenon, <1>2, <1>3

\* newBudgetGate and an empty scheduler satisfy the invariant.
LEMMA BudgetInvInit == BudgetInit => BudgetInv
<1> SUFFICES ASSUME BudgetInit PROVE BudgetInv
  BY Zenon
<1> USE BudgetAssumption
<1>1. BudgetTypeOK
  BY Zenon DEF BudgetInit, BudgetTypeOK, Phases
<1>2. BudgetHolders = {} /\ InWait = {} /\ Parked = {}
  BY Zenon DEF BudgetInit, BudgetHolders, Parked, InWait
<1>3. SlotsConserved /\ WaitersCounted
  BY <1>2, FS_EmptySet DEF BudgetInit, SlotsConserved, WaitersCounted
<1>4. BudgetRespected /\ ParkedOnlyWhenFull
  BY <1>2 DEF BudgetInit, BudgetRespected, ParkedOnlyWhenFull
<1> QED
  BY Zenon, <1>1, <1>3, <1>4 DEF BudgetInv

\* Every critical section of the gate, every counter update and every
\* cancellation preserves the invariant.
LEMMA BudgetStep == BudgetInv /\ [BudgetNext]_budgetVars => BudgetInv'
<1> SUFFICES ASSUME BudgetInv, [BudgetNext]_budgetVars PROVE BudgetInv'
  BY Zenon
<1> USE BudgetAssumption
<1>a. BudgetTypeOK /\ SlotsConserved /\ WaitersCounted /\ BudgetRespected /\ ParkedOnlyWhenFull
  BY Zenon DEF BudgetInv
<1>1. ASSUME NEW a \in Actions, AcquireEnter(a) PROVE BudgetInv'
  <2>1. BudgetTypeOK'
    BY Zenon, <1>1, <1>a DEF AcquireEnter, BudgetTypeOK, Phases, budgetGate
  <2>2. BudgetHolders' = BudgetHolders /\ InWait' = InWait /\ Parked' = Parked
    BY Zenon, <1>1, <1>a DEF AcquireEnter, BudgetTypeOK, BudgetHolders, InWait, Parked
  <2> QED
    BY Zenon, <1>1, <1>a, <2>1, <2>2 DEF BudgetInv, AcquireEnter, budgetGate, SlotsConserved,
       WaitersCounted, BudgetRespected, ParkedOnlyWhenFull, CountOK, BytesOK
<1>2. ASSUME NEW a \in Actions, AcquireCancelled(a) PROVE BudgetInv'
  <2>1. BudgetHolders' = BudgetHolders /\ Parked' = Parked
    BY Zenon, <1>2, <1>a DEF AcquireCancelled, AtLoop, BudgetTypeOK, BudgetHolders, Parked
  <2>2. InWait' = IF bpc[a] = "woken" THEN InWait \ {a} ELSE InWait
    BY Zenon, <1>2, <1>a DEF AcquireCancelled, AtLoop, BudgetTypeOK, InWait
  <2>3. waiting' = Cardinality(InWait') /\ waiting' \in Nat
    BY Zenon, <1>2, <1>a, <2>2, LeaveWait DEF AcquireCancelled
  <2>4. BudgetTypeOK'
    BY Zenon, <1>2, <1>a, <2>3 DEF AcquireCancelled, BudgetTypeOK, Phases
  <2> QED
    BY Zenon, <1>2, <1>a, <2>1, <2>3, <2>4 DEF BudgetInv, AcquireCancelled, SlotsConserved,
       WaitersCounted, BudgetRespected, ParkedOnlyWhenFull, CountOK, BytesOK
<1>3. ASSUME NEW a \in Actions, BudgetAdmit(a) PROVE BudgetInv'
  <2>1. BudgetHolders' = BudgetHolders \cup {a} /\ a \notin BudgetHolders /\ Parked' = Parked
    BY Zenon, <1>3, <1>a DEF BudgetAdmit, AtLoop, BudgetTypeOK, BudgetHolders, Parked
  <2>2. InWait' = IF bpc[a] = "woken" THEN InWait \ {a} ELSE InWait
    BY Zenon, <1>3, <1>a DEF BudgetAdmit, AtLoop, BudgetTypeOK, InWait
  <2>3. waiting' = Cardinality(InWait') /\ waiting' \in Nat
    BY Zenon, <1>3, <1>a, <2>2, LeaveWait DEF BudgetAdmit
  <2>4. BudgetTypeOK'
    BY <1>3, <1>a, <2>3 DEF BudgetAdmit, BudgetTypeOK, Phases
  <2>5. SlotsConserved'
    <3>1. Cardinality(BudgetHolders') = Cardinality(BudgetHolders) + 1
      BY Zenon, <2>1, CountActions DEF BudgetHolders
    <3> QED
      BY <1>3, <1>a, <3>1 DEF BudgetAdmit, CountOK, SlotsConserved, BudgetTypeOK
  <2>6. BudgetRespected'
    BY <1>3, <1>a DEF BudgetAdmit, BytesOK, BudgetRespected, BudgetTypeOK
  <2>7. ParkedOnlyWhenFull'
    BY <1>3, <1>a, <2>1 DEF BudgetAdmit, ParkedOnlyWhenFull, CountOK, BytesOK,
       BudgetTypeOK, Parked
  <2> QED
    BY Zenon, <2>3, <2>4, <2>5, <2>6, <2>7 DEF BudgetInv, WaitersCounted
<1>4. ASSUME NEW a \in Actions, BudgetPark(a) PROVE BudgetInv'
  <2>1. BudgetHolders' = BudgetHolders /\ Parked' = Parked \cup {a}
    BY Zenon, <1>4, <1>a DEF BudgetPark, AtLoop, BudgetTypeOK, BudgetHolders, Parked
  <2>2. InWait' = InWait \cup {a} /\ (bpc[a] = "woken" <=> a \in InWait)
    BY Zenon, <1>4, <1>a DEF BudgetPark, AtLoop, BudgetTypeOK, InWait
  <2>3. waiting' = Cardinality(InWait') /\ waiting' \in Nat
    <3>1. CASE bpc[a] = "woken"
      <4>1. InWait' = InWait
        BY Zenon, <2>2, <3>1
      <4> QED
        BY <1>4, <1>a, <3>1, <4>1 DEF BudgetPark, StillWaiting, WaitersCounted, BudgetTypeOK
    <3>2. CASE bpc[a] # "woken"
      <4>1. Cardinality(InWait') = Cardinality(InWait) + 1
        BY Zenon, <2>2, <3>2, CountActions DEF InWait
      <4> QED
        BY <1>4, <1>a, <3>2, <4>1 DEF BudgetPark, StillWaiting, WaitersCounted, BudgetTypeOK
    <3> QED
      BY Zenon, <3>1, <3>2
  <2>4. BudgetTypeOK'
    BY Zenon, <1>4, <1>a, <2>3 DEF BudgetPark, BudgetTypeOK, Phases
  <2>5. ParkedOnlyWhenFull'
    BY Zenon, <1>4, <1>a, <2>1 DEF BudgetPark, ParkedOnlyWhenFull, CountOK, BytesOK
  <2> QED
    BY Zenon, <1>4, <1>a, <2>1, <2>3, <2>4, <2>5
       DEF BudgetInv, BudgetPark, SlotsConserved, WaitersCounted, BudgetRespected
<1>5. ASSUME NEW a \in Actions, BudgetWatcherBroadcast(a) PROVE BudgetInv'
  <2>1. BudgetHolders' = BudgetHolders /\ Parked' = {} /\ InWait' = InWait
    BY Zenon, <1>5, <1>a DEF BudgetWatcherBroadcast, BudgetBroadcast, BudgetTypeOK, BudgetHolders,
       Parked, InWait
  <2>2. BudgetTypeOK'
    BY Zenon, <1>5, <1>a DEF BudgetWatcherBroadcast, BudgetBroadcast, BudgetTypeOK, Phases, budgetGate
  <2> QED
    BY Zenon, <1>5, <1>a, <2>1, <2>2 DEF BudgetInv, BudgetWatcherBroadcast, budgetGate, SlotsConserved,
       WaitersCounted, BudgetRespected, ParkedOnlyWhenFull
<1>6. ASSUME NEW a \in Actions, Acquired(a) \/ Refused(a) PROVE BudgetInv'
  <2>1. BudgetHolders' = BudgetHolders /\ Parked' = Parked /\ InWait' = InWait
    BY Zenon, <1>6, <1>a DEF Acquired, Refused, BudgetTypeOK, BudgetHolders, Parked, InWait
  <2>2. BudgetTypeOK'
    BY Zenon, <1>6, <1>a DEF Acquired, Refused, BudgetTypeOK, Phases, budgetGate
  <2> QED
    BY Zenon, <1>6, <1>a, <2>1, <2>2 DEF BudgetInv, Acquired, Refused, budgetGate,
       SlotsConserved,
       WaitersCounted, BudgetRespected, ParkedOnlyWhenFull, CountOK, BytesOK
<1>7. ASSUME NEW a \in Actions, NEW f \in BOOLEAN, BudgetRelease(a, f) PROVE BudgetInv'
  <2>1. BudgetHolders' = BudgetHolders \ {a} /\ a \in BudgetHolders /\ Parked' = {} /\ InWait' = InWait
    BY Zenon, <1>7, <1>a DEF BudgetRelease, BudgetBroadcast, BudgetTypeOK, BudgetHolders, Parked,
       InWait
  <2>2. Cardinality(BudgetHolders') = Cardinality(BudgetHolders) - 1 /\ Cardinality(BudgetHolders) > 0
    BY Zenon, <2>1, CountActions DEF BudgetHolders
  <2>3. slots' = slots - 1 /\ slots' \in Nat /\ bytes' \in Nat /\ bytes' <= bytes
    BY <1>7, <1>a, <2>2 DEF BudgetRelease, GateRelease, SlotsConserved, BudgetTypeOK
  <2>4. BudgetTypeOK'
    BY Zenon, <1>7, <1>a, <2>3 DEF BudgetRelease, BudgetBroadcast, BudgetTypeOK, Phases, Contexts
  <2> QED
    BY <1>7, <1>a, <2>1, <2>2, <2>3, <2>4 DEF BudgetInv, BudgetRelease, SlotsConserved,
       WaitersCounted, BudgetRespected, ParkedOnlyWhenFull, BudgetTypeOK
<1>8. ASSUME NEW c \in Contexts, BudgetCancel(c) PROVE BudgetInv'
  BY Zenon, <1>8, <1>a DEF BudgetInv, BudgetCancel, budgetGate, BudgetTypeOK, SlotsConserved,
     BudgetHolders, WaitersCounted, InWait,
     BudgetRespected, ParkedOnlyWhenFull, Parked, CountOK, BytesOK
<1>9. ASSUME NEW a \in Actions, BudgetWatcherExits(a) PROVE BudgetInv'
  BY Zenon, <1>9, <1>a DEF BudgetInv, BudgetWatcherExits, budgetGate, BudgetTypeOK, SlotsConserved,
     BudgetHolders, WaitersCounted,
     InWait, BudgetRespected, ParkedOnlyWhenFull, Parked, CountOK,
     BytesOK
<1>10. CASE UNCHANGED budgetVars
  BY Zenon, <1>10, <1>a DEF BudgetInv, budgetVars, BudgetTypeOK, SlotsConserved, BudgetHolders,
     WaitersCounted, InWait,
     BudgetRespected, ParkedOnlyWhenFull, Parked, CountOK, BytesOK
<1> QED
  BY Zenon, <1>1, <1>2, <1>3, <1>4, <1>5, <1>6, <1>7, <1>8, <1>9, <1>10 DEF BudgetNext, BudgetAcquireStep

\* The invariant holds in every reachable state of the scheduler.
THEOREM BudgetInvariant == BudgetSpec => []BudgetInv
  BY BudgetInvInit, BudgetStep, PTL DEF BudgetSpec

\* The variables keep their types; in particular no counter goes below zero.
THEOREM BudgetTypes == BudgetSpec => []BudgetTypeOK
  BY BudgetInvariant, PTL DEF BudgetInv

\* acquire and release pair up and never exceed maxConcurrency.
THEOREM BudgetSlots == BudgetSpec => []SlotsConserved
  BY BudgetInvariant, PTL DEF BudgetInv

\* More than one action runs only within the byte budget.
THEOREM BudgetBytesKept == BudgetSpec => []BudgetRespected
  BY BudgetInvariant, PTL DEF BudgetInv

\* Both caps hold together, for every set of calls, estimates and contexts.
THEOREM BudgetCaps == BudgetSpec => []CapsRespected
<1>1. BudgetInv => CapsRespected
  BY Zenon DEF BudgetInv, CapsRespected
<1> QED
  BY <1>1, BudgetInvariant, PTL

\* No wake-up is lost: a parked call is one the gate would refuse now.
THEOREM BudgetNoLostWakeup == BudgetSpec => []ParkedOnlyWhenFull
  BY BudgetInvariant, PTL DEF BudgetInv

\* While a call is parked some action is in flight whose release will wake it.
THEOREM BudgetWaker == BudgetSpec => []BudgetWaiterHasWaker
<1>1. BudgetInv => BudgetWaiterHasWaker
  BY BudgetAssumption DEF BudgetInv, BudgetTypeOK, ParkedOnlyWhenFull, BudgetWaiterHasWaker,
     CountOK, BytesOK, Parked
<1> QED
  BY <1>1, BudgetInvariant, PTL
===============================================================================
