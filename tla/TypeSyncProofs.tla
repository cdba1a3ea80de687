--------------------------- MODULE TypeSyncProofs ---------------------------
(***************************************************************************)
(* Safety of the type-checking batches and of the elided lock, for every set *)
(* of calls, workers and snapshots. What holds for every plan of a process   *)
(* comes first; what needs a snapshot behind a barrier to be used by one call *)
(* (Orderly) follows.                                                        *)
(***************************************************************************)
EXTENDS TypeSync, FiniteSetTheorems, TLAPS



Referring == {"acquired", "running", "releasing"}

\* The calls that count in batchRef of a snapshot.
Refs(s) == {c \in Clients : Snap[c] = s /\ cpc[c] \in Referring}

\* A snapshot has a batch, until the release function has joined its writers.
Live(s) == \E c \in Clients : Snap[c] = s /\ cpc[c] \in Referring \cup {"joining"}

\* A batch is torn down by one call, after the last reference.
TearingAt(c) ==
    /\ c \in tearing <=> cpc[c] = "joining"
    /\ c \in tearing => /\ Refs(Snap[c]) = {}
                        /\ \A d \in tearing : Snap[d] = Snap[c] => d = c

\* A goroutine of a worker runs inside its call, a cache writer inside the batch;
\* a worker that closes a barrier knows which.
WorkerAt(w) ==
    /\ pc[w] \notin {"idle", "done"} => cpc[Client[w]] = "running"
    /\ store[w] # "none" => Live(SnapOf(w))
    /\ pc[w] = "closing" => at[w] \in Clients
    /\ pc[w] = "entering" => at[w] \in loadExited

\* What holds whatever calls share a snapshot.
BatchInv ==
    /\ TypeOK
    /\ \A s \in Snapshots : batchRef[s] = Cardinality(Refs(s))
    /\ \A c \in Clients : TearingAt(c)
    /\ \A w \in Workers : WorkerAt(w)

----------------------------------------------------------------------------
(* Batches, for every plan *)

\* What the counters need to know of finite sets.
LEMMA Counted ==
  \A S : IsFiniteSet(S) =>
     /\ Cardinality(S) \in Nat /\ (Cardinality(S) = 0 <=> S = {})
     /\ \A T \in SUBSET S : IsFiniteSet(T) /\ Cardinality(T) <= Cardinality(S)
     /\ \A x : x \notin S => Cardinality(S \cup {x}) = Cardinality(S) + 1
     /\ \A x \in S : Cardinality(S \ {x}) = Cardinality(S) - 1
     /\ \A f : IsFiniteSet({f[x] : x \in S})
<1> SUFFICES ASSUME NEW S, IsFiniteSet(S)
             PROVE  /\ Cardinality(S) \in Nat /\ (Cardinality(S) = 0 <=> S = {})
                    /\ \A T \in SUBSET S : IsFiniteSet(T) /\ Cardinality(T) <= Cardinality(S)
                    /\ \A x : x \notin S => Cardinality(S \cup {x}) = Cardinality(S) + 1
                    /\ \A x \in S : Cardinality(S \ {x}) = Cardinality(S) - 1
                    /\ \A f : IsFiniteSet({f[x] : x \in S})
  BY Zenon
<1>1. Cardinality(S) \in Nat /\ (Cardinality(S) = 0 <=> S = {})
  BY Zenon, FS_CardinalityType, FS_EmptySet
<1>2. \A T \in SUBSET S : IsFiniteSet(T) /\ Cardinality(T) <= Cardinality(S)
  BY Zenon, FS_Subset
<1>3. \A x : x \notin S => Cardinality(S \cup {x}) = Cardinality(S) + 1
  BY Zenon, FS_AddElement
<1>4. \A x \in S : Cardinality(S \ {x}) = Cardinality(S) - 1
  BY Zenon, FS_RemoveElement
<1>5. ASSUME NEW f PROVE IsFiniteSet({f[x] : x \in S})
  <2> DEFINE g == [x \in S |-> f[x]]
  <2>1. g \in Surjection(S, {f[x] : x \in S})
    BY Zenon DEF Surjection
  <2> HIDE DEF g
  <2> QED
    BY Zenon, <2>1, FS_Surjection
<1> QED
  BY Zenon, <1>1, <1>2, <1>3, <1>4, <1>5

\* What a plan says of calls and workers.
LEMMA PlanFacts ==
  ASSUME plan \in Plans
  PROVE  /\ \A w \in Workers : Client[w] \in Clients /\ SnapOf(w) \in Snapshots
         /\ \A c \in Clients : Snap[c] \in Snapshots
         /\ Analyzes \subseteq Clients
         /\ plan.barrier \in BOOLEAN
  BY Zenon, TypeSyncAssumption DEF Client, Snap, SnapOf, Analyzes

\* Counting calls: sets that gain or lose one.
LEMMA CountCalls ==
  ASSUME NEW S, S \subseteq Clients, NEW c
  PROVE  /\ IsFiniteSet(S)
         /\ Cardinality(S) \in Nat
         /\ c \notin S => Cardinality(S \cup {c}) = Cardinality(S) + 1
         /\ c \in S => Cardinality(S \ {c}) = Cardinality(S) - 1
         /\ c \in S => Cardinality(S) > 0
         /\ Cardinality(S) = 0 => S = {}
<1>1. IsFiniteSet(S)
  BY Zenon, TypeSyncAssumption, Counted
<1> QED
  BY <1>1, Counted

\* Before the first call there is no batch.
LEMMA BatchInit == Init => BatchInv
<1> SUFFICES ASSUME Init PROVE BatchInv
  BY Zenon
<1>1. TypeOK
  <2>1. pending \in [Clients -> Int]
    <3>1. \A c \in Clients : Cardinality(Of(c)) \in Nat
      BY Zenon, TypeSyncAssumption, Counted DEF Of
    <3> QED
      BY <3>1 DEF Init
  <2> QED
    BY <2>1 DEF Init, TypeOK
<1>2. \A s : Refs(s) = {}
  BY Zenon DEF Init, Refs, Referring
<1>3. \A s \in Snapshots : batchRef[s] = Cardinality(Refs(s))
  <2>1. Cardinality({}) = 0
    BY Zenon, TypeSyncAssumption, Counted
  <2> QED
    BY Zenon, <1>2, <2>1 DEF Init
<1>4. \A c \in Clients : TearingAt(c)
  BY Zenon DEF Init, TearingAt
<1>5. \A w \in Workers : WorkerAt(w)
  BY Zenon DEF Init, WorkerAt
<1> QED
  BY Zenon, <1>1, <1>3, <1>4, <1>5 DEF BatchInv

\* A step of a worker or of its cache writer leaves calls and batches alone.
LEMMA WorkerKeepsBatches ==
  ASSUME BatchInv, TypeOK', UNCHANGED <<plan, cpc, batchRef, tearing>>,
         NEW w \in Workers, WorkerAt(w)',
         \A v \in Workers \ {w} : pc'[v] = pc[v] /\ store'[v] = store[v] /\ at'[v] = at[v],
         loadExited \subseteq loadExited'
  PROVE  BatchInv'
<1>1. Client' = Client /\ Snap' = Snap /\ \A v : SnapOf(v)' = SnapOf(v)
  BY Zenon DEF Client, Snap, SnapOf
<1>2. \A s : Refs(s)' = Refs(s) /\ (Live(s)' <=> Live(s))
  BY Zenon, <1>1 DEF Refs, Live
<1>3. \A c \in Clients : TearingAt(c)'
  BY Zenon, <1>1, <1>2 DEF BatchInv, TearingAt
<1>4. ASSUME NEW v \in Workers, v # w PROVE WorkerAt(v)'
  BY Zenon, <1>1, <1>2, <1>4 DEF BatchInv, WorkerAt
<1> QED
  BY Zenon, <1>2, <1>3, <1>4 DEF BatchInv

\* A type check, up to its signal.
LEMMA CheckBatches ==
  ASSUME BatchInv, plan' = plan, NEW w \in Workers,
         StartTypeCheck(w) \/ StartWithoutWriting(w) \/ GiveUp(w) \/ Lock(w) \/ Unlock(w)
  PROVE  BatchInv'
<1> USE DEF Goto, batch, phases, lock, RLock, RUnlock
<1>0. /\ Client[w] \in Clients /\ SnapOf(w) \in Snapshots
      /\ SnapOf(w)' = SnapOf(w) /\ Client' = Client
  BY Zenon, PlanFacts DEF BatchInv, TypeOK, SnapOf, Client, Snap
<1>1. PICK q \in {"lock", "checked", "done", "writing"} :
        pc' = [pc EXCEPT ![w] = q]
  BY Zenon DEF StartTypeCheck, StartWithoutWriting, GiveUp, Lock, Unlock
<1>2. PICK l \in {"none", "queued", store[w]} : store' = [store EXCEPT ![w] = l]
  <2>1. store = [store EXCEPT ![w] = store[w]]
    BY Zenon DEF BatchInv, TypeOK
  <2> QED
    BY Zenon, <2>1 DEF StartTypeCheck, StartWithoutWriting, GiveUp, Lock, Unlock
<1>3. PICK b \in Clients \cup {NoBarrier} : at' = [at EXCEPT ![w] = b]
  <2>1. at = [at EXCEPT ![w] = at[w]] /\ at[w] \in Clients \cup {NoBarrier}
    BY Zenon DEF BatchInv, TypeOK
  <2>2. loadPhase[SnapOf(w)] \in Clients \cup {NoBarrier}
    BY Zenon, <1>0 DEF BatchInv, TypeOK
  <2> QED
    BY Zenon, <2>1, <2>2 DEF StartTypeCheck, StartWithoutWriting, GiveUp, Lock, Unlock
<1>4. UNCHANGED <<cpc, batchRef, claimed, loadPhase, tearing, aborted, pending, loadExited,
                  analyzeEntered, loadPhaseCount, analyzePhaseCount>>
  BY Zenon DEF StartTypeCheck, StartWithoutWriting, GiveUp, Lock, Unlock
<1>5. /\ held' \subseteq {"analyzer", "store"} \X Workers
      /\ leaked' \subseteq {"analyzer"} \X Workers
      /\ wantsLock' \subseteq Workers
  BY Zenon DEF BatchInv, TypeOK, StartTypeCheck, StartWithoutWriting, GiveUp, Lock, Unlock
<1>6. TypeOK'
  BY Zenon, <1>1, <1>2, <1>3, <1>4, <1>5 DEF BatchInv, TypeOK
<1>7. cpc[Client[w]] = "running"
  BY Zenon DEF BatchInv, WorkerAt, StartTypeCheck, StartWithoutWriting, GiveUp, Lock, Unlock
<1>8. WorkerAt(w)'
  <2>1. Live(SnapOf(w))'
    BY Zenon, <1>0, <1>4, <1>7 DEF Live, Referring, SnapOf, Client, Snap
  <2>2. pc'[w] = q
    BY Zenon, <1>1 DEF BatchInv, TypeOK
  <2> QED
    BY Zenon, <1>0, <1>4, <1>7, <2>1, <2>2 DEF WorkerAt
<1>9. \A v \in Workers \ {w} : pc'[v] = pc[v] /\ store'[v] = store[v] /\ at'[v] = at[v]
  BY Zenon, <1>1, <1>2, <1>3 DEF BatchInv, TypeOK
<1> QED
  BY Zenon, <1>4, <1>6, <1>8, <1>9, WorkerKeepsBatches

\* The way from the signal to the analyzer.
LEMMA BarrierBatches ==
  ASSUME BatchInv, plan' = plan, NEW w \in Workers,
         WaitForAnalyze(w) \/ PassBarrier(w) \/ StartAnalyzer(w)
  PROVE  BatchInv'
<1> USE DEF Goto, batch, phases, lock, RLock, RUnlock
<1>0. /\ Client[w] \in Clients /\ SnapOf(w) \in Snapshots
      /\ SnapOf(w)' = SnapOf(w) /\ Client' = Client
  BY Zenon, PlanFacts DEF BatchInv, TypeOK, SnapOf, Client, Snap
<1>1. PICK q \in {"barrier", "analyze", "done", "reading", "rlock"} :
        pc' = [pc EXCEPT ![w] = q]
  BY Zenon DEF WaitForAnalyze, PassBarrier, StartAnalyzer
<1>2. PICK l \in {"none", "queued", store[w]} : store' = [store EXCEPT ![w] = l]
  <2>1. store = [store EXCEPT ![w] = store[w]]
    BY Zenon DEF BatchInv, TypeOK
  <2> QED
    BY Zenon, <2>1 DEF WaitForAnalyze, PassBarrier, StartAnalyzer
<1>3. PICK b \in Clients \cup {NoBarrier} : at' = [at EXCEPT ![w] = b]
  <2>1. at = [at EXCEPT ![w] = at[w]] /\ at[w] \in Clients \cup {NoBarrier}
    BY Zenon DEF BatchInv, TypeOK
  <2>2. loadPhase[SnapOf(w)] \in Clients \cup {NoBarrier}
    BY Zenon, <1>0 DEF BatchInv, TypeOK
  <2> QED
    BY Zenon, <2>1, <2>2 DEF WaitForAnalyze, PassBarrier, StartAnalyzer
<1>4. UNCHANGED <<cpc, batchRef, claimed, loadPhase, tearing, aborted, pending, loadExited,
                  analyzeEntered, loadPhaseCount, analyzePhaseCount>>
  BY Zenon DEF WaitForAnalyze, PassBarrier, StartAnalyzer
<1>5. /\ held' \subseteq {"analyzer", "store"} \X Workers
      /\ leaked' \subseteq {"analyzer"} \X Workers
      /\ wantsLock' \subseteq Workers
  BY Zenon DEF BatchInv, TypeOK, WaitForAnalyze, PassBarrier, StartAnalyzer
<1>6. TypeOK'
  BY Zenon, <1>1, <1>2, <1>3, <1>4, <1>5 DEF BatchInv, TypeOK
<1>7. cpc[Client[w]] = "running"
  BY Zenon DEF BatchInv, WorkerAt, WaitForAnalyze, PassBarrier, StartAnalyzer
<1>8. WorkerAt(w)'
  <2>1. Live(SnapOf(w))'
    BY Zenon, <1>0, <1>4, <1>7 DEF Live, Referring, SnapOf, Client, Snap
  <2>2. pc'[w] = q
    BY Zenon, <1>1 DEF BatchInv, TypeOK
  <2> QED
    BY Zenon, <1>0, <1>4, <1>7, <2>1, <2>2 DEF WorkerAt
<1>9. \A v \in Workers \ {w} : pc'[v] = pc[v] /\ store'[v] = store[v] /\ at'[v] = at[v]
  BY Zenon, <1>1, <1>2, <1>3 DEF BatchInv, TypeOK
<1> QED
  BY Zenon, <1>4, <1>6, <1>8, <1>9, WorkerKeepsBatches

\* The analyzer, between RLock and RUnlock.
LEMMA AnalyzerBatches ==
  ASSUME BatchInv, plan' = plan, NEW w \in Workers,
         AnalyzerLocks(w) \/ EndAnalyzer(w) \/ AnalyzerPanics(w)
  PROVE  BatchInv'
<1> USE DEF Goto, batch, phases, lock, RLock, RUnlock
<1>0. /\ Client[w] \in Clients /\ SnapOf(w) \in Snapshots
      /\ SnapOf(w)' = SnapOf(w) /\ Client' = Client
  BY Zenon, PlanFacts DEF BatchInv, TypeOK, SnapOf, Client, Snap
<1>1. PICK q \in {"reading", "done"} :
        pc' = [pc EXCEPT ![w] = q]
  BY Zenon DEF AnalyzerLocks, EndAnalyzer, AnalyzerPanics
<1>2. PICK l \in {"none", "queued", store[w]} : store' = [store EXCEPT ![w] = l]
  <2>1. store = [store EXCEPT ![w] = store[w]]
    BY Zenon DEF BatchInv, TypeOK
  <2> QED
    BY Zenon, <2>1 DEF AnalyzerLocks, EndAnalyzer, AnalyzerPanics
<1>3. PICK b \in Clients \cup {NoBarrier} : at' = [at EXCEPT ![w] = b]
  <2>1. at = [at EXCEPT ![w] = at[w]] /\ at[w] \in Clients \cup {NoBarrier}
    BY Zenon DEF BatchInv, TypeOK
  <2>2. loadPhase[SnapOf(w)] \in Clients \cup {NoBarrier}
    BY Zenon, <1>0 DEF BatchInv, TypeOK
  <2> QED
    BY Zenon, <2>1, <2>2 DEF AnalyzerLocks, EndAnalyzer, AnalyzerPanics
<1>4. UNCHANGED <<cpc, batchRef, claimed, loadPhase, tearing, aborted, pending, loadExited,
                  analyzeEntered, loadPhaseCount, analyzePhaseCount>>
  BY Zenon DEF AnalyzerLocks, EndAnalyzer, AnalyzerPanics
<1>5. /\ held' \subseteq {"analyzer", "store"} \X Workers
      /\ leaked' \subseteq {"analyzer"} \X Workers
      /\ wantsLock' \subseteq Workers
  BY DEF BatchInv, TypeOK, AnalyzerLocks, EndAnalyzer, AnalyzerPanics
<1>6. TypeOK'
  BY Zenon, <1>1, <1>2, <1>3, <1>4, <1>5 DEF BatchInv, TypeOK
<1>7. cpc[Client[w]] = "running"
  BY Zenon DEF BatchInv, WorkerAt, AnalyzerLocks, EndAnalyzer, AnalyzerPanics
<1>8. WorkerAt(w)'
  <2>1. Live(SnapOf(w))'
    BY Zenon, <1>0, <1>4, <1>7 DEF Live, Referring, SnapOf, Client, Snap
  <2>2. pc'[w] = q
    BY Zenon, <1>1 DEF BatchInv, TypeOK
  <2> QED
    BY Zenon, <1>0, <1>4, <1>7, <2>1, <2>2 DEF WorkerAt
<1>9. \A v \in Workers \ {w} : pc'[v] = pc[v] /\ store'[v] = store[v] /\ at'[v] = at[v]
  BY Zenon, <1>1, <1>2, <1>3 DEF BatchInv, TypeOK
<1> QED
  BY Zenon, <1>4, <1>6, <1>8, <1>9, WorkerKeepsBatches

\* signalDone and the two halves of closeNow.
LEMMA SignalBatches ==
  ASSUME BatchInv, plan' = plan, NEW w \in Workers,
         Signal(w) \/ CloseExitsLoadPhase(w) \/ CloseEntersAnalyzePhase(w)
  PROVE  BatchInv'
<1> USE DEF Goto, batch, phases, lock
<1>0. /\ Client[w] \in Clients /\ SnapOf(w) \in Snapshots
      /\ SnapOf(w)' = SnapOf(w) /\ Client' = Client
      /\ at[w] \in Clients \cup {NoBarrier}
      /\ loadPhase[SnapOf(w)] \in Clients \cup {NoBarrier}
  BY Zenon, PlanFacts DEF BatchInv, TypeOK, SnapOf, Client, Snap
<1>1. UNCHANGED <<cpc, store, batchRef, claimed, loadPhase, tearing, aborted, held, leaked, wantsLock>>
  BY Zenon DEF Signal, CloseExitsLoadPhase, CloseEntersAnalyzePhase
<1>2. cpc[Client[w]] = "running"
  BY Zenon DEF BatchInv, WorkerAt, Signal, CloseExitsLoadPhase, CloseEntersAnalyzePhase
<1>3. Live(SnapOf(w))'
  BY Zenon, <1>0, <1>1, <1>2 DEF Live, Referring, SnapOf, Client, Snap
<1>4. CASE Signal(w)
  <2>1. PICK q \in {"done", "analyze", "closing", "signalled"} :
          /\ pc' = [pc EXCEPT ![w] = q]
          /\ q = "closing" => /\ loadPhase[SnapOf(w)] # NoBarrier
                              /\ at' = [at EXCEPT ![w] = loadPhase[SnapOf(w)]]
          /\ q # "closing" => at' = at
    BY Zenon, <1>4 DEF Signal
  <2>2. pending' \in [Clients -> Int]
    BY <1>0, <1>4 DEF Signal, BatchInv, TypeOK
  <2>3. UNCHANGED <<loadExited, analyzeEntered, loadPhaseCount, analyzePhaseCount>>
    BY Zenon, <1>4 DEF Signal
  <2>4. TypeOK'
    BY Zenon, <1>0, <1>1, <2>1, <2>2, <2>3 DEF BatchInv, TypeOK
  <2>5. WorkerAt(w)'
    BY Zenon, <1>0, <1>1, <1>2, <1>3, <2>1 DEF WorkerAt, BatchInv, TypeOK
  <2>6. \A v \in Workers \ {w} : pc'[v] = pc[v] /\ store'[v] = store[v] /\ at'[v] = at[v]
    BY Zenon, <1>1, <2>1 DEF BatchInv, TypeOK
  <2> QED
    BY Zenon, <1>1, <2>3, <2>4, <2>5, <2>6, WorkerKeepsBatches
<1>5. CASE CloseExitsLoadPhase(w)
  <2>1. at[w] \in Clients
    BY Zenon, <1>5 DEF CloseExitsLoadPhase, BatchInv, WorkerAt
  <2>2. TypeOK'
    BY <1>1, <1>5, <2>1 DEF CloseExitsLoadPhase, BatchInv, TypeOK
  <2>3. WorkerAt(w)'
    BY Zenon, <1>0, <1>1, <1>2, <1>3, <1>5 DEF CloseExitsLoadPhase, WorkerAt, BatchInv, TypeOK
  <2>4. \A v \in Workers \ {w} : pc'[v] = pc[v] /\ store'[v] = store[v] /\ at'[v] = at[v]
    BY Zenon, <1>1, <1>5 DEF CloseExitsLoadPhase, BatchInv, TypeOK
  <2> QED
    BY Zenon, <1>1, <1>5, <2>2, <2>3, <2>4, WorkerKeepsBatches DEF CloseExitsLoadPhase
<1>6. CASE CloseEntersAnalyzePhase(w)
  <2>1. at[w] \in loadExited
    BY Zenon, <1>6 DEF CloseEntersAnalyzePhase, BatchInv, WorkerAt
  <2>2. TypeOK'
    BY <1>1, <1>6, <2>1 DEF CloseEntersAnalyzePhase, BatchInv, TypeOK
  <2>3. WorkerAt(w)'
    BY Zenon, <1>0, <1>1, <1>2, <1>3, <1>6 DEF CloseEntersAnalyzePhase, WorkerAt, BatchInv, TypeOK
  <2>4. \A v \in Workers \ {w} : pc'[v] = pc[v] /\ store'[v] = store[v] /\ at'[v] = at[v]
    BY Zenon, <1>1, <1>6 DEF CloseEntersAnalyzePhase, BatchInv, TypeOK
  <2> QED
    BY Zenon, <1>1, <1>6, <2>2, <2>3, <2>4, WorkerKeepsBatches DEF CloseEntersAnalyzePhase
<1> QED
  BY Zenon, <1>4, <1>5, <1>6

\* A cache writer.
LEMMA StoreBatches ==
  ASSUME BatchInv, plan' = plan, NEW w \in Workers, StoreStep(w) \/ StoreLocks(w)
  PROVE  BatchInv'
<1> USE DEF StoreGoto, batch, phases
<1>0. SnapOf(w)' = SnapOf(w) /\ Client' = Client /\ Snap' = Snap
  BY Zenon DEF SnapOf, Client, Snap
<1>1. PICK l \in {"none", "exported", "rlock", "reading"} : store' = [store EXCEPT ![w] = l]
  BY Zenon DEF StoreStep, Export, StartStore, EndStore, StoreLocks
<1>2. /\ UNCHANGED <<cpc, pc, at, batchRef, claimed, loadPhase, tearing, pending, loadExited,
                     analyzeEntered, loadPhaseCount, analyzePhaseCount, leaked, wantsLock, aborted>>
      /\ store[w] # "none"
  BY Zenon DEF StoreStep, Export, StartStore, EndStore, StoreLocks
<1>3. held' \subseteq {"analyzer", "store"} \X Workers
  BY DEF BatchInv, TypeOK, StoreStep, Export, StartStore, EndStore, StoreLocks, RLock, RUnlock
<1>4. TypeOK'
  BY Zenon, <1>1, <1>2, <1>3 DEF BatchInv, TypeOK
<1>5. Live(SnapOf(w))'
  BY Zenon, <1>0, <1>2 DEF BatchInv, WorkerAt, Live
<1>6. WorkerAt(w)'
  BY Zenon, <1>0, <1>2, <1>5 DEF BatchInv, WorkerAt
<1>7. \A v \in Workers \ {w} : pc'[v] = pc[v] /\ store'[v] = store[v] /\ at'[v] = at[v]
  BY Zenon, <1>1, <1>2 DEF BatchInv, TypeOK
<1> QED
  BY Zenon, <1>2, <1>4, <1>6, <1>7, WorkerKeepsBatches

\* A call that moves on without leaving a batch or entering one.
LEMMA CallKeepsBatches ==
  ASSUME BatchInv, TypeOK', NEW c \in Clients, NEW q \in Referring, cpc[c] \in Referring,
         cpc' = [cpc EXCEPT ![c] = q],
         q # cpc[c] /\ cpc[c] = "running" => \A w \in Of(c) : pc[w] = "done",
         UNCHANGED <<plan, pc, store, at, batchRef, tearing>>, loadExited \subseteq loadExited'
  PROVE  BatchInv'
<1>0. Client' = Client /\ Snap' = Snap /\ \A v : SnapOf(v)' = SnapOf(v)
  BY Zenon DEF SnapOf, Client, Snap
<1>1. \A d \in Clients : cpc'[d] = IF d = c THEN q ELSE cpc[d]
  BY Zenon DEF BatchInv, TypeOK
<1>2. \A s : Refs(s)' = Refs(s) /\ (Live(s)' <=> Live(s))
  BY Zenon, <1>0, <1>1 DEF Refs, Live
<1>3. \A d \in Clients : TearingAt(d)'
  BY Zenon, <1>0, <1>1, <1>2 DEF BatchInv, TearingAt, Referring
<1>4. ASSUME NEW w \in Workers PROVE WorkerAt(w)'
  <2>1. Client[w] \in Clients
    BY Zenon, PlanFacts DEF BatchInv, TypeOK
  <2>2. pc[w] \notin {"idle", "done"} => cpc'[Client[w]] = "running"
    BY Zenon, <1>1, <2>1 DEF BatchInv, WorkerAt, Of
  <2> QED
    BY Zenon, <1>0, <1>2, <2>2 DEF BatchInv, WorkerAt
<1> QED
  BY Zenon, <1>2, <1>3, <1>4 DEF BatchInv

\* A call between the start of its batch and the release function.
LEMMA CallBatches ==
  ASSUME BatchInv, plan' = plan, NEW c \in Clients,
         InstallBarrier(c) \/ AnalyzeFails(c) \/ ReleaseAtTeardown(c)
  PROVE  BatchInv'
<1> USE DEF batch, phases, lock
<1>0. Snap[c] \in Snapshots
  BY Zenon, PlanFacts DEF BatchInv, TypeOK
<1>1. PICK q \in {"running", "releasing"} :
        /\ cpc' = [cpc EXCEPT ![c] = q]
        /\ cpc[c] \in Referring
        /\ cpc[c] = "running" => \A w \in Of(c) : pc[w] = "done"
  BY Zenon DEF InstallBarrier, AnalyzeFails, ReleaseAtTeardown, Referring
<1>2. UNCHANGED <<pc, at, store, batchRef, tearing, held, leaked, wantsLock, aborted, pending>>
  BY Zenon DEF InstallBarrier, AnalyzeFails, ReleaseAtTeardown
<1>3. /\ loadExited \subseteq loadExited' /\ loadExited' \subseteq Clients
      /\ analyzeEntered' \subseteq loadExited'
      /\ loadPhaseCount' \in Int /\ analyzePhaseCount' \in Int
  BY DEF InstallBarrier, AnalyzeFails, ReleaseAtTeardown, BatchInv, TypeOK
<1>4. loadPhase' \in [Snapshots -> Clients \cup {NoBarrier}]
  BY Zenon, <1>0 DEF InstallBarrier, AnalyzeFails, ReleaseAtTeardown, BatchInv, TypeOK
<1>5. claimed' \in [Snapshots -> BOOLEAN]
  <2>1. claimed' = claimed \/ claimed' = [claimed EXCEPT ![Snap[c]] = TRUE]
    BY Zenon DEF InstallBarrier, AnalyzeFails, ReleaseAtTeardown
  <2>2. claimed \in [Snapshots -> BOOLEAN] /\ TRUE \in BOOLEAN
    BY Zenon DEF BatchInv, TypeOK
  <2> QED
    BY <1>0, <2>1, <2>2, Zenon
<1>6. TypeOK'
  BY Zenon, <1>1, <1>2, <1>3, <1>4, <1>5 DEF BatchInv, TypeOK
<1> QED
  BY Zenon, <1>1, <1>2, <1>3, <1>6, CallKeepsBatches DEF Referring

\* acquireTypeChecking.
LEMMA AcquireBatches ==
  ASSUME BatchInv, plan' = plan, NEW c \in Clients, Acquire(c)
  PROVE  BatchInv'
<1> USE DEF batch, lock
<1>0. /\ Snap[c] \in Snapshots
      /\ Client' = Client /\ Snap' = Snap /\ \A v : SnapOf(v)' = SnapOf(v)
  BY Zenon, PlanFacts DEF BatchInv, TypeOK, Client, Snap, SnapOf
<1>1. PICK q \in {"acquired", "running"} : cpc' = [cpc EXCEPT ![c] = q]
  BY Zenon DEF Acquire
<1>2. \A d \in Clients : cpc'[d] = IF d = c THEN q ELSE cpc[d]
  BY Zenon, <1>1 DEF BatchInv, TypeOK
<1>3. /\ cpc[c] = "idle"
      /\ UNCHANGED <<pc, at, store, tearing, pending, loadExited, analyzeEntered,
                     analyzePhaseCount, held, leaked, wantsLock, aborted>>
      /\ batchRef' = [batchRef EXCEPT ![Snap[c]] = @ + 1]
      /\ \A d \in tearing : Snap[d] # Snap[c]
  BY Zenon DEF Acquire
<1>4. TypeOK'
  <2>1. claimed' \in [Snapshots -> BOOLEAN]
    <3>1. claimed' = claimed \/ claimed' = [claimed EXCEPT ![Snap[c]] = FALSE]
      BY Zenon DEF Acquire
    <3>2. claimed \in [Snapshots -> BOOLEAN] /\ FALSE \in BOOLEAN
      BY Zenon DEF BatchInv, TypeOK
    <3> QED
      BY <1>0, <3>1, <3>2, Zenon
  <2>2. loadPhase' \in [Snapshots -> Clients \cup {NoBarrier}] /\ loadPhaseCount' \in Int
    BY <1>0 DEF Acquire, BatchInv, TypeOK
  <2>3. batchRef' \in [Snapshots -> Nat]
    BY <1>0, <1>3 DEF BatchInv, TypeOK
  <2> QED
    BY Zenon, <1>1, <1>3, <2>1, <2>2, <2>3 DEF BatchInv, TypeOK
<1>5. /\ c \notin Refs(Snap[c]) /\ Refs(Snap[c])' = Refs(Snap[c]) \cup {c}
      /\ \A s \in Snapshots : s # Snap[c] => Refs(s)' = Refs(s)
  BY Zenon, <1>0, <1>2, <1>3 DEF Refs, Referring
<1>6. \A s \in Snapshots : batchRef'[s] = Cardinality(Refs(s)')
  <2>1. Cardinality(Refs(Snap[c])') = Cardinality(Refs(Snap[c])) + 1
    BY Zenon, <1>5, CountCalls DEF Refs
  <2> QED
    BY Zenon, <1>0, <1>3, <1>5, <2>1 DEF BatchInv, TypeOK
<1>7. ASSUME NEW d \in Clients PROVE TearingAt(d)'
  <2>1. d \in tearing => Snap[d] # Snap[c] /\ Snap[d] \in Snapshots
    BY Zenon, <1>3, PlanFacts DEF BatchInv, TypeOK
  <2>2. TearingAt(d)
    BY Zenon DEF BatchInv
  <2>3. d \in tearing' <=> cpc'[d] = "joining"
    BY Zenon, <1>2, <1>3, <2>1, <2>2 DEF TearingAt
  <2>4. d \in tearing' => Refs(Snap[d])' = {}
    BY Zenon, <1>0, <1>3, <1>5, <2>1, <2>2 DEF TearingAt
  <2> QED
    BY Zenon, <1>0, <1>3, <2>2, <2>3, <2>4 DEF TearingAt
<1>8. ASSUME NEW w \in Workers PROVE WorkerAt(w)'
  <2>1. Client[w] \in Clients
    BY Zenon, PlanFacts DEF BatchInv, TypeOK
  <2>2. \A s : Live(s) => Live(s)'
    BY Zenon, <1>0, <1>2, <1>3 DEF Live, Referring
  <2>3. pc[w] \notin {"idle", "done"} => cpc'[Client[w]] = "running"
    BY Zenon, <1>2, <1>3, <2>1 DEF BatchInv, WorkerAt
  <2> QED
    BY Zenon, <1>0, <1>3, <2>2, <2>3 DEF BatchInv, WorkerAt
<1> QED
  BY Zenon, <1>4, <1>6, <1>7, <1>8 DEF BatchInv

\* The release function: the last reference starts the teardown.
LEMMA ReleaseBatches ==
  ASSUME BatchInv, plan' = plan, NEW c \in Clients, Release(c)
  PROVE  BatchInv'
<1> USE DEF phases, lock
<1>0. /\ Snap[c] \in Snapshots
      /\ Client' = Client /\ Snap' = Snap /\ \A v : SnapOf(v)' = SnapOf(v)
  BY Zenon, PlanFacts DEF BatchInv, TypeOK, Client, Snap, SnapOf
<1>1. PICK q \in {"joining", "returned"} :
        /\ cpc' = [cpc EXCEPT ![c] = q]
        /\ q = "joining" => batchRef[Snap[c]] = 1 /\ tearing' = tearing \cup {c}
        /\ q = "returned" => batchRef[Snap[c]] # 1 /\ tearing' = tearing
  BY Zenon DEF Release
<1>2. \A d \in Clients : cpc'[d] = IF d = c THEN q ELSE cpc[d]
  BY Zenon, <1>1 DEF BatchInv, TypeOK
<1>3. /\ cpc[c] = "releasing"
      /\ UNCHANGED <<pc, at, store, claimed, loadPhase, pending, loadExited, analyzeEntered,
                     loadPhaseCount, analyzePhaseCount, held, leaked, wantsLock, aborted>>
      /\ batchRef' = [batchRef EXCEPT ![Snap[c]] = @ - 1]
      /\ \A d \in tearing : Snap[d] # Snap[c]
  BY Zenon DEF Release
<1>4. /\ c \in Refs(Snap[c]) /\ Refs(Snap[c])' = Refs(Snap[c]) \ {c}
      /\ \A s \in Snapshots : s # Snap[c] => Refs(s)' = Refs(s)
  BY Zenon, <1>0, <1>2, <1>3 DEF Refs, Referring
<1>5. /\ Refs(Snap[c]) \subseteq Clients /\ Refs(Snap[c])' \subseteq Clients
      /\ batchRef[Snap[c]] = Cardinality(Refs(Snap[c])) /\ batchRef[Snap[c]] \in Nat
  BY Zenon, <1>0 DEF Refs, BatchInv, TypeOK
<1>6. /\ Cardinality(Refs(Snap[c])') = batchRef[Snap[c]] - 1
      /\ batchRef[Snap[c]] > 0
  BY Zenon, <1>4, <1>5, CountCalls
<1>7. TypeOK'
  <2>1. batchRef' \in [Snapshots -> Nat]
    BY <1>0, <1>3, <1>5, <1>6 DEF BatchInv, TypeOK
  <2> QED
    BY Zenon, <1>1, <1>3, <2>1 DEF BatchInv, TypeOK
<1>8. \A s \in Snapshots : batchRef'[s] = Cardinality(Refs(s)')
  <2>1. \A s \in Snapshots : batchRef'[s] = IF s = Snap[c] THEN batchRef[s] - 1 ELSE batchRef[s]
    BY Zenon, <1>0, <1>3 DEF BatchInv, TypeOK
  <2>2. \A s \in Snapshots : batchRef[s] = Cardinality(Refs(s))
    BY Zenon DEF BatchInv
  <2> QED
    BY Zenon, <1>0, <1>4, <1>6, <2>1, <2>2
<1>9. q = "joining" => Refs(Snap[c])' = {}
  <2>1. Cardinality(Refs(Snap[c])') = 0 => Refs(Snap[c])' = {}
    BY Zenon, <1>5, CountCalls
  <2> QED
    BY <1>1, <1>6, <2>1
<1>10. q = "returned" => Refs(Snap[c])' # {}
  <2>1. Refs(Snap[c])' = {} => Cardinality(Refs(Snap[c])') = 0
    BY Zenon, TypeSyncAssumption, Counted
  <2> QED
    BY <1>1, <1>6, <2>1
<1>11. ASSUME NEW d \in Clients PROVE TearingAt(d)'
  <2>1. Snap[d] \in Snapshots
    BY Zenon, PlanFacts DEF BatchInv, TypeOK
  <2>2. CASE d = c
    BY Zenon, <1>0, <1>1, <1>2, <1>3, <1>9, <2>2 DEF BatchInv, TypeOK, TearingAt
  <2>3. CASE d # c
    <3>1. d \in tearing => Refs(Snap[d])' = Refs(Snap[d]) /\ Snap[d] # Snap[c]
      BY Zenon, <1>0, <1>3, <1>4, <2>1
    <3> QED
      BY Zenon, <1>0, <1>1, <1>2, <1>3, <2>3, <3>1 DEF BatchInv, TypeOK, TearingAt
  <2> QED
    BY Zenon, <2>2, <2>3
<1>12. \A s : Live(s) => Live(s)'
  <2> SUFFICES ASSUME NEW s, Live(s) PROVE Live(s)'
    BY Zenon
  <2>1. CASE q = "joining" \/ s # Snap[c]
    BY Zenon, <1>0, <1>2, <2>1 DEF Live
  <2>2. CASE q = "returned" /\ s = Snap[c]
    BY Zenon, <1>0, <1>10, <2>2 DEF Live, Refs
  <2> QED
    BY Zenon, <1>1, <2>1, <2>2
<1>13. ASSUME NEW w \in Workers PROVE WorkerAt(w)'
  <2>1. Client[w] \in Clients
    BY Zenon, PlanFacts DEF BatchInv, TypeOK
  <2>2. pc[w] \notin {"idle", "done"} => cpc'[Client[w]] = "running"
    BY Zenon, <1>2, <1>3, <2>1 DEF BatchInv, WorkerAt
  <2> QED
    BY Zenon, <1>0, <1>3, <1>12, <2>2 DEF BatchInv, WorkerAt
<1> QED
  BY Zenon, <1>7, <1>8, <1>11, <1>13 DEF BatchInv

\* storeWG.Wait and the end of the batch.
LEMMA JoinBatches ==
  ASSUME BatchInv, plan' = plan, NEW c \in Clients, JoinStores(c)
  PROVE  BatchInv'
<1> USE DEF lock
<1>0. /\ Snap[c] \in Snapshots
      /\ Client' = Client /\ Snap' = Snap /\ \A v : SnapOf(v)' = SnapOf(v)
  BY Zenon, PlanFacts DEF BatchInv, TypeOK, Client, Snap, SnapOf
<1>1. /\ cpc[c] = "joining" /\ StoresJoined(Snap[c])
      /\ tearing' = tearing \ {c} /\ cpc' = [cpc EXCEPT ![c] = "returned"]
      /\ UNCHANGED <<pc, at, store, batchRef, claimed, loadPhase, pending, loadExited,
                     analyzeEntered, analyzePhaseCount, held, leaked, wantsLock, aborted>>
  BY Zenon DEF JoinStores
<1>2. \A d \in Clients : cpc'[d] = IF d = c THEN "returned" ELSE cpc[d]
  BY Zenon, <1>1 DEF BatchInv, TypeOK
<1>3. TypeOK'
  BY <1>1 DEF BatchInv, TypeOK, JoinStores
<1>4. \A s : Refs(s)' = Refs(s)
  BY <1>0, <1>1, <1>2 DEF Refs, Referring
<1>5. \A d \in Clients : TearingAt(d)'
  BY Zenon, <1>0, <1>1, <1>2, <1>4 DEF BatchInv, TypeOK, TearingAt
<1>6. \A s : s # Snap[c] /\ Live(s) => Live(s)'
  BY Zenon, <1>0, <1>2 DEF Live
<1>7. ASSUME NEW w \in Workers PROVE WorkerAt(w)'
  <2>1. Client[w] \in Clients
    BY Zenon, PlanFacts DEF BatchInv, TypeOK
  <2>2. pc[w] \notin {"idle", "done"} => cpc'[Client[w]] = "running"
    BY Zenon, <1>1, <1>2, <2>1 DEF BatchInv, WorkerAt
  <2>3. store[w] # "none" => SnapOf(w) # Snap[c]
    BY Zenon, <1>1 DEF StoresJoined
  <2> QED
    BY Zenon, <1>0, <1>1, <1>6, <2>2, <2>3 DEF BatchInv, WorkerAt
<1> QED
  BY Zenon, <1>1, <1>3, <1>4, <1>5, <1>7 DEF BatchInv

\* A step that touches neither calls nor workers.
LEMMA QuietBatches ==
  ASSUME BatchInv, UNCHANGED <<plan, cpc, pc, at, store, batch, phases, lock>>,
         aborted' \subseteq Clients
  PROVE  BatchInv'
<1>0. Client' = Client /\ Snap' = Snap /\ \A v : SnapOf(v)' = SnapOf(v)
  BY Zenon DEF Client, Snap, SnapOf
<1>1. TypeOK'
  BY Zenon DEF BatchInv, TypeOK, batch, phases, lock
<1>2. \A s : Refs(s)' = Refs(s) /\ (Live(s)' <=> Live(s))
  BY Zenon, <1>0 DEF Refs, Live
<1>3. \A c \in Clients : TearingAt(c)'
  BY Zenon, <1>0, <1>2 DEF BatchInv, TearingAt, batch
<1>4. \A w \in Workers : WorkerAt(w)'
  BY Zenon, <1>0, <1>2 DEF BatchInv, WorkerAt, phases
<1> QED
  BY Zenon, <1>1, <1>2, <1>3, <1>4 DEF BatchInv, batch

\* Every step of a call, a worker or a cache writer keeps the batches in order.
LEMMA BatchStep == BatchInv /\ [Next]_vars => BatchInv'
<1> SUFFICES ASSUME BatchInv, [Next]_vars PROVE BatchInv'
  BY Zenon
<1>1. CASE UNCHANGED vars
  <2>1. aborted' \subseteq Clients
    BY Zenon, <1>1 DEF vars, running, BatchInv, TypeOK
  <2> QED
    BY Zenon, <1>1, <2>1, QuietBatches DEF vars, running
<1>2. ASSUME plan' = plan, NEW c \in Clients, Abort(c) PROVE BatchInv'
  <2>1. aborted' \subseteq Clients
    BY Zenon, <1>2 DEF Abort, BatchInv, TypeOK
  <2> QED
    BY Zenon, <1>2, <2>1, QuietBatches DEF Abort
<1>3. ASSUME plan' = plan, NEW c \in Clients, ClientStep(c) PROVE BatchInv'
  BY Zenon, <1>3, CallBatches, AcquireBatches, ReleaseBatches, JoinBatches DEF ClientStep
<1>4. ASSUME plan' = plan, NEW w \in Workers, WorkerStep(w) \/ Lock(w) \/ AnalyzerLocks(w)
      PROVE  BatchInv'
  BY Zenon, <1>4, CheckBatches, BarrierBatches, AnalyzerBatches, SignalBatches DEF WorkerStep
<1>5. ASSUME plan' = plan, NEW w \in Workers, StoreStep(w) \/ StoreLocks(w) PROVE BatchInv'
  BY Zenon, <1>5, StoreBatches
<1> QED
  BY Zenon, <1>1, <1>2, <1>3, <1>4, <1>5 DEF Next, Progress

\* Whatever calls share a snapshot, the reference count of its batch is the
\* number of calls between acquireTypeChecking and the release function, one
\* call at most tears it down, and every goroutine runs inside its batch.
THEOREM BatchInvariant == Spec => []BatchInv
  BY BatchInit, BatchStep, PTL DEF Spec

\* Calls, workers, batches and counters keep their types: no reference count
\* goes below zero.
THEOREM SyncTypes == Spec => []TypeOK
<1>1. BatchInv => TypeOK
  BY Zenon DEF BatchInv
<1> QED
  BY <1>1, BatchInvariant, PTL

\* The cache writes of a call have ended when it has returned and its batch is
\* gone (the join of storeWG in the release function), whatever calls share it.
THEOREM SyncWritesLanded == Spec => []WritesLanded
<1>1. BatchInv => WritesLanded
  <2> SUFFICES ASSUME BatchInv, NEW c \in Clients, batchRef[Snap[c]] = 0,
                      \A d \in tearing : Snap[d] # Snap[c],
                      NEW w \in Workers, SnapOf(w) = Snap[c]
               PROVE  store[w] = "none"
    BY Zenon DEF WritesLanded, StoresJoined
  <2>1. Refs(Snap[c]) = {}
    BY Zenon, PlanFacts, CountCalls DEF BatchInv, TypeOK, Refs
  <2>2. ~Live(Snap[c])
    BY Zenon, <2>1 DEF BatchInv, TearingAt, Live, Refs
  <2> QED
    BY Zenon, <2>2 DEF BatchInv, WorkerAt
<1> QED
  BY <1>1, BatchInvariant, PTL

----------------------------------------------------------------------------
(* Phases and the lock, for orderly plans *)

\* A snapshot behind a barrier is used by one call.
Orderly ==
    plan.barrier => \A c, d \in Clients : Snap[c] = Snap[d] => c = d

\* Workers of a call that have yet to signal; those that gave up never will.
Unsignalled(c) == {w \in Of(c) : pc[w] \in {"idle", "lock", "writing", "checked"}}

\* Which barrier the batch of a call has.
PhaseAt(c) ==
    /\ cpc[c] = "acquired" => WithBarrier(c)
    /\ cpc[c] = "acquired" \/ (cpc[c] \in Referring \cup {"joining"} /\ ~WithBarrier(c)) =>
         ~claimed[Snap[c]] /\ loadPhase[Snap[c]] = NoBarrier
    /\ cpc[c] = "running" /\ WithBarrier(c) =>
         claimed[Snap[c]] /\ loadPhase[Snap[c]] = c
    /\ cpc[c] \in {"releasing", "joining"} /\ WithBarrier(c) =>
         ~claimed[Snap[c]] \/ (loadPhase[Snap[c]] = c /\ c \in loadExited)

\* The barrier of a call: its count covers the missing signals, and it has left
\* the load phase only when none is missing.
BarrierAt(c) ==
    /\ pending[c] >= Cardinality(Unsignalled(c))
    /\ c \in loadExited => /\ WithBarrier(c)
                           /\ cpc[c] \notin {"idle", "acquired"}
                           /\ cpc[c] = "running" => pending[c] = 0

\* A worker that closes the barrier is the only one; whoever is past it found it
\* closed.
SignalAt(w) ==
    /\ pc[w] \in {"closing", "entering"} =>
         /\ at[w] = Client[w] /\ pending[Client[w]] = 0
         /\ Client[w] \notin analyzeEntered
         /\ \A v \in Workers : Client[v] = Client[w] /\ pc[v] \in {"closing", "entering"} => v = w
    /\ pc[w] \in {"closing", "entering", "signalled", "barrier"} => WithBarrier(Client[w])
    /\ pc[w] = "barrier" => at[w] = Client[w]
    /\ pc[w] \in {"analyze", "rlock", "reading"} /\ plan.barrier => pending[Client[w]] = 0

\* A reader holds the lock, or nobody of its batch will write any more.
LockAt(w) ==
    /\ pc[w] = "reading" => plan.barrier \/ <<"analyzer", w>> \in held
    /\ store[w] = "reading" => <<"store", w>> \in held \/ Client[w] \in loadExited
    /\ pc[w] = "writing" => held = {}

\* The snapshots whose batch is in its load phase, and the calls in their
\* analyze phase.
Loading == {s \in Snapshots : Live(s) /\ (~claimed[s] \/ loadPhase[s] \notin loadExited)}
Analyzing == {c \in analyzeEntered : cpc[c] = "running"}

Phased ==
    /\ \A c \in Clients : PhaseAt(c) /\ BarrierAt(c)
    /\ \A w \in Workers : SignalAt(w) /\ LockAt(w)
    /\ loadPhaseCount = Cardinality(Loading)
    /\ analyzePhaseCount = Cardinality(Analyzing)

PhaseInv == BatchInv /\ Orderly /\ Phased

\* The plan does not change, and neither does what it says.
LEMMA PlanKept ==
  ASSUME plan' = plan
  PROVE  /\ Client' = Client /\ Snap' = Snap /\ Analyzes' = Analyzes
         /\ \A c : Of(c)' = Of(c) /\ (WithBarrier(c)' <=> WithBarrier(c))
         /\ \A w : SnapOf(w)' = SnapOf(w)
         /\ Orderly' <=> Orderly
<1>1. Client' = Client /\ Snap' = Snap /\ Analyzes' = Analyzes
  BY Zenon DEF Client, Snap, Analyzes
<1>2. \A c : Of(c)' = Of(c) /\ (WithBarrier(c)' <=> WithBarrier(c))
  BY Zenon, <1>1 DEF Of, WithBarrier
<1>3. \A w : SnapOf(w)' = SnapOf(w)
  BY Zenon, <1>1 DEF SnapOf
<1>4. Orderly' <=> Orderly
  BY Zenon, <1>1 DEF Orderly
<1> QED
  BY Zenon, <1>1, <1>2, <1>3, <1>4

\* Counting batches: finitely many snapshots are used.
LEMMA CountSnapshots ==
  ASSUME NEW S, S \subseteq {Snap[c] : c \in Clients}, NEW s
  PROVE  /\ Cardinality(S) \in Nat
         /\ s \notin S => Cardinality(S \cup {s}) = Cardinality(S) + 1
         /\ s \in S => Cardinality(S \ {s}) = Cardinality(S) - 1
         /\ s \in S => Cardinality(S) > 0
<1>1. IsFiniteSet({Snap[c] : c \in Clients})
  BY TypeSyncAssumption, Counted
<1>2. IsFiniteSet(S)
  BY Zenon, <1>1, Counted
<1> QED
  BY <1>2, Counted

\* Only a snapshot that some call uses can be in its load phase.
LEMMA LoadingUsed == Loading \subseteq {Snap[c] : c \in Clients}
  BY Zenon DEF Loading, Live

\* Counting the workers that have yet to signal.
LEMMA CountUnsignalled ==
  ASSUME NEW c, NEW S, S \subseteq Unsignalled(c), NEW w
  PROVE  /\ Cardinality(Unsignalled(c)) \in Nat
         /\ Cardinality(S) \in Nat /\ Cardinality(S) <= Cardinality(Unsignalled(c))
         /\ w \in Unsignalled(c) =>
              /\ Cardinality(Unsignalled(c) \ {w}) = Cardinality(Unsignalled(c)) - 1
              /\ Cardinality(Unsignalled(c)) > 0
<1>1. IsFiniteSet(Unsignalled(c))
  BY Zenon, TypeSyncAssumption, Counted DEF Unsignalled, Of
<1> QED
  BY <1>1, Counted

\* A barrier whose count is down has had every signal it can get.
LEMMA ClosedMeansSignalled ==
  ASSUME PhaseInv, NEW c \in Clients, pending[c] = 0
  PROVE  Unsignalled(c) = {}
<1>1. \A w : w \in Unsignalled(c) => Cardinality(Unsignalled(c)) > 0
  BY Zenon, CountUnsignalled
<1>2. Cardinality(Unsignalled(c)) \in Nat
  BY Zenon, CountUnsignalled
<1>3. pending[c] >= Cardinality(Unsignalled(c))
  BY Zenon DEF PhaseInv, Phased, BarrierAt
<1> QED
  BY <1>1, <1>2, <1>3

\* The batch of a call that has not left its load phase is counted: an elided
\* RLock says that every batch has left it.
LEMMA LoadingCounted ==
  ASSUME PhaseInv, NEW c \in Clients, cpc[c] \in Referring \cup {"joining"}, c \notin loadExited
  PROVE  Snap[c] \in Loading /\ loadPhaseCount > 0
<1>1. Snap[c] \in Snapshots
  BY Zenon, PlanFacts DEF PhaseInv, Phased, BatchInv, TypeOK
<1>2. Live(Snap[c])
  BY Zenon DEF Live
<1>3. ~claimed[Snap[c]] \/ loadPhase[Snap[c]] \notin loadExited
  BY Zenon DEF PhaseInv, Phased, PhaseAt, Referring
<1>4. Snap[c] \in Loading
  BY Zenon, <1>1, <1>2, <1>3 DEF Loading
<1>5. Cardinality(Loading) > 0
  BY Zenon, <1>4, LoadingUsed, CountSnapshots
<1> QED
  BY Zenon, <1>4, <1>5 DEF PhaseInv, Phased

\* Before the first call no phase has begun.
LEMMA PhaseInit == Init /\ Orderly => PhaseInv
<1> SUFFICES ASSUME Init, Orderly PROVE PhaseInv
  BY Zenon
<1>1. BatchInv
  BY Zenon, BatchInit
<1>2. \A c \in Clients : PhaseAt(c)
  BY Zenon DEF Init, PhaseAt, Referring
<1>3. \A c \in Clients : BarrierAt(c)
  <2> SUFFICES ASSUME NEW c \in Clients PROVE BarrierAt(c)
    BY Zenon
  <2>1. Unsignalled(c) = Of(c)
    BY Zenon DEF Init, Unsignalled, Of
  <2>2. pending[c] = Cardinality(Unsignalled(c))
    BY Zenon, <2>1 DEF Init
  <2>3. Cardinality(Unsignalled(c)) \in Nat
    BY Zenon, CountUnsignalled
  <2> QED
    BY <2>2, <2>3 DEF Init, BarrierAt
<1>4. \A w \in Workers : SignalAt(w) /\ LockAt(w)
  BY Zenon DEF Init, SignalAt, LockAt
<1>5. Loading = {} /\ Analyzing = {}
  BY Zenon DEF Init, Loading, Live, Referring, Analyzing
<1>6. loadPhaseCount = Cardinality(Loading) /\ analyzePhaseCount = Cardinality(Analyzing)
  <2>1. Cardinality({}) = 0
    BY Zenon, TypeSyncAssumption, Counted
  <2> QED
    BY Zenon, <1>5, <2>1 DEF Init
<1> QED
  BY Zenon, <1>1, <1>2, <1>3, <1>4, <1>6 DEF PhaseInv, Phased

\* A step of a worker or a cache writer that leaves calls, batches and phases
\* alone and after which no more workers are to signal.
LEMMA PhasesKept ==
  ASSUME PhaseInv, UNCHANGED <<plan, cpc, batch, phases>>,
         \A v \in Workers : pc'[v] \in {"idle", "lock", "writing", "checked"} =>
                            pc[v] \in {"idle", "lock", "writing", "checked"},
         \A v \in Workers : SignalAt(v)' /\ LockAt(v)'
  PROVE  Phased'
<1>0. UNCHANGED <<batchRef, claimed, loadPhase, pending, loadExited, analyzeEntered,
                  loadPhaseCount, analyzePhaseCount>>
  BY Zenon DEF batch, phases
<1>1. \A c \in Clients : PhaseAt(c)'
  BY Zenon, <1>0, PlanKept DEF PhaseInv, Phased, PhaseAt
<1>2. ASSUME NEW c \in Clients PROVE BarrierAt(c)'
  <2>1. Unsignalled(c)' \subseteq Unsignalled(c)
    BY Zenon, PlanKept DEF Unsignalled, Of
  <2>2. /\ Cardinality(Unsignalled(c)') \in Nat /\ Cardinality(Unsignalled(c)) \in Nat
        /\ Cardinality(Unsignalled(c)') <= Cardinality(Unsignalled(c))
    BY Zenon, <2>1, CountUnsignalled
  <2>3. pending[c] \in Int
    BY Zenon DEF PhaseInv, Phased, BatchInv, TypeOK
  <2> QED
    BY <1>0, <2>2, <2>3, PlanKept DEF PhaseInv, Phased, BarrierAt
<1>3. Loading' = Loading /\ Analyzing' = Analyzing
  BY Zenon, <1>0, PlanKept DEF Loading, Live, Analyzing
<1> QED
  BY Zenon, <1>0, <1>1, <1>2, <1>3, PlanKept DEF PhaseInv, Phased

\* Where nothing of a worker changes, its place at the barrier and its lock stand.
LEMMA SignalElsewhere ==
  ASSUME PhaseInv, UNCHANGED <<plan, phases>>, NEW v \in Workers,
         pc'[v] = pc[v], at'[v] = at[v],
         \A u \in Workers : pc'[u] \in {"closing", "entering"} => pc'[u] = pc[u]
  PROVE  SignalAt(v)'
<1>1. UNCHANGED <<pending, analyzeEntered>> /\ plan'.barrier = plan.barrier
  BY Zenon DEF phases
<1> QED
  BY <1>1, PlanKept DEF PhaseInv, Phased, SignalAt

\* The lock of a worker nobody has touched: tokens of others come and go, and
\* none comes while somebody writes.
LEMMA LockElsewhere ==
  ASSUME PhaseInv, plan' = plan, NEW v \in Workers, pc'[v] = pc[v], store'[v] = store[v],
         loadExited \subseteq loadExited',
         \A r \in held : r \in held' \/ r \notin {<<"analyzer", v>>, <<"store", v>>},
         held' \subseteq held \/ Writing = {}
  PROVE  LockAt(v)'
  BY Zenon, PlanKept DEF PhaseInv, Phased, LockAt, Writing

\* Up to the type check.
LEMMA CheckPhases ==
  ASSUME PhaseInv, plan' = plan, NEW w \in Workers,
         \/ StartTypeCheck(w) \/ StartWithoutWriting(w) \/ GiveUp(w) \/ Lock(w) \/ Unlock(w)
  PROVE  Phased'
<1> USE DEF Goto
<1>1. PICK q \in {"lock", "checked", "done", "writing"} :
        /\ pc' = [pc EXCEPT ![w] = q]
        /\ q = "writing" => held = {}
  BY Zenon DEF StartTypeCheck, StartWithoutWriting, GiveUp, Lock, Unlock, LockFree
<1>2. PICK l \in {"none", "queued", store[w]} : store' = [store EXCEPT ![w] = l]
  <2>1. store = [store EXCEPT ![w] = store[w]]
    BY Zenon DEF PhaseInv, Phased, BatchInv, TypeOK
  <2> QED
    BY Zenon, <2>1 DEF StartTypeCheck, StartWithoutWriting, GiveUp, Lock, Unlock
<1>3. UNCHANGED <<at, cpc, batch, phases, held>> /\ pc[w] \in {"idle", "lock", "writing"}
  BY Zenon DEF StartTypeCheck, StartWithoutWriting, GiveUp, Lock, Unlock, lock
<1>4. \A v \in Workers : /\ pc'[v] = IF v = w THEN q ELSE pc[v]
                         /\ store'[v] = IF v = w THEN l ELSE store[v]
  BY Zenon, <1>1, <1>2 DEF PhaseInv, Phased, BatchInv, TypeOK
<1>5. ASSUME NEW v \in Workers PROVE SignalAt(v)'
  <2>1. CASE v = w
    BY Zenon, <1>4, <2>1 DEF SignalAt
  <2>2. CASE v # w
    BY Zenon, <1>3, <1>4, <2>2, SignalElsewhere
  <2> QED
    BY Zenon, <2>1, <2>2
<1>6. ASSUME NEW v \in Workers PROVE LockAt(v)'
  <2>1. CASE v = w
    BY Zenon, <1>1, <1>3, <1>4, <2>1, PlanKept DEF PhaseInv, Phased, LockAt, phases
  <2>2. CASE v # w
    BY Zenon, <1>3, <1>4, <2>2, LockElsewhere DEF phases
  <2> QED
    BY Zenon, <2>1, <2>2
<1> QED
  BY Zenon, <1>3, <1>4, <1>5, <1>6, PhasesKept

\* From the barrier to the end of the analyzer.
LEMMA AnalyzePhases ==
  ASSUME PhaseInv, plan' = plan, NEW w \in Workers,
         \/ WaitForAnalyze(w) \/ PassBarrier(w)
         \/ StartAnalyzer(w) \/ AnalyzerLocks(w) \/ EndAnalyzer(w) \/ AnalyzerPanics(w)
  PROVE  Phased'
<1> USE DEF Goto, RLock, RUnlock
<1>0. /\ Client[w] \in Clients /\ SnapOf(w) = Snap[Client[w]]
      /\ cpc[Client[w]] = "running"
  BY Zenon, PlanFacts DEF PhaseInv, Phased, BatchInv, TypeOK, WorkerAt, SnapOf, WaitForAnalyze, PassBarrier,
     StartAnalyzer, AnalyzerLocks, EndAnalyzer, AnalyzerPanics
<1>1. /\ UNCHANGED <<cpc, batch, phases, store>>
      /\ UNCHANGED <<pending, loadExited, loadPhase>>
  BY Zenon DEF WaitForAnalyze, PassBarrier, StartAnalyzer, AnalyzerLocks, EndAnalyzer, AnalyzerPanics,
     phases, batch
<1>2. PICK q \in {"barrier", "analyze", "done", "reading", "rlock"} :
        /\ pc' = [pc EXCEPT ![w] = q]
        /\ q = "barrier" => pc[w] = "signalled" /\ at' = [at EXCEPT ![w] = loadPhase[SnapOf(w)]]
        /\ q = "analyze" => pc[w] = "barrier" /\ pending[at[w]] <= 0
        /\ q = "rlock" => pc[w] = "analyze"
        /\ q = "reading" => /\ pc[w] \in {"analyze", "rlock"}
                            /\ Elides \/ <<"analyzer", w>> \in held'
  BY Zenon DEF WaitForAnalyze, PassBarrier, StartAnalyzer, AnalyzerLocks, EndAnalyzer, AnalyzerPanics, lock
<1>3. \A v \in Workers : pc'[v] = IF v = w THEN q ELSE pc[v]
  BY Zenon, <1>2 DEF PhaseInv, Phased, BatchInv, TypeOK
<1>4. /\ pc[w] \notin {"idle", "lock", "writing", "checked", "closing", "entering"}
      /\ \A v \in Workers \ {w} : at'[v] = at[v]
  <2>1. at \in [Workers -> Clients \cup {NoBarrier}]
    BY Zenon DEF PhaseInv, Phased, BatchInv, TypeOK
  <2>2. at' = at \/ \E b : at' = [at EXCEPT ![w] = b]
    BY Zenon DEF WaitForAnalyze, PassBarrier, StartAnalyzer, AnalyzerLocks, EndAnalyzer, AnalyzerPanics
  <2>3. pc[w] \in {"signalled", "barrier", "analyze", "rlock", "reading"}
    BY Zenon DEF WaitForAnalyze, PassBarrier, StartAnalyzer, AnalyzerLocks, EndAnalyzer, AnalyzerPanics
  <2> QED
    BY Zenon, <2>1, <2>2, <2>3
<1>5. /\ \A r \in held : r \in held' \/ r = <<"analyzer", w>>
      /\ held' \subseteq held \/ Writing = {}
  BY Zenon DEF WaitForAnalyze, PassBarrier, StartAnalyzer, AnalyzerLocks, EndAnalyzer, AnalyzerPanics,
     lock
<1>6. ASSUME NEW v \in Workers PROVE SignalAt(v)'
  <2>1. CASE v # w
    BY Zenon, <1>1, <1>3, <1>4, <2>1, SignalElsewhere
  <2>2. CASE v = w
    <3>1. CASE q = "barrier"
      <4>1. WithBarrier(Client[w])
        BY Zenon, <1>2, <3>1 DEF PhaseInv, Phased, SignalAt
      <4>2. loadPhase[SnapOf(w)] = Client[w]
        BY Zenon, <1>0, <4>1 DEF PhaseInv, Phased, PhaseAt
      <4>3. at'[w] = Client[w]
        BY Zenon, <1>2, <3>1, <4>2 DEF PhaseInv, Phased, BatchInv, TypeOK
      <4> QED
        BY Zenon, <1>3, <2>2, <3>1, <4>1, <4>3, PlanKept DEF SignalAt
    <3>2. CASE q \in {"analyze", "rlock", "reading"}
      <4>1. plan.barrier => pending[Client[w]] = 0
        <5>1. CASE q = "analyze"
          <6>1. at[w] = Client[w]
            BY Zenon, <1>2, <5>1 DEF PhaseInv, Phased, SignalAt
          <6>2. /\ pending[Client[w]] \in Int /\ pending[Client[w]] >= Cardinality(Unsignalled(Client[w]))
                /\ Cardinality(Unsignalled(Client[w])) \in Nat
            BY Zenon, <1>0, CountUnsignalled DEF PhaseInv, Phased, BatchInv, TypeOK, BarrierAt
          <6> QED
            BY <1>2, <5>1, <6>1, <6>2
        <5>2. CASE q \in {"rlock", "reading"}
          BY Zenon, <1>2, <5>2 DEF PhaseInv, Phased, SignalAt
        <5> QED
          BY Zenon, <3>2, <5>1, <5>2
      <4> QED
        BY Zenon, <1>1, <1>3, <2>2, <3>2, <4>1, PlanKept DEF SignalAt
    <3>3. CASE q = "done"
      BY Zenon, <1>3, <2>2, <3>3 DEF SignalAt
    <3> QED
      BY Zenon, <1>2, <3>1, <3>2, <3>3
  <2> QED
    BY Zenon, <2>1, <2>2
<1>7. ASSUME NEW v \in Workers PROVE LockAt(v)'
  <2>1. CASE v # w
    BY Zenon, <1>1, <1>3, <1>5, <2>1, LockElsewhere
  <2>2. CASE v = w
    <3>1. q = "reading" => plan.barrier \/ <<"analyzer", w>> \in held'
      <4>1. Elides => Client[w] \in loadExited
        BY <1>0, LoadingCounted DEF Elides, Referring
      <4>2. Client[w] \in loadExited => plan.barrier
        BY Zenon, <1>0 DEF PhaseInv, Phased, BarrierAt, WithBarrier
      <4> QED
        BY Zenon, <1>2, <4>1, <4>2
    <3>2. store[w] = "reading" => <<"store", w>> \in held' \/ Client[w] \in loadExited
      BY Zenon, <1>5 DEF PhaseInv, Phased, LockAt
    <3> QED
      BY Zenon, <1>1, <1>2, <1>3, <2>2, <3>1, <3>2, PlanKept DEF LockAt
  <2> QED
    BY Zenon, <2>1, <2>2
<1> QED
  BY Zenon, <1>1, <1>3, <1>4, <1>6, <1>7, PhasesKept

\* A cache writer: it elides the lock only when its own batch has left the load
\* phase, which no other call of the batch can have entered again.
LEMMA StorePhases ==
  ASSUME PhaseInv, plan' = plan, NEW w \in Workers, StoreStep(w) \/ StoreLocks(w)
  PROVE  Phased'
<1> USE DEF StoreGoto, RLock, RUnlock
<1>0. Client[w] \in Clients /\ SnapOf(w) = Snap[Client[w]]
  BY Zenon, PlanFacts DEF PhaseInv, Phased, BatchInv, TypeOK, SnapOf
<1>1. UNCHANGED <<cpc, pc, at, batch, phases>> /\ UNCHANGED loadExited /\ store[w] # "none"
  BY Zenon DEF StoreStep, Export, StartStore, EndStore, StoreLocks, phases
<1>2. PICK l \in {"none", "exported", "rlock", "reading"} :
        /\ store' = [store EXCEPT ![w] = l]
        /\ l = "reading" => Elides \/ <<"store", w>> \in held'
  BY Zenon DEF StoreStep, Export, StartStore, EndStore, StoreLocks
<1>3. \A v \in Workers : store'[v] = IF v = w THEN l ELSE store[v]
  BY Zenon, <1>2 DEF PhaseInv, Phased, BatchInv, TypeOK
<1>4. /\ \A r \in held : r \in held' \/ r = <<"store", w>>
      /\ held' \subseteq held \/ Writing = {}
  BY Zenon DEF StoreStep, Export, StartStore, EndStore, StoreLocks
<1>5. \A v \in Workers : SignalAt(v)'
  BY Zenon, <1>1, SignalElsewhere
<1>6. ASSUME NEW v \in Workers PROVE LockAt(v)'
  <2>1. CASE v # w
    BY Zenon, <1>1, <1>3, <1>4, <2>1, LockElsewhere
  <2>2. CASE v = w
    <3>1. Elides => Client[w] \in loadExited
      <4> SUFFICES ASSUME Elides PROVE Client[w] \in loadExited
        BY Zenon
      <4>1. PICK c \in Clients : Snap[c] = SnapOf(w) /\ cpc[c] \in Referring \cup {"joining"}
        BY Zenon, <1>1 DEF PhaseInv, Phased, BatchInv, WorkerAt, Live
      <4>2. c \in loadExited
        BY <4>1, LoadingCounted DEF Elides
      <4>3. plan.barrier
        BY Zenon, <4>2 DEF PhaseInv, Phased, BarrierAt, WithBarrier
      <4> QED
        BY Zenon, <1>0, <4>1, <4>2, <4>3 DEF PhaseInv, Phased, Orderly
    <3>2. pc[w] = "reading" => plan.barrier \/ <<"analyzer", w>> \in held'
      BY Zenon, <1>4 DEF PhaseInv, Phased, LockAt
    <3>3. pc[w] = "writing" => held' = {}
      BY Zenon, <1>4 DEF PhaseInv, Phased, LockAt, Writing
    <3> QED
      BY Zenon, <1>1, <1>2, <1>3, <2>2, <3>1, <3>2, <3>3, PlanKept DEF LockAt
  <2> QED
    BY Zenon, <2>1, <2>2
<1> QED
  BY Zenon, <1>1, <1>5, <1>6, PhasesKept

\* The barrier a worker finds at its batch is that of its own call.
LEMMA OwnBarrier ==
  ASSUME PhaseInv, NEW w \in Workers, pc[w] \notin {"idle", "done"}
  PROVE  /\ Client[w] \in Clients /\ cpc[Client[w]] = "running"
         /\ WithBarrier(Client[w]) => loadPhase[SnapOf(w)] = Client[w] /\ claimed[SnapOf(w)]
         /\ ~WithBarrier(Client[w]) => loadPhase[SnapOf(w)] = NoBarrier
<1>1. Client[w] \in Clients /\ SnapOf(w) = Snap[Client[w]]
  BY Zenon, PlanFacts DEF PhaseInv, Phased, BatchInv, TypeOK, SnapOf
<1>2. cpc[Client[w]] = "running"
  BY Zenon DEF PhaseInv, Phased, BatchInv, WorkerAt
<1> QED
  BY Zenon, <1>1, <1>2 DEF PhaseInv, Phased, PhaseAt, Referring

\* signalDone: the last of the workers of a call finds the count at one.
LEMMA SignalPhases ==
  ASSUME PhaseInv, plan' = plan, NEW w \in Workers, Signal(w)
  PROVE  Phased'
<1> USE DEF Goto
<1> DEFINE c == Client[w]
<1>0. /\ pc[w] = "checked"
      /\ UNCHANGED <<cpc, batch, store, loadExited, analyzeEntered, loadPhaseCount,
                     analyzePhaseCount, held>>
      /\ UNCHANGED <<claimed, loadPhase>>
  BY Zenon DEF Signal, lock, batch
<1>1. /\ c \in Clients /\ cpc[c] = "running"
      /\ WithBarrier(c) => loadPhase[SnapOf(w)] = c
      /\ ~WithBarrier(c) => loadPhase[SnapOf(w)] = NoBarrier
  BY Zenon, <1>0, OwnBarrier
<1>2. c # NoBarrier /\ (WithBarrier(c) => c \in Analyzes)
  BY Zenon, <1>1, TypeSyncAssumption DEF WithBarrier
<1>3. /\ w \in Unsignalled(c) /\ \A d \in Clients : d # c => w \notin Unsignalled(d)
      /\ pending[c] \in Int
  BY Zenon, <1>0, <1>1 DEF Unsignalled, Of, PhaseInv, Phased, BatchInv, TypeOK
<1>4. /\ pending[c] >= Cardinality(Unsignalled(c)) /\ Cardinality(Unsignalled(c)) \in Nat
      /\ Cardinality(Unsignalled(c)) > 0
      /\ Cardinality(Unsignalled(c) \ {w}) = Cardinality(Unsignalled(c)) - 1
  BY Zenon, <1>1, <1>3, CountUnsignalled DEF PhaseInv, Phased, BarrierAt
<1>5. pending[c] > 0 /\ c \notin loadExited /\ c \notin analyzeEntered
  <2>1. BarrierAt(c) /\ analyzeEntered \subseteq loadExited
    BY Zenon, <1>1 DEF PhaseInv, Phased, BatchInv, TypeOK
  <2>2. pending[c] > 0
    BY <1>3, <1>4
  <2> QED
    BY <1>1, <2>1, <2>2 DEF BarrierAt
<1>6. PICK q \in {"done", "analyze", "closing", "signalled"} :
        /\ pc' = [pc EXCEPT ![w] = q]
        /\ q \in {"closing", "signalled"} <=> WithBarrier(c)
        /\ WithBarrier(c) => pending' = [pending EXCEPT ![c] = @ - 1]
        /\ ~WithBarrier(c) => pending' = pending
        /\ q = "analyze" => ~plan.barrier
        /\ q = "closing" => pending[c] = 1 /\ at' = [at EXCEPT ![w] = c]
        /\ q # "closing" => at' = at
  BY Zenon, <1>1, <1>2 DEF Signal, WithBarrier
<1> HIDE DEF c
<1>7. \A v \in Workers : /\ pc'[v] = IF v = w THEN q ELSE pc[v]
                         /\ v # w => at'[v] = at[v]
                         /\ v = w /\ q = "closing" => at'[v] = c
  BY Zenon, <1>6 DEF PhaseInv, Phased, BatchInv, TypeOK
<1>8. /\ \A d \in Clients : d # c => pending'[d] = pending[d]
      /\ pending'[c] = IF WithBarrier(c) THEN pending[c] - 1 ELSE pending[c]
  BY Zenon, <1>1, <1>6 DEF PhaseInv, Phased, BatchInv, TypeOK
<1>9. \A d \in Clients : PhaseAt(d)'
  BY Zenon, <1>0, PlanKept DEF PhaseInv, Phased, PhaseAt
<1>10. ASSUME NEW d \in Clients PROVE BarrierAt(d)'
  <2>1. CASE d = c
    <3>1. Unsignalled(d)' = Unsignalled(c) \ {w}
      BY Zenon, <1>7, <2>1, PlanKept DEF Unsignalled, Of
    <3>2. pending'[c] >= Cardinality(Unsignalled(d)')
      BY <1>3, <1>4, <1>8, <3>1
    <3> QED
      BY Zenon, <1>0, <1>5, <2>1, <3>2 DEF BarrierAt
  <2>2. CASE d # c
    <3>1. Unsignalled(d)' = Unsignalled(d)
      BY Zenon, <1>3, <1>7, <2>2, PlanKept DEF Unsignalled, Of
    <3> QED
      BY Zenon, <1>0, <1>8, <2>2, <3>1, PlanKept DEF PhaseInv, Phased, BarrierAt
  <2> QED
    BY Zenon, <2>1, <2>2
<1>11. ASSUME NEW v \in Workers PROVE SignalAt(v)'
  <2>0. Client[v] \in Clients /\ plan'.barrier = plan.barrier /\ Client[w] = c
    BY Zenon, PlanFacts DEF PhaseInv, Phased, BatchInv, TypeOK, c
  <2>1. \A u \in Workers : pc[u] \in {"closing", "entering"} => Client[u] # c
    BY <1>5 DEF PhaseInv, Phased, SignalAt
  <2>2. CASE v = w
    <3>1. q = "closing" => pending'[c] = 0
      BY <1>6, <1>8
    <3> QED
      BY Zenon, <1>0, <1>5, <1>6, <1>7, <2>0, <2>1, <2>2, <3>1, PlanKept DEF SignalAt
  <2>3. CASE v # w
    <3>1. pc[v] \in {"closing", "entering"} => pending'[Client[v]] = 0
      BY Zenon, <1>8, <2>0, <2>1 DEF PhaseInv, Phased, SignalAt
    <3>2. pc[v] \in {"analyze", "rlock", "reading"} /\ plan.barrier => pending'[Client[v]] = 0
      BY <1>5, <1>8, <2>0 DEF PhaseInv, Phased, SignalAt
    <3>3. pc[v] \in {"closing", "entering"} =>
            \A u \in Workers : Client[u] = Client[v] /\ pc'[u] \in {"closing", "entering"} => u = v
      BY Zenon, <1>7, <2>0, <2>1, <2>3 DEF PhaseInv, Phased, SignalAt
    <3> QED
      BY Zenon, <1>0, <1>7, <2>0, <2>3, <3>1, <3>2, <3>3, PlanKept DEF PhaseInv, Phased, SignalAt
  <2> QED
    BY Zenon, <2>2, <2>3
<1>12. ASSUME NEW v \in Workers PROVE LockAt(v)'
  <2>1. CASE v = w
    BY Zenon, <1>0, <1>6, <1>7, <2>1, PlanKept DEF PhaseInv, Phased, LockAt
  <2>2. CASE v # w
    BY Zenon, <1>0, <1>7, <2>2, LockElsewhere
  <2> QED
    BY Zenon, <2>1, <2>2
<1>13. Loading' = Loading /\ Analyzing' = Analyzing
  BY Zenon, <1>0, PlanKept DEF Loading, Live, Analyzing
<1> QED
  BY Zenon, <1>0, <1>9, <1>10, <1>11, <1>12, <1>13, PlanKept DEF PhaseInv, Phased

\* closeNow leaves the load phase of the batch, once.
LEMMA CloseExitPhases ==
  ASSUME PhaseInv, plan' = plan, NEW w \in Workers, CloseExitsLoadPhase(w)
  PROVE  Phased'
<1> USE DEF Goto
<1> DEFINE c == Client[w]
<1>0. /\ pc[w] = "closing" /\ pc' = [pc EXCEPT ![w] = "entering"]
      /\ UNCHANGED <<cpc, store, at, pending, analyzeEntered, analyzePhaseCount, held>>
      /\ UNCHANGED <<claimed, loadPhase>>
  BY Zenon DEF CloseExitsLoadPhase, lock, batch
<1>1. /\ c \in Clients /\ cpc[c] = "running" /\ at[w] = c /\ WithBarrier(c)
      /\ pending[c] = 0 /\ c \notin analyzeEntered
      /\ Snap[c] = SnapOf(w) /\ Snap[c] \in Snapshots
      /\ loadPhase[Snap[c]] = c /\ claimed[Snap[c]]
  <2>1. SnapOf(w) = Snap[c] /\ at[w] = c /\ WithBarrier(c) /\ pending[c] = 0 /\ c \notin analyzeEntered
    BY Zenon, <1>0 DEF PhaseInv, Phased, SignalAt, SnapOf
  <2>2. c \in Clients /\ cpc[c] = "running" /\ loadPhase[Snap[c]] = c /\ claimed[Snap[c]]
    BY Zenon, <1>0, <2>1, OwnBarrier
  <2> QED
    BY Zenon, <2>1, <2>2, PlanFacts DEF PhaseInv, Phased, BatchInv, TypeOK
<1>2. /\ loadExited' = loadExited \cup {c}
      /\ loadPhaseCount' = loadPhaseCount - IF c \in loadExited THEN 0 ELSE 1
  BY Zenon, <1>1 DEF CloseExitsLoadPhase
<1>3. \A v \in Workers : pc'[v] = IF v = w THEN "entering" ELSE pc[v]
  BY Zenon, <1>0 DEF PhaseInv, Phased, BatchInv, TypeOK
<1>4. Client[w] = c
  BY Zenon
<1> HIDE DEF c
<1>5. \A d \in Clients : PhaseAt(d)'
  BY Zenon, <1>0, <1>2, PlanKept DEF PhaseInv, Phased, PhaseAt
<1>6. ASSUME NEW d \in Clients PROVE BarrierAt(d)'
  <2>1. Unsignalled(d)' = Unsignalled(d)
    BY <1>0, <1>3, PlanKept DEF Unsignalled, Of
  <2> QED
    BY Zenon, <1>0, <1>1, <1>2, <2>1, PlanKept DEF PhaseInv, Phased, BarrierAt
<1>7. ASSUME NEW v \in Workers PROVE SignalAt(v)'
  BY <1>0, <1>1, <1>3, <1>4, PlanKept DEF PhaseInv, Phased, SignalAt
<1>8. ASSUME NEW v \in Workers PROVE LockAt(v)'
  <2>1. LockAt(v) /\ store'[v] = store[v] /\ Client'[v] = Client[v] /\ plan'.barrier = plan.barrier
    BY Zenon, <1>0, PlanKept DEF PhaseInv, Phased
  <2>2. pc'[v] \in {"reading", "writing"} => pc'[v] = pc[v]
    BY Zenon, <1>3
  <2>3. loadExited \subseteq loadExited' /\ held' = held
    BY Zenon, <1>0, <1>2, <1>3
  <2> QED
    BY Zenon, <2>1, <2>2, <2>3 DEF LockAt
<1>9. Analyzing' = Analyzing
  BY Zenon, <1>0 DEF Analyzing
<1>10. Snap[c] \in Loading <=> c \notin loadExited
  BY Zenon, <1>1, LoadingCounted DEF Loading, Referring
<1>11. ASSUME NEW s \in Snapshots PROVE s \in Loading' <=> s \in Loading /\ s # Snap[c]
  <2>1. Live(s)' <=> Live(s)
    BY Zenon, <1>0, PlanKept DEF Live
  <2>2. CASE s = Snap[c]
    BY Zenon, <1>0, <1>1, <1>2, <2>2 DEF Loading
  <2>3. CASE s # Snap[c] /\ loadPhase[s] # c
    BY Zenon, <1>0, <1>2, <2>1, <2>3 DEF Loading
  <2>4. CASE s # Snap[c] /\ loadPhase[s] = c
    <3>1. Live(s) => ~claimed[s]
      <4> SUFFICES ASSUME NEW d \in Clients, Snap[d] = s, cpc[d] \in Referring \cup {"joining"}
                   PROVE ~claimed[s]
        BY Zenon DEF Live
      <4> QED
        BY Zenon, <2>4 DEF PhaseInv, Phased, PhaseAt, Referring
    <3> QED
      BY Zenon, <1>0, <1>2, <2>1, <2>4, <3>1 DEF Loading
  <2> QED
    BY Zenon, <2>2, <2>3, <2>4
<1>12. Loading' = Loading \ {Snap[c]}
  BY Zenon, <1>11 DEF Loading
<1>13. loadPhaseCount' = Cardinality(Loading')
  <2>1. CASE c \in loadExited
    <3>1. Loading' = Loading
      BY Zenon, <1>10, <1>12, <2>1
    <3>2. loadPhaseCount' = loadPhaseCount
      BY <1>2, <2>1 DEF PhaseInv, Phased, BatchInv, TypeOK
    <3> QED
      BY Zenon, <3>1, <3>2 DEF PhaseInv, Phased
  <2>2. CASE c \notin loadExited
    <3>1. Cardinality(Loading \ {Snap[c]}) = Cardinality(Loading) - 1
      BY Zenon, <1>10, <2>2, LoadingUsed, CountSnapshots
    <3> QED
      BY Zenon, <1>2, <1>12, <2>2, <3>1 DEF PhaseInv, Phased
  <2> QED
    BY Zenon, <2>1, <2>2
<1>14. analyzePhaseCount' = Cardinality(Analyzing')
  BY Zenon, <1>0, <1>9 DEF PhaseInv, Phased
<1> QED
  BY Zenon, <1>5, <1>6, <1>7, <1>8, <1>13, <1>14 DEF Phased

\* Counting calls in their analyze phase.
LEMMA CountAnalyzing ==
  ASSUME BatchInv, NEW c
  PROVE  /\ Cardinality(Analyzing) \in Nat
         /\ c \notin Analyzing => Cardinality(Analyzing \cup {c}) = Cardinality(Analyzing) + 1
         /\ c \in Analyzing => Cardinality(Analyzing \ {c}) = Cardinality(Analyzing) - 1
<1>1. IsFiniteSet(Analyzing)
  <2>1. Analyzing \subseteq Clients
    BY Zenon DEF Analyzing, BatchInv, TypeOK
  <2> QED
    BY Zenon, <2>1, TypeSyncAssumption, Counted
<1> QED
  BY Zenon, <1>1, Counted

\* closeNow enters the analyze phase, which no other worker of the call does.
LEMMA CloseEntersPhases ==
  ASSUME PhaseInv, plan' = plan, NEW w \in Workers, CloseEntersAnalyzePhase(w)
  PROVE  Phased'
<1> USE DEF Goto
<1> DEFINE c == Client[w]
<1>0. /\ pc[w] = "entering" /\ pc' = [pc EXCEPT ![w] = "signalled"]
      /\ at' = [at EXCEPT ![w] = NoBarrier]
      /\ UNCHANGED <<cpc, store, pending, loadExited, loadPhaseCount, held>>
      /\ UNCHANGED <<claimed, loadPhase>>
      /\ analyzePhaseCount' = analyzePhaseCount + 1
  BY Zenon DEF CloseEntersAnalyzePhase, lock, batch
<1>1. /\ c \in Clients /\ cpc[c] = "running" /\ at[w] = c /\ WithBarrier(c)
      /\ pending[c] = 0 /\ c \notin analyzeEntered
      /\ \A v \in Workers : Client[v] = c /\ pc[v] \in {"closing", "entering"} => v = w
  BY Zenon, <1>0, OwnBarrier DEF PhaseInv, Phased, SignalAt
<1>2. analyzeEntered' = analyzeEntered \cup {c}
  BY Zenon, <1>1 DEF CloseEntersAnalyzePhase
<1>3. \A v \in Workers : /\ pc'[v] = IF v = w THEN "signalled" ELSE pc[v]
                         /\ v # w => at'[v] = at[v]
  BY Zenon, <1>0 DEF PhaseInv, Phased, BatchInv, TypeOK
<1>4. Client[w] = c
  BY Zenon
<1> HIDE DEF c
<1>5. \A d \in Clients : PhaseAt(d)'
  BY Zenon, <1>0, PlanKept DEF PhaseInv, Phased, PhaseAt
<1>6. ASSUME NEW d \in Clients PROVE BarrierAt(d)'
  <2>1. Unsignalled(d)' = Unsignalled(d)
    BY <1>0, <1>3, PlanKept DEF Unsignalled, Of
  <2> QED
    BY Zenon, <1>0, <1>1, <2>1, PlanKept DEF PhaseInv, Phased, BarrierAt
<1>7. ASSUME NEW v \in Workers PROVE SignalAt(v)'
  BY <1>0, <1>1, <1>2, <1>3, <1>4, PlanKept DEF PhaseInv, Phased, SignalAt
<1>8. ASSUME NEW v \in Workers PROVE LockAt(v)'
  <2>1. LockAt(v) /\ store'[v] = store[v] /\ Client'[v] = Client[v] /\ plan'.barrier = plan.barrier
    BY Zenon, <1>0, PlanKept DEF PhaseInv, Phased
  <2>2. pc'[v] \in {"reading", "writing"} => pc'[v] = pc[v]
    BY Zenon, <1>3
  <2>3. loadExited \subseteq loadExited' /\ held' = held
    BY Zenon, <1>0, <1>3
  <2> QED
    BY Zenon, <2>1, <2>2, <2>3 DEF LockAt
<1>9. Analyzing' = Analyzing \cup {c} /\ c \notin Analyzing
  BY Zenon, <1>0, <1>1, <1>2 DEF Analyzing
<1>10. analyzePhaseCount' = Cardinality(Analyzing')
  BY Zenon, <1>0, <1>9, CountAnalyzing DEF PhaseInv, Phased
<1>11. Loading' = Loading
  BY Zenon, <1>0, PlanKept DEF Loading, Live
<1>12. loadPhaseCount' = Cardinality(Loading')
  BY Zenon, <1>0, <1>11 DEF PhaseInv, Phased
<1> QED
  BY Zenon, <1>5, <1>6, <1>7, <1>8, <1>10, <1>12 DEF Phased

\* A batch whose claim a barrier took over is the batch of the barrier's call.
LEMMA BarrierOwned ==
  ASSUME PhaseInv, NEW c \in Clients, NEW s, Live(s), claimed[s], loadPhase[s] = c
  PROVE  s = Snap[c]
<1>1. PICK d \in Clients : Snap[d] = s /\ cpc[d] \in Referring \cup {"joining"}
  BY Zenon DEF Live
<1> QED
  BY Zenon, <1>1 DEF PhaseInv, Phased, PhaseAt, Referring

\* A step of a call: workers and cache writers stay where they are.
LEMMA CallPhases ==
  ASSUME PhaseInv, plan' = plan, NEW c \in Clients,
         UNCHANGED <<pc, at, store, pending, held>>,
         \A d \in Clients : d # c => cpc'[d] = cpc[d],
         loadExited' \in {loadExited, loadExited \cup {c}},
         analyzeEntered' \in {analyzeEntered, analyzeEntered \cup {c}},
         \A w \in Workers : Client[w] = c => pc[w] \notin {"closing", "entering"},
         \A d \in Clients : PhaseAt(d)',
         c \in loadExited' => /\ WithBarrier(c) /\ cpc'[c] \notin {"idle", "acquired"}
                              /\ cpc'[c] = "running" => pending[c] = 0,
         loadPhaseCount' = Cardinality(Loading'),
         analyzePhaseCount' = Cardinality(Analyzing')
  PROVE  Phased'
<1>1. ASSUME NEW d \in Clients PROVE BarrierAt(d)'
  <2>1. Unsignalled(d)' = Unsignalled(d)
    BY Zenon, PlanKept DEF Unsignalled, Of
  <2>2. pending'[d] >= Cardinality(Unsignalled(d)')
    BY Zenon, <2>1 DEF PhaseInv, Phased, BarrierAt
  <2>3. CASE d = c
    BY Zenon, <2>2, <2>3, PlanKept DEF BarrierAt
  <2>4. CASE d # c
    BY Zenon, <2>2, <2>4, PlanKept DEF PhaseInv, Phased, BarrierAt
  <2> QED
    BY Zenon, <2>3, <2>4
<1>2. ASSUME NEW v \in Workers PROVE SignalAt(v)'
  BY PlanKept DEF PhaseInv, Phased, SignalAt
<1>3. ASSUME NEW v \in Workers PROVE LockAt(v)'
  BY Zenon, LockElsewhere
<1> QED
  BY Zenon, <1>1, <1>2, <1>3, PlanKept DEF PhaseInv, Phased

\* Analyze installs its barrier, or returns before that.
LEMMA InstallPhases ==
  ASSUME PhaseInv, plan' = plan, NEW c \in Clients, InstallBarrier(c)
  PROVE  Phased'
<1>0. /\ cpc[c] = "acquired" /\ cpc' = [cpc EXCEPT ![c] = "running"]
      /\ claimed' = [claimed EXCEPT ![Snap[c]] = TRUE]
      /\ loadPhase' = [loadPhase EXCEPT ![Snap[c]] = c]
      /\ UNCHANGED <<pc, at, store, pending, held>>
  BY Zenon DEF InstallBarrier, lock, phases
<1>1. /\ WithBarrier(c) /\ plan.barrier /\ c \notin loadExited /\ c \notin analyzeEntered
      /\ ~claimed[Snap[c]]
      /\ \A d \in Clients : Snap[d] = Snap[c] => d = c
  BY Zenon, <1>0 DEF PhaseInv, Phased, PhaseAt, BarrierAt, Orderly, WithBarrier, BatchInv, TypeOK
<1>2. /\ Snap[c] \in Snapshots
      /\ \A s \in Snapshots : /\ claimed'[s] = IF s = Snap[c] THEN TRUE ELSE claimed[s]
                              /\ loadPhase'[s] = IF s = Snap[c] THEN c ELSE loadPhase[s]
      /\ \A d \in Clients : cpc'[d] = IF d = c THEN "running" ELSE cpc[d]
  BY Zenon, <1>0, PlanFacts DEF PhaseInv, Phased, BatchInv, TypeOK
<1>3. \A w \in Workers : Client[w] = c => pc[w] \notin {"closing", "entering"}
  BY Zenon, <1>0 DEF PhaseInv, Phased, BatchInv, WorkerAt
<1>4. \/ loadExited' = loadExited \/ loadExited' = loadExited \cup {c}
  BY Zenon DEF InstallBarrier, phases
<1>5. ASSUME NEW d \in Clients PROVE PhaseAt(d)'
  <2>1. Snap[d] \in Snapshots
    BY Zenon, PlanFacts DEF PhaseInv, Phased, BatchInv, TypeOK
  <2>2. CASE d = c
    BY Zenon, <1>1, <1>2, <2>1, <2>2, PlanKept DEF PhaseAt
  <2>3. CASE d # c
    <3>1. PhaseAt(d) /\ Snap[d] # Snap[c]
      BY Zenon, <1>1, <2>3 DEF PhaseInv, Phased
    <3>2. /\ cpc'[d] = cpc[d] /\ claimed'[Snap[d]] = claimed[Snap[d]]
          /\ loadPhase'[Snap[d]] = loadPhase[Snap[d]] /\ (d \in loadExited' <=> d \in loadExited)
      BY Zenon, <1>2, <1>4, <2>1, <2>3, <3>1
    <3> QED
      BY Zenon, <3>1, <3>2, PlanKept DEF PhaseAt
  <2> QED
    BY Zenon, <2>2, <2>3
<1>6. Snap[c] \in Loading
  BY Zenon, <1>0, <1>1, LoadingCounted DEF Referring
<1>7. \A s : Live(s)' <=> Live(s)
  BY Zenon, <1>0, <1>2, PlanKept DEF Live, Referring
<1>8. CASE pending[c] > 0
  <2>1. UNCHANGED <<loadExited, analyzeEntered, loadPhaseCount, analyzePhaseCount>>
    BY Zenon, <1>8 DEF InstallBarrier, phases
  <2>2. \A s \in Snapshots : s \in Loading' <=> s \in Loading
    BY Zenon, <1>1, <1>2, <1>6, <1>7, <2>1 DEF Loading
  <2>3. Loading' = Loading
    BY Zenon, <2>2 DEF Loading
  <2>4. Analyzing' = Analyzing
    BY <1>0, <1>1, <1>2, <2>1 DEF Analyzing, PhaseInv, Phased, BatchInv, TypeOK
  <2>5. loadPhaseCount' = Cardinality(Loading') /\ analyzePhaseCount' = Cardinality(Analyzing')
    BY Zenon, <2>1, <2>3, <2>4 DEF PhaseInv, Phased
  <2> QED
    BY <1>0, <1>1, <1>2, <1>3, <1>5, <2>1, <2>5, CallPhases
<1>9. CASE ~(pending[c] > 0)
  <2>1. /\ loadExited' = loadExited \cup {c} /\ analyzeEntered' = analyzeEntered \cup {c}
        /\ loadPhaseCount' = loadPhaseCount - 1 /\ analyzePhaseCount' = analyzePhaseCount + 1
    BY Zenon, <1>9 DEF InstallBarrier, phases
  <2>2. pending[c] = 0
    <3>1. Cardinality(Unsignalled(c)) \in Nat /\ pending[c] \in Int
      BY Zenon, CountUnsignalled DEF PhaseInv, Phased, BatchInv, TypeOK
    <3> QED
      BY <1>9, <3>1 DEF PhaseInv, Phased, BarrierAt
  <2>3. ASSUME NEW s \in Snapshots PROVE s \in Loading' <=> s \in Loading /\ s # Snap[c]
    <3>1. CASE s = Snap[c]
      BY Zenon, <1>2, <2>1, <3>1 DEF Loading
    <3>2. CASE s # Snap[c]
      <4>1. Live(s) /\ claimed[s] => loadPhase[s] # c
        BY Zenon, <3>2, BarrierOwned
      <4> QED
        BY Zenon, <1>2, <1>7, <2>1, <3>2, <4>1 DEF Loading
    <3> QED
      BY Zenon, <3>1, <3>2
  <2>4. Loading' = Loading \ {Snap[c]}
    BY Zenon, <2>3 DEF Loading
  <2>5. Cardinality(Loading \ {Snap[c]}) = Cardinality(Loading) - 1
    BY Zenon, <1>6, LoadingUsed, CountSnapshots
  <2>6. Analyzing' = Analyzing \cup {c} /\ c \notin Analyzing
    BY <1>0, <1>1, <1>2, <2>1 DEF Analyzing, PhaseInv, Phased, BatchInv, TypeOK
  <2>7. Cardinality(Analyzing \cup {c}) = Cardinality(Analyzing) + 1
    BY Zenon, <2>6, CountAnalyzing DEF PhaseInv, Phased
  <2>8. loadPhaseCount' = Cardinality(Loading') /\ analyzePhaseCount' = Cardinality(Analyzing')
    BY Zenon, <2>1, <2>4, <2>5, <2>6, <2>7 DEF PhaseInv, Phased
  <2> QED
    BY <1>0, <1>1, <1>2, <1>3, <1>5, <2>1, <2>2, <2>8, CallPhases
<1> QED
  BY Zenon, <1>8, <1>9

\* The deferred releaseAtTeardown, and the return before a barrier was installed.
LEMMA TeardownPhases ==
  ASSUME PhaseInv, plan' = plan, NEW c \in Clients,
         AnalyzeFails(c) \/ ReleaseAtTeardown(c)
  PROVE  Phased'
<1>0. /\ cpc[c] \in {"acquired", "running"} /\ cpc' = [cpc EXCEPT ![c] = "releasing"]
      /\ cpc[c] = "running" => \A w \in Of(c) : pc[w] = "done"
      /\ UNCHANGED <<pc, at, store, pending, held, claimed, loadPhase, analyzeEntered>>
  BY Zenon DEF AnalyzeFails, ReleaseAtTeardown, lock, phases, batch
<1>1. Snap[c] \in Snapshots /\ \A d \in Clients : cpc'[d] = IF d = c THEN "releasing" ELSE cpc[d]
  BY Zenon, <1>0, PlanFacts DEF PhaseInv, Phased, BatchInv, TypeOK
<1>2. \A w \in Workers : Client[w] = c => pc[w] \notin {"closing", "entering"}
  BY Zenon, <1>0 DEF PhaseInv, Phased, BatchInv, WorkerAt, Of
<1>3. \A s : Live(s)' <=> Live(s)
  BY Zenon, <1>0, <1>1, PlanKept DEF Live, Referring
<1>4. Analyzing' = Analyzing \ {c}
  BY Zenon, <1>0, <1>1 DEF Analyzing, PhaseInv, Phased, BatchInv, TypeOK
<1>5. c \in Analyzing <=> cpc[c] = "running" /\ c \in analyzeEntered
  BY Zenon DEF Analyzing
<1>6. c \in analyzeEntered => c \in loadExited
  BY Zenon DEF PhaseInv, Phased, BatchInv, TypeOK
<1>7. c \in loadExited => WithBarrier(c) /\ cpc[c] = "running"
  BY Zenon, <1>0 DEF PhaseInv, Phased, BarrierAt
<1>8. CASE cpc[c] = "running" /\ WithBarrier(c) /\ c \notin loadExited
  <2>1. /\ loadExited' = loadExited \cup {c} /\ loadPhaseCount' = loadPhaseCount - 1
        /\ analyzePhaseCount' = analyzePhaseCount
    BY Zenon, <1>8 DEF AnalyzeFails, ReleaseAtTeardown
  <2>2. ASSUME NEW s \in Snapshots PROVE s \in Loading' <=> s \in Loading /\ s # Snap[c]
    <3>1. CASE s = Snap[c]
      BY Zenon, <1>0, <1>8, <2>1, <3>1 DEF Loading, PhaseInv, Phased, PhaseAt
    <3>2. CASE s # Snap[c]
      <4>1. Live(s) /\ claimed[s] => loadPhase[s] # c
        BY Zenon, <3>2, BarrierOwned
      <4> QED
        BY Zenon, <1>0, <1>3, <2>1, <3>2, <4>1 DEF Loading
    <3> QED
      BY Zenon, <3>1, <3>2
  <2>3. Loading' = Loading \ {Snap[c]}
    BY Zenon, <2>2 DEF Loading
  <2>4. Snap[c] \in Loading
    BY Zenon, <1>8, LoadingCounted DEF Referring
  <2>5. Cardinality(Loading \ {Snap[c]}) = Cardinality(Loading) - 1
    BY Zenon, <2>4, LoadingUsed, CountSnapshots
  <2>6. Analyzing' = Analyzing
    BY Zenon, <1>4, <1>5, <1>6, <1>8
  <2>7. loadPhaseCount' = Cardinality(Loading') /\ analyzePhaseCount' = Cardinality(Analyzing')
    BY Zenon, <2>1, <2>3, <2>5, <2>6 DEF PhaseInv, Phased
  <2>8. ASSUME NEW d \in Clients PROVE PhaseAt(d)'
    BY <1>0, <1>1, <1>8, <2>1, PlanKept DEF PhaseInv, Phased, PhaseAt
  <2> QED
    BY <1>0, <1>1, <1>2, <1>8, <2>1, <2>7, <2>8, CallPhases
<1>9. CASE ~(cpc[c] = "running" /\ WithBarrier(c) /\ c \notin loadExited)
  <2>1. /\ UNCHANGED <<loadExited, loadPhaseCount>>
        /\ c \notin Analyzing => analyzePhaseCount' = analyzePhaseCount
        /\ c \in Analyzing => analyzePhaseCount' = analyzePhaseCount - 1
    BY <1>5, <1>6, <1>7, <1>9 DEF AnalyzeFails, ReleaseAtTeardown, phases, PhaseInv, Phased, BatchInv, TypeOK
  <2>2. Loading' = Loading
    BY Zenon, <1>0, <1>3, <2>1 DEF Loading
  <2>3. analyzePhaseCount' = Cardinality(Analyzing')
    <3>1. CASE c \in Analyzing
      BY Zenon, <1>4, <2>1, <3>1, CountAnalyzing DEF PhaseInv, Phased
    <3>2. CASE c \notin Analyzing
      <4>1. Analyzing' = Analyzing
        BY Zenon, <1>4, <3>2
      <4> QED
        BY Zenon, <2>1, <3>2, <4>1 DEF PhaseInv, Phased
    <3> QED
      BY Zenon, <3>1, <3>2
  <2>4. loadPhaseCount' = Cardinality(Loading')
    BY Zenon, <2>1, <2>2 DEF PhaseInv, Phased
  <2>5. ASSUME NEW d \in Clients PROVE PhaseAt(d)'
    <3>1. PhaseAt(d) /\ cpc'[d] = IF d = c THEN "releasing" ELSE cpc[d]
      BY Zenon, <1>1 DEF PhaseInv, Phased
    <3>2. CASE d # c
      BY Zenon, <1>0, <2>1, <3>1, <3>2, PlanKept DEF PhaseAt
    <3>3. CASE d = c
      BY <1>0, <1>9, <2>1, <3>1, <3>3, PlanKept DEF PhaseAt, Referring
    <3> QED
      BY Zenon, <3>2, <3>3
  <2> QED
    BY <1>0, <1>1, <1>2, <1>7, <2>1, <2>3, <2>4, <2>5, CallPhases
<1> QED
  BY Zenon, <1>8, <1>9

\* The release function: the batch lives on until its writers are joined.
LEMMA ReleasePhases ==
  ASSUME PhaseInv, plan' = plan, NEW c \in Clients, Release(c),
         batchRef'[Snap[c]] = Cardinality(Refs(Snap[c])')
  PROVE  Phased'
<1>0. /\ cpc[c] = "releasing"
      /\ UNCHANGED <<pc, at, store, pending, held, claimed, loadPhase, loadExited, analyzeEntered,
                     loadPhaseCount, analyzePhaseCount>>
      /\ batchRef' = [batchRef EXCEPT ![Snap[c]] = @ - 1]
  BY Zenon DEF Release, lock, phases
<1>1. PICK q \in {"joining", "returned"} :
        /\ cpc' = [cpc EXCEPT ![c] = q]
        /\ q = "returned" => batchRef[Snap[c]] # 1
  BY Zenon DEF Release
<1>2. Snap[c] \in Snapshots /\ \A d \in Clients : cpc'[d] = IF d = c THEN q ELSE cpc[d]
  BY Zenon, <1>1, PlanFacts DEF PhaseInv, Phased, BatchInv, TypeOK
<1>3. \A w \in Workers : Client[w] = c => pc[w] \notin {"closing", "entering"}
  BY Zenon, <1>0 DEF PhaseInv, Phased, BatchInv, WorkerAt
<1>4. q = "returned" => \E d \in Clients : Snap[d] = Snap[c] /\ cpc'[d] \in Referring
  <2>1. Refs(Snap[c])' \subseteq Clients /\ (Cardinality(Refs(Snap[c])') # 0 => Refs(Snap[c])' # {})
    BY Zenon, TypeSyncAssumption, Counted DEF Refs
  <2>2. batchRef'[Snap[c]] = batchRef[Snap[c]] - 1 /\ batchRef[Snap[c]] \in Nat
    BY Zenon, <1>0, <1>2 DEF PhaseInv, Phased, BatchInv, TypeOK
  <2>4. q = "returned" => Refs(Snap[c])' # {}
    BY <1>1, <2>1, <2>2
  <2> QED
    BY Zenon, <2>4, PlanKept DEF Refs, Referring
<1>5. ASSUME NEW s PROVE Live(s)' <=> Live(s)
  <2>1. CASE q = "joining" \/ s # Snap[c]
    BY Zenon, <1>0, <1>1, <1>2, <2>1, PlanKept DEF Live, Referring
  <2>2. CASE q = "returned" /\ s = Snap[c]
    BY Zenon, <1>0, <1>2, <1>4, <2>2, PlanKept DEF Live, Referring
  <2> QED
    BY Zenon, <1>1, <2>1, <2>2
<1>6. Loading' = Loading
  BY Zenon, <1>0, <1>5 DEF Loading
<1>7. Analyzing' = Analyzing
  BY Zenon, <1>0, <1>2 DEF Analyzing, PhaseInv, Phased, BatchInv, TypeOK
<1>8. ASSUME NEW d \in Clients PROVE PhaseAt(d)'
  <2>1. PhaseAt(d) /\ cpc'[d] = IF d = c THEN q ELSE cpc[d]
    BY Zenon, <1>2 DEF PhaseInv, Phased
  <2>2. CASE d # c
    BY Zenon, <1>0, <2>1, <2>2, PlanKept DEF PhaseAt
  <2>3. CASE d = c
    BY Zenon, <1>0, <1>1, <2>1, <2>3, PlanKept DEF PhaseAt, Referring
  <2> QED
    BY Zenon, <2>2, <2>3
<1>9. c \in loadExited => WithBarrier(c)
  BY Zenon DEF PhaseInv, Phased, BarrierAt
<1>10. loadPhaseCount' = Cardinality(Loading') /\ analyzePhaseCount' = Cardinality(Analyzing')
  BY Zenon, <1>0, <1>6, <1>7 DEF PhaseInv, Phased
<1> QED
  BY <1>0, <1>1, <1>2, <1>3, <1>8, <1>9, <1>10, CallPhases

\* The end of a batch: it leaves the load phase itself unless a barrier has.
LEMMA JoinPhases ==
  ASSUME PhaseInv, plan' = plan, NEW c \in Clients, JoinStores(c)
  PROVE  Phased'
<1>0. /\ cpc[c] = "joining" /\ cpc' = [cpc EXCEPT ![c] = "returned"]
      /\ UNCHANGED <<pc, at, store, pending, held, claimed, loadPhase, loadExited, analyzeEntered,
                     analyzePhaseCount>>
      /\ loadPhaseCount' = loadPhaseCount - IF claimed[Snap[c]] THEN 0 ELSE 1
  BY Zenon DEF JoinStores, lock
<1>1. Snap[c] \in Snapshots /\ \A d \in Clients : cpc'[d] = IF d = c THEN "returned" ELSE cpc[d]
  BY Zenon, <1>0, PlanFacts DEF PhaseInv, Phased, BatchInv, TypeOK
<1>2. \A w \in Workers : Client[w] = c => pc[w] \notin {"closing", "entering"}
  BY Zenon, <1>0 DEF PhaseInv, Phased, BatchInv, WorkerAt
<1>3. /\ Refs(Snap[c]) = {}
      /\ \A d \in Clients : cpc[d] = "joining" /\ Snap[d] = Snap[c] => d = c
  BY Zenon, <1>0 DEF PhaseInv, Phased, BatchInv, TearingAt
<1>4. \A d \in Clients : Snap[d] = Snap[c] => cpc[d] \notin Referring
  BY Zenon, <1>3 DEF Refs
<1>5. ASSUME NEW s PROVE Live(s)' <=> Live(s) /\ s # Snap[c]
  BY <1>0, <1>1, <1>3, <1>4, PlanKept DEF Live, Referring
<1>6. Loading' = Loading \ {Snap[c]}
  <2>1. \A s \in Snapshots : s \in Loading' <=> s \in Loading /\ s # Snap[c]
    BY Zenon, <1>0, <1>5 DEF Loading
  <2> QED
    BY Zenon, <2>1 DEF Loading
<1>7. Snap[c] \in Loading <=> ~claimed[Snap[c]]
  <2>1. Live(Snap[c])
    BY Zenon, <1>0 DEF Live
  <2>2. claimed[Snap[c]] => loadPhase[Snap[c]] \in loadExited
    BY Zenon, <1>0 DEF PhaseInv, Phased, PhaseAt
  <2> QED
    BY Zenon, <1>1, <2>1, <2>2 DEF Loading
<1>8. loadPhaseCount' = Cardinality(Loading')
  <2>1. CASE claimed[Snap[c]]
    <3>1. Loading' = Loading
      BY Zenon, <1>6, <1>7, <2>1
    <3>2. loadPhaseCount' = loadPhaseCount
      BY <1>0, <2>1 DEF PhaseInv, Phased, BatchInv, TypeOK
    <3> QED
      BY Zenon, <3>1, <3>2 DEF PhaseInv, Phased
  <2>2. CASE ~claimed[Snap[c]]
    <3>1. Cardinality(Loading \ {Snap[c]}) = Cardinality(Loading) - 1
      BY Zenon, <1>7, <2>2, LoadingUsed, CountSnapshots
    <3> QED
      BY Zenon, <1>0, <1>6, <2>2, <3>1 DEF PhaseInv, Phased
  <2> QED
    BY Zenon, <2>1, <2>2
<1>9. Analyzing' = Analyzing
  BY Zenon, <1>0, <1>1 DEF Analyzing, PhaseInv, Phased, BatchInv, TypeOK
<1>10. analyzePhaseCount' = Cardinality(Analyzing')
  BY Zenon, <1>0, <1>9 DEF PhaseInv, Phased
<1>11. ASSUME NEW d \in Clients PROVE PhaseAt(d)'
  <2>1. PhaseAt(d) /\ cpc'[d] = IF d = c THEN "returned" ELSE cpc[d]
    BY Zenon, <1>1 DEF PhaseInv, Phased
  <2>2. CASE d # c
    BY Zenon, <1>0, <2>1, <2>2, PlanKept DEF PhaseAt
  <2>3. CASE d = c
    BY Zenon, <2>1, <2>3 DEF PhaseAt, Referring
  <2> QED
    BY Zenon, <2>2, <2>3
<1>12. c \in loadExited => WithBarrier(c)
  BY Zenon DEF PhaseInv, Phased, BarrierAt
<1> QED
  BY <1>0, <1>1, <1>2, <1>8, <1>10, <1>11, <1>12, CallPhases

\* acquireTypeChecking: a batch with a barrier is never joined, a new one enters
\* its load phase.
LEMMA AcquirePhases ==
  ASSUME PhaseInv, plan' = plan, NEW c \in Clients, Acquire(c)
  PROVE  Phased'
<1> DEFINE q == IF WithBarrier(c) THEN "acquired" ELSE "running"
<1>0. /\ cpc[c] = "idle" /\ cpc' = [cpc EXCEPT ![c] = q]
      /\ UNCHANGED <<pc, at, store, pending, held, loadExited, analyzeEntered, analyzePhaseCount>>
      /\ \A d \in tearing : Snap[d] # Snap[c]
  BY Zenon DEF Acquire, lock
<1>1. Snap[c] \in Snapshots /\ \A d \in Clients : cpc'[d] = IF d = c THEN q ELSE cpc[d]
  BY Zenon, <1>0, PlanFacts DEF PhaseInv, Phased, BatchInv, TypeOK
<1>2. \A w \in Workers : Client[w] = c => pc[w] \notin {"closing", "entering"}
  BY Zenon, <1>0 DEF PhaseInv, Phased, BatchInv, WorkerAt
<1>3. c \notin loadExited /\ c \notin analyzeEntered
  BY Zenon, <1>0 DEF PhaseInv, Phased, BarrierAt, BatchInv, TypeOK
<1>4. Analyzing' = Analyzing
  BY Zenon, <1>0, <1>1, <1>3 DEF Analyzing, PhaseInv, Phased, BatchInv, TypeOK
<1>5. analyzePhaseCount' = Cardinality(Analyzing')
  BY Zenon, <1>0, <1>4 DEF PhaseInv, Phased
<1>6. ASSUME NEW s PROVE Live(s)' <=> Live(s) \/ s = Snap[c]
  <2>1. q \in Referring
    BY Zenon DEF Referring
  <2> HIDE DEF q
  <2> QED
    BY Zenon, <1>0, <1>1, <2>1, PlanKept DEF Live
<1>7. /\ batchRef[Snap[c]] = Cardinality(Refs(Snap[c])) /\ Refs(Snap[c]) \subseteq Clients
      /\ \A d \in Clients : Snap[d] = Snap[c] => cpc[d] # "joining"
  BY Zenon, <1>0, <1>1 DEF PhaseInv, Phased, BatchInv, TearingAt, Refs
<1>8. CASE batchRef[Snap[c]] = 0
  <2>1. Refs(Snap[c]) = {}
    BY Zenon, <1>7, <1>8, CountCalls
  <2>2. \A d \in Clients : Snap[d] = Snap[c] => cpc[d] \notin Referring \cup {"joining"}
    BY Zenon, <1>7, <2>1 DEF Refs
  <2>3. ~Live(Snap[c])
    BY Zenon, <2>2 DEF Live
  <2>4. /\ loadPhaseCount' = loadPhaseCount + 1
        /\ claimed' = [claimed EXCEPT ![Snap[c]] = FALSE]
        /\ loadPhase' = [loadPhase EXCEPT ![Snap[c]] = NoBarrier]
    BY Zenon, <1>8 DEF Acquire
  <2>5. \A s \in Snapshots :
          /\ claimed'[s] = IF s = Snap[c] THEN FALSE ELSE claimed[s]
          /\ loadPhase'[s] = IF s = Snap[c] THEN NoBarrier ELSE loadPhase[s]
    BY Zenon, <1>1, <2>4 DEF PhaseInv, Phased, BatchInv, TypeOK
  <2>6. Loading' = Loading \cup {Snap[c]} /\ Snap[c] \notin Loading
    <3>1. \A s \in Snapshots : s \in Loading' <=> s \in Loading \/ s = Snap[c]
      BY Zenon, <1>0, <1>6, <2>5 DEF Loading
    <3> QED
      BY Zenon, <1>1, <2>3, <3>1 DEF Loading
  <2>7. loadPhaseCount' = Cardinality(Loading')
    BY Zenon, <2>4, <2>6, LoadingUsed, CountSnapshots DEF PhaseInv, Phased
  <2>8. ASSUME NEW d \in Clients PROVE PhaseAt(d)'
    <3>1. Snap[d] \in Snapshots /\ PhaseAt(d)
      BY Zenon, PlanFacts DEF PhaseInv, Phased, BatchInv, TypeOK
    <3>2. CASE d = c
      BY Zenon, <1>1, <2>5, <3>2, PlanKept DEF PhaseAt, Referring
    <3>3. CASE d # c /\ Snap[d] = Snap[c]
      BY Zenon, <1>1, <2>2, <3>3, PlanKept DEF PhaseAt, Referring
    <3>4. CASE Snap[d] # Snap[c]
      <4>1. cpc'[d] = cpc[d] /\ claimed'[Snap[d]] = claimed[Snap[d]]
            /\ loadPhase'[Snap[d]] = loadPhase[Snap[d]]
        BY Zenon, <1>1, <2>5, <3>1, <3>4
      <4> QED
        BY Zenon, <1>0, <3>1, <4>1, PlanKept DEF PhaseAt
    <3> QED
      BY Zenon, <3>2, <3>3, <3>4
  <2> QED
    BY <1>0, <1>1, <1>2, <1>3, <1>5, <2>7, <2>8, CallPhases
<1>9. CASE batchRef[Snap[c]] # 0
  <2>1. UNCHANGED <<loadPhaseCount, claimed, loadPhase>>
    BY Zenon, <1>9 DEF Acquire
  <2>2. Refs(Snap[c]) # {}
    BY Zenon, <1>7, <1>9, TypeSyncAssumption, Counted
  <2>3. PICK d \in Clients : Snap[d] = Snap[c] /\ cpc[d] \in Referring
    BY Zenon, <2>2 DEF Refs
  <2>4. ~plan.barrier /\ ~WithBarrier(c) /\ ~WithBarrier(d)
    BY Zenon, <1>0, <2>3 DEF PhaseInv, Phased, Orderly, WithBarrier, Referring
  <2>5. ~claimed[Snap[c]] /\ loadPhase[Snap[c]] = NoBarrier /\ Live(Snap[c])
    BY Zenon, <2>3, <2>4 DEF PhaseInv, Phased, PhaseAt, Live
  <2>6. Loading' = Loading
    <3>1. \A s \in Snapshots : s \in Loading' <=> s \in Loading
      BY Zenon, <1>0, <1>6, <2>1, <2>5 DEF Loading
    <3> QED
      BY Zenon, <3>1 DEF Loading
  <2>7. loadPhaseCount' = Cardinality(Loading')
    BY Zenon, <2>1, <2>6 DEF PhaseInv, Phased
  <2>8. ASSUME NEW e \in Clients PROVE PhaseAt(e)'
    <3>1. PhaseAt(e)
      BY Zenon DEF PhaseInv, Phased
    <3>2. CASE e = c
      BY Zenon, <1>1, <2>1, <2>4, <2>5, <3>2, PlanKept DEF PhaseAt, Referring
    <3>3. CASE e # c
      BY Zenon, <1>0, <1>1, <2>1, <3>1, <3>3, PlanKept DEF PhaseAt
    <3> QED
      BY Zenon, <3>2, <3>3
  <2> QED
    BY <1>0, <1>1, <1>2, <1>3, <1>5, <2>7, <2>8, CallPhases
<1> QED
  BY Zenon, <1>8, <1>9

\* Whoever cancels a context touches no batch, phase or lock.
LEMMA QuietPhases ==
  ASSUME PhaseInv, UNCHANGED <<plan, cpc, pc, at, store, batch, phases, lock>>
  PROVE  Phased'
<1>1. UNCHANGED <<loadExited, analyzeEntered, pending, held>> /\ UNCHANGED <<cpc, batch, phases>>
  BY Zenon DEF phases, lock
<1>2. \A v \in Workers : SignalAt(v)' /\ LockAt(v)'
  BY Zenon, <1>1, SignalElsewhere, LockElsewhere
<1> QED
  BY Zenon, <1>1, <1>2, PhasesKept

\* Every step of an orderly plan keeps both phase counters exact.
LEMMA PhaseStep == PhaseInv /\ [Next]_vars => PhaseInv'
<1> SUFFICES ASSUME PhaseInv, [Next]_vars PROVE PhaseInv'
  BY Zenon
<1>0. BatchInv'
  BY Zenon, BatchStep DEF PhaseInv
<1>1. ASSUME UNCHANGED vars PROVE Phased'
  BY Zenon, <1>1, QuietPhases DEF vars, running
<1>2. ASSUME plan' = plan, NEW c \in Clients, Abort(c) PROVE Phased'
  BY Zenon, <1>2, QuietPhases DEF Abort
<1>3. ASSUME plan' = plan, NEW c \in Clients, ClientStep(c) PROVE Phased'
  <2>1. batchRef'[Snap[c]] = Cardinality(Refs(Snap[c])')
    BY Zenon, <1>0, <1>3, PlanKept, PlanFacts DEF PhaseInv, BatchInv, TypeOK
  <2> QED
    BY Zenon, <1>3, <2>1, AcquirePhases, InstallPhases, TeardownPhases, ReleasePhases, JoinPhases
       DEF ClientStep
<1>4. ASSUME plan' = plan, NEW w \in Workers, WorkerStep(w) \/ Lock(w) \/ AnalyzerLocks(w)
      PROVE  Phased'
  BY Zenon, <1>4, CheckPhases, SignalPhases, CloseExitPhases, CloseEntersPhases, AnalyzePhases
     DEF WorkerStep
<1>5. ASSUME plan' = plan, NEW w \in Workers, StoreStep(w) \/ StoreLocks(w) PROVE Phased'
  BY Zenon, <1>5, StorePhases
<1>6. Phased'
  BY Zenon, <1>1, <1>2, <1>3, <1>4, <1>5 DEF Next, Progress
<1>7. Orderly'
  BY Zenon, PlanKept DEF PhaseInv, Next, vars
<1> QED
  BY Zenon, <1>0, <1>6, <1>7 DEF PhaseInv

\* Where a snapshot behind a barrier is used by one call, loadPhaseCount counts
\* the batches that have not left their load phase, analyzePhaseCount the calls
\* in their analyze phase, and a barrier that is down has had every signal.
THEOREM PhaseInvariant == Spec /\ Orderly => []PhaseInv
  BY PhaseInit, PhaseStep, PTL DEF Spec

\* RLock, held or elided, keeps the analyzers and cache writers of a batch apart
\* from its type checks, and those of the whole process in single-pass mode: the
\* barrier's count is what stands in for the lock once the load phase is left.
THEOREM SyncExclusion == Spec /\ Orderly => []ReadersExcludeWriters
<1>1. PhaseInv => ReadersExcludeWriters
  <2> SUFFICES ASSUME PhaseInv, NEW w \in Writing, NEW r \in Reading \cup Storing
               PROVE  plan.barrier /\ SnapOf(r) # SnapOf(w)
    BY Zenon DEF ReadersExcludeWriters
  <2>1. w \in Workers /\ pc[w] = "writing" /\ held = {} /\ r \in Workers
    BY Zenon DEF Writing, Reading, Storing, PhaseInv, Phased, LockAt
  <2>2. Client[w] \in Clients /\ Client[r] \in Clients /\ cpc[Client[w]] = "running"
    BY Zenon, <2>1, PlanFacts DEF PhaseInv, Phased, BatchInv, TypeOK, WorkerAt
  <2>3. w \in Unsignalled(Client[w])
    BY Zenon, <2>1 DEF Unsignalled, Of
  <2>4. pending[Client[w]] # 0
    BY Zenon, <2>2, <2>3, ClosedMeansSignalled
  <2>5. /\ r \in Reading => plan.barrier /\ pending[Client[r]] = 0
        /\ r \in Storing => plan.barrier /\ Client[r] \in loadExited
    BY Zenon, <2>1, <2>2 DEF Reading, Storing, PhaseInv, Phased, LockAt, SignalAt, BarrierAt, WithBarrier
  <2>6. SnapOf(r) = SnapOf(w) => Client[r] = Client[w]
    BY Zenon, <2>2, <2>5 DEF PhaseInv, Phased, Orderly, SnapOf
  <2>7. Client[w] \notin loadExited
    BY Zenon, <2>2, <2>4 DEF PhaseInv, Phased, BarrierAt
  <2> QED
    BY Zenon, <2>4, <2>5, <2>6, <2>7
<1> QED
  BY <1>1, PhaseInvariant, PTL

\* EnterLoadPhase and ExitLoadPhase, EnterAnalyzePhase and ExitAnalyzePhase pair
\* up whichever of barrier, abort and teardown does the exit, and the load-phase
\* counter is not zero while a type check writes.
THEOREM SyncPhasesBalanced == Spec /\ Orderly => []PhasesBalanced
<1>1. PhaseInv => PhasesBalanced
  <2> SUFFICES ASSUME PhaseInv PROVE PhasesBalanced
    BY Zenon
  <2>1. loadPhaseCount \in Nat /\ analyzePhaseCount \in Nat
    BY Zenon, LoadingUsed, CountSnapshots, CountAnalyzing DEF PhaseInv, Phased
  <2>2. ASSUME NEW w \in Writing PROVE loadPhaseCount > 0
    <3>1. w \in Workers /\ pc[w] = "writing"
      BY Zenon DEF Writing
    <3>2. Client[w] \in Clients /\ cpc[Client[w]] = "running"
      BY Zenon, <3>1, PlanFacts DEF PhaseInv, Phased, BatchInv, TypeOK, WorkerAt
    <3>3. w \in Unsignalled(Client[w])
      BY Zenon, <3>1 DEF Unsignalled, Of
    <3>4. pending[Client[w]] # 0
      BY Zenon, <3>2, <3>3, ClosedMeansSignalled
    <3>5. Client[w] \notin loadExited
      BY Zenon, <3>2, <3>4 DEF PhaseInv, Phased, BarrierAt
    <3> QED
      BY Zenon, <3>2, <3>5, LoadingCounted DEF Referring
  <2>3. ASSUME \A c \in Clients : cpc[c] \in {"idle", "returned"}
        PROVE  loadPhaseCount = 0 /\ analyzePhaseCount = 0
    <3>1. Loading = {}
      BY Zenon, <2>3 DEF Loading, Live, Referring
    <3>2. Analyzing = {}
      BY Zenon, <2>3 DEF Analyzing, PhaseInv, Phased, BatchInv, TypeOK
    <3> QED
      BY Zenon, <3>1, <3>2, FS_EmptySet DEF PhaseInv, Phased
  <2> QED
    BY <2>1, <2>2, <2>3 DEF PhasesBalanced
<1> QED
  BY <1>1, PhaseInvariant, PTL

=============================================================================
