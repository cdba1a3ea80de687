---------------------------- MODULE AnalysisGate ----------------------------
(***************************************************************************)
(* internal/gopls/cache/analysisgate.go: the admission gate of the package *)
(* dispatchers. It caps the number of workers and, with clustering, the    *)
(* number of distinct packages in flight; a call that has waited for       *)
(* fallthroughT passes the second cap.                                     *)
(*                                                                         *)
(* One critical section of g.mu is one step; "parked" is cond.Wait, which  *)
(* only a broadcast leaves. Time is one bit per call: whether fallthroughT *)
(* has passed since the call started.                                      *)
(***************************************************************************)
EXTENDS Integers, FiniteSets

CONSTANTS
    Calls,        \* the acquire calls, one goroutine each
    Pkg,          \* Pkg[c]: the package c asks for
    Gates         \* the gates newAnalysisGate may be asked for; maxInFlight = 0
                  \* disables clustering, "timed" is fallthroughT > 0

Packages == {Pkg[c] : c \in Calls}

ASSUME AnalysisGateAssumption ==
    /\ IsFiniteSet(Calls)
    /\ Gates \subseteq [workerCap : Nat \ {0}, maxInFlight : Nat, timed : BOOLEAN]

VARIABLES
    gate,        \* the fields that never change
    pc,
    workers,
    inFlight,    \* inFlight[p], 0 where the map has no entry
    rule,        \* the rule that admitted a call
    late,        \* calls that have waited for fallthroughT
    timer,       \* calls whose AfterFunc is armed
    cancelled,   \* calls whose context is done
    watching     \* calls whose cancellation watcher has not exited

vars == <<pc, workers, inFlight, rule, late, timer, cancelled, watching>>

InFlightPkgs == {p \in Packages : inFlight[p] > 0}

Init ==
    /\ gate \in Gates
    /\ pc = [c \in Calls |-> "idle"]
    /\ workers = 0
    /\ inFlight = [p \in Packages |-> 0]
    /\ rule = [c \in Calls |-> "none"]
    /\ late = {} /\ timer = {}
    /\ cancelled = {} /\ watching = {}

----------------------------------------------------------------------------
Broadcast == [c \in Calls |-> IF pc[c] = "parked" THEN "loop" ELSE pc[c]]

SlotFree == workers < gate.workerCap

JoinsCluster(c) == inFlight[Pkg[c]] > 0

RoomInClusterOffByOne == Cardinality(InFlightPkgs) <= gate.maxInFlight

RoomInCluster == Cardinality(InFlightPkgs) < gate.maxInFlight

PassesAnyway(c) == gate.timed /\ c \in late

\* The order of the tests decides which rule a call is counted under.
AdmittedBy(c) ==
    IF gate.maxInFlight = 0 THEN "new"
    ELSE IF JoinsCluster(c) THEN "cluster"
    ELSE IF RoomInCluster THEN "new"
    ELSE IF PassesAnyway(c) THEN "fallthrough"
    ELSE "none"

Enter(c) ==
    /\ pc[c] = "idle"
    /\ IF c \in cancelled
         THEN pc' = [pc EXCEPT ![c] = "refused"] /\ UNCHANGED watching
         ELSE pc' = [pc EXCEPT ![c] = "loop"] /\ watching' = watching \cup {c}
    /\ UNCHANGED <<workers, inFlight, rule, late, timer, cancelled>>

\* timer.Stop after cond.Wait; a function that has started runs on.
StopTimer(c) ==
    \/ timer' = timer \ {c}
    \/ c \in late /\ timer' = timer

\* The age of a call that has returned does not matter any more.
Forget(c) == late' = late \ {c}

LoopCancelled(c) ==
    /\ pc[c] = "loop" /\ c \in cancelled
    /\ pc' = [pc EXCEPT ![c] = "refused"]
    /\ StopTimer(c)
    /\ Forget(c)
    /\ UNCHANGED <<workers, inFlight, rule, cancelled, watching>>

Admit(c) ==
    /\ pc[c] = "loop" /\ c \notin cancelled
    /\ SlotFree
    /\ AdmittedBy(c) # "none"
    /\ pc' = [pc EXCEPT ![c] = "holding"]
    /\ workers' = workers + 1
    /\ inFlight' = [inFlight EXCEPT ![Pkg[c]] = @ + 1]
    /\ rule' = [rule EXCEPT ![c] = AdmittedBy(c)]
    /\ StopTimer(c)
    /\ Forget(c)
    /\ UNCHANGED <<cancelled, watching>>

Park(c) ==
    /\ pc' = [pc EXCEPT ![c] = "parked"]
    /\ UNCHANGED <<workers, inFlight, rule, cancelled, watching>>

\* No worker slot: wait for a release, without a timer.
ParkForSlot(c) ==
    /\ pc[c] = "loop" /\ c \notin cancelled
    /\ ~SlotFree
    /\ StopTimer(c)
    /\ Park(c)
    /\ UNCHANGED late

\* The cluster is full: wait for a release, or for the timer if there is one.
ParkForCluster(c) ==
    /\ pc[c] = "loop" /\ c \notin cancelled
    /\ SlotFree
    /\ AdmittedBy(c) = "none"
    /\ timer' = IF gate.timed THEN timer \cup {c} ELSE timer
    /\ Park(c)
    /\ UNCHANGED late

\* The clock passes the deadline between the test of rule (C) and the
\* computation of the remaining time: the call waits without a timer.
ParkPastDeadline(c) ==
    /\ pc[c] = "loop" /\ c \notin cancelled
    /\ SlotFree
    /\ AdmittedBy(c) = "none" /\ gate.timed
    /\ late' = late \cup {c}
    /\ timer' = timer \ {c}
    /\ Park(c)

\* AfterFunc at the deadline.
TimerFires(c) ==
    /\ c \in timer
    /\ pc[c] \in {"loop", "parked"} => c \in late
    /\ timer' = timer \ {c}
    /\ pc' = Broadcast
    /\ UNCHANGED <<workers, inFlight, rule, late, cancelled, watching>>

DeadlinePasses(c) ==
    /\ gate.timed /\ pc[c] \in {"loop", "parked"} /\ c \notin late
    /\ late' = late \cup {c}
    /\ UNCHANGED <<pc, workers, inFlight, rule, timer, cancelled, watching>>

\* The watcher on ctx.Done; it may broadcast when its call has just returned.
WatcherBroadcast(c) ==
    /\ c \in watching /\ c \in cancelled
    /\ watching' = watching \ {c}
    /\ pc' = Broadcast
    /\ UNCHANGED <<workers, inFlight, rule, late, timer, cancelled>>

\* The watcher of a call that has returned.
WatcherExits(c) ==
    /\ c \in watching /\ pc[c] \notin {"loop", "parked"}
    /\ watching' = watching \ {c}
    /\ UNCHANGED <<pc, workers, inFlight, rule, late, timer, cancelled>>

DropPackageUnguarded(c) ==
    inFlight' = [p \in Packages |-> inFlight[p] - 1]

\* The map entry is deleted when its count reaches zero.
DropPackage(c) ==
    inFlight' = [inFlight EXCEPT ![Pkg[c]] = IF @ > 0 THEN @ - 1 ELSE @]

ReleaseWakesNobody(c) ==
    /\ pc[c] = "holding"
    /\ workers' = IF workers > 0 THEN workers - 1 ELSE workers
    /\ DropPackage(c)
    /\ pc' = [pc EXCEPT ![c] = "released"]
    /\ UNCHANGED <<rule, late, timer, cancelled, watching>>

\* The release closure; sync.Once makes later calls of it void.
Release(c) ==
    /\ pc[c] = "holding"
    /\ workers' = IF workers > 0 THEN workers - 1 ELSE workers
    /\ DropPackage(c)
    /\ pc' = [Broadcast EXCEPT ![c] = "released"]
    /\ UNCHANGED <<rule, late, timer, cancelled, watching>>

\* Once the call has returned and its watcher has exited, nobody looks.
Cancel(c) ==
    /\ c \notin cancelled
    /\ pc[c] = "idle" \/ c \in watching
    /\ cancelled' = cancelled \cup {c}
    /\ UNCHANGED <<pc, workers, inFlight, rule, late, timer, watching>>

AcquireStep(c) ==
    \/ LoopCancelled(c) \/ Admit(c)
    \/ ParkForSlot(c) \/ ParkForCluster(c) \/ ParkPastDeadline(c)

Next ==
    /\ \E c \in Calls :
         \/ Enter(c) \/ AcquireStep(c) \/ TimerFires(c) \/ DeadlinePasses(c)
         \/ WatcherBroadcast(c) \/ WatcherExits(c) \/ Release(c) \/ Cancel(c)
    /\ UNCHANGED gate

Spec == Init /\ [][Next]_<<gate, vars>>

\* Goroutines run, timers fire and time passes; a package's work ends.
GateFairness ==
    \A c \in Calls :
        /\ WF_vars(AcquireStep(c))
        /\ WF_vars(TimerFires(c))
        /\ WF_vars(DeadlinePasses(c))
        /\ WF_vars(WatcherBroadcast(c) \/ WatcherExits(c))

FairSpec == Spec /\ GateFairness /\ \A c \in Calls : WF_vars(Release(c))

----------------------------------------------------------------------------
Holders == {c \in Calls : pc[c] = "holding"}
HoldersOf(p) == {c \in Holders : Pkg[c] = p}
FellThrough == {c \in Calls : rule[c] = "fallthrough"}

\* Types of the gate and of the calls.
TypeOK ==
    /\ gate \in Gates
    /\ pc \in [Calls -> {"idle", "loop", "parked", "holding", "refused", "released"}]
    /\ workers \in Nat
    /\ inFlight \in [Packages -> Nat]
    /\ rule \in [Calls -> {"none", "new", "cluster", "fallthrough"}]
    /\ late \subseteq Calls /\ timer \subseteq Calls
    /\ cancelled \subseteq Calls /\ watching \subseteq Calls

\* The gate's two counters are the calls that hold it, by package, and the
\* worker cap is never exceeded, whichever rule admitted them.
SlotsExact ==
    /\ workers = Cardinality(Holders)
    /\ \A p \in Packages : inFlight[p] = Cardinality(HoldersOf(p))
    /\ workers <= gate.workerCap

\* Rules (A) to (C): more packages than maxInFlight are in flight only by as
\* many as fell through; a call that joins its cluster never adds a package.
ClusterBound ==
    gate.maxInFlight > 0 =>
        Cardinality(InFlightPkgs) <= gate.maxInFlight + Cardinality(FellThrough)

\* Both caps hold whichever of the three rules admitted the calls.
CapsKept == SlotsExact /\ ClusterBound

\* No lost wake-up: a call stays in cond.Wait only while no slot is free or the
\* cluster is full. Rules (B) and (C) broadcast nothing, so it may miss that its
\* package is in flight: then a call that fell through has brought it in and
\* holds it, whose release will wake the call.
ParkedOnlyWhenRefused ==
    \A c \in Calls : pc[c] = "parked" =>
        \/ ~SlotFree
        \/ /\ gate.maxInFlight > 0 /\ ~RoomInCluster
           /\ JoinsCluster(c) =>
                \E d \in HoldersOf(Pkg[c]) : rule[d] = "fallthrough"

\* Every acquire returns.
AcquireReturns ==
    \A c \in Calls : pc[c] = "loop" ~> pc[c] \in {"holding", "refused"}

============================================================================
