----------------------------- MODULE BudgetGate -----------------------------
(***************************************************************************)
(* The RSS-budget scheduler of internal/scheduler/rss.go: the two-axis      *)
(* admission gate (budgetGate), the Acquire/release pair wrapped around it, *)
(* and Run, which drives a batch of actions through Acquire under one       *)
(* errgroup context.                                                        *)
(*                                                                          *)
(* Every critical section of budgetGate.mu is one step.  sync.Cond.Wait is  *)
(* the program counter value "parked", which only a Broadcast leaves.       *)
(* A name that AnalysisGate also has is prefixed with Budget here.          *)
(***************************************************************************)
EXTENDS Integers, FiniteSets

CONSTANTS
    Actions,         \* the Acquire calls, one goroutine each
    Want,            \* Want[a]: the RSSEstimate of a, in bytes
    Ctx,             \* Ctx[a]: the context a is called with
    BudgetBytes,     \* 0 disables the bytes axis
    MaxConcurrency   \* the count axis

Contexts == {Ctx[a] : a \in Actions}

\* The byte counters are uint64 in the code; estimates are resident-set sizes,
\* so no sum of them wraps and Nat is exact.
ASSUME BudgetAssumption ==
    /\ IsFiniteSet(Actions)
    /\ Want \in [Actions -> Nat]
    /\ BudgetBytes \in Nat
    /\ MaxConcurrency \in Nat \ {0}

VARIABLES
    bpc,            \* where each Acquire call is
    slots, bytes,   \* budgetGate.inFlight, budgetGate.bytes
    waiting,        \* budgetGate.waiting
    ended,          \* contexts whose Done channel is closed
    watchers        \* calls whose cancellation watcher has not exited

budgetGate == <<slots, bytes, waiting>>
budgetVars == <<bpc, slots, bytes, waiting, ended, watchers>>

Phases == {"idle", "checking", "parked", "woken", "admitted", "refused",
           "running", "failed", "released"}

BudgetHolders == {a \in Actions : bpc[a] \in {"admitted", "running"}}
Parked == {a \in Actions : bpc[a] = "parked"}
InWait == {a \in Actions : bpc[a] \in {"parked", "woken"}}

BudgetInit ==
    /\ bpc = [a \in Actions |-> "idle"]
    /\ slots = 0 /\ bytes = 0 /\ waiting = 0
    /\ ended = {}
    /\ watchers = {}

-----------------------------------------------------------------------------
(* budgetGate *)

CountOK == slots < MaxConcurrency

BytesOKOnlyCurrent(a) == BudgetBytes = 0 \/ slots = 0 \/ bytes <= BudgetBytes

BytesOK(a) ==
    \/ BudgetBytes = 0
    \/ slots = 0
    \/ bytes + Want[a] <= BudgetBytes

NoBroadcast == bpc

\* cond.Broadcast: every parked call leaves Wait and runs the loop again.
BudgetBroadcast == [a \in Actions |-> IF bpc[a] = "parked" THEN "woken" ELSE bpc[a]]

\* A call at the head of the acquire loop; one that comes out of Wait also
\* takes itself off the waiting count.
AtLoop(a) == bpc[a] \in {"checking", "woken"}

StillWaiting(a) == waiting - IF bpc[a] = "woken" THEN 1 ELSE 0

\* acquire: the early ctx check, then the watcher goroutine is started.
AcquireEnter(a) ==
    /\ bpc[a] = "idle"
    /\ IF Ctx[a] \in ended
         THEN /\ bpc' = [bpc EXCEPT ![a] = "refused"]
              /\ UNCHANGED watchers
         ELSE /\ bpc' = [bpc EXCEPT ![a] = "checking"]
              /\ watchers' = watchers \cup {a}
    /\ UNCHANGED <<budgetGate, ended>>

\* One iteration of the acquire loop, under mu: leave on a cancelled context,
\* take a slot when both axes admit, park otherwise.
AcquireCancelled(a) ==
    /\ AtLoop(a)
    /\ Ctx[a] \in ended
    /\ bpc' = [bpc EXCEPT ![a] = "refused"]
    /\ waiting' = StillWaiting(a)
    /\ UNCHANGED <<slots, bytes, ended, watchers>>

BudgetAdmit(a) ==
    /\ AtLoop(a)
    /\ Ctx[a] \notin ended
    /\ CountOK /\ BytesOK(a)
    /\ bpc' = [bpc EXCEPT ![a] = "admitted"]
    /\ slots' = slots + 1
    /\ bytes' = bytes + Want[a]
    /\ waiting' = StillWaiting(a)
    /\ UNCHANGED <<ended, watchers>>

BudgetPark(a) ==
    /\ AtLoop(a)
    /\ Ctx[a] \notin ended
    /\ ~(CountOK /\ BytesOK(a))
    /\ bpc' = [bpc EXCEPT ![a] = "parked"]
    /\ waiting' = StillWaiting(a) + 1
    /\ UNCHANGED <<slots, bytes, ended, watchers>>

WatcherExitsSilently(a) ==
    /\ a \in watchers
    /\ Ctx[a] \in ended
    /\ watchers' = watchers \ {a}
    /\ UNCHANGED <<bpc, budgetGate, ended>>

\* The watcher of a call: ctx.Done fires, it broadcasts once and exits.  It may
\* have chosen this case before its call returned and broadcast after it.
BudgetWatcherBroadcast(a) ==
    /\ a \in watchers
    /\ Ctx[a] \in ended
    /\ watchers' = watchers \ {a}
    /\ bpc' = BudgetBroadcast
    /\ UNCHANGED <<budgetGate, ended>>

\* The watcher of a call that has returned: cancelDone is closed.
BudgetWatcherExits(a) ==
    /\ a \in watchers
    /\ bpc[a] \notin {"checking", "parked", "woken"}
    /\ watchers' = watchers \ {a}
    /\ UNCHANGED <<bpc, budgetGate, ended>>

-----------------------------------------------------------------------------
(* RSSBudgetScheduler *)

\* Acquire after the gate returned an admission (the action runs) ...
Acquired(a) ==
    /\ bpc[a] = "admitted"
    /\ bpc' = [bpc EXCEPT ![a] = "running"]
    /\ UNCHANGED <<budgetGate, ended, watchers>>

\* ... or an error.
Refused(a) ==
    /\ bpc[a] = "refused"
    /\ bpc' = [bpc EXCEPT ![a] = "failed"]
    /\ UNCHANGED <<budgetGate, ended, watchers>>

GateReleaseUnderflow(a) ==
    /\ slots' = slots - 1
    /\ bytes' = bytes - Want[a] - 1

GateRelease(a) ==
    /\ slots' = IF slots > 0 THEN slots - 1 ELSE slots
    /\ bytes' = IF bytes >= Want[a] THEN bytes - Want[a] ELSE 0

\* The release closure.  In Run an exec error also cancels the group context.
BudgetRelease(a, execFailed) ==
    /\ bpc[a] = "running"
    /\ GateRelease(a)
    /\ bpc' = [BudgetBroadcast EXCEPT ![a] = "released"]
    /\ ended' = IF execFailed THEN ended \cup {Ctx[a]} ELSE ended
    /\ UNCHANGED <<waiting, watchers>>

\* The caller's context is cancelled.
BudgetCancel(c) ==
    /\ c \notin ended
    /\ ended' = ended \cup {c}
    /\ UNCHANGED <<bpc, budgetGate, watchers>>

-----------------------------------------------------------------------------
BudgetAcquireStep(a) == AcquireCancelled(a) \/ BudgetAdmit(a) \/ BudgetPark(a)

BudgetNext ==
    \/ \E a \in Actions :
         \/ AcquireEnter(a) \/ BudgetAcquireStep(a) \/ BudgetWatcherBroadcast(a) \/ BudgetWatcherExits(a)
         \/ Acquired(a) \/ Refused(a)
         \/ \E f \in BOOLEAN : BudgetRelease(a, f)
    \/ \E c \in Contexts : BudgetCancel(c)

\* Goroutines that can run do run.  Nothing obliges a context to be cancelled.
BudgetGateFairness ==
    \A a \in Actions :
        /\ WF_budgetVars(BudgetAcquireStep(a))
        /\ WF_budgetVars(BudgetWatcherBroadcast(a) \/ BudgetWatcherExits(a))
        /\ WF_budgetVars(Acquired(a) \/ Refused(a))

\* An admitted action ends: its release is deferred around exec.
ReleaseFairness ==
    \A a \in Actions : WF_budgetVars(\E f \in BOOLEAN : BudgetRelease(a, f))

BudgetSpec == BudgetInit /\ [][BudgetNext]_budgetVars

\* The obligations of the gate itself: actions may run forever.
BudgetFairSpec == BudgetSpec /\ BudgetGateFairness

-----------------------------------------------------------------------------
(* Properties *)

\* Types of the calls and of the gate: no counter goes below zero.
BudgetTypeOK ==
    /\ bpc \in [Actions -> Phases]
    /\ slots \in Nat /\ bytes \in Nat /\ waiting \in Nat
    /\ ended \subseteq Contexts
    /\ watchers \subseteq Actions

\* The slots of the gate are exactly the calls that were admitted and have not
\* released (acquire and release pair up whatever the cancellations), and no
\* more than maxConcurrency of them exist.
SlotsConserved ==
    /\ slots = Cardinality(BudgetHolders)
    /\ slots <= MaxConcurrency

\* Two or more actions run together only when their estimates fit the budget
\* together; a single action may exceed it (always-admit-one).
BudgetRespected ==
    BudgetBytes = 0 \/ slots <= 1 \/ bytes <= BudgetBytes

\* Neither cap of the gate is overrun, whatever releases, cancellations and
\* admissions overlap, and no slot is lost (newBudgetGate's two limits).
CapsRespected == SlotsConserved /\ BudgetRespected

\* No lost wake-up: a call stays in cond.Wait only while the gate would refuse
\* it.  Every release broadcasts and admission is monotone in the load.
ParkedOnlyWhenFull ==
    \A a \in Parked : ~(CountOK /\ BytesOK(a))

\* Somebody can always wake a parked call: the gate is never empty above it.
BudgetWaiterHasWaker ==
    Parked # {} => slots > 0

\* budgetGate.waiting, which tests use to know that every waiter is at the
\* gate, counts exactly the calls inside cond.Wait: parked ones and woken ones
\* that have not run yet.
WaitersCounted ==
    waiting = Cardinality(InWait)

\* If actions end, every Acquire call that is made returns, admitted or with
\* ctx.Err().
BudgetAcquireReturns ==
    ReleaseFairness => \A a \in Actions :
        bpc[a] \in {"checking", "parked", "woken"} ~> bpc[a] \in {"running", "failed"}

\* A cancelled context gets its waiters out of the gate even if no action ever
\* releases again.
CancelUnblocks ==
    \A a \in Actions :
        (bpc[a] = "parked" /\ Ctx[a] \in ended) ~> bpc[a] \notin {"parked", "woken"}

=============================================================================
