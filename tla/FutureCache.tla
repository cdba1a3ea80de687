---------------------------- MODULE FutureCache ----------------------------
(***************************************************************************)
(* internal/gopls/cache/future.go: the key-value store of futures through *)
(* which the goroutines of a type-checking batch share computations.      *)
(*                                                                         *)
(* A goroutine inside get is a getter: "select" is the three-way wait,     *)
(* "compute" the caller's function, "read" the instant between the done    *)
(* case and the reads of f.v and f.err, "leave" the deferred function.     *)
(* Futures are heap objects: one that neither the map nor a getter refers  *)
(* to has been collected and may be allocated again, so that a finite set  *)
(* of them stands for the unbounded heap. A key stands for an id in one of  *)
(* the caches of a batch: importPackages is persistent and may be released, *)
(* syntaxPackages is transient.                                             *)
(***************************************************************************)
EXTENDS Naturals, FiniteSets

CONSTANTS
    Getters,     \* goroutines that call get
    Keys,
    Futures,     \* heap objects
    NoFuture,
    Persistent,  \* keys of caches made by newFutureCache(true)
    Releasable   \* keys their owner may release

ASSUME FutureAssumption ==
    /\ IsFiniteSet(Getters)
    /\ NoFuture \notin Futures
    /\ Persistent \subseteq Keys
    /\ Releasable \subseteq Keys

VARIABLES
    cache,      \* futureCache.cache, NoFuture where the key is absent
    refs,       \* future.refs
    acquire,    \* whether the unit is in future.acquire
    done,       \* whether future.done is closed
    value,      \* future.v and err: "unset", "good", "failed", "zero", "partial"
    pc,
    key,        \* the key a getter asked for
    at,         \* its future
    cancelled,  \* whether its context is done
    got         \* what its call returns

future == <<refs, acquire, done, value>>
vars == <<cache, future, pc, key, at, cancelled, got>>

Results == {"good", "failed"}

Values == Results \cup {"unset", "zero", "partial"}

Inside == {"select", "compute", "read", "leave"}

Init ==
    /\ cache = [k \in Keys |-> NoFuture]
    /\ refs = [f \in Futures |-> 0]
    /\ acquire = [f \in Futures |-> FALSE]
    /\ done = [f \in Futures |-> FALSE]
    /\ value = [f \in Futures |-> "unset"]
    /\ pc = [g \in Getters |-> "idle"]
    /\ key \in [Getters -> Keys]
    /\ at = [g \in Getters |-> NoFuture]
    /\ cancelled = [g \in Getters |-> FALSE]
    /\ got = [g \in Getters |-> "none"]

----------------------------------------------------------------------------
\* Nothing refers to f any more.
Collected(f) ==
    /\ refs[f] = 0
    /\ \A k \in Keys : cache[k] # f

Call(g, k, f) ==
    /\ pc[g] = "idle"
    /\ pc' = [pc EXCEPT ![g] = "select"]
    /\ key' = [key EXCEPT ![g] = k]
    /\ at' = [at EXCEPT ![g] = f]
    /\ UNCHANGED <<cancelled, got>>

\* get finds the key in the map ...
JoinFuture(g, k) ==
    /\ cache[k] # NoFuture
    /\ Call(g, k, cache[k])
    /\ refs' = [refs EXCEPT ![cache[k]] = @ + 1]
    /\ UNCHANGED <<cache, acquire, done, value>>

NewFutureUncounted(g, k, f) ==
    /\ cache[k] = NoFuture
    /\ Collected(f)
    /\ Call(g, k, f)
    /\ cache' = [cache EXCEPT ![k] = f]
    /\ acquire' = [acquire EXCEPT ![f] = TRUE]
    /\ done' = [done EXCEPT ![f] = FALSE]
    /\ value' = [value EXCEPT ![f] = "unset"]
    /\ UNCHANGED refs

\* ... or installs a new future, available for computation.
NewFuture(g, k, f) ==
    /\ cache[k] = NoFuture
    /\ Collected(f)
    /\ Call(g, k, f)
    /\ cache' = [cache EXCEPT ![k] = f]
    /\ refs' = [refs EXCEPT ![f] = 1]
    /\ acquire' = [acquire EXCEPT ![f] = TRUE]
    /\ done' = [done EXCEPT ![f] = FALSE]
    /\ value' = [value EXCEPT ![f] = "unset"]

Goto(g, l) ==
    /\ pc' = [pc EXCEPT ![g] = l]
    /\ UNCHANGED <<cache, refs, key, at, cancelled>>

SelectCancelled(g) ==
    /\ pc[g] = "select" /\ cancelled[g]
    /\ got' = [got EXCEPT ![g] = "cancelled"]
    /\ Goto(g, "leave")
    /\ UNCHANGED <<acquire, done, value>>

SelectDone(g) ==
    /\ pc[g] = "select" /\ done[at[g]]
    /\ Goto(g, "read")
    /\ UNCHANGED <<acquire, done, value, got>>

ReadValue(g) ==
    /\ pc[g] = "read"
    /\ got' = [got EXCEPT ![g] = value[at[g]]]
    /\ Goto(g, "leave")
    /\ UNCHANGED <<acquire, done, value>>

SelectAcquire(g) ==
    /\ pc[g] = "select" /\ acquire[at[g]]
    /\ acquire' = [acquire EXCEPT ![at[g]] = FALSE]
    /\ Goto(g, "compute")
    /\ UNCHANGED <<done, value, got>>

PublishUnchecked(g) ==
    /\ pc[g] = "compute"
    /\ \E v \in IF cancelled[g] THEN {"partial"} ELSE Results :
         /\ value' = [value EXCEPT ![at[g]] = v]
         /\ got' = [got EXCEPT ![g] = v]
    /\ done' = [done EXCEPT ![at[g]] = TRUE]
    /\ Goto(g, "leave")
    /\ UNCHANGED acquire

\* The computation ends with the context alive: its outcome is published.
\* done is closed last, so that both assignments appear with it.
Publish(g) ==
    /\ pc[g] = "compute" /\ ~cancelled[g]
    /\ \E v \in Results :
         /\ value' = [value EXCEPT ![at[g]] = v]
         /\ got' = [got EXCEPT ![g] = v]
    /\ done' = [done EXCEPT ![at[g]] = TRUE]
    /\ Goto(g, "leave")
    /\ UNCHANGED acquire

HandOffDropped(g) ==
    /\ pc[g] = "compute" /\ cancelled[g]
    /\ got' = [got EXCEPT ![g] = "cancelled"]
    /\ Goto(g, "leave")
    /\ UNCHANGED <<acquire, done, value>>

\* The computation ends with the context done: what it returned is dropped
\* and the unit goes back for the next requester.
HandOff(g) ==
    /\ pc[g] = "compute" /\ cancelled[g]
    /\ acquire' = [acquire EXCEPT ![at[g]] = TRUE]
    /\ got' = [got EXCEPT ![g] = "cancelled"]
    /\ Goto(g, "leave")
    /\ UNCHANGED <<done, value>>

DropsEntryEarly(g) == refs[at[g]] <= 2 /\ key[g] \notin Persistent

DropsEntryIfDone(g) == refs[at[g]] = 1 /\ key[g] \notin Persistent /\ done[at[g]]

DropsEntryAlways(g) == refs[at[g]] = 1

\* The deferred function deletes the entry of a transient cache with the last
\* reference; it deletes by key, whatever future the key holds by then.
DropsEntry(g) == refs[at[g]] = 1 /\ key[g] \notin Persistent

Leave(g) ==
    /\ pc[g] = "leave"
    /\ refs' = [refs EXCEPT ![at[g]] = @ - 1]
    /\ cache' = IF DropsEntry(g)
                THEN [cache EXCEPT ![key[g]] = NoFuture] ELSE cache
    /\ pc' = [pc EXCEPT ![g] = "idle"]
    /\ at' = [at EXCEPT ![g] = NoFuture]
    /\ cancelled' = [cancelled EXCEPT ![g] = FALSE]
    /\ got' = [got EXCEPT ![g] = "none"]
    /\ UNCHANGED <<acquire, done, value, key>>

Cancel(g) ==
    /\ pc[g] \in Inside /\ ~cancelled[g]
    /\ cancelled' = [cancelled EXCEPT ![g] = TRUE]
    /\ UNCHANGED <<cache, future, pc, key, at, got>>

\* futureCache.release, called by releaseAggressive: the entry goes, and the
\* value of a finished future with it.
Release(k) ==
    /\ k \in Releasable /\ cache[k] # NoFuture
    /\ cache' = [cache EXCEPT ![k] = NoFuture]
    /\ value' = IF done[cache[k]]
                THEN [value EXCEPT ![cache[k]] = "zero"] ELSE value
    /\ UNCHANGED <<refs, acquire, done, pc, key, at, cancelled, got>>

GetterStep(g) ==
    \/ SelectCancelled(g) \/ SelectDone(g) \/ ReadValue(g)
    \/ Publish(g) \/ HandOff(g) \/ Leave(g)

Next ==
    \/ \E g \in Getters, k \in Keys :
         JoinFuture(g, k) \/ \E f \in Futures : NewFuture(g, k, f)
    \/ \E g \in Getters : GetterStep(g) \/ SelectAcquire(g) \/ Cancel(g)
    \/ \E k \in Keys : Release(k)

Spec == Init /\ [][Next]_vars

\* A computation returns. A goroutine blocked on f.acquire is in the channel's
\* queue, which is first in, first out: if the unit comes back again and again
\* it is that goroutine's turn in the end, whence strong fairness.
Fairness ==
    \A g \in Getters : WF_vars(GetterStep(g)) /\ SF_vars(SelectAcquire(g))

FairSpec == Spec /\ Fairness

----------------------------------------------------------------------------
\* Types of the map, of the futures and of the getters.
TypeOK ==
    /\ cache \in [Keys -> Futures \cup {NoFuture}]
    /\ refs \in [Futures -> Nat]
    /\ acquire \in [Futures -> BOOLEAN]
    /\ done \in [Futures -> BOOLEAN]
    /\ value \in [Futures -> Values]
    /\ pc \in [Getters -> {"idle"} \cup Inside]
    /\ key \in [Getters -> Keys]
    /\ at \in [Getters -> Futures \cup {NoFuture}]
    /\ \A g \in Getters : pc[g] \in Inside <=> at[g] \in Futures
    /\ cancelled \in [Getters -> BOOLEAN]
    /\ got \in [Getters -> Values \cup {"none", "cancelled"}]

\* get's promise that a computation is shared: no two goroutines compute the
\* same key at the same time, across cancellations and re-created entries.
\* A key that is released under a computation may be computed anew.
SharedComputation ==
    \A g, h \in Getters :
        /\ pc[g] = "compute" /\ pc[h] = "compute"
        /\ key[g] = key[h] /\ key[g] \notin Releasable
        => g = h

\* The unit of a future is neither lost nor duplicated: it is in the channel,
\* with the one goroutine that computes, or spent for good on closing done.
\* Two holders would close done twice and panic; none would strand waiters.
Computes(g, f) == pc[g] = "compute" /\ at[g] = f

OneUnit ==
    /\ \A f \in Futures : ~Collected(f) =>
         /\ ~(acquire[f] /\ done[f])
         /\ (\E g \in Getters : Computes(g, f)) <=> ~acquire[f] /\ ~done[f]
    /\ \A f \in Futures : \A g, h \in Getters :
         Computes(g, f) /\ Computes(h, f) => g = h

\* A key is computed by one goroutine and one unit at a time: sharing is not
\* lost to cancellations, hand-offs and entries deleted by key.
ComputedOnce == OneUnit /\ SharedComputation

\* A call of get returns the outcome of a computation that was not cancelled,
\* or its own caller's cancellation; never a zero value without an error,
\* unless its key was released in the meantime.
Delivered ==
    \A g \in Getters : pc[g] = "leave" /\ key[g] \notin Releasable =>
        \/ got[g] \in Results
        \/ got[g] = "cancelled" /\ cancelled[g]

Settled(k) == cache[k] # NoFuture /\ done[cache[k]]

KeepsSettled ==
    \A k \in Persistent : Settled(k) /\ ~Release(k) =>
        /\ cache'[k] = cache[k]
        /\ done'[cache[k]]
        /\ value'[cache[k]] = value[cache[k]]

\* What a persistent cache holds for a key once computed, it holds until the
\* key is released: all importers of a package see one types.Package.
ValueStable == [][KeepsSettled]_vars

\* A transient cache keeps an entry exactly while somebody awaits it, so that
\* syntax packages are collectible as soon as the last requester has them.
EntryWhileAwaited ==
    \A k \in Keys \ (Persistent \cup Releasable) : cache[k] # NoFuture <=>
        \E g \in Getters : pc[g] \in Inside /\ key[g] = k

\* Every call of get returns, also when the computing goroutine is cancelled.
GetReturns ==
    \A g \in Getters : pc[g] = "select" ~> pc[g] = "idle"
============================================================================
