------------------------- MODULE FutureCacheProofs -------------------------
(***************************************************************************)
(* Safety of the futures cache for any number of goroutines and keys.      *)
(* The core invariant is about every key; what get promises its callers is *)
(* about the keys nobody releases.                                         *)
(***************************************************************************)
EXTENDS FutureCache, FiniteSetTheorems, TLAPS

\* The goroutines a future's reference count stands for.
Holders(f) == {g \in Getters : at[g] = f}

RefsExact == \A f \in Futures : refs[f] = Cardinality(Holders(f))

\* A future serves one key.
OneKey ==
    \A k, l \in Keys : cache[k] = cache[l] /\ cache[k] # NoFuture => k = l

CoreInv == TypeOK /\ RefsExact /\ OneKey /\ OneUnit

Kept == Keys \ Releasable

\* The goroutines that hold a future asked for one key, the one it serves.
OwnKey ==
    \A g \in Getters : pc[g] \in Inside =>
        /\ \A k \in Keys : cache[k] = at[g] => key[g] = k
        /\ \A h \in Getters : pc[h] \in Inside /\ at[h] = at[g] => key[h] = key[g]

\* The map holds every future somebody is waiting for under a kept key ...
MapHolds ==
    \A g \in Getters : pc[g] \in Inside /\ key[g] \in Kept => cache[key[g]] = at[g]

\* ... a closed future in the map has a value its readers can take ...
ValueKept ==
    \A k \in Kept : Settled(k) => value[cache[k]] \in Results

\* ... and a goroutine reads only closed futures.
ReadsDone ==
    \A g \in Getters : pc[g] = "read" => done[at[g]]

Awaited ==
    \A k \in Kept \ Persistent : cache[k] # NoFuture =>
        \E g \in Getters : at[g] = cache[k] /\ key[g] = k

KeptInv == OwnKey /\ MapHolds /\ ValueKept /\ ReadsDone /\ Delivered /\ Awaited

\* Counting the holders of a future: joining adds one, leaving removes one.
LEMMA HolderCount ==
  ASSUME NEW S, S \subseteq Getters
  PROVE  /\ IsFiniteSet(S)
         /\ Cardinality(S) \in Nat
         /\ Cardinality(S) = 0 <=> S = {}
         /\ \A g \in S : /\ Cardinality(S \ {g}) = Cardinality(S) - 1
                         /\ Cardinality(S) > 0
                         /\ Cardinality(S) = 1 <=> S \ {g} = {}
         /\ \A g \in Getters \ S : Cardinality(S \cup {g}) = Cardinality(S) + 1
<1>1. IsFiniteSet(S)
  BY Zenon, FS_Subset, FutureAssumption
<1>2. Cardinality(S) \in Nat /\ (Cardinality(S) = 0 <=> S = {})
  BY Zenon, <1>1, FS_CardinalityType, FS_EmptySet
<1>3. ASSUME NEW g \in S
      PROVE  /\ Cardinality(S \ {g}) = Cardinality(S) - 1
             /\ Cardinality(S) > 0
             /\ Cardinality(S) = 1 <=> S \ {g} = {}
  <2>1. IsFiniteSet(S \ {g}) /\ Cardinality(S \ {g}) = Cardinality(S) - 1
    BY Zenon, <1>1, FS_RemoveElement
  <2>2. Cardinality(S \ {g}) = 0 <=> S \ {g} = {}
    BY Zenon, <2>1, FS_EmptySet
  <2> QED
    BY <1>2, <2>1, <2>2
<1>4. \A g \in Getters \ S : Cardinality(S \cup {g}) = Cardinality(S) + 1
  BY Zenon, <1>1, FS_AddElement
<1> QED
  BY Zenon, <1>1, <1>2, <1>3, <1>4

\* A collected future has no goroutine inside get.
LEMMA CollectedUnheld ==
  ASSUME CoreInv, NEW f \in Futures, Collected(f)
  PROVE  Holders(f) = {} /\ \A g \in Getters : at[g] # f
<1>1. Holders(f) \subseteq Getters
  BY Zenon DEF Holders
<1>2. Cardinality(Holders(f)) = 0
  BY Zenon DEF CoreInv, RefsExact, Collected
<1>3. Holders(f) = {}
  BY Zenon, <1>1, <1>2, HolderCount
<1> QED
  BY Zenon, <1>3 DEF Holders

\* A future somebody holds is not collected.
LEMMA HeldAlive ==
  ASSUME CoreInv, NEW g \in Getters, pc[g] \in Inside
  PROVE  at[g] \in Futures /\ ~Collected(at[g])
<1>1. at[g] \in Futures
  BY Zenon DEF CoreInv, TypeOK
<1> QED
  BY Zenon, <1>1, CollectedUnheld

\* An empty cache satisfies both invariants.
LEMMA CacheInit == Init => CoreInv /\ KeptInv
<1> SUFFICES ASSUME Init PROVE CoreInv /\ KeptInv
  BY Zenon
<1>1. TypeOK
  BY Zenon, FutureAssumption DEF Init, TypeOK, Values, Inside
<1>2. RefsExact
  <2>1. ASSUME NEW f \in Futures PROVE Holders(f) = {}
    BY Zenon, FutureAssumption DEF Init, Holders
  <2> QED
    BY Zenon, <2>1, FS_EmptySet DEF RefsExact, Init
<1>3. OneKey /\ OneUnit
  <2>1. \A f \in Futures : Collected(f)
    BY Zenon, FutureAssumption DEF Init, Collected
  <2> QED
    BY Zenon, <2>1 DEF Init, OneKey, OneUnit, Computes
<1>4. KeptInv
  BY Zenon DEF Init, KeptInv, OwnKey, MapHolds, ValueKept, ReadsDone, Settled, Delivered, Awaited, Inside, Kept
<1> QED
  BY Zenon, <1>1, <1>2, <1>3, <1>4 DEF CoreInv

\* A step by g that neither enters nor leaves get.
StaysInside(g) ==
    /\ UNCHANGED <<cache, refs, at, key>>
    /\ \A f \in Futures \ {at[g]} : acquire'[f] = acquire[f] /\ done'[f] = done[f]
    /\ \A h \in Getters \ {g} : pc'[h] = pc[h]

\* Such a step keeps the counts and the map; the unit moves as it says.
LEMMA InsideStep ==
  ASSUME CoreInv, NEW g \in Getters, pc[g] \in Inside, TypeOK',
         StaysInside(g),
         ~(acquire'[at[g]] /\ done'[at[g]]),
         \/ pc'[g] = "compute"
         \/ pc[g] = "compute"
         \/ acquire'[at[g]] = acquire[at[g]] /\ done'[at[g]] = done[at[g]],
         pc'[g] = "compute" => acquire[at[g]] /\ ~acquire'[at[g]] /\ ~done'[at[g]],
         pc[g] = "compute" => acquire'[at[g]] \/ done'[at[g]]
  PROVE  CoreInv'
<1> USE DEF StaysInside
<1>1. RefsExact' /\ OneKey'
  <2>1. \A f : Holders(f)' = Holders(f)
    BY Zenon DEF Holders
  <2> QED
    BY Zenon, <2>1 DEF CoreInv, RefsExact, OneKey
<1>2. at[g] \in Futures /\ ~Collected(at[g])
  BY Zenon, HeldAlive
<1>3. \A f \in Futures : Collected(f)' <=> Collected(f)
  BY Zenon DEF Collected
<1>4. ASSUME NEW f \in Futures, ~Collected(f)
      PROVE  /\ ~(acquire'[f] /\ done'[f])
             /\ (\E h \in Getters : Computes(h, f)') <=> ~acquire'[f] /\ ~done'[f]
             /\ \A h, i \in Getters : Computes(h, f)' /\ Computes(i, f)' => h = i
  <2>0. /\ ~(acquire[f] /\ done[f])
        /\ (\E h \in Getters : Computes(h, f)) <=> ~acquire[f] /\ ~done[f]
        /\ \A h, i \in Getters : Computes(h, f) /\ Computes(i, f) => h = i
    BY Zenon, <1>4 DEF CoreInv, OneUnit
  <2>1. CASE f # at[g]
    <3>1. \A h \in Getters : Computes(h, f)' <=> Computes(h, f)
      BY Zenon, <2>1 DEF Computes
    <3> QED
      BY Zenon, <2>0, <2>1, <3>1
  <2>2. CASE f = at[g] /\ pc'[g] = "compute"
    <3>1. \A h \in Getters : ~Computes(h, f)
      BY Zenon, <2>0, <2>2
    <3>2. \A h \in Getters : Computes(h, f)' <=> h = g
      BY Zenon, <2>2, <3>1 DEF Computes
    <3> QED
      BY Zenon, <2>0, <2>2, <3>2
  <2>3. CASE f = at[g] /\ pc'[g] # "compute" /\ pc[g] = "compute"
    <3>1. Computes(g, f)
      BY Zenon, <2>3 DEF Computes
    <3>2. \A h \in Getters : ~Computes(h, f)'
      BY Zenon, <2>0, <2>3, <3>1 DEF Computes
    <3> QED
      BY Zenon, <2>3, <3>2
  <2>4. CASE f = at[g] /\ pc'[g] # "compute" /\ pc[g] # "compute"
    <3>1. \A h \in Getters : Computes(h, f)' <=> Computes(h, f)
      BY Zenon, <2>4 DEF Computes
    <3> QED
      BY Zenon, <2>0, <2>4, <3>1
  <2> QED
    BY Zenon, <2>1, <2>2, <2>3, <2>4
<1>5. ASSUME NEW f \in Futures, Collected(f), NEW h \in Getters
      PROVE  ~Computes(h, f)'
  BY Zenon, <1>5, CollectedUnheld DEF Computes
<1>6. OneUnit'
  BY Zenon, <1>3, <1>4, <1>5 DEF OneUnit
<1> QED
  BY Zenon, <1>1, <1>6 DEF CoreInv

\* A goroutine that finds the key joins a future that is alive.
LEMMA JoinStep ==
  ASSUME CoreInv, NEW g \in Getters, NEW k \in Keys, JoinFuture(g, k)
  PROVE  CoreInv'
<1>0. PICK f \in Futures : f = cache[k]
  BY Zenon DEF JoinFuture, CoreInv, TypeOK
<1>1. f \in Futures /\ at[g] \notin Futures /\ pc[g] = "idle" /\ ~Collected(f)
  BY Zenon, <1>0 DEF JoinFuture, Call, CoreInv, TypeOK, Inside, Collected
<1>2. TypeOK'
  <2>1. refs' \in [Futures -> Nat]
    BY <1>0, <1>1 DEF JoinFuture, CoreInv, TypeOK
  <2> QED
    BY Zenon, <1>0, <1>1, <2>1 DEF JoinFuture, Call, CoreInv, TypeOK, Inside
<1>3. RefsExact'
  <2>1. Holders(f)' = Holders(f) \cup {g} /\ g \notin Holders(f) /\ Holders(f) \subseteq Getters
    BY <1>0, <1>1 DEF JoinFuture, Call, CoreInv, TypeOK, Holders
  <2>2. Cardinality(Holders(f)') = Cardinality(Holders(f)) + 1
    BY <2>1, HolderCount
  <2>3. \A e \in Futures \ {f} : Holders(e)' = Holders(e)
    BY Zenon, <1>0, <1>1 DEF JoinFuture, Call, CoreInv, TypeOK, Holders
  <2>4. refs'[f] = refs[f] + 1 /\ \A e \in Futures \ {f} : refs'[e] = refs[e]
    BY Zenon, <1>0, <1>1 DEF JoinFuture, CoreInv, TypeOK
  <2> QED
    BY Zenon, <1>0, <1>1, <2>2, <2>3, <2>4 DEF CoreInv, RefsExact
<1>4. OneKey'
  BY Zenon DEF JoinFuture, CoreInv, OneKey
<1>5. OneUnit'
  <2>1. \A e \in Futures, h \in Getters : Computes(h, e)' <=> Computes(h, e)
    BY Zenon, <1>0, <1>1 DEF JoinFuture, Call, CoreInv, TypeOK, Computes
  <2>2. \A e \in Futures : ~Collected(e)' => ~Collected(e)
    BY Zenon, <1>0, <1>1 DEF JoinFuture, Collected, CoreInv, TypeOK
  <2>3. acquire' = acquire /\ done' = done
    BY Zenon DEF JoinFuture
  <2> QED
    BY Zenon, <2>1, <2>2, <2>3 DEF CoreInv, OneUnit
<1> QED
  BY Zenon, <1>2, <1>3, <1>4, <1>5 DEF CoreInv

\* A new future replaces nothing that anybody refers to.
LEMMA NewStep ==
  ASSUME CoreInv, NEW g \in Getters, NEW k \in Keys, NEW f \in Futures,
         NewFuture(g, k, f)
  PROVE  CoreInv'
<1>1. /\ at[g] \notin Futures /\ pc[g] = "idle" /\ f # NoFuture
      /\ Collected(f) /\ Holders(f) = {} /\ \A h \in Getters : at[h] # f
  <2>1. Collected(f) /\ pc[g] = "idle"
    BY Zenon DEF NewFuture, Call
  <2> QED
    BY Zenon, <2>1, CollectedUnheld, FutureAssumption DEF CoreInv, TypeOK, Inside
<1>2. TypeOK'
  <2>1. acquire' \in [Futures -> BOOLEAN] /\ done' \in [Futures -> BOOLEAN]
    BY Zenon DEF NewFuture, CoreInv, TypeOK
  <2> QED
    BY Zenon, <1>1, <2>1 DEF NewFuture, Call, CoreInv, TypeOK, Values, Inside
<1>3. RefsExact'
  <2>1. Holders(f)' = {g}
    BY <1>1 DEF NewFuture, Call, CoreInv, TypeOK, Holders
  <2>2. Cardinality({g}) = 1
    BY Zenon, FS_Singleton
  <2>3. \A e \in Futures \ {f} : Holders(e)' = Holders(e)
    BY Zenon, <1>1 DEF NewFuture, Call, CoreInv, TypeOK, Holders
  <2>4. refs'[f] = 1 /\ \A e \in Futures \ {f} : refs'[e] = refs[e]
    BY Zenon, <1>1 DEF NewFuture, CoreInv, TypeOK
  <2> QED
    BY Zenon, <2>1, <2>2, <2>3, <2>4 DEF CoreInv, RefsExact
<1>4. OneKey'
  BY Zenon, <1>1 DEF NewFuture, CoreInv, TypeOK, OneKey, Collected
<1>5. OneUnit'
  <2>1. \A e \in Futures, h \in Getters : Computes(h, e)' <=> Computes(h, e)
    BY Zenon, <1>1 DEF NewFuture, Call, CoreInv, TypeOK, Computes
  <2>2. \A h \in Getters : ~Computes(h, f)
    BY Zenon, <1>1 DEF Computes
  <2>3. \A e \in Futures \ {f} : ~Collected(e)' => ~Collected(e)
    BY Zenon, <1>1 DEF NewFuture, Collected, CoreInv, TypeOK
  <2>4. /\ acquire'[f] /\ ~done'[f]
        /\ \A e \in Futures \ {f} : acquire'[e] = acquire[e] /\ done'[e] = done[e]
    BY Zenon DEF NewFuture, CoreInv, TypeOK
  <2> QED
    BY <2>1, <2>2, <2>3, <2>4 DEF CoreInv, OneUnit
<1> QED
  BY Zenon, <1>2, <1>3, <1>4, <1>5 DEF CoreInv

\* Leaving gives the reference back; the entry may go with the last one.
LEMMA LeaveStep ==
  ASSUME CoreInv, NEW g \in Getters, Leave(g)
  PROVE  CoreInv'
<1>0. PICK f \in Futures : f = at[g]
  BY Zenon DEF Leave, CoreInv, TypeOK, Inside
<1>1. f \in Futures /\ pc[g] = "leave" /\ key[g] \in Keys /\ NoFuture \notin Futures
  BY Zenon, <1>0, FutureAssumption DEF Leave, CoreInv, TypeOK, Inside
<1>2. g \in Holders(f) /\ Holders(f) \subseteq Getters
  BY Zenon, <1>0 DEF Holders
<1>3. Cardinality(Holders(f)) > 0 /\ Cardinality(Holders(f) \ {g}) = Cardinality(Holders(f)) - 1
      /\ Cardinality(Holders(f)) \in Nat
  BY Zenon, <1>2, HolderCount
<1>4. refs[f] = Cardinality(Holders(f)) /\ refs[f] - 1 \in Nat
  BY <1>0, <1>1, <1>3 DEF CoreInv, RefsExact
<1>5. TypeOK'
  <2>1. refs' \in [Futures -> Nat]
    BY Zenon, <1>0, <1>1, <1>4 DEF Leave, CoreInv, TypeOK
  <2>2. cache' \in [Keys -> Futures \cup {NoFuture}]
    BY Zenon, <1>0, <1>1 DEF Leave, CoreInv, TypeOK
  <2>3. cancelled' \in [Getters -> BOOLEAN]
    BY Zenon DEF Leave, CoreInv, TypeOK
  <2>4. /\ got' \in [Getters -> Values \cup {"none", "cancelled"}]
        /\ pc' \in [Getters -> {"idle"} \cup Inside]
        /\ at' \in [Getters -> Futures \cup {NoFuture}]
    BY Zenon DEF Leave, CoreInv, TypeOK
  <2>5. \A h \in Getters : pc'[h] \in Inside <=> at'[h] \in Futures
    BY Zenon, <1>1 DEF Leave, CoreInv, TypeOK, Inside
  <2> QED
    BY Zenon, <2>1, <2>2, <2>3, <2>4, <2>5 DEF Leave, CoreInv, TypeOK
<1>6. RefsExact'
  <2>1. Holders(f)' = Holders(f) \ {g}
    BY Zenon, <1>0, <1>1 DEF Leave, CoreInv, TypeOK, Holders
  <2>2. \A e \in Futures \ {f} : Holders(e)' = Holders(e)
    BY Zenon, <1>0, <1>1 DEF Leave, CoreInv, TypeOK, Holders
  <2>3. refs'[f] = refs[f] - 1 /\ \A e \in Futures \ {f} : refs'[e] = refs[e]
    BY Zenon, <1>0, <1>1 DEF Leave, CoreInv, TypeOK
  <2> QED
    BY Zenon, <1>3, <1>4, <2>1, <2>2, <2>3 DEF CoreInv, RefsExact
<1>7. \A k \in Keys : cache'[k] = cache[k] \/ cache'[k] = NoFuture
  BY Zenon DEF Leave, CoreInv, TypeOK
<1>8. OneKey'
  BY Zenon, <1>7 DEF CoreInv, OneKey
<1>9. OneUnit'
  <2>1. \A e \in Futures, h \in Getters : Computes(h, e)' <=> Computes(h, e)
    BY Zenon, <1>0, <1>1 DEF Leave, CoreInv, TypeOK, Computes
  <2>2. \A e \in Futures : ~Collected(e)' => ~Collected(e)
    <3>1. \A e \in Futures \ {f} : refs'[e] = refs[e]
      BY Zenon, <1>0, <1>1 DEF Leave, CoreInv, TypeOK
    <3>2. refs[f] # 0
      BY <1>3, <1>4
    <3> QED
      BY Zenon, <1>0, <1>1, <1>7, <3>1, <3>2 DEF Collected
  <2>3. acquire' = acquire /\ done' = done
    BY Zenon DEF Leave
  <2> QED
    BY Zenon, <2>1, <2>2, <2>3 DEF CoreInv, OneUnit
<1> QED
  BY Zenon, <1>5, <1>6, <1>8, <1>9 DEF CoreInv

\* release only makes more futures collectible.
LEMMA ReleaseStep ==
  ASSUME CoreInv, NEW k \in Keys, Release(k)
  PROVE  CoreInv'
<1>1. TypeOK'
  BY Zenon DEF Release, CoreInv, TypeOK, Values
<1>2. RefsExact' /\ OneKey'
  <2>1. \A f : Holders(f)' = Holders(f)
    BY Zenon DEF Release, Holders
  <2> QED
    BY Zenon, <2>1 DEF Release, CoreInv, TypeOK, RefsExact, OneKey
<1>3. OneUnit'
  <2>1. \A e \in Futures, h \in Getters : Computes(h, e)' <=> Computes(h, e)
    BY Zenon DEF Release, Computes
  <2>2. \A e \in Futures : ~Collected(e)' => ~Collected(e)
    BY Zenon, FutureAssumption DEF Release, Collected, CoreInv, TypeOK
  <2>3. acquire' = acquire /\ done' = done
    BY Zenon DEF Release
  <2> QED
    BY Zenon, <2>1, <2>2, <2>3 DEF CoreInv, OneUnit
<1> QED
  BY Zenon, <1>1, <1>2, <1>3 DEF CoreInv

\* What a getter does between entering and leaving get.
LEMMA GetterKeepsCore ==
  ASSUME CoreInv, NEW g \in Getters,
         \/ SelectCancelled(g) \/ SelectDone(g) \/ ReadValue(g)
         \/ Publish(g) \/ HandOff(g) \/ SelectAcquire(g)
  PROVE  CoreInv'
<1> USE DEF Goto
<1>0. pc[g] \in Inside
  BY Zenon DEF SelectCancelled, SelectDone, ReadValue, Publish, HandOff, SelectAcquire, Inside
<1>1. at[g] \in Futures /\ ~Collected(at[g])
  BY Zenon, <1>0, HeldAlive
<1>2. /\ ~(acquire[at[g]] /\ done[at[g]])
      /\ (\E h \in Getters : Computes(h, at[g])) <=> ~acquire[at[g]] /\ ~done[at[g]]
  BY Zenon, <1>1 DEF CoreInv, OneUnit
<1>3. pc[g] = "compute" => ~acquire[at[g]] /\ ~done[at[g]]
  BY Zenon, <1>2 DEF Computes
<1>4. CASE SelectCancelled(g) \/ SelectDone(g) \/ ReadValue(g)
  <2>1. got' \in [Getters -> Values \cup {"none", "cancelled"}]
    BY Zenon, <1>1, <1>4 DEF SelectCancelled, SelectDone, ReadValue, CoreInv, TypeOK
  <2>2. TypeOK'
    BY Zenon, <1>0, <1>1, <1>4, <2>1 DEF SelectCancelled, SelectDone, ReadValue, CoreInv, TypeOK, Inside
  <2>3. StaysInside(g) /\ pc'[g] # "compute" /\ pc[g] # "compute"
        /\ acquire' = acquire /\ done' = done
    BY Zenon, <1>4 DEF SelectCancelled, SelectDone, ReadValue, CoreInv, TypeOK, StaysInside
  <2> QED
    BY Zenon, <1>0, <1>2, <2>2, <2>3, InsideStep
<1>5. CASE Publish(g)
  <2>1. done' \in [Futures -> BOOLEAN]
    BY Zenon, <1>5 DEF Publish, CoreInv, TypeOK
  <2>2. TypeOK'
    BY <1>0, <1>1, <1>5, <2>1 DEF Publish, CoreInv, TypeOK, Inside, Values
  <2>3. StaysInside(g)
    BY Zenon, <1>1, <1>5 DEF Publish, CoreInv, TypeOK, StaysInside
  <2>4. done'[at[g]] /\ ~acquire'[at[g]] /\ pc'[g] # "compute" /\ pc[g] = "compute"
    BY Zenon, <1>1, <1>3, <1>5 DEF Publish, CoreInv, TypeOK
  <2> QED
    BY Zenon, <1>0, <2>2, <2>3, <2>4, InsideStep
<1>6. CASE HandOff(g)
  <2>1. acquire' \in [Futures -> BOOLEAN]
    BY Zenon, <1>6 DEF HandOff, CoreInv, TypeOK
  <2>2. TypeOK'
    BY Zenon, <1>0, <1>1, <1>6, <2>1 DEF HandOff, CoreInv, TypeOK, Inside
  <2>3. StaysInside(g)
    BY Zenon, <1>1, <1>6 DEF HandOff, CoreInv, TypeOK, StaysInside
  <2>4. acquire'[at[g]] /\ ~done'[at[g]] /\ pc'[g] # "compute" /\ pc[g] = "compute"
    BY Zenon, <1>1, <1>3, <1>6 DEF HandOff, CoreInv, TypeOK
  <2> QED
    BY Zenon, <1>0, <2>2, <2>3, <2>4, InsideStep
<1>7. CASE SelectAcquire(g)
  <2>1. acquire' \in [Futures -> BOOLEAN]
    BY Zenon, <1>7 DEF SelectAcquire, CoreInv, TypeOK
  <2>2. TypeOK'
    BY Zenon, <1>0, <1>1, <1>7, <2>1 DEF SelectAcquire, CoreInv, TypeOK, Inside
  <2>3. StaysInside(g)
    BY Zenon, <1>1, <1>7 DEF SelectAcquire, CoreInv, TypeOK, StaysInside
  <2>4. /\ acquire[at[g]] /\ ~acquire'[at[g]] /\ ~done'[at[g]]
        /\ pc'[g] = "compute" /\ pc[g] # "compute"
    BY Zenon, <1>1, <1>2, <1>7 DEF SelectAcquire, CoreInv, TypeOK
  <2> QED
    BY Zenon, <1>0, <2>2, <2>3, <2>4, InsideStep
<1> QED
  BY Zenon, <1>4, <1>5, <1>6, <1>7

\* Steps that touch no future.
LEMMA QuietKeepsCore ==
  ASSUME CoreInv, UNCHANGED <<cache, future, pc, key, at, got>>,
         cancelled' \in [Getters -> BOOLEAN]
  PROVE  CoreInv'
<1>1. TypeOK'
  BY Zenon DEF CoreInv, TypeOK, future
<1>2. \A f : Holders(f)' = Holders(f)
  BY Zenon DEF Holders
<1>3. /\ \A f \in Futures : Collected(f)' <=> Collected(f)
      /\ \A f \in Futures, g \in Getters : Computes(g, f)' <=> Computes(g, f)
  BY Zenon DEF Collected, Computes, future
<1> QED
  BY Zenon, <1>1, <1>2, <1>3 DEF CoreInv, RefsExact, OneKey, OneUnit, future

\* Every step of get and release keeps the core invariant.
LEMMA CoreStep == CoreInv /\ [Next]_vars => CoreInv'
<1> SUFFICES ASSUME CoreInv, [Next]_vars PROVE CoreInv'
  BY Zenon
<1>1. ASSUME NEW g \in Getters, Cancel(g) PROVE CoreInv'
  <2>1. cancelled' \in [Getters -> BOOLEAN]
    BY Zenon, <1>1 DEF Cancel, CoreInv, TypeOK
  <2> QED
    BY Zenon, <1>1, <2>1, QuietKeepsCore DEF Cancel
<1>2. CASE UNCHANGED vars
  BY Zenon, <1>2, QuietKeepsCore DEF vars, CoreInv, TypeOK
<1> QED
  BY Zenon, <1>1, <1>2, JoinStep, NewStep, GetterKeepsCore, LeaveStep, ReleaseStep
  DEF Next, GetterStep

\* Entering get keeps the map and the values.
LEMMA EnterKeeps ==
  ASSUME CoreInv, KeptInv, NEW g \in Getters, NEW k \in Keys, NEW f \in Futures,
         (JoinFuture(g, k) /\ f = cache[k]) \/ NewFuture(g, k, f)
  PROVE  KeptInv'
<1>1. pc[g] = "idle" /\ at[g] \notin Futures
  BY Zenon DEF JoinFuture, NewFuture, Call, CoreInv, TypeOK, Inside
<1>2. pc'[g] = "select" /\ at'[g] = f /\ key'[g] = k /\ cache'[k] = f
  BY Zenon DEF JoinFuture, NewFuture, Call, CoreInv, TypeOK
<1>3. /\ \A h \in Getters \ {g} : pc'[h] = pc[h] /\ at'[h] = at[h] /\ key'[h] = key[h]
      /\ UNCHANGED <<cancelled, got>>
  BY Zenon DEF JoinFuture, NewFuture, Call, CoreInv, TypeOK
<1>4. \A l \in Keys : l # k => cache'[l] = cache[l]
  BY Zenon DEF JoinFuture, NewFuture, CoreInv, TypeOK
<1>5. MapHolds'
  <2>1. ASSUME NEW h \in Getters \ {g}, pc[h] \in Inside, key[h] \in Kept
        PROVE  cache'[key[h]] = at[h]
    <3>1. cache[key[h]] = at[h] /\ at[h] # NoFuture /\ key[h] \in Keys
      BY Zenon, <2>1, FutureAssumption DEF KeptInv, MapHolds, CoreInv, TypeOK
    <3>2. CASE key[h] = k
      <4>1. JoinFuture(g, k)
        BY Zenon, <3>1, <3>2 DEF NewFuture
      <4> QED
        BY Zenon, <1>2, <3>1, <3>2, <4>1 DEF JoinFuture
    <3> QED
      BY Zenon, <1>4, <3>1, <3>2
  <2> QED
    BY Zenon, <1>2, <1>3, <2>1 DEF MapHolds
<1>6. ValueKept' /\ ReadsDone'
  <2>1. CASE JoinFuture(g, k)
    <3>1. UNCHANGED <<cache, done, value>>
      BY Zenon, <2>1 DEF JoinFuture
    <3> QED
      BY Zenon, <1>2, <1>3, <3>1 DEF KeptInv, ValueKept, ReadsDone, Settled
  <2>2. CASE NewFuture(g, k, f)
    <3>1. /\ \A h \in Getters : at[h] # f
          /\ \A l \in Keys : cache[l] # f
      BY Zenon, <2>2, CollectedUnheld DEF NewFuture, Collected
    <3>2. /\ ~done'[f]
          /\ \A e \in Futures \ {f} : done'[e] = done[e] /\ value'[e] = value[e]
      BY Zenon, <2>2 DEF NewFuture, CoreInv, TypeOK
    <3>3. ASSUME NEW l \in Kept, Settled(l)' PROVE value'[cache'[l]] \in Results
      <4>1. l \in Keys /\ l # k
        BY Zenon, <1>2, <3>2, <3>3 DEF Settled, Kept
      <4>2. cache'[l] = cache[l]
        BY Zenon, <1>4, <4>1
      <4>3. cache[l] \in Futures \ {f}
        BY Zenon, <3>1, <3>3, <4>1, <4>2 DEF Settled, CoreInv, TypeOK
      <4>4. Settled(l) /\ value'[cache[l]] = value[cache[l]]
        BY Zenon, <3>2, <3>3, <4>2, <4>3 DEF Settled
      <4> QED
        BY Zenon, <3>3, <4>2, <4>4 DEF KeptInv, ValueKept
    <3>4. ASSUME NEW h \in Getters, pc'[h] = "read" PROVE done'[at'[h]]
      <4>1. h # g
        BY Zenon, <1>2, <3>4
      <4>2. pc[h] = "read" /\ at'[h] = at[h]
        BY Zenon, <1>3, <3>4, <4>1
      <4>3. at[h] \in Futures \ {f}
        BY Zenon, <3>1, <4>2 DEF CoreInv, TypeOK, Inside
      <4>4. done[at[h]]
        BY Zenon, <4>2 DEF KeptInv, ReadsDone
      <4> QED
        BY Zenon, <3>2, <4>2, <4>3, <4>4
    <3> QED
      BY Zenon, <3>3, <3>4 DEF ValueKept, ReadsDone
  <2> QED
    BY Zenon, <2>1, <2>2
<1>7. Delivered'
  <2>1. ASSUME NEW h \in Getters, pc'[h] = "leave", key'[h] \notin Releasable
        PROVE  got'[h] \in Results \/ (got'[h] = "cancelled" /\ cancelled'[h])
    <3>1. h # g
      BY Zenon, <1>2, <2>1
    <3> QED
      BY Zenon, <1>3, <2>1, <3>1 DEF KeptInv, Delivered
  <2> QED
    BY Zenon, <2>1 DEF Delivered
<1>8. Awaited'
  <2>1. ASSUME NEW l \in Kept \ Persistent, l # k, cache'[l] # NoFuture
        PROVE  \E h \in Getters : at'[h] = cache'[l] /\ key'[h] = l
    <3>0. l \in Keys /\ cache'[l] = cache[l]
      BY Zenon, <1>4, <2>1 DEF Kept
    <3>1. PICK h \in Getters : at[h] = cache[l] /\ key[h] = l
      BY Zenon, <2>1, <3>0 DEF KeptInv, Awaited
    <3>2. at[h] \in Futures
      BY Zenon, <2>1, <3>0, <3>1 DEF CoreInv, TypeOK
    <3>3. h # g
      BY Zenon, <1>1, <3>2
    <3> QED
      BY Zenon, <1>3, <3>0, <3>1, <3>3
  <2> QED
    BY Zenon, <1>2, <2>1 DEF Awaited
<1>9. OwnKey'
  <2>1. ASSUME NEW h \in Getters \ {g}, pc[h] \in Inside, at[h] = f PROVE key[h] = k
    <3>1. JoinFuture(g, k) /\ f = cache[k]
      BY Zenon, <2>1, CollectedUnheld DEF NewFuture
    <3> QED
      BY Zenon, <2>1, <3>1 DEF KeptInv, OwnKey
  <2>2. ASSUME NEW h \in Getters \ {g}, pc[h] \in Inside, NEW l \in Keys, cache'[l] = at[h]
        PROVE  key[h] = l
    <3>1. CASE l = k
      BY Zenon, <1>2, <2>1, <2>2, <3>1
    <3>2. CASE l # k
      BY Zenon, <1>4, <2>2, <3>2 DEF KeptInv, OwnKey
    <3> QED
      BY Zenon, <3>1, <3>2
  <2>3. ASSUME NEW l \in Keys, cache'[l] = f PROVE l = k
    <3>1. CASE l # k
      <4>1. cache[l] = f
        BY Zenon, <1>4, <2>3, <3>1
      <4>2. JoinFuture(g, k) /\ f = cache[k]
        BY Zenon, <4>1 DEF NewFuture, Collected
      <4> QED
        BY Zenon, <4>1, <4>2 DEF JoinFuture, CoreInv, OneKey
    <3> QED
      BY Zenon, <3>1
  <2>4. ASSUME NEW h \in Getters, pc'[h] \in Inside, NEW l \in Keys, cache'[l] = at'[h]
        PROVE  key'[h] = l
    BY <1>2, <1>3, <2>2, <2>3, <2>4
  <2>5. ASSUME NEW h \in Getters, NEW i \in Getters,
               pc'[h] \in Inside, pc'[i] \in Inside, at'[h] = at'[i]
        PROVE  key'[h] = key'[i]
    <3>1. CASE h = g
      BY Zenon, <1>2, <1>3, <2>1, <2>5, <3>1
    <3>2. CASE i = g
      BY Zenon, <1>2, <1>3, <2>1, <2>5, <3>2
    <3>3. CASE h # g /\ i # g
      BY <1>3, <2>5, <3>3 DEF KeptInv, OwnKey
    <3> QED
      BY Zenon, <3>1, <3>2, <3>3
  <2> QED
    BY Zenon, <2>4, <2>5 DEF OwnKey
<1> QED
  BY Zenon, <1>5, <1>6, <1>7, <1>8, <1>9 DEF KeptInv

\* Leaving removes an entry only with the last goroutine that waits for it.
LEMMA LeaveKeeps ==
  ASSUME CoreInv, KeptInv, NEW g \in Getters, Leave(g)
  PROVE  KeptInv'
<1>0. PICK f \in Futures : f = at[g]
  BY Zenon DEF Leave, CoreInv, TypeOK, Inside
<1>1. /\ pc[g] = "leave" /\ pc'[g] = "idle" /\ at'[g] = NoFuture
      /\ UNCHANGED <<done, value, key>> /\ key[g] \in Keys
  BY Zenon DEF Leave, CoreInv, TypeOK
<1>2. \A h \in Getters \ {g} : /\ pc'[h] = pc[h] /\ at'[h] = at[h]
                                /\ cancelled'[h] = cancelled[h] /\ got'[h] = got[h]
  BY Zenon DEF Leave, CoreInv, TypeOK
<1>3. \A l \in Keys : l # key[g] => cache'[l] = cache[l]
  BY Zenon DEF Leave, CoreInv, TypeOK
<1>4. g \in Holders(f) /\ Holders(f) \subseteq Getters
  BY Zenon, <1>0 DEF Holders
<1>5. refs[f] = 1 <=> Holders(f) \ {g} = {}
  <2>1. refs[f] = Cardinality(Holders(f))
    BY Zenon DEF CoreInv, RefsExact
  <2>2. Cardinality(Holders(f)) = 1 <=> Holders(f) \ {g} = {}
    BY <1>4, HolderCount, Zenon
  <2> QED
    BY <2>1, <2>2, Zenon
<1>6. \/ cache'[key[g]] = cache[key[g]] /\ ~(refs[f] = 1 /\ key[g] \notin Persistent)
      \/ cache'[key[g]] = NoFuture /\ refs[f] = 1 /\ key[g] \notin Persistent
  BY Zenon, <1>0, <1>1 DEF Leave, DropsEntry, CoreInv, TypeOK
<1>7. key[g] \in Kept => cache[key[g]] = f
  BY Zenon, <1>0, <1>1 DEF KeptInv, MapHolds, Inside
<1>8. MapHolds'
  <2>1. ASSUME NEW h \in Getters \ {g}, pc[h] \in Inside, key[h] \in Kept
        PROVE  cache'[key[h]] = at[h]
    <3>1. cache[key[h]] = at[h] /\ key[h] \in Keys
      BY Zenon, <2>1 DEF KeptInv, MapHolds, CoreInv, TypeOK
    <3>2. CASE key[h] = key[g]
      <4>1. at[h] = f
        BY Zenon, <1>7, <2>1, <3>1, <3>2
      <4>2. Holders(f) \ {g} # {}
        BY Zenon, <4>1 DEF Holders
      <4> QED
        BY Zenon, <1>5, <1>6, <3>1, <3>2, <4>2
    <3> QED
      BY Zenon, <1>3, <3>1, <3>2
  <2> QED
    BY Zenon, <1>1, <1>2, <2>1 DEF MapHolds, Inside
<1>9. ValueKept'
  <2>1. ASSUME NEW l \in Kept, Settled(l)' PROVE value'[cache'[l]] \in Results
    <3>1. cache'[l] = cache[l]
      BY Zenon, <1>3, <1>6, <2>1 DEF Settled, Kept
    <3>2. Settled(l)
      BY Zenon, <1>1, <2>1, <3>1 DEF Settled
    <3> QED
      BY Zenon, <1>1, <2>1, <3>1, <3>2 DEF KeptInv, ValueKept
  <2> QED
    BY Zenon, <2>1 DEF ValueKept
<1>10. ReadsDone'
  BY Zenon, <1>1, <1>2 DEF KeptInv, ReadsDone
<1>11. Delivered'
  BY Zenon, <1>1, <1>2 DEF KeptInv, Delivered
<1>12. Awaited'
  <2> SUFFICES ASSUME NEW l \in Kept \ Persistent, cache'[l] # NoFuture
               PROVE  \E h \in Getters : at'[h] = cache'[l] /\ key'[h] = l
    BY Zenon DEF Awaited
  <2>0. l \in Keys
    BY Zenon DEF Kept
  <2>1. CASE l # key[g]
    <3>1. cache'[l] = cache[l]
      BY Zenon, <1>3, <2>0, <2>1
    <3>2. PICK h \in Getters : at[h] = cache[l] /\ key[h] = l
      BY Zenon, <3>1 DEF KeptInv, Awaited
    <3>3. h # g
      BY Zenon, <2>1, <3>2
    <3> QED
      BY Zenon, <1>1, <1>2, <3>1, <3>2, <3>3
  <2>2. CASE l = key[g]
    <3>1. refs[f] # 1 /\ cache'[l] = f
      BY Zenon, <1>6, <1>7, <2>2
    <3>2. PICK h \in Getters \ {g} : at[h] = f
      BY Zenon, <1>5, <3>1 DEF Holders
    <3>3. pc[h] \in Inside
      BY Zenon, <3>2 DEF CoreInv, TypeOK
    <3>4. key[h] = l
      BY Zenon, <1>0, <1>1, <2>2, <3>2, <3>3 DEF KeptInv, OwnKey, Inside
    <3> QED
      BY Zenon, <1>1, <1>2, <3>1, <3>2, <3>4
  <2> QED
    BY Zenon, <2>1, <2>2
<1>13. OwnKey'
  <2>1. \A h \in Getters : pc'[h] \in Inside => h # g
    BY Zenon, <1>1 DEF Inside
  <2>2. ASSUME NEW h \in Getters, pc'[h] \in Inside, NEW l \in Keys, cache'[l] = at'[h]
        PROVE  key'[h] = l
    <3>1. h # g /\ pc[h] \in Inside /\ at'[h] = at[h] /\ key'[h] = key[h]
      BY Zenon, <1>1, <1>2, <2>1, <2>2
    <3>2. at[h] # NoFuture
      BY Zenon, <3>1, FutureAssumption DEF CoreInv, TypeOK
    <3>3. cache'[l] = cache[l]
      BY Zenon, <1>3, <1>6, <2>2, <3>1, <3>2
    <3> QED
      BY Zenon, <2>2, <3>1, <3>3 DEF KeptInv, OwnKey
  <2>3. ASSUME NEW h \in Getters, NEW i \in Getters,
               pc'[h] \in Inside, pc'[i] \in Inside, at'[h] = at'[i]
        PROVE  key'[h] = key'[i]
    <3>1. h # g /\ i # g
      BY Zenon, <2>1, <2>3
    <3>2. /\ pc[h] \in Inside /\ pc[i] \in Inside /\ at[h] = at[i]
          /\ key'[h] = key[h] /\ key'[i] = key[i]
      BY Zenon, <1>1, <1>2, <2>3, <3>1
    <3> QED
      BY Zenon, <3>2 DEF KeptInv, OwnKey
  <2> QED
    BY Zenon, <2>2, <2>3 DEF OwnKey
<1> QED
  BY Zenon, <1>8, <1>9, <1>10, <1>11, <1>12, <1>13 DEF KeptInv

\* release touches the futures of released keys only.
LEMMA ReleaseKeeps ==
  ASSUME CoreInv, KeptInv, NEW k \in Keys, Release(k)
  PROVE  KeptInv'
<1>1. /\ k \notin Kept /\ cache[k] \in Futures
      /\ UNCHANGED <<done, pc, key, at, cancelled, got>>
  BY Zenon DEF Release, Kept, CoreInv, TypeOK
<1>2. /\ cache'[k] = NoFuture
      /\ \A l \in Keys \ {k} : cache'[l] = cache[l]
  BY Zenon DEF Release, CoreInv, TypeOK
<1>3. \A e \in Futures \ {cache[k]} : value'[e] = value[e]
  BY Zenon DEF Release, CoreInv, TypeOK
<1>4. \A l \in Kept : l \in Keys \ {k}
  BY Zenon, <1>1 DEF Kept
<1>5. MapHolds' /\ Awaited' /\ Delivered' /\ ReadsDone'
  <2>1. \A l \in Kept : cache'[l] = cache[l]
    BY Zenon, <1>2, <1>4
  <2>2. MapHolds'
    BY Zenon, <1>1, <2>1 DEF KeptInv, MapHolds
  <2>3. Awaited'
    BY Zenon, <1>1, <2>1 DEF KeptInv, Awaited
  <2>4. Delivered' /\ ReadsDone'
    BY Zenon, <1>1 DEF KeptInv, Delivered, ReadsDone
  <2> QED
    BY Zenon, <2>2, <2>3, <2>4
<1>6. ValueKept'
  <2>1. ASSUME NEW l \in Kept, Settled(l)' PROVE value'[cache'[l]] \in Results
    <3>1. cache'[l] = cache[l] /\ Settled(l)
      BY Zenon, <1>1, <1>2, <1>4, <2>1 DEF Settled
    <3>2. cache[l] # cache[k]
      BY Zenon, <1>4, <3>1 DEF Settled, CoreInv, OneKey
    <3>3. cache[l] \in Futures
      BY Zenon, <1>4, <3>1 DEF Settled, CoreInv, TypeOK
    <3>4. value'[cache[l]] = value[cache[l]]
      BY Zenon, <1>3, <3>2, <3>3
    <3> QED
      BY Zenon, <3>1, <3>4 DEF KeptInv, ValueKept
  <2> QED
    BY Zenon, <2>1 DEF ValueKept
<1>7. OwnKey'
  <2>1. \A h \in Getters : pc[h] \in Inside => at[h] # NoFuture
    BY Zenon, FutureAssumption DEF CoreInv, TypeOK
  <2>2. ASSUME NEW h \in Getters, pc[h] \in Inside, NEW l \in Keys, cache'[l] = at[h]
        PROVE  key[h] = l
    <3>1. cache[l] = at[h]
      BY Zenon, <1>2, <2>1, <2>2
    <3> QED
      BY Zenon, <2>2, <3>1 DEF KeptInv, OwnKey
  <2> QED
    BY Zenon, <1>1, <2>2 DEF KeptInv, OwnKey
<1> QED
  BY Zenon, <1>5, <1>6, <1>7 DEF KeptInv

\* The steps inside get.
LEMMA GetterKeeps ==
  ASSUME CoreInv, KeptInv, NEW g \in Getters,
         \/ SelectCancelled(g) \/ SelectDone(g) \/ ReadValue(g)
         \/ Publish(g) \/ HandOff(g) \/ SelectAcquire(g) \/ Cancel(g)
  PROVE  KeptInv'
<1> USE DEF Goto
<1>0. pc[g] \in Inside /\ UNCHANGED <<cache, at, key>>
  BY Zenon DEF SelectCancelled, SelectDone, ReadValue, Publish, HandOff, SelectAcquire, Cancel, Inside
<1>1. at[g] \in Futures /\ ~Collected(at[g])
  BY Zenon, <1>0, HeldAlive
<1>2. /\ \A h \in Getters \ {g} : pc'[h] = pc[h] /\ got'[h] = got[h]
      /\ \A h \in Getters \ {g} : cancelled'[h] = cancelled[h]
  BY Zenon DEF SelectCancelled, SelectDone, ReadValue, Publish, HandOff, SelectAcquire, Cancel,
         CoreInv, TypeOK
<1>3. MapHolds' /\ Awaited' /\ OwnKey'
  <2>1. \A h \in Getters : pc'[h] \in Inside => pc[h] \in Inside
    BY Zenon, <1>0, <1>2
  <2> QED
    BY Zenon, <1>0, <2>1 DEF KeptInv, MapHolds, Awaited, OwnKey
<1>4. ValueKept' /\ ReadsDone'
  <2>1. CASE Publish(g)
    <3>1. /\ value'[at[g]] \in Results /\ done'[at[g]] /\ pc'[g] = "leave"
          /\ \A f \in Futures \ {at[g]} : value'[f] = value[f] /\ done'[f] = done[f]
      BY Zenon, <1>1, <2>1 DEF Publish, CoreInv, TypeOK
    <3>2. \A h \in Getters : pc[h] = "read" => at[h] \in Futures
      BY Zenon DEF CoreInv, TypeOK, Inside
    <3>3. ASSUME NEW l \in Kept, Settled(l)' PROVE value'[cache'[l]] \in Results
      <4>1. cache'[l] = cache[l] /\ cache[l] \in Futures
        BY Zenon, <1>0, <3>3 DEF Settled, Kept, CoreInv, TypeOK
      <4>2. CASE cache[l] # at[g]
        <5>1. Settled(l) /\ value'[cache[l]] = value[cache[l]]
          BY Zenon, <3>1, <3>3, <4>1, <4>2 DEF Settled
        <5> QED
          BY Zenon, <4>1, <5>1 DEF KeptInv, ValueKept
      <4> QED
        BY Zenon, <3>1, <4>1, <4>2
    <3>4. ASSUME NEW h \in Getters, pc'[h] = "read" PROVE done'[at'[h]]
      <4>1. h # g /\ pc[h] = "read" /\ at'[h] = at[h]
        BY Zenon, <1>0, <1>2, <3>1, <3>4
      <4>2. done[at[h]] /\ at[h] \in Futures
        BY Zenon, <3>2, <4>1 DEF KeptInv, ReadsDone
      <4> QED
        BY Zenon, <3>1, <4>1, <4>2
    <3> QED
      BY Zenon, <3>3, <3>4 DEF ValueKept, ReadsDone
  <2>2. CASE SelectDone(g)
    <3>1. UNCHANGED <<cache, done, value>> /\ done[at[g]] /\ at' = at
      BY Zenon, <1>0, <2>2 DEF SelectDone
    <3> QED
      BY Zenon, <1>2, <3>1 DEF KeptInv, ValueKept, ReadsDone, Settled
  <2>3. CASE ~Publish(g) /\ ~SelectDone(g)
    <3>1. UNCHANGED <<done, value>> /\ (pc'[g] = "read" => pc[g] = "read")
      BY Zenon, <2>3 DEF SelectCancelled, ReadValue, HandOff, SelectAcquire, Cancel, CoreInv, TypeOK, future
    <3> QED
      BY Zenon, <1>0, <1>2, <3>1 DEF KeptInv, ValueKept, ReadsDone, Settled
  <2> QED
    BY Zenon, <2>1, <2>2, <2>3
<1>5. pc'[g] = "leave" /\ key[g] \notin Releasable =>
        got'[g] \in Results \/ (got'[g] = "cancelled" /\ cancelled'[g])
  <2>1. CASE SelectCancelled(g) \/ HandOff(g)
    BY Zenon, <2>1 DEF SelectCancelled, HandOff, CoreInv, TypeOK
  <2>2. CASE ReadValue(g)
    <3>1. ASSUME key[g] \notin Releasable PROVE value[at[g]] \in Results
      <4>1. pc[g] = "read" /\ key[g] \in Kept
        BY Zenon, <2>2, <3>1 DEF ReadValue, Kept, CoreInv, TypeOK
      <4>2. cache[key[g]] = at[g] /\ done[at[g]]
        BY Zenon, <1>0, <4>1 DEF KeptInv, MapHolds, ReadsDone
      <4>3. Settled(key[g])
        BY Zenon, <1>1, <4>2, FutureAssumption DEF Settled
      <4> QED
        BY Zenon, <4>1, <4>2, <4>3 DEF KeptInv, ValueKept
    <3>2. got'[g] = value[at[g]]
      BY Zenon, <2>2 DEF ReadValue, CoreInv, TypeOK
    <3> QED
      BY Zenon, <3>1, <3>2
  <2>3. CASE Publish(g)
    BY Zenon, <2>3 DEF Publish, CoreInv, TypeOK
  <2>4. CASE SelectDone(g) \/ SelectAcquire(g)
    BY Zenon, <2>4 DEF SelectDone, SelectAcquire, CoreInv, TypeOK
  <2>5. CASE Cancel(g)
    <3>1. cancelled'[g] /\ pc' = pc /\ got' = got
      BY Zenon, <2>5 DEF Cancel, CoreInv, TypeOK
    <3> QED
      BY Zenon, <3>1 DEF KeptInv, Delivered
  <2> QED
    BY Zenon, <2>1, <2>2, <2>3, <2>4, <2>5
<1>6. Delivered'
  <2>1. ASSUME NEW h \in Getters \ {g}, pc'[h] = "leave"
        PROVE  key[h] \notin Releasable =>
                 got'[h] \in Results \/ (got'[h] = "cancelled" /\ cancelled'[h])
    BY Zenon, <1>2, <2>1 DEF KeptInv, Delivered
  <2> QED
    BY Zenon, <1>0, <1>5, <2>1 DEF Delivered
<1> QED
  BY Zenon, <1>3, <1>4, <1>6 DEF KeptInv

\* Every step keeps what holds of the keys nobody releases.
LEMMA KeptStep ==
  ASSUME CoreInv, KeptInv, [Next]_vars
  PROVE  KeptInv'
<1>1. ASSUME NEW g \in Getters, NEW k \in Keys, JoinFuture(g, k) PROVE KeptInv'
  <2>1. cache[k] \in Futures
    BY Zenon, <1>1 DEF JoinFuture, CoreInv, TypeOK
  <2> QED
    BY Zenon, <1>1, <2>1, EnterKeeps
<1>2. ASSUME NEW g \in Getters, NEW k \in Keys, NEW f \in Futures, NewFuture(g, k, f)
      PROVE  KeptInv'
  BY Zenon, <1>2, EnterKeeps
<1>3. CASE UNCHANGED vars
  <2>1. UNCHANGED <<cache, done, value, pc, key, at, cancelled, got>>
    BY Zenon, <1>3 DEF vars, future
  <2>2. OwnKey' /\ MapHolds'
    BY Zenon, <2>1 DEF KeptInv, OwnKey, MapHolds
  <2>3. ValueKept' /\ ReadsDone'
    BY Zenon, <2>1 DEF KeptInv, ValueKept, ReadsDone, Settled
  <2>4. Delivered' /\ Awaited'
    BY Zenon, <2>1 DEF KeptInv, Delivered, Awaited
  <2> QED
    BY Zenon, <2>2, <2>3, <2>4 DEF KeptInv
<1> QED
  BY Zenon, <1>1, <1>2, <1>3, GetterKeeps, LeaveKeeps, ReleaseKeeps DEF Next, GetterStep

----------------------------------------------------------------------------
\* Reference counts, the map and the unit of every future stay consistent,
\* with and without release.
THEOREM CacheInvariant == Spec => []CoreInv
<1>1. Init => CoreInv
  BY Zenon, CacheInit
<1> QED
  BY <1>1, CoreStep, PTL DEF Spec

\* get and release are well typed for any number of goroutines.
THEOREM CacheTypes == Spec => []TypeOK
<1>1. CoreInv => TypeOK
  BY Zenon DEF CoreInv
<1> QED
  BY <1>1, CacheInvariant, PTL

\* The computation of a future runs in one goroutine at a time, done is
\* closed at most once, and a cancelled computation leaves it claimable.
THEOREM CacheUnit == Spec => []OneUnit
<1>1. CoreInv => OneUnit
  BY Zenon DEF CoreInv
<1> QED
  BY <1>1, CacheInvariant, PTL

\* Both invariants together, since KeptInv rests on CoreInv.
LEMMA CacheKeeps == Spec => [](CoreInv /\ KeptInv)
<1>1. CoreInv /\ KeptInv /\ [Next]_vars => CoreInv' /\ KeptInv'
  BY Zenon, CoreStep, KeptStep
<1> QED
  BY <1>1, CacheInit, PTL DEF Spec

\* A key that nobody releases is computed by one goroutine at a time, whatever
\* happens to the keys next to it.
THEOREM CacheShares == Spec => []SharedComputation
<1>1. ASSUME CoreInv, KeptInv PROVE SharedComputation
  <2> SUFFICES ASSUME NEW g \in Getters, NEW h \in Getters,
                      pc[g] = "compute", pc[h] = "compute",
                      key[g] = key[h], key[g] \notin Releasable
               PROVE  g = h
    BY Zenon DEF SharedComputation
  <2>1. key[g] \in Kept /\ at[g] \in Futures
    BY Zenon, <1>1 DEF Kept, CoreInv, TypeOK, Inside
  <2>2. at[g] = at[h]
    BY Zenon, <1>1, <2>1 DEF KeptInv, MapHolds, Inside
  <2> QED
    BY Zenon, <1>1, <2>1, <2>2 DEF CoreInv, OneUnit, Computes
<1> QED
  BY <1>1, CacheKeeps, PTL

\* Every future is computed once, and every key by one goroutine at a time.
THEOREM CacheComputesOnce == Spec => []ComputedOnce
<1>1. OneUnit /\ SharedComputation => ComputedOnce
  BY Zenon DEF ComputedOnce
<1> QED
  BY <1>1, CacheUnit, CacheShares, PTL

\* For a key that nobody releases, get returns the outcome of a computation
\* that was not cancelled, or its own caller's cancellation.
THEOREM CacheDelivers == Spec => []Delivered
<1>1. KeptInv => Delivered
  BY Zenon DEF KeptInv
<1> QED
  BY <1>1, CacheKeeps, PTL

\* A transient cache has an entry exactly while a goroutine waits for it.
THEOREM CacheDropsTransient == Spec => []EntryWhileAwaited
<1>1. ASSUME CoreInv, KeptInv PROVE EntryWhileAwaited
  <2>1. ASSUME NEW k \in Kept \ Persistent, cache[k] # NoFuture
        PROVE  \E g \in Getters : pc[g] \in Inside /\ key[g] = k
    <3>1. PICK g \in Getters : at[g] = cache[k] /\ key[g] = k
      BY Zenon, <1>1, <2>1 DEF KeptInv, Awaited
    <3> QED
      BY Zenon, <1>1, <2>1, <3>1 DEF Kept, CoreInv, TypeOK
  <2>2. ASSUME NEW g \in Getters, pc[g] \in Inside, key[g] \in Kept PROVE cache[key[g]] # NoFuture
    BY Zenon, <1>1, <2>2, FutureAssumption DEF CoreInv, KeptInv, MapHolds, TypeOK
  <2> QED
    BY Zenon, <2>1, <2>2 DEF EntryWhileAwaited, Kept
<1> QED
  BY <1>1, CacheKeeps, PTL

\* A persistent cache changes a value it holds only when its key is released.
THEOREM CacheStable == Spec => ValueStable
<1>1. ASSUME CoreInv, Next PROVE KeepsSettled
  <2> SUFFICES ASSUME NEW k \in Persistent, Settled(k), ~Release(k)
               PROVE  /\ cache'[k] = cache[k]
                      /\ done'[cache[k]]
                      /\ value'[cache[k]] = value[cache[k]]
    BY Zenon DEF KeepsSettled
  <2>0. k \in Keys
    BY Zenon, FutureAssumption
  <2>1. cache[k] \in Futures /\ done[cache[k]] /\ cache[k] # NoFuture
    BY Zenon, <1>1, <2>0 DEF Settled, CoreInv, TypeOK
  <2>2. ASSUME NEW g \in Getters, NEW l \in Keys, NEW f \in Futures, NewFuture(g, l, f)
        PROVE  cache'[k] = cache[k] /\ done'[cache[k]] /\ value'[cache[k]] = value[cache[k]]
    BY Zenon, <1>1, <2>0, <2>1, <2>2 DEF NewFuture, Collected, CoreInv, TypeOK
  <2>3. ASSUME NEW g \in Getters, Publish(g)
        PROVE  cache'[k] = cache[k] /\ done'[cache[k]] /\ value'[cache[k]] = value[cache[k]]
    <3>1. at[g] \in Futures /\ ~Collected(at[g]) /\ Computes(g, at[g])
      BY Zenon, <1>1, <2>3, HeldAlive DEF Publish, Inside, Computes
    <3>2. ~done[at[g]]
      BY Zenon, <1>1, <3>1 DEF CoreInv, OneUnit
    <3>3. at[g] # cache[k]
      BY Zenon, <2>1, <3>2
    <3> QED
      BY Zenon, <1>1, <2>1, <2>3, <3>1, <3>3 DEF Publish, Goto, CoreInv, TypeOK
  <2>4. ASSUME NEW g \in Getters, Leave(g)
        PROVE  cache'[k] = cache[k] /\ done'[cache[k]] /\ value'[cache[k]] = value[cache[k]]
    BY Zenon, <1>1, <2>0, <2>1, <2>4 DEF Leave, DropsEntry, CoreInv, TypeOK
  <2>5. ASSUME NEW g \in Getters,
               \/ \E l \in Keys : JoinFuture(g, l)
               \/ SelectCancelled(g) \/ SelectDone(g) \/ ReadValue(g) \/ HandOff(g)
               \/ SelectAcquire(g) \/ Cancel(g)
        PROVE  cache' = cache /\ done' = done /\ value' = value
    BY Zenon, <2>5 DEF JoinFuture, SelectCancelled, SelectDone, ReadValue, HandOff, SelectAcquire,
                Cancel, Goto, future
  <2>6. ASSUME NEW l \in Keys, Release(l)
        PROVE  cache'[k] = cache[k] /\ done'[cache[k]] /\ value'[cache[k]] = value[cache[k]]
    <3>1. l # k /\ cache[l] # cache[k]
      BY Zenon, <1>1, <2>0, <2>1, <2>6 DEF CoreInv, OneKey
    <3> QED
      BY Zenon, <1>1, <2>0, <2>1, <2>6, <3>1 DEF Release, CoreInv, TypeOK
  <2> QED
    BY Zenon, <1>1, <2>1, <2>2, <2>3, <2>4, <2>5, <2>6 DEF Next, GetterStep
<1>2. CoreInv /\ [Next]_vars => [KeepsSettled]_vars
  BY Zenon, <1>1
<1> QED
  BY <1>2, CacheInvariant, PTL DEF Spec, ValueStable
============================================================================
