-------------------------- MODULE CacheStoreProofs --------------------------
(***************************************************************************)
(* Safety of the cache behind its backend interface, for any number of       *)
(* processes, keys, versions, callers and requests: the directory of         *)
(* internal/cache through crashes and power failures, the client of a helper *)
(* through everything the helper does, and the promise that both keep.       *)
(***************************************************************************)
EXTENDS CacheStore, FiniteSetTheorems, TLAPS

(* The directory *)

\* The version of a running process, and what a lookup has read: while versions
\* do not overlap, a body of its own.
Processing ==
    \A p \in Processes :
        /\ pc[p] # "off" => version[p] \in Versions
        /\ pc[p] \in {"touch", "hit"} => buf[p] # NoVersion
        /\ pc[p] = "hit" => buf[p] # Torn
        /\ pc[p] \in {"touch", "hit"} /\ ~overlap => buf[p] \in {version[p], Torn}

\* Whatever is readable, on disk or in a buffer, was published under its key.
Readable ==
    /\ \A k \in Keys : entry[k] \in Versions => <<k, entry[k]>> \in published
    /\ \A p \in Processes : pc[p] \in {"touch", "hit"} /\ buf[p] \in Versions =>
            <<key[p], buf[p]>> \in published

\* A present body is of the version of the stamp, unless the power failed.
Stamped ==
    \A k \in Keys : /\ entry[k] \in Versions => stamp \in {entry[k], Torn}
                    /\ stamp = NoVersion => ~Present(k)

\* Where a process may be, given the stamp: past the version check it is the
\* stamp of its own version; a process that purges has found another one and has
\* still before it whatever is there.
Checked(p) ==
    /\ pc[p] \notin {"off", "purging", "stamping"} => stamp = version[p]
    /\ pc[p] = "stamping" => stamp \in {NoVersion, version[p]}
    /\ pc[p] = "purging" =>
         /\ stamp \notin {NoVersion, version[p]}
         /\ \A k \in Keys : Present(k) => k \in purging[p]

\* The processes at work, when none has met another version.
Upgraded ==
    /\ Stamped
    /\ \A p \in Processes : Checked(p)
    /\ \A p, q \in Alive : version[p] = version[q]

DiskInv == TypeOK /\ Processing /\ Readable /\ (~overlap => Upgraded)

\* A directory no process has opened yet.
LEMMA DiskInit == Init => DiskInv
<1> SUFFICES ASSUME Init PROVE DiskInv
  BY Zenon
<1>1. TypeOK
  BY Zenon DEF Init, TypeOK, Bodies
<1>2. Processing /\ Readable
  BY Zenon, DiskAssumption DEF Init, Processing, Readable
<1>3. Upgraded
  BY Zenon, DiskAssumption DEF Init, Upgraded, Stamped, Checked, Present, Alive
<1> QED
  BY Zenon, <1>1, <1>2, <1>3 DEF DiskInv

\* A step that stays on its side of the version check and publishes nothing.
LEMMA UpgradedStays ==
  ASSUME Upgraded, UNCHANGED <<stamp, version, purging>>,
         \A p \in Processes : /\ pc'[p] = "off" <=> pc[p] = "off"
                              /\ pc'[p] = "purging" <=> pc[p] = "purging"
                              /\ pc'[p] = "stamping" <=> pc[p] = "stamping",
         \A k \in Keys : entry'[k] \in {entry[k], NoVersion}
  PROVE  Upgraded'
<1>1. Stamped'
  BY Zenon, DiskAssumption DEF Upgraded, Stamped, Present
<1>2. \A p \in Processes : Checked(p)'
  BY Zenon DEF Upgraded, Checked, Present
<1>3. \A p, q \in Alive' : version'[p] = version'[q]
  BY Zenon DEF Upgraded, Alive
<1> QED
  BY Zenon, <1>1, <1>2, <1>3 DEF Upgraded

\* A body that is present has passed every version check before it.
LEMMA EntryFits ==
  ASSUME DiskInv, ~overlap, NEW k \in Keys, Present(k), entry[k] # Torn
  PROVE  /\ stamp \in {entry[k], Torn}
         /\ \A p \in Alive : pc[p] \notin {"purging", "stamping"} => entry[k] = version[p]
<1>1. entry[k] \in Versions
  BY Zenon DEF DiskInv, TypeOK, Bodies, Present
<1>2. stamp \in {entry[k], Torn}
  BY Zenon, <1>1 DEF DiskInv, Upgraded, Stamped
<1>3. ASSUME NEW p \in Alive, pc[p] \notin {"purging", "stamping"} PROVE entry[k] = version[p]
  <2>1. stamp = version[p] /\ version[p] \in Versions
    BY Zenon, <1>3 DEF DiskInv, Upgraded, Checked, Processing, Alive
  <2> QED
    BY Zenon, <1>2, <2>1, DiskAssumption
<1> QED
  BY Zenon, <1>2, <1>3

\* Lookups: what is read was published.
LEMMA LookupKeeps ==
  ASSUME DiskInv, NEW p \in Processes, NEW k \in Keys,
         Get(p, k) \/ Touch(p) \/ Use(p) \/ WriteTmp(p) \/ Opened(p)
  PROVE  DiskInv'
<1> USE DEF Goto, disk, gc
<1>1. CASE Get(p, k)
  <2>1. TypeOK' /\ entry' = entry
    BY Zenon, <1>1 DEF DiskInv, TypeOK, Get, Present
  <2>2. Processing' /\ Readable'
    <3>1. Present(k) /\ ~overlap => entry[k] \in {version[p], Torn}
      BY Zenon, <1>1, EntryFits DEF Get, Alive
    <3> QED
      BY <1>1, <3>1 DEF DiskInv, TypeOK, Processing, Readable, Get, Present
  <2>3. ~overlap' => Upgraded'
    BY <1>1, <2>1, UpgradedStays DEF DiskInv, TypeOK, Get
  <2> QED
    BY Zenon, <2>1, <2>2, <2>3 DEF DiskInv
<1>2. CASE Touch(p)
  <2>1. TypeOK' /\ \A l \in Keys : entry'[l] = entry[l]
    BY Zenon, <1>2 DEF DiskInv, TypeOK, Touch, DecodeOK, DecodeFails
  <2>2. Processing' /\ Readable'
    BY <1>2, <2>1 DEF DiskInv, TypeOK, Processing, Readable, Touch, DecodeOK, DecodeFails
  <2>3. ~overlap' => Upgraded'
    BY <1>2, <2>1, UpgradedStays DEF DiskInv, TypeOK, Touch, DecodeOK, DecodeFails
  <2> QED
    BY Zenon, <2>1, <2>2, <2>3 DEF DiskInv
<1>3. CASE Use(p) \/ WriteTmp(p)
  <2>1. TypeOK' /\ entry' = entry
    BY Zenon, <1>3 DEF DiskInv, TypeOK, Use, WriteTmp
  <2>2. Processing' /\ Readable'
    BY Zenon, <1>3 DEF DiskInv, TypeOK, Processing, Readable, Use, WriteTmp
  <2>3. ~overlap' => Upgraded'
    BY Zenon, <1>3, <2>1, UpgradedStays DEF DiskInv, TypeOK, Use, WriteTmp
  <2> QED
    BY Zenon, <2>1, <2>2, <2>3 DEF DiskInv
<1>4. CASE Opened(p)
  <2>1. TypeOK' /\ entry' = entry
    BY <1>4 DEF DiskInv, TypeOK, Opened
  <2>2. Processing' /\ Readable'
    BY Zenon, <1>4 DEF DiskInv, TypeOK, Processing, Readable, Opened
  <2>3. ~overlap' => Upgraded'
    BY Zenon, <1>4, <2>1, UpgradedStays DEF DiskInv, TypeOK, Opened
  <2> QED
    BY Zenon, <2>1, <2>2, <2>3 DEF DiskInv
<1> QED
  BY Zenon, <1>1, <1>2, <1>3, <1>4

\* The collection and the passing of time: entries go, none comes.
LEMMA CollectionKeeps ==
  ASSUME DiskInv, NEW p, NEW k,
         GCStat(p, k) \/ GCRemove(p, k) \/ GCDone(p) \/ (k \in Keys /\ Age(k)) \/ GCInterval
  PROVE  DiskInv'
<1> USE DEF disk, gc
<1>1. UNCHANGED <<stamp, pc, version, key, buf, purging, published, overlap>>
  BY Zenon DEF GCStat, GCRemove, GCDone, Age, GCInterval
<1>2. /\ entry' \in [Keys -> Bodies \cup {NoVersion}] /\ old' \subseteq Keys
      /\ \A l \in Keys : entry'[l] \in {entry[l], NoVersion}
  BY Zenon DEF GCStat, GCRemove, Remove, GCDone, Age, GCInterval, DiskInv, TypeOK
<1>3. /\ gcDue' \in BOOLEAN /\ tmp' = tmp
      /\ collecting' \subseteq Processes /\ sweep' \in [Processes -> SUBSET Keys]
      /\ victim' \in [Processes -> SUBSET Keys]
  <2>1. CASE GCStat(p, k)
    <3>1. p \in Processes /\ k \in Keys
      BY Zenon, <2>1 DEF GCStat, DiskInv, TypeOK
    <3> QED
      BY Zenon, <2>1, <3>1 DEF GCStat, DiskInv, TypeOK
  <2>2. CASE GCRemove(p, k)
    BY Zenon, <2>2 DEF GCRemove, DiskInv, TypeOK
  <2>3. CASE GCDone(p) \/ (k \in Keys /\ Age(k)) \/ GCInterval
    BY Zenon, <2>3 DEF GCDone, Age, GCInterval, DiskInv, TypeOK
  <2> QED
    BY Zenon, <2>1, <2>2, <2>3
<1>4. TypeOK'
  BY Zenon, <1>1, <1>2, <1>3 DEF DiskInv, TypeOK
<1>5. Processing' /\ Readable'
  BY Zenon, <1>1, <1>2, DiskAssumption DEF DiskInv, Processing, Readable
<1>6. ~overlap' => Upgraded'
  BY Zenon, <1>1, <1>2, UpgradedStays DEF DiskInv
<1> QED
  BY Zenon, <1>4, <1>5, <1>6 DEF DiskInv

\* Publication: by the version of the stamp, while nobody purges.
LEMMA LinkKeeps ==
  ASSUME DiskInv, NEW p \in Processes, Link(p)
  PROVE  DiskInv'
<1> USE DEF disk, gc, Goto
<1>0. pc[p] = "link" /\ version[p] \in Versions /\ key[p] \in Keys
  BY Zenon DEF DiskInv, Processing, TypeOK, Link
<1>1. /\ entry' \in [Keys -> Bodies \cup {NoVersion}] /\ old' \subseteq Keys
      /\ \A l \in Keys :
           \/ entry'[l] = entry[l]
           \/ l = key[p] /\ entry'[l] = version[p] /\ <<l, version[p]>> \in published'
  BY Zenon, <1>0 DEF Link, DiskInv, TypeOK, Bodies
<1>2. published \subseteq published' /\ published' \subseteq Keys \X Versions
  BY <1>0 DEF Link, DiskInv, TypeOK
<1>3. TypeOK'
  BY Zenon, <1>0, <1>1, <1>2 DEF Link, DiskInv, TypeOK
<1>4. Processing'
  BY Zenon, <1>0 DEF Link, DiskInv, TypeOK, Processing
<1>5. Readable'
  BY Zenon, <1>0, <1>1, <1>2 DEF Link, DiskInv, TypeOK, Readable
<1>6. ASSUME ~overlap' PROVE Upgraded'
  <2>1. ~overlap /\ Upgraded /\ stamp' = stamp /\ version' = version /\ purging' = purging
    BY Zenon, <1>6 DEF Link, DiskInv
  <2>2. stamp = version[p]
    BY Zenon, <1>0, <2>1 DEF Upgraded, Checked
  <2>3. Stamped'
    BY Zenon, <1>0, <1>1, <2>1, <2>2, DiskAssumption DEF Upgraded, Stamped, Present
  <2>4. ASSUME NEW q \in Processes PROVE Checked(q)'
    <3>1. pc[q] # "purging"
      <4>1. pc[q] = "purging" => version[q] = version[p]
        BY Zenon, <1>0, <2>1 DEF Upgraded, Alive
      <4> QED
        BY Zenon, <2>1, <2>2, <4>1 DEF Upgraded, Checked
    <3>2. pc'[q] = pc[q] \/ (q = p /\ pc'[q] = "idle")
      BY Zenon DEF Link, DiskInv, TypeOK
    <3> QED
      BY Zenon, <1>0, <2>1, <2>2, <3>1, <3>2 DEF Upgraded, Checked
  <2>5. \A q, r \in Alive' : version'[q] = version'[r]
    <3>1. Alive' = Alive
      BY Zenon, <1>0 DEF Alive, Link, DiskInv, TypeOK
    <3> QED
      BY Zenon, <2>1, <3>1 DEF Upgraded
  <2> QED
    BY Zenon, <2>3, <2>4, <2>5 DEF Upgraded
<1> QED
  BY Zenon, <1>3, <1>4, <1>5, <1>6 DEF DiskInv

\* A process starts: it finds no stamp, its own, or one whose entries must go.
LEMMA ReadStampKeeps ==
  ASSUME DiskInv, NEW p \in Processes, NEW v \in Versions, ReadStamp(p, v)
  PROVE  DiskInv'
<1> USE DEF disk, gc, Goto
<1>1. /\ pc[p] = "off"
      /\ version' = [version EXCEPT ![p] = v]
      /\ UNCHANGED <<stamp, entry, old, gcDue, key, buf, tmp, collecting, sweep, victim, published>>
      /\ overlap' = (overlap \/ \E q \in Alive : version[q] # v)
  BY Zenon DEF ReadStamp
<1>2. \/ stamp = NoVersion /\ pc' = [pc EXCEPT ![p] = "stamping"]
      \/ stamp = v /\ pc' = [pc EXCEPT ![p] = "opening"]
      \/ /\ stamp \notin {NoVersion, v} /\ pc' = [pc EXCEPT ![p] = "purging"]
         /\ purging' = [purging EXCEPT ![p] = Keys]
  BY Zenon, DiskAssumption DEF ReadStamp
<1>3. TypeOK'
  <2>1. purging' \in [Processes -> SUBSET Keys]
    BY Zenon DEF ReadStamp, DiskInv, TypeOK
  <2>2. pc' \in [Processes -> {"off", "purging", "stamping", "opening", "idle", "touch",
                               "hit", "compute", "link"}]
    BY Zenon, <1>2 DEF DiskInv, TypeOK
  <2> QED
    BY Zenon, <1>1, <2>1, <2>2 DEF DiskInv, TypeOK
<1>4. Processing'
  BY Zenon, <1>1, <1>2 DEF DiskInv, TypeOK, Processing
<1>5. Readable'
  BY Zenon, <1>1, <1>2 DEF DiskInv, TypeOK, Readable
<1>6. ASSUME ~overlap' PROVE Upgraded'
  <2>1. ~overlap /\ Upgraded /\ \A q \in Alive : version[q] = v
    BY Zenon, <1>1, <1>6 DEF DiskInv
  <2>2. Stamped'
    BY Zenon, <1>1, <2>1 DEF Upgraded, Stamped, Present
  <2>3. \A q \in Processes \ {p} : /\ pc'[q] = pc[q] /\ version'[q] = version[q]
                                   /\ purging'[q] = purging[q]
    BY Zenon, <1>1, <1>2 DEF ReadStamp, DiskInv, TypeOK
  <2>4. \A q \in Processes \ {p} : Checked(q)'
    BY Zenon, <1>1, <2>1, <2>3 DEF Upgraded, Checked, Present
  <2>5. Checked(p)'
    BY Zenon, <1>1, <1>2 DEF DiskInv, TypeOK, Checked
  <2>6. \A q \in Alive' : version'[q] = v
    BY Zenon, <1>1, <2>1, <2>3 DEF Alive, DiskInv, TypeOK
  <2> QED
    BY Zenon, <2>2, <2>4, <2>5, <2>6 DEF Upgraded
<1> QED
  BY Zenon, <1>3, <1>4, <1>5, <1>6 DEF DiskInv

\* The purge, while no other process runs.
LEMMA PurgeKeeps ==
  ASSUME DiskInv, NEW p \in Processes, NEW k, PurgeEntry(p, k) \/ RemoveStamp(p)
  PROVE  DiskInv'
<1> USE DEF disk, gc, Goto
<1>1. /\ pc[p] = "purging" /\ overlap' = (overlap \/ Alive # {p})
      /\ UNCHANGED <<gcDue, version, key, buf, gc, published>>
  BY Zenon DEF PurgeEntry, RemoveStamp
<1>2. CASE PurgeEntry(p, k)
  <2>1. /\ k \in purging[p] /\ entry' = [entry EXCEPT ![k] = NoVersion] /\ old' = old \ {k}
        /\ purging' = [purging EXCEPT ![p] = @ \ {k}] /\ UNCHANGED <<stamp, pc>>
    BY Zenon, <1>2 DEF PurgeEntry, Remove
  <2>2. tmp' \in [Processes -> BOOLEAN]
    BY Zenon, <1>2 DEF PurgeEntry
  <2>3. TypeOK'
    BY Zenon, <1>1, <2>1, <2>2 DEF DiskInv, TypeOK
  <2>4. Processing' /\ Readable'
    BY Zenon, <1>1, <2>1, DiskAssumption DEF DiskInv, TypeOK, Processing, Readable
  <2>5. ASSUME ~overlap' PROVE Upgraded'
    <3>1. ~overlap /\ Upgraded /\ Alive = {p} /\ Alive' = {p}
      BY Zenon, <1>1, <2>1, <2>5 DEF DiskInv, Alive
    <3>2. Stamped'
      BY Zenon, <2>1, <3>1, DiskAssumption DEF Upgraded, Stamped, Present, DiskInv, TypeOK
    <3>3. \A q \in Processes \ {p} : pc'[q] = "off"
      BY Zenon, <3>1 DEF Alive
    <3>4. Checked(p)'
      BY Zenon, <1>1, <2>1, <3>1 DEF Upgraded, Checked, Present, DiskInv, TypeOK
    <3> QED
      BY Zenon, <3>1, <3>2, <3>3, <3>4 DEF Upgraded, Checked
  <2> QED
    BY Zenon, <2>3, <2>4, <2>5 DEF DiskInv
<1>3. CASE RemoveStamp(p)
  <2>1. /\ purging[p] = {} /\ stamp' = NoVersion /\ pc' = [pc EXCEPT ![p] = "stamping"]
        /\ UNCHANGED <<entry, old, tmp, purging>>
    BY Zenon, <1>3 DEF RemoveStamp
  <2>2. TypeOK'
    BY Zenon, <1>1, <2>1 DEF DiskInv, TypeOK
  <2>3. Processing' /\ Readable'
    BY Zenon, <1>1, <2>1 DEF DiskInv, TypeOK, Processing, Readable
  <2>4. ASSUME ~overlap' PROVE Upgraded'
    <3>1. ~overlap /\ Upgraded /\ Alive = {p}
      BY Zenon, <1>1, <2>4 DEF DiskInv
    <3>2. \A l \in Keys : ~Present(l)
      BY Zenon, <1>1, <2>1, <3>1 DEF Upgraded, Checked
    <3>3. Stamped'
      BY Zenon, <2>1, <3>2, DiskAssumption DEF Stamped, Present
    <3>4. \A q \in Processes \ {p} : pc'[q] = "off"
      BY Zenon, <2>1, <3>1 DEF Alive, DiskInv, TypeOK
    <3>5. pc'[p] = "stamping"
      BY Zenon, <2>1 DEF DiskInv, TypeOK
    <3>6. Alive' = {p}
      BY Zenon, <3>4, <3>5 DEF Alive
    <3> QED
      BY Zenon, <2>1, <3>3, <3>4, <3>5, <3>6 DEF Upgraded, Checked
  <2> QED
    BY Zenon, <2>2, <2>3, <2>4 DEF DiskInv
<1> QED
  BY Zenon, <1>2, <1>3

\* The stamp of a fresh cache, or of one that was purged.
LEMMA WriteStampKeeps ==
  ASSUME DiskInv, NEW p \in Processes, WriteStamp(p)
  PROVE  DiskInv'
<1> USE DEF disk, gc, Goto
<1>1. /\ pc[p] = "stamping" /\ pc' = [pc EXCEPT ![p] = "opening"]
      /\ stamp' = IF stamp = NoVersion THEN version[p] ELSE stamp
      /\ UNCHANGED <<entry, old, gcDue, version, key, buf, tmp, purging, gc, published, overlap>>
  BY Zenon DEF WriteStamp
<1>2. TypeOK'
  BY Zenon, <1>1 DEF DiskInv, TypeOK, Bodies
<1>3. Processing' /\ Readable'
  BY Zenon, <1>1 DEF DiskInv, TypeOK, Processing, Readable
<1>4. ASSUME ~overlap' PROVE Upgraded'
  <2>1. ~overlap /\ Upgraded /\ version[p] \in Versions
    BY Zenon, <1>1, <1>4 DEF DiskInv, Processing
  <2>2. stamp' = version[p] /\ stamp \in {NoVersion, version[p]}
    BY Zenon, <1>1, <2>1 DEF Upgraded, Checked
  <2>3. Stamped'
    BY Zenon, <1>1, <2>1, <2>2, DiskAssumption DEF Upgraded, Stamped, Present
  <2>4. Alive' = Alive
    BY Zenon, <1>1 DEF Alive, DiskInv, TypeOK
  <2>5. \A q \in Alive : version[q] = version[p]
    BY Zenon, <1>1, <2>1 DEF Upgraded, Alive
  <2>6. ASSUME NEW q \in Processes PROVE Checked(q)'
    <3>1. pc[q] # "purging"
      BY Zenon, <2>1, <2>2, <2>5 DEF Upgraded, Checked, Alive
    <3>2. pc'[q] # "purging"
      BY Zenon, <1>1, <3>1 DEF DiskInv, TypeOK
    <3>3. pc'[q] # "off" => version'[q] = stamp'
      BY Zenon, <1>1, <2>2, <2>4, <2>5 DEF Alive
    <3> QED
      BY Zenon, <3>2, <3>3 DEF Checked
  <2> QED
    BY Zenon, <1>1, <2>1, <2>3, <2>4, <2>6 DEF Upgraded
<1> QED
  BY Zenon, <1>2, <1>3, <1>4 DEF DiskInv

\* Processes end: their files stay as they are, or lose their contents with the
\* power, and then nobody is left.
LEMMA StopKeeps ==
  ASSUME DiskInv, NEW S \in SUBSET Processes, Stop(S),
         \/ UNCHANGED disk
         \/ S = Processes /\ PowerLoss
  PROVE  DiskInv'
<1>1. /\ version' = [p \in Processes |-> IF p \in S THEN NoVersion ELSE version[p]]
      /\ pc' = [p \in Processes |-> IF p \in S THEN "off" ELSE pc[p]]
      /\ buf' = [p \in Processes |-> IF p \in S THEN NoVersion ELSE buf[p]]
      /\ purging' = [p \in Processes |-> IF p \in S THEN {} ELSE purging[p]]
      /\ UNCHANGED <<key, published, overlap>>
  BY Zenon DEF Stop
<1>2. /\ tmp' \in [Processes -> BOOLEAN] /\ collecting' \subseteq Processes
      /\ sweep' \in [Processes -> SUBSET Keys] /\ victim' \in [Processes -> SUBSET Keys]
  BY Zenon DEF Stop, DiskInv, TypeOK
<1>3. /\ \A k \in Keys : entry'[k] = entry[k] \/ (Present(k) /\ entry'[k] = Torn)
      /\ entry' \in [Keys -> Bodies \cup {NoVersion}]
      /\ stamp' \in {stamp} \cup (IF stamp = NoVersion THEN {} ELSE {Torn})
      /\ UNCHANGED <<old, gcDue>>
  BY Zenon DEF disk, PowerLoss, DiskInv, TypeOK, Bodies
<1>4. TypeOK'
  <2>1. stamp' \in Bodies \cup {NoVersion}
    BY Zenon, <1>3 DEF DiskInv, TypeOK, Bodies
  <2> QED
    BY Zenon, <1>1, <1>2, <1>3, <2>1 DEF DiskInv, TypeOK
<1>5. Processing' /\ Readable'
  BY Zenon, <1>1, <1>3, DiskAssumption DEF DiskInv, TypeOK, Processing, Readable
<1>6. ASSUME ~overlap' PROVE Upgraded'
  <2>1. Upgraded
    BY Zenon, <1>1, <1>6 DEF DiskInv
  <2>2. Stamped'
    BY Zenon, <1>3, <2>1, DiskAssumption DEF Upgraded, Stamped, Present
  <2>3. ASSUME NEW p \in Processes PROVE Checked(p)'
    <3>1. CASE p \in S
      BY Zenon, <1>1, <3>1 DEF Checked
    <3>2. CASE p \notin S
      <4>1. UNCHANGED <<entry, stamp>>
        BY Zenon, <3>2 DEF disk
      <4> QED
        BY Zenon, <1>1, <2>1, <3>2, <4>1 DEF Upgraded, Checked, Present
    <3> QED
      BY Zenon, <3>1, <3>2
  <2>4. \A p \in Alive' : p \in Alive /\ version'[p] = version[p]
    BY Zenon, <1>1 DEF Alive
  <2> QED
    BY Zenon, <2>1, <2>2, <2>3, <2>4 DEF Upgraded
<1> QED
  BY Zenon, <1>4, <1>5, <1>6 DEF DiskInv

\* Every step of every process, the collection, time and failures.
LEMMA DiskSteps == DiskInv /\ [Next]_diskVars => DiskInv'
<1> SUFFICES ASSUME DiskInv, [Next]_diskVars PROVE DiskInv'
  BY Zenon
<1>1. ASSUME NEW p \in Processes, Close(p) \/ InitFails(p) \/ Crash(p) PROVE DiskInv'
  BY Zenon, <1>1, StopKeeps DEF Close, InitFails, Crash
<1>2. CASE PowerLoss
  BY Zenon, <1>2, StopKeeps DEF PowerLoss
<1>3. ASSUME NEW p \in Processes, Touch(p) \/ Use(p) \/ WriteTmp(p) \/ Opened(p) PROVE DiskInv'
  BY Zenon, <1>3, LookupKeeps DEF DiskInv, TypeOK
<1>4. CASE UNCHANGED diskVars
  <2>1. UNCHANGED <<stamp, entry, old, gcDue, version, pc, key, buf, tmp, purging, collecting,
                    sweep, victim, published, overlap>>
    BY Zenon, <1>4 DEF diskVars, disk, gc
  <2>2. TypeOK' /\ Processing' /\ Readable'
    BY Zenon, <2>1 DEF DiskInv, TypeOK, Processing, Readable
  <2>3. ~overlap' => Upgraded'
    BY Zenon, <2>1, UpgradedStays DEF DiskInv
  <2> QED
    BY Zenon, <2>2, <2>3 DEF DiskInv
<1> QED
  BY Zenon, <1>1, <1>2, <1>3, <1>4, LookupKeeps, CollectionKeeps, LinkKeeps, ReadStampKeeps,
     PurgeKeeps, WriteStampKeeps DEF Next, DiskStep

\* The invariant holds of every reachable state.
THEOREM DiskInvariant == Spec => []DiskInv
  BY DiskInit, DiskSteps, PTL DEF Spec

\* Entries and lookups fit the version of the processes at work.
LEMMA DiskPresent == DiskInv => PresentValid
<1> SUFFICES ASSUME DiskInv, ~overlap
             PROVE  /\ \A k \in Keys : Present(k) /\ entry[k] # Torn =>
                          /\ stamp \in {entry[k], Torn}
                          /\ \A p \in Alive : pc[p] \notin {"purging", "stamping"} =>
                                entry[k] = version[p]
                    /\ \A p \in Processes : pc[p] = "hit" => buf[p] = version[p]
  BY Zenon DEF PresentValid
<1>1. \A p \in Processes : pc[p] = "hit" => buf[p] = version[p]
  BY Zenon DEF DiskInv, Processing
<1> QED
  BY Zenon, <1>1, EntryFits

\* "A present file is by construction valid for that id" (HasL2), for any number
\* of processes, keys and versions, as long as versions do not overlap: the
\* stamp names the encoding of every entry the power has not taken.
THEOREM DiskPresentValid == Spec => []PresentValid
  BY DiskPresent, DiskInvariant, PTL

\* The promise of the backend interface, for the local directory alone.
Local == INSTANCE BackendContract WITH
    Clients <- Processes, Bodies <- Versions, NoAnswer <- NoVersion,
    answer <- [p \in Processes |-> DiskAnswer(p)]

\* What a step of the directory is to its callers: a body that was linked into
\* place is served, one is published, or answers are gone.
LEMMA DiskServes ==
    DiskInv /\ [Next]_diskVars => [Local!Next]_<<published, [p \in Processes |-> DiskAnswer(p)]>>
<1> DEFINE answer == [p \in Processes |-> DiskAnswer(p)]
<1> SUFFICES ASSUME DiskInv, [Next]_diskVars
             PROVE  Local!Next \/ UNCHANGED <<published, answer>>
  BY Zenon
<1> USE DEF Goto, disk, gc
<1>1. ASSUME NEW p \in Processes, Touch(p), DecodeOK(p)
      PROVE  Local!Serve(p, key[p], buf[p]) /\ key[p] \in Keys /\ buf[p] \in Versions
  <2>1. key[p] \in Keys /\ buf[p] \in Versions /\ <<key[p], buf[p]>> \in published
    BY Zenon, <1>1 DEF DiskInv, TypeOK, Processing, Readable, Touch, DecodeOK, Bodies
  <2>2. answer[p] = NoVersion
    BY Zenon, <1>1 DEF Touch, DiskAnswer
  <2>3. UNCHANGED <<key, buf, published>> /\ pc' = [pc EXCEPT ![p] = "hit"]
    BY Zenon, <1>1 DEF Touch, DecodeOK
  <2>4. answer' = [answer EXCEPT ![p] = <<key[p], buf[p]>>]
    BY Zenon, <2>3 DEF DiskAnswer, DiskInv, TypeOK
  <2> QED
    BY Zenon, <2>1, <2>2, <2>3, <2>4 DEF Local!Serve
<1>2. ASSUME NEW p \in Processes, Link(p), published' # published
      PROVE  Local!Publish(key[p], version[p]) /\ key[p] \in Keys /\ version[p] \in Versions
  <2>1. key[p] \in Keys /\ version[p] \in Versions
    BY Zenon, <1>2 DEF Link, DiskInv, TypeOK, Processing
  <2>2. answer' = answer
    BY Zenon, <1>2 DEF Link, DiskAnswer, DiskInv, TypeOK
  <2> QED
    BY Zenon, <1>2, <2>1, <2>2 DEF Local!Publish, Link
<1>3. ASSUME NEW S \in SUBSET Processes, Stop(S) PROVE Local!Forget(S)
  <2>1. answer' = [p \in Processes |-> IF p \in S THEN NoVersion ELSE answer[p]]
    BY Zenon, <1>3 DEF Stop, DiskAnswer
  <2> QED
    BY Zenon, <1>3, <2>1 DEF Local!Forget, Stop
<1>4. ASSUME NEW p \in Processes, Use(p) PROVE Local!Forget({p})
  <2>1. answer' = [q \in Processes |-> IF q \in {p} THEN NoVersion ELSE answer[q]]
    BY Zenon, <1>4 DEF Use, DiskAnswer, DiskInv, TypeOK
  <2> QED
    BY Zenon, <1>4, <2>1 DEF Local!Forget, Use
<1>5. ASSUME published' = published,
             \A p \in Processes : /\ pc'[p] = "hit" <=> pc[p] = "hit"
                                  /\ pc[p] = "hit" => key'[p] = key[p] /\ buf'[p] = buf[p]
      PROVE  UNCHANGED <<published, answer>>
  BY Zenon, <1>5 DEF DiskAnswer
<1>6. ASSUME NEW p \in Processes, NEW v, NEW k,
             \/ ReadStamp(p, v) \/ RemoveStamp(p) \/ WriteStamp(p) \/ Opened(p)
             \/ (Touch(p) /\ DecodeFails(p)) \/ WriteTmp(p) \/ (Link(p) /\ published' = published)
             \/ GCDone(p) \/ PurgeEntry(p, k) \/ Get(p, k) \/ GCStat(p, k) \/ GCRemove(p, k)
      PROVE  UNCHANGED <<published, answer>>
  <2>1. CASE ReadStamp(p, v) \/ RemoveStamp(p) \/ WriteStamp(p) \/ Opened(p) \/ PurgeEntry(p, k)
    BY Zenon, <1>5, <2>1 DEF ReadStamp, RemoveStamp, WriteStamp, Opened, PurgeEntry, DiskInv, TypeOK
  <2>2. CASE (Touch(p) /\ DecodeFails(p)) \/ WriteTmp(p) \/ (Link(p) /\ published' = published)
    BY Zenon, <1>5, <2>2 DEF Touch, DecodeFails, WriteTmp, Link, DiskInv, TypeOK
  <2>3. CASE Get(p, k)
    BY Zenon, <1>5, <2>3 DEF Get, DiskInv, TypeOK
  <2>4. CASE GCDone(p) \/ GCStat(p, k) \/ GCRemove(p, k)
    BY Zenon, <1>5, <2>4 DEF GCDone, GCStat, GCRemove
  <2> QED
    BY Zenon, <1>6, <2>1, <2>2, <2>3, <2>4
<1>7. ASSUME \/ \E k \in Keys : Age(k)
             \/ GCInterval
             \/ UNCHANGED diskVars
      PROVE  UNCHANGED <<published, answer>>
  BY Zenon, <1>5, <1>7 DEF Age, GCInterval, diskVars
<1>8. ASSUME NEW p \in Processes, Close(p) \/ InitFails(p) \/ Crash(p) PROVE Stop({p})
  BY Zenon, <1>8 DEF Close, InitFails, Crash
<1>9. PowerLoss => Stop(Processes)
  BY Zenon DEF PowerLoss
<1> HIDE DEF answer, Goto, disk, gc
<1>10. ASSUME NEW p \in Processes, DiskStep(p)
       PROVE  Local!Next \/ UNCHANGED <<published, answer>>
  BY Zenon, <1>1, <1>2, <1>3, <1>4, <1>6, <1>8, <1>10 DEF Local!Next, DiskStep, Touch
<1> QED
  BY Zenon, <1>3, <1>7, <1>9, <1>10 DEF Next, Local!Next

\* The directory implements BackendContract, overlap or not: every Get that
\* succeeds returns a body that was linked into place under its key.
THEOREM DiskImplements == Spec => Local!Spec
<1>1. Init => Local!Init
  BY Zenon DEF Init, Local!Init, DiskAnswer
<1> QED
  BY <1>1, DiskServes, DiskInvariant, PTL DEF Spec, Local!Spec

----------------------------------------------------------------------------
(* The client of a helper *)

\* What a caller has in hand: an ID of its own while its request is out, and
\* never the file of another key.
CallerAt(c) ==
    /\ call[c].pc # "idle" => call[c].key \in Actions
    /\ call[c].pc = "register" => call[c].chan = "empty"
    /\ call[c].pc \in {"write", "await"} =>
         call[c].id \in 1..nextID /\ inFlight[call[c].id] \in {c, Nobody}
    /\ call[c].chan = "hit" \/ call[c].pc \in {"open", "hit"} => call[c].path = call[c].key
    /\ call[c].pc = "hit" => call[c].body = call[c].key

\* A registered channel is that of a caller that waits for it.
Registered(i) ==
    inFlight[i] # Nobody =>
        /\ i <= nextID /\ call[inFlight[i]].id = i
        /\ call[inFlight[i]].pc \in {"write", "await"} /\ call[inFlight[i]].chan = "empty"

\* A shared lookup has a leader that is at work on it.
Led(o, k) ==
    flight[<<o, k>>] # Nobody =>
        LET c == flight[<<o, k>>] IN
        call[c].op = o /\ call[c].key = k /\ call[c].pc \in {"register", "write", "await"}

\* A response can only reach the caller that asked for its key.
Asked(q) ==
    /\ q.id \in 1..nextID /\ q.cmd \in {"get", "put"} /\ q.key \in Actions
    /\ inFlight[q.id] # Nobody => call[inFlight[q.id]].key = q.key

CallTypes == [
    pc : {"idle", "join", "register", "write", "await", "open", "hit"},
    op : {"get", "stat", "put"}, key : Actions \cup {Nobody}, id : 0..MaxCalls,
    chan : {"empty", "closed", "error", "hit", "miss", "ok"},
    path : Actions \cup {Nobody}, body : Actions \cup {Nobody}]

ClientTypes ==
    /\ client \in {"starting", "ready", "failed"} /\ known \in Declared \cup {{}}
    /\ closer \in {"open", "asking", "shut", "hangup", "drain", "closed"}
    /\ intact \subseteq Actions
    /\ put \subseteq Actions \X Actions /\ \A k \in Actions : <<k, k>> \in put

MuxTypes ==
    /\ nextID \in Nat /\ nextID + Prog!Cardinality(Prog!Unsent) <= MaxCalls
    /\ inFlight \in [1..MaxCalls -> Callers \cup {Nobody}]
    /\ flight \in [{"get", "stat"} \X Actions -> Callers \cup {Nobody}]
    /\ call \in [Callers -> CallTypes]

ProgInv ==
    /\ ClientTypes /\ MuxTypes
    /\ \A c \in Callers : CallerAt(c)
    /\ \A i \in 1..MaxCalls : Registered(i)
    /\ \A o \in {"get", "stat"}, k \in Actions : Led(o, k)
    /\ \A q \in wire : Asked(q)

\* The answers that callers have from the helper stay.
AnswersStay ==
    \A d \in Callers :
        /\ call'[d].pc = "hit" <=> call[d].pc = "hit"
        /\ call[d].pc = "hit" => call'[d].key = call[d].key /\ call'[d].body = call[d].body

\* The cardinality that the module of the client counts with.
LEMMA ProgCounts == \A S : Prog!Cardinality(S) = Cardinality(S)
  BY Zenon DEF Prog!Cardinality, Cardinality

\* One call changes.
LEMMA CallChanges ==
  ASSUME call \in [Callers -> CallTypes], NEW c \in Callers, NEW r \in CallTypes,
         call' = [call EXCEPT ![c] = r]
  PROVE  /\ call' \in [Callers -> CallTypes] /\ call'[c] = r
         /\ \A d \in Callers : d # c => call'[d] = call[d]
  BY Zenon DEF CallTypes

\* Before the first call.
LEMMA ProgInit == Prog!Init => ProgInv
<1> SUFFICES ASSUME Prog!Init PROVE ProgInv
  BY Zenon
<1>1. \A c \in Callers : call[c] = Prog!Idle /\ Prog!Idle.pc = "idle" /\ Prog!Idle.chan = "empty"
  BY Zenon DEF Prog!Init, Prog!Idle
<1>2. Prog!Unsent = {}
  BY Zenon, <1>1 DEF Prog!Unsent, Prog!At
<1>3. Prog!Cardinality(Prog!Unsent) = 0
  BY Zenon, <1>2, ProgCounts, FS_EmptySet
<1>4. Prog!Idle \in CallTypes
  BY StoreAssumption DEF Prog!Idle, CallTypes
<1>5. call \in [Callers -> CallTypes]
  BY Zenon, <1>4 DEF Prog!Init
<1>6. ClientTypes /\ MuxTypes
  BY <1>3, <1>5, StoreAssumption DEF Prog!Init, Prog!IDs, Prog!Shared, ClientTypes, MuxTypes
<1>7. \A c \in Callers : CallerAt(c)
  BY Zenon, <1>1 DEF CallerAt
<1>8. \A i \in 1..MaxCalls : Registered(i)
  BY Zenon DEF Prog!Init, Prog!IDs, Registered
<1>9. \A o \in {"get", "stat"}, k \in Actions : Led(o, k)
  BY Zenon DEF Prog!Init, Prog!Shared, Led
<1> QED
  BY Zenon, <1>6, <1>7, <1>8, <1>9 DEF ProgInv, Prog!Init

\* The handshake, Close and the faults of a helper: calls and registrations stay
\* as they are, and nothing comes onto the wire.
Outside ==
    \/ Prog!Handshake \/ Prog!HandshakeFails \/ Prog!CloseStart \/ Prog!Closes
    \/ \E k \in Actions : Prog!Lose(k)
    \/ Prog!Garble \/ Prog!Die \/ Prog!HelperExits

\* Handshake, Close and the faults of the helper touch no call and add nothing to
\* the wire.
LEMMA OutsideKeeps ==
  ASSUME ProgInv, Outside \/ UNCHANGED progVars
  PROVE  ProgInv' /\ AnswersStay
<1> USE DEF Prog!mux, Prog!close, Prog!process, Prog!files, Prog!closeRest
<1>1. UNCHANGED <<nextID, inFlight, flight, call, put>>
  BY Zenon DEF Outside, Prog!Handshake, Prog!HandshakeFails, Prog!CloseStart, Prog!Closes, Prog!CloseAsked,
     Prog!SetClosing, Prog!HangUp, Prog!Reap, Prog!Lose, Prog!Garble, Prog!Die, Prog!HelperExits,
     Prog!Exit, progVars
<1>2. wire' \subseteq wire
  BY Zenon DEF Outside, Prog!Handshake, Prog!HandshakeFails, Prog!CloseStart, Prog!Closes, Prog!CloseAsked,
     Prog!SetClosing, Prog!HangUp, Prog!Reap, Prog!Lose, Prog!Garble, Prog!Die, Prog!HelperExits,
     Prog!Exit, progVars
<1>3. ClientTypes'
  <2>1. CASE Prog!Handshake
    BY Zenon, <1>1, <2>1 DEF ProgInv, ClientTypes, Prog!Handshake
  <2>2. CASE Prog!HandshakeFails
    BY Zenon, <1>1, <2>2 DEF ProgInv, ClientTypes, Prog!HandshakeFails
  <2>3. CASE Prog!CloseStart \/ Prog!Closes
    BY Zenon, <1>1, <2>3 DEF ProgInv, ClientTypes, Prog!CloseStart, Prog!Closes, Prog!CloseAsked,
       Prog!SetClosing, Prog!HangUp, Prog!Reap
  <2>4. CASE \/ \E k \in Actions : Prog!Lose(k)
             \/ Prog!Garble \/ Prog!Die \/ Prog!HelperExits \/ UNCHANGED progVars
    BY Zenon, <1>1, <2>4 DEF ProgInv, ClientTypes, Prog!Lose, Prog!Garble, Prog!Die, Prog!HelperExits,
       Prog!Exit, progVars
  <2> QED
    BY Zenon, <2>1, <2>2, <2>3, <2>4 DEF Outside
<1>4. MuxTypes'
  BY Zenon, <1>1 DEF ProgInv, MuxTypes, Prog!Unsent, Prog!At
<1>5. \A c \in Callers : CallerAt(c)'
  BY Zenon, <1>1 DEF ProgInv, CallerAt
<1>6. \A i \in 1..MaxCalls : Registered(i)'
  BY Zenon, <1>1 DEF ProgInv, Registered
<1>7. \A o \in {"get", "stat"}, k \in Actions : Led(o, k)'
  BY <1>1 DEF ProgInv, Led
<1>8. \A q \in wire' : Asked(q)'
  BY Zenon, <1>1, <1>2 DEF ProgInv, Asked
<1>9. AnswersStay
  BY Zenon, <1>1 DEF AnswersStay
<1> QED
  BY Zenon, <1>9, <1>3, <1>4, <1>5, <1>6, <1>7, <1>8 DEF ProgInv

\* The requests that have an ID, and the calls that will have one.
LEMMA Within ==
  ASSUME MuxTypes
  PROVE  /\ IsFiniteSet(Prog!Unsent) /\ Cardinality(Prog!Unsent) \in Nat
         /\ nextID + Cardinality(Prog!Unsent) <= MaxCalls
         /\ nextID \in 0..MaxCalls
<1>1. IsFiniteSet(Prog!Unsent)
  BY Zenon, FS_Subset, StoreAssumption DEF Prog!Unsent
<1>2. Cardinality(Prog!Unsent) \in Nat
  BY Zenon, <1>1, FS_CardinalityType
<1> QED
  BY <1>1, <1>2, ProgCounts, StoreAssumption DEF MuxTypes

\* Every ID that was given out is one of the bounded map, and so are those of
\* the requests on the wire.
LEMMA Numbered ==
  ASSUME ProgInv
  PROVE  /\ \A i \in 1..nextID : i \in 1..MaxCalls
         /\ \A q \in wire : Asked(q) /\ q.id \in 1..MaxCalls
<1>1. \A i \in 1..nextID : i \in 1..MaxCalls
  <2>1. nextID \in Nat /\ MaxCalls \in Nat /\ nextID \in 0..MaxCalls
    BY Zenon, Within, StoreAssumption DEF ProgInv, MuxTypes
  <2> QED
    BY <2>1
<1> QED
  BY Zenon, <1>1 DEF ProgInv, Asked

\* A caller that has no request out moves on: registrations and responses are
\* those of others.
LEMMA Apart ==
  ASSUME ProgInv, NEW c \in Callers, call[c].pc \notin {"write", "await"},
         \A d \in Callers : d # c => call'[d] = call[d],
         UNCHANGED <<nextID, inFlight, wire>>
  PROVE  /\ \A i \in 1..MaxCalls : Registered(i)'
         /\ \A q \in wire' : Asked(q)'
         /\ \A d \in Callers \ {c} : CallerAt(d)'
<1>1. ASSUME NEW i \in 1..MaxCalls PROVE inFlight[i] # c /\ inFlight[i] \in Callers \cup {Nobody}
  BY StoreAssumption DEF ProgInv, MuxTypes, Registered
<1>2. \A i \in 1..MaxCalls : Registered(i)'
  BY <1>1 DEF ProgInv, Registered
<1>3. ASSUME NEW q \in wire' PROVE Asked(q)'
  <2>1. Asked(q) /\ q.id \in 1..MaxCalls
    BY Zenon, Numbered
  <2> QED
    BY Zenon, <1>1, <2>1 DEF Asked
<1>4. \A d \in Callers \ {c} : CallerAt(d)'
  BY Zenon DEF ProgInv, CallerAt
<1> QED
  BY Zenon, <1>2, <1>3, <1>4

\* A call comes in: it joins a lookup under way, or leads one.
LEMMA CallKeeps ==
  ASSUME ProgInv, NEW c \in Callers, NEW o \in {"get", "stat", "put"}, NEW k \in Actions,
         Prog!Call(c, o, k)
  PROVE  ProgInv' /\ AnswersStay
<1> USE DEF Prog!close, Prog!process, Prog!files
<1>1. /\ call[c].pc = "idle" /\ nextID + Prog!Cardinality(Prog!Unsent) < MaxCalls
      /\ UNCHANGED <<client, known, nextID, inFlight, closer, wire, intact, put>>
  BY Zenon DEF Prog!Call, Prog!At
<1>2. PICK p \in {"join", "register"} :
        /\ call' = [call EXCEPT ![c] = [Prog!Idle EXCEPT !.pc = p, !.op = o, !.key = k]]
        /\ \/ flight' = flight
           \/ o # "put" /\ p = "register" /\ flight' = [flight EXCEPT ![<<o, k>>] = c]
  BY Zenon DEF Prog!Call, Prog!Shared
<1>3. PICK r \in CallTypes :
        /\ call' = [call EXCEPT ![c] = r]
        /\ r.pc = p /\ r.op = o /\ r.key = k /\ r.chan = "empty"
  <2>1. Prog!Idle \in CallTypes /\ Prog!Idle.chan = "empty"
    BY StoreAssumption DEF Prog!Idle, CallTypes
  <2>2. ASSUME NEW a \in CallTypes
        PROVE  LET r == [a EXCEPT !.pc = p, !.op = o, !.key = k]
               IN r \in CallTypes /\ r.pc = p /\ r.op = o /\ r.key = k /\ r.chan = a.chan
    BY Zenon DEF CallTypes
  <2> QED
    BY Zenon, <1>2, <2>1, <2>2
<1>4. /\ call' \in [Callers -> CallTypes] /\ call'[c] = r
      /\ \A d \in Callers : d # c => call'[d] = call[d]
  BY Zenon, <1>3, CallChanges DEF ProgInv, MuxTypes
<1>5. nextID' + Prog!Cardinality(Prog!Unsent') <= MaxCalls
  <2>1. IsFiniteSet(Prog!Unsent) /\ c \notin Prog!Unsent
    BY Zenon, <1>1, Within DEF ProgInv, Prog!Unsent, Prog!At
  <2>2. Cardinality(Prog!Unsent) \in Nat /\ nextID \in Nat /\ MaxCalls \in Nat
    BY Zenon, Within, StoreAssumption DEF ProgInv, MuxTypes
  <2>3. CASE p = "register"
    <3>1. Prog!Unsent' = Prog!Unsent \cup {c}
      BY Zenon, <1>3, <1>4, <2>3 DEF Prog!Unsent, Prog!At
    <3>2. Cardinality(Prog!Unsent') = Cardinality(Prog!Unsent) + 1
      BY Zenon, <2>1, <3>1, FS_AddElement
    <3> QED
      BY <1>1, <2>2, <3>2, ProgCounts
  <2>4. CASE p # "register"
    <3>1. Prog!Unsent' = Prog!Unsent
      BY Zenon, <1>3, <1>4, <2>1, <2>4 DEF Prog!Unsent, Prog!At
    <3> QED
      BY <1>1, <2>2, <3>1, ProgCounts
  <2> QED
    BY Zenon, <2>3, <2>4
<1>6. flight' \in [{"get", "stat"} \X Actions -> Callers \cup {Nobody}]
  BY Zenon, <1>2 DEF ProgInv, MuxTypes
<1>7. ClientTypes' /\ MuxTypes'
  BY Zenon, <1>1, <1>4, <1>5, <1>6 DEF ProgInv, ClientTypes, MuxTypes
<1>8. /\ \A i \in 1..MaxCalls : Registered(i)'
      /\ \A q \in wire' : Asked(q)'
      /\ \A d \in Callers \ {c} : CallerAt(d)'
  BY Zenon, <1>1, <1>4, Apart
<1>9. CallerAt(c)'
  BY Zenon, <1>3, <1>4 DEF CallerAt
<1>10. ASSUME NEW x \in {"get", "stat"}, NEW l \in Actions PROVE Led(x, l)'
  <2>1. flight[<<x, l>>] # c /\ flight[<<x, l>>] \in Callers \cup {Nobody}
    BY <1>1, StoreAssumption DEF ProgInv, MuxTypes, Led
  <2>2. CASE flight'[<<x, l>>] = flight[<<x, l>>]
    BY <1>4, <2>1, <2>2 DEF ProgInv, Led
  <2>3. CASE flight'[<<x, l>>] # flight[<<x, l>>]
    <3>1. x = o /\ l = k /\ flight'[<<x, l>>] = c /\ p = "register"
      BY Zenon, <1>2, <2>3 DEF ProgInv, MuxTypes
    <3> QED
      BY Zenon, <1>3, <1>4, <3>1 DEF Led
  <2> QED
    BY Zenon, <2>2, <2>3
<1>11. AnswersStay
  BY Zenon, <1>1, <1>2, <1>3, <1>4 DEF AnswersStay
<1> QED
  BY Zenon, <1>11, <1>7, <1>8, <1>9, <1>10 DEF ProgInv

\* send takes the next ID, which nobody has had.
LEMMA RegisterKeeps ==
  ASSUME ProgInv, NEW c \in Callers, Prog!Register(c)
  PROVE  ProgInv' /\ AnswersStay
<1> USE DEF Prog!close, Prog!process, Prog!files
<1>1. /\ call[c].pc = "register" /\ nextID' = nextID + 1
      /\ inFlight' = [inFlight EXCEPT ![nextID + 1] = c]
      /\ UNCHANGED <<client, known, closer, wire, intact, put, flight>>
  BY Zenon DEF Prog!Register, Prog!At
<1>2. /\ call[c] \in CallTypes /\ nextID \in Nat /\ nextID + 1 \in 1..MaxCalls
      /\ IsFiniteSet(Prog!Unsent) /\ c \in Prog!Unsent
      /\ nextID + Cardinality(Prog!Unsent) <= MaxCalls
      /\ Cardinality(Prog!Unsent) \in Nat /\ MaxCalls \in Nat
  <2>1. c \in Prog!Unsent /\ call[c] \in CallTypes
    BY Zenon, <1>1 DEF Prog!Unsent, Prog!At, ProgInv, MuxTypes
  <2>2. Cardinality(Prog!Unsent) # 0
    BY Zenon, <2>1, Within, FS_EmptySet DEF ProgInv
  <2> QED
    BY <2>1, <2>2, Within, StoreAssumption DEF ProgInv
<1>3. PICK r \in CallTypes :
        /\ call' = [call EXCEPT ![c] = r]
        /\ r.pc = "write" /\ r.id = nextID + 1 /\ r.op = call[c].op /\ r.key = call[c].key
        /\ r.chan = call[c].chan
  <2>1. call' = [call EXCEPT ![c] = [call[c] EXCEPT !.pc = "write", !.id = nextID + 1]]
    BY Zenon, <1>1 DEF Prog!Register, ProgInv, MuxTypes, CallTypes
  <2>2. nextID + 1 \in 0..MaxCalls
    BY <1>2
  <2>3. ASSUME NEW a \in CallTypes
        PROVE  LET r == [a EXCEPT !.pc = "write", !.id = nextID + 1]
               IN /\ r \in CallTypes /\ r.pc = "write" /\ r.id = nextID + 1
                  /\ r.op = a.op /\ r.key = a.key /\ r.chan = a.chan
    BY Zenon, <2>2 DEF CallTypes
  <2> QED
    BY Zenon, <1>2, <2>1, <2>3
<1>4. /\ call' \in [Callers -> CallTypes] /\ call'[c] = r
      /\ \A d \in Callers : d # c => call'[d] = call[d]
  BY Zenon, <1>3, CallChanges DEF ProgInv, MuxTypes
<1>5. nextID' + Prog!Cardinality(Prog!Unsent') <= MaxCalls
  <2>1. Prog!Unsent' = Prog!Unsent \ {c}
    BY Zenon, <1>2, <1>3, <1>4 DEF Prog!Unsent, Prog!At
  <2>2. Cardinality(Prog!Unsent') = Cardinality(Prog!Unsent) - 1
    BY Zenon, <1>2, <2>1, FS_RemoveElement
  <2> QED
    BY <1>1, <1>2, <2>2, ProgCounts
<1>6. ClientTypes' /\ MuxTypes'
  BY <1>1, <1>2, <1>4, <1>5 DEF ProgInv, ClientTypes, MuxTypes
<1>7. \A i \in 1..MaxCalls : /\ inFlight[i] # c
                             /\ inFlight'[i] = IF i = nextID + 1 THEN c ELSE inFlight[i]
  BY <1>1, StoreAssumption DEF ProgInv, MuxTypes, Registered
<1>8. ASSUME NEW i \in 1..MaxCalls PROVE Registered(i)'
  <2>1. CASE i = nextID + 1
    <3>1. call[c].chan = "empty"
      BY Zenon, <1>1 DEF ProgInv, CallerAt
    <3> QED
      BY <1>1, <1>2, <1>3, <1>4, <1>7, <2>1, <3>1 DEF Registered
  <2>2. CASE i # nextID + 1
    <3>1. Registered(i) /\ inFlight[i] \in Callers \cup {Nobody} /\ inFlight'[i] = inFlight[i]
      BY Zenon, <1>7, <2>2 DEF ProgInv, MuxTypes
    <3> QED
      BY <1>1, <1>2, <1>4, <1>7, <3>1 DEF Registered
  <2> QED
    BY Zenon, <2>1, <2>2
<1>9. ASSUME NEW q \in wire' PROVE Asked(q)'
  <2>1. Asked(q) /\ q.id \in 1..MaxCalls /\ q.id # nextID + 1
    BY <1>1, <1>2 DEF ProgInv, Asked
  <2>2. inFlight'[q.id] = inFlight[q.id] /\ inFlight[q.id] # c
    BY Zenon, <1>7, <2>1
  <2>3. inFlight[q.id] \in Callers \cup {Nobody}
    BY Zenon, <2>1 DEF ProgInv, MuxTypes
  <2> QED
    BY <1>1, <1>2, <1>4, <2>1, <2>2, <2>3 DEF Asked
<1>10. ASSUME NEW d \in Callers PROVE CallerAt(d)'
  <2>1. CASE d = c
    <3>1. inFlight'[nextID + 1] = c /\ call[c].key \in Actions /\ call[c].chan = "empty"
      BY Zenon, <1>1, <1>2, <1>7 DEF ProgInv, CallerAt
    <3> QED
      BY <1>1, <1>2, <1>3, <1>4, <2>1, <3>1 DEF CallerAt
  <2>2. CASE d # c
    <3>1. CallerAt(d) /\ call'[d] = call[d]
      BY Zenon, <1>4, <2>2 DEF ProgInv
    <3>2. ASSUME call[d].pc \in {"write", "await"}
          PROVE  call[d].id \in 1..nextID' /\ inFlight'[call[d].id] \in {d, Nobody}
      <4>1. call[d].id \in 1..nextID /\ inFlight[call[d].id] \in {d, Nobody}
        BY Zenon, <3>1, <3>2 DEF CallerAt
      <4> QED
        BY <1>1, <1>2, <1>7, <4>1
    <3> QED
      BY Zenon, <3>1, <3>2 DEF CallerAt
  <2> QED
    BY Zenon, <2>1, <2>2
<1>11. ASSUME NEW x \in {"get", "stat"}, NEW l \in Actions PROVE Led(x, l)'
  <2>1. Led(x, l) /\ flight[<<x, l>>] \in Callers \cup {Nobody}
    BY Zenon DEF ProgInv, MuxTypes
  <2> QED
    BY Zenon, <1>1, <1>3, <1>4, <2>1 DEF Led
<1>12. AnswersStay
  BY Zenon, <1>1, <1>3, <1>4 DEF AnswersStay
<1> QED
  BY Zenon, <1>12, <1>6, <1>8, <1>9, <1>10, <1>11 DEF ProgInv

\* A Get opens the file it was told of, and its caller goes on with the body.
LEMMA BodyKeeps ==
  ASSUME ProgInv, NEW c \in Callers, Prog!OpenBody(c) \/ Prog!Use(c)
  PROVE  ProgInv'
<1> USE DEF Prog!mux, Prog!close, Prog!process, Prog!files
<1>1. /\ call[c].pc \in {"open", "hit"} /\ call[c] \in CallTypes /\ call[c].path = call[c].key
      /\ call[c].key \in Actions
      /\ UNCHANGED <<client, known, nextID, inFlight, flight, closer, wire, intact, put>>
  BY Zenon DEF Prog!OpenBody, Prog!Use, Prog!At, ProgInv, MuxTypes, CallerAt
<1>2. PICK r \in CallTypes :
        /\ call' = [call EXCEPT ![c] = r]
        /\ \/ r.pc = "idle" /\ r.chan = "empty"
           \/ /\ r.pc = "hit" /\ r.key = call[c].key
              /\ r.path = call[c].key /\ r.body = call[c].key
  <2>1. Prog!Idle \in CallTypes /\ Prog!Idle.chan = "empty" /\ Prog!Idle.pc = "idle"
    BY StoreAssumption DEF Prog!Idle, CallTypes
  <2>2. CASE Prog!OpenBody(c) /\ Prog!Valid(c)
    <3>1. call' = [call EXCEPT ![c] = [call[c] EXCEPT !.pc = "hit", !.body = call[c].path]]
      BY Zenon, <2>2 DEF Prog!OpenBody, Prog!Valid, ProgInv, MuxTypes
    <3>2. ASSUME NEW a \in CallTypes, NEW b \in Actions
          PROVE  LET r == [a EXCEPT !.pc = "hit", !.body = b]
                 IN /\ r \in CallTypes /\ r.pc = "hit" /\ r.key = a.key
                    /\ r.path = a.path /\ r.body = b
      BY Zenon DEF CallTypes
    <3> DEFINE r == [call[c] EXCEPT !.pc = "hit", !.body = call[c].path]
    <3>3. /\ r \in CallTypes /\ r.pc = "hit" /\ r.key = call[c].key
          /\ r.path = call[c].key /\ r.body = call[c].key
      BY <1>1, <3>2
    <3> HIDE DEF r
    <3> QED
      BY Zenon, <3>1, <3>3 DEF r
  <2>3. CASE Prog!Use(c) \/ (Prog!OpenBody(c) /\ ~Prog!Valid(c))
    <3>1. call' = [call EXCEPT ![c] = Prog!Idle]
      BY Zenon, <2>3 DEF Prog!OpenBody, Prog!Use
    <3> QED
      BY Zenon, <2>1, <3>1
  <2> QED
    BY Zenon, <2>2, <2>3
<1>3. /\ call' \in [Callers -> CallTypes] /\ call'[c] = r
      /\ \A d \in Callers : d # c => call'[d] = call[d]
  BY Zenon, <1>2, CallChanges DEF ProgInv, MuxTypes
<1>4. Prog!Unsent' = Prog!Unsent
  BY Zenon, <1>1, <1>2, <1>3 DEF Prog!Unsent, Prog!At
<1>5. ClientTypes' /\ MuxTypes'
  BY Zenon, <1>1, <1>3, <1>4 DEF ProgInv, ClientTypes, MuxTypes
<1>6. /\ \A i \in 1..MaxCalls : Registered(i)'
      /\ \A q \in wire' : Asked(q)'
      /\ \A d \in Callers \ {c} : CallerAt(d)'
  BY Zenon, <1>1, <1>3, Apart
<1>7. CallerAt(c)'
  BY Zenon, <1>1, <1>2, <1>3 DEF CallerAt
<1>8. ASSUME NEW x \in {"get", "stat"}, NEW l \in Actions PROVE Led(x, l)'
  <2>1. Led(x, l) /\ flight[<<x, l>>] \in Callers \cup {Nobody}
    BY Zenon DEF ProgInv, MuxTypes
  <2> QED
    BY Zenon, <1>1, <1>3, <2>1 DEF Led
<1> QED
  BY Zenon, <1>5, <1>6, <1>7, <1>8 DEF ProgInv

\* A request comes to its end: its registration is gone, and the callers that
\* shared it, who had none, have its result.
LEMMA EndsKeeps ==
  ASSUME ProgInv, NEW c \in Callers, call[c].pc \in {"write", "await"},
         NEW r \in CallTypes, r.pc \in {"idle", "open"}, r.chan = "empty",
         r.pc = "open" => r.key \in Actions /\ r.path = r.key,
         Prog!Ends(c, r),
         inFlight' \in [1..MaxCalls -> Callers \cup {Nobody}],
         \A i \in 1..MaxCalls : inFlight'[i] # c /\ inFlight'[i] \in {inFlight[i], Nobody},
         UNCHANGED <<client, known, nextID, closer, wire, intact, put>>
  PROVE  ProgInv' /\ AnswersStay
<1> DEFINE G == Prog!Group(c)
<1>1. c \in G /\ \A d \in G : d = c \/ call[d].pc = "join"
  BY Zenon DEF Prog!Group, Prog!At
<1>2. \A d \in Callers : call'[d] = IF d \in G THEN r ELSE call[d]
  BY Zenon DEF Prog!Ends
<1>3. call' \in [Callers -> CallTypes]
  BY Zenon DEF Prog!Ends, ProgInv, MuxTypes
<1>4. flight' \in [{"get", "stat"} \X Actions -> Callers \cup {Nobody}]
  BY Zenon DEF Prog!Ends, ProgInv, MuxTypes
<1> HIDE DEF G
<1>5. Prog!Unsent' = Prog!Unsent
  BY Zenon, <1>1, <1>2 DEF Prog!Unsent, Prog!At
<1>6. ClientTypes' /\ MuxTypes'
  BY Zenon, <1>3, <1>4, <1>5 DEF ProgInv, ClientTypes, MuxTypes
<1>7. ASSUME NEW i \in 1..MaxCalls, inFlight'[i] # Nobody
      PROVE  /\ inFlight'[i] = inFlight[i] /\ inFlight[i] \in Callers /\ Registered(i)
             /\ call'[inFlight[i]] = call[inFlight[i]]
  <2>1. inFlight'[i] = inFlight[i] /\ inFlight[i] \in Callers /\ Registered(i) /\ inFlight[i] # c
    BY Zenon, <1>7 DEF ProgInv, MuxTypes
  <2>2. inFlight[i] \notin G
    BY Zenon, <1>1, <1>7, <2>1 DEF Registered
  <2> QED
    BY Zenon, <1>2, <2>1, <2>2
<1>8. ASSUME NEW i \in 1..MaxCalls PROVE Registered(i)'
  BY <1>7 DEF Registered
<1>9. ASSUME NEW q \in wire' PROVE Asked(q)'
  <2>1. Asked(q) /\ q.id \in 1..MaxCalls
    BY Zenon, Numbered
  <2> QED
    BY Zenon, <1>7, <2>1 DEF Asked
<1>10. ASSUME NEW d \in Callers PROVE CallerAt(d)'
  <2>1. CASE d \in G
    BY Zenon, <1>2, <2>1 DEF CallerAt
  <2>2. CASE d \notin G
    <3>1. CallerAt(d) /\ call'[d] = call[d]
      BY Zenon, <1>2, <2>2 DEF ProgInv
    <3>2. ASSUME call[d].pc \in {"write", "await"}
          PROVE  call[d].id \in 1..nextID' /\ inFlight'[call[d].id] \in {d, Nobody}
      <4>1. call[d].id \in 1..nextID /\ inFlight[call[d].id] \in {d, Nobody}
        BY Zenon, <3>1, <3>2 DEF CallerAt
      <4>2. call[d].id \in 1..MaxCalls
        BY Zenon, <4>1, Numbered
      <4> QED
        BY Zenon, <4>1, <4>2
    <3> QED
      BY Zenon, <3>1, <3>2 DEF CallerAt
  <2> QED
    BY Zenon, <2>1, <2>2
<1>11. ASSUME NEW x \in {"get", "stat"}, NEW l \in Actions PROVE Led(x, l)'
  <2>1. Led(x, l) /\ flight[<<x, l>>] \in Callers \cup {Nobody}
    BY Zenon DEF ProgInv, MuxTypes
  <2>2. flight'[<<x, l>>] \in {flight[<<x, l>>], Nobody}
    BY Zenon DEF Prog!Ends, ProgInv, MuxTypes
  <2>3. ASSUME flight[<<x, l>>] = c PROVE flight'[<<x, l>>] = Nobody
    <3>1. c # Nobody /\ call[c].op = x /\ call[c].key = l
      BY Zenon, <2>1, <2>3, StoreAssumption DEF Led
    <3>2. Prog!Leads(c) /\ Prog!Lookup(c) = <<x, l>>
      BY Zenon, <2>3, <3>1 DEF Prog!Leads, Prog!Lookup, Prog!Shared, Prog!At
    <3> QED
      BY Zenon, <3>2 DEF Prog!Ends, ProgInv, MuxTypes
  <2>4. CASE flight'[<<x, l>>] # Nobody
    <3>1. flight[<<x, l>>] \in Callers \ {c} /\ flight'[<<x, l>>] = flight[<<x, l>>]
      BY Zenon, <2>1, <2>2, <2>3, <2>4
    <3>2. flight[<<x, l>>] \notin G
      BY Zenon, <1>1, <2>1, <3>1, StoreAssumption DEF Led
    <3> QED
      BY Zenon, <1>2, <2>1, <3>1, <3>2 DEF Led
  <2> QED
    BY Zenon, <2>4 DEF Led
<1>12. AnswersStay
  BY Zenon, <1>1, <1>2 DEF AnswersStay
<1> QED
  BY Zenon, <1>12, <1>6, <1>8, <1>9, <1>10, <1>11 DEF ProgInv

\* The request goes out under the ID of its caller, or fails with the pipe.
LEMMA WriteKeeps ==
  ASSUME ProgInv, NEW c \in Callers, Prog!WriteRequest(c)
  PROVE  ProgInv' /\ AnswersStay
<1> USE DEF Prog!close, Prog!process, Prog!files
<1>1. /\ call[c].pc = "write" /\ call[c] \in CallTypes /\ CallerAt(c)
      /\ UNCHANGED <<client, known, nextID, closer, intact, put>>
  BY Zenon DEF Prog!WriteRequest, Prog!At, ProgInv, MuxTypes
<1>2. /\ call[c].id \in 1..nextID /\ call[c].id \in 1..MaxCalls /\ call[c].key \in Actions
      /\ inFlight[call[c].id] \in {c, Nobody}
  <2>1. /\ call[c].id \in 1..nextID /\ call[c].key \in Actions
        /\ inFlight[call[c].id] \in {c, Nobody}
    BY Zenon, <1>1 DEF CallerAt
  <2> QED
    BY Zenon, <2>1, Numbered
<1>3. CASE stdin /\ helper
  <2>1. /\ call' = [call EXCEPT ![c] = [call[c] EXCEPT !.pc = "await"]]
        /\ UNCHANGED <<inFlight, flight>>
    BY Zenon, <1>3 DEF Prog!WriteRequest, Prog!Goto, ProgInv, MuxTypes, CallTypes
  <2>2. wire' \subseteq
          wire \cup {[id |-> call[c].id, cmd |-> Prog!Needs(call[c].op), key |-> call[c].key]}
    BY Zenon, <1>3 DEF Prog!WriteRequest
  <2>3. PICK r \in CallTypes :
          /\ call' = [call EXCEPT ![c] = r] /\ r.pc = "await"
          /\ r.op = call[c].op /\ r.key = call[c].key /\ r.id = call[c].id
          /\ r.chan = call[c].chan /\ r.path = call[c].path
    <3>1. ASSUME NEW a \in CallTypes
          PROVE  LET b == [a EXCEPT !.pc = "await"]
                 IN /\ b \in CallTypes /\ b.pc = "await" /\ b.op = a.op /\ b.key = a.key
                    /\ b.id = a.id /\ b.chan = a.chan /\ b.path = a.path
      BY Zenon DEF CallTypes
    <3> QED
      BY Zenon, <1>1, <2>1, <3>1
  <2>4. /\ call' \in [Callers -> CallTypes] /\ call'[c] = r
        /\ \A d \in Callers : d # c => call'[d] = call[d]
    BY Zenon, <2>3, CallChanges DEF ProgInv, MuxTypes
  <2>5. \A d \in Callers : /\ call'[d].key = call[d].key /\ call'[d].op = call[d].op
                           /\ call'[d].id = call[d].id /\ call'[d].chan = call[d].chan
                           /\ call'[d].path = call[d].path
                           /\ call'[d] = call[d] \/ (d = c /\ call'[d].pc = "await")
    <3>1. \A d \in Callers : d = c => /\ call'[d].key = call[d].key /\ call'[d].op = call[d].op
                                     /\ call'[d].id = call[d].id /\ call'[d].chan = call[d].chan
                                     /\ call'[d].path = call[d].path /\ call'[d].pc = "await"
      BY Zenon, <2>3, <2>4
    <3> QED
      BY Zenon, <2>4, <3>1
  <2>6. Prog!Unsent' = Prog!Unsent
    BY Zenon, <1>1, <2>5 DEF Prog!Unsent, Prog!At
  <2>7. ClientTypes' /\ MuxTypes'
    BY Zenon, <1>1, <2>1, <2>4, <2>6 DEF ProgInv, ClientTypes, MuxTypes
  <2>8. ASSUME NEW i \in 1..MaxCalls PROVE Registered(i)'
    <3>1. Registered(i) /\ inFlight[i] \in Callers \cup {Nobody}
      BY Zenon DEF ProgInv, MuxTypes
    <3> QED
      BY <1>1, <2>1, <2>5, <3>1 DEF Registered
  <2>9. ASSUME NEW d \in Callers PROVE CallerAt(d)'
    <3>1. CallerAt(d)
      BY Zenon DEF ProgInv
    <3> QED
      BY Zenon, <1>1, <1>2, <2>1, <2>5, <3>1 DEF CallerAt
  <2>10. ASSUME NEW x \in {"get", "stat"}, NEW l \in Actions PROVE Led(x, l)'
    <3>1. Led(x, l) /\ flight[<<x, l>>] \in Callers \cup {Nobody}
      BY Zenon DEF ProgInv, MuxTypes
    <3> QED
      BY <2>1, <2>5, <3>1 DEF Led
  <2>11. ASSUME NEW q \in wire' PROVE Asked(q)'
    <3>1. CASE q \in wire
      <4>1. Asked(q) /\ q.id \in 1..MaxCalls
        BY Zenon, <3>1, Numbered
      <4>2. inFlight[q.id] \in Callers \cup {Nobody}
        BY Zenon, <4>1 DEF ProgInv, MuxTypes
      <4> QED
        BY <1>1, <2>1, <2>5, <4>1, <4>2 DEF Asked
    <3>2. CASE q \notin wire
      <4>1. q.id = call[c].id /\ q.cmd = Prog!Needs(call[c].op) /\ q.key = call[c].key
        BY <2>2, <3>2
      <4>2. q.cmd \in {"get", "put"}
        BY Zenon, <1>1, <4>1 DEF Prog!Needs, CallTypes
      <4>3. inFlight'[q.id] # Nobody => inFlight'[q.id] = c
        BY Zenon, <1>2, <2>1, <4>1
      <4> QED
        BY Zenon, <1>1, <1>2, <2>5, <4>1, <4>2, <4>3 DEF Asked
    <3> QED
      BY Zenon, <3>1, <3>2
  <2>12. AnswersStay
    BY Zenon, <1>1, <2>5 DEF AnswersStay
  <2> QED
    BY Zenon, <2>7, <2>8, <2>9, <2>10, <2>11, <2>12 DEF ProgInv
<1>4. CASE ~(stdin /\ helper)
  <2>1. /\ inFlight' = [inFlight EXCEPT ![call[c].id] = Nobody]
        /\ Prog!Ends(c, Prog!Idle) /\ UNCHANGED wire
    BY Zenon, <1>4 DEF Prog!WriteRequest
  <2>2. Prog!Idle \in CallTypes /\ Prog!Idle.chan = "empty" /\ Prog!Idle.pc = "idle"
    BY StoreAssumption DEF Prog!Idle, CallTypes
  <2>3. inFlight' \in [1..MaxCalls -> Callers \cup {Nobody}]
    BY Zenon, <2>1 DEF ProgInv, MuxTypes
  <2>4. ASSUME NEW i \in 1..MaxCalls
        PROVE  inFlight'[i] # c /\ inFlight'[i] \in {inFlight[i], Nobody}
    <3>1. inFlight'[i] = IF i = call[c].id THEN Nobody ELSE inFlight[i]
      BY Zenon, <2>1 DEF ProgInv, MuxTypes
    <3>2. inFlight[i] = c => i = call[c].id
      BY StoreAssumption DEF ProgInv, Registered
    <3> QED
      BY Zenon, <3>1, <3>2, StoreAssumption
  <2> QED
    BY Zenon, <1>1, <2>1, <2>2, <2>3, <2>4, EndsKeeps
<1> QED
  BY Zenon, <1>3, <1>4

\* The channel has its response, or was closed.
LEMMA ReceiveKeeps ==
  ASSUME ProgInv, NEW c \in Callers, Prog!Receive(c)
  PROVE  ProgInv' /\ AnswersStay
<1> USE DEF Prog!close, Prog!process, Prog!files
<1>1. /\ call[c].pc = "await" /\ call[c].chan # "empty" /\ call[c] \in CallTypes /\ CallerAt(c)
      /\ UNCHANGED <<client, known, nextID, inFlight, closer, wire, intact, put>>
  BY Zenon DEF Prog!Receive, Prog!At, ProgInv, MuxTypes
<1>2. PICK r \in CallTypes :
        /\ Prog!Ends(c, r) /\ r.chan = "empty" /\ r.pc \in {"idle", "open"}
        /\ r.pc = "open" => r.key \in Actions /\ r.path = r.key
  <2>1. Prog!Idle \in CallTypes /\ Prog!Idle.chan = "empty" /\ Prog!Idle.pc = "idle"
    BY StoreAssumption DEF Prog!Idle, CallTypes
  <2>2. CASE call[c].op = "get" /\ call[c].chan = "hit"
    <3> DEFINE r == [Prog!Idle EXCEPT !.pc = "open", !.key = call[c].key, !.path = call[c].key]
    <3>1. call[c].key \in Actions /\ call[c].path = call[c].key
      BY Zenon, <1>1, <2>2 DEF CallerAt
    <3>2. ASSUME NEW a \in CallTypes, NEW k \in Actions
          PROVE  LET b == [a EXCEPT !.pc = "open", !.key = k, !.path = k]
                 IN b \in CallTypes /\ b.pc = "open" /\ b.key = k /\ b.path = k /\ b.chan = a.chan
      BY Zenon DEF CallTypes
    <3>3. /\ r \in CallTypes /\ r.pc = "open" /\ r.key \in Actions /\ r.path = r.key
          /\ r.chan = "empty"
      BY Zenon, <2>1, <3>1, <3>2
    <3>4. Prog!Ends(c, r)
      BY Zenon, <2>2, <3>1 DEF Prog!Receive
    <3> HIDE DEF r
    <3> QED
      BY Zenon, <3>3, <3>4
  <2>3. CASE ~(call[c].op = "get" /\ call[c].chan = "hit")
    BY Zenon, <2>1, <2>3 DEF Prog!Receive
  <2> QED
    BY Zenon, <2>2, <2>3
<1>3. inFlight' \in [1..MaxCalls -> Callers \cup {Nobody}]
  BY Zenon, <1>1 DEF ProgInv, MuxTypes
<1>4. \A i \in 1..MaxCalls : inFlight'[i] # c /\ inFlight'[i] \in {inFlight[i], Nobody}
  BY <1>1, StoreAssumption DEF ProgInv, Registered
<1> QED
  BY Zenon, <1>1, <1>2, <1>3, <1>4, EndsKeeps

\* A response reaches the channel that is registered under its ID, and that is
\* the channel of a caller that asked for its key.
LEMMA DeliverKeeps ==
  ASSUME ProgInv, NEW q \in wire, Prog!Deliver(q)
  PROVE  ProgInv' /\ AnswersStay
<1> USE DEF Prog!close, Prog!process, Prog!files
<1>1. /\ wire' \subseteq wire /\ inFlight' = [inFlight EXCEPT ![q.id] = Nobody]
      /\ UNCHANGED <<client, known, nextID, closer, flight>>
  BY Zenon DEF Prog!Deliver
<1>2. Asked(q) /\ q.id \in 1..MaxCalls /\ q.key \in Actions
  BY Zenon, Numbered DEF Asked
<1>3. PICK kind \in {"error", "hit", "miss", "ok"} :
        /\ Prog!Response(q, kind)
        /\ call' = IF inFlight[q.id] = Nobody THEN call ELSE
                      [call EXCEPT ![inFlight[q.id]].chan = kind,
                                  ![inFlight[q.id]].path = IF kind = "hit" THEN q.key ELSE Nobody]
  BY Zenon DEF Prog!Deliver
<1>4. ClientTypes'
  <2>1. \/ UNCHANGED <<intact, put>>
        \/ intact' = intact \cup {q.key} /\ put' = put \cup {<<q.key, q.key>>}
    BY Zenon, <1>3 DEF Prog!Response
  <2> QED
    BY Zenon, <1>1, <1>2, <2>1 DEF ProgInv, ClientTypes
<1>5. inFlight[q.id] \in Callers \cup {Nobody}
  BY Zenon, <1>2 DEF ProgInv, MuxTypes
<1>6. /\ call' \in [Callers -> CallTypes]
      /\ \A d \in Callers : d # inFlight[q.id] => call'[d] = call[d]
      /\ \A d \in Callers :
           /\ call'[d].pc = call[d].pc /\ call'[d].key = call[d].key /\ call'[d].op = call[d].op
           /\ call'[d].id = call[d].id /\ call'[d].body = call[d].body
           /\ d = inFlight[q.id] /\ call'[d].chan = "hit" => call'[d].path = q.key
  <2>1. CASE inFlight[q.id] = Nobody
    BY Zenon, <1>3, <2>1, StoreAssumption DEF ProgInv, MuxTypes
  <2>2. CASE inFlight[q.id] # Nobody
    <3> DEFINE e == inFlight[q.id]
    <3> DEFINE p == IF kind = "hit" THEN q.key ELSE Nobody
    <3>1. e \in Callers /\ call[e] \in CallTypes /\ p \in Actions \cup {Nobody}
      BY Zenon, <1>2, <1>5, <2>2 DEF ProgInv, MuxTypes
    <3>2. call' = [call EXCEPT ![e] = [call[e] EXCEPT !.chan = kind, !.path = p]]
      BY Zenon, <1>3, <2>2, <3>1 DEF ProgInv, MuxTypes, CallTypes
    <3>3. ASSUME NEW a \in CallTypes, NEW t \in Actions \cup {Nobody}
          PROVE  LET b == [a EXCEPT !.chan = kind, !.path = t]
                 IN /\ b \in CallTypes /\ b.pc = a.pc /\ b.key = a.key /\ b.op = a.op
                    /\ b.id = a.id /\ b.body = a.body /\ b.chan = kind /\ b.path = t
      BY Zenon DEF CallTypes
    <3>4. (kind = "hit") => p = q.key
      BY Zenon
    <3> DEFINE r == [call[e] EXCEPT !.chan = kind, !.path = p]
    <3> HIDE DEF p, e
    <3>5. /\ r \in CallTypes /\ r.pc = call[e].pc /\ r.key = call[e].key /\ r.op = call[e].op
          /\ r.id = call[e].id /\ r.body = call[e].body /\ r.chan = kind /\ r.path = p
      BY Zenon, <3>1, <3>3
    <3> HIDE DEF r
    <3>6. /\ call' \in [Callers -> CallTypes] /\ call'[e] = r
          /\ \A d \in Callers : d # e => call'[d] = call[d]
      BY Zenon, <3>1, <3>2, <3>5, CallChanges DEF ProgInv, MuxTypes, r
    <3>7. \A d \in Callers : d = e =>
            /\ call'[d].pc = call[d].pc /\ call'[d].key = call[d].key /\ call'[d].op = call[d].op
            /\ call'[d].id = call[d].id /\ call'[d].body = call[d].body
            /\ call'[d].chan = "hit" => call'[d].path = q.key
      BY Zenon, <3>4, <3>5, <3>6
    <3> QED
      BY Zenon, <3>6, <3>7 DEF e
  <2> QED
    BY Zenon, <2>1, <2>2
<1>7. MuxTypes'
  <2>1. Prog!Unsent' = Prog!Unsent
    BY Zenon, <1>6 DEF Prog!Unsent, Prog!At
  <2> QED
    BY Zenon, <1>1, <1>6, <2>1 DEF ProgInv, MuxTypes
<1>8. \A i \in 1..MaxCalls : inFlight'[i] = IF i = q.id THEN Nobody ELSE inFlight[i]
  BY Zenon, <1>1 DEF ProgInv, MuxTypes
<1>9. ASSUME NEW i \in 1..MaxCalls, inFlight'[i] # Nobody
      PROVE  /\ inFlight'[i] = inFlight[i] /\ inFlight[i] \in Callers /\ Registered(i)
             /\ call'[inFlight[i]] = call[inFlight[i]]
  <2>1. i # q.id /\ inFlight'[i] = inFlight[i] /\ inFlight[i] # Nobody
    BY Zenon, <1>8, <1>9
  <2>2. inFlight[i] \in Callers /\ Registered(i) /\ Registered(q.id)
    BY Zenon, <1>2, <2>1 DEF ProgInv, MuxTypes
  <2>3. inFlight[i] # inFlight[q.id]
    BY Zenon, <2>1, <2>2 DEF Registered
  <2> QED
    BY Zenon, <1>6, <2>1, <2>2, <2>3
<1>10. ASSUME NEW i \in 1..MaxCalls PROVE Registered(i)'
  BY <1>1, <1>9 DEF Registered
<1>11. ASSUME NEW s \in wire' PROVE Asked(s)'
  <2>1. Asked(s) /\ s.id \in 1..MaxCalls
    BY Zenon, <1>1, Numbered
  <2> QED
    BY Zenon, <1>1, <1>9, <2>1 DEF Asked
<1>12. ASSUME NEW d \in Callers PROVE CallerAt(d)'
  <2>1. CallerAt(d)
    BY Zenon DEF ProgInv
  <2>2. ASSUME call'[d].pc \in {"write", "await"}
        PROVE  call'[d].id \in 1..nextID' /\ inFlight'[call'[d].id] \in {d, Nobody}
    <3>1. call[d].id \in 1..nextID /\ inFlight[call[d].id] \in {d, Nobody}
      BY Zenon, <1>6, <2>1, <2>2 DEF CallerAt
    <3>2. call[d].id \in 1..MaxCalls
      BY Zenon, <3>1, Numbered
    <3> QED
      BY Zenon, <1>1, <1>6, <1>8, <3>1, <3>2
  <2>3. CASE d = inFlight[q.id]
    <3>1. call[d].pc \in {"write", "await"} /\ call[d].key = q.key
      BY Zenon, <1>2, <2>3, StoreAssumption DEF ProgInv, Registered, Asked
    <3> QED
      BY Zenon, <1>2, <1>6, <2>2, <2>3, <3>1 DEF CallerAt
  <2>4. CASE d # inFlight[q.id]
    <3>1. call'[d] = call[d]
      BY Zenon, <1>6, <2>4
    <3> QED
      BY Zenon, <2>1, <2>2, <3>1 DEF CallerAt
  <2> QED
    BY Zenon, <2>3, <2>4
<1>13. ASSUME NEW x \in {"get", "stat"}, NEW l \in Actions PROVE Led(x, l)'
  <2>1. Led(x, l) /\ flight[<<x, l>>] \in Callers \cup {Nobody}
    BY Zenon DEF ProgInv, MuxTypes
  <2> QED
    BY Zenon, <1>1, <1>6, <2>1 DEF Led
<1>14. AnswersStay
  BY Zenon, <1>6 DEF AnswersStay
<1> QED
  BY Zenon, <1>14, <1>4, <1>7, <1>10, <1>11, <1>12, <1>13 DEF ProgInv

\* failPending: every registration is gone, and every channel that had one is
\* closed.
LEMMA ReadLoopKeeps ==
  ASSUME ProgInv, Prog!ReadLoopEnds
  PROVE  ProgInv' /\ AnswersStay
<1> USE DEF Prog!close, Prog!process, Prog!files
<1>1. /\ inFlight' = [i \in 1..MaxCalls |-> Nobody]
      /\ UNCHANGED <<client, known, nextID, flight, closer, wire, intact, put>>
  BY Zenon DEF Prog!ReadLoopEnds, Prog!IDs
<1>2. ASSUME NEW d \in Callers
      PROVE  /\ call'[d] \in CallTypes
             /\ call'[d].pc = call[d].pc /\ call'[d].key = call[d].key /\ call'[d].op = call[d].op
             /\ call'[d].id = call[d].id /\ call'[d].path = call[d].path
             /\ call'[d].body = call[d].body
             /\ \/ call'[d].chan = call[d].chan
                \/ call'[d].chan = "closed" /\ call[d].pc \in {"write", "await"}
  <2>1. call[d] \in CallTypes
    BY Zenon DEF ProgInv, MuxTypes
  <2>2. CASE \E i \in 1..MaxCalls : inFlight[i] = d
    <3>1. call'[d] = [call[d] EXCEPT !.chan = "closed"]
      BY Zenon, <2>2 DEF Prog!ReadLoopEnds, Prog!IDs
    <3>2. call[d].pc \in {"write", "await"}
      BY <2>2, StoreAssumption DEF ProgInv, Registered
    <3>3. ASSUME NEW a \in CallTypes
          PROVE  LET b == [a EXCEPT !.chan = "closed"]
                 IN /\ b \in CallTypes /\ b.pc = a.pc /\ b.key = a.key /\ b.op = a.op
                    /\ b.id = a.id /\ b.path = a.path /\ b.body = a.body /\ b.chan = "closed"
      BY Zenon DEF CallTypes
    <3> QED
      BY <2>1, <3>1, <3>2, <3>3
  <2>3. CASE ~\E i \in 1..MaxCalls : inFlight[i] = d
    BY Zenon, <2>1, <2>3 DEF Prog!ReadLoopEnds, Prog!IDs
  <2> QED
    BY Zenon, <2>2, <2>3
<1>3. call' \in [Callers -> CallTypes]
  <2>1. DOMAIN call' = Callers /\ call' = [d \in Callers |-> call'[d]]
    BY Zenon DEF Prog!ReadLoopEnds
  <2> QED
    BY Zenon, <1>2, <2>1
<1>4. MuxTypes'
  <2>1. Prog!Unsent' = Prog!Unsent
    BY Zenon, <1>2 DEF Prog!Unsent, Prog!At
  <2> QED
    BY Zenon, <1>1, <1>3, <2>1 DEF ProgInv, MuxTypes
<1>5. ClientTypes'
  BY Zenon, <1>1 DEF ProgInv, ClientTypes
<1>6. \A i \in 1..MaxCalls : Registered(i)'
  BY Zenon, <1>1 DEF Registered
<1>7. ASSUME NEW q \in wire' PROVE Asked(q)'
  <2>1. Asked(q) /\ q.id \in 1..MaxCalls
    BY Zenon, <1>1, Numbered
  <2> QED
    BY Zenon, <1>1, <2>1 DEF Asked
<1>8. ASSUME NEW d \in Callers PROVE CallerAt(d)'
  <2>1. CallerAt(d)
    BY Zenon DEF ProgInv
  <2>2. ASSUME call'[d].pc \in {"write", "await"}
        PROVE  call'[d].id \in 1..nextID' /\ inFlight'[call'[d].id] \in {d, Nobody}
    <3>1. call[d].id \in 1..nextID
      BY Zenon, <1>2, <2>1, <2>2 DEF CallerAt
    <3>2. call[d].id \in 1..MaxCalls
      BY Zenon, <3>1, Numbered
    <3> QED
      BY Zenon, <1>1, <1>2, <3>1, <3>2
  <2> QED
    BY Zenon, <1>2, <2>1, <2>2 DEF CallerAt
<1>9. ASSUME NEW x \in {"get", "stat"}, NEW l \in Actions PROVE Led(x, l)'
  <2>1. Led(x, l) /\ flight[<<x, l>>] \in Callers \cup {Nobody}
    BY Zenon DEF ProgInv, MuxTypes
  <2> QED
    BY Zenon, <1>1, <1>2, <2>1 DEF Led
<1>10. AnswersStay
  BY Zenon, <1>2 DEF AnswersStay
<1> QED
  BY Zenon, <1>10, <1>4, <1>5, <1>6, <1>7, <1>8, <1>9 DEF ProgInv

\* Every step of the client, its callers and the helper keeps the invariant.
LEMMA ProgSteps == ProgInv /\ [Prog!Next]_progVars => ProgInv'
<1> SUFFICES ASSUME ProgInv, [Prog!Next]_progVars PROVE ProgInv'
  BY Zenon
<1>1. CASE Outside \/ UNCHANGED progVars
  BY Zenon, <1>1, OutsideKeeps
<1>2. CASE \E c \in Callers, o \in {"get", "stat", "put"}, k \in Actions : Prog!Call(c, o, k)
  BY Zenon, <1>2, CallKeeps
<1>3. CASE \E c \in Callers : Prog!Step(c)
  BY Zenon, <1>3, RegisterKeeps, WriteKeeps, ReceiveKeeps, BodyKeeps DEF Prog!Step
<1>4. CASE Prog!ReadLoop
  BY Zenon, <1>4, ReadLoopKeeps, DeliverKeeps DEF Prog!ReadLoop
<1> QED
  BY Zenon, <1>1, <1>2, <1>3, <1>4 DEF Prog!Next, Outside

\* The invariant has the types of CacheProgClient in it.
LEMMA ProgTypes == ProgInv => Prog!TypeOK
<1> SUFFICES ASSUME ProgInv PROVE Prog!TypeOK
  BY Zenon
<1>1. ASSUME NEW l \in Prog!Shared \X Actions, flight[l] # Nobody
      PROVE  Prog!Lookup(flight[l]) = l /\ Prog!Leads(flight[l])
  <2>1. PICK o \in {"get", "stat"}, k \in Actions : l = <<o, k>>
    BY DEF Prog!Shared
  <2>2. Led(o, k)
    BY Zenon DEF ProgInv
  <2>3. call[flight[l]].op = o /\ call[flight[l]].key = k /\ call[flight[l]].pc # "idle"
    BY Zenon, <1>1, <2>1, <2>2 DEF Led
  <2>4. Prog!Lookup(flight[l]) = l
    BY Zenon, <2>1, <2>3 DEF Prog!Lookup
  <2> QED
    BY Zenon, <2>3, <2>4 DEF Prog!Leads, Prog!Shared, Prog!At
<1>2. nextID \in 0..MaxCalls
  BY Zenon, Within DEF ProgInv
<1> QED
  BY Zenon, <1>1, <1>2 DEF ProgInv, ClientTypes, MuxTypes, CallTypes, Prog!TypeOK, Prog!IDs, Prog!Shared

----------------------------------------------------------------------------
(* The backend a tier is on *)

StoreInv == DiskInv /\ ProgInv

\* A step of the store is one of its directory or one of its client.
LEMMA StoreSteps == StoreInv /\ [StoreNext]_storeVars => StoreInv'
<1> SUFFICES ASSUME StoreInv, [StoreNext]_storeVars PROVE StoreInv'
  BY Zenon
<1>1. [Next]_diskVars /\ [Prog!Next]_progVars
  BY Zenon DEF StoreNext, storeVars
<1> QED
  BY Zenon, <1>1, DiskSteps, ProgSteps DEF StoreInv

\* Both backends keep their invariants side by side, since a step of StoreNext is
\* a step of one and leaves the other alone.
THEOREM StoreInvariant == StoreSpec => []StoreInv
<1>1. StoreInit => StoreInv
  BY Zenon, DiskInit, ProgInit DEF StoreInit, StoreInv
<1> QED
  BY <1>1, StoreSteps, PTL DEF StoreSpec

\* The types of both backends, whichever is selected: the IDs stay within the
\* bound and a lookup that is shared always has a leader at work on it, whatever
\* the helper answers, loses or garbles.
THEOREM StoreTypes == StoreSpec => []StoreTypeOK
<1>1. StoreInv => StoreTypeOK
  BY Zenon, ProgTypes DEF StoreInv, DiskInv, StoreTypeOK
<1> QED
  BY <1>1, StoreInvariant, PTL

\* The same of the directory behind the backend interface.
THEOREM StorePresentValid == StoreSpec => []PresentValid
<1>1. StoreInv => PresentValid
  BY Zenon, DiskPresent DEF StoreInv
<1> QED
  BY <1>1, StoreInvariant, PTL

\* What each client of the store has been answered.
served == [c \in Processes \cup Callers |->
             CASE c \in Processes -> DiskAnswer(c)
               [] c \in Callers /\ Prog!At(c, "hit") -> Prog!ProgAnswer(c)
               [] OTHER -> NoVersion]

ServedTo(c) ==
    IF c \in Processes THEN DiskAnswer(c)
    ELSE IF call[c].pc = "hit" THEN <<call[c].key, call[c].body>> ELSE NoVersion

\* The mapping of CacheStore, with IF in place of CASE.
LEMMA Served == /\ served = [c \in Processes \cup Callers |-> ServedTo(c)]
                /\ served' = [c \in Processes \cup Callers |-> ServedTo(c)']
<1>1. \A c \in Processes \cup Callers :
        (CASE c \in Processes -> DiskAnswer(c)
           [] c \in Callers /\ Prog!At(c, "hit") -> Prog!ProgAnswer(c)
           [] OTHER -> NoVersion) = ServedTo(c)
  BY Zenon, StoreAssumption DEF ServedTo, Prog!At, Prog!ProgAnswer
<1>2. \A c \in Processes \cup Callers :
        (CASE c \in Processes -> DiskAnswer(c)'
           [] c \in Callers /\ Prog!At(c, "hit")' -> Prog!ProgAnswer(c)'
           [] OTHER -> NoVersion) = ServedTo(c)'
  BY Zenon, StoreAssumption DEF ServedTo, Prog!At, Prog!ProgAnswer
<1> QED
  BY Zenon, <1>1, <1>2 DEF served

\* A step of the directory, to the clients of the store.
LEMMA DirectoryServes ==
  ASSUME DiskInv, [Next]_diskVars, UNCHANGED progVars
  PROVE  Contract!Next \/ UNCHANGED <<published \cup put, served>>
<1> DEFINE answer == [p \in Processes |-> DiskAnswer(p)]
<1> DEFINE Clients == Processes \cup Callers
<1>1. /\ served = [c \in Clients |-> ServedTo(c)] /\ served' = [c \in Clients |-> ServedTo(c)']
      /\ \A p \in Processes : ServedTo(p) = answer[p] /\ ServedTo(p)' = answer'[p]
      /\ \A c \in Callers : c \notin Processes /\ ServedTo(c)' = ServedTo(c)
      /\ put' = put
  BY Zenon, Served, StoreAssumption DEF ServedTo, progVars
<1>2. Local!Next \/ UNCHANGED <<published, answer>>
  BY Zenon, DiskServes
<1> HIDE DEF answer
<1>3. CASE UNCHANGED <<published, answer>>
  BY Zenon, <1>1, <1>3
<1>4. ASSUME NEW k \in Keys, NEW b \in Versions, Local!Publish(k, b)
      PROVE  Contract!Publish(k, b)
  <2>1. served' = served /\ published' = published \cup {<<k, b>>}
    BY Zenon, <1>1, <1>4 DEF Local!Publish, answer
  <2> QED
    BY Zenon, <1>1, <2>1 DEF Contract!Publish, served
<1>5. ASSUME NEW p \in Processes, NEW k \in Keys, NEW b \in Versions, Local!Serve(p, k, b)
      PROVE  Contract!Serve(p, k, b)
  <2>1. /\ answer[p] = NoVersion /\ <<k, b>> \in published /\ published' = published
        /\ answer' = [answer EXCEPT ![p] = <<k, b>>]
    BY Zenon, <1>5 DEF Local!Serve, answer
  <2>2. answer'[p] = <<k, b>> /\ \A q \in Processes : q # p => answer'[q] = answer[q]
    BY Zenon, <2>1 DEF answer
  <2>3. served[p] = NoVersion /\ served' = [served EXCEPT ![p] = <<k, b>>]
    BY Zenon, <1>1, <2>1, <2>2
  <2> QED
    BY Zenon, <1>1, <2>1, <2>3 DEF Contract!Serve, served
<1>6. ASSUME NEW S \in SUBSET Processes, Local!Forget(S)
      PROVE  Contract!Forget(S)
  <2>1. published' = published /\ answer' = [p \in Processes |-> IF p \in S THEN NoVersion ELSE answer[p]]
    BY Zenon, <1>6 DEF Local!Forget, answer
  <2>2. \A p \in Processes : answer'[p] = IF p \in S THEN NoVersion ELSE answer[p]
    BY Zenon, <2>1
  <2>3. served' = [c \in Clients |-> IF c \in S THEN NoVersion ELSE served[c]]
    BY Zenon, <1>1, <2>2
  <2> QED
    BY Zenon, <1>1, <2>1, <2>3 DEF Contract!Forget, served
<1> QED
  BY Zenon, <1>2, <1>3, <1>4, <1>5, <1>6 DEF Local!Next, Contract!Next

\* A step of the client of a helper, to the clients of the store: a body is
\* served when it is opened and has the hash of what was put, published when the
\* helper says so, and forgotten when its caller goes on.
LEMMA HelperServes ==
  ASSUME ProgInv, [Prog!Next]_progVars, UNCHANGED diskVars
  PROVE  Contract!Next \/ UNCHANGED <<published \cup put, served>>
<1> DEFINE Clients == Processes \cup Callers
<1> USE DEF Prog!mux, Prog!close, Prog!process, Prog!files
<1>1. /\ served = [c \in Clients |-> ServedTo(c)] /\ served' = [c \in Clients |-> ServedTo(c)']
      /\ \A p \in Processes : ServedTo(p)' = ServedTo(p)
      /\ \A c \in Callers :
           /\ c \notin Processes
           /\ ServedTo(c) = IF call[c].pc = "hit" THEN <<call[c].key, call[c].body>> ELSE NoVersion
           /\ ServedTo(c)' = IF call'[c].pc = "hit" THEN <<call'[c].key, call'[c].body>> ELSE NoVersion
      /\ published' = published
  BY Zenon, Served, StoreAssumption DEF ServedTo, DiskAnswer, diskVars
<1>2. AnswersStay => served' = served
  BY Zenon, <1>1 DEF AnswersStay
<1>3. ASSUME NEW q \in wire, Prog!Deliver(q)
      PROVE  Contract!Next \/ UNCHANGED <<published \cup put, served>>
  <2>1. served' = served
    BY Zenon, <1>2, <1>3, DeliverKeeps
  <2>2. q.key \in Actions
    BY Zenon DEF ProgInv, Asked
  <2>3. put' = put \/ put' = put \cup {<<q.key, q.key>>}
    BY Zenon, <1>3 DEF Prog!Deliver, Prog!Response
  <2>4. (published \cup put)' = published \cup put \/ Contract!Publish(q.key, q.key)
    BY Zenon, <1>1, <2>1, <2>3 DEF Contract!Publish, served
  <2> QED
    BY Zenon, <2>1, <2>2, <2>4 DEF Contract!Next
<1>4. ASSUME NEW c \in Callers, Prog!OpenBody(c) \/ Prog!Use(c)
      PROVE  Contract!Next \/ UNCHANGED <<published \cup put, served>>
  <2>1. /\ put' = put /\ call[c].pc \in {"open", "hit"} /\ call[c].key \in Actions
        /\ call[c] \in CallTypes /\ <<call[c].key, call[c].key>> \in put
        /\ call[c].path = call[c].key
    BY Zenon, <1>4 DEF Prog!OpenBody, Prog!Use, Prog!At, ProgInv, CallerAt, ClientTypes, MuxTypes
  <2>2. CASE Prog!OpenBody(c) /\ Prog!Valid(c)
    <3>1. /\ call[c].pc = "open"
          /\ call' = [call EXCEPT ![c] = [call[c] EXCEPT !.pc = "hit", !.body = call[c].path]]
      BY Zenon, <2>2 DEF Prog!OpenBody, Prog!Valid, Prog!At, ProgInv, MuxTypes
    <3>2. ASSUME NEW a \in CallTypes, NEW b
          PROVE  LET r == [a EXCEPT !.pc = "hit", !.body = b]
                 IN r.pc = "hit" /\ r.key = a.key /\ r.body = b
      BY Zenon DEF CallTypes
    <3>3. /\ call'[c] = [call[c] EXCEPT !.pc = "hit", !.body = call[c].path]
          /\ \A d \in Callers : d # c => call'[d] = call[d]
      BY Zenon, <3>1 DEF ProgInv, MuxTypes
    <3>4. call'[c].pc = "hit" /\ call'[c].key = call[c].key /\ call'[c].body = call[c].key
      BY <2>1, <3>2, <3>3
    <3> PICK k \in Actions : k = call[c].key
      BY Zenon, <2>1
    <3>5. ServedTo(c) = NoVersion /\ ServedTo(c)' = <<k, k>>
      BY Zenon, <1>1, <3>1, <3>4
    <3>6. \A d \in Clients : d # c => ServedTo(d)' = ServedTo(d)
      BY Zenon, <1>1, <3>3
    <3>7. served[c] = NoVersion /\ served' = [served EXCEPT ![c] = <<k, k>>]
      BY Zenon, <1>1, <3>5, <3>6
    <3>8. Contract!Serve(c, k, k)
      BY Zenon, <1>1, <2>1, <3>7 DEF Contract!Serve, served
    <3> QED
      BY Zenon, <3>8 DEF Contract!Next
  <2>3. CASE Prog!Use(c) \/ (Prog!OpenBody(c) /\ ~Prog!Valid(c))
    <3>1. call' = [call EXCEPT ![c] = Prog!Idle]
      BY Zenon, <2>3 DEF Prog!OpenBody, Prog!Use
    <3>2. call'[c].pc = "idle" /\ \A d \in Callers : d # c => call'[d] = call[d]
      BY Zenon, <3>1 DEF ProgInv, MuxTypes, Prog!Idle
    <3>3. \A d \in Clients : ServedTo(d)' = IF d \in {c} THEN NoVersion ELSE served[d]
      BY Zenon, <1>1, <3>2
    <3>4. served' = [d \in Clients |-> IF d \in {c} THEN NoVersion ELSE served[d]]
      BY Zenon, <1>1, <3>3
    <3>5. Contract!Forget({c})
      BY Zenon, <1>1, <2>1, <3>4 DEF Contract!Forget, served
    <3> QED
      BY Zenon, <3>5 DEF Contract!Next
  <2> QED
    BY Zenon, <1>4, <2>2, <2>3
<1>5. CASE Outside \/ UNCHANGED progVars
  <2>1. put' = put
    BY Zenon, <1>5 DEF Outside, Prog!Handshake, Prog!HandshakeFails, Prog!CloseStart, Prog!Closes,
       Prog!CloseAsked, Prog!SetClosing, Prog!HangUp, Prog!Reap, Prog!closeRest, Prog!Lose,
       Prog!Garble, Prog!Die, Prog!HelperExits, Prog!Exit, progVars
  <2> QED
    BY Zenon, <1>1, <1>2, <1>5, <2>1, OutsideKeeps
<1>6. ASSUME NEW c \in Callers, NEW o \in {"get", "stat", "put"}, NEW k \in Actions,
             Prog!Call(c, o, k)
      PROVE  UNCHANGED <<published \cup put, served>>
  <2>1. put' = put
    BY Zenon, <1>6 DEF Prog!Call
  <2> QED
    BY Zenon, <1>1, <1>2, <1>6, <2>1, CallKeeps
<1>7. ASSUME NEW c \in Callers, Prog!Register(c) \/ Prog!WriteRequest(c) \/ Prog!Receive(c)
      PROVE  UNCHANGED <<published \cup put, served>>
  <2>1. put' = put
    BY Zenon, <1>7 DEF Prog!Register, Prog!WriteRequest, Prog!Receive
  <2> QED
    BY Zenon, <1>1, <1>2, <1>7, <2>1, RegisterKeeps, WriteKeeps, ReceiveKeeps
<1>8. CASE Prog!ReadLoopEnds
  <2>1. put' = put
    BY Zenon, <1>8 DEF Prog!ReadLoopEnds
  <2> QED
    BY Zenon, <1>1, <1>2, <1>8, <2>1, ReadLoopKeeps
<1> QED
  BY Zenon, <1>3, <1>4, <1>5, <1>6, <1>7, <1>8 DEF Prog!Next, Prog!ReadLoop, Prog!Step, Outside

\* The store implements BackendContract on either backend: whatever a Get
\* returns was published whole under its key, for any number of processes,
\* callers, keys and requests, whatever processes crash, files are damaged,
\* responses are reordered and the helper does besides.
THEOREM StoreImplements == StoreSpec => ImplementsContract
<1>1. StoreInit => Contract!Init
  <2> SUFFICES ASSUME StoreInit PROVE Contract!Init
    BY Zenon
  <2>1. published \cup put \subseteq (Keys \cup Actions) \X (Versions \cup Actions)
    <3>1. published = {} /\ put = {<<k, k>> : k \in Actions}
      BY Zenon DEF StoreInit, Init, Prog!Init
    <3> QED
      BY <3>1
  <2>2. \A c \in Processes \cup Callers : ServedTo(c) = NoVersion
    BY Zenon DEF StoreInit, Init, Prog!Init, Prog!Idle, ServedTo, DiskAnswer
  <2>3. served = [c \in Processes \cup Callers |-> NoVersion]
    BY Zenon, <2>2, Served
  <2> QED
    BY Zenon, <2>1, <2>3 DEF Contract!Init, served
<1>2. StoreInv /\ [StoreNext]_storeVars => [Contract!Next]_<<published \cup put, served>>
  <2> SUFFICES ASSUME StoreInv, [StoreNext]_storeVars
               PROVE  Contract!Next \/ UNCHANGED <<published \cup put, served>>
    BY Zenon
  <2>1. \/ [Next]_diskVars /\ UNCHANGED progVars
        \/ [Prog!Next]_progVars /\ UNCHANGED diskVars
    BY Zenon DEF StoreNext, storeVars
  <2> QED
    BY Zenon, <2>1, DirectoryServes, HelperServes DEF StoreInv
<1>3. ImplementsContract <=> Contract!Init /\ [][Contract!Next]_<<published \cup put, served>>
  BY Zenon DEF ImplementsContract, Contract!Spec, served
<1> QED
  BY <1>1, <1>2, <1>3, StoreInvariant, PTL DEF StoreSpec
=============================================================================
