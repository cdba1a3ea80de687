----------------------------- MODULE DiskCache -----------------------------
(***************************************************************************)
(* The on-disk cache of internal/cache (cache.go, atomic.go,                *)
(* local_backend.go) shared by the processes that run plaid-lint: the        *)
(* version stamp and the purge on a version bump, publication by link(2),    *)
(* lookups that refresh an entry, the background garbage collection, and     *)
(* the lookup-compute-store sequence of the drivers that use it.             *)
(*                                                                          *)
(* A body is what one version of the program computes for a key, so it is    *)
(* named by that version; a body a power failure has emptied is Torn.        *)
(***************************************************************************)
EXTENDS FiniteSets

CONSTANTS
    Processes, Keys, Versions,
    NoVersion,  \* no meta/cache-version
    Torn        \* the content of a file whose blocks were never written

ASSUME DiskAssumption ==
    /\ IsFiniteSet(Processes) /\ IsFiniteSet(Keys)
    /\ NoVersion \notin Versions /\ Torn \notin Versions /\ NoVersion # Torn

VARIABLES
    stamp,      \* meta/cache-version
    entry,      \* the body of the file of a key, NoVersion where there is none
    old,        \* the keys whose file is due for collection
    gcDue,      \* .last-gc is missing or older than GCInterval
    version,    \* CacheVersion of the binary a process runs
    pc,         \* where a process is
    key,        \* the key it works on
    buf,        \* what it read for it
    tmp,        \* its temporary file exists
    purging,    \* the keys purgeEntries has not reached
    collecting, \* the processes whose background GC runs
    sweep,      \* the keys its GC has not reached
    victim,     \* the key its GC has found old
    published,  \* history: the bodies linked into place, by key
    overlap     \* history: versions ran side by side, or a purge hit a live process

disk == <<stamp, entry, old, gcDue>>
gc == <<collecting, sweep, victim>>
diskVars == <<disk, version, pc, key, buf, tmp, purging, gc, published, overlap>>

Present(k) == entry[k] # NoVersion

\* unlink(2)
Remove(k) ==
    /\ entry' = [entry EXCEPT ![k] = NoVersion]
    /\ old' = old \ {k}

Alive == {p \in Processes : pc[p] # "off"}
Goto(p, l) == pc' = [pc EXCEPT ![p] = l]

Init ==
    /\ stamp = NoVersion
    /\ entry = [k \in Keys |-> NoVersion]
    /\ old = {}
    /\ gcDue = TRUE
    /\ version = [p \in Processes |-> NoVersion]
    /\ pc = [p \in Processes |-> "off"]
    /\ key \in [Processes -> Keys]
    /\ buf = [p \in Processes |-> NoVersion]
    /\ tmp = [p \in Processes |-> FALSE]
    /\ purging = [p \in Processes |-> {}]
    /\ collecting = {}
    /\ sweep = [p \in Processes |-> {}] /\ victim = [p \in Processes |-> {}]
    /\ published = {}
    /\ overlap = FALSE

----------------------------------------------------------------------------
(* Cache.init *)

\* A process starts. An absent stamp is a fresh cache, the own version one that
\* is up to date.
ReadStamp(p, v) ==
    /\ pc[p] = "off"
    /\ version' = [version EXCEPT ![p] = v]
    /\ Goto(p, CASE stamp = NoVersion -> "stamping"
                 [] stamp = v -> "opening"
                 [] OTHER -> "purging")
    /\ purging' = [purging EXCEPT ![p] = IF stamp \in {NoVersion, v} THEN {} ELSE Keys]
    /\ overlap' = (overlap \/ \E q \in Alive : version[q] # v)
    /\ UNCHANGED <<disk, key, buf, tmp, gc, published>>

\* purgeEntries removes the trees file by file, temporary files included.
PurgeEntry(p, k) ==
    /\ pc[p] = "purging" /\ k \in purging[p]
    /\ purging' = [purging EXCEPT ![p] = @ \ {k}]
    /\ Remove(k)
    /\ tmp' = [q \in Processes |-> tmp[q] /\ key[q] # k]
    /\ overlap' = (overlap \/ Alive # {p})
    /\ UNCHANGED <<stamp, gcDue, pc, version, key, buf, gc, published>>

RemoveStampEarly(p) ==
    /\ pc[p] = "purging"
    /\ stamp' = NoVersion
    /\ Goto(p, "stamping")
    /\ overlap' = (overlap \/ Alive # {p})
    /\ UNCHANGED <<entry, old, gcDue, version, key, buf, tmp, purging, gc, published>>

\* The stale stamp goes once the trees are gone, before the new one is linked.
RemoveStamp(p) ==
    /\ pc[p] = "purging" /\ purging[p] = {}
    /\ stamp' = NoVersion
    /\ Goto(p, "stamping")
    /\ overlap' = (overlap \/ Alive # {p})
    /\ UNCHANGED <<entry, old, gcDue, version, key, buf, tmp, purging, gc, published>>

\* writeFileAtomic: a stamp that is there by now counts as written.
WriteStamp(p) ==
    /\ pc[p] = "stamping"
    /\ stamp' = IF stamp = NoVersion THEN version[p] ELSE stamp
    /\ Goto(p, "opening")
    /\ UNCHANGED <<entry, old, gcDue, version, key, buf, tmp, purging, gc, published, overlap>>

\* openWithTier starts the collection when shouldRunGC says so.
Opened(p) ==
    /\ pc[p] = "opening"
    /\ Goto(p, "idle")
    /\ IF gcDue
         THEN /\ collecting' = collecting \cup {p}
              /\ sweep' = [sweep EXCEPT ![p] = Keys]
              /\ UNCHANGED victim
         ELSE UNCHANGED gc
    /\ UNCHANGED <<disk, version, key, buf, tmp, purging, published, overlap>>

----------------------------------------------------------------------------
(* Lookup, compute, store *)

\* ReadL1 and ReadL2 begin with localBackend.Get: ReadFile, ...
Get(p, k) ==
    /\ pc[p] = "idle"
    /\ key' = [key EXCEPT ![p] = k]
    /\ IF Present(k)
         THEN buf' = [buf EXCEPT ![p] = entry[k]] /\ Goto(p, "touch")
         ELSE Goto(p, "compute") /\ UNCHANGED buf
    /\ UNCHANGED <<disk, version, tmp, purging, gc, published, overlap>>

\* DecodeL1 and DecodeL2 check the magic, the kind and the number of sections
\* but no version: a whole body of another version may decode (versions 2 and 3
\* write an L2 entry alike) ...
DecodeOK(p) ==
    /\ buf[p] # Torn
    /\ Goto(p, "hit")
    /\ UNCHANGED buf

\* ... or not (version 3 added a section to L1); what the power has emptied does
\* not. An error is a miss.
DecodeFails(p) ==
    /\ buf[p] # version[p]
    /\ Goto(p, "compute")
    /\ buf' = [buf EXCEPT ![p] = NoVersion]

\* ... Chtimes on whatever has the name now; then they decode.
Touch(p) ==
    /\ pc[p] = "touch"
    /\ old' = old \ {key[p]}
    /\ DecodeOK(p) \/ DecodeFails(p)
    /\ UNCHANGED <<stamp, entry, gcDue, version, key, tmp, purging, gc, published, overlap>>

Use(p) ==
    /\ pc[p] = "hit"
    /\ Goto(p, "idle")
    /\ buf' = [buf EXCEPT ![p] = NoVersion]
    /\ UNCHANGED <<disk, version, key, tmp, purging, gc, published, overlap>>

HasL2(p) == Present(key[p])

\* After a miss the driver computes and stores, unless the name exists.
\* writeFileAtomic: a temporary file is written, ...
WriteTmp(p) ==
    /\ pc[p] = "compute"
    /\ \/ Goto(p, "idle") /\ UNCHANGED tmp
       \/ ~HasL2(p) /\ Goto(p, "link") /\ tmp' = [tmp EXCEPT ![p] = TRUE]
    /\ UNCHANGED <<disk, version, key, buf, purging, gc, published, overlap>>

\* ... and linked into place, if it still exists and nobody was first.
Link(p) ==
    /\ pc[p] = "link"
    /\ tmp' = [tmp EXCEPT ![p] = FALSE]
    /\ Goto(p, "idle")
    /\ IF tmp[p] /\ ~Present(key[p])
         THEN /\ entry' = [entry EXCEPT ![key[p]] = version[p]]
              /\ published' = published \cup {<<key[p], version[p]>>}
         ELSE UNCHANGED <<entry, published>>
    /\ UNCHANGED <<stamp, old, gcDue, version, key, buf, purging, gc, overlap>>

----------------------------------------------------------------------------
(* Garbage collection *)

\* The walk stats a file, ...
GCStat(p, k) ==
    /\ p \in collecting /\ k \in sweep[p] /\ victim[p] = {}
    /\ sweep' = [sweep EXCEPT ![p] = @ \ {k}]
    /\ victim' = [victim EXCEPT ![p] = IF k \in old THEN {k} ELSE {}]
    /\ UNCHANGED <<disk, pc, version, key, buf, tmp, purging, collecting, published, overlap>>

\* ... and removes what has its name by then.
GCRemove(p, k) ==
    /\ p \in collecting /\ k \in victim[p]
    /\ victim' = [victim EXCEPT ![p] = {}]
    /\ Remove(k)
    /\ UNCHANGED <<stamp, gcDue, pc, version, key, buf, tmp, purging, collecting, sweep, published, overlap>>

\* stampLastGC.
GCDone(p) ==
    /\ p \in collecting /\ sweep[p] = {} /\ victim[p] = {}
    /\ collecting' = collecting \ {p}
    /\ gcDue' = FALSE
    /\ UNCHANGED <<stamp, entry, old, pc, version, key, buf, tmp, purging, sweep, victim, published, overlap>>

\* Time passes: an entry comes up for collection, the last one was long ago.
Age(k) ==
    /\ Present(k)
    /\ old' = old \cup {k}
    /\ UNCHANGED <<stamp, entry, gcDue, pc, version, key, buf, tmp, purging, gc, published, overlap>>

GCInterval ==
    /\ gcDue' = TRUE
    /\ UNCHANGED <<stamp, entry, old, pc, version, key, buf, tmp, purging, gc, published, overlap>>

----------------------------------------------------------------------------
(* Ends of processes. Close does not wait for the collection. *)

Stop(S) ==
    /\ version' = [p \in Processes |-> IF p \in S THEN NoVersion ELSE version[p]]
    /\ pc' = [p \in Processes |-> IF p \in S THEN "off" ELSE pc[p]]
    /\ buf' = [p \in Processes |-> IF p \in S THEN NoVersion ELSE buf[p]]
    /\ tmp' = [p \in Processes |-> p \notin S /\ tmp[p]]
    /\ purging' = [p \in Processes |-> IF p \in S THEN {} ELSE purging[p]]
    /\ collecting' = collecting \ S
    /\ sweep' = [p \in Processes |-> IF p \in S THEN {} ELSE sweep[p]]
    /\ victim' = [p \in Processes |-> IF p \in S THEN {} ELSE victim[p]]
    /\ UNCHANGED <<key, published, overlap>>

Close(p) ==
    /\ pc[p] = "idle"
    /\ Stop({p})
    /\ UNCHANGED disk

\* An I/O error in init: Open fails, and with it the run.
InitFails(p) ==
    /\ pc[p] \in {"purging", "stamping"}
    /\ Stop({p})
    /\ UNCHANGED disk

Crash(p) ==
    /\ pc[p] # "off"
    /\ Stop({p})
    /\ UNCHANGED disk

\* Names are journalled in order, the blocks behind them are not synced.
PowerLoss ==
    /\ Stop(Processes)
    /\ \E S \in SUBSET {k \in Keys : Present(k)} :
         entry' = [k \in Keys |-> IF k \in S THEN Torn ELSE entry[k]]
    /\ stamp' \in {stamp} \cup (IF stamp = NoVersion THEN {} ELSE {Torn})
    /\ UNCHANGED <<old, gcDue>>

DiskStep(p) ==
    \/ \E v \in Versions : ReadStamp(p, v)
    \/ RemoveStamp(p) \/ WriteStamp(p) \/ Opened(p)
    \/ Touch(p) \/ Use(p) \/ WriteTmp(p) \/ Link(p)
    \/ GCDone(p) \/ Close(p) \/ InitFails(p) \/ Crash(p)
    \/ \E k \in Keys : PurgeEntry(p, k) \/ Get(p, k) \/ GCStat(p, k) \/ GCRemove(p, k)

Next ==
    \/ \E p \in Processes : DiskStep(p)
    \/ \E k \in Keys : Age(k)
    \/ GCInterval \/ PowerLoss

Spec == Init /\ [][Next]_diskVars

----------------------------------------------------------------------------
Bodies == Versions \cup {Torn}

\* Types of the files and of the processes.
TypeOK ==
    /\ stamp \in Bodies \cup {NoVersion}
    /\ entry \in [Keys -> Bodies \cup {NoVersion}] /\ old \subseteq Keys
    /\ gcDue \in BOOLEAN /\ overlap \in BOOLEAN
    /\ pc \in [Processes -> {"off", "purging", "stamping", "opening", "idle", "touch",
                             "hit", "compute", "link"}]
    /\ version \in [Processes -> Versions \cup {NoVersion}]
    /\ key \in [Processes -> Keys]
    /\ buf \in [Processes -> Bodies \cup {NoVersion}]
    /\ tmp \in [Processes -> BOOLEAN]
    /\ purging \in [Processes -> SUBSET Keys]
    /\ collecting \subseteq Processes
    /\ sweep \in [Processes -> SUBSET Keys] /\ victim \in [Processes -> SUBSET Keys]
    /\ published \subseteq Keys \X Versions

\* "A present file is by construction valid for that id" (l2.go, HasL2), which is
\* why a store is skipped when the name exists, and why the decoders need not
\* look for a version: whatever crashes, the stamp names the encoding of every
\* entry, it is the encoding of the processes at work, and a lookup returns what
\* the own version wrote, as long as versions do not run side by side and nobody
\* purges under another process. A body lost to a power failure is the exception:
\* no step replaces it.
PresentValid ==
    ~overlap =>
        /\ \A k \in Keys : Present(k) /\ entry[k] # Torn =>
             /\ stamp \in {entry[k], Torn}
             /\ \A p \in Alive : pc[p] \notin {"purging", "stamping"} => entry[k] = version[p]
        /\ \A p \in Processes : pc[p] = "hit" => buf[p] = version[p]

\* What a lookup of the process has returned.
DiskAnswer(p) == IF pc[p] = "hit" THEN <<key[p], buf[p]>> ELSE NoVersion
============================================================================
