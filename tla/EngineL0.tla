------------------------------ MODULE EngineL0 ------------------------------
(***************************************************************************)
(* The incremental Run of internal/engine: processes that share one L0      *)
(* cache load the workspace, serve the packages whose key is in L0, analyze *)
(* the others with the facts L0 holds for their dependencies, and write     *)
(* what they found back.  Files are edited, and processes die, between any  *)
(* two steps.                                                               *)
(*                                                                          *)
(* A package is <<path, FALSE>>, or <<path, TRUE>> for its in-package test  *)
(* variant.  Hashes are modelled by the values they are taken of.  What the *)
(* analyzers derive from a package is kept symbolic: its facts are the      *)
(* sources they depend on, and its diagnostics are a record of everything   *)
(* they depend on, so that two of them are equal only when the inputs are.  *)
(* The analyzer set, the filter and the versions in the key are the same in *)
(* every run here.                                                          *)
(***************************************************************************)
EXTENDS Integers, FiniteSets

CONSTANTS
    Procs,          \* processes that may be running at the same time
    Paths,          \* package paths of the module
    Contents,       \* what the Go files of a path may hold
    FirstContents,  \* what they may hold before the first run
    Imports,        \* Imports[path][content]: the paths imported
    Broken,         \* pairs <<path, content>> that do not type-check
    TestPaths,      \* the paths that may have an in-package test file
    Excluded,       \* packages all of whose files are excluded
    OverrideModes,  \* values PLAID_L0_DEP_OVERRIDE # "0" takes
    MaxRuns,        \* bound on the number of runs
    MaxEdits        \* bound on the number of edits

Unread == "unread"

\* No path is reachable from itself, whatever the contents.
ASSUME WorkspaceAssumption ==
    /\ IsFiniteSet(Paths)
    /\ Imports \in [Paths -> [Contents -> SUBSET Paths]]
    /\ \A S \in SUBSET Paths : S # {} =>
         \E p \in S : \A c \in Contents : Imports[p][c] \cap S = {}
    /\ FirstContents \subseteq Contents
    /\ Unread \notin Contents
    /\ TestPaths \subseteq Paths
    /\ OverrideModes \subseteq BOOLEAN
    /\ MaxRuns \in Nat
    /\ MaxEdits \in Nat

IDs == (Paths \X {FALSE}) \cup (TestPaths \X {TRUE})

VARIABLES
    disk,       \* the content of each path's files
    hasTest,    \* the paths that have a test file
    l0,         \* the L0 entries, by key
    pc,
    overriding, \* depOverrideEnabled of the run
    meta,       \* the imports the loaded metadata records
    roots,      \* analysisRoots
    snap,       \* the file contents the run's snapshot has read
    todo,       \* packages the current loop of runInProcess has yet to visit
    misses,     \* pkgsToAnalyze
    overrides,  \* the summaries given to SetL0DepOverrides
    nodes,      \* what the onNodeAnalyzed callback captured
    report,     \* the diagnostics merged so far, by root
    runs, edits

workspace == <<disk, hasTest>>
runVars == <<pc, overriding, meta, roots, snap, todo, misses, overrides, nodes, report>>
vars == <<workspace, l0, runVars, runs, edits>>

-----------------------------------------------------------------------------
(* Metadata and keys *)

Deps(m, id) == {<<q, FALSE>> : q \in m[id[1]]}

\* collectClosure, without the package itself: the least set that holds the
\* imports of the packages in S and of its own members.
Closure(m, S) ==
    LET Closed(T) == \A id \in S \cup T : Deps(m, id) \subseteq T
    IN {id \in IDs : \A T \in SUBSET IDs : Closed(T) => id \in T}

\* dropTestSupersededPackages: the test variant stands in for the package.
Superseding == {<<p, FALSE>> : p \in Paths \ hasTest} \cup {<<p, TRUE>> : p \in hasTest}

\* pruneExcludedRoots.
AnalysisRoots == Superseding \ Excluded

SourceOf(sn, id) == <<sn[id[1]], id[2]>>

KeyWithoutDeps(m, sn, id) ==
    [id |-> id, source |-> SourceOf(sn, id), deps |-> [d \in {} |-> <<>>]]

\* keyFor, over the files the snapshot has read.
KeyFor(m, sn, id) ==
    [id |-> id,
     source |-> SourceOf(sn, id),
     deps |-> [d \in Closure(m, {id}) |-> SourceOf(sn, d)]]

\* Put: the first writer of a key wins.
Put(key, entry) ==
    [k \in DOMAIN l0 \cup {key} |-> IF k \in DOMAIN l0 THEN l0[k] ELSE entry]

-----------------------------------------------------------------------------
(* Analysis *)

\* A package compiles when its files do, its imports are in the metadata and
\* its dependencies compile.
OwnCompiles(m, sn, id) ==
    /\ <<id[1], sn[id[1]]>> \notin Broken
    /\ Imports[id[1]][sn[id[1]]] \subseteq m[id[1]]

\* Snapshot.Analyze: the summary of every package, where ov holds the
\* summaries taken as given.
Summaries(m, sn, ov) ==
    LET S[id \in IDs] ==
          IF id \in DOMAIN ov THEN ov[id]
          ELSE [facts |-> {<<id, SourceOf(sn, id)>>}
                            \cup UNION {S[d].facts : d \in Deps(m, id)},
                compiles |-> /\ OwnCompiles(m, sn, id)
                             /\ \A d \in Deps(m, id) : S[d].compiles]
    IN S

\* What the analyzers report for a root, as one finding.
Diagnostics(m, sn, sums, id) ==
    {[source |-> SourceOf(sn, id),
      deps |-> UNION {sums[d].facts : d \in Deps(m, id)},
      compiles |-> sums[id].compiles]}

NoOverrides == [id \in {} |-> {}]

-----------------------------------------------------------------------------
(* Run *)

Init ==
    /\ disk \in [Paths -> FirstContents]
    /\ hasTest \in SUBSET TestPaths
    /\ l0 = [k \in {} |-> {}]
    /\ pc = [r \in Procs |-> "idle"]
    /\ overriding = [r \in Procs |-> TRUE]
    /\ meta = [r \in Procs |-> [p \in Paths |-> {}]]
    /\ roots = [r \in Procs |-> {}]
    /\ snap = [r \in Procs |-> [p \in Paths |-> Unread]]
    /\ todo = [r \in Procs |-> {}]
    /\ misses = [r \in Procs |-> {}]
    /\ overrides = [r \in Procs |-> NoOverrides]
    /\ nodes = [r \in Procs |-> NoOverrides]
    /\ report = [r \in Procs |-> NoOverrides]
    /\ runs = 0
    /\ edits = 0

\* The go command lists the packages, and the roots are chosen.
Start(r) ==
    /\ pc[r] = "idle"
    /\ runs < MaxRuns
    /\ runs' = runs + 1
    /\ \E on \in OverrideModes : overriding' = [overriding EXCEPT ![r] = on]
    /\ meta' = [meta EXCEPT ![r] = [p \in Paths |-> Imports[p][disk[p]]]]
    /\ roots' = [roots EXCEPT ![r] = AnalysisRoots]
    /\ todo' = [todo EXCEPT ![r] = AnalysisRoots]
    /\ pc' = [pc EXCEPT ![r] = "load"]
    /\ UNCHANGED <<workspace, l0, snap, misses, overrides, nodes, report, edits>>

\* preloadFiles: one goroutine per file. The snapshot keeps what it has read.
Preload(r, p) ==
    /\ pc[r] = "load"
    /\ snap[r][p] = Unread
    /\ snap' = [snap EXCEPT ![r][p] = disk[p]]
    /\ pc' = [pc EXCEPT ![r] = IF \A q \in Paths : snap'[r][q] # Unread THEN "split" ELSE @]
    /\ UNCHANGED <<workspace, l0, overriding, meta, roots, todo, misses, overrides, nodes,
                   report, runs, edits>>

\* One round of splitByL0: a hit is reported as it is, a miss is analyzed.
LookUp(r, id) ==
    LET key == KeyFor(meta[r], snap[r], id)
    IN /\ pc[r] = "split"
       /\ id \in todo[r]
       /\ todo' = [todo EXCEPT ![r] = @ \ {id}]
       /\ \/ /\ key \in DOMAIN l0
             /\ report' = [report EXCEPT ![r] =
                  [x \in DOMAIN @ \cup {id} |->
                     IF x = id THEN l0[key].diags ELSE @[x]]]
             /\ UNCHANGED misses
          \/ /\ key \notin DOMAIN l0
             /\ misses' = [misses EXCEPT ![r] = @ \cup {id}]
             /\ UNCHANGED report
       /\ UNCHANGED <<workspace, l0, pc, overriding, meta, roots, snap, overrides, nodes,
                      runs, edits>>

DepClosureWithRoots(r) == Closure(meta[r], misses[r])

\* The dependencies of the misses that are not themselves analyzed as roots.
DepClosure(r) == Closure(meta[r], misses[r]) \ misses[r]

\* The dependencies whose facts the run takes from, and leaves in, L0.
DepsInL0(r) == IF overriding[r] THEN DepClosure(r) ELSE {}

\* Everything hit: nothing to analyze or to write.
AllHit(r) ==
    /\ pc[r] = "split"
    /\ todo[r] = {}
    /\ misses[r] = {}
    /\ pc' = [pc EXCEPT ![r] = "write"]
    /\ UNCHANGED <<workspace, l0, overriding, meta, roots, snap, todo, misses,
                   overrides, nodes, report, runs, edits>>

BeginOverrides(r) ==
    /\ pc[r] = "split"
    /\ todo[r] = {}
    /\ misses[r] # {}
    /\ todo' = [todo EXCEPT ![r] = DepsInL0(r)]
    /\ pc' = [pc EXCEPT ![r] = "install"]
    /\ UNCHANGED <<workspace, l0, overriding, meta, roots, snap, misses, overrides,
                   nodes, report, runs, edits>>

\* One round of installDepOverrides.
LookUpDep(r, id) ==
    LET key == KeyFor(meta[r], snap[r], id)
    IN /\ pc[r] = "install"
       /\ id \in todo[r]
       /\ todo' = [todo EXCEPT ![r] = @ \ {id}]
       /\ overrides' =
            IF key \in DOMAIN l0
            THEN [overrides EXCEPT ![r] =
                    [x \in DOMAIN @ \cup {id} |->
                       IF x = id THEN [facts |-> l0[key].facts,
                                       compiles |-> l0[key].compiles]
                       ELSE @[x]]]
            ELSE overrides
       /\ UNCHANGED <<workspace, l0, pc, overriding, meta, roots, snap, misses, nodes,
                      report, runs, edits>>

\* invokeAnalyze, the callback and partitionAndFilter.
Analyze(r) ==
    LET sums == Summaries(meta[r], snap[r], overrides[r])
    IN /\ pc[r] = "install"
       /\ todo[r] = {}
       /\ nodes' = [nodes EXCEPT ![r] =
            [id \in misses[r] \cup DepsInL0(r) |-> sums[id]]]
       /\ report' = [report EXCEPT ![r] =
            [id \in DOMAIN @ \cup misses[r] |->
               IF id \in misses[r] THEN Diagnostics(meta[r], snap[r], sums, id)
               ELSE @[id]]]
       /\ todo' = [todo EXCEPT ![r] = misses[r] \cup DepsInL0(r)]
       /\ pc' = [pc EXCEPT ![r] = "write"]
       /\ UNCHANGED <<workspace, l0, overriding, meta, roots, snap, misses, overrides,
                      runs, edits>>

\* The process goes away: Analyze failed, it was killed, or it has printed
\* its report.
Exit(r) ==
    /\ pc[r] # "idle"
    /\ pc' = [pc EXCEPT ![r] = "idle"]
    /\ overriding' = [overriding EXCEPT ![r] = TRUE]
    /\ meta' = [meta EXCEPT ![r] = [p \in Paths |-> {}]]
    /\ roots' = [roots EXCEPT ![r] = {}]
    /\ snap' = [snap EXCEPT ![r] = [p \in Paths |-> Unread]]
    /\ todo' = [todo EXCEPT ![r] = {}]
    /\ misses' = [misses EXCEPT ![r] = {}]
    /\ overrides' = [overrides EXCEPT ![r] = NoOverrides]
    /\ nodes' = [nodes EXCEPT ![r] = NoOverrides]
    /\ report' = [report EXCEPT ![r] = NoOverrides]
    /\ UNCHANGED <<workspace, l0, runs, edits>>

CapturedNever(r, id) == [facts |-> {}, compiles |-> FALSE]

\* The fields of an entry that come from the captured node.
Captured(r, id) ==
    IF overriding[r] THEN nodes[r][id] ELSE [facts |-> {}, compiles |-> FALSE]

\* One round of writeL0Entries.  An error of Put is ignored.
WriteRoot(r, id) ==
    /\ pc[r] = "write"
    /\ id \in todo[r] \cap misses[r]
    /\ todo' = [todo EXCEPT ![r] = @ \ {id}]
    /\ l0' \in {l0, Put(KeyFor(meta[r], snap[r], id),
                        [diags |-> report[r][id],
                         facts |-> Captured(r, id).facts,
                         compiles |-> Captured(r, id).compiles])}
    /\ UNCHANGED <<workspace, pc, overriding, meta, roots, snap, misses, overrides,
                   nodes, report, runs, edits>>

\* One round of writeDepL0Entries, after the roots: facts, and no
\* diagnostics.
WriteDep(r, id) ==
    /\ pc[r] = "write"
    /\ todo[r] \cap misses[r] = {}
    /\ id \in todo[r]
    /\ todo' = [todo EXCEPT ![r] = @ \ {id}]
    /\ l0' \in {l0, Put(KeyFor(meta[r], snap[r], id),
                        [diags |-> {},
                         facts |-> nodes[r][id].facts,
                         compiles |-> nodes[r][id].compiles])}
    /\ UNCHANGED <<workspace, pc, overriding, meta, roots, snap, misses, overrides,
                   nodes, report, runs, edits>>

\* runInProcess has returned.
Done(r) == pc[r] = "write" /\ todo[r] = {}

\* Editors: a file's content changes, a test file is added or removed.  A run
\* keeps the variants it loaded, and test files do not change otherwise.
Edit(p, c) ==
    /\ edits < MaxEdits
    /\ c # disk[p]
    /\ disk' = [disk EXCEPT ![p] = c]
    /\ edits' = edits + 1
    /\ UNCHANGED <<hasTest, l0, runVars, runs>>

ToggleTest(p) ==
    /\ edits < MaxEdits
    /\ hasTest' = (hasTest \ {p}) \cup ({p} \ hasTest)
    /\ edits' = edits + 1
    /\ UNCHANGED <<disk, l0, runVars, runs>>

RunStep(r) ==
    \/ Start(r)
    \/ \E p \in Paths : Preload(r, p)
    \/ \E id \in todo[r] : LookUp(r, id)
    \/ AllHit(r)
    \/ BeginOverrides(r)
    \/ \E id \in todo[r] : LookUpDep(r, id)
    \/ Analyze(r)
    \/ \E id \in todo[r] : WriteRoot(r, id)
    \/ \E id \in todo[r] : WriteDep(r, id)
    \/ Exit(r)

Next ==
    \/ \E r \in Procs : RunStep(r)
    \/ \E p \in Paths, c \in Contents : Edit(p, c)
    \/ \E p \in TestPaths : ToggleTest(p)

Spec == Init /\ [][Next]_vars

-----------------------------------------------------------------------------
(* Properties *)

\* What the run's own snapshot gives without any cache.
Cold(r) == Summaries(meta[r], snap[r], NoOverrides)

\* The loops of runInProcess stay inside their sets: a package is a hit or a
\* miss, never both, only misses are analyzed as roots, and no override is
\* installed for a package that is analyzed.
TypeOK ==
    /\ disk \in [Paths -> Contents]
    /\ hasTest \subseteq TestPaths
    /\ \A r \in Procs :
         /\ pc[r] \in {"idle", "load", "split", "install", "write"}
         /\ misses[r] \subseteq roots[r]
         /\ pc[r] \in {"split", "install"} => misses[r] \cap DOMAIN report[r] = {}
         /\ DOMAIN overrides[r] \subseteq IDs \ misses[r]
         /\ Done(r) => DOMAIN report[r] = roots[r]

\* installDepOverrides: the override "is a strict accelerator and never
\* suppresses correct work".  A summary given to the analysis in place of a
\* dependency's own is the one its analysis would have produced.
OverridesSound ==
    \A r \in Procs : \A id \in DOMAIN overrides[r] : overrides[r][id] = Cold(r)[id]

\* An L0 entry "carries the diagnostic stream the engine would otherwise
\* produce for the package" (l0.Entry): a run that ends reports, for every
\* root, what an analysis of its snapshot without the cache reports.
WarmEqualsCold ==
    \A r \in Procs : Done(r) =>
        \A id \in roots[r] :
            report[r][id] = Diagnostics(meta[r], snap[r], Cold(r), id)
=============================================================================
