--------------------------- MODULE EngineL0Proofs ---------------------------
(***************************************************************************)
(* That a warm run reports what a cold one would, for every workspace,      *)
(* number of processes and order of edits. First the loops of a run, then   *)
(* the closed form of a summary, then that a key decides what is stored     *)
(* under it.                                                                *)
(***************************************************************************)
EXTENDS EngineL0, TLAPS

-----------------------------------------------------------------------------
(* The loops of a run *)

\* Every per-run variable is a function on the processes.
Maps ==
    /\ DOMAIN pc = Procs
    /\ DOMAIN overriding = Procs
    /\ DOMAIN meta = Procs
    /\ DOMAIN roots = Procs
    /\ DOMAIN snap = Procs
    /\ DOMAIN todo = Procs
    /\ DOMAIN misses = Procs
    /\ DOMAIN overrides = Procs
    /\ DOMAIN nodes = Procs
    /\ DOMAIN report = Procs

Loaded(r) == pc[r] \in {"split", "install", "write"}

\* Where a run's sets stand, phase by phase: a root is still to be looked up,
\* a miss or reported; overrides are only for dependencies.
LoopInv(r) ==
    /\ pc[r] \in {"idle", "load", "split", "install", "write"}
    /\ snap[r] \in [Paths -> Contents \cup {Unread}]
    /\ Loaded(r) => snap[r] \in [Paths -> Contents]
    /\ roots[r] \subseteq IDs
    /\ todo[r] \subseteq IDs
    /\ misses[r] \subseteq roots[r]
    /\ pc[r] = "idle" => /\ roots[r] = {} /\ todo[r] = {} /\ misses[r] = {}
                         /\ DOMAIN report[r] = {} /\ DOMAIN overrides[r] = {}
                         /\ snap[r] = [p \in Paths |-> Unread]
    /\ pc[r] = "load" => /\ todo[r] = roots[r] /\ misses[r] = {}
                         /\ DOMAIN report[r] = {} /\ DOMAIN overrides[r] = {}
    /\ pc[r] = "split" => /\ roots[r] = todo[r] \cup misses[r] \cup DOMAIN report[r]
                          /\ todo[r] \cap misses[r] = {}
                          /\ todo[r] \cap DOMAIN report[r] = {}
                          /\ misses[r] \cap DOMAIN report[r] = {}
                          /\ DOMAIN overrides[r] = {}
    /\ pc[r] = "install" => /\ roots[r] = misses[r] \cup DOMAIN report[r]
                            /\ misses[r] \cap DOMAIN report[r] = {}
                            /\ todo[r] \subseteq DepsInL0(r)
                            /\ DOMAIN overrides[r] \subseteq DepsInL0(r)
    /\ pc[r] = "write" => /\ roots[r] = DOMAIN report[r]
                          /\ todo[r] \subseteq misses[r] \cup DepsInL0(r)
                          /\ DOMAIN overrides[r] \subseteq DepsInL0(r)

Workspace ==
    /\ disk \in [Paths -> Contents]
    /\ hasTest \subseteq TestPaths

Loops ==
    /\ Workspace
    /\ Maps
    /\ \A r \in Procs : LoopInv(r)

\* A step leaves the run of s alone.
Same(s) ==
    /\ pc'[s] = pc[s]
    /\ overriding'[s] = overriding[s]
    /\ meta'[s] = meta[s]
    /\ roots'[s] = roots[s]
    /\ snap'[s] = snap[s]
    /\ todo'[s] = todo[s]
    /\ misses'[s] = misses[s]
    /\ overrides'[s] = overrides[s]
    /\ nodes'[s] = nodes[s]
    /\ report'[s] = report[s]

\* A process works on its own run only.
LEMMA OthersSame ==
    ASSUME Maps, NEW r \in Procs, RunStep(r)
    PROVE  /\ Maps'
           /\ \A s \in Procs : s # r => Same(s)
  <1> USE DEF Maps, Same
  <1>1. CASE Start(r)
    BY Zenon, <1>1 DEF Start
  <1>2. ASSUME NEW p \in Paths, Preload(r, p) PROVE Maps' /\ \A s \in Procs : s # r => Same(s)
    BY Zenon, <1>2 DEF Preload
  <1>3. ASSUME NEW id \in todo[r], LookUp(r, id) PROVE Maps' /\ \A s \in Procs : s # r => Same(s)
    BY Zenon, <1>3 DEF LookUp
  <1>4. CASE AllHit(r)
    BY Zenon, <1>4 DEF AllHit
  <1>5. CASE BeginOverrides(r)
    BY Zenon, <1>5 DEF BeginOverrides
  <1>6. ASSUME NEW id \in todo[r], LookUpDep(r, id) PROVE Maps' /\ \A s \in Procs : s # r => Same(s)
    BY Zenon, <1>6 DEF LookUpDep
  <1>7. CASE Analyze(r)
    BY Zenon, <1>7 DEF Analyze
  <1>8. ASSUME NEW id \in todo[r], WriteRoot(r, id) PROVE Maps' /\ \A s \in Procs : s # r => Same(s)
    BY Zenon, <1>8 DEF WriteRoot
  <1>9. ASSUME NEW id \in todo[r], WriteDep(r, id) PROVE Maps' /\ \A s \in Procs : s # r => Same(s)
    BY Zenon, <1>9 DEF WriteDep
  <1>10. CASE Exit(r)
    BY Zenon, <1>10 DEF Exit
  <1>q. QED BY Zenon, <1>1, <1>2, <1>3, <1>4, <1>5, <1>6, <1>7, <1>8, <1>9, <1>10 DEF RunStep

\* A run that is left alone stays where it is.
LEMMA SameLoop ==
    ASSUME NEW s \in Procs, LoopInv(s), Same(s)
    PROVE  LoopInv(s)'
  <1>1. DepsInL0(s)' = DepsInL0(s)
    BY Zenon DEF Same, DepsInL0, DepClosure, Closure, Deps
  <1>q. QED BY Zenon, <1>1 DEF Same, LoopInv, Loaded

\* Package IDs: one for every path, and one for the test variants.
LEMMA IDsAre ==
    /\ \A p \in Paths : <<p, FALSE>> \in IDs
    /\ \A p \in TestPaths : <<p, TRUE>> \in IDs
    /\ \A id \in IDs : id[1] \in Paths
  BY Zenon, WorkspaceAssumption DEF IDs

\* Every action keeps the loops of its own run.
LEMMA OwnLoop ==
    ASSUME Loops, NEW r \in Procs, RunStep(r)
    PROVE  LoopInv(r)'
  <1> USE DEF Maps
  <1>a. Workspace /\ Maps /\ LoopInv(r)
    BY Zenon DEF Loops
  <1>b. /\ AnalysisRoots \subseteq IDs
        /\ \A x \in DepsInL0(r) : x \in IDs
    <2>1. hasTest \subseteq TestPaths
      BY Zenon, <1>a DEF Workspace
    <2>2. AnalysisRoots \subseteq IDs
      <3>1. ASSUME NEW x \in Superseding PROVE x \in IDs
        <4>1. CASE \E p \in Paths \ hasTest : x = <<p, FALSE>>
          BY Zenon, <4>1, IDsAre
        <4>2. CASE \E p \in hasTest : x = <<p, TRUE>>
          BY Zenon, <4>2, <2>1, IDsAre
        <4>q. QED BY Zenon, <4>1, <4>2 DEF Superseding
      <3>q. QED BY Zenon, <3>1 DEF AnalysisRoots
    <2>3. \A x \in DepsInL0(r) : x \in IDs
      BY Zenon DEF DepsInL0, DepClosure, Closure
    <2>q. QED BY Zenon, <2>2, <2>3
  <1>c. ASSUME misses'[r] = misses[r], meta'[r] = meta[r], overriding'[r] = overriding[r]
        PROVE  DepsInL0(r)' = DepsInL0(r)
    BY Zenon, <1>c DEF DepsInL0, DepClosure, Closure, Deps
  <1>1. CASE Start(r)
    BY Zenon, <1>1, <1>a, <1>b DEF Start, LoopInv, Loaded
  <1>2. ASSUME NEW p \in Paths, Preload(r, p) PROVE LoopInv(r)'
    <2>1. /\ misses'[r] = misses[r] /\ roots'[r] = roots[r] /\ todo'[r] = todo[r]
          /\ report'[r] = report[r] /\ overrides'[r] = overrides[r]
          /\ pc[r] = "load" /\ pc'[r] \in {"load", "split"}
          /\ pc'[r] = "split" => \A q \in Paths : snap'[r][q] # Unread
          /\ snap'[r] = [snap[r] EXCEPT ![p] = disk[p]]
      BY Zenon, <1>2, <1>a DEF Preload
    <2>2. snap'[r] \in [Paths -> Contents \cup {Unread}]
      BY Zenon, <2>1, <1>a DEF LoopInv, Workspace
    <2>q. QED BY Zenon, <2>1, <2>2, <1>a DEF LoopInv, Loaded
  <1>3. ASSUME NEW id \in todo[r], LookUp(r, id) PROVE LoopInv(r)'
    <2>1. /\ pc[r] = "split" /\ pc'[r] = "split"
          /\ roots'[r] = roots[r] /\ snap'[r] = snap[r] /\ overrides'[r] = overrides[r]
          /\ todo'[r] = todo[r] \ {id}
          /\ \/ misses'[r] = misses[r] /\ DOMAIN report'[r] = DOMAIN report[r] \cup {id}
             \/ misses'[r] = misses[r] \cup {id} /\ report'[r] = report[r]
      BY <1>3, <1>a DEF LookUp
    <2>q. QED BY <2>1, <1>a DEF LoopInv, Loaded
  <1>4. CASE AllHit(r)
    BY Zenon, <1>4, <1>a DEF AllHit, LoopInv, Loaded
  <1>5. CASE BeginOverrides(r)
    <2>1. DepsInL0(r)' = DepsInL0(r)
      BY Zenon, <1>5, <1>c DEF BeginOverrides
    <2>q. QED BY Zenon, <1>5, <2>1, <1>a, <1>b DEF BeginOverrides, LoopInv, Loaded
  <1>6. ASSUME NEW id \in todo[r], LookUpDep(r, id) PROVE LoopInv(r)'
    <2>1. DepsInL0(r)' = DepsInL0(r)
      BY Zenon, <1>6, <1>c DEF LookUpDep
    <2>2. /\ pc[r] = "install" /\ pc'[r] = "install"
          /\ roots'[r] = roots[r] /\ snap'[r] = snap[r] /\ misses'[r] = misses[r]
          /\ report'[r] = report[r]
          /\ todo'[r] = todo[r] \ {id}
          /\ DOMAIN overrides'[r] \subseteq DOMAIN overrides[r] \cup {id}
      BY Zenon, <1>6, <1>a DEF LookUpDep
    <2>q. QED BY <2>1, <2>2, <1>a DEF LoopInv, Loaded
  <1>7. CASE Analyze(r)
    <2>1. DepsInL0(r)' = DepsInL0(r)
      BY Zenon, <1>7, <1>c DEF Analyze
    <2>2. /\ pc[r] = "install" /\ pc'[r] = "write"
          /\ roots'[r] = roots[r] /\ snap'[r] = snap[r] /\ misses'[r] = misses[r]
          /\ overrides'[r] = overrides[r]
          /\ todo'[r] = misses[r] \cup DepsInL0(r)
          /\ DOMAIN report'[r] = DOMAIN report[r] \cup misses[r]
      BY Zenon, <1>7, <1>a DEF Analyze
    <2>q. QED BY <2>1, <2>2, <1>a, <1>b DEF LoopInv, Loaded
  <1>8. ASSUME NEW id \in todo[r], WriteRoot(r, id) \/ WriteDep(r, id) PROVE LoopInv(r)'
    <2>1. DepsInL0(r)' = DepsInL0(r)
      BY Zenon, <1>8, <1>c DEF WriteRoot, WriteDep
    <2>q. QED BY <1>8, <2>1, <1>a DEF WriteRoot, WriteDep, LoopInv, Loaded
  <1>9. CASE Exit(r)
    BY Zenon, <1>9, <1>a DEF Exit, LoopInv, Loaded, NoOverrides
  <1>q. QED BY Zenon, <1>1, <1>2, <1>3, <1>4, <1>5, <1>6, <1>7, <1>8, <1>9 DEF RunStep

\* A process that has not started has nothing to loop over.
LEMMA LoopsInit == Init => Loops
  BY WorkspaceAssumption DEF Init, Loops, Workspace, Maps, LoopInv, Loaded, NoOverrides

\* Every step of a run, an edit or a test file keeps the loops of all runs.
LEMMA LoopsStep == Loops /\ [Next]_vars => Loops'
  <1> SUFFICES ASSUME Loops, [Next]_vars PROVE Loops'
    BY Zenon
  <1>1. ASSUME NEW r \in Procs, RunStep(r) PROVE Loops'
    <2>1. Workspace'
      BY Zenon, <1>1 DEF RunStep, Start, Preload, LookUp, AllHit, BeginOverrides, LookUpDep,
                  Analyze, WriteRoot, WriteDep, Exit, workspace, Loops, Workspace
    <2>2. Maps' /\ \A s \in Procs : s # r => Same(s)
      BY Zenon, <1>1, OthersSame DEF Loops
    <2>3. \A s \in Procs : LoopInv(s)'
      BY Zenon, <1>1, <2>2, OwnLoop, SameLoop DEF Loops
    <2>q. QED BY Zenon, <2>1, <2>2, <2>3 DEF Loops
  <1>2. ASSUME UNCHANGED runVars, Workspace' PROVE Loops'
    <2>1. Maps' /\ \A s \in Procs : Same(s)
      BY Zenon, <1>2 DEF runVars, Same, Maps, Loops
    <2>q. QED BY Zenon, <1>2, <2>1, SameLoop DEF Loops
  <1>3. ASSUME NEW p \in Paths, NEW c \in Contents, Edit(p, c) PROVE Loops'
    <2>1. Workspace'
      BY Zenon, <1>3 DEF Edit, Loops, Workspace
    <2>q. QED BY Zenon, <2>1, <1>2, <1>3 DEF Edit
  <1>4. ASSUME NEW p \in TestPaths, ToggleTest(p) PROVE Loops'
    <2>1. Workspace'
      BY Zenon, <1>4 DEF ToggleTest, Loops, Workspace
    <2>q. QED BY Zenon, <2>1, <1>2, <1>4 DEF ToggleTest
  <1>5. CASE UNCHANGED vars
    BY Zenon, <1>5, <1>2 DEF vars, workspace, Loops, Workspace
  <1>q. QED BY Zenon, <1>1, <1>3, <1>4, <1>5 DEF Next

\* TypeOK is the part of the loop invariant that outlives a phase.
LEMMA LoopsTypes == Loops => TypeOK
  <1> SUFFICES ASSUME Loops PROVE TypeOK
    BY Zenon
  <1>1. ASSUME NEW r \in Procs
        PROVE  /\ pc[r] \in {"idle", "load", "split", "install", "write"}
               /\ misses[r] \subseteq roots[r]
               /\ pc[r] \in {"split", "install"} => misses[r] \cap DOMAIN report[r] = {}
               /\ DOMAIN overrides[r] \subseteq IDs \ misses[r]
               /\ Done(r) => DOMAIN report[r] = roots[r]
    <2>1. LoopInv(r)
      BY Zenon DEF Loops
    <2>2. DepsInL0(r) \subseteq IDs \ misses[r]
      BY Zenon DEF DepsInL0, DepClosure, Closure
    <2>q. QED BY Zenon, <2>1, <2>2 DEF LoopInv, Done
  <1>q. QED BY Zenon, <1>1 DEF TypeOK, Loops, Workspace

\* Whatever the workspace, the edits and the crashes: the loops of
\* runInProcess stay inside their sets, and no override stands in for a
\* package that is analyzed as a root.
THEOREM EngineTypes == Spec => []TypeOK
  BY LoopsInit, LoopsStep, LoopsTypes, PTL DEF Spec

-----------------------------------------------------------------------------
(* The dependency closure *)

Closed(m, S, T) == \A id \in S \cup T : Deps(m, id) \subseteq T

\* Imports are plain packages, never test variants (collectClosure).
LEMMA DepsAreIDs ==
    ASSUME NEW m \in [Paths -> SUBSET Paths], NEW id \in IDs
    PROVE  /\ Deps(m, id) \subseteq IDs
           /\ \A d \in Deps(m, id) : d[2] = FALSE /\ d[1] \in m[id[1]]
  <1>1. id[1] \in Paths
    BY Zenon, IDsAre
  <1>2. m[id[1]] \subseteq Paths
    BY Zenon, <1>1
  <1>3. ASSUME NEW d \in Deps(m, id)
        PROVE  d \in IDs /\ d[2] = FALSE /\ d[1] \in m[id[1]]
    <2>1. PICK q \in m[id[1]] : d = <<q, FALSE>>
      BY Zenon DEF Deps
    <2>q. QED BY Zenon, <2>1, <1>2, IDsAre
  <1>q. QED BY Zenon, <1>3

\* The closure is closed, and it is the least closed set.
LEMMA ClosureIsClosed ==
    ASSUME NEW m \in [Paths -> SUBSET Paths], NEW S \in SUBSET IDs
    PROVE  /\ Closure(m, S) \subseteq IDs
           /\ Closed(m, S, Closure(m, S))
           /\ \A T \in SUBSET IDs : Closed(m, S, T) => Closure(m, S) \subseteq T
  <1>1. Closure(m, S) = {id \in IDs : \A T \in SUBSET IDs : Closed(m, S, T) => id \in T}
    BY Zenon DEF Closure, Closed
  <1>2. Closure(m, S) \subseteq IDs
    BY Zenon, <1>1
  <1>3. ASSUME NEW T \in SUBSET IDs, Closed(m, S, T) PROVE Closure(m, S) \subseteq T
    BY Zenon, <1>1, <1>3
  <1>4. ASSUME NEW id \in S \cup Closure(m, S), NEW x \in Deps(m, id)
        PROVE  x \in Closure(m, S)
    <2>1. x \in IDs
      BY Zenon, <1>2, DepsAreIDs
    <2>2. ASSUME NEW T \in SUBSET IDs, Closed(m, S, T) PROVE x \in T
      <3>1. id \in S \cup T
        BY Zenon, <1>3, <2>2
      <3>q. QED BY Zenon, <3>1, <2>2 DEF Closed
    <2>q. QED BY Zenon, <1>1, <2>1, <2>2
  <1>q. QED BY Zenon, <1>2, <1>3, <1>4 DEF Closed

\* What a package depends on: its imports and what they depend on.
LEMMA ClosureUnfolds ==
    ASSUME NEW m \in [Paths -> SUBSET Paths], NEW id \in IDs
    PROVE  Closure(m, {id}) = UNION {{d} \cup Closure(m, {d}) : d \in Deps(m, id)}
  <1> DEFINE U == UNION {{d} \cup Closure(m, {d}) : d \in Deps(m, id)}
             C == Closure(m, {id})
  <1>0. Deps(m, id) \subseteq IDs
    BY Zenon, DepsAreIDs
  <1>1. C \subseteq IDs /\ Closed(m, {id}, C)
        /\ \A T \in SUBSET IDs : Closed(m, {id}, T) => C \subseteq T
    BY Zenon, ClosureIsClosed
  <1>2. \A d \in IDs : /\ Closure(m, {d}) \subseteq IDs
                       /\ Closed(m, {d}, Closure(m, {d}))
                       /\ \A T \in SUBSET IDs : Closed(m, {d}, T) => Closure(m, {d}) \subseteq T
    BY Zenon, ClosureIsClosed
  <1> HIDE DEF C
  <1>4. \A x : x \in U <=> \E d \in Deps(m, id) : x \in {d} \cup Closure(m, {d})
    BY Zenon
  <1> HIDE DEF U
  <1>3. U \subseteq IDs
    BY Zenon, <1>0, <1>2, <1>4
  <1>5. ASSUME NEW x \in {id} \cup U PROVE Deps(m, x) \subseteq U
    <2>1. CASE x = id
      BY Zenon, <2>1, <1>4
    <2>2. CASE x \in U
      <3>1. PICK d \in Deps(m, id) : x \in {d} \cup Closure(m, {d})
        BY Zenon, <2>2, <1>4
      <3>2. Deps(m, x) \subseteq Closure(m, {d})
        BY Zenon, <3>1, <1>0, <1>2 DEF Closed
      <3>q. QED BY Zenon, <3>2, <1>4
    <2>q. QED BY Zenon, <2>1, <2>2
  <1>6. C \subseteq U
    BY Zenon, <1>5, <1>1, <1>3 DEF Closed
  <1>7. ASSUME NEW d \in Deps(m, id) PROVE {d} \cup Closure(m, {d}) \subseteq C
    <2>1. d \in C
      BY Zenon, <1>1 DEF Closed
    <2>2. Closed(m, {d}, C)
      BY Zenon, <2>1, <1>1 DEF Closed
    <2>q. QED BY Zenon, <2>1, <2>2, <1>0, <1>1, <1>2
  <1>8. U \subseteq C
    BY Zenon, <1>4, <1>7
  <1>q. QED BY Zenon, <1>6, <1>8 DEF C, U

\* A member of a closure is imported by some package.
LEMMA ClosureImported ==
    ASSUME NEW m \in [Paths -> SUBSET Paths], NEW S \in SUBSET IDs,
           NEW x \in Closure(m, S)
    PROVE  \E p \in Paths : \E q \in m[p] : x = <<q, FALSE>>
  <1> DEFINE T == {y \in IDs : \E p \in Paths : \E q \in m[p] : y = <<q, FALSE>>}
  <1>1. \A id \in IDs : id[1] \in Paths
    BY Zenon, IDsAre
  <1>2. Closed(m, S, T)
    <2>1. ASSUME NEW id \in IDs, NEW y \in Deps(m, id) PROVE y \in T
      BY Zenon, <1>1, DepsAreIDs DEF Deps
    <2>q. QED BY Zenon, <2>1 DEF Closed
  <1>3. x \in T
    BY Zenon, <1>2, ClosureIsClosed
  <1>q. QED BY Zenon, <1>3

-----------------------------------------------------------------------------
(* Summaries *)

Reach(m, id) == {id} \cup Closure(m, {id})

FullFacts(m, sn, id) == {<<d, SourceOf(sn, d)>> : d \in Reach(m, id)}

FullCompiles(m, sn, id) == \A d \in Reach(m, id) : OwnCompiles(m, sn, d)

\* The summary of a package, without recursion and without a cache.
Full(m, sn, id) == [facts |-> FullFacts(m, sn, id), compiles |-> FullCompiles(m, sn, id)]

\* Metadata the go command may have listed.
IsListing(m) ==
    /\ m \in [Paths -> SUBSET Paths]
    /\ \A p \in Paths : \E c \in Contents : m[p] = Imports[p][c]

\* One round of the recursion of Summaries.
Round(m, sn, ov, S, id) ==
    IF id \in DOMAIN ov THEN ov[id]
    ELSE [facts |-> {<<id, SourceOf(sn, id)>>} \cup UNION {S[d].facts : d \in Deps(m, id)},
          compiles |-> /\ OwnCompiles(m, sn, id)
                       /\ \A d \in Deps(m, id) : S[d].compiles]

\* Summaries is a function that its own round reproduces.
LEMMA SummariesChosen ==
    ASSUME NEW m, NEW sn, NEW ov
    PROVE  Summaries(m, sn, ov) = CHOOSE S : S = [id \in IDs |-> Round(m, sn, ov, S, id)]
  BY Zenon DEF Summaries, Round

\* The fields of the summary in closed form.
LEMMA FullFields ==
    ASSUME NEW m, NEW sn, NEW id
    PROVE  /\ Full(m, sn, id).facts = FullFacts(m, sn, id)
           /\ Full(m, sn, id).compiles = FullCompiles(m, sn, id)
  BY Zenon DEF Full

\* The closed form satisfies the recursion that runCached follows: a package's
\* own part and that of its direct imports.
LEMMA FullUnfolds ==
    ASSUME NEW m \in [Paths -> SUBSET Paths], NEW sn, NEW id \in IDs
    PROVE  /\ FullFacts(m, sn, id) = {<<id, SourceOf(sn, id)>>}
                                       \cup UNION {FullFacts(m, sn, d) : d \in Deps(m, id)}
           /\ FullCompiles(m, sn, id) <=> /\ OwnCompiles(m, sn, id)
                                          /\ \A d \in Deps(m, id) : FullCompiles(m, sn, d)
  <1>1. \A x : x \in Reach(m, id) <=> x = id \/ \E d \in Deps(m, id) : x \in Reach(m, d)
    <2>1. Closure(m, {id}) = UNION {{d} \cup Closure(m, {d}) : d \in Deps(m, id)}
      BY Zenon, ClosureUnfolds
    <2>2. \A x : x \in Closure(m, {id}) <=>
                  \E d \in Deps(m, id) : x \in {d} \cup Closure(m, {d})
      BY <2>1, Zenon
    <2>q. QED BY <2>2, Zenon DEF Reach
  <1>2. FullFacts(m, sn, id) = {<<id, SourceOf(sn, id)>>}
                                 \cup UNION {FullFacts(m, sn, d) : d \in Deps(m, id)}
    <2>1. \A x, y : y \in FullFacts(m, sn, x) <=>
                     \E z \in Reach(m, x) : y = <<z, SourceOf(sn, z)>>
      BY Zenon DEF FullFacts
    <2>2. ASSUME NEW y
          PROVE  y \in FullFacts(m, sn, id) <=>
                   \/ y = <<id, SourceOf(sn, id)>>
                   \/ \E d \in Deps(m, id) : y \in FullFacts(m, sn, d)
      <3>1. ASSUME NEW z \in Reach(m, id), y = <<z, SourceOf(sn, z)>>
            PROVE  \/ y = <<id, SourceOf(sn, id)>>
                   \/ \E d \in Deps(m, id) : y \in FullFacts(m, sn, d)
        BY <3>1, <1>1, <2>1, Zenon
      <3>2. id \in Reach(m, id)
        BY <1>1, Zenon
      <3>3. ASSUME NEW d \in Deps(m, id), y \in FullFacts(m, sn, d)
            PROVE  y \in FullFacts(m, sn, id)
        <4>1. PICK z \in Reach(m, d) : y = <<z, SourceOf(sn, z)>>
          BY <3>3, <2>1, Zenon
        <4>2. z \in Reach(m, id)
          BY <1>1, Zenon
        <4>q. QED BY <4>1, <4>2, <2>1, Zenon
      <3>q. QED BY <3>1, <3>2, <3>3, <2>1, Zenon
    <2>q. QED BY <2>2, Zenon
  <1>3. FullCompiles(m, sn, id) <=> /\ OwnCompiles(m, sn, id)
                                    /\ \A d \in Deps(m, id) : FullCompiles(m, sn, d)
    BY <1>1, Zenon DEF FullCompiles
  <1>q. QED BY Zenon, <1>2, <1>3

\* A function that agrees with Full on the imports makes a round give Full.
LEMMA RoundIsFull ==
    ASSUME NEW m \in [Paths -> SUBSET Paths], NEW sn, NEW ov, NEW S, NEW id \in IDs,
           \A x \in DOMAIN ov : ov[x] = Full(m, sn, x),
           \A d \in Deps(m, id) : S[d] = Full(m, sn, d)
    PROVE  Round(m, sn, ov, S, id) = Full(m, sn, id)
  <1>1. CASE id \in DOMAIN ov
    BY <1>1, Zenon DEF Round
  <1>2. CASE id \notin DOMAIN ov
    <2>1. \A d \in Deps(m, id) : /\ S[d].facts = FullFacts(m, sn, d)
                                 /\ S[d].compiles = FullCompiles(m, sn, d)
      BY FullFields, Zenon
    <2>2. UNION {S[d].facts : d \in Deps(m, id)} = UNION {FullFacts(m, sn, d) : d \in Deps(m, id)}
      BY <2>1, Zenon
    <2>3. (\A d \in Deps(m, id) : S[d].compiles) <=> \A d \in Deps(m, id) : FullCompiles(m, sn, d)
      BY <2>1, Zenon
    <2>4. FullFacts(m, sn, id) =
            {<<id, SourceOf(sn, id)>>} \cup UNION {S[d].facts : d \in Deps(m, id)}
      BY <2>2, FullUnfolds, Zenon
    <2>5. FullCompiles(m, sn, id) =
            (OwnCompiles(m, sn, id) /\ \A d \in Deps(m, id) : S[d].compiles)
      <3>1. FullCompiles(m, sn, id) <=>
              (OwnCompiles(m, sn, id) /\ \A d \in Deps(m, id) : S[d].compiles)
        BY <2>3, FullUnfolds, Zenon
      <3>q. QED BY <3>1, Zenon DEF FullCompiles
    <2>q. QED BY <1>2, <2>4, <2>5, Zenon DEF Round, Full
  <1>q. QED BY Zenon, <1>1, <1>2

\* The recursion gives every package its full summary, when the summaries it
\* is given are full: imports are acyclic, so there is only one solution.
LEMMA SummaryIs ==
    ASSUME NEW m, IsListing(m), NEW sn, NEW ov,
           \A x \in DOMAIN ov : ov[x] = Full(m, sn, x)
    PROVE  \A id \in IDs : Summaries(m, sn, ov)[id] = Full(m, sn, id)
  <1> DEFINE G == Summaries(m, sn, ov)
             F == [id \in IDs |-> Full(m, sn, id)]
             H == [id \in IDs |-> Round(m, sn, ov, F, id)]
             Bad == {p \in Paths : \E id \in IDs : id[1] = p /\ G[id] # Full(m, sn, id)}
  <1>0. m \in [Paths -> SUBSET Paths]
    BY Zenon DEF IsListing
  <1>1. F = [id \in IDs |-> Round(m, sn, ov, F, id)]
    <2>1. \A id \in IDs : Round(m, sn, ov, F, id) = Full(m, sn, id)
      <3> SUFFICES ASSUME NEW id \in IDs PROVE Round(m, sn, ov, F, id) = Full(m, sn, id)
        BY Zenon
      <3>1. \A d \in Deps(m, id) : F[d] = Full(m, sn, d)
        BY Zenon, <1>0, DepsAreIDs
      <3> HIDE DEF F
      <3>q. QED BY Zenon, <3>1, <1>0, RoundIsFull
    <2>q. QED BY <2>1, Zenon
  <1>2. \E S : S = [id \in IDs |-> Round(m, sn, ov, S, id)]
    <2> HIDE DEF F
    <2>q. QED BY <1>1, Zenon
  <1>3. G = [id \in IDs |-> Round(m, sn, ov, G, id)]
    <2>1. G = CHOOSE S : S = [id \in IDs |-> Round(m, sn, ov, S, id)]
      BY SummariesChosen, Zenon
    <2> HIDE DEF G
    <2>q. QED BY <1>2, <2>1, Zenon
  <1> HIDE DEF G
  <1>4. Bad = {}
    <2> SUFFICES ASSUME Bad # {} PROVE FALSE
      BY Zenon
    <2>0. Bad \in SUBSET Paths
      BY Zenon
    <2>1. PICK p \in Bad : \A c \in Contents : Imports[p][c] \cap Bad = {}
      BY Zenon, <2>0, WorkspaceAssumption
    <2>2. PICK id \in IDs : id[1] = p /\ G[id] # Full(m, sn, id)
      BY Zenon, <2>1
    <2>3. m[id[1]] \cap Bad = {}
      BY Zenon, <2>0, <2>1, <2>2 DEF IsListing
    <2>4. ASSUME NEW d \in Deps(m, id) PROVE G[d] = Full(m, sn, d)
      <3>1. d \in IDs /\ d[1] \in m[id[1]]
        BY Zenon, <1>0, DepsAreIDs
      <3>2. d[1] \in Paths
        BY Zenon, <3>1, IDsAre
      <3>q. QED BY Zenon, <3>1, <3>2, <2>3
    <2>5. Round(m, sn, ov, G, id) = Full(m, sn, id)
      BY <2>4, <1>0, RoundIsFull
    <2>q. QED BY <2>2, <2>5, <1>3, Zenon
  <1>5. \A id \in IDs : G[id] = Full(m, sn, id)
    BY Zenon, <1>4, IDsAre
  <1>q. QED BY Zenon, <1>5 DEF G

-----------------------------------------------------------------------------
(* Entries are functions of their keys *)

DepFacts(key) == {<<d, key.deps[d]>> : d \in DOMAIN key.deps}

\* What the entry of a key has to hold.
TrueFacts(key) == {<<key.id, key.source>>} \cup DepFacts(key)

TrueCompiles(key) ==
    /\ <<key.id[1], key.source[1]>> \notin Broken
    /\ \A d \in DOMAIN key.deps : <<d[1], key.deps[d][1]>> \notin Broken

TrueDiags(key) ==
    {[source |-> key.source, deps |-> DepFacts(key), compiles |-> TrueCompiles(key)]}

\* A snapshot that has read all files, with the imports that were listed.
IsSnapshot(m, sn) ==
    /\ IsListing(m)
    /\ sn \in [Paths -> Contents]
    /\ \A p \in Paths : m[p] = Imports[p][sn[p]]

\* What keyFor puts into a key.
LEMMA KeyFields ==
    ASSUME NEW m, NEW sn, NEW id
    PROVE  /\ KeyFor(m, sn, id).id = id
           /\ KeyFor(m, sn, id).source = SourceOf(sn, id)
           /\ DOMAIN KeyFor(m, sn, id).deps = Closure(m, {id})
           /\ \A d \in Closure(m, {id}) : KeyFor(m, sn, id).deps[d] = SourceOf(sn, d)
  BY Zenon DEF KeyFor

\* The key determines what the package's analysis computes.
LEMMA KeyDecides ==
    ASSUME NEW m, NEW sn, IsSnapshot(m, sn), NEW id \in IDs
    PROVE  /\ TrueFacts(KeyFor(m, sn, id)) = FullFacts(m, sn, id)
           /\ TrueCompiles(KeyFor(m, sn, id)) = FullCompiles(m, sn, id)
           /\ DepFacts(KeyFor(m, sn, id)) = UNION {FullFacts(m, sn, d) : d \in Deps(m, id)}
  <1> DEFINE k == KeyFor(m, sn, id)
             C == Closure(m, {id})
  <1>0. m \in [Paths -> SUBSET Paths]
    BY Zenon DEF IsSnapshot, IsListing
  <1>1. /\ k.id = id /\ k.source = SourceOf(sn, id) /\ DOMAIN k.deps = C
        /\ \A d \in C : k.deps[d] = SourceOf(sn, d)
    BY KeyFields
  <1>2. C \subseteq IDs
    BY Zenon, <1>0, ClosureIsClosed
  <1>3. C = UNION {Reach(m, d) : d \in Deps(m, id)}
    BY <1>0, ClosureUnfolds, Zenon DEF Reach
  <1>4. Reach(m, id) = {id} \cup C
    BY Zenon DEF Reach
  <1> HIDE DEF k, C
  <1>5. DepFacts(k) = {<<d, SourceOf(sn, d)>> : d \in C}
    BY <1>1, Zenon DEF DepFacts
  <1>6. TrueFacts(k) = FullFacts(m, sn, id)
    <2>1. TrueFacts(k) = {<<id, SourceOf(sn, id)>>} \cup {<<d, SourceOf(sn, d)>> : d \in C}
      BY <1>1, <1>5, Zenon DEF TrueFacts
    <2>2. FullFacts(m, sn, id) = {<<d, SourceOf(sn, d)>> : d \in {id} \cup C}
      BY <1>4, Zenon DEF FullFacts
    <2>q. QED BY <2>1, <2>2, Zenon
  <1>7. DepFacts(k) = UNION {FullFacts(m, sn, d) : d \in Deps(m, id)}
    <2>1. \A y : y \in DepFacts(k) <=> \E z \in C : y = <<z, SourceOf(sn, z)>>
      BY <1>5, Zenon
    <2>2. \A z : z \in C <=> \E d \in Deps(m, id) : z \in Reach(m, d)
      BY <1>3, Zenon
    <2>3. \A d, y : y \in FullFacts(m, sn, d) <=>
                      \E z \in Reach(m, d) : y = <<z, SourceOf(sn, z)>>
      BY Zenon DEF FullFacts
    <2>4. ASSUME NEW y \in DepFacts(k)
          PROVE  \E d \in Deps(m, id) : y \in FullFacts(m, sn, d)
      <3>1. PICK z \in C : y = <<z, SourceOf(sn, z)>>
        BY <2>1, Zenon
      <3>q. QED BY <3>1, <2>2, <2>3, Zenon
    <2>5. ASSUME NEW d \in Deps(m, id), NEW y \in FullFacts(m, sn, d) PROVE y \in DepFacts(k)
      <3>1. PICK z \in Reach(m, d) : y = <<z, SourceOf(sn, z)>>
        BY <2>3, Zenon
      <3>2. z \in C
        BY <2>2, Zenon
      <3>q. QED BY <3>1, <3>2, <2>1, Zenon
    <2>q. QED BY <2>4, <2>5, Zenon
  <1>8. \A d \in IDs : OwnCompiles(m, sn, d) <=> <<d[1], SourceOf(sn, d)[1]>> \notin Broken
    <2> SUFFICES ASSUME NEW d \in IDs
                 PROVE  OwnCompiles(m, sn, d) <=> <<d[1], SourceOf(sn, d)[1]>> \notin Broken
      BY Zenon
    <2>1. d[1] \in Paths
      BY Zenon, IDsAre
    <2>2. Imports[d[1]][sn[d[1]]] \subseteq m[d[1]]
      BY Zenon, <2>1 DEF IsSnapshot
    <2>3. SourceOf(sn, d)[1] = sn[d[1]]
      BY Zenon DEF SourceOf
    <2>q. QED BY <2>2, <2>3, Zenon DEF OwnCompiles
  <1>9. TrueCompiles(k) <=> FullCompiles(m, sn, id)
    <2>1. TrueCompiles(k) <=> /\ <<id[1], SourceOf(sn, id)[1]>> \notin Broken
                              /\ \A d \in C : <<d[1], SourceOf(sn, d)[1]>> \notin Broken
      BY <1>1, Zenon DEF TrueCompiles
    <2>2. FullCompiles(m, sn, id) <=> /\ OwnCompiles(m, sn, id)
                                      /\ \A d \in C : OwnCompiles(m, sn, d)
      BY <1>4, Zenon DEF FullCompiles
    <2>q. QED BY <2>1, <2>2, <1>2, <1>8, Zenon
  <1>10. TrueCompiles(k) = FullCompiles(m, sn, id)
    BY <1>9, Zenon DEF TrueCompiles, FullCompiles
  <1>q. QED BY Zenon, <1>6, <1>7, <1>10 DEF k

\* An analysis with full summaries reports what the key decides.
LEMMA DiagnosticsTrue ==
    ASSUME NEW m, NEW sn, IsSnapshot(m, sn), NEW id \in IDs, NEW sums,
           \A x \in IDs : sums[x] = Full(m, sn, x)
    PROVE  Diagnostics(m, sn, sums, id) = TrueDiags(KeyFor(m, sn, id))
  <1>0. Deps(m, id) \subseteq IDs
    BY Zenon, DepsAreIDs DEF IsSnapshot, IsListing
  <1>1. \A d \in IDs : /\ sums[d].facts = FullFacts(m, sn, d)
                       /\ sums[d].compiles = FullCompiles(m, sn, d)
    <2> SUFFICES ASSUME NEW d \in IDs
                 PROVE  /\ sums[d].facts = FullFacts(m, sn, d)
                        /\ sums[d].compiles = FullCompiles(m, sn, d)
      BY Zenon
    <2>1. sums[d] = Full(m, sn, d)
      BY Zenon
    <2>2. /\ Full(m, sn, d).facts = FullFacts(m, sn, d)
          /\ Full(m, sn, d).compiles = FullCompiles(m, sn, d)
      BY FullFields, Zenon
    <2>q. QED BY <2>1, <2>2, Zenon
  <1>2. UNION {sums[d].facts : d \in Deps(m, id)} = DepFacts(KeyFor(m, sn, id))
    <2>1. \A d \in Deps(m, id) : sums[d].facts = FullFacts(m, sn, d)
      BY Zenon, <1>0, <1>1
    <2>2. UNION {sums[d].facts : d \in Deps(m, id)} = UNION {FullFacts(m, sn, d) : d \in Deps(m, id)}
      BY <2>1, Zenon
    <2>q. QED BY <2>2, KeyDecides, Zenon
  <1>3. sums[id].compiles = TrueCompiles(KeyFor(m, sn, id))
    BY <1>1, KeyDecides, Zenon
  <1>4. KeyFor(m, sn, id).source = SourceOf(sn, id)
    BY Zenon DEF KeyFor
  <1>q. QED BY <1>2, <1>3, <1>4, Zenon DEF Diagnostics, TrueDiags

-----------------------------------------------------------------------------
(* Runs and entries *)

\* No edit changes the imports of a package between the listing of the
\* packages and the reading of its files by the same run.
Settled ==
    \A r \in Procs, p \in Paths :
        snap[r][p] # Unread => meta[r][p] = Imports[p][snap[r][p]]

\* PLAID_L0_DEP_OVERRIDE has the same value in all runs.
OneMode == \A x, y \in OverrideModes : x = y

\* No package that is imported has an in-package test (or run.tests is off).
TestsAreLeaves ==
    \A p \in Paths, c \in Contents : Imports[p][c] \cap TestPaths = {}

KeyOf(r, id) == KeyFor(meta[r], snap[r], id)

\* An entry holds what its key decides.  Only one that a run wrote for a
\* dependency lacks the findings.
EntryTrue(key, entry) ==
    /\ TRUE \in OverrideModes => /\ entry.facts = TrueFacts(key)
                                 /\ entry.compiles = TrueCompiles(key)
    /\ \/ entry.diags = TrueDiags(key)
       \/ entry.diags = {} /\ (TestsAreLeaves => key.id \in Excluded)

ReportTrue(r, id) ==
    /\ \/ report[r][id] = TrueDiags(KeyOf(r, id))
       \/ report[r][id] = {} /\ ~TestsAreLeaves
    /\ id \notin misses[r] => KeyOf(r, id) \in DOMAIN l0

\* A run reports, takes over and has captured what its snapshot decides.
RunTrue(r) ==
    /\ pc[r] # "idle" =>
         /\ overriding[r] \in OverrideModes
         /\ IsListing(meta[r])
         /\ roots[r] \cap Excluded = {}
         /\ \A p \in Paths \ TestPaths :
              <<p, FALSE>> \notin Excluded => <<p, FALSE>> \in roots[r]
    /\ \A id \in DOMAIN report[r] : ReportTrue(r, id)
    /\ \A id \in DOMAIN overrides[r] : overrides[r][id] = Full(meta[r], snap[r], id)
    /\ pc[r] = "write" => \A id \in todo[r] : nodes[r][id] = Full(meta[r], snap[r], id)

EntriesTrue == \A key \in DOMAIN l0 : EntryTrue(key, l0[key])

Truth == EntriesTrue /\ \A r \in Procs : RunTrue(r)

\* After preloadFiles every file of the run has been read, and its imports are
\* those that were listed.
LEMMA LoadedSnapshot ==
    ASSUME Loops, Settled, NEW r \in Procs, RunTrue(r), Loaded(r)
    PROVE  IsSnapshot(meta[r], snap[r])
  <1>1. /\ IsListing(meta[r])
        /\ snap[r] \in [Paths -> Contents]
    BY Zenon DEF RunTrue, Loaded, Loops, LoopInv
  <1>2. \A p \in Paths : meta[r][p] = Imports[p][snap[r][p]]
    BY <1>1, WorkspaceAssumption DEF Settled
  <1>q. QED BY Zenon, <1>1, <1>2 DEF IsSnapshot

\* Put keeps the entries there are.
LEMMA PutKeeps ==
    ASSUME EntriesTrue, NEW k, NEW e, l0' \in {l0, Put(k, e)},
           k \notin DOMAIN l0 => EntryTrue(k, e)
    PROVE  EntriesTrue' /\ DOMAIN l0 \subseteq DOMAIN l0'
  <1>1. CASE l0' = l0
    BY <1>1, Zenon DEF EntriesTrue, EntryTrue
  <1>2. CASE l0' = Put(k, e)
    <2>1. /\ DOMAIN l0' = DOMAIN l0 \cup {k}
          /\ \A x \in DOMAIN l0' : l0'[x] = IF x \in DOMAIN l0 THEN l0[x] ELSE e
      BY <1>2 DEF Put
    <2>2. ASSUME NEW x \in DOMAIN l0' PROVE EntryTrue(x, l0'[x])
      BY <2>1, Zenon DEF EntriesTrue
    <2>q. QED BY <2>1, <2>2, Zenon DEF EntriesTrue, EntryTrue
  <1>q. QED BY Zenon, <1>1, <1>2

\* A run that is left alone stays true while entries are added.
LEMMA SameTrue ==
    ASSUME NEW s \in Procs, RunTrue(s), Same(s), DOMAIN l0 \subseteq DOMAIN l0'
    PROVE  RunTrue(s)'
  <1>1. \A id \in DOMAIN report[s] : ReportTrue(s, id)'
    BY Zenon DEF RunTrue, ReportTrue, KeyOf, Same
  <1>q. QED BY Zenon, <1>1 DEF RunTrue, Same

\* Every action keeps the truth of its own run.
LEMMA OwnTrue ==
    ASSUME Loops, Truth, Settled, OneMode, NEW r \in Procs, RunStep(r),
           DOMAIN l0 \subseteq DOMAIN l0'
    PROVE  RunTrue(r)'
  <1> USE DEF Maps
  <1>a. Workspace /\ Maps /\ LoopInv(r) /\ RunTrue(r) /\ EntriesTrue
    BY Zenon DEF Loops, Truth
  <1>b. Loaded(r) => IsSnapshot(meta[r], snap[r])
    BY Zenon, <1>a, LoadedSnapshot
  <1>c. ASSUME pc[r] # "idle", overriding'[r] = overriding[r], meta'[r] = meta[r],
               roots'[r] = roots[r]
        PROVE  /\ overriding'[r] \in OverrideModes
               /\ IsListing(meta'[r])
               /\ roots'[r] \cap Excluded = {}
               /\ \A p \in Paths \ TestPaths :
                    <<p, FALSE>> \notin Excluded => <<p, FALSE>> \in roots'[r]
    BY <1>a, <1>c, Zenon DEF RunTrue
  <1>d. ASSUME NEW id \in DOMAIN report[r], report'[r][id] = report[r][id],
               meta'[r] = meta[r], snap'[r] = snap[r], misses[r] \subseteq misses'[r]
        PROVE  ReportTrue(r, id)'
    BY Zenon, <1>a, <1>d DEF RunTrue, ReportTrue, KeyOf
  <1>1. CASE Start(r)
    <2>1. /\ pc'[r] = "load" /\ overriding'[r] \in OverrideModes
          /\ meta'[r] = [p \in Paths |-> Imports[p][disk[p]]]
          /\ roots'[r] = AnalysisRoots
          /\ DOMAIN report'[r] = {} /\ DOMAIN overrides'[r] = {}
      BY Zenon, <1>1, <1>a DEF Start, LoopInv
    <2>2. IsListing(meta'[r])
      <3>1. \A p \in Paths : disk[p] \in Contents
        BY <1>a DEF Workspace
      <3>2. \A p \in Paths : /\ meta'[r][p] = Imports[p][disk[p]]
                              /\ meta'[r][p] \in SUBSET Paths
        BY <2>1, <3>1, WorkspaceAssumption
      <3>q. QED BY <2>1, <3>1, <3>2 DEF IsListing
    <2>3. \A p \in Paths \ TestPaths : <<p, FALSE>> \in Superseding
      BY Zenon, <1>a DEF Superseding, Workspace
    <2>q. QED BY Zenon, <2>1, <2>2, <2>3 DEF RunTrue, AnalysisRoots
  <1>2. ASSUME NEW p \in Paths, Preload(r, p) PROVE RunTrue(r)'
    <2>1. /\ pc[r] = "load" /\ pc'[r] \in {"load", "split"}
          /\ overriding'[r] = overriding[r] /\ meta'[r] = meta[r] /\ roots'[r] = roots[r]
          /\ DOMAIN report'[r] = {} /\ DOMAIN overrides'[r] = {}
      BY Zenon, <1>2, <1>a DEF Preload, LoopInv
    <2>q. QED BY Zenon, <2>1, <1>c DEF RunTrue
  <1>3. ASSUME NEW id \in todo[r], LookUp(r, id) PROVE RunTrue(r)'
    <2>1. /\ pc[r] = "split" /\ pc'[r] = "split" /\ id \in roots[r] /\ id \in IDs
          /\ overriding'[r] = overriding[r] /\ meta'[r] = meta[r] /\ roots'[r] = roots[r]
          /\ snap'[r] = snap[r] /\ DOMAIN overrides'[r] = {}
          /\ misses[r] \subseteq misses'[r]
      BY <1>3, <1>a DEF LookUp, LoopInv
    <2>2. \/ report'[r] = report[r]
          \/ /\ KeyOf(r, id) \in DOMAIN l0
             /\ DOMAIN report'[r] = DOMAIN report[r] \cup {id}
             /\ \A x \in DOMAIN report[r] \cup {id} :
                  report'[r][x] = IF x = id THEN l0[KeyOf(r, id)].diags ELSE report[r][x]
      BY <1>3, <1>a DEF LookUp, KeyOf
    <2>3. ASSUME NEW x \in DOMAIN report'[r] PROVE ReportTrue(r, x)'
      <3>1. CASE report'[r] = report[r]
        BY Zenon, <3>1, <2>1, <1>d
      <3>2. CASE report'[r] # report[r] /\ x # id
        BY Zenon, <3>2, <2>1, <2>2, <1>d
      <3>3. CASE report'[r] # report[r] /\ x = id
        <4>1. /\ KeyOf(r, id) \in DOMAIN l0
              /\ report'[r][id] = l0[KeyOf(r, id)].diags
          BY Zenon, <3>3, <2>2
        <4>2. EntryTrue(KeyOf(r, id), l0[KeyOf(r, id)])
          BY <4>1, <1>a, Zenon DEF EntriesTrue
        <4>3. KeyOf(r, id).id \notin Excluded
          <5>1. roots[r] \cap Excluded = {}
            BY Zenon, <2>1, <1>a DEF RunTrue
          <5>q. QED BY Zenon, <5>1, <2>1 DEF KeyOf, KeyFor
        <4>4. KeyOf(r, id)' = KeyOf(r, id)
          BY <2>1, Zenon DEF KeyOf
        <4>q. QED BY <4>1, <4>2, <4>3, <4>4, <3>3, Zenon DEF ReportTrue, EntryTrue
      <3>q. QED BY Zenon, <3>1, <3>2, <3>3
    <2>q. QED BY Zenon, <2>1, <2>3, <1>c DEF RunTrue
  <1>4. ASSUME AllHit(r) \/ BeginOverrides(r) PROVE RunTrue(r)'
    <2>1. /\ pc[r] = "split"
          /\ pc'[r] = "write" => todo'[r] = {}
          /\ pc'[r] # "idle"
          /\ overriding'[r] = overriding[r] /\ meta'[r] = meta[r] /\ roots'[r] = roots[r]
          /\ snap'[r] = snap[r] /\ report'[r] = report[r] /\ misses'[r] = misses[r]
          /\ DOMAIN overrides'[r] = {}
      BY Zenon, <1>4, <1>a DEF AllHit, BeginOverrides, LoopInv
    <2>q. QED BY Zenon, <2>1, <1>c, <1>d DEF RunTrue
  <1>5. ASSUME NEW id \in todo[r], LookUpDep(r, id) PROVE RunTrue(r)'
    <2>1. /\ pc[r] = "install" /\ pc'[r] = "install" /\ id \in DepsInL0(r) /\ id \in IDs
          /\ overriding'[r] = overriding[r] /\ meta'[r] = meta[r] /\ roots'[r] = roots[r]
          /\ snap'[r] = snap[r] /\ report'[r] = report[r] /\ misses'[r] = misses[r]
      BY Zenon, <1>5, <1>a DEF LookUpDep, LoopInv
    <2>2. \/ overrides'[r] = overrides[r]
          \/ /\ KeyOf(r, id) \in DOMAIN l0
             /\ DOMAIN overrides'[r] = DOMAIN overrides[r] \cup {id}
             /\ \A x \in DOMAIN overrides[r] \cup {id} :
                  overrides'[r][x] = IF x = id THEN [facts |-> l0[KeyOf(r, id)].facts,
                                                     compiles |-> l0[KeyOf(r, id)].compiles]
                                     ELSE overrides[r][x]
      BY Zenon, <1>5, <1>a DEF LookUpDep, KeyOf
    <2>3. TRUE \in OverrideModes
      <3>1. overriding[r] \in OverrideModes /\ overriding[r]
        BY <2>1, <1>a, Zenon DEF RunTrue, DepsInL0
      <3>q. QED BY Zenon, <3>1, WorkspaceAssumption
    <2>4. IsSnapshot(meta[r], snap[r])
      BY Zenon, <2>1, <1>b DEF Loaded
    <2>5. ASSUME KeyOf(r, id) \in DOMAIN l0
          PROVE  [facts |-> l0[KeyOf(r, id)].facts, compiles |-> l0[KeyOf(r, id)].compiles]
                   = Full(meta[r], snap[r], id)
      <3>1. /\ l0[KeyOf(r, id)].facts = TrueFacts(KeyOf(r, id))
            /\ l0[KeyOf(r, id)].compiles = TrueCompiles(KeyOf(r, id))
        BY <2>3, <2>5, <1>a, Zenon DEF EntriesTrue, EntryTrue
      <3>2. /\ TrueFacts(KeyOf(r, id)) = FullFacts(meta[r], snap[r], id)
            /\ TrueCompiles(KeyOf(r, id)) = FullCompiles(meta[r], snap[r], id)
        BY Zenon, <2>1, <2>4, KeyDecides DEF KeyOf
      <3>q. QED BY <3>1, <3>2, Zenon DEF Full
    <2>6. \A x \in DOMAIN overrides'[r] : overrides'[r][x] = Full(meta[r], snap[r], x)
      <3>1. \A x \in DOMAIN overrides[r] : overrides[r][x] = Full(meta[r], snap[r], x)
        BY <1>a, Zenon DEF RunTrue
      <3>q. QED BY <3>1, <2>2, <2>5, Zenon
    <2>7. \A x \in DOMAIN report'[r] : ReportTrue(r, x)'
      BY Zenon, <2>1, <1>d
    <2>q. QED BY Zenon, <2>1, <2>6, <2>7, <1>c DEF RunTrue
  <1>6. CASE Analyze(r)
    <2> DEFINE sums == Summaries(meta[r], snap[r], overrides[r])
    <2>1. /\ pc[r] = "install" /\ pc'[r] = "write"
          /\ overriding'[r] = overriding[r] /\ meta'[r] = meta[r] /\ roots'[r] = roots[r]
          /\ snap'[r] = snap[r] /\ misses'[r] = misses[r] /\ overrides'[r] = overrides[r]
          /\ todo'[r] = misses[r] \cup DepsInL0(r)
          /\ nodes'[r] = [id \in misses[r] \cup DepsInL0(r) |-> sums[id]]
          /\ report'[r] = [id \in DOMAIN report[r] \cup misses[r] |->
                             IF id \in misses[r] THEN Diagnostics(meta[r], snap[r], sums, id)
                             ELSE report[r][id]]
      BY Zenon, <1>6, <1>a DEF Analyze
    <2>2. IsSnapshot(meta[r], snap[r])
      BY Zenon, <2>1, <1>b DEF Loaded
    <2>3. \A x \in DOMAIN overrides[r] : overrides[r][x] = Full(meta[r], snap[r], x)
      BY <1>a, Zenon DEF RunTrue
    <2>4. \A id \in IDs : sums[id] = Full(meta[r], snap[r], id)
      BY <2>2, <2>3, SummaryIs DEF IsSnapshot
    <2> HIDE DEF sums
    <2>5. misses[r] \subseteq IDs /\ DepsInL0(r) \subseteq IDs
      BY Zenon, <1>a DEF LoopInv, DepsInL0, DepClosure, Closure
    <2>6. \A id \in todo'[r] : nodes'[r][id] = Full(meta[r], snap[r], id)
      BY Zenon, <2>1, <2>4, <2>5
    <2>7. ASSUME NEW id \in DOMAIN report'[r] PROVE ReportTrue(r, id)'
      <3>1. CASE id \in misses[r]
        <4>1. report'[r][id] = TrueDiags(KeyFor(meta[r], snap[r], id))
          BY <3>1, <2>1, <2>2, <2>4, <2>5, DiagnosticsTrue
        <4>q. QED BY <4>1, <3>1, <2>1, Zenon DEF ReportTrue, KeyOf
      <3>2. CASE id \notin misses[r]
        BY Zenon, <3>2, <2>1, <1>d
      <3>q. QED BY Zenon, <3>1, <3>2
    <2>q. QED BY Zenon, <2>1, <2>3, <2>6, <2>7, <1>c DEF RunTrue
  <1>7. ASSUME NEW id \in todo[r], WriteRoot(r, id) \/ WriteDep(r, id) PROVE RunTrue(r)'
    <2>1. /\ pc[r] = "write" /\ pc'[r] = "write"
          /\ overriding'[r] = overriding[r] /\ meta'[r] = meta[r] /\ roots'[r] = roots[r]
          /\ snap'[r] = snap[r] /\ report'[r] = report[r] /\ misses'[r] = misses[r]
          /\ overrides'[r] = overrides[r] /\ nodes'[r] = nodes[r]
          /\ todo'[r] \subseteq todo[r]
      BY Zenon, <1>7, <1>a DEF WriteRoot, WriteDep
    <2>2. \A x \in DOMAIN report'[r] : ReportTrue(r, x)'
      BY Zenon, <2>1, <1>d
    <2>q. QED BY Zenon, <2>1, <2>2, <1>a, <1>c DEF RunTrue
  <1>8. CASE Exit(r)
    <2>1. pc'[r] = "idle" /\ DOMAIN report'[r] = {} /\ DOMAIN overrides'[r] = {}
      BY Zenon, <1>8, <1>a DEF Exit, NoOverrides
    <2>q. QED BY Zenon, <2>1 DEF RunTrue
  <1>q. QED BY Zenon, <1>1, <1>2, <1>3, <1>4, <1>5, <1>6, <1>7, <1>8 DEF RunStep

\* What a run writes for one of its packages is true.
LEMMA WrittenTrue ==
    ASSUME Loops, Truth, Settled, OneMode, NEW r \in Procs, NEW id \in todo[r],
           pc[r] = "write"
    PROVE  /\ IsSnapshot(meta[r], snap[r])
           /\ id \in IDs
           /\ TRUE \in OverrideModes => overriding[r]
           /\ nodes[r][id].facts = TrueFacts(KeyOf(r, id))
           /\ nodes[r][id].compiles = TrueCompiles(KeyOf(r, id))
  <1>1. RunTrue(r) /\ LoopInv(r)
    BY Zenon DEF Truth, Loops
  <1>2. IsSnapshot(meta[r], snap[r])
    BY Zenon, <1>1, LoadedSnapshot DEF Loaded
  <1>3. id \in IDs
    BY Zenon, <1>1 DEF LoopInv
  <1>4. TRUE \in OverrideModes => overriding[r]
    BY Zenon, <1>1 DEF RunTrue, OneMode
  <1>5. nodes[r][id] = Full(meta[r], snap[r], id)
    BY Zenon, <1>1 DEF RunTrue
  <1>6. /\ TrueFacts(KeyOf(r, id)) = FullFacts(meta[r], snap[r], id)
        /\ TrueCompiles(KeyOf(r, id)) = FullCompiles(meta[r], snap[r], id)
    BY Zenon, <1>2, <1>3, KeyDecides DEF KeyOf
  <1>7. /\ nodes[r][id].facts = FullFacts(meta[r], snap[r], id)
        /\ nodes[r][id].compiles = FullCompiles(meta[r], snap[r], id)
    <2>1. /\ Full(meta[r], snap[r], id).facts = FullFacts(meta[r], snap[r], id)
          /\ Full(meta[r], snap[r], id).compiles = FullCompiles(meta[r], snap[r], id)
      BY FullFields, Zenon
    <2>q. QED BY <1>5, <2>1, Zenon
  <1>q. QED BY <1>2, <1>3, <1>4, <1>6, <1>7, Zenon

\* Every action keeps the entries true.
LEMMA EntriesStep ==
    ASSUME Loops, Truth, Settled, OneMode, NEW r \in Procs, RunStep(r)
    PROVE  EntriesTrue' /\ DOMAIN l0 \subseteq DOMAIN l0'
  <1>1. EntriesTrue /\ RunTrue(r) /\ LoopInv(r)
    BY Zenon DEF Truth, Loops
  <1>2. CASE l0' = l0
    BY <1>1, <1>2, PutKeeps, Zenon DEF EntriesTrue, EntryTrue
  <1>3. ASSUME NEW id \in todo[r], WriteRoot(r, id)
        PROVE  EntriesTrue' /\ DOMAIN l0 \subseteq DOMAIN l0'
    <2> DEFINE e == [diags |-> report[r][id], facts |-> Captured(r, id).facts,
                     compiles |-> Captured(r, id).compiles]
    <2>1. pc[r] = "write" /\ id \in misses[r] /\ l0' \in {l0, Put(KeyOf(r, id), e)}
      BY Zenon, <1>3 DEF WriteRoot, KeyOf
    <2>2. /\ e.diags = report[r][id]
          /\ e.facts = Captured(r, id).facts
          /\ e.compiles = Captured(r, id).compiles
      BY Zenon
    <2> HIDE DEF e
    <2>3. /\ TRUE \in OverrideModes => overriding[r]
          /\ nodes[r][id].facts = TrueFacts(KeyOf(r, id))
          /\ nodes[r][id].compiles = TrueCompiles(KeyOf(r, id))
      BY Zenon, <2>1, WrittenTrue
    <2>4. TRUE \in OverrideModes => /\ e.facts = TrueFacts(KeyOf(r, id))
                                    /\ e.compiles = TrueCompiles(KeyOf(r, id))
      BY <2>2, <2>3, Zenon DEF Captured
    <2>5. ReportTrue(r, id)
      BY Zenon, <2>1, <1>1 DEF RunTrue, LoopInv
    <2>6. EntryTrue(KeyOf(r, id), e)
      BY <2>2, <2>4, <2>5, Zenon DEF EntryTrue, ReportTrue
    <2>7. KeyOf(r, id) \notin DOMAIN l0 => EntryTrue(KeyOf(r, id), e)
      BY <2>6, Zenon
    <2>q. QED BY <2>1, <2>7, <1>1, PutKeeps
  <1>4. ASSUME NEW id \in todo[r], WriteDep(r, id)
        PROVE  EntriesTrue' /\ DOMAIN l0 \subseteq DOMAIN l0'
    <2> DEFINE e == [diags |-> {}, facts |-> nodes[r][id].facts,
                     compiles |-> nodes[r][id].compiles]
    <2>1. /\ pc[r] = "write" /\ id \notin misses[r]
          /\ l0' \in {l0, Put(KeyOf(r, id), e)}
      BY Zenon, <1>4 DEF WriteDep, KeyOf
    <2>2. /\ e.diags = {}
          /\ e.facts = nodes[r][id].facts
          /\ e.compiles = nodes[r][id].compiles
      BY Zenon
    <2> HIDE DEF e
    <2>3. /\ nodes[r][id].facts = TrueFacts(KeyOf(r, id))
          /\ nodes[r][id].compiles = TrueCompiles(KeyOf(r, id))
          /\ IsSnapshot(meta[r], snap[r])
      BY Zenon, <2>1, WrittenTrue
    <2>4. ASSUME KeyOf(r, id) \notin DOMAIN l0, TestsAreLeaves, id \notin Excluded
          PROVE  FALSE
      <3>1. id \in Closure(meta[r], misses[r])
        BY <2>1, <1>1, Zenon DEF LoopInv, DepsInL0, DepClosure
      <3>2. meta[r] \in [Paths -> SUBSET Paths] /\ misses[r] \in SUBSET IDs
        BY Zenon, <2>3, <1>1 DEF IsSnapshot, IsListing, LoopInv
      <3>3. PICK p \in Paths : \E q \in meta[r][p] : id = <<q, FALSE>>
        BY Zenon, <3>1, <3>2, ClosureImported
      <3>4. PICK q \in meta[r][p] : id = <<q, FALSE>>
        BY Zenon, <3>3
      <3>5. q \in Paths \ TestPaths
        BY <3>2, <2>3, <2>4 DEF TestsAreLeaves, IsSnapshot, IsListing
      <3>6. id \in roots[r]
        BY Zenon, <3>4, <3>5, <2>1, <2>4, <1>1 DEF RunTrue
      <3>7. ReportTrue(r, id)
        BY Zenon, <3>6, <2>1, <1>1 DEF RunTrue, LoopInv
      <3>q. QED BY Zenon, <3>7, <2>1, <2>4 DEF ReportTrue
    <2>5. KeyOf(r, id).id = id
      BY Zenon DEF KeyOf, KeyFor
    <2>6. KeyOf(r, id) \notin DOMAIN l0 => EntryTrue(KeyOf(r, id), e)
      BY <2>2, <2>3, <2>4, <2>5, Zenon DEF EntryTrue
    <2>q. QED BY <2>1, <2>6, <1>1, PutKeeps
  <1>q. QED
    BY Zenon, <1>2, <1>3, <1>4
    DEF RunStep, Start, Preload, LookUp, AllHit, BeginOverrides, LookUpDep, Analyze, Exit

\* An empty cache holds nothing false.
LEMMA TruthInit == Init => Truth
  BY DEF Init, Truth, EntriesTrue, RunTrue, NoOverrides

\* Every step keeps the cache and all runs true: the runs a step leaves alone only
\* see entries being added.
LEMMA TruthStep ==
    ASSUME OneMode, Loops, Truth, Settled, [Next]_vars
    PROVE  Truth'
  <1>1. ASSUME NEW r \in Procs, RunStep(r) PROVE Truth'
    <2>1. EntriesTrue' /\ DOMAIN l0 \subseteq DOMAIN l0'
      BY Zenon, <1>1, EntriesStep
    <2>2. \A s \in Procs : s # r => Same(s)
      BY Zenon, <1>1, OthersSame DEF Loops
    <2>3. \A s \in Procs : RunTrue(s)'
      BY Zenon, <1>1, <2>1, <2>2, OwnTrue, SameTrue DEF Truth
    <2>q. QED BY Zenon, <2>1, <2>3 DEF Truth
  <1>2. ASSUME UNCHANGED <<l0, runVars>> PROVE Truth'
    <2>1. \A s \in Procs : Same(s)
      BY Zenon, <1>2 DEF runVars, Same
    <2>2. \A s \in Procs : RunTrue(s)'
      BY Zenon, <1>2, <2>1, SameTrue DEF Truth
    <2>3. EntriesTrue'
      BY <1>2, Zenon DEF EntriesTrue, EntryTrue, Truth
    <2>q. QED BY Zenon, <2>2, <2>3 DEF Truth
  <1>3. CASE \E p \in Paths, c \in Contents : Edit(p, c)
    BY Zenon, <1>2, <1>3 DEF Edit
  <1>4. CASE \E p \in TestPaths : ToggleTest(p)
    BY Zenon, <1>2, <1>4 DEF ToggleTest
  <1>5. CASE UNCHANGED vars
    BY Zenon, <1>2, <1>5 DEF vars
  <1>q. QED BY Zenon, <1>1, <1>3, <1>4, <1>5 DEF Next

\* A run without a cache computes the full summaries.
LEMMA ColdIs ==
    ASSUME NEW r \in Procs, IsSnapshot(meta[r], snap[r])
    PROVE  \A id \in IDs : Cold(r)[id] = Full(meta[r], snap[r], id)
  <1>1. \A x \in DOMAIN NoOverrides : NoOverrides[x] = Full(meta[r], snap[r], x)
    BY Zenon DEF NoOverrides
  <1>q. QED BY <1>1, SummaryIs DEF IsSnapshot, Cold

\* Overrides are full summaries, and so is what a cold run computes.
LEMMA TruthOverrides == Loops /\ Truth /\ Settled => OverridesSound
  <1> SUFFICES ASSUME Loops, Truth, Settled, NEW r \in Procs, NEW id \in DOMAIN overrides[r]
               PROVE  overrides[r][id] = Cold(r)[id]
    BY Zenon DEF OverridesSound
  <1>1. LoopInv(r) /\ RunTrue(r)
    BY Zenon DEF Loops, Truth
  <1>2. Loaded(r) /\ id \in DepsInL0(r)
    BY Zenon, <1>1 DEF LoopInv, Loaded
  <1>3. IsSnapshot(meta[r], snap[r])
    BY Zenon, <1>1, <1>2, LoadedSnapshot
  <1>4. id \in IDs
    BY Zenon, <1>2 DEF DepsInL0, DepClosure, Closure
  <1>5. Cold(r)[id] = Full(meta[r], snap[r], id)
    BY Zenon, <1>3, <1>4, ColdIs
  <1>6. overrides[r][id] = Full(meta[r], snap[r], id)
    BY <1>1, Zenon DEF RunTrue
  <1>q. QED BY Zenon, <1>5, <1>6

\* A run that has ended reports no finding, replayed from L0 (splitByL0) or not,
\* that an analysis of its snapshot without the cache would not report.
NothingFalse ==
    \A r \in Procs : Done(r) =>
        \A id \in roots[r] :
            report[r][id] \subseteq Diagnostics(meta[r], snap[r], Cold(r), id)

\* A root's report is what the key decides, which is what a cold run reports;
\* only an entry written for an imported package with a test may lack it.
LEMMA TruthReports ==
    Loops /\ Truth /\ Settled => NothingFalse /\ (TestsAreLeaves => WarmEqualsCold)
  <1> SUFFICES ASSUME Loops, Truth, Settled, NEW r \in Procs, Done(r), NEW id \in roots[r]
               PROVE  LET d == Diagnostics(meta[r], snap[r], Cold(r), id)
                      IN report[r][id] = d \/ (report[r][id] = {} /\ ~TestsAreLeaves)
    BY Zenon DEF NothingFalse, WarmEqualsCold
  <1>1. LoopInv(r) /\ RunTrue(r)
    BY Zenon DEF Loops, Truth
  <1>2. Loaded(r) /\ id \in DOMAIN report[r] /\ id \in IDs
    BY Zenon, <1>1 DEF LoopInv, Loaded, Done
  <1>3. IsSnapshot(meta[r], snap[r])
    BY Zenon, <1>1, <1>2, LoadedSnapshot
  <1>4. Diagnostics(meta[r], snap[r], Cold(r), id) = TrueDiags(KeyOf(r, id))
    BY Zenon, <1>2, <1>3, ColdIs, DiagnosticsTrue DEF KeyOf
  <1>5. ReportTrue(r, id)
    BY Zenon, <1>1, <1>2 DEF RunTrue
  <1>q. QED BY <1>4, <1>5, Zenon DEF ReportTrue

\* As long as no edit changes imports between the listing and the reading of
\* a file, and all runs agree on PLAID_L0_DEP_OVERRIDE: a dependency summary
\* taken from L0 is the one its analysis would have produced, whatever
\* processes wrote the entry, died or were overtaken.
THEOREM EngineOverridesSound ==
    ASSUME OneMode
    PROVE  Spec /\ []Settled => []OverridesSound
  <1>1. Loops /\ Truth /\ Settled /\ [Next]_vars => Truth'
    BY Zenon, OneMode, TruthStep
  <1>q. QED BY <1>1, LoopsInit, LoopsStep, TruthInit, TruthOverrides, PTL DEF Spec

\* Under the same hypotheses, test variants and all: a finding a run reports
\* is one an analysis without the cache reports.
THEOREM EngineReportsNothingFalse ==
    ASSUME OneMode
    PROVE  Spec /\ []Settled => []NothingFalse
  <1>1. Loops /\ Truth /\ Settled /\ [Next]_vars => Truth'
    BY Zenon, OneMode, TruthStep
  <1>2. Loops /\ Truth /\ Settled => NothingFalse
    BY Zenon, TruthReports
  <1>q. QED BY <1>1, <1>2, LoopsInit, LoopsStep, TruthInit, PTL DEF Spec

\* If moreover no imported package has an in-package test, nothing is missing
\* either: the warm report is the cold one.
THEOREM EngineWarmEqualsCold ==
    ASSUME OneMode, TestsAreLeaves
    PROVE  Spec /\ []Settled => []WarmEqualsCold
  <1>1. Loops /\ Truth /\ Settled /\ [Next]_vars => Truth'
    BY Zenon, OneMode, TruthStep
  <1>2. Loops /\ Truth /\ Settled => WarmEqualsCold
    BY Zenon, TestsAreLeaves, TruthReports
  <1>q. QED BY <1>1, <1>2, LoopsInit, LoopsStep, TruthInit, PTL DEF Spec
=============================================================================
