----------------------------- MODULE UnitAction -----------------------------
(***************************************************************************)
(* `plaid-lint unit`: the worker loop (unit_worker.go), one action from      *)
(* lookup to response (unit.go), the driver that writes the declared outputs *)
(* (internal/unit), and the result cache that workers share                  *)
(* (internal/unitcache).                                                     *)
(*                                                                          *)
(* An analyzer's flags are process globals that BuildFromConfig sets: a      *)
(* sticky flag only when the configuration differs from its default, others  *)
(* on every build.  The inputs of an action hold still while it runs, and    *)
(* the build system removes its outputs before it starts.                    *)
(***************************************************************************)
CONSTANTS
    Workers,
    Tools,      \* identities of the analyzing binary
    Sources,    \* contents of a package, or of a go.mod
    Broken,     \* the sources that do not compile
    Modules,    \* the go.mod contents: no facts are declared for them
    Configs,    \* contents of .golangci.yml
    Invalid,    \* the ones that do not validate
    Unfilterable, \* the ones with an exclusion pattern that does not compile
    Sticky,     \* flags that are set only to a value other than the default
    Setups,     \* records: the flags each configuration turns on, the binaries
                \* that run and the inputs that are requested
    None, Torn

VARIABLES
    setup,      \* fixed
    process,    \* a worker's process: its tool, session memo and flags
    act,        \* the action it serves
    entry       \* the files of the result cache

running == <<process, act, entry>>
unitVars == <<setup, running>>

\* What the declared inputs say, for the key and for the driver.
Inputs == [src : Sources, conf : Configs, only : {"", "unknown"}]
Keys == [tool : setup.tools, input : setup.inputs]
Memo(i) == [conf |-> i.conf, only |-> i.only]

ASSUME UnitAssumption ==
    /\ \A s \in Setups : /\ DOMAIN s.flags = Configs
                          /\ s.tools \subseteq Tools
                          /\ s.inputs \subseteq Inputs
    /\ None \notin {Memo(i) : i \in Inputs}

NoProcess == [tool |-> None, memo |-> None, flags |-> {}]
NoAction == [pc |-> "off", input |-> None, key |-> None, got |-> None,
             sarif |-> None, facts |-> None, code |-> None]
Waiting == [NoAction EXCEPT !.pc = "idle"]

At(w, l) == act[w].pc = l

\* What an action that fails has written is not used: the build fails.
Ends(w, code) ==
    act' = [act EXCEPT ![w] = IF code = "success"
                               THEN [@ EXCEPT !.pc = "done", !.code = code, !.key = None]
                               ELSE [NoAction EXCEPT !.pc = "done", !.code = code]]

Init ==
    /\ setup \in Setups
    /\ process = [w \in Workers |-> NoProcess]
    /\ act = [w \in Workers |-> NoAction]
    /\ entry = [k \in Keys |-> None]

----------------------------------------------------------------------------
(* newUnitSession and the worker loop *)

Start(w, tool) ==
    /\ At(w, "off")
    /\ process' = [process EXCEPT ![w] = [NoProcess EXCEPT !.tool = tool]]
    /\ act' = [act EXCEPT ![w] = Waiting]
    /\ UNCHANGED entry

Request(w, i) ==
    /\ At(w, "idle")
    /\ act' = [act EXCEPT ![w] = [Waiting EXCEPT !.pc = "lookup", !.input = i]]
    /\ UNCHANGED <<process, entry>>

\* A cancellation is acknowledged; a sandboxed request, one without --cfg and
\* one whose unit.json does not load are answered with an error.
Reject(w, code) ==
    /\ At(w, "idle")
    /\ Ends(w, code)
    /\ UNCHANGED <<process, entry>>

\* The response is written, and the heap is given back.
Respond(w) ==
    /\ At(w, "done")
    /\ act' = [act EXCEPT ![w] = Waiting]
    /\ UNCHANGED <<process, entry>>

\* The input ends or has a malformed line, the response cannot be written, or
\* the process is killed.
Exit(w) ==
    /\ ~At(w, "off")
    /\ process' = [process EXCEPT ![w] = NoProcess]
    /\ act' = [act EXCEPT ![w] = NoAction]
    /\ UNCHANGED entry

----------------------------------------------------------------------------
(* unitCacheLookup *)

KeyWithoutConfig(w) ==
    [tool |-> process[w].tool,
     input |-> CHOOSE i \in setup.inputs : i.src = act[w].input.src]

\* ComputeKey: the binary, unit.json and the content of every file it names.
Key(w) == [tool |-> process[w].tool, input |-> act[w].input]

FoundTruncated(k) == IF entry[k] = Torn THEN [sarif |-> None, facts |-> None] ELSE entry[k]

\* decodeEntry checks magic, checksum and key: no part of a damaged entry is
\* served.
Found(k) == IF entry[k] # Torn THEN entry[k] ELSE None

\* A session without a cache (it could not be opened, or the binary could not be
\* identified) and an unreadable input leave the action without a key.
Lookup(w) ==
    /\ At(w, "lookup")
    /\ \/ act' = [act EXCEPT ![w].key = Key(w), ![w].got = Found(Key(w)),
                             ![w].pc = IF Found(Key(w)) = None THEN "run" ELSE "replay"]
       \/ act' = [act EXCEPT ![w].pc = "run"]
    /\ UNCHANGED <<process, entry>>

\* Entry.Write: SARIF, then facts. A failure falls back to a cold run.
Replay(w) ==
    /\ At(w, "replay")
    /\ \/ act' = [act EXCEPT ![w].sarif = act[w].got.sarif, ![w].facts = act[w].got.facts,
                             ![w].got = None, ![w].key = None, ![w].pc = "done", ![w].code = "success"]
       \/ act' = [act EXCEPT ![w].sarif = act[w].got.sarif, ![w].got = None, ![w].pc = "run"]
       \/ act' = [act EXCEPT ![w].got = None, ![w].pc = "run"]
    /\ UNCHANGED <<process, entry>>

----------------------------------------------------------------------------
(* The session and unit.Run *)

\* registry.BuildFromConfig, for its effect on the flags of the analyzers.
Build(flags, c) == (flags \cap Sticky) \cup setup.flags[c]

\* What unit.Run writes. Analyzers run on a package that compiles, as their flags
\* are; otherwise its errors are the findings, and its facts are empty. A go.mod
\* is linted without analyzers. The findings pass the configured exclusions.
Sarif(tool, i, flags) ==
    [tool |-> tool, src |-> i.src, conf |-> i.conf,
     flags |-> IF i.src \in Broken \cup Modules THEN {} ELSE flags]

NoFacts == [src |-> None]

Facts(tool, i, flags) ==
    IF i.src \in Modules THEN None
    ELSE IF i.src \in Broken THEN NoFacts ELSE Sarif(tool, i, flags)

MemoByPath(w) == process[w].memo # None

\* The memo is for the same path, content and enable_only list.
Memoized(w) == process[w].memo = Memo(act[w].input)

\* SelectAnalyzers or NewFilter fails, after BuildFromConfig has succeeded.
FailsBuilt(i) == i.only = "unknown" \/ i.conf \in Unfilterable

\* The configuration is read, loaded and validated, the registry built, and only
\* a session that gets through all of it is remembered. Whatever fails before
\* the registry is built, reading the file included, changes nothing.
Rebuild(w) ==
    LET i == act[w].input
        flags == Build(process[w].flags, i.conf) IN
    /\ At(w, "run") /\ ~Memoized(w)
    /\ \/ /\ UNCHANGED process
          /\ Ends(w, "error")
       \/ /\ i.conf \notin Invalid /\ FailsBuilt(i)
          /\ process' = [process EXCEPT ![w].flags = flags]
          /\ Ends(w, "error")
       \/ /\ i.conf \notin Invalid /\ ~FailsBuilt(i)
          /\ process' = [process EXCEPT ![w].flags = flags, ![w].memo = Memo(i)]
          /\ UNCHANGED act
    /\ UNCHANGED entry

\* SARIF is written before the facts; unusable inputs or a failed write are an
\* error, whether or not the SARIF has been written.
Run(w) ==
    LET sarif == Sarif(process[w].tool, act[w].input, process[w].flags)
        facts == Facts(process[w].tool, act[w].input, process[w].flags) IN
    /\ At(w, "run") /\ Memoized(w)
    /\ \/ Ends(w, "error")
       \/ act' = [act EXCEPT ![w].sarif = sarif, ![w].facts = facts, ![w].pc = "store"]
    /\ UNCHANGED <<process, entry>>

\* ReadOutputs and Put, by rename: the last writer wins. A failure is a note.
Store(w) ==
    /\ At(w, "store")
    /\ Ends(w, "success")
    /\ \/ /\ act[w].key # None
          /\ entry' = [entry EXCEPT ![act[w].key] = [sarif |-> act[w].sarif, facts |-> act[w].facts]]
       \/ UNCHANGED entry
    /\ UNCHANGED process

\* A file rots, one at a time.
Rot(k) ==
    /\ \A l \in Keys : entry[l] # Torn
    /\ entry[k] # None
    /\ entry' = [entry EXCEPT ![k] = Torn]
    /\ UNCHANGED <<process, act>>

Step(w) == Lookup(w) \/ Replay(w) \/ Rebuild(w) \/ Run(w) \/ Store(w) \/ Respond(w)

Next ==
    /\ \/ \E w \in Workers :
            \/ Step(w) \/ Exit(w)
            \/ \E tool \in setup.tools : Start(w, tool)
            \/ \E i \in setup.inputs : Request(w, i)
            \/ \E code \in {"cancelled", "error"} : Reject(w, code)
       \/ \E k \in Keys : Rot(k)
    /\ UNCHANGED setup

Spec == Init /\ [][Next]_unitVars
----------------------------------------------------------------------------
Findings == [tool : Tools, src : Sources, conf : Configs,
             flags : SUBSET UNION {setup.flags[c] : c \in Configs}]
FactSets == Findings \cup {None, NoFacts}

\* Types of processes, actions and cache files; an action that succeeds has
\* written findings.
TypeOK ==
    /\ \A w \in Workers :
         /\ process[w].tool \in Tools \cup {None}
         /\ process[w].memo \in {None} \cup {Memo(i) : i \in Inputs}
         /\ act[w].pc \in {"off", "idle", "lookup", "replay", "run", "store", "done"}
         /\ act[w].sarif \in Findings \cup {None}
         /\ At(w, "done") /\ act[w].code = "success" => act[w].sarif \in Findings
         /\ act[w].facts \in FactSets
         /\ act[w].key \in Keys \cup {None}
    /\ \A k \in Keys : entry[k] \in {None, Torn} \cup [sarif : Findings, facts : FactSets]

\* What a process of its own would have written.
Cold(tool, i) ==
    LET flags == Build({}, i.conf)
    IN [sarif |-> Sarif(tool, i, flags), facts |-> Facts(tool, i, flags)]

\* "a hit reproduces a cold run's outputs byte for byte" (printUnitHelp): an
\* action that succeeds has left the outputs of a cold run, whether it ran, was
\* served what another worker stored, or fell back half way through a replay,
\* and whatever its worker has served before.
ReproducesColdRun ==
    \A w \in Workers : At(w, "done") /\ act[w].code = "success" =>
        [sarif |-> act[w].sarif, facts |-> act[w].facts] = Cold(process[w].tool, act[w].input)

\* "an entry can only be reached by an action whose declared inputs and tool are
\* byte-identical to the ones that produced it" (package unitcache): whatever is
\* stored under a key is what a cold run of the key's inputs writes.
EntriesHonest ==
    \A k \in Keys : entry[k] \notin {None, Torn} => entry[k] = Cold(k.tool, k.input)
============================================================================
