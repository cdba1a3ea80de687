-------------------------- MODULE UnitActionProofs --------------------------
(***************************************************************************)
(* Proofs about UnitAction: when the configurations a worker may meet agree  *)
(* on the sticky flags, whatever a worker writes, and whatever the cache     *)
(* holds, is what a process of its own would have written.                   *)
(***************************************************************************)
EXTENDS UnitAction, TLAPS

\* The requests that get as far as building a registry.
Built(s) == {i \in s.inputs : i.conf \notin Invalid}

\* No flag of one configuration survives in a process that goes on to another:
\* they agree on the flags that are never reset, and one whose session fails
\* after the registry was built agrees with the remembered one on all flags.
Steady(s) ==
    \A i, j \in Built(s) :
        /\ s.flags[i.conf] \cap Sticky = s.flags[j.conf] \cap Sticky
        /\ FailsBuilt(i) => s.flags[i.conf] = s.flags[j.conf]

\* The records have their fields.
Shape ==
    /\ DOMAIN act = Workers /\ DOMAIN process = Workers /\ DOMAIN entry = Keys
    /\ \A w \in Workers :
         /\ DOMAIN act[w] = {"pc", "input", "key", "got", "sarif", "facts", "code"}
         /\ DOMAIN process[w] = {"tool", "memo", "flags"}

\* The flags of a process: only sticky ones that every configuration turns on
\* are left over, and a remembered session has the flags of its configuration.
FlagsInv(w) ==
    /\ \A j \in Built(setup) : process[w].flags \cap Sticky \subseteq setup.flags[j.conf]
    /\ \A i \in setup.inputs :
         process[w].memo = Memo(i) => /\ i \in Built(setup)
                                      /\ process[w].flags = setup.flags[i.conf]

ActionInv(w) ==
    /\ act[w].pc \in {"lookup", "replay", "run", "store"} =>
         act[w].input \in setup.inputs
    /\ act[w].pc # "off" => process[w].tool \in setup.tools
    /\ act[w].pc \in {"replay", "run", "store"} => act[w].key \in {None, Key(w)}
    /\ act[w].pc = "lookup" => act[w].key = None
    /\ act[w].pc = "replay" => act[w].got = Cold(process[w].tool, act[w].input)
    /\ act[w].pc = "store" \/ (act[w].pc = "done" /\ act[w].code = "success") =>
         [sarif |-> act[w].sarif, facts |-> act[w].facts] = Cold(process[w].tool, act[w].input)

UnitInv ==
    /\ setup \in Setups
    /\ Shape
    /\ \A w \in Workers : FlagsInv(w) /\ ActionInv(w)
    /\ EntriesHonest

\* Steady configurations: a build leaves exactly the flags of its configuration.
LEMMA BuildSettles ==
    ASSUME UnitInv, Steady(setup), NEW w \in Workers, NEW i \in Built(setup)
    PROVE  /\ Build(process[w].flags, i.conf) = setup.flags[i.conf]
           /\ Build({}, i.conf) = setup.flags[i.conf]
    BY Zenon DEF UnitInv, FlagsInv, Build

\* No process runs and the result cache is empty.
LEMMA UnitInit == Init => UnitInv
<1> SUFFICES ASSUME Init PROVE UnitInv
    BY Zenon
<1>1. setup \in Setups /\ setup.inputs \subseteq Inputs
    BY Zenon, UnitAssumption DEF Init
<1>2. Shape
    BY Zenon DEF Init, Shape, NoProcess, NoAction
<1>3. ASSUME NEW w \in Workers PROVE FlagsInv(w) /\ ActionInv(w)
  <2>1. FlagsInv(w)
      BY Zenon, <1>1, UnitAssumption DEF Init, FlagsInv, NoProcess
  <2>2. ActionInv(w)
      BY Zenon DEF Init, ActionInv, NoAction
  <2> QED BY Zenon, <2>1, <2>2
<1>4. EntriesHonest
    BY Zenon DEF Init, EntriesHonest
<1> QED BY Zenon, <1>1, <1>2, <1>3, <1>4 DEF UnitInv

\* What a cold run writes does not depend on the state.
LEMMA ColdConstant ==
    ASSUME setup' = setup, NEW tool, NEW i
    PROVE  Cold(tool, i)' = Cold(tool, i)
    BY Zenon DEF Cold, Build, Sarif, Facts, NoFacts

\* A worker whose process and action a step leaves alone keeps its invariant.
LEMMA OthersKeep ==
    ASSUME UnitInv, setup' = setup, NEW v \in Workers,
           act'[v] = act[v], process'[v] = process[v]
    PROVE  (FlagsInv(v) /\ ActionInv(v))'
<1>1. FlagsInv(v)'
    BY Zenon DEF UnitInv, FlagsInv, Built
<1>2. Cold(process[v].tool, act[v].input)' = Cold(process[v].tool, act[v].input)
    BY Zenon, ColdConstant DEF Cold, Build, Sarif, Facts, NoFacts
<1>3. ActionInv(v)'
    BY Zenon, <1>2 DEF UnitInv, ActionInv, Key
<1> QED BY Zenon, <1>1, <1>3

\* A step of one worker that leaves the cache alone: its own invariant remains
\* to be shown.
LEMMA OneWorker ==
    ASSUME UnitInv, setup' = setup, entry' = entry, NEW w \in Workers, Shape',
           \A v \in Workers \ {w} : act'[v] = act[v] /\ process'[v] = process[v],
           FlagsInv(w)', ActionInv(w)'
    PROVE  UnitInv'
<1>1. ASSUME NEW v \in Workers PROVE (FlagsInv(v) /\ ActionInv(v))'
  <2>1. CASE v = w
      BY Zenon, <2>1
  <2>2. CASE v # w
      BY Zenon, <2>2, OthersKeep
  <2> QED BY Zenon, <2>1, <2>2
<1>2. EntriesHonest'
    BY ColdConstant DEF UnitInv, EntriesHonest, Keys
<1> QED BY Zenon, <1>1, <1>2 DEF UnitInv

\* The flags of a process that a step leaves alone.
LEMMA FlagsKeep ==
    ASSUME UnitInv, setup' = setup, NEW w \in Workers, process'[w] = process[w]
    PROVE  FlagsInv(w)'
    BY Zenon DEF UnitInv, FlagsInv, Built

\* A process that has just started or is gone has no flags and no session.
LEMMA ResetFlags ==
    ASSUME UnitInv, setup' = setup, NEW w \in Workers,
           process'[w].flags = {}, process'[w].memo = None
    PROVE  FlagsInv(w)'
    BY Zenon, UnitAssumption DEF UnitInv, FlagsInv

\* A worker starts with the flags of its binary.
LEMMA StepStart ==
    ASSUME UnitInv, setup' = setup, NEW w \in Workers, NEW tool \in setup.tools, Start(w, tool)
    PROVE  UnitInv'
<1>1. /\ process'[w] = [tool |-> tool, memo |-> None, flags |-> {}]
      /\ act'[w].pc = "idle" /\ entry' = entry
    BY Zenon DEF UnitInv, Shape, Start, NoProcess, Waiting, NoAction
<1>2. Shape' /\ \A v \in Workers \ {w} : act'[v] = act[v] /\ process'[v] = process[v]
    BY Zenon DEF UnitInv, Shape, Start, NoProcess, Waiting, NoAction, Keys
<1>3. FlagsInv(w)'
    BY <1>1, ResetFlags
<1>4. ActionInv(w)'
    BY <1>1 DEF ActionInv
<1> QED BY Zenon, <1>1, <1>2, <1>3, <1>4, OneWorker

\* A worker that ends or is killed leaves the cache as it is.
LEMMA StepExit ==
    ASSUME UnitInv, setup' = setup, NEW w \in Workers, Exit(w)
    PROVE  UnitInv'
<1>1. /\ process'[w] = [tool |-> None, memo |-> None, flags |-> {}]
      /\ act'[w].pc = "off" /\ entry' = entry
    BY Zenon DEF UnitInv, Shape, Exit, NoProcess, NoAction
<1>2. Shape' /\ \A v \in Workers \ {w} : act'[v] = act[v] /\ process'[v] = process[v]
    BY Zenon DEF UnitInv, Shape, Exit, NoProcess, NoAction, Keys
<1>3. FlagsInv(w)'
    BY <1>1, ResetFlags
<1>4. ActionInv(w)'
    BY Zenon, <1>1 DEF ActionInv
<1> QED BY Zenon, <1>1, <1>2, <1>3, <1>4, OneWorker

\* A request that arrives has not looked anything up.
LEMMA StepRequest ==
    ASSUME UnitInv, setup' = setup, NEW w \in Workers, NEW i \in setup.inputs, Request(w, i)
    PROVE  UnitInv'
<1>1. /\ process' = process /\ entry' = entry /\ act[w].pc = "idle"
      /\ act'[w].pc = "lookup" /\ act'[w].input = i /\ act'[w].key = None
    BY Zenon DEF UnitInv, Shape, Request, Waiting, NoAction, At
<1>2. Shape' /\ \A v \in Workers \ {w} : act'[v] = act[v] /\ process'[v] = process[v]
    BY Zenon DEF UnitInv, Shape, Request, Waiting, NoAction, Keys
<1>3. ActionInv(w)'
    BY Zenon, <1>1 DEF UnitInv, ActionInv
<1> QED BY Zenon, <1>1, <1>2, <1>3, OneWorker, FlagsKeep

\* An action that ends with anything but success.
LEMMA Failed ==
    ASSUME UnitInv, setup' = setup, NEW w \in Workers, NEW code, code # "success",
           Ends(w, code), process' = process, entry' = entry, act[w].pc # "off"
    PROVE  UnitInv'
<1>1. act'[w].pc = "done" /\ act'[w].code = code
    BY Zenon DEF UnitInv, Shape, Ends, NoAction
<1>2. Shape' /\ \A v \in Workers \ {w} : act'[v] = act[v] /\ process'[v] = process[v]
    BY Zenon DEF UnitInv, Shape, Ends, NoAction, Keys
<1>3. ActionInv(w)'
    BY Zenon, <1>1 DEF UnitInv, ActionInv
<1> QED BY Zenon, <1>2, <1>3, OneWorker, FlagsKeep

\* A response leaves flags and cache as they are.
LEMMA StepRespond ==
    ASSUME UnitInv, setup' = setup, NEW w \in Workers, Respond(w)
    PROVE  UnitInv'
<1>1. /\ process' = process /\ entry' = entry /\ act[w].pc = "done" /\ act'[w].pc = "idle"
    BY Zenon DEF UnitInv, Shape, Respond, Waiting, NoAction, At
<1>2. Shape' /\ \A v \in Workers \ {w} : act'[v] = act[v] /\ process'[v] = process[v]
    BY Zenon DEF UnitInv, Shape, Respond, Waiting, NoAction, Keys
<1>3. ActionInv(w)'
    BY Zenon, <1>1 DEF UnitInv, ActionInv
<1> QED BY Zenon, <1>1, <1>2, <1>3, OneWorker, FlagsKeep

\* What a lookup finds under a key is what a cold run would have written.
LEMMA FoundHonest ==
    ASSUME UnitInv, NEW w \in Workers, act[w].pc = "lookup", Found(Key(w)) # None
    PROVE  Found(Key(w)) = Cold(process[w].tool, act[w].input)
<1>1. Key(w) \in Keys
    BY Zenon DEF UnitInv, ActionInv, Key, Keys
<1>2. entry[Key(w)] \notin {None, Torn} /\ Found(Key(w)) = entry[Key(w)]
    BY Zenon DEF Found
<1>3. entry[Key(w)] = Cold(Key(w).tool, Key(w).input)
    BY Zenon, <1>1, <1>2 DEF UnitInv, EntriesHonest
<1> QED BY Zenon, <1>2, <1>3 DEF Key

\* A hit hands an honest entry to the replay, a miss goes on to run.
LEMMA StepLookup ==
    ASSUME UnitInv, setup' = setup, NEW w \in Workers, Lookup(w)
    PROVE  UnitInv'
<1>1. /\ process' = process /\ entry' = entry /\ act[w].pc = "lookup"
      /\ act'[w].input = act[w].input
      /\ \/ /\ act'[w].pc = "replay" /\ act'[w].key = Key(w)
            /\ Found(Key(w)) # None /\ act'[w].got = Found(Key(w))
         \/ act'[w].pc = "run" /\ act'[w].key \in {act[w].key, Key(w)}
    BY DEF UnitInv, Shape, Lookup, At
<1>2. Shape' /\ \A v \in Workers \ {w} : act'[v] = act[v] /\ process'[v] = process[v]
    BY Zenon DEF UnitInv, Shape, Lookup, Keys
<1>3. Cold(process[w].tool, act[w].input)' = Cold(process[w].tool, act[w].input)
    BY Zenon, <1>1, ColdConstant DEF Cold, Build, Sarif, Facts, NoFacts
<1>4. Key(w)' = Key(w)
    BY Zenon, <1>1 DEF Key
<1>5. ActionInv(w)'
    BY Zenon, <1>1, <1>3, <1>4, FoundHonest DEF UnitInv, ActionInv
<1> QED BY Zenon, <1>1, <1>2, <1>5, OneWorker, FlagsKeep

\* A replay writes what the entry holds; one that fails falls back to the run.
LEMMA StepReplay ==
    ASSUME UnitInv, setup' = setup, NEW w \in Workers, Replay(w)
    PROVE  UnitInv'
<1>1. /\ process' = process /\ entry' = entry /\ act[w].pc = "replay"
      /\ act'[w].input = act[w].input
      /\ \/ /\ act'[w].pc = "done"
            /\ act'[w].sarif = act[w].got.sarif /\ act'[w].facts = act[w].got.facts
         \/ act'[w].pc = "run" /\ act'[w].key = act[w].key
  <2>1. process' = process /\ entry' = entry /\ act[w].pc = "replay"
      BY Zenon DEF Replay, At
  <2>2. CASE act' = [act EXCEPT ![w].sarif = act[w].got.sarif, ![w].facts = act[w].got.facts,
                                ![w].got = None, ![w].key = None, ![w].pc = "done",
                                ![w].code = "success"]
    <3>1. act'[w] = [act[w] EXCEPT !.sarif = act[w].got.sarif, !.facts = act[w].got.facts,
                                   !.got = None, !.key = None, !.pc = "done", !.code = "success"]
        BY Zenon, <2>2 DEF UnitInv, Shape
    <3>2. act'[w].input = act[w].input /\ act'[w].pc = "done"
        BY Zenon, <3>1 DEF UnitInv, Shape
    <3>3. act'[w].sarif = act[w].got.sarif /\ act'[w].facts = act[w].got.facts
        BY Zenon, <3>1 DEF UnitInv, Shape
    <3> QED BY Zenon, <2>1, <3>2, <3>3
  <2>3. CASE act' = [act EXCEPT ![w].sarif = act[w].got.sarif, ![w].got = None, ![w].pc = "run"]
      BY <2>1, <2>3, SMTT(30) DEF UnitInv, Shape
  <2>4. CASE act' = [act EXCEPT ![w].got = None, ![w].pc = "run"]
      BY Zenon, <2>1, <2>4 DEF UnitInv, Shape
  <2> QED BY Zenon, <2>2, <2>3, <2>4 DEF Replay
<1>2. Shape' /\ \A v \in Workers \ {w} : act'[v] = act[v] /\ process'[v] = process[v]
    BY Zenon DEF UnitInv, Shape, Replay, Keys
<1>3. Cold(process[w].tool, act[w].input)' = Cold(process[w].tool, act[w].input)
    BY Zenon, <1>1, ColdConstant DEF Cold, Build, Sarif, Facts, NoFacts
<1>4. Key(w)' = Key(w)
    BY Zenon, <1>1 DEF Key
<1>5. act[w].got = [sarif |-> act[w].got.sarif, facts |-> act[w].got.facts]
  <2>1. act[w].got = Cold(process[w].tool, act[w].input)
      BY Zenon, <1>1 DEF UnitInv, ActionInv
  <2>2. PICK sarif, facts : act[w].got = [sarif |-> sarif, facts |-> facts]
      BY Zenon, <2>1 DEF Cold
  <2> QED BY Zenon, <2>2
<1>6. ActionInv(w)'
    BY Zenon, <1>1, <1>3, <1>4, <1>5 DEF UnitInv, ActionInv
<1> QED BY Zenon, <1>1, <1>2, <1>6, OneWorker, FlagsKeep

\* Building a session sets the flags of its configuration, the sticky ones of a
\* steady setup included.
LEMMA StepRebuild ==
    ASSUME UnitInv, Steady(setup), setup' = setup, NEW w \in Workers, Rebuild(w)
    PROVE  UnitInv'
<1> DEFINE i == act[w].input
<1>1. entry' = entry /\ act[w].pc = "run" /\ i \in setup.inputs
    BY Zenon DEF UnitInv, ActionInv, Rebuild, At
<1>2. CASE UNCHANGED process /\ Ends(w, "error")
    BY Zenon, <1>1, <1>2, Failed
<1>3. CASE /\ i.conf \notin Invalid
           /\ \/ /\ FailsBuilt(i) /\ Ends(w, "error")
                 /\ process' = [process EXCEPT ![w].flags = Build(process[w].flags, i.conf)]
              \/ /\ ~FailsBuilt(i) /\ UNCHANGED act
                 /\ process' = [process EXCEPT ![w].flags = Build(process[w].flags, i.conf),
                                               ![w].memo = Memo(i)]
  <2>1. i \in Built(setup) /\ Build(process[w].flags, i.conf) = setup.flags[i.conf]
      BY Zenon, <1>1, <1>3, BuildSettles DEF Built
  <2>2. /\ process'[w].flags = setup.flags[i.conf] /\ process'[w].tool = process[w].tool
        /\ \/ FailsBuilt(i) /\ process'[w].memo = process[w].memo
           \/ ~FailsBuilt(i) /\ process'[w].memo = Memo(i)
      BY <1>3, <2>1 DEF UnitInv, Shape
  <2>3. \/ act'[w].pc = "done" /\ act'[w].code = "error"
        \/ act' = act
    <3>1. Ends(w, "error") \/ act' = act
        BY Zenon, <1>3
    <3>2. Ends(w, "error") => act'[w].pc = "done" /\ act'[w].code = "error"
        BY DEF UnitInv, Shape, Ends, NoAction
    <3> QED BY Zenon, <3>1, <3>2
  <2>4. Shape' /\ \A v \in Workers \ {w} : act'[v] = act[v] /\ process'[v] = process[v]
    <3>1. /\ DOMAIN process' = Workers /\ DOMAIN process'[w] = {"tool", "memo", "flags"}
          /\ \A v \in Workers \ {w} : process'[v] = process[v]
        BY Zenon, <1>3 DEF UnitInv, Shape
    <3>2. Ends(w, "error") \/ act' = act
        BY Zenon, <1>3
    <3>3. /\ DOMAIN act' = Workers /\ \A v \in Workers \ {w} : act'[v] = act[v]
          /\ DOMAIN act'[w] = {"pc", "input", "key", "got", "sarif", "facts", "code"}
        BY Zenon, <3>2 DEF UnitInv, Shape, Ends, NoAction
    <3> QED BY Zenon, <1>1, <3>1, <3>3 DEF UnitInv, Shape, Keys
  <2>5. FlagsInv(w)'
    <3>1. \A j \in Built(setup) : process'[w].flags \cap Sticky \subseteq setup.flags[j.conf]
        BY Zenon, <2>1, <2>2 DEF Steady
    <3>2. ASSUME NEW j \in setup.inputs, process'[w].memo = Memo(j)
          PROVE  j \in Built(setup) /\ process'[w].flags = setup.flags[j.conf]
      <4>1. CASE FailsBuilt(i)
          BY Zenon, <2>1, <2>2, <3>2, <4>1 DEF UnitInv, FlagsInv, Steady
      <4>2. CASE ~FailsBuilt(i)
          BY SMTT(30), <2>1, <2>2, <3>2, <4>2 DEF Memo, Built
      <4> QED BY Zenon, <4>1, <4>2
    <3> QED BY Zenon, <3>1, <3>2 DEF FlagsInv, Built
  <2>6. Cold(process[w].tool, act[w].input)' = Cold(process[w].tool, act'[w].input)
      BY Zenon, <2>2, ColdConstant DEF Cold, Build, Sarif, Facts, NoFacts
  <2>7. ActionInv(w)'
    <3>1. CASE act'[w].pc = "done" /\ act'[w].code = "error"
        BY Zenon, <1>1, <2>2, <3>1 DEF UnitInv, ActionInv
    <3>2. CASE act' = act
        BY Zenon, <1>1, <2>2, <3>2 DEF UnitInv, ActionInv, Key
    <3> QED BY Zenon, <2>3, <3>1, <3>2
  <2> QED BY Zenon, <1>1, <2>4, <2>5, <2>7, OneWorker
<1> QED BY Zenon, <1>2, <1>3 DEF Rebuild

\* A run under the flags of its configuration writes what a cold run writes.
LEMMA StepRun ==
    ASSUME UnitInv, Steady(setup), setup' = setup, NEW w \in Workers, Run(w)
    PROVE  UnitInv'
<1> DEFINE i == act[w].input
<1>1. /\ process' = process /\ entry' = entry
      /\ act[w].pc = "run" /\ i \in setup.inputs /\ process[w].memo = Memo(i)
    BY Zenon DEF UnitInv, ActionInv, Run, At, Memoized
<1>2. CASE Ends(w, "error")
    BY Zenon, <1>1, <1>2, Failed
<1>3. CASE ~Ends(w, "error")
  <2>1. /\ act'[w].pc = "store" /\ act'[w].input = i /\ act'[w].key = act[w].key
        /\ act'[w].sarif = Sarif(process[w].tool, i, process[w].flags)
        /\ act'[w].facts = Facts(process[w].tool, i, process[w].flags)
      BY <1>3 DEF UnitInv, Shape, Run
  <2>2. Shape' /\ \A v \in Workers \ {w} : act'[v] = act[v] /\ process'[v] = process[v]
      BY Zenon, <1>3 DEF UnitInv, Shape, Run, Keys
  <2>3. i \in Built(setup) /\ process[w].flags = setup.flags[i.conf]
      BY Zenon, <1>1 DEF UnitInv, FlagsInv
  <2>4. Build({}, i.conf) = process[w].flags
      BY Zenon, <2>3, BuildSettles
  <2>5. [sarif |-> act'[w].sarif, facts |-> act'[w].facts] = Cold(process[w].tool, i)
      BY Zenon, <2>1, <2>4 DEF Cold
  <2>6. Cold(process[w].tool, act[w].input)' = Cold(process[w].tool, i)
      BY Zenon, <1>1, <2>1, ColdConstant DEF Cold, Build, Sarif, Facts, NoFacts
  <2>7. Key(w)' = Key(w)
      BY Zenon, <1>1, <2>1 DEF Key
  <2>8. ActionInv(w)'
      BY Zenon, <1>1, <2>1, <2>5, <2>6, <2>7 DEF UnitInv, ActionInv
  <2> QED BY Zenon, <1>1, <2>2, <2>8, OneWorker, FlagsKeep
<1> QED BY Zenon, <1>2, <1>3

\* What is stored is what the run has written, under the key of its inputs.
LEMMA StepStore ==
    ASSUME UnitInv, setup' = setup, NEW w \in Workers, Store(w)
    PROVE  UnitInv'
<1> DEFINE outputs == [sarif |-> act[w].sarif, facts |-> act[w].facts]
<1>1. /\ process' = process /\ act[w].pc = "store" /\ act'[w].pc = "done"
      /\ act'[w].input = act[w].input
      /\ act'[w].sarif = act[w].sarif /\ act'[w].facts = act[w].facts
    BY Zenon DEF UnitInv, Shape, Store, Ends, At
<1>2. Shape' /\ \A v \in Workers \ {w} : act'[v] = act[v] /\ process'[v] = process[v]
    BY Zenon DEF UnitInv, Shape, Store, Ends, NoAction, Keys
<1>3. Cold(process[w].tool, act[w].input)' = Cold(process[w].tool, act[w].input)
    BY Zenon, <1>1, ColdConstant DEF Cold, Build, Sarif, Facts, NoFacts
<1>4. ActionInv(w)'
    BY Zenon, <1>1, <1>3 DEF UnitInv, ActionInv
<1>5. ASSUME NEW v \in Workers PROVE (FlagsInv(v) /\ ActionInv(v))'
  <2>1. CASE v = w
      BY Zenon, <1>1, <1>4, <2>1, FlagsKeep
  <2>2. CASE v # w
      BY Zenon, <1>2, <2>2, OthersKeep
  <2> QED BY Zenon, <2>1, <2>2
<1>6. outputs = Cold(process[w].tool, act[w].input)
    BY Zenon, <1>1 DEF UnitInv, ActionInv
<1>7. \A k \in Keys : entry'[k] = entry[k] \/ (k = Key(w) /\ entry'[k] = outputs)
    BY Zenon, <1>1 DEF UnitInv, Shape, ActionInv, Store
<1>8. \A k \in Keys : entry'[k] = entry[k] \/ entry'[k] = Cold(k.tool, k.input)
    BY <1>6, <1>7 DEF Key
<1>9. EntriesHonest'
    BY SMTT(30), <1>8, ColdConstant DEF UnitInv, EntriesHonest, Keys
<1> QED BY Zenon, <1>2, <1>5, <1>9 DEF UnitInv

\* A damaged file is no entry any more.
LEMMA StepRot ==
    ASSUME UnitInv, setup' = setup, NEW k \in Keys, Rot(k)
    PROVE  UnitInv'
<1>1. process' = process /\ act' = act /\ \A l \in Keys : entry'[l] \in {entry[l], Torn}
    BY Zenon DEF UnitInv, Shape, Rot
<1>2. Shape'
    BY Zenon DEF UnitInv, Shape, Rot, Keys
<1>3. \A w \in Workers : (FlagsInv(w) /\ ActionInv(w))'
    BY Zenon, <1>1, OthersKeep
<1>4. EntriesHonest'
    BY <1>1, ColdConstant DEF UnitInv, EntriesHonest, Keys
<1> QED BY Zenon, <1>2, <1>3, <1>4 DEF UnitInv

\* A step in a steady setup keeps the invariant.
LEMMA UnitStep ==
    ASSUME UnitInv, Steady(setup), [Next]_unitVars
    PROVE  UnitInv'
<1>1. CASE UNCHANGED unitVars
  <2>1. /\ setup' = setup /\ process' = process /\ act' = act /\ entry' = entry
      BY Zenon, <1>1 DEF unitVars, running
  <2>2. Shape'
      BY Zenon, <2>1 DEF UnitInv, Shape, Keys
  <2>3. \A w \in Workers : (FlagsInv(w) /\ ActionInv(w))'
      BY Zenon, <2>1, OthersKeep
  <2>4. EntriesHonest'
      BY Zenon, <2>1, ColdConstant DEF UnitInv, EntriesHonest, Keys
  <2> QED BY Zenon, <2>1, <2>2, <2>3, <2>4 DEF UnitInv
<1>2. CASE Next
  <2>1. setup' = setup
      BY Zenon, <1>2 DEF Next
  <2>2. ASSUME NEW w \in Workers, Step(w) PROVE UnitInv'
      BY Zenon, <2>1, <2>2, StepLookup, StepReplay, StepRebuild, StepRun, StepStore, StepRespond DEF Step
  <2>3. ASSUME NEW w \in Workers, Exit(w) PROVE UnitInv'
      BY Zenon, <2>1, <2>3, StepExit
  <2>4. ASSUME NEW w \in Workers, NEW tool \in setup.tools, Start(w, tool) PROVE UnitInv'
      BY Zenon, <2>1, <2>4, StepStart
  <2>5. ASSUME NEW w \in Workers, NEW i \in setup.inputs, Request(w, i) PROVE UnitInv'
      BY Zenon, <2>1, <2>5, StepRequest
  <2>6. ASSUME NEW w \in Workers, NEW code \in {"cancelled", "error"}, Reject(w, code) PROVE UnitInv'
    <3>1. act[w].pc # "off" /\ process' = process /\ entry' = entry /\ Ends(w, code)
        BY Zenon, <2>6 DEF Reject, At
    <3> QED BY Zenon, <2>1, <3>1, Failed
  <2>7. ASSUME NEW k \in Keys, Rot(k) PROVE UnitInv'
      BY Zenon, <2>1, <2>7, StepRot
  <2> QED BY Zenon, <1>2, <2>2, <2>3, <2>4, <2>5, <2>6, <2>7 DEF Next
<1> QED BY Zenon, <1>1, <1>2

\* With configurations that leave no flag behind, the invariant holds for any
\* number of workers, binaries, sources and configurations, whatever the workers
\* served before, and through kills, failed replays, failed writes and rot.
THEOREM UnitInvariant ==
    ASSUME \A s \in Setups : Steady(s)
    PROVE  Spec => []UnitInv
<1>1. UnitInv => Steady(setup)
    BY Zenon DEF UnitInv
<1> QED BY UnitInit, UnitStep, <1>1, PTL DEF Spec

\* An action that succeeds has left what a process of its own would have written
\* (unitOnce, unit.Run, Entry.Write).
THEOREM UnitReproduces ==
    ASSUME \A s \in Setups : Steady(s)
    PROVE  Spec => []ReproducesColdRun
<1>1. UnitInv => ReproducesColdRun
    BY Zenon DEF UnitInv, ActionInv, ReproducesColdRun, At
<1> QED BY UnitInvariant, <1>1, PTL

\* Whatever is stored under a key is what a cold run of the key's inputs writes
\* (unitCacheAttempt.store, Store.Put).
THEOREM UnitEntries ==
    ASSUME \A s \in Setups : Steady(s)
    PROVE  Spec => []EntriesHonest
<1>1. UnitInv => EntriesHonest
    BY Zenon DEF UnitInv
<1> QED BY UnitInvariant, <1>1, PTL

----------------------------------------------------------------------------
(* Types, whatever the configurations do to the flags *)

Outputs == [sarif : Findings, facts : FactSets]

\* A worker between two requests has nothing to be typed; one that serves a
\* request has declared inputs, and outputs once it has run.
TypedAt(w) ==
    /\ process[w].tool \in Tools \cup {None}
    /\ process[w].memo \in {None} \cup {Memo(i) : i \in Inputs}
    /\ process[w].flags \subseteq UNION {setup.flags[c] : c \in Configs}
    /\ act[w].pc \in {"off", "idle", "lookup", "replay", "run", "store", "done"}
    /\ act[w].sarif \in Findings \cup {None}
    /\ act[w].facts \in FactSets
    /\ act[w].key \in Keys \cup {None}
    /\ act[w].pc # "off" => process[w].tool \in setup.tools
    /\ act[w].pc \in {"lookup", "replay", "run", "store"} => act[w].input \in setup.inputs
    /\ act[w].pc = "replay" => act[w].got \in Outputs
    /\ act[w].pc = "store" \/ (act[w].pc = "done" /\ act[w].code = "success") =>
         act[w].sarif \in Findings

TypeInv ==
    /\ setup \in Setups
    /\ Shape
    /\ \A w \in Workers : TypedAt(w)
    /\ \A k \in Keys : entry[k] \in {None, Torn} \cup Outputs

\* The setup does not change, and neither do the sets of outputs and keys.
LEMMA TypesKept ==
    ASSUME setup' = setup
    PROVE  Findings' = Findings /\ FactSets' = FactSets /\ Outputs' = Outputs /\ Keys' = Keys
    BY Zenon DEF Findings, FactSets, Outputs, Keys, NoFacts

\* A worker that a step leaves alone.
LEMMA TypedElsewhere ==
    ASSUME TypeInv, setup' = setup, NEW v \in Workers,
           act'[v] = act[v], process'[v] = process[v]
    PROVE  TypedAt(v)'
    BY Zenon, TypesKept DEF TypeInv, TypedAt

\* A step of one worker.
LEMMA TypedWorker ==
    ASSUME TypeInv, setup' = setup, NEW w \in Workers, Shape',
           \A v \in Workers \ {w} : act'[v] = act[v] /\ process'[v] = process[v],
           TypedAt(w)',
           \A k \in Keys : entry'[k] \in {None, Torn} \cup Outputs
    PROVE  TypeInv'
<1>1. ASSUME NEW v \in Workers PROVE TypedAt(v)'
  <2>1. CASE v = w
      BY Zenon, <2>1
  <2>2. CASE v # w
      BY Zenon, <2>2, TypedElsewhere
  <2> QED BY Zenon, <2>1, <2>2
<1> QED BY Zenon, <1>1, TypesKept DEF TypeInv

\* What a cleared action holds.
LEMMA NoneTyped == NoAction.sarif \in Findings \cup {None} /\ NoAction.facts \in FactSets
                   /\ NoAction.key \in Keys \cup {None}
    BY Zenon DEF NoAction, FactSets

\* The initial state is typed.
LEMMA TypesInit == Init => TypeInv
<1> SUFFICES ASSUME Init PROVE TypeInv
    BY Zenon
<1>1. Shape
    BY Zenon DEF Init, Shape, NoProcess, NoAction
<1>2. ASSUME NEW w \in Workers PROVE TypedAt(w)
  <2>1. process[w] = NoProcess /\ act[w] = NoAction
      BY Zenon DEF Init
  <2> QED BY <2>1, NoneTyped DEF TypedAt, NoProcess, NoAction
<1>3. \A k \in Keys : entry[k] \in {None, Torn} \cup Outputs
    BY Zenon DEF Init
<1> QED BY Zenon, <1>1, <1>2, <1>3 DEF Init, TypeInv

\* A step after which the worker has a cleared action.
LEMMA TypesCleared ==
    ASSUME TypeInv, setup' = setup, NEW w \in Workers, entry' = entry, NEW p, NEW a,
           process' = [process EXCEPT ![w] = p] \/ (process' = process /\ p = process[w]),
           act' = [act EXCEPT ![w] = a],
           DOMAIN p = {"tool", "memo", "flags"},
           DOMAIN a = {"pc", "input", "key", "got", "sarif", "facts", "code"},
           p = process[w] \/ (p.tool \in Tools \cup {None} /\ p.memo = None /\ p.flags = {}),
           a.pc \in {"off", "idle", "lookup", "done"},
           a.pc # "off" => p.tool \in setup.tools,
           a.sarif = None, a.facts = None, a.key = None,
           a.pc = "lookup" => a.input \in setup.inputs,
           a.pc = "done" => a.code # "success"
    PROVE  TypeInv'
<1>1. /\ process'[w] = p /\ act'[w] = a
      /\ \A v \in Workers \ {w} : act'[v] = act[v] /\ process'[v] = process[v]
    BY Zenon DEF TypeInv, Shape
<1>2. Shape'
    BY Zenon DEF TypeInv, Shape, Keys
<1>3. TypedAt(w)'
  <2>1. TypedAt(w) /\ None \in FactSets
      BY Zenon DEF TypeInv, FactSets
  <2> QED BY <1>1, <2>1, TypesKept DEF TypedAt
<1> QED BY Zenon, <1>1, <1>2, <1>3, TypedWorker DEF TypeInv

\* A process starts or is gone.
LEMMA TypesProcess ==
    ASSUME TypeInv, setup' = setup, NEW w \in Workers,
           Exit(w) \/ \E tool \in setup.tools : Start(w, tool)
    PROVE  TypeInv'
<1>0. setup.tools \subseteq Tools
    BY Zenon, UnitAssumption DEF TypeInv
<1>1. CASE Exit(w)
  <2>1. /\ process' = [process EXCEPT ![w] = NoProcess] /\ act' = [act EXCEPT ![w] = NoAction]
        /\ entry' = entry
      BY Zenon, <1>1 DEF Exit
  <2>2. /\ NoProcess.tool = None /\ NoProcess.memo = None /\ NoProcess.flags = {}
        /\ DOMAIN NoProcess = {"tool", "memo", "flags"}
      BY Zenon DEF NoProcess
  <2>3. /\ DOMAIN NoAction = {"pc", "input", "key", "got", "sarif", "facts", "code"}
        /\ NoAction.pc = "off" /\ NoAction.sarif = None /\ NoAction.facts = None
        /\ NoAction.key = None
      BY Zenon DEF NoAction
  <2> QED BY Zenon, <2>1, <2>2, <2>3, TypesCleared
<1>2. ASSUME NEW tool \in setup.tools, Start(w, tool) PROVE TypeInv'
  <2> DEFINE p == [NoProcess EXCEPT !.tool = tool]
  <2>1. /\ process' = [process EXCEPT ![w] = p] /\ act' = [act EXCEPT ![w] = Waiting]
        /\ entry' = entry
      BY Zenon, <1>2 DEF Start
  <2>2. /\ p.tool = tool /\ p.memo = None /\ p.flags = {}
        /\ DOMAIN p = {"tool", "memo", "flags"}
      BY Zenon DEF NoProcess
  <2>3. /\ DOMAIN Waiting = {"pc", "input", "key", "got", "sarif", "facts", "code"}
        /\ Waiting.pc = "idle" /\ Waiting.sarif = None /\ Waiting.facts = None
        /\ Waiting.key = None
      BY Zenon DEF Waiting, NoAction
  <2> HIDE DEF p
  <2> QED BY Zenon, <1>0, <2>1, <2>2, <2>3, TypesCleared
<1> QED BY Zenon, <1>1, <1>2

\* The worker keeps its process.
LEMMA TypesAnswered ==
    ASSUME TypeInv, setup' = setup, NEW w \in Workers, process' = process, entry' = entry,
           act[w].pc # "off", NEW a, act' = [act EXCEPT ![w] = a],
           DOMAIN a = {"pc", "input", "key", "got", "sarif", "facts", "code"},
           a.pc \in {"idle", "lookup", "done"}, a.sarif = None, a.facts = None, a.key = None,
           a.pc = "lookup" => a.input \in setup.inputs,
           a.pc = "done" => a.code # "success"
    PROVE  TypeInv'
<1>1. DOMAIN process[w] = {"tool", "memo", "flags"} /\ process[w].tool \in setup.tools
    BY Zenon DEF TypeInv, TypedAt, Shape
<1> QED BY Zenon, <1>1, TypesCleared

\* The worker loop between actions, and an action that ends without success.
LEMMA TypesEnds ==
    ASSUME TypeInv, setup' = setup, NEW w \in Workers, process' = process, entry' = entry,
           act[w].pc # "off", NEW code, code # "success", Ends(w, code)
    PROVE  TypeInv'
<1> DEFINE a == [NoAction EXCEPT !.pc = "done", !.code = code]
<1>1. act' = [act EXCEPT ![w] = a]
    BY Zenon DEF Ends
<1>2. /\ DOMAIN a = {"pc", "input", "key", "got", "sarif", "facts", "code"}
      /\ a.pc = "done" /\ a.sarif = None /\ a.facts = None /\ a.key = None /\ a.code = code
    BY Zenon DEF NoAction
<1> HIDE DEF a
<1> QED BY Zenon, <1>1, <1>2, TypesAnswered

\* Requests, refusals and responses keep the types.
LEMMA TypesRequests ==
    ASSUME TypeInv, setup' = setup, NEW w \in Workers,
           \/ Respond(w)
           \/ \E i \in setup.inputs : Request(w, i)
           \/ \E code \in {"cancelled", "error"} : Reject(w, code)
    PROVE  TypeInv'
<1>0. process' = process /\ entry' = entry /\ act[w].pc # "off"
    BY Zenon DEF Respond, Request, Reject, At
<1>1. CASE Respond(w)
  <2>1. act' = [act EXCEPT ![w] = Waiting]
      BY Zenon, <1>1 DEF Respond
  <2>2. /\ DOMAIN Waiting = {"pc", "input", "key", "got", "sarif", "facts", "code"}
        /\ Waiting.pc = "idle" /\ Waiting.sarif = None /\ Waiting.facts = None
        /\ Waiting.key = None
      BY Zenon DEF Waiting, NoAction
  <2> QED BY Zenon, <1>0, <2>1, <2>2, TypesAnswered
<1>2. ASSUME NEW i \in setup.inputs, Request(w, i) PROVE TypeInv'
  <2> DEFINE a == [Waiting EXCEPT !.pc = "lookup", !.input = i]
  <2>1. act' = [act EXCEPT ![w] = a]
      BY Zenon, <1>2 DEF Request
  <2>2. /\ DOMAIN a = {"pc", "input", "key", "got", "sarif", "facts", "code"}
        /\ a.pc = "lookup" /\ a.sarif = None /\ a.facts = None /\ a.key = None /\ a.input = i
      BY Zenon DEF Waiting, NoAction
  <2> HIDE DEF a
  <2> QED BY Zenon, <1>0, <2>1, <2>2, TypesAnswered
<1>3. ASSUME NEW code \in {"cancelled", "error"}, Reject(w, code) PROVE TypeInv'
    BY Zenon, <1>0, <1>3, TypesEnds DEF Reject
<1> QED BY Zenon, <1>1, <1>2, <1>3

\* The key of a request under way is one of the declared keys.
LEMMA KeyTyped ==
    ASSUME TypeInv, NEW w \in Workers, act[w].pc \in {"lookup", "replay", "run", "store"}
    PROVE  Key(w) \in Keys /\ act[w].input \in Inputs /\ process[w].tool \in Tools
<1>1. /\ process[w].tool \in setup.tools /\ act[w].input \in setup.inputs
      /\ setup.tools \subseteq Tools /\ setup.inputs \subseteq Inputs
    BY Zenon, UnitAssumption DEF TypeInv, TypedAt
<1> QED BY Zenon, <1>1 DEF Key, Keys

\* A lookup keeps the types: what it finds are outputs.
LEMMA TypesLookup ==
    ASSUME TypeInv, setup' = setup, NEW w \in Workers, Lookup(w)
    PROVE  TypeInv'
<1>1. process' = process /\ entry' = entry /\ act[w].pc = "lookup"
    BY Zenon DEF Lookup, At
<1>2. Key(w) \in Keys
    BY Zenon, <1>1, KeyTyped
<1>3. Found(Key(w)) # None => Found(Key(w)) \in Outputs
    BY Zenon, <1>2 DEF Found, TypeInv
<1>4. /\ act'[w].input = act[w].input /\ act'[w].sarif = act[w].sarif
      /\ act'[w].facts = act[w].facts
      /\ act'[w].key \in {act[w].key, Key(w)}
      /\ \/ act'[w].pc = "replay" /\ Found(Key(w)) # None /\ act'[w].got = Found(Key(w))
         \/ act'[w].pc = "run"
    BY <1>1 DEF TypeInv, Shape, Lookup
<1>5. Shape' /\ \A v \in Workers \ {w} : act'[v] = act[v] /\ process'[v] = process[v]
    BY Zenon DEF TypeInv, Shape, Lookup, Keys
<1>6. TypedAt(w)'
  <2>1. TypedAt(w)
      BY Zenon DEF TypeInv
  <2> QED BY Zenon, <1>1, <1>2, <1>3, <1>4, <2>1, TypesKept DEF TypedAt
<1> QED BY Zenon, <1>1, <1>5, <1>6, TypedWorker DEF TypeInv

\* A replay keeps the types, complete or not.
LEMMA TypesReplay ==
    ASSUME TypeInv, setup' = setup, NEW w \in Workers, Replay(w)
    PROVE  TypeInv'
<1>1. process' = process /\ entry' = entry /\ act[w].pc = "replay"
    BY Zenon DEF Replay, At
<1>2. act[w].got.sarif \in Findings /\ act[w].got.facts \in FactSets
    BY Zenon, <1>1 DEF TypeInv, TypedAt, Outputs
<1>3. /\ act'[w].input = act[w].input /\ act'[w].key \in {None, act[w].key}
      /\ act'[w].pc \in {"done", "run"}
      /\ act'[w].sarif \in {act[w].sarif, act[w].got.sarif}
      /\ act'[w].facts \in {act[w].facts, act[w].got.facts}
      /\ act'[w].pc = "done" => act'[w].sarif = act[w].got.sarif
  <2>1. CASE act' = [act EXCEPT ![w].sarif = act[w].got.sarif, ![w].facts = act[w].got.facts,
                                ![w].got = None, ![w].key = None, ![w].pc = "done",
                                ![w].code = "success"]
    <3>1. act'[w] = [act[w] EXCEPT !.sarif = act[w].got.sarif, !.facts = act[w].got.facts,
                                   !.got = None, !.key = None, !.pc = "done", !.code = "success"]
        BY Zenon, <2>1 DEF TypeInv, Shape
    <3>2. act'[w].input = act[w].input /\ act'[w].pc = "done" /\ act'[w].key = None
        BY Zenon, <3>1 DEF TypeInv, Shape
    <3>3. act'[w].sarif = act[w].got.sarif /\ act'[w].facts = act[w].got.facts
        BY Zenon, <3>1 DEF TypeInv, Shape
    <3> QED BY Zenon, <3>2, <3>3
  <2>2. CASE act' = [act EXCEPT ![w].sarif = act[w].got.sarif, ![w].got = None, ![w].pc = "run"]
    <3>1. act'[w] = [act[w] EXCEPT !.sarif = act[w].got.sarif, !.got = None, !.pc = "run"]
        BY Zenon, <2>2 DEF TypeInv, Shape
    <3> QED BY Zenon, <3>1 DEF TypeInv, Shape
  <2>3. CASE act' = [act EXCEPT ![w].got = None, ![w].pc = "run"]
    <3>1. act'[w] = [act[w] EXCEPT !.got = None, !.pc = "run"]
        BY Zenon, <2>3 DEF TypeInv, Shape
    <3> QED BY Zenon, <3>1 DEF TypeInv, Shape
  <2> QED BY Zenon, <2>1, <2>2, <2>3 DEF Replay
<1>4. Shape' /\ \A v \in Workers \ {w} : act'[v] = act[v] /\ process'[v] = process[v]
    BY Zenon DEF TypeInv, Shape, Replay, Keys
<1>5. TypedAt(w)'
  <2>1. TypedAt(w)
      BY Zenon DEF TypeInv
  <2> QED BY Zenon, <1>1, <1>2, <1>3, <2>1, TypesKept DEF TypedAt
<1> QED BY Zenon, <1>1, <1>4, <1>5, TypedWorker DEF TypeInv

\* A build leaves no flag that no configuration knows.
LEMMA TypesRebuild ==
    ASSUME TypeInv, setup' = setup, NEW w \in Workers, Rebuild(w)
    PROVE  TypeInv'
<1> DEFINE i == act[w].input
           flags == Build(process[w].flags, i.conf)
<1>1. entry' = entry /\ act[w].pc = "run" /\ i \in Inputs /\ TypedAt(w)
    BY Zenon, KeyTyped DEF Rebuild, At, TypeInv
<1>2. flags \subseteq UNION {setup.flags[c] : c \in Configs}
  <2>1. i.conf \in Configs
      BY Zenon, <1>1 DEF Inputs
  <2> QED BY Zenon, <1>1, <2>1 DEF Build, TypedAt
<1>3. CASE UNCHANGED process /\ Ends(w, "error")
    BY Zenon, <1>1, <1>3, TypesEnds
<1>4. CASE ~(UNCHANGED process /\ Ends(w, "error"))
  <2>1. /\ process'[w].tool = process[w].tool /\ process'[w].flags = flags
        /\ process'[w].memo \in {process[w].memo, Memo(i)}
    <3>1. CASE process' = [process EXCEPT ![w].flags = flags]
        BY Zenon, <3>1 DEF TypeInv, Shape
    <3>2. CASE process' = [process EXCEPT ![w].flags = flags, ![w].memo = Memo(i)]
        BY Zenon, <3>2 DEF TypeInv, Shape
    <3> QED BY Zenon, <1>4, <3>1, <3>2 DEF Rebuild
  <2>2. Ends(w, "error") \/ act' = act
      BY Zenon, <1>4 DEF Rebuild
  <2>3. /\ DOMAIN process' = Workers /\ DOMAIN process'[w] = {"tool", "memo", "flags"}
        /\ \A v \in Workers \ {w} : process'[v] = process[v]
      BY Zenon, <1>4 DEF TypeInv, Shape, Rebuild
  <2>4. /\ DOMAIN act' = Workers /\ \A v \in Workers \ {w} : act'[v] = act[v]
        /\ DOMAIN act'[w] = {"pc", "input", "key", "got", "sarif", "facts", "code"}
        /\ act'[w] = act[w] \/ /\ act'[w].pc = "done" /\ act'[w].sarif = None
                               /\ act'[w].facts = None /\ act'[w].key = None
                               /\ act'[w].code = "error"
      BY Zenon, <2>2 DEF TypeInv, Shape, Ends, NoAction
  <2>5. Shape'
      BY Zenon, <1>1, <2>3, <2>4 DEF TypeInv, Shape, Keys
  <2> HIDE DEF i, flags
  <2>6. TypedAt(w)'
    <3>1. None \in FactSets
        BY Zenon DEF FactSets
    <3> QED BY <1>1, <1>2, <2>1, <2>4, <3>1, TypesKept DEF TypedAt
  <2> QED BY Zenon, <1>1, <2>3, <2>4, <2>5, <2>6, TypedWorker DEF TypeInv
<1> QED BY Zenon, <1>3, <1>4

\* The outputs of a run are findings and facts.
LEMMA OutputsTyped ==
    ASSUME NEW tool \in Tools, NEW i \in Inputs,
           NEW flags \in SUBSET UNION {setup.flags[c] : c \in Configs}
    PROVE  Sarif(tool, i, flags) \in Findings /\ Facts(tool, i, flags) \in FactSets
<1>1. i.src \in Sources /\ i.conf \in Configs
    BY Zenon DEF Inputs
<1>2. Sarif(tool, i, flags) \in Findings
    BY Zenon, <1>1 DEF Sarif, Findings
<1> QED BY Zenon, <1>2 DEF Facts, FactSets

\* A run keeps the types: it succeeds with findings or ends with an error.
LEMMA TypesRun ==
    ASSUME TypeInv, setup' = setup, NEW w \in Workers, Run(w)
    PROVE  TypeInv'
<1> DEFINE sarif == Sarif(process[w].tool, act[w].input, process[w].flags)
           facts == Facts(process[w].tool, act[w].input, process[w].flags)
<1>1. process' = process /\ entry' = entry /\ act[w].pc = "run" /\ TypedAt(w)
    BY Zenon DEF Run, At, TypeInv
<1>2. sarif \in Findings /\ facts \in FactSets
    BY Zenon, <1>1, KeyTyped, OutputsTyped DEF TypedAt
<1>3. CASE Ends(w, "error")
    BY Zenon, <1>1, <1>3, TypesEnds
<1>4. CASE ~Ends(w, "error")
  <2>1. act' = [act EXCEPT ![w].sarif = sarif, ![w].facts = facts, ![w].pc = "store"]
      BY Zenon, <1>4 DEF Run
  <2> HIDE DEF sarif, facts
  <2>2. /\ act'[w].pc = "store" /\ act'[w].input = act[w].input /\ act'[w].key = act[w].key
        /\ act'[w].sarif = sarif /\ act'[w].facts = facts
      BY Zenon, <2>1 DEF TypeInv, Shape
  <2>3. Shape' /\ \A v \in Workers \ {w} : act'[v] = act[v] /\ process'[v] = process[v]
      BY Zenon, <1>1, <2>1 DEF TypeInv, Shape, Keys
  <2>4. TypedAt(w)'
      BY Zenon, <1>1, <1>2, <2>2, TypesKept DEF TypedAt
  <2> QED BY Zenon, <1>1, <2>3, <2>4, TypedWorker DEF TypeInv
<1> QED BY Zenon, <1>3, <1>4

\* Publication keeps the types: it links the outputs of a run.
LEMMA TypesStore ==
    ASSUME TypeInv, setup' = setup, NEW w \in Workers, Store(w)
    PROVE  TypeInv'
<1> DEFINE outputs == [sarif |-> act[w].sarif, facts |-> act[w].facts]
<1>1. process' = process /\ act[w].pc = "store" /\ TypedAt(w)
    BY Zenon DEF Store, At, TypeInv
<1>2. outputs \in Outputs
    BY Zenon, <1>1 DEF TypedAt, Outputs
<1>3. entry' = entry \/ entry' = [entry EXCEPT ![act[w].key] = outputs]
    BY Zenon DEF Store
<1> HIDE DEF outputs
<1>4. /\ act'[w].pc = "done" /\ act'[w].input = act[w].input /\ act'[w].key = None
      /\ act'[w].sarif = act[w].sarif /\ act'[w].facts = act[w].facts
    BY Zenon DEF TypeInv, Shape, Store, Ends
<1>5. Shape' /\ \A v \in Workers \ {w} : act'[v] = act[v] /\ process'[v] = process[v]
    BY Zenon DEF TypeInv, Shape, Store, Ends, NoAction, Keys
<1>6. \A k \in Keys : entry'[k] \in {None, Torn} \cup Outputs
    BY Zenon, <1>2, <1>3 DEF TypeInv, Shape
<1>7. TypedAt(w)'
    BY Zenon, <1>1, <1>4, TypesKept DEF TypedAt
<1> QED BY Zenon, <1>5, <1>6, <1>7, TypedWorker

\* Every step keeps the types, whatever the setup.
LEMMA TypesStep == TypeInv /\ [Next]_unitVars => TypeInv'
<1> SUFFICES ASSUME TypeInv, [Next]_unitVars PROVE TypeInv'
    BY Zenon
<1>1. setup' = setup
    BY Zenon DEF Next, unitVars
<1>2. ASSUME process' = process, act' = act, DOMAIN entry' = DOMAIN entry,
             \A k \in Keys : entry'[k] \in {entry[k], Torn}
      PROVE  TypeInv'
  <2>1. Shape'
      BY Zenon, <1>1, <1>2, TypesKept DEF TypeInv, Shape
  <2>2. \A w \in Workers : TypedAt(w)'
      BY Zenon, <1>1, <1>2, TypedElsewhere
  <2> QED BY Zenon, <1>1, <1>2, <2>1, <2>2, TypesKept DEF TypeInv
<1>3. CASE UNCHANGED unitVars
    BY Zenon, <1>2, <1>3 DEF unitVars, running
<1>4. ASSUME NEW k \in Keys, Rot(k) PROVE TypeInv'
    BY Zenon, <1>2, <1>4 DEF Rot, TypeInv, Shape
<1>5. ASSUME NEW w \in Workers, Step(w) PROVE TypeInv'
    BY Zenon, <1>1, <1>5, TypesLookup, TypesReplay, TypesRebuild, TypesRun, TypesStore, TypesRequests DEF Step
<1>6. ASSUME NEW w \in Workers, Exit(w) \/ \E tool \in setup.tools : Start(w, tool) PROVE TypeInv'
    BY Zenon, <1>1, <1>6, TypesProcess
<1>7. ASSUME NEW w \in Workers,
             \/ \E i \in setup.inputs : Request(w, i)
             \/ \E code \in {"cancelled", "error"} : Reject(w, code)
      PROVE  TypeInv'
    BY Zenon, <1>1, <1>7, TypesRequests
<1> QED BY Zenon, <1>3, <1>4, <1>5, <1>6, <1>7 DEF Next

\* Processes, actions and cache files keep their types in every setup, flags that
\* leak between configurations included: an action never succeeds without having
\* written findings, and the cache never serves a damaged file.
THEOREM UnitTypes == Spec => []TypeOK
<1>1. TypeInv => TypeOK
    BY Zenon DEF TypeInv, TypedAt, TypeOK, Outputs, At
<1> QED BY <1>1, TypesInit, TypesStep, PTL DEF Spec

=============================================================================
