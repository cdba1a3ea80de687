----------------------------- MODULE MCEngineL0 -----------------------------
(* Instances of EngineL0 for TLC: a imports b or c, b imports c or nothing. *)
EXTENDS EngineL0, TLC

MCImports ==
    [p \in {"a", "b", "c"} |->
       [c \in {"v1", "v2"} |->
          IF p = "a" THEN IF c = "v1" THEN {"b"} ELSE {"c"}
          ELSE IF p = "b" /\ c = "v1" THEN {"c"} ELSE {}]]

MCBroken == {<<"c", "v2">>}

MCExcluded == {<<"c", FALSE>>}

ProcSymmetry == Permutations(Procs)
=============================================================================
