----------------------------- MODULE MCTypeSync -----------------------------
(* Two calls and two workers: a call with two packages next to one with      *)
(* none, or one package each; on one snapshot or on two; in both modes.      *)
EXTENDS TypeSync

CONSTANTS a, b, w1, w2, s, t

BothOfA == [w \in Workers |-> a]
OneEach == [w \in Workers |-> IF w = w1 THEN a ELSE b]
TwoSnapshots == [c \in Clients |-> IF c = a THEN s ELSE t]
OneSnapshot == [c \in Clients |-> s]

\* A snapshot behind a barrier is analysed by one call at a time; in single-pass
\* mode two calls share a batch.
MCPlans ==
    {p \in [client : {BothOfA, OneEach}, snap : {OneSnapshot, TwoSnapshots},
            analyzes : {{a}, {a, b}}, barrier : BOOLEAN] :
        /\ p.snap = IF p.barrier THEN TwoSnapshots ELSE OneSnapshot
        /\ p.client = BothOfA => p.analyzes = {a, b}}

\* Two packages of one call, in single-pass mode.
PanicPlans ==
    {[client |-> BothOfA, snap |-> OneSnapshot, analyzes |-> {a, b}, barrier |-> FALSE]}
=============================================================================
