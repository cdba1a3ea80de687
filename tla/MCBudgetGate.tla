---------------------------- MODULE MCBudgetGate ----------------------------
(* A gate of two slots and a budget of 4 bytes: one action of each size that  *)
(* matters (free, small, half, oversized); two of them share a context.       *)
EXTENDS BudgetGate

CONSTANTS a1, a2, a3, a4, c1, c2

MCWant == [a \in Actions |-> CASE a = a1 -> 2 [] a = a2 -> 1 [] a = a3 -> 5 [] a = a4 -> 0]
MCCtx == [a \in Actions |-> IF a \in {a1, a2} THEN c1 ELSE c2]
=============================================================================
