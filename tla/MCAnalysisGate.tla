--------------------------- MODULE MCAnalysisGate ---------------------------
(* Three calls for two packages, so that all three admission rules apply.   *)
EXTENDS AnalysisGate

CONSTANTS c1, c2, c3, p1, p2

\* Clustering with a slot less than there are calls and with one for each,
\* without a timer, and no clustering.
MCGates ==
    {[workerCap |-> 2, maxInFlight |-> 1, timed |-> TRUE],
     [workerCap |-> 3, maxInFlight |-> 1, timed |-> TRUE],
     [workerCap |-> 2, maxInFlight |-> 1, timed |-> FALSE],
     [workerCap |-> 2, maxInFlight |-> 0, timed |-> TRUE]}

MCPkg == [c \in Calls |-> IF c = c3 THEN p2 ELSE p1]
=============================================================================
