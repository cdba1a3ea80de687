------------------------ MODULE MCAnalysisDispatch ------------------------
\* A diamond a -> {b, c} -> d with a second leaf e; c is a root and a dependency.
EXTENDS AnalysisDispatch

CONSTANTS a, b, c, d, e

MCNodes == {a, b, c, d, e}
MCSuccs == 
    [n \in MCNodes |-> CASE n = a -> {b, c} [] n = b -> {d} [] n = c -> {d, e} [] OTHER -> {}]
MCRoots == {a, c}

=============================================================================
