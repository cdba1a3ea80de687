------------------------ MODULE MCBarrierDispatch ------------------------
\* A diamond a -> {b, c} -> d, and a chain a -> b -> c -> d.
EXTENDS BarrierDispatch

CONSTANTS a, b, c, d

MCNodes == {a, b, c, d}
MCRoots == {a}
DiamondSuccs ==
    [n \in MCNodes |-> CASE n = a -> {b, c} [] n \in {b, c} -> {d} [] OTHER -> {}]
ChainSuccs ==
    [n \in MCNodes |-> CASE n = a -> {b} [] n = b -> {c} [] n = c -> {d} [] OTHER -> {}]

\* A cached leaf, a cached package above a stale import, all but the root.
MixedHits == {{d}, {b}, {b, c, d}}
ColdCache == {{}}
OneDepHit == {{b}}

=============================================================================
