---- MODULE MCUnitAction ----
EXTENDS UnitAction, TLC

CONSTANTS t1, t2, pkg, gomod, broken, c1, c2, bad, nofilter, sticky, other

Input(src, conf, only) == [src |-> src, conf |-> conf, only |-> only]

\* Setups in which no process meets two settings of one sticky flag: a flag that
\* every build sets, on in one of two configurations; configurations that agree
\* on the flags, for all kinds of sources, an analyzer name that does not resolve
\* and an exclusion that does not compile; and two binaries over one cache.
MCSetups == {
    [flags |-> (c1 :> {} @@ c2 :> {other} @@ bad :> {} @@ nofilter :> {}), tools |-> {t1},
     inputs |-> {Input(pkg, c1, ""), Input(pkg, c2, ""), Input(pkg, bad, "")}],
    [flags |-> (c1 :> {sticky} @@ c2 :> {sticky} @@ bad :> {} @@ nofilter :> {sticky}), tools |-> {t1},
     inputs |-> {Input(pkg, c1, ""), Input(gomod, c1, ""), Input(broken, c2, ""),
                 Input(pkg, c2, "unknown"), Input(pkg, nofilter, "")}],
    [flags |-> (c1 :> {} @@ c2 :> {} @@ bad :> {} @@ nofilter :> {}), tools |-> {t1, t2},
     inputs |-> {Input(pkg, c1, "")}]}

\* A sticky flag that one configuration turns on and another leaves at its
\* default.
LeakSetups == {
    [flags |-> (c1 :> {} @@ c2 :> {sticky} @@ bad :> {} @@ nofilter :> {}), tools |-> {t1},
     inputs |-> {Input(pkg, c1, ""), Input(pkg, c2, "")}]}

Interchangeable == Permutations(Workers)
====
