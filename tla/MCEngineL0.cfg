CONSTANTS
    Procs = {r1, r2}
    Paths = {"a", "b", "c"}
    Contents = {"v1", "v2"}
    FirstContents = {"v1"}
    Imports <- MCImports
    Broken <- MCBroken
    TestPaths = {"a"}
    Excluded <- MCExcluded
    OverrideModes = {TRUE}
    MaxRuns = 3
    MaxEdits = 1
SPECIFICATION Spec
SYMMETRY ProcSymmetry
INVARIANTS TypeOK OverridesSound WarmEqualsCold
CHECK_DEADLOCK FALSE
