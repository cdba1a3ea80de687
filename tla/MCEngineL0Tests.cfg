CONSTANTS
    Procs = {r1}
    Paths = {"a", "b", "c"}
    Contents = {"v1", "v2"}
    FirstContents = {"v1"}
    Imports <- MCImports
    Broken <- MCBroken
    TestPaths = {"b"}
    Excluded <- MCExcluded
    OverrideModes = {TRUE}
    MaxRuns = 3
    MaxEdits = 1
SPECIFICATION Spec
SYMMETRY ProcSymmetry
INVARIANT WarmEqualsCold
CHECK_DEADLOCK FALSE
