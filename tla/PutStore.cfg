SPECIFICATION Spec
CONSTANTS
    p1 = p1
    p2 = p2
    p3 = p3
    Paths = {p1, p2, p3}
    Reqs = {"put", "other", "broken", "get", "delete", "range", "first", "twin",
            "beyond", "length", "nodev", "ro"}
    Request <- MCRequest
    Scenarios <- MCScenarios
    Initial <- MCInitial
    Missing = Missing
    Hole = Hole
    Dirs <- MCDirs
    InitDirs = {"dev1"}
    Procs = {q1, q2}
    Rnds = {1, 2}
    MaxFaults = 1
    MaxCrashes = 1
    Nil = Nil
SYMMETRY Symmetry
INVARIANTS IInv Leftovers OnlyJustErrors ReadWhole
PROPERTY Implements
