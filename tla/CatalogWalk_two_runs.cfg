SPECIFICATION WalkSpec
CONSTANTS
    a = a  b = b  c = c
    f1 = f1  f2 = f2  f3 = f3
    c1 = c1  c2 = c2
    x = x
    run1 = run1  run2 = run2
    Files = {f1, f2, f3}
    Cataloged = {f1}
    Paths = {a, b}
    Contents = {}
    Callers = {c1, c2}
    Verbs = {"soft_delete", "restore", "purge", "rename"}
    Targets <- OneRenamer
    Retention = 0
    MaxTime = 1
    MaxWrites = 0
    Faults = {"db", "crash"}
    Refreshes <- Nothing
    Indexes <- TwoIndexesOfB
SYMMETRY RunSymmetry
INVARIANTS
    RowsSound
    WindowsDisjoint
CHECK_DEADLOCK FALSE
