SPECIFICATION FairWalkSpec
CONSTANTS
    a = a  b = b  c = c
    f1 = f1  f2 = f2  f3 = f3
    c1 = c1  c2 = c2
    x = x
    run1 = run1  run2 = run2
    Files = {f1, f2}
    Cataloged = {f1}
    Paths = {a, b}
    Contents = {}
    Callers = {c1}
    Verbs = {"rename", "purge_on_disk"}
    Targets <- AnyTarget
    Retention = 0
    MaxTime = 0
    MaxWrites = 1
    Faults = {"external"}
    Refreshes <- RefreshF1
    Indexes <- IndexOfB
PROPERTIES
    CatalogConverges
CHECK_DEADLOCK FALSE
