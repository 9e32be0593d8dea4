SPECIFICATION RenamesSpec
CONSTANTS
    a = a  b = b  c = c  d = d
    f1 = f1  f2 = f2
    c1 = c1  c2 = c2  c3 = c3
    x = x
    Files = {f1, f2}
    Cataloged = {f1, f2}
    Paths = {a, b, c, d}
    Contents = {}
    Callers = {c1, c2, c3}
    Verbs = {"rename", "soft_delete", "restore"}
    Targets <- OwnTargets
    Retention = 1
    MaxTime = 0
    MaxWrites = 0
    Faults = {"db", "disk"}
PROPERTIES RenamesAreAtomic
CHECK_DEADLOCK FALSE
