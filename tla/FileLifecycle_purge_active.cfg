SPECIFICATION Spec
CONSTANTS
    a = a  b = b  c = c  d = d
    f1 = f1  f2 = f2
    c1 = c1  c2 = c2  c3 = c3
    x = x
    Files = {f1}
    Cataloged = {f1}
    Paths = {a}
    Contents = {}
    Callers = {c1, c2}
    Verbs = {"soft_delete", "restore", "purge"}
    Targets <- AnyTarget
    Retention = 1
    MaxTime = 2
    MaxWrites = 0
    Faults = {}
PROPERTIES PurgesDeletedOnly
CHECK_DEADLOCK FALSE
