SPECIFICATION Spec
CONSTANTS
    a = a  b = b  c = c  d = d
    f1 = f1  f2 = f2
    c1 = c1  c2 = c2  c3 = c3
    x = x
    Files = {f1, f2}
    Cataloged = {f1, f2}
    Paths = {a, b, c}
    Contents = {}
    Callers = {c1, c2}
    Verbs = {"rename"}
    Targets <- AnyTarget
    Retention = 0
    MaxTime = 0
    MaxWrites = 0
    Faults = {}
PROPERTIES NoFileLost
CHECK_DEADLOCK FALSE
