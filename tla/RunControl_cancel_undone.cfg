SPECIFICATION Spec
CONSTANTS
    Runs = {r1}
    Callers = {c1}
    MaxSegment = 0
    Verbs = {"cancel"}
    Faults = {}
PROPERTIES
    CancelStands
CHECK_DEADLOCK FALSE
