SPECIFICATION FairSpec
CONSTANTS
    Runs = {r1}
    Callers = {c1}
    MaxSegment = 1
    Verbs = {"pause", "cancel", "resume", "status"}
    Faults = {"read", "flush", "crash"}
INVARIANTS
    RunningIsOwed
    ViewConsistent
PROPERTIES
    RunningIsTransient
CHECK_DEADLOCK FALSE
