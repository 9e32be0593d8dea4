SPECIFICATION Spec
CONSTANTS
    Runs = {r1}
    Callers = {c1, c2}
    MaxSegment = 1
    Verbs = {"pause", "cancel", "resume"}
    Faults <- KnownSegmentFaults
SYMMETRY CallerSymmetry
INVARIANTS
    TypeOK
    RegistryOwned
    RowShape
    CompleteIsWhole
PROPERTIES
    OnlyOwnerCloses
    HaltsAreAsked
    FollowsLifecycle
CHECK_DEADLOCK FALSE
