SPECIFICATION RequestsSpec
CONSTANTS
    Clients = {u1, u2}
    Passwords = {x1, x2, weak}
    StrongPasswords = {x1, x2}
    Modes = {"local", "windows"}
    CodeCount = 1
    SessionTtl = 1
    MaxTime = 1
    MaxSets = 2
    MaxSessions = 2
    Operations <- EveryOperation
    Starts = {u1, u2}
    Inits = {i1, i2, i3}
    MaxServices = 3
    first = first
    inner = inner
    far = far
    Libs = {x1, x2}
    LibFiles = {x1, x2}
    Owners = {u1, u2}
    Roots <- Folders
    Bounded <- InsideBound
    Spots <- FilePaths
    FileNames <- NewNames
    MaxAsks = 4
    Hands = {u1, u2}
    MaxControls = 2
    MaxWall = 2
    ClockSteps = TRUE
SYMMETRY RequestSymmetry
INVARIANTS
    RequestsTypeOK
    CodeBuysOneRedemption
    AccountHasCodes
    RedemptionEndsSessions
    SurfacesAgree
    UnauthenticatedLearnsNothing
    OverlapsWereRaced
    HeldFilesAreListed
    NothingLeftUnclaimed
    ActiveIsTimeRun
PROPERTIES
    PasswordIsEarned
    LiveAtTheLookIsLeftAlone
CHECK_DEADLOCK FALSE
