SPECIFICATION ClockSpec
CONSTANTS
    Hands = {h1}
    MaxControls = 1
    MaxWall = 3
    ClockSteps = FALSE
INVARIANTS
    DowntimeIsBanked
CHECK_DEADLOCK FALSE
