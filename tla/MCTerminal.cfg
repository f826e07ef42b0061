CONSTANTS
    d1 = d1
    d2 = d2
    gui = gui
    Drivers <- TwoDrivers
    GUI = gui
    Filters = 2
    Limit = 2
    MaxLines = 4
    MaxClicks = 2
    Envs <- AllEnvs
SPECIFICATION Spec
INVARIANTS
    TypeOK
    LogTrue
    LimitsKept
CHECK_DEADLOCK FALSE
