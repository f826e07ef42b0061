CONSTANTS
    w1 = w1
    w2 = w2
    Workers = {w1, w2}
    GUI = GUI
    NONE = NONE
    MaxEdits = 2
    MaxPosted = 3
    Envs <- AllEnvs
SPECIFICATION FairSpec
INVARIANTS
    TypeOK
    RequestsSound
PROPERTIES
    RequestsReturn
CHECK_DEADLOCK FALSE
