CONSTANTS
    k1 = k1
    k2 = k2
    w1 = w1
    Conns = {k1}
    Writers = {w1}
    Fd = {1}
    MaxLines = 1
    MaxStarts = 1
    Envs <- FrontEnvs
SPECIFICATION FairSpec
PROPERTY LogReturns
CHECK_DEADLOCK FALSE
