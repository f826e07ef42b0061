CONSTANTS
    k1 = k1
    k2 = k2
    w1 = w1
    Conns = {k1, k2}
    Writers = {w1}
    Fd = {1, 2}
    MaxLines = 1
    MaxStarts = 2
    Envs <- AllEnvs
SPECIFICATION FairSpec
INVARIANTS
    TypeOK
    ClientsTrue
    PlainNoDeadlock
CHECK_DEADLOCK FALSE
