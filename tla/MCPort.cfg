CONSTANTS
    Types = {"ETHERNET", "SERIAL"}
    MaxPosted = 0
    MaxEntries = 2
    Envs <- AllEnvs
SPECIFICATION Spec
INVARIANTS
    TypeOK
    ThroughputTrue
    StableRetries
    CalmAgrees
PROPERTIES
    CalmReplacesIdleProxy
