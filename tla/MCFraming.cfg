CONSTANTS
    Payloads <- ShortPayloads
    BufSize = 6
    MaxLinks = 2
    Envs <- AllEnvs
SPECIFICATION Spec
INVARIANTS
    TypeOK
    LinesHeard
    HeadersInStep
    PayloadsFit
    WriteTruth
CHECK_DEADLOCK FALSE
