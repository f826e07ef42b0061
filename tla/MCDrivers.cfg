CONSTANTS
    MaxFd = 2
    Envs <- AllEnvs
    MaxStarts = 2
    MaxLines = 2
    c1 = c1
    Callers = {c1}
SPECIFICATION DriversFairSpec
INVARIANTS
    TypesOK
    SerialSound
    StoppedIsTheEnd
    PromptStopIsQuiet
    ClientEventsSound
    ClientCallsSound
PROPERTY
    ThreadsRespond
CHECK_DEADLOCK FALSE
