CONSTANTS
    MaxTimers = 2
    MaxTimeout = 2
    Plain <- PlainUse
SPECIFICATION FairSpec
INVARIANTS
    TypeOK
PROPERTIES
    KeepsPromise
    DueIsServed
