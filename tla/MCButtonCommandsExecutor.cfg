CONSTANTS
    t1 = t1
    t2 = t2
    Threads = {t1, t2}
    Lists <- ShortLists
    MaxPosted = 0
    Settled <- AllCases
    Messages = {1}
    Waits <- SomeWaits
    Counts = {0, 2}
    Depth = 2
SPECIFICATION FairSpec
INVARIANTS
    TypeOK
    ButtonSound
    SettledInOrder
    ListIsMeant
PROPERTIES
    SettledAbortIsFinal
    RunsEnd
CHECK_DEADLOCK FALSE
