CONSTANTS
    Listeners <- SomeListeners
    Values = {0, 1, 2}
    Unreadable <- SomeUnreadable
    Commands <- SomeCommands
    MaxHistory = 3
    Envs <- SomeEnvs
SPECIFICATION PersistenceSpec
INVARIANTS
    PersistenceTypes
    SettingsSurvive
    PlainHistory
