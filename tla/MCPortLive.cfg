CONSTANTS
    Types = {"ETHERNET"}
    MaxPosted = 0
    MaxEntries = 0
    Envs <- LiveEnvs
SPECIFICATION FairSpec
PROPERTY
    PortGoesOn
