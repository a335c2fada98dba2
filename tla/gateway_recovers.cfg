SPECIFICATION FairSpec
CONSTANTS
    Calls = {c1}
    Slots = {1, 2, 3}
    Configs <- StagedConfigs
    Shutdowns = TRUE
    MishapsEnd = TRUE
    MaxMishaps = 2
PROPERTIES FailuresStop
