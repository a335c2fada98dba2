SPECIFICATION BlameSpec
CONSTANTS
    Calls = {c1}
    Slots = {1, 2, 3}
    Configs <- PlainConfigs
    Shutdowns = FALSE
    MishapsEnd = TRUE
    MaxMishaps = 1
PROPERTIES FailsOnlyWithCause
