SPECIFICATION TimerSpec
CONSTANTS
    Calls = {c1, c2}
    Slots = {1, 2}
    Configs <- MixedConfigs
    Shutdowns = TRUE
    MishapsEnd = FALSE
    MaxMishaps = 0
INVARIANTS IInv NoForgottenCall SentAfterHello NoDeadEnd
PROPERTIES CallsKept EveryCallSettles
