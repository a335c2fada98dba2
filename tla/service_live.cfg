SPECIFICATION FairSpec
CONSTANTS
    Messages = {m1, m2, m3}
    Sessions = {s1}
    SessionOf <- OneSession
    Configs <- LiveConfigs
    Faults = {}
    Watched <- TerminalKinds
PROPERTIES EveryAcceptedAnswered SessionsReleased
\* The messages are finitely many: the system rests when all are done.
CHECK_DEADLOCK FALSE
