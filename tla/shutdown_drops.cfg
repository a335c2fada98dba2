SPECIFICATION Spec
CONSTANTS
    Messages = {m1, m2}
    Sessions = {s1}
    SessionOf <- OneSession
    Configs <- PlainConfigs
    Faults = {"stop"}
    Watched <- TerminalKinds
PROPERTIES ShutdownDrains
\* The messages are finitely many: the system rests when all are done.
CHECK_DEADLOCK FALSE
