SPECIFICATION Spec
CONSTANTS
    Messages = {m1, m2, m3}
    Sessions = {s1}
    SessionOf <- OneSession
    Configs <- PlainConfigs
    Faults = {}
    Watched <- TerminalKinds
SYMMETRY Interchangeable
INVARIANTS TypeOK SessionMutex NoStrandedQueue SerialInv SerialUntilGivenUp
PROPERTIES AnsweredInOrder
\* The messages are finitely many: the system rests when all are done.
CHECK_DEADLOCK FALSE
