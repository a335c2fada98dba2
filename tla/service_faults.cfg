SPECIFICATION Spec
CONSTANTS
    Messages = {m1, m2}
    Sessions = {s1}
    SessionOf <- OneSession
    Configs <- VariedConfigs
    Faults = {"crash", "stop"}
    Watched <- TerminalKinds
SYMMETRY Interchangeable
INVARIANTS IInv TruthInv AnswerAtMostOnce LedgerTellsTruth AttemptBudget
PROPERTIES NoRerunAfterAnswer NoStageAfterTerminal AnsweredInOrder
\* The messages are finitely many: the system rests when all are done.
CHECK_DEADLOCK FALSE
