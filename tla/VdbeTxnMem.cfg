SPECIFICATION Spec
CONSTANTS
    Db = {0, 1}
    Row = {late}
    Deferred = {late}
    Immediate = {}
    Name = {s1}
    NoName = NoName
    Reader = {q1}
    MaxSavepoint = 2
    MaxCons = 1
    UndoesOwnLevel = FALSE
    PhaseOneFails = FALSE
    TxnApi = FALSE
PROPERTIES
    OnlySuccessPublishes
    FailedStatementLeavesNoTrace
CHECK_DEADLOCK FALSE
