SPECIFICATION Spec
CONSTANTS
    Db = {0, 1}
    Row = {row}
    Deferred = {}
    Immediate = {}
    Name = {s1}
    NoName = NoName
    Reader = {}
    MaxSavepoint = 1
    MaxCons = 2
    UndoesOwnLevel = FALSE
    PhaseOneFails = TRUE
    TxnApi = FALSE
PROPERTIES
    CommitIsAtomic
    SuccessKeepsTransaction
CHECK_DEADLOCK FALSE
