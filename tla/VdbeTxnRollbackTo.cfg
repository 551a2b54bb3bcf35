SPECIFICATION Spec
CONSTANTS
    Db = {0}
    Row = {row}
    Deferred = {}
    Immediate = {}
    Name = {s1}
    NoName = NoName
    Reader = {}
    MaxSavepoint = 2
    MaxCons = 2
    UndoesOwnLevel = FALSE
    PhaseOneFails = FALSE
    TxnApi = FALSE
PROPERTIES
    RollbackToRestores
CHECK_DEADLOCK FALSE
