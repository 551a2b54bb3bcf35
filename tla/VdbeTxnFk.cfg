SPECIFICATION Spec
CONSTANTS
    Db = {0}
    Row = {late}
    Deferred = {late}
    Immediate = {}
    Name = {s1}
    NoName = NoName
    Reader = {}
    MaxSavepoint = 1
    MaxCons = 2
    UndoesOwnLevel = FALSE
    PhaseOneFails = FALSE
    TxnApi = TRUE
INVARIANTS
    CommittedIsConsistent
CHECK_DEADLOCK FALSE
