SPECIFICATION Spec
CONSTANTS
    Db = {0, 1}
    Row = {row}
    Deferred = {}
    Immediate = {}
    Name = {s1}
    NoName = NoName
    Reader = {q1}
    MaxSavepoint = 1
    MaxCons = 2
    UndoesOwnLevel = FALSE
    PhaseOneFails = FALSE
    TxnApi = TRUE
PROPERTIES
    CommitIsAtomic
