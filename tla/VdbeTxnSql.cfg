SPECIFICATION Spec
CONSTANTS
    Db = {0, 1}
    Row = {late, now}
    Deferred = {late}
    Immediate = {now}
    Name = {s1, s2}
    NoName = NoName
    Reader = {q1}
    MaxSavepoint = 2
    MaxCons = 2
    UndoesOwnLevel = TRUE
    PhaseOneFails = FALSE
    TxnApi = FALSE
INVARIANTS
    TypeOK
    FkCountersExact
    CommittedIsConsistent
    LevelsFollowSavepoints
PROPERTIES
    ImplementsSqlTxn
