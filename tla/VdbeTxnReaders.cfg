SPECIFICATION Spec
CONSTANTS
    Db = {0}
    Row = {row}
    Deferred = {}
    Immediate = {}
    Name = {s1}
    NoName = NoName
    Reader = {q1}
    MaxSavepoint = 2
    MaxCons = 2
    UndoesOwnLevel = FALSE
    PhaseOneFails = FALSE
    TxnApi = TRUE
INVARIANTS
    StoreBeginsAreLegal
    ReadersStayOpen
PROPERTIES
    SelectPublishesNothing
CHECK_DEADLOCK FALSE
