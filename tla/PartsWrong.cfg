CONSTANTS
    LogMax = 3
    MaxOut = 5
    MaxLogSize = 2
    MaxColumn = 2
    HalfWidth = 4
    Gap = 4
    MxExp = 3
    MaxRound = 4
    RowKey = {1, 2}
    MaxTerm = 5
    Batches = 4
    MaxAdd = 5
    HashKey = {1, 2, 3, 4, 5}
    Nil = Nil
    Threshold = 1
    MaxBucket = 7
    Sdb = {w1, w2}
    Svm = {v1, v2}
    Conn = {c1, c2}
    None = None
    Uses = {"open_ptr", "close_vm", "end_in_function"}
    MaxDepth = 2
    Pk = {1, 2, 3}
    NCol = 2
    LastInStore = TRUE
    OddPhrases = TRUE
    MaxToken = 5
SPECIFICATION MCSpec
INVARIANTS
    NothingFreedIsUsed
    ListedVmsAreLive
    ConnectionsAreOwned
    PassesOnce
    ReadsEachOnce
    KeysSortAsRows
    PrefixCountsFields
    NumbersReadBack
    IntegersStayIntegers
    RoundsToNearest
    ProductsAreClose
    QuotientsAreClose
    FtsFindsRows
    OnlyFirstStreamIsCounted
    MissingTokenIsNoError
    ImplicitAndIsAnd
CHECK_DEADLOCK FALSE
