CONSTANTS
    LogMax = 3
    MaxOut = 5
    MaxLogSize = 2
    MaxColumn = 2
    HalfWidth = 4
    Gap = 4
    MxExp = 3
    MaxRound = 4
    RowKey = {1, 2, 3, 4}
    MaxTerm = 3
    Batches = 3
    MaxAdd = 5
    HashKey = {1, 2, 3, 4, 5}
    Nil = Nil
    Threshold = 1
    MaxBucket = 7
    Sdb = {w1, w2}
    Svm = {v1, v2}
    Conn = {c1, c2}
    None = None
    Uses = {}
    MaxDepth = 2
    Pk = {1, 2, 3}
    NCol = 2
    LastInStore = FALSE
    OddPhrases = FALSE
    MaxToken = 7
SPECIFICATION MCSpec
INVARIANTS
    LifetimesAreSound
    PoolServes
    KeysSortButLastBlobs
    EncodingsReadBack
    ContainersAreSound
    DecimalsAreExact
    FtsIndexIsExact
    FtsAnswers
CHECK_DEADLOCK FALSE
