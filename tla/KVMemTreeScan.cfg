CONSTANTS
    c1 = c1
    Key = {1, 2}
    Cursor = {c1}
    MaxLevel = 2
    MaxChng = 1
    MaxCopy = 3
    Transactional = TRUE
SPECIFICATION Spec
VIEW UpToPayloadNames
INVARIANTS
    FailedSeekIsAtEOF
PROPERTIES
    CommitKeepsScans
CHECK_DEADLOCK FALSE
