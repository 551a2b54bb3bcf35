CONSTANTS
    c1 = c1
    Key = {1, 2, 3, 4, 5, 6, 7}
    Cursor = {c1}
    MaxLevel = 2
    MaxChng = 1
    MaxCopy = 2
    Transactional = TRUE
SPECIFICATION MCSpec
VIEW View
INVARIANTS
    TreeSound
    CursorsFindRows
CHECK_DEADLOCK FALSE
