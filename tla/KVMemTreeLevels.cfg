CONSTANTS
    c1 = c1
    c2 = c2
    Key = {1}
    Cursor = {c1, c2}
    MaxLevel = 3
    MaxChng = 2
    MaxCopy = 5
    Transactional = TRUE
SPECIFICATION Spec
VIEW UpToPayloadNames
INVARIANTS
    RefCountsExact
PROPERTIES
    ImplementsKVMem
CHECK_DEADLOCK FALSE
