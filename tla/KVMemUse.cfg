CONSTANTS
    k1 = k1  v1 = v1  v2 = v2  NoVal = NoVal
    Key = {k1}
    Val = {v1, v2}
    MaxLevel = 3
    MaxChng = 2
SPECIFICATION Spec
INVARIANTS
    NoUseAfterFree
CHECK_DEADLOCK FALSE
