CONSTANTS
    Key = {k1, k2}
    Val = {v1, v2}
    NoVal = NoVal
    MaxLevel = 3
    MaxChng = 2
SPECIFICATION Spec
INVARIANTS TypeOK LogConsistent PhantomsAreLogged
PROPERTIES ImplementsKVStore RollbackFollowsLiveNodes
CHECK_DEADLOCK FALSE
