CONSTANTS
    Key = {1, 2}
    v1 = v1
    Val = {v1}
    BigVal = {}
    NoVal = NoVal
    MaxLevel = 4
    ManyUpTo = 2
    h1 = h1
    h2 = h2
    h3 = h3
    Handle = {h1, h2, h3}
    d1 = d1
    d2 = d2
    d3 = d3
    Dbc = {d1, d2, d3}
    c1 = c1
    c2 = c2
    Csr = {c1, c2}
    NULL = NULL
    Failing = {"txn_begin", "prepare", "put"}
    Calls = {}
    WtFailing = {"prepare_transaction", "insert", "remove"}
SPECIFICATION MCSpec
INVARIANTS
    HandlesAreSound
    BuffersHoldTheRow
    SeekFindsNearest
PROPERTIES
    ImplementsKVStore
    WtImplementsKVStore
    CursorKeepsItsPlace
VIEW AllButReturnCode
SYMMETRY CursorsAlike
