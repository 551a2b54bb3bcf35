CONSTANTS
    c1 = c1
    Conn = {c1}
    NoConn = NoConn
    MaxStmt = 2
    NoStmt = NoStmt
    t1 = t1
    t2 = t2
    Table = {t1, t2}
    NoTable = NoTable
    MaxSavepoint = 1
    MaxChange = 3
    ParseFaults = {"transaction"}
SPECIFICATION Spec
INVARIANTS
    SchemaMatchesStore
    NumbersAreDistinct
