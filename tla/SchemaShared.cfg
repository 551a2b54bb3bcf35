CONSTANTS
    c1 = c1
    c2 = c2
    Conn = {c1, c2}
    NoConn = NoConn
    MaxStmt = 1
    NoStmt = NoStmt
    t1 = t1
    t2 = t2
    Table = {t1, t2}
    NoTable = NoTable
    MaxSavepoint = 0
    MaxChange = 2
    ParseFaults = {"autocommit"}
SPECIFICATION Spec
INVARIANTS
    VerifiedProgramsAreCurrent
    NumbersAreDistinct
