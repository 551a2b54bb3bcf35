CONSTANTS
    c1 = c1
    Conn = {c1}
    NoConn = NoConn
    MaxStmt = 2
    NoStmt = NoStmt
    t1 = t1
    t2 = t2
    Table = {t1, t2}
    NoTable = NoTable
    MaxSavepoint = 2
    MaxChange = 3
    ParseFaults = {"autocommit"}
SPECIFICATION Spec
SYMMETRY TablesAlike
INVARIANTS
    SchemaMatchesStore
    VerifiedProgramsAreCurrent
    TablesOwnTheirRows
    OneRetryIsEnough
