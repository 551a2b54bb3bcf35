\* Calls and failures that the BerkeleyDB engine does not stand.  With
\*   Calls = {}, Failing = {}           it violates  FailedSeekIsAtEOF, RowsCanBeRead
\*   Calls = {"commit_to_0", "cursors_survive"}      NoStaleHandle, CommitToZeroIsPermanent
\*   Calls = {"nested_prepare", "nested_revert"}     NoStaleHandle, ImplementsKVStore
\*   Calls = {"skip"}                                HandlesFollowLevels
\*   Calls = {"shared_cursors"}                      CursorKeepsItsPlace
\*   Failing = {"commit"}                            NoStaleHandle
\*   Failing = {"cursor"}                            TypeOK
CONSTANTS
    Key = {1, 2}
    v1 = v1
    Val = {v1}
    BigVal = {v1}
    NoVal = NoVal
    MaxLevel = 3
    ManyUpTo = 2
    h1 = h1
    h2 = h2
    h3 = h3
    Handle = {h1, h2, h3}
    d1 = d1
    d2 = d2
    d3 = d3
    Dbc = {d1, d2, d3}
    c1 = c1
    c2 = c2
    Csr = {c1, c2}
    NULL = NULL
    Failing = {"commit", "cursor"}
    Calls = {"commit_to_0", "cursors_survive", "nested_prepare", "nested_revert",
             "skip", "shared_cursors"}
SPECIFICATION CursorSpec
INVARIANTS
    TypeOK
    NoStaleHandle
    HandlesFollowLevels
    FailedSeekIsAtEOF
PROPERTIES
    CommitToZeroIsPermanent
    ImplementsKVStore
    CursorKeepsItsPlace
    RowsCanBeRead
