\* Calls and failures that the WiredTiger engine does not stand.  With
\*   Calls = {}, Failing = {}           it violates  ReplaceReplaces
\*   Calls = {"nested"}                              ImplementsKVStore
\*   Calls = {"commit_to_0"}                         ImplementsKVStore
\*   Failing = {"begin_transaction"}, {"commit_transaction"}
\*             or {"open_cursor"}                    SessionFollowsLevel, ImplementsKVStore
CONSTANTS
    Key = {1}
    v1 = v1
    v2 = v2
    Val = {v1, v2}
    NoVal = NoVal
    MaxLevel = 3
    NULL = NULL
    Failing = {"begin_transaction", "commit_transaction"}
    Calls = {"nested", "commit_to_0"}
SPECIFICATION Spec
INVARIANTS
    SessionFollowsLevel
PROPERTIES
    ImplementsKVStore
    ReplaceReplaces
