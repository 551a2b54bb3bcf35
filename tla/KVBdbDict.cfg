CONSTANTS
    t1 = t1
    t2 = t2
    Thread = {t1, t2}
    n1 = n1
    n2 = n2
    Name = {n1, n2}
    NoName = NoName
    NoThread = NoThread
    MaxOpen = 2
    MaxOpens = 3
    Failing = {"env_open", "malloc"}
SPECIFICATION FairSpec
INVARIANTS
    TypeOK
    RefsExact
    StoresAreLive
    NothingLeaks
PROPERTIES
    EveryCallReturns
