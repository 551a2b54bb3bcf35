CONSTANTS
    t1 = t1
    t2 = t2
    Thread = {t1, t2}
    n1 = n1
    n2 = n2
    Name = {n1, n2}
    NoName = NoName
    NoThread = NoThread
    MaxOpen = 2
    MaxOpens = 3
    Failing = {"db_open", "db_close"}
SPECIFICATION Spec
INVARIANTS
    NoEnvironmentLost
    DeadHandlesAreForgotten
