SPECIFICATION Spec
CONSTANTS
    Pools = {7, 8}
    LogMax = 3
    MaxOut = 5
    MaxLogSize = 2
INVARIANTS
    TakesTheFirst
    RobsonsBound
