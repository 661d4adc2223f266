SPECIFICATION Spec
CONSTANTS
    Txs = {t1, t2, bad}
    Invalid = {bad}
    Ports = {p1, p2}
    MaxFaults = 2
INVARIANT ToldTheTruth
PROPERTY KnownToBeCommitted
CHECK_DEADLOCK FALSE
