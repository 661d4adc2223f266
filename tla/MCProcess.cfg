SPECIFICATION Spec
CONSTANTS
    Node = {"a", "b"}
    Args <- CommandLines
    Interfaces <- MachineInterfaces
    MaxGen = 3
    Ledgers <- MCLedgers
    MaxFaults = 4
INVARIANTS SameRules NoRivalChains ListedProduce Reachable ReadsBack SavedSurvives
PROPERTIES OneIdentity
CHECK_DEADLOCK FALSE
