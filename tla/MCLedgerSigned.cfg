SPECIFICATION Spec
CONSTANTS
    MaxGas = 50000
    MaxStackItems = 1024
    MaxPushBytes = 4096
    MaxScriptLen = 2048
    BaseCost = 10
    SigCost = 5000
    HashCost = 250
    KeyBytes = 1314
    SigBytes = 2422
    HeightMod = 256
    AmountMod = 256
    ChainId = 7
    Owners = {"owner"}
    Candidates <- SignedCandidates
    MaxTxs = 4
    MaxHeight = 2
INVARIANT SignedSpendAccepted
CHECK_DEADLOCK FALSE
