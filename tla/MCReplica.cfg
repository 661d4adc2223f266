SPECIFICATION Spec
CONSTANTS
    MaxGas = 50000
    MaxStackItems = 1024
    MaxPushBytes = 4096
    MaxScriptLen = 2048
    BaseCost = 10
    SigCost = 5000
    HashCost = 250
    KeyBytes = 1314
    SigBytes = 2422
    HeightMod = 256
    AmountMod = 256
    a = a
    b = b
    o = o
    d = d
    ka = ka
    kb = kb
    ko = ko
    kd1 = kd1
    kd2 = kd2
    Node = {a, b}
    Key = {ka, kb}
    OwnerOf <- MCOwnerOf
    KeyFile = {a, b}
    Validators <- MCValidators
    List <- MCList
    ChainIdOf <- MCChainIdOf
    Producer = {a, b}
    ProduceEmpty = {b}
    Txs <- MCTxs
    Clock = {1, 2, 3}
    MaxHeight = 3
INVARIANTS TypeOK Agreement PublishedIsDurable NeverRefused SnapshotRepaired MempoolReady CommittedOnce
PROPERTIES AppendOnly ImplementsLog
