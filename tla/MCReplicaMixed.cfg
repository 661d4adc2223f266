SPECIFICATION Spec
CONSTANTS
    MaxGas = 50000
    MaxStackItems = 1024
    MaxPushBytes = 4096
    MaxScriptLen = 2048
    BaseCost = 10
    SigCost = 5000
    HashCost = 250
    KeyBytes = 1314
    SigBytes = 2422
    HeightMod = 256
    AmountMod = 256
    a = a
    b = b
    o = o
    d = d
    ka = ka
    kb = kb
    ko = ko
    kd1 = kd1
    kd2 = kd2
    Node = {a, o, d}
    Key = {ka, ko, kd1, kd2}
    OwnerOf <- MCOwnerOf
    KeyFile = {a, o}
    Validators <- MixedValidators
    List <- MixedList
    ChainIdOf <- MCChainIdOf
    Producer = {a, d}
    ProduceEmpty = {a, d}
    Txs <- OneTx
    Clock = {1, 2}
    MaxHeight = 2
INVARIANT NeverRefused
