SPECIFICATION Spec
CONSTANTS
    MaxGas = 264
    MaxStackItems = 4
    MaxPushBytes = 32
    MaxScriptLen = 5
    BaseCost = 1
    SigCost = 80
    HashCost = 5
    KeyBytes = 20
    SigBytes = 30
    HeightMod = 256
    Ops <- AllOps
    Contexts <- SpentInputs
    Hashes = {0, 1}
    Amounts = {1}
    Definitions <- SomeDefinitions
    ChainIds = {0, 1}
    MaxInputs = 1
    MaxOutputs = 2
    MaxAssets = 1
    MaxOps = 2
    MaxData = 1
    MaxSigned = 1
    Byte = 3
    PublicKeyBytes <- PkSizes
    SecretKeyBytes <- SkSizes
    SignatureBytes <- SigSizes
    Keypair <- KeyPairs
    DetachedSign <- Signing
    Messages = {"m", "n"}
    MaxInput = 8
INVARIANTS SignedForThisInput LocksOpened WithinLimits Readable OneMeaning Canonical AcceptedAsSent
CHECK_DEADLOCK FALSE
