SPECIFICATION Spec
CONSTANTS
    Peers <- MCPeers
    ChainOf <- MCChainOf
    OwnChain = 0
    Turns = {3}
    ProduceEmpty = TRUE
    MaxHeight = 3
    MaxFaults = 2
INVARIANT OwnChainOnly
PROPERTIES RunEnds PulledInTheEnd
