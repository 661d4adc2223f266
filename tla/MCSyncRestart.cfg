SPECIFICATION FairSpec
CONSTANTS
    p = p
    q = q
    x = x
    alien = alien
    Node = {p, q}
    Order <- Both
    Bootstrap <- Mesh
    Info <- Infos
    ProduceEmpty = {}
    Tx = {}
    Stored <- Ahead
    MaxHeight = 2
    MaxInFrame = 1
    MaxFrames = 2
    Budgets <- OneRestart
PROPERTIES CatchUp
CHECK_DEADLOCK FALSE
