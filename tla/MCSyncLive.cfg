SPECIFICATION FairSpec
CONSTANTS
    p = p
    q = q
    x = x
    alien = alien
    Node = {p, q}
    Order <- Both
    Bootstrap <- Mesh
    Info <- Infos
    ProduceEmpty = {}
    Tx = {t1}
    Stored <- OneAhead
    MaxHeight = 2
    MaxInFrame = 1
    MaxFrames = 2
    Budgets <- NoFaults
PROPERTIES CatchUp IngressAmongAcquainted
CHECK_DEADLOCK FALSE
