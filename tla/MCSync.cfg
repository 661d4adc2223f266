SPECIFICATION Spec
CONSTANTS
    p = p
    q = q
    x = x
    alien = alien
    Node = {p, q, x}
    Order <- Both
    Bootstrap <- Mesh
    Info <- Infos
    ProduceEmpty = {p, q}
    Tx = {}
    Stored <- AlienStored
    MaxHeight = 2
    MaxInFrame = 1
    MaxFrames = 1
    Budgets <- OneFault
INVARIANTS Consistent AsksForExisting Quarantine
CHECK_DEADLOCK FALSE
