SPECIFICATION Spec
CONSTANTS
    Tip = 3
    Posts = {1, 2}
    Bad = 1
INVARIANTS RequestUnderWay
PROPERTIES TakesItsTurn ShutdownCompletes
CHECK_DEADLOCK FALSE
