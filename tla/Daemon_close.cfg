CONSTANTS
    Conns = {k1, k2}
    Main = Main
    Free = Free
SPECIFICATION Spec
CHECK_DEADLOCK FALSE
INVARIANT
    CloseWaitsForHandlers
