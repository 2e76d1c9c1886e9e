CONSTANTS
    Conns = {k1, k2, k3}
    Main = Main
    Free = Free
SPECIFICATION RSpec
CHECK_DEADLOCK FALSE
INVARIANTS
    RTypeOK
    EarlyHandlersServed
    AtMostOneLate
    LiveMeansAttached
    SocketReachesRunning
PROPERTIES
    
    Recovers
