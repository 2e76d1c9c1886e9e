CONSTANTS
    AddrBits = 1
    NoRule = NoRule
    None = None
    Free = Free
    Main = Main
    Handlers = {h1}
    Cpus = {c1}
    Slots = {s1}
    Requests <- MCRequests
    Startup <- NoStartup
    Frames <- MCFrames
    Bucket <- MCBucket
    MaxRules = 1
    MaxFlows = 1
    CounterMod = 1
    SyscallsFail = FALSE
    CtTimeout = 4
    Boot = 7
    MaxTime = 7
SPECIFICATION ASpec
INVARIANTS
    TypeOK
    TrackedFlowsAdmitted
    EvictedInTime
PROPERTIES
    
    ClosedFlowsGo
