CONSTANTS
    AddrBits = 1
    NoRule = NoRule
    None = None
    Free = Free
    Main = Main
    Handlers = {h1, h2}
    Cpus = {c1}
    Slots = {s1, s2}
    Requests <- RuleRequests
    Startup <- StartupList
    Frames <- RuleFrames
    Bucket <- MCBucket
    MaxRules = 2
    MaxFlows = 1
    CounterMod = 1
    SyscallsFail = TRUE
    CtTimeout = 0
    Boot = 1
    MaxTime = 1
SYMMETRY HandlerSymmetry
SPECIFICATION Spec
INVARIANTS
    PresenceConservative
    SoleWriterKnows
    
PROPERTY
    KeepsContract
