CONSTANTS
    AddrBits = 1
    NoRule = NoRule
    None = None
    Free = Free
    Main = Main
    Handlers = {h1}
    Cpus = {c1, c2}
    Slots = {s1}
    Requests <- CounterRequests
    Startup <- NoStartup
    Frames <- CounterFrames
    Bucket <- MCBucket
    MaxRules = 1
    MaxFlows = 1
    CounterMod = 4
    SyscallsFail = FALSE
    CtTimeout = 0
    Boot = 1
    MaxTime = 2
    Readers = {r1}
    Endpoints <- CounterEndpoints
    RuleBucket <- MCRuleBucket
    MaxPackets = 2
SYMMETRY CpuSymmetry
SPECIFICATION OSpec
INVARIANTS
    CountersConserve
    TotalNeverAhead
    AgesSane
