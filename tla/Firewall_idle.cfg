CONSTANTS
    AddrBits = 1
    NoRule = NoRule
    None = None
    Free = Free
    Main = Main
    Handlers = {h1}
    Cpus = {c1}
    Slots = {s1}
    Requests <- ReaperRequests
    Startup <- NoStartup
    Frames <- ReaperFrames
    Bucket <- MCBucket
    MaxRules = 1
    MaxFlows = 1
    CounterMod = 1
    SyscallsFail = FALSE
    CtTimeout = 1
    Boot = 1
    MaxTime = 2
SPECIFICATION Spec
PROPERTY ReapsOnlyIdle
