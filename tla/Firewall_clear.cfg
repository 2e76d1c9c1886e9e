CONSTANTS
    AddrBits = 1
    NoRule = NoRule
    None = None
    Free = Free
    Main = Main
    Handlers = {h1}
    Cpus = {c1}
    Slots = {s1}
    Requests <- LiveRequests
    Startup <- NoStartup
    Frames <- LiveFrames
    Bucket <- MCBucket
    MaxRules = 1
    MaxFlows = 1
    CounterMod = 1
    SyscallsFail = FALSE
    CtTimeout = 0
    Boot = 1
    MaxTime = 1
SPECIFICATION Spec
INVARIANT ClearForgetsFlows
