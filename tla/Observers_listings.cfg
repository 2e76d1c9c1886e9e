CONSTANTS
    AddrBits = 2
    NoRule = NoRule
    None = None
    Free = Free
    Main = Main
    Handlers = {h1}
    Cpus = {}
    Slots = {s1}
    Requests <- ListingRequests
    Startup <- NoStartup
    Frames <- NoFrames
    Bucket <- MCBucket
    MaxRules = 2
    MaxFlows = 1
    CounterMod = 4
    SyscallsFail = TRUE
    CtTimeout = 0
    Boot = 1
    MaxTime = 1
    Readers = {r1}
    Endpoints <- ListingEndpoints
    RuleBucket <- MCRuleBucket
    MaxPackets = 0
SPECIFICATION OSpec
INVARIANT
    ListingComplete
