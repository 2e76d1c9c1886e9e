CONSTANTS
    AddrBits = 2
    NoRule = NoRule
    Lines <- MCAnyLines
    Requests = {}
    Frames <- MCFrames
SPECIFICATION Spec
INVARIANT
    AnyProtocolMatches
