CONSTANTS
    AddrBits = 2
    NoRule = NoRule
    Lines <- MCPriorityLines
    Requests = {}
    Frames <- MCFrames
SPECIFICATION Spec
INVARIANT
    RequestedPriorityListed
