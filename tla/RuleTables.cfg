CONSTANTS
    AddrBits = 2
    NoRule = NoRule
    Lines <- MCLines
    Requests <- MCRequests
    Frames <- MCFrames
SPECIFICATION Spec
INVARIANTS
    TypeOK
    VerdictByTheBook
    ListingByTheBook
