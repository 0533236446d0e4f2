CONSTANTS
    r1 = r1
    r2 = r2
    r3 = r3
    k1 = k1
    None = None
    OldId = OldId
    Requests <- MCRequests
    EnrollKeys <- MCEnrollKeys
    RequestInputs <- MCRequestInputs
    MaxInFlight <- MCMaxInFlight
    EnrollTTL <- MCEnrollTTL
    MaxTime <- MCMaxTime
SPECIFICATION Spec
INVARIANTS
    TypeOK
    EnrollResponseMatchesStore
    MintOnlyForValidRequests
    AgentLocalMetaIdMatches
PROPERTY
    SlotsEventuallyFree
