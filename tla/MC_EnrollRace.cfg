CONSTANTS
    r1 = r1
    r2 = r2
    r3 = r3
    k1 = k1
    None = None
    OldId = OldId
    Requests <- MCRaceRequests
    EnrollKeys <- MCEnrollKeys
    RequestInputs <- MCRaceInputs
    MaxInFlight <- MCRaceMaxInFlight
    EnrollTTL <- MCEnrollTTL
    MaxTime <- MCMaxTime
SPECIFICATION Spec
INVARIANTS
    RevokedKeyHonoredWithinTTL
SYMMETRY MCRaceSymmetry
