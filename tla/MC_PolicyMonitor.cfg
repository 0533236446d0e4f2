CONSTANTS
    Servers = {s1, s2, s3}
    Policies = {p1}
    NotFound = NotFound
    ReleaseInterval <- MCReleaseInterval
    LeaderInterval <- MCLeaderInterval
    CheckInterval <- MCCheckInterval
    MaxFailures <- MCMaxFailures
    MaxHits <- MCMaxHits
SPECIFICATION Spec
INVARIANTS
    TypeOK
PROPERTIES
    LeadershipSettles
