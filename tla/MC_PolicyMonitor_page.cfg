CONSTANTS
    Servers = {s1, s2}
    Policies = {p1, p2}
    NotFound = NotFound
    ReleaseInterval <- MCReleaseInterval
    LeaderInterval <- MCLeaderInterval
    CheckInterval <- MCCheckInterval
    MaxFailures <- MCNoFailures
    MaxHits <- MCSmallPage
SPECIFICATION Spec
PROPERTIES
    LeadershipSettles
