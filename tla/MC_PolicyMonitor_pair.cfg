CONSTANTS
    Servers = {s1, s2}
    Policies = {p1, p2}
    NotFound = NotFound
    ReleaseInterval <- MCReleaseInterval
    LeaderInterval <- MCLeaderInterval
    CheckInterval <- MCCheckInterval
    MaxFailures <- MCMaxFailures
    MaxHits <- MCMaxHits
SPECIFICATION Spec
PROPERTIES
    LeadershipSettles
