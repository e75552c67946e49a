SPECIFICATION PoolSpec
CONSTANTS
    s1 = s1
    s2 = s2
    s3 = s3
    Sends = {s1}
    Required <- MCOneRequired
    Targets <- MCOneTargets
    Threshold = 80
    Lifetime = 4
    PreExpiry = 1
    MaxDepth = 1
    Dust = 1
    Initial <- MCOneInitial
    MaxTip = 2
    MaxIssues = 2
    Faults = 1
INVARIANTS
    PoolUnspent
