SPECIFICATION PoolFairSpec
CONSTANTS
    s1 = s1
    s2 = s2
    s3 = s3
    Sends = {s1, s2}
    Required <- MCRequired
    Targets <- MCTargets
    Threshold = 80
    Lifetime = 4
    PreExpiry = 1
    MaxDepth = 1
    Dust = 1
    Initial <- MCInitial
    MaxTip = 2
    MaxIssues = 6
    Faults = 1
INVARIANTS
    SelectionSound InputsUsedOnce
PROPERTIES
    PoolRefilled
