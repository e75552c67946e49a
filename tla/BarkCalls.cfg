SPECIFICATION FairSpec
CONSTANTS
    c1 = c1
    c2 = c2
    c3 = c3
    v1 = v1
    v2 = v2
    p1 = p1
    p2 = p2
    Calls = {c1, c2, c3}
    Owned = {v1, v2}
    Packages = {p1, p2}
    Modes <- MCModes
    MaxFaults = 1
    RequiredConfs = 2
    BoardExpiry = 4
    HeightRange = 256
    HtlcExpiry = 1
    ExitHeight = 2
    ClaimDelta = 1

    
PROPERTIES
    FinalStays WalletSettles
