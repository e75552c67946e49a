SPECIFICATION LightningSpec
CONSTANTS
    Parts = {"payment"}
    h1 = h1
    h2 = h2
    Htlcs <- TwoHtlcs
    XpayErrors = FALSE
    Prompt = TRUE
    Timely = TRUE
    MaxStops = 0
    MaxCrashes = 0
    c1 = c1
    c2 = c2
    Requests = {c1, c2}
    ReceiveModes <- MCReceives
    MaxSubs = 2
INVARIANT
    FailedMeansFailed
CHECK_DEADLOCK FALSE
