SPECIFICATION LightningSpec
CONSTANTS
    Parts = {"payment", "receive"}
    h1 = h1
    h2 = h2
    Htlcs <- OneHtlc
    XpayErrors = TRUE
    Prompt = TRUE
    Timely = TRUE
    MaxStops = 1
    MaxCrashes = 1
    c1 = c1
    c2 = c2
    Requests = {c1, c2}
    ReceiveModes <- MCReceives
    MaxSubs = 2
INVARIANTS
     CollectedOnce LightningSound
PROPERTIES
    FinalStays LightningEnds
CHECK_DEADLOCK FALSE
