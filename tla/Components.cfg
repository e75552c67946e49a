SPECIFICATION ComponentsSpec
CONSTANTS
    Parts = {"sweeper", "tokens", "wallet", "keys", "boards", "tree", "chains", "timing", "selection", "onchain"}
    SweepRounds <- MCSweepRounds
    SweepBoards <- MCSweepBoards
    SweepModes <- MCSweepModes
    Value <- MCValue
    SweepThreshold = 1
    SweepDeep = 2
    LastHeight = 7
    k1 = k1  k2 = k2  k3 = k3
    c1 = c1  c2 = c2  c3 = c3
    Tokens = {k1, k2, k3}
    TokenCallers = {c1, c2, c3}
    TokenCalls <- MCTokenCalls
    MaximumOpen = 1
    TokenModes <- MCTokenModes
    Utxos = {"o1", "o2", "o3"}
    SyncCallers = {"coordinator", "operator"}
    WalModes <- MCWalModes
    VtxoLifetime = 2
    SlowTicks = 2
    MaxClock = 6
    MaxKeys = 3
    Boards = {"b1", "b2"}
    BoardAmount <- MCBoardAmount
    BoardExpiry <- MCBoardExpiry
    BoardCallers = {"c1", "c2"}
    MinBoardAmount = 2
    MaxVtxoAmount = 9
    RequiredBoardConfirmations = 2
    MaxReorg = 1
    MaxBoardHeight = 5
    TreeSizes <- MCTreeSizes
    NonceCounts = {2, 3, 4}
    DeltaWidth = 32
    Users = {1, 2}
    Dust = 2
    BoardAmounts = {8}
    RoundOutputs <- MCRoundOutputs
    PayAmounts = {5, 8, 9}
    DustChange = FALSE
    MaxBuilds = 3
    ExitDeltas = {3, 4}
    HtlcExpiryDelta = 3
    ExitMargin = 5
    RecvClaimDelta = 3
    SendExpiryDelta = 12
    Confirm = 2
    MaxDelay = 1
    HtlcKinds = {"send", "recv"}
    Coins <- MCCoins
    Payments = {4, 7}
    OffboardFee = 1
    RefreshDust = 1
    RefreshThreshold = 2
    SoftMargin = 1
    MaxSelTip = 5
    Deposits = {"d1"}
    Sends = {"s1", "s2"}
    StartHeight = 2
    PersistEvery = 2
    MaxBlocks = 3
    MaxAddresses = 2
    OnchainCrashes = 1
INVARIANTS
    KeysKept BoardsFunded  LibrarySound ClientFundsSound
PROPERTIES
    RegistrationKeeps
CHECK_DEADLOCK FALSE
