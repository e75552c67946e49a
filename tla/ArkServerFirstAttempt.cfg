SPECIFICATION Spec
CONSTANTS
    a = a  b = b  c = c  d = d  e = e  f = f  g = g
    ta = ta  tk = tk  tc = tc  p = p  q = q  o = o  r = r  k = k
    NULL = NULL
    Vtxos <- MCVtxos
    Txids = {ta, tk, tc}
    TxOut <- MCTxOut
    Boards = {a, b}
    Payments = {p, q, o}
    Offboards = {o}
    Inputs <- MCInputs
    RoundOut <- MCRoundOut
    MaxOutputs = 2
    Requests = {r}
    Checkpointed = {}
    ReqInputs <- PackageReqInputs
    Spends <- PackageSpends
    Faults = {"wallet", "broadcast"}
    MaxRounds = 3
    MaxCrashes = 0
INVARIANTS
    FirstAttemptProtected FirstAttemptRecorded
