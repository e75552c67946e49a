SPECIFICATION FairSpec
CONSTANTS
    a = a  b = b  c = c  d = d  e = e  f = f  g = g
    ta = ta  tk = tk  tc = tc  p = p  q = q  o = o  r = r  k = k
    NULL = NULL
    Vtxos <- MCVtxos
    Txids = {ta, tk, tc}
    TxOut <- MCTxOut
    Boards = {a, b}
    Payments = {p, q, o}
    Offboards = {o}
    Inputs <- MCInputs
    RoundOut <- MCRoundOut
    MaxOutputs = 2
    Requests = {r, k}
    Checkpointed = {k}
    ReqInputs <- MCReqInputs
    Spends <- MCSpends
    Faults = {"wallet", "broadcast", "db", "hangup"}
    MaxRounds = 3
    MaxCrashes = 1
INVARIANTS
    FluxSound SpentOnce  
PROPERTIES
    ImplementsLedger DiligentNotBanned  RecordedThenCosigned
