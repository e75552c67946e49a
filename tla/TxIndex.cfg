SPECIFICATION SceneSpec
CONSTANTS
    b0 = b0  a1 = a1  a2 = a2  a3 = a3  c1 = c1  c2 = c2  c3 = c3
    t = t  n = n  g = g  gg = gg
    NULL = NULL
    Blocks = {b0, a1, a2, a3, c1, c2, c3}
    Base = b0
    Parent <- MCParent
    Path <- MCPath
    TxsOf <- MCTxsOf
    Txs = {t}
    Callers = {n, g}
    TxOf <- MCTxOf
    Getters = {g}
    Stored = {}
    RpcFails = TRUE
INVARIANTS
    TrackedConfirmed IndexLinked
PROPERTIES
    IndexCatchesUp
