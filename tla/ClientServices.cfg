SPECIFICATION ClientSpec
CONSTANTS
    Parts = {"exits", "barkd", "movements"}
    v1 = v1  v2 = v2  t1 = t1  t2 = t2  t3 = t3
    ExitVtxos = {v1, v2}
    ExitPath <- MCPath
    ExitModes <- MCExitModes
    ExitDelta = 1
    Deeply = 4
    ExitHeights = 12
    MaxExitFaults = 1
    r1 = r1  r2 = r2
    Requests = {r1}
    RequestKinds <- MCOrdered
    MaxBreaks = 1
    c1 = c1  c2 = c2  c3 = c3
    MoveCallers = {c1, c2}
    MoveModes <- MCMoveModes
INVARIANTS
    ClientSound

     
