SPECIFICATION Spec
CONSTANTS
    p1 = p1
    p2 = p2
    v1 = v1
    v2 = v2
    t1 = t1
    t2 = t2
    Parts = {p1, p2}
    Inputs = {v1, v2}
    InputsOf <- MCInputsOf
    Tasks = {t1, t2}
    Modes <- MCModes
    Esplora = TRUE
    MaxRounds = 2
    MaxAttempts = 2
    DoubleSpends = FALSE
    Faults = {"sync"}
INVARIANTS
    RoundsSound 

    
CHECK_DEADLOCK FALSE
