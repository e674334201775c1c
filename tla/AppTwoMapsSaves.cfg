SPECIFICATION Spec
CONSTANTS
    t1 = t1
    t2 = t2
    t3 = t3
    m1 = m1
    m2 = m2
    Tokens <- TwoTokens
    Maps <- TwoMaps
    MapName <- TwoNames
    RetirementTime = 2
    Deltas <- ShortSteps
    SavePeriod = 2
    HasStateFile = TRUE
    IntSpan = 8
    MaxRecords = 2
    MaxPending = 2
    Faults <- NoFaults
SYMMETRY Symmetry
INVARIANT SavedInTime
