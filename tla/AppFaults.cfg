SPECIFICATION Spec
CONSTANTS
    t1 = t1
    t2 = t2
    t3 = t3
    m1 = m1
    m2 = m2
    Tokens <- TwoTokens
    Maps <- TwoMaps
    MapName <- TwoNames
    RetirementTime = 2
    Deltas <- ShortSteps
    SavePeriod = 2
    HasStateFile = TRUE
    IntSpan = 4
    MaxRecords = 1
    MaxPending = 2
    Faults <- AllFaults
SYMMETRY Symmetry
INVARIANT PlayersAgree
INVARIANT JoinsRequestedMap
PROPERTY LeavesWithRecord
PROPERTY CheckpointRestored
