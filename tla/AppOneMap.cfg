SPECIFICATION LiveSpec
CONSTANTS
    t1 = t1
    t2 = t2
    t3 = t3
    m1 = m1
    m2 = m2
    Tokens <- ThreeTokens
    Maps <- OneMap
    MapName <- TownName
    RetirementTime = 2
    Deltas <- ShortSteps
    SavePeriod = 3
    HasStateFile = TRUE
    IntSpan = 8
    MaxRecords = 2
    MaxPending = 3
    Faults <- NoFaults
INVARIANT TypeOK
INVARIANT RetireesExist
PROPERTY LivesOnce
INVARIANT SavedInTime
PROPERTY RecordsOnlyIdle
PROPERTY IdleLeave
