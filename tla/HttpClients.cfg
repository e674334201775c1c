SPECIFICATION LiveSpec
CONSTANTS
    c1 = c1
    c2 = c2
    Clients <- TwoClients
    MaxRequests <- TwoAndOne
    Kinds <- AllKinds
    SelfUpdate = TRUE
    Faults <- AllFaults
INVARIANT TypeOK
INVARIANT OneUnderWay
PROPERTY Converses
PROPERTY AskedIsAnswered
PROPERTY IdleIsClosed
PROPERTY TicksGoOn
CHECK_DEADLOCK FALSE
