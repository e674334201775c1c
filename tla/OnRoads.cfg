SPECIFICATION Spec
CONSTANTS
    t1 = t1
    t2 = t2
    o1 = o1
    ring = ring
    bone = bone
    Tokens <- TwoTokens
    Trophies <- TwoTrophies
    TypeOf <- OfOneType
    Capacity = 1
    MapRoads <- Corner
    OfficeAt <- InTheCorner
    Speed <- OnCorner
    RetirementTime <- Patience
    Longest = 2
    Percent <- SlowLoot
    OtherSessions = FALSE
    RandomPosition = TRUE
    Turns <- WestSouthStop
    Spots <- SomeSpots
INVARIANT TypeOK
INVARIANT DogsOnRoads
INVARIANT LootInTime
PROPERTY TakesWhatItPasses
PROPERTY KeepsToRoads
PROPERTY MetInOrder
