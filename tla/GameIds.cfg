SPECIFICATION Spec
CONSTANTS
    t1 = t1
    t2 = t2
    o1 = o1
    ring = ring
    bone = bone
    key = key
    Tokens <- TwoTokens
    Trophies <- SomeTrophies
    TypeOf <- TypesOfSome
    Offices <- OneOffice
    Capacity = 1
    MaxTime = 1
    Faults <- CrashFaults
PROPERTY TrophyTaken
