SPECIFICATION Spec
CONSTANTS
    t1 = t1
    t2 = t2
    o1 = o1
    ring = ring
    bone = bone
    key = key
    Tokens <- TwoTokens
    Trophies <- TwoTrophies
    TypeOf <- OfOneType
    Offices <- OneOffice
    Capacity = 1
    MaxTime = 0
    Faults <- BothFaults
SYMMETRY Symmetry
INVARIANT TrophiesOnce
INVARIANT BagsRestorable
PROPERTY CheckpointRestored
