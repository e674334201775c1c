SPECIFICATION Spec
CONSTANTS
    t1 = t1
    t2 = t2
    Tokens <- TwoTokens
    MaxClock = 3
SYMMETRY Symmetry
INVARIANT TypeOK
PROPERTY RefusedChangesNothing
PROPERTY OnlyOwnerTurns
PROPERTY OnlyPlayersServed
PROPERTY AllowTellsTruth
