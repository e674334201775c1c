SPECIFICATION Spec
CONSTANTS
    f1 = f1
    f2 = f2
    f3 = f3
    NoFile = NoFile
    Inodes <- Files
    Writers <- BothWriters
    Chunks = 2
    MaxChanges = 3
    Faults <- AllFaults
SYMMETRY Symmetry
INVARIANT TypeOK
INVARIANT WholeUnlessSpoiled
PROPERTY SavesAtomically
PROPERTY NeverEdited
