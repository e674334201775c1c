SPECIFICATION Spec
CONSTANTS
    f1 = f1
    f2 = f2
    f3 = f3
    NoFile = NoFile
    Inodes <- Files
    Writers <- BothWriters
    Chunks = 3
    MaxChanges = 4
    Faults <- NoFaults
SYMMETRY Symmetry
INVARIANT CheckpointWhole
