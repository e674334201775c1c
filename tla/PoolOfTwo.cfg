SPECIFICATION Spec
CONSTANTS
    w1 = w1
    w2 = w2
    w3 = w3
    w4 = w4
    w5 = w5
    Threads <- Workers
    Capacity = 2
INVARIANT TypeOK
INVARIANT UsedCounted
INVARIANT NoLostWakeup
PROPERTY OneOwner
