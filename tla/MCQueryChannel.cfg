CONSTANTS
    Bounds = {0, 1, 2}
    MaxSends = 3
    MaxCalls = 4
SPECIFICATION Spec
INVARIANT TypeOK
INVARIANT FifoDelivery
INVARIANT NullIsFinal
PROPERTY EndOfStreamOnlyWhenDrained
PROPERTY ImplementsFifoChannel
