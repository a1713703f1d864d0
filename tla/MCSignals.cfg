SPECIFICATION FairSpec
CONSTANTS
    i1 = i1
    i2 = i2
    i3 = i3
    b1 = b1
    b2 = b2
    SignalIds = {i1, i2}
    Bodies = {b1, b2}
    MaxBatch = 1
    ProjectionFaults = {"signal", "ack"}
    MaxFaults = 3
INVARIANTS
    JournalInv
PROPERTIES
    ImplementsStream
    SignalsDelivered
CHECK_DEADLOCK FALSE
