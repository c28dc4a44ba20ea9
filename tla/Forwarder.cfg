SPECIFICATION Spec
CONSTANTS
    Capacity = 3
    MaxSeq = 5
    CheckpointSize = 2
    ReadLimit = 2
    Faults = {"advance", "bufferRead"}
    MaxIncidents = 1
INVARIANTS CursorSkipsNothing ReplayBounded NoUncountedLoss
PROPERTIES ImplementsDelivery
