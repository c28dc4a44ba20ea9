SPECIFICATION FairSpec
CONSTANTS
    Capacity = 2
    MaxSeq = 3
    CheckpointSize = 2
    ReadLimit = 2
    Faults = {"advance", "bufferRead", "cursorRead"}
    MaxIncidents = 1
PROPERTIES EveryRowSettles
