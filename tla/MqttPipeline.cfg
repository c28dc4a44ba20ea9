SPECIFICATION PipelineFairSpec
CONSTANTS
    None = None
    Static = {}
    Reserved = {}
    Ignored = {}
    Topics <- MCTopics
    Indexes <- MCIndexes
    QueueSize = 2
    MaxTracked = 1
    MaxMsgs = 3
    MaxFaults = 2
    MaxSwaps = 1
CHECK_DEADLOCK FALSE
INVARIANTS AckAfterPublish InOrder
PROPERTIES FramesLand FloorForgets
