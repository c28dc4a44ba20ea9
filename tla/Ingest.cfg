SPECIFICATION IngestFairSpec
CONSTANTS
    N = 2
    Seqs = {1, 2, 3}
    Poison = {2}
    Unsequenced = {}
    ChanCap = 2
    FetchBatch = 2
    MaxDeliver = 2
    MaxCrashes = 1
CHECK_DEADLOCK FALSE
INVARIANTS WindowExact AckedMeansWritten
    HandNeverBlocks
PROPERTIES WrittenOnceInWindow EventuallySettled
