SPECIFICATION ControlSpec
CONSTANTS
    Ids = {c1, c2}
    Cap = 1
    DispatchTimeout = 2
    WriteTimeout = 3
    MaxSends = 3
    MaxBreaks = 1
    MaxRestarts = 1
CHECK_DEADLOCK FALSE
INVARIANTS NoDoubleWrite SuccessMeansWritten OneAnswerPerLife
