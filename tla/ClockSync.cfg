SPECIFICATION ClockSpec
CONSTANTS
    MaxRevs = 2
    MaxEvents = 1
    MaxFaults = 1
    MaxEnds = 1
    ForeignBox = TRUE
    Stoppable = TRUE
INVARIANTS
    OpenIsCoherent
    
    CleanShutdown
PROPERTIES
    ReplacedBehindBarrier
    ImplementsSwitchover
    Converges
CHECK_DEADLOCK FALSE
