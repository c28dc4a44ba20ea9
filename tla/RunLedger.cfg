SPECIFICATION RunSpec
CONSTANTS
    Runs <- MCRuns
    Contexts <- MCContexts
    Revision = 1
    MaxTime = 2
    MaxSessions = 2
    MaxEvents = 2
    MaxFaults = 1
    MaxEnds = 1
INVARIANTS
    LedgerInSync
    LedgerReopens
    OneVerdict
    ResetSticks
    ValidCoversPoll
PROPERTIES
    LedgerRatchets
CHECK_DEADLOCK FALSE
