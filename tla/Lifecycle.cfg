SPECIFICATION LifecycleSpec
CONSTANTS
    a = a
    b = b
    u = u
    Tag = Tag
    Images = {a, b, u}
    Signed = {a, b}
    Crashing = {b}
    Manifests <- MCManifests
    AdhocUpgrade = TRUE
    MaxBoxes = 3
    MaxFaults = 1
    MaxEnds = 1
CHECK_DEADLOCK FALSE
INVARIANTS VerifiedImages RegistryNamesBox
PROPERTIES RollbackRestores 
