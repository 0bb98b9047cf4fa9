\* One planning call returns: done and failed are final states.
CONSTANTS
    r1 = r1
    r2 = r2
    r3 = r3
    k1 = k1
    k2 = k2
    k3 = k3
    k4 = k4
    NoRow = NoRow
    Chunks <- MCChunks
    DummyChunk = 1234567890
    DefaultChunkLimit = 2147483647
    CfgLimits = {0, 1, 2}
    Regions <- MCRegions
    RegionChunks <- MCRegionChunks
    Keys <- MCKeys
    KeyChunk <- MCKeyChunk
    MaxLookups = 2
SPECIFICATION Spec
INVARIANT
    IndexConstrainedPlan
CHECK_DEADLOCK FALSE
