SPECIFICATION FairSpec
CONSTANTS
    s1 = s1
    s2 = s2
    Clients = {s1, s2}
    Default = Default
    MaxSessions = 2
    t1 = t1
    t2 = t2
    TableIds = {t1, t2}
    i1 = i1
    i2 = i2
    IndexIds = {i1, i2}
    NoTable = NoTable
    SpatialFile = SpatialFile
    NoChange = NoChange
    Scenarios <- MCScenarios
INVARIANTS RegistryFindsFiles ChangesAreWhole FilesCloseIdle
PROPERTIES SessionsEnd
CHECK_DEADLOCK FALSE
