SPECIFICATION Spec
CONSTANTS
    r1 = r1
    r2 = r2
    Results = {r1, r2}
    NoResult = NoResult
    Objects = {1, 2}
    NoPredicate = NoPredicate
    NoLimit = NoLimit
    NoValue = NoValue
    Unbounded = Unbounded
    Searched <- Chosen
    JoinedBy <- JoinStrategy
    JoinIndex <- InnerIndexOf
    FitsGrants <- OpensWithin
    Delivered <- PlanRows
    Satisfies <- Holds
    Cases <- MCCases
    WideValues <- MCWide
    MaxFiles = 3
    MaxRows = 4
    MaxFaults = 3
    MaxHandles = 4
    SlotBytes = 1
    RunBytes = 16
    PageSize = 1
    ChunkPayload = 12
    RegistryWork = 1
    CatalogWork = 1
    RunEntry = 1
    SortEntry = 10
    KeyEntry = 1
    FallbackState = 44
    MinimumSort = 46
    MaxFanIn = 2
    RowOverhead = 0
    WideBytes = 15
    Fanout = 2
    MaxLevel = 1
    GroupEntry = 30
    BuildEntry = 18
    StateEntry = 2
    IntegerMax = 5
INVARIANTS AnswersAreRight FailsForCause FilesOutliveReaders TempFilesAreAccountedFor OneLiveResult
CHECK_DEADLOCK FALSE
