SPECIFICATION Spec
CONSTANTS
  Pairs <- MCPairs
  Loads <- MCLoads
  Probes <- MCProbes
  Shapes <- MCShapes
  MaxCalls = 3
  LeafMax = 3
  InternalMax = 2
  HashOf <- MCHashOf
  BucketMax = 2
  InitialDepth = 1
  MaxDepth = 3
  AliasesPerPage = 4
  PointOf <- MCPointOf
  Capacity = 4
  Collections <- MCCollections
  Queries <- MCQueries
  Limits <- MCLimits
  Builds <- MCBuilds
  BlockBase = 10
  TermCost = 2
  PostingCost = 1
\* Only the bound on calls stops the model.
CHECK_DEADLOCK FALSE
INVARIANTS
  StructureIsValid
  SearchesAgree
PROPERTY ImplementsContract
