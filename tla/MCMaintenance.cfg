SPECIFICATION Spec
CONSTANTS
  Rows <- MCRows
  Loads <- MCLoads
  KeySets <- MCKeySets
  MaxCalls = 3
  PageBytes = 6
  SlotBytes = 1
\* A lost handle stops the table, and so does the bound on statements.
CHECK_DEADLOCK FALSE
INVARIANTS
  IndexesAgree
  FailsClosed
  OrderedSearchesAreComplete
  ReportsAreTrue
