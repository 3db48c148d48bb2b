------------------------------- MODULE Grants -------------------------------
(***************************************************************************)
(* The memory arithmetic of the blocking operators: what each of them      *)
(* reserves from its grant, when, and the limits it derives from it        *)
(* (operators/context.py, sorting.py, partitioning.py, aggregation.py,     *)
(* join.py).  Everything is in bytes; a run scales the constants down.     *)
(***************************************************************************)
EXTENDS Integers

CONSTANTS PageSize,       \* PAGE_SIZE
          ChunkPayload,   \* CHUNK_PAYLOAD_SIZE: row bytes of one temporary page
          RegistryWork,   \* REGISTRY_WORK_BYTES, held by an open workspace
          CatalogWork,    \* CATALOG_WORK_BYTES, held by an open run catalogue
          RunEntry,       \* RUN_ENTRY_BYTES, one run descriptor in memory
          SortEntry,      \* SORT_ENTRY_OVERHEAD_BYTES
          KeyEntry,       \* the 16 bytes of one sort key
          FallbackState,  \* FALLBACK_STATE_MINIMUM_BYTES
          MinimumSort,    \* MINIMUM_SORT_BUDGET_BYTES, also the join's minimum
          MaxFanIn        \* DEFAULT_MAX_FAN_IN

ASSUME GrantsAssumption ==
  /\ {PageSize, ChunkPayload, RegistryWork, CatalogWork, RunEntry,
      SortEntry, KeyEntry, FallbackState, MinimumSort} \subseteq Nat \ {0}
  /\ RegistryWork <= ChunkPayload
  /\ MaxFanIn \in Nat /\ MaxFanIn >= 2

\* Fault: nothing is kept for the state of a group that is sorted.
MinimumGroupStateless == MinimumSort + RegistryWork

MinimumGroup == MinimumSort + RegistryWork + FallbackState

\* What an operator is given of the bytes its parent has left: what it asks
\* for, or half of them and never less than its minimum.
Grant(available, requested, minimum) ==
  IF requested # 0 THEN requested
  ELSE IF available \div 2 > minimum THEN available \div 2 ELSE minimum

Granted(available, requested, minimum) ==
  Grant(available, requested, minimum) \in minimum .. available

-----------------------------------------------------------------------------
(* External sort *)

\* A merge pass reads one catalogue of runs and writes the next.
SortAvailable(grant) == grant - RegistryWork - 2 * CatalogWork

RowCost(size, keys) == size + SortEntry + KeyEntry * keys

MergeCost(count, width, keys) ==
  PageSize + 2 * width
    + count * (PageSize + 2 * width + RowCost(width, keys) + RunEntry)

\* The widest row that two runs can still be merged with.
RowCapacity(grant, keys) ==
  (SortAvailable(grant) - MergeCost(2, 0, keys)) \div 8

Scratch(grant, keys) == PageSize + 3 * RowCapacity(grant, keys) + RunEntry

\* What is left for the rows of a chunk while runs are generated.
ChunkRoom(grant, keys) ==
  grant - RegistryWork - CatalogWork - Scratch(grant, keys)

FanIns(grant, keys, width, handles) ==
  {f \in 2 .. MaxFanIn : /\ f <= handles - 1
                         /\ MergeCost(f, width, keys) <= SortAvailable(grant)}

FanIn(grant, keys, width, handles) ==
  LET fanIns == FanIns(grant, keys, width, handles)
  IN  IF fanIns = {} THEN 1 ELSE CHOOSE f \in fanIns : \A g \in fanIns : g <= f

\* Reserved while a group of runs is merged into the next catalogue: the
\* registry, two catalogues, the descriptors, and the merge without them.
Merging(count, width, keys) ==
  RegistryWork + 2 * CatalogWork + count * RunEntry
    + (MergeCost(count, width, keys) - count * RunEntry)

-----------------------------------------------------------------------------
(* Partitions and the fallback of a group *)

MaximumPartitions(grant, handles) ==
  LET byMemory  == grant \div ChunkPayload - 1
      byHandles == handles - 1
      fewest    == IF byMemory < byHandles THEN byMemory ELSE byHandles
  IN  IF fewest < 0 THEN 0 ELSE fewest

Partitioning(fanout) == RegistryWork + fanout * ChunkPayload

\* One group state is kept while a partition that hashing cannot split is
\* sorted: its key, and a row's width for each MIN and MAX.
GroupState(width, entry, states) ==
  LET needed == entry + 2 * width + states
  IN  IF needed > FallbackState THEN needed ELSE FallbackState

FallbackFits(available, state) == available - state >= MinimumSort
=============================================================================
