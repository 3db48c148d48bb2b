--------------------------- MODULE HashOperators ---------------------------
(***************************************************************************)
(* Grouping and joining with partition files (operators/partitioning.py,   *)
(* aggregation.py, join.py).  hash[level] sends every key to a partition,  *)
(* and may be any function; a partition that does not fit in memory is     *)
(* split at the next level, or processed without hashing.                  *)
(***************************************************************************)
EXTENDS ExternalSort

CONSTANTS Fanout,        \* DEFAULT_PARTITION_COUNT
          MaxLevel,      \* MAX_PARTITION_LEVEL
          GroupEntry,    \* GROUP_ENTRY_OVERHEAD_BYTES
          BuildEntry,    \* BUILD_ENTRY_OVERHEAD_BYTES
          StateEntry,    \* the 16 bytes of one aggregate state
          IntegerMax,    \* INTEGER_MAX, with INTEGER_MIN below it
          NoValue        \* the state of an extreme before its first row

IntegerMin == -IntegerMax - 1

FileBytes(rows) ==
  FoldLeft(LAMBDA bytes, row : bytes + 1 + KeyBytes(row), 0, rows)

\* HashPartitioner: every row goes to the file of its key; empty files are
\* discarded.
PartitionFiles(rows, positions, level, hash) ==
  LET file(p) == SelectSeq(rows, LAMBDA row :
                                   hash[level][KeyOf(row, positions)] = p)
      all == [p \in 1 .. Fanout |-> [index |-> p, level |-> level, rows |-> file(p)]]
  IN  SelectSeq(all, LAMBDA part : part.rows # <<>>)

\* What the kernels may use beside the registry of the workspace.
Available(grant) == grant - RegistryWork

-----------------------------------------------------------------------------
(* Aggregates: a fixed state per group, never its rows *)

Initialize(aggregate) ==
  CASE aggregate.kind \in {"count", "sum"} -> 0
    [] aggregate.kind \in {"min", "max"} -> NoValue
    [] aggregate.kind = "avg" -> <<0, 0>>

Accumulate(aggregate, state, row) ==
  LET value == row[aggregate.column]
  IN  CASE aggregate.kind = "count" -> state + 1
        [] aggregate.kind = "sum" -> state + value
        [] aggregate.kind = "min" ->
             IF state = NoValue \/ value < state THEN value ELSE state
        [] aggregate.kind = "max" ->
             IF state = NoValue \/ value > state THEN value ELSE state
        [] aggregate.kind = "avg" -> <<state[1] + value, state[2] + 1>>

StateBytes(aggregate, state) ==
  CASE aggregate.kind \in {"count", "sum"} -> StateEntry
    [] aggregate.kind = "avg" -> 2 * StateEntry
    [] aggregate.kind \in {"min", "max"} ->
         StateEntry + (IF state = NoValue THEN 0 ELSE ValueBytes(state))

\* Only SUM is checked against the range of INTEGER, after every row.
LeavesRange(aggregates, states) ==
  \E i \in DOMAIN aggregates :
    aggregates[i].kind = "sum" /\ states[i] \notin IntegerMin .. IntegerMax

\* MIN, MAX and AVG of no rows are refused: there is no NULL.
Undefined(aggregates, states) ==
  \E i \in DOMAIN aggregates :
    \/ aggregates[i].kind \in {"min", "max"} /\ states[i] = NoValue
    \/ aggregates[i].kind = "avg" /\ states[i][2] = 0

FreshStates(aggregates) ==
  [i \in DOMAIN aggregates |-> Initialize(aggregates[i])]

Folded(aggregates, states, row) ==
  [i \in DOMAIN aggregates |-> Accumulate(aggregates[i], states[i], row)]

StatesBytes(aggregates, states) ==
  FoldLeft(LAMBDA bytes, i : bytes + StateBytes(aggregates[i], states[i]), 0,
           [i \in DOMAIN aggregates |-> i])

-----------------------------------------------------------------------------
(* ExternalHashGroup *)

\* HashGroupKernel.admit: the growth is charged before the row is folded in,
\* and a row that does not fit leaves the kernel as it was.
Admit(g, kernel, row) ==
  LET key     == KeyOf(row, g.positions)
      known   == {i \in DOMAIN kernel.groups : kernel.groups[i].key = key}
      at      == IF known = {} THEN Len(kernel.groups) + 1 ELSE CHOOSE i \in known : TRUE
      old     == IF known = {} THEN FreshStates(g.aggregates)
                               ELSE kernel.groups[at].states
      new     == Folded(g.aggregates, old, row)
      growth  == IF known = {}
                 THEN KeyBytes(key) + GroupEntry + StatesBytes(g.aggregates, new)
                 ELSE StatesBytes(g.aggregates, new) - StatesBytes(g.aggregates, old)
  IN  IF kernel.end # "ok" THEN kernel
      ELSE IF LeavesRange(g.aggregates, new) THEN [kernel EXCEPT !.end = "overflow"]
      ELSE IF growth > Available(g.grant) - kernel.used
           THEN [kernel EXCEPT !.end = "full"]
      ELSE [kernel EXCEPT !.used = @ + growth,
                          !.groups = IF known = {}
                                     THEN Append(@, [key |-> key, states |-> new])
                                     ELSE [@ EXCEPT ![at].states = new]]

Kernel(g, rows) ==
  FoldLeft(LAMBDA kernel, row : Admit(g, kernel, row),
           [groups |-> <<>>, used |-> 0, end |-> "ok"], rows)

GroupRows(groups) == [i \in DOMAIN groups |-> groups[i].key \o groups[i].states]

\* Adjacent rows of equal keys through one state, each group emitted when the
\* next one begins.
Adjacent(aggregates, positions, rows) ==
  LET Fold(s, row) ==
        LET same == s.groups # <<>> /\ Last(s.groups).key = KeyOf(row, positions)
            new  == Folded(aggregates,
                           IF same THEN Last(s.groups).states ELSE FreshStates(aggregates),
                           row)
            group == [key |-> KeyOf(row, positions), states |-> new]
        IN  IF s.end # "ok" THEN s
            ELSE IF LeavesRange(aggregates, new)
                 THEN [groups |-> IF same THEN Front(s.groups) ELSE s.groups,
                       end |-> "overflow"]
            ELSE [s EXCEPT !.groups = Append(IF same THEN Front(@) ELSE @, group)]
      s == FoldLeft(Fold, [groups |-> <<>>, end |-> "ok"], rows)
  IN  [rows |-> GroupRows(s.groups), end |-> s.end]

\* A partition that hashing cannot split is sorted by its key; the reader of
\* its file keeps one handle meanwhile.
SortedFallback(g, rows) ==
  LET states == FoldLeft(LAMBDA bytes, a :
                           bytes + IF a.kind \in {"min", "max"}
                                   THEN StateEntry + Widest(rows)
                                   ELSE StateBytes(a, Initialize(a)),
                         0, g.aggregates)
      state  == GroupState(Widest(rows), GroupEntry, states)
      Groups(sorted) == IF sorted.end # "ok" THEN sorted
                        ELSE Adjacent(g.aggregates, g.positions, sorted.rows)
  IN  IF ~ FallbackFits(Available(g.grant), state) THEN Fails(<<>>, "refused")
      ELSE Groups(SortRows(rows, Ascending(g.positions),
                           Available(g.grant) - state, g.handles - 1))

\* Partitions are taken from the end of the list.  An attempt that does not
\* fit is dropped whole, since the file still has all of the rows.
GroupedBy(kernel, level, children) ==
  CASE kernel.end = "overflow" -> "overflow"
    [] kernel.end = "ok" -> "kernel"
    [] kernel.end = "full" /\ level < MaxLevel /\ Len(children) > 1 -> "split"
    [] OTHER -> "fallback"

RECURSIVE Grouping(_, _, _)
Grouping(g, pending, out) ==
  LET part     == Last(pending)
      children == PartitionFiles(part.rows, g.positions, part.level + 1, g.hash)
      Emitted(stream) == IF stream.end = "ok"
                         THEN Grouping(g, Front(pending), out \o stream.rows)
                         ELSE Fails(out \o stream.rows, stream.end)
      Process(kernel, way) ==
        CASE way = "overflow" -> Fails(out, "overflow")
          [] way = "kernel"   -> Emitted(Yields(GroupRows(kernel.groups)))
          [] way = "split"    -> Grouping(g, Front(pending) \o children, out)
          [] way = "fallback" -> Emitted(SortedFallback(g, part.rows))
      Attempt(kernel) == Process(kernel, GroupedBy(kernel, part.level, children))
  IN  IF pending = <<>> THEN Yields(out) ELSE Attempt(Kernel(g, part.rows))

GlobalAggregate(g, rows) ==
  LET Fold(s, row) ==
        LET new == Folded(g.aggregates, s.states, row)
        IN  IF s.end # "ok" THEN s
            ELSE IF LeavesRange(g.aggregates, new) THEN [s EXCEPT !.end = "overflow"]
            ELSE IF StatesBytes(g.aggregates, new) > Available(g.grant)
                 THEN [s EXCEPT !.end = "refused"]
            ELSE [s EXCEPT !.states = new]
      s == FoldLeft(Fold, [states |-> FreshStates(g.aggregates), end |-> "ok"], rows)
  IN  IF s.end # "ok" THEN Fails(<<>>, s.end)
      ELSE IF Undefined(g.aggregates, s.states) THEN Fails(<<>>, "undefined")
      ELSE Yields(<<s.states>>)

\* Without keys one state is enough, and nothing is partitioned.
HashGroup(g, rows) ==
  IF g.positions = <<>> THEN GlobalAggregate(g, rows)
  ELSE Grouping(g, PartitionFiles(rows, g.positions, 0, g.hash), <<>>)
=============================================================================
