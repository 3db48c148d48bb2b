---------------------------- MODULE ExternalSort ----------------------------
(***************************************************************************)
(* The external sort (operators/sorting.py): chunks that fit the grant are *)
(* sorted and written as runs, runs are merged fan-in at a time until one  *)
(* merge is left, and that one is streamed.  A row is a tuple of values; a *)
(* sort key names a position and a direction.  What an operator yields is  *)
(* a record of its rows and of how it ended: "ok", or an error.            *)
(***************************************************************************)
EXTENDS Grants, Sequences, SequencesExt, FiniteSetsExt

CONSTANTS RowOverhead,   \* ROW_OVERHEAD_BYTES
          WideValues,    \* the values that take more than one byte
          WideBytes      \* what each of those takes

Yields(rows)  == [rows |-> rows, end |-> "ok"]
Fails(rows, error) == [rows |-> rows, end |-> error]

ValueBytes(value) == IF value \in WideValues THEN WideBytes ELSE 1

KeyBytes(key) == FoldLeft(LAMBDA bytes, value : bytes + ValueBytes(value), 0, key)

\* row_footprint_bytes: what retaining the row costs.
Size(row) == KeyBytes(row) + RowOverhead

Widest(rows) == Max({0} \union {Size(row) : row \in ToSet(rows)})

KeyOf(row, positions) == [i \in DOMAIN positions |-> row[positions[i]]]

Ascending(positions) ==
  [i \in DOMAIN positions |-> [column |-> positions[i], descending |-> FALSE]]

\* The order of BoundSortSpec.key: the first key that differs decides.
Before(spec, a, b) ==
  \E i \in DOMAIN spec :
    LET c == spec[i].column
    IN  /\ \A j \in 1 .. i - 1 : a[spec[j].column] = b[spec[j].column]
        /\ IF spec[i].descending THEN b[c] < a[c] ELSE a[c] < b[c]

StableSort(rows, spec) ==
  LET Precedes(i, j) == \/ Before(spec, rows[i], rows[j])
                        \/ i < j /\ ~ Before(spec, rows[j], rows[i])
      rank == [i \in DOMAIN rows |->
                 1 + Cardinality({j \in DOMAIN rows : Precedes(j, i)})]
  IN  [n \in DOMAIN rows |-> rows[CHOOSE i \in DOMAIN rows : rank[i] = n]]

-----------------------------------------------------------------------------
(* Phase one: runs *)

\* The reservation covers the chunk; the row that does not fit starts the next.
Admitted(spec, room, s, row) ==
  LET cost == RowCost(Size(row), Len(spec))
  IN  IF room - s.used < cost
      THEN [runs  |-> Append(s.runs, StableSort(s.chunk, spec)),
            chunk |-> <<row>>, used |-> cost]
      ELSE [s EXCEPT !.chunk = Append(@, row), !.used = @ + cost]

Flushed(spec, s) ==
  IF s.chunk = <<>> THEN s.runs ELSE Append(s.runs, StableSort(s.chunk, spec))

RunsOf(rows, spec, grant) ==
  Flushed(spec, FoldLeft(LAMBDA acc, row :
                           Admitted(spec, ChunkRoom(grant, Len(spec)), acc, row),
                         [runs |-> <<>>, chunk |-> <<>>, used |-> 0], rows))

-----------------------------------------------------------------------------
(* Phase two: merges *)

\* The heap holds one head per run, its key first and then the run's index.
Least(spec, runs) ==
  LET heads == {i \in DOMAIN runs : runs[i] # <<>>}
  IN  CHOOSE i \in heads :
        \A j \in heads \ {i} :
          \/ Before(spec, Head(runs[i]), Head(runs[j]))
          \/ i < j /\ ~ Before(spec, Head(runs[j]), Head(runs[i]))

RECURSIVE MergeRows(_, _)
MergeRows(runs, spec) ==
  IF \A i \in DOMAIN runs : runs[i] = <<>> THEN <<>>
  ELSE LET i == Least(spec, runs)
       IN  <<Head(runs[i])>> \o MergeRows([runs EXCEPT ![i] = Tail(@)], spec)

\* One pass: consecutive groups; a group of one is carried over as it is.
Pass(runs, fanIn, spec) ==
  [g \in 1 .. (Len(runs) + fanIn - 1) \div fanIn |->
     MergeRows(SubSeq(runs, (g - 1) * fanIn + 1,
                      IF g * fanIn < Len(runs) THEN g * fanIn ELSE Len(runs)),
               spec)]

RECURSIVE ReduceRuns(_, _, _)
ReduceRuns(runs, fanIn, spec) ==
  IF Len(runs) <= fanIn THEN runs
  ELSE ReduceRuns(Pass(runs, fanIn, spec), fanIn, spec)

\* Runs that no two heads, buffers and handles are left for are refused before
\* any merge.
Merged(runs, fanIn, spec) ==
  IF Len(runs) > 1 /\ fanIn < 2 THEN Fails(<<>>, "refused")
  ELSE Yields(MergeRows(ReduceRuns(runs, fanIn, spec), spec))

\* A row too wide for a merge is refused when it is met.
SortRows(rows, spec, grant, handles) ==
  IF \E row \in ToSet(rows) : Size(row) > RowCapacity(grant, Len(spec))
  THEN Fails(<<>>, "oversized")
  ELSE Merged(RunsOf(rows, spec, grant),
              FanIn(grant, Len(spec), Widest(rows), handles), spec)
=============================================================================
