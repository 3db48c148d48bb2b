---------------------------- MODULE QueryAnswers ----------------------------
(***************************************************************************)
(* The engine of Commands and the plans of Planner, which an instance      *)
(* gives it: what the rows of results and reports have to do with the      *)
(* statement.                                                              *)
(***************************************************************************)
EXTENDS Planner, Commands

-----------------------------------------------------------------------------
Count(sequence, row) == Cardinality({i \in DOMAIN sequence : sequence[i] = row})

\* There is no NULL to be the least, the greatest or the mean of no rows.
NoExtreme(q) ==
  /\ q.groupBy = <<>> /\ Selected(q) = <<>>
  /\ \E i \in DOMAIN q.aggregates : q.aggregates[i].kind \in {"min", "max", "avg"}

\* The answer in the order the sort gives equal rows: that of its input.
Ordered(q) ==
  LET sorted == StableSort(Expected(q), SortKeys(q))
  IN  IF NoExtreme(q) THEN <<>>
      ELSE [i \in DOMAIN sorted |-> KeyOf(sorted[i], q.projection)]

\* Where every plan reads the one table from first to last.
KeepsOrder(q) == Len(q.tables) = 1 /\ ~ Grouped(q) /\ Chosen(q, 1) = {}

\* The query, over the rows that were there when the plan of r was opened.
AtOpening(r) == [query EXCEPT !.tables = seen[r]]

\* Whatever index, join, grant and hash the plan has, whatever was spilled, and
\* however the rows were fetched: a result delivers rows of the answer, none
\* more often than it is there, sorted as ORDER BY says, equal keys as they came
\* in (sorting.py:160), and a COMPLETE one all of them up to the limit.
RowsAreRight ==
  \A r \in Results : rows[r] # <<>> \/ state[r] = "COMPLETE" =>
    LET q     == AtOpening(r)
        right == Ordered(q)
        most  == IF q.limit # NoLimit /\ q.limit < Len(right)
                 THEN q.limit ELSE Len(right)
    IN  /\ \A i \in DOMAIN rows[r] : Count(rows[r], rows[r][i]) <= Count(right, rows[r][i])
        /\ KeepsOrder(q) => rows[r] = SubSeq(right, 1, Len(rows[r]))
        /\ \A i \in DOMAIN rows[r] : \A k \in DOMAIN q.orderBy :
             \* The cases project the columns they order by in their places.
             \A n \in 1 .. i - 1 : ~ Before(SortKeys(q), rows[r][i], rows[r][n])
        /\ Len(rows[r]) <= most
        /\ state[r] = "COMPLETE" => Len(rows[r]) = most /\ ~ NoExtreme(q)

\* Twice the least that every blocking operator takes.
Ample(q) ==
  /\ q.budget >= 2 * FoldLeft(LAMBDA sum, b : sum + b.minimum, 0, Blocking(q))
  /\ q.handles >= 2 * Fanout + 2

Wide(q) == \E t \in DOMAIN q.tables : \E row \in ToSet(q.tables[t]) :
             \E i \in DOMAIN row : row[i] \in WideValues

\* Some of the rows of a group leave the range of INTEGER.
Overflows(q) ==
  \E i \in DOMAIN q.aggregates : q.aggregates[i].kind = "sum" /\
    \E some \in SUBSET DOMAIN Selected(q) :
      LET picked == [n \in 1 .. Cardinality(some) |->
                       Selected(q)[CHOOSE m \in some :
                                     Cardinality({o \in some : o < m}) = n - 1]]
      IN  /\ \A n \in DOMAIN picked : KeyOf(picked[n], q.groupBy) = KeyOf(picked[1], q.groupBy)
          /\ Total(picked, q.aggregates[i].column) \notin IntegerMin .. IntegerMax

\* A query fails only for a cause: its handles were replaced, an operation on a
\* file failed, a row is too wide for its grant, a sum left its range, nothing
\* was there to take a minimum of.  Once every blocking operator has its grant
\* no plan of narrow rows runs out of memory, and twice the minima are a grant
\* (base.py _preflight, context.py operator_context).
FailsForCause ==
  \A r \in Results : state[r] = "FAILED" =>
    CASE error[r] = "stale"     -> query.changes \/ query.later # {}
      [] error[r] = "io"        -> query.spills
      [] error[r] = "oversized" -> Wide(AtOpening(r))
      [] error[r] = "refused"   -> Wide(AtOpening(r)) \/ ~ (OpensWithin(Plan) \/ Ample(query))
      [] error[r] = "overflow"  -> Overflows(AtOpening(r))
      [] error[r] = "undefined" -> NoExtreme(AtOpening(r))

\* Whatever commands were executed and whatever indexes came and went since it
\* was prepared, a SELECT delivers the rows that are there when it is opened
\* (RowsAreRight), and EXPLAIN ANALYZE counts them: no command works with the
\* indexes of another day (planner.py _validate_mutation_snapshot).
AnswersAreRight ==
  /\ RowsAreRight
  /\ report.kind = "explain" /\ report.end = "done" =>
       LET right == Ordered([query EXCEPT !.tables = report.over])
       IN  report.rows = IF query.limit # NoLimit /\ query.limit < Len(right)
                         THEN query.limit ELSE Len(right)
=============================================================================
