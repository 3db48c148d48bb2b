------------------------------ MODULE Planner ------------------------------
(***************************************************************************)
(* From a bound SELECT to its physical plan, and the rows that plan yields *)
(* (query/binder.py, query/planner.py, operators/scan.py, filter.py,       *)
(* projection.py, limit.py).  A query q names one or two tables, given by  *)
(* their rows, the indexes over them, and the clauses of the statement by  *)
(* position; budget, handles and hash are those of its execution, holds    *)
(* has the rows that each index names.                                     *)
(***************************************************************************)
EXTENDS Joins

CONSTANTS NoPredicate, NoLimit

\* The row of a join has the columns of the first table, then the others.
Offset(q, table) == IF table = 1 THEN 0 ELSE q.width

-----------------------------------------------------------------------------
(* Index conditions *)

RECURSIVE Terms(_)
Terms(predicate) ==
  IF predicate.kind = "and" THEN FlattenSeq([i \in DOMAIN predicate.terms |->
                                               Terms(predicate.terms[i])])
  ELSE <<predicate>>

\* What a comparison says when its sides change places.
Reversed(op) == CASE op = "<" -> ">"  [] op = "<=" -> ">="
                  [] op = ">" -> "<"  [] op = ">=" -> "<="
                  [] op \in {"=", "#"} -> op

ConditionOn(column, op, literal) == [column |-> column.at, op |-> op, value |-> literal.value]

\* Fault: the sides are swapped and the operator is not.
ConditionUnturned(t) ==
  IF t.left.kind = "column" THEN ConditionOn(t.left, t.op, t.right)
  ELSE ConditionOn(t.right, t.op, t.left)

Condition(t) ==
  IF t.left.kind = "column" THEN ConditionOn(t.left, t.op, t.right)
  ELSE ConditionOn(t.right, Reversed(t.op), t.left)

\* Only a comparison of a column with a literal, alone or under AND.
SafeConditions(predicate) ==
  LET Conditions(terms) == [i \in DOMAIN terms |-> Condition(terms[i])]
  IN  Conditions(SelectSeq(Terms(predicate), LAMBDA t :
                   t.kind = "compare" /\ t.op # "#" /\ t.left.kind # t.right.kind))

\* The strongest of the bounds on one side, a strict one among equals.
Strongest(conditions, ops, Stronger(_, _)) ==
  LET bounds == {[value |-> c.value, strict |-> c.op \in {"<", ">"}] :
                   c \in {d \in ToSet(conditions) : d.op \in ops}}
  IN  {b \in bounds : \A other \in bounds :
         \/ Stronger(b.value, other.value)
         \/ b.value = other.value /\ (other.strict => b.strict)}

\* The bounds exclude each other.
Excluding(lower, upper) ==
  \E l \in lower, u \in upper :
    \/ l.value > u.value
    \/ l.value = u.value /\ (l.strict \/ u.strict)

RangeSearch(index, lower, upper) ==
  IF index.ordered /\ lower \union upper # {} /\ ~ Excluding(lower, upper)
  THEN {[rank |-> 1, index |-> index, lower |-> lower, upper |-> upper]}
  ELSE {}

\* _candidate_for_index: the first equality, or the strongest bounds if the
\* index is ordered and they do not exclude each other.
SearchesBy(index, conditions) ==
  IF \E i \in DOMAIN conditions : conditions[i].op = "="
  THEN {[rank |-> 0, index |-> index,
         key  |-> Head(SelectSeq(conditions, LAMBDA c : c.op = "=")).value]}
  ELSE RangeSearch(index, Strongest(conditions, {">", ">="}, LAMBDA a, b : a > b),
                          Strongest(conditions, {"<", "<="}, LAMBDA a, b : a < b))

Searches(q, table, index) ==
  SearchesBy(index, SelectSeq(SafeConditions(q.where), LAMBDA c :
                                c.column = Offset(q, table) + index.column))

IndexesOf(q, table) == {i \in q.indexes : i.table = table}

\* The search of least rank, then of least name, if there is any.
Preferred(searches) ==
  {s \in searches : \A o \in searches :
     \/ s.rank < o.rank
     \/ s.rank = o.rank /\ s.index.name <= o.index.name}

Chosen(q, table) ==
  IF ~ q.useIndexes \/ q.where = NoPredicate THEN {}
  ELSE Preferred(UNION {Searches(q, table, i) : i \in IndexesOf(q, table)})

-----------------------------------------------------------------------------
(* Scans *)

Found(q, s, row) ==
  LET value == row[s.index.column]
  IN  /\ row \in q.holds[s.index]
      /\ IF s.rank = 0 THEN value = s.key
         ELSE /\ \A l \in s.lower : IF l.strict THEN value > l.value ELSE value >= l.value
              /\ \A u \in s.upper : IF u.strict THEN value < u.value ELSE value <= u.value

\* What can be found through an index.
IndexedRows(q, index) == SelectSeq(q.tables[index.table], LAMBDA row : row \in q.holds[index])

\* An index scan yields the rows its search finds, an ordered index in key
\* order; a table scan yields all of them.
IndexScan(q, s) ==
  LET InOrder(found) == IF s.index.ordered
                        THEN StableSort(found, Ascending(<<s.index.column>>)) ELSE found
  IN  InOrder(SelectSeq(q.tables[s.index.table], LAMBDA row : Found(q, s, row)))

SourceRows(q, table) ==
  LET Scan(chosen) == IF chosen = {} THEN q.tables[table]
                      ELSE IndexScan(q, CHOOSE s \in chosen : TRUE)
  IN  Scan(Chosen(q, table))

-----------------------------------------------------------------------------
(* Joins and grants *)

\* Each element where it first comes.
Distinct(sequence) ==
  FoldLeft(LAMBDA seen, x : IF x \in ToSet(seen) THEN seen ELSE Append(seen, x),
           <<>>, sequence)

\* Equalities between a column of each table, under AND, left one first.
JoinKeys(q) ==
  LET Key(t) == IF t.left.at <= q.width
                THEN <<t.left.at, t.right.at - q.width>>
                ELSE <<t.right.at, t.left.at - q.width>>
      Keys(terms) == Distinct([i \in DOMAIN terms |-> Key(terms[i])])
  IN  Keys(SelectSeq(Terms(q.on), LAMBDA t :
        /\ t.kind = "compare" /\ t.op = "="
        /\ t.left.kind = "column" /\ t.right.kind = "column"
        /\ (t.left.at <= q.width) # (t.right.at <= q.width)))

\* _eligible_inner_join_index: the first, by name, on the one inner key.
InnerIndexes(q) ==
  LET On(keys) == {i \in IndexesOf(q, 2) : Len(keys) = 1 /\ i.column = keys[1][2]}
  IN  On(JoinKeys(q))

InnerIndexOf(q) ==
  LET First(indexes) == CHOOSE i \in indexes : \A other \in indexes : i.name <= other.name
  IN  First(InnerIndexes(q))

\* Such an index makes the join an index nested loop.
JoinStrategy(q) ==
  CASE Len(q.tables) = 1 -> "none"
    [] Len(q.tables) = 2 /\ q.strategy = "nested loop" -> "nested loop"
    [] Len(q.tables) = 2 /\ q.strategy # "nested loop" ->
         IF q.useIndexes /\ q.strategy = "auto" /\ InnerIndexes(q) # {}
         THEN "index" ELSE "grace"

Grouped(q) == q.aggregates # <<>>

\* The blocking operators, children first, with the least each one takes.
Blocking(q) ==
  (IF JoinStrategy(q) \in {"grace", "nested loop"}
   THEN <<[operator |-> "join", minimum |-> MinimumSort]>> ELSE <<>>)
  \o (IF Grouped(q) THEN <<[operator |-> "group", minimum |-> MinimumGroup]>>
                    ELSE <<>>)
  \o (IF q.orderBy # <<>> THEN <<[operator |-> "sort", minimum |-> MinimumSort]>>
                          ELSE <<>>)

\* Each takes its grant from what the ones before it have left.
Granting(q) ==
  FoldLeft(LAMBDA s, b :
             LET grant == Grant(s.left, 0, b.minimum)
             IN  [left   |-> s.left - grant,
                  grants |-> [s.grants EXCEPT ![b.operator] = grant],
                  fit    |-> s.fit /\ Granted(s.left, 0, b.minimum)],
           [left |-> q.budget, fit |-> TRUE,
            grants |-> [o \in {"join", "group", "sort"} |-> 0]],
           Blocking(q))

\* _preflight, and the two operators that check the fan-out as they open.
OpensWithin(q) ==
  LET Fits(granting) ==
        /\ granting.fit
        /\ JoinStrategy(q) = "grace" =>
             Fanout <= MaximumPartitions(granting.grants["join"], q.handles)
        /\ q.groupBy # <<>> =>
             Fanout <= MaximumPartitions(granting.grants["group"], q.handles)
  IN  Fits(Granting(q))

-----------------------------------------------------------------------------
(* The rows of the plan *)

Joined(q, grant) ==
  LET Sides(keys, strategy, left, right) ==
        LET j == [left  |-> [i \in DOMAIN keys |-> keys[i][1]],
                  right |-> [i \in DOMAIN keys |-> keys[i][2]],
                  on |-> q.on, grant |-> grant, hash |-> q.hash]
        IN  CASE strategy = "none"  -> left
              [] strategy = "index" ->
                   IndexNestedLoop(j, left, IndexedRows(q, InnerIndexOf(q)))
              [] strategy = "nested loop" -> NestedLoop(j, left, right)
              [] strategy = "grace" -> GraceJoin(j, left, right)
  IN  Sides(JoinKeys(q), JoinStrategy(q),
            Yields(SourceRows(q, 1)), Yields(SourceRows(q, 2)))

\* The whole of WHERE is checked again above any scan.
Filtered(q, stream) ==
  IF q.where = NoPredicate THEN stream
  ELSE [stream EXCEPT !.rows = SelectSeq(@, LAMBDA row : Holds(q.where, row))]

GroupedRows(q, grant, stream) ==
  LET g == [positions |-> q.groupBy, aggregates |-> q.aggregates,
            grant |-> grant, handles |-> q.handles, hash |-> q.hash]
      Groups(out) ==
        IF stream.end = "ok" THEN out
        ELSE Fails(<<>>, IF q.groupBy = <<>> /\ out.end \in {"overflow", "refused"}
                         THEN out.end ELSE stream.end)
  IN  IF Grouped(q) THEN Groups(HashGroup(g, stream.rows)) ELSE stream

\* A key named twice is a key once.
SortKeys(q) ==
  FoldLeft(LAMBDA keys, k : IF \E i \in DOMAIN keys : keys[i].column = k.column
                            THEN keys ELSE Append(keys, k),
           <<>>, q.orderBy)

\* A row that is too wide is met before the child ends; the rest is not.
SortedRows(q, grant, stream) ==
  LET Rows(sorted) ==
        IF sorted.end = "oversized" \/ stream.end = "ok" THEN sorted
        ELSE Fails(<<>>, stream.end)
  IN  IF q.orderBy = <<>> THEN stream
      ELSE Rows(SortRows(stream.rows, SortKeys(q), grant, q.handles))

Projected(q, stream) ==
  [stream EXCEPT !.rows = [i \in DOMAIN @ |-> KeyOf(@[i], q.projection)]]

\* The child is not asked for a row beyond the limit.
Limited(q, stream) ==
  IF q.limit = NoLimit \/ Len(stream.rows) < q.limit THEN stream
  ELSE Yields(SubSeq(stream.rows, 1, q.limit))

PlanRows(q) ==
  LET Rows(grants) ==
        Limited(q, Projected(q,
          SortedRows(q, grants["sort"],
            GroupedRows(q, grants["group"],
              Filtered(q, Joined(q, grants["join"]))))))
  IN  Rows(Granting(q).grants)

-----------------------------------------------------------------------------
(* What the statement asks for, whatever the plan *)

\* Every pair of rows, and the conditions on it.
Candidates(q) ==
  IF Len(q.tables) = 1 THEN q.tables[1]
  ELSE FlattenSeq([i \in DOMAIN q.tables[1] |->
         [n \in DOMAIN q.tables[2] |-> q.tables[1][i] \o q.tables[2][n]]])

Selected(q) ==
  SelectSeq(Candidates(q), LAMBDA row :
    /\ Len(q.tables) = 2 => Holds(q.on, row)
    /\ q.where # NoPredicate => Holds(q.where, row))

Total(rows, column) == FoldLeft(LAMBDA sum, row : sum + row[column], 0, rows)

Aggregated(a, rows) ==
  LET values == {row[a.column] : row \in ToSet(rows)}
  IN  CASE a.kind = "count" -> Len(rows)
        [] a.kind = "sum" -> Total(rows, a.column)
        [] a.kind = "avg" -> <<Total(rows, a.column), Len(rows)>>
        [] a.kind = "min" -> Min(values)
        [] a.kind = "max" -> Max(values)

Expected(q) ==
  LET rows == Selected(q)
      keys == {KeyOf(row, q.groupBy) : row \in ToSet(rows)}
      group(key) == SelectSeq(rows, LAMBDA row : KeyOf(row, q.groupBy) = key)
      grouped == IF q.groupBy = <<>> THEN {<<>>} ELSE keys
      line(key) == key \o [i \in DOMAIN q.aggregates |->
                             Aggregated(q.aggregates[i], group(key))]
  IN  IF Grouped(q) THEN SetToSeq({line(key) : key \in grouped}) ELSE rows
=============================================================================
