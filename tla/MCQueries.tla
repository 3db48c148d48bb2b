------------------------------ MODULE MCQueries ------------------------------
(***************************************************************************)
(* The queries of the run: every order of a few keys, every hash of them,  *)
(* and every combination of a few predicates, over tables of up to five    *)
(* rows, with grants just above and just below what each case needs.       *)
(***************************************************************************)
EXTENDS QueryAnswers

CONSTANTS r1, r2

MCWide == {9}
Keys   == 1 .. 3

\* One table, everything of it, every way to execute it; the rest is added.
Plain(tables, width) ==
  [tables |-> tables, width |-> width, indexes |-> {},
   where |-> NoPredicate, on |-> NoPredicate, groupBy |-> <<>>, aggregates |-> <<>>,
   projection |-> <<1, 2>>, orderBy |-> <<>>, limit |-> NoLimit,
   useIndexes |-> TRUE, strategy |-> "auto", budget |-> 400, handles |-> 6,
   hash |-> [level \in 0 .. MaxLevel |-> [key \in {} |-> 1]],
   results |-> {r1}, fetches |-> {}, limits |-> {9}, spills |-> FALSE, changes |-> FALSE,
   holds |-> <<>>, later |-> {}, command |-> [kind |-> "none", table |-> 1]]

Key(column)        == [column |-> column, descending |-> FALSE]
Descending(column) == [column |-> column, descending |-> TRUE]

Tagged(keys) == [i \in DOMAIN keys |-> <<keys[i], 10 + i>>]

Broad(keys)  == [i \in DOMAIN keys |-> <<keys[i], 9>>]

Sorts ==
  {[Plain(<<Tagged(keys)>>, 2) EXCEPT !.orderBy = <<spec>>, !.budget = budget,
                                      !.handles = handles, !.limit = limit] :
     keys \in UNION {[1 .. n -> 1 .. 2] : n \in {0, 1, 3, 5}},
     spec \in {Key(1), Descending(1)}, budget \in {45, 46, 62, 92},
     handles \in {6}, limit \in {NoLimit, 2}}
  \union
  {[Plain(<<<< <<2, 11>>, <<wide, 12>>, <<1, 13>> >>>>, 2) EXCEPT
      !.orderBy = <<Key(1)>>, !.budget = budget] :
     wide \in {2, 9}, budget \in {46, 100, 160, 400}}

-----------------------------------------------------------------------------
Hashes(keys) == [0 .. MaxLevel -> [keys -> 1 .. Fanout]]

\* Rows of three keys, in every pattern in which they first come in order.
Patterns(n) ==
  {keys \in [1 .. n -> Keys] :
     \A i \in 1 .. n : \A k \in Keys :
       k < keys[i] => \E j \in 1 .. i - 1 : keys[j] = k}

Valued(keys, value(_)) == [i \in DOMAIN keys |-> <<keys[i], value(i)>>]

Groups ==
  {[Plain(<<Valued(keys, LAMBDA i : 1 + (i % 2))>>, 2) EXCEPT
      !.groupBy = <<1>>, !.budget = budget, !.hash = hash,
      !.aggregates = <<[kind |-> "count", column |-> 2], [kind |-> "sum", column |-> 2],
                       [kind |-> "max", column |-> 2]>>,
      !.projection = <<1, 2, 3, 4>>] :
     keys \in Patterns(4), budget \in {90, 91, 182},
     hash \in Hashes({<<k>> : k \in Keys})}
  \union
  {[Plain(<<Valued(keys, LAMBDA i : value)>>, 2) EXCEPT
      !.groupBy = groupBy, !.budget = 182, !.aggregates = <<[kind |-> kind, column |-> 2]>>,
      !.projection = [i \in 1 .. Len(groupBy) + 1 |-> i],
      !.hash = [level \in 0 .. MaxLevel |-> [key \in {<<1>>, <<2>>} |-> key[1]]]] :
     keys \in UNION {[1 .. n -> 1 .. 2] : n \in {0, 3}}, value \in {1, 3},
     groupBy \in {<<>>, <<1>>}, kind \in {"count", "sum", "min", "max", "avg"}}

-----------------------------------------------------------------------------
OnKeys == Compare("=", Column(1), Column(3))
Joining == {OnKeys, AllOf(<<Compare("=", Column(3), Column(1)),
                            Compare("<", Column(2), Column(4))>>)}

InnerIndex == [name |-> 1, table |-> 2, column |-> 1, ordered |-> FALSE, unique |-> FALSE]

Joins2 ==
  {[Plain(<<Tagged(left), Tagged(right)>>, 2) EXCEPT
      !.on = on, !.projection = <<1, 2, 3, 4>>, !.budget = way.budget, !.hash = hash,
      !.strategy = way.strategy, !.indexes = way.indexes] :
     left \in {<<>>, <<1, 1, 1>>, <<1, 2, 1>>, <<2, 1, 3>>, <<3, 2, 1>>},
     right \in {<<>>, <<1, 1>>, <<1, 2, 3>>, <<2, 2, 1, 1>>},
     on \in Joining,
     hash \in {h \in Hashes({<<k>> : k \in Keys}) : h[0][<<1>>] = 1},
     way \in {[strategy |-> "grace", indexes |-> {}, budget |-> 46]}}
  \union
  {[Plain(<<left, Tagged(right)>>, 2) EXCEPT
      !.on = on, !.projection = <<1, 2, 3, 4>>, !.budget = way.budget,
      !.hash = [level \in 0 .. MaxLevel |->
                  [key \in {<<k>> : k \in Keys} |-> 1 + ((key[1] + level) % 2)]],
      !.strategy = way.strategy, !.indexes = way.indexes] :
     left \in {<<>>, Tagged(<<1, 1, 1>>), Tagged(<<1, 2, 1>>), Broad(<<2, 1, 2>>)},
     right \in {<<>>, <<1, 1>>, <<1, 2, 3>>, <<2, 2, 1, 1>>},
     on \in Joining,
     way \in {[strategy |-> "nested loop", indexes |-> {}, budget |-> 46],
              [strategy |-> "nested loop", indexes |-> {InnerIndex}, budget |-> 92],
              [strategy |-> "auto", indexes |-> {InnerIndex}, budget |-> 40],
              [strategy |-> "auto", indexes |-> {}, budget |-> 45],
              [strategy |-> "auto", indexes |-> {}, budget |-> 400]}}

-----------------------------------------------------------------------------
Atoms(column, value) ==
  UNION {{Compare(op, Column(column), Literal(value)),
          Compare(op, Literal(value), Column(column))} :
           op \in {"=", "#", "<", "<=", ">", ">="}}

Wheres ==
  {Not(a) : a \in Atoms(1, 1)}
  \union UNION {{AllOf(<<a, b>>), AnyOf(<<a, b>>), AllOf(<<b, Not(a)>>)} :
                  a \in Atoms(1, 1), b \in Atoms(1, 2) \union Atoms(2, 1)}
  \union {AllOf(<<a, AnyOf(<<b, Compare("=", Column(2), Literal(0))>>)>>) :
            a \in Atoms(1, 1), b \in Atoms(2, 1)}

Square == << <<1, 0>>, <<2, 1>>, <<0, 1>>, <<1, 2>>, <<2, 0>> >>

Filters ==
  {[Plain(<<Square>>, 2) EXCEPT !.where = where, !.indexes = indexes] :
     where \in Wheres,
     indexes \in {{[name |-> 1, table |-> 1, column |-> 1, ordered |-> TRUE, unique |-> FALSE]},
                  {[name |-> 1, table |-> 1, column |-> 1, ordered |-> TRUE, unique |-> FALSE],
                   [name |-> 2, table |-> 1, column |-> 2, ordered |-> FALSE, unique |-> FALSE]}}}

-----------------------------------------------------------------------------
\* Join, group and sort in one plan, with WHERE over both tables.
Stacks ==
  {[Plain(<<Tagged(left), Tagged(right)>>, 2) EXCEPT
      !.on = OnKeys, !.where = where, !.groupBy = <<1>>,
      !.aggregates = <<[kind |-> kind, column |-> 4]>>, !.orderBy = <<Descending(1)>>, !.limit = limit,
      !.useIndexes = useIndexes,
      !.indexes = {[name |-> 1, table |-> 1, column |-> 1, ordered |-> TRUE, unique |-> FALSE], InnerIndex},
      !.budget = budget,
      !.hash = [level \in 0 .. MaxLevel |->
                  [key \in {<<k>> : k \in Keys} |-> 1 + ((key[1] + level) % 2)]]] :
     left \in {<<1, 2, 1>>, <<3, 3, 1>>, <<2, 1, 3>>}, right \in {<<1, 2, 3>>, <<3, 1, 1>>},
     where \in {NoPredicate, Compare("<", Column(1), Literal(3)),
                AllOf(<<Compare(">=", Column(3), Literal(2)), Compare("#", Column(2), Literal(12))>>)},
     kind \in {"count", "max"}, limit \in {NoLimit, 1}, useIndexes \in BOOLEAN,
     budget \in {183, 276, 370}}

\* Two results, every way to use them, and operators that fail at their files.
Uses2 ==
  {[Plain(<<Tagged(<<2, 1, 2>>)>>, 2) EXCEPT
      !.orderBy = <<Key(1)>>, !.budget = 62, !.results = {r1, r2},
      !.fetches = {1, 2}, !.limits = {0, 2, 3}],
   [Plain(<<Tagged(<<2>>)>>, 2) EXCEPT
      !.orderBy = <<Key(1)>>, !.budget = 62, !.fetches = {1}, !.limits = {0},
      !.spills = TRUE],
   [Plain(<<Square>>, 2) EXCEPT
      !.where = Compare("<", Column(1), Literal(2)), !.results = {r1, r2},
      !.indexes = {[name |-> 1, table |-> 1, column |-> 1, ordered |-> TRUE, unique |-> FALSE],
                   [name |-> 2, table |-> 1, column |-> 2, ordered |-> FALSE, unique |-> FALSE]},
      !.fetches = {3}, !.changes = TRUE],
   [Plain(<<Tagged(<<1, 2>>), Tagged(<<2, 1>>)>>, 2) EXCEPT
      !.on = OnKeys, !.indexes = {InnerIndex}, !.projection = <<1, 2, 4>>,
      !.hash = [level \in 0 .. MaxLevel |-> [key \in {<<k>> : k \in Keys} |-> 1]],
      !.fetches = {1}, !.changes = TRUE]}

\* A command that is executed twice, beside a query of its table, and an index
\* that is created or one that is dropped, or handles that change, meanwhile.
First(unique)  == [name |-> 1, table |-> 1, column |-> 1, ordered |-> TRUE, unique |-> unique]
Second         == [name |-> 2, table |-> 1, column |-> 2, ordered |-> FALSE, unique |-> FALSE]

Commanded ==
  {[Plain(<<Tagged(<<2, 1>>)>>, 2) EXCEPT
      !.where = where, !.indexes = {First(unique), Second},
      !.later = {IF second THEN Second ELSE First(unique)},
      !.fetches = {1}, !.limits = {}, !.command = asked] :
     where \in {Compare("<", Column(1), Literal(4)), Compare("=", Column(2), Literal(12))},
     unique \in BOOLEAN, second \in BOOLEAN,
     asked \in {[kind |-> "insert", table |-> 1, row |-> <<3, 12>>],
                [kind |-> "delete", table |-> 1, where |-> Compare(">", Column(1), Literal(1))]}}
  \union
  {[Plain(<<Tagged(<<2, 1>>)>>, 2) EXCEPT
      !.orderBy = <<Key(1)>>, !.budget = budget, !.limits = {},
      !.command = [kind |-> "delete", table |-> 1, where |-> Compare("=", Column(1), Literal(1))]] :
     budget \in {45, 46}}
  \union
  {[Plain(<<Tagged(<<1>>)>>, 2) EXCEPT
      !.where = Compare("=", Column(1), Literal(1)), !.indexes = {First(FALSE)},
      !.limits = {}, !.fetches = {1}, !.changes = TRUE,
      !.command = [kind |-> "delete", table |-> 1, where |-> Compare("=", Column(1), Literal(1))]]}

MCCases == Sorts \union Groups \union Joins2 \union Filters \union Stacks \union Uses2 \union Commanded
=============================================================================
