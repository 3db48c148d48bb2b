------------------------------- MODULE Joins -------------------------------
(***************************************************************************)
(* The inner equijoins (operators/join.py, index_strategies.py).  A join j *)
(* names the key positions of both sides, the whole condition as a         *)
(* predicate on the joined row, its grant and its hash.  The order of the  *)
(* rows is that of the code, although none is promised.                    *)
(***************************************************************************)
EXTENDS HashOperators

(* Predicates (operators/expressions.py): comparisons of operands, each a  *)
(* column or a literal, under AND, OR and NOT.                             *)
Column(at)     == [kind |-> "column", at |-> at]
Literal(value) == [kind |-> "literal", value |-> value]

Compare(op, left, right) == [kind |-> "compare", op |-> op, left |-> left, right |-> right]
AllOf(terms)   == [kind |-> "and", terms |-> terms]
AnyOf(terms)   == [kind |-> "or", terms |-> terms]
Not(term)      == [kind |-> "not", terms |-> <<term>>]

Operand(operand, row) ==
  IF operand.kind = "column" THEN row[operand.at] ELSE operand.value

Compared(op, a, b) ==
  CASE op = "=" -> a = b   [] op = "#" -> a # b
    [] op = "<" -> a < b   [] op = "<=" -> a <= b
    [] op = ">" -> a > b   [] op = ">=" -> a >= b

RECURSIVE Holds(_, _)
Holds(predicate, row) ==
  CASE predicate.kind = "compare" ->
         Compared(predicate.op, Operand(predicate.left, row), Operand(predicate.right, row))
    [] predicate.kind = "and" -> \A t \in ToSet(predicate.terms) : Holds(t, row)
    [] predicate.kind = "or"  -> \E t \in ToSet(predicate.terms) : Holds(t, row)
    [] predicate.kind = "not" -> ~ Holds(predicate.terms[1], row)

-----------------------------------------------------------------------------
SameKey(j, left, right) == KeyOf(left, j.left) = KeyOf(right, j.right)

\* Every left row with its partners in right, in the order of the outer loop.
Pairs(j, outer, inner, Both(_, _)) ==
  FlattenSeq([i \in DOMAIN outer |->
    LET partners == SelectSeq(inner, LAMBDA row :
                      LET pair == Both(outer[i], row)
                      IN  SameKey(j, pair.left, pair.right)
                            /\ Holds(j.on, pair.left \o pair.right))
    IN  [n \in DOMAIN partners |->
           Both(outer[i], partners[n]).left \o Both(outer[i], partners[n]).right]])

LeftOuter(outer, inner)  == [left |-> outer, right |-> inner]
RightOuter(outer, inner) == [left |-> inner, right |-> outer]

-----------------------------------------------------------------------------
(* Blocks of left rows against all of the right rows *)

\* A block holds a page from its start, and every row it admits.
BlockRoom(j) == Available(j.grant) - ChunkPayload

Block(j, s, row) ==
  CASE s.end # "ok" -> s
    [] s.end = "ok" /\ s.used + Size(row) <= BlockRoom(j) ->
         [s EXCEPT !.block = Append(@, row), !.used = @ + Size(row)]
    [] s.end = "ok" /\ s.used + Size(row) > BlockRoom(j) ->
         LET flushed == IF s.block = <<>> THEN s.blocks ELSE Append(s.blocks, s.block)
         IN  IF Size(row) <= BlockRoom(j)
             THEN [s EXCEPT !.blocks = flushed, !.block = <<row>>, !.used = Size(row)]
             ELSE [s EXCEPT !.blocks = flushed, !.block = <<>>, !.end = "oversized"]

BlocksOf(j, rows) ==
  FoldLeft(LAMBDA s, row : Block(j, s, row),
           [blocks |-> <<>>, block |-> <<>>, used |-> 0, end |-> "ok"], rows)

\* The right rows stream past each block.
PairsOfBlocks(j, blocks, right) ==
  FlattenSeq([b \in DOMAIN blocks |-> Pairs(j, right, blocks[b], RightOuter)])

\* A row too wide for any block ends the join, after the blocks before it; a
\* left side that fails leaves the last block unread.
BlockNested(j, left, right) ==
  LET Paired(s) ==
        [rows |-> PairsOfBlocks(j, IF s.end = "ok" /\ left.end = "ok" /\ s.block # <<>>
                                   THEN Append(s.blocks, s.block) ELSE s.blocks, right),
         end  |-> IF s.end = "ok" THEN left.end ELSE s.end]
  IN  Paired(BlocksOf(j, left.rows))

\* NestedLoopJoin: the right side is spooled, and the left is not read at all
\* when the right has no rows.
NestedLoop(j, left, right) ==
  IF right.end # "ok" THEN Fails(<<>>, right.end)
  ELSE IF right.rows = <<>> THEN Yields(<<>>)
  ELSE BlockNested(j, left, right.rows)

\* IndexNestedLoopJoin: each outer row asks the index for its partners.
IndexNestedLoop(j, left, inner) ==
  [rows |-> Pairs(j, left.rows, inner, LeftOuter), end |-> left.end]

-----------------------------------------------------------------------------
(* GraceHashJoin *)

\* HashJoinKernel.admit_build, folded over the build side: it either holds all
\* of the rows, or reports that one did not fit.
BuildFits(j, rows, positions) ==
  LET Admitted1(s, row) ==
        LET key    == KeyOf(row, positions)
            needed == Size(row)
                        + (IF key \in s.keys THEN 0 ELSE BuildEntry + KeyBytes(key))
        IN  IF ~ s.fits \/ s.used + needed > Available(j.grant)
            THEN [s EXCEPT !.fits = FALSE]
            ELSE [s EXCEPT !.keys = @ \union {key}, !.used = @ + needed]
  IN  FoldLeft(Admitted1, [keys |-> {}, used |-> 0, fits |-> TRUE], rows).fits

\* Partitions with no counterpart are discarded.
MatchPartitions(lefts, rights) ==
  LET counterparts(p) == SelectSeq(rights, LAMBDA q : q.index = p.index)
      kept == SelectSeq(lefts, LAMBDA p : counterparts(p) # <<>>)
  IN  [i \in DOMAIN kept |-> [left |-> kept[i], right |-> counterparts(kept[i])[1]]]

\* The smaller side by stored bytes is built, the left one on a tie.
JoinPair(j, pair) ==
  LET buildLeft == FileBytes(pair.left.rows) <= FileBytes(pair.right.rows)
  IN  IF buildLeft
      THEN [fits |-> BuildFits(j, pair.left.rows, j.left),
            rows |-> Pairs(j, pair.right.rows, pair.left.rows, RightOuter)]
      ELSE [fits |-> BuildFits(j, pair.right.rows, j.right),
            rows |-> Pairs(j, pair.left.rows, pair.right.rows, LeftOuter)]

\* Both sides of a pair that does not fit are split again, by the same
\* function, unless that would leave the left side in one file.
RECURSIVE JoinPairs(_, _, _)
JoinPairs(j, pending, out) ==
  LET pair  == Last(pending)
      level == pair.left.level + 1
      Emitted(stream) == IF stream.end = "ok"
                         THEN JoinPairs(j, Front(pending), out \o stream.rows)
                         ELSE Fails(out \o stream.rows, stream.end)
      Divide(lefts) ==
        IF level <= MaxLevel /\ Len(lefts) # 1
        THEN JoinPairs(j, Front(pending) \o MatchPartitions(lefts,
                            PartitionFiles(pair.right.rows, j.right, level, j.hash)), out)
        ELSE Emitted(BlockNested(j, Yields(pair.left.rows), pair.right.rows))
      Attempt(joined) ==
        IF joined.fits THEN Emitted(Yields(joined.rows))
        ELSE Divide(PartitionFiles(pair.left.rows, j.left, level, j.hash))
  IN  IF pending = <<>> THEN Yields(out) ELSE Attempt(JoinPair(j, pair))

GraceJoin(j, left, right) ==
  IF left.end # "ok" THEN Fails(<<>>, left.end)
  ELSE IF right.end # "ok" THEN Fails(<<>>, right.end)
  ELSE JoinPairs(j, MatchPartitions(PartitionFiles(left.rows, j.left, 0, j.hash),
                                    PartitionFiles(right.rows, j.right, 0, j.hash)),
                 <<>>)
=============================================================================
