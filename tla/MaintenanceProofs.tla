------------------------- MODULE MaintenanceProofs -------------------------
(***************************************************************************)
(* Proofs about Maintenance: whatever step fails, the storage file shows   *)
(* the rows from before or after a call, every index that can be used      *)
(* agrees with it, and the report of a statement is true.                  *)
(***************************************************************************)
EXTENDS Maintenance, StorageProofs

-----------------------------------------------------------------------------
(***************************************************************************)
(* The inductive invariant.                                                *)
(***************************************************************************)
Steps == {"idle", "mark", "store", "index", "rebuild", "compensate", "target", "unindex",
          "unstore", "flush", "invalidate", "repair", "reorg_mark", "reorg_store",
          "reorg_rebuild"}

Verdicts == {"none", "refused", "success", "failed", "unreported"}

At(steps) == statement.step \in steps

\* The file: what FailsClosed says, and that a statement only goes on with an
\* open handle.
FileIsRight ==
  /\ open => Sound(file) /\ Contents(file) = settled
  /\ ~ open => (Opens(file) => Contents(file) \in {settled, intended})
  /\ ~ At({"idle", "repair"}) => open

\* The statement: what its step says of its kind and operation.
StatementTypes ==
  [step : Steps, op : {"none", "INSERT", "DELETE", "REORGANIZE"}, verdict : Verdicts,
   completed : {statement.completed}, unavailable : {statement.unavailable}, row : {statement.row},
   rid : {statement.rid}, targets : {statement.targets}, todo : {statement.todo}]

StatementIsRight ==
  /\ kind \in {"heap", "ordered"} /\ open \in BOOLEAN
  /\ statement \in StatementTypes
  /\ At({"mark", "store", "index", "rebuild", "compensate"}) => statement.op = "INSERT"
  /\ At({"mark", "store"}) => statement.row \in FittingRows
  /\ At({"target", "unindex", "unstore", "invalidate"}) => statement.op = "DELETE"
  /\ At({"flush", "repair"}) => statement.op \in {"INSERT", "DELETE"}
  /\ At({"reorg_mark", "reorg_store", "reorg_rebuild"}) =>
       statement.op = "REORGANIZE" /\ kind = "ordered"
  /\ At({"mark", "rebuild"}) => kind = "ordered"
  /\ At({"index"}) => kind = "heap"
  /\ At({"index", "unindex"}) =>
       IF kind = "heap" THEN statement.todo \in {<<"hash", "bplus">>, <<"bplus">>}
       ELSE statement.todo = <<"clustered">>

\* The row that an INSERT has stored, and the one that a DELETE takes out.
AtRow ==
  IF statement.op = "INSERT" THEN <<statement.rid, statement.row>> ELSE Head(statement.targets)
RowIsThere ==
  At({"index", "rebuild", "compensate", "unindex", "unstore"})
    \/ (At({"flush"}) /\ statement.op = "INSERT")
    => AtRow[1] \in RidsOf(file) /\ RowAt(file, AtRow[1]) = AtRow[2]

\* The indexes: which of them can be used, and what those name.
IsIndex(index) ==
  index \in [associations : {index.associations}, complete : BOOLEAN, open : BOOLEAN]
Ready(index) == index.open /\ index.complete
Entry == <<Key(AtRow[2]), AtRow[1]>>
Waiting(n) == \E i \in DOMAIN statement.todo : statement.todo[i] = n

\* The associations of an index that has them all but for the row on its way.
Expected(n) ==
  CASE At({"index"}) /\ Waiting(n) -> Associations(file) \ {Entry}
    [] At({"unindex"}) /\ ~ Waiting(n) -> Associations(file) \ {Entry}
    [] At({"unstore"}) -> Associations(file) \ {Entry}
    [] OTHER -> Associations(file)

Moving == At({"rebuild", "reorg_store", "reorg_rebuild"}) \/ (At({"store"}) /\ kind = "ordered")

IndexesAreRight ==
  /\ DOMAIN indexes = Names(kind)
  /\ \A n \in DOMAIN indexes : IsIndex(indexes[n])
  /\ Moving => \A n \in DOMAIN indexes : ~ Ready(indexes[n])
  /\ ~ Moving /\ ~ At({"idle", "repair", "compensate"}) =>
       \A n \in DOMAIN indexes : Ready(indexes[n])
  /\ open /\ ~ At({"repair", "compensate"}) =>
       \A n \in DOMAIN indexes :
         Ready(indexes[n]) => indexes[n].associations = Expected(n)
  /\ At({"compensate"}) =>
       \A n \in DOMAIN indexes :
         Ready(indexes[n]) => indexes[n].associations \subseteq Associations(file)

IInv == FileIsRight /\ StatementIsRight /\ RowIsThere /\ IndexesAreRight

\* The reports: how the rows have changed since the statement began.
IsRowBag(bag) == IsFiniteSet(DOMAIN bag) /\ bag \in [DOMAIN bag -> Nat \ {0}]
ReportIsRight ==
  /\ At({"mark", "store", "reorg_mark", "reorg_store", "reorg_rebuild"}) => settled = before
  /\ At({"index", "rebuild", "compensate"}) \/ (At({"flush"}) /\ statement.op = "INSERT") =>
       settled = before (+) SetToBag({statement.row})
  /\ At({"repair"}) /\ statement.op = "INSERT" =>
       settled \in {before, before (+) SetToBag({statement.row})}
  /\ At({"target", "unindex", "unstore", "flush", "invalidate", "repair"})
       /\ statement.op = "DELETE" =>
       statement.completed = RowCount(before) - RowCount(settled)

RInv == IInv /\ IsRowBag(before) /\ ReportIsRight /\ ReportsAreTrue

\* An ordered table: its rows lie in key order, and unique keys stay unique
\* because a row on its way to the storage has a key that no other row has.
OrderIsRight ==
  kind = "ordered" /\ open =>
    /\ InKeyOrder(file)
    /\ unique => /\ UniqueKeys(settled)
                 /\ At({"mark", "store"}) =>
                      \A r \in DOMAIN settled : Key(r) # Key(statement.row)

OInv == IInv /\ OrderIsRight

-----------------------------------------------------------------------------
(***************************************************************************)
(* The storage calls and the index operations.                             *)
(***************************************************************************)

\* INSERT, in both organisations.
LEMMA Insertion ==
    ASSUME Sound(file), kind \in {"heap", "ordered"}, NEW row \in FittingRows
    PROVE  LET g == WriteAll(file, InsertWrites(row))
           IN /\ Stores(file, row, InsertWrites(row))
              /\ InsertRid(row) \in RidsOf(g) /\ RowAt(g, InsertRid(row)) = row
              /\ kind = "heap" => StoresAt(file, row, InsertRid(row), InsertWrites(row))
<1>1. CASE kind = "heap"
  <2>1. InsertWrites(row) = HeapWrites(file, row) /\ InsertRid(row) = HeapRid(file, row)
    BY <1>1 DEF InsertWrites, InsertRid
  <2>2. /\ Stores(file, row, HeapWrites(file, row))
        /\ StoresAt(file, row, HeapRid(file, row), HeapWrites(file, row))
    BY HeapInsertion
  <2> QED BY <2>1, <2>2 DEF StoresAt
<1>2. CASE kind = "ordered"
  <2>1. /\ InsertWrites(row) = SequentialWrites(file, row)
        /\ InsertRid(row) = SequentialRid(file, row)
    BY <1>2 DEF InsertWrites, InsertRid
  <2> QED BY <1>2, <2>1, OrderedInsertion
<1> QED BY <1>1, <1>2

\* What marking an index, rebuilding it and repairing it can end in.
Fresh == [associations |-> Associations(file), complete |-> TRUE, open |-> TRUE]

LEMMA MarkedFacts ==
    ASSUME NEW index, IsIndex(index), NEW e \in Marked(index)
    PROVE  /\ IsIndex(e.index) /\ e.failed \in BOOLEAN
           /\ open \/ ~ e.failed => ~ Ready(e.index)
<1> DEFINE marked == [index EXCEPT !.complete = FALSE]
           closed == [index EXCEPT !.open = FALSE]
<1>1. /\ IsIndex(marked) /\ marked.complete = FALSE
      /\ IsIndex(closed) /\ closed.open = FALSE
  BY DEF IsIndex
<1>2. CASE ~ Reaches(index)
  <2>1. e = End(index, TRUE)
    BY <1>2 DEF Marked
  <2>2. e.index = index /\ e.failed = TRUE
    BY <2>1 DEF End
  <2> QED BY <1>2, <2>2 DEF Reaches, Ready
<1>3. CASE Reaches(index)
  <2>1. e \in {End(marked, FALSE), End(marked, TRUE), End(closed, TRUE)}
    BY <1>3 DEF Marked, Close
  <2> HIDE DEF marked, closed
  <2>2. \/ e.index = marked /\ e.failed = FALSE
        \/ e.index = marked /\ e.failed = TRUE
        \/ e.index = closed /\ e.failed = TRUE
    BY <2>1 DEF End
  <2> QED BY <1>1, <2>2 DEF Ready
<1> QED BY <1>2, <1>3

LEMMA FreshFacts == IsIndex(Fresh) /\ Ready(Fresh) /\ Fresh.associations = Associations(file)
BY DEF Fresh, IsIndex, Ready

LEMMA RebuiltFacts ==
    ASSUME NEW index, IsIndex(index), NEW e \in Rebuilt(index)
    PROVE  /\ IsIndex(e.index) /\ e.failed \in BOOLEAN
           /\ ~ e.failed => e.index = Fresh
           /\ e.failed => e.index = index \/ ~ Ready(e.index)
<1> DEFINE closed == [Fresh EXCEPT !.open = FALSE]
<1>1. IsIndex(closed) /\ closed.open = FALSE
  BY FreshFacts DEF IsIndex
<1>2. e \in {End(index, TRUE), End(Fresh, FALSE), End(closed, TRUE)}
  BY DEF Rebuilt, Close, Fresh
<1>3. \/ e.index = index /\ e.failed = TRUE
      \/ e.index = Fresh /\ e.failed = FALSE
      \/ e.index = closed /\ e.failed = TRUE
  <2> HIDE DEF closed
  <2> QED BY <1>2 DEF End
<1> QED BY <1>1, <1>3, FreshFacts DEF Ready

LEMMA RepairedFacts ==
    ASSUME NEW index, IsIndex(index), NEW e \in Repaired(index)
    PROVE  /\ IsIndex(e.index) /\ e.failed \in BOOLEAN
           /\ ~ e.failed => e.index = Fresh
           /\ e.failed /\ open => ~ Ready(e.index)
<1>0. PICK first \in Marked(index) :
        e \in UNION {IF ~ r.failed THEN {r} ELSE {End(m.index, TRUE) : m \in Marked(r.index)}
                     : r \in Rebuilt(first.index)}
  BY DEF Repaired
<1>1. PICK r \in Rebuilt(first.index) :
        e \in IF ~ r.failed THEN {r} ELSE {End(m.index, TRUE) : m \in Marked(r.index)}
  BY <1>0
<1>2. IsIndex(first.index)
  BY MarkedFacts
<1>3. /\ IsIndex(r.index) /\ r.failed \in BOOLEAN
      /\ ~ r.failed => r.index = Fresh
  BY <1>2, RebuiltFacts
<1>4. CASE ~ r.failed
  BY <1>1, <1>3, <1>4
<1>5. CASE r.failed
  <2>1. PICK m \in Marked(r.index) : e = End(m.index, TRUE)
    BY <1>1, <1>5
  <2>2. e.index = m.index /\ e.failed = TRUE
    BY <2>1 DEF End
  <2>3. IsIndex(m.index) /\ (open => ~ Ready(m.index))
    BY <1>3, MarkedFacts
  <2> QED BY <2>2, <2>3
<1> QED BY <1>3, <1>4, <1>5

\* A single association; a handle that stays open keeps the marker.
LEMMA AssociatedFacts ==
    ASSUME NEW index, IsIndex(index), NEW entries, NEW e \in Associated(index, entries)
    PROVE  /\ IsIndex(e.index) /\ e.failed \in BOOLEAN
           /\ ~ e.failed => /\ e.index.associations = entries
                            /\ Ready(e.index) = Ready(index)
           /\ e.failed => e.index = index \/ ~ Ready(e.index)
<1> DEFINE written == [index EXCEPT !.associations = entries]
           torn == [index EXCEPT !.associations = Unknown]
           closed == [torn EXCEPT !.open = FALSE]
<1>1. /\ IsIndex(written) /\ written.associations = entries
      /\ written.open = index.open /\ written.complete = index.complete
  BY DEF IsIndex
<1>2. IsIndex(closed) /\ closed.open = FALSE
  BY DEF IsIndex
<1>3. e \in {End(written, FALSE), End(index, TRUE), End(closed, TRUE)}
  BY DEF Associated, Close
<1>4. \/ e.index = written /\ e.failed = FALSE
      \/ e.index = index /\ e.failed = TRUE
      \/ e.index = closed /\ e.failed = TRUE
  BY <1>3 DEF End
<1> QED BY <1>1, <1>2, <1>4 DEF Ready

\* The same operation on every index.
EndsOf(ends) ==
  /\ DOMAIN IndexesOf(ends) = DOMAIN indexes
  /\ \A n \in DOMAIN indexes : IndexesOf(ends)[n] = ends[n].index
  /\ FailedIn(ends) \subseteq DOMAIN indexes
  /\ \A n \in DOMAIN indexes : n \in FailedIn(ends) <=> ends[n].failed

LEMMA EveryEnd ==
    ASSUME NEW ends, DOMAIN ends = DOMAIN indexes
    PROVE  EndsOf(ends)
BY DEF EndsOf, IndexesOf, FailedIn

LEMMA MarkedEnds ==
    ASSUME \A n \in DOMAIN indexes : IsIndex(indexes[n]), NEW ends \in Ends(Marked)
    PROVE  /\ EndsOf(ends)
           /\ \A n \in DOMAIN indexes :
                /\ IsIndex(IndexesOf(ends)[n])
                /\ open \/ n \notin FailedIn(ends) => ~ Ready(IndexesOf(ends)[n])
<1>1. DOMAIN ends = DOMAIN indexes /\ \A n \in DOMAIN indexes : ends[n] \in Marked(indexes[n])
  BY DEF Ends
<1>2. EndsOf(ends)
  BY <1>1, EveryEnd
<1>3. ASSUME NEW n \in DOMAIN indexes
      PROVE  /\ IsIndex(ends[n].index) /\ ends[n].failed \in BOOLEAN
             /\ open \/ ~ ends[n].failed => ~ Ready(ends[n].index)
  BY <1>1, MarkedFacts
<1> QED BY <1>2, <1>3 DEF EndsOf

LEMMA RebuiltEnds ==
    ASSUME \A n \in DOMAIN indexes : IsIndex(indexes[n]), NEW ends \in Ends(Rebuilt)
    PROVE  /\ EndsOf(ends)
           /\ \A n \in DOMAIN indexes :
                /\ IsIndex(IndexesOf(ends)[n])
                /\ n \notin FailedIn(ends) => IndexesOf(ends)[n] = Fresh
                /\ n \in FailedIn(ends) =>
                     IndexesOf(ends)[n] = indexes[n] \/ ~ Ready(IndexesOf(ends)[n])
<1>1. DOMAIN ends = DOMAIN indexes /\ \A n \in DOMAIN indexes : ends[n] \in Rebuilt(indexes[n])
  BY DEF Ends
<1>2. EndsOf(ends)
  BY <1>1, EveryEnd
<1>3. ASSUME NEW n \in DOMAIN indexes
      PROVE  /\ IsIndex(ends[n].index) /\ ends[n].failed \in BOOLEAN
             /\ ~ ends[n].failed => ends[n].index = Fresh
             /\ ends[n].failed => ends[n].index = indexes[n] \/ ~ Ready(ends[n].index)
  BY <1>1, RebuiltFacts
<1> QED BY <1>2, <1>3 DEF EndsOf

LEMMA RepairedEnds ==
    ASSUME \A n \in DOMAIN indexes : IsIndex(indexes[n]), NEW ends \in Ends(Repaired)
    PROVE  /\ EndsOf(ends)
           /\ \A n \in DOMAIN indexes :
                /\ IsIndex(IndexesOf(ends)[n])
                /\ n \notin FailedIn(ends) => IndexesOf(ends)[n] = Fresh
                /\ n \in FailedIn(ends) /\ open => ~ Ready(IndexesOf(ends)[n])
<1>1. DOMAIN ends = DOMAIN indexes /\ \A n \in DOMAIN indexes : ends[n] \in Repaired(indexes[n])
  BY DEF Ends
<1>2. EndsOf(ends)
  BY <1>1, EveryEnd
<1>3. ASSUME NEW n \in DOMAIN indexes
      PROVE  /\ IsIndex(ends[n].index) /\ ends[n].failed \in BOOLEAN
             /\ ~ ends[n].failed => ends[n].index = Fresh
             /\ ends[n].failed /\ open => ~ Ready(ends[n].index)
  BY <1>1, RepairedFacts
<1> QED BY <1>2, <1>3 DEF EndsOf

\* The associations of a file with one row more, or less.
LEMMA AssociationAdded ==
    ASSUME NEW f, NEW g, NEW rid, rid \notin RidsOf(f), RidsOf(g) = RidsOf(f) \cup {rid},
           \A x \in RidsOf(f) : RowAt(g, x) = RowAt(f, x)
    PROVE  LET e == <<Key(RowAt(g, rid)), rid>>
           IN Associations(f) = Associations(g) \ {e} /\ Associations(g) = Associations(f) \cup {e}
<1> DEFINE e == <<Key(RowAt(g, rid)), rid>>
           a(x) == <<Key(RowAt(g, x)), x>>
<1>1. Associations(g) = {a(x) : x \in RidsOf(g)}
  BY DEF Associations
<1>2. Associations(f) = {a(x) : x \in RidsOf(f)}
  BY DEF Associations
<1>3. \A x \in RidsOf(f) : a(x) # e
  OBVIOUS
<1>4. e = a(rid)
  OBVIOUS
<1> HIDE DEF e, a
<1> QED BY <1>1, <1>2, <1>3, <1>4 DEF e

LEMMA AssociationTaken ==
    ASSUME NEW f, NEW rid \in RidsOf(f), NEW g, RidsOf(g) = RidsOf(f) \ {rid},
           \A x \in RidsOf(g) : RowAt(g, x) = RowAt(f, x)
    PROVE  Associations(g) = Associations(f) \ {<<Key(RowAt(f, rid)), rid>>}
<1>1. /\ rid \notin RidsOf(g) /\ RidsOf(f) = RidsOf(g) \cup {rid}
      /\ \A x \in RidsOf(g) : RowAt(f, x) = RowAt(g, x)
  OBVIOUS
<1> QED BY <1>1, AssociationAdded

-----------------------------------------------------------------------------
(***************************************************************************)
(* The invariant is inductive.                                             *)
(***************************************************************************)

\* A step that touches neither the file nor the indexes, and the cases that
\* most of the steps share.
LEMMA FileKept ==
    ASSUME FileIsRight, StorageUnchanged, ~ At({"idle", "repair"})' => open
    PROVE  FileIsRight'
BY DEF FileIsRight, StorageUnchanged

LEMMA Advanced ==
    ASSUME statement \in StatementTypes, NEW step \in Steps, Becomes(step)
    PROVE  /\ statement' \in StatementTypes' /\ statement'.step = step
           /\ statement'.op = statement.op /\ statement'.row = statement.row
           /\ statement'.rid = statement.rid /\ statement'.targets = statement.targets
           /\ statement'.todo = statement.todo /\ statement'.completed = statement.completed
           /\ statement'.verdict = statement.verdict
BY DEF StatementTypes, Becomes

LEMMA Returned ==
    ASSUME statement \in StatementTypes, NEW verdict \in Verdicts, NEW completed,
           NEW unavailable, Returns(verdict, completed, unavailable)
    PROVE  /\ statement' \in StatementTypes' /\ statement'.step = "idle"
           /\ statement'.op = statement.op /\ statement'.row = statement.row
           /\ statement'.verdict = verdict /\ statement'.completed = completed
           /\ statement'.unavailable = unavailable
BY DEF StatementTypes, Returns, NoStatement, Steps

\* The statement is over, or is about to be repaired.
LEMMA StatementEnds ==
    ASSUME StatementIsRight, statement' \in StatementTypes', open' \in BOOLEAN,
           kind' = kind, At({"idle", "repair"})',
           At({"repair"})' => statement'.op \in {"INSERT", "DELETE"}
    PROVE  StatementIsRight' /\ RowIsThere'
BY DEF StatementIsRight, RowIsThere, At

\* What holds of the indexes at the end of a statement.
LEMMA IndexesAtRest ==
    ASSUME DOMAIN indexes' = Names(kind)', \A n \in DOMAIN indexes' : IsIndex(indexes[n])',
           At({"idle"})',
           open' => \A n \in DOMAIN indexes' :
                      Ready(indexes[n])' => indexes'[n].associations = Associations(file')
    PROVE  IndexesAreRight'
BY DEF IndexesAreRight, Moving, At, Expected

LEMMA IndexesToRepair ==
    ASSUME DOMAIN indexes' = Names(kind)', \A n \in DOMAIN indexes' : IsIndex(indexes[n])',
           At({"repair"})'
    PROVE  IndexesAreRight'
BY DEF IndexesAreRight, Moving, At, Expected

\* Nothing has changed but the step, which leaves the row alone.
LEMMA IndexesKept ==
    ASSUME IndexesAreRight, UNCHANGED <<kind, file, open, indexes>>, open,
           ~ At({"index", "unindex", "unstore", "compensate", "idle", "repair"}), ~ Moving,
           At({"mark", "target", "flush", "invalidate", "reorg_mark"})'
             \/ (At({"store"})' /\ kind = "heap")
    PROVE  IndexesAreRight'
BY DEF IndexesAreRight, Moving, At, Expected, Ready, IsIndex

LEMMA BeginFacts ==
    ASSUME IInv, Begin
    PROVE  /\ open /\ Sound(file) /\ Contents(file) = settled
           /\ \A n \in DOMAIN indexes : /\ IsIndex(indexes[n]) /\ Ready(indexes[n])
                                        /\ indexes[n].associations = Associations(file)
           /\ UNCHANGED <<kind, file, open, indexes, settled, intended>>
BY DEF IInv, Begin, Available, FileIsRight, IndexesAreRight, Idle, At, Expected, Ready,
       StorageUnchanged

\* The first step of a statement.
LEMMA Started ==
    ASSUME IInv, Begin, statement' \in StatementTypes',
           \/ At({"idle"})'
           \/ At({"mark"})' /\ kind = "ordered" /\ statement'.op = "INSERT"
                /\ statement'.row \in FittingRows
           \/ At({"store"})' /\ kind = "heap" /\ statement'.op = "INSERT"
                /\ statement'.row \in FittingRows
           \/ At({"target"})' /\ statement'.op = "DELETE"
           \/ At({"reorg_mark"})' /\ kind = "ordered" /\ statement'.op = "REORGANIZE"
    PROVE  IInv'
<1>1. FileIsRight'
  BY BeginFacts, FileKept DEF IInv, Begin
<1>2. StatementIsRight' /\ RowIsThere'
  BY BeginFacts DEF IInv, StatementIsRight, RowIsThere, At
<1>3. IndexesAreRight'
  BY BeginFacts DEF IInv, IndexesAreRight, Moving, At, Expected, Ready, IsIndex
<1> QED BY <1>1, <1>2, <1>3 DEF IInv

Opened(op, step, verdict, row, targets) ==
  [step |-> step, op |-> op, verdict |-> verdict, completed |-> 0, unavailable |-> {},
   row |-> row, rid |-> <<>>, targets |-> targets, todo |-> <<>>]

LEMMA OpenedFacts ==
    ASSUME NEW op \in {"none", "INSERT", "DELETE", "REORGANIZE"}, NEW step \in Steps,
           NEW verdict \in Verdicts, NEW row, NEW targets,
           statement' = Opened(op, step, verdict, row, targets)
    PROVE  /\ statement' \in StatementTypes' /\ statement'.op = op /\ statement'.step = step
           /\ statement'.verdict = verdict /\ statement'.row = row
           /\ statement'.completed = 0 /\ statement'.unavailable = {}
BY DEF StatementTypes, Opened

LEMMA BeginInsertKeeps ==
    ASSUME IInv, NEW row \in Rows, BeginInsert(row)
    PROVE  IInv'
<1>1. row \in FittingRows
  BY RowsAssumption
<1>2. /\ statement' \in StatementTypes' /\ statement'.op = "INSERT" /\ statement'.row = row
      /\ statement'.step = IF IsDuplicate(Key(row)) THEN "idle"
                           ELSE IF kind = "heap" THEN "store" ELSE "mark"
  <2> DEFINE verdict == IF IsDuplicate(Key(row)) THEN "refused" ELSE "none"
             step == IF IsDuplicate(Key(row)) THEN "idle"
                     ELSE IF kind = "heap" THEN "store" ELSE "mark"
  <2>1. statement' = [NoStatement EXCEPT !.op = "INSERT", !.row = row, !.step = step,
                                         !.verdict = verdict]
    BY DEF BeginInsert
  <2>2. verdict \in Verdicts /\ step \in Steps
    BY DEF Steps, Verdicts
  <2> HIDE DEF verdict, step
  <2>3. /\ statement' \in StatementTypes' /\ statement'.op = "INSERT" /\ statement'.row = row
        /\ statement'.step = step
    <3>1. statement' = Opened("INSERT", step, verdict, row, <<>>)
      BY <2>1 DEF Opened, NoStatement
    <3> QED BY <2>2, <3>1, OpenedFacts
  <2> QED BY <2>3 DEF step
<1>3. kind \in {"heap", "ordered"} /\ Begin
  BY DEF IInv, StatementIsRight, BeginInsert
<1> QED BY <1>1, <1>2, <1>3, Started DEF At

LEMMA BeginDeleteKeeps ==
    ASSUME IInv, NEW keys, BeginDelete(keys)
    PROVE  IInv'
<1> DEFINE targets == SelectSeq(Scan(file), LAMBDA e : Key(e[2]) \in keys)
<1>1. statement' = [NoStatement EXCEPT !.op = "DELETE", !.step = "target", !.targets = targets]
  BY DEF BeginDelete
<1> HIDE DEF targets
<1>2. statement' \in StatementTypes' /\ statement'.op = "DELETE" /\ statement'.step = "target"
  <2>1. statement' = Opened("DELETE", "target", "none", Free, targets)
    BY <1>1 DEF Opened, NoStatement
  <2>2. "target" \in Steps /\ "none" \in Verdicts
    BY DEF Steps, Verdicts
  <2> QED BY <2>1, <2>2, OpenedFacts
<1> QED BY <1>2, Started DEF At, BeginDelete

LEMMA BeginReorganizeKeeps ==
    ASSUME IInv, BeginReorganize
    PROVE  IInv'
<1>1. statement' = [NoStatement EXCEPT !.op = "REORGANIZE", !.step = "reorg_mark"]
  BY DEF BeginReorganize
<1>2. statement' \in StatementTypes' /\ statement'.op = "REORGANIZE"
      /\ statement'.step = "reorg_mark"
  <2>1. statement' = Opened("REORGANIZE", "reorg_mark", "none", Free, <<>>)
    BY <1>1 DEF Opened, NoStatement
  <2>2. "reorg_mark" \in Steps /\ "none" \in Verdicts
    BY DEF Steps, Verdicts
  <2> QED BY <2>1, <2>2, OpenedFacts
<1> QED BY <1>2, Started DEF At, BeginReorganize

LEMMA MarkBeforeMoveKeeps ==
    ASSUME IInv, MarkBeforeMove
    PROVE  IInv'
<1>1. PICK ends \in Ends(Marked) :
        indexes' = IndexesOf(ends)
          /\ Becomes(IF FailedIn(ends) # {} THEN "repair" ELSE "store")
  BY DEF MarkBeforeMove
<1>2. /\ statement.step = "mark" /\ UNCHANGED <<kind, file, open, settled, intended>>
      /\ StorageUnchanged
  BY DEF MarkBeforeMove, Within, StorageUnchanged
<1>3. /\ statement.op = "INSERT" /\ statement.row \in FittingRows /\ kind = "ordered" /\ open
      /\ \A n \in DOMAIN indexes : IsIndex(indexes[n])
      /\ DOMAIN indexes = Names(kind) /\ statement \in StatementTypes
  BY <1>2 DEF IInv, StatementIsRight, FileIsRight, IndexesAreRight, At
<1>4. EndsOf(ends) /\ \A n \in DOMAIN indexes :
                        IsIndex(indexes'[n]) /\ ~ Ready(indexes'[n])
  BY <1>1, <1>3, MarkedEnds
<1>5. statement' \in StatementTypes' /\ statement'.op = "INSERT"
      /\ statement'.row = statement.row /\ statement'.step \in {"repair", "store"}
  <2> DEFINE step == IF FailedIn(ends) # {} THEN "repair" ELSE "store"
  <2>1. step \in {"repair", "store"} /\ step \in Steps
    BY DEF Steps
  <2>2. Becomes(step)
    BY <1>1
  <2> HIDE DEF step
  <2> QED BY <1>3, <2>1, <2>2, Advanced
<1>6. FileIsRight'
  BY <1>2, <1>3, FileKept DEF IInv
<1>7. StatementIsRight' /\ RowIsThere'
  BY <1>2, <1>3, <1>5 DEF IInv, StatementIsRight, RowIsThere, At
<1>8. IndexesAreRight'
  BY <1>1, <1>2, <1>3, <1>4, <1>5
     DEF IndexesAreRight, Moving, At, Expected, Ready, IsIndex, EndsOf
<1> QED BY <1>6, <1>7, <1>8 DEF IInv

\* A storage call that keeps its promise, in both of its ends.
Promises(writes, rows) ==
  /\ Sound(WriteAll(file, writes)) /\ Contents(WriteAll(file, writes)) = rows
  /\ \A h \in FailedWrites(file, writes) : Opens(h) => h = file \/ h = WriteAll(file, writes)

LEMMA StorageEnds ==
    ASSUME FileIsRight, open, NEW writes, NEW rows, Promises(writes, rows),
           StorageDone(writes, rows) \/ (StorageFails(writes, rows) /\ At({"idle", "repair"})')
    PROVE  FileIsRight' /\ open' \in BOOLEAN
<1>1. Sound(file) /\ Contents(file) = settled
  BY DEF FileIsRight
<1>2. CASE StorageDone(writes, rows)
  BY <1>2 DEF FileIsRight, StorageDone, Promises
<1>3. CASE StorageFails(writes, rows) /\ At({"idle", "repair"})'
  <2>1. CASE UNCHANGED <<file, open, intended>>
    BY <1>1, <1>3, <2>1 DEF FileIsRight, StorageFails
  <2>2. CASE file' \in FailedWrites(file, writes) /\ open' = FALSE /\ intended' = rows
    <3>1. settled' = settled
      BY <1>3 DEF StorageFails
    <3>2. Opens(file)' => Contents(file)' \in {settled, rows}
      BY <1>1, <2>2 DEF Promises
    <3> QED BY <1>3, <2>2, <3>1, <3>2 DEF FileIsRight
  <2> QED BY <1>3, <2>1, <2>2 DEF StorageFails
<1> QED BY <1>2, <1>3

LEMMA StoreKeeps ==
    ASSUME IInv, Store
    PROVE  IInv'
<1> DEFINE row == statement.row
           ws == InsertWrites(row)
           rid == InsertRid(row)
           rows == settled (+) SetToBag({row})
           step == IF kind = "heap" THEN "index" ELSE "rebuild"
<1>1. /\ statement.step = "store" /\ UNCHANGED <<kind, indexes>>
      /\ \/ /\ StorageDone(ws, rows)
            /\ statement' = [statement EXCEPT !.rid = rid, !.todo = Order, !.step = step]
         \/ StorageFails(ws, rows) /\ Becomes("repair")
  BY DEF Store, Within
<1>2. /\ statement.op = "INSERT" /\ row \in FittingRows /\ kind \in {"heap", "ordered"} /\ open
      /\ Sound(file) /\ Contents(file) = settled /\ FileIsRight
      /\ \A n \in DOMAIN indexes : IsIndex(indexes[n])
      /\ DOMAIN indexes = Names(kind) /\ statement \in StatementTypes
  BY <1>1 DEF IInv, StatementIsRight, FileIsRight, IndexesAreRight, At
<1>3. /\ Stores(file, row, ws) /\ rid \in RidsOf(WriteAll(file, ws))
      /\ RowAt(WriteAll(file, ws), rid) = row
      /\ kind = "heap" => StoresAt(file, row, rid, ws)
  BY <1>2, Insertion
<1>4. Promises(ws, rows)
  BY <1>2, <1>3 DEF Promises, Stores
<1>5. CASE StorageFails(ws, rows) /\ Becomes("repair")
  <2>1. statement' \in StatementTypes' /\ statement'.op = "INSERT" /\ statement'.step = "repair"
    BY <1>2, <1>5, Advanced DEF Steps
  <2>2. FileIsRight' /\ open' \in BOOLEAN
    BY <1>2, <1>4, <1>5, <2>1, StorageEnds DEF At
  <2>3. StatementIsRight' /\ RowIsThere'
    BY <1>1, <2>1, <2>2, StatementEnds DEF At, IInv
  <2>4. IndexesAreRight'
    BY <1>1, <1>2, <2>1, IndexesToRepair DEF At, IsIndex
  <2> QED BY <2>2, <2>3, <2>4 DEF IInv
<1>6. CASE StorageDone(ws, rows)
           /\ statement' = [statement EXCEPT !.rid = rid, !.todo = Order, !.step = step]
  <2> HIDE DEF ws, rid, rows, row
  <2>1. FileIsRight' /\ open' \in BOOLEAN /\ open' = open /\ file' = WriteAll(file, ws)
    BY <1>2, <1>4, <1>6, StorageEnds DEF StorageDone
  <2>2. step \in Steps /\ step \in {"index", "rebuild"}
    BY DEF Steps
  <2>3. /\ statement' \in StatementTypes' /\ statement'.op = "INSERT"
        /\ statement'.row = statement.row /\ statement'.rid = rid /\ statement'.todo = Order
        /\ statement'.step = step
    BY <1>2, <1>6, <2>2 DEF StatementTypes
  <2>4. RowIsThere'
    BY <1>3, <2>1, <2>2, <2>3 DEF RowIsThere, AtRow, row
  <2>5. StatementIsRight'
    BY <1>1, <1>2, <2>1, <2>2, <2>3 DEF StatementIsRight, At, Order, row
  <2>6. IndexesAreRight'
    <3>1. CASE kind = "heap"
      <4> DEFINE e == <<Key(row), rid>>
      <4>1. Associations(file) = Associations(file)' \ {e}
        BY <1>3, <2>1, <3>1, AssociationAdded DEF StoresAt
      <4>2. Entry' = e /\ statement'.step = "index"
        BY <2>3, <3>1 DEF Entry, AtRow, row
      <4>3. \A n \in DOMAIN indexes : Ready(indexes[n])
                                      /\ indexes[n].associations = Associations(file)
        BY <1>1, <1>2, <3>1 DEF IInv, IndexesAreRight, Moving, At, Expected
      <4>4. \A n \in Names(kind) : Waiting(n)'
        BY <2>3, <3>1 DEF Waiting, Order, Names
      <4>5. \A n \in Names(kind) : Expected(n)' = Associations(file)
        BY <4>1, <4>2, <4>4 DEF Expected, At
      <4> QED BY <1>1, <1>2, <4>2, <4>3, <4>5 DEF IndexesAreRight, Moving, At, Ready, IsIndex
    <3>2. CASE kind = "ordered"
      <4>1. \A n \in DOMAIN indexes : ~ Ready(indexes[n])
        BY <1>1, <3>2 DEF IInv, IndexesAreRight, Moving, At
      <4>2. statement'.step = "rebuild"
        BY <2>3, <3>2
      <4> QED BY <1>1, <1>2, <4>1, <4>2 DEF IndexesAreRight, Moving, At, Ready, IsIndex
    <3> QED BY <1>2, <3>1, <3>2
  <2> QED BY <2>1, <2>4, <2>5, <2>6 DEF IInv
<1> QED BY <1>1, <1>5, <1>6

\* One association of a row, in IndexRow and UnindexRow: an index that was
\* waiting for its turn has had it.
LEMMA TurnTaken ==
    ASSUME StatementIsRight, At({"index", "unindex"})
    PROVE  LET n == Head(statement.todo)
           IN /\ n \in Names(kind)
              /\ Waiting(n)
              /\ Len(statement.todo) > 1 =>
                   /\ kind = "heap" /\ n = "hash" /\ Tail(statement.todo) = <<"bplus">>
              /\ Len(statement.todo) <= 1 =>
                   \A m \in Names(kind) : m # n => ~ Waiting(m)
<1> DEFINE todo == statement.todo
<1>1. CASE kind = "heap" /\ todo = <<"hash", "bplus">>
  <2>1. Len(todo) = 2 /\ Head(todo) = "hash" /\ Tail(todo) = <<"bplus">> /\ DOMAIN todo = 1 .. 2
        /\ todo[1] = "hash" /\ todo[2] = "bplus"
    BY <1>1
  <2> QED BY <1>1, <2>1 DEF Names, Waiting
<1>2. CASE kind = "heap" /\ todo = <<"bplus">>
  <2>1. Len(todo) = 1 /\ Head(todo) = "bplus" /\ DOMAIN todo = 1 .. 1 /\ todo[1] = "bplus"
    BY <1>2
  <2> QED BY <1>2, <2>1 DEF Names, Waiting
<1>3. CASE kind = "ordered" /\ todo = <<"clustered">>
  <2>1. Len(todo) = 1 /\ Head(todo) = "clustered" /\ DOMAIN todo = 1 .. 1
        /\ todo[1] = "clustered"
    BY <1>3
  <2> QED BY <1>3, <2>1 DEF Names, Waiting
<1> QED BY <1>1, <1>2, <1>3 DEF StatementIsRight, At

LEMMA IndexRowKeeps ==
    ASSUME IInv, IndexRow
    PROVE  IInv'
<1> DEFINE n == Head(statement.todo)
           entries == indexes[n].associations \cup {Entry}
<1>1. statement.step = "index" /\ UNCHANGED <<kind, file, open, settled, intended>>
      /\ StorageUnchanged
  BY DEF IndexRow, Within, StorageUnchanged
<1>2. /\ kind = "heap" /\ open /\ statement.op = "INSERT"
      /\ statement \in StatementTypes /\ At({"index", "unindex"}) /\ StatementIsRight
      /\ statement.todo \in {<<"hash", "bplus">>, <<"bplus">>}
  BY <1>1 DEF IInv, StatementIsRight, FileIsRight, At
<1>3. Entry = <<Key(statement.row), statement.rid>>
  BY <1>2 DEF Entry, AtRow
<1>4. PICK end \in Associated(indexes[n], entries) :
        /\ indexes' = [indexes EXCEPT ![n] = end.index]
        /\ statement' = [statement EXCEPT
             !.todo = Tail(@),
             !.step = IF end.failed THEN "compensate"
                      ELSE IF Len(statement.todo) > 1 THEN "index" ELSE "flush"]
  BY <1>3 DEF IndexRow
<1>5. /\ DOMAIN indexes = Names(kind)
      /\ \A m \in DOMAIN indexes :
           IsIndex(indexes[m]) /\ Ready(indexes[m]) /\ indexes[m].associations = Expected(m)
  BY <1>1, <1>2 DEF IInv, IndexesAreRight, Moving, At
<1> DEFINE step == IF end.failed THEN "compensate"
                   ELSE IF Len(statement.todo) > 1 THEN "index" ELSE "flush"
<1>6. /\ n \in Names(kind) /\ Waiting(n)
      /\ Len(statement.todo) > 1 => n = "hash" /\ Tail(statement.todo) = <<"bplus">>
      /\ Len(statement.todo) <= 1 => \A m \in Names(kind) : m # n => ~ Waiting(m)
  BY <1>2, TurnTaken
<1>7. Entry \in Associations(file)
  BY <1>1, <1>2, <1>3 DEF IInv, RowIsThere, AtRow, At, Associations
<1>8. indexes[n].associations = Associations(file) \ {Entry}
  BY <1>1, <1>5, <1>6 DEF Expected, At
<1>9. entries = Associations(file)
  BY <1>7, <1>8
<1> HIDE DEF n, entries
<1>10. /\ DOMAIN indexes' = Names(kind) /\ indexes'[n] = end.index
       /\ \A m \in DOMAIN indexes : m # n => indexes'[m] = indexes[m]
  BY <1>4, <1>5, <1>6
<1>11. /\ IsIndex(end.index) /\ end.failed \in BOOLEAN
       /\ ~ end.failed => end.index.associations = entries /\ Ready(end.index)
       /\ end.failed => end.index = indexes[n] \/ ~ Ready(end.index)
  BY <1>5, <1>6, AssociatedFacts
<1>12. step \in Steps /\ step \in {"compensate", "index", "flush"}
  BY DEF Steps
<1>13. /\ statement' \in StatementTypes' /\ statement'.op = "INSERT" /\ statement'.step = step
       /\ statement'.row = statement.row /\ statement'.rid = statement.rid
       /\ statement'.todo = Tail(statement.todo)
  <2> HIDE DEF step
  <2> QED BY <1>2, <1>4, <1>12 DEF StatementTypes, step
<1>14. FileIsRight'
  BY <1>1, <1>2, FileKept DEF IInv
<1>15. RowIsThere'
  BY <1>1, <1>2, <1>12, <1>13 DEF IInv, RowIsThere, AtRow, At
<1>16. StatementIsRight'
  BY <1>1, <1>2, <1>6, <1>12, <1>13 DEF IInv, StatementIsRight, At
<1>17. IndexesAreRight'
  <2>1. Entry' = Entry /\ Associations(file)' = Associations(file)
    BY <1>1, <1>2, <1>13 DEF Entry, AtRow
  <2>2. \A m \in DOMAIN indexes : IsIndex(indexes[m])'
    BY <1>5, <1>10, <1>11 DEF IsIndex
  <2>3. CASE end.failed
    <3>1. statement'.step = "compensate"
      BY <1>13, <2>3
    <3>2. \A m \in DOMAIN indexes :
            Ready(indexes[m])' => indexes'[m].associations \subseteq Associations(file)
      BY <1>1, <1>5, <1>10, <1>11, <2>3 DEF Expected, Ready
    <3> QED BY <1>5, <1>1, <1>10, <2>1, <2>2, <3>1, <3>2 DEF IndexesAreRight, Moving, At
  <2>4. CASE ~ end.failed /\ Len(statement.todo) > 1
    <3>1. statement'.step = "index" /\ statement'.todo = <<"bplus">> /\ n = "hash"
      BY <1>6, <1>13, <2>4
    <3>2. \A m \in Names(kind) : m # n => m = "bplus"
      BY <1>2, <3>1 DEF Names
    <3>3. Waiting("bplus")' /\ ~ Waiting("hash")'
      BY <3>1 DEF Waiting
    <3>4. Waiting("bplus")
      <4>0. statement.todo # <<"bplus">>
        <5>1. ASSUME statement.todo = <<"bplus">> PROVE FALSE
          <6>1. Len(statement.todo) = 1
            BY ONLY <5>1
          <6> QED BY <2>4, <6>1
        <5> QED BY <5>1
      <4>1. statement.todo = <<"hash", "bplus">>
        BY <1>2, <4>0
      <4> QED BY <4>1 DEF Waiting
    <3>5. \A m \in DOMAIN indexes :
            Ready(indexes[m])' /\ indexes'[m].associations = Expected(m)'
      BY <1>1, <1>5, <1>9, <1>10, <1>11, <2>1, <2>4, <3>1, <3>2, <3>3, <3>4
         DEF Expected, Ready, At
    <3> QED BY <1>5, <1>1, <1>10, <2>2, <3>1, <3>5 DEF IndexesAreRight, Moving, At
  <2>5. CASE ~ end.failed /\ Len(statement.todo) <= 1
    <3>1. statement'.step = "flush"
      BY <1>2, <1>13, <2>5
    <3>2. \A m \in DOMAIN indexes :
            Ready(indexes[m])' /\ indexes'[m].associations = Expected(m)'
      BY <1>1, <1>5, <1>6, <1>9, <1>10, <1>11, <2>1, <2>5, <3>1 DEF Expected, Ready, At
    <3> QED BY <1>5, <1>1, <1>10, <2>2, <3>1, <3>2 DEF IndexesAreRight, Moving, At
  <2>6. Len(statement.todo) > 1 \/ Len(statement.todo) <= 1
    BY <1>2
  <2> QED BY <1>11, <2>3, <2>4, <2>5, <2>6
<1> QED BY <1>14, <1>15, <1>16, <1>17 DEF IInv

LEMMA RebuildAfterMoveKeeps ==
    ASSUME IInv, RebuildAfterMove
    PROVE  IInv'
<1>1. PICK ends \in Ends(Repaired) :
        indexes' = IndexesOf(ends)
          /\ Becomes(IF FailedIn(ends) # {} THEN "compensate" ELSE "flush")
  BY DEF RebuildAfterMove
<1>2. statement.step = "rebuild" /\ UNCHANGED <<kind, file, open, settled, intended>>
      /\ StorageUnchanged
  BY DEF RebuildAfterMove, Within, StorageUnchanged
<1>3. /\ statement.op = "INSERT" /\ open
      /\ \A n \in DOMAIN indexes : IsIndex(indexes[n])
      /\ DOMAIN indexes = Names(kind) /\ statement \in StatementTypes
  BY <1>2 DEF IInv, StatementIsRight, FileIsRight, IndexesAreRight, At
<1>4. /\ EndsOf(ends)
      /\ \A n \in DOMAIN indexes :
           /\ IsIndex(indexes'[n])
           /\ n \notin FailedIn(ends) => indexes'[n] = Fresh
           /\ n \in FailedIn(ends) => ~ Ready(indexes'[n])
  BY <1>1, <1>3, RepairedEnds
<1> DEFINE step == IF FailedIn(ends) # {} THEN "compensate" ELSE "flush"
<1>5. step \in Steps /\ step \in {"compensate", "flush"}
  BY DEF Steps
<1>6. /\ statement' \in StatementTypes' /\ statement'.op = "INSERT" /\ statement'.step = step
      /\ statement'.row = statement.row /\ statement'.rid = statement.rid
  <2>1. Becomes(step)
    BY <1>1
  <2> HIDE DEF step
  <2> QED BY <1>3, <1>5, <2>1, Advanced
<1>7. FileIsRight'
  BY <1>2, <1>3, FileKept DEF IInv
<1>8. RowIsThere' /\ StatementIsRight'
  BY <1>2, <1>3, <1>5, <1>6 DEF IInv, StatementIsRight, RowIsThere, AtRow, At
<1>9. IndexesAreRight'
  <2>1. \A n \in DOMAIN indexes :
          Ready(indexes[n])' => indexes'[n].associations = Associations(file)
    BY <1>4, FreshFacts DEF Ready
  <2>2. step = "flush" => \A n \in DOMAIN indexes : Ready(indexes[n])'
    BY <1>4, FreshFacts DEF Ready
  <2>3. DOMAIN indexes' = Names(kind)' /\ \A n \in DOMAIN indexes' : IsIndex(indexes[n])'
    BY <1>1, <1>2, <1>3, <1>4 DEF EndsOf, IsIndex
  <2> HIDE DEF step
  <2> QED BY <1>2, <1>3, <1>5, <1>6, <2>1, <2>2, <2>3 DEF IndexesAreRight, Moving, At, Expected
<1> QED BY <1>7, <1>8, <1>9 DEF IInv

\* DELETE of one row that is there.
LEMMA DeletionPromises ==
    ASSUME Sound(file), Contents(file) = settled, NEW rid \in RidsOf(file)
    PROVE  Promises(DeleteWrites(file, rid), settled (-) SetToBag({RowAt(file, rid)}))
BY Deletion DEF Promises

LEMMA CompensateKeeps ==
    ASSUME IInv, Compensate
    PROVE  IInv'
<1> DEFINE ws == DeleteWrites(file, statement.rid)
           rows == settled (-) SetToBag({statement.row})
<1>1. /\ statement.step = "compensate" /\ UNCHANGED <<kind, indexes>>
      /\ StorageDone(ws, rows) \/ StorageFails(ws, rows)
      /\ Becomes("repair")
  BY DEF Compensate, Within
<1>2. /\ statement.op = "INSERT" /\ open /\ Sound(file) /\ Contents(file) = settled
      /\ FileIsRight /\ statement \in StatementTypes
      /\ statement.rid \in RidsOf(file) /\ RowAt(file, statement.rid) = statement.row
      /\ \A n \in DOMAIN indexes : IsIndex(indexes[n])
      /\ DOMAIN indexes = Names(kind)
  BY <1>1 DEF IInv, StatementIsRight, FileIsRight, IndexesAreRight, RowIsThere, AtRow, At
<1>3. Promises(ws, rows)
  BY <1>2, DeletionPromises
<1>4. statement' \in StatementTypes' /\ statement'.op = "INSERT" /\ statement'.step = "repair"
  BY <1>1, <1>2, Advanced DEF Steps
<1>5. FileIsRight' /\ open' \in BOOLEAN
  <2> HIDE DEF ws, rows
  <2> QED BY <1>1, <1>2, <1>3, <1>4, StorageEnds DEF At
<1>6. StatementIsRight' /\ RowIsThere'
  BY <1>1, <1>4, <1>5, StatementEnds DEF At, IInv
<1>7. IndexesAreRight'
  BY <1>1, <1>2, <1>4, IndexesToRepair DEF At, IsIndex
<1> QED BY <1>5, <1>6, <1>7 DEF IInv

LEMMA NextTargetKeeps ==
    ASSUME IInv, NextTarget
    PROVE  IInv'
<1> DEFINE target == Head(statement.targets)
           there == IsRow(file, target[1]) /\ RowAt(file, target[1]) = target[2]
<1>1. statement.step = "target" /\ UNCHANGED <<kind, file, open, indexes, settled, intended>>
      /\ StorageUnchanged
  BY DEF NextTarget, Within, StorageUnchanged
<1>2. /\ statement.op = "DELETE" /\ open /\ statement \in StatementTypes
      /\ kind \in {"heap", "ordered"}
      /\ \A n \in DOMAIN indexes : IsIndex(indexes[n])
      /\ DOMAIN indexes = Names(kind)
  BY <1>1 DEF IInv, StatementIsRight, FileIsRight, IndexesAreRight, At
<1>3. \/ Becomes("flush")
      \/ Becomes("repair")
      \/ there /\ statement' = [statement EXCEPT !.step = "unindex", !.todo = Order]
  BY DEF NextTarget
<1>4. FileIsRight'
  BY <1>1, <1>2, FileKept DEF IInv
<1>5. CASE Becomes("flush") \/ Becomes("repair")
  <2>1. /\ statement' \in StatementTypes' /\ statement'.op = "DELETE"
        /\ statement'.step \in {"flush", "repair"}
    BY <1>2, <1>5, Advanced DEF Steps
  <2>2. StatementIsRight' /\ RowIsThere'
    BY <1>1, <1>2, <2>1 DEF IInv, StatementIsRight, RowIsThere, At
  <2>3. IndexesAreRight'
    <3>1. CASE statement'.step = "flush"
      BY <1>1, <1>2, <3>1, IndexesKept DEF IInv, At, Moving
    <3>2. CASE statement'.step = "repair"
      BY <1>1, <1>2, <3>2, IndexesToRepair DEF At, IsIndex
    <3> QED BY <2>1, <3>1, <3>2
  <2> QED BY <1>4, <2>2, <2>3 DEF IInv
<1>6. CASE there /\ statement' = [statement EXCEPT !.step = "unindex", !.todo = Order]
  <2>1. /\ statement' \in StatementTypes' /\ statement'.op = "DELETE"
        /\ statement'.step = "unindex" /\ statement'.todo = Order
        /\ statement'.targets = statement.targets
    BY <1>2, <1>6 DEF StatementTypes, Steps
  <2>2. RowIsThere'
    BY <1>1, <1>6, <2>1 DEF RowIsThere, AtRow, At, IsRow
  <2>3. StatementIsRight'
    BY <1>1, <1>2, <2>1 DEF IInv, StatementIsRight, At, Order
  <2>4. \A n \in Names(kind) : Waiting(n)'
    <3>1. CASE kind = "heap"
      <4>1. statement'.todo = <<"hash", "bplus">>
        BY <2>1, <3>1 DEF Order
      <4> QED BY <3>1, <4>1 DEF Waiting, Names
    <3>2. CASE kind = "ordered"
      <4>1. statement'.todo = <<"clustered">>
        BY <2>1, <3>2 DEF Order
      <4> QED BY <3>2, <4>1 DEF Waiting, Names
    <3> QED BY <1>2, <3>1, <3>2
  <2>5. IndexesAreRight'
    BY <1>1, <1>2, <2>1, <2>4 DEF IInv, IndexesAreRight, Moving, At, Expected, Ready, IsIndex
  <2> QED BY <1>4, <2>2, <2>3, <2>5 DEF IInv
<1> QED BY <1>3, <1>5, <1>6

LEMMA UnindexRowKeeps ==
    ASSUME IInv, UnindexRow
    PROVE  IInv'
<1> DEFINE n == Head(statement.todo)
           entries == indexes[n].associations \ {Entry}
<1>1. statement.step = "unindex" /\ UNCHANGED <<kind, file, open, settled, intended>>
      /\ StorageUnchanged
  BY DEF UnindexRow, Within, StorageUnchanged
<1>2. /\ open /\ statement.op = "DELETE" /\ kind \in {"heap", "ordered"}
      /\ statement \in StatementTypes /\ At({"index", "unindex"}) /\ StatementIsRight
      /\ IF kind = "heap" THEN statement.todo \in {<<"hash", "bplus">>, <<"bplus">>}
         ELSE statement.todo = <<"clustered">>
  BY <1>1 DEF IInv, StatementIsRight, FileIsRight, At
<1>3. Entry = <<Key(Head(statement.targets)[2]), Head(statement.targets)[1]>>
  BY <1>2 DEF Entry, AtRow
<1> DEFINE step(end) == IF end.failed THEN "repair"
                        ELSE IF Len(statement.todo) > 1 THEN "unindex" ELSE "unstore"
<1>4. PICK end \in Associated(indexes[n], entries) :
        /\ indexes' = [indexes EXCEPT ![n] = end.index]
        /\ statement' = [statement EXCEPT !.todo = Tail(@), !.step = step(end)]
  BY <1>3 DEF UnindexRow
<1>5. /\ DOMAIN indexes = Names(kind)
      /\ \A m \in DOMAIN indexes :
           IsIndex(indexes[m]) /\ Ready(indexes[m]) /\ indexes[m].associations = Expected(m)
  BY <1>1, <1>2 DEF IInv, IndexesAreRight, Moving, At
<1>6. /\ n \in Names(kind) /\ Waiting(n)
      /\ Len(statement.todo) > 1 => /\ kind = "heap" /\ n = "hash"
                                    /\ Tail(statement.todo) = <<"bplus">>
      /\ Len(statement.todo) <= 1 => \A m \in Names(kind) : m # n => ~ Waiting(m)
  BY <1>2, TurnTaken
<1>7. indexes[n].associations = Associations(file)
  BY <1>1, <1>5, <1>6 DEF Expected, At
<1>8. entries = Associations(file) \ {Entry}
  BY <1>7
<1> HIDE DEF n, entries
<1>9. /\ DOMAIN indexes' = Names(kind) /\ indexes'[n] = end.index
      /\ \A m \in DOMAIN indexes : m # n => indexes'[m] = indexes[m]
  BY <1>4, <1>5, <1>6
<1>10. /\ IsIndex(end.index) /\ end.failed \in BOOLEAN
       /\ ~ end.failed => end.index.associations = entries /\ Ready(end.index)
       /\ end.failed => end.index = indexes[n] \/ ~ Ready(end.index)
  BY <1>5, <1>6, AssociatedFacts
<1>11. step(end) \in Steps /\ step(end) \in {"repair", "unindex", "unstore"}
  BY DEF Steps
<1>12. /\ statement' \in StatementTypes' /\ statement'.op = "DELETE"
       /\ statement'.step = step(end) /\ statement'.targets = statement.targets
       /\ statement'.todo = Tail(statement.todo)
  <2> DEFINE s == step(end)
  <2>1. s \in Steps /\ statement' = [statement EXCEPT !.todo = Tail(@), !.step = s]
    BY <1>4, <1>11
  <2> HIDE DEF s
  <2>2. /\ statement' \in StatementTypes' /\ statement'.op = "DELETE" /\ statement'.step = s
        /\ statement'.targets = statement.targets /\ statement'.todo = Tail(statement.todo)
    BY <1>2, <2>1 DEF StatementTypes
  <2> QED BY <2>2 DEF s
<1>13. FileIsRight'
  BY <1>1, <1>2, FileKept DEF IInv
<1>14. RowIsThere'
  BY <1>1, <1>2, <1>11, <1>12 DEF IInv, RowIsThere, AtRow, At
<1>15. StatementIsRight'
  BY <1>1, <1>2, <1>6, <1>11, <1>12 DEF IInv, StatementIsRight, At
<1>16. IndexesAreRight'
  <2>1. Entry' = Entry /\ Associations(file)' = Associations(file)
    BY <1>1, <1>2, <1>12 DEF Entry, AtRow
  <2>2. \A m \in DOMAIN indexes : IsIndex(indexes[m])'
    BY <1>5, <1>9, <1>10 DEF IsIndex
  <2>3. CASE end.failed
    <3>1. statement'.step = "repair"
      BY <1>12, <2>3
    <3> QED BY <1>1, <1>5, <1>9, <2>2, <3>1, IndexesToRepair DEF At
  <2>4. CASE ~ end.failed /\ Len(statement.todo) > 1
    <3>1. /\ statement'.step = "unindex" /\ statement'.todo = <<"bplus">> /\ n = "hash"
          /\ kind = "heap"
      BY <1>6, <1>12, <2>4
    <3>2. \A m \in Names(kind) : m # n => m = "bplus"
      BY <3>1 DEF Names
    <3>3. Waiting("bplus")' /\ ~ Waiting("hash")'
      BY <3>1 DEF Waiting
    <3>4. Waiting("bplus")
      <4>1. ASSUME statement.todo = <<"bplus">> PROVE FALSE
        <5>1. Len(statement.todo) = 1
          BY ONLY <4>1
        <5> QED BY <2>4, <5>1
      <4>2. statement.todo = <<"hash", "bplus">>
        BY <1>2, <3>1, <4>1
      <4> QED BY <4>2 DEF Waiting
    <3>5. \A m \in DOMAIN indexes :
            Ready(indexes[m])' /\ indexes'[m].associations = Expected(m)'
      BY <1>1, <1>5, <1>8, <1>9, <1>10, <2>1, <2>4, <3>1, <3>2, <3>3, <3>4
         DEF Expected, Ready, At
    <3> QED BY <1>5, <1>1, <1>9, <2>2, <3>1, <3>5 DEF IndexesAreRight, Moving, At
  <2>5. CASE ~ end.failed /\ Len(statement.todo) <= 1
    <3>1. statement'.step = "unstore"
      BY <1>2, <1>12, <2>5
    <3>2. \A m \in DOMAIN indexes :
            Ready(indexes[m])' /\ indexes'[m].associations = Expected(m)'
      BY <1>1, <1>5, <1>6, <1>8, <1>9, <1>10, <2>1, <2>5, <3>1 DEF Expected, Ready, At
    <3> QED BY <1>5, <1>1, <1>9, <2>2, <3>1, <3>2 DEF IndexesAreRight, Moving, At
  <2>6. Len(statement.todo) > 1 \/ Len(statement.todo) <= 1
    BY <1>2
  <2> QED BY <1>10, <2>3, <2>4, <2>5, <2>6
<1> QED BY <1>13, <1>14, <1>15, <1>16 DEF IInv

LEMMA UnstoreKeeps ==
    ASSUME IInv, Unstore
    PROVE  IInv'
<1> DEFINE target == Head(statement.targets)
           rid == target[1]
           ws == DeleteWrites(file, rid)
           rows == settled (-) SetToBag({target[2]})
           g == WriteAll(file, ws)
<1>1. /\ statement.step = "unstore" /\ UNCHANGED <<kind, indexes>>
      /\ \/ /\ StorageDone(ws, rows)
            /\ statement' = [statement EXCEPT !.step = "target", !.targets = Tail(@),
                                              !.completed = @ + 1]
         \/ StorageFails(ws, rows) /\ Becomes("repair")
  BY DEF Unstore, Within
<1>2. /\ statement.op = "DELETE" /\ open /\ Sound(file) /\ Contents(file) = settled
      /\ kind \in {"heap", "ordered"} /\ FileIsRight /\ statement \in StatementTypes
      /\ rid \in RidsOf(file) /\ RowAt(file, rid) = target[2]
      /\ \A n \in DOMAIN indexes : IsIndex(indexes[n])
      /\ DOMAIN indexes = Names(kind)
  BY <1>1 DEF IInv, StatementIsRight, FileIsRight, IndexesAreRight, RowIsThere, AtRow, At
<1>3. Promises(ws, rows)
  BY <1>2, DeletionPromises
<1>4. CASE StorageFails(ws, rows) /\ Becomes("repair")
  <2>1. statement' \in StatementTypes' /\ statement'.op = "DELETE" /\ statement'.step = "repair"
    BY <1>2, <1>4, Advanced DEF Steps
  <2>2. FileIsRight' /\ open' \in BOOLEAN
    <3> HIDE DEF ws, rows
    <3> QED BY <1>2, <1>3, <1>4, <2>1, StorageEnds DEF At
  <2>3. StatementIsRight' /\ RowIsThere'
    BY <1>1, <2>1, <2>2, StatementEnds DEF At, IInv
  <2>4. IndexesAreRight'
    BY <1>1, <1>2, <2>1, IndexesToRepair DEF At, IsIndex
  <2> QED BY <2>2, <2>3, <2>4 DEF IInv
<1>5. CASE StorageDone(ws, rows)
           /\ statement' = [statement EXCEPT !.step = "target", !.targets = Tail(@),
                                             !.completed = @ + 1]
  <2>1. FileIsRight' /\ open' \in BOOLEAN /\ open' = open /\ file' = g
    <3> HIDE DEF ws, rows
    <3> QED BY <1>2, <1>3, <1>5, StorageEnds DEF StorageDone
  <2>2. /\ statement' \in StatementTypes' /\ statement'.op = "DELETE"
        /\ statement'.step = "target"
    BY <1>2, <1>5 DEF StatementTypes, Steps
  <2>3. RowIsThere' /\ StatementIsRight'
    BY <1>1, <1>2, <2>1, <2>2 DEF RowIsThere, StatementIsRight, At
  <2>4. Associations(file)' = Associations(file) \ {Entry}
    <3>1. Entry = <<Key(RowAt(file, rid)), rid>>
      BY <1>2 DEF Entry, AtRow
    <3>2. RidsOf(g) = RidsOf(file) \ {rid} /\ \A x \in RidsOf(g) : RowAt(g, x) = RowAt(file, x)
      BY <1>2, Deletion
    <3> HIDE DEF g
    <3> QED BY <1>2, <2>1, <3>1, <3>2, AssociationTaken
  <2>5. IndexesAreRight'
    BY <1>1, <1>2, <2>1, <2>2, <2>4
       DEF IInv, IndexesAreRight, Moving, At, Expected, Ready, IsIndex
  <2> QED BY <2>1, <2>3, <2>5 DEF IInv
<1> QED BY <1>1, <1>4, <1>5

LEMMA FlushKeeps ==
    ASSUME IInv, Flush
    PROVE  IInv'
<1> DEFINE completed == IF statement.op = "INSERT" THEN 1 ELSE statement.completed
           step == IF statement.op = "INSERT" THEN "compensate" ELSE "invalidate"
<1>1. /\ statement.step = "flush" /\ UNCHANGED <<kind, file, open, indexes, settled, intended>>
      /\ StorageUnchanged
      /\ Returns("success", completed, {}) \/ Becomes(step)
  BY DEF Flush, Within, StorageUnchanged
<1>2. /\ statement.op \in {"INSERT", "DELETE"} /\ open /\ statement \in StatementTypes
      /\ kind \in {"heap", "ordered"}
      /\ \A n \in DOMAIN indexes : /\ IsIndex(indexes[n])
                                   /\ indexes[n].associations = Associations(file)
      /\ DOMAIN indexes = Names(kind)
  BY <1>1 DEF IInv, StatementIsRight, FileIsRight, IndexesAreRight, Moving, At, Expected
<1>3. FileIsRight'
  BY <1>1, <1>2, FileKept DEF IInv
<1>4. CASE Returns("success", completed, {})
  <2> HIDE DEF completed
  <2>1. statement' \in StatementTypes' /\ statement'.step = "idle"
    BY <1>2, <1>4, Returned DEF Verdicts
  <2>2. StatementIsRight' /\ RowIsThere'
    BY <1>1, <2>1, StatementEnds DEF At, IInv, StatementIsRight
  <2>3. IndexesAreRight'
    BY <1>1, <1>2, <2>1, IndexesAtRest DEF At, IsIndex
  <2> QED BY <1>3, <2>2, <2>3 DEF IInv
<1>5. CASE Becomes(step)
  <2>1. step \in Steps /\ step \in {"compensate", "invalidate"}
    BY DEF Steps
  <2>2. /\ statement' \in StatementTypes' /\ statement'.op = statement.op
        /\ statement'.step = step /\ statement'.row = statement.row
        /\ statement'.rid = statement.rid
    <3> HIDE DEF step
    <3> QED BY <1>2, <1>5, <2>1, Advanced
  <2>3. statement.op = "INSERT" <=> step = "compensate"
    OBVIOUS
  <2>4. statement.op = "INSERT" => /\ AtRow' = AtRow
                                   /\ AtRow[1] \in RidsOf(file) /\ RowAt(file, AtRow[1]) = AtRow[2]
    BY <1>1, <2>2 DEF IInv, StatementIsRight, RowIsThere, AtRow, At
  <2> HIDE DEF step
  <2>5. StatementIsRight'
    BY <1>1, <1>2, <2>1, <2>2, <2>3, <2>4 DEF StatementIsRight, At
  <2>6. RowIsThere'
    BY <1>1, <1>2, <2>1, <2>2, <2>3, <2>4 DEF RowIsThere, At
  <2>7. IndexesAreRight'
    BY <1>1, <1>2, <2>1, <2>2 DEF IInv, IndexesAreRight, Moving, At, Expected, Ready, IsIndex
  <2> QED BY <1>3, <2>5, <2>6, <2>7 DEF IInv
<1> QED BY <1>1, <1>4, <1>5

\* A statement that returns after an operation on every index.
LEMMA ReturnKeeps ==
    ASSUME IInv, NEW verdict \in Verdicts, NEW completed, NEW unavailable,
           Returns(verdict, completed, unavailable), UNCHANGED kind,
           FileIsRight', open' \in BOOLEAN, DOMAIN indexes' = DOMAIN indexes,
           \A n \in DOMAIN indexes : IsIndex(indexes'[n]),
           open' => \A n \in DOMAIN indexes :
                      Ready(indexes'[n]) => indexes'[n].associations = Associations(file')
    PROVE  IInv'
<1>1. statement' \in StatementTypes' /\ statement'.step = "idle"
  BY Returned DEF IInv, StatementIsRight
<1>2. StatementIsRight' /\ RowIsThere'
  BY <1>1, StatementEnds DEF At, IInv
<1>3. IndexesAreRight'
  <2>1. DOMAIN indexes' = Names(kind)' /\ \A n \in DOMAIN indexes' : IsIndex(indexes[n])'
    BY DEF IInv, IndexesAreRight, IsIndex
  <2> QED BY <1>1, <2>1, IndexesAtRest DEF At, Ready
<1> QED BY <1>2, <1>3 DEF IInv

LEMMA InvalidateKeeps ==
    ASSUME IInv, Invalidate
    PROVE  IInv'
<1>1. /\ statement.step = "invalidate" /\ UNCHANGED <<kind, file, open>> /\ StorageUnchanged
      /\ Returns("failed", statement.completed, DOMAIN indexes)
  BY DEF Invalidate, Within, StorageUnchanged
<1>2. PICK ends \in Ends(Marked) : indexes' = IndexesOf(ends)
  BY DEF Invalidate
<1>3. open /\ open \in BOOLEAN /\ \A n \in DOMAIN indexes : IsIndex(indexes[n])
  BY <1>1 DEF IInv, StatementIsRight, FileIsRight, IndexesAreRight, At
<1>4. EndsOf(ends) /\ \A n \in DOMAIN indexes : IsIndex(indexes'[n]) /\ ~ Ready(indexes'[n])
  BY <1>2, <1>3, MarkedEnds
<1>5. FileIsRight'
  BY <1>1, <1>3, FileKept DEF IInv
<1> QED BY <1>1, <1>2, <1>3, <1>4, <1>5, ReturnKeeps DEF EndsOf, Verdicts

LEMMA RepairKeeps ==
    ASSUME IInv, Repair
    PROVE  IInv'
<1>1. /\ statement.step = "repair" /\ UNCHANGED <<kind, file, open>> /\ StorageUnchanged
  BY DEF Repair, Within, StorageUnchanged
<1>2. PICK ends \in Ends(Repaired) :
        /\ indexes' = IndexesOf(ends)
        /\ IF statement.op = "INSERT" /\ ~ open
           THEN Returns("unreported", 0, {})
           ELSE Returns("failed", CompletedRows, FailedIn(ends))
  BY DEF Repair
<1>3. open \in BOOLEAN /\ \A n \in DOMAIN indexes : IsIndex(indexes[n])
  BY <1>1 DEF IInv, StatementIsRight, IndexesAreRight, At
<1>4. /\ EndsOf(ends)
      /\ \A n \in DOMAIN indexes :
           /\ IsIndex(indexes'[n])
           /\ n \notin FailedIn(ends) => indexes'[n] = Fresh
           /\ n \in FailedIn(ends) /\ open => ~ Ready(indexes'[n])
  BY <1>2, <1>3, RepairedEnds
<1>5. FileIsRight'
  <2>1. ~ At({"idle", "repair"})' => open
    <3>1. statement \in StatementTypes
      BY DEF IInv, StatementIsRight
    <3>2. statement'.step = "idle"
      BY <1>2, <3>1, Returned DEF Verdicts
    <3> QED BY <3>2 DEF At
  <2> QED BY <1>1, <2>1, FileKept DEF IInv
<1>6. \A n \in DOMAIN indexes :
        open => (Ready(indexes'[n]) => indexes'[n].associations = Associations(file))
  BY <1>4, FreshFacts
<1>7. CASE statement.op = "INSERT" /\ ~ open
  BY <1>1, <1>2, <1>3, <1>4, <1>5, <1>6, <1>7, ReturnKeeps DEF EndsOf, Verdicts
<1>8. CASE ~ (statement.op = "INSERT" /\ ~ open)
  BY <1>1, <1>2, <1>3, <1>4, <1>5, <1>6, <1>8, ReturnKeeps DEF EndsOf, Verdicts
<1> QED BY <1>7, <1>8

LEMMA ReorganizeMarkKeeps ==
    ASSUME IInv, ReorganizeMark
    PROVE  IInv'
<1>1. /\ statement.step = "reorg_mark" /\ UNCHANGED <<kind, file, open>> /\ StorageUnchanged
  BY DEF ReorganizeMark, Within, StorageUnchanged
<1>2. PICK ends \in Ends(Marked) :
        /\ indexes' = IndexesOf(ends)
        /\ IF FailedIn(ends) # {} THEN Returns("failed", 0, DOMAIN indexes)
           ELSE Becomes("reorg_store")
  BY DEF ReorganizeMark
<1>3. /\ open /\ open \in BOOLEAN /\ \A n \in DOMAIN indexes : IsIndex(indexes[n])
      /\ statement.op = "REORGANIZE" /\ kind = "ordered" /\ statement \in StatementTypes
      /\ DOMAIN indexes = Names(kind)
  BY <1>1 DEF IInv, StatementIsRight, FileIsRight, IndexesAreRight, At
<1>4. EndsOf(ends) /\ \A n \in DOMAIN indexes : IsIndex(indexes'[n]) /\ ~ Ready(indexes'[n])
  BY <1>2, <1>3, MarkedEnds
<1>5. FileIsRight'
  BY <1>1, <1>3, FileKept DEF IInv
<1>6. CASE Returns("failed", 0, DOMAIN indexes)
  BY <1>1, <1>2, <1>3, <1>4, <1>5, <1>6, ReturnKeeps DEF EndsOf, Verdicts
<1>7. CASE Becomes("reorg_store")
  <2>1. /\ statement' \in StatementTypes' /\ statement'.op = "REORGANIZE"
        /\ statement'.step = "reorg_store"
    BY <1>3, <1>7, Advanced DEF Steps
  <2>2. StatementIsRight' /\ RowIsThere'
    BY <1>1, <1>3, <2>1 DEF IInv, StatementIsRight, RowIsThere, At
  <2>3. IndexesAreRight'
    BY <1>1, <1>2, <1>3, <1>4, <2>1 DEF IndexesAreRight, Moving, At, Ready, IsIndex, EndsOf
  <2> QED BY <1>5, <2>2, <2>3 DEF IInv
<1> QED BY <1>2, <1>6, <1>7

LEMMA ReorganizeStoreKeeps ==
    ASSUME IInv, ReorganizeStore
    PROVE  IInv'
<1>1. /\ statement.step = "reorg_store" /\ UNCHANGED <<kind, settled, intended, indexes>>
      /\ \/ file' = Compacted(file) /\ UNCHANGED open /\ Becomes("reorg_rebuild")
         \/ /\ \/ UNCHANGED <<file, open>>
               \/ file' \in {file, Compacted(file)} /\ open' = FALSE
            /\ Returns("failed", 0, DOMAIN indexes)
  BY DEF ReorganizeStore, Within
<1>2. /\ open /\ open \in BOOLEAN /\ \A n \in DOMAIN indexes : IsIndex(indexes[n])
      /\ statement.op = "REORGANIZE" /\ kind = "ordered" /\ statement \in StatementTypes
      /\ DOMAIN indexes = Names(kind) /\ \A n \in DOMAIN indexes : ~ Ready(indexes[n])
      /\ Sound(file) /\ Contents(file) = settled
  BY <1>1 DEF IInv, StatementIsRight, FileIsRight, IndexesAreRight, Moving, At
<1>3. Sound(Compacted(file)) /\ Contents(Compacted(file)) = settled
  BY <1>2, Compaction
<1>4. CASE file' = Compacted(file) /\ UNCHANGED open /\ Becomes("reorg_rebuild")
  <2>1. /\ statement' \in StatementTypes' /\ statement'.op = "REORGANIZE"
        /\ statement'.step = "reorg_rebuild"
    BY <1>2, <1>4, Advanced DEF Steps
  <2>2. FileIsRight'
    BY <1>1, <1>2, <1>3, <1>4 DEF FileIsRight
  <2>3. StatementIsRight' /\ RowIsThere'
    BY <1>1, <1>2, <1>4, <2>1 DEF IInv, StatementIsRight, RowIsThere, At
  <2>4. IndexesAreRight'
    BY <1>1, <1>2, <1>4, <2>1 DEF IndexesAreRight, Moving, At, Ready, IsIndex
  <2> QED BY <2>2, <2>3, <2>4 DEF IInv
<1>5. CASE /\ UNCHANGED <<file, open>> \/ (file' \in {file, Compacted(file)} /\ open' = FALSE)
           /\ Returns("failed", 0, DOMAIN indexes)
  <2>1. open' \in BOOLEAN
    BY <1>2, <1>5
  <2>2. statement'.step = "idle"
    BY <1>2, <1>5, Returned DEF Verdicts
  <2>3. FileIsRight'
    BY <1>1, <1>2, <1>3, <1>5, <2>2 DEF FileIsRight, At
  <2> QED BY <1>1, <1>2, <1>5, <2>1, <2>3, ReturnKeeps DEF Verdicts
<1> QED BY <1>1, <1>4, <1>5

LEMMA ReorganizeRebuildKeeps ==
    ASSUME IInv, ReorganizeRebuild
    PROVE  IInv'
<1>1. /\ statement.step = "reorg_rebuild" /\ UNCHANGED <<kind, file, open>> /\ StorageUnchanged
  BY DEF ReorganizeRebuild, Within, StorageUnchanged
<1>2. PICK ends \in Ends(Rebuilt) :
        /\ indexes' = IndexesOf(ends)
        /\ IF FailedIn(ends) # {} THEN Returns("failed", 0, DOMAIN indexes)
           ELSE Returns("success", 0, {})
  BY DEF ReorganizeRebuild
<1>3. /\ open /\ open \in BOOLEAN /\ \A n \in DOMAIN indexes : IsIndex(indexes[n])
      /\ \A n \in DOMAIN indexes : ~ Ready(indexes[n])
  BY <1>1 DEF IInv, StatementIsRight, FileIsRight, IndexesAreRight, Moving, At
<1>4. /\ EndsOf(ends)
      /\ \A n \in DOMAIN indexes :
           /\ IsIndex(indexes'[n])
           /\ Ready(indexes'[n]) => indexes'[n].associations = Associations(file)
  <2>1. /\ EndsOf(ends)
        /\ \A n \in DOMAIN indexes :
             /\ IsIndex(indexes'[n])
             /\ n \notin FailedIn(ends) => indexes'[n] = Fresh
             /\ n \in FailedIn(ends) => indexes'[n] = indexes[n] \/ ~ Ready(indexes'[n])
    BY <1>2, <1>3, RebuiltEnds
  <2>2. \A n \in DOMAIN indexes : n \in FailedIn(ends) => ~ Ready(indexes'[n])
    BY <1>3, <2>1
  <2> QED BY <2>1, <2>2, FreshFacts
<1>5. FileIsRight'
  BY <1>1, <1>3, FileKept DEF IInv
<1>6. /\ "failed" \in Verdicts /\ "success" \in Verdicts
      /\ DOMAIN indexes' = DOMAIN indexes /\ open' \in BOOLEAN /\ UNCHANGED <<kind, file>>
      /\ \A n \in DOMAIN indexes :
           /\ IsIndex(indexes'[n])
           /\ Ready(indexes'[n]) => indexes'[n].associations = Associations(file')
  BY <1>1, <1>2, <1>3, <1>4 DEF EndsOf, Verdicts
<1>7. CASE Returns("failed", 0, DOMAIN indexes)
  BY <1>5, <1>6, <1>7, ReturnKeeps
<1>8. CASE Returns("success", 0, {})
  BY <1>5, <1>6, <1>8, ReturnKeeps
<1> QED BY <1>2, <1>7, <1>8

LEMMA NextKeeps ==
    ASSUME IInv, [Next]_vars
    PROVE  IInv'
<1>1. CASE UNCHANGED vars
  <2>1. UNCHANGED <<kind, unique, file, open, indexes, statement, settled, intended>>
    BY <1>1 DEF vars
  <2>2. FileIsRight'
    BY <2>1 DEF IInv, FileIsRight, At
  <2>3. StatementIsRight'
    BY <2>1 DEF IInv, StatementIsRight, StatementTypes, At
  <2>4. RowIsThere'
    BY <2>1 DEF IInv, RowIsThere, AtRow, At
  <2>5. IndexesAreRight'
    <3>1. Moving' <=> Moving
      BY <2>1 DEF Moving, At
    <3>2. Associations(file') = Associations(file) /\ Names(kind') = Names(kind)
      BY <2>1
    <3>3. \A n : Expected(n)' = Expected(n)
      BY <2>1, <3>2 DEF Expected, Waiting, Entry, At, AtRow
    <3> QED BY <2>1, <3>1, <3>2, <3>3 DEF IInv, IndexesAreRight, Ready, IsIndex, At
  <2> QED BY <2>2, <2>3, <2>4, <2>5 DEF IInv
<1>2. CASE Next
  BY <1>2, BeginInsertKeeps, BeginDeleteKeeps, BeginReorganizeKeeps, MarkBeforeMoveKeeps,
     StoreKeeps, IndexRowKeeps, RebuildAfterMoveKeeps, CompensateKeeps, NextTargetKeeps,
     UnindexRowKeeps, UnstoreKeeps, FlushKeeps, InvalidateKeeps, RepairKeeps,
     ReorganizeMarkKeeps, ReorganizeStoreKeeps, ReorganizeRebuildKeeps
     DEF Next
<1> QED BY <1>1, <1>2

\* A table without rows opens.
LEMMA NewFileIsSound == Sound(NewFile)
<1>1. NewFile \in FileTypes /\ NewFile.pages = <<>>
  BY DEF NewFile, FileTypes, MetaTypes
<1>2. SlotsOf(NewFile) = {} /\ RidsOf(NewFile) = {}
  BY <1>1 DEF SlotsOf, RidsOf
<1>3. ActiveRows(NewFile) = 0 /\ FreeSlots(NewFile) = 0
  BY <1>2, FS_EmptySet DEF ActiveRows, FreeSlots
<1> QED BY <1>1, <1>3 DEF Sound, Opens, LengthIsCounted, MetadataAgrees, CountersAgree, NewFile

LEMMA InsertIntoFacts ==
    ASSUME NEW k \in {"heap", "ordered"}, NEW f, Sound(f), NEW row \in FittingRows
    PROVE  Sound(InsertInto(k, f, row))
BY HeapInsertion, OrderedInsertion DEF InsertInto, Stores

\* The files on the way to the table that a sequence of rows makes.
LoadedBy(k, load, after) ==
  /\ after[0] = NewFile /\ Loaded(k, load) = after[Len(load)]
  /\ \A n \in 1 .. Len(load) : after[n] = InsertInto(k, after[n - 1], load[n])
  /\ \A n \in 0 .. Len(load) : Sound(after[n])

LEMMA LoadedInSteps ==
    ASSUME NEW k \in {"heap", "ordered"}, NEW load \in Seq(FittingRows)
    PROVE  \E after : LoadedBy(k, load, after)
<1> DEFINE N == Len(load)
           X == {f \in FileTypes : Opens(f)}
           IsRun(run) ==
             run = [n \in 0 .. N |->
                      IF n = 0 THEN NewFile ELSE InsertInto(k, run[n - 1], load[n])]
           step == [c \in X \X (1 .. N) |-> InsertInto(k, c[1], load[c[2]])]
<1>1. N \in Nat /\ \A n \in 1 .. N : load[n] \in FittingRows
  OBVIOUS
<1>2. \A f : f \in X <=> Sound(f)
  BY DEF Sound
<1>3. \A c \in X : \A n \in 1 .. N :
        step[<<c, n>>] = InsertInto(k, c, load[n]) /\ step[<<c, n>>] \in X
  <2>1. ASSUME NEW c \in X, NEW n \in 1 .. N
        PROVE  step[<<c, n>>] = InsertInto(k, c, load[n]) /\ step[<<c, n>>] \in X
    <3>1. step[<<c, n>>] = InsertInto(k, c, load[n])
      OBVIOUS
    <3>2. Sound(InsertInto(k, c, load[n]))
      BY <1>1, <1>2, InsertIntoFacts
    <3> HIDE DEF X, step
    <3> QED BY <1>2, <3>1, <3>2
  <2> HIDE DEF X, step
  <2> QED BY <2>1
<1>4. NewFile \in X
  BY <1>2, NewFileIsSound
<1> HIDE DEF N, X, step
<1>5. PICK run \in [0 .. N -> X] :
        run[0] = NewFile /\ \A n \in 1 .. N : run[n] = step[<<run[n - 1], n>>]
  <2>1. \A c \in X : \A n \in 1 .. N : step[<<c, n>>] \in X
    BY <1>3
  <2>2. N \in Nat
    BY <1>1
  <2>3. HasRun(X, NewFile, N, step)
    BY ONLY <1>4, <2>1, <2>2, Iterates
  <2> QED BY <2>3 DEF HasRun
<1>6. IsRun(run)
  <2>1. \A n \in 0 .. N :
          run[n] = IF n = 0 THEN NewFile ELSE InsertInto(k, run[n - 1], load[n])
    <3>1. ASSUME NEW n \in 0 .. N, n # 0
          PROVE  run[n] = InsertInto(k, run[n - 1], load[n])
      <4>1. n \in 1 .. N /\ n - 1 \in 0 .. N
        BY <1>1, <3>1
      <4>2. run[n - 1] \in X
        BY <4>1
      <4> QED BY <1>3, <1>5, <4>1, <4>2
    <3> QED BY <1>5, <3>1
  <2> QED BY <2>1
<1> DEFINE after == CHOOSE r : IsRun(r)
<1>7. IsRun(after)
  <2> HIDE DEF IsRun
  <2> QED BY <1>6
<1>8. Loaded(k, load) = after[N]
  BY DEF Loaded, N
<1> DEFINE S == {n \in Nat : n \in 0 .. N => after[n] \in X}
<1> HIDE DEF after
<1>9. 0 \in S
  BY <1>1, <1>4, <1>7
<1>10. ASSUME NEW n \in Nat, n \in S PROVE n + 1 \in S
  <2>1. CASE n + 1 \in 0 .. N
    <3>1. n \in 0 .. N /\ n + 1 \in 1 .. N /\ (n + 1) - 1 = n /\ n + 1 # 0
      BY <1>1, <2>1
    <3>2. after[n + 1] = InsertInto(k, after[n], load[n + 1])
      BY <1>7, <2>1, <3>1
    <3>3. after[n] \in X
      BY <1>10, <3>1
    <3>4. InsertInto(k, after[n], load[n + 1]) \in X
      BY <1>3, <3>1, <3>3
    <3> QED BY <3>2, <3>4
  <2>2. CASE n + 1 \notin 0 .. N
    BY <2>2
  <2> QED BY <2>1, <2>2
<1>11. \A n \in Nat : n \in S
  <2> HIDE DEF S
  <2> QED BY <1>1, <1>9, <1>10, SetInduction
<1>12. \A n \in 0 .. N : Sound(after[n])
  BY <1>1, <1>2, <1>11
<1>13. \A n \in 1 .. N : after[n] = InsertInto(k, after[n - 1], load[n])
  <2> TAKE n \in 1 .. N
  <2>1. n \in 0 .. N /\ n # 0
    BY <1>1
  <2> QED BY <1>7, <2>1
<1>14. after[0] = NewFile
  BY <1>1, <1>7
<1>15. LoadedBy(k, load, after)
  BY <1>8, <1>12, <1>13, <1>14 DEF LoadedBy, N
<1> QED BY <1>15

\* A table that a sequence of rows makes opens.
LEMMA LoadedIsSound ==
    ASSUME NEW k \in {"heap", "ordered"}, NEW load \in Seq(FittingRows)
    PROVE  Sound(Loaded(k, load))
<1>1. PICK after : LoadedBy(k, load, after)
  BY LoadedInSteps
<1>2. Len(load) \in 0 .. Len(load)
  OBVIOUS
<1> QED BY <1>1, <1>2 DEF LoadedBy

LEMMA InitHolds ==
    ASSUME Init
    PROVE  IInv
<1>1. kind \in {"heap", "ordered"} /\ open = TRUE /\ statement = NoStatement
      /\ before = Contents(file) /\ settled = before
      /\ indexes = [n \in Names(kind) |-> Fresh]
  BY DEF Init, Fresh
<1>2. Sound(file)
  <2>1. PICK load \in Loads : file = Loaded(kind, load)
    BY DEF Init
  <2>2. load \in Seq(FittingRows)
    BY RowsAssumption
  <2> QED BY <1>1, <2>1, <2>2, LoadedIsSound
<1>3. statement \in StatementTypes /\ statement.step = "idle"
  BY <1>1 DEF StatementTypes, NoStatement, Steps, Verdicts
<1>4. FileIsRight
  BY <1>1, <1>2 DEF FileIsRight
<1>5. StatementIsRight /\ RowIsThere
  BY <1>1, <1>3 DEF StatementIsRight, RowIsThere, At
<1>6. IndexesAreRight
  BY <1>1, <1>3, FreshFacts DEF IndexesAreRight, Moving, At, Expected, Ready
<1> QED BY <1>4, <1>5, <1>6 DEF IInv

\* The inductive invariant of the maintenance of rows and indexes: after any
\* calls of the service, failed or not, file, statement and indexes agree.
THEOREM Consistent == Spec => []IInv
<1>1. Init => IInv
  BY InitHolds
<1>2. IInv /\ [Next]_vars => IInv'
  BY NextKeeps
<1> QED BY <1>1, <1>2, PTL DEF Spec

\* Whatever write fails, and wherever: a storage file that opens shows the
\* rows from before the call or those the call aimed at (_fail_closed of the
\* storage and the checks of open).
THEOREM FilesFailClosed == Spec => []FailsClosed
<1>1. IInv => FailsClosed
  BY DEF IInv, FileIsRight, FailsClosed, Sound, StatementIsRight
<1> QED BY <1>1, Consistent, PTL

\* An index that a statement can use names only rows of the table, and all of
\* them once the statement is over (the maintenance service's order of calls,
\* and its repair).
THEOREM IndexesFollowTheTable == Spec => []IndexesAgree
<1>1. ASSUME IInv PROVE IndexesAgree
  <2> SUFFICES ASSUME NEW n \in DOMAIN indexes, Usable(n)
               PROVE  /\ statement.step # "repair" =>
                           indexes[n].associations \subseteq Associations(file)
                      /\ Idle => indexes[n].associations = Associations(file)
    BY DEF IndexesAgree
  <2>1. open /\ Ready(indexes[n])
    BY DEF Usable, Ready
  <2>2. CASE At({"repair"})
    BY <2>2 DEF At, Idle
  <2>3. CASE At({"compensate"})
    BY <1>1, <2>1, <2>3 DEF At, Idle, IInv, IndexesAreRight
  <2>4. CASE ~ At({"repair", "compensate"})
    BY <1>1, <2>1, <2>4 DEF At, Idle, IInv, IndexesAreRight, Expected
  <2> QED BY <2>2, <2>3, <2>4 DEF At
<1> QED BY <1>1, Consistent, PTL

-----------------------------------------------------------------------------
(***************************************************************************)
(* The number of rows in a bag, and the reports that are made of it.       *)
(***************************************************************************)
Copies(bag) == [row \in DOMAIN bag |-> 1 .. bag[row]]

LEMMA RowCountFacts ==
    ASSUME NEW bag, IsRowBag(bag)
    PROVE  /\ IsFiniteSet(Pairs(DOMAIN bag, Copies(bag)))
           /\ RowCount(bag) = Cardinality(Pairs(DOMAIN bag, Copies(bag)))
           /\ RowCount(bag) \in Nat
<1>1. \A row \in DOMAIN bag : IsFiniteSet(Copies(bag)[row])
  BY FS_Interval DEF Copies, IsRowBag
<1>2. IsFiniteSet(Pairs(DOMAIN bag, Copies(bag)))
  BY <1>1, PairsFinite DEF IsRowBag
<1>3. UNION {{row} \X (1 .. bag[row]) : row \in DOMAIN bag} = Pairs(DOMAIN bag, Copies(bag))
  BY DEF Pairs, Copies
<1> QED BY <1>2, <1>3, FS_CardinalityType DEF RowCount

LEMMA CopyPairs ==
    ASSUME NEW bag
    PROVE  /\ \A x, i : <<x, i>> \in Pairs(DOMAIN bag, Copies(bag)) <=>
                          x \in DOMAIN bag /\ i \in 1 .. bag[x]
           /\ \A z \in Pairs(DOMAIN bag, Copies(bag)) : z = <<z[1], z[2]>>
<1>1. \A z : z \in Pairs(DOMAIN bag, Copies(bag)) <=>
               \E x \in DOMAIN bag : z \in {x} \X (1 .. bag[x])
  BY DEF Pairs, Copies
<1>2. \A x, y, i : <<y, i>> \in {x} \X (1 .. bag[x]) <=> y = x /\ i \in 1 .. bag[x]
  OBVIOUS
<1>3. \A x, z : z \in {x} \X (1 .. bag[x]) => z = <<z[1], z[2]>>
  OBVIOUS
<1> QED BY <1>1, <1>2, <1>3

LEMMA OneRowMore ==
    ASSUME NEW B, NEW C, IsRowBag(B), IsRowBag(C), NEW r, DOMAIN C = DOMAIN B \cup {r},
           \A x \in DOMAIN B \ {r} : C[x] = B[x],
           r \in DOMAIN B => C[r] = B[r] + 1, r \notin DOMAIN B => C[r] = 1
    PROVE  RowCount(C) = RowCount(B) + 1
<1> DEFINE old == Pairs(DOMAIN B, Copies(B))
           new == Pairs(DOMAIN C, Copies(C))
<1>1. C[r] \in Nat /\ C[r] > 0 /\ \A x \in DOMAIN B : B[x] \in Nat
  BY DEF IsRowBag
<1> DEFINE last == <<r, C[r]>>
<1>2. new = old \cup {last} /\ last \notin old
  <2>1. /\ \A x, i : <<x, i>> \in old <=> x \in DOMAIN B /\ i \in 1 .. B[x]
        /\ \A x, i : <<x, i>> \in new <=> x \in DOMAIN C /\ i \in 1 .. C[x]
        /\ \A z \in old : z = <<z[1], z[2]>>
        /\ \A z \in new : z = <<z[1], z[2]>>
    BY CopyPairs
  <2> HIDE DEF old, new
  <2>2. \A i : i \in 1 .. C[r] <=> (r \in DOMAIN B /\ i \in 1 .. B[r]) \/ i = C[r]
    <3>1. CASE r \in DOMAIN B
      <4>1. B[r] \in Nat /\ C[r] = B[r] + 1
        BY <1>1, <3>1
      <4> QED BY <3>1, <4>1
    <3>2. CASE r \notin DOMAIN B
      <4>1. C[r] = 1
        BY <3>2
      <4> QED BY <3>2, <4>1
    <3> QED BY <3>1, <3>2
  <2>3. r \in DOMAIN B => C[r] \notin 1 .. B[r]
    BY <1>1
  <2>4. last \notin old
    BY <2>1, <2>3
  <2>5. \A x, i : <<x, i>> \in new <=> <<x, i>> \in old \/ <<x, i>> = last
    <3> TAKE x, i
    <3>1. CASE x = r
      BY <2>1, <2>2, <3>1
    <3>2. CASE x # r
      <4>1. x \in DOMAIN C <=> x \in DOMAIN B
        BY <3>2
      <4>2. x \in DOMAIN B => C[x] = B[x]
        BY <3>2
      <4> QED BY <2>1, <3>2, <4>1, <4>2
    <3> QED BY <3>1, <3>2
  <2> DEFINE sum == old \cup {last}
  <2>6. \A z \in sum : z = <<z[1], z[2]>>
    BY <2>1
  <2>7. \A x, i : <<x, i>> \in new <=> <<x, i>> \in sum
    BY <2>5
  <2> HIDE DEF sum
  <2>8. new = sum
    BY <2>1, <2>6, <2>7, PairSets
  <2> QED BY <2>4, <2>8 DEF sum
<1>3. IsFiniteSet(old) /\ RowCount(B) = Cardinality(old) /\ RowCount(C) = Cardinality(new)
  BY RowCountFacts
<1> HIDE DEF old, new, last
<1> QED BY <1>2, <1>3, FS_AddElement

LEMMA RowCountAdded ==
    ASSUME NEW B, IsRowBag(B), NEW r
    PROVE  LET C == B (+) SetToBag({r}) IN IsRowBag(C) /\ RowCount(C) = RowCount(B) + 1
<1> DEFINE C == B (+) SetToBag({r})
<1>1. /\ C = [x \in DOMAIN B \cup {r} |-> C[x]] /\ DOMAIN C = DOMAIN B \cup {r}
      /\ \A x \in DOMAIN B \ {r} : C[x] = B[x]
      /\ C[r] = IF r \in DOMAIN B THEN B[r] + 1 ELSE 1
  BY DEF (+), SetToBag, IsRowBag
<1> HIDE DEF C
<1>2. IsFiniteSet(DOMAIN C)
  BY <1>1, FS_AddElement DEF IsRowBag
<1>3. IsRowBag(C)
  <2>1. \A x \in DOMAIN C : C[x] \in Nat \ {0}
    BY <1>1 DEF IsRowBag
  <2> QED BY <1>1, <1>2, <2>1 DEF IsRowBag
<1>4. RowCount(C) = RowCount(B) + 1
  BY <1>1, <1>3, OneRowMore
<1> QED BY <1>3, <1>4 DEF C

LEMMA RowCountTaken ==
    ASSUME NEW B, IsRowBag(B), NEW r \in DOMAIN B
    PROVE  LET C == B (-) SetToBag({r}) IN IsRowBag(C) /\ RowCount(B) = RowCount(C) + 1
<1> DEFINE C == B (-) SetToBag({r})
           D == [x \in DOMAIN B |-> IF x \in {r} THEN B[x] - 1 ELSE B[x]]
           S == {x \in DOMAIN B : D[x] > 0}
<1>1. C = [x \in {y \in DOMAIN D : D[y] > 0} |-> D[x]]
  BY DEF (-), SetToBag
<1>2. C = [x \in S |-> D[x]]
  BY <1>1
<1>3. /\ \A x \in DOMAIN B : B[x] \in Nat \ {0}
      /\ \A x \in DOMAIN B : x # r => D[x] = B[x]
      /\ D[r] = B[r] - 1
  BY DEF IsRowBag
<1>4. /\ S \subseteq DOMAIN B /\ \A x \in DOMAIN B : x # r => x \in S
      /\ r \in S <=> B[r] > 1
      /\ \A x \in S : D[x] \in Nat \ {0}
  BY <1>3
<1> HIDE DEF C, D, S
<1>5. IsRowBag(C)
  <2>1. IsFiniteSet(S)
    BY <1>4, FS_Subset DEF IsRowBag
  <2> QED BY <1>2, <1>4, <2>1 DEF IsRowBag
<1>6. /\ DOMAIN B = DOMAIN C \cup {r} /\ \A x \in DOMAIN C \ {r} : B[x] = C[x]
      /\ r \in DOMAIN C => B[r] = C[r] + 1
      /\ r \notin DOMAIN C => B[r] = 1
  <2>1. DOMAIN C = S /\ \A x \in S : C[x] = D[x]
    BY <1>2
  <2>2. B[r] \in Nat \ {0}
    BY <1>3
  <2>3. r \in S => B[r] = C[r] + 1
    BY <1>3, <2>1, <2>2
  <2>4. r \notin S => B[r] = 1
    BY <1>4, <2>2
  <2>5. DOMAIN B = S \cup {r}
    BY <1>4
  <2>6. \A x \in S \ {r} : B[x] = C[x]
    BY <1>3, <1>4, <2>1
  <2> QED BY <2>1, <2>3, <2>4, <2>5, <2>6
<1>7. RowCount(B) = RowCount(C) + 1
  BY <1>5, <1>6, OneRowMore
<1> QED BY <1>5, <1>7 DEF C

\* The rows of a file are a bag.
LEMMA RowsAreABag ==
    ASSUME NEW f \in FileTypes
    PROVE  /\ IsRowBag(Contents(f))
           /\ \A rid \in RidsOf(f) : RowAt(f, rid) \in DOMAIN Contents(f)
<1> DEFINE R == RidsOf(f)
           row == [rid \in R |-> RowAt(f, rid)]
           T == {RowAt(f, rid) : rid \in R}
<1>1. row \in Surjection(R, T)
  BY DEF Surjection
<1>2. DOMAIN Contents(f) = T
  BY DEF Contents
<1> HIDE DEF row, T, R
<1>3. IsFiniteSet(T)
  BY <1>1, FileFacts, FS_Surjection DEF R
<1> QED BY <1>2, <1>3, ContentsAreABag DEF IsRowBag, T, R

\* The statement goes on: the report is still to be made.
LEMMA ReportGoesOn ==
    ASSUME ReportIsRight, UNCHANGED <<settled, before>>, ~ At({"idle"})',
           statement'.op = statement.op, statement'.row = statement.row,
           statement'.completed = statement.completed,
           \/ At({"mark"}) /\ At({"store", "repair"})'
           \/ At({"store"}) /\ At({"repair"})'
           \/ At({"index"}) /\ At({"index", "compensate", "flush"})'
           \/ At({"rebuild"}) /\ At({"compensate", "flush"})'
           \/ At({"target"}) /\ At({"unindex", "flush", "repair"})'
           \/ At({"unindex"}) /\ At({"unindex", "unstore", "repair"})'
           \/ At({"unstore"}) /\ At({"repair"})'
           \/ At({"compensate"}) /\ At({"repair"})'
           \/ At({"flush"}) /\ statement.op = "INSERT" /\ At({"compensate"})'
           \/ At({"flush"}) /\ statement.op = "DELETE" /\ At({"invalidate"})'
           \/ At({"reorg_mark"}) /\ At({"reorg_store"})'
           \/ At({"reorg_store"}) /\ At({"reorg_rebuild"})',
           StatementIsRight
    PROVE  ReportIsRight' /\ ReportsAreTrue'
BY DEF ReportIsRight, ReportsAreTrue, At, Idle, StatementIsRight

\* The rows before a statement are a bag that can be counted.
LEMMA RowsAreCounted ==
    ASSUME IInv, open
    PROVE  IsRowBag(settled) /\ RowCount(settled) \in Nat
BY RowsAreABag, RowCountFacts DEF IInv, FileIsRight, Sound

LEMMA BeginReports ==
    ASSUME RInv, Begin,
           statement' \in StatementTypes',
           statement'.step = "idle" => statement'.verdict = "refused",
           statement'.op = "DELETE" => statement'.completed = 0,
           statement'.op = "INSERT" => At({"idle", "mark", "store"})',
           statement'.op = "DELETE" => At({"idle", "target"})',
           statement'.op = "REORGANIZE" => At({"reorg_mark"})',
           statement'.op # "none"
    PROVE  IsRowBag(before') /\ ReportIsRight' /\ ReportsAreTrue'
<1>1. before' = settled /\ settled' = settled /\ UNCHANGED <<open, indexes>>
      /\ open /\ \A n \in DOMAIN indexes : Ready(indexes[n])
  BY BeginFacts DEF RInv, Begin
<1>2. IsRowBag(settled) /\ RowCount(settled) \in Nat
  BY <1>1, RowsAreCounted DEF RInv
<1>3. ReportIsRight'
  BY <1>1, <1>2 DEF ReportIsRight, At, StatementTypes
<1>4. ReportsAreTrue'
  BY <1>1, <1>2 DEF ReportsAreTrue, Idle, Usable, Ready
<1> QED BY <1>1, <1>2, <1>3, <1>4

LEMMA BeginsReport ==
    ASSUME RInv, \/ \E row \in Rows : BeginInsert(row)
                 \/ \E keys \in KeySets : BeginDelete(keys)
                 \/ BeginReorganize
    PROVE  IsRowBag(before') /\ ReportIsRight' /\ ReportsAreTrue'
<1>1. ASSUME NEW row \in Rows, BeginInsert(row)
      PROVE  IsRowBag(before') /\ ReportIsRight' /\ ReportsAreTrue'
  <2> DEFINE verdict == IF IsDuplicate(Key(row)) THEN "refused" ELSE "none"
             step == IF IsDuplicate(Key(row)) THEN "idle"
                     ELSE IF kind = "heap" THEN "store" ELSE "mark"
  <2>1. statement' = [NoStatement EXCEPT !.op = "INSERT", !.row = row, !.step = step,
                                         !.verdict = verdict]
    BY <1>1 DEF BeginInsert
  <2>2. /\ verdict \in Verdicts /\ step \in Steps /\ step \in {"idle", "store", "mark"}
        /\ step = "idle" => verdict = "refused"
    BY DEF Steps, Verdicts
  <2> HIDE DEF verdict, step
  <2>3. statement' = Opened("INSERT", step, verdict, row, <<>>)
    BY <2>1 DEF Opened, NoStatement
  <2>4. /\ statement' \in StatementTypes' /\ statement'.op = "INSERT" /\ statement'.step = step
        /\ statement'.verdict = verdict
    BY <2>2, <2>3, OpenedFacts
  <2> QED BY <1>1, <2>2, <2>4, BeginReports DEF BeginInsert, At
<1>2. ASSUME NEW keys \in KeySets, BeginDelete(keys)
      PROVE  IsRowBag(before') /\ ReportIsRight' /\ ReportsAreTrue'
  <2> DEFINE targets == SelectSeq(Scan(file), LAMBDA e : Key(e[2]) \in keys)
  <2>1. statement' = [NoStatement EXCEPT !.op = "DELETE", !.step = "target",
                                         !.targets = targets]
    BY <1>2 DEF BeginDelete
  <2> HIDE DEF targets
  <2>2. statement' = Opened("DELETE", "target", "none", Free, targets)
    BY <2>1 DEF Opened, NoStatement
  <2>3. "target" \in Steps /\ "none" \in Verdicts
    BY DEF Steps, Verdicts
  <2>4. /\ statement' \in StatementTypes' /\ statement'.op = "DELETE"
        /\ statement'.step = "target" /\ statement'.completed = 0
    BY <2>2, <2>3, OpenedFacts
  <2> QED BY <1>2, <2>4, BeginReports DEF BeginDelete, At
<1>3. CASE BeginReorganize
  <2>1. statement' = [NoStatement EXCEPT !.op = "REORGANIZE", !.step = "reorg_mark"]
    BY <1>3 DEF BeginReorganize
  <2>2. statement' = Opened("REORGANIZE", "reorg_mark", "none", Free, <<>>)
    BY <2>1 DEF Opened, NoStatement
  <2>3. "reorg_mark" \in Steps /\ "none" \in Verdicts
    BY DEF Steps, Verdicts
  <2>4. /\ statement' \in StatementTypes' /\ statement'.op = "REORGANIZE"
        /\ statement'.step = "reorg_mark"
    BY <2>2, <2>3, OpenedFacts
  <2> QED BY <1>3, <2>4, BeginReports DEF BeginReorganize, At
<1> QED BY <1>1, <1>2, <1>3

\* The steps that go on without a change of the rows.
LEMMA StepsReport ==
    ASSUME RInv, \/ MarkBeforeMove \/ IndexRow \/ RebuildAfterMove
                 \/ NextTarget \/ UnindexRow
    PROVE  ReportIsRight' /\ ReportsAreTrue'
<1>1. UNCHANGED <<settled, before>>
  BY DEF MarkBeforeMove, IndexRow, RebuildAfterMove, NextTarget, UnindexRow, Within,
         StorageUnchanged
<1>2. statement \in StatementTypes /\ StatementIsRight /\ ReportIsRight
  BY DEF RInv, IInv, StatementIsRight
<1> DEFINE Goes(step) == /\ statement'.step = step /\ statement'.op = statement.op
                         /\ statement'.row = statement.row
                         /\ statement'.completed = statement.completed
<1>3. CASE MarkBeforeMove
  <2>1. statement.step = "mark" /\ (Becomes("store") \/ Becomes("repair"))
    BY <1>3 DEF MarkBeforeMove
  <2>2. Goes("store") \/ Goes("repair")
    BY <1>2, <2>1, Advanced DEF Steps
  <2> QED BY <1>1, <1>2, <2>1, <2>2, ReportGoesOn DEF At
<1>4. CASE RebuildAfterMove
  <2>1. statement.step = "rebuild" /\ (Becomes("flush") \/ Becomes("compensate"))
    BY <1>4 DEF RebuildAfterMove
  <2>2. Goes("flush") \/ Goes("compensate")
    BY <1>2, <2>1, Advanced DEF Steps
  <2> QED BY <1>1, <1>2, <2>1, <2>2, ReportGoesOn DEF At
<1>5. CASE IndexRow
  <2>1. PICK step \in {"compensate", "index", "flush"} :
          statement.step = "index"
            /\ statement' = [statement EXCEPT !.todo = Tail(@), !.step = step]
    BY <1>5 DEF IndexRow
  <2>2. Goes(step)
    BY <1>2, <2>1 DEF StatementTypes
  <2> QED BY <1>1, <1>2, <2>1, <2>2, ReportGoesOn DEF At
<1>6. CASE UnindexRow
  <2>1. PICK step \in {"repair", "unindex", "unstore"} :
          statement.step = "unindex"
            /\ statement' = [statement EXCEPT !.todo = Tail(@), !.step = step]
    BY <1>6 DEF UnindexRow
  <2>2. Goes(step)
    BY <1>2, <2>1 DEF StatementTypes
  <2> QED BY <1>1, <1>2, <2>1, <2>2, ReportGoesOn DEF At
<1>7. CASE NextTarget
  <2>1. statement.step = "target"
        /\ \/ Becomes("flush")
           \/ Becomes("repair")
           \/ statement' = [statement EXCEPT !.step = "unindex", !.todo = Order]
    BY <1>7 DEF NextTarget
  <2>2. Goes("flush") \/ Goes("repair") \/ Goes("unindex")
    BY <1>2, <2>1, Advanced DEF Steps, StatementTypes
  <2> QED BY <1>1, <1>2, <2>1, <2>2, ReportGoesOn DEF At
<1> QED BY <1>3, <1>4, <1>5, <1>6, <1>7

LEMMA StoreReports ==
    ASSUME RInv, Store
    PROVE  ReportIsRight' /\ ReportsAreTrue'
<1> DEFINE rows == settled (+) SetToBag({statement.row})
           rid == InsertRid(statement.row)
           step == IF kind = "heap" THEN "index" ELSE "rebuild"
<1>1. /\ statement.step = "store" /\ UNCHANGED before
      /\ \/ /\ settled' = rows
            /\ statement' = [statement EXCEPT !.rid = rid, !.todo = Order, !.step = step]
         \/ UNCHANGED settled /\ Becomes("repair")
  BY DEF Store, Within, StorageDone, StorageFails
<1>2. statement \in StatementTypes /\ StatementIsRight /\ ReportIsRight
  BY DEF RInv, IInv, StatementIsRight
<1>3. settled = before /\ statement.op = "INSERT"
  BY <1>1, <1>2 DEF ReportIsRight, StatementIsRight, At
<1>4. CASE UNCHANGED settled /\ Becomes("repair")
  <2>1. /\ statement'.step = "repair" /\ statement'.op = statement.op
        /\ statement'.row = statement.row /\ statement'.completed = statement.completed
    BY <1>2, <1>4, Advanced DEF Steps
  <2> QED BY <1>1, <1>2, <1>4, <2>1, ReportGoesOn DEF At
<1>5. CASE settled' = rows
           /\ statement' = [statement EXCEPT !.rid = rid, !.todo = Order, !.step = step]
  <2>1. step \in {"index", "rebuild"}
    OBVIOUS
  <2> HIDE DEF rid, step
  <2>2. /\ statement'.step = step /\ statement'.op = "INSERT"
        /\ statement'.row = statement.row
    BY <1>2, <1>3, <1>5 DEF StatementTypes
  <2>3. settled' = before' (+) SetToBag({statement'.row})
    BY <1>1, <1>3, <1>5, <2>2
  <2> HIDE DEF rows
  <2> QED BY <2>1, <2>2, <2>3 DEF ReportIsRight, ReportsAreTrue, At, Idle
<1> QED BY <1>1, <1>4, <1>5

LEMMA CompensateReports ==
    ASSUME RInv, Compensate
    PROVE  ReportIsRight' /\ ReportsAreTrue'
<1> DEFINE one == SetToBag({statement.row})
<1>1. /\ statement.step = "compensate" /\ UNCHANGED before /\ Becomes("repair")
      /\ settled' = settled (-) one \/ UNCHANGED settled
  BY DEF Compensate, Within, StorageDone, StorageFails
<1>2. statement \in StatementTypes /\ StatementIsRight /\ ReportIsRight
  BY DEF RInv, IInv, StatementIsRight
<1>3. settled = before (+) one /\ statement.op = "INSERT"
  BY <1>1, <1>2 DEF ReportIsRight, StatementIsRight, At
<1>4. statement'.step = "repair" /\ statement'.op = "INSERT" /\ statement'.row = statement.row
  BY <1>1, <1>2, <1>3, Advanced DEF Steps
<1>5. (before (+) one) (-) one = before
  BY AddedAndRemoved DEF RInv, IsRowBag
<1> HIDE DEF one
<1>6. settled' = before' \/ settled' = before' (+) one
  BY <1>1, <1>3, <1>5
<1>7. settled' \in {before', before' (+) SetToBag({statement'.row})}
  BY <1>4, <1>6 DEF one
<1> QED BY <1>4, <1>7 DEF ReportIsRight, ReportsAreTrue, At, Idle

LEMMA UnstoreReports ==
    ASSUME RInv, Unstore
    PROVE  ReportIsRight' /\ ReportsAreTrue'
<1> DEFINE target == Head(statement.targets)
           rows == settled (-) SetToBag({target[2]})
<1>1. /\ statement.step = "unstore" /\ UNCHANGED before
      /\ \/ /\ settled' = rows
            /\ statement' = [statement EXCEPT !.step = "target", !.targets = Tail(@),
                                              !.completed = @ + 1]
         \/ UNCHANGED settled /\ Becomes("repair")
  BY DEF Unstore, Within, StorageDone, StorageFails
<1>2. /\ statement \in StatementTypes /\ StatementIsRight /\ ReportIsRight
      /\ statement.op = "DELETE" /\ open
  BY <1>1 DEF RInv, IInv, StatementIsRight, FileIsRight, At
<1>3. statement.completed = RowCount(before) - RowCount(settled)
  BY <1>1, <1>2 DEF ReportIsRight, At
<1>4. CASE UNCHANGED settled /\ Becomes("repair")
  <2>1. /\ statement'.step = "repair" /\ statement'.op = statement.op
        /\ statement'.row = statement.row /\ statement'.completed = statement.completed
    BY <1>2, <1>4, Advanced DEF Steps
  <2> QED BY <1>1, <1>2, <1>4, <2>1, ReportGoesOn DEF At
<1>5. CASE /\ settled' = rows
           /\ statement' = [statement EXCEPT !.step = "target", !.targets = Tail(@),
                                             !.completed = @ + 1]
  <2>1. /\ statement'.step = "target" /\ statement'.op = "DELETE"
        /\ statement'.completed = statement.completed + 1
    BY <1>2, <1>5 DEF StatementTypes
  <2>2. target[2] \in DOMAIN settled
    <3>1. /\ target[1] \in RidsOf(file) /\ RowAt(file, target[1]) = target[2]
          /\ file \in FileTypes /\ Contents(file) = settled
      BY <1>1, <1>2 DEF RInv, IInv, RowIsThere, AtRow, At, FileIsRight, Sound
    <3> QED BY <3>1, RowsAreABag
  <2>3. /\ IsRowBag(settled) /\ RowCount(settled) \in Nat /\ RowCount(before) \in Nat
        /\ IsRowBag(rows) /\ RowCount(settled) = RowCount(rows) + 1
    BY <1>2, <2>2, RowsAreCounted, RowCountFacts, RowCountTaken DEF RInv
  <2>4. RowCount(rows) \in Nat
    BY <2>3, RowCountFacts
  <2> HIDE DEF rows
  <2>5. statement'.completed = RowCount(before') - RowCount(settled')
    BY <1>1, <1>3, <1>5, <2>1, <2>3, <2>4
  <2> QED BY <2>1, <2>5 DEF ReportIsRight, ReportsAreTrue, At, Idle
<1> QED BY <1>1, <1>4, <1>5

LEMMA FlushReports ==
    ASSUME RInv, Flush
    PROVE  ReportIsRight' /\ ReportsAreTrue'
<1> DEFINE completed == IF statement.op = "INSERT" THEN 1 ELSE statement.completed
           step == IF statement.op = "INSERT" THEN "compensate" ELSE "invalidate"
<1>1. /\ statement.step = "flush" /\ UNCHANGED <<before, settled, open, indexes>>
      /\ Returns("success", completed, {}) \/ Becomes(step)
  BY DEF Flush, Within, StorageUnchanged
<1>2. /\ statement \in StatementTypes /\ StatementIsRight /\ ReportIsRight /\ IsRowBag(before)
      /\ statement.op \in {"INSERT", "DELETE"} /\ open
      /\ \A n \in DOMAIN indexes : Ready(indexes[n])
  BY <1>1 DEF RInv, IInv, StatementIsRight, FileIsRight, IndexesAreRight, Moving, At
<1>3. CASE Becomes(step)
  <2>1. step \in Steps /\ (statement.op = "INSERT" => step = "compensate")
        /\ (statement.op = "DELETE" => step = "invalidate")
    BY DEF Steps
  <2> HIDE DEF step
  <2>2. /\ statement'.step = step /\ statement'.op = statement.op
        /\ statement'.row = statement.row /\ statement'.completed = statement.completed
    BY <1>2, <1>3, <2>1, Advanced
  <2> QED BY <1>1, <1>2, <2>1, <2>2, ReportGoesOn DEF At
<1>4. CASE Returns("success", completed, {})
  <2>1. completed = IF statement.op = "INSERT" THEN RowCount(settled) - RowCount(before)
                    ELSE RowCount(before) - RowCount(settled)
    <3>1. CASE statement.op = "INSERT"
      <4>1. settled = before (+) SetToBag({statement.row})
        BY <1>1, <1>2, <3>1 DEF ReportIsRight, At
      <4>2. RowCount(settled) = RowCount(before) + 1 /\ RowCount(before) \in Nat
        BY <1>2, <4>1, RowCountAdded, RowCountFacts
      <4> QED BY <3>1, <4>2
    <3>2. CASE statement.op = "DELETE"
      BY <1>1, <1>2, <3>2 DEF ReportIsRight, At
    <3> QED BY <1>2, <3>1, <3>2
  <2>2. statement.op = "INSERT" => settled = before (+) SetToBag({statement.row})
    BY <1>1, <1>2 DEF ReportIsRight, At
  <2> HIDE DEF completed
  <2>3. /\ statement'.step = "idle" /\ statement'.op = statement.op
        /\ statement'.row = statement.row /\ statement'.completed = completed
        /\ statement'.verdict = "success"
    BY <1>2, <1>4, Returned DEF Verdicts
  <2>4. ReportIsRight'
    BY <2>3 DEF ReportIsRight, At
  <2>5. ReportsAreTrue'
    BY <1>1, <1>2, <2>1, <2>2, <2>3 DEF ReportsAreTrue, Usable, Ready
  <2> QED BY <2>4, <2>5
<1> QED BY <1>1, <1>3, <1>4

\* A report of a failure, or of a reorganisation.
LEMMA ReportGiven ==
    ASSUME statement \in StatementTypes, UNCHANGED <<before, settled>>,
           NEW verdict \in {"success", "failed"}, NEW completed, NEW unavailable,
           Returns(verdict, completed, unavailable),
           verdict = "success" => statement.op # "INSERT",
           completed = IF statement.op = "INSERT" THEN RowCount(settled) - RowCount(before)
                       ELSE RowCount(before) - RowCount(settled),
           open' => \A n \in DOMAIN indexes' : Ready(indexes'[n]) \/ n \in unavailable
    PROVE  ReportIsRight' /\ ReportsAreTrue'
<1>1. /\ statement'.step = "idle" /\ statement'.op = statement.op
      /\ statement'.row = statement.row /\ statement'.completed = completed
      /\ statement'.verdict = verdict /\ statement'.unavailable = unavailable
  BY Returned DEF Verdicts
<1>2. ReportIsRight'
  BY <1>1 DEF ReportIsRight, At
<1>3. ReportsAreTrue'
  BY <1>1 DEF ReportsAreTrue, Usable, Ready
<1> QED BY <1>2, <1>3

LEMMA InvalidateReports ==
    ASSUME RInv, Invalidate
    PROVE  ReportIsRight' /\ ReportsAreTrue'
<1>1. /\ statement.step = "invalidate" /\ UNCHANGED <<before, settled>>
      /\ Returns("failed", statement.completed, DOMAIN indexes)
      /\ \E ends \in Ends(Marked) : indexes' = IndexesOf(ends)
  BY DEF Invalidate, Within, StorageUnchanged
<1>2. /\ statement \in StatementTypes /\ ReportIsRight /\ statement.op = "DELETE"
      /\ \A n \in DOMAIN indexes : IsIndex(indexes[n])
  BY <1>1 DEF RInv, IInv, StatementIsRight, IndexesAreRight, At
<1>3. DOMAIN indexes' = DOMAIN indexes
  BY <1>1, <1>2, MarkedEnds DEF EndsOf
<1>4. statement.completed = RowCount(before) - RowCount(settled)
  BY <1>1, <1>2 DEF ReportIsRight, At
<1>5. statement.completed = IF statement.op = "INSERT" THEN RowCount(settled) - RowCount(before)
                            ELSE RowCount(before) - RowCount(settled)
  BY <1>2, <1>4
<1> QED BY <1>1, <1>2, <1>3, <1>5, ReportGiven

LEMMA RepairReports ==
    ASSUME RInv, Repair
    PROVE  ReportIsRight' /\ ReportsAreTrue'
<1>1. statement.step = "repair" /\ UNCHANGED <<before, settled, open>>
  BY DEF Repair, Within, StorageUnchanged
<1>2. PICK ends \in Ends(Repaired) :
        /\ indexes' = IndexesOf(ends)
        /\ IF statement.op = "INSERT" /\ ~ open
           THEN Returns("unreported", 0, {})
           ELSE Returns("failed", CompletedRows, FailedIn(ends))
  BY DEF Repair
<1>3. /\ statement \in StatementTypes /\ ReportIsRight /\ statement.op \in {"INSERT", "DELETE"}
      /\ \A n \in DOMAIN indexes : IsIndex(indexes[n])
      /\ IsRowBag(before) /\ open \in BOOLEAN
  BY <1>1 DEF RInv, IInv, StatementIsRight, IndexesAreRight, At
<1>4. CASE statement.op = "INSERT" /\ ~ open
  <2>1. statement'.step = "idle" /\ ~ open'
    BY <1>1, <1>2, <1>3, <1>4, Returned DEF Verdicts
  <2> QED BY <2>1 DEF ReportIsRight, ReportsAreTrue, At
<1>5. CASE ~ (statement.op = "INSERT" /\ ~ open)
  <2>1. CompletedRows = IF statement.op = "INSERT" THEN RowCount(settled) - RowCount(before)
                        ELSE RowCount(before) - RowCount(settled)
    <3>1. CASE statement.op = "INSERT"
      <4> DEFINE more == RowCount(settled) - RowCount(before)
      <4>1. settled = before \/ settled = before (+) SetToBag({statement.row})
        BY <1>1, <1>3, <3>1 DEF ReportIsRight, At
      <4>2. RowCount(before) \in Nat
        BY <1>3, RowCountFacts
      <4>3. settled = before => more = 0
        BY <4>2
      <4>4. settled = before (+) SetToBag({statement.row}) => more = 1
        <5> DEFINE one == statement.row
        <5>1. RowCount(before (+) SetToBag({one})) = RowCount(before) + 1
          BY <1>3, RowCountAdded
        <5> QED BY <4>2, <5>1
      <4>5. more \in {0, 1}
        BY <4>1, <4>3, <4>4
      <4>6. CompletedRows = Max({0, more})
        BY <3>1 DEF CompletedRows
      <4> HIDE DEF more
      <4>7. {0, more} \in SUBSET Nat /\ {0, more} # {} /\ \A x \in {0, more} : x <= 1
        BY <4>5
      <4>8. Max({0, more}) \in {0, more} /\ \A x \in {0, more} : x <= Max({0, more})
        BY <4>7, Maximum
      <4>9. Max({0, more}) = more
        BY <4>5, <4>8
      <4> QED BY <3>1, <4>6, <4>9 DEF more
    <3>2. CASE statement.op = "DELETE"
      <4>1. CompletedRows = statement.completed
        BY <3>2 DEF CompletedRows
      <4>2. statement.completed = RowCount(before) - RowCount(settled)
        BY <1>1, <1>3, <3>2 DEF ReportIsRight, At
      <4> QED BY <3>2, <4>1, <4>2
    <3> QED BY <1>3, <3>1, <3>2
  <2>2. \A n \in DOMAIN indexes' : Ready(indexes'[n]) \/ n \in FailedIn(ends)
    BY <1>2, <1>3, RepairedEnds, FreshFacts DEF EndsOf
  <2>3. Returns("failed", CompletedRows, FailedIn(ends))
    BY <1>2, <1>5
  <2> QED BY <1>1, <1>3, <2>1, <2>2, <2>3, ReportGiven
<1> QED BY <1>4, <1>5

LEMMA ReorganizeReports ==
    ASSUME RInv, ReorganizeMark \/ ReorganizeStore \/ ReorganizeRebuild
    PROVE  ReportIsRight' /\ ReportsAreTrue'
<1>1. At({"reorg_mark", "reorg_store", "reorg_rebuild"}) /\ UNCHANGED <<before, settled>>
  BY DEF ReorganizeMark, ReorganizeStore, ReorganizeRebuild, Within, StorageUnchanged, At
<1>2. /\ statement \in StatementTypes /\ StatementIsRight /\ ReportIsRight /\ settled = before
      /\ statement.op = "REORGANIZE" /\ \A n \in DOMAIN indexes : IsIndex(indexes[n])
      /\ RowCount(before) \in Nat
  BY <1>1, RowCountFacts DEF RInv, IInv, StatementIsRight, IndexesAreRight, ReportIsRight, At
<1>3. 0 = IF statement.op = "INSERT" THEN RowCount(settled) - RowCount(before)
          ELSE RowCount(before) - RowCount(settled)
  BY <1>2
<1>4. DOMAIN indexes' = DOMAIN indexes
  <2>1. CASE ReorganizeMark
    BY <1>2, <2>1, MarkedEnds DEF ReorganizeMark, EndsOf
  <2>2. CASE ReorganizeStore
    BY <2>2 DEF ReorganizeStore
  <2>3. CASE ReorganizeRebuild
    BY <1>2, <2>3, RebuiltEnds DEF ReorganizeRebuild, EndsOf
  <2> QED BY <2>1, <2>2, <2>3
<1>5. CASE Returns("failed", 0, DOMAIN indexes)
  BY <1>1, <1>2, <1>3, <1>4, <1>5, ReportGiven
<1>6. CASE ReorganizeMark /\ Becomes("reorg_store")
  <2>1. /\ statement'.step = "reorg_store" /\ statement'.op = statement.op
        /\ statement'.row = statement.row /\ statement'.completed = statement.completed
    BY <1>2, <1>6, Advanced DEF Steps
  <2>2. statement.step = "reorg_mark"
    BY <1>6 DEF ReorganizeMark
  <2> QED BY <1>1, <1>2, <2>1, <2>2, ReportGoesOn DEF At
<1>7. CASE ReorganizeStore /\ Becomes("reorg_rebuild")
  <2>1. /\ statement'.step = "reorg_rebuild" /\ statement'.op = statement.op
        /\ statement'.row = statement.row /\ statement'.completed = statement.completed
    BY <1>2, <1>7, Advanced DEF Steps
  <2>2. statement.step = "reorg_store"
    BY <1>7 DEF ReorganizeStore
  <2> QED BY <1>1, <1>2, <2>1, <2>2, ReportGoesOn DEF At
<1>8. CASE ReorganizeRebuild /\ ~ Returns("failed", 0, DOMAIN indexes)
  <2>1. PICK ends \in Ends(Rebuilt) : /\ indexes' = IndexesOf(ends) /\ FailedIn(ends) = {}
                                      /\ Returns("success", 0, {})
    BY <1>8 DEF ReorganizeRebuild
  <2>2. \A n \in DOMAIN indexes' : Ready(indexes'[n])
    BY <1>2, <1>4, <2>1, RebuiltEnds, FreshFacts
  <2> QED BY <1>1, <1>2, <1>3, <2>1, <2>2, ReportGiven
<1>9. (ReorganizeMark /\ (Returns("failed", 0, DOMAIN indexes) \/ Becomes("reorg_store")))
      \/ (ReorganizeStore /\ (Returns("failed", 0, DOMAIN indexes) \/ Becomes("reorg_rebuild")))
      \/ ReorganizeRebuild
  BY DEF ReorganizeMark, ReorganizeStore
<1> QED BY <1>5, <1>6, <1>7, <1>8, <1>9

LEMMA NextReports ==
    ASSUME RInv, [Next]_vars
    PROVE  RInv'
<1>1. IInv'
  BY NextKeeps DEF RInv
<1>2. CASE UNCHANGED vars
  BY <1>1, <1>2 DEF vars, RInv, ReportIsRight, ReportsAreTrue, At, Idle, Usable, IsRowBag
<1>3. CASE Next
  <2>1. CASE \/ \E row \in Rows : BeginInsert(row)
             \/ \E keys \in KeySets : BeginDelete(keys)
             \/ BeginReorganize
    <3>1. IsRowBag(before') /\ ReportIsRight' /\ ReportsAreTrue'
      BY <2>1, BeginsReport
    <3> QED BY <1>1, <3>1 DEF RInv, IsRowBag
  <2>2. CASE \/ MarkBeforeMove \/ Store \/ IndexRow \/ RebuildAfterMove \/ Compensate
             \/ NextTarget \/ UnindexRow \/ Unstore
             \/ Flush \/ Invalidate \/ Repair
             \/ ReorganizeMark \/ ReorganizeStore \/ ReorganizeRebuild
    <3>1. before' = before
      BY <2>2 DEF MarkBeforeMove, Store, IndexRow, RebuildAfterMove, Compensate, NextTarget,
         UnindexRow, Unstore, Flush, Invalidate, Repair, ReorganizeMark, ReorganizeStore,
         ReorganizeRebuild, Within
    <3>2. ReportIsRight' /\ ReportsAreTrue'
      BY <2>2, StepsReport, StoreReports, CompensateReports, UnstoreReports, FlushReports,
         InvalidateReports, RepairReports, ReorganizeReports
    <3> QED BY <1>1, <3>1, <3>2 DEF RInv, IsRowBag
  <2> QED BY <1>3, <2>1, <2>2 DEF Next
<1> QED BY <1>2, <1>3

\* The report of a statement is true: a success did all of its work and left
\* every index usable, a failure counts the rows that did change and names
\* every index that cannot be used (MaintenanceReport of the service).
THEOREM ReportsTellTheTruth == Spec => []ReportsAreTrue
<1>1. Init => RInv
  <2> SUFFICES ASSUME Init PROVE RInv
    OBVIOUS
  <2>1. IInv
    BY InitHolds
  <2>2. before = Contents(file) /\ settled = before /\ statement = NoStatement
        /\ indexes = [n \in Names(kind) |-> Fresh] /\ open
    BY DEF Init, Fresh
  <2>3. IsRowBag(before)
    BY <2>1, <2>2, RowsAreABag DEF IInv, FileIsRight, Sound
  <2>4. statement.step = "idle" /\ statement.verdict = "none"
    BY <2>2 DEF NoStatement
  <2>5. ReportIsRight
    BY <2>4 DEF ReportIsRight, At
  <2>6. ReportsAreTrue
    BY <2>2, <2>4, FreshFacts DEF ReportsAreTrue, Usable, Ready
  <2> QED BY <2>1, <2>3, <2>5, <2>6 DEF RInv
<1>2. RInv /\ [Next]_vars => RInv'
  BY NextReports
<1>3. RInv => ReportsAreTrue
  BY DEF RInv
<1> QED BY <1>1, <1>2, <1>3, PTL DEF Spec

-----------------------------------------------------------------------------
(***************************************************************************)
(* The order of an ordered table, and the uniqueness of its keys.          *)
(***************************************************************************)

\* The row of an INSERT stays, or the storage has taken it.
LEMMA OrderKept ==
    ASSUME OrderIsRight, UNCHANGED <<kind, unique, file, open, settled>>,
           ~ At({"mark", "store"})' \/ (At({"mark"}) /\ statement'.row = statement.row)
    PROVE  OrderIsRight'
BY DEF OrderIsRight, At

LEMMA BeginsKeepOrder ==
    ASSUME OInv, \/ \E row \in Rows : BeginInsert(row)
                 \/ \E keys \in KeySets : BeginDelete(keys)
                 \/ BeginReorganize
    PROVE  OrderIsRight'
<1>1. Begin
  BY DEF BeginInsert, BeginDelete, BeginReorganize
<1>2. /\ UNCHANGED <<kind, unique, file, open, settled>>
      /\ open /\ Sound(file) /\ Contents(file) = settled
  <2>1. UNCHANGED unique
    BY <1>1 DEF Begin
  <2> QED BY <1>1, <2>1, BeginFacts DEF OInv
<1>3. OrderIsRight
  BY DEF OInv
<1>4. ASSUME NEW row \in Rows, BeginInsert(row) PROVE OrderIsRight'
  <2> DEFINE verdict == IF IsDuplicate(Key(row)) THEN "refused" ELSE "none"
             step == IF IsDuplicate(Key(row)) THEN "idle"
                     ELSE IF kind = "heap" THEN "store" ELSE "mark"
  <2>1. statement' = [NoStatement EXCEPT !.op = "INSERT", !.row = row, !.step = step,
                                         !.verdict = verdict]
    BY <1>4 DEF BeginInsert
  <2>2. statement'.step = step /\ statement'.row = row
    <3> HIDE DEF step, verdict
    <3> QED BY <2>1 DEF NoStatement
  <2>3. CASE step = "idle"
    BY <1>2, <1>3, <2>2, <2>3, OrderKept DEF At
  <2>4. CASE step # "idle"
    <3>1. ~ IsDuplicate(Key(row))
      BY <2>4
    <3> HIDE DEF step
    <3> SUFFICES ASSUME kind = "ordered", unique
                 PROVE  \A r \in DOMAIN settled : Key(r) # Key(row)
      BY <1>2, <1>3, <2>2 DEF OrderIsRight
    <3>2. SearchKey(file, Key(row)) = <<>>
      BY <3>1 DEF IsDuplicate
    <3>3. Key(row) \in Nat
      BY RowsAssumption DEF FittingRows, Key
    <3>4. InKeyOrder(file) /\ file \in FileTypes
      BY <1>2, <1>3 DEF OrderIsRight, Sound
    <3>5. \A x \in RidsOf(file) : KeyAt(file, x) # Key(row)
      BY <3>2, <3>3, <3>4, NothingFound
    <3>6. DOMAIN settled = {RowAt(file, x) : x \in RidsOf(file)}
      BY <1>2 DEF Contents
    <3> QED BY <3>5, <3>6 DEF KeyAt
  <2> QED BY <2>3, <2>4
<1>5. ASSUME NEW keys \in KeySets, BeginDelete(keys) PROVE OrderIsRight'
  <2> DEFINE targets == SelectSeq(Scan(file), LAMBDA e : Key(e[2]) \in keys)
  <2>1. statement' = [NoStatement EXCEPT !.op = "DELETE", !.step = "target",
                                         !.targets = targets]
    BY <1>5 DEF BeginDelete
  <2> HIDE DEF targets
  <2>2. statement'.step = "target"
    BY <2>1 DEF NoStatement
  <2> QED BY <1>2, <1>3, <2>2, OrderKept DEF At
<1>6. CASE BeginReorganize
  <2>1. statement'.step = "reorg_mark"
    BY <1>6 DEF BeginReorganize, NoStatement
  <2> QED BY <1>2, <1>3, <2>1, OrderKept DEF At
<1> QED BY <1>4, <1>5, <1>6

\* The steps that leave the storage alone.
LEMMA StepsKeepOrder ==
    ASSUME OInv, \/ MarkBeforeMove \/ IndexRow \/ RebuildAfterMove
                 \/ NextTarget \/ UnindexRow \/ Flush \/ Invalidate \/ Repair
                 \/ ReorganizeMark \/ ReorganizeRebuild
    PROVE  OrderIsRight'
<1>1. UNCHANGED <<kind, unique, file, open, settled>>
  BY DEF MarkBeforeMove, IndexRow, RebuildAfterMove, NextTarget, UnindexRow, Flush, Invalidate,
         Repair, ReorganizeMark, ReorganizeRebuild, Within, StorageUnchanged
<1>2. statement \in StatementTypes /\ OrderIsRight
  BY DEF OInv, IInv, StatementIsRight
<1> DEFINE Goes(step) == /\ statement'.step = step /\ statement'.row = statement.row
<1>3. ASSUME NEW step \in Steps, Becomes(step), step \notin {"mark", "store"} PROVE OrderIsRight'
  BY <1>1, <1>2, <1>3, Advanced, OrderKept DEF At
<1>4. ASSUME NEW verdict, NEW completed, NEW unavailable, Returns(verdict, completed, unavailable)
      PROVE  OrderIsRight'
  <2>1. statement'.step = "idle"
    BY <1>4 DEF Returns, NoStatement
  <2> QED BY <1>1, <1>2, <2>1, OrderKept DEF At
<1>5. CASE MarkBeforeMove
  <2>1. statement.step = "mark" /\ (Becomes("store") \/ Becomes("repair"))
    BY <1>5 DEF MarkBeforeMove
  <2>2. Goes("store") \/ Goes("repair")
    BY <1>2, <2>1, Advanced DEF Steps
  <2> QED BY <1>1, <1>2, <2>1, <2>2, OrderKept DEF At
<1>6. CASE RebuildAfterMove
  <2>1. Becomes("flush") \/ Becomes("compensate")
    BY <1>6 DEF RebuildAfterMove
  <2> QED BY <1>3, <2>1 DEF Steps
<1>7. CASE IndexRow
  <2>1. PICK step \in {"compensate", "index", "flush"} :
          statement' = [statement EXCEPT !.todo = Tail(@), !.step = step]
    BY <1>7 DEF IndexRow
  <2>2. Goes(step)
    BY <1>2, <2>1 DEF StatementTypes
  <2> QED BY <1>1, <1>2, <2>2, OrderKept DEF At
<1>8. CASE UnindexRow
  <2>1. PICK step \in {"repair", "unindex", "unstore"} :
          statement' = [statement EXCEPT !.todo = Tail(@), !.step = step]
    BY <1>8 DEF UnindexRow
  <2>2. Goes(step)
    BY <1>2, <2>1 DEF StatementTypes
  <2> QED BY <1>1, <1>2, <2>2, OrderKept DEF At
<1>9. CASE NextTarget
  <2>1. \/ Becomes("flush")
        \/ Becomes("repair")
        \/ statement' = [statement EXCEPT !.step = "unindex", !.todo = Order]
    BY <1>9 DEF NextTarget
  <2>2. Goes("flush") \/ Goes("repair") \/ Goes("unindex")
    BY <1>2, <2>1, Advanced DEF Steps, StatementTypes
  <2> QED BY <1>1, <1>2, <2>2, OrderKept DEF At
<1>10. CASE Flush
  <2>1. \/ \E c : Returns("success", c, {})
        \/ Becomes("compensate") \/ Becomes("invalidate")
    BY <1>10 DEF Flush
  <2> QED BY <1>3, <1>4, <2>1 DEF Steps
<1>11. CASE Invalidate
  BY <1>4, <1>11 DEF Invalidate
<1>12. CASE Repair
  <2>1. \E v, c, u : Returns(v, c, u)
    BY <1>12 DEF Repair
  <2> QED BY <1>4, <2>1
<1>13. CASE ReorganizeMark
  <2>1. Returns("failed", 0, DOMAIN indexes) \/ Becomes("reorg_store")
    BY <1>13 DEF ReorganizeMark
  <2> QED BY <1>3, <1>4, <2>1 DEF Steps
<1>14. CASE ReorganizeRebuild
  <2>1. Returns("failed", 0, DOMAIN indexes) \/ Returns("success", 0, {})
    BY <1>14 DEF ReorganizeRebuild
  <2> QED BY <1>4, <2>1
<1> QED BY <1>5, <1>6, <1>7, <1>8, <1>9, <1>10, <1>11, <1>12, <1>13, <1>14

\* A storage call that keeps the order of the rows and their keys unique.
LEMMA StorageKeepsOrder ==
    ASSUME OrderIsRight, UNCHANGED <<kind, unique>>, ~ At({"mark", "store"})',
           NEW writes, NEW rows, StorageDone(writes, rows) \/ StorageFails(writes, rows),
           kind = "ordered" /\ open =>
             InKeyOrder(WriteAll(file, writes)) /\ (unique => UniqueKeys(rows))
    PROVE  OrderIsRight'
<1>1. CASE StorageDone(writes, rows)
  BY <1>1 DEF OrderIsRight, StorageDone
<1>2. CASE StorageFails(writes, rows)
  <2>1. CASE UNCHANGED <<file, open, intended>>
    BY <1>2, <2>1, OrderKept DEF StorageFails
  <2>2. CASE open' = FALSE
    BY <2>2 DEF OrderIsRight
  <2> QED BY <1>2, <2>1, <2>2 DEF StorageFails
<1> QED BY <1>1, <1>2

LEMMA StoreKeepsOrder ==
    ASSUME OInv, Store
    PROVE  OrderIsRight'
<1> DEFINE row == statement.row
           ws == InsertWrites(row)
           rid == InsertRid(row)
           rows == settled (+) SetToBag({row})
           step == IF kind = "heap" THEN "index" ELSE "rebuild"
<1>1. /\ statement.step = "store" /\ UNCHANGED <<kind, unique>>
      /\ \/ /\ StorageDone(ws, rows)
            /\ statement' = [statement EXCEPT !.rid = rid, !.todo = Order, !.step = step]
         \/ StorageFails(ws, rows) /\ Becomes("repair")
  BY DEF Store, Within
<1>2. /\ row \in FittingRows /\ open /\ Sound(file) /\ Contents(file) = settled
      /\ statement \in StatementTypes /\ OrderIsRight
  BY <1>1 DEF OInv, IInv, StatementIsRight, FileIsRight, At
<1> HIDE DEF row, rid
<1>3. statement'.step \in {"index", "rebuild", "repair"}
  <2>1. CASE statement' = [statement EXCEPT !.rid = rid, !.todo = Order, !.step = step]
    BY <1>2, <2>1 DEF StatementTypes
  <2>2. CASE Becomes("repair")
    BY <1>2, <2>2, Advanced DEF Steps
  <2> QED BY <1>1, <2>1, <2>2
<1>4. ASSUME kind = "ordered" PROVE InKeyOrder(WriteAll(file, ws)) /\ (unique => UniqueKeys(rows))
  <2>1. InKeyOrder(file)
    BY <1>2, <1>4 DEF OrderIsRight
  <2>2. InKeyOrder(WriteAll(file, SequentialWrites(file, row)))
    BY <1>2, <2>1, OrderedInsertionKeepsOrder
  <2>3. ws = SequentialWrites(file, row)
    BY <1>4 DEF InsertWrites
  <2>4. ASSUME unique PROVE UniqueKeys(rows)
    <3>1. UniqueKeys(settled) /\ \A r \in DOMAIN settled : Key(r) # Key(row)
      BY <1>1, <1>2, <1>4, <2>4 DEF OrderIsRight, At, row
    <3>2. settled \in [DOMAIN settled -> Nat \ {0}]
      BY <1>2, ContentsAreABag DEF Sound
    <3> QED BY <3>1, <3>2, UniqueAdded
  <2> QED BY <2>2, <2>3, <2>4
<1> HIDE DEF ws, rows
<1> QED BY <1>1, <1>2, <1>3, <1>4, StorageKeepsOrder DEF At

\* A row taken out, by a compensation or by a DELETE.
LEMMA DeletionsKeepOrder ==
    ASSUME OInv, Compensate \/ Unstore
    PROVE  OrderIsRight'
<1> DEFINE rid == AtRow[1]
           row == AtRow[2]
           ws == DeleteWrites(file, rid)
           rows == settled (-) SetToBag({row})
<1>1. /\ statement \in StatementTypes /\ OrderIsRight /\ At({"compensate", "unstore"})
  BY DEF OInv, IInv, StatementIsRight, Compensate, Unstore, At
<1>2. /\ open /\ Sound(file) /\ Contents(file) = settled /\ rid \in RidsOf(file)
  BY <1>1 DEF OInv, IInv, FileIsRight, RowIsThere, At
<1>3. /\ UNCHANGED <<kind, unique>>
      /\ StorageDone(ws, rows) \/ StorageFails(ws, rows)
      /\ statement'.step \in {"repair", "target"}
  <2>1. CASE Compensate
    <3>1. statement.op = "INSERT" /\ AtRow = <<statement.rid, statement.row>>
      BY <2>1 DEF OInv, IInv, StatementIsRight, Compensate, At, AtRow
    <3>2. statement'.step = "repair"
      BY <1>1, <2>1, Advanced DEF Compensate, Steps
    <3> QED BY <2>1, <3>1, <3>2 DEF Compensate, Within
  <2>2. CASE Unstore
    <3>1. AtRow = Head(statement.targets)
      BY <2>2 DEF OInv, IInv, StatementIsRight, Unstore, At, AtRow
    <3>2. statement'.step \in {"repair", "target"}
      <4>1. CASE Becomes("repair")
        BY <1>1, <4>1, Advanced DEF Steps
      <4>2. CASE statement' = [statement EXCEPT !.step = "target", !.targets = Tail(@),
                                                !.completed = @ + 1]
        BY <1>1, <4>2 DEF StatementTypes
      <4> QED BY <2>2, <4>1, <4>2 DEF Unstore
    <3> QED BY <2>2, <3>1, <3>2 DEF Unstore, Within
  <2> QED BY <2>1, <2>2
<1> HIDE DEF rid, row
<1>4. ASSUME kind = "ordered" PROVE InKeyOrder(WriteAll(file, ws)) /\ (unique => UniqueKeys(rows))
  <2>1. InKeyOrder(WriteAll(file, ws))
    BY <1>1, <1>2, <1>4, DeletionKeepsOrder DEF OrderIsRight
  <2>2. settled \in [DOMAIN settled -> Nat \ {0}]
    BY <1>2, ContentsAreABag DEF Sound
  <2>3. unique => UniqueKeys(rows)
    BY <1>1, <1>2, <1>4, <2>2, UniqueTaken DEF OrderIsRight
  <2> QED BY <2>1, <2>3
<1> HIDE DEF ws, rows
<1> QED BY <1>1, <1>2, <1>3, <1>4, StorageKeepsOrder DEF At

LEMMA ReorganizeStoreKeepsOrder ==
    ASSUME OInv, ReorganizeStore
    PROVE  OrderIsRight'
<1>1. /\ statement.step = "reorg_store" /\ UNCHANGED <<kind, unique, settled>>
      /\ \/ file' = Compacted(file) /\ UNCHANGED open /\ Becomes("reorg_rebuild")
         \/ /\ \/ UNCHANGED <<file, open>>
               \/ open' = FALSE
            /\ Returns("failed", 0, DOMAIN indexes)
  BY DEF ReorganizeStore, Within
<1>2. open /\ Sound(file) /\ statement \in StatementTypes /\ OrderIsRight /\ kind = "ordered"
  BY <1>1 DEF OInv, IInv, StatementIsRight, FileIsRight, At
<1>3. InKeyOrder(Compacted(file))
  BY <1>2, CompactionKeepsOrder DEF OrderIsRight
<1>4. statement'.step \in {"reorg_rebuild", "idle"}
  BY <1>1, <1>2, Advanced, Returned DEF Steps, Verdicts
<1>5. CASE file' = Compacted(file) /\ UNCHANGED open
  BY <1>1, <1>2, <1>3, <1>4, <1>5 DEF OrderIsRight, At
<1>6. CASE UNCHANGED <<file, open>>
  BY <1>1, <1>2, <1>4, <1>6, OrderKept DEF At
<1>7. CASE open' = FALSE
  BY <1>7 DEF OrderIsRight
<1> QED BY <1>1, <1>5, <1>6, <1>7

LEMMA NextKeepsOrder ==
    ASSUME OInv, [Next]_vars
    PROVE  OInv'
<1>1. IInv'
  BY NextKeeps DEF OInv
<1>2. CASE UNCHANGED vars
  BY <1>1, <1>2 DEF vars, OInv, OrderIsRight, At
<1>3. CASE Next
  <2>1. OrderIsRight'
    BY <1>3, BeginsKeepOrder, StepsKeepOrder, StoreKeepsOrder, DeletionsKeepOrder,
       ReorganizeStoreKeepsOrder DEF Next
  <2> QED BY <1>1, <2>1 DEF OInv
<1> QED BY <1>2, <1>3

\* As many keys as rows: no two rows have the same.
LEMMA KeysDiffer ==
    ASSUME NEW load \in Seq(FittingRows),
           Cardinality({Key(load[i]) : i \in DOMAIN load}) = Len(load)
    PROVE  \A i, j \in 1 .. Len(load) : Key(load[i]) = Key(load[j]) => i = j
<1> DEFINE D == 1 .. Len(load)
           T == {Key(load[i]) : i \in D}
           h == [i \in D |-> Key(load[i])]
<1>1. Len(load) \in Nat /\ DOMAIN load = D
  OBVIOUS
<1>2. IsFiniteSet(D) /\ Cardinality(D) = Len(load)
  <2> DEFINE n == Len(load)
  <2>1. n \in Nat
    OBVIOUS
  <2> HIDE DEF n
  <2>2. IsFiniteSet(1 .. n) /\ Cardinality(1 .. n) = IF 1 > n THEN 0 ELSE n - 1 + 1
    <3>1. 1 \in Int /\ n \in Int
      BY <2>1
    <3> QED BY ONLY <3>1, FS_Interval
  <2>3. Cardinality(1 .. n) = n
    BY <2>1, <2>2
  <2> QED BY <2>2, <2>3 DEF n
<1>3. Cardinality(T) = Cardinality(D)
  BY <1>1, <1>2
<1>4. h \in Surjection(D, T)
  BY DEF Surjection
<1> HIDE DEF D, T, h
<1>5. h \in Injection(D, T)
  BY <1>2, <1>3, <1>4, FS_SurjSameCardinalityImpliesInj
<1>6. \A i, j \in D : h[i] = h[j] => i = j
  BY <1>4, <1>5 DEF Injection, IsInjective, Surjection
<1> QED BY <1>6 DEF h, D

\* An ordered table that a sequence of rows makes is in order, and has unique
\* keys when the rows have.
LEMMA LoadedInOrder ==
    ASSUME NEW load \in Seq(FittingRows)
    PROVE  /\ InKeyOrder(Loaded("ordered", load))
           /\ Cardinality({Key(load[i]) : i \in DOMAIN load}) = Len(load) =>
                UniqueKeys(Contents(Loaded("ordered", load)))
<1> DEFINE N == Len(load)
           Differ == \A i, j \in 1 .. N : Key(load[i]) = Key(load[j]) => i = j
<1>1. PICK after : LoadedBy("ordered", load, after)
  BY LoadedInSteps
<1> DEFINE Rest(n) == {load[i] : i \in 1 .. n}
           Good(n) == /\ InKeyOrder(after[n])
                      /\ DOMAIN Contents(after[n]) = Rest(n)
                      /\ Differ => UniqueKeys(Contents(after[n]))
           S == {n \in Nat : n \in 0 .. N => Good(n)}
<1>2. /\ N \in Nat /\ \A n \in 1 .. N : load[n] \in FittingRows
      /\ after[0] = NewFile /\ Loaded("ordered", load) = after[N]
      /\ \A n \in 1 .. N : after[n] = InsertInto("ordered", after[n - 1], load[n])
      /\ \A n \in 0 .. N : Sound(after[n])
  BY <1>1 DEF LoadedBy
<1>3. 0 \in S
  <2>1. RidsOf(after[0]) = {}
    <3>1. NewFile.pages = <<>>
      BY DEF NewFile
    <3>2. SlotsOf(NewFile) = {}
      BY <3>1 DEF SlotsOf
    <3> QED BY <1>2, <3>2 DEF RidsOf
  <2>2. InKeyOrder(after[0])
    BY <2>1 DEF InKeyOrder
  <2>3. DOMAIN Contents(after[0]) = {}
    BY <2>1 DEF Contents
  <2>4. Rest(0) = {}
    OBVIOUS
  <2>5. UniqueKeys(Contents(after[0]))
    BY <2>3 DEF UniqueKeys
  <2>6. Good(0)
    BY <2>2, <2>3, <2>4, <2>5
  <2> HIDE DEF Good
  <2> QED BY <2>6
<1>4. ASSUME NEW n \in Nat, n + 1 \in 0 .. N, Good(n) PROVE Good(n + 1)
  <2> DEFINE f == after[n]
             row == load[n + 1]
             ws == SequentialWrites(f, row)
             old == Contents(f)
  <2>1. n \in 0 .. N /\ n + 1 \in 1 .. N /\ (n + 1) - 1 = n
    BY <1>2, <1>4
  <2>2. after[n + 1] = WriteAll(f, ws) /\ Sound(f) /\ row \in FittingRows /\ InKeyOrder(f)
    BY <1>2, <1>4, <2>1 DEF InsertInto
  <2>3. Rest(n + 1) = Rest(n) \cup {row}
    <3>1. 1 .. (n + 1) = 1 .. n \cup {n + 1}
      BY <1>4
    <3> QED BY <3>1
  <2>4. DOMAIN old = Rest(n) /\ (Differ => UniqueKeys(old))
    BY <1>4
  <2>5. Differ => \A r \in Rest(n) : Key(r) # Key(row)
    <3>1. \A i \in 1 .. n : i \in 1 .. N /\ i # n + 1
      BY <1>2, <2>1
    <3> QED BY <2>1, <3>1
  <2> HIDE DEF f, row, Rest, Differ
  <2>6. InKeyOrder(WriteAll(f, ws))
    BY <2>2, OrderedInsertionKeepsOrder
  <2>7. Contents(WriteAll(f, ws)) = old (+) SetToBag({row})
    BY <2>2, OrderedInsertion DEF Stores
  <2>8. old \in [DOMAIN old -> Nat \ {0}]
    BY <2>2, ContentsAreABag DEF Sound
  <2> HIDE DEF ws, old
  <2>9. DOMAIN (old (+) SetToBag({row})) = Rest(n) \cup {row}
    BY <2>4 DEF (+), SetToBag
  <2>10. Differ => UniqueKeys(old (+) SetToBag({row}))
    BY <2>4, <2>5, <2>8, UniqueAdded
  <2> QED BY <2>2, <2>3, <2>6, <2>7, <2>9, <2>10
<1> HIDE DEF Good
<1>5. ASSUME NEW n \in Nat, n \in S PROVE n + 1 \in S
  <2>1. n + 1 \in 0 .. N => n \in 0 .. N
    BY <1>2
  <2> QED BY <1>4, <1>5, <2>1
<1>6. \A n \in Nat : n \in S
  <2> HIDE DEF S
  <2> QED BY <1>3, <1>5, SetInduction
<1>7. Good(N)
  BY <1>2, <1>6
<1> QED BY <1>2, <1>7, KeysDiffer DEF Good

LEMMA InitIsInOrder ==
    ASSUME Init
    PROVE  OInv
<1>1. /\ settled = Contents(file) /\ statement = NoStatement /\ IInv
  BY InitHolds DEF Init
<1>2. PICK load \in Loads :
        /\ unique => Cardinality({Key(load[i]) : i \in DOMAIN load}) = Len(load)
        /\ file = Loaded(kind, load)
  BY DEF Init
<1>3. load \in Seq(FittingRows)
  BY RowsAssumption
<1>4. ASSUME kind = "ordered"
      PROVE  InKeyOrder(file) /\ (unique => UniqueKeys(settled))
  BY <1>1, <1>2, <1>3, <1>4, LoadedInOrder
<1>5. ~ At({"mark", "store"})
  BY <1>1 DEF At, NoStatement
<1> QED BY <1>1, <1>4, <1>5 DEF OInv, OrderIsRight

\* In a file in key order with unique keys the searches find what the scan has.
LEMMA OrderSuffices ==
    ASSUME OInv
    PROVE  OrderedSearchesAreComplete
<1> SUFFICES ASSUME kind = "ordered", open
             PROVE  /\ IsOrdered(file)
                    /\ \A key \in {Key(r) : r \in Rows} :
                         /\ SearchKey(file, key) =
                              EntriesAt(Scan(file), {i \in DOMAIN Scan(file) : Key(Scan(file)[i][2]) = key})
                         /\ HasKey(file, key) <=> key \in KeysOf(Scan(file))
                    /\ unique => Cardinality(KeysOf(Scan(file))) = ActiveRows(file)
  BY DEF OrderedSearchesAreComplete
<1>1. /\ file \in FileTypes /\ Contents(file) = settled /\ InKeyOrder(file)
      /\ unique => UniqueKeys(settled)
  BY DEF OInv, IInv, FileIsRight, Sound, OrderIsRight
<1>2. PICK e : Lists(file, e)
  BY <1>1, ScanLists
<1> DEFINE keys == {KeyAt(file, x) : x \in RidsOf(file)}
<1>3. KeysOf(Scan(file)) = keys
  <2>1. \A k \in DOMAIN Scan(file) : e[k] \in RidsOf(file) /\ Key(Scan(file)[k][2]) = KeyAt(file, e[k])
    BY <1>1, <1>2, ScanKeys
  <2>2. \A x \in RidsOf(file) : \E k \in DOMAIN Scan(file) : e[k] = x
    BY <1>1, <1>2, ScanKeys
  <2> QED BY <2>1, <2>2 DEF KeysOf
<1>4. IsOrdered(file)
  BY <1>1, ScanIsSorted
<1>5. ASSUME NEW key \in {Key(r) : r \in Rows}
      PROVE  /\ SearchKey(file, key) =
                  EntriesAt(Scan(file), {i \in DOMAIN Scan(file) : Key(Scan(file)[i][2]) = key})
             /\ HasKey(file, key) <=> key \in KeysOf(Scan(file))
  <2>1. key \in Nat
    BY RowsAssumption DEF FittingRows, Key
  <2>2. HasKey(file, key) <=> \E x \in RidsOf(file) : KeyAt(file, x) = key
    BY <1>1, <2>1, HasKeyFinds
  <2>3. key \in keys <=> \E x \in RidsOf(file) : KeyAt(file, x) = key
    OBVIOUS
  <2> HIDE DEF keys
  <2>4. SearchKey(file, key) =
          EntriesAt(Scan(file), {i \in DOMAIN Scan(file) : Key(Scan(file)[i][2]) = key})
    BY <1>1, <2>1, SearchFinds
  <2> QED BY <1>3, <2>2, <2>3, <2>4
<1>6. unique => Cardinality(KeysOf(Scan(file))) = ActiveRows(file)
  BY <1>1, <1>3, KeysCounted
<1> QED BY <1>4, <1>5, <1>6

\* An ordered table whose handle is usable keeps its rows in key order over all
\* pages, splits, holes and reorganisations; the binary search over its pages,
\* some of them without rows, finds every entry with a key, and the duplicate
\* check that a unique key rests on never misses one
\* (_first_page_index, _find_insertion_target, search, insert, delete and
\* reorganize of paged_sequential_file.py).
THEOREM OrderedSearchesFindEverything == Spec => []OrderedSearchesAreComplete
<1>1. Init => OInv
  BY InitIsInOrder
<1>2. OInv /\ [Next]_vars => OInv'
  BY NextKeepsOrder
<1>3. OInv => OrderedSearchesAreComplete
  BY OrderSuffices
<1> QED BY <1>1, <1>2, <1>3, PTL DEF Spec
=============================================================================
