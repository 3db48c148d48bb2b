---------------------------- MODULE Maintenance ----------------------------
(***************************************************************************)
(* INSERT and DELETE over one table and its indexes                        *)
(* (engine/maintenance/service.py), as a session without a transaction     *)
(* runs them: the storage file of the table, the index files, and any      *)
(* physical step failing.  A failure is repaired by rebuilding the indexes *)
(* from the storage; a failed write closes its handle.                     *)
(***************************************************************************)
EXTENDS HeapFile, SequentialFile

CONSTANTS Rows,        \* rows to insert
          Loads,       \* sequences of rows a table starts with
          KeySets,     \* the keys a DELETE selects
          MaxCalls     \* bound: statements

ASSUME RowsAssumption == Rows \subseteq FittingRows /\ Loads \subseteq Seq(FittingRows)

Names(k) == IF k = "heap" THEN {"bplus", "hash"} ELSE {"clustered"}
Unknown == {<<-1, <<0, 0>>>>}    \* an index file after a torn write

VARIABLES kind,        \* organisation of the table
          unique,      \* its keys are unique
          file,        \* the storage file
          open,        \* its handle is usable
          indexes,     \* name -> associations, persistent marker, usable handle
          statement,   \* the statement in progress, or how the last one ended
          before,      \* the rows when it began
          settled,     \* the rows after the last storage call that ended well
          intended,    \* the rows the running or failed storage call aims at
          calls        \* statements so far

vars == <<kind, unique, file, open, indexes, statement, before, settled, intended, calls>>

Idle == statement.step = "idle"

\* How many rows a bag has.
RowCount(bag) == Cardinality(UNION {{row} \X (1 .. bag[row]) : row \in DOMAIN bag})

-----------------------------------------------------------------------------
\* The storage operations of the two organisations.
InsertWrites(row) ==
  IF kind = "heap" THEN HeapWrites(file, row) ELSE SequentialWrites(file, row)
InsertRid(row) ==
  IF kind = "heap" THEN HeapRid(file, row) ELSE SequentialRid(file, row)

Associations(f) == {<<Key(RowAt(f, rid)), rid>> : rid \in RidsOf(f)}

\* A storage call ends well, or raises before its first write, or fails in one
\* of them and the handle is closed.
StorageDone(writes, rows) ==
  /\ file' = WriteAll(file, writes)
  /\ settled' = rows
  /\ intended' = rows
  /\ UNCHANGED open
StorageFails(writes, rows) ==
  /\ \/ UNCHANGED <<file, open, intended>>
     \/ /\ file' \in FailedWrites(file, writes)
        /\ open' = FALSE
        /\ intended' = rows
  /\ UNCHANGED settled
StorageUnchanged == UNCHANGED <<file, open, settled, intended>>

-----------------------------------------------------------------------------
\* The index operations, as the sets of states they may end in.  The adapters
\* over a heap ask the heap first; the clustered one does not.
Reaches(index) == index.open /\ (kind = "heap" => open)
End(index, failed) == [index |-> index, failed |-> failed]
Close(index) == [index EXCEPT !.open = FALSE]

\* A single association: written; or refused; or torn, and the handle closed.
Associated(index, entries) ==
  {End([index EXCEPT !.associations = entries], FALSE), End(index, TRUE),
   End(Close([index EXCEPT !.associations = Unknown]), TRUE)}

\* mark_incomplete writes the header and synchronises it.
Marked(index) ==
  IF ~Reaches(index) THEN {End(index, TRUE)}
  ELSE LET marked == [index EXCEPT !.complete = FALSE]
       IN {End(marked, FALSE), End(marked, TRUE), End(Close(index), TRUE)}

\* rebuild writes a candidate from the rows and then replaces the file.
Rebuilt(index) ==
  IF ~(Reaches(index) /\ open) THEN {End(index, TRUE)}
  ELSE LET fresh == [associations |-> Associations(file), complete |-> TRUE, open |-> TRUE]
       IN {End(fresh, FALSE), End(index, TRUE), End(Close(fresh), TRUE)}

\* Fault: an index is rebuilt without its marker.
RebuiltUnmarked(index) == Rebuilt(index)

\* Repair marks the index, rebuilds it, and marks it again when that failed.
Repaired(index) ==
  UNION {UNION {IF ~r.failed THEN {r} ELSE {End(m.index, TRUE) : m \in Marked(r.index)}
                : r \in Rebuilt(first.index)}
         : first \in Marked(index)}

\* One operation on each index; every combination of their ends.
Ends(op(_)) ==
  {f \in [DOMAIN indexes -> UNION {op(indexes[n]) : n \in DOMAIN indexes}] :
     \A n \in DOMAIN indexes : f[n] \in op(indexes[n])}
IndexesOf(ends) == [n \in DOMAIN ends |-> ends[n].index]
FailedIn(ends) == {n \in DOMAIN ends : ends[n].failed}

-----------------------------------------------------------------------------
\* Statements.
Order == IF kind = "heap" THEN <<"hash", "bplus">> ELSE <<"clustered">>
NoStatement == [step |-> "idle", op |-> "none", verdict |-> "none", completed |-> 0,
                unavailable |-> {}, row |-> Free, rid |-> <<>>, targets |-> <<>>,
                todo |-> <<>>]

Becomes(step) == statement' = [statement EXCEPT !.step = step]

\* Return to the caller.
Returns(verdict, completed, unavailable) ==
  statement' = [NoStatement EXCEPT !.op = statement.op, !.row = statement.row,
                  !.verdict = verdict, !.completed = completed,
                  !.unavailable = unavailable]

\* A statement is planned only over a table whose every index is usable.
Available == open /\ \A n \in DOMAIN indexes : indexes[n].open /\ indexes[n].complete

Begin ==
  /\ Idle
  /\ Available
  /\ calls < MaxCalls
  /\ calls' = calls + 1
  /\ before' = settled
  /\ UNCHANGED <<kind, unique, indexes>> /\ StorageUnchanged
Within == UNCHANGED <<kind, unique, before, calls>>

\* The exact searches that look for an equal key before anything changes.
IsDuplicate(key) ==
  /\ unique
  /\ IF kind = "heap" THEN \E a \in indexes["hash"].associations : a[1] = key
     ELSE SearchKey(file, key) # <<>>

BeginInsert(row) ==
  /\ Begin
  /\ statement' = [NoStatement EXCEPT
       !.op = "INSERT", !.row = row,
       !.step = IF IsDuplicate(Key(row)) THEN "idle"
                ELSE IF kind = "heap" THEN "store" ELSE "mark",
       !.verdict = IF IsDuplicate(Key(row)) THEN "refused" ELSE "none"]

\* Row identifiers are about to move.
MarkBeforeMove ==
  /\ statement.step = "mark"
  /\ \E ends \in Ends(Marked) :
       /\ indexes' = IndexesOf(ends)
       /\ Becomes(IF FailedIn(ends) # {} THEN "repair" ELSE "store")
  /\ Within /\ StorageUnchanged

Store ==
  LET row == statement.row
      rows == settled (+) SetToBag({row})
  IN /\ statement.step = "store"
     /\ \/ /\ StorageDone(InsertWrites(row), rows)
           /\ statement' = [statement EXCEPT
                !.rid = InsertRid(row), !.todo = Order,
                !.step = IF kind = "heap" THEN "index" ELSE "rebuild"]
        \/ StorageFails(InsertWrites(row), rows) /\ Becomes("repair")
     /\ UNCHANGED indexes /\ Within

\* The next association of the row, in the order of the indexes.
IndexRow ==
  /\ statement.step = "index"
  /\ LET n == Head(statement.todo)
         entry == <<Key(statement.row), statement.rid>>
     IN \E end \in Associated(indexes[n], indexes[n].associations \cup {entry}) :
          /\ indexes' = [indexes EXCEPT ![n] = end.index]
          /\ statement' = [statement EXCEPT
               !.todo = Tail(@),
               !.step = IF end.failed THEN "compensate"
                        ELSE IF Len(statement.todo) > 1 THEN "index" ELSE "flush"]
  /\ Within /\ StorageUnchanged

RebuildAfterMove ==
  /\ statement.step = "rebuild"
  /\ \E ends \in Ends(Repaired) :
       /\ indexes' = IndexesOf(ends)
       /\ Becomes(IF FailedIn(ends) # {} THEN "compensate" ELSE "flush")
  /\ Within /\ StorageUnchanged

\* An insertion that failed after the row was stored takes the row out again.
Compensate ==
  LET writes == DeleteWrites(file, statement.rid)
      rows == settled (-) SetToBag({statement.row})
  IN /\ statement.step = "compensate"
     /\ StorageDone(writes, rows) \/ StorageFails(writes, rows)
     /\ Becomes("repair")
     /\ UNCHANGED indexes /\ Within

-----------------------------------------------------------------------------
\* DELETE discovers its targets, spools them, and only then starts.
BeginDelete(keys) ==
  /\ Begin
  /\ statement' = [NoStatement EXCEPT
       !.op = "DELETE", !.step = "target",
       !.targets = SelectSeq(Scan(file), LAMBDA e : Key(e[2]) \in keys)]

\* The row at the identifier must still be the one that was spooled.
NextTarget ==
  /\ statement.step = "target"
  /\ \/ /\ statement.targets = <<>>
        /\ Becomes("flush")
     \/ /\ statement.targets # <<>>
        /\ IF IsRow(file, Head(statement.targets)[1])
              /\ RowAt(file, Head(statement.targets)[1]) = Head(statement.targets)[2]
           THEN statement' = [statement EXCEPT !.step = "unindex", !.todo = Order]
           ELSE Becomes("repair")
     \/ Becomes("repair")    \* the spool cannot be read
  /\ UNCHANGED indexes /\ Within /\ StorageUnchanged

UnindexRow ==
  /\ statement.step = "unindex"
  /\ LET n == Head(statement.todo)
         rid == Head(statement.targets)[1]
         row == Head(statement.targets)[2]
     IN \E end \in Associated(indexes[n], indexes[n].associations \ {<<Key(row), rid>>}) :
          /\ indexes' = [indexes EXCEPT ![n] = end.index]
          /\ statement' = [statement EXCEPT
               !.todo = Tail(@),
               !.step = IF end.failed THEN "repair"
                        ELSE IF Len(statement.todo) > 1 THEN "unindex" ELSE "unstore"]
  /\ Within /\ StorageUnchanged

Unstore ==
  LET target == Head(statement.targets)
      writes == DeleteWrites(file, target[1])
      rows == settled (-) SetToBag({target[2]})
  IN /\ statement.step = "unstore"
     /\ \/ /\ StorageDone(writes, rows)
           /\ statement' = [statement EXCEPT !.step = "target",
                              !.targets = Tail(@), !.completed = @ + 1]
        \/ StorageFails(writes, rows) /\ Becomes("repair")
     /\ UNCHANGED indexes /\ Within

-----------------------------------------------------------------------------
\* The last step before success synchronises the files.
Flush ==
  /\ statement.step = "flush"
  /\ \/ Returns("success", IF statement.op = "INSERT" THEN 1 ELSE statement.completed, {})
     \/ Becomes(IF statement.op = "INSERT" THEN "compensate" ELSE "invalidate")
  /\ UNCHANGED indexes /\ Within /\ StorageUnchanged

\* A DELETE that cannot be flushed withdraws its indexes.
Invalidate ==
  /\ statement.step = "invalidate"
  /\ \E ends \in Ends(Marked) : indexes' = IndexesOf(ends)
  /\ Returns("failed", statement.completed, DOMAIN indexes)
  /\ Within /\ StorageUnchanged

\* Fault: a failed INSERT always counts no row.
CompletedByDelete == IF statement.op = "DELETE" THEN statement.completed ELSE 0

\* What the report of a failed INSERT counts is read from the storage: with
\* its handle closed the count itself raises.
CompletedRows ==
  IF statement.op = "DELETE" THEN statement.completed
  ELSE Max({0, RowCount(settled) - RowCount(before)})

Repair ==
  /\ statement.step = "repair"
  /\ \E ends \in Ends(Repaired) :
       /\ indexes' = IndexesOf(ends)
       /\ IF statement.op = "INSERT" /\ ~open
          THEN Returns("unreported", 0, {})
          ELSE Returns("failed", CompletedRows, FailedIn(ends))
  /\ Within /\ StorageUnchanged

-----------------------------------------------------------------------------
\* Compaction of an ordered table with its index
\* (indexes/clustered_bplus.py, reorganize).
BeginReorganize ==
  /\ kind = "ordered"
  /\ Begin
  /\ statement' = [NoStatement EXCEPT !.op = "REORGANIZE", !.step = "reorg_mark"]

ReorganizeMark ==
  /\ statement.step = "reorg_mark"
  /\ \E ends \in Ends(Marked) :
       /\ indexes' = IndexesOf(ends)
       /\ IF FailedIn(ends) # {} THEN Returns("failed", 0, DOMAIN indexes)
          ELSE Becomes("reorg_store")
  /\ Within /\ StorageUnchanged

\* The compact file replaces this one, or this one stays; the handle is lost
\* when neither can be opened again.
ReorganizeStore ==
  /\ statement.step = "reorg_store"
  /\ \/ /\ file' = Compacted(file)
        /\ UNCHANGED open
        /\ Becomes("reorg_rebuild")
     \/ /\ \/ UNCHANGED <<file, open>>
           \/ file' \in {file, Compacted(file)} /\ open' = FALSE
        /\ Returns("failed", 0, DOMAIN indexes)
  /\ UNCHANGED <<settled, intended, indexes>> /\ Within

ReorganizeRebuild ==
  /\ statement.step = "reorg_rebuild"
  /\ \E ends \in Ends(Rebuilt) :
       /\ indexes' = IndexesOf(ends)
       /\ IF FailedIn(ends) # {} THEN Returns("failed", 0, DOMAIN indexes)
          ELSE Returns("success", 0, {})
  /\ Within /\ StorageUnchanged

-----------------------------------------------------------------------------
\* The table a sequence of rows makes.
InsertInto(k, f, row) ==
  WriteAll(f, IF k = "heap" THEN HeapWrites(f, row) ELSE SequentialWrites(f, row))

Loaded(k, load) ==
  LET after[n \in 0 .. Len(load)] ==
        IF n = 0 THEN NewFile ELSE InsertInto(k, after[n - 1], load[n])
  IN after[Len(load)]

Init ==
  /\ kind \in {"heap", "ordered"}
  /\ unique \in BOOLEAN
  /\ \E load \in Loads :
       /\ unique => Cardinality({Key(load[i]) : i \in DOMAIN load}) = Len(load)
       /\ file = Loaded(kind, load)
  /\ open = TRUE
  /\ indexes = [n \in Names(kind) |->
                  [associations |-> Associations(file), complete |-> TRUE, open |-> TRUE]]
  /\ statement = NoStatement
  /\ before = Contents(file) /\ settled = before /\ intended = before
  /\ calls = 0

Next ==
  \/ \E row \in Rows : BeginInsert(row)
  \/ \E keys \in KeySets : BeginDelete(keys)
  \/ BeginReorganize
  \/ MarkBeforeMove \/ Store \/ IndexRow \/ RebuildAfterMove \/ Compensate
  \/ NextTarget \/ UnindexRow \/ Unstore
  \/ Flush \/ Invalidate \/ Repair
  \/ ReorganizeMark \/ ReorganizeStore \/ ReorganizeRebuild

Spec == Init /\ [][Next]_vars

-----------------------------------------------------------------------------
\* An index that a statement can use names only rows of the table that have
\* its key, also between the steps of a statement, and all of them once the
\* statement is over (only a repair in progress starts from less).
Usable(n) == open /\ indexes[n].open /\ indexes[n].complete
IndexesAgree ==
  \A n \in DOMAIN indexes : Usable(n) =>
    /\ statement.step # "repair" => indexes[n].associations \subseteq Associations(file)
    /\ Idle => indexes[n].associations = Associations(file)

\* Whatever write failed, and wherever: a storage file that opens shows the
\* rows from before the call or those the call aimed at, never a mixture; an
\* open handle shows the rows of the calls that ended well.
FailsClosed ==
  /\ Opens(file) => Contents(file) \in {settled, intended}
  /\ open => Opens(file) /\ Contents(file) = settled

\* In an ordered table the binary search over the pages, some of them without
\* rows, finds the rows that a scan finds, equal keys stay refused when they
\* must be unique, and the order of the rows survives splits and compaction.
KeysOf(es) == {Key(es[i][2]) : i \in DOMAIN es}
OrderedSearchesAreComplete ==
  kind = "ordered" /\ open =>
    LET scan == Scan(file)
    IN  /\ IsOrdered(file)
        /\ \A key \in {Key(r) : r \in Rows} :
             /\ SearchKey(file, key) =
                  EntriesAt(scan, {i \in DOMAIN scan : Key(scan[i][2]) = key})
             /\ HasKey(file, key) <=> key \in KeysOf(scan)
        /\ unique => Cardinality(KeysOf(scan)) = ActiveRows(file)

\* The report of a statement is true: a success did all of its work and left
\* every index usable; a failure counts the rows that did change and names
\* every index that cannot be used.
ReportsAreTrue ==
  Idle /\ open =>
    /\ statement.verdict \in {"success", "failed"} =>
         statement.completed = (IF statement.op = "INSERT"
                                THEN RowCount(settled) - RowCount(before)
                                ELSE RowCount(before) - RowCount(settled))
    /\ statement.verdict = "refused" => settled = before
    /\ statement.verdict = "success" /\ statement.op = "INSERT" =>
         settled = before (+) SetToBag({statement.row})
    /\ \A n \in DOMAIN indexes : ~Usable(n) => n \in statement.unavailable

\* What opening an index file checks: its marker, and for the hash index alone
\* that it has the associations of the heap.
Reopens(n) ==
  /\ indexes[n].complete
  /\ indexes[n].associations # Unknown
  /\ n = "hash" => indexes[n].associations = Associations(file)

\* After a repair that could not finish, live and reopened access reject the
\* index (docs/sql-grammar.md): no index whose own file took every write can
\* be opened beside its table and answer with other rows.
UnrepairedIsRejected ==
  Idle /\ Opens(file) =>
    \A n \in statement.unavailable :
      indexes[n].open /\ Reopens(n) => indexes[n].associations = Associations(file)
=============================================================================
