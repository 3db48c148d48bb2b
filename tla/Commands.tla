------------------------------ MODULE Commands ------------------------------
(***************************************************************************)
(* What an engine executes besides SELECT (query/executor.py,              *)
(* _execute_local): INSERT and DELETE, prepared over the storage and the   *)
(* indexes of their table and executed later, any number of times; EXPLAIN *)
(* ANALYZE; and the CREATE and DROP INDEX that come between.               *)
(*                                                                         *)
(* The maintenance of the rows and of their indexes is whole here, or      *)
(* refused; module Maintenance has its steps and its failures.             *)
(***************************************************************************)
EXTENDS Queries

CONSTANTS Satisfies(_, _),   \* a predicate of a row (module Joins)
          MaxRows            \* bound: rows of the table that commands change

VARIABLES command,    \* PreparedQuery of the command: what it is bound to
          report      \* how the last command ended, the rows it counts, and the
                      \*   tables it was executed over

commandVars == <<command, report>>

NotBound == [storage |-> 0]
NoReport == [kind |-> "none", end |-> "none", rows |-> 0, over |-> <<>>]

Table   == query.command.table
Content == query.tables[Table]

Init == QueriesInit /\ command = NotBound /\ report = NoReport

-----------------------------------------------------------------------------
(* Binding *)

Defined == {i \in environment.defined : i.table = Table}

\* A unique index that is bound finds the key of the row.
Duplicate(indexes) ==
  \E i \in indexes : i.unique /\ \E row \in query.holds[i] :
    row[i.column] = query.command.row[i.column]

\* require_indexes_for, unlike registered_indexes_for: a table whose indexes
\* are not all there takes no command.
Binds ==
  /\ HasStorage(Table)
  /\ \A i \in Defined : environment.index[i] # 0 /\ HasIndex(i)
  /\ query.command.kind = "insert" => ~ Duplicate(Defined)

\* bind_insert and bind_delete.
PrepareCommand ==
  /\ query.command.kind # "none"
  /\ Idle /\ Binds
  /\ command' = [storage |-> environment.storage[Table],
                 indexes |-> [i \in Defined |-> environment.index[i]]]
  /\ command' # command
  /\ UNCHANGED <<vars, report>>

\* Fault: an index that is defined since the command was bound is not noticed.
StaleBindings ==
  \/ environment.storage[Table] # command.storage
  \/ \E i \in DOMAIN command.indexes : ~ HasIndex(i) \/ environment.index[i] # command.indexes[i]

\* _validate_mutation_snapshot: the storage, the definitions and every index
\* are those the command is bound to.
StaleCommand ==
  \/ environment.storage[Table] # command.storage
  \/ Defined # DOMAIN command.indexes
  \/ \E i \in Defined : ~ HasIndex(i) \/ environment.index[i] # command.indexes[i]

-----------------------------------------------------------------------------
(* Execution *)

\* _require_idle
NothingLive == Idle /\ \A r \in Results : active = r => state[r] \in Terminal

\* The rows of the table and of the indexes the command is bound to.
Changed(rowsOf, holdsOf(_)) ==
  query' = [query EXCEPT !.tables[Table] = rowsOf,
                         !.holds = [i \in DOMAIN @ |->
                           IF i \in DOMAIN command.indexes THEN holdsOf(@[i]) ELSE @[i]]]

Reports(kind, end, n) ==
  report' = [kind |-> kind, end |-> end, rows |-> n, over |-> query.tables]

\* The storage puts the row where it has room.
InsertRow ==
  LET row == query.command.row
  IN  /\ query.command.kind = "insert"
      /\ IF Duplicate(DOMAIN command.indexes)
         THEN Reports("insert", "duplicate", 0) /\ UNCHANGED query
         ELSE /\ Len(Content) < MaxRows
              /\ \E p \in 1 .. Len(Content) + 1 :
                   Changed(InsertAt(Content, p, row), LAMBDA held : held \union {row})
              /\ Reports("insert", "done", 1)

\* The targets come from a scan of the table, never from an index; all of them
\* are spooled, the command is checked again, and then they are deleted.
DeleteRows ==
  LET Target(row) == Satisfies(query.command.where, row)
      kept        == SelectSeq(Content, LAMBDA row : ~ Target(row))
  IN  /\ query.command.kind = "delete"
      /\ Changed(kept, LAMBDA held : {row \in held : ~ Target(row)})
      /\ Reports("delete", "done", Len(Content) - Len(kept))

Refuse == Reports(query.command.kind, "stale", 0) /\ UNCHANGED query

ExecuteCommand ==
  /\ NothingLive /\ command # NotBound
  /\ IF StaleCommand THEN Refuse ELSE InsertRow \/ DeleteRows
  /\ UNCHANGED <<environment, prepared, seen, state, rows, error, active, call, answer,
                 workspace, command>>

\* _execute_explanation: the plan is executed to its end, and its rows counted.
ExplainAnalyze ==
  LET Counted(stream) ==
        Reports("explain", IF stream.end = "ok" THEN "done" ELSE stream.end,
                Len(stream.rows))
  IN  /\ query.command.kind # "none" /\ NothingLive
      /\ IF Stale THEN Reports("explain", "stale", 0)
         ELSE IF ~ FitsGrants(Plan) THEN Reports("explain", "refused", 0)
         ELSE Counted(Delivered(Plan))
      /\ UNCHANGED <<vars, command>>

-----------------------------------------------------------------------------
(* Index definitions: under the exclusive schema lock, like MayChange.  Bound:
   an index is created or dropped once. *)

MayDefine == query.later # {} /\ Idle /\ \A r \in Results : state[r] # "OPEN"

Defines(i, e, held) ==
  /\ environment' = e
  /\ query' = [query EXCEPT !.holds[i] = held]
  /\ UNCHANGED <<prepared, seen, state, rows, error, active, call, answer, workspace,
                 commandVars>>

\* create_sql_index builds the index from the rows that are there.
CreateIndex(i) ==
  /\ MayDefine /\ i \in query.later \ environment.defined /\ HasStorage(i.table)
  /\ Defines(i, [environment EXCEPT !.defined = @ \union {i},
                                    !.index[i] = environment.storage[i.table]],
             ToSet(query.tables[i.table]))

\* drop_sql_index
DropIndex(i) ==
  /\ MayDefine /\ i \in environment.defined \ query.later /\ environment.index[i] # 0
  /\ Defines(i, [environment EXCEPT !.defined = @ \ {i}, !.index[i] = 0], query.holds[i])

Next ==
  \/ QueriesNext /\ UNCHANGED commandVars
  \/ PrepareCommand \/ ExecuteCommand \/ ExplainAnalyze
  \/ \E i \in query.indexes : CreateIndex(i) \/ DropIndex(i)

Spec == Init /\ [][Next]_<<vars, commandVars>>

=============================================================================
