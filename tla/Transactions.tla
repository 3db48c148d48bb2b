----------------------------- MODULE Transactions -----------------------------
(***************************************************************************)
(* Sessions, their statements and the completion of their transactions:    *)
(* engine/transactions/session.py, completion.py and manager.py on top of  *)
(* the lock domain of LockManager.                                         *)
(*                                                                         *)
(* A session serves one call at a time (_call); step says where the call   *)
(* is, from one lock request, file operation or state change to the next.  *)
(* Only cancel comes from other threads.  The contents of a table are the  *)
(* set of transactions whose writes it contains.                           *)
(***************************************************************************)
EXTENDS Naturals, FiniteSets, Sequences

CONSTANTS Sessions, Txns, Tables, Schema, NoRequest,
          NoTxn,      \* the session has no transaction
          NoTable,    \* the session has no open SELECT result
          NotRead     \* the transaction has not looked at the table

ASSUME NoTxnAssumption   == NoTxn \notin Txns
ASSUME NoTableAssumption == NoTable \notin Tables

VARIABLES
    registered, retired, failed, held, waiting, earlier, blocked, unavailable,
    state,        \* Transaction.state, or "unborn"
    touched,      \* Transaction.touched_tables
    images,       \* UndoStore.images: before-images, in first-write order
    txn,          \* SqlSession._transaction_id
    explicit,     \* SqlSession._transaction_explicit
    cancelled,    \* SqlSession._cancel_requested
    cursor,       \* the table an open SELECT result reads (_active_result)
    step,         \* where the session's call is
    stmt,         \* the statement the call executes
    left,         \* images the running commit or abort has still to visit
    cancelling,   \* calls of cancel between setting the flag and locks.cancel
    contents,     \* the writes each table contains
    dirty,        \* tables written since their last flush
    open,         \* tables registered in the query environment
    seen          \* history: what a transaction found in a table, less its
                  \*   own writes, when it last looked; forgotten at its end

Locks == INSTANCE LockManager

ASSUME SchemaAssumption    == Schema \notin Tables
ASSUME NoRequestAssumption == NoRequest \notin Locks!Requests

lockVars == <<registered, retired, failed, held, waiting, earlier, blocked,
              unavailable>>
txnVars  == <<state, touched, images>>
callVars == <<txn, explicit, cancelled, cursor, step, stmt, left>>
dataVars == <<contents, dirty, open, seen>>
vars     == <<lockVars, txnVars, callVars, dataVars, cancelling>>

States == {"unborn", "ACTIVE", "COMMITTING", "COMMITTED", "ABORTING", "ABORTED",
           "ABORT_FAILED"}
Data       == [kind : {"SELECT", "WRITE"}, table : Tables]
Control    == [kind : {"BEGIN", "END", "ROLLBACK"}]
Statements == Data \union Control
Closing    == [kind |-> "CLOSE"]
NoCall     == [kind |-> "NONE"]
Executing  == {"entered", "schema", "table", "granted", "prepared"}
Steps == Executing \union
         {"idle", "begun", "executed", "committing", "restoring", "quarantining",
          "releasing", "discarding", "closed"}

Init ==
    /\ Locks!Init
    /\ state = [t \in Txns |-> "unborn"]
    /\ touched = [t \in Txns |-> {}]
    /\ images = [t \in Txns |-> <<>>]
    /\ txn = [s \in Sessions |-> NoTxn]
    /\ explicit = [s \in Sessions |-> FALSE]
    /\ cancelled = [s \in Sessions |-> FALSE]
    /\ cursor = [s \in Sessions |-> NoTable]
    /\ step = [s \in Sessions |-> "idle"]
    /\ stmt = [s \in Sessions |-> NoCall]
    /\ left = [s \in Sessions |-> 0]
    /\ cancelling = {}
    /\ contents = [r \in Tables |-> {}]
    /\ dirty = {}
    /\ open = Tables
    /\ seen = [t \in Txns |-> [r \in Tables |-> NotRead]]

-----------------------------------------------------------------------------
\* The statement is forgotten with the last step that looks at it.
Goto(s, p) ==
    /\ step' = [step EXCEPT ![s] = p]
    /\ stmt' = [stmt EXCEPT ![s] =
                  IF p \in Executing \/ @ = Closing THEN @ ELSE NoCall]
Return(s) == Goto(s, IF stmt[s] = Closing THEN "closed" ELSE "idle")
At(s, p)  == step[s] = p

\* Nothing of the sessions changes but where the call is.
OnlyStep == UNCHANGED <<txn, explicit, cancelled, cursor, left, cancelling>>

\* CompletionService.commit and abort up to their first image.
Ending(s, st, p) ==
    /\ state' = [state EXCEPT ![txn[s]] = st]
    /\ left' = [left EXCEPT ![s] = Len(images[txn[s]])]
    /\ step' = [step EXCEPT ![s] = p]
Forgotten(s) == stmt' = [stmt EXCEPT ![s] = IF @ = Closing THEN @ ELSE NoCall]

\* Fault: commit does not visit the images.
StartCommitUnflushed(s) ==
    /\ state' = [state EXCEPT ![txn[s]] = "COMMITTING"]
    /\ step' = [step EXCEPT ![s] = "committing"]
    /\ Forgotten(s)
    /\ UNCHANGED left

StartCommit(s) == Ending(s, "COMMITTING", "committing") /\ Forgotten(s)
StartAbort(s)  == Ending(s, "ABORTING", "restoring") /\ Forgotten(s)

\* A statement fails: its whole transaction is aborted.
Fail(s) ==
    /\ StartAbort(s)
    /\ UNCHANGED <<touched, images, txn, explicit, cancelled, cursor, cancelling>>

\* _clear_transaction, and the call returns.
Clear(s) ==
    /\ txn' = [txn EXCEPT ![s] = NoTxn]
    /\ explicit' = [explicit EXCEPT ![s] = FALSE]
    /\ cancelled' = [cancelled EXCEPT ![s] = FALSE]
    /\ left' = [left EXCEPT ![s] = 0]
    /\ Return(s)

(***************************************************************************)
(* Entering a call.  A statement that the state of the session refuses     *)
(* raises a protocol error and changes nothing, so it is not entered here. *)
(***************************************************************************)
Accepted(s, q) ==
    CASE q.kind = "BEGIN"       -> txn[s] = NoTxn /\ cursor[s] = NoTable
      [] q.kind = "END"         -> txn[s] # NoTxn /\ explicit[s] /\ cursor[s] = NoTable
      [] q.kind = "ROLLBACK"    -> txn[s] # NoTxn /\ explicit[s]
      [] OTHER                  -> cursor[s] = NoTable

\* Bound: no call is entered that could find no transaction identity left.
TxnsLeft ==
    Cardinality({u \in Sessions : At(u, "entered") /\ txn[u] = NoTxn})
        < Cardinality({t \in Txns : state[t] = "unborn"})

\* _enter_call with new work: a flag left by an earlier cancel is cleared,
\* unless it belongs to the open transaction.
Enter(s, q) ==
    /\ At(s, "idle")
    /\ Accepted(s, q)
    /\ txn[s] = NoTxn => TxnsLeft
    /\ cancelled' = [cancelled EXCEPT ![s] = @ /\ txn[s] # NoTxn]
    /\ stmt' = [stmt EXCEPT ![s] = q]
    /\ step' = [step EXCEPT ![s] = "entered"]
    /\ UNCHANGED <<lockVars, txnVars, dataVars, cancelling,
                   txn, explicit, cursor, left>>

\* _begin: TransactionManager.begin, then LockManager.register.
Begin(s, t) ==
    /\ At(s, "entered")
    /\ txn[s] = NoTxn
    /\ state[t] = "unborn"
    /\ Locks!Register(t)
    /\ state' = [state EXCEPT ![t] = "ACTIVE"]
    /\ txn' = [txn EXCEPT ![s] = t]
    /\ explicit' = [explicit EXCEPT ![s] = stmt[s].kind = "BEGIN"]
    /\ Goto(s, IF stmt[s].kind = "BEGIN" THEN "begun" ELSE "schema")
    /\ UNCHANGED <<dataVars, touched, images, cancelled, cursor, left, cancelling>>

\* _begin in a quarantined domain: register raises, abort_empty, the call ends.
BeginRefused(s, t) ==
    /\ At(s, "entered")
    /\ txn[s] = NoTxn
    /\ state[t] = "unborn"
    /\ unavailable
    /\ state' = [state EXCEPT ![t] = "ABORTED"]
    /\ Goto(s, "idle")
    /\ UNCHANGED <<lockVars, dataVars, touched, images>> /\ OnlyStep

\* execute(BEGIN) looks at the flag once more before it returns.
Begun(s) ==
    /\ At(s, "begun")
    /\ \/ cancelled[s] /\ Fail(s)
       \/ ~cancelled[s] /\ Goto(s, "idle") /\ OnlyStep /\ UNCHANGED txnVars
    /\ UNCHANGED <<lockVars, dataVars>>

\* A statement of an open group starts with its locks; it may instead fail
\* before them (a parse error, an unknown table, CREATE inside a group), which
\* aborts the group.
Continue(s) ==
    /\ At(s, "entered")
    /\ txn[s] # NoTxn
    /\ stmt[s] \in Data
    /\ \/ Goto(s, "schema") /\ OnlyStep /\ UNCHANGED txnVars
       \/ Fail(s)
    /\ UNCHANGED <<lockVars, dataVars>>

-----------------------------------------------------------------------------
(***************************************************************************)
(* acquire_plan: the schema shared, then the table.                        *)
(***************************************************************************)
WantedRes(s)  == IF At(s, "schema") THEN Schema ELSE stmt[s].table
\* Fault: a write plans a shared lock.
WantedModeShared(s) == "S"

WantedMode(s) ==
    IF At(s, "table") /\ stmt[s].kind = "WRITE" THEN "X" ELSE "S"
Locking(s)   == step[s] \in {"schema", "table"}
Locked(s)    == Goto(s, IF At(s, "schema") THEN "table" ELSE "granted")

LockRetained(s) ==
    /\ Locking(s)
    /\ txn[s] \notin blocked
    /\ Locks!StillActive(txn[s])
    /\ held[txn[s]][WantedRes(s)] \in {"X", WantedMode(s)}
    /\ Locked(s)
    /\ UNCHANGED <<lockVars, txnVars, dataVars>> /\ OnlyStep

LockGranted(s) ==
    /\ Locking(s)
    /\ \/ Locks!AcquireGranted(txn[s], WantedRes(s), WantedMode(s))
       \/ Locks!ReturnGranted(txn[s])
    /\ Locked(s)
    /\ UNCHANGED <<txnVars, dataVars>> /\ OnlyStep

LockWaits(s) ==
    /\ Locking(s)
    /\ Locks!AcquireWait(txn[s], WantedRes(s), WantedMode(s))
    /\ UNCHANGED <<txnVars, dataVars, step, stmt>> /\ OnlyStep

\* Fault: a lock wait has no deadline.
LockFailsNoDeadline(s) ==
    /\ Locking(s)
    /\ \/ Locks!AcquireDeadlock(txn[s], WantedRes(s), WantedMode(s))
       \/ Locks!ReturnFailed(txn[s])
       \/ txn[s] \notin blocked /\ ~Locks!StillActive(txn[s]) /\ UNCHANGED lockVars
    /\ Fail(s)
    /\ UNCHANGED dataVars

\* Victim, deadline, cancelled or quarantined: the statement aborts its group.
LockFails(s) ==
    /\ Locking(s)
    /\ \/ Locks!AcquireDeadlock(txn[s], WantedRes(s), WantedMode(s))
       \/ Locks!Timeout(txn[s])
       \/ Locks!ReturnFailed(txn[s])
       \/ txn[s] \notin blocked /\ ~Locks!StillActive(txn[s]) /\ UNCHANGED lockVars
    /\ Fail(s)
    /\ UNCHANGED dataVars

-----------------------------------------------------------------------------
(***************************************************************************)
(* Running the statement under its locks                                   *)
(***************************************************************************)
Table(s) == stmt[s].table
Look(t, r) == seen' = [seen EXCEPT ![t][r] = contents[r] \ {t}]

\* The flag is looked at after the locks; then a SELECT builds its result and
\* a write makes sure of its before-image: prepare_write asks for the locks
\* again, flushes the table and captures it on first touch.
Prepare(s) ==
    /\ At(s, "granted")
    /\ ~cancelled[s]
    /\ IF stmt[s].kind = "SELECT"
       THEN UNCHANGED <<touched, images, dirty>>
       ELSE /\ Locks!StillActive(txn[s])
            /\ IF Table(s) \in touched[txn[s]]
               THEN UNCHANGED <<touched, images, dirty>>
               ELSE /\ dirty' = dirty \ {Table(s)}
                    /\ images' = [images EXCEPT ![txn[s]] =
                          Append(@, [table |-> Table(s), before |-> contents[Table(s)]])]
                    /\ touched' = [touched EXCEPT ![txn[s]] = @ \union {Table(s)}]
    /\ Goto(s, "prepared")
    /\ UNCHANGED <<lockVars, state, contents, open, seen>> /\ OnlyStep

\* Cancelled, no longer active, sealed table, image quota: nothing is written.
PrepareFails(s) ==
    /\ At(s, "granted")
    /\ Fail(s)
    /\ UNCHANGED <<lockVars, dataVars>>

\* An INSERT or DELETE reads the table (keys, predicate) and changes it.
Write(s) ==
    /\ At(s, "prepared")
    /\ stmt[s].kind = "WRITE"
    /\ contents' = [contents EXCEPT ![Table(s)] = @ \union {txn[s]}]
    /\ dirty' = dirty \union {Table(s)}
    /\ Look(txn[s], Table(s))
    /\ Goto(s, "executed")
    /\ UNCHANGED <<lockVars, txnVars, open>> /\ OnlyStep

\* The write fails, or sees the flag, half-way: its first rows are there.
WriteFails(s) ==
    /\ At(s, "prepared")
    /\ stmt[s].kind = "WRITE"
    /\ contents' = [contents EXCEPT ![Table(s)] = @ \union {txn[s]}]
    /\ dirty' = dirty \union {Table(s)}
    /\ Fail(s)
    /\ UNCHANGED <<lockVars, open, seen>>

\* A SELECT returns an unopened result; the group or the implicit transaction
\* goes on until the result ends.
Select(s) ==
    /\ At(s, "prepared")
    /\ stmt[s].kind = "SELECT"
    /\ \/ cancelled[s] /\ Fail(s)
       \/ /\ ~cancelled[s]
          /\ Goto(s, "idle")
          /\ cursor' = [cursor EXCEPT ![s] = Table(s)]
          /\ UNCHANGED <<txnVars, txn, explicit, cancelled, left, cancelling>>
    /\ UNCHANGED <<lockVars, dataVars>>

\* After a write: cancelled at the last safe point, committed if implicit, or
\* left provisional in its group.
Executed(s) ==
    /\ At(s, "executed")
    /\ \/ cancelled[s] /\ StartAbort(s)
       \/ ~cancelled[s] /\ explicit[s] /\ Goto(s, "idle") /\ UNCHANGED <<state, left>>
       \/ ~cancelled[s] /\ ~explicit[s] /\ StartCommit(s)
    /\ UNCHANGED <<lockVars, touched, images, dataVars, txn, explicit, cancelled,
                   cursor, cancelling>>

-----------------------------------------------------------------------------
(***************************************************************************)
(* The calls of an open SELECT result, each under the session's guard      *)
(***************************************************************************)
Fetch(s) ==
    /\ At(s, "idle")
    /\ cursor[s] # NoTable
    /\ ~cancelled[s]
    /\ Look(txn[s], cursor[s])
    /\ UNCHANGED <<lockVars, txnVars, callVars, contents, dirty, open, cancelling>>

\* The result ends: exhausted, closed, failed or cancelled (_finish_cursor).
FinishCursor(s) ==
    /\ At(s, "idle")
    /\ cursor[s] # NoTable
    /\ cursor' = [cursor EXCEPT ![s] = NoTable]
    /\ \/ StartAbort(s)
       \/ ~cancelled[s] /\ explicit[s] /\ UNCHANGED <<state, left, step, stmt>>
       \/ ~cancelled[s] /\ ~explicit[s] /\ StartCommit(s)
    /\ UNCHANGED <<lockVars, touched, images, dataVars, txn, explicit, cancelled,
                   cancelling>>

-----------------------------------------------------------------------------
(***************************************************************************)
(* Completion                                                              *)
(***************************************************************************)
\* END: CompletionService.commit, unless the flag is set.
End(s) ==
    /\ At(s, "entered")
    /\ stmt[s].kind = "END"
    /\ IF cancelled[s] THEN StartAbort(s) ELSE StartCommit(s)
    /\ UNCHANGED <<lockVars, touched, images, dataVars, txn, explicit, cancelled,
                   cursor, cancelling>>

\* ROLLBACK closes the active result and aborts.
Rollback(s) ==
    /\ At(s, "entered")
    /\ stmt[s].kind = "ROLLBACK"
    /\ cursor' = [cursor EXCEPT ![s] = NoTable]
    /\ StartAbort(s)
    /\ UNCHANGED <<lockVars, touched, images, dataVars, txn, explicit, cancelled,
                   cancelling>>

Images(s) == images[txn[s]]
Forget(t) == seen' = [seen EXCEPT ![t] = [r \in Tables |-> NotRead]]

\* Validate and flush the next touched table, in first-write order.
FlushNext(s) ==
    /\ At(s, "committing")
    /\ left[s] > 0
    /\ dirty' = dirty \ {Images(s)[Len(Images(s)) - left[s] + 1].table}
    /\ left' = [left EXCEPT ![s] = @ - 1]
    /\ UNCHANGED <<lockVars, txnVars, contents, open, seen, txn, explicit,
                   cancelled, cursor, step, stmt, cancelling>>

\* Validation or synchronisation fails: commit turns into an abort.
CommitFails(s) ==
    /\ At(s, "committing")
    /\ left[s] > 0
    /\ Fail(s)
    /\ UNCHANGED <<lockVars, dataVars>>

\* The success point.
Committed(s) ==
    /\ At(s, "committing")
    /\ left[s] = 0
    /\ state' = [state EXCEPT ![txn[s]] = "COMMITTED"]
    /\ Forget(txn[s])
    /\ Goto(s, "releasing")
    /\ UNCHANGED <<lockVars, touched, images, contents, dirty, open>> /\ OnlyStep

\* close_table, the last image not yet visited.
CloseTable(s) ==
    /\ At(s, "restoring")
    /\ left[s] > 0
    /\ open' = open \ {Images(s)[left[s]].table}
    /\ Images(s)[left[s]].table \in open
    /\ UNCHANGED <<lockVars, txnVars, callVars, contents, dirty, seen, cancelling>>

\* restore, reopen and bump_generation.
Restore(s) ==
    /\ At(s, "restoring")
    /\ left[s] > 0
    /\ LET image == Images(s)[left[s]]
       IN  /\ image.table \notin open
           /\ contents' = [contents EXCEPT ![image.table] = image.before]
           /\ dirty' = dirty \ {image.table}
           /\ open' = open \union {image.table}
    /\ left' = [left EXCEPT ![s] = @ - 1]
    /\ UNCHANGED <<lockVars, txnVars, seen, txn, explicit, cancelled, cursor,
                   step, stmt, cancelling>>

\* Fault: an image that cannot be restored is skipped.
RestoreSkipped(s) ==
    /\ At(s, "restoring")
    /\ left[s] > 0
    /\ open' = open \union {Images(s)[left[s]].table}
    /\ left' = [left EXCEPT ![s] = @ - 1]
    /\ UNCHANGED <<lockVars, txnVars, contents, dirty, seen, txn, explicit,
                   cancelled, cursor, step, stmt, cancelling>>

\* Closing, replacing or reopening fails, before or after the files of the
\* table were replaced.
RestoreFails(s) ==
    /\ At(s, "restoring")
    /\ left[s] > 0
    /\ LET image == Images(s)[left[s]]
       IN  /\ open' = open \ {image.table}
           /\ \/ UNCHANGED <<contents, dirty>>
              \/ /\ contents' = [contents EXCEPT ![image.table] = image.before]
                 /\ dirty' = dirty \ {image.table}
    /\ Goto(s, "quarantining")
    /\ UNCHANGED <<lockVars, txnVars, seen>> /\ OnlyStep

\* _quarantine, then the ABORT_FAILED report; the locks are never released.
QuarantineDomain(s) ==
    /\ At(s, "quarantining")
    /\ Locks!Quarantine
    /\ state' = [state EXCEPT ![txn[s]] = "ABORT_FAILED"]
    /\ Forget(txn[s])
    /\ Clear(s)
    /\ UNCHANGED <<touched, images, contents, dirty, open, cursor, cancelling>>

Aborted(s) ==
    /\ At(s, "restoring")
    /\ left[s] = 0
    /\ state' = [state EXCEPT ![txn[s]] = "ABORTED"]
    /\ Forget(txn[s])
    /\ Goto(s, "releasing")
    /\ UNCHANGED <<lockVars, touched, images, contents, dirty, open>> /\ OnlyStep

Release(s) ==
    /\ At(s, "releasing")
    /\ Locks!ReleaseAll(txn[s])
    /\ cancelling' = cancelling \ {txn[s]}   \* locks.cancel would do nothing
    /\ Goto(s, "discarding")
    /\ UNCHANGED <<txnVars, dataVars, txn, explicit, cancelled, cursor, left>>

\* UndoStore.discard, then _clear_transaction: the call returns.
Discard(s) ==
    /\ At(s, "discarding")
    /\ images' = [images EXCEPT ![txn[s]] = <<>>]
    /\ Clear(s)
    /\ UNCHANGED <<lockVars, state, touched, dataVars, cursor, cancelling>>

-----------------------------------------------------------------------------
(***************************************************************************)
(* cancel, from any thread: the flag under the state mutex, the waiting    *)
(* lock request afterwards.                                                *)
(***************************************************************************)
RequestCancel(s) ==
    /\ ~At(s, "closed")
    /\ ~At(s, "idle") \/ txn[s] # NoTxn
    /\ cancelled' = [cancelled EXCEPT ![s] = TRUE]
    /\ cancelling' = cancelling \union ({txn[s]} \intersect registered)
    /\ UNCHANGED <<lockVars, txnVars, dataVars, txn, explicit, cursor, step, stmt, left>>

CancelLocks(t) ==
    /\ t \in cancelling
    /\ cancelling' = cancelling \ {t}
    /\ IF t \in registered \ failed THEN Locks!Cancel(t) ELSE UNCHANGED lockVars
    /\ UNCHANGED <<txnVars, dataVars, callVars>>

\* close, under the call guard: an open SELECT result ends first, which commits
\* an implicit transaction unless it was cancelled or its cleanup failed; any
\* transaction left is aborted.
Close(s) ==
    /\ At(s, "idle")
    /\ cursor' = [cursor EXCEPT ![s] = NoTable]
    /\ stmt' = [stmt EXCEPT ![s] = Closing]
    /\ \/ /\ txn[s] = NoTxn
          /\ step' = [step EXCEPT ![s] = "closed"]
          /\ UNCHANGED <<state, left>>
       \/ txn[s] # NoTxn /\ Ending(s, "ABORTING", "restoring")
       \/ /\ txn[s] # NoTxn /\ ~explicit[s] /\ ~cancelled[s]
          /\ Ending(s, "COMMITTING", "committing")
    /\ UNCHANGED <<lockVars, touched, images, dataVars, txn, explicit, cancelled,
                   cancelling>>

\* What the thread of the running call does next.
CallStep(s) ==
    \/ \E t \in Txns : Begin(s, t) \/ BeginRefused(s, t)
    \/ Begun(s) \/ Continue(s)
    \/ LockRetained(s) \/ LockGranted(s) \/ LockWaits(s) \/ LockFails(s)
    \/ Prepare(s) \/ PrepareFails(s)
    \/ Write(s) \/ WriteFails(s) \/ Select(s) \/ Executed(s)
    \/ End(s) \/ Rollback(s)
    \/ FlushNext(s) \/ CommitFails(s) \/ Committed(s)
    \/ CloseTable(s) \/ Restore(s) \/ RestoreFails(s)
    \/ QuarantineDomain(s) \/ Aborted(s) \/ Release(s) \/ Discard(s)

Next ==
    \/ \E s \in Sessions :
         \/ \E q \in Statements : Enter(s, q)
         \/ Fetch(s) \/ FinishCursor(s) \/ Close(s) \/ RequestCancel(s) \/ CallStep(s)
    \/ \E t \in Txns : CancelLocks(t)

Spec == Init /\ [][Next]_vars

-----------------------------------------------------------------------------
(***************************************************************************)
(* Properties                                                              *)
(***************************************************************************)
\* The values the variables take.
TypeOK ==
    /\ Locks!TypeOK
    /\ state \in [Txns -> States]
    /\ touched \in [Txns -> SUBSET Tables]
    /\ images \in [Txns -> Seq([table : Tables, before : SUBSET Txns])]
    /\ txn \in [Sessions -> Txns \union {NoTxn}]
    /\ explicit \in [Sessions -> BOOLEAN]
    /\ cancelled \in [Sessions -> BOOLEAN]
    /\ cursor \in [Sessions -> Tables \union {NoTable}]
    /\ step \in [Sessions -> Steps]
    /\ stmt \in [Sessions -> Statements \union {Closing, NoCall}]
    /\ left \in [Sessions -> Nat]
    /\ cancelling \subseteq Txns
    /\ contents \in [Tables -> SUBSET Txns]
    /\ dirty \subseteq Tables
    /\ open \subseteq Tables
    /\ seen \in [Txns -> [Tables -> (SUBSET Txns) \union {NotRead}]]

Unsettled == {t \in Txns : state[t] \in {"ACTIVE", "COMMITTING", "ABORTING",
                                          "ABORT_FAILED"}}

\* A transaction whose writes and before-images are unsettled holds the
\* exclusive lock of every table it touched, and an open SELECT result holds
\* its table, whatever was cancelled, timed out, failed or quarantined since;
\* after ABORT_FAILED the lock stays for good.
EffectsAreLocked ==
    /\ \A t \in Unsettled : \A r \in touched[t] : held[t][r] = "X"
    /\ \A s \in Sessions : cursor[s] # NoTable => held[txn[s]][cursor[s]] # "none"

\* The canonical handles of a table are only away while the transaction that
\* restores it excludes everybody else: no statement, open result or commit
\* finds a closed table.
UsersFindTablesOpen ==
    \A s \in Sessions :
        /\ cursor[s] # NoTable => cursor[s] \in open
        /\ At(s, "prepared") => Table(s) \in open
        /\ At(s, "committing") => touched[txn[s]] \subseteq open

\* What a report says is so (docs/transactions.md: no terminal state is claimed
\* before synchronisation or restoration): a COMMITTED transaction's writes are
\* in every table it touched and on disk, an ABORTED one's are in none.
ReportsAreTrue ==
    /\ \A t \in Txns :
         /\ state[t] = "COMMITTED" => \A r \in touched[t] : t \in contents[r]
         /\ state[t] = "ABORTED" => \A r \in Tables : t \notin contents[r]
    /\ \A r \in dirty : \E t \in Unsettled : r \in touched[t]

\* Locks go only with a settled transaction: committed and flushed, or restored
\* with its handles open again (the order of commit and abort in completion.py).
ReleasedWhenSettled ==
    [][\A t \in Txns :
         t \in registered /\ t \notin registered' =>
            /\ state[t] \in {"COMMITTED", "ABORTED"}
            /\ \A r \in touched[t] :
                 r \in open \ dirty /\ (t \in contents[r] <=> state[t] = "COMMITTED")]_vars

\* The committed contents of the tables: the before-image while a transaction
\* that touched the table is unsettled.
Settled ==
    [r \in Tables |->
        IF \E t \in Unsettled : r \in touched[t]
        THEN LET t == CHOOSE u \in Unsettled : r \in touched[u]
                 i == CHOOSE j \in DOMAIN images[t] : images[t][j].table = r
             IN  images[t][i].before
        ELSE contents[r]]

Outcome ==
    [t \in Txns |-> CASE state[t] = "COMMITTED"    -> "committed"
                     [] state[t] = "ABORTED"      -> "aborted"
                     [] state[t] = "ABORT_FAILED" -> "failed"
                     [] OTHER                     -> "running"]

Serial == INSTANCE SerialDatabase WITH
              db <- Settled, outcome <- Outcome, view <- seen, wrote <- touched

\* Rigorous two-phase locking with before-images implements the serial
\* database: all tables of a transaction change at its commit and not before,
\* and what it read still holds then.
Serializable == Serial!SerialSpec

\* cancel "cancels a queued lock request immediately"
\* (docs/ETAPA_08_TASK_8_19_8_22.md): nobody waits for a lock with the flag set
\* unless the cancellation of that wait is under way.
CancelWakesWaiter ==
    \A s \in Sessions :
        cancelled[s] /\ txn[s] \in Locks!Waiting => txn[s] \in cancelling

-----------------------------------------------------------------------------
(***************************************************************************)
(* Liveness.  The thread of a call keeps running, and wakes up from a lock *)
(* wait at the latest when its deadline passes.  Clients owe nothing: a    *)
(* group may stay open, and a result half-read, for ever.                  *)
(***************************************************************************)
FairSpec == Spec /\ \A s \in Sessions : WF_vars(CallStep(s))

\* Every call returns, with its outcome.
CallsReturn ==
    \A s \in Sessions :
        ~(step[s] \in {"idle", "closed"}) ~> step[s] \in {"idle", "closed"}
=============================================================================
