# MINI-DBMS: a TLA+ development

MINI-DBMS is a relational engine in Python (`src/engine`) with an HTTP service
(`src/api`). Its hardest part is `engine/transactions`: sessions on several
threads run SQL statements against shared files under table locks, keep
before-images of what they change, and restore them when a statement, a lock wait
or a commit fails. CREATE TABLE changes files, four registries and the manifest beside
them. Below it, `engine/maintenance`, `engine/storage` and `engine/indexes` keep rows and
indexes together when a write fails; beside it, `engine/query` and `engine/operators` plan
and execute queries in bounded memory; above it, `api` serves client sessions and changes
definitions while it runs. This development models each of these layers; what is left is in
the [plan](#plan).

## Inventory

| Component | Source | State it keeps | Operations | Talks to |
|---|---|---|---|---|
| Lock manager | `transactions/locks.py` | holders and FIFO queue per resource, pending request, failure and retirement per transaction, quarantine flag; one condition | `register`, `acquire` (wait loop with deadline), `acquire_plan`, `cancel`, `release_all`, `quarantine` | sessions, completion |
| Transaction manager | `transactions/manager.py`, `model.py` | active transactions and their state | `begin`, `transition`, `record_resources`, `abort_empty`, `commit_empty` | sessions, completion |
| Sessions | `transactions/session.py` | the transaction, whether it is explicit, the cancellation flag, the open result, the call guard | `execute`, `cancel`, cursor calls, `close`, `run_*` variants; coordinator `open/close/shutdown` | everything below |
| Completion | `transactions/completion.py`, `runtime.py` | terminal reports; open handles of every table | `prepare_write`, `commit`, `abort`, `retry_cleanup` | locks, undo, runtime |
| Undo store | `transactions/undo.py` | published images, reservations, debts, running cleanups; on disk the marker and the image directories | `capture`, `restore`, `discard`, `require_clean` | completion, the next process |
| Access plans | `transactions/resources.py` | resources and a generation per table | `plan`, `validate`, `bump_generation` | sessions, completion |
| Metadata gate | `transactions/gate.py` | readers, writer, waiting writers | `read`, `write` | prepare/list calls, CREATE |
| Owner and manifest | `database/owner.py`, `manifest.py` | Catalog, handles, manifest file | `create`, `open`, `create_table` and its compensation, `close` | all registries |
| Row and index maintenance | `maintenance/service.py` | none of its own; markers of the indexes | `insert`, `delete`, repair and invalidation | storage, indexes |
| Storage | `storage/*` | pages, free space, slots, tombstones | insert/read/delete/scan, reorganisation | page manager |
| Indexes | `indexes/*` | B+ tree nodes; hash directory and buckets | insert/delete/search/rebuild | page manager |
| Query front end and executor | `query/*` | prepared plans, result states | parse, bind, plan, execute, fetch | sessions, operators |
| Operators | `operators/*` | memory and handle budgets, spill files | sort, join, aggregate | temp-file manager |
| Spatial, text, multimedia | `spatial/`, `text/`, `multimedia/` | an R-tree; a lexicon with postings; vectors | build, search | storage |
| HTTP service | `src/api` | token sessions, engine service | request handling, cancel, expiry | sessions |

Everything of `engine/transactions` meets in few places: a session calls the lock
manager before every statement, completion before every write and at the end of
every group; an abort closes, replaces and reopens the files other sessions use;
`cancel` and lock deadlines interrupt from other threads; and the process may end at
any step, leaving a marker and images to the next one.

What makes each component correct:

* **Lock manager**: compatible holders, FIFO without overtaking, no wait cycle, no lost
  wake-up, strict two-phase locking, every wait ends.
* **Sessions and completion**: committed transactions are serial; a transaction takes
  effect on all its tables or on none; reports are true; locks outlive effects; handles
  others use stay open; every call returns.
* **Undo store**: uncommitted bytes are never on disk without evidence; images survive
  as long as they may be needed; quotas do not leak; a clean end leaves nothing behind.
* **Owner, manifest and gate**: nobody sees a CREATE half done or half undone; the manifest
  lists only tables whose files are there; a reported CREATE stays, a failed one leaves
  nothing; statements use the table they locked; neither CREATEs nor prepare calls starve.
* **Maintenance and storage**: an index that a statement may use has exactly the rows; a
  file that opens after a failure has either the old rows or the new; ordered searches
  miss nothing; reports count what happened.
* **Indexes**: the structure stays valid, and each search finds what a scan would.
* **Queries and operators**: the rows are those of the statement whatever plan, grant and
  partitioning were chosen; no admitted plan runs out of its grant; files and handles are
  given back or reported; one result of an engine is live.
* **Service**: the registry of tables never names a missing file; changes are whole; files
  are closed under nobody; abandoned sessions end.

The hazards behind these properties are listed at their source lines in `PROJECT.json`.

## Modules

| Module | Models | Lines |
|---|---|---|
| `LockManager` | `locks.py`, one action per critical section | core |
| `MCLockManager` | instance: `MCLockManager.cfg` | |
| `LockManagerProofs` | theorems about `LockManager` | |
| `SerialDatabase` | abstract specification: what the transaction layer promises | |
| `Transactions` | `session.py`, `completion.py`, `manager.py` over `LockManager` (`INSTANCE`) | core |
| `TransactionsProofs` | theorems about `Transactions`; it implements `SerialDatabase` | |
| `MCTransactions` | instances: `MCTransactions.cfg`, `MCTransactionsLive.cfg`, `MCTransactionsCancel.cfg` | |
| `UndoStore` | `undo.py`, with the end of the process and the next open | core |
| `MCUndoStore` | instance: `MCUndoStore.cfg` | |
| `UndoStoreProofs` | theorems about `UndoStore` | |
| `MetadataGate` | `gate.py`: the reader/writer gate, instantiated by `SchemaChange` | |
| `SchemaChange` | CREATE in `owner.py`, `manifest.py`, `session.py`, beside the plans of `resources.py` | core |
| `MCSchemaChange` | instances: `MCSchemaChange.cfg`, `MCSchemaChangeAbort.cfg` | |
| `SchemaChangeProofs` | theorems about `SchemaChange` | |
| `PageFile` | `page.py`, `page_manager.py`, `organization.py`: slotted pages, physical writes that fail or tear | |
| `HeapFile`, `SequentialFile` | the two organisations of a table over `PageFile` | |
| `Maintenance` | INSERT, DELETE and reorganisation over a table and its indexes | core |
| `MCMaintenance` | instances: `MCMaintenance.cfg`, `MCMaintenanceMarker.cfg` | |
| `StorageProofs` | lemmas about `PageFile`, `HeapFile` and `SequentialFile` | |
| `MaintenanceProofs` | theorems about `Maintenance` | |
| `IndexContract` | abstract specification: an index is a set of associations | |
| `BPlusTree`, `ExtendibleHash`, `RTree` | the three structures, as functions of the file | core |
| `TextIndex` | `spimi.py`, `index.py`, `ranking.py`: the inverted index of a text collection and its searches | |
| `Indexes` | the structures behind one interface, refining `IndexContract` | |
| `MCIndexes` | instance: `MCIndexes.cfg` | |
| `Grants` | the memory arithmetic of the blocking operators | |
| `ExternalSort`, `HashOperators`, `Joins` | the operators, as functions of their rows and grants | |
| `Planner` | `binder.py`, `planner.py`: from a bound SELECT to the rows of its plan | core |
| `TempFiles` | `temp_files.py`, `temp_stream.py`, `run_catalog.py` with failing input and output | |
| `Queries` | `executor.py`, `environment.py`: results and cursors of one engine | core |
| `Commands` | INSERT, DELETE, EXPLAIN ANALYZE and index definitions beside `Queries` | |
| `QueryAnswers` | `Commands` with the plans of `Planner`: what the rows have to do with the statement | |
| `MCQueries` | instance: `MCQueries.cfg` | |
| `QueriesProofs` | theorems about `Grants`; one live result, ends that are final, and temporary files that outlive their readers and are accounted for, for every plan | |
| `GuiTables` | tables and indexes changed by the running service (`api/database.py`, `api/gui_tables.py`) | core |
| `ClientSessions` | `api/sessions.py`, shutdown, and the engine sessions behind them | core |
| `Service` | the two together, with the end of the process | |
| `MCService` | instance: `MCService.cfg` | |
| `ServiceProofs` | theorems about `Service`, with `ClientSessions` and `GuiTables` | |

Operators whose comment starts with "Fault:" are not part of any specification. Each is
an action or helper with one plausible bug (a dropped guard, a missing wake-up, a check
of the wrong set); substituting it for the original must break the property named with
it under "mutants" in `PROJECT.json`.

### LockManager

Every `with self._condition` section is one action. `held[t][r]` is `_held` together
with the holders of the entry; `waiting[t]` is `_waiting`; a queue is kept as an order
(`earlier[t]` is who stands before t), which needs no sequence because a transaction has
one pending request. A thread that must wait leaves the section (`AcquireWait`) and
comes back through `Timeout`, `ReturnGranted` or `ReturnFailed`; `blocked` says which
threads are in the loop, so that a grant, a cancellation or a quarantine that happens
before the thread runs again is visible. `_drain` is applied as a whole: it serves the
queue in order up to the first request with a blocker (`Granted`). `_closes_cycle` walks
a graph; `ClosesCycle` says the same as reachability through closed sets. Which of the
sets is smallest does not matter, so no recursion is needed and the module can be
proved about.

Identities are never reused (`retired`). Deadlines are a step that may happen whenever a
request is pending. `acquire_plan` is the order in which `Transactions` asks.

### Transactions

One session serves one call at a time (`_call`); `step[s]` is where the call is, from
one lock request, file operation or state change to the next:

```
idle -> entered -> [begun] -> schema -> table -> granted -> prepared -> executed
                                  \________ any failure ________/          |
             restoring <---------------------------------------------  committing
                 |    \-> quarantining (ABORT_FAILED, locks kept)          |
                 +--------------------> releasing -> discarding -> idle <--+
```

`RequestCancel` (the flag, under the state mutex) and `CancelLocks` (the lock request,
afterwards) run in other threads. A statement is BEGIN, END, ROLLBACK, or a SELECT or
WRITE (INSERT, DELETE and the programmatic variants) of one table. A statement the
session refuses without effect (nested BEGIN, END with an open result, ...) is not
entered. The contents of a table are the set of transactions whose writes it contains;
a before-image is such a set, so restoring an image over another transaction's commit
loses that transaction. `dirty` is what has not been flushed; `open` is which tables have
their canonical handles; `seen` is a history variable, what a transaction found in a
table apart from its own writes.

Restoring a table is two steps (`CloseTable`, `Restore`), because between them other
sessions run and must not need the table; replacement, reopening and the generation are
one step. The last flush and the COMMITTED transition are separate from the release of
the locks and from the cleanup of the images.

`SerialDatabase` is the promise of `docs/transactions.md`: tables change at commits
only, all tables of a transaction at once, and whatever a transaction read still holds
at its commit. `Transactions` implements it (`Serializable`) with the mapping
`db <- Settled` (the before-image while a transaction that touched the table is
unsettled, its contents otherwise), `outcome <- Outcome`, `view <- seen`,
`wrote <- touched`.

### UndoStore

The accounts change in the sections of the store's mutex; copying, restoring and
removing files happen outside, so they are steps of their own: `Reserve`, `MakeFolder`,
`Publish` for a capture that succeeds; `CopyFails`, `RemovePartial`, `Unreserve` for one
that fails; `StartDiscard`, `RemoveTree`, `Discarded` for the cleanup, each of which may
fail and leave a debt. `CleanEmpty` is the shared end of `capture` and `discard`. Bytes
are counted in tables. `Crash` forgets everything in memory at any step, including the
identities of the transactions, which start again at one in the next process; `Reopen`
is `require_clean`. The transactions around the store are reduced to what it needs from
them: a table is captured and written under its exclusive lock, images are discarded
after the settlement, a failed restoration discards nothing.

### SchemaChange and MetadataGate

A table is a pair of a name and an identity, with two files (heap and the B+ tree of its
primary key). The registries are sets of tables: `catalog` is `Catalog`; `runtime` is
`QueryEnvironment` with the handles and paths of the owner; `resources` is
`ResourceCatalog._tables`; `current` is the manifest in memory, `manifest` the one on disk.
A creator goes through the lines of `create_table`, one registry or file at a time:

```
idle -> schema X -> gate -> validate -> heap -> index -> catalog -> runtime
     -> resources -> manifest -> published -> commit -> idle
failure: unresource -> unregister -> close -> unlinkIndex -> unlinkHeap -> failed -> abort
```

`Compensate` enters the second line where the flags of the handler say. A handle or a file
that cannot be removed makes the owner unavailable. The schema lock is reduced to what
`LockManager` proves of it; the gate is an instance of `MetadataGate` for creators and for
prepare and list calls. Users plan without any lock (`Plan`), then lock schema S and the
identity they planned, validate and use it. `Crash` is the end of the process, orderly or
not, at any step; `Reopen` is `Database.open`. `stale` and `committed` are history
variables: unlisted files that were there at the last open, and what has been reported.

### PageFile, HeapFile, SequentialFile, Maintenance

A file is a sequence of pages with slots and holes; an operation of the storage layer is the
sequence of page writes it does, computed from the file before it. A write that fails leaves
any prefix of them, the next possibly torn, and closes the handle, as
`PageManager._write_at` does; a torn write is a page whose content no reader accepts. The
free-space tracker is derived from the pages, which is how the code rebuilds it.
`SequentialFile` splits an insertion over up to three pages and shifts the suffix,
page by page, with the holes it keeps.

`Maintenance` runs one statement at a time, a step per call that
`maintenance/service.py` makes on the storage or on an index: constraints, the marker before
a storage that may move rows, the row, each index, rebuild, flush; for DELETE the spool and
one row after the other; for every failure the compensation or the repair, each of whose calls may
fail too. `Ends` folds the repair over the indexes. `settled` and `intended` are
the rows after the last storage call that ended well and those a failed one aimed at.

### IndexContract, BPlusTree, ExtendibleHash, RTree, TextIndex, Indexes

Each structure is a value and each operation a function on it, with recursive functions and
no `RECURSIVE` operator. Page numbers, the free list, the leaf chain, directory pages and
counters are kept, because the validators check them. `ValidStructure`,
`ValidHash` and `ValidRTree` are the validators of the code. Distances of the R-tree are squared and planar;
what its two metrics differ in, the lower bound of a box, is kept. `Indexes` builds one of them
over the rows of a table and calls it; the verdict of every call and its contents are those of
`IndexContract`.

`TextIndex` has the blocks that a memory budget cuts, the runs, the passes that merge a few of
them at a time, the files with their offsets, their validators, and the searches in every
model and order, with a heap or a sort, through the index or through a scan. A document is its
identity and its tokens. A logarithm is an integer that moves as it does, and a score is
rounded, as a floating-point score is: what is checked is that the two routes agree, with ties by
identity, not the numbers. A collection is sealed once it is indexed, so it
takes no calls.

### Grants, ExternalSort, HashOperators, Joins, Planner

An operator maps its input to a stream: the rows it yields and how it ends, well or with the
error the code raises. The order of rows is the code's. `Grants` has every reservation and the limits
derived from it; sizes are those of the code with its constants as parameters. A hash is any function from keys
to partitions, one per level, so an instance decides which keys collide and how often.
`Planner` binds index conditions, chooses an access path and a join, carves the grants as
`operator_context` does and composes the operators; `Expected` says, without any plan, what the
statement means. An average is a pair of a total and a count. That equal keys keep their order
(`sorting.py:160`) is part of the sort here but promised to nobody.

### TempFiles, Queries, Commands, QueryAnswers

`TempFiles` maps a workspace to the set of outcomes of a call, so that each input or output
may fail. `Queries` is one engine: a prepared query, the results made from it, the calls on
them (`open`, `fetchmany`, `fetchall`, iteration, `close`, leaving the with-block with an
exception), the handles in the environment, and the operators' use of their files while a call
works. Which file is opened when is left open: any order an operator could choose is one of the
behaviours. `Commands` adds INSERT and DELETE that were bound earlier, EXPLAIN
ANALYZE, and CREATE and DROP INDEX in between; a command is whole or refused here, since its steps
are those of `Maintenance`.

### GuiTables, ClientSessions, Service

`GuiTables` keeps what the disk has (`registry`, `files`, `rows`) and what the owner's maps
say (`memory`, one view of the table per map). Every change is the sequence of its
lines: files, maps, registry, unlink, with the handler of each failure. `ClientSessions`
keeps the token registry, the call lock of each client, the engine session behind it with its
call guard, transaction and schema lock, and the thread that stops the service. `Service` lets a session
with schema X take the steps of a change, and ends and reopens the process. Identities and
tokens are random in the code; any fresh one stands for all.

## Runs

| Run | Instance | What it shows |
|---|---|---|
| `locks` | 3 transactions, schema and 2 tables | consistency, exclusion, no cycle, no lost wake-up, two phases, FIFO; every wait ends, in two ways |
| `sessions` | 2 sessions, 2 transactions, 2 tables, symmetry | refinement of `SerialDatabase`; locks outlive effects; reports true; handles there |
| `sessions_live` | 2 sessions, 2 transactions, 1 table | every call returns |
| `cancel_early` | as above | counterexample to "cancels a queued lock request immediately" |
| `undo` | 3 transactions, 2 tables, quota of 2, 2 capture slots, symmetry | evidence, images, accounts, safe open |
| `schema` | 2 creators, 1 user, 1 prepare call, 2 names, 2 identities | whole registries, manifest with its files, reported CREATEs, no leftovers, locks on what is used; CREATEs return, prepare calls get in |
| `create_cancelled` | as `schema`, 2 users, symmetry | counterexample to "transaction abort must restore the group's original state" for CREATE |
| `indexes` | 16 rows over 12 keys, six loads, 3 calls; 130 text collections, six budgets | valid structures, complete searches, refinement of `IndexContract` |
| `tables` | 4 loads of up to 6 rows, pages of 6 units, 3 statements | indexes agree, failures close, ordered searches are complete, reports are true |
| `repair_marker` | as `tables` | counterexample to "both live and reopened access reject it", of an index whose repair did not finish |
| `queries` | families of statements over one or two tables of up to 5 rows | right rows, failures for a cause, files and grants given back, one live result |
| `service` | 2 client sessions and the default one, 2 table and 2 index identities | registry with its files, whole changes, idle files at the end, sessions that end |

**Bounds.** Three transactions on three resources give a cycle of three, an upgrade behind a
waiter and a queue of two; the theorems remove the bound. Two sessions with two tables
give the two-table deadlock, the upgrade deadlock, a victim with images of two tables, and a
cursor under another session's write; two transaction identities mean that both overlap or one
session runs both. `TxnsLeft` is the only bound inside that specification: no call is
entered that could find no identity left. Three transactions and two capture slots give
a capture, a failed capture and a discard at the same time, one of them out of quota.
Two creators with two names and two identities race for one name or publish side by side,
and a name is undone and made again with another identity while a user's plan is waiting;
after both identities have become files, CREATE can only be refused.

*Indexes.* Leaves of 3, internal nodes of 2, buckets of 2, at most 8 aliases (`MaxDepth = 3`)
and R-tree nodes of 4 make sixteen rows a tree of three levels in which every deletion underflows
soon; one key has five rows and so spans leaves; two keys share their whole hash,
so that a split cannot help; `MaxCalls = 3` lets a merge cascade and the root shrink. The text
collections are every three documents of up to two tokens over two terms and two larger ones,
with room for one posting, for two, or for all, and fan-ins of 2 and 3. *Tables.* Pages of
6 units hold two or three rows of 1 or 2 units (a directory entry takes one more); the loads are empty, one page,
and full pages with duplicates. *Queries.* The constants of `Grants` are scaled to a few
bytes (`MCQueries.cfg`), with grants just above and just below what each case needs, so that
one sort merges in several passes, a partition overflows into the next level and then into the
fallback, and a stack is refused. `MaxFaults` input or output operations fail; `MaxFiles`
and `MaxRows` bound files and rows; an index is created or dropped once; handles are at
least `2 * Fanout + 2`. *Service.* A scenario is a budget of sessions opened, calls, changes, requests to
close or cancel, stops, and ends of the process; five of them are run side by side.

Type invariants are not in the runs: those of the lock domain, the undo store and CREATE are part of the
proved invariants, where they are used.

**Deadlock checking** is off where a finite set of identities, a bound on calls or a lost
handle ends every behaviour of an instance; liveness properties take its place where there
are any. It is on in `schema`, and in `create_cancelled`.

**Symmetry** is used only in runs without liveness.

### Fairness

`LockFairSpec` lets a thread inside `acquire` run when its wait is over
(`Condition.notify_all`, and `wait(remaining)` has a timeout). `WaitsEnd` assumes that
transactions that do not wait end, but not that any deadline expires: the victim rule and
the drains alone keep the domain moving. `DeadlineEndsWaits` assumes the opposite:
holders owe nothing, deadlines expire. `FairSpec` assumes that the thread of a running
call keeps running, which includes the deadline of its lock wait; clients owe nothing, so
a group may stay open and a result half-read for ever, and calls still return. It does
not assume that anybody cancels. `SchemaChange!FairSpec` lets the thread of a CREATE run,
including the deadline of its wait for schema X; prepare calls leave the gate, and one that
finds it free again and again gets in (strong fairness, `notify_all` at every departure).
Statements may keep schema S for ever. The gate alone would not be fair to readers under the same
assumption: it prefers writers, and two that overlap at the door can take turns. Schema X
keeps the second one from the door, which is what `EverybodyGetsThrough` shows.

`Service!FairSpec` lets the engine call of a session run on, the sweeper come round, a close request
take its session or time out, and a stop that was asked for be carried out. Clients owe nothing: a
session may be left in the middle of a group, and nobody needs to close it.

## Proofs

`LockManagerProofs`, `TransactionsProofs`, `UndoStoreProofs`, `SchemaChangeProofs`,
`StorageProofs`, `MaintenanceProofs`, `QueriesProofs` and `ServiceProofs` are checked by TLAPS
for every value of the constants. Their assumptions are those of the modules, and TLC evaluates them in the
runs: the schema is not a table, `NoRequest`, `NoTxn`, `NoTable`, `Nobody`, `NoName`, `NoId` and
`NoChange` are none of the values they stand beside, limits are naturals, a thread that creates
neither uses nor lists at the same time, the results made of a query are results of its engine,
the default session is no client, a context allows at least one handle, sizes and the number of faults are
naturals, identities of
tables and of indexes exist and differ, a directory entry takes a byte, and rows fit an empty page, as
`MAX_RECORD_SIZE` has it. Each inductive invariant (`LockIInv`, `TxnIInv`,
`UndoIInv`, `SchemaIInv`, `IInv`, `RInv` and `OInv` of `MaintenanceProofs`, `QueryIInv`, `Housekeeping`, `SessionIInv`, `TableIInv`) was first checked by TLC on the instance of
its run: a module that extends the proofs and the constants of the MC module, with
the invariant in the configuration of that run, checks it again.

*Locks.* A lock table is a triple of holders, requests and orders. `LockIInv` says that it
is well-typed, that every queue is a strict total order, that nobody waits for what it
has, that holders are compatible, that the wait-for graph is acyclic, that waiters outside the
queue being changed have a blocker, and that tables are covered by the schema. The first
part proves what one removal and one drain do to *any* such table (`GrantedFacts`,
`DrainTable`, and so on); every action is a removal, an insertion and a drain, so the second part puts
the lemmas together. Acyclicity is needed in the form "every set of waiters has a member that
waits for nobody of the set": it survives removals as it stands, and an insertion
keeps it exactly because `ClosesCycle` was refused. From the invariant follow
`QueuesAlwaysAgree`, `MutualExclusion`, `DeadlockFreedom`, `NoLostWakeup` and `SchemaFirst`;
`FirstComeFirstServed` and `StrictTwoPhaseLocking` are action properties.

*Transactions.* None of the four safety properties is inductive, because each relates two of the
steps of one call: a lock that is taken, an image that is captured, a table that is written, a
state that is set, and each of them is undone by another step that may fail. `TxnIInv` has one
part per session, one per transaction and one that ties them to the lock domain. The part of a session says what holds
at each value of `step[s]`: which lock its transaction has asked for and may count on,
whether the image of its table is there, whether the handles of the table are away.
The part of a transaction says that its images are those of the tables it has touched, each
once, that each is what the table would contain without it (`ImagesOK`), that its writes are in no
other table, and how far an ending has come. `LockIInv` is one of its conjuncts: the steps of
`LockManager` are those of `Transactions` with the other variables unchanged, so the lemmas
of `LockManagerProofs` apply as they are, and `UnsettledHold` (two unsettled transactions
have touched no common table) is `HoldersCompatible` at work. There is one lemma per action, and under it a step per part that the
action can disturb. `UnsettledEffectsAreLocked`, `TablesAreOpenToUsers` and
`ReportsOfCompletionAreTrue` are then immediate, and
`LocksOutliveEffects` needs only the one step that retires a transaction.

*Serializability.* `TransactionsAreSerializable` is the refinement of `SerialDatabase`, step by
step. The mapping takes the committed contents of a table from the before-image of the transaction
that has touched it; `SettledContents` shows that this is what the table contains less the writes
of unsettled transactions, which no longer mentions images. So a write, an undo and a restoration
leave the committed contents alone, and only the step that makes a
transaction COMMITTED adds it, to all its tables. A fetch and a write map to `Read`, the first
preparation of a table to `Touch`, and what a transaction read still holds at its commit because the lock
under which it read is held until then. Every other step, those of the lock domain, of
clients, of cancellation and of recovery, maps to a stutter.

*Undo.* `WritesLeaveEvidence` is not inductive: an abort, a discard or a failed capture of
*another* transaction must not take the evidence away. `UndoIInv` adds that a capture
under way owns its reservation and its lock, that the marker stays while any account is
open, that an open transaction keeps the lock and the folder of every image, and that
every uncommitted table is locked by such a transaction. `EvidenceOfWrites`,
`AbortFindsItsImages` and `OpenFindsCommitted` follow, the last because a marker or a
folder remains wherever there is an uncommitted write. `AccountsAlwaysBalance` needs sums over
the transactions; instead of a fold, the sum of a function is
defined as the cardinality of the set of its units, and one reservation more or less is a set
difference (`UnitsAdd`, `UnitsShrink`). `AccountsIInv` adds to `UndoIInv` that an
account is its images and the capture under way, that the total holds over all of them, that a
transaction counts as cleaning only while its discard runs and ends without images, and that the
last discard leaves nothing but a debt.

*Schema.* `SchemaIInv` says where everything is at each step of a CREATE. `GateOrder`: the
creators between `validate` and `failed` are those in the gate, at most one, with no
reader beside it. `SchemaOrder`: from before the gate to its report a creator holds
schema X, so no user is past schema S. `TablesApart`: a table under way shares neither name
nor identity with the manifest, which follows from validation because the registries
contain the manifest. `Registries`: each registry is the manifest and the table under way,
from the step that adds it to the step that takes it out. `FilesAccounted`: the files are there before the
manifest names them, and an available owner has no other files. The six properties of the
run `schema` follow; `SchemaIsWhole`, for one, because a reader or a holder of schema S means
that no creator is inside.

*Storage.* A storage call is a sequence of writes, and `StorageProofs` says of each call what the
file is when all of them are done, and what it can be when one of them fails. A file is `Sound` when it opens:
its length, its counters and every page are right. `Deletion`, `HeapInsertion`,
`OrderedInsertion` and `Compaction` say that from a sound file each call makes a sound one whose
rows, as a bag, are the old ones without the row, with the row, or unchanged; and that
whatever a failed call left behind, if it opens at all, is the file from before or the one that was meant.
The last part is one argument for all of them. The counters are the last write and no earlier one
touches them, so a prefix that opens has the old counters, and one that changed the number of
pages has another length than they say; a deletion or an insertion in
place that did not get to the counters has another number of rows than they count. Rows are never summed: the
rows of two files are the same when a bijection of their slots keeps the row of each (`RowsMoved`,
`RowAdded`), and sums of bytes are cardinalities of sets of pairs (`PairsAdd`).

An insertion into an ordered file needs most of it. Its page becomes a sequence of items: the rows with the new
one, then the free slots with the bytes of the holes. `IsCut` says what the two ways of
partitioning them have in common: pages are numbered without gaps, an item never goes before its
predecessor, and what goes to one page fits it. `GreedyCut` and `SpreadCut` show it of the greedy
and of the balanced filling (the second is only used when the code's own test says that it fits). From any cut, `CutPages` gives
the pages and the bijection from items to slots, `Relocation` that every slot of the old page
has one of them and the new row the other, and `SlotsSplit` adds the pages before, and those that
were moved right (`GrowthDone`). `SearchEnds` shows that the binary search ends at a page, for any
file. Recursive definitions (a search, a greedy filling, a load) are functions on an
interval; `Iterates` shows once that such a function exists, and what holds of its values
follows by induction over a set of numbers (`SetInduction`).

*Maintenance.* Of the properties of `Maintenance`, `FailsClosed` is inductive but for the row that a
DELETE or a compensation is about to remove, which must still be there (`RowIsThere`). `IndexesAgree`
is not: between two calls of a statement each index is as far as the statement has come. `IInv` adds
`Expected(n)`, the associations of index `n` at each step: those of the table, without the row that is
on its way in or out where this index has not had it yet, or has lost it already. And it adds what the steps owe to the
markers: while rows may move (`Moving`), no index is ready, so none is wrong. `FilesFailClosed`
and `IndexesFollowTheTable` follow. `ReportsTellTheTruth` needs `RInv`, which counts: what a DELETE has
completed is the number of rows that are gone since `before`, and after an INSERT has
stored its row there is one more, until a compensation takes it out.

*Order.* `OInv` adds to `IInv` that the rows of an ordered table lie in key order (`InKeyOrder`, over pages and
slots), that unique keys are told apart, and that a row between the duplicate check of its INSERT and
its storing has a key no other row has: without the last part uniqueness is not inductive. In a file in
key order a page passes the test of the binary search when some row up to it is behind the key (`PassingPages`), also
where pages have lost all their rows, so the test never turns back and the search ends at the first
such page (`FirstPageFacts`). `SearchFinds`, `HasKeyFinds` and `NothingFound` compare the searches with the
scan. That the calls keep the order is the harder half (`OrderedInsertionKeepsOrder`, `DeletionKeepsOrder`,
`CompactionKeepsOrder`): the items of an insertion are in order (`ItemsInOrder`), so the pages of any
cut are (`CutInOrder`), and their rows lie between those of the pages before and of the pages moved right
(`SplitBounds`, `SplitInOrder`), because the target has no larger key before it and no smaller behind it
(`TargetFacts`). A load starts in order by induction over its rows (`LoadedInOrder`).
`OrderedSearchesFindEverything` follows.

*Grants.* The arithmetic of memory has no state, so these are facts about every grant and
every size, under assumptions on the constants that the code's own values satisfy. A row that
run generation admits can take part in a two-way merge (`AdmittedRowsMerge`); an admitted
sort has room for a chunk (`ChunksHaveRoom`), so "No room for a sort chunk" is
never raised; a merge of the fan-in that was resolved (`MergesFit`) and a partitioning of
the fan-out that was accepted (`PartitionsFit`) stay within the grant; and a grouping with its minimum can
always fall back to sorting (`FallbackIsGranted`). The run `queries` shows, on scaled
constants, what they add up to (`FailsForCause`).

*Queries.* `Queries` and `Commands` take the plan of a query as parameters (`Searched`,
`JoinedBy`, `JoinIndex`, `FitsGrants`, `Delivered`, and `Satisfies` for predicates), so the proofs hold
for every planner, and none of them has to know what a plan computes. The configuration of the run
`queries` gives them the operators of `Planner`, and `QueryAnswers` says what the two make together. `OneLiveResult` alone does not say why the next
call keeps it: `QueryIInv` adds how far the result of the running call is (`CallAgrees`). A call that is
opening its plan works on a CREATED result, and the plan was checked and the rows were taken in this
call; one that fetches works on an OPEN one. Whoever changes rows, handles or definitions runs
between calls and finds no result open, for `_require_idle` looks at one result only, and that is enough because
a live one is the active one (`LiveIsActive`). `OneResultIsLive` and the action property `EndsAreFinal`
follow.

*Temporary files.* `FilesAreThere` and `NothingIsLeftBehind` are about the workspace of the blocking operator of a
plan, and they hold for any number of files, of faults and of calls. Neither property says anything in
the middle of an operation, where a file may have an entry and no bytes, or a reader and no handle.
So every operation of `TempFiles` has a lemma that says what each of its outcomes leaves, done or
interrupted. What survives an interruption is `Orderly`: the list of resources names each open file once, the
handles are those of the listed readers and writers, the paths of the workspace are on disk, and what is on disk is listed. `Exact` holds
as long as no input or output has failed: the account is the sum of the sizes of the active entries (sums are
cardinalities again), each resource has its file, and a file that is active has a
reader exactly if a resource reads it. The two together are `Closable`, which every step of an operator keeps whatever
happens; a plan that goes on has besides each file in use and none lost (`Sound`).
`WorkspaceClosed` takes any `Closable` workspace to a `Settled` one: it iterates over the resources
and then over the entries, any of which may fail, and in each iteration what is already gone stays gone. Each iteration
is a function on an interval (`RunExists`), and what holds of its values follows by induction over
a set of numbers (`UpTo`). `Housekeeping` joins this to the results of the engine: the workspace
is `Sound` while a plan is open, and otherwise sound or settled. It needs `QueryIInv`, because
only one result is live and a call that fails ends the plan it was working on.
The byte account that breaks (see below) is let off, as in the property.

*Service.* `SessionIInv` is about the threads. Work is done inside an open engine session by the request
that holds its lock (`WorkHasSession`); a reader without a token shares its session with
nobody (`ReadersAreApart`); and the thread that stops the service has, between two of its
steps, collected or still to collect every engine session there is, while the default session's
lock and `_closed` keep others out (`DrainCatchesAll`). `FilesCloseUnderNobody` follows; by itself it
says nothing of the states before the files are closed, where all the work is done.
`TableIInv` says for each kind of change what holds at each of its steps (`CreateTableOK` to
`UpdateOK`): whether the registry names the new state, which maps show it already, what `change.was`
must be for a handler to put it back, and which files may still be removed, which are never files
that the registry names. Where no change is under way, and while one has not
been published, the maps show the registry (`Agrees`). The invariant holds as long as no DROP has
failed half-way, and across the end of the process, when only registry, files and
rows are left. `RegistryNamesFiles` and `ChangesAreAllOrNothing` follow.

Only model-checked: liveness (`WaitsEnd`, `DeadlineEndsWaits`, `CallsReturn`,
`EverybodyGetsThrough`, `SessionsEnd`), which needs fairness and ENABLED and is out of the
prover's reach; what the indexes, the sort and the joins compute (`StructureIsValid`, `SearchesAgree`,
`AnswersAreRight`, `FailsForCause`), whose trees and streams would need an induction for each of their
recursive functions; and the three violations, which are traces.

## Disagreements between code and documentation

**A cancel that comes early.** `SqlSession.cancel` reads the transaction identity under the state mutex and cancels the
lock request only if there is one. A cancel that arrives after the call has entered and
before `_begin` has assigned the identity sets the flag alone; the statement looks at the
flag only after its locks are granted, so it queues with the flag set and waits until the
holder releases or its deadline passes. `docs/ETAPA_08_TASK_8_19_8_22.md:13` says that
`cancel()` "cancels a queued lock request immediately". Run `cancel_early` has the trace.

**A CREATE that is cancelled late.** After `create_table` has replaced the manifest, the
session looks at the cancellation flag once more (`session.py:588`, and `:983` for the
programmatic call) and aborts the transaction. CREATE has no before-image, so the call is
reported ABORTED and the table stays in every registry and in the manifest.
`docs/transactions.md:42` says that "transaction abort must restore the group's original
state". Run `create_cancelled` has the trace. The registries stay consistent
(`SchemaIsWhole`); only the report is misleading.

**An index that cannot be repaired.** A DELETE outside a transaction removes the associations
of its row and then the row. When that storage write fails the page manager closes the
heap, and from then on neither the rebuild of an index nor its persistent marker can be
written, because both begin by validating the heap. A B+ tree that misses a live row can
then be opened by the next process. Run `repair_marker` has the trace;
`docs/sql-grammar.md:366` says that "both live and reopened access reject it". When the handle of the storage is closed an INSERT fails in
`_count_delta` with a RuntimeError instead of its report; the model ends the statement there.

### Seen on the way

These are no disagreements with a document, or the models leave them out on purpose; a
reader of the code should know them.

* *Temporary files.* A registry write that fails after the unlink in
  `TemporaryWorkspace._delete` leaves the size in the entry, and cleanup subtracts it again; the byte account
  raises RuntimeError, which escapes `close`. `workspace.broken` marks it and
  `TempFilesAreAccountedFor` lets it off.
* *Operators.* `Limit` does not reset its count when it is opened again (its plan is made
  anew for every execution). A sum is checked against the range of integers after each row,
  so it may be refused although the total fits; `Overflows` says so. A stack of
  operators with few handles is refused in the middle of its stream, not before. A
  with-block that is left with an exception after the last row records CLOSED.
* *Sessions.* `SessionRegistry.cancel` sees a call running and cancels the SQL session
  afterwards (`sessions.py:184-200`); the call may have returned, and the next one or the idle group is
  cancelled. `close` forgets the entry before it waits (`sessions.py:200-219`), so a second
  one at the same time reports that the session is still open. `_require_ready` may
  overwrite CLOSED by UNAVAILABLE. `status` reads `call_started` more than once, without the lock.
  A sweep or a close that meets a guard held by a shutdown that then times out leaves an
  engine session open until the next shutdown.
* *Definitions.* A DROP INDEX that fails after its publication (`database.py:1012-1025`) leaves maps
  that disagree, and a CREATE INDEX after it can write a registry that names a missing file;
  `halfDone` marks it, and `RegistryFindsFiles` and `ChangesAreWhole` let it off. The file of a
  spatial index is named after its table; one that stays behind blocks the creation of a
  table of that name. An UPDATE that is cancelled restores its rows under the
  same cancellation; over a spatial table the restoration can fail by it, and the owner
  becomes unavailable. A change that is cancelled after its publication reports ABORTED,
  like CREATE. DROP TABLE stopped by the close of a handle keeps its entries in the catalog. UPDATE is not
  atomic over the end of the process, which `docs/SQL_DDL_DML_EXTENSIONS.md:21` says.

## What is not modelled

* A second thread that uses a session besides `cancel` (see the plan).
* The limit on active transactions; a release of locks that raises.
* Of CREATE in the engine: the size and encoding of the manifest, tables without a primary key (one file
  fewer, the same steps), and a compensation whose unregistration itself raises, which no
  state of this model causes.
* Power loss: the marker's directory entry is not synchronised, and the contract
  (`docs/transactions.md:45`) excludes it. Only the end of the process is modelled.
* Checksums, encodings of pages, rows and nodes, sealing, latches and metrics. A torn write
  is one that readers reject.
* Lexing and parsing, cost estimates, parameters; the bindings and operators of spatial, text
  and vector search in SQL; the ordered grouping over an index; a workspace whose constructor
  fails (`temp_files.py:102-128`).
* Of the service: translation of requests and answers, the status route, readers of uploaded files, `_verify_idle`, the refusal to
  drop the index of a primary key, suffixes of generated names, and the order of several tables in the registry. A pass over the
  sessions that cancels each is one step; an HTTP call makes one engine call. The markers of
  the undo store at the end of the process are left to the run `undo`.
* The row operations of the index adapters (`insert_record`, `delete_record`,
  `update_record`): only benchmarks and tests call them. (The B+ adapter does not mark the
  index incomplete after a double failure, unlike the hash adapter.)
* Of text retrieval: tokenisation, receipts and hashes of files, the registry, the
  publication of a build and the steps of the seal. Multimedia retrieval: approximate vector search
  over floating-point numbers with randomised construction. Observability and error records. The frontend.

## Plan

1. **LockManager, Transactions, UndoStore, SchemaChange, MetadataGate** (done), with their
   proofs.
2. **Indexes, Maintenance and storage; Queries and operators; Service** (done), with the proofs
   of `Grants` and `Service`.
3. **Proofs**: results, storage, the order of rows, maintenance and temporary files (done). Left are the
   structures behind the indexes
   (`StructureIsValid`, from invariants of the trees instead of their construction), and the
   answers (`AnswersAreRight`), join by join.
4. **Models**: a second thread on a cursor (`executor.py:792`); the SQL bindings of spatial search over
   `RTree`; the double subtraction of `TempFiles` and the half-done DROP INDEX as runs of
   their own, each against the comment it contradicts.
