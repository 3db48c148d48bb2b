------------------------------ MODULE GuiTables ------------------------------
(* The definitions a running server may change: CREATE TABLE, CREATE INDEX,     *)
(* DROP INDEX, DROP TABLE and UPDATE of api/database.py over the registry       *)
(* gui_tables.json (api/gui_tables.py).  One change runs at a time, under        *)
(* schema X and the metadata gate, so nobody sees the owner's maps between two   *)
(* steps; the process may end between any two, and then only the disk is left.   *)
(*                                                                               *)
(* One table name stands for all.  A file identity is never used twice while a   *)
(* file or a map still has it; the spatial index file alone is named after the   *)
(* table.  An index is named by its identity.                                    *)
EXTENDS FiniteSets

CONSTANTS TableIds, IndexIds, NoTable, SpatialFile, NoChange

\* Identities are random and never run out; no table has that of an index.
ASSUME IdentitiesAssumption ==
  /\ TableIds # {} /\ IndexIds # {} /\ TableIds \intersect IndexIds = {}
  /\ NoTable \notin TableIds /\ SpatialFile \notin TableIds \union IndexIds

VARIABLES
  registry,    \* gui_tables.json
  files,       \* the identities whose files exist
  rows,        \* the table's rows: [state, stale], stale the indexes that lag behind
  memory,      \* the owner's maps, one view of the table each
  available,   \* Database._available
  change,      \* the change in progress
  halfDone     \* a DROP has stopped between its publication and its end

tableVars == <<registry, files, rows, memory, available, change, halfDone>>

NoView == [table |-> NoTable, indexes |-> {}, spatial |-> FALSE]
Views == [table: TableIds, indexes: SUBSET IndexIds, spatial: BOOLEAN]
AllViews == [table: TableIds \union {NoTable}, indexes: SUBSET IndexIds, spatial: BOOLEAN]

\* The maps of the owner that hold the table: the registry entries, the table
\* definitions, the catalog, the runtime registrations, the handles, the lockable
\* resources.
Maps == {"gui", "tables", "catalog", "environment", "handles", "resources"}
Everywhere(view) == [map \in Maps |-> view]

Changes ==
  [op: {"create table", "create index", "drop index", "drop table", "update"},
   at: {"files", "spatial", "registry", "undo", "refused", "unlinking", "build",
        "resources", "release", "unlink", "rewrite", "rebuild", "restore", "done", "failed"},
   view: AllViews, left: SUBSET (TableIds \union IndexIds \union {SpatialFile}),
   was: [Maps -> AllViews]]
ASSUME NoChangeAssumption == NoChange \notin Changes

Settled == [state |-> "old", stale |-> {}]
FilesOf(view) ==
  (IF view.table = NoTable THEN {} ELSE {view.table}) \union view.indexes
    \union (IF view.spatial THEN {SpatialFile} ELSE {})

\* A fresh identity names no file and is in no map and not in the registry.
FreshIdentity(id) ==
  /\ id \notin files \union FilesOf(registry)
  /\ \A map \in Maps : id \notin FilesOf(memory[map])

Change(op, at, view, left) ==
  [op |-> op, at |-> at, view |-> view, left |-> left, was |-> memory]

Goes(at) == change' = [change EXCEPT !.at = at]
Returns == Goes("done")
\* The call raises; the files in left are still to be removed.
Raises(left) ==
  change' = [change EXCEPT !.at = IF left = {} THEN "failed" ELSE "unlinking",
                           !.left = left]

At(op, at) == change # NoChange /\ change.op = op /\ change.at = at

-----------------------------------------------------------------------------
\* The registry is replaced by what memory says of every table, or not at all.
WriteRegistry(view) == registry' = view

\* Every check of a CREATE TABLE passes except the last, on the files it would make.
StartCreateTable(view) ==
  /\ change = NoChange
  /\ memory["catalog"].table = NoTable
  /\ FreshIdentity(view.table) /\ \A i \in view.indexes : FreshIdentity(i)
  /\ change' = Change("create table",
                      IF FilesOf(view) \intersect files = {} THEN "files" ELSE "refused",
                      view, FilesOf(view))
  /\ UNCHANGED <<registry, files, rows, memory, available, halfDone>>

\* The storage is filled and every index built; a failure leaves any of the files.
BuildFiles ==
  /\ At("create table", "files")
  /\ LET wanted == FilesOf(change.view) \ {SpatialFile}
     IN  \/ /\ files' = files \union wanted
            /\ rows' = Settled
            /\ Goes("spatial")
         \/ \E made \in SUBSET wanted :
              /\ files' = files \union made
              /\ Goes("undo")
              /\ UNCHANGED rows
  /\ UNCHANGED <<registry, memory, available, halfDone>>

\* The spatial index is built under the caller's cancellation, after the other maps
\* have the table.
BuildSpatial(cancelled) ==
  /\ At("create table", "spatial")
  /\ \/ /\ change.view.spatial => ~cancelled
        /\ memory' = Everywhere(change.view)
        /\ files' = files \union FilesOf(change.view)
        /\ Goes("registry")
     \/ /\ change.view.spatial
        /\ Goes("undo")
        /\ UNCHANGED <<files, memory>>
  /\ UNCHANGED <<registry, rows, available, halfDone>>

PublishTable ==
  /\ At("create table", "registry")
  /\ \/ WriteRegistry(memory["gui"]) /\ Returns
     \/ UNCHANGED registry /\ Goes("undo")
  /\ UNCHANGED <<files, rows, memory, available, halfDone>>

\* Compensation goes on past its own failures, which make the owner unavailable.
UnpublishTable ==
  /\ At("create table", "undo")
  /\ memory' = Everywhere(NoView)
  /\ available' \in {available, FALSE}
  /\ Raises(change.left \intersect files)
  /\ UNCHANGED <<registry, files, rows, halfDone>>

-----------------------------------------------------------------------------
\* A table whose storage handle is gone raises before anything else.
Writable == memory["handles"].table # NoTable

StartCreateIndex(i) ==
  /\ change = NoChange
  /\ memory["gui"].table # NoTable
  /\ Writable
  /\ FreshIdentity(i)
  /\ change' = Change("create index", "build", [NoView EXCEPT !.indexes = {i}], {i})
  /\ UNCHANGED <<registry, files, rows, memory, available, halfDone>>

Adds(view) == [view EXCEPT !.indexes = @ \union change.view.indexes]
Removes(view) == [view EXCEPT !.indexes = @ \ change.view.indexes]

\* Catalog, file, runtime and definitions, in memory and in the new file only.
BuildIndex ==
  /\ At("create index", "build")
  /\ \/ /\ files' = files \union change.left
        /\ memory' = [map \in Maps |->
             IF map = "resources" THEN memory[map] ELSE Adds(memory[map])]
        /\ Goes("registry")
     \/ /\ files' \in {files, files \union change.left}
        /\ Raises(change.left)
        /\ UNCHANGED memory
  /\ UNCHANGED <<registry, rows, available, halfDone>>

\* Fault: the table definition keeps the index.
IndexRestoredPartly(current) ==
  [map \in Maps |->
     CASE map = "gui" -> change.was["gui"]
       [] map \in {"tables", "resources"} -> current[map]
       [] OTHER -> Removes(current[map])]

\* The handler puts the two definitions back and takes the index out of the other
\* maps; nobody is told of what it cannot do.
IndexRestored(current) ==
  [map \in Maps |->
     CASE map \in {"gui", "tables"} -> change.was["gui"]
       [] map = "resources" -> current["resources"]
       [] OTHER -> Removes(current[map])]

\* Fault: a write that reports a failure has replaced the file.
PublishIndexAnyway ==
  /\ At("create index", "registry")
  /\ WriteRegistry(memory["gui"])
  /\ \/ Goes("resources") /\ UNCHANGED memory
     \/ memory' = IndexRestored(memory) /\ Raises(change.left)
  /\ UNCHANGED <<files, rows, available, halfDone>>

PublishIndex ==
  /\ At("create index", "registry")
  /\ \/ /\ WriteRegistry(memory["gui"])
        /\ Goes("resources")
        /\ UNCHANGED memory
     \/ /\ memory' = IndexRestored(memory)
        /\ Raises(change.left)
        /\ UNCHANGED registry
  /\ UNCHANGED <<files, rows, available, halfDone>>

\* unregister raises for a table that is not there, register for one whose files are
\* not those of the catalog's indexes; by then the old entry is gone.
Reregisters(current) ==
  /\ current["resources"].table # NoTable
  /\ current["catalog"].indexes = current["tables"].indexes
Reregistered(current) ==
  [current EXCEPT !["resources"] =
     IF Reregisters(current) THEN current["tables"] ELSE NoView]

RegisterIndex ==
  /\ At("create index", "resources")
  /\ IF Reregisters(memory)
     THEN memory' = Reregistered(memory) /\ Returns
     ELSE memory' = IndexRestored(Reregistered(memory)) /\ Raises(change.left)
  /\ UNCHANGED <<registry, files, rows, available, halfDone>>

-----------------------------------------------------------------------------
StartDropIndex(i) ==
  /\ change = NoChange
  /\ i \in memory["catalog"].indexes /\ i \in memory["gui"].indexes
  /\ Writable
  /\ change' = Change("drop index", "registry", [NoView EXCEPT !.indexes = {i}], {i})
  /\ UNCHANGED <<registry, files, rows, memory, available, halfDone>>

\* The registry goes first: what follows may leave a file, never a name without one.
UnpublishIndex ==
  /\ At("drop index", "registry")
  /\ \/ /\ WriteRegistry(Removes(memory["gui"]))
        /\ memory' = [memory EXCEPT !["gui"] = Removes(@)]
        /\ Goes("release")
     \/ /\ Raises({})
        /\ UNCHANGED <<registry, memory>>
  /\ UNCHANGED <<files, rows, available, halfDone>>

\* Nothing is put back when closing the index fails: the catalog, the handles and the
\* resources keep it.
ReleaseIndex ==
  /\ At("drop index", "release")
  /\ LET unbound == [memory EXCEPT !["tables"] = memory["gui"],
                                   !["environment"] = Removes(@)]
         released == [unbound EXCEPT !["catalog"] = Removes(@), !["handles"] = Removes(@)]
     IN  \/ /\ Reregisters(released)
            /\ memory' = Reregistered(released)
            /\ Goes("unlink")
            /\ UNCHANGED halfDone
         \/ /\ ~Reregisters(released)
            /\ memory' = Reregistered(released)
            /\ Raises({})
            /\ halfDone' = TRUE
         \/ /\ memory' = unbound
            /\ Raises({})
            /\ halfDone' = TRUE
  /\ UNCHANGED <<registry, files, rows, available>>

-----------------------------------------------------------------------------
StartDropTable ==
  /\ change = NoChange
  /\ memory["gui"].table # NoTable
  /\ Writable
  /\ change' = Change("drop table", "registry", memory["tables"], FilesOf(memory["tables"]))
  /\ UNCHANGED <<registry, files, rows, memory, available, halfDone>>

UnpublishDropped ==
  /\ At("drop table", "registry")
  /\ \/ /\ WriteRegistry(NoView)
        /\ memory' = [memory EXCEPT !["gui"] = NoView]
        /\ Goes("release")
     \/ /\ Raises({})
        /\ UNCHANGED <<registry, memory>>
  /\ UNCHANGED <<files, rows, available, halfDone>>

\* Index by index and then the storage: unregistered, closed, forgotten.  The first
\* that cannot be unregistered or closed stops the call there.
ReleaseTable ==
  /\ At("drop table", "release")
  /\ LET catalogued == memory["catalog"].indexes
         bound == memory["environment"].indexes
         kept == [memory EXCEPT !["resources"] = NoView,
                                !["handles"].spatial = FALSE,
                                !["environment"].spatial = FALSE]
         Without(done, last) ==
           [kept EXCEPT !["handles"].indexes = @ \ (done \union last),
                        !["environment"].indexes = @ \ (done \union last),
                        !["catalog"].indexes = @ \ done]
     IN  \/ /\ memory["resources"].table # NoTable
            /\ catalogued \subseteq bound
            /\ memory' = Everywhere(NoView)
            /\ Goes("unlink")
            /\ UNCHANGED halfDone
         \/ /\ memory["resources"].table = NoTable
            /\ Raises({})
            /\ halfDone' = TRUE
            /\ UNCHANGED memory
         \/ /\ memory["resources"].table # NoTable
            /\ \E done \in SUBSET (catalogued \intersect bound), i \in catalogued :
                 /\ i \notin done
                 /\ memory' = Without(done, {i})
            /\ Raises({})
            /\ halfDone' = TRUE
         \/ /\ memory["resources"].table # NoTable
            /\ catalogued \subseteq bound
            /\ memory' = [Without(catalogued, {}) EXCEPT !["handles"] = NoView,
                                                         !["environment"] = NoView]
            /\ Raises({})
            /\ halfDone' = TRUE
  /\ UNCHANGED <<registry, files, rows, available>>

\* A DROP removes its files last; one that stays fails the call, not the DROP.
UnlinkDropped ==
  /\ change # NoChange /\ change.at = "unlink"
  /\ \/ \E f \in change.left :
          /\ files' = files \ {f}
          /\ change' = [change EXCEPT !.left = @ \ {f},
                                      !.at = IF change.left = {f} THEN "done" ELSE @]
     \/ Raises({}) /\ UNCHANGED files
  /\ UNCHANGED <<registry, rows, memory, available, halfDone>>

\* A CREATE that failed removes what it has made; a file of a table that stays makes
\* the owner unavailable, one of an index does not.
UnlinkCreated ==
  /\ change # NoChange /\ change.at = "unlinking"
  /\ \E f \in change.left :
       /\ \/ files' = files \ {f} /\ UNCHANGED available
          \/ /\ available' = IF change.op = "create table" THEN FALSE ELSE available
             /\ UNCHANGED files
       /\ Raises(change.left \ {f})
  /\ UNCHANGED <<registry, rows, memory, halfDone>>

-----------------------------------------------------------------------------
\* UPDATE deletes and inserts the rows in place; no before-image is kept on disk.
StartUpdate ==
  /\ change = NoChange
  /\ memory["catalog"].table # NoTable
  /\ Writable
  /\ change' = Change("update", "rewrite", memory["tables"], {})
  /\ UNCHANGED <<registry, files, rows, memory, available, halfDone>>

Indexed == memory["catalog"].indexes
             \union (IF memory["handles"].spatial THEN {SpatialFile} ELSE {})

Rewrite ==
  /\ At("update", "rewrite")
  /\ rows' = [state |-> "torn", stale |-> Indexed]
  /\ change' \in {[change EXCEPT !.at = "rebuild"], [change EXCEPT !.at = "restore"]}
  /\ UNCHANGED <<registry, files, memory, available, halfDone>>

\* The rows of an UPDATE or of its restoration are in place and every index is built
\* from them, the spatial one under the caller's cancellation.
Rebuilt(state) == rows' = [state |-> state, stale |-> {}]
Rebuilds(cancelled) ==
  /\ Indexed \ {SpatialFile} \subseteq memory["handles"].indexes
  /\ ~(cancelled /\ SpatialFile \in Indexed)

Rebuild(cancelled) ==
  /\ At("update", "rebuild")
  /\ \/ Rebuilds(cancelled) /\ Rebuilt("new") /\ Returns
     \/ Goes("restore") /\ UNCHANGED rows
  /\ UNCHANGED <<registry, files, memory, available, halfDone>>

\* The restoration runs under the same cancellation as what it restores.
Restore(cancelled) ==
  /\ At("update", "restore")
  /\ \/ Rebuilds(cancelled) /\ Rebuilt("old") /\ UNCHANGED available
     \/ /\ available' = FALSE
        /\ rows' \in {rows} \union {[state |-> "old", stale |-> s] : s \in SUBSET Indexed}
  /\ Raises({})
  /\ UNCHANGED <<registry, files, memory, halfDone>>

-----------------------------------------------------------------------------
\* The call returns or raises; what the rows are now is what the next one starts from.
EndChange ==
  /\ change # NoChange /\ change.at \in {"done", "failed", "refused"}
  /\ change' = NoChange
  /\ rows' = IF rows.state = "new" THEN Settled ELSE rows
  /\ UNCHANGED <<registry, files, memory, available, halfDone>>

ChangeSteps(cancelled) ==
  \/ BuildFiles \/ BuildSpatial(cancelled) \/ PublishTable \/ UnpublishTable
  \/ BuildIndex \/ PublishIndex \/ RegisterIndex
  \/ UnpublishIndex \/ ReleaseIndex
  \/ UnpublishDropped \/ ReleaseTable
  \/ UnlinkDropped \/ UnlinkCreated
  \/ Rewrite \/ Rebuild(cancelled) \/ Restore(cancelled)

\* The process ends: the maps are gone, the files are as they are.
Forget ==
  /\ memory' = Everywhere(NoView)
  /\ available' = TRUE
  /\ change' = NoChange
  /\ UNCHANGED <<registry, files, rows, halfDone>>

\* open asks for every file the registry names and for indexes that cover the rows;
\* a spatial index that is not there is built.
Opens ==
  /\ FilesOf(registry) \ {SpatialFile} \subseteq files
  /\ rows.stale \intersect (FilesOf(registry) \intersect files) = {}

OpenTables ==
  /\ Opens
  /\ memory' = Everywhere(registry)
  /\ files' = files \union FilesOf(registry)
  /\ rows' = Settled
  /\ halfDone' = FALSE
  /\ UNCHANGED <<registry, available, change>>

-----------------------------------------------------------------------------
InitTables ==
  /\ LET first == CHOOSE id \in TableIds : TRUE
         some == CHOOSE id \in IndexIds : TRUE
     IN  registry \in {NoView} \union
           [table: {first}, indexes: {{}, {some}, IndexIds}, spatial: BOOLEAN]
  /\ files = FilesOf(registry)
  /\ rows = Settled
  /\ memory = Everywhere(registry)
  /\ available = TRUE
  /\ change = NoChange
  /\ halfDone = FALSE
=============================================================================
