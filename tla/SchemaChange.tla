----------------------------- MODULE SchemaChange -----------------------------
(***************************************************************************)
(* CREATE TABLE: engine/database/owner.py under the schema lock and the    *)
(* metadata gate of engine/transactions/session.py, beside statements that *)
(* plan their access without either (resources.py), prepare and list calls *)
(* in the gate, the end of the process at any step and the next open.      *)
(*                                                                         *)
(* A table is a name and an identity; its files are a heap and the B+ tree *)
(* of its primary key.  The schema lock is what the lock manager promises: *)
(* many holders of S, or one of X.                                         *)
(***************************************************************************)
EXTENDS Functions

CONSTANTS Creators,   \* threads that execute a CREATE
          Users,      \* sessions that execute a statement on one table
          Listers,    \* threads that prepare a query or list the tables
          Names, Ids, \* table names; file identities (uuid4)
          Nobody, NoName, NoId

ASSUME NobodyAssumption == Nobody \notin Creators
ASSUME NoNameAssumption == NoName \notin Names
ASSUME NoIdAssumption   == NoId \notin Ids
ASSUME ThreadsAssumption == Creators \intersect (Users \union Listers) = {}

VARIABLES
    \* on disk
    manifest,  \* database.json: the tables, <<name, identity>>
    files,     \* managed files, <<identity, kind>>
    \* the owner's registries, each with the tables it knows
    catalog,   \* Catalog: table and index metadata
    runtime,   \* QueryEnvironment, _storages, _indexes, _paths: open handles
    resources, \* ResourceCatalog._tables
    current,   \* _manifest
    available, \* _available
    up,        \* a process owns the directory
    \* threads
    step,      \* where a creator or a user is
    want,      \* the table a creator makes or a user planned
    holdsX,    \* the creator with schema X
    holdsS,    \* the users with schema S
    locked,    \* the identity whose table lock a user holds
    stale,     \* unlisted files that were there when the database was opened
    committed, \* the tables of CREATEs reported COMMITTED
    reading, writing, waitingReaders, waitingWriters

gateVars   == <<reading, writing, waitingReaders, waitingWriters>>
diskVars   == <<manifest, files>>
ownerVars  == <<catalog, runtime, resources, current, available>>
lockVars   == <<holdsX, holdsS, locked>>
reportVars == <<stale, committed>>
vars == <<diskVars, ownerVars, up, step, want, lockVars, reportVars, gateVars>>

Gate == INSTANCE MetadataGate WITH Threads <- Creators \union Listers

Kinds   == {"heap", "bpt"}
NoTable == <<NoName, NoId>>
FilesOf(tables) == {<<t[2], k>> : t \in tables, k \in Kinds}

CreatorSteps == {"idle", "schema", "gate", "validate", "heap", "index",
                 "catalog", "runtime", "resources", "manifest", "published",
                 "commit", "unresource", "unregister", "close", "unlinkIndex",
                 "unlinkHeap", "failed", "abort"}
UserSteps == {"idle", "schema", "table", "validate", "using"}

Goto(t, s) == step' = [step EXCEPT ![t] = s]
At(t, s)   == step[t] = s
Name(t) == want[t][1]
Id(t)   == want[t][2]

NamesOf(tables) == {t[1] : t \in tables}
IdsOf(tables)   == {t[2] : t \in tables}

AllIdle   == [t \in Creators \union Users |-> "idle"]
WantsNone == [t \in Creators \union Users |-> NoTable]
LocksNone == [u \in Users |-> NoId]

\* Database.create: a manifest without tables.
Init ==
    /\ manifest = {}
    /\ files = {}
    /\ catalog = {} /\ runtime = {} /\ resources = {}
    /\ current = {}
    /\ available = TRUE
    /\ up = TRUE
    /\ step = AllIdle
    /\ want = WantsNone
    /\ holdsX = Nobody /\ holdsS = {} /\ locked = LocksNone
    /\ stale = {}
    /\ committed = {}
    /\ Gate!Init

-----------------------------------------------------------------------------
(***************************************************************************)
(* CREATE: schema X, the gate, validation                                  *)
(***************************************************************************)
\* An implicit transaction begins and plans schema X; it needs no table.
StartCreate(c, n) ==
    /\ up
    /\ At(c, "idle")
    /\ want' = [want EXCEPT ![c] = <<n, NoId>>]
    /\ Goto(c, "schema")
    /\ UNCHANGED <<diskVars, ownerVars, up, lockVars, reportVars, gateVars>>

LockSchemaX(c) ==
    /\ At(c, "schema")
    /\ holdsX = Nobody
    /\ holdsS = {}
    /\ holdsX' = c
    /\ Goto(c, "gate")
    /\ UNCHANGED <<diskVars, ownerVars, up, want, holdsS, locked, reportVars, gateVars>>

\* Deadline, cancellation or quarantine; and a cancel seen before the gate.
LockSchemaXFails(c) ==
    /\ step[c] \in {"schema", "gate"}
    /\ Gate!Outside(c)
    /\ Goto(c, "abort")
    /\ UNCHANGED <<diskVars, ownerVars, up, want, lockVars, reportVars, gateVars>>

CallGate(c) ==
    /\ At(c, "gate")
    /\ Gate!CallWrite(c)
    /\ UNCHANGED <<diskVars, ownerVars, up, step, want, lockVars, reportVars>>

EnterGate(c) ==
    /\ At(c, "gate")
    /\ Gate!EnterWrite(c)
    /\ Goto(c, "validate")
    /\ UNCHANGED <<diskVars, ownerVars, up, want, lockVars, reportVars>>

UsedIds == IdsOf(current) \union {f[1] : f \in files}

\* validate_create: the owner is available, the manifest on disk is its own, and
\* the name is free.
MayCreate(n) == available /\ manifest = current /\ n \notin NamesOf(catalog)

\* validate_create, then an identity that no table and no file has.
Validate(c, i) ==
    /\ At(c, "validate")
    /\ MayCreate(Name(c))
    /\ i \notin UsedIds
    /\ want' = [want EXCEPT ![c] = <<Name(c), i>>]
    /\ Goto(c, "heap")
    /\ UNCHANGED <<diskVars, ownerVars, up, lockVars, reportVars, gateVars>>

\* A validation error or a cancellation: nothing has been made.
Refuse(c) ==
    /\ At(c, "validate")
    /\ Goto(c, "failed")
    /\ UNCHANGED <<diskVars, ownerVars, up, want, lockVars, reportVars, gateVars>>

-----------------------------------------------------------------------------
(***************************************************************************)
(* create_table: files, registries, manifest                               *)
(***************************************************************************)
MakeFile(c, at, kind, next) ==
    /\ At(c, at)
    /\ <<Id(c), kind>> \notin files
    /\ files' = files \union {<<Id(c), kind>>}
    /\ Goto(c, next)
    /\ UNCHANGED <<manifest, ownerVars, up, want, lockVars, reportVars, gateVars>>

MakeHeap(c)  == MakeFile(c, "heap", "heap", "index")
MakeIndex(c) == MakeFile(c, "index", "bpt", "catalog")

\* A name or an identity that a registry has already would be an error.
RegisterCatalog(c) ==
    /\ At(c, "catalog")
    /\ Name(c) \notin NamesOf(catalog)
    /\ catalog' = catalog \union {want[c]}
    /\ Goto(c, "runtime")
    /\ UNCHANGED <<diskVars, runtime, resources, current, available, up, want,
                   lockVars, reportVars, gateVars>>

RegisterRuntime(c) ==
    /\ At(c, "runtime")
    /\ Name(c) \notin NamesOf(runtime)
    /\ runtime' = runtime \union {want[c]}
    /\ Goto(c, "resources")
    /\ UNCHANGED <<diskVars, catalog, resources, current, available, up, want,
                   lockVars, reportVars, gateVars>>

RegisterResources(c) ==
    /\ At(c, "resources")
    /\ Name(c) \notin NamesOf(resources)
    /\ Id(c) \notin IdsOf(resources)
    /\ resources' = resources \union {want[c]}
    /\ Goto(c, "manifest")
    /\ UNCHANGED <<diskVars, catalog, runtime, current, available, up, want,
                   lockVars, reportVars, gateVars>>

\* Fault: the directory's fsync fails after the replacement, and that is an error.
WriteManifestSyncFails(c) ==
    /\ At(c, "manifest")
    /\ manifest' = current \union {want[c]}
    /\ \/ current' = manifest' /\ Goto(c, "published")
       \/ UNCHANGED current /\ Goto(c, "unresource")
    /\ UNCHANGED <<files, catalog, runtime, resources, available, up, want,
                   lockVars, reportVars, gateVars>>

\* Fault: the new manifest is kept in memory and not written.
WriteManifestLater(c) ==
    /\ At(c, "manifest")
    /\ current' = current \union {want[c]}
    /\ Goto(c, "published")
    /\ UNCHANGED <<diskVars, catalog, runtime, resources, available, up, want,
                   lockVars, reportVars, gateVars>>

\* write_manifest_atomic: os.replace, after which no failure counts.
WriteManifest(c) ==
    /\ At(c, "manifest")
    /\ manifest' = current \union {want[c]}
    /\ current' = manifest'
    /\ Goto(c, "published")
    /\ UNCHANGED <<files, catalog, runtime, resources, available, up, want,
                   lockVars, reportVars, gateVars>>

-----------------------------------------------------------------------------
(***************************************************************************)
(* Compensation, inside the gate                                           *)
(***************************************************************************)
\* The handler undoes what has been done so far.  HeapFile.create and the
\* index build may fail with their file on disk, which Compensate covers: the
\* file's step has then been taken.
Compensate(c) ==
    /\ \/ /\ step[c] \in {"heap", "index", "catalog"}
          /\ Goto(c, "close")
       \/ /\ step[c] \in {"runtime", "resources"}
          /\ Goto(c, "unregister")
       \/ /\ At(c, "manifest")
          /\ Goto(c, "unresource")
    /\ UNCHANGED <<diskVars, ownerVars, up, want, lockVars, reportVars, gateVars>>

Without(tables, n) == {t \in tables : t[1] # n}

UnregisterResources(c) ==
    /\ At(c, "unresource")
    /\ resources' = Without(resources, Name(c))
    /\ Goto(c, "unregister")
    /\ UNCHANGED <<diskVars, catalog, runtime, current, available, up, want,
                   lockVars, reportVars, gateVars>>

\* _rollback_publication
UnregisterTable(c) ==
    /\ At(c, "unregister")
    /\ runtime' = Without(runtime, Name(c))
    /\ catalog' = Without(catalog, Name(c))
    /\ Goto(c, "close")
    /\ UNCHANGED <<diskVars, resources, current, available, up, want,
                   lockVars, reportVars, gateVars>>

\* Handles close; one that does not makes the owner unavailable.
CloseHandles(c) ==
    /\ At(c, "close")
    /\ available' \in {available, FALSE}
    /\ Goto(c, "unlinkIndex")
    /\ UNCHANGED <<diskVars, catalog, runtime, resources, current, up, want,
                   lockVars, reportVars, gateVars>>

\* Fault: a file that was not registered is not looked for.
UnlinkRegistered(c, at, kind, next) ==
    /\ At(c, at)
    /\ \/ /\ files' = IF kind = "bpt" THEN files ELSE files \ {<<Id(c), kind>>}
          /\ UNCHANGED available
       \/ available' = FALSE /\ UNCHANGED files
    /\ Goto(c, next)
    /\ UNCHANGED <<manifest, catalog, runtime, resources, current, up, want,
                   lockVars, reportVars, gateVars>>

\* unlink(missing_ok), or the owner becomes unavailable and the file stays.
Unlink(c, at, kind, next) ==
    /\ At(c, at)
    /\ \/ files' = files \ {<<Id(c), kind>>} /\ UNCHANGED available
       \/ available' = FALSE /\ UNCHANGED files
    /\ Goto(c, next)
    /\ UNCHANGED <<manifest, catalog, runtime, resources, current, up, want,
                   lockVars, reportVars, gateVars>>

UnlinkIndex(c) == Unlink(c, "unlinkIndex", "bpt", "unlinkHeap")
UnlinkHeap(c)  == Unlink(c, "unlinkHeap", "heap", "failed")

-----------------------------------------------------------------------------
(***************************************************************************)
(* The end of a CREATE                                                     *)
(***************************************************************************)
\* The gate is left; a cancellation is looked for once more, then the
\* transaction, which has touched nothing, is committed or aborted.
LeaveGate(c) ==
    /\ step[c] \in {"published", "failed"}
    /\ Gate!LeaveWrite(c)
    /\ \/ At(c, "published") /\ Goto(c, "commit")
       \/ Goto(c, "abort")
    /\ UNCHANGED <<diskVars, ownerVars, up, want, lockVars, reportVars>>

UnlockX(c) == holdsX' = IF holdsX = c THEN Nobody ELSE holdsX

\* COMMITTED or ABORTED, release_all, and the call returns.
Finish(c) ==
    /\ step[c] \in {"commit", "abort"}
    /\ committed' = IF At(c, "commit") THEN committed \union {want[c]} ELSE committed
    /\ UnlockX(c)
    /\ want' = [want EXCEPT ![c] = NoTable]
    /\ Goto(c, "idle")
    /\ UNCHANGED <<diskVars, ownerVars, up, holdsS, locked, stale, gateVars>>

-----------------------------------------------------------------------------
(***************************************************************************)
(* Statements: plan, lock, validate, execute                               *)
(***************************************************************************)
\* resources.plan, before any lock: another thread's CREATE may be half way.  A
\* name that is in one of the registries only is an error.
Plan(u, t) ==
    /\ up
    /\ At(u, "idle")
    /\ t[1] \in NamesOf(catalog)
    /\ t \in resources
    /\ want' = [want EXCEPT ![u] = t]
    /\ Goto(u, "schema")
    /\ UNCHANGED <<diskVars, ownerVars, up, lockVars, reportVars, gateVars>>

LockSchemaS(u) ==
    /\ At(u, "schema")
    /\ holdsX = Nobody
    /\ holdsS' = holdsS \union {u}
    /\ Goto(u, "table")
    /\ UNCHANGED <<diskVars, ownerVars, up, want, holdsX, locked, reportVars, gateVars>>

\* A writer's lock on the identity that was planned.
LockTable(u) ==
    /\ At(u, "table")
    /\ Id(u) \notin Range(locked)
    /\ locked' = [locked EXCEPT ![u] = Id(u)]
    /\ Goto(u, "validate")
    /\ UNCHANGED <<diskVars, ownerVars, up, want, holdsX, holdsS, reportVars, gateVars>>

\* Fault: some table of the name is enough.
StillPlannedName(u) == Name(u) \in NamesOf(resources)

\* resources.validate; a changed identity is not refreshed either, because the
\* refreshed plan asks for another resource.
StillPlanned(u) == want[u] \in resources

ValidatePlan(u) ==
    /\ At(u, "validate")
    /\ StillPlanned(u)
    /\ Goto(u, "using")
    /\ UNCHANGED <<diskVars, ownerVars, up, want, lockVars, reportVars, gateVars>>

\* A wait that fails, a stale plan, or the end of the group: all locks go.
ReleaseLocks(u) ==
    /\ ~At(u, "idle")
    /\ holdsS' = holdsS \ {u}
    /\ locked' = [locked EXCEPT ![u] = NoId]
    /\ want' = [want EXCEPT ![u] = NoTable]
    /\ Goto(u, "idle")
    /\ UNCHANGED <<diskVars, ownerVars, up, holdsX, reportVars, gateVars>>

-----------------------------------------------------------------------------
(***************************************************************************)
(* Prepare and list calls; the end of the process and the next open        *)
(***************************************************************************)
CallList(l) ==
    /\ up
    /\ Gate!CallRead(l)
    /\ UNCHANGED <<diskVars, ownerVars, up, step, want, lockVars, reportVars>>

EnterList(l) ==
    /\ Gate!EnterRead(l)
    /\ UNCHANGED <<diskVars, ownerVars, up, step, want, lockVars, reportVars>>

LeaveList(l) ==
    /\ Gate!LeaveRead(l)
    /\ UNCHANGED <<diskVars, ownerVars, up, step, want, lockVars, reportVars>>

\* The registries of a process that has read these tables.
Load(tables) ==
    /\ catalog' = tables
    /\ runtime' = tables
    /\ resources' = tables
    /\ current' = tables
    /\ available' = TRUE

Crash ==
    /\ up
    /\ up' = FALSE
    /\ step' = AllIdle
    /\ want' = WantsNone
    /\ holdsX' = Nobody /\ holdsS' = {} /\ locked' = LocksNone
    /\ Load({})
    /\ reading' = {} /\ writing' = {} /\ waitingReaders' = {} /\ waitingWriters' = {}
    /\ UNCHANGED <<diskVars, reportVars>>

\* Database.open, which fails when a listed file is missing.
Reopen ==
    /\ ~up
    /\ FilesOf(manifest) \subseteq files
    /\ up' = TRUE
    /\ Load(manifest)
    /\ stale' = files \ FilesOf(manifest)
    /\ UNCHANGED <<diskVars, step, want, lockVars, committed, gateVars>>

CreatorNext(c) ==
    \/ LockSchemaX(c) \/ LockSchemaXFails(c) \/ CallGate(c) \/ EnterGate(c)
    \/ \E i \in Ids : Validate(c, i)
    \/ Refuse(c)
    \/ MakeHeap(c) \/ MakeIndex(c)
    \/ RegisterCatalog(c) \/ RegisterRuntime(c) \/ RegisterResources(c)
    \/ WriteManifest(c)
    \/ Compensate(c) \/ UnregisterResources(c) \/ UnregisterTable(c)
    \/ CloseHandles(c) \/ UnlinkIndex(c) \/ UnlinkHeap(c)
    \/ LeaveGate(c) \/ Finish(c)

UserNext(u) ==
    \/ \E t \in resources : Plan(u, t)
    \/ LockSchemaS(u) \/ LockTable(u) \/ ValidatePlan(u) \/ ReleaseLocks(u)

Next ==
    \/ \E c \in Creators, n \in Names : StartCreate(c, n)
    \/ \E c \in Creators : CreatorNext(c)
    \/ \E u \in Users : UserNext(u)
    \/ \E l \in Listers : CallList(l) \/ EnterList(l) \/ LeaveList(l)
    \/ Crash
    \/ Reopen

Spec == Init /\ [][Next]_vars

(* The thread of a CREATE runs while it can, which includes the deadline of   *)
(* its lock wait, and prepare and list calls leave the gate.  notify_all      *)
(* wakes whoever waits at the gate, and a reader that finds it free again and *)
(* again gets in.  Nobody else owes a step, and no new call has to come.      *)
FairSpec ==
    /\ Spec
    /\ \A c \in Creators : WF_vars(CreatorNext(c))
    /\ \A l \in Listers : SF_vars(EnterList(l)) /\ WF_vars(LeaveList(l))

-----------------------------------------------------------------------------
(***************************************************************************)
(* Properties                                                              *)
(***************************************************************************)
\* Types of all variables, and no CREATE has returned with schema X still held
\* (session.py:964-990): nobody would ever run a statement again.
TypeOK ==
    /\ manifest \subseteq Names \X Ids
    /\ files \subseteq Ids \X Kinds
    /\ catalog \subseteq Names \X Ids
    /\ runtime \subseteq Names \X Ids
    /\ resources \subseteq Names \X Ids
    /\ current \subseteq Names \X Ids
    /\ available \in BOOLEAN /\ up \in BOOLEAN
    /\ step \in [Creators \union Users -> CreatorSteps \union UserSteps]
    /\ \A c \in Creators : step[c] \in CreatorSteps
    /\ \A u \in Users : step[u] \in UserSteps
    /\ want \in [Creators \union Users -> (Names \union {NoName}) \X (Ids \union {NoId})]
    /\ holdsX \in Creators \union {Nobody}
    /\ holdsS \subseteq Users
    /\ locked \in [Users -> Ids \union {NoId}]
    /\ stale \subseteq Ids \X Kinds
    /\ committed \subseteq Names \X Ids
    /\ Gate!TypeOK
    /\ holdsX # Nobody => ~At(holdsX, "idle")

\* Every table the manifest lists has its files, whenever the process ends and
\* whatever a CREATE has undone: the next open succeeds (owner.py:230-239).
ManifestFindsFiles == FilesOf(manifest) \subseteq files

\* A CREATE that was reported COMMITTED is in the manifest for good, also when
\* the process ends right after the report (owner.py:597-599).
CommittedStays == committed \subseteq manifest

\* Whoever is in the gate or holds schema S finds the same tables in every
\* registry and on disk: no CREATE is half published, none half undone
\* (gate.py:14-18, docs/transactions.md:25).
SchemaIsWhole ==
    reading # {} \/ holdsS # {} =>
        /\ current = manifest
        /\ catalog = manifest
        /\ runtime = manifest
        /\ resources = manifest

\* A statement runs on the very table it has locked, although it planned its
\* access before it had any lock and the table may have been undone and made
\* again in between (session.py:504-527, resources.py:240-262).
UsersLockWhatTheyUse ==
    \A u \in Users : At(u, "using") =>
        /\ <<Name(u), locked[u]>> \in runtime \intersect manifest
        /\ \A t \in runtime : t[1] = Name(u) => t[2] = locked[u]

MakingFiles == {"index", "catalog", "runtime", "resources", "manifest", "unresource",
                "unregister", "close", "unlinkIndex", "unlinkHeap"}

\* A failed CREATE leaves no file behind in an owner that is still available:
\* an unlisted file was there when the database was opened (owner.py:601-635).
NothingLeftBehind ==
    up /\ available /\ (\A c \in Creators : step[c] \notin MakingFiles) =>
        files \subseteq FilesOf(manifest) \union stale

\* Nobody is kept from the gate for ever.  Every CREATE returns although prepare and
\* list calls keep coming, because a waiting writer keeps new readers out
\* (gate.py:28, 42).  A prepare or list call gets in, or goes with its process,
\* however many CREATEs come: the gate alone prefers writers, and two that take
\* turns at the door would keep readers out, but schema X lets only one CREATE at a
\* time to the gate (session.py:966-976).
EverybodyGetsThrough ==
  /\ \A c \in Creators : ~At(c, "idle") ~> At(c, "idle")
  /\ \A l \in Listers : l \in waitingReaders ~> l \notin waitingReaders

\* "transaction abort must restore the group's original state"
\* (docs/transactions.md:42).  A CREATE that is cancelled between its
\* publication and its commit ends ABORTED, and its table stays.
AbortedCreateIsUndone == \A c \in Creators : At(c, "abort") => want[c] \notin manifest
=============================================================================
