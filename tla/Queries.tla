------------------------------- MODULE Queries -------------------------------
(***************************************************************************)
(* A SELECT result and its plan (query/executor.py, operators/pipeline.py, *)
(* operators/base.py): one engine executes a prepared query, its cursors   *)
(* are opened, fetched from, closed and left in the middle, and the plan's *)
(* blocking operators use temporary files meanwhile.  What the plan of a   *)
(* query is, and the rows it yields, are parameters here: QueryAnswers has *)
(* those of Planner.  Which files an operator opens, and when, is left     *)
(* open, so the order is that of any of them.  Commands adds what else the *)
(* engine executes.                                                        *)
(***************************************************************************)
EXTENDS TempFiles, FiniteSets

\* The plan of a query; beside each, the operator of Planner that it is.
CONSTANTS Searched(_, _),   \* the index searches of a table (Chosen)
          JoinedBy(_),      \* JoinStrategy
          JoinIndex(_),     \* the index of an index nested loop (InnerIndexOf)
          FitsGrants(_),    \* every blocking operator gets its grant (OpensWithin)
          Delivered(_),     \* its rows, and how they end (PlanRows)
          Unbounded         \* the limit of a call that has none

CONSTANTS Results,      \* the QueryResults made from the prepared query
          NoResult,
          Objects,      \* bound: the handles a table is opened with, one after another
          Cases,        \* the queries; with each, as bounds, the results made of it,
                        \*   the sizes and limits of its fetches, and whether its
                        \*   operators use files and its environment changes
          MaxFiles,     \* bound: entries of a workspace
          MaxFaults     \* bound: input and output operations that fail

\* The results of a case are results of the engine, and none of them is NoResult;
\* its operators use files or not.
ASSUME ResultsAssumption ==
  /\ NoResult \notin Results
  /\ \A case \in Cases : /\ {"results", "spills"} \subseteq DOMAIN case
                         /\ case.results \subseteq Results
                         /\ case.spills \in BOOLEAN

ASSUME FaultsAssumption == MaxFaults \in Nat

VARIABLES query,      \* the statement, and the rows of its tables and indexes
          environment,\* QueryEnvironment: the object registered for each name,
                      \*   and the index definitions of the Catalog
          prepared,   \* PreparedQuery: the environment it was planned in
          state,      \* QueryResult._state, or "none"
          seen,       \* the tables when the plan of a result was opened
          rows,       \* the rows a result has delivered
          error,      \* QueryResult._error
          active,     \* SqlEngine._active_result
          call,       \* the call being served
          answer,     \* what is left of the rows of the open plan
          workspace   \* of the open, or the last, plan

envVars == <<query, environment, prepared, seen>>
vars == <<query, environment, prepared, seen, state, rows, error, active, call, answer, workspace>>

NoCall   == [result |-> NoResult, phase |-> "none", wanted |-> 0, limit |-> Unbounded]
NoAnswer == [rows |-> <<>>, end |-> "ok"]
Terminal == {"COMPLETE", "CLOSED", "FAILED"}
Idle     == call = NoCall

QueriesInit ==
  /\ \E case \in Cases :
       query = [case EXCEPT !.holds = [i \in case.indexes |-> ToSet(case.tables[i.table])]]
  /\ environment = [storage |-> [t \in DOMAIN query.tables |-> 1],
                    index   |-> [i \in query.indexes |-> IF i \in query.later THEN 0 ELSE 1],
                    defined |-> query.indexes \ query.later]
  /\ seen = [r \in Results |-> query.tables]
  /\ prepared = environment
  /\ state = [r \in Results |-> "none"]
  /\ rows = [r \in Results |-> <<>>]
  /\ error = [r \in Results |-> "none"]
  /\ active = NoResult
  /\ call = NoCall
  /\ answer = NoAnswer
  /\ workspace = Fresh(IF query.spills THEN MaxFaults ELSE 0)

-----------------------------------------------------------------------------
(* The environment *)

\* storage_for, and index_for: an index answers for the storage it was built on.
HasStorage(t)   == environment.storage[t] # 0
HasIndex(i)     == HasStorage(i.table) /\ environment.index[i] = environment.storage[i.table]

\* registered_indexes_for: a plan considers the indexes it finds registered.
Plan == [query EXCEPT !.indexes = {i \in @ : prepared.index[i] # 0}]

PlanIndexes ==
  {s.index : s \in UNION {Searched(Plan, t) : t \in DOMAIN query.tables}}
    \union (IF JoinedBy(Plan) = "index" THEN {JoinIndex(Plan)} ELSE {})

\* SelectPlanSpec.validate: every relation and every index of the plan is still
\* there, and still the object it was planned with.
Stale ==
  \/ \E t \in DOMAIN query.tables : environment.storage[t] # prepared.storage[t]
  \/ \E i \in PlanIndexes : ~ HasIndex(i) \/ environment.index[i] # prepared.index[i]

\* Whoever changes handles holds locks that exclude the use of an open result.
MayChange == query.changes /\ Idle /\ \A r \in Results : state[r] # "OPEN"

Changes(e) ==
  /\ environment' = e
  /\ UNCHANGED <<query, prepared, seen, state, rows, error, active, call, answer, workspace>>

RegisterStorage(t, object) ==
  /\ MayChange /\ ~ HasStorage(t)
  /\ Changes([environment EXCEPT !.storage[t] = object])
UnregisterStorage(t) ==
  /\ MayChange /\ HasStorage(t)
  /\ Changes([environment EXCEPT !.storage[t] = 0])
RegisterIndex(i) ==
  /\ MayChange /\ i \in environment.defined /\ environment.index[i] = 0
  /\ HasStorage(i.table)
  /\ Changes([environment EXCEPT !.index[i] = environment.storage[i.table]])
UnregisterIndex(i) ==
  /\ MayChange /\ environment.index[i] # 0
  /\ Changes([environment EXCEPT !.index[i] = 0])

\* prepare: binding needs every storage, and every index that is registered.
Prepare ==
  /\ Idle
  /\ \A r \in Results : state[r] \notin {"CREATED", "OPEN"}
  /\ \A t \in DOMAIN query.tables : HasStorage(t)
  /\ \A i \in query.indexes : environment.index[i] # 0 => HasIndex(i)
  /\ prepared # environment
  /\ prepared' = environment
  /\ UNCHANGED <<query, environment, seen, state, rows, error, active, call, answer, workspace>>

-----------------------------------------------------------------------------
(* Ends *)

\* Fault: whatever result ends, the engine forgets the one it has.
ReleasesAny(r) == active' = NoResult

\* _release_result
Releases(r) == active' = IF active = r THEN NoResult ELSE active

Ends(r, s, e) ==
  /\ state' = [state EXCEPT ![r] = s]
  /\ error' = [error EXCEPT ![r] = e]
  /\ Releases(r)

\* The rows, the operators, their workspace and their context are closed.
Closes == CloseWorkspace(workspace)

Returns == call' = NoCall /\ answer' = NoAnswer

\* _complete and _close_unlocked: cleanup that fails makes the result FAILED.
EndsCleanly(r, s) ==
  \E o \in Closes :
    /\ workspace' = o.w
    /\ IF o.end = "ok" THEN Ends(r, s, "none") ELSE Ends(r, "FAILED", "io")

\* _fail: the first error is the one that is kept.
FailsFrom(r, w, e) ==
  /\ \E o \in CloseWorkspace(w) : workspace' = o.w
  /\ Ends(r, "FAILED", e)
  /\ Returns

-----------------------------------------------------------------------------
(* Calls *)

\* SqlEngine._execute_local under _require_idle.
Execute(r) ==
  /\ Idle
  /\ \A other \in Results : active = other => state[other] \in Terminal
  /\ state[r] = "none"
  /\ state' = [state EXCEPT ![r] = "CREATED"]
  /\ active' = r
  /\ UNCHANGED <<envVars, rows, error, call, answer, workspace>>

Starts(r, wanted, limit) ==
  /\ Idle
  /\ state[r] \in {"CREATED", "OPEN"}
  /\ call' = [result |-> r, wanted |-> wanted, limit |-> limit,
              phase |-> IF state[r] = "CREATED" THEN "planned" ELSE "fetching"]
  /\ UNCHANGED <<envVars, state, rows, error, active, answer, workspace>>

Open(r) == state[r] = "CREATED" /\ Starts(r, 0, Unbounded)
FetchMany(r, size) == Starts(r, size, Unbounded)

\* Only before a row was streamed; one row more than the limit is asked for.
FetchAll(r, limit) == rows[r] = <<>> /\ Starts(r, limit + 1, limit)

-----------------------------------------------------------------------------
(* What a call does *)

Calling(phase) == call.result # NoResult /\ call.phase = phase

\* SelectPlanSpec.instantiate checks every relation and index of the plan; then
\* the root makes sure that its blocking operators fit before any is opened.
Instantiate ==
  /\ Calling("planned")
  /\ IF Stale \/ ~ FitsGrants(Plan)
     THEN /\ Ends(call.result, "FAILED", IF Stale THEN "stale" ELSE "refused")
          /\ Returns
          /\ UNCHANGED workspace
     ELSE /\ call' = [call EXCEPT !.phase = "opening"]
          /\ answer' = Delivered(Plan)
          /\ workspace' = Fresh(workspace.faults)
          /\ UNCHANGED <<state, error, active>>
  /\ seen' = [seen EXCEPT ![call.result] = query.tables]
  /\ UNCHANGED <<query, environment, prepared, rows>>

\* The operators are open: so is the result.
Opened ==
  /\ Calling("opening")
  /\ state' = [state EXCEPT ![call.result] = "OPEN"]
  /\ IF call.wanted = 0
     THEN call' = NoCall
     ELSE call' = [call EXCEPT !.phase = "fetching"]
  /\ UNCHANGED <<envVars, rows, error, active, answer, workspace>>

\* The next row.  fetchmany returns with the last one it wanted; fetchall
\* closes the result when there is one too many.
Emit ==
  /\ Calling("fetching")
  /\ answer.rows # <<>>
  /\ rows' = [rows EXCEPT ![call.result] = Append(@, Head(answer.rows))]
  /\ IF call.wanted > 1
     THEN /\ call' = [call EXCEPT !.wanted = @ - 1]
          /\ answer' = [answer EXCEPT !.rows = Tail(@)]
          /\ UNCHANGED <<state, error, active, workspace>>
     ELSE IF call.limit = Unbounded
     THEN /\ call' = NoCall
          /\ answer' = [answer EXCEPT !.rows = Tail(@)]
          /\ UNCHANGED <<state, error, active, workspace>>
     ELSE EndsCleanly(call.result, "CLOSED") /\ Returns
  /\ UNCHANGED envVars

Exhaust ==
  /\ Calling("fetching")
  /\ answer = NoAnswer
  /\ EndsCleanly(call.result, "COMPLETE")
  /\ Returns
  /\ UNCHANGED <<envVars, rows>>

\* A row, an overflow or a grant ends the plan: in an operator that blocks,
\* as it opens; in the others when its row is due.
PlanFails ==
  /\ Calling("opening") \/ Calling("fetching")
  /\ answer.rows = <<>> /\ answer.end # "ok"
  /\ FailsFrom(call.result, workspace, answer.end)
  /\ UNCHANGED <<envVars, rows>>

-----------------------------------------------------------------------------
(* The files of its operators *)

Working == query.spills /\ (Calling("opening") \/ Calling("fetching"))

\* An operation that raises fails the result.
Uses(outcomes) ==
  /\ Working
  /\ \E o \in outcomes :
       IF o.end = "ok"
       THEN /\ workspace' = o.w
            /\ UNCHANGED <<state, error, active, call, answer>>
       ELSE FailsFrom(call.result, o.w, "io")
  /\ UNCHANGED <<envVars, rows>>

OpenFiles(kind) ==
  {r.file : r \in {s \in ToSet(workspace.resources) : s.kind = kind}}

\* Files of rows that were finished and not given up.
Runs == {f \in DOMAIN workspace.files :
           /\ workspace.files[f].active /\ ~ workspace.files[f].discard
           /\ workspace.files[f].size = RunBytes
           /\ f \notin OpenFiles("writer") \union OpenFiles("catalog")}

StartRun ==
  /\ Len(workspace.files) < MaxFiles /\ OpenFiles("writer") = {}
  /\ Uses(OpenWriter(workspace))
FinishRun  == \E f \in OpenFiles("writer") : Uses(FinishWriter(workspace, f))
AbandonRun == \E f \in OpenFiles("writer") :
                Working /\ \E o \in AbandonWriter(workspace, f) :
                  FailsFrom(call.result, o.w, "io")
                    /\ UNCHANGED <<envVars, rows>>
StartCatalog ==
  /\ Len(workspace.files) < MaxFiles /\ OpenFiles("catalog") = {}
  /\ Uses(OpenCatalog(workspace))
RecordRun ==
  \E f \in OpenFiles("catalog") :
    /\ workspace.files[f].size < SlotBytes * Cardinality(Runs)
    /\ Uses(AppendRun(workspace, f))
ReadRun  == \E f \in Runs \ OpenFiles("reader") : Uses(OpenReader(workspace, f))
EndRead  == \E f \in OpenFiles("reader") :
              Uses(CloseReader(Returned(workspace), f))
DropRun  == \E f \in Runs : Uses(Discard(workspace, f))

-----------------------------------------------------------------------------
(* Leaving a result *)

Close(r) ==
  /\ Idle
  /\ \/ state[r] = "CREATED" /\ Ends(r, "CLOSED", "none") /\ UNCHANGED workspace
     \/ state[r] = "OPEN" /\ EndsCleanly(r, "CLOSED")
  /\ Returns
  /\ UNCHANGED <<envVars, rows>>

\* The body of a with statement raised: the result is CLOSED whatever it was,
\* and whatever its cleanup raises.
ExitWithError(r) ==
  /\ Idle
  /\ state[r] \in Terminal \union {"OPEN"}
  /\ IF state[r] = "OPEN"
     THEN \E o \in Closes : workspace' = o.w
     ELSE UNCHANGED workspace
  /\ Ends(r, "CLOSED", error[r])
  /\ answer' = IF state[r] = "OPEN" THEN NoAnswer ELSE answer
  /\ UNCHANGED <<envVars, rows, call>>

QueriesNext ==
  \/ \E r \in query.results : \/ Execute(r) \/ Open(r)
                              \/ \E n \in query.fetches : FetchMany(r, n)
                              \/ \E n \in query.limits : FetchAll(r, n)
                              \/ Close(r) \/ ExitWithError(r)
  \/ Instantiate \/ Opened \/ Emit \/ Exhaust \/ PlanFails
  \/ StartRun \/ FinishRun \/ AbandonRun \/ StartCatalog \/ RecordRun
  \/ ReadRun \/ EndRead \/ DropRun
  \/ \E t \in DOMAIN query.tables :
       (\E object \in Objects : RegisterStorage(t, object)) \/ UnregisterStorage(t)
  \/ \E i \in query.indexes : RegisterIndex(i) \/ UnregisterIndex(i)
  \/ Prepare

-----------------------------------------------------------------------------
(* Properties *)

\* A file is there as long as somebody reads or writes it, whoever discarded it
\* meanwhile (temp_files.py discard, release).
FilesOutliveReaders ==
  \A i \in DOMAIN workspace.resources :
    LET f == workspace.resources[i].file
    IN  f \in workspace.disk /\ workspace.files[f].active

Quiet == \A r \in Results : state[r] # "OPEN" /\ Idle

\* When no plan is open its operators have given everything back: no handle is
\* leased; without a failed operation nothing is left on disk or in the byte
\* account; and after any number of them every path left is reported, or the
\* directory and its unreadable registry are.  Except for one defect: an entry
\* whose deletion was not recorded is subtracted twice (temp_files.py:319), and
\* the RuntimeError of the account then ends the cleanup without a report.
TempFilesAreAccountedFor ==
  Quiet /\ workspace.closed =>
    /\ workspace.leases = 0 /\ workspace.resources = <<>>
    /\ workspace.faults = MaxFaults \/ ~ query.spills =>
         workspace.disk = {} /\ workspace.live = 0
    /\ \/ workspace.broken
       \/ workspace.disk \subseteq workspace.unreclaimed
       \/ {Registry, Directory} \subseteq workspace.unreclaimed

\* One result of an engine is live, the one it knows; and a plan is only open on
\* the handles it was planned for and the rows it was opened on: no command of
\* the engine changes the table under it (SqlEngine._require_idle,
\* _release_result, SelectPlanSpec.validate).
OneLiveResult ==
  \A r \in Results : state[r] \in {"CREATED", "OPEN"} =>
    active = r /\ (state[r] = "OPEN" => ~ Stale /\ seen[r] = query.tables)
=============================================================================
