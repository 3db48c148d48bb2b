---------------------------- MODULE QueriesProofs ----------------------------
(***************************************************************************)
(* The results of an engine, for every plan: whatever searches, joins and  *)
(* rows the planner makes of a query, and whatever its operators do with   *)
(* their files, an engine has one live result, an open one reads what it   *)
(* was opened on, and one that ended stays as it ended.  The files of the  *)
(* operators outlive their readers, and none is left unreported.           *)
(***************************************************************************)
EXTENDS Commands, Grants, FiniteSetTheorems, FunctionTheorems, WellFoundedInduction, TLAPS

States == {"none", "CREATED", "OPEN"} \union Terminal
Live   == {"CREATED", "OPEN"}

\* A function of the results, a record of a call.
OfResults(f) == f = [r \in Results |-> f[r]]
IsCall(c)    == c = [result |-> c.result, phase |-> c.phase,
                     wanted |-> c.wanted, limit |-> c.limit]

\* What the plan of r was made for, and the rows it reads, are what is there.
Current(r) == ~ Stale /\ seen[r] = query.tables

Types ==
    /\ state \in [Results -> States]
    /\ OfResults(seen) /\ OfResults(rows) /\ OfResults(error)
    /\ IsCall(call)

LiveIsActive  == \A r \in Results : state[r] \in Live => active = r
OpenIsCurrent == \A r \in Results : state[r] = "OPEN" => Current(r)

\* The result a call works on is as far as the call is.
CallAgrees ==
    \/ call = NoCall
    \/ /\ call.result \in Results
       /\ \/ call.phase = "planned" /\ state[call.result] = "CREATED"
          \/ call.phase = "opening" /\ state[call.result] = "CREATED" /\ Current(call.result)
          \/ call.phase = "fetching" /\ state[call.result] = "OPEN"

QueryIInv == Types /\ LiveIsActive /\ OpenIsCurrent /\ CallAgrees

\* What a step does to a result that ended.
EndsOnce ==
    \A r \in Results : state[r] \in Terminal =>
      state'[r] \in Terminal /\ rows'[r] = rows[r] /\ error'[r] = error[r]

\* A step that is none of the results' business.
Aside ==
    UNCHANGED <<query, environment, prepared, seen, state, rows, error, active, call>>

-----------------------------------------------------------------------------
\* The records of calls.
LEMMA CallChanges ==
    ASSUME NEW c, IsCall(c), NEW v
    PROVE  /\ IsCall([c EXCEPT !.phase = v]) /\ IsCall([c EXCEPT !.wanted = v])
           /\ [c EXCEPT !.phase = v].result = c.result /\ [c EXCEPT !.phase = v].phase = v
           /\ [c EXCEPT !.wanted = v].result = c.result
           /\ [c EXCEPT !.wanted = v].phase = c.phase
BY DEF IsCall

LEMMA NoCallIsCall == IsCall(NoCall) /\ NoCall.result = NoResult
BY DEF IsCall, NoCall

LEMMA InitQueryIInv == Init => QueryIInv
<1> SUFFICES ASSUME Init PROVE QueryIInv
  OBVIOUS
<1>1. /\ state = [r \in Results |-> "none"] /\ rows = [r \in Results |-> <<>>]
      /\ error = [r \in Results |-> "none"] /\ call = NoCall
      /\ seen = [r \in Results |-> query.tables]
  BY DEF Init, QueriesInit
<1>2. Types
  BY <1>1 DEF Types, OfResults, IsCall, NoCall, States
<1> QED BY <1>1, <1>2 DEF QueryIInv, LiveIsActive, OpenIsCurrent, CallAgrees, Live

LEMMA AsideKeeps ==
    ASSUME QueryIInv, Aside
    PROVE  QueryIInv' /\ EndsOnce
<1>1. Stale' = Stale
  BY DEF Aside, Stale, HasIndex, HasStorage, PlanIndexes, Plan
<1> QED BY <1>1 DEF Aside, QueryIInv, Types, OfResults, IsCall, LiveIsActive,
                    OpenIsCurrent, Current, CallAgrees, EndsOnce

\* A result that is live, or is left, ends; nobody else is called.
LEMMA EndKeeps ==
    ASSUME QueryIInv,
           NEW r \in Results, NEW s \in Terminal, NEW e, Ends(r, s, e),
           state[r] \in Live \/ error[r] = e,
           \A q \in Results : rows'[q] = rows[q] \/ (q = r /\ state[r] \in Live),
           OfResults(rows)', call' = NoCall, UNCHANGED <<query, environment, prepared>>,
           OfResults(seen)',
           \A q \in Results \ {r} : seen'[q] = seen[q]
    PROVE  QueryIInv' /\ EndsOnce
<1>1. Stale' = Stale
  BY DEF Stale, HasIndex, HasStorage, PlanIndexes, Plan
<1>2. /\ state'[r] = s /\ s \in States /\ s \notin Live
      /\ \A q \in Results \ {r} : state'[q] = state[q]
      /\ state' \in [Results -> States]
  BY DEF Ends, QueryIInv, Types, States, Terminal, Live
<1>3. /\ error'[r] = e /\ \A q \in Results \ {r} : error'[q] = error[q]
      /\ OfResults(error)'
  BY DEF Ends, QueryIInv, Types, OfResults
<1>4. Types'
  BY <1>2, <1>3 DEF Types, IsCall, NoCall
<1>5. LiveIsActive'
  BY <1>2 DEF LiveIsActive, QueryIInv, Ends, Releases
<1>6. OpenIsCurrent'
  BY <1>1, <1>2 DEF OpenIsCurrent, QueryIInv, Current, Live
<1>7. EndsOnce
  BY <1>2, <1>3 DEF EndsOnce, Terminal, Live
<1> QED BY <1>4, <1>5, <1>6, <1>7 DEF QueryIInv, CallAgrees

\* The result a call works on is live.
LEMMA CalledIsLive ==
    ASSUME QueryIInv, NEW p, Calling(p)
    PROVE  /\ call.result \in Results /\ state[call.result] \in Live
           /\ p = "opening" => state[call.result] = "CREATED" /\ Current(call.result)
           /\ p = "fetching" => state[call.result] = "OPEN"
           /\ p = "planned" => state[call.result] = "CREATED"
BY ResultsAssumption DEF QueryIInv, CallAgrees, Calling, NoCall, Live

-----------------------------------------------------------------------------
(* The environment *)

LEMMA EnvironmentKeeps ==
    ASSUME QueryIInv, Idle, \A r \in Results : state[r] # "OPEN",
           UNCHANGED <<seen, state, rows, error, active, call>>
    PROVE  QueryIInv' /\ EndsOnce
BY DEF QueryIInv, Types, OfResults, IsCall, LiveIsActive, OpenIsCurrent, CallAgrees,
       Idle, EndsOnce

\* Nothing is open while a command runs.
LEMMA NothingOpen ==
    ASSUME QueryIInv, NothingLive
    PROVE  Idle /\ \A r \in Results : state[r] # "OPEN"
BY DEF QueryIInv, LiveIsActive, NothingLive, Live, Terminal

-----------------------------------------------------------------------------
(* The calls *)

LEMMA ExecuteKeeps ==
    ASSUME QueryIInv, NEW r \in Results, Execute(r)
    PROVE  QueryIInv' /\ EndsOnce
<1>1. Stale' = Stale
  BY DEF Execute, envVars, Stale, HasIndex, HasStorage, PlanIndexes, Plan
<1>2. /\ state'[r] = "CREATED" /\ \A q \in Results \ {r} : state'[q] = state[q]
      /\ state' \in [Results -> States]
  BY DEF Execute, QueryIInv, Types, States
<1>3. \A q \in Results : state[q] \notin Live
  BY DEF Execute, QueryIInv, LiveIsActive, Live, Terminal
<1>4. Types'
  BY <1>2 DEF Execute, envVars, QueryIInv, Types, OfResults, IsCall
<1>5. LiveIsActive' /\ OpenIsCurrent' /\ CallAgrees'
  BY <1>2, <1>3 DEF Execute, Idle, LiveIsActive, OpenIsCurrent, CallAgrees, Live
<1>6. EndsOnce
  BY <1>2 DEF EndsOnce, Execute, Terminal
<1> QED BY <1>4, <1>5, <1>6 DEF QueryIInv

LEMMA StartsKeeps ==
    ASSUME QueryIInv, NEW r \in Results, NEW wanted, NEW limit, Starts(r, wanted, limit)
    PROVE  QueryIInv' /\ EndsOnce
<1>1. Stale' = Stale
  BY DEF Starts, envVars, Stale, HasIndex, HasStorage, PlanIndexes, Plan
<1>2. /\ call'.result = r /\ IsCall(call')
      /\ call'.phase = IF state[r] = "CREATED" THEN "planned" ELSE "fetching"
  BY DEF Starts, IsCall
<1>3. Types'
  BY <1>2 DEF Starts, envVars, QueryIInv, Types, OfResults
<1>4. LiveIsActive' /\ OpenIsCurrent' /\ EndsOnce
  BY <1>1 DEF Starts, envVars, QueryIInv, LiveIsActive, OpenIsCurrent, Current, EndsOnce
<1>5. CallAgrees'
  BY <1>2 DEF Starts, CallAgrees
<1> QED BY <1>3, <1>4, <1>5 DEF QueryIInv

LEMMA InstantiateKeeps ==
    ASSUME QueryIInv, Instantiate
    PROVE  QueryIInv' /\ EndsOnce
<1> DEFINE r == call.result
<1>1. r \in Results /\ state[r] = "CREATED"
  BY CalledIsLive DEF Instantiate
<1>2. /\ seen'[r] = query.tables /\ \A q \in Results \ {r} : seen'[q] = seen[q]
      /\ OfResults(seen)'
  BY <1>1 DEF Instantiate, QueryIInv, Types, OfResults
<1>3. CASE Stale \/ ~ FitsGrants(Plan)
  <2>1. PICK e : Ends(r, "FAILED", e)
    BY <1>3 DEF Instantiate
  <2>2. call' = NoCall /\ UNCHANGED <<query, environment, prepared, rows>>
    BY <1>3 DEF Instantiate, Returns
  <2> QED BY <1>1, <1>2, <2>1, <2>2, EndKeeps
          DEF QueryIInv, Types, OfResults, Terminal, Live
<1>4. CASE ~ (Stale \/ ~ FitsGrants(Plan))
  <2>1. /\ call' = [call EXCEPT !.phase = "opening"]
        /\ UNCHANGED <<query, environment, prepared, state, rows, error, active>>
    BY <1>4 DEF Instantiate
  <2>2. Stale' = Stale
    BY <2>1 DEF Stale, HasIndex, HasStorage, PlanIndexes, Plan
  <2>3. call'.result = r /\ call'.phase = "opening" /\ IsCall(call')
    BY <2>1 DEF QueryIInv, Types, IsCall
  <2>4. Types'
    BY <1>2, <2>1, <2>3 DEF QueryIInv, Types, OfResults
  <2>5. OpenIsCurrent'
    BY <1>1, <1>2, <2>1, <2>2 DEF QueryIInv, OpenIsCurrent, Current
  <2>6. CallAgrees'
    BY <1>1, <1>2, <1>4, <2>1, <2>2, <2>3 DEF CallAgrees, Current
  <2> QED BY <2>1, <2>4, <2>5, <2>6 DEF QueryIInv, LiveIsActive, EndsOnce
<1> QED BY <1>3, <1>4

LEMMA OpenedKeeps ==
    ASSUME QueryIInv, Opened
    PROVE  QueryIInv' /\ EndsOnce
<1> DEFINE r == call.result
<1>1. r \in Results /\ state[r] = "CREATED" /\ Current(r)
  BY CalledIsLive DEF Opened
<1>2. Stale' = Stale
  BY DEF Opened, envVars, Stale, HasIndex, HasStorage, PlanIndexes, Plan
<1>3. /\ state'[r] = "OPEN" /\ \A q \in Results \ {r} : state'[q] = state[q]
      /\ state' \in [Results -> States]
  BY <1>1 DEF Opened, QueryIInv, Types, States
<1>4. /\ call' = NoCall \/ (call'.result = r /\ call'.phase = "fetching")
      /\ IsCall(call')
  <2>1. IsCall(call)
    BY DEF QueryIInv, Types
  <2>2. call' = NoCall \/ call' = [call EXCEPT !.phase = "fetching"]
    BY DEF Opened
  <2>3. CASE call' = NoCall
    BY <2>3, NoCallIsCall
  <2>4. CASE call' = [call EXCEPT !.phase = "fetching"]
    BY <2>1, <2>4, CallChanges
  <2> QED BY <2>2, <2>3, <2>4
<1>5. Types'
  BY <1>3, <1>4 DEF Opened, envVars, QueryIInv, Types, OfResults
<1>6. LiveIsActive' /\ OpenIsCurrent'
  BY <1>1, <1>2, <1>3
     DEF Opened, envVars, QueryIInv, LiveIsActive, OpenIsCurrent, Current, Live
<1>7. CallAgrees'
  BY <1>1, <1>3, <1>4 DEF CallAgrees
<1>8. EndsOnce
  BY <1>1, <1>3 DEF EndsOnce, Opened, Terminal
<1> QED BY <1>5, <1>6, <1>7, <1>8 DEF QueryIInv

LEMMA EmitKeeps ==
    ASSUME QueryIInv, Emit
    PROVE  QueryIInv' /\ EndsOnce
<1> DEFINE r == call.result
<1>1. r \in Results /\ state[r] = "OPEN"
  BY CalledIsLive DEF Emit
<1>2. OfResults(rows)' /\ \A q \in Results \ {r} : rows'[q] = rows[q]
  BY <1>1 DEF Emit, QueryIInv, Types, OfResults
<1>3. Stale' = Stale
  BY DEF Emit, envVars, Stale, HasIndex, HasStorage, PlanIndexes, Plan
<1>4. ASSUME UNCHANGED <<state, error, active>>,
             call' = NoCall \/ call' = [call EXCEPT !.wanted = @ - 1]
      PROVE  QueryIInv' /\ EndsOnce
  <2>1. /\ IsCall(call')
        /\ call' = NoCall \/ (call'.result = r /\ call'.phase = call.phase)
    <3>1. IsCall(call)
      BY DEF QueryIInv, Types
    <3>2. CASE call' = NoCall
      BY <3>2, NoCallIsCall
    <3>3. CASE call' = [call EXCEPT !.wanted = @ - 1]
      BY <3>1, <3>3, CallChanges
    <3> QED BY <1>4, <3>2, <3>3
  <2>2. Types'
    BY <1>2, <1>4, <2>1 DEF Emit, envVars, QueryIInv, Types, OfResults
  <2>3. LiveIsActive' /\ OpenIsCurrent'
    BY <1>3, <1>4 DEF Emit, envVars, QueryIInv, LiveIsActive, OpenIsCurrent, Current
  <2>4. CallAgrees'
    BY <1>1, <1>4, <2>1 DEF CallAgrees, Emit, Calling
  <2>5. EndsOnce
    BY <1>1, <1>2, <1>4 DEF EndsOnce, Terminal
  <2> QED BY <2>2, <2>3, <2>4, <2>5 DEF QueryIInv
<1>5. ASSUME EndsCleanly(r, "CLOSED"), Returns PROVE QueryIInv' /\ EndsOnce
  <2>1. PICK s, e : s \in Terminal /\ Ends(r, s, e)
    BY <1>5 DEF EndsCleanly, Terminal
  <2> QED BY <1>1, <1>2, <1>5, <2>1, EndKeeps
          DEF Emit, envVars, Returns, QueryIInv, Types, OfResults, Live
<1> QED BY <1>4, <1>5 DEF Emit

\* Every other end of a call.
LEMMA CallEndKeeps ==
    ASSUME QueryIInv, NEW p, Calling(p),
           NEW s \in Terminal, NEW e, Ends(call.result, s, e), Returns,
           UNCHANGED <<envVars, rows>>
    PROVE  QueryIInv' /\ EndsOnce
BY CalledIsLive, EndKeeps DEF envVars, Returns, QueryIInv, Types, OfResults

LEMMA UsesKeeps ==
    ASSUME QueryIInv, NEW outcomes, Uses(outcomes)
    PROVE  QueryIInv' /\ EndsOnce
<1>1. CASE UNCHANGED <<state, error, active, call, answer>>
  BY <1>1, AsideKeeps DEF Uses, Aside, envVars
<1>2. CASE \E o \in outcomes : FailsFrom(call.result, o.w, "io")
  BY <1>2, CallEndKeeps DEF Uses, Working, FailsFrom, Terminal
<1> QED BY <1>1, <1>2 DEF Uses

LEMMA LeaveKeeps ==
    ASSUME QueryIInv, NEW r \in Results,
           Close(r) \/ ExitWithError(r)
    PROVE  QueryIInv' /\ EndsOnce
<1>1. ASSUME Close(r) PROVE QueryIInv' /\ EndsOnce
  <2>1. PICK s, e : s \in Terminal /\ Ends(r, s, e)
    BY <1>1 DEF Close, EndsCleanly, Terminal
  <2>2. state[r] \in Live /\ call' = NoCall /\ UNCHANGED <<envVars, rows>>
    BY <1>1 DEF Close, Returns, Live
  <2> QED BY <2>1, <2>2, EndKeeps DEF envVars, QueryIInv, Types, OfResults
<1>2. ASSUME ExitWithError(r) PROVE QueryIInv' /\ EndsOnce
  <2>1. PICK e : e = error[r] /\ Ends(r, "CLOSED", e)
    BY <1>2 DEF ExitWithError
  <2>2. call' = NoCall /\ UNCHANGED <<envVars, rows>>
    BY <1>2 DEF ExitWithError, Idle
  <2> QED BY <2>1, <2>2, EndKeeps DEF envVars, QueryIInv, Types, OfResults, Terminal
<1> QED BY <1>1, <1>2

-----------------------------------------------------------------------------
\* The results that are made of a query are results of the engine.
Owned ==
    /\ {"results", "spills"} \subseteq DOMAIN query
    /\ query.results \subseteq Results /\ query.spills \in BOOLEAN

LEMMA InitOwned == Init => Owned
BY ResultsAssumption DEF Init, QueriesInit, Owned

\* Of the steps of this module only a command and an index definition change a query.
LEMMA OwnedKept ==
    ASSUME Owned, [Next]_<<vars, commandVars>>
    PROVE  Owned' /\ query'.spills = query.spills
<1>1. CASE query' = query
  BY <1>1 DEF Owned
<1>2. CASE \E t, h : query' = [query EXCEPT !.tables[Table] = t, !.holds = h]
  BY <1>2 DEF Owned
<1>3. CASE \E i, h : query' = [query EXCEPT !.holds[i] = h]
  BY <1>3 DEF Owned
<1>4. CASE QueriesNext
  <2>1. query' = query
    BY <1>4
       DEF QueriesNext, Execute, Open, FetchMany, FetchAll, Starts, Close, ExitWithError,
           Instantiate, Opened, Emit, Exhaust, PlanFails, StartRun, FinishRun, AbandonRun,
           StartCatalog, RecordRun, ReadRun, EndRead, DropRun, Uses, RegisterStorage,
           UnregisterStorage, RegisterIndex, UnregisterIndex, Changes, Prepare, envVars
  <2> QED BY <1>1, <2>1
<1>5. CASE PrepareCommand \/ ExplainAnalyze
  BY <1>1, <1>5 DEF PrepareCommand, ExplainAnalyze, vars
<1>6. CASE ExecuteCommand
  BY <1>1, <1>2, <1>6 DEF ExecuteCommand, Refuse, InsertRow, DeleteRows, Changed
<1>7. CASE \E i \in query.indexes : CreateIndex(i) \/ DropIndex(i)
  BY <1>3, <1>7 DEF CreateIndex, DropIndex, Defines
<1>8. CASE UNCHANGED <<vars, commandVars>>
  BY <1>1, <1>8 DEF vars
<1> QED BY <1>4, <1>5, <1>6, <1>7, <1>8 DEF Next

LEMMA QueriesStepKeeps ==
    ASSUME Owned, QueryIInv, QueriesNext
    PROVE  QueryIInv' /\ EndsOnce
<1>1. ASSUME NEW r \in query.results,
             \/ Execute(r) \/ Open(r)
             \/ \E n \in query.fetches : FetchMany(r, n)
             \/ \E n \in query.limits : FetchAll(r, n)
             \/ Close(r) \/ ExitWithError(r)
      PROVE  QueryIInv' /\ EndsOnce
  <2>1. r \in Results
    BY DEF Owned
  <2> QED BY <1>1, <2>1, ExecuteKeeps, StartsKeeps, LeaveKeeps DEF Open, FetchMany, FetchAll
<1>2. CASE Instantiate \/ Opened \/ Emit
  BY <1>2, InstantiateKeeps, OpenedKeeps, EmitKeeps
<1>3. CASE Exhaust
  <2>1. PICK s, e : s \in Terminal /\ Ends(call.result, s, e)
    BY <1>3 DEF Exhaust, EndsCleanly, Terminal
  <2> QED BY <1>3, <2>1, CallEndKeeps DEF Exhaust
<1>4. CASE PlanFails
  BY <1>4, CallEndKeeps DEF PlanFails, FailsFrom, Terminal
<1>5. CASE AbandonRun
  BY <1>5, CallEndKeeps DEF AbandonRun, Working, FailsFrom, Terminal
<1>6. CASE StartRun \/ FinishRun \/ StartCatalog \/ RecordRun \/ ReadRun \/ EndRead \/ DropRun
  BY <1>6, UsesKeeps
     DEF StartRun, FinishRun, StartCatalog, RecordRun, ReadRun, EndRead, DropRun
<1>7. CASE \/ \E t \in DOMAIN query.tables :
               (\E object \in Objects : RegisterStorage(t, object)) \/ UnregisterStorage(t)
           \/ \E i \in query.indexes : RegisterIndex(i) \/ UnregisterIndex(i)
  BY <1>7, EnvironmentKeeps
     DEF RegisterStorage, UnregisterStorage, RegisterIndex, UnregisterIndex, MayChange,
         Changes
<1>8. CASE Prepare
  BY <1>8, EnvironmentKeeps DEF Prepare
<1> QED BY <1>1, <1>2, <1>3, <1>4, <1>5, <1>6, <1>7, <1>8 DEF QueriesNext

LEMMA StepKeeps ==
    ASSUME Owned, QueryIInv, [Next]_<<vars, commandVars>>
    PROVE  QueryIInv' /\ [EndsOnce]_<<vars, commandVars>>
<1>1. CASE QueriesNext
  BY <1>1, QueriesStepKeeps
<1>2. CASE PrepareCommand \/ ExplainAnalyze \/ UNCHANGED <<vars, commandVars>>
  BY <1>2, AsideKeeps DEF PrepareCommand, ExplainAnalyze, vars, Aside
<1>3. CASE ExecuteCommand
  BY <1>3, NothingOpen, EnvironmentKeeps DEF ExecuteCommand
<1>4. CASE \E i \in query.indexes : CreateIndex(i) \/ DropIndex(i)
  BY <1>4, EnvironmentKeeps DEF CreateIndex, DropIndex, Defines, MayDefine
<1> QED BY <1>1, <1>2, <1>3, <1>4 DEF Next

-----------------------------------------------------------------------------
\* Whatever results are made, fetched from, closed or abandoned, and whatever
\* commands, handles and index definitions come between: one result is live, an
\* open one reads what it was opened on (SqlEngine._require_idle, _release_result,
\* SelectPlanSpec.validate).
THEOREM OneResultIsLive == Spec => []OneLiveResult
<1>1. Init => QueryIInv /\ Owned
  BY InitQueryIInv, InitOwned
<1>2. QueryIInv /\ Owned /\ [Next]_<<vars, commandVars>> => (QueryIInv /\ Owned)'
  BY StepKeeps, OwnedKept
<1>3. QueryIInv => OneLiveResult
  BY DEF QueryIInv, LiveIsActive, OpenIsCurrent, Current, Live, OneLiveResult
<1> QED BY <1>1, <1>2, <1>3, PTL DEF Spec

\* A result that is complete, closed or failed delivers no row, is not taken up
\* again and keeps its first error (QueryResult._next_unlocked, _exit_unlocked).
THEOREM EndsAreFinal == Spec => [][EndsOnce]_<<vars, commandVars>>
<1>1. Init => QueryIInv /\ Owned
  BY InitQueryIInv, InitOwned
<1>2. QueryIInv /\ Owned /\ [Next]_<<vars, commandVars>> =>
        (QueryIInv /\ Owned)' /\ [EndsOnce]_<<vars, commandVars>>
  BY StepKeeps, OwnedKept
<1> QED BY <1>1, <1>2, PTL DEF Spec

-----------------------------------------------------------------------------
(***************************************************************************)
(* What the blocking operators derive from a grant is never more than the  *)
(* grant, for every size of page, of entry and of grant.                   *)
(***************************************************************************)

\* Facts of the constants in the form the provers use.
LEMMA Sizes ==
  /\ PageSize \in Nat \ {0} /\ ChunkPayload \in Nat \ {0}
  /\ RegistryWork \in Nat \ {0} /\ CatalogWork \in Nat \ {0}
  /\ RunEntry \in Nat \ {0} /\ SortEntry \in Nat \ {0}
  /\ KeyEntry \in Nat \ {0} /\ FallbackState \in Nat \ {0}
  /\ MinimumSort \in Nat \ {0} /\ RegistryWork <= ChunkPayload
BY GrantsAssumption

\* Floor division never rounds up.
LEMMA EighthIsBelow == \A x \in Int : 8 * (x \div 8) <= x
OBVIOUS

\* The cost of a two-way merge grows by eight bytes for each byte of width:
\* this is the inequality ExternalSort._row_capacity solves.
LEMMA TwoWayMerge ==
  ASSUME NEW keys \in Nat, NEW width \in Int
  PROVE  MergeCost(2, width, keys) = MergeCost(2, 0, keys) + 8 * width
<1> DEFINE k == KeyEntry * keys
<1>1. k \in Int
  BY Sizes
<1>2. /\ MergeCost(2, width, keys)
           = PageSize + 2 * width + 2 * (PageSize + 2 * width + (width + SortEntry + k) + RunEntry)
      /\ MergeCost(2, 0, keys)
           = PageSize + 2 * 0 + 2 * (PageSize + 2 * 0 + (0 + SortEntry + k) + RunEntry)
  BY DEF MergeCost, RowCost
<1> HIDE DEF k
<1>. QED
  BY <1>1, <1>2, Sizes

\* A row that ExternalSort._generate_runs admits can take part in a merge of
\* two runs within the same grant.
THEOREM AdmittedRowsMerge ==
  ASSUME NEW grant \in Int, NEW keys \in Nat, NEW width \in Int,
         width <= RowCapacity(grant, keys)
  PROVE  MergeCost(2, width, keys) <= SortAvailable(grant)
<1> DEFINE spare == SortAvailable(grant) - MergeCost(2, 0, keys)
<1>1. KeyEntry * keys \in Int
  BY Sizes
<1>2. /\ SortAvailable(grant) \in Int
      /\ MergeCost(2, 0, keys) \in Int
  BY <1>1, Sizes DEF SortAvailable, MergeCost, RowCost
<1>3. RowCapacity(grant, keys) = spare \div 8
  BY DEF RowCapacity
<1>4. 8 * (spare \div 8) <= spare
  BY <1>2, EighthIsBelow
<1>5. 8 * width <= spare
  BY <1>2, <1>3, <1>4
<1>. QED
  BY <1>2, <1>5, TwoWayMerge

\* While runs are generated, an empty chunk has room for every admitted row:
\* "No room for a sort chunk" is never raised.
THEOREM ChunksHaveRoom ==
  ASSUME NEW grant \in Int, NEW keys \in Nat, NEW width \in Nat,
         width <= RowCapacity(grant, keys)
  PROVE  RowCost(width, keys) <= ChunkRoom(grant, keys)
<1> DEFINE k == KeyEntry * keys
           c == RowCapacity(grant, keys)
<1>1. k \in Nat
  BY Sizes
<1>2. c \in Int
  <2>1. SortAvailable(grant) \in Int /\ MergeCost(2, 0, keys) \in Int
    BY <1>1, Sizes DEF SortAvailable, MergeCost, RowCost
  <2>. QED
    BY <2>1 DEF RowCapacity
<1>3. MergeCost(2, c, keys) <= SortAvailable(grant)
  BY <1>2, AdmittedRowsMerge
<1>4. MergeCost(2, c, keys)
        = PageSize + 2 * c + 2 * (PageSize + 2 * c + (c + SortEntry + k) + RunEntry)
  BY DEF MergeCost, RowCost
<1>5. /\ RowCost(width, keys) = width + SortEntry + k
      /\ ChunkRoom(grant, keys)
           = grant - RegistryWork - CatalogWork - (PageSize + 3 * c + RunEntry)
      /\ SortAvailable(grant) = grant - RegistryWork - 2 * CatalogWork
  BY DEF RowCost, ChunkRoom, Scratch, SortAvailable
<1>6. width <= c
  OBVIOUS
<1> HIDE DEF k, c
<1>. QED
  BY <1>1, <1>2, <1>3, <1>4, <1>5, <1>6, Sizes

\* Merging as many runs as ExternalSort._resolve_fan_in allows never reserves
\* more than the grant, with both catalogues of a pass open.
THEOREM MergesFit ==
  ASSUME NEW grant \in Int, NEW keys \in Nat, NEW width \in Nat,
         NEW handles \in Nat, NEW count \in FanIns(grant, keys, width, handles)
  PROVE  /\ Merging(count, width, keys) <= grant
         /\ count < handles
<1>1. /\ count \in Nat /\ count <= handles - 1
      /\ MergeCost(count, width, keys) <= SortAvailable(grant)
  BY GrantsAssumption DEF FanIns
<1>2. MergeCost(count, width, keys) \in Int
  <2>1. RowCost(width, keys) \in Int
    BY Sizes DEF RowCost
  <2>2. count * (PageSize + 2 * width + RowCost(width, keys) + RunEntry) \in Int
    BY <1>1, <2>1, Sizes
  <2>. QED
    BY <2>2, Sizes DEF MergeCost
<1>3. count * RunEntry \in Int
  BY <1>1, Sizes
<1>. QED
  BY <1>1, <1>2, <1>3, Sizes DEF Merging, SortAvailable

\* A fan-out that HashPartitioner and the opening of a group or a join accept
\* can be reserved beside the registry.
THEOREM PartitionsFit ==
  ASSUME NEW grant \in Nat, NEW handles \in Nat, NEW fanout \in Nat \ {0},
         fanout <= MaximumPartitions(grant, handles)
  PROVE  /\ Partitioning(fanout) <= grant
         /\ fanout < handles
<1> DEFINE pages == grant \div ChunkPayload
<1>1. pages \in Nat /\ ChunkPayload * pages <= grant
  BY Sizes
<1>2. fanout <= pages - 1 /\ fanout <= handles - 1
  BY <1>1 DEF MaximumPartitions
<1>3. ChunkPayload * (fanout + 1) <= ChunkPayload * pages
  <2> HIDE DEF pages
  <2>1. fanout + 1 <= pages
    BY <1>1, <1>2
  <2>2. \A a, b, c \in Nat : a <= b => c * a <= c * b
    OBVIOUS
  <2>. QED
    BY <1>1, <2>1, <2>2, Sizes
<1>4. ChunkPayload * (fanout + 1) = fanout * ChunkPayload + ChunkPayload
  BY Sizes
<1>5. fanout * ChunkPayload \in Nat /\ ChunkPayload * pages \in Nat
  BY <1>1, Sizes
<1> HIDE DEF pages
<1>. QED
  BY <1>1, <1>2, <1>3, <1>4, <1>5, Sizes DEF Partitioning

\* With rows of the usual width, a group that was granted its minimum can
\* always fall back to sorting: nothing is refused in the middle of the run.
THEOREM FallbackIsGranted ==
  ASSUME NEW grant \in Nat, NEW width \in Nat, NEW entry \in Nat,
         NEW states \in Nat,
         grant >= MinimumGroup, entry + 2 * width + states <= FallbackState
  PROVE  FallbackFits(grant - RegistryWork, GroupState(width, entry, states))
BY Sizes DEF FallbackFits, GroupState, MinimumGroup

-----------------------------------------------------------------------------
(***************************************************************************)
(* The temporary files of a plan (temp_files.py, temp_stream.py,           *)
(* run_catalog.py): what one operation makes of a workspace, whichever of  *)
(* its inputs and outputs fail.                                            *)
(***************************************************************************)

\* What a workspace is made of.
Entries == [readers : Nat, discard : BOOLEAN, active : BOOLEAN, size : Nat]
Claims  == [kind : {"writer", "reader", "catalog"}, file : Nat \ {0}]
Workspaces ==
    [files : Seq(Entries), disk : SUBSET Int, resources : Seq(Claims), leases : Int,
     live : Int, closed : BOOLEAN, unreclaimed : SUBSET Int, broken : BOOLEAN, faults : Nat]

\* The open resources, those with a handle, and the files that are read or written.
Held(w)   == {w.resources[i] : i \in DOMAIN w.resources}
Leased(w) == {r \in Held(w) : r.kind # "catalog"}
Reading(w, f) == \E r \in Leased(w) : r.file = f
OneEach(w) ==
    \A i, j \in DOMAIN w.resources : w.resources[i].file = w.resources[j].file => i = j

-----------------------------------------------------------------------------
\* An entry of a sequence is replaced.
LEMMA EntryWritten ==
    ASSUME NEW S, NEW s \in Seq(S), NEW f \in DOMAIN s, NEW e \in S
    PROVE  /\ [s EXCEPT ![f] = e] \in Seq(S)
           /\ DOMAIN [s EXCEPT ![f] = e] = DOMAIN s
           /\ Len([s EXCEPT ![f] = e]) = Len(s)
OBVIOUS

\* The fields of an entry of the registry.
LEMMA EntryTypes ==
    ASSUME NEW s \in Seq(Entries), NEW f \in DOMAIN s
    PROVE  /\ s[f] \in Entries /\ s[f].readers \in Nat /\ s[f].discard \in BOOLEAN
           /\ s[f].active \in BOOLEAN /\ s[f].size \in Nat
<1>1. s[f] \in Entries
  OBVIOUS
<1> QED BY <1>1 DEF Entries

Once(s, x) == \A i, j \in DOMAIN s : s[i] = x /\ s[j] = x => i = j
Without(s, x, t) ==
    /\ (\A i \in DOMAIN s : s[i] # x) => t = s
    /\ \A p \in DOMAIN s : s[p] = x =>
         /\ Len(t) = Len(s) - 1
         /\ \A i \in 1 .. Len(s) - 1 : t[i] = IF i < p THEN s[i] ELSE s[i + 1]

\* The first of a sequence that is x is removed: its place, when x occurs once.
LEMMA RemoveFirstFrom ==
    ASSUME NEW S, NEW s \in Seq(S), NEW x, Once(s, x)
    PROVE  RemoveFirst(s, x) \in Seq(S) /\ Without(s, x, RemoveFirst(s, x))
<1>1. CASE \A i \in DOMAIN s : s[i] # x
  BY <1>1 DEF RemoveFirst, SelectInSeq, Without
<1>2. ASSUME NEW p \in DOMAIN s, s[p] = x
      PROVE  /\ RemoveFirst(s, x) \in Seq(S)
             /\ Len(RemoveFirst(s, x)) = Len(s) - 1
             /\ \A i \in 1 .. Len(s) - 1 :
                  RemoveFirst(s, x)[i] = IF i < p THEN s[i] ELSE s[i + 1]
  <2> DEFINE I == {i \in 1 .. Len(s) : s[i] = x}
  <2>1. I = {p}
    BY <1>2 DEF Once
  <2>2. Min(I) = p
    BY <2>1 DEF Min
  <2>3. RemoveFirst(s, x) = RemoveAt(s, Min(I))
    BY <1>2, <2>1 DEF RemoveFirst, SelectInSeq
  <2>4. RemoveFirst(s, x) = SubSeq(s, 1, p - 1) \o SubSeq(s, p + 1, Len(s))
    BY <2>2, <2>3 DEF RemoveAt
  <2>5. p \in 1 .. Len(s) /\ Len(s) \in Nat
    OBVIOUS
  <2>6. SubSeq(s, 1, p - 1) \in Seq(S) /\ Len(SubSeq(s, 1, p - 1)) = p - 1
        /\ \A i \in 1 .. p - 1 : SubSeq(s, 1, p - 1)[i] = s[i]
    BY <2>5
  <2>7. SubSeq(s, p + 1, Len(s)) \in Seq(S) /\ Len(SubSeq(s, p + 1, Len(s))) = Len(s) - p
        /\ \A i \in 1 .. Len(s) - p : SubSeq(s, p + 1, Len(s))[i] = s[p + i]
    BY <2>5
  <2> DEFINE a == SubSeq(s, 1, p - 1)
             b == SubSeq(s, p + 1, Len(s))
  <2> HIDE DEF a, b
  <2>8. a \o b \in Seq(S) /\ Len(a \o b) = Len(s) - 1
        /\ \A i \in 1 .. Len(s) - 1 : (a \o b)[i] = IF i < p THEN s[i] ELSE s[i + 1]
    <3>1. a \in Seq(S) /\ Len(a) = p - 1 /\ b \in Seq(S) /\ Len(b) = Len(s) - p
      BY <2>6, <2>7 DEF a, b
    <3>2. a \o b \in Seq(S) /\ Len(a \o b) = Len(s) - 1
      BY <2>5, <3>1
    <3>3. ASSUME NEW i \in 1 .. Len(s) - 1
          PROVE  (a \o b)[i] = IF i < p THEN s[i] ELSE s[i + 1]
      <4>1. CASE i < p
        <5>1. i \in 1 .. p - 1
          BY <2>5, <4>1
        <5>2. (a \o b)[i] = a[i]
          BY <3>1, <5>1
        <5> QED BY <2>6, <4>1, <5>1, <5>2 DEF a
      <4>2. CASE ~ (i < p)
        <5>1. i - (p - 1) \in 1 .. Len(s) - p /\ p + (i - (p - 1)) = i + 1
          BY <2>5, <4>2
        <5>2. (a \o b)[i] = b[i - Len(a)]
          <6>1. i \in Nat /\ i > Len(a) /\ i <= Len(a) + Len(b)
            <7>1. i \in 1 .. Len(s) - 1 /\ Len(a) = p - 1 /\ Len(b) = Len(s) - p
              BY <3>1
            <7> HIDE DEF a, b
            <7> QED BY ONLY <2>5, <4>2, <7>1
          <6>2. a \in Seq(S) /\ b \in Seq(S)
            BY <3>1
          <6> QED BY ONLY <6>1, <6>2
        <5> QED BY <2>7, <3>1, <4>2, <5>1, <5>2 DEF b
      <4> QED BY <4>1, <4>2
    <3> QED BY <3>2, <3>3
  <2> QED BY <2>4, <2>8 DEF a, b
<1> QED BY <1>1, <1>2 DEF Without

\* The parts of a workspace in the form the provers use.
LEMMA WorkspaceFacts ==
    ASSUME NEW w \in Workspaces
    PROVE  /\ w.files \in Seq(Entries) /\ DOMAIN w.files = 1 .. Len(w.files)
           /\ Len(w.files) \in Nat
           /\ w.resources \in Seq(Claims) /\ DOMAIN w.resources = 1 .. Len(w.resources)
           /\ Len(w.resources) \in Nat
           /\ IsFiniteSet(Held(w)) /\ IsFiniteSet(Leased(w)) /\ Held(w) \subseteq Claims
<1>1. /\ w.files \in Seq(Entries) /\ DOMAIN w.files = 1 .. Len(w.files)
      /\ Len(w.files) \in Nat
      /\ w.resources \in Seq(Claims) /\ DOMAIN w.resources = 1 .. Len(w.resources)
      /\ Len(w.resources) \in Nat
  BY DEF Workspaces
<1>2. Held(w) \subseteq Claims
  BY <1>1 DEF Held
<1>3. IsFiniteSet(Held(w))
  <2>1. w.resources \in Surjection(1 .. Len(w.resources), Held(w))
    BY <1>1 DEF Surjection, Held
  <2>2. IsFiniteSet(1 .. Len(w.resources))
    BY <1>1, FS_Interval
  <2> QED BY <2>1, <2>2, FS_Surjection
<1>4. IsFiniteSet(Leased(w))
  BY <1>3, FS_Subset DEF Leased
<1> QED BY <1>1, <1>2, <1>3, <1>4

\* A resource that is closed is forgotten; one that is opened is managed.
LEMMA ClaimForgotten ==
    ASSUME NEW w \in Workspaces, OneEach(w), NEW kind, NEW f
    PROVE  LET v == Forgotten(w, kind, f)
           IN  /\ v = [w EXCEPT !.resources = v.resources] /\ v \in Workspaces
               /\ Held(v) = Held(w) \ {Resource(kind, f)} /\ OneEach(v)
<1> DEFINE x == Resource(kind, f)
           s == w.resources
           t == RemoveFirst(s, x)
           v == Forgotten(w, kind, f)
<1>1. s \in Seq(Claims) /\ DOMAIN s = 1 .. Len(s) /\ Len(s) \in Nat
  BY WorkspaceFacts
<1>2. Once(s, x)
  BY DEF OneEach, Once
<1>3. v = [w EXCEPT !.resources = t]
  BY DEF Forgotten
<1> HIDE DEF x, s
<1>4. t \in Seq(Claims) /\ Without(s, x, t)
  BY ONLY <1>1, <1>2, RemoveFirstFrom
<1> HIDE DEF t, v
<1>5. v.resources = t /\ v = [w EXCEPT !.resources = v.resources]
  BY <1>3 DEF Workspaces
<1>6. v \in Workspaces
  BY <1>3, <1>4 DEF Workspaces
<1>7. /\ {t[i] : i \in DOMAIN t} = {s[i] : i \in DOMAIN s} \ {x}
      /\ \A i, j \in DOMAIN t : t[i].file = t[j].file => i = j
  <2>1. CASE \A i \in DOMAIN s : s[i] # x
    BY <1>4, <2>1 DEF OneEach, s, Without
  <2>2. ASSUME NEW p \in DOMAIN s, s[p] = x
        PROVE  /\ {t[i] : i \in DOMAIN t} = {s[i] : i \in DOMAIN s} \ {x}
               /\ \A i, j \in DOMAIN t : t[i].file = t[j].file => i = j
    <3>1. /\ DOMAIN t = 1 .. Len(s) - 1
          /\ \A i \in 1 .. Len(s) - 1 : t[i] = IF i < p THEN s[i] ELSE s[i + 1]
      BY <1>4, <2>2 DEF Without
    <3>2. \A i, j \in DOMAIN s : s[i].file = s[j].file => i = j
      BY DEF OneEach, s
    <3>3. ASSUME NEW i \in DOMAIN t
          PROVE  t[i] \in {s[j] : j \in DOMAIN s} \ {x}
      <4>1. i \in DOMAIN s /\ i + 1 \in DOMAIN s
        BY <1>1, <3>1
      <4>2. s[i] # x \/ i = p
        BY <2>2, <3>2, <4>1
      <4>3. s[i + 1] # x \/ i + 1 = p
        BY <2>2, <3>2, <4>1
      <4> QED BY <1>1, <3>1, <4>1, <4>2, <4>3
    <3>4. ASSUME NEW j \in DOMAIN s, s[j] # x
          PROVE  \E i \in DOMAIN t : t[i] = s[j]
      <4>1. CASE j < p
        <5>1. j \in DOMAIN t /\ t[j] = s[j]
          BY <1>1, <3>1, <4>1
        <5> QED BY <5>1
      <4>2. CASE ~ (j < p)
        <5>1. j > p
          BY <1>1, <2>2, <3>4, <4>2
        <5>2. j - 1 \in DOMAIN t /\ t[j - 1] = s[j]
          BY <1>1, <3>1, <5>1
        <5> QED BY <5>2
      <4> QED BY <4>1, <4>2
    <3>5. ASSUME NEW i \in DOMAIN t, NEW j \in DOMAIN t, t[i].file = t[j].file
          PROVE  i = j
      <4>1. i \in DOMAIN s /\ i + 1 \in DOMAIN s /\ j \in DOMAIN s /\ j + 1 \in DOMAIN s
            /\ p \in DOMAIN s
        BY <1>1, <3>1
      <4>2. t[i] = IF i < p THEN s[i] ELSE s[i + 1]
        BY <3>1
      <4>3. t[j] = IF j < p THEN s[j] ELSE s[j + 1]
        BY <3>1
      <4>4. i \in Nat /\ j \in Nat /\ p \in Nat
        BY <1>1, <4>1
      <4> QED BY <3>2, <3>5, <4>1, <4>2, <4>3, <4>4
    <3> QED BY <3>3, <3>4, <3>5
  <2> QED BY <2>1, <2>2
<1>8. Held(v) = Held(w) \ {x} /\ OneEach(v)
  BY <1>5, <1>7 DEF Held, OneEach, s
<1> QED BY <1>5, <1>6, <1>8 DEF v, x

LEMMA ClaimManaged ==
    ASSUME NEW w \in Workspaces, OneEach(w), NEW kind, NEW f, Resource(kind, f) \in Claims,
           \A r \in Held(w) : r.file # f
    PROVE  LET v == Managed(w, kind, f)
           IN  /\ v = [w EXCEPT !.resources = v.resources] /\ v \in Workspaces
               /\ Held(v) = Held(w) \union {Resource(kind, f)} /\ OneEach(v)
<1> DEFINE x == Resource(kind, f)
           s == w.resources
           t == Append(s, x)
           v == Managed(w, kind, f)
<1>1. s \in Seq(Claims) /\ DOMAIN s = 1 .. Len(s) /\ Len(s) \in Nat
  BY WorkspaceFacts
<1>2. v = [w EXCEPT !.resources = t] /\ x.file = f /\ x \in Claims
  BY DEF Managed, Resource
<1>3. \A i \in DOMAIN s : s[i].file # f
  BY DEF Held
<1>4. \A i, j \in DOMAIN s : s[i].file = s[j].file => i = j
  BY DEF OneEach
<1> HIDE DEF x, s
<1>5. /\ t \in Seq(Claims) /\ DOMAIN t = 1 .. Len(s) + 1
      /\ \A i \in DOMAIN s : t[i] = s[i]
      /\ t[Len(s) + 1] = x
  BY <1>1, <1>2
<1> HIDE DEF t, v
<1>6. v.resources = t /\ v = [w EXCEPT !.resources = v.resources] /\ v \in Workspaces
  BY <1>2, <1>5 DEF Workspaces
<1>7. \A i \in DOMAIN t : i \in DOMAIN s \/ i = Len(s) + 1
  BY <1>1, <1>5
<1>8. {t[i] : i \in DOMAIN t} = {s[i] : i \in DOMAIN s} \union {x}
  BY <1>1, <1>5, <1>7
<1>9. \A i, j \in DOMAIN t : t[i].file = t[j].file => i = j
  BY <1>2, <1>3, <1>4, <1>5, <1>7
<1> QED BY <1>6, <1>8, <1>9 DEF Held, OneEach, s, v, x

-----------------------------------------------------------------------------
(* The byte account: live_temporary_bytes is the registry and the files. *)

Units(files) == UNION {{f} \X (1 .. files[f].size) : f \in DOMAIN files}
Bytes(files) == Cardinality(Units(files))
Balanced(w) ==
    /\ w.live = SlotBytes * Len(w.files) + Bytes(w.files)
    /\ \A f \in DOMAIN w.files : ~ w.files[f].active => w.files[f].size = 0

\* The bytes of a file, and those of all others.
LEMMA UnitsOf ==
    ASSUME NEW files \in Seq(Entries), NEW f \in DOMAIN files,
           NEW others, others = {u \in Units(files) : u[1] # f}
    PROVE  /\ IsFiniteSet(Units(files)) /\ IsFiniteSet(others)
           /\ Bytes(files) = Cardinality(others) + files[f].size
<1> DEFINE own(g) == {g} \X (1 .. files[g].size)
           T == {own(g) : g \in DOMAIN files}
           part == [g \in DOMAIN files |-> own(g)]
<1>1. DOMAIN files = 1 .. Len(files) /\ Len(files) \in Nat
  OBVIOUS
<1>2. \A g \in DOMAIN files : files[g].size \in Nat
  BY EntryTypes
<1>3. ASSUME NEW g \in DOMAIN files
      PROVE  IsFiniteSet(own(g)) /\ Cardinality(own(g)) = files[g].size
  <2> DEFINE a == {g}
             b == 1 .. files[g].size
  <2>1. IsFiniteSet(a) /\ Cardinality(a) = 1
    BY FS_Singleton
  <2>3. files[g].size \in Nat
    BY <1>2
  <2>2. IsFiniteSet(b) /\ Cardinality(b) = files[g].size
    <3> DEFINE n == files[g].size
    <3>1. n \in Int /\ n >= 0 /\ 1 \in Int
      BY <2>3
    <3> HIDE DEF n
    <3>2. IsFiniteSet(1 .. n) /\ Cardinality(1 .. n) = IF 1 > n THEN 0 ELSE n - 1 + 1
      BY ONLY <3>1, FS_Interval
    <3>3. Cardinality(1 .. n) = n
      BY ONLY <3>1, <3>2
    <3> QED BY <3>2, <3>3 DEF n
  <2> HIDE DEF a, b
  <2>4. IsFiniteSet(a \X b) /\ Cardinality(a \X b) = Cardinality(a) * Cardinality(b)
    BY <2>1, <2>2, FS_Product
  <2>5. own(g) = a \X b
    BY DEF a, b
  <2>6. Cardinality(a) * Cardinality(b) = files[g].size
    BY ONLY <2>1, <2>2, <2>3
  <2> HIDE DEF own
  <2> QED BY ONLY <2>4, <2>5, <2>6
<1>4. IsFiniteSet(Units(files))
  <2>1. part \in Surjection(DOMAIN files, T)
    BY DEF Surjection
  <2>2. IsFiniteSet(DOMAIN files)
    BY <1>1, FS_Interval
  <2>3. \A t \in T : IsFiniteSet(t)
    BY <1>3
  <2>4. Units(files) = UNION T
    BY DEF Units
  <2> HIDE DEF part, T
  <2>5. IsFiniteSet(T)
    BY <2>1, <2>2, FS_Surjection
  <2> QED BY <2>3, <2>4, <2>5, FS_UNION
<1>5. others \subseteq Units(files)
  OBVIOUS
<1>6. IsFiniteSet(others)
  BY <1>4, <1>5, FS_Subset
<1>7. Units(files) = others \union own(f) /\ others \cap own(f) = {}
  <2>1. ASSUME NEW u \in Units(files), u[1] = f PROVE u \in own(f)
    BY <2>1 DEF Units
  <2>2. own(f) \subseteq Units(files)
    BY DEF Units
  <2>3. \A u \in own(f) : u[1] = f
    OBVIOUS
  <2> QED BY <2>1, <2>2, <2>3
<1>8. IsFiniteSet(own(f)) /\ Cardinality(own(f)) = files[f].size
  BY <1>3
<1> HIDE DEF own
<1>9. Cardinality(Units(files))
        = Cardinality(others) + Cardinality(own(f)) - Cardinality(others \cap own(f))
  BY <1>6, <1>7, <1>8, FS_Union
<1>10. Cardinality(others \cap own(f)) = 0
  BY <1>7, FS_EmptySet
<1>11. Cardinality(others) \in Nat /\ Cardinality(own(f)) \in Nat
  BY <1>6, <1>8, FS_CardinalityType
<1> QED BY <1>4, <1>6, <1>8, <1>9, <1>10, <1>11 DEF Bytes

\* An entry that is written with another size changes the sum by the difference.
LEMMA BytesChange ==
    ASSUME NEW s \in Seq(Entries), NEW t \in Seq(Entries), NEW f \in DOMAIN s,
           Len(t) = Len(s), \A g \in DOMAIN s \ {f} : t[g].size = s[g].size
    PROVE  /\ Bytes(s) \in Nat /\ Bytes(t) \in Nat /\ Bytes(s) >= s[f].size
           /\ Bytes(t) = Bytes(s) - s[f].size + t[f].size
<1> DEFINE others(x) == {u \in Units(x) : u[1] # f}
<1>1. DOMAIN s = 1 .. Len(s) /\ DOMAIN t = 1 .. Len(t) /\ f \in DOMAIN t
  OBVIOUS
<1>2. others(s) = others(t)
  BY <1>1 DEF Units
<1>3. IsFiniteSet(others(s)) /\ Bytes(s) = Cardinality(others(s)) + s[f].size
  BY UnitsOf
<1>4. Bytes(t) = Cardinality(others(t)) + t[f].size
  BY <1>1, UnitsOf
<1>5. Cardinality(others(s)) \in Nat
  BY <1>3, FS_CardinalityType
<1>6. s[f].size \in Nat /\ t[f].size \in Nat
  BY <1>1, EntryTypes
<1> HIDE DEF others
<1> QED BY <1>2, <1>3, <1>4, <1>5, <1>6

\* A new entry has no bytes yet.
LEMMA BytesAppend ==
    ASSUME NEW s \in Seq(Entries), NEW e \in Entries, e.size = 0
    PROVE  Bytes(Append(s, e)) = Bytes(s)
<1>1. /\ DOMAIN s = 1 .. Len(s) /\ DOMAIN Append(s, e) = 1 .. Len(s) + 1
      /\ Append(s, e)[Len(s) + 1] = e /\ Len(s) \in Nat
      /\ \A g \in DOMAIN s : Append(s, e)[g] = s[g]
  OBVIOUS
<1>2. Units(Append(s, e)) = Units(s)
  BY <1>1 DEF Units
<1> QED BY <1>2 DEF Bytes

\* Files of no size have no bytes.
LEMMA NoBytes ==
    ASSUME NEW s \in Seq(Entries), \A f \in DOMAIN s : s[f].size = 0
    PROVE  Bytes(s) = 0
<1>1. Units(s) = {}
  BY DEF Units
<1> QED BY <1>1, FS_EmptySet DEF Bytes

-----------------------------------------------------------------------------
(***************************************************************************)
(* What an operation on the entry of f leaves alone: every other entry and *)
(* its file (Beside), and the resources and handles, too, when it neither  *)
(* opens nor makes anything (Local).                                       *)
(***************************************************************************)

\* A file on disk has an entry that is active.
Paths == {Registry, Directory}
Listed(w) == \A f \in w.disk \ Paths : f \in DOMAIN w.files /\ w.files[f].active

Beside(w, v, f) ==
    /\ w \in Workspaces /\ v \in Workspaces
    /\ DOMAIN v.files = DOMAIN w.files \union {f}
    /\ \A g \in DOMAIN w.files \ {f} : v.files[g] = w.files[g]
    /\ v.disk \ {f} = w.disk \ {f}
    /\ v.closed = w.closed /\ v.unreclaimed = w.unreclaimed /\ v.faults <= w.faults

Local(w, v, f) ==
    /\ Beside(w, v, f) /\ f \in DOMAIN w.files
    /\ v.resources = w.resources /\ v.leases = w.leases /\ v.disk \subseteq w.disk
    /\ v.files[f].active => w.files[f].active

\* One operation on an entry after another.
LEMMA LocalTransitive ==
    ASSUME NEW w, NEW v, NEW u, NEW f, Local(w, v, f), Local(v, u, f)
    PROVE  Local(w, u, f)
<1>1. u.faults <= w.faults
  <2>1. w.faults \in Nat /\ v.faults \in Nat /\ u.faults \in Nat
    BY DEF Local, Beside, Workspaces
  <2>2. v.faults <= w.faults /\ u.faults <= v.faults
    BY DEF Local, Beside
  <2> QED BY <2>1, <2>2
<1> QED BY <1>1 DEF Local, Beside

\* No operation at all.
LEMMA LocalReflexive ==
    ASSUME NEW w \in Workspaces, NEW f \in DOMAIN w.files
    PROVE  Local(w, w, f)
<1>1. w.faults \in Nat
  BY DEF Workspaces
<1> QED BY <1>1 DEF Local, Beside

\* An input or output happens, or fails and is counted.
LEMMA IoOutcomes ==
    ASSUME NEW w \in Workspaces, NEW v, NEW o \in Io(w, v)
    PROVE  \/ o.end = "ok" /\ o.w = v
           \/ /\ o.end = "error" /\ o.w = [w EXCEPT !.faults = @ - 1] /\ o.w \in Workspaces
              /\ o.w.faults < w.faults
<1>1. CASE o = [w |-> v, end |-> "ok"]
  BY <1>1
<1>2. CASE w.faults > 0 /\ o = [w |-> [w EXCEPT !.faults = @ - 1], end |-> "error"]
  <2>1. w.faults \in Nat /\ w.faults - 1 \in Nat /\ w.faults - 1 < w.faults
    BY <1>2 DEF Workspaces
  <2>2. [w EXCEPT !.faults = @ - 1] \in Workspaces
    BY <2>1 DEF Workspaces
  <2>3. [w EXCEPT !.faults = @ - 1].faults = w.faults - 1
    BY DEF Workspaces
  <2> QED BY <1>2, <2>1, <2>2, <2>3
<1> QED BY <1>1, <1>2 DEF Io, Ok, Raises

\* The registry needs a handle besides.
LEMMA RegistryOutcomes ==
    ASSUME NEW w \in Workspaces, NEW v, NEW o \in RegistryFile(w, v)
    PROVE  \/ o.end = "ok" /\ o.w = v /\ w.leases < MaxHandles
           \/ o.end = "error" /\ o.w = w /\ w.leases >= MaxHandles
           \/ /\ o.end = "error" /\ o.w = [w EXCEPT !.faults = @ - 1] /\ o.w \in Workspaces
              /\ o.w.faults < w.faults
<1>1. w.leases \in Int /\ MaxHandles \in Int
  BY SizesAssumption DEF Workspaces
<1>2. CASE w.leases >= MaxHandles
  BY <1>2 DEF RegistryFile, Raises
<1>3. CASE ~ (w.leases >= MaxHandles)
  <2>1. o \in Io(w, v) /\ w.leases < MaxHandles
    BY <1>1, <1>3 DEF RegistryFile
  <2> QED BY <2>1, IoOutcomes
<1> QED BY <1>2, <1>3

\* A fault changes nothing but the number of those to come.
LEMMA LocalFault ==
    ASSUME NEW w \in Workspaces, NEW f \in DOMAIN w.files, NEW v \in Workspaces,
           v = [w EXCEPT !.faults = @ - 1], v.faults < w.faults
    PROVE  Local(w, v, f) /\ v.files = w.files /\ v.disk = w.disk /\ v.live = w.live
<1>1. /\ v.files = w.files /\ v.disk = w.disk /\ v.live = w.live /\ v.closed = w.closed
      /\ v.resources = w.resources /\ v.leases = w.leases /\ v.unreclaimed = w.unreclaimed
  BY DEF Workspaces
<1>2. w.faults \in Int /\ v.faults \in Int
  BY DEF Workspaces
<1> QED BY <1>1, <1>2 DEF Local, Beside

\* _write: the entry is replaced, or nothing is.
LEMMA Written ==
    ASSUME NEW w \in Workspaces, NEW f \in DOMAIN w.files, NEW e \in Entries,
           e.active => w.files[f].active, NEW o \in Write(w, f, e)
    PROVE  /\ Local(w, o.w, f) /\ o.w.disk = w.disk /\ o.w.live = w.live
           /\ \/ o.end = "ok" /\ o.w.files[f] = e /\ o.w.faults = w.faults
                 /\ w.leases < MaxHandles
              \/ o.end = "error" /\ o.w.files = w.files
                 /\ (w.leases >= MaxHandles \/ o.w.faults < w.faults)
<1> DEFINE files == [w.files EXCEPT ![f] = e]
           v == [w EXCEPT !.files = files]
<1>1. /\ files \in Seq(Entries) /\ DOMAIN files = DOMAIN w.files /\ files[f] = e
      /\ \A g \in DOMAIN w.files \ {f} : files[g] = w.files[g]
  <2>1. w.files \in Seq(Entries)
    BY WorkspaceFacts
  <2> QED BY <2>1, EntryWritten
<1>2. o \in RegistryFile(w, v)
  BY DEF Write
<1> HIDE DEF files
<1>3. /\ v \in Workspaces /\ v.files = files /\ v.disk = w.disk /\ v.live = w.live
      /\ v.resources = w.resources /\ v.leases = w.leases /\ v.closed = w.closed
      /\ v.unreclaimed = w.unreclaimed /\ v.faults = w.faults /\ w.faults \in Int
  <2>1. v \in Workspaces
    BY <1>1 DEF Workspaces
  <2>2. /\ v.files = files /\ v.disk = w.disk /\ v.live = w.live
        /\ v.resources = w.resources /\ v.leases = w.leases /\ v.closed = w.closed
        /\ v.unreclaimed = w.unreclaimed /\ v.faults = w.faults
    BY DEF Workspaces
  <2>3. w.faults \in Int
    BY DEF Workspaces
  <2> QED BY <2>1, <2>2, <2>3
<1> HIDE DEF v
<1>4. Local(w, v, f)
  BY <1>1, <1>3 DEF Local, Beside
<1>5. \/ o.end = "ok" /\ o.w = v /\ w.leases < MaxHandles
      \/ o.end = "error" /\ o.w = w /\ w.leases >= MaxHandles
      \/ /\ o.end = "error" /\ o.w = [w EXCEPT !.faults = @ - 1] /\ o.w \in Workspaces
         /\ o.w.faults < w.faults
  BY <1>2, RegistryOutcomes
<1> QED BY <1>1, <1>3, <1>4, <1>5, LocalReflexive, LocalFault

\* _tracked: an entry that is active is found.
LEMMA TrackedFound ==
    ASSUME NEW w \in Workspaces, NEW f \in DOMAIN w.files, NEW o \in Tracked(w, f)
    PROVE  /\ Local(w, o.w, f) /\ o.w.files = w.files
           /\ o.w.disk = w.disk /\ o.w.live = w.live
           /\ \/ o.end = "ok" /\ o.w = w /\ w.files[f].active /\ w.leases < MaxHandles
              \/ o.end = "error" /\ (w.leases >= MaxHandles \/ ~ w.files[f].active
                                      \/ o.w.faults < w.faults)
<1>1. PICK p \in RegistryFile(w, w) :
        o \in IF p.end = "ok"
              THEN IF p.w.files[f].active THEN Ok(p.w) ELSE Raises(p.w) ELSE {p}
  BY DEF Tracked, Then
<1>2. \/ p.end = "ok" /\ p.w = w /\ w.leases < MaxHandles
      \/ p.end = "error" /\ p.w = w /\ w.leases >= MaxHandles
      \/ /\ p.end = "error" /\ p.w = [w EXCEPT !.faults = @ - 1] /\ p.w \in Workspaces
         /\ p.w.faults < w.faults
  BY RegistryOutcomes
<1>3. Local(w, w, f)
  BY LocalReflexive
<1>4. CASE p.end = "ok"
  BY <1>1, <1>2, <1>3, <1>4 DEF Ok, Raises
<1>5. CASE p.end # "ok"
  BY <1>1, <1>2, <1>3, <1>5, LocalFault
<1> QED BY <1>4, <1>5

\* An entry that stays active keeps its file listed.
LEMMA ListedStays ==
    ASSUME NEW w, NEW v, NEW f, Beside(w, v, f), Listed(w), f \in v.disk => v.files[f].active
    PROVE  Listed(v)
BY DEF Beside, Listed

\* The account follows the size of the one entry that changed.
LEMMA BalanceStays ==
    ASSUME NEW w, NEW v, NEW f, Local(w, v, f), Balanced(w),
           v.live = w.live - w.files[f].size + v.files[f].size,
           ~ v.files[f].active => v.files[f].size = 0
    PROVE  Balanced(v) /\ v.live >= 0
<1>1. /\ w.files \in Seq(Entries) /\ v.files \in Seq(Entries) /\ Len(v.files) = Len(w.files)
      /\ f \in DOMAIN w.files /\ f \in DOMAIN v.files /\ w.live \in Int
      /\ \A g \in DOMAIN w.files \ {f} : v.files[g] = w.files[g]
      /\ DOMAIN v.files = DOMAIN w.files
  <2>1. w \in Workspaces /\ v \in Workspaces
    BY DEF Local, Beside
  <2>2. DOMAIN v.files = DOMAIN w.files /\ f \in DOMAIN w.files
        /\ \A g \in DOMAIN w.files \ {f} : v.files[g] = w.files[g]
    BY DEF Local, Beside
  <2>3. Len(v.files) = Len(w.files)
    BY <2>1, <2>2, WorkspaceFacts
  <2> QED BY <2>1, <2>2, <2>3, WorkspaceFacts DEF Workspaces
<1>2. /\ Bytes(w.files) \in Nat /\ Bytes(v.files) \in Nat
      /\ Bytes(v.files) = Bytes(w.files) - w.files[f].size + v.files[f].size
  BY <1>1, BytesChange
<1>3. w.files[f].size \in Nat /\ v.files[f].size \in Nat /\ Len(w.files) \in Nat
  BY <1>1, EntryTypes
<1>4. SlotBytes * Len(w.files) \in Nat
  BY <1>3, SizesAssumption
<1>5. v.live = SlotBytes * Len(v.files) + Bytes(v.files)
  <2> DEFINE slots == SlotBytes * Len(w.files)
  <2>1. slots \in Nat /\ SlotBytes * Len(v.files) = slots
    BY <1>1, <1>4
  <2>2. w.live = slots + Bytes(w.files)
    BY DEF Balanced
  <2>3. v.live = w.live - w.files[f].size + v.files[f].size
    OBVIOUS
  <2> HIDE DEF slots
  <2> QED BY ONLY <1>2, <1>3, <2>1, <2>2, <2>3
<1>6. \A g \in DOMAIN v.files : ~ v.files[g].active => v.files[g].size = 0
  BY <1>1 DEF Balanced
<1>7. v.live >= 0
  BY <1>1, <1>2, <1>4, <1>5
<1> QED BY <1>5, <1>6, <1>7 DEF Balanced

\* _adjust_size: the account changes, and breaks below zero.
LEMMA Adjusted ==
    ASSUME NEW w \in Workspaces, NEW f \in DOMAIN w.files, NEW d \in Int,
           NEW o \in AdjustSize(w, d)
    PROVE  /\ Local(w, o.w, f) /\ o.w.files = w.files /\ o.w.disk = w.disk
           /\ o.w.faults = w.faults /\ o.w.live = w.live + d
           /\ o.end = IF o.w.live < 0 THEN "broken" ELSE "ok"
<1> DEFINE v == [w EXCEPT !.live = @ + d]
<1>1. v \in Workspaces
  <2>1. w.live + d \in Int
    BY DEF Workspaces
  <2> QED BY <2>1 DEF Workspaces
<1>2. /\ v.files = w.files /\ v.disk = w.disk /\ v.closed = w.closed /\ v.live = w.live + d
      /\ v.resources = w.resources /\ v.leases = w.leases /\ v.unreclaimed = w.unreclaimed
      /\ v.faults = w.faults
  BY DEF Workspaces
<1>3. w.faults \in Int
  BY DEF Workspaces
<1>4. o.w = v /\ o.end = IF v.live < 0 THEN "broken" ELSE "ok"
  BY DEF AdjustSize
<1> HIDE DEF v
<1> QED BY <1>1, <1>2, <1>3, <1>4 DEF Local, Beside

\* _delete: the file is gone, and without a fault its bytes and its entry too.
LEMMA Deleted ==
    ASSUME NEW w \in Workspaces, NEW f \in DOMAIN w.files, NEW o \in Delete(w, f)
    PROVE  /\ Local(w, o.w, f) /\ (Listed(w) => Listed(o.w))
           /\ o.w.files[f].readers = w.files[f].readers
           /\ o.w.files[f].discard = w.files[f].discard
           /\ f \in o.w.disk => o.end = "error" /\ o.w.files = w.files
           /\ o.end = "ok" => ~ o.w.files[f].active /\ o.w.files[f].size = 0
           /\ o.end \in {"ok", "error", "broken"}
           /\ Balanced(w) /\ w.leases < MaxHandles /\ o.w.faults = w.faults
                => o.end = "ok" /\ Balanced(o.w)
<1> DEFINE v == [w EXCEPT !.disk = @ \ {f}]
           Gone(u) == [u.files[f] EXCEPT !.active = FALSE, !.size = 0]
<1>1. PICK p \in Io(w, v) :
        o \in IF p.end = "ok"
              THEN Then(AdjustSize(p.w, - p.w.files[f].size), LAMBDA u : Write(u, f, Gone(u)))
              ELSE {p}
  BY DEF Delete, Then
<1>2. /\ v \in Workspaces /\ Local(w, v, f) /\ v.files = w.files /\ v.disk = w.disk \ {f}
      /\ v.live = w.live /\ v.faults = w.faults
  <2>1. v \in Workspaces
    BY DEF Workspaces
  <2>2. /\ v.files = w.files /\ v.disk = w.disk \ {f} /\ v.closed = w.closed /\ v.live = w.live
        /\ v.resources = w.resources /\ v.leases = w.leases /\ v.unreclaimed = w.unreclaimed
        /\ v.faults = w.faults
    BY DEF Workspaces
  <2>3. w.faults \in Int
    BY DEF Workspaces
  <2> HIDE DEF v
  <2> QED BY <2>1, <2>2, <2>3 DEF Local, Beside
<1> HIDE DEF v
<1>3. CASE p.end # "ok"
  <2>1. /\ o.end = "error" /\ o.w = [w EXCEPT !.faults = @ - 1] /\ o.w \in Workspaces
        /\ o.w.faults < w.faults
    BY <1>1, <1>3, IoOutcomes
  <2>2. Local(w, o.w, f) /\ o.w.files = w.files /\ o.w.disk = w.disk
    BY <2>1, LocalFault
  <2>3. o.w.faults # w.faults
    BY <2>1 DEF Workspaces
  <2> QED BY <2>1, <2>2, <2>3 DEF Listed
<1>4. CASE p.end = "ok"
  <2>1. p.w = v /\ o \in Then(AdjustSize(v, - v.files[f].size), LAMBDA u : Write(u, f, Gone(u)))
    BY <1>1, <1>4, IoOutcomes
  <2>2. PICK q \in AdjustSize(v, - v.files[f].size) :
          o \in IF q.end = "ok" THEN Write(q.w, f, Gone(q.w)) ELSE {q}
    BY <2>1 DEF Then
  <2>3. f \in DOMAIN v.files /\ v.files[f].size \in Nat /\ v.files \in Seq(Entries)
    BY <1>2, WorkspaceFacts, EntryTypes
  <2>4. /\ Local(v, q.w, f) /\ q.w.files = v.files /\ q.w.disk = v.disk
        /\ q.w.faults = v.faults /\ q.w.live = v.live - v.files[f].size
        /\ q.end = IF q.w.live < 0 THEN "broken" ELSE "ok"
    <3>1. - v.files[f].size \in Int /\ v.live \in Int
      BY <1>2, <2>3 DEF Workspaces
    <3> QED BY <1>2, <2>2, <2>3, <3>1, Adjusted
  <2>5. f \notin v.disk
    BY <1>2
  <2>6. Local(w, q.w, f)
    BY <1>2, <2>4, LocalTransitive
  <2>7. CASE q.end # "ok"
    <3>1. o = q /\ o.end = "broken"
      BY <2>2, <2>4, <2>7
    <3>2. Listed(w) => Listed(o.w)
      BY <2>4, <2>5, <2>6, <3>1, ListedStays DEF Local
    <3>3. ASSUME Balanced(w) PROVE FALSE
      <4>1. Bytes(w.files) >= w.files[f].size /\ Bytes(w.files) \in Nat /\ Len(w.files) \in Nat
        <5>1. w.files \in Seq(Entries) /\ Len(w.files) \in Nat
          BY WorkspaceFacts
        <5> QED BY <5>1, BytesChange
      <4>2. SlotBytes * Len(w.files) \in Nat
        BY <4>1, SizesAssumption
      <4>3. w.live >= w.files[f].size
        BY <1>2, <2>3, <3>3, <4>1, <4>2 DEF Balanced
      <4>4. w.live \in Int
        BY DEF Workspaces
      <4> QED BY <1>2, <2>3, <2>4, <2>7, <4>3, <4>4
    <3> QED BY <1>2, <2>4, <2>5, <2>6, <3>1, <3>2, <3>3
  <2>8. CASE q.end = "ok"
    <3> DEFINE e == Gone(q.w)
    <3>1. q.w \in Workspaces /\ f \in DOMAIN q.w.files
      BY <2>6 DEF Local, Beside
    <3>2. e \in Entries /\ ~ e.active /\ e.size = 0 /\ e.readers = w.files[f].readers
          /\ e.discard = w.files[f].discard
      <4>1. q.w.files[f] = w.files[f] /\ w.files[f] \in Entries
        BY <1>2, <2>3, <2>4, EntryTypes
      <4> QED BY <4>1 DEF Entries
    <3> HIDE DEF e
    <3>3. o \in Write(q.w, f, e)
      BY <2>2, <2>8 DEF e
    <3>4. /\ Local(q.w, o.w, f) /\ o.w.disk = q.w.disk /\ o.w.live = q.w.live
          /\ \/ o.end = "ok" /\ o.w.files[f] = e /\ o.w.faults = q.w.faults
                 /\ q.w.leases < MaxHandles
             \/ o.end = "error" /\ o.w.files = q.w.files
                 /\ (q.w.leases >= MaxHandles \/ o.w.faults < q.w.faults)
      BY <3>1, <3>2, <3>3, Written
    <3>5. Local(w, o.w, f) /\ f \notin o.w.disk
      BY <2>4, <2>5, <2>6, <3>4, LocalTransitive
    <3>6. Listed(w) => Listed(o.w)
      BY <3>5, ListedStays DEF Local
    <3>7. ASSUME Balanced(w), w.leases < MaxHandles, o.w.faults = w.faults
          PROVE  o.end = "ok" /\ Balanced(o.w)
      <4>1. q.w.leases = w.leases /\ q.w.faults = w.faults
        BY <1>2, <2>4, <2>6 DEF Local
      <4>2. w.leases \in Int /\ w.faults \in Int /\ MaxHandles \in Int
        BY SizesAssumption DEF Workspaces
      <4>3. o.end = "ok" /\ o.w.files[f] = e
        BY <3>4, <3>7, <4>1, <4>2
      <4>4. o.w.live = w.live - w.files[f].size + o.w.files[f].size
        <5>1. w.live \in Int /\ w.files[f].size \in Int
          BY <1>2, <2>3 DEF Workspaces
        <5> QED BY <1>2, <2>4, <3>2, <3>4, <4>3, <5>1
      <4> QED BY <3>2, <3>5, <3>7, <4>3, <4>4, BalanceStays
    <3> QED BY <1>2, <2>4, <3>2, <3>4, <3>5, <3>6, <3>7
  <2> QED BY <2>7, <2>8
<1> QED BY <1>3, <1>4

\* The readers of an entry.
LEMMA ReadersWritten ==
    ASSUME NEW e \in Entries, NEW n \in Nat
    PROVE  LET x == [e EXCEPT !.readers = n]
           IN  /\ x \in Entries /\ x.readers = n /\ x.discard = e.discard
               /\ x.active = e.active /\ x.size = e.size
BY DEF Entries

\* The mark of an entry that is given up.
LEMMA DiscardWritten ==
    ASSUME NEW e \in Entries
    PROVE  LET x == [e EXCEPT !.discard = TRUE]
           IN  /\ x \in Entries /\ x.readers = e.readers /\ x.discard = TRUE
               /\ x.active = e.active /\ x.size = e.size
BY DEF Entries

\* note_size: a size is entered with its difference.
LEMMA Noted ==
    ASSUME NEW w \in Workspaces, NEW f \in DOMAIN w.files, NEW size \in Nat,
           NEW o \in NoteSize(w, f, size)
    PROVE  /\ Local(w, o.w, f) /\ o.w.disk = w.disk
           /\ o.w.files[f].readers = w.files[f].readers
           /\ o.w.files[f].discard = w.files[f].discard
           /\ o.w.files[f].active = w.files[f].active
           /\ o.end \in {"ok", "error", "broken"}
           /\ Balanced(w) /\ o.w.faults = w.faults => Balanced(o.w)
<1> DEFINE e(v) == [v.files[f] EXCEPT !.size = size]
           Sized(v) == IF v.files[f].size = size THEN Ok(v)
                       ELSE Then(Write(v, f, e(v)), LAMBDA u : AdjustSize(u, size - v.files[f].size))
<1>1. PICK p \in Tracked(w, f) : o \in IF p.end = "ok" THEN Sized(p.w) ELSE {p}
  BY DEF NoteSize, Then
<1>2. /\ Local(w, p.w, f) /\ p.w.files = w.files /\ p.w.disk = w.disk /\ p.w.live = w.live
      /\ \/ p.end = "ok" /\ p.w = w /\ w.files[f].active /\ w.leases < MaxHandles
         \/ p.end = "error"
  BY TrackedFound
<1>3. /\ w.files \in Seq(Entries) /\ w.files[f] \in Entries /\ w.files[f].size \in Nat
      /\ Local(w, w, f)
  BY WorkspaceFacts, EntryTypes, LocalReflexive
<1>4. CASE p.end # "ok"
  BY <1>1, <1>2, <1>4 DEF Balanced
<1>5. CASE p.end = "ok" /\ w.files[f].size = size
  BY <1>1, <1>2, <1>3, <1>5 DEF Ok
<1>6. CASE p.end = "ok" /\ w.files[f].size # size
  <2>1. w.files[f].active
    BY <1>2, <1>6
  <2>2. PICK q \in Write(w, f, e(w)) :
          o \in IF q.end = "ok" THEN AdjustSize(q.w, size - w.files[f].size) ELSE {q}
    BY <1>1, <1>2, <1>6 DEF Then
  <2>3. /\ e(w) \in Entries /\ e(w).active = w.files[f].active /\ e(w).size = size
        /\ e(w).readers = w.files[f].readers /\ e(w).discard = w.files[f].discard
    BY <1>3 DEF Entries
  <2> HIDE DEF e
  <2>4. /\ Local(w, q.w, f) /\ q.w.disk = w.disk /\ q.w.live = w.live
        /\ \/ q.end = "ok" /\ q.w.files[f] = e(w) /\ q.w.faults = w.faults
           \/ q.end = "error" /\ q.w.files = w.files
    BY <2>2, <2>3, Written
  <2>5. CASE q.end # "ok"
    <3>1. o = q
      BY <2>2, <2>5
    <3> QED BY <2>4, <2>5, <3>1 DEF Balanced
  <2>6. CASE q.end = "ok"
    <3>1. q.w \in Workspaces /\ f \in DOMAIN q.w.files
      BY <2>4 DEF Local, Beside
    <3>2. size - w.files[f].size \in Int
      BY <1>3
    <3>3. o \in AdjustSize(q.w, size - w.files[f].size)
      BY <2>2, <2>6
    <3>4. /\ Local(q.w, o.w, f) /\ o.w.files = q.w.files /\ o.w.disk = q.w.disk
          /\ o.w.faults = q.w.faults /\ o.w.live = q.w.live + (size - w.files[f].size)
          /\ o.end \in {"ok", "broken"}
      BY <3>1, <3>2, <3>3, Adjusted
    <3>5. Local(w, o.w, f) /\ o.w.files[f] = e(w)
      BY <2>4, <2>6, <3>4, LocalTransitive
    <3>6. o.w.live = w.live - w.files[f].size + o.w.files[f].size
      <4>1. w.live \in Int
        BY DEF Workspaces
      <4> QED BY <1>3, <2>3, <2>4, <3>4, <3>5, <4>1
    <3>7. Balanced(w) => Balanced(o.w)
      BY <2>1, <2>3, <3>5, <3>6, BalanceStays
    <3> QED BY <2>3, <2>4, <3>4, <3>5, <3>7
  <2> QED BY <2>5, <2>6
<1> QED BY <1>4, <1>5, <1>6

\* acquire: one reader more, of a file that was not given up.
LEMMA Acquired ==
    ASSUME NEW w \in Workspaces, NEW f \in DOMAIN w.files, NEW o \in Acquire(w, f)
    PROVE  /\ Local(w, o.w, f) /\ o.w.disk = w.disk
           /\ o.w.files[f].active = w.files[f].active
           /\ o.w.files[f].discard = w.files[f].discard
           /\ Balanced(w) => Balanced(o.w)
           /\ \/ /\ o.end = "ok" /\ o.w.files[f].readers = w.files[f].readers + 1
                 /\ ~ w.files[f].discard /\ w.files[f].active /\ w.leases < MaxHandles
              \/ o.end = "error" /\ o.w.files = w.files
<1> DEFINE e(v) == [v.files[f] EXCEPT !.readers = @ + 1]
<1>1. PICK p \in Tracked(w, f) :
        o \in IF p.end = "ok"
              THEN IF p.w.files[f].discard THEN Raises(p.w) ELSE Write(p.w, f, e(p.w))
              ELSE {p}
  BY DEF Acquire, Then
<1>2. /\ Local(w, p.w, f) /\ p.w.files = w.files /\ p.w.disk = w.disk /\ p.w.live = w.live
      /\ \/ p.end = "ok" /\ p.w = w /\ w.files[f].active /\ w.leases < MaxHandles
         \/ p.end = "error"
  BY TrackedFound
<1>3. /\ w.files \in Seq(Entries) /\ w.files[f] \in Entries /\ w.files[f].readers \in Nat
  BY WorkspaceFacts, EntryTypes
<1>4. CASE p.end # "ok" \/ w.files[f].discard
  <2>1. o.w = p.w /\ o.end = "error"
    BY <1>1, <1>2, <1>4 DEF Raises
  <2> QED BY <1>2, <2>1 DEF Balanced
<1>5. CASE p.end = "ok" /\ ~ w.files[f].discard
  <2>1. o \in Write(w, f, e(w))
    BY <1>1, <1>2, <1>5
  <2>2. /\ e(w) \in Entries /\ e(w).active = w.files[f].active /\ e(w).size = w.files[f].size
        /\ e(w).readers = w.files[f].readers + 1 /\ e(w).discard = w.files[f].discard
    <3>1. w.files[f].readers + 1 \in Nat
      BY <1>3
    <3> QED BY <1>3, <3>1, ReadersWritten
  <2> HIDE DEF e
  <2>3. /\ Local(w, o.w, f) /\ o.w.disk = w.disk /\ o.w.live = w.live
        /\ \/ o.end = "ok" /\ o.w.files[f] = e(w)
           \/ o.end = "error" /\ o.w.files = w.files
    BY <2>1, <2>2, Written
  <2>4. Balanced(w) => Balanced(o.w)
    <3>1. w.live \in Int /\ w.files[f].size \in Nat
      BY <1>3, EntryTypes DEF Workspaces
    <3>2. o.w.files[f].size = w.files[f].size /\ o.w.files[f].active = w.files[f].active
      BY <2>2, <2>3
    <3>3. o.w.live = w.live - w.files[f].size + o.w.files[f].size
      BY <2>3, <3>1, <3>2
    <3>4. Balanced(w) /\ ~ w.files[f].active => w.files[f].size = 0
      BY DEF Balanced
    <3> QED BY <2>3, <3>2, <3>3, <3>4, BalanceStays
  <2> QED BY <1>2, <1>5, <2>2, <2>3, <2>4
<1> QED BY <1>4, <1>5

\* An entry whose flags or readers change leaves the account as it is.
LEMMA RewrittenInBalance ==
    ASSUME NEW w \in Workspaces, NEW f \in DOMAIN w.files, NEW v, Local(w, v, f),
           v.live = w.live, v.files[f].size = w.files[f].size,
           v.files[f].active = w.files[f].active, Balanced(w)
    PROVE  Balanced(v)
<1>1. w.live \in Int /\ w.files[f].size \in Nat
  BY WorkspaceFacts, EntryTypes DEF Workspaces
<1>2. v.live = w.live - w.files[f].size + v.files[f].size
  BY <1>1
<1>3. ~ w.files[f].active => w.files[f].size = 0
  BY DEF Balanced
<1> QED BY <1>2, <1>3, BalanceStays

\* release: one reader less; the last of a file that was given up deletes it.
LEMMA Released ==
    ASSUME NEW w \in Workspaces, NEW f \in DOMAIN w.files, NEW o \in Release(w, f)
    PROVE  /\ Local(w, o.w, f) /\ (Listed(w) => Listed(o.w))
           /\ o.w.files[f].discard = w.files[f].discard
           /\ o.w.files[f].readers + 1 >= w.files[f].readers
           /\ ~ w.files[f].discard \/ w.files[f].readers > 1 =>
                o.w.files[f].active = w.files[f].active /\ o.w.disk = w.disk
           /\ o.end \in {"ok", "error", "broken"}
           /\ Balanced(w) /\ o.w.faults = w.faults => Balanced(o.w)
           /\ w.leases < MaxHandles /\ w.files[f].active /\ o.w.faults = w.faults =>
                o.w.files[f].readers
                  = IF w.files[f].readers = 0 THEN 0 ELSE w.files[f].readers - 1
<1> DEFINE e(v) == [v.files[f] EXCEPT !.readers = IF @ = 0 THEN 0 ELSE @ - 1]
           LastReader(u) == IF u.files[f].discard /\ u.files[f].readers = 0
                      THEN Delete(u, f) ELSE Ok(u)
<1>1. PICK p \in Tracked(w, f) :
        o \in IF p.end = "ok" THEN Then(Write(p.w, f, e(p.w)), LAMBDA u : LastReader(u)) ELSE {p}
  BY DEF Release, Then
<1>2. /\ Local(w, p.w, f) /\ p.w.files = w.files /\ p.w.disk = w.disk /\ p.w.live = w.live
      /\ \/ p.end = "ok" /\ p.w = w /\ w.files[f].active /\ w.leases < MaxHandles
         \/ p.end = "error" /\ (w.leases >= MaxHandles \/ ~ w.files[f].active
                                  \/ p.w.faults < w.faults)
  BY TrackedFound
<1>3. /\ w.files \in Seq(Entries) /\ w.files[f] \in Entries /\ w.files[f].readers \in Nat
      /\ w.files[f].discard \in BOOLEAN /\ w.faults \in Nat
      /\ w.leases \in Int /\ MaxHandles \in Int
  BY WorkspaceFacts, EntryTypes, SizesAssumption DEF Workspaces
<1>4. CASE p.end # "ok"
  <2>1. o.w = p.w /\ o.end = "error"
    BY <1>1, <1>2, <1>4
  <2>2. Listed(w) => Listed(o.w)
    BY <1>2, <2>1 DEF Listed
  <2>3. Balanced(w) => Balanced(o.w)
    BY <1>2, <2>1 DEF Balanced
  <2>4. w.leases >= MaxHandles \/ ~ w.files[f].active \/ o.w.faults # w.faults
    BY <1>2, <1>3, <1>4, <2>1
  <2> QED BY <1>2, <1>3, <2>1, <2>2, <2>3, <2>4
<1>5. CASE p.end = "ok"
  <2> DEFINE n == IF w.files[f].readers = 0 THEN 0 ELSE w.files[f].readers - 1
             x == e(w)
  <2>1. p.w = w /\ w.files[f].active /\ w.leases < MaxHandles
    BY <1>2, <1>5
  <2>2. PICK q \in Write(w, f, x) : o \in IF q.end = "ok" THEN LastReader(q.w) ELSE {q}
    BY <1>1, <1>5, <2>1 DEF Then
  <2>3. n \in Nat /\ n + 1 >= w.files[f].readers /\ (w.files[f].readers > 1 => n # 0)
        /\ (w.files[f].readers = 1 => n = 0)
    BY <1>3
  <2>4. /\ x \in Entries /\ x.readers = n /\ x.discard = w.files[f].discard
        /\ x.active = w.files[f].active /\ x.size = w.files[f].size
    <3>1. x = [w.files[f] EXCEPT !.readers = n]
      BY <1>3 DEF Entries
    <3> HIDE DEF n, x
    <3> QED BY <1>3, <2>3, <3>1, ReadersWritten
  <2> HIDE DEF e, x
  <2>5. /\ Local(w, q.w, f) /\ q.w.disk = w.disk /\ q.w.live = w.live
        /\ \/ q.end = "ok" /\ q.w.files[f] = x /\ q.w.faults = w.faults
                 /\ w.leases < MaxHandles
           \/ q.end = "error" /\ q.w.files = w.files
                 /\ (w.leases >= MaxHandles \/ q.w.faults < w.faults)
    BY <2>2, <2>4, Written
  <2>6. q.w \in Workspaces /\ f \in DOMAIN q.w.files /\ q.w.leases = w.leases
    BY <2>5 DEF Local, Beside
  <2> HIDE DEF n
  <2>7. CASE q.end # "ok"
    <3>1. o.w = q.w /\ o.end = "error" /\ q.w.files = w.files
      BY <2>2, <2>5, <2>7
    <3>2. o.w.faults # w.faults
      BY <1>3, <2>1, <2>5, <2>7, <3>1
    <3>3. Listed(w) => Listed(o.w)
      BY <2>5, <3>1 DEF Listed
    <3> QED BY <1>3, <2>5, <3>1, <3>2, <3>3
  <2>8. ASSUME q.end = "ok"
        PROVE  /\ Listed(w) => Listed(q.w)
               /\ Balanced(w) => Balanced(q.w)
    <3>1. q.w.files[f].active
      BY <2>1, <2>4, <2>5, <2>8
    <3>2. Listed(w) => Listed(q.w)
      BY <2>5, <3>1, ListedStays DEF Local
    <3>3. Balanced(w) => Balanced(q.w)
      BY <2>4, <2>5, <2>8, RewrittenInBalance
    <3> QED BY <3>2, <3>3
  <2>9. CASE q.end = "ok" /\ ~ (x.discard /\ n = 0)
    <3>1. o.w = q.w /\ o.end = "ok" /\ q.w.files[f] = x
      BY <2>2, <2>4, <2>5, <2>9 DEF Ok
    <3>2. o.w.files[f].readers
            = IF w.files[f].readers = 0 THEN 0 ELSE w.files[f].readers - 1
      BY <2>4, <3>1 DEF n
    <3> QED BY <2>3, <2>4, <2>5, <2>8, <2>9, <3>1, <3>2
  <2>10. CASE q.end = "ok" /\ x.discard /\ n = 0
    <3>1. o \in Delete(q.w, f) /\ q.w.files[f] = x
      BY <2>2, <2>4, <2>5, <2>10
    <3>2. /\ Local(q.w, o.w, f) /\ (Listed(q.w) => Listed(o.w))
          /\ o.w.files[f].readers = q.w.files[f].readers
          /\ o.w.files[f].discard = q.w.files[f].discard
          /\ o.end \in {"ok", "error", "broken"}
          /\ Balanced(q.w) /\ q.w.leases < MaxHandles /\ o.w.faults = q.w.faults
                => o.end = "ok" /\ Balanced(o.w)
      BY <2>6, <3>1, Deleted
    <3>3. Local(w, o.w, f)
      BY <2>5, <3>2, LocalTransitive
    <3>4. w.files[f].discard /\ ~ (w.files[f].readers > 1)
      BY <2>3, <2>4, <2>10
    <3>5. q.w.faults = w.faults
      BY <2>5, <2>10
    <3>6. o.w.files[f].discard = w.files[f].discard /\ o.w.files[f].readers = n
      BY <2>4, <3>1, <3>2
    <3>7. Balanced(w) /\ o.w.faults = w.faults => Balanced(o.w)
      BY <2>1, <2>6, <2>8, <2>10, <3>2, <3>5
    <3>8. Listed(w) => Listed(o.w)
      BY <2>8, <2>10, <3>2
    <3>9. o.w.files[f].readers
            = IF w.files[f].readers = 0 THEN 0 ELSE w.files[f].readers - 1
      BY <3>6 DEF n
    <3> QED BY <2>3, <2>10, <3>2, <3>3, <3>4, <3>6, <3>7, <3>8, <3>9
  <2> QED BY <2>7, <2>9, <2>10
<1> QED BY <1>4, <1>5

\* discard: a file is given up, and goes when nobody reads it.
LEMMA Discarded ==
    ASSUME NEW w \in Workspaces, NEW f \in DOMAIN w.files, NEW o \in Discard(w, f)
    PROVE  /\ Local(w, o.w, f) /\ (Listed(w) => Listed(o.w))
           /\ o.w.files[f].readers = w.files[f].readers
           /\ o.end = "ok" => o.w.files[f].discard \/ ~ o.w.files[f].active
           /\ w.files[f].readers > 0 =>
                o.w.files[f].active = w.files[f].active /\ o.w.disk = w.disk
           /\ o.end \in {"ok", "error", "broken"}
           /\ Balanced(w) /\ o.w.faults = w.faults => Balanced(o.w)
<1> DEFINE e(v) == [v.files[f] EXCEPT !.discard = TRUE]
           LastReader(u) == IF u.files[f].readers = 0 THEN Delete(u, f) ELSE Ok(u)
<1>1. PICK p \in Tracked(w, f) :
        o \in IF p.end = "ok" THEN Then(Write(p.w, f, e(p.w)), LAMBDA u : LastReader(u)) ELSE {p}
  BY DEF Discard, Then
<1>2. /\ Local(w, p.w, f) /\ p.w.files = w.files /\ p.w.disk = w.disk /\ p.w.live = w.live
      /\ \/ p.end = "ok" /\ p.w = w /\ w.files[f].active /\ w.leases < MaxHandles
         \/ p.end = "error"
  BY TrackedFound
<1>3. /\ w.files \in Seq(Entries) /\ w.files[f] \in Entries /\ w.files[f].readers \in Nat
  BY WorkspaceFacts, EntryTypes
<1>4. CASE p.end # "ok"
  <2>1. o.w = p.w /\ o.end = "error"
    BY <1>1, <1>2, <1>4
  <2>2. Listed(w) => Listed(o.w)
    BY <1>2, <2>1 DEF Listed
  <2>3. Balanced(w) => Balanced(o.w)
    BY <1>2, <2>1 DEF Balanced
  <2> QED BY <1>2, <2>1, <2>2, <2>3
<1>5. CASE p.end = "ok"
  <2> DEFINE x == e(w)
  <2>1. p.w = w /\ w.files[f].active /\ w.leases < MaxHandles
    BY <1>2, <1>5
  <2>2. PICK q \in Write(w, f, x) : o \in IF q.end = "ok" THEN LastReader(q.w) ELSE {q}
    BY <1>1, <1>5, <2>1 DEF Then
  <2>3. /\ x \in Entries /\ x.discard /\ x.readers = w.files[f].readers
        /\ x.active = w.files[f].active /\ x.size = w.files[f].size
    BY <1>3, DiscardWritten
  <2> HIDE DEF e, x
  <2>4. /\ Local(w, q.w, f) /\ q.w.disk = w.disk /\ q.w.live = w.live
        /\ \/ q.end = "ok" /\ q.w.files[f] = x /\ q.w.faults = w.faults
           \/ q.end = "error" /\ q.w.files = w.files
    BY <2>2, <2>3, Written
  <2>5. q.w \in Workspaces /\ f \in DOMAIN q.w.files /\ q.w.leases = w.leases
    BY <2>4 DEF Local, Beside
  <2>6. CASE q.end # "ok"
    <3>1. o.w = q.w /\ o.end = "error" /\ q.w.files = w.files
      BY <2>2, <2>4, <2>6
    <3>2. Listed(w) => Listed(o.w)
      BY <2>4, <3>1 DEF Listed
    <3>3. Balanced(w) => Balanced(o.w)
      BY <2>4, <3>1 DEF Balanced
    <3> QED BY <2>4, <3>1, <3>2, <3>3
  <2>7. ASSUME q.end = "ok"
        PROVE  /\ Listed(w) => Listed(q.w)
               /\ Balanced(w) => Balanced(q.w)
    <3>1. q.w.files[f].active
      BY <2>1, <2>3, <2>4, <2>7
    <3>2. Listed(w) => Listed(q.w)
      BY <2>4, <3>1, ListedStays DEF Local
    <3>3. Balanced(w) => Balanced(q.w)
      BY <2>3, <2>4, <2>7, RewrittenInBalance
    <3> QED BY <3>2, <3>3
  <2>8. CASE q.end = "ok" /\ x.readers # 0
    <3>1. o.w = q.w /\ o.end = "ok" /\ q.w.files[f] = x
      BY <2>2, <2>4, <2>8 DEF Ok
    <3> QED BY <2>3, <2>4, <2>7, <2>8, <3>1
  <2>9. CASE q.end = "ok" /\ x.readers = 0
    <3>1. o \in Delete(q.w, f) /\ q.w.files[f] = x
      BY <2>2, <2>4, <2>9
    <3>2. /\ Local(q.w, o.w, f) /\ (Listed(q.w) => Listed(o.w))
          /\ o.w.files[f].readers = q.w.files[f].readers
          /\ o.end = "ok" => ~ o.w.files[f].active
          /\ o.end \in {"ok", "error", "broken"}
          /\ Balanced(q.w) /\ q.w.leases < MaxHandles /\ o.w.faults = q.w.faults
                => o.end = "ok" /\ Balanced(o.w)
      BY <2>5, <3>1, Deleted
    <3>3. Local(w, o.w, f)
      BY <2>4, <3>2, LocalTransitive
    <3>4. ~ (w.files[f].readers > 0)
      BY <2>3, <2>9
    <3>5. q.w.faults = w.faults
      BY <2>4, <2>9
    <3>6. Balanced(w) /\ o.w.faults = w.faults => Balanced(o.w)
      BY <2>1, <2>5, <2>7, <2>9, <3>2, <3>5
    <3>7. Listed(w) => Listed(o.w)
      BY <2>7, <2>9, <3>2
    <3> QED BY <2>3, <3>1, <3>2, <3>3, <3>4, <3>6, <3>7
  <2> QED BY <2>6, <2>8, <2>9
<1> QED BY <1>4, <1>5

-----------------------------------------------------------------------------
(* The end of a resource *)

\* forget changes the list of resources alone.
LEMMA ForgottenFacts ==
    ASSUME NEW w \in Workspaces, OneEach(w), NEW kind, NEW f, NEW v, v = Forgotten(w, kind, f)
    PROVE  /\ v \in Workspaces /\ OneEach(v) /\ Held(v) = Held(w) \ {Resource(kind, f)}
           /\ v.files = w.files /\ v.disk = w.disk /\ v.live = w.live /\ v.faults = w.faults
           /\ v.leases = w.leases /\ v.closed = w.closed /\ v.unreclaimed = w.unreclaimed
           /\ (Listed(v) <=> Listed(w)) /\ (Balanced(v) <=> Balanced(w))
<1>1. /\ v = [w EXCEPT !.resources = v.resources] /\ v \in Workspaces
      /\ Held(v) = Held(w) \ {Resource(kind, f)} /\ OneEach(v)
  BY ClaimForgotten
<1>2. /\ v.files = w.files /\ v.disk = w.disk /\ v.live = w.live /\ v.faults = w.faults
      /\ v.leases = w.leases /\ v.closed = w.closed /\ v.unreclaimed = w.unreclaimed
  BY <1>1 DEF Workspaces
<1> QED BY <1>1, <1>2 DEF Listed, Balanced

\* An operation on the file comes to the same before and after it.
LEMMA ForgottenLocal ==
    ASSUME NEW w, NEW v, NEW f, Local(w, v, f), OneEach(w), NEW kind
    PROVE  Local(Forgotten(w, kind, f), Forgotten(v, kind, f), f) /\ OneEach(v)
<1> DEFINE x == Forgotten(w, kind, f)
           y == Forgotten(v, kind, f)
<1>1. w \in Workspaces /\ v \in Workspaces /\ v.resources = w.resources /\ OneEach(v)
  BY DEF Local, Beside, OneEach
<1>2. /\ x \in Workspaces
      /\ x.files = w.files /\ x.disk = w.disk /\ x.live = w.live /\ x.faults = w.faults
      /\ x.leases = w.leases /\ x.closed = w.closed /\ x.unreclaimed = w.unreclaimed
  BY <1>1, ForgottenFacts
<1>3. /\ y \in Workspaces
      /\ y.files = v.files /\ y.disk = v.disk /\ y.live = v.live /\ y.faults = v.faults
      /\ y.leases = v.leases /\ y.closed = v.closed /\ y.unreclaimed = v.unreclaimed
  BY <1>1, ForgottenFacts
<1>4. x.resources = RemoveFirst(w.resources, Resource(kind, f))
  BY <1>1 DEF Forgotten, Workspaces
<1>5. y.resources = RemoveFirst(v.resources, Resource(kind, f))
  BY <1>1 DEF Forgotten, Workspaces
<1>6. x.resources = y.resources
  BY <1>1, <1>4, <1>5
<1> HIDE DEF x, y
<1>7. Local(x, y, f)
  BY <1>2, <1>3, <1>6 DEF Local, Beside
<1> QED BY <1>1, <1>7 DEF x, y

\* When no step of two failed, neither did the first.
LEMMA NoFaultBetween ==
    ASSUME NEW w, NEW v, NEW u, NEW f, Local(w, v, f), Local(v, u, f), u.faults = w.faults
    PROVE  v.faults = w.faults
<1>1. w.faults \in Int /\ v.faults \in Int
  BY DEF Local, Beside, Workspaces
<1>2. v.faults <= w.faults /\ u.faults <= v.faults
  BY DEF Local, Beside
<1> QED BY <1>1, <1>2

\* A writer that is closed releases its file.
LEMMA WriterFreed ==
    ASSUME NEW w \in Workspaces, OneEach(w), NEW f \in DOMAIN w.files, NEW sized \in BOOLEAN,
           NEW o \in CloseWriter(w, f, TRUE, sized)
    PROVE  /\ Local(Forgotten(w, "writer", f), o.w, f) /\ (Listed(w) => Listed(o.w))
           /\ o.end \in {"ok", "error", "broken"}
           /\ o.w.files[f].discard = w.files[f].discard
           /\ ~ w.files[f].discard => o.w.disk = w.disk
           /\ Balanced(w) /\ o.w.faults = w.faults => Balanced(o.w)
           /\ w.leases < MaxHandles /\ w.files[f].readers <= 1 /\ o.w.faults = w.faults =>
                (o.w.files[f].active => o.w.files[f].readers = 0)
<1> DEFINE v == Forgotten(w, "writer", f)
           noted == IF sized THEN NoteSize(w, f, RunBytes) ELSE Ok(w)
<1> DEFINE After(q) == Release(Forgotten(q.w, "writer", f), f)
<1>0. PICK q \in noted : \E n \in After(q) :
        o = [w |-> n.w, end |-> IF n.end = "ok" THEN q.end ELSE n.end]
  BY DEF CloseWriter, Finally
<1>1. PICK n \in After(q) :
        o = [w |-> n.w, end |-> IF n.end = "ok" THEN q.end ELSE n.end]
  BY <1>0
<1>2. /\ Local(w, q.w, f) /\ q.w.disk = w.disk
      /\ q.w.files[f].readers = w.files[f].readers
      /\ q.w.files[f].active = w.files[f].active
      /\ q.w.files[f].discard = w.files[f].discard
      /\ q.end \in {"ok", "error", "broken"}
      /\ Balanced(w) /\ q.w.faults = w.faults => Balanced(q.w)
  <2>1. CASE sized
    BY <1>1, <2>1, SizesAssumption, Noted
  <2>2. CASE ~ sized
    BY <1>1, <2>2, LocalReflexive DEF Ok
  <2> QED BY <2>1, <2>2
<1> HIDE DEF noted
<1> DEFINE u == Forgotten(q.w, "writer", f)
<1>3. Local(v, u, f) /\ OneEach(q.w) /\ q.w \in Workspaces
  <2>1. Local(w, q.w, f)
    BY <1>2
  <2>2. Local(v, u, f) /\ OneEach(q.w)
    BY <2>1, ForgottenLocal
  <2> QED BY <2>1, <2>2 DEF Local, Beside
<1>4. /\ u \in Workspaces /\ u.files = q.w.files /\ u.disk = q.w.disk /\ u.faults = q.w.faults
      /\ u.leases = q.w.leases /\ (Listed(u) <=> Listed(q.w)) /\ (Balanced(u) <=> Balanced(q.w))
  BY <1>3, ForgottenFacts
<1>5. f \in DOMAIN u.files /\ q.w.leases = w.leases
  BY <1>2, <1>4 DEF Local, Beside
<1>6. n \in Release(u, f)
  BY <1>1
<1>7. v.faults = w.faults
  BY ForgottenFacts
<1> HIDE DEF u
<1>8. /\ Local(u, n.w, f) /\ (Listed(u) => Listed(n.w))
      /\ n.w.files[f].discard = u.files[f].discard
      /\ ~ u.files[f].discard => n.w.disk = u.disk
      /\ n.end \in {"ok", "error", "broken"}
      /\ Balanced(u) /\ n.w.faults = u.faults => Balanced(n.w)
      /\ u.leases < MaxHandles /\ u.files[f].active /\ n.w.faults = u.faults =>
           n.w.files[f].readers
             = IF u.files[f].readers = 0 THEN 0 ELSE u.files[f].readers - 1
  BY <1>4, <1>5, <1>6, Released
<1> HIDE DEF v
<1>9. Local(v, n.w, f)
  BY <1>3, <1>8, LocalTransitive
<1>10. Listed(w) => Listed(n.w)
  <2>1. Listed(w) => Listed(q.w)
    BY <1>2 DEF Local, Beside, Listed
  <2> QED BY <1>4, <1>8, <2>1
<1>11. n.w.faults = w.faults => u.faults = w.faults
  BY <1>3, <1>7, <1>8, NoFaultBetween
<1>12. Balanced(w) /\ n.w.faults = w.faults => Balanced(n.w)
  BY <1>2, <1>4, <1>8, <1>11
<1>13. ASSUME w.leases < MaxHandles, w.files[f].readers <= 1, n.w.faults = w.faults,
              n.w.files[f].active
       PROVE  n.w.files[f].readers = 0
  <2>1. u.files[f].active
    BY <1>8, <1>13 DEF Local
  <2>2. w.files[f].readers \in Nat
    BY WorkspaceFacts, EntryTypes
  <2> QED BY <1>2, <1>4, <1>5, <1>8, <1>11, <1>13, <2>1, <2>2
<1>14. /\ n.w.files[f].discard = w.files[f].discard
       /\ ~ w.files[f].discard => n.w.disk = w.disk
  BY <1>2, <1>4, <1>8
<1> QED BY <1>1, <1>2, <1>8, <1>9, <1>10, <1>12, <1>13, <1>14 DEF v

\* One that was never finished gives its file up as well.
LEMMA WriterClosed ==
    ASSUME NEW w \in Workspaces, OneEach(w), NEW f \in DOMAIN w.files,
           NEW finished \in BOOLEAN, NEW sized \in BOOLEAN,
           NEW o \in CloseWriter(w, f, finished, sized)
    PROVE  /\ Local(Forgotten(w, "writer", f), o.w, f) /\ (Listed(w) => Listed(o.w))
           /\ o.end \in {"ok", "error", "broken"}
           /\ Balanced(w) /\ o.w.faults = w.faults => Balanced(o.w)
           /\ w.leases < MaxHandles /\ w.files[f].readers <= 1 /\ o.w.faults = w.faults =>
                (o.w.files[f].active => o.w.files[f].readers = 0)
<1> DEFINE v == Forgotten(w, "writer", f)
<1>1. CASE finished
  BY <1>1, WriterFreed
<1>2. CASE ~ finished
  <2>0. PICK q \in CloseWriter(w, f, TRUE, sized) : \E n \in Discard(q.w, f) :
          o = [w |-> n.w, end |-> IF n.end = "ok" THEN q.end ELSE n.end]
    BY <1>2 DEF CloseWriter, Finally
  <2>1. PICK n \in Discard(q.w, f) :
          o = [w |-> n.w, end |-> IF n.end = "ok" THEN q.end ELSE n.end]
    BY <2>0
  <2>2. /\ Local(v, q.w, f) /\ (Listed(w) => Listed(q.w))
        /\ q.end \in {"ok", "error", "broken"}
        /\ Balanced(w) /\ q.w.faults = w.faults => Balanced(q.w)
        /\ w.leases < MaxHandles /\ w.files[f].readers <= 1 /\ q.w.faults = w.faults =>
             (q.w.files[f].active => q.w.files[f].readers = 0)
    BY <2>1, WriterFreed
  <2>3. q.w \in Workspaces /\ f \in DOMAIN q.w.files
    BY <2>2 DEF Local, Beside
  <2>4. /\ Local(q.w, n.w, f) /\ (Listed(q.w) => Listed(n.w))
        /\ n.w.files[f].readers = q.w.files[f].readers
        /\ n.end \in {"ok", "error", "broken"}
        /\ Balanced(q.w) /\ n.w.faults = q.w.faults => Balanced(n.w)
    BY <2>1, <2>3, Discarded
  <2>5. v.faults = w.faults
    BY ForgottenFacts
  <2> HIDE DEF v
  <2>6. Local(v, n.w, f) /\ (n.w.faults = w.faults => q.w.faults = w.faults)
    BY <2>2, <2>4, <2>5, LocalTransitive, NoFaultBetween
  <2>7. n.w.files[f].active => q.w.files[f].active
    BY <2>4 DEF Local
  <2> QED BY <2>1, <2>2, <2>4, <2>6, <2>7 DEF v
<1> QED BY <1>1, <1>2

-----------------------------------------------------------------------------
(***************************************************************************)
(* The invariant of an open workspace.  Whatever failed, it is Orderly:    *)
(* one resource per file, a handle for each but the catalogues, and no     *)
(* file without an active entry.  As long as nothing failed it is Exact    *)
(* too: the account balances, and the readers of a file are its resources. *)
(* F is the number of faults that may still come when none has.            *)
(***************************************************************************)
Orderly(w) ==
    /\ w \in Workspaces /\ ~ w.closed /\ w.unreclaimed = {}
    /\ Paths \subseteq w.disk /\ Listed(w) /\ OneEach(w)
    /\ w.leases = Cardinality(Leased(w)) /\ w.leases <= MaxHandles
    /\ \A r \in Held(w) : r.file \in DOMAIN w.files

Used(w, r) ==
    /\ r.file \in w.disk
    /\ IF r.kind = "catalog" THEN ~ w.files[r.file].discard ELSE w.files[r.file].readers > 0
InUse(w) == \A r \in Held(w) : Used(w, r)

Counted(w, f) ==
    w.files[f].active => w.files[f].readers = IF Reading(w, f) THEN 1 ELSE 0
Exact(w) == Balanced(w) /\ InUse(w) /\ \A f \in DOMAIN w.files : Counted(w, f)

\* A file that was not given up is there.
Kept(w) ==
    \A f \in DOMAIN w.files : w.files[f].active /\ ~ w.files[f].discard => f \in w.disk

Closable(w, F) == Orderly(w) /\ w.faults <= F /\ (w.faults = F => Exact(w))
Sound(w, F)    == Closable(w, F) /\ InUse(w) /\ Kept(w)

\* Handles after a resource is closed,
LEMMA LeasedWithout ==
    ASSUME NEW w \in Workspaces, NEW v, NEW x \in Held(w), Held(v) = Held(w) \ {x}
    PROVE  Cardinality(Leased(v))
             = IF x.kind = "catalog" THEN Cardinality(Leased(w)) ELSE Cardinality(Leased(w)) - 1
<1>1. IsFiniteSet(Leased(w))
  BY WorkspaceFacts
<1>2. Leased(v) = Leased(w) \ {x} /\ (x \in Leased(w) <=> x.kind # "catalog")
  BY DEF Leased
<1> QED BY <1>1, <1>2, FS_RemoveElement

\* and after one is opened.
LEMMA LeasedWith ==
    ASSUME NEW w \in Workspaces, NEW v, NEW x, x \notin Held(w), Held(v) = Held(w) \union {x}
    PROVE  Cardinality(Leased(v))
             = IF x.kind = "catalog" THEN Cardinality(Leased(w)) ELSE Cardinality(Leased(w)) + 1
<1>1. IsFiniteSet(Leased(w))
  BY WorkspaceFacts
<1>2. CASE x.kind = "catalog"
  <2>1. Leased(v) = Leased(w)
    BY <1>2 DEF Leased
  <2> QED BY <1>2, <2>1
<1>3. CASE x.kind # "catalog"
  <2>1. Leased(v) = Leased(w) \union {x} /\ x \notin Leased(w)
    BY <1>3 DEF Leased
  <2> QED BY <1>1, <1>3, <2>1, FS_AddElement
<1> QED BY <1>2, <1>3

\* An operation on the file f keeps the invariant, when it does at f.
LEMMA Transfer ==
    ASSUME NEW w, NEW v, NEW f \in Nat \ {0}, NEW F \in Nat, Closable(w, F), Beside(w, v, f),
           Listed(v), OneEach(v), v.leases = Cardinality(Leased(v)), v.leases <= MaxHandles,
           {r \in Held(v) : r.file # f} = {r \in Held(w) : r.file # f},
           v.faults = F => /\ Balanced(v) /\ Counted(v, f)
                           /\ \A r \in Held(v) : r.file = f => Used(v, r)
    PROVE  /\ Closable(v, F)
           /\ (\A r \in Held(v) : r.file = f => Used(v, r)) /\ InUse(w) => InUse(v)
<1>1. /\ w \in Workspaces /\ v \in Workspaces /\ v.faults <= w.faults
      /\ DOMAIN v.files = DOMAIN w.files \union {f}
      /\ \A g \in DOMAIN w.files \ {f} : v.files[g] = w.files[g]
      /\ v.disk \ {f} = w.disk \ {f}
      /\ v.closed = w.closed /\ v.unreclaimed = w.unreclaimed
  BY DEF Beside
<1>2. v.faults \in Int /\ w.faults \in Int
  BY <1>1 DEF Workspaces
<1>3. v.faults <= F /\ (v.faults = F => w.faults = F)
  BY <1>1, <1>2 DEF Closable
<1>4. Orderly(v)
  <2>1. f \notin Paths
    BY DEF Paths, Registry, Directory
  <2>2. Paths \subseteq v.disk
    BY <1>1, <2>1 DEF Closable, Orderly
  <2>3. \A r \in Held(v) : r.file \in DOMAIN v.files
    BY <1>1 DEF Closable, Orderly
  <2> QED BY <1>1, <2>2, <2>3 DEF Closable, Orderly
<1>5. ASSUME \A r \in Held(v) : r.file = f => Used(v, r), InUse(w)
      PROVE  InUse(v)
  <2> SUFFICES ASSUME NEW r \in Held(v), r.file # f PROVE Used(v, r)
    BY <1>5 DEF InUse
  <2>1. r \in Held(w) /\ r.file \in DOMAIN w.files
    BY DEF Closable, Orderly
  <2>2. Used(w, r)
    BY <1>5, <2>1 DEF InUse
  <2> QED BY <1>1, <2>1, <2>2 DEF Used
<1>6. ASSUME v.faults = F PROVE Exact(v)
  <2>1. Exact(w)
    BY <1>3, <1>6 DEF Closable
  <2>2. InUse(v)
    BY <1>5, <1>6, <2>1 DEF Exact
  <2>3. ASSUME NEW g \in DOMAIN v.files, g # f PROVE Counted(v, g)
    <3>1. g \in DOMAIN w.files /\ v.files[g] = w.files[g]
      BY <1>1, <2>3
    <3>2. Reading(v, g) <=> Reading(w, g)
      BY <2>3 DEF Reading, Leased
    <3>3. Counted(w, g)
      BY <2>1, <3>1 DEF Exact
    <3> QED BY <3>1, <3>2, <3>3 DEF Counted
  <2> QED BY <1>6, <2>2, <2>3 DEF Exact
<1> QED BY <1>3, <1>4, <1>5, <1>6 DEF Closable

\* A file that was not given up is there, after an operation on the file f
LEMMA KeptBeside ==
    ASSUME NEW w, NEW v, NEW f, Beside(w, v, f), Kept(w),
           v.files[f].active /\ ~ v.files[f].discard => f \in v.disk
    PROVE  Kept(v)
<1> SUFFICES ASSUME NEW g \in DOMAIN v.files, v.files[g].active, ~ v.files[g].discard, g # f
             PROVE  g \in v.disk
  BY DEF Kept
<1>1. g \in DOMAIN w.files /\ v.files[g] = w.files[g] /\ v.disk \ {f} = w.disk \ {f}
  BY DEF Beside
<1> QED BY <1>1 DEF Kept

\* and after one that only its own giving up can delete.
LEMMA KeptLocal ==
    ASSUME NEW w, NEW v, NEW f, Local(w, v, f), Kept(w),
           v.files[f].discard = w.files[f].discard,
           ~ w.files[f].discard => v.disk = w.disk
    PROVE  Kept(v)
<1>1. v.files[f].active /\ ~ v.files[f].discard => f \in v.disk
  BY DEF Kept, Local
<1> QED BY <1>1, KeptBeside DEF Local

\* A file has one resource.
LEMMA OneClaim ==
    ASSUME NEW w, OneEach(w), NEW x \in Held(w), NEW y \in Held(w), x.file = y.file
    PROVE  x = y
BY DEF OneEach, Held

\* A handle that is returned changes the number of leases alone.
LEMMA ReturnedFacts ==
    ASSUME NEW w \in Workspaces, NEW v, v = Returned(w)
    PROVE  /\ v \in Workspaces /\ v.files = w.files /\ v.disk = w.disk /\ v.live = w.live
           /\ v.faults = w.faults /\ v.leases = w.leases - 1 /\ v.closed = w.closed
           /\ v.unreclaimed = w.unreclaimed /\ v.resources = w.resources
           /\ Held(v) = Held(w) /\ (OneEach(v) <=> OneEach(w))
           /\ (Listed(v) <=> Listed(w)) /\ (Balanced(v) <=> Balanced(w))
<1>1. w.leases - 1 \in Int
  BY DEF Workspaces
<1>2. v \in Workspaces
  BY <1>1 DEF Returned, Workspaces
<1>3. /\ v.files = w.files /\ v.disk = w.disk /\ v.live = w.live
      /\ v.faults = w.faults /\ v.leases = w.leases - 1 /\ v.closed = w.closed
      /\ v.unreclaimed = w.unreclaimed /\ v.resources = w.resources
  BY DEF Returned, Workspaces
<1> QED BY <1>2, <1>3 DEF Held, OneEach, Listed, Balanced

\* The resource x is closed, and forgotten: what was left of its file in v is in u.
LEMMA ClaimClosed ==
    ASSUME NEW w, NEW F \in Nat, Closable(w, F), NEW x \in Held(w),
           NEW v \in Workspaces, OneEach(v), Held(v) = Held(w), v.files = w.files,
           v.disk = w.disk, v.faults = w.faults, v.closed = w.closed,
           v.unreclaimed = w.unreclaimed,
           v.leases = IF x.kind = "catalog" THEN w.leases ELSE w.leases - 1,
           NEW u, Local(Forgotten(v, x.kind, x.file), u, x.file), Listed(u),
           u.faults = F => Balanced(u) /\ (u.files[x.file].active => u.files[x.file].readers = 0)
    PROVE  /\ Closable(u, F) /\ Held(u) = Held(w) \ {x} /\ (InUse(w) => InUse(u))
           /\ DOMAIN u.files = DOMAIN w.files
<1> DEFINE f == x.file
           y == Forgotten(v, x.kind, f)
<1>1. w \in Workspaces /\ OneEach(w) /\ x \in Claims
  BY WorkspaceFacts DEF Closable, Orderly
<1>2. f \in Nat \ {0} /\ x = Resource(x.kind, f) /\ x.kind \in {"writer", "reader", "catalog"}
  BY <1>1 DEF Claims, Resource
<1>3. /\ y \in Workspaces /\ OneEach(y) /\ Held(y) = Held(v) \ {Resource(x.kind, f)}
      /\ y.files = v.files /\ y.disk = v.disk /\ y.faults = v.faults
      /\ y.leases = v.leases /\ y.closed = v.closed /\ y.unreclaimed = v.unreclaimed
  BY ForgottenFacts
<1> HIDE DEF y
<1>4. Local(y, u, f)
  BY DEF y
<1>5. Held(u) = Held(w) \ {x} /\ OneEach(u)
  <2>1. u.resources = y.resources
    BY <1>4 DEF Local
  <2> QED BY <1>2, <1>3, <2>1 DEF Held, OneEach
<1>6. Beside(w, u, f) /\ DOMAIN u.files = DOMAIN w.files
  BY <1>1, <1>3, <1>4 DEF Local, Beside
<1>7. \A r \in Held(u) : r.file # f
  BY <1>1, <1>5, OneClaim
<1>8. u.leases = Cardinality(Leased(u)) /\ u.leases <= MaxHandles
  <2>1. u.leases = v.leases
    BY <1>3, <1>4 DEF Local
  <2>2. Cardinality(Leased(u))
          = IF x.kind = "catalog" THEN Cardinality(Leased(w)) ELSE Cardinality(Leased(w)) - 1
    BY <1>1, <1>5, LeasedWithout
  <2>3. w.leases = Cardinality(Leased(w)) /\ w.leases <= MaxHandles
    BY DEF Closable, Orderly
  <2>4. w.leases \in Int /\ MaxHandles \in Int
    BY <1>1, SizesAssumption DEF Workspaces
  <2> QED BY <2>1, <2>2, <2>3, <2>4
<1>9. {r \in Held(u) : r.file # f} = {r \in Held(w) : r.file # f}
  BY <1>5
<1>10. u.faults = F => Counted(u, f)
  <2>1. ~ Reading(u, f)
    BY <1>7 DEF Reading, Leased
  <2> QED BY <2>1 DEF Counted
<1>11. Closable(u, F) /\ (InUse(w) => InUse(u))
  BY <1>2, <1>5, <1>6, <1>7, <1>8, <1>9, <1>10, Transfer
<1> QED BY <1>5, <1>6, <1>11

\* The readers of a file that one resource reads or writes.
LEMMA OneReader ==
    ASSUME NEW w, Orderly(w), Exact(w), NEW x \in Leased(w), w.files[x.file].active
    PROVE  w.files[x.file].readers = 1
<1>1. x.file \in DOMAIN w.files /\ Reading(w, x.file)
  BY DEF Orderly, Leased, Reading
<1> QED BY <1>1 DEF Exact, Counted

\* TemporaryRowWriter.finish and close.
LEMMA WriterGone ==
    ASSUME NEW w, NEW F \in Nat, Closable(w, F), NEW f, Resource("writer", f) \in Held(w),
           NEW finished \in BOOLEAN, NEW sized \in BOOLEAN,
           NEW o \in CloseWriter(Returned(w), f, finished, sized)
    PROVE  /\ Closable(o.w, F) /\ Held(o.w) = Held(w) \ {Resource("writer", f)}
           /\ (InUse(w) => InUse(o.w)) /\ DOMAIN o.w.files = DOMAIN w.files
           /\ o.end \in {"ok", "error", "broken"}
           /\ finished /\ Kept(w) => Kept(o.w)
<1> DEFINE v == Returned(w)
           x == Resource("writer", f)
<1>1. w \in Workspaces /\ OneEach(w) /\ f \in DOMAIN w.files /\ Listed(w) /\ w.faults <= F
      /\ w.leases <= MaxHandles /\ x.kind = "writer" /\ x.file = f
  BY DEF Closable, Orderly, Resource
<1>2. /\ v \in Workspaces /\ v.files = w.files /\ v.disk = w.disk
      /\ v.faults = w.faults /\ v.leases = w.leases - 1 /\ v.closed = w.closed
      /\ v.unreclaimed = w.unreclaimed
      /\ Held(v) = Held(w) /\ OneEach(v) /\ Listed(v)
      /\ (Balanced(v) <=> Balanced(w))
  BY <1>1, ReturnedFacts
<1> HIDE DEF v
<1>3. /\ Local(Forgotten(v, "writer", f), o.w, f) /\ (Listed(v) => Listed(o.w))
      /\ o.end \in {"ok", "error", "broken"}
      /\ Balanced(v) /\ o.w.faults = v.faults => Balanced(o.w)
      /\ v.leases < MaxHandles /\ v.files[f].readers <= 1 /\ o.w.faults = v.faults =>
           (o.w.files[f].active => o.w.files[f].readers = 0)
  BY <1>1, <1>2, WriterClosed DEF v
<1>4. ASSUME o.w.faults = F
      PROVE  Balanced(o.w) /\ (o.w.files[f].active => o.w.files[f].readers = 0)
  <2> DEFINE y == Forgotten(v, "writer", f)
  <2>1. y.faults = w.faults /\ y.files = w.files
    BY <1>2, ForgottenFacts
  <2>2. o.w.faults <= y.faults /\ y \in Workspaces
        /\ (o.w.files[f].active => y.files[f].active)
    BY <1>3 DEF Local, Beside
  <2>3. w.faults = F
    <3>1. w.faults \in Int /\ F \in Int
      BY <1>1 DEF Workspaces
    <3> QED BY <1>1, <1>4, <2>1, <2>2, <3>1
  <2>4. Exact(w) /\ Orderly(w)
    BY <2>3 DEF Closable
  <2>5. v.leases < MaxHandles
    <3>1. w.leases \in Int /\ MaxHandles \in Int
      BY <1>1, SizesAssumption DEF Workspaces
    <3> QED BY <1>1, <1>2, <3>1
  <2>6. o.w.files[f].active => w.files[f].readers = 1
    <3>1. x \in Leased(w)
      BY <1>1 DEF Leased
    <3> QED BY <1>1, <2>1, <2>2, <2>4, <3>1, OneReader
  <2> QED BY <1>2, <1>3, <1>4, <2>3, <2>4, <2>5, <2>6 DEF Exact
<1>5. /\ Closable(o.w, F) /\ Held(o.w) = Held(w) \ {x}
      /\ (InUse(w) => InUse(o.w)) /\ DOMAIN o.w.files = DOMAIN w.files
  <2> HIDE DEF x
  <2>1. v.leases = IF x.kind = "catalog" THEN w.leases ELSE w.leases - 1
    BY <1>1, <1>2
  <2>2. Local(Forgotten(v, x.kind, x.file), o.w, x.file) /\ Listed(o.w)
    BY <1>1, <1>2, <1>3
  <2>3. x \in Held(w)
    BY DEF x
  <2> QED BY <1>1, <1>2, <1>4, <2>1, <2>2, <2>3, ClaimClosed
<1>6. ASSUME finished, Kept(w) PROVE Kept(o.w)
  <2> DEFINE y == Forgotten(v, "writer", f)
  <2>1. /\ Local(y, o.w, f) /\ o.w.files[f].discard = v.files[f].discard
        /\ ~ v.files[f].discard => o.w.disk = v.disk
    <3>1. o \in CloseWriter(v, f, TRUE, sized)
      BY <1>6 DEF v
    <3>2. f \in DOMAIN v.files
      BY <1>1, <1>2
    <3> QED BY <1>2, <3>1, <3>2, WriterFreed
  <2>2. y.files = w.files /\ y.disk = w.disk
    BY <1>2, ForgottenFacts
  <2> HIDE DEF y
  <2>3. Kept(y)
    BY <1>6, <2>2 DEF Kept
  <2> QED BY <1>2, <2>1, <2>2, <2>3, KeptLocal
<1> QED BY <1>3, <1>5, <1>6

\* TemporaryRowReader.close.
LEMMA ReaderGone ==
    ASSUME NEW w, NEW F \in Nat, Closable(w, F), NEW f, Resource("reader", f) \in Held(w),
           NEW o \in CloseReader(Returned(w), f)
    PROVE  /\ Closable(o.w, F) /\ Held(o.w) = Held(w) \ {Resource("reader", f)}
           /\ (InUse(w) => InUse(o.w)) /\ DOMAIN o.w.files = DOMAIN w.files
           /\ o.end \in {"ok", "error", "broken"} /\ (Kept(w) => Kept(o.w))
<1> DEFINE v == Returned(w)
           x == Resource("reader", f)
           y == Forgotten(v, "reader", f)
<1>1. w \in Workspaces /\ OneEach(w) /\ f \in DOMAIN w.files /\ Listed(w) /\ w.faults <= F
      /\ w.leases <= MaxHandles /\ x.kind = "reader" /\ x.file = f
  BY DEF Closable, Orderly, Resource
<1>2. /\ v \in Workspaces /\ v.files = w.files /\ v.disk = w.disk
      /\ v.faults = w.faults /\ v.leases = w.leases - 1 /\ v.closed = w.closed
      /\ v.unreclaimed = w.unreclaimed
      /\ Held(v) = Held(w) /\ OneEach(v) /\ Listed(v)
      /\ (Balanced(v) <=> Balanced(w))
  BY <1>1, ReturnedFacts
<1> HIDE DEF v
<1>3. /\ y \in Workspaces /\ y.files = v.files /\ y.disk = v.disk /\ y.faults = v.faults /\ y.leases = v.leases
      /\ (Listed(y) <=> Listed(v)) /\ (Balanced(y) <=> Balanced(v))
  BY <1>2, ForgottenFacts
<1>4. o \in Release(y, f)
  BY DEF CloseReader, v
<1> HIDE DEF y
<1>5. /\ Local(y, o.w, f) /\ (Listed(y) => Listed(o.w))
      /\ o.end \in {"ok", "error", "broken"}
      /\ o.w.files[f].discard = y.files[f].discard
      /\ ~ y.files[f].discard => o.w.disk = y.disk
      /\ Balanced(y) /\ o.w.faults = y.faults => Balanced(o.w)
      /\ y.leases < MaxHandles /\ y.files[f].active /\ o.w.faults = y.faults =>
           o.w.files[f].readers
             = IF y.files[f].readers = 0 THEN 0 ELSE y.files[f].readers - 1
  BY <1>1, <1>2, <1>3, <1>4, Released
<1>6. ASSUME o.w.faults = F
      PROVE  Balanced(o.w) /\ (o.w.files[f].active => o.w.files[f].readers = 0)
  <2>1. o.w.faults <= y.faults /\ (o.w.files[f].active => y.files[f].active)
    BY <1>5 DEF Local, Beside
  <2>2. w.faults = F
    <3>1. w.faults \in Int /\ F \in Int
      BY <1>1 DEF Workspaces
    <3> QED BY <1>1, <1>2, <1>3, <1>6, <2>1, <3>1
  <2>3. Exact(w) /\ Orderly(w)
    BY <2>2 DEF Closable
  <2>4. y.leases < MaxHandles
    <3>1. w.leases \in Int /\ MaxHandles \in Int
      BY <1>1, SizesAssumption DEF Workspaces
    <3> QED BY <1>1, <1>2, <1>3, <3>1
  <2>5. o.w.files[f].active => w.files[f].readers = 1
    <3>1. x \in Leased(w)
      BY <1>1 DEF Leased
    <3> QED BY <1>1, <1>2, <1>3, <2>1, <2>3, <3>1, OneReader
  <2> QED BY <1>2, <1>3, <1>5, <1>6, <2>1, <2>2, <2>3, <2>4, <2>5 DEF Exact
<1>7. /\ Closable(o.w, F) /\ Held(o.w) = Held(w) \ {x}
      /\ (InUse(w) => InUse(o.w)) /\ DOMAIN o.w.files = DOMAIN w.files
  <2> HIDE DEF x
  <2>1. v.leases = IF x.kind = "catalog" THEN w.leases ELSE w.leases - 1
    BY <1>1, <1>2
  <2>2. Local(Forgotten(v, x.kind, x.file), o.w, x.file) /\ Listed(o.w)
    BY <1>1, <1>2, <1>3, <1>5 DEF y
  <2>3. x \in Held(w)
    BY DEF x
  <2> QED BY <1>1, <1>2, <1>6, <2>1, <2>2, <2>3, ClaimClosed
<1>8. ASSUME Kept(w) PROVE Kept(o.w)
  <2>1. Kept(y)
    BY <1>2, <1>3, <1>8 DEF Kept
  <2> QED BY <1>5, <2>1, KeptLocal
<1> QED BY <1>5, <1>7, <1>8

\* RunCatalog.close.
LEMMA CatalogGone ==
    ASSUME NEW w, NEW F \in Nat, Closable(w, F), NEW f, Resource("catalog", f) \in Held(w),
           NEW o \in CloseCatalog(w, f)
    PROVE  /\ Closable(o.w, F) /\ Held(o.w) = Held(w) \ {Resource("catalog", f)}
           /\ (InUse(w) => InUse(o.w)) /\ DOMAIN o.w.files = DOMAIN w.files
           /\ o.end \in {"ok", "error", "broken"}
<1> DEFINE x == Resource("catalog", f)
           y == Forgotten(w, "catalog", f)
<1>1. w \in Workspaces /\ OneEach(w) /\ f \in DOMAIN w.files /\ Listed(w) /\ w.faults <= F
      /\ x.kind = "catalog" /\ x.file = f
  BY DEF Closable, Orderly, Resource
<1>2. /\ y \in Workspaces /\ y.files = w.files /\ y.faults = w.faults
      /\ (Listed(y) <=> Listed(w)) /\ (Balanced(y) <=> Balanced(w))
  BY <1>1, ForgottenFacts
<1>3. o \in Discard(y, f)
  BY DEF CloseCatalog
<1> HIDE DEF y
<1>4. /\ Local(y, o.w, f) /\ (Listed(y) => Listed(o.w))
      /\ o.w.files[f].readers = y.files[f].readers
      /\ o.end \in {"ok", "error", "broken"}
      /\ Balanced(y) /\ o.w.faults = y.faults => Balanced(o.w)
  BY <1>1, <1>2, <1>3, Discarded
<1>5. ASSUME o.w.faults = F
      PROVE  Balanced(o.w) /\ (o.w.files[f].active => o.w.files[f].readers = 0)
  <2>1. o.w.faults <= y.faults /\ (o.w.files[f].active => y.files[f].active)
    BY <1>4 DEF Local, Beside
  <2>2. w.faults = F
    <3>1. w.faults \in Int /\ F \in Int
      BY <1>1 DEF Workspaces
    <3> QED BY <1>1, <1>2, <1>5, <2>1, <3>1
  <2>3. Exact(w)
    BY <2>2 DEF Closable
  <2>4. ~ Reading(w, f)
    <3>1. ASSUME NEW r \in Leased(w), r.file = f PROVE FALSE
      <4>1. r \in Held(w) /\ r.kind # "catalog" /\ x \in Held(w)
        BY <3>1 DEF Leased
      <4>2. r = x
        BY <1>1, <3>1, <4>1, OneClaim
      <4> QED BY <1>1, <4>1, <4>2
    <3> QED BY <3>1 DEF Reading
  <2>5. w.files[f].active => w.files[f].readers = 0
    BY <1>1, <2>3, <2>4 DEF Exact, Counted
  <2> QED BY <1>2, <1>4, <1>5, <2>1, <2>2, <2>3, <2>5 DEF Exact
<1>6. /\ Closable(o.w, F) /\ Held(o.w) = Held(w) \ {x}
      /\ (InUse(w) => InUse(o.w)) /\ DOMAIN o.w.files = DOMAIN w.files
  <2> HIDE DEF x
  <2>1. w.leases = IF x.kind = "catalog" THEN w.leases ELSE w.leases - 1
    BY <1>1
  <2>2. Local(Forgotten(w, x.kind, x.file), o.w, x.file) /\ Listed(o.w)
    BY <1>1, <1>2, <1>4 DEF y
  <2>3. x \in Held(w)
    BY DEF x
  <2> QED BY <1>1, <1>5, <2>1, <2>2, <2>3, ClaimClosed
<1> QED BY <1>4, <1>6

\* Whatever the resource is.
LEMMA ResourceGone ==
    ASSUME NEW w, NEW F \in Nat, Closable(w, F), NEW r \in Held(w),
           NEW o \in CloseResource(w, r)
    PROVE  /\ Closable(o.w, F) /\ Held(o.w) = Held(w) \ {r}
           /\ DOMAIN o.w.files = DOMAIN w.files /\ o.end \in {"ok", "error", "broken"}
<1>1. /\ r.kind \in {"writer", "reader", "catalog"} /\ r = Resource(r.kind, r.file)
  <2>1. r \in Claims
    BY WorkspaceFacts DEF Closable, Orderly
  <2> QED BY <2>1 DEF Claims, Resource
<1>2. CASE r.kind = "writer"
  <2>1. PICK finished \in BOOLEAN, sized \in BOOLEAN :
          o \in CloseWriter(Returned(w), r.file, finished, sized)
    BY <1>2 DEF CloseResource, AbandonWriter
  <2>2. Resource("writer", r.file) \in Held(w)
    BY <1>1, <1>2
  <2>3. /\ Closable(o.w, F) /\ Held(o.w) = Held(w) \ {Resource("writer", r.file)}
        /\ DOMAIN o.w.files = DOMAIN w.files /\ o.end \in {"ok", "error", "broken"}
    BY <2>1, <2>2, WriterGone
  <2> QED BY <1>1, <1>2, <2>3
<1>3. CASE r.kind = "reader"
  <2>1. o \in CloseReader(Returned(w), r.file)
    BY <1>3 DEF CloseResource
  <2> QED BY <1>1, <1>3, <2>1, ReaderGone
<1>4. CASE r.kind = "catalog"
  <2>1. o \in CloseCatalog(w, r.file)
    BY <1>4 DEF CloseResource
  <2> QED BY <1>1, <1>4, <2>1, CatalogGone
<1> QED BY <1>1, <1>2, <1>3, <1>4

-----------------------------------------------------------------------------
(* Induction over numbers, and what is left of the resources of a workspace *)

\* A set with zero that is closed under the successor has every number.
LEMMA SetInduction ==
    ASSUME NEW S, 0 \in S, \A n \in Nat : n \in S => n + 1 \in S
    PROVE  \A n \in Nat : n \in S
<1>1. SUFFICES ASSUME NEW k \in Nat, k \notin S PROVE FALSE
  OBVIOUS
<1> DEFINE T == {n \in Nat : n \notin S}
           R == OpToRel(<, Nat)
<1>2. \E x \in T : \A y \in T : ~ (<<y, x>> \in R)
  <2>1. T \subseteq Nat /\ T # {}
    BY <1>1
  <2>2. IsWellFoundedOn(R, Nat)
    BY NatLessThanWellFounded
  <2> HIDE DEF T, R
  <2> QED BY <2>1, <2>2, WFMin
<1>3. PICK x \in T : \A y \in T : ~ (y < x)
  BY <1>2 DEF OpToRel
<1>4. x \in Nat /\ x \notin S /\ x # 0
  OBVIOUS
<1>5. x - 1 \in Nat /\ x - 1 \in S
  <2>1. x - 1 \in Nat /\ x - 1 < x
    BY <1>4
  <2> QED BY <2>1, <1>3
<1>6. (x - 1) + 1 \in S
  BY <1>5
<1> QED BY <1>4, <1>6

\* Induction over the numbers up to N.
LEMMA UpTo ==
    ASSUME NEW N \in Nat, NEW S, 0 \in S,
           \A n \in 1 .. N : n - 1 \in S => n \in S
    PROVE  \A n \in 0 .. N : n \in S
<1> DEFINE T == {n \in Nat : n <= N => n \in S}
<1>1. ASSUME NEW n \in Nat, n \in T PROVE n + 1 \in T
  <2>1. SUFFICES ASSUME n + 1 <= N PROVE n + 1 \in S
    OBVIOUS
  <2>2. n + 1 \in 1 .. N /\ (n + 1) - 1 = n /\ n <= N
    BY <2>1
  <2> QED BY <1>1, <2>2
<1>2. 0 \in T
  OBVIOUS
<1>3. \A n \in Nat : n \in T
  <2> HIDE DEF T
  <2> QED BY <1>1, <1>2, SetInduction
<1> QED BY <1>3

\* A step from one set to the next can be iterated, as a recursive function does.
Iterates(f, Y, a, N, step) ==
    f \in [0 .. N -> Y] /\ f[0] = a /\ \A n \in 1 .. N : f[n] = step[<<f[n - 1], n>>]

\* The iteration exists, and stays in the sets its steps stay in.
LEMMA RunExists ==
    ASSUME NEW N \in Nat, NEW Y, NEW X, NEW a \in X[0], NEW step,
           \A n \in 0 .. N : X[n] \subseteq Y,
           \A n \in 1 .. N : \A c \in X[n - 1] : step[<<c, n>>] \in X[n]
    PROVE  \E f : Iterates(f, Y, a, N, step)
<1> DEFINE P(n, f) == Iterates(f, Y, a, n, step) /\ f[n] \in X[n]
           S == {n \in Nat : \E f : P(n, f)}
<1>1. 0 \in S
  <2> DEFINE g == [n \in 0 .. 0 |-> a]
  <2>1. 0 \in 0 .. N /\ a \in Y
    OBVIOUS
  <2>2. P(0, g)
    BY <2>1 DEF Iterates
  <2> QED BY <2>2
<1>2. ASSUME NEW n \in 1 .. N, n - 1 \in S PROVE n \in S
  <2>1. PICK g : P(n - 1, g)
    BY <1>2
  <2> DEFINE h == [m \in 0 .. n |-> IF m <= n - 1 THEN g[m] ELSE step[<<g[n - 1], n>>]]
  <2>2. step[<<g[n - 1], n>>] \in X[n] /\ n \in 0 .. N /\ n \in Nat /\ n - 1 \in Nat
    BY <2>1
  <2>3. g \in [0 .. n - 1 -> Y] /\ g[0] = a
        /\ \A m \in 1 .. n - 1 : g[m] = step[<<g[m - 1], m>>]
    BY <2>1 DEF Iterates
  <2>4. h \in [0 .. n -> Y]
    <3>1. \A m \in 0 .. n : m <= n - 1 => m \in 0 .. n - 1
      BY <2>2
    <3> QED BY <2>2, <2>3, <3>1
  <2>5. h[0] = a
    BY <2>2, <2>3
  <2>6. h[n] = step[<<g[n - 1], n>>] /\ h[n - 1] = g[n - 1]
    BY <2>2
  <2>7. ASSUME NEW m \in 1 .. n PROVE h[m] = step[<<h[m - 1], m>>]
    <3>1. CASE m = n
      <4> HIDE DEF h
      <4> QED BY <2>6, <3>1
    <3>2. CASE m # n
      <4>1. m \in 1 .. n - 1 /\ m - 1 \in 0 .. n /\ m \in 0 .. n
            /\ m <= n - 1 /\ m - 1 <= n - 1
        BY <2>2, <3>2
      <4>2. h[m] = g[m] /\ h[m - 1] = g[m - 1]
        BY <4>1
      <4> HIDE DEF h
      <4> QED BY <2>3, <4>1, <4>2
    <3> QED BY <3>1, <3>2
  <2> HIDE DEF h
  <2>8. P(n, h)
    BY <2>2, <2>4, <2>5, <2>6, <2>7 DEF Iterates
  <2> QED BY <2>2, <2>8
<1>3. \A n \in 0 .. N : n \in S
  <2> HIDE DEF S
  <2> QED BY <1>1, <1>2, UpTo
<1>4. N \in S
  BY <1>3
<1> QED BY <1>4

Outcomes == [w : Workspaces, end : {"ok", "error", "broken"}]

\* All the resources are closed, the last one first.
LEMMA AllClosed ==
    ASSUME NEW w, NEW F \in Nat, Closable(w, F), NEW o \in CloseAll(w)
    PROVE  /\ Closable(o.w, F) /\ Held(o.w) = {} /\ DOMAIN o.w.files = DOMAIN w.files
           /\ o.end \in {"ok", "error", "broken"}
<1> DEFINE N == Len(w.resources)
           Left(n) == {w.resources[i] : i \in 1 .. N - n}
           Good(n) == {q \in Outcomes : /\ Closable(q.w, F) /\ Held(q.w) = Left(n)
                                        /\ DOMAIN q.w.files = DOMAIN w.files}
           X == [n \in 0 .. N |-> SUBSET Good(n)]
           Turn(c, n) == Finally(c, LAMBDA v : CloseResource(v, w.resources[N + 1 - n]))
           step == [p \in (SUBSET Outcomes) \X (1 .. N) |-> Turn(p[1], p[2])]
           a == Ok(w)
           IsRun(r) == r = [k \in 0 .. N |-> IF k = 0 THEN a ELSE Turn(r[k - 1], k)]
<1>1. w \in Workspaces /\ N \in Nat /\ DOMAIN w.resources = 1 .. N /\ OneEach(w)
  BY WorkspaceFacts DEF Closable, Orderly
<1>2. a \in X[0]
  <2>1. Held(w) = Left(0)
    BY <1>1 DEF Held
  <2>2. [w |-> w, end |-> "ok"] \in Good(0)
    BY <1>1, <2>1 DEF Outcomes
  <2>3. 0 \in 0 .. N /\ a \subseteq Good(0)
    BY <1>1, <2>2 DEF Ok
  <2> QED BY <2>3
<1>3. \A n \in 0 .. N : X[n] \subseteq SUBSET Outcomes
  OBVIOUS
<1>4. ASSUME NEW n \in 1 .. N, NEW c \in X[n - 1]
      PROVE  Turn(c, n) \in X[n] /\ step[<<c, n>>] = Turn(c, n)
  <2>0. n - 1 \in 0 .. N /\ n \in 0 .. N
    BY <1>1
  <2>1. n - 1 \in 0 .. N /\ n \in 0 .. N /\ c \subseteq Good(n - 1) /\ X[n] = SUBSET Good(n)
    <3> HIDE DEF Good
    <3> QED BY <1>4, <2>0
  <2>2. ASSUME NEW q \in Turn(c, n) PROVE q \in Good(n)
    <3> DEFINE r == w.resources[N + 1 - n]
    <3>1. PICK p \in c : \E m \in CloseResource(p.w, r) :
            q = [w |-> m.w, end |-> IF m.end = "ok" THEN p.end ELSE m.end]
      BY <2>2 DEF Finally
    <3>2. PICK m \in CloseResource(p.w, r) :
            q = [w |-> m.w, end |-> IF m.end = "ok" THEN p.end ELSE m.end]
      BY <3>1
    <3>3. p \in Good(n - 1)
      BY <2>1
    <3>4. r \in Held(p.w)
      <4>1. N + 1 - n \in 1 .. N - (n - 1)
        BY <1>1
      <4> QED BY <3>3, <4>1
    <3>5. /\ Closable(m.w, F) /\ Held(m.w) = Held(p.w) \ {r}
          /\ DOMAIN m.w.files = DOMAIN p.w.files /\ m.end \in {"ok", "error", "broken"}
      BY <3>2, <3>3, <3>4, ResourceGone
    <3>6. Held(p.w) \ {r} = Left(n)
      <4>1. \A i, j \in 1 .. N : w.resources[i] = w.resources[j] => i = j
        BY <1>1 DEF OneEach
      <4>2. N + 1 - n \in 1 .. N
        BY <1>1
      <4>3. \A i \in 1 .. N - (n - 1) : i \in 1 .. N /\ (i \in 1 .. N - n \/ i = N + 1 - n)
        BY <1>1
      <4>4. \A i \in 1 .. N - n : i \in 1 .. N - (n - 1) /\ i # N + 1 - n
        BY <1>1
      <4> QED BY <3>3, <4>1, <4>2, <4>3, <4>4
    <3>7. p.end \in {"ok", "error", "broken"} /\ m.w \in Workspaces
      BY <3>3, <3>5 DEF Outcomes, Closable, Orderly
    <3>8. q.w = m.w /\ q \in Outcomes
      BY <3>2, <3>5, <3>7 DEF Outcomes
    <3> HIDE DEF r
    <3> QED BY <3>3, <3>5, <3>6, <3>8
  <2>3. c \in SUBSET Outcomes
    BY <2>1
  <2> HIDE DEF Turn
  <2>4. step[<<c, n>>] = Turn(c, n)
    BY <2>3
  <2> HIDE DEF Good, X, step
  <2> QED BY <2>1, <2>2, <2>4
<1> HIDE DEF X, step, Turn, a
<1>5. PICK run : Iterates(run, SUBSET Outcomes, a, N, step)
  <2>1. \A n \in 1 .. N : \A c \in X[n - 1] : step[<<c, n>>] \in X[n]
    BY <1>4
  <2> HIDE DEF N
  <2> QED BY <1>1, <1>2, <1>3, <2>1, RunExists
<1>6. \A n \in 0 .. N : run[n] \in X[n]
  <2> DEFINE S == {n \in 0 .. N : run[n] \in X[n]}
  <2>1. 0 \in S
    BY <1>1, <1>2, <1>5 DEF Iterates
  <2>2. ASSUME NEW n \in 1 .. N, n - 1 \in S PROVE n \in S
    <3>1. n \in 0 .. N /\ run[n] = step[<<run[n - 1], n>>]
      BY <1>1, <1>5 DEF Iterates
    <3>2. run[n - 1] \in X[n - 1]
      BY <2>2
    <3> QED BY <1>4, <3>1, <3>2
  <2> HIDE DEF S
  <2>3. \A n \in 0 .. N : n \in S
    BY <1>1, <2>1, <2>2, UpTo
  <2> QED BY <2>3 DEF S
<1>7. IsRun(run)
  <2>1. \A k \in 0 .. N : run[k] = IF k = 0 THEN a ELSE Turn(run[k - 1], k)
    <3> TAKE k \in 0 .. N
    <3>1. CASE k = 0
      BY <1>5, <3>1 DEF Iterates
    <3>2. CASE k # 0
      <4>1. k \in 1 .. N /\ k - 1 \in 0 .. N
        BY <1>1, <3>2
      <4> QED BY <1>4, <1>5, <1>6, <3>2, <4>1 DEF Iterates
    <3> QED BY <3>1, <3>2
  <2> QED BY <1>5, <2>1 DEF Iterates
<1> DEFINE after == CHOOSE r : IsRun(r)
<1>8. IsRun(after)
  <2> HIDE DEF IsRun
  <2> QED BY <1>7
<1>9. CloseAll(w) = after[N]
  BY DEF CloseAll, Turn, a
<1> HIDE DEF after
<1>10. after[N] \in X[N]
  <2> DEFINE S == {n \in 0 .. N : after[n] \in X[n]}
  <2>1. 0 \in S
    BY <1>1, <1>2, <1>8
  <2>2. ASSUME NEW n \in 1 .. N, n - 1 \in S PROVE n \in S
    <3>1. n \in 0 .. N /\ after[n] = Turn(after[n - 1], n)
      BY <1>1, <1>8
    <3>2. after[n - 1] \in X[n - 1]
      BY <2>2
    <3> QED BY <1>4, <3>1, <3>2
  <2> HIDE DEF S
  <2>3. \A n \in 0 .. N : n \in S
    BY <1>1, <2>1, <2>2, UpTo
  <2>4. N \in 0 .. N
    BY <1>1
  <2> QED BY <2>3, <2>4 DEF S
<1>11. o \in Good(N)
  <2>1. N \in 0 .. N
    BY <1>1
  <2>2. X[N] = SUBSET Good(N)
    <3> HIDE DEF Good
    <3> QED BY <2>1 DEF X
  <2> QED BY <1>9, <1>10, <2>2
<1>12. Left(N) = {}
  BY <1>1
<1> QED BY <1>11, <1>12 DEF Outcomes

-----------------------------------------------------------------------------
(* The end of the workspace, after k of its entries were reclaimed *)

Shut(w, F) ==
    /\ w \in Workspaces /\ w.closed /\ w.resources = <<>> /\ w.leases = 0 /\ w.faults <= F

Emptying(w, F, k) ==
    /\ Shut(w, F) /\ Paths \subseteq w.disk /\ Listed(w)
    /\ \A g \in 1 .. k : g \in w.disk => g \in w.unreclaimed
    /\ w.faults = F =>
         /\ Balanced(w) /\ w.unreclaimed = {}
         /\ \A g \in DOMAIN w.files : w.files[g].active => g > k /\ w.files[g].readers = 0

\* A closed workspace stays closed.
LEMMA ShutLocal ==
    ASSUME NEW w, NEW v, NEW f, NEW F \in Nat, Local(w, v, f), Shut(w, F)
    PROVE  Shut(v, F) /\ (v.faults = F => w.faults = F) /\ v.unreclaimed = w.unreclaimed
<1>1. /\ w \in Workspaces /\ v \in Workspaces /\ v.faults <= w.faults
      /\ v.closed = w.closed /\ v.unreclaimed = w.unreclaimed
      /\ v.resources = w.resources /\ v.leases = w.leases
  BY DEF Local, Beside
<1>2. w.faults \in Nat /\ v.faults \in Nat /\ w.faults <= F
  BY <1>1 DEF Workspaces, Shut
<1>3. v.faults <= F /\ (v.faults = F => w.faults = F)
  BY <1>1, <1>2
<1> QED BY <1>1, <1>3 DEF Shut

\* close, entry by entry: the file of one entry is gone, or reported.
LEMMA Reclaimed ==
    ASSUME NEW w, NEW F \in Nat, NEW f \in DOMAIN w.files, Emptying(w, F, f - 1),
           NEW o \in Reclaim(w, f)
    PROVE  /\ Shut(o.w, F) /\ DOMAIN o.w.files = DOMAIN w.files
           /\ o.end \in {"ok", "error", "broken"}
           /\ o.end = "ok" => Emptying(o.w, F, f)
           /\ o.end # "ok" => o.w.faults < F
<1>1. /\ w \in Workspaces /\ w.closed /\ w.resources = <<>> /\ w.leases = 0 /\ w.faults <= F
      /\ Paths \subseteq w.disk /\ Listed(w) /\ Shut(w, F)
      /\ \A g \in 1 .. f - 1 : g \in w.disk => g \in w.unreclaimed
      /\ w.faults = F =>
           /\ Balanced(w) /\ w.unreclaimed = {}
           /\ \A g \in DOMAIN w.files :
                w.files[g].active => g > f - 1 /\ w.files[g].readers = 0
  BY DEF Emptying, Shut
<1>2. /\ DOMAIN w.files = 1 .. Len(w.files) /\ Len(w.files) \in Nat /\ f \in Nat \ {0}
      /\ f \notin Paths /\ 1 .. f = (1 .. f - 1) \union {f}
  BY <1>1, WorkspaceFacts DEF Paths, Registry, Directory
<1>3. w.leases < MaxHandles
  BY <1>1, SizesAssumption
<1> DEFINE Turn(v) ==
      IF ~ v.files[f].active THEN Ok(v)
      ELSE IF v.files[f].readers > 0
      THEN Ok([v EXCEPT !.unreclaimed = @ \union {f}])
      ELSE {IF q.end = "error"
            THEN [w |-> [q.w EXCEPT !.unreclaimed = @ \union {f}], end |-> "ok"]
            ELSE q : q \in Delete(v, f)}
<1>4. PICK p \in RegistryFile(w, w) : o \in IF p.end = "ok" THEN Turn(p.w) ELSE {p}
  BY DEF Reclaim, Then
<1>5. CASE p.end # "ok"
  <2>0. o = p
    BY <1>4, <1>5
  <2> HIDE DEF Turn
  <2>1. /\ o = p /\ p.end = "error" /\ p.w = [w EXCEPT !.faults = @ - 1]
        /\ p.w \in Workspaces /\ p.w.faults < w.faults
    <3>1. ~ (w.leases >= MaxHandles)
      BY <1>1, SizesAssumption
    <3> QED BY <1>1, <1>4, <1>5, <2>0, <3>1, RegistryOutcomes
  <2>2. Local(w, p.w, f) /\ p.w.files = w.files
    <3>1. w \in Workspaces /\ f \in DOMAIN w.files
      BY <1>1
    <3> QED BY ONLY <2>1, <3>1, LocalFault
  <2>3. Shut(p.w, F)
    BY <1>1, <2>2, ShutLocal
  <2>4. p.w.faults < F
    <3>1. p.w.faults \in Nat /\ w.faults \in Nat
      BY <1>1, <2>1 DEF Workspaces
    <3> QED BY <1>1, <2>1, <3>1
  <2> QED BY <2>1, <2>2, <2>3, <2>4
<1>6. CASE p.end = "ok"
  <2>1. p.w = w /\ o \in Turn(w)
    BY <1>1, <1>4, <1>6, RegistryOutcomes
  <2>2. CASE ~ w.files[f].active
    <3>0. o \in Ok(w)
      BY <2>1, <2>2
    <3>1. o.w = w /\ o.end = "ok"
      BY <3>0 DEF Ok
    <3>2. f \notin w.disk
      BY <1>1, <1>2, <2>2 DEF Listed
    <3>3. w.faults = F => \A g \in DOMAIN w.files :
            w.files[g].active => g > f /\ w.files[g].readers = 0
      BY <1>1, <1>2, <2>2
    <3> QED BY <1>1, <1>2, <3>1, <3>2, <3>3 DEF Emptying
  <2>3. CASE w.files[f].active /\ w.files[f].readers > 0
    <3> DEFINE v == [w EXCEPT !.unreclaimed = @ \union {f}]
    <3>0. o \in Ok(v)
      BY <2>1, <2>3
    <3>1. o.w = v /\ o.end = "ok"
      BY <3>0 DEF Ok
    <3>5. w.unreclaimed \union {f} \in SUBSET Int
      BY <1>1, <1>2 DEF Workspaces
    <3>2. /\ v \in Workspaces /\ v.files = w.files /\ v.disk = w.disk /\ v.live = w.live
          /\ v.faults = w.faults /\ v.closed = w.closed /\ v.resources = w.resources
          /\ v.leases = w.leases /\ v.unreclaimed = w.unreclaimed \union {f}
      BY <1>1, <3>5 DEF Workspaces
    <3> HIDE DEF v
    <3>3. w.files[f].readers \in Nat
      BY <1>1, WorkspaceFacts, EntryTypes
    <3>4. w.faults # F
      BY <1>1, <2>3, <3>3
    <3> QED BY <1>1, <1>2, <3>1, <3>2, <3>4 DEF Emptying, Shut, Listed
  <2>4. CASE w.files[f].active /\ ~ (w.files[f].readers > 0)
    <3>1. PICK q \in Delete(w, f) :
            o = IF q.end = "error"
                THEN [w |-> [q.w EXCEPT !.unreclaimed = @ \union {f}], end |-> "ok"]
                ELSE q
      BY <2>1, <2>4
    <3>2. /\ Local(w, q.w, f) /\ Listed(q.w)
          /\ f \in q.w.disk => q.end = "error" /\ q.w.files = w.files
          /\ q.end = "ok" => ~ q.w.files[f].active /\ q.w.files[f].size = 0
          /\ q.end \in {"ok", "error", "broken"}
          /\ Balanced(w) /\ w.leases < MaxHandles /\ q.w.faults = w.faults
               => q.end = "ok" /\ Balanced(q.w)
      BY <1>1, <3>1, Deleted
    <3>3. Shut(q.w, F) /\ (q.w.faults = F => w.faults = F) /\ q.w.unreclaimed = w.unreclaimed
      BY <1>1, <3>2, ShutLocal
    <3>4. /\ q.w \in Workspaces /\ DOMAIN q.w.files = DOMAIN w.files
          /\ q.w.disk \ {f} = w.disk \ {f}
          /\ \A g \in DOMAIN w.files \ {f} : q.w.files[g] = w.files[g]
      BY <3>2 DEF Local, Beside
    <3>5. q.w.faults = F =>
            /\ q.end = "ok" /\ Balanced(q.w) /\ q.w.unreclaimed = {}
            /\ \A g \in DOMAIN q.w.files :
                 q.w.files[g].active => g > f /\ q.w.files[g].readers = 0
      <4>1. SUFFICES ASSUME q.w.faults = F
                     PROVE  /\ q.end = "ok" /\ Balanced(q.w) /\ q.w.unreclaimed = {}
                            /\ \A g \in DOMAIN q.w.files :
                                 q.w.files[g].active => g > f /\ q.w.files[g].readers = 0
        OBVIOUS
      <4>2. q.end = "ok" /\ Balanced(q.w) /\ q.w.unreclaimed = {}
        BY <1>1, <1>3, <3>2, <3>3, <4>1
      <4>3. ASSUME NEW g \in DOMAIN q.w.files, q.w.files[g].active
            PROVE  g > f /\ q.w.files[g].readers = 0
        <5>1. g # f /\ g \in DOMAIN w.files
          BY <3>2, <3>4, <4>2, <4>3
        <5> QED BY <1>1, <1>2, <3>3, <3>4, <4>1, <4>3, <5>1
      <4> QED BY <4>2, <4>3
    <3>6. q.w.faults <= F /\ q.w.faults \in Nat
      BY <3>3 DEF Shut, Workspaces
    <3>7. Paths \subseteq q.w.disk
      BY <1>1, <1>2, <3>4
    <3>8. CASE q.end = "error"
      <4> DEFINE v == [q.w EXCEPT !.unreclaimed = @ \union {f}]
      <4>1. o.w = v /\ o.end = "ok"
        BY <3>1, <3>8
      <4>2. /\ v \in Workspaces /\ v.files = q.w.files /\ v.disk = q.w.disk /\ v.live = q.w.live
            /\ v.faults = q.w.faults /\ v.closed = q.w.closed /\ v.resources = q.w.resources
            /\ v.leases = q.w.leases /\ v.unreclaimed = q.w.unreclaimed \union {f}
        <5>1. q.w \in Workspaces /\ f \in Int
          BY <1>2, <3>4
        <5> QED BY ONLY <5>1 DEF Workspaces
      <4> HIDE DEF v
      <4>3. q.w.faults # F
        BY <3>5, <3>8
      <4>4. \A g \in 1 .. f : g \in v.disk => g \in v.unreclaimed
        BY <1>1, <1>2, <3>3, <3>4, <4>2
      <4> QED BY <3>2, <3>3, <3>4, <3>7, <4>1, <4>2, <4>3, <4>4 DEF Emptying, Shut, Listed
    <3>9. CASE q.end = "ok"
      <4>1. f \notin q.w.disk
        BY <3>2, <3>9
      <4>2. \A g \in 1 .. f : g \in q.w.disk => g \in q.w.unreclaimed
        BY <1>1, <1>2, <3>3, <3>4, <4>1
      <4> QED BY <3>1, <3>2, <3>3, <3>4, <3>5, <3>7, <3>9, <4>2 DEF Emptying
    <3>10. CASE q.end = "broken"
      <4>1. q.w.faults < F
        BY <3>5, <3>6, <3>10
      <4> QED BY <3>1, <3>3, <3>4, <3>10, <4>1
    <3> QED BY <3>2, <3>8, <3>9, <3>10
  <2> QED BY <2>2, <2>3, <2>4
<1> QED BY <1>5, <1>6

\* An outcome is a workspace and an end, and no more.
Outcome(o) == o = [w |-> o.w, end |-> o.end]

\* The outcomes of an operation are records of a workspace and an end.
LEMMA IoRecords ==
    ASSUME NEW u, NEW v, NEW q \in Io(u, v)
    PROVE  Outcome(q)
BY DEF Io, Ok, Raises, Outcome

\* So are those of reclaiming an entry.
LEMMA ReclaimRecords ==
    ASSUME NEW w, NEW f, NEW o \in Reclaim(w, f)
    PROVE  Outcome(o)
<1>1. ASSUME NEW u, NEW v, NEW q \in Io(u, v) PROVE Outcome(q)
  BY IoRecords
<1>2. ASSUME NEW u, NEW v, NEW q \in RegistryFile(u, v) PROVE Outcome(q)
  BY <1>1 DEF RegistryFile, Raises, Outcome
<1>3. ASSUME NEW u, NEW d, NEW q \in AdjustSize(u, d) PROVE Outcome(q)
  BY DEF AdjustSize, Outcome
<1>4. ASSUME NEW u, NEW q \in Delete(u, f) PROVE Outcome(q)
  <2> DEFINE B(v) == Then(AdjustSize(v, - v.files[f].size), LAMBDA x :
                       Write(x, f, [x.files[f] EXCEPT !.active = FALSE, !.size = 0]))
  <2>1. PICK a \in Io(u, [u EXCEPT !.disk = @ \ {f}]) : q \in IF a.end = "ok" THEN B(a.w) ELSE {a}
    BY <1>4 DEF Delete, Then
  <2>2. CASE a.end # "ok"
    BY <1>1, <2>1, <2>2
  <2>3. CASE a.end = "ok"
    <3>1. PICK b \in AdjustSize(a.w, - a.w.files[f].size) :
            q \in IF b.end = "ok"
                  THEN Write(b.w, f, [b.w.files[f] EXCEPT !.active = FALSE, !.size = 0])
                  ELSE {b}
      BY <2>1, <2>3 DEF Then
    <3>2. CASE b.end # "ok"
      BY <1>3, <3>1, <3>2
    <3>3. CASE b.end = "ok"
      <4>1. PICK e : q \in Write(b.w, f, e)
        BY <3>1, <3>3
      <4> QED BY <1>2, <4>1 DEF Write
    <3> QED BY <3>2, <3>3
  <2> QED BY <2>2, <2>3
<1> DEFINE Turn(v) ==
      IF ~ v.files[f].active THEN Ok(v)
      ELSE IF v.files[f].readers > 0
      THEN Ok([v EXCEPT !.unreclaimed = @ \union {f}])
      ELSE {IF q.end = "error"
            THEN [w |-> [q.w EXCEPT !.unreclaimed = @ \union {f}], end |-> "ok"]
            ELSE q : q \in Delete(v, f)}
<1>5. PICK p \in RegistryFile(w, w) : o \in IF p.end = "ok" THEN Turn(p.w) ELSE {p}
  BY DEF Reclaim, Then
<1>6. CASE p.end # "ok"
  BY <1>2, <1>5, <1>6
<1>7. CASE p.end = "ok"
  <2>1. o \in Turn(p.w)
    BY <1>5, <1>7
  <2>2. CASE o \in Ok(p.w)
    BY <2>2 DEF Ok, Outcome
  <2>3. CASE o \in Ok([p.w EXCEPT !.unreclaimed = @ \union {f}])
    BY <2>3 DEF Ok, Outcome
  <2>4. ASSUME NEW q \in Delete(p.w, f),
               o = IF q.end = "error"
                   THEN [w |-> [q.w EXCEPT !.unreclaimed = @ \union {f}], end |-> "ok"]
                   ELSE q
        PROVE  Outcome(o)
    <3>1. Outcome(q)
      BY <1>4
    <3> QED BY <2>4, <3>1 DEF Outcome
  <2> QED BY <2>1, <2>2, <2>3, <2>4
<1> QED BY <1>6, <1>7

\* Every entry of the registry is reclaimed, or what stops it is a fault.
LEMMA AllReclaimed ==
    ASSUME NEW w, NEW F \in Nat, Emptying(w, F, 0), NEW o \in ReclaimAll(w)
    PROVE  /\ Shut(o.w, F) /\ DOMAIN o.w.files = DOMAIN w.files
           /\ o.end \in {"ok", "error", "broken"}
           /\ o.end = "ok" => Emptying(o.w, F, Len(w.files))
           /\ o.end # "ok" => o.w.faults < F
           /\ Outcome(o)
<1> DEFINE N == Len(w.files)
           Good(n) == {q \in Outcomes : /\ Shut(q.w, F) /\ DOMAIN q.w.files = DOMAIN w.files
                                        /\ q.end = "ok" => Emptying(q.w, F, n)
                                        /\ q.end # "ok" => q.w.faults < F}
           X == [n \in 0 .. N |-> SUBSET Good(n)]
           Turn(c, n) == Then(c, LAMBDA v : Reclaim(v, n))
           step == [p \in (SUBSET Outcomes) \X (1 .. N) |-> Turn(p[1], p[2])]
           a == Ok(w)
           IsRun(r) == r = [k \in 0 .. N |-> IF k = 0 THEN a ELSE Turn(r[k - 1], k)]
<1>1. w \in Workspaces /\ N \in Nat /\ DOMAIN w.files = 1 .. N
  BY WorkspaceFacts DEF Emptying, Shut
<1>2. a \in X[0]
  <2>1. [w |-> w, end |-> "ok"] \in Good(0)
    BY <1>1 DEF Outcomes, Emptying
  <2>2. 0 \in 0 .. N /\ a \subseteq Good(0)
    BY <1>1, <2>1 DEF Ok
  <2> QED BY <2>2
<1>3. \A n \in 0 .. N : X[n] \subseteq SUBSET Outcomes
  OBVIOUS
<1>4. ASSUME NEW n \in 1 .. N, NEW c \in X[n - 1]
      PROVE  Turn(c, n) \in X[n] /\ step[<<c, n>>] = Turn(c, n)
  <2>0. n - 1 \in 0 .. N /\ n \in 0 .. N
    BY <1>1
  <2>1. n - 1 \in 0 .. N /\ n \in 0 .. N /\ c \subseteq Good(n - 1) /\ X[n] = SUBSET Good(n)
    <3> HIDE DEF Good
    <3> QED BY <1>4, <2>0
  <2>2. ASSUME NEW q \in Turn(c, n) PROVE q \in Good(n)
    <3>1. PICK p \in c : q \in IF p.end = "ok" THEN Reclaim(p.w, n) ELSE {p}
      BY <2>2 DEF Then
    <3>2. p \in Good(n - 1)
      BY <2>1
    <3>3. CASE p.end # "ok"
      BY <3>1, <3>2, <3>3
    <3>4. CASE p.end = "ok"
      <4>1. n \in DOMAIN p.w.files /\ Emptying(p.w, F, n - 1) /\ q \in Reclaim(p.w, n)
        BY <1>1, <3>1, <3>2, <3>4
      <4>2. /\ Shut(q.w, F) /\ DOMAIN q.w.files = DOMAIN p.w.files
            /\ q.end \in {"ok", "error", "broken"}
            /\ q.end = "ok" => Emptying(q.w, F, n)
            /\ q.end # "ok" => q.w.faults < F
        BY <4>1, Reclaimed
      <4>3. q = [w |-> q.w, end |-> q.end]
        BY <4>1, ReclaimRecords DEF Outcome
      <4>4. q \in Outcomes
        BY <4>2, <4>3 DEF Outcomes, Shut
      <4> QED BY <3>2, <4>2, <4>4
    <3> QED BY <3>3, <3>4
  <2>3. c \in SUBSET Outcomes
    BY <2>1
  <2> HIDE DEF Turn
  <2>4. step[<<c, n>>] = Turn(c, n)
    BY <2>3
  <2> HIDE DEF Good, X, step
  <2> QED BY <2>1, <2>2, <2>4
<1> HIDE DEF X, step, Turn, a
<1>5. PICK run : Iterates(run, SUBSET Outcomes, a, N, step)
  <2>1. \A n \in 1 .. N : \A c \in X[n - 1] : step[<<c, n>>] \in X[n]
    BY <1>4
  <2> HIDE DEF N
  <2> QED BY <1>1, <1>2, <1>3, <2>1, RunExists
<1>6. \A n \in 0 .. N : run[n] \in X[n]
  <2> DEFINE S == {n \in 0 .. N : run[n] \in X[n]}
  <2>1. 0 \in S
    BY <1>1, <1>2, <1>5 DEF Iterates
  <2>2. ASSUME NEW n \in 1 .. N, n - 1 \in S PROVE n \in S
    <3>1. n \in 0 .. N /\ run[n] = step[<<run[n - 1], n>>]
      BY <1>1, <1>5 DEF Iterates
    <3>2. run[n - 1] \in X[n - 1]
      BY <2>2
    <3> QED BY <1>4, <3>1, <3>2
  <2> HIDE DEF S
  <2>3. \A n \in 0 .. N : n \in S
    BY <1>1, <2>1, <2>2, UpTo
  <2> QED BY <2>3 DEF S
<1>7. IsRun(run)
  <2>1. \A k \in 0 .. N : run[k] = IF k = 0 THEN a ELSE Turn(run[k - 1], k)
    <3> TAKE k \in 0 .. N
    <3>1. CASE k = 0
      BY <1>5, <3>1 DEF Iterates
    <3>2. CASE k # 0
      <4>1. k \in 1 .. N /\ k - 1 \in 0 .. N
        BY <1>1, <3>2
      <4> QED BY <1>4, <1>5, <1>6, <3>2, <4>1 DEF Iterates
    <3> QED BY <3>1, <3>2
  <2> QED BY <1>5, <2>1 DEF Iterates
<1> DEFINE after == CHOOSE r : IsRun(r)
<1>8. IsRun(after)
  <2> HIDE DEF IsRun
  <2> QED BY <1>7
<1>9. ReclaimAll(w) = after[N]
  BY DEF ReclaimAll, Turn, a
<1> HIDE DEF after
<1>10. after[N] \in X[N]
  <2> DEFINE S == {n \in 0 .. N : after[n] \in X[n]}
  <2>1. 0 \in S
    BY <1>1, <1>2, <1>8
  <2>2. ASSUME NEW n \in 1 .. N, n - 1 \in S PROVE n \in S
    <3>1. n \in 0 .. N /\ after[n] = Turn(after[n - 1], n)
      BY <1>1, <1>8
    <3>2. after[n - 1] \in X[n - 1]
      BY <2>2
    <3> QED BY <1>4, <3>1, <3>2
  <2> HIDE DEF S
  <2>3. \A n \in 0 .. N : n \in S
    BY <1>1, <2>1, <2>2, UpTo
  <2>4. N \in 0 .. N
    BY <1>1
  <2> QED BY <2>3, <2>4 DEF S
<1>11. o \in Good(N)
  <2>1. N \in 0 .. N
    BY <1>1
  <2>2. X[N] = SUBSET Good(N)
    <3> HIDE DEF Good
    <3> QED BY <2>1 DEF X
  <2> QED BY <1>9, <1>10, <2>2
<1> QED BY <1>11 DEF Outcomes, Outcome

\* The last paths: what cannot be removed is reported.
LEMMA DirectoryRemoved ==
    ASSUME NEW w, NEW F \in Nat, Emptying(w, F, Len(w.files)), NEW o \in RemoveDirectory(w)
    PROVE  /\ Shut(o.w, F) /\ o.end \in {"ok", "broken"}
           /\ o.end = "ok" => o.w.disk \subseteq o.w.unreclaimed
           /\ o.w.faults = F => o.end = "ok" /\ o.w.disk = {} /\ o.w.live = 0
<1> DEFINE N == Len(w.files)
           Emptied(v) ==
             IF v.disk = {Directory}
             THEN {IF q.end = "ok" THEN q
                   ELSE [w |-> [q.w EXCEPT !.unreclaimed = @ \union {Directory}], end |-> "ok"] :
                   q \in Io(v, [v EXCEPT !.disk = {}])}
             ELSE Ok([v EXCEPT !.unreclaimed = @ \union {Directory}])
           gone == [w EXCEPT !.disk = @ \ {Registry}]
<1>1. /\ Shut(w, F) /\ w \in Workspaces /\ w.closed /\ w.resources = <<>> /\ w.leases = 0
      /\ w.faults <= F /\ w.faults \in Nat
      /\ Paths \subseteq w.disk /\ Listed(w) /\ w.disk \subseteq Int /\ w.unreclaimed \subseteq Int
      /\ \A g \in 1 .. N : g \in w.disk => g \in w.unreclaimed
      /\ w.live \in Int /\ SlotBytes \in Nat /\ w.files \in Seq(Entries)
      /\ DOMAIN w.files = 1 .. N /\ N \in Nat
      /\ Registry \in Int /\ Directory \in Int /\ Registry # Directory
  BY WorkspaceFacts, SizesAssumption DEF Emptying, Shut, Workspaces, Registry, Directory
<1>2. w.disk \ Paths \subseteq w.unreclaimed
  BY <1>1 DEF Listed
<1>3. w.faults = F => w.disk = Paths /\ w.live = SlotBytes * N /\ w.unreclaimed = {}
  <2>1. SUFFICES ASSUME w.faults = F
                 PROVE  w.disk = Paths /\ w.live = SlotBytes * N /\ w.unreclaimed = {}
    OBVIOUS
  <2>2. Balanced(w) /\ w.unreclaimed = {} /\ \A g \in 1 .. N : w.files[g].active => g > N
    BY <1>1, <2>1 DEF Emptying
  <2>3. \A g \in 1 .. N : ~ w.files[g].active /\ w.files[g].size = 0
    BY <1>1, <2>2 DEF Balanced
  <2>4. Bytes(w.files) = 0
    BY <1>1, <2>3, NoBytes
  <2>5. w.disk = Paths
    BY <1>1, <2>3 DEF Listed
  <2> QED BY <1>1, <2>2, <2>4, <2>5 DEF Balanced
<1>4. ASSUME NEW v, Shut(v, F), v.disk \ Paths \subseteq v.unreclaimed,
             Registry \in v.disk => Registry \in v.unreclaimed,
             v.faults = F => v.disk = {Directory} /\ v.live = 0,
             NEW q \in Emptied(v)
      PROVE  /\ Shut(q.w, F) /\ q.end = "ok" /\ q.w.disk \subseteq q.w.unreclaimed
             /\ q.w.faults = F => q.w.disk = {} /\ q.w.live = 0
  <2>1. v \in Workspaces /\ v.faults \in Nat /\ v.faults <= F
    BY <1>4 DEF Shut, Workspaces
  <2>2. ASSUME NEW u \in Workspaces, NEW x, x = [u EXCEPT !.unreclaimed = @ \union {Directory}],
               u.closed, u.resources = <<>>, u.leases = 0, u.faults <= F,
               u.disk \ Paths \subseteq u.unreclaimed,
               Registry \in u.disk => Registry \in u.unreclaimed, u.faults # F
        PROVE  Shut(x, F) /\ x.disk \subseteq x.unreclaimed /\ x.faults # F
    <3>1. /\ x \in Workspaces /\ x.closed = u.closed /\ x.resources = u.resources
          /\ x.leases = u.leases /\ x.faults = u.faults /\ x.disk = u.disk
          /\ x.unreclaimed = u.unreclaimed \union {Directory}
      BY <1>1, <2>2 DEF Workspaces
    <3> QED BY <2>2, <3>1 DEF Shut, Paths
  <2>3. CASE v.disk = {Directory}
    <3> DEFINE y == [v EXCEPT !.disk = {}]
    <3>1. PICK p \in Io(v, y) :
            q = IF p.end = "ok" THEN p
                ELSE [w |-> [p.w EXCEPT !.unreclaimed = @ \union {Directory}], end |-> "ok"]
      BY <1>4, <2>3
    <3>2. /\ y \in Workspaces /\ y.closed = v.closed /\ y.resources = v.resources
          /\ y.leases = v.leases /\ y.faults = v.faults /\ y.disk = {} /\ y.live = v.live
      BY <2>1 DEF Workspaces
    <3> HIDE DEF y
    <3>3. CASE p.end = "ok"
      <4>1. q = p /\ p.w = y
        BY <2>1, <3>1, <3>3, IoOutcomes
      <4> QED BY <1>4, <3>2, <3>3, <4>1 DEF Shut
    <3>4. CASE p.end # "ok"
      <4> DEFINE x == [p.w EXCEPT !.unreclaimed = @ \union {Directory}]
      <4>1. q.w = x /\ q.end = "ok"
        BY <3>1, <3>4
      <4>2. p.w = [v EXCEPT !.faults = @ - 1] /\ p.w \in Workspaces /\ p.w.faults < v.faults
        BY <2>1, <3>1, <3>4, IoOutcomes
      <4>3. /\ p.w.closed = v.closed /\ p.w.resources = v.resources /\ p.w.leases = v.leases
            /\ p.w.disk = v.disk /\ p.w.unreclaimed = v.unreclaimed
        BY <2>1, <4>2 DEF Workspaces
      <4>4. p.w.faults <= F /\ p.w.faults # F
        <5>1. p.w.faults \in Nat
          BY <4>2 DEF Workspaces
        <5> QED BY <2>1, <4>2, <5>1
      <4> HIDE DEF x
      <4>5. Shut(x, F) /\ x.disk \subseteq x.unreclaimed /\ x.faults # F
        <5>1. /\ p.w.closed /\ p.w.resources = <<>> /\ p.w.leases = 0
              /\ p.w.disk \ Paths \subseteq p.w.unreclaimed
              /\ Registry \in p.w.disk => Registry \in p.w.unreclaimed
          BY <1>4, <4>3 DEF Shut
        <5> QED BY <2>2, <4>2, <4>4, <5>1 DEF x
      <4> QED BY <4>1, <4>5
    <3> QED BY <3>3, <3>4
  <2>4. CASE v.disk # {Directory}
    <3> DEFINE x == [v EXCEPT !.unreclaimed = @ \union {Directory}]
    <3>1. q.w = x /\ q.end = "ok"
      BY <1>4, <2>4 DEF Ok
    <3> HIDE DEF x
    <3>2. Shut(x, F) /\ x.disk \subseteq x.unreclaimed /\ x.faults # F
      <4>1. v.closed /\ v.resources = <<>> /\ v.leases = 0 /\ v.faults # F
        BY <1>4, <2>4 DEF Shut
      <4> QED BY <1>4, <2>1, <2>2, <4>1 DEF x
    <3> QED BY <3>1, <3>2
  <2> QED BY <2>3, <2>4
<1> HIDE DEF Emptied
<1>5. /\ gone \in Workspaces /\ gone.closed /\ gone.resources = <<>> /\ gone.leases = 0
      /\ gone.faults = w.faults /\ gone.disk = w.disk \ {Registry} /\ gone.live = w.live
      /\ gone.unreclaimed = w.unreclaimed /\ gone.files = w.files
  BY <1>1 DEF Workspaces
<1> HIDE DEF gone
<1>6. PICK p \in Io(w, gone) :
        o \in IF p.end = "ok"
              THEN Then(AdjustSize(p.w, - SlotBytes * N), Emptied)
              ELSE Emptied([p.w EXCEPT !.unreclaimed = @ \union {Registry}])
  BY DEF RemoveDirectory, Emptied, Then, gone
<1>7. CASE p.end = "ok"
  <2>0. p.w = gone
    BY <1>1, <1>6, <1>7, IoOutcomes
  <2>1. PICK b \in AdjustSize(gone, - SlotBytes * N) :
          o \in IF b.end = "ok" THEN Emptied(b.w) ELSE {b}
    BY <1>6, <1>7, <2>0 DEF Then
  <2> DEFINE v == [gone EXCEPT !.live = @ + (- SlotBytes * N)]
  <2>2. b = [w |-> v, end |-> IF v.live < 0 THEN "broken" ELSE "ok"]
    BY <2>1 DEF AdjustSize
  <2>3. - SlotBytes * N \in Int /\ gone.live + (- SlotBytes * N) \in Int
        /\ SlotBytes * N + (- SlotBytes * N) = 0
    BY <1>1, <1>5
  <2>4. /\ v \in Workspaces /\ v.closed = gone.closed /\ v.resources = gone.resources
        /\ v.leases = gone.leases /\ v.faults = gone.faults /\ v.disk = gone.disk
        /\ v.unreclaimed = gone.unreclaimed /\ v.live = gone.live + (- SlotBytes * N)
    BY <1>5, <2>3 DEF Workspaces
  <2> HIDE DEF v
  <2>5. Shut(v, F)
    BY <1>1, <1>5, <2>4 DEF Shut
  <2>6. v.faults = F => v.disk = {Directory} /\ v.live = 0
    BY <1>1, <1>3, <1>5, <2>3, <2>4 DEF Paths
  <2>7. CASE v.live < 0
    <3>1. o.w = v /\ o.end = "broken" /\ v.faults # F
      BY <2>1, <2>2, <2>6, <2>7
    <3> QED BY <2>5, <3>1
  <2>8. CASE ~ (v.live < 0)
    <3>1. o \in Emptied(v)
      BY <2>1, <2>2, <2>8
    <3>2. v.disk \ Paths \subseteq v.unreclaimed /\ Registry \notin v.disk
      BY <1>2, <1>5, <2>4
    <3> QED BY <1>4, <2>5, <2>6, <3>1, <3>2
  <2> QED BY <2>7, <2>8
<1>8. CASE p.end # "ok"
  <2> DEFINE v == [p.w EXCEPT !.unreclaimed = @ \union {Registry}]
  <2>1. p.w = [w EXCEPT !.faults = @ - 1] /\ p.w \in Workspaces /\ p.w.faults < w.faults
    BY <1>1, <1>6, <1>8, IoOutcomes
  <2>2. /\ p.w.closed = w.closed /\ p.w.resources = w.resources /\ p.w.leases = w.leases
        /\ p.w.disk = w.disk /\ p.w.unreclaimed = w.unreclaimed
    BY <1>1, <2>1 DEF Workspaces
  <2>3. /\ v \in Workspaces /\ v.closed = w.closed /\ v.resources = w.resources
        /\ v.leases = w.leases /\ v.disk = w.disk /\ v.faults = p.w.faults
        /\ v.unreclaimed = w.unreclaimed \union {Registry}
    BY <1>1, <2>1, <2>2 DEF Workspaces
  <2>4. v.faults <= F /\ v.faults # F
    <3>1. p.w.faults \in Nat
      BY <2>1 DEF Workspaces
    <3> QED BY <1>1, <2>1, <2>3, <3>1
  <2>5. o \in Emptied(v)
    BY <1>6, <1>8
  <2> HIDE DEF v
  <2>6. Shut(v, F)
    BY <1>1, <2>3, <2>4 DEF Shut
  <2>7. v.disk \ Paths \subseteq v.unreclaimed /\ Registry \in v.unreclaimed
    BY <1>2, <2>3
  <2>8. /\ Shut(o.w, F) /\ o.end = "ok" /\ o.w.disk \subseteq o.w.unreclaimed
        /\ o.w.faults = F => o.w.disk = {} /\ o.w.live = 0
    BY <1>4, <2>4, <2>5, <2>6, <2>7
  <2> QED BY <2>8
<1> QED BY <1>7, <1>8

\* What a closed workspace has given back, and what it says is left.
Settled(w, F) ==
    /\ Shut(w, F)
    /\ w.faults = F => w.disk = {} /\ w.live = 0
    /\ \/ w.broken
       \/ w.disk \subseteq w.unreclaimed
       \/ {Registry, Directory} \subseteq w.unreclaimed

\* With no resource left the workspace is ready to be emptied.
LEMMA NothingHeld ==
    ASSUME NEW w, NEW F \in Nat, Closable(w, F), Held(w) = {},
           NEW v, v = [w EXCEPT !.closed = TRUE]
    PROVE  Emptying(v, F, 0) /\ v.files = w.files
<1>1. /\ w \in Workspaces /\ w.unreclaimed = {} /\ Paths \subseteq w.disk /\ Listed(w)
      /\ w.leases = Cardinality(Leased(w)) /\ w.faults <= F
      /\ w.resources \in Seq(Claims) /\ DOMAIN w.resources = 1 .. Len(w.resources)
      /\ Len(w.resources) \in Nat /\ DOMAIN w.files \subseteq Nat \ {0}
  BY WorkspaceFacts DEF Closable, Orderly
<1>2. w.resources = <<>>
  <2>1. Len(w.resources) = 0
    <3>1. \A i \in 1 .. Len(w.resources) : w.resources[i] \in Held(w)
      BY <1>1 DEF Held
    <3>2. Len(w.resources) > 0 => 1 \in 1 .. Len(w.resources)
      BY <1>1
    <3> QED BY <1>1, <3>1, <3>2
  <2> QED BY <1>1, <2>1
<1>3. w.leases = 0
  <2>1. Leased(w) = {}
    BY DEF Leased
  <2> QED BY <1>1, <2>1, FS_EmptySet
<1>4. /\ v \in Workspaces /\ v.closed /\ v.resources = w.resources /\ v.leases = w.leases
      /\ v.faults = w.faults /\ v.files = w.files /\ v.disk = w.disk /\ v.live = w.live
      /\ v.unreclaimed = w.unreclaimed
  BY <1>1 DEF Workspaces
<1>5. ASSUME v.faults = F
      PROVE  /\ Balanced(v)
             /\ \A g \in DOMAIN v.files : v.files[g].active => g > 0 /\ v.files[g].readers = 0
  <2>1. Balanced(w) /\ \A g \in DOMAIN w.files : Counted(w, g)
    BY <1>4, <1>5 DEF Closable, Exact
  <2>2. \A g \in DOMAIN w.files : ~ Reading(w, g)
    BY DEF Reading, Leased
  <2>3. Balanced(v)
    BY <1>4, <2>1 DEF Balanced
  <2> QED BY <1>1, <1>4, <2>1, <2>2, <2>3 DEF Counted
<1>6. Shut(v, F) /\ Listed(v)
  BY <1>1, <1>2, <1>3, <1>4 DEF Shut, Listed
<1> QED BY <1>1, <1>4, <1>5, <1>6 DEF Emptying

\* TemporaryFileManager.close: what was open is settled, whatever fails meanwhile.
LEMMA WorkspaceClosed ==
    ASSUME NEW w, NEW F \in Nat, Closable(w, F), NEW o \in CloseWorkspace(w)
    PROVE  Settled(o.w, F)
<1> DEFINE Recorded(q) ==
             IF q.end = "broken"
             THEN [w |-> [q.w EXCEPT !.broken = TRUE, !.unreclaimed = {}], end |-> "broken"]
             ELSE [w |-> q.w, end |-> IF q.w.unreclaimed = {} THEN "ok" ELSE "error"]
           Removed(q) ==
             CASE q.end = "ok" -> RemoveDirectory(q.w)
               [] q.end = "error" ->
                    {[q EXCEPT !.w.unreclaimed = @ \union {Registry, Directory}]}
               [] q.end = "broken" -> {q}
           Rest(v) == {Recorded(q) : q \in
                         UNION {Removed(p) : p \in ReclaimAll([v EXCEPT !.closed = TRUE])}}
<1>1. CloseWorkspace(w) = Finally(CloseAll(w), Rest)
  BY DEF CloseWorkspace, Closable, Orderly, Finally
<1>2. PICK c \in CloseAll(w) : \E m \in Rest(c.w) : o.w = m.w
  <2> HIDE DEF Rest
  <2>1. PICK c \in CloseAll(w) : \E m \in Rest(c.w) :
          o = [w |-> m.w, end |-> IF m.end = "ok" THEN c.end ELSE m.end]
    BY <1>1 DEF Finally
  <2> QED BY <2>1
<1>3. PICK m \in Rest(c.w) : o.w = m.w
  BY <1>2
<1> DEFINE v == [c.w EXCEPT !.closed = TRUE]
<1>4. PICK p \in ReclaimAll(v) : \E q \in Removed(p) : m = Recorded(q)
  <2> HIDE DEF Removed, Recorded
  <2> QED BY <1>3
<1>5. PICK q \in Removed(p) : m = Recorded(q)
  BY <1>4
<1>6. Emptying(v, F, 0)
  <2>1. Closable(c.w, F) /\ Held(c.w) = {}
    BY <1>2, AllClosed
  <2> QED BY <2>1, NothingHeld
<1> HIDE DEF v
<1>7. /\ Shut(p.w, F) /\ DOMAIN p.w.files = DOMAIN v.files
      /\ p.end \in {"ok", "error", "broken"}
      /\ p.end = "ok" => Emptying(p.w, F, Len(v.files))
      /\ p.end # "ok" => p.w.faults < F
  BY <1>4, <1>6, AllReclaimed
<1>8. ASSUME NEW x, Shut(x, F), NEW y, y = [x EXCEPT !.broken = TRUE, !.unreclaimed = {}]
      PROVE  Shut(y, F) /\ y.broken /\ y.faults = x.faults
  BY <1>8 DEF Shut, Workspaces
<1>9. CASE p.end = "ok"
  <2>1. Len(p.w.files) = Len(v.files)
    <3>1. p.w \in Workspaces /\ v \in Workspaces
      BY <1>6, <1>7 DEF Emptying, Shut
    <3>2. /\ DOMAIN p.w.files = 1 .. Len(p.w.files) /\ DOMAIN v.files = 1 .. Len(v.files)
          /\ Len(p.w.files) \in Nat /\ Len(v.files) \in Nat
      BY <3>1, WorkspaceFacts
    <3> HIDE DEF Recorded, Removed, Rest
    <3>3. ASSUME NEW i \in Nat, NEW j \in Nat, 1 .. i = 1 .. j PROVE i = j
      <4>1. i = 0 \/ i \in 1 .. i
        BY ONLY <3>3
      <4>2. j = 0 \/ j \in 1 .. j
        BY ONLY <3>3
      <4>3. (i = 0 \/ i \in 1 .. j) /\ (j = 0 \/ j \in 1 .. i)
        BY <3>3, <4>1, <4>2
      <4> QED BY ONLY <3>3, <4>3
    <3>4. 1 .. Len(p.w.files) = 1 .. Len(v.files)
      BY <1>7, <3>2
    <3> QED BY <3>2, <3>3, <3>4
  <2>2. Emptying(p.w, F, Len(p.w.files)) /\ q \in RemoveDirectory(p.w)
    BY <1>5, <1>7, <1>9, <2>1
  <2>3. /\ Shut(q.w, F) /\ q.end \in {"ok", "broken"}
        /\ q.end = "ok" => q.w.disk \subseteq q.w.unreclaimed
        /\ q.w.faults = F => q.end = "ok" /\ q.w.disk = {} /\ q.w.live = 0
    BY <2>2, DirectoryRemoved
  <2>4. CASE q.end = "ok"
    <3>1. m.w = q.w
      BY <1>5, <2>4
    <3> QED BY <1>3, <2>3, <2>4, <3>1 DEF Settled
  <2>5. CASE q.end = "broken"
    <3>1. m.w = [q.w EXCEPT !.broken = TRUE, !.unreclaimed = {}]
      BY <1>5, <2>5
    <3>2. Shut(m.w, F) /\ m.w.broken /\ m.w.faults # F
      <4> HIDE DEF Recorded, Removed, Rest
      <4>1. Shut(m.w, F) /\ m.w.broken /\ m.w.faults = q.w.faults
        BY <1>8, <2>3, <3>1
      <4>2. q.w.faults # F
        BY <2>3, <2>5
      <4> QED BY <4>1, <4>2
    <3> HIDE DEF Recorded, Removed, Rest
    <3> QED BY <1>3, <3>2 DEF Settled
  <2> QED BY <2>3, <2>4, <2>5
<1>10. CASE p.end = "error"
  <2> DEFINE x == [p.w EXCEPT !.unreclaimed = @ \union {Registry, Directory}]
  <2>1. q = [p EXCEPT !.w.unreclaimed = @ \union {Registry, Directory}]
    BY <1>5, <1>10
  <2>2. Outcome(p)
    BY <1>4, <1>6, AllReclaimed
  <2>3. q.w = x /\ q.end = "error"
    BY <1>10, <2>1, <2>2 DEF Outcome
  <2>4. m.w = x
    BY <1>5, <2>3
  <2>5. /\ x \in Workspaces /\ x.closed = p.w.closed /\ x.resources = p.w.resources
        /\ x.leases = p.w.leases /\ x.faults = p.w.faults
        /\ x.unreclaimed = p.w.unreclaimed \union {Registry, Directory}
    <3> HIDE DEF Recorded, Removed, Rest
    <3>1. p.w \in Workspaces /\ {Registry, Directory} \subseteq Int
      BY <1>7 DEF Shut, Registry, Directory
    <3> QED BY <3>1 DEF Workspaces
  <2>6. p.w.faults \in Nat /\ p.w.faults < F
    BY <1>7, <1>10 DEF Shut, Workspaces
  <2> HIDE DEF x, Recorded, Removed, Rest
  <2>8. p.w.faults # F
    BY <2>6
  <2>7. Shut(x, F) /\ x.faults # F
    BY <1>7, <2>5, <2>8 DEF Shut
  <2> QED BY <1>3, <2>4, <2>5, <2>7 DEF Settled
<1>11. CASE p.end = "broken"
  <2>1. q = p
    BY <1>5, <1>11
  <2>2. m.w = [p.w EXCEPT !.broken = TRUE, !.unreclaimed = {}]
    BY <1>5, <1>11, <2>1
  <2> HIDE DEF Recorded, Removed, Rest
  <2>6. Shut(m.w, F) /\ m.w.broken /\ m.w.faults = p.w.faults
    BY <1>7, <1>8, <2>2
  <2>7. p.w.faults \in Nat /\ p.w.faults < F
    BY <1>7, <1>11 DEF Shut, Workspaces
  <2>8. p.w.faults # F
    BY <2>7
  <2> QED BY <1>3, <2>6, <2>8 DEF Settled
<1> QED BY <1>7, <1>9, <1>10, <1>11

-----------------------------------------------------------------------------
(***************************************************************************)
(* What the operators do with an open workspace.  An operation of several  *)
(* steps that fails in the middle leaves a Closable workspace; one that    *)
(* succeeds leaves every file in use, and kept.                            *)
(***************************************************************************)

\* After a fault only the order counts.
LEMMA Undone ==
    ASSUME NEW w, NEW v, NEW f \in Nat \ {0}, NEW F \in Nat, Closable(w, F), Beside(w, v, f),
           Listed(v), v.resources = w.resources, v.leases = w.leases, v.faults # F
    PROVE  Closable(v, F)
<1>1. /\ OneEach(w) /\ w.leases = Cardinality(Leased(w)) /\ w.leases <= MaxHandles
  BY DEF Closable, Orderly
<1>2. Held(v) = Held(w) /\ OneEach(v) /\ Leased(v) = Leased(w)
  BY <1>1 DEF Held, OneEach, Leased
<1> QED BY <1>1, <1>2, Transfer

\* allocate: the entry is written, and nobody has the new file yet.
LEMMA Allocated ==
    ASSUME NEW w, NEW F \in Nat, Closable(w, F), NEW f, f = Len(w.files) + 1,
           NEW o \in Allocate(w)
    PROVE  /\ Closable(o.w, F) /\ (InUse(w) => InUse(o.w)) /\ o.end \in {"ok", "error", "broken"}
           /\ o.w.resources = w.resources
           /\ o.end = "ok" =>
                /\ f \in DOMAIN o.w.files /\ o.w.files[f].active /\ ~ o.w.files[f].discard
                /\ \A r \in Held(o.w) : r.file # f
                /\ Beside(w, o.w, f)
<1> DEFINE e == [readers |-> 0, discard |-> FALSE, active |-> TRUE, size |-> 0]
           v == [w EXCEPT !.files = Append(@, e)]
<1>1. /\ w \in Workspaces /\ w.files \in Seq(Entries) /\ DOMAIN w.files = 1 .. Len(w.files)
      /\ Len(w.files) \in Nat /\ OneEach(w) /\ Listed(w) /\ f \in Nat \ {0}
      /\ w.live \in Int /\ w.leases = Cardinality(Leased(w)) /\ w.leases <= MaxHandles
      /\ w.faults \in Nat /\ w.faults <= F /\ SlotBytes \in Nat
      /\ \A r \in Held(w) : r.file \in DOMAIN w.files
  BY WorkspaceFacts, SizesAssumption DEF Closable, Orderly, Workspaces
<1>2. e \in Entries /\ e.size = 0 /\ e.readers = 0 /\ e.active /\ ~ e.discard
  BY DEF Entries
<1> HIDE DEF e
<1>3. /\ Append(w.files, e) \in Seq(Entries) /\ Len(Append(w.files, e)) = f
      /\ DOMAIN Append(w.files, e) = DOMAIN w.files \union {f}
      /\ \A g \in DOMAIN w.files \ {f} : Append(w.files, e)[g] = w.files[g]
      /\ Append(w.files, e)[f] = e /\ f \notin DOMAIN w.files
  BY <1>1, <1>2
<1>4. /\ v \in Workspaces /\ v.files = Append(w.files, e) /\ v.disk = w.disk /\ v.live = w.live
      /\ v.resources = w.resources /\ v.leases = w.leases /\ v.faults = w.faults
      /\ v.closed = w.closed /\ v.unreclaimed = w.unreclaimed
  BY <1>1, <1>3 DEF Workspaces
<1> HIDE DEF v
<1>5. PICK p \in RegistryFile(w, v) :
        o \in IF p.end = "ok" THEN AdjustSize(p.w, SlotBytes) ELSE {p}
  BY DEF Allocate, Then, v, e
<1>6. CASE p.end # "ok"
  <2>1. /\ o = p /\ p.end = "error"
        /\ p.w = w \/ (p.w = [w EXCEPT !.faults = @ - 1] /\ p.w \in Workspaces
                        /\ p.w.faults < w.faults)
    BY <1>1, <1>5, <1>6, RegistryOutcomes
  <2>2. CASE p.w = w
    BY <2>1, <2>2
  <2>3. CASE p.w = [w EXCEPT !.faults = @ - 1] /\ p.w \in Workspaces /\ p.w.faults < w.faults
    <3> DEFINE u == p.w
    <3>1. /\ u \in Workspaces /\ u.files = w.files /\ u.disk = w.disk
          /\ u.resources = w.resources /\ u.leases = w.leases
          /\ u.closed = w.closed /\ u.unreclaimed = w.unreclaimed /\ u.live = w.live
          /\ u.faults \in Nat /\ u.faults < w.faults /\ u.faults # F
      <4>1. u = [w EXCEPT !.faults = @ - 1] /\ u \in Workspaces /\ u.faults < w.faults
        BY <2>3
      <4> HIDE DEF u
      <4>2. u.faults \in Nat /\ w.faults \in Nat /\ w.faults <= F
        BY <1>1, <4>1 DEF Workspaces
      <4>3. u.faults # F
        BY <4>1, <4>2
      <4> QED BY <1>1, <4>1, <4>2, <4>3 DEF Workspaces
    <3> HIDE DEF u
    <3>2. Orderly(u) /\ (InUse(w) => InUse(u))
      <4>1. Held(u) = Held(w) /\ OneEach(u) /\ Leased(u) = Leased(w)
        BY <1>1, <3>1 DEF Held, OneEach, Leased
      <4> QED BY <3>1, <4>1 DEF Closable, Orderly, Listed, InUse, Used
    <3>3. u.faults <= F
      BY <1>1, <3>1
    <3> QED BY <2>1, <3>1, <3>2, <3>3 DEF Closable, u
  <2> QED BY <2>1, <2>2, <2>3
<1>7. CASE p.end = "ok"
  <2>1. p.w = v /\ o \in AdjustSize(v, SlotBytes)
    BY <1>1, <1>5, <1>7, RegistryOutcomes
  <2>2. f \in DOMAIN v.files
    BY <1>3, <1>4
  <2>3. /\ Local(v, o.w, f) /\ o.w.files = v.files /\ o.w.disk = v.disk
        /\ o.w.faults = v.faults /\ o.w.live = v.live + SlotBytes
        /\ o.end \in {"ok", "broken"}
    BY <1>1, <1>4, <2>1, <2>2, Adjusted
  <2>4. /\ o.w \in Workspaces /\ o.w.resources = w.resources /\ o.w.leases = w.leases
        /\ o.w.closed = w.closed /\ o.w.unreclaimed = w.unreclaimed
    BY <1>4, <2>3 DEF Local, Beside
  <2>5. Beside(w, o.w, f)
    BY <1>1, <1>3, <1>4, <2>3, <2>4 DEF Beside
  <2>6. Held(o.w) = Held(w) /\ OneEach(o.w) /\ Leased(o.w) = Leased(w)
    BY <1>1, <2>4 DEF Held, OneEach, Leased
  <2>7. \A r \in Held(w) : r.file # f
    BY <1>1, <1>3
  <2>8. Listed(o.w)
    BY <1>1, <1>2, <1>3, <1>4, <2>3 DEF Listed
  <2>9. ASSUME o.w.faults = F PROVE Balanced(o.w) /\ Counted(o.w, f)
    <3>1. Balanced(w)
      BY <1>4, <2>3, <2>9 DEF Closable, Exact
    <3>2. Bytes(o.w.files) = Bytes(w.files)
      BY <1>1, <1>2, <1>4, <2>3, BytesAppend
    <3>3. Len(o.w.files) = Len(w.files) + 1
      BY <1>3, <1>4, <2>3
    <3>4. o.w.live = w.live + SlotBytes
      BY <1>4, <2>3
    <3>5. Bytes(w.files) \in Int
      <4>1. Append(w.files, e) \in Seq(Entries) /\ f \in DOMAIN Append(w.files, e)
        BY <1>3
      <4>2. Bytes(Append(w.files, e)) \in Nat
        BY <4>1, BytesChange
      <4> QED BY <1>4, <2>3, <3>2, <4>2
    <3>6. o.w.live = SlotBytes * Len(o.w.files) + Bytes(o.w.files)
      <4>1. SlotBytes * (Len(w.files) + 1) = SlotBytes * Len(w.files) + SlotBytes
        BY <1>1
      <4>2. SlotBytes * Len(w.files) \in Int
        BY <1>1
      <4> QED BY <1>1, <3>1, <3>2, <3>3, <3>4, <3>5, <4>1, <4>2 DEF Balanced
    <3>7. \A g \in DOMAIN o.w.files : ~ o.w.files[g].active => o.w.files[g].size = 0
      BY <1>2, <1>3, <1>4, <2>3, <3>1 DEF Balanced
    <3>8. ~ Reading(o.w, f)
      BY <2>6, <2>7 DEF Reading, Leased
    <3>9. o.w.files[f].readers = 0
      BY <1>2, <1>3, <1>4, <2>3
    <3> QED BY <3>6, <3>7, <3>8, <3>9 DEF Balanced, Counted
  <2>10. Closable(o.w, F) /\ (InUse(w) => InUse(o.w))
    BY <1>1, <2>4, <2>5, <2>6, <2>7, <2>8, <2>9, Transfer
  <2> QED BY <1>2, <1>3, <1>4, <2>2, <2>3, <2>4, <2>5, <2>6, <2>7, <2>10
<1> QED BY <1>6, <1>7

\* A file that nobody reads or writes is acquired, by a new reader or writer or by
\* its catalogue, or everything stays as it was.
LEMMA AcquiredFree ==
    ASSUME NEW w, NEW F \in Nat, Closable(w, F), NEW f \in DOMAIN w.files, ~ Reading(w, f),
           NEW o \in Acquire(w, f)
    PROVE  /\ Local(w, o.w, f) /\ o.w.disk = w.disk /\ Listed(o.w)
           /\ o.w.files[f].discard = w.files[f].discard
           /\ o.w.files[f].active = w.files[f].active
           /\ \/ o.end = "error" /\ Closable(o.w, F) /\ (InUse(w) => InUse(o.w))
              \/ /\ o.end = "ok" /\ w.leases < MaxHandles
                 /\ w.files[f].active /\ ~ w.files[f].discard /\ o.w.files[f].readers > 0
                 /\ o.w.faults = F => Balanced(o.w) /\ o.w.files[f].readers = 1
<1>1. /\ w \in Workspaces /\ OneEach(w) /\ Listed(w) /\ w.leases = Cardinality(Leased(w))
      /\ w.leases <= MaxHandles /\ f \in Nat \ {0} /\ w.faults \in Nat /\ w.faults <= F
      /\ w.files[f].readers \in Nat
  BY WorkspaceFacts, EntryTypes DEF Closable, Orderly, Workspaces
<1>2. /\ Local(w, o.w, f) /\ o.w.disk = w.disk
      /\ o.w.files[f].active = w.files[f].active
      /\ o.w.files[f].discard = w.files[f].discard
      /\ Balanced(w) => Balanced(o.w)
      /\ \/ /\ o.end = "ok" /\ o.w.files[f].readers = w.files[f].readers + 1
            /\ ~ w.files[f].discard /\ w.files[f].active /\ w.leases < MaxHandles
         \/ o.end = "error" /\ o.w.files = w.files
  BY <1>1, Acquired
<1>3. /\ Beside(w, o.w, f) /\ o.w.resources = w.resources /\ o.w.leases = w.leases
      /\ o.w.faults <= w.faults /\ o.w.faults \in Nat
      /\ DOMAIN o.w.files = DOMAIN w.files
      /\ \A g \in DOMAIN w.files \ {f} : o.w.files[g] = w.files[g]
  BY <1>2 DEF Local, Beside, Workspaces
<1>4. Listed(o.w)
  BY <1>1, <1>2, <1>3 DEF Listed
<1>5. o.w.faults = F => w.faults = F /\ Exact(w)
  <2>1. o.w.faults = F => w.faults = F
    BY <1>1, <1>3
  <2> QED BY <2>1 DEF Closable
<1>6. CASE o.end = "ok"
  <2>1. o.w.faults = F => Balanced(o.w) /\ w.files[f].readers = 0
    BY <1>2, <1>5, <1>6 DEF Exact, Counted
  <2> QED BY <1>1, <1>2, <1>4, <1>6, <2>1
<1>7. CASE o.end = "error"
  <2>1. Held(o.w) = Held(w) /\ OneEach(o.w) /\ Leased(o.w) = Leased(w)
    BY <1>1, <1>3 DEF Held, OneEach, Leased
  <2>2. o.w.files = w.files
    BY <1>2, <1>7
  <2>3. \A r \in Held(w) : Used(w, r) => Used(o.w, r)
    BY <1>2, <2>2 DEF Used
  <2>4. o.w.faults = F => /\ Balanced(o.w) /\ Counted(o.w, f)
                          /\ \A r \in Held(o.w) : r.file = f => Used(o.w, r)
    BY <1>2, <1>5, <2>1, <2>2, <2>3 DEF Exact, Counted, Reading, InUse
  <2>5. Closable(o.w, F)
    BY <1>1, <1>3, <1>4, <2>1, <2>4, Transfer
  <2>6. InUse(w) => InUse(o.w)
    BY <2>1, <2>3 DEF InUse
  <2> QED BY <1>2, <1>4, <1>7, <2>5, <2>6
<1> QED BY <1>2, <1>6, <1>7

\* A writer or a reader that was opened is managed.
LEMMA Opening ==
    ASSUME NEW w, NEW F \in Nat, Closable(w, F), NEW f \in DOMAIN w.files,
           \A r \in Held(w) : r.file # f, w.leases < MaxHandles,
           NEW kind \in {"writer", "reader"}, NEW u, Beside(w, u, f), Listed(u),
           u.resources = w.resources, u.leases = w.leases + 1, f \in u.disk,
           u.files[f].readers > 0,
           u.faults = F => Balanced(u) /\ u.files[f].readers = 1
    PROVE  LET v == Managed(u, kind, f)
           IN  /\ Closable(v, F) /\ (InUse(w) => InUse(v))
               /\ Beside(w, v, f) /\ f \in v.disk
<1> DEFINE x == Resource(kind, f)
           v == Managed(u, kind, f)
<1>1. /\ w \in Workspaces /\ u \in Workspaces /\ OneEach(w)
      /\ w.leases = Cardinality(Leased(w)) /\ f \in Nat \ {0} /\ w.leases \in Int
      /\ DOMAIN u.files = DOMAIN w.files \union {f}
      /\ \A g \in DOMAIN w.files \ {f} : u.files[g] = w.files[g]
      /\ u.disk \ {f} = w.disk \ {f} /\ u.faults <= w.faults
      /\ u.closed = w.closed /\ u.unreclaimed = w.unreclaimed
  BY WorkspaceFacts DEF Closable, Orderly, Beside, Workspaces
<1>2. Held(u) = Held(w) /\ OneEach(u)
  BY <1>1 DEF Held, OneEach
<1>3. x.kind = kind /\ x.file = f /\ x \in Claims
  BY <1>1 DEF Resource, Claims
<1>4. /\ v = [u EXCEPT !.resources = v.resources] /\ v \in Workspaces
      /\ Held(v) = Held(u) \union {x} /\ OneEach(v)
  BY <1>1, <1>2, <1>3, ClaimManaged
<1> HIDE DEF v
<1>5. /\ v.files = u.files /\ v.disk = u.disk /\ v.live = u.live /\ v.faults = u.faults
      /\ v.leases = u.leases /\ v.closed = u.closed /\ v.unreclaimed = u.unreclaimed
  BY <1>1, <1>4 DEF Workspaces
<1> HIDE DEF x
<1>6. Beside(w, v, f)
  BY <1>1, <1>4, <1>5 DEF Beside
<1>7. Listed(v)
  BY <1>5 DEF Listed
<1>8. v.leases = Cardinality(Leased(v)) /\ v.leases <= MaxHandles
  <2>1. x \notin Held(w)
    BY <1>3
  <2>2. Cardinality(Leased(v)) = Cardinality(Leased(w)) + 1
    BY <1>1, <1>2, <1>3, <1>4, <2>1, LeasedWith
  <2>3. MaxHandles \in Int
    BY SizesAssumption
  <2> QED BY <1>1, <1>5, <2>2, <2>3
<1>9. {r \in Held(v) : r.file # f} = {r \in Held(w) : r.file # f}
  BY <1>2, <1>3, <1>4
<1>10. \A r \in Held(v) : r.file = f => Used(v, r)
  <2>1. \A r \in Held(v) : r.file = f => r = x
    BY <1>2, <1>4
  <2>2. Used(v, x)
    BY <1>3, <1>5 DEF Used
  <2> QED BY <2>1, <2>2
<1>11. v.faults = F => Balanced(v) /\ Counted(v, f)
  <2>1. Reading(v, f)
    <3>1. x \in Leased(v)
      BY <1>3, <1>4 DEF Leased
    <3> QED BY <1>3, <3>1 DEF Reading
  <2> QED BY <1>5, <2>1 DEF Balanced, Counted
<1>12. Closable(v, F) /\ (InUse(w) => InUse(v))
  BY <1>1, <1>4, <1>6, <1>7, <1>8, <1>9, <1>10, <1>11, Transfer
<1> QED BY <1>5, <1>6, <1>12 DEF v

\* A handle is leased while there is one.
LEMMA HandleLeased ==
    ASSUME NEW w \in Workspaces, w.leases < MaxHandles, NEW o \in Lease(w)
    PROVE  /\ o.end = "ok" /\ o.w \in Workspaces /\ o.w.leases = w.leases + 1
           /\ o.w.files = w.files /\ o.w.disk = w.disk /\ o.w.live = w.live
           /\ o.w.faults = w.faults /\ o.w.closed = w.closed
           /\ o.w.unreclaimed = w.unreclaimed /\ o.w.resources = w.resources
<1>1. w.leases \in Int /\ MaxHandles \in Int
  BY SizesAssumption DEF Workspaces
<1>2. o.end = "ok" /\ o.w = [w EXCEPT !.leases = @ + 1]
  BY <1>1 DEF Lease, Ok
<1> QED BY <1>1, <1>2 DEF Workspaces

\* A step on the file f does not touch what is beside it.
LEMMA BesideTransitive ==
    ASSUME NEW w, NEW v, NEW u, NEW f, Beside(w, v, f), Beside(v, u, f)
    PROVE  Beside(w, u, f)
<1>1. w.faults \in Nat /\ v.faults \in Nat /\ u.faults \in Nat
  BY DEF Beside, Workspaces
<1>2. u.faults <= v.faults /\ v.faults <= w.faults
  BY DEF Beside
<1>3. u.faults <= w.faults
  BY <1>1, <1>2
<1> QED BY <1>3 DEF Beside

\* A writer or a reader that could not be opened lets the file go.
LEMMA NotOpened ==
    ASSUME NEW w, NEW F \in Nat, Closable(w, F), NEW f \in DOMAIN w.files,
           \A r \in Held(w) : r.file # f, NEW u, Beside(w, u, f), Listed(u),
           u.resources = w.resources, u.leases = w.leases + 1, u.faults # F,
           NEW o, o \in CloseWriter(Returned(u), f, FALSE, FALSE)
                    \/ o \in CloseReader(Returned(u), f)
    PROVE  Closable(o.w, F)
<1>1. /\ w \in Workspaces /\ OneEach(w) /\ w.leases \in Int /\ w.faults \in Nat
      /\ f \in Nat \ {0} /\ u \in Workspaces /\ f \in DOMAIN u.files
      /\ w.faults <= F /\ u.faults <= w.faults /\ u.faults \in Nat
  BY WorkspaceFacts DEF Closable, Orderly, Beside, Workspaces
<1> DEFINE v == Returned(u)
<1>2. /\ v \in Workspaces /\ v.files = u.files /\ v.disk = u.disk /\ v.live = u.live
      /\ v.faults = u.faults /\ v.leases = u.leases - 1 /\ v.closed = u.closed
      /\ v.unreclaimed = u.unreclaimed /\ v.resources = u.resources
      /\ Held(v) = Held(u) /\ (OneEach(v) <=> OneEach(u)) /\ Listed(v)
  BY <1>1, ReturnedFacts
<1> HIDE DEF v
<1>3. v.resources = w.resources /\ v.leases = w.leases /\ OneEach(v)
  BY <1>1, <1>2 DEF OneEach
<1>4. \A i \in DOMAIN v.resources : v.resources[i].file # f
  BY <1>3 DEF Held
<1>5. ASSUME NEW kind PROVE Forgotten(v, kind, f) = v
  <2>1. \A i \in DOMAIN v.resources : v.resources[i] # Resource(kind, f)
    BY <1>4 DEF Resource
  <2>2. v.resources \in Seq(Claims)
    BY <1>2 DEF Workspaces
  <2>3. RemoveFirst(v.resources, Resource(kind, f)) = v.resources
    BY <2>1, <2>2, RemoveFirstFrom DEF Once, Without
  <2>4. Forgotten(v, kind, f) = [v EXCEPT !.resources = v.resources]
    BY <2>3 DEF Forgotten
  <2> QED BY <1>2, <2>4 DEF Workspaces
<1>6. Local(v, o.w, f) /\ Listed(o.w)
  <2>1. CASE o \in CloseWriter(Returned(u), f, FALSE, FALSE)
    <3>1. PICK finished \in BOOLEAN : finished = FALSE
      OBVIOUS
    <3>2. o \in CloseWriter(v, f, finished, finished)
      BY <2>1, <3>1 DEF v
    <3>3. Local(Forgotten(v, "writer", f), o.w, f) /\ (Listed(v) => Listed(o.w))
      BY <1>1, <1>2, <1>3, <3>2, WriterClosed
    <3> QED BY <1>2, <1>5, <3>3
  <2>2. CASE o \in CloseReader(Returned(u), f)
    <3>1. o \in Release(v, f)
      BY <1>5, <2>2 DEF CloseReader, v
    <3> QED BY <1>1, <1>2, <3>1, Released
  <2> QED BY <2>1, <2>2
<1>7. o.w.resources = w.resources /\ o.w.leases = w.leases /\ Beside(v, o.w, f)
  BY <1>3, <1>6 DEF Local
<1>8. Beside(w, o.w, f) /\ o.w.faults # F
  <2>1. o.w \in Workspaces /\ o.w.faults <= v.faults
    BY <1>7 DEF Beside
  <2>2. o.w.faults \in Nat
    BY <2>1 DEF Workspaces
  <2>3. Beside(w, v, f)
    BY <1>1, <1>2 DEF Beside
  <2> QED BY <1>1, <1>2, <1>7, <2>1, <2>2, <2>3, BesideTransitive
<1> QED BY <1>1, <1>6, <1>7, <1>8, Undone

\* TemporaryRowReader: a reader of a file that nobody reads or writes.
LEMMA ReaderOpened ==
    ASSUME NEW w, NEW F \in Nat, Closable(w, F), NEW f \in DOMAIN w.files,
           \A r \in Held(w) : r.file # f, f \in w.disk, NEW o \in OpenReader(w, f)
    PROVE  /\ Closable(o.w, F) /\ (o.end = "ok" /\ InUse(w) => InUse(o.w))
           /\ o.end = "ok" /\ Kept(w) => Kept(o.w)
<1> DEFINE Gone(u) == CloseReader(Returned(u), f)
           Tried(v) ==
             UNION {IF q.end = "ok" THEN Failing(Io(q.w, q.w), Gone)
                    ELSE Failing({q}, LAMBDA u : CloseReader(u, f)) : q \in Lease(v)}
<1>1. /\ w \in Workspaces /\ w.faults \in Nat /\ w.faults <= F /\ ~ Reading(w, f)
  BY DEF Closable, Orderly, Workspaces, Reading, Leased
<1>2. PICK q \in Then(Acquire(w, f), Tried) :
        o \in IF q.end = "ok" THEN Ok(Managed(q.w, "reader", f)) ELSE {q}
  BY DEF OpenReader, Then
<1>3. PICK p \in Acquire(w, f) : q \in IF p.end = "ok" THEN Tried(p.w) ELSE {p}
  <2> HIDE DEF Tried
  <2> QED BY <1>2 DEF Then
<1>4. /\ Local(w, p.w, f) /\ p.w.disk = w.disk /\ Listed(p.w)
      /\ \/ p.end = "error" /\ Closable(p.w, F)
         \/ /\ p.end = "ok" /\ w.leases < MaxHandles /\ p.w.files[f].readers > 0
            /\ p.w.faults = F => Balanced(p.w) /\ p.w.files[f].readers = 1
  <2> HIDE DEF Tried, Gone
  <2> QED BY <1>1, <1>3, AcquiredFree
<1>5. CASE p.end # "ok"
  <2>1. q = p
    BY <1>3, <1>5
  <2>2. o = p
    BY <1>2, <1>5, <2>1
  <2> HIDE DEF Tried
  <2> QED BY <1>4, <1>5, <2>2
<1>6. CASE p.end = "ok"
  <2>1. q \in Tried(p.w)
    BY <1>3, <1>6
  <2>2. PICK l \in Lease(p.w) :
          q \in IF l.end = "ok" THEN Failing(Io(l.w, l.w), Gone)
                ELSE Failing({l}, LAMBDA u : CloseReader(u, f))
    BY <2>1
  <2> HIDE DEF Tried
  <2>3. /\ Beside(w, p.w, f) /\ p.w \in Workspaces /\ p.w.leases = w.leases
        /\ p.w.resources = w.resources /\ p.w.leases < MaxHandles
    BY <1>4, <1>6 DEF Local, Beside
  <2>4. /\ l.end = "ok" /\ l.w \in Workspaces /\ l.w.leases = p.w.leases + 1
        /\ l.w.files = p.w.files /\ l.w.disk = p.w.disk /\ l.w.live = p.w.live
        /\ l.w.faults = p.w.faults /\ l.w.closed = p.w.closed
        /\ l.w.unreclaimed = p.w.unreclaimed /\ l.w.resources = p.w.resources
    BY <2>2, <2>3, HandleLeased
  <2>5. /\ Beside(w, l.w, f) /\ Listed(l.w) /\ (Balanced(p.w) => Balanced(l.w))
    BY <1>4, <2>3, <2>4 DEF Beside, Listed, Balanced
  <2>6. PICK i \in Io(l.w, l.w) :
          q \in IF i.end = "ok" THEN {i} ELSE {[w |-> n.w, end |-> i.end] : n \in Gone(i.w)}
    <3> HIDE DEF Gone
    <3> QED BY <2>2, <2>4 DEF Failing
  <2>7. CASE i.end = "ok"
    <3>1. i.w = l.w /\ q = i
      BY <2>4, <2>6, <2>7, IoOutcomes
    <3>2. o.w = Managed(l.w, "reader", f)
      BY <1>2, <2>7, <3>1 DEF Ok
    <3>3. /\ Closable(o.w, F) /\ (InUse(w) => InUse(o.w))
          /\ Beside(w, o.w, f) /\ f \in o.w.disk
      BY <1>4, <1>6, <2>3, <2>4, <2>5, <3>2, Opening
    <3>4. Kept(w) => Kept(o.w)
      BY <3>3, KeptBeside
    <3> QED BY <3>3, <3>4
  <2>8. CASE i.end # "ok"
    <3>1. PICK n \in Gone(i.w) : q = [w |-> n.w, end |-> i.end]
      BY <2>6, <2>8
    <3>2. o.w = n.w /\ o.end # "ok"
      BY <1>2, <2>8, <3>1
    <3>3. i.w = [l.w EXCEPT !.faults = @ - 1] /\ i.w \in Workspaces
          /\ i.w.faults < l.w.faults
      BY <2>4, <2>6, <2>8, IoOutcomes
    <3>4. f \in DOMAIN l.w.files
      BY <2>5 DEF Beside
    <3>5. Local(l.w, i.w, f) /\ i.w.files = l.w.files /\ i.w.disk = l.w.disk
      BY <2>4, <3>3, <3>4, LocalFault
    <3>6. /\ Beside(w, i.w, f) /\ Listed(i.w) /\ i.w.resources = w.resources
          /\ i.w.leases = w.leases + 1
      BY <2>3, <2>4, <2>5, <3>5, BesideTransitive DEF Local, Listed
    <3>7. i.w.faults # F
      <4>1. i.w.faults \in Nat /\ l.w.faults \in Nat /\ l.w.faults <= w.faults
        BY <2>4, <2>5, <3>3 DEF Workspaces, Beside
      <4> QED BY <1>1, <3>3, <4>1
    <3>8. Closable(n.w, F)
      BY <3>1, <3>6, <3>7, NotOpened
    <3> QED BY <3>2, <3>8
  <2> QED BY <2>7, <2>8
<1> QED BY <1>5, <1>6

\* Making the file: it is there, or it may be there although a fault came.
LEMMA FileCreated ==
    ASSUME NEW w \in Workspaces, NEW f \in DOMAIN w.files, w.files[f].active, Listed(w),
           NEW o \in CreateFile(w, f)
    PROVE  /\ Beside(w, o.w, f) /\ Listed(o.w) /\ o.w.files = w.files
           /\ o.w.resources = w.resources /\ o.w.leases = w.leases
           /\ (Balanced(w) => Balanced(o.w))
           /\ \/ o.end = "ok" /\ f \in o.w.disk
              \/ o.end = "error" /\ o.w.faults < w.faults
<1> DEFINE made == [w EXCEPT !.disk = @ \union {f}]
           lost == [w EXCEPT !.disk = @ \union {f}, !.faults = @ - 1]
<1>1. f \in Int /\ w.faults \in Nat /\ w.disk \union {f} \in SUBSET Int
  BY WorkspaceFacts DEF Workspaces
<1>2. ASSUME NEW v \in Workspaces, v.files = w.files, v.resources = w.resources,
             v.leases = w.leases, v.live = w.live, v.closed = w.closed,
             v.unreclaimed = w.unreclaimed, v.faults <= w.faults,
             v.disk = w.disk \/ v.disk = w.disk \union {f}
      PROVE  Beside(w, v, f) /\ Listed(v) /\ (Balanced(w) => Balanced(v))
  BY <1>2 DEF Beside, Listed, Balanced
<1>3. CASE o \in Io(w, made)
  <2>1. /\ made \in Workspaces /\ made.files = w.files /\ made.resources = w.resources
        /\ made.leases = w.leases /\ made.live = w.live /\ made.closed = w.closed
        /\ made.unreclaimed = w.unreclaimed /\ made.faults = w.faults
        /\ made.disk = w.disk \union {f}
    BY <1>1 DEF Workspaces
  <2> HIDE DEF made
  <2>2. CASE o.end = "ok"
    <3>1. o.w = made
      BY <1>3, <2>2, IoOutcomes
    <3>2. made.faults <= w.faults /\ f \in made.disk
      BY <1>1, <2>1
    <3> QED BY <1>2, <2>1, <2>2, <3>1, <3>2
  <2>3. CASE o.end # "ok"
    <3>1. o.end = "error" /\ o.w = [w EXCEPT !.faults = @ - 1] /\ o.w \in Workspaces
          /\ o.w.faults < w.faults
      BY <1>3, <2>3, IoOutcomes
    <3>2. /\ o.w.files = w.files /\ o.w.resources = w.resources
          /\ o.w.leases = w.leases /\ o.w.live = w.live /\ o.w.closed = w.closed
          /\ o.w.unreclaimed = w.unreclaimed /\ o.w.disk = w.disk
      BY <3>1 DEF Workspaces
    <3>3. o.w.faults <= w.faults
      <4>1. o.w.faults \in Nat
        BY <3>1 DEF Workspaces
      <4> QED BY <1>1, <3>1, <4>1
    <3> QED BY <1>2, <3>1, <3>2, <3>3
  <2> QED BY <2>2, <2>3
<1>4. CASE o \notin Io(w, made)
  <2>1. w.faults # 0 /\ o \in Raises(lost)
    BY <1>4 DEF CreateFile
  <2>2. w.faults - 1 \in Nat /\ w.faults - 1 <= w.faults /\ w.faults - 1 < w.faults
    BY <1>1, <2>1
  <2>3. /\ lost \in Workspaces /\ lost.files = w.files /\ lost.resources = w.resources
        /\ lost.leases = w.leases /\ lost.live = w.live /\ lost.closed = w.closed
        /\ lost.unreclaimed = w.unreclaimed /\ lost.faults = w.faults - 1
        /\ lost.disk = w.disk \union {f}
    BY <1>1, <2>2 DEF Workspaces
  <2>4. o.w = lost /\ o.end = "error"
    BY <2>1 DEF Raises
  <2> HIDE DEF lost
  <2> QED BY <1>2, <2>2, <2>3, <2>4
<1> QED BY <1>3, <1>4

\* TemporaryRowWriter: a new file, or one that is taken back.
LEMMA WriterOpened ==
    ASSUME NEW w, NEW F \in Nat, Closable(w, F), NEW o \in OpenWriter(w)
    PROVE  /\ Closable(o.w, F) /\ (o.end = "ok" /\ InUse(w) => InUse(o.w))
           /\ o.end = "ok" /\ Kept(w) => Kept(o.w)
<1> DEFINE f == Len(w.files) + 1
           Gone(u) == CloseWriter(Returned(u), f, FALSE, FALSE)
           Tried(v) ==
             UNION {IF q.end = "ok" THEN Failing(CreateFile(q.w, f), Gone)
                    ELSE Failing({q}, LAMBDA u : CloseWriter(u, f, FALSE, FALSE)) :
                    q \in Lease(v)}
           Taken == Then(Allocate(w), LAMBDA v : Acquire(v, f))
<1>1. PICK q \in Then(Taken, Tried) :
        o \in IF q.end = "ok" THEN Ok(Managed(q.w, "writer", f)) ELSE {q}
  BY DEF OpenWriter, Then
<1>2. PICK p \in Taken : q \in IF p.end = "ok" THEN Tried(p.w) ELSE {p}
  <2> HIDE DEF Tried, Taken
  <2> QED BY <1>1 DEF Then
<1>3. PICK a \in Allocate(w) : p \in IF a.end = "ok" THEN Acquire(a.w, f) ELSE {a}
  BY <1>2 DEF Then
<1> HIDE DEF Tried, Gone, Taken, f
<1>4. /\ Closable(a.w, F) /\ (InUse(w) => InUse(a.w)) /\ a.end \in {"ok", "error", "broken"}
      /\ a.end = "ok" => /\ f \in DOMAIN a.w.files /\ a.w.files[f].active
                         /\ ~ a.w.files[f].discard /\ \A r \in Held(a.w) : r.file # f
                         /\ Beside(w, a.w, f)
  BY <1>3, Allocated DEF f
<1>5. CASE a.end # "ok"
  <2>1. p = a
    BY <1>3, <1>5
  <2>2. q = p
    BY <1>2, <1>5, <2>1
  <2>3. o = a
    BY <1>1, <1>5, <2>1, <2>2
  <2> QED BY <1>4, <1>5, <2>3
<1>6. CASE a.end = "ok"
  <2> DEFINE v == a.w
  <2>1. /\ Closable(v, F) /\ (InUse(w) => InUse(v)) /\ f \in DOMAIN v.files
        /\ (\A r \in Held(v) : r.file # f) /\ Beside(w, v, f)
    BY <1>4, <1>6
  <2>2. p \in Acquire(v, f)
    BY <1>3, <1>6
  <2> HIDE DEF v
  <2>3. v \in Workspaces /\ v.faults \in Nat /\ v.faults <= F /\ ~ Reading(v, f)
    BY <2>1 DEF Closable, Orderly, Workspaces, Reading, Leased
  <2>4. /\ Local(v, p.w, f) /\ p.w.disk = v.disk /\ Listed(p.w)
        /\ p.w.files[f].active = v.files[f].active
        /\ \/ p.end = "error" /\ Closable(p.w, F)
           \/ /\ p.end = "ok" /\ v.leases < MaxHandles /\ p.w.files[f].readers > 0
              /\ v.files[f].active
              /\ p.w.faults = F => Balanced(p.w) /\ p.w.files[f].readers = 1
    BY <2>1, <2>2, <2>3, AcquiredFree
  <2>5. CASE p.end # "ok"
    <3>1. q = p
      BY <1>2, <2>5
    <3>2. o = p
      BY <1>1, <2>5, <3>1
    <3> QED BY <2>4, <2>5, <3>2
  <2>6. CASE p.end = "ok"
    <3>1. q \in Tried(p.w)
      BY <1>2, <2>6
    <3>2. PICK l \in Lease(p.w) :
            q \in IF l.end = "ok" THEN Failing(CreateFile(l.w, f), Gone)
                  ELSE Failing({l}, LAMBDA u : CloseWriter(u, f, FALSE, FALSE))
      BY <3>1 DEF Tried
    <3>3. /\ Beside(v, p.w, f) /\ p.w \in Workspaces /\ p.w.leases = v.leases
          /\ p.w.resources = v.resources /\ p.w.leases < MaxHandles
      BY <2>4, <2>6 DEF Local, Beside
    <3>4. /\ l.end = "ok" /\ l.w \in Workspaces /\ l.w.leases = p.w.leases + 1
          /\ l.w.files = p.w.files /\ l.w.disk = p.w.disk /\ l.w.live = p.w.live
          /\ l.w.faults = p.w.faults /\ l.w.closed = p.w.closed
          /\ l.w.unreclaimed = p.w.unreclaimed /\ l.w.resources = p.w.resources
      BY <3>2, <3>3, HandleLeased
    <3>5. /\ Beside(v, l.w, f) /\ Listed(l.w) /\ (Balanced(p.w) => Balanced(l.w))
          /\ f \in DOMAIN l.w.files /\ l.w.files[f].active
      BY <2>4, <2>6, <3>3, <3>4 DEF Beside, Listed, Balanced
    <3>6. PICK i \in CreateFile(l.w, f) :
            q \in IF i.end = "ok" THEN {i} ELSE {[w |-> n.w, end |-> i.end] : n \in Gone(i.w)}
      BY <3>2, <3>4 DEF Failing
    <3>7. /\ Beside(l.w, i.w, f) /\ Listed(i.w) /\ i.w.files = l.w.files
          /\ i.w.resources = l.w.resources /\ i.w.leases = l.w.leases
          /\ (Balanced(l.w) => Balanced(i.w))
          /\ \/ i.end = "ok" /\ f \in i.w.disk
             \/ i.end = "error" /\ i.w.faults < l.w.faults
      BY <3>4, <3>5, <3>6, FileCreated
    <3>8. /\ Beside(v, i.w, f) /\ i.w.resources = v.resources /\ i.w.leases = v.leases + 1
          /\ i.w \in Workspaces /\ i.w.faults <= l.w.faults
      BY <3>3, <3>4, <3>5, <3>7, BesideTransitive DEF Beside
    <3>9. /\ i.w.faults \in Nat /\ l.w.faults \in Nat /\ l.w.faults <= v.faults
      BY <3>4, <3>5, <3>8 DEF Workspaces, Beside
    <3>10. i.w.faults = F => l.w.faults = F
      BY <2>3, <3>8, <3>9
    <3>11. CASE i.end = "ok"
      <4>1. q = i
        BY <3>6, <3>11
      <4>2. o.w = Managed(i.w, "writer", f)
        BY <1>1, <3>11, <4>1 DEF Ok
      <4>3. i.w.files[f].readers > 0
            /\ (i.w.faults = F => Balanced(i.w) /\ i.w.files[f].readers = 1)
        BY <2>4, <2>6, <3>4, <3>5, <3>7, <3>10
      <4>4. /\ Closable(o.w, F) /\ (InUse(v) => InUse(o.w))
            /\ Beside(v, o.w, f) /\ f \in o.w.disk
        BY <2>1, <2>4, <2>6, <3>7, <3>8, <3>11, <4>2, <4>3, Opening
      <4>5. Kept(w) => Kept(o.w)
        BY <2>1, <4>4, BesideTransitive, KeptBeside
      <4> QED BY <2>1, <4>4, <4>5
    <3>12. CASE i.end # "ok"
      <4>1. PICK n \in Gone(i.w) : q = [w |-> n.w, end |-> i.end]
        BY <3>6, <3>12
      <4>2. o.w = n.w /\ o.end # "ok"
        BY <1>1, <3>12, <4>1
      <4>3. i.w.faults # F
        BY <2>3, <3>7, <3>9, <3>12
      <4>4. n \in CloseWriter(Returned(i.w), f, FALSE, FALSE)
        BY <4>1 DEF Gone
      <4>5. Closable(n.w, F)
        BY <2>1, <3>7, <3>8, <4>3, <4>4, NotOpened
      <4> QED BY <4>2, <4>5
    <3> QED BY <3>11, <3>12
  <2> QED BY <2>5, <2>6
<1> QED BY <1>5, <1>6

\* finish: the writer of a whole file is gone, and the file stays.
LEMMA WriterFinished ==
    ASSUME NEW w, NEW F \in Nat, Closable(w, F), NEW f, Resource("writer", f) \in Held(w),
           NEW o \in FinishWriter(w, f)
    PROVE  /\ Closable(o.w, F) /\ (o.end = "ok" /\ InUse(w) => InUse(o.w))
           /\ o.end = "ok" /\ Kept(w) => Kept(o.w)
<1> DEFINE Gone(v) == CloseWriter(Returned(v), f, FALSE, TRUE)
<1>1. /\ w \in Workspaces /\ w.faults \in Nat /\ w.faults <= F /\ Listed(w)
      /\ f \in DOMAIN w.files /\ f \in Nat \ {0}
  <2>1. w \in Workspaces /\ w.faults \in Nat /\ w.faults <= F /\ Listed(w)
    BY DEF Closable, Orderly, Workspaces
  <2>2. Resource("writer", f).file \in DOMAIN w.files
    BY DEF Closable, Orderly
  <2> QED BY <2>1, <2>2, WorkspaceFacts DEF Resource
<1>2. PICK q \in Io(w, w) :
        o \in IF q.end = "ok" THEN CloseWriter(Returned(q.w), f, TRUE, TRUE)
              ELSE Failing({q}, Gone)
  BY DEF FinishWriter, Failing
<1> HIDE DEF Gone
<1>3. CASE q.end = "ok"
  <2>1. q.w = w
    BY <1>1, <1>2, <1>3, IoOutcomes
  <2>2. PICK t \in BOOLEAN : t /\ o \in CloseWriter(Returned(w), f, t, t)
    BY <1>2, <1>3, <2>1
  <2> QED BY <2>2, WriterGone
<1>4. CASE q.end # "ok"
  <2>1. q.end = "error" /\ q.w = [w EXCEPT !.faults = @ - 1] /\ q.w \in Workspaces
        /\ q.w.faults < w.faults
    BY <1>1, <1>2, <1>4, IoOutcomes
  <2>2. Local(w, q.w, f) /\ q.w.files = w.files /\ q.w.disk = w.disk
    BY <1>1, <2>1, LocalFault
  <2>3. Beside(w, q.w, f) /\ q.w.resources = w.resources /\ q.w.leases = w.leases /\ Listed(q.w)
    BY <1>1, <2>2 DEF Local, Listed
  <2>4. q.w.faults # F
    <3>1. q.w.faults \in Nat
      BY <2>1 DEF Workspaces
    <3> QED BY <1>1, <2>1, <3>1
  <2>5. Closable(q.w, F) /\ Resource("writer", f) \in Held(q.w)
    BY <1>1, <2>3, <2>4, Undone DEF Held
  <2>6. PICK n \in Gone(q.w) : o = [w |-> n.w, end |-> q.end]
    BY <1>2, <1>4 DEF Failing
  <2>7. PICK s \in BOOLEAN, t \in BOOLEAN : n \in CloseWriter(Returned(q.w), f, s, t)
    BY <2>6 DEF Gone
  <2>8. Closable(n.w, F)
    BY <2>5, <2>7, WriterGone
  <2> QED BY <1>4, <2>6, <2>8
<1> QED BY <1>3, <1>4

\* A file that is given up stays while it is read.
LEMMA FileDropped ==
    ASSUME NEW w, NEW F \in Nat, Closable(w, F), InUse(w), NEW f \in DOMAIN w.files,
           \A r \in Held(w) : r.file = f => r.kind # "catalog",
           NEW o \in Discard(w, f)
    PROVE  Closable(o.w, F) /\ InUse(o.w) /\ (o.end = "ok" /\ Kept(w) => Kept(o.w))
<1>1. /\ w \in Workspaces /\ OneEach(w) /\ Listed(w) /\ w.leases = Cardinality(Leased(w))
      /\ w.leases <= MaxHandles /\ f \in Nat \ {0} /\ w.faults \in Nat /\ w.faults <= F
      /\ w.files[f].readers \in Nat
  BY WorkspaceFacts, EntryTypes DEF Closable, Orderly, Workspaces
<1>2. /\ Local(w, o.w, f) /\ Listed(o.w)
      /\ o.w.files[f].readers = w.files[f].readers
      /\ o.end = "ok" => o.w.files[f].discard \/ ~ o.w.files[f].active
      /\ w.files[f].readers > 0 =>
           o.w.files[f].active = w.files[f].active /\ o.w.disk = w.disk
      /\ Balanced(w) /\ o.w.faults = w.faults => Balanced(o.w)
  BY <1>1, Discarded
<1>3. /\ Beside(w, o.w, f) /\ o.w.resources = w.resources /\ o.w.leases = w.leases
      /\ o.w.faults <= w.faults /\ o.w.faults \in Nat
      /\ o.w.files[f].active => w.files[f].active
  BY <1>2 DEF Local, Beside, Workspaces
<1>4. Held(o.w) = Held(w) /\ OneEach(o.w) /\ Leased(o.w) = Leased(w)
  BY <1>1, <1>3 DEF Held, OneEach, Leased
<1>5. \A r \in Held(o.w) : r.file = f => Used(o.w, r)
  BY <1>2, <1>4 DEF InUse, Used
<1>6. o.w.faults = F => Balanced(o.w) /\ Counted(o.w, f)
  <2>1. o.w.faults = F => w.faults = F
    BY <1>1, <1>3
  <2> QED BY <1>2, <1>3, <1>4, <2>1 DEF Closable, Exact, Counted, Reading
<1>7. o.end = "ok" /\ Kept(w) => Kept(o.w)
  BY <1>2, <1>3, KeptBeside
<1> QED BY <1>1, <1>2, <1>3, <1>4, <1>5, <1>6, <1>7, Transfer

\* Making a file deletes none.
LEMMA FileCreatedKeeps ==
    ASSUME NEW w \in Workspaces, NEW f, NEW o \in CreateFile(w, f)
    PROVE  w.disk \subseteq o.w.disk
<1>1. \/ o.w = [w EXCEPT !.disk = @ \union {f}]
      \/ o.w = [w EXCEPT !.faults = @ - 1]
      \/ o.w = [w EXCEPT !.disk = @ \union {f}, !.faults = @ - 1]
  <2>1. CASE o \in Io(w, [w EXCEPT !.disk = @ \union {f}])
    BY <2>1, IoOutcomes
  <2>2. CASE o \in Raises([w EXCEPT !.disk = @ \union {f}, !.faults = @ - 1])
    BY <2>2 DEF Raises
  <2> QED BY <2>1, <2>2 DEF CreateFile
<1> QED BY <1>1 DEF Workspaces

\* A catalogue is made, and used, under a reader of its own, which is gone afterwards.
Making(w, f)   == MetadataFile(w, f, LAMBDA u : CreateFile(u, f))
Touching(w, f) == MetadataFile(w, f, LAMBDA u : Io(u, u))

\* metadata_file: whatever it is used for, its reader and its handle are given back.
LEMMA MetadataUsed ==
    ASSUME NEW w, NEW F \in Nat, Closable(w, F), NEW f \in DOMAIN w.files, ~ Reading(w, f),
           NEW made \in BOOLEAN, NEW o,
           o \in IF made THEN Making(w, f) ELSE Touching(w, f)
    PROVE  /\ Closable(o.w, F) /\ (InUse(w) => InUse(o.w)) /\ o.w.resources = w.resources
           /\ f \in DOMAIN o.w.files /\ o.w.files[f].discard = w.files[f].discard
           /\ o.end \in {"ok", "error", "broken"}
           /\ (made /\ o.end = "ok" => f \in o.w.disk) /\ Beside(w, o.w, f)
<1>1. /\ w \in Workspaces /\ OneEach(w) /\ w.leases = Cardinality(Leased(w))
      /\ w.leases <= MaxHandles /\ f \in Nat \ {0} /\ w.faults \in Nat /\ w.faults <= F
      /\ w.leases \in Int
  BY WorkspaceFacts DEF Closable, Orderly, Workspaces
<1> DEFINE Using(u) == CreateFile(u, f) \union Io(u, u)
           Back(i) == [i EXCEPT !.w = Returned(@)]
<1>2. PICK p \in Acquire(w, f) :
        IF p.end # "ok" THEN o = p
        ELSE \E l \in Lease(p.w) :
               IF l.end # "ok" THEN \E n \in Release(l.w, f) : TRUE
               ELSE \E i \in Using(l.w) :
                      /\ made => i \in CreateFile(l.w, f)
                      /\ \E n \in Release(Back(i).w, f) :
                           o = [w |-> n.w, end |-> IF n.end = "ok" THEN Back(i).end ELSE n.end]
  <2>1. CASE made
    <3> DEFINE A(v) == UNION {IF l.end = "ok"
                              THEN {Back(u) : u \in CreateFile(l.w, f)}
                              ELSE {l} : l \in Lease(v)}
               B(v) == Finally(A(v), LAMBDA u : Release(u, f))
    <3>1. PICK p \in Acquire(w, f) : o \in IF p.end = "ok" THEN B(p.w) ELSE {p}
      BY <2>1 DEF Making, MetadataFile, Then
    <3>2. CASE p.end # "ok"
      BY <3>1, <3>2
    <3>3. CASE p.end = "ok"
      <4>1. o \in B(p.w)
        BY <3>1, <3>3
      <4>2. PICK m \in A(p.w) : \E n \in Release(m.w, f) :
              o = [w |-> n.w, end |-> IF n.end = "ok" THEN m.end ELSE n.end]
        <5> HIDE DEF A
        <5> QED BY <4>1 DEF Finally
      <4> HIDE DEF B
      <4>3. PICK l \in Lease(p.w) :
              m \in IF l.end = "ok" THEN {Back(u) : u \in CreateFile(l.w, f)} ELSE {l}
        BY <4>2
      <4> HIDE DEF A
      <4>4. CASE l.end # "ok"
        BY <3>3, <4>2, <4>3, <4>4
      <4>5. CASE l.end = "ok"
        <5>1. PICK i \in CreateFile(l.w, f) : m = Back(i)
          <6> HIDE DEF Back
          <6> QED BY <4>3, <4>5
        <5> HIDE DEF Back
        <5> QED BY <3>3, <4>2, <4>3, <4>5, <5>1
      <4> QED BY <4>4, <4>5
    <3> QED BY <3>2, <3>3
  <2>2. CASE ~ made
    <3> DEFINE A(v) == UNION {IF l.end = "ok"
                              THEN {Back(u) : u \in Io(l.w, l.w)}
                              ELSE {l} : l \in Lease(v)}
               B(v) == Finally(A(v), LAMBDA u : Release(u, f))
    <3>1. PICK p \in Acquire(w, f) : o \in IF p.end = "ok" THEN B(p.w) ELSE {p}
      BY <2>2 DEF Touching, MetadataFile, Then
    <3>2. CASE p.end # "ok"
      BY <3>1, <3>2
    <3>3. CASE p.end = "ok"
      <4>1. o \in B(p.w)
        BY <3>1, <3>3
      <4>2. PICK m \in A(p.w) : \E n \in Release(m.w, f) :
              o = [w |-> n.w, end |-> IF n.end = "ok" THEN m.end ELSE n.end]
        <5> HIDE DEF A
        <5> QED BY <4>1 DEF Finally
      <4> HIDE DEF B
      <4>3. PICK l \in Lease(p.w) :
              m \in IF l.end = "ok" THEN {Back(u) : u \in Io(l.w, l.w)} ELSE {l}
        BY <4>2
      <4> HIDE DEF A
      <4>4. CASE l.end # "ok"
        BY <3>3, <4>2, <4>3, <4>4
      <4>5. CASE l.end = "ok"
        <5>1. PICK i \in Io(l.w, l.w) : m = Back(i)
          <6> HIDE DEF Back
          <6> QED BY <4>3, <4>5
        <5> HIDE DEF Back
        <5> QED BY <2>2, <3>3, <4>2, <4>3, <4>5, <5>1
      <4> QED BY <4>4, <4>5
    <3> QED BY <3>2, <3>3
  <2> QED BY <2>1, <2>2
<1> HIDE DEF Using, Back
<1>3. /\ Local(w, p.w, f) /\ p.w.disk = w.disk /\ Listed(p.w)
      /\ p.w.files[f].discard = w.files[f].discard
      /\ p.w.files[f].active = w.files[f].active
      /\ \/ p.end = "error" /\ Closable(p.w, F) /\ (InUse(w) => InUse(p.w))
         \/ /\ p.end = "ok" /\ w.leases < MaxHandles
            /\ w.files[f].active /\ ~ w.files[f].discard /\ p.w.files[f].readers > 0
            /\ p.w.faults = F => Balanced(p.w) /\ p.w.files[f].readers = 1
  BY <1>2, AcquiredFree
<1>4. CASE p.end # "ok"
  <2>1. o = p
    BY <1>2, <1>4
  <2>2. o.w.resources = w.resources /\ f \in DOMAIN o.w.files /\ Beside(w, o.w, f)
    BY <1>3, <2>1 DEF Local, Beside
  <2> QED BY <1>3, <1>4, <2>1, <2>2
<1>5. CASE p.end = "ok"
  <2>1. /\ Beside(w, p.w, f) /\ p.w \in Workspaces /\ p.w.leases = w.leases
        /\ p.w.resources = w.resources /\ p.w.leases < MaxHandles
    BY <1>3, <1>5 DEF Local, Beside
  <2>2. PICK l \in Lease(p.w) :
          IF l.end # "ok" THEN \E n \in Release(l.w, f) : TRUE
          ELSE \E i \in Using(l.w) :
                 /\ made => i \in CreateFile(l.w, f)
                 /\ \E n \in Release(Back(i).w, f) :
                      o = [w |-> n.w, end |-> IF n.end = "ok" THEN Back(i).end ELSE n.end]
    BY <1>2, <1>5
  <2>3. /\ l.end = "ok" /\ l.w \in Workspaces /\ l.w.leases = p.w.leases + 1
        /\ l.w.files = p.w.files /\ l.w.disk = p.w.disk /\ l.w.live = p.w.live
        /\ l.w.faults = p.w.faults /\ l.w.closed = p.w.closed
        /\ l.w.unreclaimed = p.w.unreclaimed /\ l.w.resources = p.w.resources
    BY <2>1, <2>2, HandleLeased
  <2>4. PICK i \in Using(l.w) :
          /\ made => i \in CreateFile(l.w, f)
          /\ \E n \in Release(Back(i).w, f) :
               o = [w |-> n.w, end |-> IF n.end = "ok" THEN Back(i).end ELSE n.end]
    BY <2>2, <2>3
  <2>5. PICK n \in Release(Back(i).w, f) :
          o = [w |-> n.w, end |-> IF n.end = "ok" THEN Back(i).end ELSE n.end]
    BY <2>4
  <2>6. /\ Beside(w, l.w, f) /\ Listed(l.w) /\ (Balanced(p.w) => Balanced(l.w))
        /\ f \in DOMAIN l.w.files /\ l.w.files[f].active
    BY <1>3, <1>5, <2>1, <2>3 DEF Beside, Listed, Balanced
  <2>7. /\ Beside(l.w, i.w, f) /\ Listed(i.w) /\ i.w.files = l.w.files
        /\ i.w.resources = l.w.resources /\ i.w.leases = l.w.leases
        /\ (Balanced(l.w) => Balanced(i.w)) /\ l.w.disk \subseteq i.w.disk
        /\ i.end \in {"ok", "error"} /\ (made /\ i.end = "ok" => f \in i.w.disk)
    <3>1. CASE i \in CreateFile(l.w, f)
      <4>1. /\ Beside(l.w, i.w, f) /\ Listed(i.w) /\ i.w.files = l.w.files
            /\ i.w.resources = l.w.resources /\ i.w.leases = l.w.leases
            /\ (Balanced(l.w) => Balanced(i.w))
            /\ \/ i.end = "ok" /\ f \in i.w.disk
               \/ i.end = "error" /\ i.w.faults < l.w.faults
        BY <2>3, <2>6, <3>1, FileCreated
      <4>2. l.w.disk \subseteq i.w.disk
        BY <2>3, <2>6, <3>1, FileCreatedKeeps
      <4> QED BY <4>1, <4>2
    <3>2. CASE i \in Io(l.w, l.w)
      <4>1. CASE i.end = "ok"
        <5>1. i.w = l.w
          BY <2>3, <3>2, <4>1, IoOutcomes
        <5>2. Local(l.w, l.w, f)
          BY <2>3, <2>6, LocalReflexive
        <5>3. ~ made \/ f \in i.w.disk
          <6>1. CASE made
            BY <2>3, <2>4, <2>6, <4>1, <6>1, FileCreated
          <6> QED BY <6>1
        <5> QED BY <2>6, <4>1, <5>1, <5>2, <5>3 DEF Local
      <4>2. CASE i.end # "ok"
        <5>1. /\ i.end = "error" /\ i.w = [l.w EXCEPT !.faults = @ - 1] /\ i.w \in Workspaces
              /\ i.w.faults < l.w.faults
          BY <2>3, <3>2, <4>2, IoOutcomes
        <5>2. Local(l.w, i.w, f) /\ i.w.files = l.w.files /\ i.w.disk = l.w.disk
              /\ i.w.live = l.w.live
          BY <2>3, <2>6, <5>1, LocalFault
        <5> QED BY <2>6, <5>1, <5>2 DEF Local, Listed, Balanced
      <4> QED BY <4>1, <4>2
    <3> QED BY <3>1, <3>2 DEF Using
  <2>8. Back(i).w = Returned(i.w) /\ Back(i).end = i.end
    <3>1. Outcome(i)
      <4>1. ASSUME NEW a, NEW b, NEW q \in Io(a, b) PROVE Outcome(q)
        BY IoRecords
      <4>2. ASSUME NEW a, NEW q \in Raises(a) PROVE Outcome(q)
        BY DEF Raises, Outcome
      <4>3. CASE i \in Io(l.w, l.w)
        BY <4>1, <4>3
      <4>4. CASE i \in CreateFile(l.w, f)
        BY <4>1, <4>2, <4>4 DEF CreateFile
      <4> QED BY <4>3, <4>4 DEF Using
    <3> QED BY <3>1 DEF Back, Outcome
  <2> DEFINE v == Returned(i.w)
  <2>9. i.w \in Workspaces
    BY <2>7 DEF Beside
  <2>10. /\ v \in Workspaces /\ v.files = i.w.files /\ v.disk = i.w.disk
         /\ v.faults = i.w.faults /\ v.leases = i.w.leases - 1 /\ v.closed = i.w.closed
         /\ v.unreclaimed = i.w.unreclaimed /\ v.resources = i.w.resources
         /\ Listed(v) /\ (Balanced(v) <=> Balanced(i.w))
    BY <2>7, <2>9, ReturnedFacts
  <2>11. n \in Release(v, f)
    BY <2>5, <2>8
  <2> HIDE DEF v
  <2>12. f \in DOMAIN v.files /\ v.leases = w.leases
    BY <1>1, <2>1, <2>3, <2>6, <2>7, <2>10
  <2>13. /\ Local(v, n.w, f) /\ Listed(n.w)
         /\ n.w.files[f].discard = v.files[f].discard
         /\ ~ v.files[f].discard =>
              n.w.files[f].active = v.files[f].active /\ n.w.disk = v.disk
         /\ n.end \in {"ok", "error", "broken"}
         /\ Balanced(v) /\ n.w.faults = v.faults => Balanced(n.w)
         /\ v.leases < MaxHandles /\ v.files[f].active /\ n.w.faults = v.faults =>
              n.w.files[f].readers
                = IF v.files[f].readers = 0 THEN 0 ELSE v.files[f].readers - 1
    BY <2>10, <2>11, <2>12, Released
  <2>14. /\ Beside(w, n.w, f) /\ n.w.resources = w.resources /\ n.w.leases = w.leases
         /\ f \in DOMAIN n.w.files
    <3>1. Beside(w, i.w, f)
      BY <2>6, <2>7, BesideTransitive
    <3>2. Beside(w, v, f)
      BY <2>10, <3>1 DEF Beside
    <3>3. Beside(v, n.w, f) /\ n.w.resources = v.resources /\ n.w.leases = v.leases
      BY <2>13 DEF Local
    <3>4. Beside(w, n.w, f)
      BY <3>2, <3>3, BesideTransitive
    <3> QED BY <2>1, <2>3, <2>7, <2>10, <2>12, <3>3, <3>4 DEF Beside
  <2>15. v.files = p.w.files /\ v.files[f].discard = w.files[f].discard
         /\ ~ v.files[f].discard /\ v.files[f].active
    BY <1>3, <1>5, <2>3, <2>7, <2>10
  <2>16. n.w.disk = v.disk /\ w.disk \subseteq n.w.disk
    BY <1>3, <2>3, <2>7, <2>10, <2>13, <2>15
  <2>17. Held(n.w) = Held(w) /\ OneEach(n.w) /\ Leased(n.w) = Leased(w)
    BY <1>1, <2>14 DEF Held, OneEach, Leased
  <2>18. \A r \in Held(n.w) : r.file = f /\ Used(w, r) => Used(n.w, r)
    <3> TAKE r \in Held(n.w)
    <3>1. SUFFICES ASSUME r.file = f, Used(w, r) PROVE Used(n.w, r)
      OBVIOUS
    <3>2. r.kind = "catalog"
      BY <2>17, <3>1 DEF Reading, Leased
    <3> QED BY <2>13, <2>15, <2>16, <3>1, <3>2 DEF Used
  <2>19. ASSUME n.w.faults = F
         PROVE  /\ Balanced(n.w) /\ Counted(n.w, f)
                /\ \A r \in Held(n.w) : r.file = f => Used(n.w, r)
    <3>1. /\ n.w.faults <= v.faults /\ v.faults <= l.w.faults /\ p.w.faults <= w.faults
          /\ n.w.faults \in Nat /\ v.faults \in Nat /\ p.w.faults \in Nat /\ l.w.faults \in Nat
      <4>1. n.w.faults <= v.faults /\ n.w \in Workspaces /\ l.w \in Workspaces
            /\ i.w.faults <= l.w.faults /\ p.w.faults <= w.faults
        BY <1>3, <2>7, <2>13 DEF Local, Beside
      <4> QED BY <2>1, <2>10, <4>1 DEF Workspaces
    <3>2. v.faults = F /\ p.w.faults = F /\ w.faults = F
      BY <1>1, <2>3, <2>19, <3>1
    <3>3. Balanced(n.w)
      BY <1>3, <1>5, <2>6, <2>7, <2>10, <2>13, <2>19, <3>2
    <3>4. n.w.files[f].readers = 0
      BY <1>3, <1>5, <2>12, <2>13, <2>15, <2>19, <3>2
    <3>5. Counted(n.w, f)
      BY <2>17, <3>4 DEF Counted, Reading
    <3>6. InUse(w)
      BY <3>2 DEF Closable, Exact
    <3> QED BY <2>17, <2>18, <3>3, <3>5, <3>6 DEF InUse
  <2>20. Closable(n.w, F)
    BY <1>1, <2>13, <2>14, <2>17, <2>19, Transfer
  <2>21. InUse(w) => InUse(n.w)
    <3>1. SUFFICES ASSUME InUse(w) PROVE InUse(n.w)
      OBVIOUS
    <3>2. \A r \in Held(n.w) : r.file = f => Used(n.w, r)
      BY <2>17, <2>18, <3>1 DEF InUse
    <3> QED BY <1>1, <2>13, <2>14, <2>17, <2>19, <3>1, <3>2, Transfer
  <2>22. made /\ o.end = "ok" => f \in n.w.disk
    <3>1. o.end = "ok" => i.end = "ok"
      BY <2>5, <2>8
    <3> QED BY <2>7, <2>10, <2>16, <3>1
  <2>23. o.end \in {"ok", "error", "broken"}
    BY <2>5, <2>7, <2>8, <2>13
  <2> QED BY <2>5, <2>13, <2>14, <2>15, <2>20, <2>21, <2>22, <2>23
<1> QED BY <1>3, <1>4, <1>5

\* A catalogue needs no handle to be managed.
LEMMA CatalogManaged ==
    ASSUME NEW w, NEW F \in Nat, Closable(w, F), NEW f \in DOMAIN w.files,
           \A r \in Held(w) : r.file # f, f \in w.disk, ~ w.files[f].discard
    PROVE  LET v == Managed(w, "catalog", f)
           IN  /\ Closable(v, F) /\ (InUse(w) => InUse(v))
               /\ Beside(w, v, f) /\ f \in v.disk
<1> DEFINE x == Resource("catalog", f)
           v == Managed(w, "catalog", f)
<1>1. /\ w \in Workspaces /\ OneEach(w) /\ w.leases = Cardinality(Leased(w))
      /\ w.leases <= MaxHandles /\ f \in Nat \ {0} /\ Listed(w) /\ w.faults \in Nat
  BY WorkspaceFacts DEF Closable, Orderly, Workspaces
<1>2. x.kind = "catalog" /\ x.file = f /\ x \in Claims
  BY <1>1 DEF Resource, Claims
<1>3. /\ v = [w EXCEPT !.resources = v.resources] /\ v \in Workspaces
      /\ Held(v) = Held(w) \union {x} /\ OneEach(v)
  BY <1>1, <1>2, ClaimManaged
<1> HIDE DEF v
<1>4. /\ v.files = w.files /\ v.disk = w.disk /\ v.live = w.live /\ v.faults = w.faults
      /\ v.leases = w.leases /\ v.closed = w.closed /\ v.unreclaimed = w.unreclaimed
  BY <1>1, <1>3 DEF Workspaces
<1> HIDE DEF x
<1>5. Beside(w, v, f) /\ Listed(v)
  BY <1>1, <1>3, <1>4 DEF Beside, Listed
<1>6. Leased(v) = Leased(w) /\ {r \in Held(v) : r.file # f} = {r \in Held(w) : r.file # f}
  BY <1>2, <1>3 DEF Leased
<1>7. \A r \in Held(v) : r.file = f => Used(v, r)
  <2>1. \A r \in Held(v) : r.file = f => r = x
    BY <1>3
  <2>2. Used(v, x)
    BY <1>2, <1>4 DEF Used
  <2> QED BY <2>1, <2>2
<1>8. v.faults = F => Balanced(v) /\ Counted(v, f)
  BY <1>4, <1>6 DEF Closable, Exact, Balanced, Counted, Reading
<1>9. Closable(v, F) /\ (InUse(w) => InUse(v))
  BY <1>1, <1>3, <1>4, <1>5, <1>6, <1>7, <1>8, Transfer
<1> QED BY <1>4, <1>5, <1>9 DEF v

\* RunCatalog: a new file, listed and made.
LEMMA CatalogOpened ==
    ASSUME NEW w, NEW F \in Nat, Closable(w, F), NEW o \in OpenCatalog(w)
    PROVE  /\ Closable(o.w, F) /\ (o.end = "ok" /\ InUse(w) => InUse(o.w))
           /\ o.end = "ok" /\ Kept(w) => Kept(o.w)
<1> DEFINE f == Len(w.files) + 1
           Taken == Then(Allocate(w), LAMBDA v : Making(v, f))
<1>1. PICK p \in Taken : o \in IF p.end = "ok" THEN Ok(Managed(p.w, "catalog", f)) ELSE {p}
  BY DEF OpenCatalog, Making, Then
<1>2. PICK a \in Allocate(w) : p \in IF a.end = "ok" THEN Making(a.w, f) ELSE {a}
  BY <1>1 DEF Then
<1> HIDE DEF Taken, f
<1>3. /\ Closable(a.w, F) /\ (InUse(w) => InUse(a.w)) /\ a.end \in {"ok", "error", "broken"}
      /\ a.end = "ok" => /\ f \in DOMAIN a.w.files /\ a.w.files[f].active
                         /\ ~ a.w.files[f].discard /\ \A r \in Held(a.w) : r.file # f
                         /\ Beside(w, a.w, f)
  BY <1>2, Allocated DEF f
<1>4. CASE a.end # "ok"
  <2>1. p = a
    BY <1>2, <1>4
  <2>2. o = a
    BY <1>1, <1>4, <2>1
  <2> QED BY <1>3, <1>4, <2>2
<1>5. CASE a.end = "ok"
  <2>1. ~ Reading(a.w, f) /\ f \in DOMAIN a.w.files
    BY <1>3, <1>5 DEF Reading, Leased
  <2>2. PICK made \in BOOLEAN : made
    OBVIOUS
  <2>3. p \in Making(a.w, f)
    BY <1>2, <1>5
  <2>4. /\ Closable(p.w, F) /\ (InUse(a.w) => InUse(p.w)) /\ p.w.resources = a.w.resources
        /\ f \in DOMAIN p.w.files /\ p.w.files[f].discard = a.w.files[f].discard
        /\ p.end \in {"ok", "error", "broken"}
        /\ (made /\ p.end = "ok" => f \in p.w.disk) /\ Beside(a.w, p.w, f)
    <3> DEFINE v == a.w
    <3>1. Closable(v, F) /\ f \in DOMAIN v.files /\ ~ Reading(v, f)
      BY <1>3, <2>1
    <3>2. p \in IF made THEN Making(v, f) ELSE Touching(v, f)
      BY <2>2, <2>3
    <3> HIDE DEF v
    <3>3. /\ Closable(p.w, F) /\ (InUse(v) => InUse(p.w)) /\ p.w.resources = v.resources
          /\ f \in DOMAIN p.w.files /\ p.w.files[f].discard = v.files[f].discard
          /\ p.end \in {"ok", "error", "broken"}
          /\ (made /\ p.end = "ok" => f \in p.w.disk) /\ Beside(v, p.w, f)
      BY <3>1, <3>2, MetadataUsed
    <3> QED BY <3>3 DEF v
  <2>5. CASE p.end # "ok"
    <3>1. o = p
      BY <1>1, <2>5
    <3> QED BY <2>4, <2>5, <3>1
  <2>6. CASE p.end = "ok"
    <3>1. o.w = Managed(p.w, "catalog", f)
      BY <1>1, <2>6 DEF Ok
    <3>2. \A r \in Held(p.w) : r.file # f
      BY <1>3, <1>5, <2>4 DEF Held
    <3>3. /\ Closable(o.w, F) /\ (InUse(p.w) => InUse(o.w))
          /\ Beside(p.w, o.w, f) /\ f \in o.w.disk
      BY <1>3, <1>5, <2>2, <2>4, <2>6, <3>1, <3>2, CatalogManaged
    <3>4. Kept(w) => Kept(o.w)
      BY <1>3, <1>5, <2>4, <3>3, BesideTransitive, KeptBeside
    <3> QED BY <1>3, <2>4, <3>3, <3>4
  <2> QED BY <2>5, <2>6
<1> QED BY <1>4, <1>5

\* append: a run more, and the bytes of its entry.
LEMMA RunAppended ==
    ASSUME NEW w, NEW F \in Nat, Closable(w, F), NEW f, Resource("catalog", f) \in Held(w),
           NEW o \in AppendRun(w, f)
    PROVE  /\ Closable(o.w, F) /\ (o.end = "ok" /\ InUse(w) => InUse(o.w))
           /\ o.end = "ok" /\ InUse(w) /\ Kept(w) => Kept(o.w)
<1> DEFINE x == Resource("catalog", f)
<1>1. /\ x.kind = "catalog" /\ x.file = f /\ x \in Held(w) /\ f \in DOMAIN w.files
      /\ OneEach(w) /\ f \in Nat \ {0} /\ w.faults <= F
  <2>1. x.kind = "catalog" /\ x.file = f /\ x \in Held(w)
    BY DEF Resource
  <2>2. x.file \in DOMAIN w.files /\ OneEach(w) /\ w \in Workspaces /\ w.faults <= F
    BY <2>1 DEF Closable, Orderly
  <2> QED BY <2>1, <2>2, WorkspaceFacts
<1> HIDE DEF x
<1>2. ~ Reading(w, f)
  <2>1. ASSUME NEW r \in Leased(w), r.file = f PROVE FALSE
    <3>1. r \in Held(w) /\ r.kind # "catalog"
      BY <2>1 DEF Leased
    <3>2. r = x
      BY <1>1, <2>1, <3>1, OneClaim
    <3> QED BY <1>1, <3>1, <3>2
  <2> QED BY <2>1 DEF Reading
<1> DEFINE Rest(v) == NoteSize(v, f, v.files[f].size + SlotBytes)
<1>3. PICK p \in Touching(w, f) : o \in IF p.end = "ok" THEN Rest(p.w) ELSE {p}
  <2>1. AppendRun(w, f) = Then(Touching(w, f), Rest)
    BY DEF AppendRun, Touching, Then
  <2> HIDE DEF Rest
  <2> QED BY <2>1 DEF Then
<1>4. PICK made \in BOOLEAN : ~ made
  OBVIOUS
<1>5. /\ Closable(p.w, F) /\ (InUse(w) => InUse(p.w)) /\ p.w.resources = w.resources
      /\ f \in DOMAIN p.w.files /\ Beside(w, p.w, f)
  <2> HIDE DEF Rest
  <2> QED BY <1>1, <1>2, <1>3, <1>4, MetadataUsed
<1>6. CASE p.end # "ok"
  <2>1. o = p
    BY <1>3, <1>6
  <2> QED BY <1>5, <1>6, <2>1
<1>7. CASE p.end = "ok"
  <2> DEFINE v == p.w
             size == v.files[f].size + SlotBytes
  <2>1. o \in NoteSize(v, f, size)
    BY <1>3, <1>7
  <2> HIDE DEF Rest
  <2>2. /\ v \in Workspaces /\ OneEach(v) /\ Listed(v) /\ v.leases = Cardinality(Leased(v))
        /\ v.leases <= MaxHandles /\ v.faults \in Nat /\ v.faults <= F
        /\ v.files[f].size \in Nat /\ SlotBytes \in Nat
    BY <1>5, WorkspaceFacts, EntryTypes, SizesAssumption DEF Closable, Orderly, Workspaces
  <2>3. size \in Nat
    BY <2>2
  <2> HIDE DEF size, v
  <2>4. /\ Local(v, o.w, f) /\ o.w.disk = v.disk
        /\ o.w.files[f].readers = v.files[f].readers
        /\ o.w.files[f].discard = v.files[f].discard
        /\ o.w.files[f].active = v.files[f].active
        /\ Balanced(v) /\ o.w.faults = v.faults => Balanced(o.w)
    BY <1>5, <2>1, <2>2, <2>3, Noted DEF v
  <2>5. /\ Beside(v, o.w, f) /\ o.w.resources = v.resources /\ o.w.leases = v.leases
        /\ o.w.faults <= v.faults /\ o.w.faults \in Nat
        /\ DOMAIN o.w.files = DOMAIN v.files
        /\ \A g \in DOMAIN v.files \ {f} : o.w.files[g] = v.files[g]
    BY <2>4 DEF Local, Beside, Workspaces
  <2>6. Listed(o.w)
    BY <2>2, <2>4, <2>5 DEF Listed
  <2>7. Held(o.w) = Held(v) /\ OneEach(o.w) /\ Leased(o.w) = Leased(v)
    BY <2>2, <2>5 DEF Held, OneEach, Leased
  <2>8. \A r \in Held(v) : r.file = f => (Used(v, r) => Used(o.w, r))
    BY <2>4 DEF Used
  <2>9. o.w.faults = F => v.faults = F
    BY <2>2, <2>5
  <2>10. /\ Closable(v, F) /\ (InUse(w) => InUse(v)) /\ f \in DOMAIN v.files
         /\ Beside(w, v, f) /\ v.resources = w.resources
    BY <1>5 DEF v
  <2>11. o.w.faults = F => /\ Balanced(o.w) /\ Counted(o.w, f)
                           /\ \A r \in Held(o.w) : r.file = f => Used(o.w, r)
    <3>1. SUFFICES ASSUME o.w.faults = F
                   PROVE  /\ Balanced(o.w) /\ Counted(o.w, f)
                          /\ \A r \in Held(o.w) : r.file = f => Used(o.w, r)
      OBVIOUS
    <3>2. v.faults = F /\ Exact(v)
      BY <2>9, <2>10, <3>1 DEF Closable
    <3>3. Balanced(o.w)
      BY <2>4, <3>1, <3>2 DEF Exact
    <3>4. Counted(o.w, f)
      BY <2>4, <2>7, <2>10, <3>2 DEF Exact, Counted, Reading
    <3> QED BY <2>7, <2>8, <3>2, <3>3, <3>4 DEF Exact, InUse
  <2>12. Closable(o.w, F)
    BY <1>1, <2>2, <2>5, <2>6, <2>7, <2>10, <2>11, Transfer
  <2>13. InUse(v) => InUse(o.w)
    <3>1. SUFFICES ASSUME InUse(v) PROVE InUse(o.w)
      OBVIOUS
    <3>2. \A r \in Held(o.w) : r.file = f => Used(o.w, r)
      BY <2>7, <2>8, <3>1 DEF InUse
    <3> QED BY <1>1, <2>2, <2>5, <2>6, <2>7, <2>10, <2>11, <3>1, <3>2, Transfer
  <2>14. ASSUME InUse(w), Kept(w) PROVE Kept(o.w)
    <3>1. InUse(o.w) /\ Beside(w, o.w, f)
      BY <2>5, <2>10, <2>13, <2>14, BesideTransitive
    <3>2. x \in Held(o.w)
      BY <1>1, <2>5, <2>10 DEF Held
    <3>3. f \in o.w.disk
      BY <1>1, <3>1, <3>2 DEF InUse, Used
    <3> QED BY <2>14, <3>1, <3>3, KeptBeside
  <2> QED BY <2>10, <2>12, <2>13, <2>14
<1> QED BY <1>6, <1>7

-----------------------------------------------------------------------------
\* A workspace begins empty.
LEMMA FreshSound ==
    ASSUME NEW n \in Nat, NEW F \in Nat, n <= F
    PROVE  Sound(Fresh(n), F)
<1> DEFINE w == Fresh(n)
<1>1. /\ w.files = <<>> /\ w.disk = {Registry, Directory} /\ w.resources = <<>>
      /\ w.leases = 0 /\ w.live = 0 /\ w.closed = FALSE /\ w.unreclaimed = {}
      /\ w.faults = n
  BY DEF Fresh
<1>2. w \in Workspaces
  BY DEF Fresh, Workspaces, Registry, Directory
<1> HIDE DEF w
<1>3. /\ DOMAIN w.files = {} /\ DOMAIN w.resources = {} /\ Len(w.files) = 0
      /\ Held(w) = {} /\ Leased(w) = {} /\ OneEach(w) /\ Listed(w) /\ InUse(w) /\ Kept(w)
  BY <1>1 DEF Held, Leased, OneEach, Listed, Paths, InUse, Kept
<1>4. Cardinality(Leased(w)) = 0 /\ MaxHandles \in Nat /\ SlotBytes \in Nat
  BY <1>3, FS_EmptySet, SizesAssumption
<1>5. Orderly(w)
  BY <1>1, <1>2, <1>3, <1>4 DEF Orderly, Paths
<1>6. Balanced(w)
  <2>1. Bytes(w.files) = 0
    <3>1. w.files \in Seq(Entries) /\ \A f \in DOMAIN w.files : w.files[f].size = 0
      BY <1>2, <1>3 DEF Workspaces
    <3> QED BY <1>1, <3>1, NoBytes
  <2> QED BY <1>1, <1>3, <1>4, <2>1 DEF Balanced
<1>7. Exact(w)
  BY <1>3, <1>6 DEF Exact
<1> QED BY <1>1, <1>3, <1>5, <1>7 DEF Sound, Closable, w

-----------------------------------------------------------------------------
(***************************************************************************)
(* The workspace of a plan: as long as the plan is open nothing failed in  *)
(* its files but what ended it, and once it is not, they are settled.      *)
(***************************************************************************)

\* The faults that may come to a plan: none to one that uses no files.
Faults == IF query.spills THEN MaxFaults ELSE 0

PlanOpen == (\E r \in Results : state[r] = "OPEN") \/ Calling("opening")

Housekeeping ==
    /\ Sound(workspace, Faults) \/ Settled(workspace, Faults)
    /\ PlanOpen => Sound(workspace, Faults)

\* The faults are a number.
LEMMA FaultsInNat ==
    ASSUME Owned
    PROVE  Faults \in Nat
BY FaultsAssumption DEF Owned, Faults

\* At first the workspace is empty.
LEMMA InitHousekeeping == Init => Housekeeping
<1> SUFFICES ASSUME Init PROVE Housekeeping
  OBVIOUS
<1>1. Faults \in Nat /\ workspace = Fresh(Faults)
  BY InitOwned, FaultsInNat DEF Init, QueriesInit, Faults
<1>2. Faults <= Faults
  BY <1>1
<1> QED BY <1>1, <1>2, FreshSound DEF Housekeeping

\* A step that leaves the workspace alone, and opens no plan.
LEMMA WorkspaceAlone ==
    ASSUME Housekeeping, workspace' = workspace, query'.spills = query.spills,
           PlanOpen' => PlanOpen
    PROVE  Housekeeping'
<1>1. Faults' = Faults
  BY DEF Faults
<1> QED BY <1>1 DEF Housekeeping

\* With the live result ends the one plan there is.
LEMMA NoPlanLeft ==
    ASSUME QueryIInv, NEW r \in Results, state[r] \in Live,
           NEW s \in Terminal, NEW e, Ends(r, s, e), call' = NoCall
    PROVE  ~ PlanOpen'
<1>1. ~ Calling("opening")'
  BY DEF Calling, NoCall
<1>2. ASSUME NEW q \in Results, state'[q] = "OPEN" PROVE FALSE
  <2>1. q # r
    BY <1>2 DEF Ends, QueryIInv, Types, Terminal
  <2>2. state[q] = "OPEN"
    BY <1>2, <2>1 DEF Ends, QueryIInv, Types
  <2> QED BY <2>1, <2>2 DEF QueryIInv, LiveIsActive, Live
<1> QED BY <1>1, <1>2 DEF PlanOpen

\* A plan that ends closes its workspace.
LEMMA PlanEnds ==
    ASSUME Owned, QueryIInv, NEW r \in Results, state[r] \in Live,
           NEW s \in Terminal, NEW e, Ends(r, s, e), call' = NoCall, query' = query,
           NEW w, Closable(w, Faults), NEW o \in CloseWorkspace(w), workspace' = o.w
    PROVE  Housekeeping'
<1>1. Settled(workspace', Faults)
  BY FaultsInNat, WorkspaceClosed
<1>2. Faults' = Faults
  BY DEF Faults
<1> QED BY <1>1, <1>2, NoPlanLeft DEF Housekeeping

\* So do the end of a call, the end of a result and a failure in the middle.
LEMMA CleanEnd ==
    ASSUME Owned, QueryIInv, Housekeeping, NEW r \in Results, state[r] = "OPEN",
           NEW s \in Terminal, EndsCleanly(r, s), call' = NoCall, query' = query
    PROVE  Housekeeping'
<1>1. Closable(workspace, Faults)
  BY DEF Housekeeping, PlanOpen, Sound
<1>2. PICK o \in CloseWorkspace(workspace) :
        /\ workspace' = o.w
        /\ \E t \in Terminal : \E e : Ends(r, t, e)
  BY DEF EndsCleanly, Closes, Terminal
<1> QED BY <1>1, <1>2, PlanEnds DEF Live

\* _fail: a plan that failed closes its workspace.
LEMMA FailedEnd ==
    ASSUME Owned, QueryIInv, NEW r \in Results, state[r] \in Live, query' = query,
           NEW w, Closable(w, Faults), NEW e, FailsFrom(r, w, e)
    PROVE  Housekeeping'
<1>1. PICK o \in CloseWorkspace(w) : workspace' = o.w
  BY DEF FailsFrom
<1> QED BY <1>1, PlanEnds DEF FailsFrom, Returns, Terminal

-----------------------------------------------------------------------------
\* What an operator does with its files it does in an open plan; when it cannot,
\* the plan ends.
LEMMA WorkingIsOpen ==
    ASSUME QueryIInv, Housekeeping, Calling("opening") \/ Calling("fetching")
    PROVE  /\ call.result \in Results /\ state[call.result] \in Live /\ PlanOpen
           /\ Sound(workspace, Faults)
<1>1. call.result \in Results /\ state[call.result] \in Live
  BY CalledIsLive
<1>2. PlanOpen
  BY CalledIsLive DEF PlanOpen
<1> QED BY <1>1, <1>2 DEF Housekeeping

\* An operation of the files: done, or the end of the plan.
LEMMA UsesKeepsHouse ==
    ASSUME Owned, QueryIInv, Housekeeping, NEW outcomes, Uses(outcomes),
           \A o \in outcomes : /\ Closable(o.w, Faults)
                               /\ o.end = "ok" => Sound(o.w, Faults)
    PROVE  Housekeeping'
<1>1. /\ call.result \in Results /\ state[call.result] \in Live
  BY WorkingIsOpen DEF Uses, Working
<1>2. query' = query /\ Faults' = Faults
  BY DEF Uses, envVars, Faults
<1>3. PICK o \in outcomes :
        IF o.end = "ok"
        THEN workspace' = o.w
        ELSE FailsFrom(call.result, o.w, "io")
  BY DEF Uses
<1>4. CASE o.end = "ok"
  BY <1>2, <1>3, <1>4 DEF Housekeeping
<1>5. CASE o.end # "ok"
  BY <1>1, <1>2, <1>3, <1>5, FailedEnd
<1> QED BY <1>4, <1>5

\* The open files of one kind are the resources of that kind.
LEMMA OpenFileHeld ==
    ASSUME workspace \in Workspaces, NEW kind, NEW f
    PROVE  /\ f \in OpenFiles(kind) => Resource(kind, f) \in Held(workspace)
           /\ f \notin OpenFiles(kind) => \A r \in Held(workspace) : r.file = f => r.kind # kind
<1>1. ToSet(workspace.resources) = Held(workspace)
  BY DEF ToSet, Held
<1>2. \A r \in Held(workspace) : r = Resource(r.kind, r.file)
  BY WorkspaceFacts DEF Claims, Resource
<1> QED BY <1>1, <1>2 DEF OpenFiles

\* The operations of the operators on their files.
LEMMA FilesKept ==
    ASSUME Owned, QueryIInv, Housekeeping,
           \/ StartRun \/ FinishRun \/ StartCatalog \/ RecordRun
           \/ ReadRun \/ EndRead \/ DropRun
    PROVE  Housekeeping'
<1>1. Sound(workspace, Faults)
  BY WorkingIsOpen DEF StartRun, FinishRun, StartCatalog, RecordRun, ReadRun, EndRead,
                       DropRun, Uses, Working
<1>2. /\ Faults \in Nat /\ Closable(workspace, Faults) /\ InUse(workspace) /\ Kept(workspace)
      /\ workspace \in Workspaces
  BY <1>1, FaultsInNat DEF Sound, Closable, Orderly
<1>3. CASE StartRun
  BY <1>2, <1>3, WriterOpened, UsesKeepsHouse DEF StartRun, Sound
<1>4. CASE FinishRun
  <2>1. PICK f \in OpenFiles("writer") : Uses(FinishWriter(workspace, f))
    BY <1>4 DEF FinishRun
  <2>2. Resource("writer", f) \in Held(workspace)
    BY <1>2, OpenFileHeld
  <2> QED BY <1>2, <2>1, <2>2, WriterFinished, UsesKeepsHouse DEF Sound
<1>5. CASE StartCatalog
  BY <1>2, <1>5, CatalogOpened, UsesKeepsHouse DEF StartCatalog, Sound
<1>6. CASE RecordRun
  <2>1. PICK f \in OpenFiles("catalog") : Uses(AppendRun(workspace, f))
    BY <1>6 DEF RecordRun
  <2>2. Resource("catalog", f) \in Held(workspace)
    BY <1>2, OpenFileHeld
  <2> QED BY <1>2, <2>1, <2>2, RunAppended, UsesKeepsHouse DEF Sound
<1>7. CASE ReadRun
  <2>1. PICK f \in Runs \ OpenFiles("reader") : Uses(OpenReader(workspace, f))
    BY <1>7 DEF ReadRun
  <2>2. /\ f \in DOMAIN workspace.files /\ f \in workspace.disk
        /\ f \notin OpenFiles("writer") /\ f \notin OpenFiles("catalog")
    BY <1>2 DEF Runs, Kept
  <2>3. \A r \in Held(workspace) : r.file # f
    <3>1. \A r \in Held(workspace) : r.kind \in {"writer", "reader", "catalog"}
      BY <1>2, WorkspaceFacts DEF Claims
    <3> QED BY <1>2, <2>1, <2>2, <3>1, OpenFileHeld
  <2> QED BY <1>2, <2>1, <2>2, <2>3, ReaderOpened, UsesKeepsHouse DEF Sound
<1>8. CASE EndRead
  <2>1. PICK f \in OpenFiles("reader") : Uses(CloseReader(Returned(workspace), f))
    BY <1>8 DEF EndRead
  <2>2. Resource("reader", f) \in Held(workspace)
    BY <1>2, OpenFileHeld
  <2> QED BY <1>2, <2>1, <2>2, ReaderGone, UsesKeepsHouse DEF Sound
<1>9. CASE DropRun
  <2>1. PICK f \in Runs : Uses(Discard(workspace, f))
    BY <1>9 DEF DropRun
  <2>2. f \in DOMAIN workspace.files /\ f \notin OpenFiles("catalog")
    BY DEF Runs
  <2>3. \A r \in Held(workspace) : r.file = f => r.kind # "catalog"
    BY <1>2, <2>2, OpenFileHeld
  <2> QED BY <1>2, <2>1, <2>2, <2>3, FileDropped, UsesKeepsHouse DEF Sound
<1> QED BY <1>3, <1>4, <1>5, <1>6, <1>7, <1>8, <1>9

\* A run whose rows could not be produced.
LEMMA RunAbandoned ==
    ASSUME Owned, QueryIInv, Housekeeping, AbandonRun
    PROVE  Housekeeping'
<1>1. PICK f \in OpenFiles("writer") : Working /\ \E o \in AbandonWriter(workspace, f) :
        FailsFrom(call.result, o.w, "io") /\ query' = query
  BY DEF AbandonRun, envVars
<1>2. PICK o \in AbandonWriter(workspace, f) :
        FailsFrom(call.result, o.w, "io") /\ query' = query
  BY <1>1
<1>3. /\ call.result \in Results /\ state[call.result] \in Live /\ Sound(workspace, Faults)
  BY <1>1, WorkingIsOpen DEF Working
<1>4. Closable(workspace, Faults) /\ Resource("writer", f) \in Held(workspace)
  BY <1>1, <1>3, OpenFileHeld DEF Sound, Closable, Orderly
<1>5. PICK s \in BOOLEAN, t \in BOOLEAN : o \in CloseWriter(Returned(workspace), f, s, t)
  BY <1>2 DEF AbandonWriter
<1>6. Closable(o.w, Faults)
  BY <1>4, <1>5, FaultsInNat, WriterGone
<1> QED BY <1>2, <1>3, <1>6, FailedEnd

-----------------------------------------------------------------------------
\* The calls of the engine and of its results.
LEMMA CallsKeepHouse ==
    ASSUME Owned, QueryIInv, Housekeeping, NEW r \in Results,
           \/ Execute(r) \/ Open(r)
           \/ \E n \in query.fetches : FetchMany(r, n)
           \/ \E n \in query.limits : FetchAll(r, n)
           \/ Close(r) \/ ExitWithError(r)
    PROVE  Housekeeping'
<1>1. CASE Execute(r)
  <2>1. \A q \in Results : state'[q] = "OPEN" => state[q] = "OPEN"
    BY <1>1 DEF Execute, QueryIInv, Types
  <2> QED BY <1>1, <2>1, WorkspaceAlone DEF Execute, envVars, PlanOpen, Calling
<1>2. ASSUME NEW wanted, NEW limit, Starts(r, wanted, limit) PROVE Housekeeping'
  <2>1. call'.phase # "opening"
    BY <1>2 DEF Starts
  <2> QED BY <1>2, <2>1, WorkspaceAlone DEF Starts, envVars, PlanOpen, Calling
<1>3. CASE Close(r)
  <2>1. call' = NoCall /\ query' = query
    BY <1>3 DEF Close, Returns, envVars
  <2>2. CASE state[r] = "CREATED" /\ Ends(r, "CLOSED", "none") /\ UNCHANGED workspace
    <3>1. ~ PlanOpen'
      BY <2>1, <2>2, NoPlanLeft DEF Live, Terminal
    <3> QED BY <2>1, <2>2, <3>1, WorkspaceAlone
  <2>3. CASE state[r] = "OPEN" /\ EndsCleanly(r, "CLOSED")
    BY <2>1, <2>3, CleanEnd DEF Terminal
  <2> QED BY <1>3, <2>2, <2>3 DEF Close
<1>4. CASE ExitWithError(r)
  <2>1. /\ call' = NoCall /\ call = NoCall /\ query' = query
        /\ Ends(r, "CLOSED", error[r]) /\ "CLOSED" \in Terminal
    BY <1>4 DEF ExitWithError, Idle, envVars, Terminal
  <2>2. CASE state[r] = "OPEN"
    <3>1. PICK o \in CloseWorkspace(workspace) : workspace' = o.w
      BY <1>4, <2>2 DEF ExitWithError, Closes
    <3>2. Closable(workspace, Faults)
      BY <2>2 DEF Housekeeping, PlanOpen, Sound
    <3> QED BY <2>1, <2>2, <3>1, <3>2, PlanEnds DEF Live
  <2>3. CASE state[r] # "OPEN"
    <3>1. workspace' = workspace
      BY <1>4, <2>3 DEF ExitWithError
    <3>2. PlanOpen' => PlanOpen
      BY <2>1 DEF Ends, QueryIInv, Types, PlanOpen, Calling
    <3> QED BY <2>1, <3>1, <3>2, WorkspaceAlone
  <2> QED BY <2>2, <2>3
<1> QED BY <1>1, <1>2, <1>3, <1>4 DEF Open, FetchMany, FetchAll

\* instantiate: a new plan has an empty workspace.
LEMMA InstantiateKeepsHouse ==
    ASSUME Owned, QueryIInv, Housekeeping, Instantiate
    PROVE  Housekeeping'
<1>1. /\ call.result \in Results /\ state[call.result] \in Live /\ query' = query
  BY CalledIsLive DEF Instantiate
<1>2. CASE Stale \/ ~ FitsGrants(Plan)
  <2>1. PICK e : Ends(call.result, "FAILED", e)
    BY <1>2 DEF Instantiate
  <2>2. call' = NoCall /\ workspace' = workspace /\ "FAILED" \in Terminal
    BY <1>2 DEF Instantiate, Returns, Terminal
  <2>3. ~ PlanOpen'
    BY <1>1, <2>1, <2>2, NoPlanLeft
  <2> QED BY <1>1, <2>2, <2>3, WorkspaceAlone
<1>3. CASE ~ (Stale \/ ~ FitsGrants(Plan))
  <2>1. workspace' = Fresh(workspace.faults)
    BY <1>3 DEF Instantiate
  <2>2. workspace.faults \in Nat /\ workspace.faults <= Faults
    BY DEF Housekeeping, Sound, Closable, Orderly, Settled, Shut, Workspaces
  <2>3. Sound(workspace', Faults)
    BY <2>1, <2>2, FaultsInNat, FreshSound
  <2>4. Faults' = Faults
    BY <1>1 DEF Faults
  <2> QED BY <2>3, <2>4 DEF Housekeeping
<1> QED BY <1>2, <1>3

\* A row, or the one too many that closes the result.
LEMMA EmitKeepsHouse ==
    ASSUME Owned, QueryIInv, Housekeeping, Emit
    PROVE  Housekeeping'
<1>1. /\ call.result \in Results /\ state[call.result] = "OPEN" /\ query' = query
  BY CalledIsLive DEF Emit, envVars
<1>2. CASE EndsCleanly(call.result, "CLOSED") /\ Returns
  BY <1>1, <1>2, CleanEnd DEF Returns, Terminal
<1>3. CASE UNCHANGED workspace
  <2>1. PlanOpen
    BY <1>1 DEF PlanOpen
  <2> QED BY <1>1, <1>3, <2>1, WorkspaceAlone
<1> QED BY <1>2, <1>3 DEF Emit

\* Every step.
LEMMA HouseKept ==
    ASSUME Owned, QueryIInv, Housekeeping, [Next]_<<vars, commandVars>>
    PROVE  Housekeeping'
<1>1. ASSUME NEW r \in query.results,
             \/ Execute(r) \/ Open(r)
             \/ \E n \in query.fetches : FetchMany(r, n)
             \/ \E n \in query.limits : FetchAll(r, n)
             \/ Close(r) \/ ExitWithError(r)
      PROVE  Housekeeping'
  <2>1. r \in Results
    BY DEF Owned
  <2> QED BY <1>1, <2>1, CallsKeepHouse
<1>2. CASE Opened
  <2>1. PlanOpen /\ query' = query /\ workspace' = workspace
    BY <1>2 DEF Opened, PlanOpen, envVars
  <2> QED BY <2>1, WorkspaceAlone
<1>3. CASE Exhaust
  <2>1. /\ call.result \in Results /\ state[call.result] = "OPEN"
        /\ query' = query /\ call' = NoCall /\ EndsCleanly(call.result, "COMPLETE")
    BY <1>3, CalledIsLive DEF Exhaust, envVars, Returns
  <2> QED BY <2>1, CleanEnd DEF Terminal
<1>4. CASE PlanFails
  <2>1. /\ call.result \in Results /\ state[call.result] \in Live
        /\ query' = query /\ FailsFrom(call.result, workspace, answer.end)
        /\ Closable(workspace, Faults)
    BY <1>4, WorkingIsOpen DEF PlanFails, envVars, Sound
  <2> QED BY <2>1, FailedEnd
<1>5. ASSUME UNCHANGED <<state, call, workspace>>, query'.spills = query.spills
      PROVE  Housekeeping'
  <2>1. PlanOpen' => PlanOpen
    BY <1>5 DEF PlanOpen, Calling
  <2> QED BY <1>5, <2>1, WorkspaceAlone
<1>6. CASE \/ \E t \in DOMAIN query.tables :
                (\E object \in Objects : RegisterStorage(t, object)) \/ UnregisterStorage(t)
           \/ \E i \in query.indexes : RegisterIndex(i) \/ UnregisterIndex(i)
           \/ Prepare
  BY <1>5, <1>6
     DEF RegisterStorage, UnregisterStorage, RegisterIndex, UnregisterIndex, Changes, Prepare
<1>7. CASE QueriesNext
  BY <1>1, <1>2, <1>3, <1>4, <1>6, <1>7, InstantiateKeepsHouse, EmitKeepsHouse,
     FilesKept, RunAbandoned DEF QueriesNext
<1>8. CASE PrepareCommand \/ ExplainAnalyze \/ UNCHANGED <<vars, commandVars>>
  BY <1>5, <1>8 DEF PrepareCommand, ExplainAnalyze, vars
<1>9. CASE ExecuteCommand \/ \E i \in query.indexes : CreateIndex(i) \/ DropIndex(i)
  <2>1. query'.spills = query.spills
    BY OwnedKept
  <2> QED BY <1>5, <1>9, <2>1 DEF ExecuteCommand, CreateIndex, DropIndex, Defines
<1> QED BY <1>7, <1>8, <1>9 DEF Next

\* What Housekeeping is about.
LEMMA HouseInOrder ==
    ASSUME Owned, Housekeeping
    PROVE  FilesOutliveReaders /\ TempFilesAreAccountedFor
<1>1. CASE Sound(workspace, Faults)
  <2>1. workspace \in Workspaces /\ ~ workspace.closed /\ InUse(workspace) /\ Listed(workspace)
        /\ \A r \in Held(workspace) : r.file \in DOMAIN workspace.files
    BY <1>1 DEF Sound, Closable, Orderly
  <2>2. ASSUME NEW r \in Held(workspace)
        PROVE  r.file \in workspace.disk /\ workspace.files[r.file].active
    <3>1. r.file \in DOMAIN workspace.files /\ r.file \in workspace.disk
      BY <2>1 DEF InUse, Used
    <3>2. r.file \notin Paths
      <4>1. r.file \in 1 .. Len(workspace.files)
        BY <2>1, <3>1, WorkspaceFacts
      <4>2. Len(workspace.files) \in Nat
        BY <2>1, WorkspaceFacts
      <4> QED BY <4>1, <4>2 DEF Paths, Registry, Directory
    <3> QED BY <2>1, <3>1, <3>2 DEF Listed
  <2> QED BY <2>1, <2>2 DEF FilesOutliveReaders, TempFilesAreAccountedFor, Held
<1>2. CASE Settled(workspace, Faults)
  <2>1. /\ workspace.resources = <<>> /\ workspace.leases = 0
        /\ workspace.faults \in Nat /\ workspace.faults <= Faults
    BY <1>2 DEF Settled, Shut, Workspaces
  <2>2. workspace.faults = MaxFaults \/ ~ query.spills => workspace.faults = Faults
    BY <2>1, FaultsInNat DEF Faults, Owned
  <2> QED BY <1>2, <2>1, <2>2 DEF Settled, FilesOutliveReaders, TempFilesAreAccountedFor
<1> QED BY <1>1, <1>2 DEF Housekeeping

\* A file is there as long as an operator has it open, whoever gave it up meanwhile
\* and whatever its operator does next (temp_files.py acquire, release, discard).
THEOREM FilesAreThere == Spec => []FilesOutliveReaders
<1>1. Init => QueryIInv /\ Owned /\ Housekeeping
  BY InitQueryIInv, InitOwned, InitHousekeeping
<1>2. QueryIInv /\ Owned /\ Housekeeping /\ [Next]_<<vars, commandVars>> =>
        (QueryIInv /\ Owned /\ Housekeeping)'
  BY StepKeeps, OwnedKept, HouseKept
<1>3. Owned /\ Housekeeping => FilesOutliveReaders
  BY HouseInOrder
<1> QED BY <1>1, <1>2, <1>3, PTL DEF Spec

\* A plan that is over leaves no handle, without a failure no file and no byte,
\* and after any number of failures nothing that is not reported, but for the one
\* defect of the byte account (temp_files.py close; pipeline.py
\* __exit__).
THEOREM NothingIsLeftBehind == Spec => []TempFilesAreAccountedFor
<1>1. Init => QueryIInv /\ Owned /\ Housekeeping
  BY InitQueryIInv, InitOwned, InitHousekeeping
<1>2. QueryIInv /\ Owned /\ Housekeeping /\ [Next]_<<vars, commandVars>> =>
        (QueryIInv /\ Owned /\ Housekeeping)'
  BY StepKeeps, OwnedKept, HouseKept
<1>3. Owned /\ Housekeeping => TempFilesAreAccountedFor
  BY HouseInOrder
<1> QED BY <1>1, <1>2, <1>3, PTL DEF Spec

=============================================================================
