------------------------------- MODULE Service --------------------------------
(* The server as its clients meet it: their sessions (ClientSessions), of which  *)
(* one at a time changes a definition (GuiTables), in a process that may end at   *)
(* any step and open the same files again.                                       *)
EXTENDS GuiTables, Naturals

CONSTANTS Clients, Default, MaxSessions,
          Scenarios   \* how often what may happen: the bounds of a behaviour

ASSUME DefaultAssumption == Default \notin Clients

VARIABLES service, open, stopped, tokens, idle, holder, closers, cancellers, call, readers,
          engines, refusing, transaction, schemaLock, flag, drain,
          budget      \* what is left of the scenario

INSTANCE ClientSessions

talk == <<service, open, stopped, tokens, idle, holder, closers, cancellers, call, readers,
          engines, refusing, transaction, schemaLock, flag, drain>>
vars == <<tableVars, talk, budget>>

definitions == <<registry, files, rows, memory, change, halfDone>>
OfSessions == UNCHANGED <<definitions, budget>>
OfTables == UNCHANGED talk

Spends(what) == budget[what] > 0 /\ budget' = [budget EXCEPT ![what] = @ - 1]

-----------------------------------------------------------------------------
\* The session that holds the schema lock exclusively runs the change.
Defines(s) == call[s] = "working" /\ schemaLock[s] = "X"

\* Identities are random: any fresh one stands for all.
OneOf(ids) == LET fresh == {id \in ids : FreshIdentity(id)}
              IN  IF fresh = {} THEN {} ELSE {CHOOSE id \in fresh : TRUE}
NewViews == [table: OneOf(TableIds), spatial: BOOLEAN,
             indexes: {{}} \union {{i} : i \in OneOf(IndexIds)}]

StartChange(s) ==
  /\ Defines(s) /\ ~flag[s]
  /\ \/ \E view \in NewViews : StartCreateTable(view)
     \/ \E i \in OneOf(IndexIds) : StartCreateIndex(i)
     \/ \E i \in IndexIds : StartDropIndex(i)
     \/ StartDropTable
     \/ StartUpdate
  /\ Spends("changes")
  /\ OfTables

StepChange(s) ==
  /\ Defines(s)
  /\ ChangeSteps(flag[s])
  /\ OfTables /\ UNCHANGED budget

\* A definition its checks refuse has changed nothing.
EndDefinition(s) ==
  /\ Defines(s)
  /\ IF change = NoChange THEN UNCHANGED tableVars ELSE EndChange
  /\ FinishDefinition(s)
  /\ UNCHANGED budget

-----------------------------------------------------------------------------
\* So are tokens.
NewClient(s) == Unused(s) /\ s = CHOOSE c \in Clients : Unused(c)

Calls(s) ==
  /\ Enter(s) \/ (s \in Clients /\ NewClient(s) /\ CheckReader(s))
  /\ Spends("calls")
  /\ UNCHANGED definitions

EngineCall(s) ==
  \/ /\ \/ OpenReader(s) \/ Refused(s) \/ Begin(s) \/ EndGroup(s) \/ Statement(s)
        \/ Definition(s) \/ Grant(s) \/ WaitFails(s) \/ Finish(s) \/ Exit(s)
     /\ OfSessions
  \/ StartChange(s) \/ StepChange(s) \/ EndDefinition(s)

Opening(s) ==
  /\ s \in Clients /\ NewClient(s)
  /\ OpenSession(s)
  /\ Spends("opens")
  /\ UNCHANGED definitions
\* A close request, and the sweeper.
Closing(s) ==
  /\ TakeToClose(s) \/ CloseTimesOut(s) \/ Sweep(s) \/ CloseEngine(s)
  /\ OfSessions
Asks(s) ==
  /\ TimesOut(s) \/ AskCancel(s) \/ AskClose(s)
  /\ Spends("asks")
  /\ UNCHANGED definitions
Cancelling(s) == Cancel(s) /\ OfSessions

Stops ==
  /\ BeginShutdown \/ (service # "closing" /\ CloseService)
  /\ Spends("stops")
  /\ UNCHANGED definitions
Quarantines == FindsUnavailable /\ OfSessions
\* Once asked to stop, the server closes the service.
CloseStopped == service = "closing" /\ CloseService /\ OfSessions
Drains ==
  /\ \/ TakeAdmission \/ AdmissionTimesOut \/ CloseCoordinator \/ CollectTimesOut
     \/ (\E s \in Sessions : Collect(s))
     \/ CloseTaken \/ CloseHandles
  /\ OfSessions

\* The process ends, asked to or not.
Ends ==
  /\ service # "down"
  /\ Spends("ends")
  /\ EndSessions /\ Forget

\* open, which refuses a registry whose files it cannot use.
Reopens ==
  /\ service = "down"
  /\ OpenTables
  /\ StartSessions
  /\ UNCHANGED budget

Init ==
  /\ InitTables
  /\ InitSessions
  /\ budget \in Scenarios
  /\ budget.changes = 0 => registry = NoView

Next ==
  \/ \E s \in Sessions :
       \/ Calls(s) \/ EngineCall(s) \/ Opening(s) \/ Closing(s)
       \/ Asks(s) \/ Cancelling(s)
  \/ Stops \/ Quarantines \/ CloseStopped \/ Drains \/ Ends \/ Reopens

\* Threads run, deadlines pass, the sweeper comes round, and a stop is carried out.
Fairness ==
  /\ \A s \in Sessions : WF_vars(EngineCall(s))
  /\ \A s \in Clients : WF_vars(Closing(s))
  /\ WF_vars(CloseStopped)
  /\ WF_vars(Drains)

Spec == Init /\ [][Next]_vars
FairSpec == Spec /\ Fairness

-----------------------------------------------------------------------------
\* gui_tables.json never names a file that is not there: CREATE writes it after its
\* files and removes them only while it does not name them, DROP writes it before it
\* removes any, whatever fails and wherever the process ends.  A DROP that failed
\* half-way is let off (database.py:1012 claims it too; see the README).
RegistryFindsFiles == ~halfDone => FilesOf(registry) \ {SpatialFile} \subseteq files

\* A change is whole or did not happen: whenever none is under way, every map of an
\* owner that admits work shows the table the registry has, with no index behind its
\* rows, and a CREATE or UPDATE that failed has put back the maps and rows it found
\* (the handlers of create_sql_index, _unpublish and update_sql_table).
AtRest == change = NoChange \/ change.at \in {"done", "failed", "refused"}
ChangesAreWhole ==
  (AtRest /\ service # "down" /\ available /\ ~halfDone) =>
    /\ memory = Everywhere(registry)
    /\ rows.state # "torn" /\ rows.stale = {}
    /\ (change # NoChange /\ change.at = "failed"
          /\ change.op \in {"create table", "create index", "update"}) =>
         memory = change.was /\ rows.state = "old"

\* Shutdown closes the files under nobody: once they are closed no engine session is
\* open, no call is inside the engine, and no transaction or lock is left
\* (Database.shutdown, SessionCoordinator.shutdown; engine_service.py:1106).
FilesCloseIdle ==
  ~open =>
    /\ engines = {}
    /\ \A s \in Sessions :
         ~Running(s) /\ transaction[s] = "none" /\ schemaLock[s] = "none"

\* An abandoned session does not hold its locks for ever: one whose token is gone or
\* has been idle too long is closed or used again, unless the service has said that it
\* is unavailable (close, sweep and stop of api/sessions.py against shutdown).
SessionsEnd ==
  \A s \in Clients :
    (s \in engines /\ (s \in tokens => s \in idle))
      ~> (s \notin engines \/ s \in tokens \ idle \/ service \in {"unavailable", "down"})
=============================================================================
