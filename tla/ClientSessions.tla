---------------------------- MODULE ClientSessions ----------------------------
(* The sessions of the HTTP service: tokens and their registry (api/sessions.py), *)
(* admission and shutdown (api/engine_service.py), and the engine sessions behind  *)
(* them (engine/transactions/session.py).  Request threads, close and cancel       *)
(* requests, the sweeper and the thread that stops the server take their steps in  *)
(* any order.                                                                      *)
(*                                                                                 *)
(* Of the lock manager only the schema resource is kept: a statement holds it      *)
(* shared to the end of its transaction, a definition holds it exclusively.        *)
EXTENDS Naturals, FiniteSets

CONSTANTS
  Clients,      \* sessions a client may open, and those of tokenless text reads
  Default,      \* the session of the tokenless calls
  MaxSessions   \* SessionRegistry._max_sessions

VARIABLES
  service,      \* EngineService._state, or "down" while no process runs
  open,         \* the files are open: not Database._closed
  available,    \* Database._available
  stopped,      \* SessionRegistry._closed
  tokens,       \* SessionRegistry._sessions
  idle,         \* the tokens unused for longer than the timeout
  holder,       \* who holds the call lock of a client, or the admission lock
  closers,      \* the sessions a close request waits for
  cancellers,   \* cancel requests that have seen their call running
  call,         \* how far the call of a session is
  readers,      \* sessions that live for one tokenless read
  engines,      \* SessionCoordinator._sessions: the engine sessions not closed
  refusing,     \* SessionCoordinator._closed
  transaction, schemaLock, flag, \* of an engine session; flag is _cancel_requested
  drain         \* the thread that stops the service

Sessions == Clients \union {Default}

lockVars == <<transaction, schemaLock, flag>>
httpVars == <<tokens, idle, holder, closers, cancellers, stopped>>
serviceVars == <<service, open, available>>
engineVars == <<engines, refusing>>
sessionVars == <<serviceVars, httpVars, call, readers, engineVars, lockVars, drain>>

NoDrain == [at |-> "none", left |-> {}, taken |-> {}]

\* A process that has just opened the database, and one that is gone.
Restarts(state, up, alive) ==
  /\ service' = state /\ open' = up /\ engines' = alive
  /\ stopped' = FALSE /\ refusing' = FALSE
  /\ tokens' = {} /\ idle' = {} /\ closers' = {} /\ cancellers' = {} /\ readers' = {}
  /\ holder' = [s \in Sessions |-> "nobody"]
  /\ call' = [s \in Sessions |-> "none"]
  /\ transaction' = [s \in Sessions |-> "none"]
  /\ schemaLock' = [s \in Sessions |-> "none"]
  /\ flag' = [s \in Sessions |-> FALSE]
  /\ drain' = NoDrain

StartSessions == Restarts("ready", TRUE, {Default})
EndSessions == Restarts("down", FALSE, {})

InitSessions ==
  /\ service = "ready" /\ open = TRUE /\ engines = {Default}
  /\ stopped = FALSE /\ refusing = FALSE
  /\ tokens = {} /\ idle = {} /\ closers = {} /\ cancellers = {} /\ readers = {}
  /\ holder = [s \in Sessions |-> "nobody"]
  /\ call = [s \in Sessions |-> "none"]
  /\ transaction = [s \in Sessions |-> "none"]
  /\ schemaLock = [s \in Sessions |-> "none"]
  /\ flag = [s \in Sessions |-> FALSE]
  /\ drain = NoDrain

-----------------------------------------------------------------------------
Ready == service = "ready" /\ available

\* A call inside the engine: waiting for the schema lock, or past it.
Running(s) == call[s] \in {"shared", "exclusive", "working"}

\* The engine session's own call guard is taken.
Busy(s) == Running(s) \/ s \in drain.taken

\* SqlSession.cancel: the flag, which also ends the lock wait of its transaction.
Cancels(some) ==
  flag' = [s \in Sessions |->
             flag[s] \/ (s \in some \intersect engines
                           /\ (Running(s) \/ transaction[s] # "none"))]

\* Nothing of the session is left to anybody: its identity may stand for a new one.
Unused(s) ==
  /\ s \notin engines \union tokens \union closers \union cancellers
  /\ call[s] = "none" /\ holder[s] # "closing"

\* The transaction ends, committed or aborted, and with it its locks and the flag.
Settles(s) ==
  /\ transaction' = [transaction EXCEPT ![s] = "none"]
  /\ schemaLock' = [schemaLock EXCEPT ![s] = "none"]
  /\ flag' = [flag EXCEPT ![s] = FALSE]

\* An abort that cannot restore its tables makes the owner unavailable.
Aborts(s) ==
  /\ Settles(s)
  /\ available' \in IF transaction[s] = "none" THEN {available} ELSE {available, FALSE}

-----------------------------------------------------------------------------
\* Tokens.

OpenSession(s) ==
  /\ Ready /\ ~stopped /\ ~refusing /\ open
  /\ Cardinality(tokens) < MaxSessions
  /\ s \in Clients /\ Unused(s)
  /\ tokens' = tokens \union {s}
  /\ engines' = engines \union {s}
  /\ holder' = [holder EXCEPT ![s] = "nobody"]
  /\ UNCHANGED <<serviceVars, idle, closers, cancellers, stopped, call, readers, refusing,
                 lockVars, drain>>

\* The clock: nothing has used the token for idle_timeout_seconds.
TimesOut(s) ==
  /\ s \in tokens \ idle /\ holder[s] # "call"
  /\ idle' = idle \union {s}
  /\ UNCHANGED <<serviceVars, tokens, holder, closers, cancellers, stopped, call, readers,
                 engineVars, lockVars, drain>>

\* call: one request of a token, or of the default session, at a time.
Enter(s) ==
  /\ Ready
  /\ IF s = Default THEN open ELSE s \in tokens /\ ~stopped
  /\ holder[s] = "nobody"
  /\ holder' = [holder EXCEPT ![s] = "call"]
  /\ call' = [call EXCEPT ![s] = "admitted"]
  /\ UNCHANGED <<serviceVars, tokens, idle, closers, cancellers, stopped, readers,
                 engineVars, lockVars, drain>>

\* A request that finds the owner quarantined says so from then on.
FindsUnavailable ==
  /\ service = "ready" /\ ~available
  /\ service' = "unavailable"
  /\ UNCHANGED <<open, available, httpVars, call, readers, engineVars, lockVars, drain>>

\* A tokenless text read gets a session of its own, after the service was found ready.
CheckReader(s) ==
  /\ Ready
  /\ s \in Clients /\ Unused(s)
  /\ call' = [call EXCEPT ![s] = "checked"]
  /\ UNCHANGED <<serviceVars, httpVars, readers, engineVars, lockVars, drain>>

\* Fault: a session is opened although the coordinator is closed.
OpenReaderUnchecked(s) ==
  /\ call[s] = "checked"
  /\ call' = [call EXCEPT ![s] = "admitted"]
  /\ engines' = engines \union {s}
  /\ readers' = readers \union {s}
  /\ UNCHANGED <<serviceVars, httpVars, refusing, lockVars, drain>>

OpenReader(s) ==
  /\ call[s] = "checked"
  /\ IF ~refusing /\ open /\ available
     THEN /\ call' = [call EXCEPT ![s] = "admitted"]
          /\ engines' = engines \union {s}
          /\ readers' = readers \union {s}
     ELSE /\ call' = [call EXCEPT ![s] = "none"]
          /\ UNCHANGED <<engines, readers>>
  /\ UNCHANGED <<serviceVars, httpVars, refusing, lockVars, drain>>

\* The call returns to the client.  A read's session is closed on the way, unless its
\* guard is taken, which only shutdown does.
Exit(s) ==
  /\ call[s] = "finished"
  /\ call' = [call EXCEPT ![s] = "none"]
  /\ holder' = [holder EXCEPT ![s] = IF s \in readers THEN @ ELSE "nobody"]
  /\ idle' = idle \ {s}
  /\ readers' = readers \ {s}
  /\ engines' = IF s \in readers /\ ~Busy(s) THEN engines \ {s} ELSE engines
  /\ UNCHANGED <<serviceVars, tokens, closers, cancellers, stopped, refusing, lockVars, drain>>

\* cancel looks at call_started first and asks the engine session afterwards.
AskCancel(s) ==
  /\ s \in tokens /\ holder[s] = "call"
  /\ cancellers' = cancellers \union {s}
  /\ UNCHANGED <<serviceVars, tokens, idle, holder, closers, stopped, call, readers,
                 engineVars, lockVars, drain>>

Cancel(s) ==
  /\ s \in cancellers
  /\ cancellers' = cancellers \ {s}
  /\ Cancels({s})
  /\ UNCHANGED <<serviceVars, tokens, idle, holder, closers, stopped, call, readers,
                 engineVars, transaction, schemaLock, drain>>

\* close cancels the call that runs and waits for its lock, but not for ever.
AskClose(s) ==
  /\ s \in tokens \ closers
  /\ closers' = closers \union {s}
  /\ IF holder[s] = "nobody" THEN UNCHANGED flag ELSE Cancels({s})
  /\ UNCHANGED <<serviceVars, tokens, idle, holder, cancellers, stopped, call, readers,
                 engineVars, transaction, schemaLock, drain>>

\* Fault: the entry goes although the session stays open.
CloseTimesOutForgetting(s) ==
  /\ s \in closers /\ holder[s] # "nobody"
  /\ closers' = closers \ {s}
  /\ tokens' = tokens \ {s}
  /\ UNCHANGED <<serviceVars, idle, holder, cancellers, stopped, call, readers,
                 engineVars, lockVars, drain>>

CloseTimesOut(s) ==
  /\ s \in closers /\ holder[s] # "nobody"
  /\ closers' = closers \ {s}
  /\ UNCHANGED <<serviceVars, tokens, idle, holder, cancellers, stopped, call, readers,
                 engineVars, lockVars, drain>>

\* The lock of a closed entry is never given back.
TakeToClose(s) ==
  /\ s \in closers /\ holder[s] = "nobody"
  /\ holder' = [holder EXCEPT ![s] = "closing"]
  /\ closers' = closers \ {s}
  /\ tokens' = tokens \ {s}
  /\ UNCHANGED <<serviceVars, idle, cancellers, stopped, call, readers, engineVars, lockVars,
                 drain>>

\* sweep claims the lock of an expired entry; a call makes an entry busy, never idle.
Sweep(s) ==
  /\ s \in tokens \intersect idle /\ holder[s] = "nobody"
  /\ holder' = [holder EXCEPT ![s] = "closing"]
  /\ tokens' = tokens \ {s}
  /\ UNCHANGED <<serviceVars, idle, closers, cancellers, stopped, call, readers, engineVars,
                 lockVars, drain>>

\* SqlSession.close, outside the registry's mutex.  It fails when shutdown has the
\* session's guard, and is not tried again.
CloseEngine(s) ==
  /\ holder[s] = "closing"
  /\ holder' = [holder EXCEPT ![s] = "closed"]
  /\ idle' = idle \ {s}
  /\ IF s \in engines /\ ~Busy(s)
     THEN Aborts(s) /\ engines' = engines \ {s}
     ELSE UNCHANGED <<lockVars, available, engines>>
  /\ UNCHANGED <<service, open, tokens, closers, cancellers, stopped, call, readers, refusing,
                 drain>>

-----------------------------------------------------------------------------
\* The engine call of a request.

Answers(s) == call' = [call EXCEPT ![s] = "finished"]
Rests == UNCHANGED <<service, open, httpVars, readers, engineVars, drain>>

\* The engine session is closed, or shutdown has its guard.
Refused(s) ==
  /\ call[s] = "admitted"
  /\ s \notin engines \/ Busy(s)
  /\ Answers(s)
  /\ Rests /\ UNCHANGED <<available, lockVars>>

Admitted(s) == call[s] = "admitted" /\ s \in engines /\ ~Busy(s)

\* A call that begins work without a transaction drops an old cancellation.
Opened(s, kind) ==
  /\ transaction' = [transaction EXCEPT ![s] = kind]
  /\ flag' = [flag EXCEPT ![s] = FALSE]

Begin(s) ==
  /\ Admitted(s) /\ s \in tokens /\ transaction[s] = "none"
  /\ Opened(s, "group")
  /\ Answers(s)
  /\ Rests /\ UNCHANGED <<available, schemaLock>>

\* END TRANSACTION, ROLLBACK, or any statement of a group that was cancelled.
EndGroup(s) ==
  /\ Admitted(s) /\ transaction[s] = "group"
  /\ Aborts(s)
  /\ Answers(s)
  /\ Rests

Statement(s) ==
  /\ Admitted(s)
  /\ IF transaction[s] = "none"
     THEN Opened(s, "implicit")
     ELSE ~flag[s] /\ UNCHANGED <<transaction, flag>>
  /\ call' = [call EXCEPT ![s] = IF schemaLock[s] = "S" THEN "working" ELSE "shared"]
  /\ Rests /\ UNCHANGED <<available, schemaLock>>

\* A definition inside a group is refused before it touches the group.
Definition(s) ==
  /\ Admitted(s) /\ s \notin readers
  /\ IF transaction[s] = "none"
     THEN /\ Opened(s, "implicit")
          /\ call' = [call EXCEPT ![s] = "exclusive"]
     ELSE Answers(s) /\ UNCHANGED <<transaction, flag>>
  /\ Rests /\ UNCHANGED <<available, schemaLock>>

Others(s) == {schemaLock[o] : o \in Sessions \ {s}}

Grant(s) ==
  /\ ~flag[s]
  /\ \/ /\ call[s] = "shared" /\ "X" \notin Others(s)
        /\ schemaLock' = [schemaLock EXCEPT ![s] = "S"]
     \/ /\ call[s] = "exclusive" /\ Others(s) = {"none"}
        /\ schemaLock' = [schemaLock EXCEPT ![s] = "X"]
  /\ call' = [call EXCEPT ![s] = "working"]
  /\ Rests /\ UNCHANGED <<available, transaction, flag>>

\* The wait was cancelled or its deadline has passed.
WaitFails(s) ==
  /\ call[s] \in {"shared", "exclusive"}
  /\ Aborts(s)
  /\ Answers(s)
  /\ Rests

\* A statement that succeeds ends its implicit transaction and keeps a group; one that
\* fails or was cancelled aborts either.
Finish(s) ==
  /\ call[s] = "working" /\ schemaLock[s] = "S"
  /\ \/ /\ transaction[s] = "group"
        /\ UNCHANGED <<available, lockVars>>
     \/ transaction[s] = "implicit" /\ Settles(s) /\ UNCHANGED available
     \/ Aborts(s)
  /\ Answers(s)
  /\ Rests

\* A definition has no images to restore: what it did is its own to undo.
FinishDefinition(s) ==
  /\ call[s] = "working" /\ schemaLock[s] = "X"
  /\ Settles(s)
  /\ Answers(s)
  /\ Rests

-----------------------------------------------------------------------------
\* Shutdown.  The cancellations of one pass over the sessions are one step.

InCall == {s \in tokens : holder[s] = "call"}

\* The registry refuses sessions and calls and forgets its entries.
RefusesAll ==
  /\ service' = "closing"
  /\ stopped' = TRUE
  /\ tokens' = {}

BeginShutdown ==
  /\ service = "ready" /\ drain.at = "none"
  /\ RefusesAll
  /\ Cancels(InCall \union {Default})
  /\ UNCHANGED <<open, available, idle, holder, closers, cancellers, call, readers, engineVars,
                 transaction, schemaLock, drain>>

CloseService ==
  /\ service \in {"ready", "closing", "unavailable"} /\ drain.at = "none"
  /\ RefusesAll
  /\ Cancels(InCall)
  /\ drain' = [NoDrain EXCEPT !.at = "admission"]
  /\ UNCHANGED <<open, available, idle, holder, closers, cancellers, call, readers, engineVars,
                 transaction, schemaLock>>

\* close ends: the tokenless path is free again.
GivesUp(state) ==
  /\ service' = state
  /\ drain' = NoDrain
  /\ holder' = [holder EXCEPT ![Default] = "nobody"]

\* Files that are closed already are not closed again.
TakeAdmission ==
  /\ drain.at = "admission" /\ holder[Default] = "nobody"
  /\ IF open
     THEN /\ drain' = [drain EXCEPT !.at = "coordinator"]
          /\ holder' = [holder EXCEPT ![Default] = "admission"]
          /\ UNCHANGED service
     ELSE GivesUp("closed")
  /\ UNCHANGED <<open, available, tokens, idle, closers, cancellers, stopped, call, readers,
                 engineVars, lockVars>>

AdmissionTimesOut ==
  /\ drain.at = "admission" /\ holder[Default] = "call"
  /\ service' = "unavailable"
  /\ drain' = NoDrain
  /\ UNCHANGED <<open, available, httpVars, call, readers, engineVars, lockVars>>

\* SessionCoordinator.shutdown: the sessions of this moment are cancelled, and no other
\* may come.
CloseCoordinator ==
  /\ drain.at = "coordinator"
  /\ refusing' = TRUE
  /\ Cancels(engines)
  /\ drain' = [at |-> IF engines = {} THEN "closing" ELSE "collecting",
               left |-> engines, taken |-> {}]
  /\ UNCHANGED <<serviceVars, httpVars, call, readers, engines, transaction, schemaLock>>

Collect(s) ==
  /\ drain.at = "collecting" /\ s \in drain.left
  /\ ~Running(s)
  /\ drain' = [at |-> IF drain.left = {s} THEN "closing" ELSE "collecting",
               left |-> drain.left \ {s}, taken |-> drain.taken \union {s}]
  /\ UNCHANGED <<serviceVars, httpVars, call, readers, engineVars, lockVars>>

CollectTimesOut ==
  /\ drain.at = "collecting"
  /\ refusing' = FALSE
  /\ GivesUp("unavailable")
  /\ UNCHANGED <<open, available, tokens, idle, closers, cancellers, stopped, call, readers,
                 engines, lockVars>>

\* Every session collected is closed, whatever its abort does; one abort that cannot
\* restore keeps the files open.
CloseTaken ==
  /\ drain.at = "closing"
  /\ engines' = engines \ drain.taken
  /\ transaction' = [s \in Sessions |-> IF s \in drain.taken THEN "none" ELSE transaction[s]]
  /\ schemaLock' = [s \in Sessions |-> IF s \in drain.taken THEN "none" ELSE schemaLock[s]]
  /\ flag' = [s \in Sessions |-> s \notin drain.taken /\ flag[s]]
  /\ \/ /\ drain' = [NoDrain EXCEPT !.at = "handles"]
        /\ UNCHANGED <<available, refusing, service, holder>>
     \/ /\ \E s \in drain.taken : transaction[s] # "none"
        /\ available' = FALSE
        /\ refusing' = FALSE
        /\ GivesUp("unavailable")
  /\ UNCHANGED <<open, tokens, idle, closers, cancellers, stopped, call, readers>>

\* The files count as closed even when one of them fails to.
CloseHandles ==
  /\ drain.at = "handles"
  /\ open' = FALSE
  /\ \E state \in {"closed", "unavailable"} : GivesUp(state)
  /\ UNCHANGED <<available, tokens, idle, closers, cancellers, stopped, call, readers,
                 engineVars, lockVars>>
=============================================================================
