----------------------------- MODULE ServiceProofs -----------------------------
(***************************************************************************)
(* Theorems about Service, for every set of clients and identities and for *)
(* every scenario: shutdown closes the files under nobody, the registry    *)
(* names no missing file, and a change is whole or did not happen.         *)
(***************************************************************************)
EXTENDS Service, TLAPS

-----------------------------------------------------------------------------
(***************************************************************************)
(* The invariant of the sessions                                           *)
(***************************************************************************)
SessionTypes ==
    /\ service \in {"ready", "closing", "unavailable", "closed", "down"}
    /\ open \in BOOLEAN
    /\ engines \subseteq Sessions
    /\ tokens \subseteq Clients /\ closers \subseteq Clients /\ readers \subseteq Clients
    /\ holder \in [Sessions -> {"nobody", "call", "closing", "closed", "admission"}]
    /\ call \in [Sessions -> {"none", "checked", "admitted", "shared", "exclusive",
                              "working", "finished"}]
    /\ transaction \in [Sessions -> {"none", "group", "implicit"}]
    /\ schemaLock \in [Sessions -> {"none", "S", "X"}]
    /\ drain \in [at: {"none", "admission", "coordinator", "collecting", "closing", "handles"},
                  left: SUBSET Sessions, taken: SUBSET Sessions]

\* Work is done inside an open engine session, by the request that holds its lock.
WorkHasSession ==
    \A s \in Sessions :
        /\ Running(s) => s \in engines /\ transaction[s] # "none"
        /\ transaction[s] # "none" => s \in engines
        /\ transaction[s] = "implicit" => Running(s)
        /\ schemaLock[s] # "none" => transaction[s] # "none"
        /\ call[s] \notin {"none", "checked"} /\ s \notin readers => holder[s] = "call"

\* The session of a tokenless read is nobody else's, and never in a group.
ReadersAreApart ==
    \A s \in Sessions :
        /\ s \in readers => /\ s \notin tokens
                            /\ call[s] \notin {"none", "checked"}
                            /\ transaction[s] # "group"
        /\ call[s] = "checked" => s \in Clients \ (tokens \union engines)

\* The thread that stops the service keeps new sessions out until it has them all.
DrainCatchesAll ==
    /\ drain.at \in {"coordinator", "collecting", "closing", "handles"} =>
           holder[Default] = "admission"
    /\ drain.at \in {"collecting", "closing", "handles"} => refusing
    /\ drain.at = "collecting" => engines \subseteq drain.left \union drain.taken
    /\ drain.at = "closing" => engines \subseteq drain.taken
    /\ drain.at = "handles" => engines = {}
    /\ \A s \in drain.taken : ~Running(s)
    /\ ~open => engines = {}

\* Nothing runs in a process that has ended.
DownIsQuiet ==
    service = "down" => drain.at = "none" /\ \A s \in Sessions : call[s] = "none"

SessionIInv ==
    SessionTypes /\ WorkHasSession /\ ReadersAreApart /\ DrainCatchesAll /\ DownIsQuiet

\* A process that has just opened its files is at rest.
LEMMA InitSessionIInv == ASSUME InitSessions PROVE SessionIInv
BY DEF InitSessions, SessionIInv, SessionTypes, WorkHasSession, ReadersAreApart,
       DrainCatchesAll, DownIsQuiet, Sessions, NoDrain, Running

\* What a session, the clocks and the thread that stops the service do by themselves.
OwnStep ==
    \/ \E s \in Sessions :
         \/ Enter(s) \/ CheckReader(s) \/ OpenReader(s) \/ Refused(s) \/ Begin(s)
         \/ EndGroup(s) \/ Statement(s) \/ Definition(s) \/ Grant(s) \/ WaitFails(s)
         \/ Finish(s) \/ Exit(s) \/ OpenSession(s)
         \/ TakeToClose(s) \/ CloseTimesOut(s) \/ Sweep(s) \/ CloseEngine(s)
         \/ TimesOut(s) \/ AskCancel(s) \/ AskClose(s) \/ Cancel(s) \/ Collect(s)
    \/ BeginShutdown \/ CloseService \/ FindsUnavailable \/ TakeAdmission
    \/ AdmissionTimesOut \/ CloseCoordinator \/ CollectTimesOut \/ CloseTaken
    \/ CloseHandles

\* The end of a definition is a step of the tables too.
SessionStep == OwnStep \/ \E s \in Sessions : FinishDefinition(s)

\* Every step of a request, of the clocks and of the stop keeps the invariant.
LEMMA StepSessionIInv == ASSUME SessionIInv, SessionStep PROVE SessionIInv'
<1> USE DefaultAssumption DEF SessionIInv, Sessions, Running
<1>1. ASSUME NEW s \in Sessions, Enter(s) PROVE SessionIInv'
  <2> USE <1>1 DEF Enter, Ready, serviceVars, httpVars, engineVars, lockVars
  <2>1. SessionTypes'
    BY DEF SessionTypes
  <2>2. WorkHasSession'
    BY DEF SessionTypes, WorkHasSession, ReadersAreApart, DrainCatchesAll
  <2>3. ReadersAreApart'
    BY DEF SessionTypes, WorkHasSession, ReadersAreApart, DrainCatchesAll
  <2>4. DrainCatchesAll'
    BY DEF SessionTypes, WorkHasSession, ReadersAreApart, DrainCatchesAll
  <2>5. DownIsQuiet'
    BY DEF SessionTypes, DownIsQuiet
  <2> QED BY <2>1, <2>2, <2>3, <2>4, <2>5
<1>2. ASSUME NEW s \in Sessions, CheckReader(s) PROVE SessionIInv'
  <2> USE <1>2 DEF CheckReader, Unused, Ready, serviceVars, httpVars, engineVars, lockVars
  <2>1. SessionTypes'
    BY DEF SessionTypes
  <2>2. WorkHasSession'
    BY DEF SessionTypes, WorkHasSession, ReadersAreApart, DrainCatchesAll
  <2>3. ReadersAreApart'
    BY DEF SessionTypes, WorkHasSession, ReadersAreApart, DrainCatchesAll
  <2>4. DrainCatchesAll'
    BY DEF SessionTypes, WorkHasSession, ReadersAreApart, DrainCatchesAll
  <2>5. DownIsQuiet'
    BY DEF SessionTypes, DownIsQuiet
  <2> QED BY <2>1, <2>2, <2>3, <2>4, <2>5
<1>3. ASSUME NEW s \in Sessions, OpenReader(s) PROVE SessionIInv'
  <2> USE <1>3 DEF OpenReader, serviceVars, httpVars, engineVars, lockVars
  <2>1. SessionTypes'
    BY DEF SessionTypes, ReadersAreApart
  <2>2. WorkHasSession'
    BY DEF SessionTypes, WorkHasSession, ReadersAreApart, DrainCatchesAll
  <2>3. ReadersAreApart'
    BY DEF SessionTypes, WorkHasSession, ReadersAreApart, DrainCatchesAll
  <2>4. DrainCatchesAll'
    BY DEF SessionTypes, WorkHasSession, ReadersAreApart, DrainCatchesAll
  <2>5. DownIsQuiet'
    BY DEF SessionTypes, DownIsQuiet
  <2> QED BY <2>1, <2>2, <2>3, <2>4, <2>5
<1>4. ASSUME NEW s \in Sessions, Refused(s) PROVE SessionIInv'
  <2> USE <1>4 DEF Refused, Answers, Rests, Busy, serviceVars, httpVars, engineVars,
     lockVars
  <2>1. SessionTypes'
    BY DEF SessionTypes
  <2>2. WorkHasSession'
    BY DEF SessionTypes, WorkHasSession, ReadersAreApart, DrainCatchesAll
  <2>3. ReadersAreApart'
    BY DEF SessionTypes, WorkHasSession, ReadersAreApart, DrainCatchesAll
  <2>4. DrainCatchesAll'
    BY DEF SessionTypes, WorkHasSession, ReadersAreApart, DrainCatchesAll
  <2>5. DownIsQuiet'
    BY DEF SessionTypes, DownIsQuiet
  <2> QED BY <2>1, <2>2, <2>3, <2>4, <2>5
<1>5. ASSUME NEW s \in Sessions, Begin(s) PROVE SessionIInv'
  <2> USE <1>5 DEF Begin, Admitted, Busy, Opened, Answers, Rests, serviceVars, httpVars,
                   engineVars, lockVars
  <2>1. SessionTypes'
    BY DEF SessionTypes
  <2>2. WorkHasSession'
    BY DEF SessionTypes, WorkHasSession, ReadersAreApart, DrainCatchesAll
  <2>3. ReadersAreApart'
    BY DEF SessionTypes, WorkHasSession, ReadersAreApart, DrainCatchesAll
  <2>4. DrainCatchesAll'
    BY DEF SessionTypes, WorkHasSession, ReadersAreApart, DrainCatchesAll
  <2>5. DownIsQuiet'
    BY DEF SessionTypes, DownIsQuiet
  <2> QED BY <2>1, <2>2, <2>3, <2>4, <2>5
<1>6. ASSUME NEW s \in Sessions, EndGroup(s) PROVE SessionIInv'
  <2> USE <1>6 DEF EndGroup, Admitted, Busy, Aborts, Settles, Answers, Rests, serviceVars,
                   httpVars, engineVars, lockVars
  <2>1. SessionTypes'
    BY DEF SessionTypes
  <2>2. WorkHasSession'
    BY DEF SessionTypes, WorkHasSession, ReadersAreApart, DrainCatchesAll
  <2>3. ReadersAreApart'
    BY DEF SessionTypes, WorkHasSession, ReadersAreApart, DrainCatchesAll
  <2>4. DrainCatchesAll'
    BY DEF SessionTypes, WorkHasSession, ReadersAreApart, DrainCatchesAll
  <2>5. DownIsQuiet'
    BY DEF SessionTypes, DownIsQuiet
  <2> QED BY <2>1, <2>2, <2>3, <2>4, <2>5
<1>7. ASSUME NEW s \in Sessions, Statement(s) PROVE SessionIInv'
  <2> USE <1>7 DEF Statement, Admitted, Busy, Opened, Answers, Rests, serviceVars, httpVars,
                   engineVars, lockVars
  <2>1. SessionTypes'
    BY DEF SessionTypes
  <2>2. WorkHasSession'
    BY DEF SessionTypes, WorkHasSession, ReadersAreApart, DrainCatchesAll
  <2>3. ReadersAreApart'
    BY DEF SessionTypes, WorkHasSession, ReadersAreApart, DrainCatchesAll
  <2>4. DrainCatchesAll'
    BY DEF SessionTypes, WorkHasSession, ReadersAreApart, DrainCatchesAll
  <2>5. DownIsQuiet'
    BY DEF SessionTypes, DownIsQuiet
  <2> QED BY <2>1, <2>2, <2>3, <2>4, <2>5
<1>8. ASSUME NEW s \in Sessions, Definition(s) PROVE SessionIInv'
  <2> USE <1>8 DEF Definition, Admitted, Busy, Opened, Answers, Rests, serviceVars,
     httpVars,
                   engineVars, lockVars
  <2>1. SessionTypes'
    BY DEF SessionTypes
  <2>2. WorkHasSession'
    BY DEF SessionTypes, WorkHasSession, ReadersAreApart, DrainCatchesAll
  <2>3. ReadersAreApart'
    BY DEF SessionTypes, WorkHasSession, ReadersAreApart, DrainCatchesAll
  <2>4. DrainCatchesAll'
    BY DEF SessionTypes, WorkHasSession, ReadersAreApart, DrainCatchesAll
  <2>5. DownIsQuiet'
    BY DEF SessionTypes, DownIsQuiet
  <2> QED BY <2>1, <2>2, <2>3, <2>4, <2>5
<1>9. ASSUME NEW s \in Sessions, Grant(s) PROVE SessionIInv'
  <2> USE <1>9 DEF Grant, Rests, serviceVars, httpVars, engineVars, lockVars
  <2>1. SessionTypes'
    BY DEF SessionTypes
  <2>2. WorkHasSession'
    BY DEF SessionTypes, WorkHasSession, ReadersAreApart, DrainCatchesAll
  <2>3. ReadersAreApart'
    BY DEF SessionTypes, WorkHasSession, ReadersAreApart, DrainCatchesAll
  <2>4. DrainCatchesAll'
    BY DEF SessionTypes, WorkHasSession, ReadersAreApart, DrainCatchesAll
  <2>5. DownIsQuiet'
    BY DEF SessionTypes, DownIsQuiet
  <2> QED BY <2>1, <2>2, <2>3, <2>4, <2>5
<1>10. ASSUME NEW s \in Sessions, WaitFails(s) PROVE SessionIInv'
  <2> USE <1>10 DEF WaitFails, Aborts, Settles, Answers, Rests, serviceVars, httpVars,
     engineVars,
                    lockVars
  <2>1. SessionTypes'
    BY DEF SessionTypes
  <2>2. WorkHasSession'
    BY DEF SessionTypes, WorkHasSession, ReadersAreApart, DrainCatchesAll
  <2>3. ReadersAreApart'
    BY DEF SessionTypes, WorkHasSession, ReadersAreApart, DrainCatchesAll
  <2>4. DrainCatchesAll'
    BY DEF SessionTypes, WorkHasSession, ReadersAreApart, DrainCatchesAll
  <2>5. DownIsQuiet'
    BY DEF SessionTypes, DownIsQuiet
  <2> QED BY <2>1, <2>2, <2>3, <2>4, <2>5
<1>11. ASSUME NEW s \in Sessions, Finish(s) PROVE SessionIInv'
  <2> USE <1>11 DEF Finish, Aborts, Settles, Answers, Rests, serviceVars, httpVars,
     engineVars,
                    lockVars
  <2>1. CASE transaction[s] = "group" /\ UNCHANGED lockVars
    <3>1. SessionTypes'
      BY <2>1 DEF SessionTypes
    <3>2. WorkHasSession'
      BY <2>1 DEF SessionTypes, WorkHasSession, ReadersAreApart, DrainCatchesAll
    <3>3. ReadersAreApart'
      BY <2>1 DEF SessionTypes, WorkHasSession, ReadersAreApart, DrainCatchesAll
    <3>4. DrainCatchesAll'
      BY <2>1 DEF SessionTypes, WorkHasSession, ReadersAreApart, DrainCatchesAll
    <3>5. DownIsQuiet'
      BY <2>1 DEF SessionTypes, DownIsQuiet
    <3> QED BY <3>1, <3>2, <3>3, <3>4, <3>5
  <2>2. CASE Settles(s)
    <3>1. SessionTypes'
      BY <2>2 DEF SessionTypes
    <3>2. WorkHasSession'
      BY <2>2 DEF SessionTypes, WorkHasSession, ReadersAreApart, DrainCatchesAll
    <3>3. ReadersAreApart'
      BY <2>2 DEF SessionTypes, WorkHasSession, ReadersAreApart, DrainCatchesAll
    <3>4. DrainCatchesAll'
      BY <2>2 DEF SessionTypes, WorkHasSession, ReadersAreApart, DrainCatchesAll
    <3>5. DownIsQuiet'
      BY <2>2 DEF SessionTypes, DownIsQuiet
    <3> QED BY <3>1, <3>2, <3>3, <3>4, <3>5
  <2> QED BY <2>1, <2>2
<1>12. ASSUME NEW s \in Sessions, FinishDefinition(s) PROVE SessionIInv'
  <2> USE <1>12 DEF FinishDefinition, Settles, Answers, Rests, serviceVars, httpVars,
     engineVars,
                    lockVars
  <2>1. SessionTypes'
    BY DEF SessionTypes
  <2>2. WorkHasSession'
    BY DEF SessionTypes, WorkHasSession, ReadersAreApart, DrainCatchesAll
  <2>3. ReadersAreApart'
    BY DEF SessionTypes, WorkHasSession, ReadersAreApart, DrainCatchesAll
  <2>4. DrainCatchesAll'
    BY DEF SessionTypes, WorkHasSession, ReadersAreApart, DrainCatchesAll
  <2>5. DownIsQuiet'
    BY DEF SessionTypes, DownIsQuiet
  <2> QED BY <2>1, <2>2, <2>3, <2>4, <2>5
<1>13. ASSUME NEW s \in Sessions, Exit(s) PROVE SessionIInv'
  <2> USE <1>13 DEF Exit, Busy, serviceVars, httpVars, engineVars, lockVars
  <2>1. SessionTypes'
    BY DEF SessionTypes
  <2>2. WorkHasSession'
    BY DEF SessionTypes, WorkHasSession, ReadersAreApart, DrainCatchesAll
  <2>3. ReadersAreApart'
    BY DEF SessionTypes, WorkHasSession, ReadersAreApart, DrainCatchesAll
  <2>4. DrainCatchesAll'
    BY DEF SessionTypes, WorkHasSession, ReadersAreApart, DrainCatchesAll
  <2>5. DownIsQuiet'
    BY DEF SessionTypes, DownIsQuiet
  <2> QED BY <2>1, <2>2, <2>3, <2>4, <2>5
<1>14. ASSUME NEW s \in Sessions, OpenSession(s) PROVE SessionIInv'
  <2> USE <1>14 DEF OpenSession, Unused, Ready, serviceVars, httpVars, engineVars, lockVars
  <2>1. SessionTypes'
    BY DEF SessionTypes
  <2>2. WorkHasSession'
    BY DEF SessionTypes, WorkHasSession, ReadersAreApart, DrainCatchesAll
  <2>3. ReadersAreApart'
    BY DEF SessionTypes, WorkHasSession, ReadersAreApart, DrainCatchesAll
  <2>4. DrainCatchesAll'
    BY DEF SessionTypes, WorkHasSession, ReadersAreApart, DrainCatchesAll
  <2>5. DownIsQuiet'
    BY DEF SessionTypes, DownIsQuiet
  <2> QED BY <2>1, <2>2, <2>3, <2>4, <2>5
<1>15. ASSUME NEW s \in Sessions, TakeToClose(s) PROVE SessionIInv'
  <2> USE <1>15 DEF TakeToClose, serviceVars, httpVars, engineVars, lockVars
  <2>1. SessionTypes'
    BY DEF SessionTypes
  <2>2. WorkHasSession'
    BY DEF SessionTypes, WorkHasSession, ReadersAreApart, DrainCatchesAll
  <2>3. ReadersAreApart'
    BY DEF SessionTypes, WorkHasSession, ReadersAreApart, DrainCatchesAll
  <2>4. DrainCatchesAll'
    BY DEF SessionTypes, WorkHasSession, ReadersAreApart, DrainCatchesAll
  <2>5. DownIsQuiet'
    BY DEF SessionTypes, DownIsQuiet
  <2> QED BY <2>1, <2>2, <2>3, <2>4, <2>5
<1>16. ASSUME NEW s \in Sessions, CloseTimesOut(s) PROVE SessionIInv'
  <2> USE <1>16 DEF CloseTimesOut, serviceVars, httpVars, engineVars, lockVars
  <2>1. SessionTypes'
    BY DEF SessionTypes
  <2>2. WorkHasSession'
    BY DEF SessionTypes, WorkHasSession, ReadersAreApart, DrainCatchesAll
  <2>3. ReadersAreApart'
    BY DEF SessionTypes, WorkHasSession, ReadersAreApart, DrainCatchesAll
  <2>4. DrainCatchesAll'
    BY DEF SessionTypes, WorkHasSession, ReadersAreApart, DrainCatchesAll
  <2>5. DownIsQuiet'
    BY DEF SessionTypes, DownIsQuiet
  <2> QED BY <2>1, <2>2, <2>3, <2>4, <2>5
<1>17. ASSUME NEW s \in Sessions, Sweep(s) PROVE SessionIInv'
  <2> USE <1>17 DEF Sweep, serviceVars, httpVars, engineVars, lockVars
  <2>1. SessionTypes'
    BY DEF SessionTypes
  <2>2. WorkHasSession'
    BY DEF SessionTypes, WorkHasSession, ReadersAreApart, DrainCatchesAll
  <2>3. ReadersAreApart'
    BY DEF SessionTypes, WorkHasSession, ReadersAreApart, DrainCatchesAll
  <2>4. DrainCatchesAll'
    BY DEF SessionTypes, WorkHasSession, ReadersAreApart, DrainCatchesAll
  <2>5. DownIsQuiet'
    BY DEF SessionTypes, DownIsQuiet
  <2> QED BY <2>1, <2>2, <2>3, <2>4, <2>5
<1>18. ASSUME NEW s \in Sessions, CloseEngine(s) PROVE SessionIInv'
  <2> USE <1>18 DEF CloseEngine, Busy, Aborts, Settles, serviceVars, httpVars, engineVars,
     lockVars
  <2>1. CASE s \in engines /\ ~Busy(s)
    <3>1. SessionTypes'
      BY <2>1 DEF SessionTypes
    <3>2. WorkHasSession'
      <4>1. /\ transaction'[s] = "none" /\ schemaLock'[s] = "none" /\ ~Running(s)
            /\ call' = call /\ readers' = readers /\ engines' = engines \ {s}
            /\ call[s] \in {"none", "checked"} \/ s \in readers
        BY <2>1 DEF SessionTypes, WorkHasSession
      <4>2. \A u \in Sessions : u # s => /\ transaction'[u] = transaction[u]
                                       /\ schemaLock'[u] = schemaLock[u]
                                       /\ holder'[u] = holder[u]
        BY <2>1 DEF SessionTypes
      <4> QED BY <4>1, <4>2 DEF WorkHasSession
    <3>3. ReadersAreApart'
      BY <2>1 DEF SessionTypes, WorkHasSession, ReadersAreApart, DrainCatchesAll
    <3>4. DrainCatchesAll'
      BY <2>1 DEF SessionTypes, WorkHasSession, ReadersAreApart, DrainCatchesAll
    <3>5. DownIsQuiet'
      BY <2>1 DEF SessionTypes, DownIsQuiet
    <3> QED BY <3>1, <3>2, <3>3, <3>4, <3>5
  <2>2. CASE ~(s \in engines /\ ~Busy(s))
    <3>1. SessionTypes'
      BY <2>2 DEF SessionTypes
    <3>2. WorkHasSession'
      <4>1. UNCHANGED <<transaction, schemaLock, engines, call, readers>>
        BY <2>2
      <4>2. call[s] \in {"none", "checked"} \/ s \in readers
        BY DEF WorkHasSession
      <4>3. \A u \in Sessions : u # s => holder'[u] = holder[u]
        BY DEF SessionTypes
      <4> QED BY <4>1, <4>2, <4>3 DEF WorkHasSession
    <3>3. ReadersAreApart'
      BY <2>2 DEF SessionTypes, WorkHasSession, ReadersAreApart, DrainCatchesAll
    <3>4. DrainCatchesAll'
      BY <2>2 DEF SessionTypes, WorkHasSession, ReadersAreApart, DrainCatchesAll
    <3>5. DownIsQuiet'
      BY <2>2 DEF SessionTypes, DownIsQuiet
    <3> QED BY <3>1, <3>2, <3>3, <3>4, <3>5
  <2> QED BY <2>1, <2>2
<1>19. ASSUME NEW s \in Sessions, TimesOut(s) PROVE SessionIInv'
  <2> USE <1>19 DEF TimesOut, serviceVars, httpVars, engineVars, lockVars
  <2>1. SessionTypes'
    BY DEF SessionTypes
  <2>2. WorkHasSession'
    BY DEF SessionTypes, WorkHasSession, ReadersAreApart, DrainCatchesAll
  <2>3. ReadersAreApart'
    BY DEF SessionTypes, WorkHasSession, ReadersAreApart, DrainCatchesAll
  <2>4. DrainCatchesAll'
    BY DEF SessionTypes, WorkHasSession, ReadersAreApart, DrainCatchesAll
  <2>5. DownIsQuiet'
    BY DEF SessionTypes, DownIsQuiet
  <2> QED BY <2>1, <2>2, <2>3, <2>4, <2>5
<1>20. ASSUME NEW s \in Sessions, AskCancel(s) PROVE SessionIInv'
  <2> USE <1>20 DEF AskCancel, serviceVars, httpVars, engineVars, lockVars
  <2>1. SessionTypes'
    BY DEF SessionTypes
  <2>2. WorkHasSession'
    BY DEF SessionTypes, WorkHasSession, ReadersAreApart, DrainCatchesAll
  <2>3. ReadersAreApart'
    BY DEF SessionTypes, WorkHasSession, ReadersAreApart, DrainCatchesAll
  <2>4. DrainCatchesAll'
    BY DEF SessionTypes, WorkHasSession, ReadersAreApart, DrainCatchesAll
  <2>5. DownIsQuiet'
    BY DEF SessionTypes, DownIsQuiet
  <2> QED BY <2>1, <2>2, <2>3, <2>4, <2>5
<1>21. ASSUME NEW s \in Sessions, AskClose(s) PROVE SessionIInv'
  <2> USE <1>21 DEF AskClose, Cancels, serviceVars, httpVars, engineVars, lockVars
  <2>1. SessionTypes'
    BY DEF SessionTypes
  <2>2. WorkHasSession'
    BY DEF SessionTypes, WorkHasSession, ReadersAreApart, DrainCatchesAll
  <2>3. ReadersAreApart'
    BY DEF SessionTypes, WorkHasSession, ReadersAreApart, DrainCatchesAll
  <2>4. DrainCatchesAll'
    BY DEF SessionTypes, WorkHasSession, ReadersAreApart, DrainCatchesAll
  <2>5. DownIsQuiet'
    BY DEF SessionTypes, DownIsQuiet
  <2> QED BY <2>1, <2>2, <2>3, <2>4, <2>5
<1>22. ASSUME NEW s \in Sessions, Cancel(s) PROVE SessionIInv'
  <2> USE <1>22 DEF Cancel, Cancels, serviceVars, httpVars, engineVars, lockVars
  <2>1. SessionTypes'
    BY DEF SessionTypes
  <2>2. WorkHasSession'
    BY DEF SessionTypes, WorkHasSession, ReadersAreApart, DrainCatchesAll
  <2>3. ReadersAreApart'
    BY DEF SessionTypes, WorkHasSession, ReadersAreApart, DrainCatchesAll
  <2>4. DrainCatchesAll'
    BY DEF SessionTypes, WorkHasSession, ReadersAreApart, DrainCatchesAll
  <2>5. DownIsQuiet'
    BY DEF SessionTypes, DownIsQuiet
  <2> QED BY <2>1, <2>2, <2>3, <2>4, <2>5
<1>23. ASSUME NEW s \in Sessions, Collect(s) PROVE SessionIInv'
  <2> USE <1>23 DEF Collect, serviceVars, httpVars, engineVars, lockVars
  <2>1. SessionTypes'
    BY DEF SessionTypes
  <2>2. WorkHasSession'
    BY DEF SessionTypes, WorkHasSession, ReadersAreApart, DrainCatchesAll
  <2>3. ReadersAreApart'
    BY DEF SessionTypes, WorkHasSession, ReadersAreApart, DrainCatchesAll
  <2>4. DrainCatchesAll'
    BY DEF SessionTypes, WorkHasSession, ReadersAreApart, DrainCatchesAll
  <2>5. DownIsQuiet'
    BY DEF SessionTypes, DownIsQuiet
  <2> QED BY <2>1, <2>2, <2>3, <2>4, <2>5
<1>24. ASSUME BeginShutdown PROVE SessionIInv'
  <2> USE <1>24 DEF BeginShutdown, RefusesAll, Cancels, serviceVars, httpVars, engineVars,
     lockVars
  <2>1. SessionTypes'
    BY DEF SessionTypes
  <2>2. WorkHasSession'
    BY DEF SessionTypes, WorkHasSession, ReadersAreApart, DrainCatchesAll
  <2>3. ReadersAreApart'
    BY DEF SessionTypes, WorkHasSession, ReadersAreApart, DrainCatchesAll
  <2>4. DrainCatchesAll'
    BY DEF SessionTypes, WorkHasSession, ReadersAreApart, DrainCatchesAll
  <2>5. DownIsQuiet'
    BY DEF SessionTypes, DownIsQuiet
  <2> QED BY <2>1, <2>2, <2>3, <2>4, <2>5
<1>25. ASSUME CloseService PROVE SessionIInv'
  <2> USE <1>25 DEF CloseService, RefusesAll, NoDrain, Cancels, serviceVars, httpVars,
     engineVars,
                    lockVars
  <2>1. SessionTypes'
    BY DEF SessionTypes
  <2>2. WorkHasSession'
    BY DEF SessionTypes, WorkHasSession, ReadersAreApart, DrainCatchesAll
  <2>3. ReadersAreApart'
    BY DEF SessionTypes, WorkHasSession, ReadersAreApart, DrainCatchesAll
  <2>4. DrainCatchesAll'
    BY DEF SessionTypes, WorkHasSession, ReadersAreApart, DrainCatchesAll
  <2>5. DownIsQuiet'
    BY DEF SessionTypes, DownIsQuiet
  <2> QED BY <2>1, <2>2, <2>3, <2>4, <2>5
<1>26. ASSUME FindsUnavailable PROVE SessionIInv'
  <2> USE <1>26 DEF FindsUnavailable, serviceVars, httpVars, engineVars, lockVars
  <2>1. SessionTypes'
    BY DEF SessionTypes
  <2>2. WorkHasSession'
    BY DEF SessionTypes, WorkHasSession, ReadersAreApart, DrainCatchesAll
  <2>3. ReadersAreApart'
    BY DEF SessionTypes, WorkHasSession, ReadersAreApart, DrainCatchesAll
  <2>4. DrainCatchesAll'
    BY DEF SessionTypes, WorkHasSession, ReadersAreApart, DrainCatchesAll
  <2>5. DownIsQuiet'
    BY DEF SessionTypes, DownIsQuiet
  <2> QED BY <2>1, <2>2, <2>3, <2>4, <2>5
<1>27. ASSUME TakeAdmission PROVE SessionIInv'
  <2> USE <1>27 DEF TakeAdmission, GivesUp, NoDrain, serviceVars, httpVars, engineVars,
     lockVars
  <2>1. SessionTypes'
    BY DEF SessionTypes
  <2>2. WorkHasSession'
    BY DEF SessionTypes, WorkHasSession, ReadersAreApart, DrainCatchesAll
  <2>3. ReadersAreApart'
    BY DEF SessionTypes, WorkHasSession, ReadersAreApart, DrainCatchesAll
  <2>4. DrainCatchesAll'
    BY DEF SessionTypes, WorkHasSession, ReadersAreApart, DrainCatchesAll
  <2>5. DownIsQuiet'
    BY DEF SessionTypes, DownIsQuiet
  <2> QED BY <2>1, <2>2, <2>3, <2>4, <2>5
<1>28. ASSUME AdmissionTimesOut PROVE SessionIInv'
  <2> USE <1>28 DEF AdmissionTimesOut, NoDrain, serviceVars, httpVars, engineVars, lockVars
  <2>1. SessionTypes'
    BY DEF SessionTypes
  <2>2. WorkHasSession'
    BY DEF SessionTypes, WorkHasSession, ReadersAreApart, DrainCatchesAll
  <2>3. ReadersAreApart'
    BY DEF SessionTypes, WorkHasSession, ReadersAreApart, DrainCatchesAll
  <2>4. DrainCatchesAll'
    BY DEF SessionTypes, WorkHasSession, ReadersAreApart, DrainCatchesAll
  <2>5. DownIsQuiet'
    BY DEF SessionTypes, DownIsQuiet
  <2> QED BY <2>1, <2>2, <2>3, <2>4, <2>5
<1>29. ASSUME CloseCoordinator PROVE SessionIInv'
  <2> USE <1>29 DEF CloseCoordinator, Cancels, serviceVars, httpVars, engineVars, lockVars
  <2>1. SessionTypes'
    BY DEF SessionTypes
  <2>2. WorkHasSession'
    BY DEF SessionTypes, WorkHasSession, ReadersAreApart, DrainCatchesAll
  <2>3. ReadersAreApart'
    BY DEF SessionTypes, WorkHasSession, ReadersAreApart, DrainCatchesAll
  <2>4. DrainCatchesAll'
    BY DEF SessionTypes, WorkHasSession, ReadersAreApart, DrainCatchesAll
  <2>5. DownIsQuiet'
    BY DEF SessionTypes, DownIsQuiet
  <2> QED BY <2>1, <2>2, <2>3, <2>4, <2>5
<1>30. ASSUME CollectTimesOut PROVE SessionIInv'
  <2> USE <1>30 DEF CollectTimesOut, GivesUp, NoDrain, serviceVars, httpVars, engineVars,
     lockVars
  <2>1. SessionTypes'
    BY DEF SessionTypes
  <2>2. WorkHasSession'
    BY DEF SessionTypes, WorkHasSession, ReadersAreApart, DrainCatchesAll
  <2>3. ReadersAreApart'
    BY DEF SessionTypes, WorkHasSession, ReadersAreApart, DrainCatchesAll
  <2>4. DrainCatchesAll'
    BY DEF SessionTypes, WorkHasSession, ReadersAreApart, DrainCatchesAll
  <2>5. DownIsQuiet'
    BY DEF SessionTypes, DownIsQuiet
  <2> QED BY <2>1, <2>2, <2>3, <2>4, <2>5
<1>31. ASSUME CloseTaken PROVE SessionIInv'
  <2> USE <1>31 DEF CloseTaken, GivesUp, NoDrain, serviceVars, httpVars, engineVars,
     lockVars
  <2>1. SessionTypes'
    BY DEF SessionTypes
  <2>2. /\ drain.at = "closing" /\ engines \subseteq drain.taken /\ engines' = {}
        /\ UNCHANGED <<open, tokens, call, readers>>
    BY DEF SessionTypes, DrainCatchesAll
  <2>3. \A s \in Sessions : transaction'[s] = "none" /\ schemaLock'[s] = "none" /\ ~Running(s)
    <3>1. ASSUME NEW s \in Sessions, s \in drain.taken
          PROVE  transaction'[s] = "none" /\ schemaLock'[s] = "none" /\ ~Running(s)
      BY <3>1 DEF SessionTypes, DrainCatchesAll
    <3>2. ASSUME NEW s \in Sessions, s \notin drain.taken
          PROVE  transaction'[s] = "none" /\ schemaLock'[s] = "none" /\ ~Running(s)
      BY <2>2, <3>2 DEF SessionTypes, WorkHasSession
    <3> QED BY <3>1, <3>2
  <2>4. \/ /\ drain' = [NoDrain EXCEPT !.at = "handles"]
           /\ UNCHANGED <<refusing, service, holder>>
        \/ GivesUp("unavailable")
    OBVIOUS
  <2>5. WorkHasSession'
    <3>1. \A s \in Sessions : call[s] \notin {"none", "checked"} /\ s \notin readers =>
            holder'[s] = "call"
      <4>1. call[Default] \in {"none", "checked"} \/ Default \in readers
        BY <2>2 DEF WorkHasSession, DrainCatchesAll
      <4>2. \A s \in Sessions : s # Default => holder'[s] = holder[s]
        BY <2>4 DEF SessionTypes
      <4> QED BY <4>1, <4>2 DEF WorkHasSession
    <3> QED BY <2>2, <2>3, <3>1 DEF WorkHasSession
  <2>6. ReadersAreApart'
    BY <2>2, <2>3 DEF SessionTypes, ReadersAreApart
  <2>7. DrainCatchesAll'
    <3>1. CASE GivesUp("unavailable")
      BY <2>2, <3>1 DEF DrainCatchesAll
    <3>2. CASE drain' = [NoDrain EXCEPT !.at = "handles"] /\ UNCHANGED <<refusing, service, holder>>
      BY <2>2, <3>2 DEF DrainCatchesAll
    <3> QED BY <2>4, <3>1, <3>2
  <2>8. DownIsQuiet'
    BY DEF SessionTypes, DownIsQuiet
  <2> QED BY <2>1, <2>5, <2>6, <2>7, <2>8
<1>32. ASSUME CloseHandles PROVE SessionIInv'
  <2> USE <1>32 DEF CloseHandles, GivesUp, NoDrain, serviceVars, httpVars, engineVars,
     lockVars
  <2>1. PICK state \in {"closed", "unavailable"} : GivesUp(state)
    OBVIOUS
  <2>2. SessionTypes'
    BY <2>1 DEF SessionTypes
  <2>3. WorkHasSession'
    BY <2>1 DEF SessionTypes, WorkHasSession, ReadersAreApart, DrainCatchesAll
  <2>4. ReadersAreApart'
    BY <2>1 DEF SessionTypes, ReadersAreApart
  <2>5. DrainCatchesAll'
    BY <2>1 DEF SessionTypes, WorkHasSession, DrainCatchesAll
  <2>6. DownIsQuiet'
    BY <2>1 DEF SessionTypes, DownIsQuiet
  <2> QED BY <2>2, <2>3, <2>4, <2>5, <2>6
<1> QED BY <1>1, <1>2, <1>3, <1>4, <1>5, <1>6, <1>7, <1>8, <1>9, <1>10, <1>11,
   <1>12, <1>13, <1>14, <1>15, <1>16, <1>17, <1>18, <1>19, <1>20, <1>21, <1>22, <1>23,
   <1>24, <1>25, <1>26, <1>27, <1>28, <1>29, <1>30, <1>31, <1>32 DEF SessionStep, OwnStep

-----------------------------------------------------------------------------
(***************************************************************************)
(* The invariant of the tables                                             *)
(***************************************************************************)
TableTypes ==
    /\ registry \in AllViews
    /\ memory \in [Maps -> AllViews]
    /\ change \in Changes \union {NoChange}
    /\ rows \in [state: {"old", "new", "torn"}, stale: SUBSET (IndexIds \union {SpatialFile})]
    /\ available \in BOOLEAN /\ halfDone \in BOOLEAN

\* A view without a table has nothing else, also after a DROP that failed half-way.
IsWhole(view) == view.table = NoTable => view = NoView
Shapes ==
    /\ IsWhole(registry) /\ IsWhole(memory["gui"])
    /\ change # NoChange =>
           /\ change.op = "create table" => change.view \in Views
           /\ change.op = "create index" =>
                  /\ IsWhole(change.was["gui"])
                  /\ change.at = "build" => memory["gui"].table # NoTable

\* Outside a change that is published in part, memory shows what the registry says.
Agrees == memory = Everywhere(registry)

\* A CREATE TABLE is invisible up to its registration, and afterwards if that failed.
CreateTableOK ==
    change.op = "create table" =>
        /\ change.at \in {"refused", "files", "spatial", "registry", "undo", "unlinking",
                          "failed", "done"}
        /\ change.at # "done" => registry = NoView /\ change.was = Everywhere(NoView)
        /\ change.at \notin {"undo", "registry"} => Agrees
        /\ change.at \in {"spatial", "registry"} =>
               FilesOf(change.view) \ {SpatialFile} \subseteq files
        /\ change.at = "registry" => memory = Everywhere(change.view)

\* A CREATE INDEX goes through the maps, the registry and the resources in turn.
CreateIndexOK ==
    change.op = "create index" =>
        /\ change.at \in {"build", "registry", "resources", "unlinking", "failed", "done"}
        /\ change.was["gui"].table # NoTable
        /\ change.at \in {"build", "registry"} =>
               /\ change.left = change.view.indexes
               /\ change.view.indexes \intersect FilesOf(registry) = {}
        /\ change.at \in {"build", "registry", "unlinking", "failed"} =>
               change.was = Everywhere(registry)
        /\ change.at = "unlinking" => change.left \intersect FilesOf(registry) = {}
        /\ change.at = "registry" =>
               /\ memory = [map \in Maps |-> IF map = "resources" THEN registry ELSE Adds(registry)]
               /\ change.view.indexes \subseteq files
        /\ change.at = "resources" =>
               memory = [map \in Maps |->
                           IF map = "resources" THEN change.was["gui"] ELSE registry]
        /\ change.at \notin {"registry", "resources"} => Agrees

\* A DROP INDEX leaves the registry first, then the maps, then the directory.
DropIndexOK ==
    change.op = "drop index" =>
        /\ change.at \in {"registry", "release", "unlink", "failed", "done"}
        /\ change.was["gui"].table # NoTable
        /\ change.left \subseteq change.view.indexes
        /\ change.at = "registry" => change.was = Everywhere(registry)
        /\ change.at \in {"release", "unlink"} =>
               change.view.indexes \intersect registry.indexes = {}
        /\ change.at = "release" =>
               /\ registry = Removes(change.was["gui"])
               /\ memory = [map \in Maps |->
                              IF map = "gui" THEN registry ELSE change.was["gui"]]
        /\ change.at # "release" => Agrees

\* A DROP TABLE removes files the registry no longer names.
DropTableOK ==
    change.op = "drop table" =>
        /\ change.at \in {"registry", "release", "unlink", "failed", "done"}
        /\ change.at \in {"release", "unlink"} => registry = NoView
        /\ change.at # "release" => Agrees

\* An UPDATE leaves every definition alone.
UpdateOK ==
    change.op = "update" =>
        /\ change.at \in {"rewrite", "rebuild", "restore", "failed", "done"}
        /\ change.was = memory /\ Agrees

\* The rows are torn only while an UPDATE rewrites or restores them.
RowsOK ==
    LET rewriting == change # NoChange /\ change.op = "update"
    IN  available =>
          /\ rows.stale # {} \/ rows.state = "torn" =>
                 rewriting /\ change.at \in {"rebuild", "restore"}
          /\ rows.state = "new" => rewriting /\ change.at = "done"

ChangeOK ==
    /\ change = NoChange => Agrees
    /\ change # NoChange =>
           CreateTableOK /\ CreateIndexOK /\ DropIndexOK /\ DropTableOK /\ UpdateOK

\* Every file the registry names is there.
FilesAreThere == FilesOf(registry) \ {SpatialFile} \subseteq files

\* A DROP that failed half-way is let off until the next open.
TableIInv ==
    /\ TableTypes /\ Shapes
    /\ ~halfDone => FilesAreThere
    /\ ~halfDone /\ service # "down" => ChangeOK /\ RowsOK
    /\ service = "down" => change = NoChange

ServiceIInv == SessionIInv /\ TableIInv

-----------------------------------------------------------------------------
(***************************************************************************)
(* The steps of a change                                                   *)
(***************************************************************************)
Ids == TableIds \union IndexIds \union {SpatialFile}

\* A change that goes on is a change: another step of the same.
LEMMA GoesFacts ==
    ASSUME change \in Changes, NEW at, Goes(at),
           at \in {"files", "spatial", "registry", "undo", "refused", "unlinking", "build",
                   "resources", "release", "unlink", "rewrite", "rebuild", "restore", "done",
                   "failed"}
    PROVE  /\ change' \in Changes /\ change' # NoChange
           /\ change'.op = change.op /\ change'.at = at /\ change'.view = change.view
           /\ change'.left = change.left /\ change'.was = change.was
BY NoChangeAssumption DEF Changes, Goes

\* So is one whose call raises.
LEMMA RaisesFacts ==
    ASSUME change \in Changes, NEW left \in SUBSET Ids, Raises(left)
    PROVE  /\ change' \in Changes /\ change' # NoChange
           /\ change'.op = change.op /\ change'.view = change.view
           /\ change'.at = IF left = {} THEN "failed" ELSE "unlinking"
           /\ change'.left = left /\ change'.was = change.was
BY NoChangeAssumption DEF Changes, Raises, Ids

\* What a change is and where one starts.
Ops == {"create table", "create index", "drop index", "drop table", "update"}
FirstSteps == {"files", "registry", "refused", "build", "rewrite"}
Starts(op, at, view, left) == change' = Change(op, at, view, left)

\* A change that starts remembers the maps it found.
LEMMA StartFacts ==
    ASSUME NEW op, NEW at, NEW view, NEW left,
           op \in Ops, at \in FirstSteps, view \in AllViews, left \in SUBSET Ids,
           memory \in [Maps -> AllViews],
           Starts(op, at, view, left)
    PROVE  /\ change' \in Changes /\ change' # NoChange
           /\ change'.op = op /\ change'.at = at /\ change'.view = view
           /\ change'.left = left /\ change'.was = memory
<1>1. Change(op, at, view, left) \in Changes
  BY DEF Change, Changes, Ids, Ops, FirstSteps
<1>2. Change(op, at, view, left) # NoChange
  BY <1>1, NoChangeAssumption
<1> QED BY <1>1, <1>2 DEF Change, Starts

\* The rows of a table, and those of which every index is built.
RowStates == [state: {"old", "new", "torn"}, stale: SUBSET (IndexIds \union {SpatialFile})]
\* A table just filled is as its indexes show it.
LEMMA SettledFacts == Settled \in RowStates /\ Settled.state = "old" /\ Settled.stale = {}
BY DEF Settled, RowStates

\* The views stay views.
LEMMA ViewFacts ==
    ASSUME NEW view \in AllViews, change \in Changes
    PROVE  /\ FilesOf(view) \in SUBSET Ids
           /\ Adds(view) \in AllViews /\ Removes(view) \in AllViews
           /\ Adds(view).table = view.table /\ Removes(view).table = view.table
           /\ Adds(view).indexes = view.indexes \union change.view.indexes
           /\ Removes(view).indexes = view.indexes \ change.view.indexes
           /\ Adds(view).spatial = view.spatial /\ Removes(view).spatial = view.spatial
BY DEF FilesOf, AllViews, NoView, Adds, Removes, Changes, Ids

\* No table has no files.
LEMMA NoViewFacts ==
    /\ NoView \in AllViews /\ NoView.table = NoTable /\ NoView.indexes = {}
    /\ FilesOf(NoView) = {} /\ "gui" \in Maps
BY DEF NoView, AllViews, FilesOf, Maps

\* While no DROP has failed half-way, every step starts and ends in agreement.
LEMMA TableStep ==
    ASSUME TableIInv, service # "down", service' = service, TableTypes', Shapes',
           halfDone => halfDone',
           ~halfDone /\ ~halfDone' /\ FilesAreThere /\ ChangeOK /\ RowsOK
               => FilesAreThere' /\ ChangeOK' /\ RowsOK'
    PROVE  TableIInv'
BY DEF TableIInv, TableTypes

\* A CREATE TABLE up to its publication, or back to where it started.
LEMMA CreateTableSteps ==
    ASSUME TableIInv, service # "down", service' = service,
           BuildFiles \/ (\E c : BuildSpatial(c)) \/ PublishTable \/ UnpublishTable
    PROVE  TableIInv'
<1> USE NoViewFacts DEF At
<1>0. /\ TableTypes /\ Shapes /\ change \in Changes /\ change # NoChange
      /\ memory["gui"] \in AllViews
  BY DEF TableIInv, TableTypes, BuildFiles, BuildSpatial, PublishTable, UnpublishTable
<1>1. CASE BuildFiles
  <2>1. /\ change'.op = "create table" /\ change' \in Changes /\ change' # NoChange
        /\ change'.view = change.view /\ change'.was = change.was
        /\ \/ /\ change'.at = "spatial" /\ rows' = Settled
              /\ FilesOf(change.view) \ {SpatialFile} \subseteq files'
           \/ change'.at = "undo" /\ rows' = rows
        /\ files \subseteq files'
    BY <1>0, <1>1, GoesFacts DEF BuildFiles
  <2>2. /\ change.op = "create table"
        /\ change.at = "files"
        /\ UNCHANGED <<registry, memory, available, halfDone>>
    BY <1>0, <1>1 DEF BuildFiles
  <2>4. TableTypes'
    BY <1>0, <2>1, <2>2, SettledFacts DEF TableTypes, RowStates
  <2>5. Shapes'
    BY <1>0, <2>1, <2>2 DEF Shapes, IsWhole
  <2>6. ASSUME ~halfDone, FilesAreThere, ChangeOK, RowsOK
        PROVE  FilesAreThere' /\ ChangeOK' /\ RowsOK'
    <3>1. CreateTableOK /\ change # NoChange
      BY <1>0, <2>2, <2>6 DEF ChangeOK
    <3>2. CreateTableOK'
      BY <1>0, <2>1, <2>2, <3>1 DEF CreateTableOK, Agrees
    <3>3. ChangeOK'
      BY <2>1, <3>2 DEF ChangeOK, CreateIndexOK, DropIndexOK, DropTableOK, UpdateOK
    <3>4. RowsOK'
      BY <1>0, <2>1, <2>2, <2>6, <3>1, SettledFacts DEF RowsOK
    <3>5. FilesAreThere'
      BY <1>0, <2>1, <2>2, <2>6, <3>1 DEF FilesAreThere
    <3> QED BY <3>3, <3>4, <3>5
  <2> QED BY <2>2, <2>4, <2>5, <2>6, TableStep
<1>2. ASSUME NEW c, BuildSpatial(c) PROVE TableIInv'
  <2>1. /\ change'.op = "create table" /\ change' \in Changes /\ change' # NoChange
        /\ change'.view = change.view /\ change'.was = change.was
        /\ \/ /\ change'.at = "registry" /\ memory' = Everywhere(change.view)
              /\ files' = files \union FilesOf(change.view)
           \/ change'.at = "undo" /\ UNCHANGED <<files, memory>>
    BY <1>0, <1>2, GoesFacts DEF BuildSpatial
  <2>2. /\ change.op = "create table"
        /\ change.at = "spatial"
        /\ UNCHANGED <<registry, rows, available, halfDone>>
    BY <1>0, <1>2 DEF BuildSpatial
  <2>4. TableTypes'
    BY <1>0, <2>1, <2>2 DEF TableTypes, Everywhere, Changes
  <2>5. Shapes'
    BY <1>0, <2>1, <2>2, IdentitiesAssumption DEF Shapes, IsWhole, Everywhere, Views
  <2>6. ASSUME ~halfDone, FilesAreThere, ChangeOK, RowsOK
        PROVE  FilesAreThere' /\ ChangeOK' /\ RowsOK'
    <3>1. CreateTableOK /\ change # NoChange
      BY <1>0, <2>2, <2>6 DEF ChangeOK
    <3>2. CreateTableOK'
      BY <1>0, <2>1, <2>2, <3>1 DEF CreateTableOK, Agrees
    <3>3. ChangeOK'
      BY <2>1, <3>2 DEF ChangeOK, CreateIndexOK, DropIndexOK, DropTableOK, UpdateOK
    <3>4. RowsOK'
      BY <1>0, <2>1, <2>2, <2>6, <3>1 DEF RowsOK
    <3>5. FilesAreThere'
      BY <1>0, <2>1, <2>2, <2>6, <3>1 DEF FilesAreThere
    <3> QED BY <3>3, <3>4, <3>5
  <2> QED BY <2>2, <2>4, <2>5, <2>6, TableStep
<1>3. CASE PublishTable
  <2>1. /\ change'.op = "create table" /\ change' \in Changes /\ change' # NoChange
        /\ change'.view = change.view /\ change'.was = change.was
        /\ \/ change'.at = "done" /\ registry' = memory["gui"]
           \/ change'.at = "undo" /\ registry' = registry
    BY <1>0, <1>3, GoesFacts DEF PublishTable, Returns, WriteRegistry
  <2>2. /\ change.op = "create table"
        /\ change.at = "registry"
        /\ UNCHANGED <<files, memory, rows, available, halfDone>>
    BY <1>0, <1>3 DEF PublishTable
  <2>4. TableTypes'
    BY <1>0, <2>1, <2>2 DEF TableTypes
  <2>5. Shapes'
    BY <1>0, <2>1, <2>2 DEF Shapes, IsWhole
  <2>6. ASSUME ~halfDone, FilesAreThere, ChangeOK, RowsOK
        PROVE  FilesAreThere' /\ ChangeOK' /\ RowsOK'
    <3>1. CreateTableOK /\ change # NoChange
      BY <1>0, <2>2, <2>6 DEF ChangeOK
    <3>2. CreateTableOK'
      BY <1>0, <2>1, <2>2, <3>1 DEF CreateTableOK, Agrees, Everywhere
    <3>3. ChangeOK'
      BY <2>1, <3>2 DEF ChangeOK, CreateIndexOK, DropIndexOK, DropTableOK, UpdateOK
    <3>4. RowsOK'
      BY <1>0, <2>1, <2>2, <2>6, <3>1 DEF RowsOK
    <3>5. FilesAreThere'
      BY <1>0, <2>1, <2>2, <2>6, <3>1 DEF FilesAreThere, CreateTableOK, Everywhere
    <3> QED BY <3>3, <3>4, <3>5
  <2> QED BY <2>2, <2>4, <2>5, <2>6, TableStep
<1>4. CASE UnpublishTable
  <2>a. change.left \intersect files \in SUBSET Ids
    BY <1>0 DEF Changes, Ids
  <2>b. available' \in BOOLEAN /\ (available' => available)
    <3>1. available \in BOOLEAN
      BY <1>0 DEF TableTypes
    <3>2. available' = available \/ available' = FALSE
      BY <1>4 DEF UnpublishTable
    <3>3. CASE available' = available
      BY <3>1, <3>3
    <3>4. CASE available' = FALSE
      BY <3>4
    <3> QED BY <3>2, <3>3, <3>4
  <2>1. /\ change'.op = "create table" /\ change' \in Changes /\ change' # NoChange
        /\ change'.view = change.view /\ change'.was = change.was
        /\ change'.at \in {"failed", "unlinking"}
    BY <1>0, <1>4, <2>a, RaisesFacts DEF UnpublishTable
  <2>2. /\ change.op = "create table"
        /\ change.at = "undo" /\ memory' = Everywhere(NoView)
        /\ UNCHANGED <<registry, files, rows, halfDone>>
        /\ available' \in BOOLEAN /\ (available' => available)
    BY <1>0, <1>4, <2>b DEF UnpublishTable
  <2>4. TableTypes'
    BY <1>0, <2>1, <2>2 DEF TableTypes, Everywhere
  <2>5. Shapes'
    BY <1>0, <2>1, <2>2 DEF Shapes, IsWhole, Everywhere
  <2>6. ASSUME ~halfDone, FilesAreThere, ChangeOK, RowsOK
        PROVE  FilesAreThere' /\ ChangeOK' /\ RowsOK'
    <3>1. CreateTableOK /\ change # NoChange
      BY <1>0, <2>2, <2>6 DEF ChangeOK
    <3>2. CreateTableOK'
      BY <1>0, <2>1, <2>2, <3>1 DEF CreateTableOK, Agrees
    <3>3. ChangeOK'
      BY <2>1, <3>2 DEF ChangeOK, CreateIndexOK, DropIndexOK, DropTableOK, UpdateOK
    <3>4. RowsOK'
      BY <1>0, <2>1, <2>2, <2>6, <3>1 DEF RowsOK
    <3>5. FilesAreThere'
      BY <1>0, <2>1, <2>2, <2>6, <3>1 DEF FilesAreThere
    <3> QED BY <3>3, <3>4, <3>5
  <2> QED BY <2>2, <2>4, <2>5, <2>6, TableStep
<1> QED BY <1>1, <1>2, <1>3, <1>4

\* Taking out what was added, where it was not before.
LEMMA RemovesAdds ==
    ASSUME NEW view \in AllViews, change \in Changes,
           change.view.indexes \intersect view.indexes = {}
    PROVE  Removes(Adds(view)) = view
<1>1. Adds(view) \in AllViews /\ Adds(view).indexes = view.indexes \union change.view.indexes
      /\ Adds(view).table = view.table /\ Adds(view).spatial = view.spatial
  BY ViewFacts
<1>2. Removes(Adds(view)) = [Adds(view) EXCEPT !.indexes = view.indexes]
  BY <1>1 DEF Removes
<1> QED BY <1>1, <1>2 DEF AllViews

\* A CREATE INDEX builds, publishes and registers, or puts back what it found.
LEMMA CreateIndexSteps ==
    ASSUME TableIInv, service # "down", service' = service,
           BuildIndex \/ PublishIndex \/ RegisterIndex
    PROVE  TableIInv'
<1> USE NoViewFacts DEF At
<1>0. /\ TableTypes /\ Shapes /\ change \in Changes /\ change # NoChange
      /\ memory \in [Maps -> AllViews] /\ registry \in AllViews
      /\ memory["gui"] \in AllViews /\ change.view \in AllViews
      /\ change.was \in [Maps -> AllViews] /\ change.was["gui"] \in AllViews
      /\ change.left \in SUBSET Ids
  BY DEF TableIInv, TableTypes, Changes, Ids, BuildIndex, PublishIndex, RegisterIndex
<1>1. CASE BuildIndex
  <2>1. /\ change'.op = "create index" /\ change' \in Changes /\ change' # NoChange
        /\ change'.view = change.view /\ change'.was = change.was /\ change'.left = change.left
        /\ \/ /\ change'.at = "registry" /\ files' = files \union change.left
              /\ memory' = [map \in Maps |->
                   IF map = "resources" THEN memory[map] ELSE Adds(memory[map])]
           \/ /\ change'.at \in {"failed", "unlinking"} /\ memory' = memory
              /\ files \subseteq files'
    <3>1. Goes("registry") =>
            /\ change' \in Changes /\ change' # NoChange
            /\ change'.op = change.op /\ change'.at = "registry" /\ change'.view = change.view
            /\ change'.left = change.left /\ change'.was = change.was
      BY <1>0, GoesFacts
    <3>2. Raises(change.left) =>
            /\ change' \in Changes /\ change' # NoChange
            /\ change'.op = change.op /\ change'.at \in {"failed", "unlinking"}
            /\ change'.view = change.view /\ change'.left = change.left
            /\ change'.was = change.was
      BY <1>0, RaisesFacts
    <3> QED BY <1>1, <3>1, <3>2 DEF BuildIndex
  <2>2. /\ change.op = "create index"
        /\ change.at = "build"
        /\ UNCHANGED <<registry, rows, available, halfDone>>
    BY <1>0, <1>1 DEF BuildIndex
  <2>3. memory' \in [Maps -> AllViews]
    <3>1. \A map \in Maps : memory[map] \in AllViews /\ Adds(memory[map]) \in AllViews
      BY <1>0, ViewFacts
    <3> QED BY <1>0, <2>1, <3>1
  <2>4. TableTypes'
    BY <1>0, <2>1, <2>2, <2>3 DEF TableTypes
  <2>5. Shapes'
    BY <1>0, <2>1, <2>2, <2>3, ViewFacts DEF Shapes, IsWhole, Maps
  <2>6. ASSUME ~halfDone, FilesAreThere, ChangeOK, RowsOK
        PROVE  FilesAreThere' /\ ChangeOK' /\ RowsOK'
    <3>1. CreateIndexOK /\ change # NoChange
      BY <1>0, <2>2, <2>6 DEF ChangeOK
    <3>2. CreateIndexOK'
      BY <1>0, <2>1, <2>2, <3>1, <2>3 DEF CreateIndexOK, Agrees, Everywhere, Adds
    <3>3. ChangeOK'
      BY <2>1, <3>2 DEF ChangeOK, CreateTableOK, DropIndexOK, DropTableOK, UpdateOK
    <3>4. RowsOK'
      BY <1>0, <2>1, <2>2, <2>6, <3>1, <2>3 DEF RowsOK
    <3>5. FilesAreThere'
      BY <1>0, <2>1, <2>2, <2>6, <3>1, <2>3 DEF FilesAreThere
    <3> QED BY <3>3, <3>4, <3>5
  <2> QED BY <2>2, <2>4, <2>5, <2>6, TableStep
<1>2. CASE PublishIndex
  <2>1. /\ change'.op = "create index" /\ change' \in Changes /\ change' # NoChange
        /\ change'.view = change.view /\ change'.was = change.was /\ change'.left = change.left
        /\ \/ /\ change'.at = "resources" /\ registry' = memory["gui"] /\ memory' = memory
           \/ /\ change'.at \in {"failed", "unlinking"} /\ memory' = IndexRestored(memory)
              /\ registry' = registry
    <3>1. Goes("resources") =>
            /\ change' \in Changes /\ change' # NoChange
            /\ change'.op = change.op /\ change'.at = "resources" /\ change'.view = change.view
            /\ change'.left = change.left /\ change'.was = change.was
      BY <1>0, GoesFacts
    <3>2. Raises(change.left) =>
            /\ change' \in Changes /\ change' # NoChange
            /\ change'.op = change.op /\ change'.at \in {"failed", "unlinking"}
            /\ change'.view = change.view /\ change'.left = change.left
            /\ change'.was = change.was
      BY <1>0, RaisesFacts
    <3> QED BY <1>2, <3>1, <3>2 DEF PublishIndex, WriteRegistry
  <2>2. /\ change.op = "create index"
        /\ change.at = "registry"
        /\ UNCHANGED <<files, rows, available, halfDone>>
    BY <1>0, <1>2 DEF PublishIndex
  <2>3. /\ IndexRestored(memory) \in [Maps -> AllViews]
        /\ IndexRestored(memory)["gui"] = change.was["gui"]
    BY <1>0, ViewFacts DEF IndexRestored, Maps
  <2>4. TableTypes'
    BY <1>0, <2>1, <2>2, <2>3 DEF TableTypes
  <2>5. Shapes'
    BY <1>0, <2>1, <2>2, <2>3 DEF Shapes, IsWhole
  <2>6. ASSUME ~halfDone, FilesAreThere, ChangeOK, RowsOK
        PROVE  FilesAreThere' /\ ChangeOK' /\ RowsOK'
    <3>1. CreateIndexOK /\ change # NoChange
      BY <1>0, <2>2, <2>6 DEF ChangeOK
    <3>0. /\ IndexRestored(memory) = Everywhere(registry)
          /\ memory["gui"] = Adds(registry) /\ change.was["gui"] = registry
      <4>1. Removes(Adds(registry)) = registry
        BY <1>0, <2>2, <3>1, RemovesAdds DEF CreateIndexOK, FilesOf
      <4>2. /\ memory = [map \in Maps |-> IF map = "resources" THEN registry ELSE Adds(registry)]
            /\ change.was = Everywhere(registry)
        BY <2>2, <3>1 DEF CreateIndexOK
      <4>3. memory["gui"] = Adds(registry) /\ change.was["gui"] = registry
        BY <4>2 DEF Everywhere
      <4>4. ASSUME NEW map \in Maps PROVE IndexRestored(memory)[map] = registry
        BY <4>1, <4>2, <4>3 DEF IndexRestored, Maps
      <4>5. IndexRestored(memory) = Everywhere(registry)
        BY <4>4 DEF IndexRestored, Everywhere
      <4> QED BY <4>3, <4>5
    <3>2. CreateIndexOK'
      <4>1. /\ change.left = change.view.indexes
            /\ change.view.indexes \intersect FilesOf(registry) = {}
            /\ change.was["gui"].table # NoTable /\ change.was = Everywhere(registry)
            /\ memory = [map \in Maps |-> IF map = "resources" THEN registry ELSE Adds(registry)]
        BY <2>2, <3>1 DEF CreateIndexOK
      <4>2. CASE change'.at = "resources" /\ registry' = memory["gui"] /\ memory' = memory
        BY <2>1, <3>0, <4>1, <4>2 DEF CreateIndexOK, Agrees
      <4>3. CASE /\ change'.at \in {"failed", "unlinking"}
                 /\ memory' = IndexRestored(memory) /\ registry' = registry
        BY <2>1, <3>0, <4>1, <4>3 DEF CreateIndexOK, Agrees, Everywhere, FilesOf
      <4> QED BY <2>1, <4>2, <4>3
    <3>3. ChangeOK'
      BY <2>1, <3>2 DEF ChangeOK, CreateTableOK, DropIndexOK, DropTableOK, UpdateOK
    <3>4. RowsOK'
      BY <1>0, <2>1, <2>2, <2>6, <3>1, <2>3 DEF RowsOK
    <3>5. FilesAreThere'
      <4>1. FilesOf(Adds(registry)) = FilesOf(registry) \union change.view.indexes
        BY <1>0, ViewFacts DEF FilesOf
      <4>2. change.view.indexes \subseteq files
        BY <2>2, <3>1 DEF CreateIndexOK
      <4>3. registry' = registry \/ registry' = Adds(registry)
        BY <2>1, <3>0
      <4>4. FilesOf(registry)' = FilesOf(registry')
        BY DEF FilesOf
      <4> QED BY <2>2, <2>6, <4>1, <4>2, <4>3, <4>4 DEF FilesAreThere
    <3> QED BY <3>3, <3>4, <3>5
  <2> QED BY <2>2, <2>4, <2>5, <2>6, TableStep
<1>3. CASE RegisterIndex
  <2>1. /\ change'.op = "create index" /\ change' \in Changes /\ change' # NoChange
        /\ change'.view = change.view /\ change'.was = change.was /\ change'.left \in SUBSET Ids
        /\ \/ /\ Reregisters(memory) /\ memory' = Reregistered(memory)
              /\ change'.at = "done"
           \/ /\ ~Reregisters(memory) /\ memory' = IndexRestored(Reregistered(memory))
              /\ change'.at \in {"failed", "unlinking"}
    <3>1. Goes("done") =>
            /\ change' \in Changes /\ change' # NoChange
            /\ change'.op = change.op /\ change'.at = "done" /\ change'.view = change.view
            /\ change'.left = change.left /\ change'.was = change.was
      BY <1>0, GoesFacts
    <3>2. Raises(change.left) =>
            /\ change' \in Changes /\ change' # NoChange
            /\ change'.op = change.op /\ change'.at \in {"failed", "unlinking"}
            /\ change'.view = change.view /\ change'.left = change.left
            /\ change'.was = change.was
      BY <1>0, RaisesFacts
    <3> QED BY <1>0, <1>3, <3>1, <3>2 DEF RegisterIndex, Returns
  <2>2. /\ change.op = "create index"
        /\ change.at = "resources"
        /\ UNCHANGED <<registry, files, rows, available, halfDone>>
    BY <1>0, <1>3 DEF RegisterIndex
  <2>3. /\ Reregistered(memory) \in [Maps -> AllViews]
        /\ Reregistered(memory)["gui"] = memory["gui"]
        /\ IndexRestored(Reregistered(memory)) \in [Maps -> AllViews]
        /\ IndexRestored(Reregistered(memory))["gui"] = change.was["gui"]
    <3>1. Reregistered(memory) \in [Maps -> AllViews] /\ Reregistered(memory)["gui"] = memory["gui"]
      BY <1>0 DEF Reregistered, Maps
    <3> QED BY <1>0, <3>1, ViewFacts DEF IndexRestored, Maps
  <2>4. TableTypes'
    BY <1>0, <2>1, <2>2, <2>3 DEF TableTypes
  <2>5. Shapes'
    BY <1>0, <2>1, <2>2, <2>3 DEF Shapes, IsWhole
  <2>6. ASSUME ~halfDone, FilesAreThere, ChangeOK, RowsOK
        PROVE  FilesAreThere' /\ ChangeOK' /\ RowsOK'
    <3>1. CreateIndexOK /\ change # NoChange
      BY <1>0, <2>2, <2>6 DEF ChangeOK
    <3>0. Reregisters(memory) /\ Reregistered(memory) = Everywhere(registry)
      <4>1. /\ memory = [map \in Maps |->
                           IF map = "resources" THEN change.was["gui"] ELSE registry]
            /\ change.was["gui"].table # NoTable
        BY <2>2, <3>1 DEF CreateIndexOK
      <4>2. Reregisters(memory)
        BY <4>1 DEF Reregisters, Maps
      <4> QED BY <4>1, <4>2 DEF Reregistered, Everywhere, Maps
    <3>2. CreateIndexOK'
      BY <1>0, <2>1, <2>2, <3>1, <2>3, <3>0 DEF CreateIndexOK, Agrees
    <3>3. ChangeOK'
      BY <2>1, <3>2 DEF ChangeOK, CreateTableOK, DropIndexOK, DropTableOK, UpdateOK
    <3>4. RowsOK'
      BY <1>0, <2>1, <2>2, <2>6, <3>1, <2>3 DEF RowsOK
    <3>5. FilesAreThere'
      BY <1>0, <2>1, <2>2, <2>6, <3>1, <2>3, <3>0 DEF FilesAreThere
    <3> QED BY <3>3, <3>4, <3>5
  <2> QED BY <2>2, <2>4, <2>5, <2>6, TableStep
<1> QED BY <1>1, <1>2, <1>3

\* A view without a table stays one.
LEMMA WholeFacts ==
    ASSUME NEW view \in AllViews, change \in Changes, IsWhole(view)
    PROVE  IsWhole(Removes(view))
<1> SUFFICES ASSUME view = NoView PROVE Removes(view) = NoView
  BY ViewFacts DEF IsWhole
<1>1. view.indexes \ change.view.indexes = {}
  BY NoViewFacts
<1>2. Removes(view) = [view EXCEPT !.indexes = {}]
  BY <1>1 DEF Removes
<1> QED BY <1>2 DEF NoView

\* The maps once a dropped index is closed and out of the catalog.
Unbound == [memory EXCEPT !["tables"] = memory["gui"], !["environment"] = Removes(@)]
Released == [Unbound EXCEPT !["catalog"] = Removes(@), !["handles"] = Removes(@)]

\* A DROP INDEX leaves the registry, and then the maps or a DROP half done.
LEMMA DropIndexSteps ==
    ASSUME TableIInv, service # "down", service' = service, UnpublishIndex \/ ReleaseIndex
    PROVE  TableIInv'
<1> USE NoViewFacts DEF At
<1>0. /\ TableTypes /\ Shapes /\ change \in Changes /\ change # NoChange
      /\ memory \in [Maps -> AllViews] /\ registry \in AllViews
      /\ memory["gui"] \in AllViews /\ change.view \in AllViews
      /\ change.was \in [Maps -> AllViews] /\ change.was["gui"] \in AllViews
      /\ change.left \in SUBSET Ids
  BY DEF TableIInv, TableTypes, Changes, Ids, UnpublishIndex, ReleaseIndex
<1>a. Raises({}) =>
        /\ change' \in Changes /\ change' # NoChange
        /\ change'.op = change.op /\ change'.at = "failed" /\ change'.view = change.view
        /\ change'.left = {} /\ change'.was = change.was
  BY <1>0, RaisesFacts
<1>1. CASE UnpublishIndex
  <2>1. /\ change'.op = "drop index" /\ change' \in Changes /\ change' # NoChange
        /\ change'.view = change.view /\ change'.was = change.was
        /\ change'.left \subseteq change.left
        /\ \/ /\ change'.at = "release" /\ registry' = Removes(memory["gui"])
              /\ memory' = [memory EXCEPT !["gui"] = Removes(@)]
           \/ change'.at = "failed" /\ memory' = memory /\ registry' = registry
    <3>1. Goes("release") =>
            /\ change' \in Changes /\ change' # NoChange
            /\ change'.op = change.op /\ change'.at = "release" /\ change'.view = change.view
            /\ change'.left = change.left /\ change'.was = change.was
      BY <1>0, GoesFacts
    <3> QED BY <1>0, <1>1, <1>a, <3>1 DEF UnpublishIndex, WriteRegistry
  <2>2. /\ change.op = "drop index" /\ change.at = "registry"
        /\ UNCHANGED <<files, rows, available, halfDone>>
    BY <1>1 DEF UnpublishIndex
  <2>3. Removes(memory["gui"]) \in AllViews /\ IsWhole(Removes(memory["gui"]))
    BY <1>0, ViewFacts, WholeFacts DEF Shapes
  <2>4. TableTypes'
    BY <1>0, <2>1, <2>2, <2>3 DEF TableTypes
  <2>5. Shapes'
    BY <1>0, <2>1, <2>2, <2>3 DEF Shapes, IsWhole
  <2>6. ASSUME ~halfDone, FilesAreThere, ChangeOK, RowsOK
        PROVE  FilesAreThere' /\ ChangeOK' /\ RowsOK'
    <3>1. /\ memory = Everywhere(registry) /\ change.was = Everywhere(registry)
          /\ registry.table # NoTable /\ change.left \subseteq change.view.indexes
      BY <1>0, <2>2, <2>6 DEF ChangeOK, DropIndexOK, Agrees, Everywhere
    <3>2. memory["gui"] = registry /\ change.was["gui"] = registry
      BY <3>1 DEF Everywhere
    <3>3. DropIndexOK'
      <4>1. CASE change'.at = "failed" /\ memory' = memory /\ registry' = registry
        BY <2>1, <3>1, <3>2, <4>1 DEF DropIndexOK, Agrees, Everywhere
      <4>2. CASE /\ change'.at = "release" /\ registry' = Removes(memory["gui"])
                 /\ memory' = [memory EXCEPT !["gui"] = Removes(@)]
        <5>2. change.view.indexes \intersect registry'.indexes = {}
          BY <1>0, <3>2, <4>2, ViewFacts
        <5>3. registry' = Removes(change.was["gui"])'
          BY <2>1, <3>2, <4>2 DEF Removes
        <5>4. memory' = [map \in Maps |->
                           IF map = "gui" THEN registry' ELSE change'.was["gui"]]
          BY <1>0, <2>1, <3>1, <3>2, <4>2 DEF Everywhere
        <5> QED BY <2>1, <3>1, <3>2, <4>2, <5>2, <5>3, <5>4 DEF DropIndexOK
      <4> QED BY <2>1, <4>1, <4>2
    <3>4. ChangeOK'
      BY <2>1, <3>3 DEF ChangeOK, CreateTableOK, CreateIndexOK, DropTableOK, UpdateOK
    <3>5. RowsOK'
      BY <1>0, <2>1, <2>2, <2>6 DEF RowsOK
    <3>6. FilesAreThere'
      <4>1. FilesOf(Removes(registry)) \subseteq FilesOf(registry)
        BY <1>0, ViewFacts DEF FilesOf
      <4>2. registry' = registry \/ registry' = Removes(registry)
        BY <2>1, <3>2
      <4>3. FilesOf(registry)' = FilesOf(registry')
        BY DEF FilesOf
      <4> QED BY <2>2, <2>6, <4>1, <4>2, <4>3 DEF FilesAreThere
    <3> QED BY <3>4, <3>5, <3>6
  <2> QED BY <2>2, <2>4, <2>5, <2>6, TableStep
<1>2. CASE ReleaseIndex
  <2>0. /\ Unbound \in [Maps -> AllViews] /\ Unbound["gui"] = memory["gui"]
        /\ Released \in [Maps -> AllViews] /\ Released["gui"] = memory["gui"]
        /\ Reregistered(Released) \in [Maps -> AllViews]
        /\ Reregistered(Released)["gui"] = memory["gui"]
    <3>1. Unbound \in [Maps -> AllViews] /\ Unbound["gui"] = memory["gui"]
      BY <1>0, ViewFacts DEF Unbound, Maps
    <3>2. Released \in [Maps -> AllViews] /\ Released["gui"] = memory["gui"]
      BY <1>0, <3>1, ViewFacts DEF Released, Maps
    <3> QED BY <3>1, <3>2 DEF Reregistered, Maps
  <2>1. /\ change'.op = "drop index" /\ change' \in Changes /\ change' # NoChange
        /\ change'.view = change.view /\ change'.was = change.was
        /\ change'.left \subseteq change.left /\ change'.at \in {"unlink", "failed"}
        /\ memory' \in [Maps -> AllViews] /\ memory'["gui"] = memory["gui"]
        /\ \/ halfDone' = TRUE
           \/ /\ Reregisters(Released) /\ memory' = Reregistered(Released)
              /\ change'.at = "unlink" /\ UNCHANGED halfDone
           \/ /\ memory' = Reregistered(Released) /\ halfDone' = TRUE
              /\ ~Reregisters(Released)
    <3>1. Goes("unlink") =>
            /\ change' \in Changes /\ change' # NoChange
            /\ change'.op = change.op /\ change'.at = "unlink" /\ change'.view = change.view
            /\ change'.left = change.left /\ change'.was = change.was
      BY <1>0, GoesFacts
    <3>2. \/ /\ Reregisters(Released) /\ memory' = Reregistered(Released)
             /\ Goes("unlink") /\ UNCHANGED halfDone
          \/ /\ memory' = Reregistered(Released) \/ memory' = Unbound
             /\ Raises({}) /\ halfDone' = TRUE
      BY <1>2 DEF ReleaseIndex, Released, Unbound
    <3>3. change.op = "drop index"
      BY <1>2 DEF ReleaseIndex
    <3> QED BY <1>0, <1>a, <2>0, <3>1, <3>2, <3>3
  <2>2. /\ change.op = "drop index" /\ change.at = "release"
        /\ UNCHANGED <<registry, files, rows, available>>
    BY <1>2 DEF ReleaseIndex
  <2>4. TableTypes'
    BY <1>0, <2>1, <2>2 DEF TableTypes
  <2>5. Shapes'
    BY <1>0, <2>1, <2>2 DEF Shapes, IsWhole
  <2>6. ASSUME ~halfDone, ~halfDone', FilesAreThere, ChangeOK, RowsOK
        PROVE  FilesAreThere' /\ ChangeOK' /\ RowsOK'
    <3>1. /\ registry = Removes(change.was["gui"]) /\ change.was["gui"].table # NoTable
          /\ memory = [map \in Maps |-> IF map = "gui" THEN registry ELSE change.was["gui"]]
          /\ change.left \subseteq change.view.indexes
          /\ change.view.indexes \intersect registry.indexes = {}
      BY <1>0, <2>2, <2>6 DEF ChangeOK, DropIndexOK
    <3>2. memory' = Reregistered(Released) /\ change'.at = "unlink"
      BY <2>1, <2>6
    <3>3. Released = [map \in Maps |-> IF map = "resources" THEN change.was["gui"] ELSE registry]
      <4>1. Unbound = [map \in Maps |-> IF map \in {"gui", "tables", "environment"}
                                        THEN registry ELSE change.was["gui"]]
        BY <3>1 DEF Unbound, Maps
      <4> QED BY <3>1, <4>1 DEF Released, Maps
    <3>4. Reregistered(Released) = Everywhere(registry)
      <4>1. Reregisters(Released)
        BY <3>1, <3>3 DEF Reregisters, Maps
      <4> QED BY <3>3, <4>1 DEF Reregistered, Everywhere, Maps
    <3>5. DropIndexOK'
      BY <2>1, <2>2, <3>1, <3>2, <3>4 DEF DropIndexOK, Agrees, Everywhere
    <3>6. ChangeOK'
      BY <2>1, <3>5 DEF ChangeOK, CreateTableOK, CreateIndexOK, DropTableOK, UpdateOK
    <3>7. RowsOK'
      BY <1>0, <2>1, <2>2, <2>6 DEF RowsOK
    <3>8. FilesAreThere'
      BY <2>2, <2>6 DEF FilesAreThere, FilesOf
    <3> QED BY <3>6, <3>7, <3>8
  <2>7. halfDone => halfDone'
    BY <2>1
  <2> QED BY <2>2, <2>4, <2>5, <2>6, <2>7, TableStep
<1> QED BY <1>1, <1>2

\* What is left of the maps when the release of a table stops: without its resources
\* and spatial index, and without the indexes that were closed.
Kept == [memory EXCEPT !["resources"] = NoView,
                       !["handles"].spatial = FALSE,
                       !["environment"].spatial = FALSE]
KeptWithout(done, last) ==
    [Kept EXCEPT !["handles"].indexes = @ \ (done \union last),
                 !["environment"].indexes = @ \ (done \union last),
                 !["catalog"].indexes = @ \ done]
Stripped == [KeptWithout(memory["catalog"].indexes, {}) EXCEPT !["handles"] = NoView,
                                                               !["environment"] = NoView]

\* Wherever the release stops, what is left are maps, and the registry's is as it was.
LEMMA KeptFacts ==
    ASSUME memory \in [Maps -> AllViews]
    PROVE  /\ \A done, last : /\ KeptWithout(done, last) \in [Maps -> AllViews]
                              /\ KeptWithout(done, last)["gui"] = memory["gui"]
           /\ Stripped \in [Maps -> AllViews] /\ Stripped["gui"] = memory["gui"]
<1>1. Kept \in [Maps -> AllViews] /\ Kept["gui"] = memory["gui"]
  <2>1. \A map \in Maps : [memory[map] EXCEPT !.spatial = FALSE] \in AllViews
    BY DEF AllViews
  <2> QED BY <2>1, NoViewFacts DEF Kept, Maps
<1>2. ASSUME NEW done, NEW last
      PROVE  /\ KeptWithout(done, last) \in [Maps -> AllViews]
             /\ KeptWithout(done, last)["gui"] = memory["gui"]
  <2>1. \A ids : \A map \in Maps :
          [Kept[map] EXCEPT !.indexes = Kept[map].indexes \ ids] \in AllViews
    BY <1>1 DEF AllViews
  <2> QED BY <1>1, <2>1 DEF KeptWithout, Maps
<1> QED BY <1>2, NoViewFacts DEF Stripped, Maps

\* A DROP TABLE empties the registry, and then the maps or is half done.
LEMMA DropTableSteps ==
    ASSUME TableIInv, service # "down", service' = service, UnpublishDropped \/ ReleaseTable
    PROVE  TableIInv'
<1> USE NoViewFacts DEF At
<1>0. /\ TableTypes /\ Shapes /\ change \in Changes /\ change # NoChange
      /\ memory \in [Maps -> AllViews] /\ registry \in AllViews
      /\ memory["gui"] \in AllViews /\ change.op = "drop table"
  BY DEF TableIInv, TableTypes, UnpublishDropped, ReleaseTable
<1>a. Raises({}) =>
        /\ change' \in Changes /\ change' # NoChange
        /\ change'.op = change.op /\ change'.at = "failed"
  BY <1>0, RaisesFacts
<1>1. CASE UnpublishDropped
  <2>1. /\ change'.op = "drop table" /\ change' \in Changes /\ change' # NoChange
        /\ \/ /\ change'.at = "release" /\ registry' = NoView
              /\ memory' = [memory EXCEPT !["gui"] = NoView]
           \/ change'.at = "failed" /\ memory' = memory /\ registry' = registry
    <3>1. Goes("release") =>
            /\ change' \in Changes /\ change' # NoChange
            /\ change'.op = change.op /\ change'.at = "release"
      BY <1>0, GoesFacts
    <3> QED BY <1>0, <1>1, <1>a, <3>1 DEF UnpublishDropped, WriteRegistry
  <2>2. change.at = "registry" /\ UNCHANGED <<files, rows, available, halfDone>>
    BY <1>1 DEF UnpublishDropped
  <2>3. TableTypes'
    BY <1>0, <2>1, <2>2 DEF TableTypes
  <2>4. Shapes'
    BY <1>0, <2>1, <2>2 DEF Shapes, IsWhole
  <2>5. ASSUME ~halfDone, FilesAreThere, ChangeOK, RowsOK
        PROVE  FilesAreThere' /\ ChangeOK' /\ RowsOK'
    <3>1. DropTableOK
      BY <1>0, <2>5 DEF ChangeOK
    <3>2. DropTableOK'
      BY <1>0, <2>1, <2>2, <3>1 DEF DropTableOK, Agrees, Everywhere
    <3>3. ChangeOK'
      BY <2>1, <3>2 DEF ChangeOK, CreateTableOK, CreateIndexOK, DropIndexOK, UpdateOK
    <3>4. RowsOK'
      BY <1>0, <2>1, <2>2, <2>5 DEF RowsOK
    <3>5. FilesAreThere'
      <4>1. FilesOf(registry)' = FilesOf(registry')
        BY DEF FilesOf
      <4> QED BY <2>1, <2>2, <2>5, <4>1 DEF FilesAreThere
    <3> QED BY <3>3, <3>4, <3>5
  <2> QED BY <2>2, <2>3, <2>4, <2>5, TableStep
<1>2. CASE ReleaseTable
  <2>1. /\ change'.op = "drop table" /\ change' \in Changes /\ change' # NoChange
        /\ change'.at \in {"unlink", "failed"}
        /\ memory' \in [Maps -> AllViews]
        /\ memory'["gui"] = memory["gui"] \/ memory'["gui"] = NoView
        /\ \/ halfDone' = TRUE
           \/ memory' = Everywhere(NoView) /\ UNCHANGED halfDone
    <3>1. Goes("unlink") =>
            /\ change' \in Changes /\ change' # NoChange
            /\ change'.op = change.op /\ change'.at = "unlink"
      BY <1>0, GoesFacts
    <3>2. \/ /\ memory' = Everywhere(NoView) /\ Goes("unlink") /\ UNCHANGED halfDone
          \/ /\ Raises({}) /\ halfDone' = TRUE
             /\ \/ UNCHANGED memory
                \/ memory' = Stripped
                \/ \E done, last : memory' = KeptWithout(done, last)
      BY <1>2 DEF ReleaseTable, Kept, KeptWithout, Stripped
    <3>3. Everywhere(NoView) \in [Maps -> AllViews] /\ Everywhere(NoView)["gui"] = NoView
      BY DEF Everywhere
    <3>4. /\ \A done, last : /\ KeptWithout(done, last) \in [Maps -> AllViews]
                             /\ KeptWithout(done, last)["gui"] = memory["gui"]
          /\ Stripped \in [Maps -> AllViews] /\ Stripped["gui"] = memory["gui"]
      BY <1>0, KeptFacts
    <3>5. /\ memory' \in [Maps -> AllViews]
          /\ memory'["gui"] = memory["gui"] \/ memory'["gui"] = NoView
      <4>1. CASE memory' = Everywhere(NoView)
        BY <3>3, <4>1
      <4>2. CASE memory' = memory
        BY <1>0, <4>2
      <4>3. CASE memory' = Stripped
        BY <3>4, <4>3
      <4>4. ASSUME NEW done, NEW last, memory' = KeptWithout(done, last)
            PROVE  /\ memory' \in [Maps -> AllViews]
                   /\ memory'["gui"] = memory["gui"] \/ memory'["gui"] = NoView
        BY <3>4, <4>4
      <4> QED BY <3>2, <4>1, <4>2, <4>3, <4>4
    <3>6. \/ Raises({}) /\ halfDone' = TRUE
          \/ Goes("unlink") /\ memory' = Everywhere(NoView) /\ UNCHANGED halfDone
      BY <3>2
    <3> QED BY <1>0, <1>a, <3>1, <3>5, <3>6
  <2>2. change.at = "release" /\ UNCHANGED <<registry, files, rows, available>>
    BY <1>2 DEF ReleaseTable
  <2>3. TableTypes'
    BY <1>0, <2>1, <2>2 DEF TableTypes
  <2>4. Shapes'
    BY <1>0, <2>1, <2>2 DEF Shapes, IsWhole
  <2>5. ASSUME ~halfDone, ~halfDone', FilesAreThere, ChangeOK, RowsOK
        PROVE  FilesAreThere' /\ ChangeOK' /\ RowsOK'
    <3>1. DropTableOK
      BY <1>0, <2>5 DEF ChangeOK
    <3>2. DropTableOK'
      BY <1>0, <2>1, <2>2, <2>5, <3>1 DEF DropTableOK, Agrees, Everywhere
    <3>3. ChangeOK'
      BY <2>1, <3>2 DEF ChangeOK, CreateTableOK, CreateIndexOK, DropIndexOK, UpdateOK
    <3>4. RowsOK'
      BY <1>0, <2>1, <2>2, <2>5 DEF RowsOK
    <3>5. FilesAreThere'
      BY <2>2, <2>5 DEF FilesAreThere, FilesOf
    <3> QED BY <3>3, <3>4, <3>5
  <2>6. halfDone => halfDone'
    BY <2>1
  <2> QED BY <2>2, <2>3, <2>4, <2>5, <2>6, TableStep
<1> QED BY <1>1, <1>2

\* No file is removed that the registry names.
LEMMA UnlinkSteps ==
    ASSUME TableIInv, service # "down", service' = service, UnlinkDropped \/ UnlinkCreated
    PROVE  TableIInv'
<1> USE NoViewFacts
<1>0. /\ TableTypes /\ Shapes /\ change \in Changes /\ change # NoChange
      /\ memory \in [Maps -> AllViews] /\ registry \in AllViews
      /\ change.view.indexes \subseteq IndexIds /\ available \in BOOLEAN
  BY DEF TableIInv, TableTypes, Changes, AllViews, UnlinkDropped, UnlinkCreated
<1>1. CASE UnlinkDropped
  <2>1. /\ change'.op = change.op /\ change' \in Changes /\ change' # NoChange
        /\ change'.view = change.view /\ change'.was = change.was
        /\ change'.left \subseteq change.left
        /\ \/ change'.at \in {"unlink", "done"} /\ \E f \in change.left : files' = files \ {f}
           \/ change'.at = "failed" /\ files' = files
    <3>1. CASE Raises({}) /\ UNCHANGED files
      BY <1>0, <3>1, RaisesFacts
    <3>2. ASSUME NEW f \in change.left, files' = files \ {f},
                 change' = [change EXCEPT !.left = @ \ {f},
                                          !.at = IF change.left = {f} THEN "done" ELSE @]
          PROVE  /\ change'.op = change.op /\ change' \in Changes
                 /\ change'.view = change.view /\ change'.was = change.was
                 /\ change'.left \subseteq change.left
                 /\ change'.at \in {change.at, "done"}
      BY <1>0, <3>2 DEF Changes
    <3>3. change.at = "unlink"
      BY <1>1 DEF UnlinkDropped
    <3> QED BY <1>1, <3>1, <3>2, <3>3, NoChangeAssumption DEF UnlinkDropped
  <2>2. change.at = "unlink" /\ UNCHANGED <<registry, memory, rows, available, halfDone>>
    BY <1>1 DEF UnlinkDropped
  <2>3. TableTypes'
    BY <1>0, <2>1, <2>2 DEF TableTypes
  <2>4. Shapes'
    BY <1>0, <2>1, <2>2 DEF Shapes, IsWhole
  <2>5. ASSUME ~halfDone, FilesAreThere, ChangeOK, RowsOK
        PROVE  FilesAreThere' /\ ChangeOK' /\ RowsOK'
    <3>1. change.op \in {"drop index", "drop table"} /\ DropIndexOK /\ DropTableOK /\ Agrees
      BY <1>0, <2>2, <2>5
      DEF ChangeOK, CreateTableOK, CreateIndexOK, DropIndexOK, DropTableOK, UpdateOK,
         Changes
    <3>2. DropIndexOK' /\ DropTableOK'
      BY <1>0, <2>1, <2>2, <3>1 DEF DropIndexOK, DropTableOK, Agrees, Everywhere
    <3>3. ChangeOK'
      BY <2>1, <3>1, <3>2 DEF ChangeOK, CreateTableOK, CreateIndexOK, UpdateOK
    <3>4. RowsOK'
      BY <1>0, <2>1, <2>2, <2>5, <3>1 DEF RowsOK
    <3>5. FilesAreThere'
      <4>1. change.left \intersect FilesOf(registry) = {}
        BY <1>0, <2>2, <3>1, IdentitiesAssumption
        DEF DropIndexOK, DropTableOK, FilesOf, AllViews
      <4> QED BY <2>1, <2>2, <2>5, <4>1 DEF FilesAreThere, FilesOf
    <3> QED BY <3>3, <3>4, <3>5
  <2> QED BY <2>2, <2>3, <2>4, <2>5, TableStep
<1>2. CASE UnlinkCreated
  <2>0. available' \in BOOLEAN /\ (available' => available)
    <3>1. available' = available \/ available' = FALSE
      BY <1>2 DEF UnlinkCreated
    <3>2. CASE available' = available
      BY <1>0, <3>2
    <3>3. CASE available' = FALSE
      BY <3>3
    <3> QED BY <3>1, <3>2, <3>3
  <2>1. /\ change'.op = change.op /\ change' \in Changes /\ change' # NoChange
        /\ change'.view = change.view /\ change'.was = change.was
        /\ change'.left \subseteq change.left /\ change'.at \in {"unlinking", "failed"}
        /\ files' = files \/ \E f \in change.left : files' = files \ {f}
    <3>1. ASSUME NEW f, Raises(change.left \ {f})
          PROVE  /\ change'.op = change.op /\ change' \in Changes /\ change' # NoChange
                 /\ change'.view = change.view /\ change'.was = change.was
                 /\ change'.left \subseteq change.left
                 /\ change'.at \in {"unlinking", "failed"}
      <4>1. change.left \ {f} \in SUBSET Ids
        BY <1>0 DEF Changes, Ids
      <4> QED BY <1>0, <3>1, <4>1, RaisesFacts
    <3> QED BY <1>2, <3>1 DEF UnlinkCreated
  <2>2. change.at = "unlinking" /\ UNCHANGED <<registry, memory, rows, halfDone>>
    BY <1>2 DEF UnlinkCreated
  <2>3. TableTypes'
    BY <1>0, <2>0, <2>1, <2>2 DEF TableTypes
  <2>4. Shapes'
    BY <1>0, <2>1, <2>2 DEF Shapes, IsWhole
  <2>5. ASSUME ~halfDone, FilesAreThere, ChangeOK, RowsOK
        PROVE  FilesAreThere' /\ ChangeOK' /\ RowsOK'
    <3>1. /\ change.op \in {"create table", "create index"}
          /\ CreateTableOK /\ CreateIndexOK /\ Agrees
      BY <1>0, <2>2, <2>5
      DEF ChangeOK, CreateTableOK, CreateIndexOK, DropIndexOK, DropTableOK, UpdateOK,
         Changes
    <3>2. CreateTableOK' /\ CreateIndexOK'
      BY <1>0, <2>1, <2>2, <3>1 DEF CreateTableOK, CreateIndexOK, Agrees, FilesOf
    <3>3. ChangeOK'
      BY <2>1, <3>1, <3>2 DEF ChangeOK, DropTableOK, DropIndexOK, UpdateOK
    <3>4. RowsOK'
      BY <1>0, <2>0, <2>1, <2>2, <2>5, <3>1 DEF RowsOK
    <3>5. FilesAreThere'
      <4>1. change.left \intersect FilesOf(registry) = {}
        BY <2>2, <3>1 DEF CreateTableOK, CreateIndexOK
      <4> QED BY <2>1, <2>2, <2>5, <4>1 DEF FilesAreThere, FilesOf
    <3> QED BY <3>3, <3>4, <3>5
  <2> QED BY <2>2, <2>3, <2>4, <2>5, TableStep
<1> QED BY <1>1, <1>2

\* An UPDATE tears the rows and sews them up, or makes the owner unavailable.
LEMMA UpdateSteps ==
    ASSUME TableIInv, service # "down", service' = service,
           Rewrite \/ (\E c : Rebuild(c) \/ Restore(c))
    PROVE  TableIInv'
<1> USE NoViewFacts DEF At
<1>0. /\ TableTypes /\ Shapes /\ change \in Changes /\ change # NoChange
      /\ memory \in [Maps -> AllViews] /\ change.op = "update"
      /\ rows \in RowStates /\ available \in BOOLEAN
  BY DEF TableIInv, TableTypes, RowStates, Rewrite, Rebuild, Restore
<1>1. Indexed \in SUBSET (IndexIds \union {SpatialFile})
  <2>1. memory["catalog"] \in AllViews
    BY <1>0 DEF Maps
  <2> QED BY <2>1 DEF Indexed, AllViews
<1>a. Raises({}) =>
        /\ change' \in Changes /\ change' # NoChange
        /\ change'.op = change.op /\ change'.at = "failed" /\ change'.was = change.was
  BY <1>0, RaisesFacts
<1>b. ASSUME NEW at \in {"rebuild", "restore", "done"}, change' = [change EXCEPT !.at = at]
      PROVE  /\ change' \in Changes /\ change' # NoChange
             /\ change'.op = change.op /\ change'.at = at /\ change'.was = change.was
  BY <1>0, <1>b, NoChangeAssumption DEF Changes
<1>2. /\ change'.op = "update" /\ change' \in Changes /\ change' # NoChange
      /\ change'.was = change.was /\ change'.at \in {"rebuild", "restore", "done", "failed"}
      /\ rows' \in RowStates
      /\ \/ available' = FALSE
         \/ /\ available' = available
            /\ \/ /\ change'.at \in {"rebuild", "restore"}
                  /\ rows'.state = "torn" \/ (rows' = rows /\ change.at # "done")
               \/ /\ rows'.stale = {}
                  /\ rows'.state = "old" \/ (rows'.state = "new" /\ change'.at = "done")
      /\ UNCHANGED <<registry, files, memory, halfDone>>
  <2>1. CASE Rewrite
    <3>1. [state |-> "torn", stale |-> Indexed] \in RowStates
      BY <1>1 DEF RowStates
    <3> QED BY <1>0, <1>b, <2>1, <3>1 DEF Rewrite
  <2>2. ASSUME NEW c, Rebuild(c)
        PROVE  /\ change'.op = "update" /\ change' \in Changes /\ change' # NoChange
               /\ change'.was = change.was /\ change'.at \in {"restore", "done"}
               /\ rows' \in RowStates /\ available' = available
               /\ change'.at = "done" => rows'.stale = {} /\ rows'.state = "new"
               /\ change'.at = "restore" => rows' = rows /\ change.at # "done"
               /\ UNCHANGED <<registry, files, memory, halfDone>>
    <3>1. CASE Goes("restore") /\ UNCHANGED rows
      BY <1>0, <1>b, <2>2, <3>1 DEF Rebuild, Goes
    <3>2. CASE Rebuilt("new") /\ Goes("done")
      <4>1. rows' \in RowStates /\ rows'.stale = {} /\ rows'.state = "new"
        BY <3>2 DEF Rebuilt, RowStates
      <4> QED BY <1>0, <1>b, <2>2, <3>2, <4>1 DEF Rebuild, Goes
    <3> QED BY <2>2, <3>1, <3>2 DEF Rebuild, Returns
  <2>3. ASSUME NEW c, Restore(c)
        PROVE  /\ rows' \in RowStates
               /\ \/ available' = available /\ rows'.stale = {} /\ rows'.state = "old"
                  \/ available' = FALSE
               /\ Raises({}) /\ UNCHANGED <<registry, files, memory, halfDone>>
    <3>1. CASE Rebuilt("old") /\ UNCHANGED available
      <4>1. rows' \in RowStates /\ rows'.stale = {} /\ rows'.state = "old"
        BY <3>1 DEF Rebuilt, RowStates
      <4> QED BY <2>3, <3>1, <4>1 DEF Restore
    <3>2. CASE /\ available' = FALSE
               /\ rows' \in {rows} \union {[state |-> "old", stale |-> s] : s \in SUBSET Indexed}
      <4>1. ASSUME NEW s \in SUBSET Indexed PROVE [state |-> "old", stale |-> s] \in RowStates
        BY <1>1 DEF RowStates
      <4>2. rows' \in RowStates
        BY <1>0, <3>2, <4>1
      <4> QED BY <2>3, <3>2, <4>2 DEF Restore
    <3> QED BY <2>3, <3>1, <3>2 DEF Restore
  <2> QED BY <1>0, <1>a, <2>1, <2>2, <2>3
<1>3. available' \in BOOLEAN /\ (available' => available)
  <2>1. CASE available' = available
    BY <1>0, <2>1
  <2>2. CASE available' = FALSE
    BY <2>2
  <2> QED BY <1>2, <2>1, <2>2
<1>4. TableTypes'
  BY <1>0, <1>2, <1>3 DEF TableTypes, RowStates
<1>5. Shapes'
  BY <1>0, <1>2 DEF Shapes, IsWhole
<1>6. ASSUME ~halfDone, FilesAreThere, ChangeOK, RowsOK
      PROVE  FilesAreThere' /\ ChangeOK' /\ RowsOK'
  <2>1. UpdateOK'
    BY <1>0, <1>2, <1>6 DEF ChangeOK, UpdateOK, Agrees
  <2>2. ChangeOK'
    BY <1>2, <2>1 DEF ChangeOK, CreateTableOK, CreateIndexOK, DropIndexOK, DropTableOK
  <2>3. RowsOK'
    <3>1. CASE available'
      <4>1. \/ /\ change'.at \in {"rebuild", "restore"}
               /\ rows'.state = "torn" \/ (rows' = rows /\ change.at # "done")
            \/ /\ rows'.stale = {}
               /\ rows'.state = "old" \/ (rows'.state = "new" /\ change'.at = "done")
        BY <1>2, <3>1
      <4>2. available
        BY <1>3, <3>1
      <4> QED BY <1>2, <1>6, <4>1, <4>2 DEF RowsOK
    <3>2. CASE ~available'
      BY <3>2 DEF RowsOK
    <3> QED BY <3>1, <3>2
  <2>4. FilesAreThere'
    BY <1>2, <1>6 DEF FilesAreThere, FilesOf
  <2> QED BY <2>2, <2>3, <2>4
<1> QED BY <1>2, <1>4, <1>5, <1>6, TableStep

\* What a change of one index is about.
Naming(i) == [NoView EXCEPT !.indexes = {i}]

\* A change starts from maps that agree and rows that are whole.
LEMMA StartSteps ==
    ASSUME TableIInv, service # "down", service' = service,
           \/ \E view \in Views : StartCreateTable(view)
           \/ \E i \in IndexIds : StartCreateIndex(i) \/ StartDropIndex(i)
           \/ StartDropTable \/ StartUpdate
    PROVE  TableIInv'
<1> USE NoViewFacts
<1>0. /\ TableTypes /\ Shapes /\ change = NoChange
      /\ memory \in [Maps -> AllViews] /\ registry \in AllViews
      /\ memory["tables"] \in AllViews
      /\ UNCHANGED <<registry, files, rows, memory, available, halfDone>>
  BY DEF TableIInv, TableTypes, StartCreateTable, StartCreateIndex, StartDropIndex,
         StartDropTable, StartUpdate, Maps
<1>1. TableTypes /\ change' \in Changes => TableTypes'
  BY <1>0 DEF TableTypes
<1>2. ASSUME ~halfDone, ChangeOK, RowsOK, FilesAreThere,
             change' \in Changes, change' # NoChange,
             CreateTableOK', CreateIndexOK', DropIndexOK', DropTableOK', UpdateOK'
      PROVE  FilesAreThere' /\ ChangeOK' /\ RowsOK'
  <2>1. RowsOK'
    BY <1>0, <1>2 DEF RowsOK
  <2>2. FilesAreThere'
    BY <1>0, <1>2 DEF FilesAreThere, FilesOf
  <2> QED BY <1>2, <2>1, <2>2 DEF ChangeOK
<1>3. ASSUME NEW i \in IndexIds
      PROVE  Naming(i) \in AllViews /\ {i} \in SUBSET Ids /\ Naming(i).indexes = {i}
  BY DEF AllViews, NoView, Ids, Naming
<1>4. ASSUME NEW view \in Views, StartCreateTable(view) PROVE TableIInv'
  <2>1. PICK at \in {"files", "refused"} :
            /\ Starts("create table", at, view, FilesOf(view))
            /\ "create table" \in Ops /\ at \in FirstSteps
    BY <1>4 DEF StartCreateTable, Starts, Ops, FirstSteps
  <2>2. view \in AllViews /\ FilesOf(view) \in SUBSET Ids
    BY DEF Views, AllViews, FilesOf, Ids
  <2>3. /\ change' \in Changes /\ change' # NoChange
        /\ change'.op = "create table" /\ change'.at = at /\ change'.view = view
        /\ change'.was = memory
    BY <1>0, <2>1, <2>2, StartFacts
  <2>4. Shapes'
    BY <1>0, <2>3 DEF Shapes, IsWhole
  <2>5. ASSUME ~halfDone, ChangeOK, RowsOK, FilesAreThere
        PROVE  FilesAreThere' /\ ChangeOK' /\ RowsOK'
    <3>1. Agrees
      BY <1>0, <2>5 DEF ChangeOK
    <3>2. registry = NoView
      BY <1>0, <1>4, <3>1 DEF StartCreateTable, Agrees, Everywhere, Shapes, IsWhole, Maps
    <3>3. CreateTableOK'
      BY <1>0, <2>3, <3>1, <3>2 DEF CreateTableOK, Agrees
    <3>4. CreateIndexOK' /\ DropIndexOK' /\ DropTableOK' /\ UpdateOK'
      BY <2>3 DEF CreateIndexOK, DropIndexOK, DropTableOK, UpdateOK
    <3> QED BY <1>2, <2>3, <2>5, <3>3, <3>4
  <2> QED BY <1>0, <1>1, <2>3, <2>4, <2>5, TableStep
<1>5. ASSUME NEW i \in IndexIds, StartCreateIndex(i) PROVE TableIInv'
  <2>1. /\ Starts("create index", "build", Naming(i), {i})
        /\ "create index" \in Ops /\ "build" \in FirstSteps
    BY <1>5 DEF StartCreateIndex, Naming, Starts, Ops, FirstSteps
  <2>3. /\ change' \in Changes /\ change' # NoChange
        /\ change'.op = "create index" /\ change'.at = "build"
        /\ change'.view.indexes = {i} /\ change'.left = {i} /\ change'.was = memory
    BY <1>0, <1>3, <2>1, StartFacts
  <2>4. Shapes'
    BY <1>0, <1>5, <2>3 DEF Shapes, IsWhole, StartCreateIndex
  <2>5. ASSUME ~halfDone, ChangeOK, RowsOK, FilesAreThere
        PROVE  FilesAreThere' /\ ChangeOK' /\ RowsOK'
    <3>1. Agrees
      BY <1>0, <2>5 DEF ChangeOK
    <3>2. i \notin FilesOf(registry) /\ memory["gui"].table # NoTable
      BY <1>5 DEF StartCreateIndex, FreshIdentity
    <3>3. CreateIndexOK'
      BY <1>0, <2>3, <3>1, <3>2 DEF CreateIndexOK, Agrees, FilesOf
    <3>4. CreateTableOK' /\ DropIndexOK' /\ DropTableOK' /\ UpdateOK'
      BY <2>3 DEF CreateTableOK, DropIndexOK, DropTableOK, UpdateOK
    <3> QED BY <1>2, <2>3, <2>5, <3>3, <3>4
  <2> QED BY <1>0, <1>1, <2>3, <2>4, <2>5, TableStep
<1>6. ASSUME NEW i \in IndexIds, StartDropIndex(i) PROVE TableIInv'
  <2>1. /\ Starts("drop index", "registry", Naming(i), {i})
        /\ "drop index" \in Ops /\ "registry" \in FirstSteps
    BY <1>6 DEF StartDropIndex, Naming, Starts, Ops, FirstSteps
  <2>3. /\ change' \in Changes /\ change' # NoChange
        /\ change'.op = "drop index" /\ change'.at = "registry"
        /\ change'.view.indexes = {i} /\ change'.left = {i} /\ change'.was = memory
    BY <1>0, <1>3, <2>1, StartFacts
  <2>4. Shapes'
    BY <1>0, <2>3 DEF Shapes, IsWhole
  <2>5. ASSUME ~halfDone, ChangeOK, RowsOK, FilesAreThere
        PROVE  FilesAreThere' /\ ChangeOK' /\ RowsOK'
    <3>1. Agrees
      BY <1>0, <2>5 DEF ChangeOK
    <3>2. memory["gui"] = registry /\ i \in registry.indexes
      BY <1>6, <3>1 DEF StartDropIndex, Agrees, Everywhere
    <3>3. memory["gui"].table # NoTable
      BY <1>0, <3>2 DEF Shapes, IsWhole
    <3>4. DropIndexOK'
      BY <1>0, <2>3, <3>1, <3>3 DEF DropIndexOK, Agrees, Everywhere
    <3>5. CreateTableOK' /\ CreateIndexOK' /\ DropTableOK' /\ UpdateOK'
      BY <2>3 DEF CreateTableOK, CreateIndexOK, DropTableOK, UpdateOK
    <3> QED BY <1>2, <2>3, <2>5, <3>4, <3>5
  <2> QED BY <1>0, <1>1, <2>3, <2>4, <2>5, TableStep
<1>7. ASSUME StartDropTable PROVE TableIInv'
  <2>1. /\ Starts("drop table", "registry", memory["tables"], FilesOf(memory["tables"]))
        /\ "drop table" \in Ops /\ "registry" \in FirstSteps
    BY <1>7 DEF StartDropTable, Starts, Ops, FirstSteps
  <2>2. FilesOf(memory["tables"]) \in SUBSET Ids
    BY <1>0 DEF FilesOf, AllViews, Ids
  <2>3. /\ change' \in Changes /\ change' # NoChange
        /\ change'.op = "drop table" /\ change'.at = "registry"
    BY <1>0, <2>1, <2>2, StartFacts
  <2>4. Shapes'
    BY <1>0, <2>3 DEF Shapes, IsWhole
  <2>5. ASSUME ~halfDone, ChangeOK, RowsOK, FilesAreThere
        PROVE  FilesAreThere' /\ ChangeOK' /\ RowsOK'
    <3>1. Agrees'
      BY <1>0, <2>5 DEF ChangeOK, Agrees, Everywhere
    <3>2. DropTableOK' /\ CreateTableOK' /\ CreateIndexOK' /\ DropIndexOK' /\ UpdateOK'
      BY <2>3, <3>1 DEF CreateTableOK, CreateIndexOK, DropIndexOK, DropTableOK, UpdateOK
    <3> QED BY <1>2, <2>3, <2>5, <3>2
  <2> QED BY <1>0, <1>1, <2>3, <2>4, <2>5, TableStep
<1>8. ASSUME StartUpdate PROVE TableIInv'
  <2>1. /\ Starts("update", "rewrite", memory["tables"], {})
        /\ "update" \in Ops /\ "rewrite" \in FirstSteps
    BY <1>8 DEF StartUpdate, Starts, Ops, FirstSteps
  <2>2. {} \in SUBSET Ids
    OBVIOUS
  <2>3. /\ change' \in Changes /\ change' # NoChange
        /\ change'.op = "update" /\ change'.at = "rewrite" /\ change'.was = memory
    BY <1>0, <2>1, <2>2, StartFacts
  <2>4. Shapes'
    BY <1>0, <2>3 DEF Shapes, IsWhole
  <2>5. ASSUME ~halfDone, ChangeOK, RowsOK, FilesAreThere
        PROVE  FilesAreThere' /\ ChangeOK' /\ RowsOK'
    <3>1. Agrees'
      BY <1>0, <2>5 DEF ChangeOK, Agrees, Everywhere
    <3>2. DropTableOK' /\ CreateTableOK' /\ CreateIndexOK' /\ DropIndexOK' /\ UpdateOK'
      BY <1>0, <2>3, <3>1
      DEF CreateTableOK, CreateIndexOK, DropIndexOK, DropTableOK, UpdateOK
    <3> QED BY <1>2, <2>3, <2>5, <3>2
  <2> QED BY <1>0, <1>1, <2>3, <2>4, <2>5, TableStep
<1> QED BY <1>4, <1>5, <1>6, <1>7, <1>8

\* A change that is over leaves agreement and rows that are whole.
LEMMA EndStep ==
    ASSUME TableIInv, service # "down", service' = service, EndChange
    PROVE  TableIInv'
<1>0. /\ TableTypes /\ Shapes /\ rows \in RowStates
      /\ change # NoChange /\ change.at \in {"done", "failed", "refused"} /\ change' = NoChange
      /\ UNCHANGED <<registry, files, memory, available, halfDone>>
  BY DEF TableIInv, TableTypes, RowStates, EndChange
<1>1. /\ rows' \in RowStates
      /\ rows' = rows \/ (rows'.state = "old" /\ rows'.stale = {})
      /\ rows'.state = "new" => rows.state # "new"
  BY <1>0, SettledFacts DEF EndChange
<1>2. TableTypes'
  BY <1>0, <1>1 DEF TableTypes, RowStates
<1>3. Shapes'
  BY <1>0 DEF Shapes, IsWhole
<1>4. ASSUME ~halfDone, FilesAreThere, ChangeOK, RowsOK
      PROVE  FilesAreThere' /\ ChangeOK' /\ RowsOK'
  <2>1. change.op \in {"create table", "create index", "drop index", "drop table", "update"}
    BY <1>0 DEF TableTypes, Changes
  <2>2. Agrees
    BY <1>0, <1>4, <2>1
    DEF ChangeOK, CreateTableOK, CreateIndexOK, DropIndexOK, DropTableOK, UpdateOK
  <2>3. ChangeOK'
    BY <1>0, <2>2 DEF ChangeOK, Agrees, Everywhere
  <2>4. RowsOK'
    BY <1>0, <1>1, <1>4 DEF RowsOK
  <2>5. FilesAreThere'
    BY <1>0, <1>4 DEF FilesAreThere, FilesOf
  <2> QED BY <2>3, <2>4, <2>5
<1> QED BY <1>0, <1>2, <1>3, <1>4, TableStep

-----------------------------------------------------------------------------
(***************************************************************************)
(* Every step of the service                                               *)
(***************************************************************************)

\* A session's step neither ends the process nor makes its owner available again.
LEMMA OwnerFacts ==
    ASSUME SessionIInv, OwnStep
    PROVE  /\ service' = "down" <=> service = "down"
           /\ available' = available \/ available' = FALSE
<1> USE DEF serviceVars, httpVars, engineVars, lockVars
<1>1. service = "down" => drain.at = "none" /\ \A s \in Sessions : call[s] = "none"
  BY DEF SessionIInv, DownIsQuiet
<1>2. ASSUME NEW s \in Sessions,
             \/ Enter(s) \/ CheckReader(s) \/ OpenReader(s) \/ OpenSession(s)
             \/ TakeToClose(s) \/ CloseTimesOut(s) \/ Sweep(s) \/ TimesOut(s) \/ AskCancel(s)
             \/ AskClose(s) \/ Cancel(s) \/ Collect(s) \/ Exit(s)
      PROVE  service' = service /\ available' = available
  BY <1>2 DEF Enter, CheckReader, OpenReader, OpenSession, TakeToClose, CloseTimesOut,
     Sweep,
              TimesOut, AskCancel, AskClose, Cancel, Collect, Exit
<1>3. ASSUME NEW s \in Sessions,
             Refused(s) \/ Begin(s) \/ Statement(s) \/ Definition(s) \/ Grant(s)
      PROVE  service' = service /\ available' = available
  BY <1>3 DEF Refused, Begin, Statement, Definition, Grant, Rests
<1>4. ASSUME NEW s \in Sessions, Aborts(s)
      PROVE  available' = available \/ available' = FALSE
  BY <1>4 DEF Aborts
<1>5. ASSUME NEW s \in Sessions, EndGroup(s) \/ WaitFails(s) \/ Finish(s) \/ CloseEngine(s)
      PROVE  service' = service /\ (available' = available \/ available' = FALSE)
  BY <1>4, <1>5 DEF EndGroup, WaitFails, Finish, CloseEngine, Rests
<1>6. CASE \/ BeginShutdown \/ CloseService \/ FindsUnavailable \/ TakeAdmission
           \/ AdmissionTimesOut \/ CloseCoordinator \/ CollectTimesOut \/ CloseHandles
  BY <1>1, <1>6 DEF BeginShutdown, CloseService, RefusesAll, FindsUnavailable,
     TakeAdmission,
                    AdmissionTimesOut, CloseCoordinator, CollectTimesOut, CloseHandles,
                       GivesUp
<1>7. CASE CloseTaken
  BY <1>1, <1>7 DEF CloseTaken, GivesUp
<1> QED BY <1>2, <1>3, <1>5, <1>6, <1>7 DEF OwnStep

\* The definitions are whole as long as nobody changes them.
LEMMA SessionsLeaveTables ==
    ASSUME TableIInv, UNCHANGED definitions, available' = available \/ available' = FALSE,
           service' = "down" <=> service = "down"
    PROVE  TableIInv'
<1> USE DEF definitions
<1>1. TableTypes /\ available \in BOOLEAN
  BY DEF TableIInv, TableTypes
<1>2. available' \in BOOLEAN /\ (available' => available)
  <2>1. CASE available' = available
    BY <1>1, <2>1
  <2>2. CASE available' = FALSE
    BY <2>2
  <2> QED BY <2>1, <2>2
<1>3. TableTypes'
  BY <1>1, <1>2 DEF TableTypes
<1>4. Shapes => Shapes'
  BY DEF Shapes, IsWhole
<1>5. FilesAreThere => FilesAreThere'
  BY DEF FilesAreThere, FilesOf
<1>6. ChangeOK => ChangeOK'
  <2>1. CreateTableOK => CreateTableOK'
    BY DEF CreateTableOK, Agrees, Everywhere, NoView, FilesOf
  <2>2. CreateIndexOK => CreateIndexOK'
    BY DEF CreateIndexOK, Agrees, Everywhere, FilesOf, Adds
  <2>3. DropIndexOK => DropIndexOK'
    BY DEF DropIndexOK, Agrees, Everywhere, Removes
  <2>4. DropTableOK => DropTableOK'
    BY DEF DropTableOK, Agrees, Everywhere
  <2>5. UpdateOK => UpdateOK'
    BY DEF UpdateOK, Agrees, Everywhere
  <2>6. Agrees => Agrees'
    BY DEF Agrees, Everywhere
  <2> QED BY <2>1, <2>2, <2>3, <2>4, <2>5, <2>6 DEF ChangeOK
<1>7. RowsOK => RowsOK'
  BY <1>2 DEF RowsOK
<1> QED BY <1>3, <1>4, <1>5, <1>6, <1>7 DEF TableIInv

\* A server opens a table whose files are there, or none.
LEMMA InitTableIInv == ASSUME Init PROVE TableIInv
<1> DEFINE first == CHOOSE id \in TableIds : TRUE
           some == CHOOSE id \in IndexIds : TRUE
<1>1. first \in TableIds /\ some \in IndexIds
  BY IdentitiesAssumption
<1>2. registry \in {NoView} \union
        [table: {first}, indexes: {{}, {some}, IndexIds}, spatial: BOOLEAN]
  BY DEF Init, InitTables
<1>3. registry \in AllViews /\ IsWhole(registry)
  <2>1. CASE registry = NoView
    BY <2>1, NoViewFacts DEF IsWhole
  <2>2. CASE registry \in [table: {first}, indexes: {{}, {some}, IndexIds}, spatial: BOOLEAN]
    BY <1>1, <2>2, IdentitiesAssumption DEF AllViews, IsWhole
  <2> QED BY <1>2, <2>1, <2>2
<1>4. /\ files = FilesOf(registry) /\ rows = Settled /\ memory = Everywhere(registry)
      /\ available = TRUE /\ change = NoChange /\ halfDone = FALSE /\ service = "ready"
  BY DEF Init, InitTables, InitSessions
<1>5. memory \in [Maps -> AllViews] /\ memory["gui"] = registry
  BY <1>3, <1>4, NoViewFacts DEF Everywhere
<1>6. TableTypes
  BY <1>3, <1>4, <1>5, SettledFacts DEF TableTypes, RowStates
<1>7. Shapes /\ FilesAreThere /\ Agrees
  BY <1>3, <1>4, <1>5 DEF Shapes, FilesAreThere, Agrees
<1>8. RowsOK
  BY <1>4, SettledFacts DEF RowsOK
<1> QED BY <1>4, <1>6, <1>7, <1>8 DEF TableIInv, ChangeOK

\* The process ends and leaves the disk; open accepts a registry it can serve.
LEMMA RestartSteps ==
    ASSUME TableIInv, Ends \/ Reopens
    PROVE  TableIInv' /\ SessionIInv'
<1> USE NoViewFacts
<1>1. CASE Ends
  <2>1. /\ service' = "down" /\ memory' = Everywhere(NoView) /\ available' = TRUE
        /\ change' = NoChange /\ UNCHANGED <<registry, files, rows, halfDone>>
    BY <1>1 DEF Ends, Forget, EndSessions, Restarts
  <2>2. memory' \in [Maps -> AllViews] /\ memory'["gui"] = NoView
    BY <2>1 DEF Everywhere
  <2>3. TableTypes'
    BY <2>1, <2>2 DEF TableIInv, TableTypes
  <2>4. Shapes'
    BY <2>1, <2>2 DEF TableIInv, Shapes, IsWhole
  <2>5. TableIInv'
    BY <2>1, <2>3, <2>4 DEF TableIInv, FilesAreThere, FilesOf
  <2>6. SessionIInv'
    BY <1>1 DEF Ends, EndSessions, Restarts, SessionIInv, SessionTypes, WorkHasSession,
                ReadersAreApart, DrainCatchesAll, DownIsQuiet, Sessions, NoDrain, Running
  <2> QED BY <2>5, <2>6
<1>2. CASE Reopens
  <2>1. /\ service = "down" /\ service' = "ready" /\ memory' = Everywhere(registry)
        /\ FilesOf(registry) \ {SpatialFile} \subseteq files
        /\ files' = files \union FilesOf(registry)
        /\ rows' = Settled /\ halfDone' = FALSE /\ UNCHANGED <<registry, available, change>>
    BY <1>2 DEF Reopens, OpenTables, Opens, StartSessions, Restarts
  <2>2. change = NoChange /\ registry \in AllViews
    BY <2>1 DEF TableIInv, TableTypes
  <2>3. memory' \in [Maps -> AllViews] /\ memory'["gui"] = registry
    BY <2>1, <2>2 DEF Everywhere
  <2>4. TableTypes'
    BY <2>1, <2>2, <2>3, SettledFacts DEF TableIInv, TableTypes, RowStates
  <2>5. Shapes'
    BY <2>1, <2>2, <2>3 DEF TableIInv, Shapes, IsWhole
  <2>6. Agrees' /\ FilesAreThere'
    BY <2>1 DEF Agrees, Everywhere, FilesAreThere, FilesOf
  <2>7. RowsOK'
    BY <2>1, <2>2, SettledFacts DEF RowsOK
  <2>8. TableIInv'
    BY <2>1, <2>2, <2>4, <2>5, <2>6, <2>7 DEF TableIInv, ChangeOK
  <2>9. SessionIInv'
    BY <1>2 DEF Reopens, StartSessions, Restarts, SessionIInv, SessionTypes, WorkHasSession,
                ReadersAreApart, DrainCatchesAll, DownIsQuiet, Sessions, NoDrain, Running
  <2> QED BY <2>8, <2>9
<1> QED BY <1>1, <1>2

\* A change is made in a process that runs, and no session moves while it does.
LEMMA ChangeStepsTogether ==
    ASSUME ServiceIInv, NEW s \in Sessions, StartChange(s) \/ StepChange(s)
    PROVE  ServiceIInv'
<1>1. service # "down" /\ UNCHANGED talk
  <2>1. call[s] = "working" /\ UNCHANGED talk
    BY DEF StartChange, StepChange, Defines, OfTables
  <2> QED BY <2>1 DEF ServiceIInv, SessionIInv, DownIsQuiet
<1>2. SessionIInv'
  BY <1>1 DEF ServiceIInv, SessionIInv, talk, SessionTypes, WorkHasSession, ReadersAreApart,
              DrainCatchesAll, DownIsQuiet, Running
<1>3. CASE StartChange(s)
  <2>1. \A ids : OneOf(ids) \subseteq ids
    <3>1. SUFFICES ASSUME NEW ids, {id \in ids : FreshIdentity(id)} # {}
                   PROVE  (CHOOSE id \in {id \in ids : FreshIdentity(id)} : TRUE) \in ids
      BY DEF OneOf
    <3> QED BY <3>1
  <2>2. NewViews \subseteq Views
    BY <2>1 DEF NewViews, Views
  <2>3. \/ \E view \in Views : StartCreateTable(view)
        \/ \E i \in IndexIds : StartCreateIndex(i) \/ StartDropIndex(i)
        \/ StartDropTable \/ StartUpdate
    BY <1>3, <2>1, <2>2 DEF StartChange
  <2> QED BY <1>1, <1>2, <2>3, StartSteps DEF ServiceIInv, talk
<1>4. CASE StepChange(s)
  <2>1. ChangeSteps(flag[s])
    BY <1>4 DEF StepChange
  <2> QED BY <1>1, <1>2, <2>1, CreateTableSteps, CreateIndexSteps, DropIndexSteps,
             DropTableSteps, UnlinkSteps, UpdateSteps DEF ServiceIInv, ChangeSteps, talk
<1> QED BY <1>3, <1>4

\* Every step of the service keeps the invariant.
LEMMA StepServiceIInv == ASSUME ServiceIInv, [Next]_vars PROVE ServiceIInv'
<1>1. ASSUME OwnStep, UNCHANGED definitions PROVE ServiceIInv'
  BY <1>1, OwnerFacts, SessionsLeaveTables, StepSessionIInv DEF ServiceIInv, SessionStep
<1>2. ASSUME NEW s \in Sessions, EndDefinition(s) PROVE ServiceIInv'
  <2>1. SessionIInv'
    BY <1>2, StepSessionIInv DEF ServiceIInv, EndDefinition, SessionStep
  <2>2. service # "down" /\ service' = service
    BY <1>2 DEF ServiceIInv, SessionIInv, DownIsQuiet, EndDefinition, Defines,
                FinishDefinition, Rests
  <2>3. CASE UNCHANGED tableVars
    BY <2>1, <2>2, <2>3, SessionsLeaveTables DEF ServiceIInv, tableVars, definitions
  <2>4. CASE EndChange
    BY <2>1, <2>2, <2>4, EndStep DEF ServiceIInv
  <2> QED BY <1>2, <2>3, <2>4 DEF EndDefinition
<1>3. ASSUME NEW s \in Sessions,
             Calls(s) \/ Opening(s) \/ Closing(s) \/ Asks(s) \/ Cancelling(s)
      PROVE  ServiceIInv'
  <2>1. OwnStep /\ UNCHANGED definitions
    BY <1>3 DEF Calls, Opening, Closing, Asks, Cancelling, OfSessions, OwnStep
  <2> QED BY <1>1, <2>1
<1>4. ASSUME NEW s \in Sessions, EngineCall(s) PROVE ServiceIInv'
  <2>1. CASE StartChange(s) \/ StepChange(s)
    BY <2>1, ChangeStepsTogether
  <2>2. CASE /\ \/ OpenReader(s) \/ Refused(s) \/ Begin(s) \/ EndGroup(s) \/ Statement(s)
                \/ Definition(s) \/ Grant(s) \/ WaitFails(s) \/ Finish(s) \/ Exit(s)
             /\ OfSessions
    <3>1. OwnStep /\ UNCHANGED definitions
      BY <2>2 DEF OfSessions, OwnStep
    <3> QED BY <1>1, <3>1
  <2> QED BY <1>2, <1>4, <2>1, <2>2 DEF EngineCall
<1>5. CASE Stops \/ Quarantines \/ CloseStopped \/ Drains
  <2>1. OwnStep /\ UNCHANGED definitions
    BY <1>5 DEF Stops, Quarantines, CloseStopped, Drains, OfSessions, OwnStep
  <2> QED BY <1>1, <2>1
<1>6. CASE Ends \/ Reopens
  BY <1>6, RestartSteps DEF ServiceIInv
<1>7. CASE UNCHANGED vars
  <2>1. SessionIInv'
    BY <1>7 DEF vars, talk, ServiceIInv, SessionIInv, SessionTypes, WorkHasSession,
                ReadersAreApart, DrainCatchesAll, DownIsQuiet, Running
  <2>2. TableIInv'
    BY <1>7, SessionsLeaveTables DEF vars, talk, tableVars, definitions, ServiceIInv
  <2> QED BY <2>1, <2>2 DEF ServiceIInv
<1> QED BY <1>3, <1>4, <1>5, <1>6, <1>7 DEF Next

-----------------------------------------------------------------------------
\* The invariant of the service: what its threads have taken and what a change has done
\* by each of its steps.
THEOREM ServiceInvariant == Spec => []ServiceIInv
<1>1. Init => ServiceIInv
  BY InitSessionIInv, InitTableIInv DEF Init, ServiceIInv
<1>2. ServiceIInv /\ [Next]_vars => ServiceIInv'
  BY StepServiceIInv
<1> QED BY <1>1, <1>2, PTL DEF Spec

\* Shutdown closes the files under nobody: the thread that stops the service has taken
\* and closed every engine session by then, and keeps the others out until it is done
\* (Database.shutdown, SessionCoordinator.shutdown).
THEOREM FilesCloseUnderNobody == Spec => []FilesCloseIdle
<1>1. ServiceIInv => FilesCloseIdle
  BY DEF ServiceIInv, SessionIInv, SessionTypes, WorkHasSession, DrainCatchesAll,
     FilesCloseIdle
<1> QED BY <1>1, ServiceInvariant, PTL

\* gui_tables.json never names a file that is not there, whatever step of a change
\* fails and wherever the process ends (create_sql_table, drop_sql_table).
THEOREM RegistryNamesFiles == Spec => []RegistryFindsFiles
<1>1. ServiceIInv => RegistryFindsFiles
  BY DEF ServiceIInv, TableIInv, FilesAreThere, RegistryFindsFiles
<1> QED BY <1>1, ServiceInvariant, PTL

\* A change is whole or did not happen: what its handler leaves is the registry in every
\* map and rows with all their indexes, and what it undoes is all it has done
\* (create_sql_index, _unpublish, update_sql_table).
THEOREM ChangesAreAllOrNothing == Spec => []ChangesAreWhole
<1>1. ASSUME ServiceIInv, AtRest, service # "down", available, ~halfDone
      PROVE  /\ memory = Everywhere(registry)
             /\ rows.state # "torn" /\ rows.stale = {}
             /\ (change # NoChange /\ change.at = "failed"
                   /\ change.op \in {"create table", "create index", "update"}) =>
                  memory = change.was /\ rows.state = "old"
  <2>1. TableTypes /\ ChangeOK /\ RowsOK
    BY <1>1 DEF ServiceIInv, TableIInv
  <2>2. rows.state # "torn" /\ rows.stale = {}
    BY <1>1, <2>1 DEF RowsOK, AtRest
  <2>3. CASE change = NoChange
    BY <2>1, <2>2, <2>3 DEF ChangeOK, Agrees
  <2>4. CASE change # NoChange /\ change.at \in {"done", "failed", "refused"}
    <3>1. change.op \in Ops
      BY <2>1, <2>4 DEF TableTypes, Changes, Ops
    <3>2. Agrees
      BY <2>1, <2>4, <3>1
      DEF ChangeOK, CreateTableOK, CreateIndexOK, DropIndexOK, DropTableOK, UpdateOK, Ops
    <3>3. ASSUME change.at = "failed", change.op \in {"create table", "create index", "update"}
          PROVE  memory = change.was /\ rows.state = "old"
      <4>1. memory = change.was
        BY <2>1, <2>4, <3>2, <3>3 DEF ChangeOK, CreateTableOK, CreateIndexOK, UpdateOK,
           Agrees
      <4>2. rows.state \in {"old", "new", "torn"} /\ rows.state # "new"
        BY <1>1, <2>1, <3>3 DEF RowsOK, TableTypes
      <4> QED BY <2>2, <4>1, <4>2
    <3> QED BY <2>2, <2>4, <3>2, <3>3 DEF Agrees
  <2> QED BY <1>1, <2>3, <2>4 DEF AtRest
<1>2. ServiceIInv => ChangesAreWhole
  BY <1>1 DEF ChangesAreWhole
<1> QED BY <1>2, ServiceInvariant, PTL
=============================================================================
