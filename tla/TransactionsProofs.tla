-------------------------- MODULE TransactionsProofs --------------------------
(***************************************************************************)
(* Theorems about Transactions, for any numbers of sessions, transactions  *)
(* and tables.                                                             *)
(*                                                                         *)
(* The inductive invariant says, for every session, what its call knows    *)
(* about its transaction, its locks and its tables at each step (SessionOK);*)
(* for every transaction, what its images, its locks and what it read have *)
(* to do with the contents (TxnOK); and for every table, who is            *)
(* responsible for it (TableOK).  A step belongs to one session and its    *)
(* transaction.  The locks keep it away from the tables the others rely on,*)
(* so that the others keep their parts of the invariant, and each action   *)
(* only has to be shown to keep the parts of its own session.              *)
(***************************************************************************)
EXTENDS Transactions, TLAPS

LP == INSTANCE LockManagerProofs

\* Where a call has a transaction, and in which state.
Running    == {"idle", "entered", "begun", "schema", "table", "granted", "prepared",
               "executed"}
Owning     == Steps \ {"idle", "entered", "closed"}
StateAt(p) == IF p = "committing" THEN {"COMMITTING"}
              ELSE IF p \in {"restoring", "quarantining"} THEN {"ABORTING"}
              ELSE IF p \in {"releasing", "discarding"} THEN {"COMMITTED", "ABORTED"}
              ELSE {"ACTIVE"}

Writes(s, r) == At(s, "prepared") /\ stmt[s].kind = "WRITE" /\ stmt[s].table = r

\* The call and the transaction of a session.
CallOK(s) ==
    /\ step[s] \in Owning => txn[s] # NoTxn
    /\ At(s, "closed") => txn[s] = NoTxn
    /\ step[s] \in Executing => stmt[s] \in Statements
    /\ At(s, "entered") /\ stmt[s].kind \in {"END", "ROLLBACK"} => txn[s] # NoTxn
    /\ step[s] \in {"schema", "table", "granted", "prepared"} => stmt[s] \in Data
    /\ cursor[s] # NoTable =>
         /\ txn[s] # NoTxn
         /\ At(s, "idle") \/ (At(s, "entered") /\ stmt[s].kind = "ROLLBACK")
    /\ txn[s] # NoTxn =>
         /\ state[txn[s]] \in StateAt(step[s])
         /\ txn[s] \in registered <=> ~At(s, "discarding")

\* The locks the call of a session has, or waits for.
LocksOK(s) ==
    txn[s] # NoTxn =>
      LET t == txn[s]
      IN  /\ cursor[s] # NoTable => held[t][cursor[s]] # "none"
          /\ At(s, "granted") \/ At(s, "prepared") =>
                /\ held[t][stmt[s].table] # "none"
                /\ stmt[s].kind = "WRITE" => held[t][stmt[s].table] = "X"
          /\ t \in blocked => Locking(s)
          /\ waiting[t] # NoRequest =>
                waiting[t] = [res |-> WantedRes(s), mode |-> WantedMode(s)]
          /\ t \in blocked /\ waiting[t] = NoRequest /\ Locks!StillActive(t) =>
                held[t][WantedRes(s)] \in {"X", WantedMode(s)}

\* What the call of a session has done to the tables its transaction touched.
WorkOK(s) ==
    txn[s] # NoTxn =>
      LET t == txn[s]
      IN  /\ At(s, "prepared") /\ stmt[s].kind = "WRITE" => stmt[s].table \in touched[t]
          /\ state[t] \in {"ACTIVE", "COMMITTING"} =>
                \A r \in touched[t] : t \in contents[r] \/ Writes(s, r)
          /\ At(s, "committing") =>
                /\ left[s] <= Len(images[t])
                /\ \A r \in touched[t] \intersect dirty :
                      \E i \in DOMAIN images[t] :
                         i > Len(images[t]) - left[s] /\ images[t][i].table = r
          /\ At(s, "restoring") =>
                /\ left[s] <= Len(images[t])
                /\ \A r \in touched[t] :
                      r \in dirty \/ t \in contents[r] =>
                         \E i \in 1 .. left[s] : images[t][i].table = r
                /\ \A r \in touched[t] \ open : left[s] > 0 /\ images[t][left[s]].table = r

SessionOK(s) == CallOK(s) /\ LocksOK(s) /\ WorkOK(s)

\* A transaction before its begin, and after the call that ended it.
OrphanOK(t) ==
    /\ state[t] = "unborn" =>
         /\ t \notin registered
         /\ touched[t] = {}
         /\ images[t] = <<>>
    /\ (\A s \in Sessions : txn[s] # t) =>
         /\ state[t] \in {"unborn", "COMMITTED", "ABORTED", "ABORT_FAILED"}
         /\ state[t] = "ABORT_FAILED" <=> t \in registered
         /\ t \notin blocked

\* The before-images of a transaction.
ImagesOK(t) ==
    /\ \A r \in touched[t] : t \in registered => held[t][r] = "X"
    /\ \A i \in DOMAIN images[t] : images[t][i].table \in touched[t]
    /\ t \in Unsettled =>
         /\ \A r \in touched[t] : \E i \in DOMAIN images[t] : images[t][i].table = r
         /\ \A i \in DOMAIN images[t] :
               images[t][i].before = contents[images[t][i].table] \ {t}

\* Its writes.
WritesOK(t) ==
    /\ \A r \in Tables : t \in contents[r] => r \in touched[t]
    /\ state[t] = "COMMITTED" => \A r \in touched[t] : t \in contents[r]
    /\ state[t] = "ABORTED" => \A r \in Tables : t \notin contents[r]

\* What it read is locked, and still there.
ReadsOK(t) ==
    \A r \in Tables : seen[t][r] # NotRead =>
        /\ state[t] \in {"ACTIVE", "COMMITTING", "ABORTING"}
        /\ held[t][r] # "none"
        /\ seen[t][r] = contents[r] \ {t}

TxnOK(t) == OrphanOK(t) /\ ImagesOK(t) /\ WritesOK(t) /\ ReadsOK(t)

\* A closed table is being restored, or will never be opened again; an unflushed
\* one has an unsettled writer.
TableOK(r) ==
    /\ r \notin open =>
         \E t \in Txns : state[t] \in {"ABORTING", "ABORT_FAILED"} /\ r \in touched[t]
    /\ r \in dirty => \E t \in Unsettled : r \in touched[t]

\* No transaction has two sessions.
OneOwner ==
    \A s, u \in Sessions : s # u /\ txn[s] # NoTxn => txn[s] # txn[u]

TxnIInv ==
    /\ TypeOK
    /\ LP!LockIInv
    /\ OneOwner
    /\ \A s \in Sessions : SessionOK(s)
    /\ \A t \in Txns : TxnOK(t)
    /\ \A r \in Tables : TableOK(r)

-----------------------------------------------------------------------------
(* What the lock domain guarantees its clients. *)

\* Transactions and LockManagerProofs speak of the same lock domain.
LEMMA LockBasis ==
    /\ Schema \notin Tables
    /\ NoRequest \notin LP!Requests
    /\ Locks!Resources = LP!Resources
    /\ Locks!Requests = LP!Requests
    /\ Locks!LockModes = LP!LockModes
  BY SchemaAssumption, NoRequestAssumption
     DEF Locks!Requests, LP!Requests, Locks!Resources, LP!Resources,
         Locks!LockModes, LP!LockModes

\* What is known of the lock table between two steps.
LockTable ==
    /\ Locks!TypeOK
    /\ \A t \in Txns : waiting[t] # NoRequest =>
          t \in registered /\ t \notin failed /\ t \in blocked
    /\ \A t \in Txns, r \in Locks!Resources : held[t][r] # "none" => t \in registered
    /\ \A t, u \in Txns, r \in Locks!Resources :
          t # u /\ held[t][r] = "X" => held[u][r] = "none"
    /\ unavailable => \A t \in Txns : waiting[t] = NoRequest

LEMMA LockFacts == LP!LockIInv => LockTable
<1> SUFFICES ASSUME LP!LockIInv PROVE LockTable
  OBVIOUS
<1>1. /\ LP!TypeOK /\ LP!QueuesAgree /\ LP!HoldersCompatible
  BY LockBasis, LP!LockIInvImplies
<1>2. Locks!TypeOK
  BY <1>1, LockBasis DEF LP!TypeOK, Locks!TypeOK
<1>3. /\ \A t \in Txns : waiting[t] # NoRequest =>
            t \in registered /\ t \notin failed /\ t \in blocked
      /\ unavailable => \A t \in Txns : waiting[t] = NoRequest
  BY <1>1 DEF LP!QueuesAgree, LP!Waiting
<1>4. \A t \in Txns, r \in Locks!Resources : held[t][r] # "none" => t \in registered
  BY <1>1, LockBasis DEF LP!QueuesAgree
<1>5. ASSUME NEW t \in Txns, NEW u \in Txns, NEW r \in Locks!Resources,
             t # u, held[t][r] = "X"
      PROVE  held[u][r] = "none"
  BY <1>1, <1>5, LockBasis DEF LP!HoldersCompatible, LP!Conflicts
<1> QED BY <1>2, <1>3, <1>4, <1>5 DEF LockTable

\* The locks and the request of a transaction that is not the one that acts: the
\* locks grow, and the request stays or is answered.
Kept(t) ==
    /\ t \in registered' <=> t \in registered
    /\ t \in blocked' <=> t \in blocked
    /\ \A r \in Locks!Resources :
          held'[t][r] = held[t][r] \/ (held[t][r] # "X" /\ held'[t][r] # "none")
    /\ \/ waiting'[t] = waiting[t]
       \/ /\ waiting'[t] = NoRequest
          /\ held'[t][waiting[t].res] = waiting[t].mode \/ t \in failed' \/ unavailable'
    /\ t \in failed => t \in failed'
    /\ unavailable => unavailable'

\* The steps of the lock domain for a transaction t.
LockMove(t) ==
    \/ Locks!Register(t) \/ Locks!Timeout(t) \/ Locks!ReturnGranted(t)
    \/ Locks!ReturnFailed(t) \/ Locks!Cancel(t) \/ Locks!ReleaseAll(t)
    \/ \E r \in Locks!Resources, m \in Locks!LockModes :
          \/ Locks!AcquireGranted(t, r, m) \/ Locks!AcquireDeadlock(t, r, m)
          \/ Locks!AcquireWait(t, r, m)

\* The two instances of LockManager grant alike.
LEMMA SameDrain ==
    ASSUME NEW rs, NEW h, NEW w, NEW e
    PROVE  Locks!Drain(rs, h, w, e) <=> LP!Drain(rs, h, w, e)
<1>1. Locks!Granted(rs, h, w, e) = LP!Granted(rs, h, w, e)
  <2>1. \A t : Locks!Blockers(t, h, w, e) = LP!Blockers(t, h, w, e)
    BY DEF Locks!Blockers, LP!Blockers, Locks!Conflicts, LP!Conflicts
  <2> QED BY <2>1 DEF Locks!Granted, LP!Granted, Locks!Grantable, LP!Grantable
<1> QED
  BY <1>1 DEF Locks!Drain, LP!Drain, Locks!DrainedHeld, LP!DrainedHeld,
              Locks!DrainedWaiting, LP!DrainedWaiting, Locks!DrainedEarlier,
              LP!DrainedEarlier, Locks!GrantMode, LP!GrantMode

LEMMA SameAcquire ==
    ASSUME NEW t \in Txns, NEW r \in Locks!Resources, NEW m \in Locks!LockModes
    PROVE  /\ Locks!AcquireGranted(t, r, m) => LP!AcquireGranted(t, r, m)
           /\ Locks!AcquireDeadlock(t, r, m) => LP!AcquireDeadlock(t, r, m)
           /\ Locks!AcquireWait(t, r, m) => LP!AcquireWait(t, r, m)
<1> USE DEF Locks!Blockers, LP!Blockers, Locks!Conflicts, LP!Conflicts,
            Locks!GrantMode, LP!GrantMode
<1>1. /\ Locks!MayRequest(t, r, m) = LP!MayRequest(t, r, m)
      /\ Locks!RequestBlockers(t, r, m) = LP!RequestBlockers(t, r, m)
      /\ Locks!WithRequest(t, r, m) = LP!WithRequest(t, r, m)
      /\ Locks!WithQueue(t, r) = LP!WithQueue(t, r)
      /\ Locks!ClosesCycle(t, Locks!WithRequest(t, r, m), Locks!WithQueue(t, r))
         <=> LP!ClosesCycle(t, LP!WithRequest(t, r, m), LP!WithQueue(t, r))
  BY DEF Locks!MayRequest, LP!MayRequest, Locks!RequestBlockers, LP!RequestBlockers,
         Locks!WithRequest, LP!WithRequest, Locks!WithQueue, LP!WithQueue,
         Locks!Queued, LP!Queued, Locks!ClosesCycle, LP!ClosesCycle
<1>2. Locks!AcquireGranted(t, r, m) => LP!AcquireGranted(t, r, m)
  BY <1>1, SameDrain DEF Locks!AcquireGranted, LP!AcquireGranted
<1>3. Locks!AcquireDeadlock(t, r, m) => LP!AcquireDeadlock(t, r, m)
  BY <1>1, SameDrain DEF Locks!AcquireDeadlock, LP!AcquireDeadlock
<1>4. Locks!AcquireWait(t, r, m) => LP!AcquireWait(t, r, m)
  BY <1>1, SameDrain DEF Locks!AcquireWait, LP!AcquireWait
<1> QED BY <1>2, <1>3, <1>4

\* Each of them is one of the steps LockManagerProofs speaks of.
LEMMA LockMoveNext ==
    ASSUME NEW t \in Txns, LockMove(t)
    PROVE  LP!LockNext
<1>1. Locks!Register(t) => LP!Register(t)
  BY DEF Locks!Register, LP!Register
<1>2. Locks!FailWait(t) => LP!FailWait(t)
  BY SameDrain
     DEF Locks!FailWait, LP!FailWait, Locks!QueueOf, LP!QueueOf,
         Locks!NoLongerWaiting, LP!NoLongerWaiting,
         Locks!NoLongerQueued, LP!NoLongerQueued
<1>3. Locks!Timeout(t) => LP!Timeout(t)
  BY <1>2 DEF Locks!Timeout, LP!Timeout
<1>4. Locks!Cancel(t) => LP!Cancel(t)
  BY <1>2 DEF Locks!Cancel, LP!Cancel
<1>5. Locks!ReturnGranted(t) => LP!ReturnGranted(t)
  BY DEF Locks!ReturnGranted, LP!ReturnGranted, Locks!StillActive, LP!StillActive
<1>6. Locks!ReturnFailed(t) => LP!ReturnFailed(t)
  BY DEF Locks!ReturnFailed, LP!ReturnFailed, Locks!StillActive, LP!StillActive
<1>7. Locks!ReleaseAll(t) => LP!ReleaseAll(t)
  <2>1. /\ Locks!QueueOf(t) = LP!QueueOf(t)
        /\ Locks!NoLongerWaiting({t}) = LP!NoLongerWaiting({t})
        /\ Locks!NoLongerQueued({t}) = LP!NoLongerQueued({t})
        /\ Locks!Resources = LP!Resources
    BY LockBasis DEF Locks!QueueOf, LP!QueueOf, Locks!NoLongerWaiting, LP!NoLongerWaiting,
                     Locks!NoLongerQueued, LP!NoLongerQueued
  <2> QED BY <2>1, SameDrain DEF Locks!ReleaseAll, LP!ReleaseAll
<1>8. ASSUME NEW r \in Locks!Resources, NEW m \in Locks!LockModes,
             \/ Locks!AcquireGranted(t, r, m) \/ Locks!AcquireDeadlock(t, r, m)
             \/ Locks!AcquireWait(t, r, m)
      PROVE  LP!Acquire(t, r, m)
  BY <1>8, SameAcquire DEF LP!Acquire
<1> QED
  BY <1>1, <1>3, <1>4, <1>5, <1>6, <1>7, <1>8, LockBasis DEF LockMove, LP!LockNext

\* A step that leaves the domain alone, one of a transaction of T, a cancellation
\* or the quarantine keeps the invariant of the domain, and the locks and requests of
\* every transaction outside T.
LEMMA LockStep ==
    ASSUME LP!LockIInv, NEW T \in SUBSET Txns,
           \/ UNCHANGED lockVars
           \/ \E t \in T : LockMove(t)
           \/ \E t \in Txns : Locks!Cancel(t)
           \/ Locks!Quarantine
    PROVE  /\ LP!LockIInv'
           /\ \A x \in Txns \ T : Kept(x)
           /\ \A x \in Txns : x \in registered' =>
                \A r \in Locks!Resources :
                   held'[x][r] = held[x][r] \/ (held[x][r] # "X" /\ held'[x][r] # "none")
<1>1. CASE UNCHANGED lockVars
  <2>1. LP!LockIInv'
    BY <1>1, LockBasis, LP!StepLockIInv DEF lockVars, LP!lockVars
  <2> QED BY <1>1, <2>1 DEF lockVars, Kept
<1>2. CASE Locks!Quarantine /\ unavailable
  <2>1. UNCHANGED lockVars
    BY <1>2, LockFacts
       DEF LockTable, Locks!TypeOK, Locks!Quarantine, Locks!NoLongerWaiting,
           Locks!NoLongerQueued, lockVars
  <2> QED BY <1>1, <2>1
<1>3. CASE /\ LP!LockNext
           /\ \A x \in Txns \ T : /\ x \in registered' <=> x \in registered
                                  /\ x \in blocked' <=> x \in blocked
  <2>1. LP!LockIInv'
    BY <1>3, LockBasis, LP!StepLockIInv
  <2>2. LockTable /\ LockTable'
    BY <2>1, LockFacts, PTL
  <2>3. ASSUME NEW x \in Txns PROVE LP!TwoPhase(x) /\ LP!Answered(x)
    BY <1>3, LockBasis, LP!StepTwoPhase, LP!StepAnswered
  <2>4. ASSUME NEW x \in Txns, x \in registered'
        PROVE  \A r \in Locks!Resources :
                  held'[x][r] = held[x][r] \/ (held[x][r] # "X" /\ held'[x][r] # "none")
    BY <2>3, <2>4, LockBasis DEF LP!TwoPhase, LP!Strengthened
  <2>5. ASSUME NEW x \in Txns \ T PROVE Kept(x)
    <3>1. CASE x \in registered
      <4>1. x \in registered' /\ (x \in blocked' <=> x \in blocked)
        BY <1>3, <3>1
      <4>2. \/ waiting'[x] = waiting[x]
            \/ /\ waiting'[x] = NoRequest
               /\ held'[x][waiting[x].res] = waiting[x].mode \/ x \in failed' \/ unavailable'
        BY <2>3, <4>1 DEF LP!Answered
      <4> QED BY <2>3, <2>4, <3>1, <4>1, <4>2 DEF Kept, LP!Answered
    <3>2. CASE x \notin registered
      BY <1>3, <2>2, <2>3, <3>2 DEF Kept, LP!Answered, LockTable, Locks!TypeOK
    <3> QED BY <3>1, <3>2
  <2> QED BY <2>1, <2>4, <2>5
<1>4. CASE Locks!Quarantine /\ ~unavailable
  <2>1. LP!Quarantine
    BY <1>4 DEF Locks!Quarantine, LP!Quarantine, Locks!NoLongerWaiting,
       LP!NoLongerWaiting, Locks!NoLongerQueued, LP!NoLongerQueued
  <2>2. UNCHANGED <<registered, blocked>>
    BY <1>4 DEF Locks!Quarantine
  <2> QED BY <1>3, <1>4, <2>1, <2>2 DEF LP!LockNext
<1>5. CASE \E t \in T : LockMove(t)
  <2> PICK t \in T : LockMove(t)
    BY <1>5
  <2>1. \A x \in Txns \ T : /\ x \in registered' <=> x \in registered
                            /\ x \in blocked' <=> x \in blocked
    BY DEF LockMove, Locks!Register, Locks!Timeout, Locks!ReturnGranted,
                Locks!ReturnFailed, Locks!Cancel, Locks!ReleaseAll,
                Locks!AcquireGranted, Locks!AcquireDeadlock, Locks!AcquireWait
  <2>2. LP!LockNext
    BY LockMoveNext
  <2> QED BY <1>3, <2>1, <2>2
<1>6. CASE \E t \in Txns : Locks!Cancel(t)
  <2>1. UNCHANGED <<registered, blocked>>
    BY <1>6 DEF Locks!Cancel
  <2> QED BY <1>3, <1>6, <2>1, LockMoveNext DEF LockMove
<1> QED BY <1>1, <1>2, <1>4, <1>5, <1>6

-----------------------------------------------------------------------------
(* What a step leaves to the sessions and transactions that do not make it. *)

SameSession(u) ==
    /\ txn'[u] = txn[u]
    /\ cursor'[u] = cursor[u]
    /\ step'[u] = step[u]
    /\ stmt'[u] = stmt[u]
    /\ left'[u] = left[u]

SameTxn(x) ==
    /\ state'[x] = state[x]
    /\ touched'[x] = touched[x]
    /\ images'[x] = images[x]
    /\ seen'[x] = seen[x]

SameTable(r) ==
    /\ contents'[r] = contents[r]
    /\ r \in dirty' <=> r \in dirty
    /\ r \in open' <=> r \in open

\* A step of the sessions S and the transactions T (at most one of each): it
\* changes a table only if T has it exclusively, and only the writes of T.
Frame(S, T) ==
    /\ \A u \in Sessions \ S : SameSession(u) /\ txn[u] \notin T
    /\ \A x \in Txns \ T : SameTxn(x) /\ Kept(x)
    /\ \A s \in S : txn'[s] = txn[s] \/ {txn[s], txn'[s]} \subseteq T \union {NoTxn}
    /\ \A r \in Tables : SameTable(r) \/ \E t \in T : held[t][r] = "X"
    /\ \A r \in Tables, x \in Txns \ T : x \in contents'[r] <=> x \in contents[r]

\* The others keep their parts of the invariant.
LEMMA OthersKeepCalls ==
    ASSUME TxnIInv, TypeOK', NEW S \in SUBSET Sessions, NEW T \in SUBSET Txns,
           Frame(S, T), NEW u \in Sessions \ S
    PROVE  CallOK(u)'
<1>1. SameSession(u) /\ CallOK(u)
  BY DEF Frame, TxnIInv, SessionOK
<1>2. txn[u] # NoTxn => SameTxn(txn[u]) /\ Kept(txn[u])
  BY DEF Frame, TxnIInv, TypeOK
<1> QED BY <1>1, <1>2 DEF CallOK, SameSession, SameTxn, Kept, At

LEMMA OthersKeepLocks ==
    ASSUME TxnIInv, TypeOK', NEW S \in SUBSET Sessions, NEW T \in SUBSET Txns,
           Frame(S, T), NEW u \in Sessions \ S
    PROVE  LocksOK(u)'
<1>1. SameSession(u) /\ CallOK(u) /\ LocksOK(u)
  BY DEF Frame, TxnIInv, SessionOK
<1> SUFFICES ASSUME NEW t \in Txns, t # NoTxn, txn[u] = t PROVE LocksOK(u)'
  BY <1>1 DEF TxnIInv, TypeOK, LocksOK, SameSession
<1>2. txn'[u] = t /\ SameTxn(t) /\ Kept(t)
  BY <1>1 DEF Frame, SameSession
<1>3. LockTable
  BY LockFacts DEF TxnIInv
<1>4. /\ cursor[u] # NoTable => cursor[u] \in Locks!Resources
      /\ stmt[u] \in Data => stmt[u].table \in Locks!Resources
      /\ Locking(u) => WantedRes(u) \in Locks!Resources
  BY <1>1 DEF TxnIInv, TypeOK, Locks!Resources, Data, CallOK, Locking, WantedRes, At
<1>5. WantedRes(u)' = WantedRes(u) /\ WantedMode(u)' = WantedMode(u) /\ Locking(u)' = Locking(u)
  BY <1>1 DEF SameSession, WantedRes, WantedMode, Locking, At
<1>6. /\ cursor[u] # NoTable => held[t][cursor[u]] # "none"
      /\ At(u, "granted") \/ At(u, "prepared") =>
            /\ held[t][stmt[u].table] # "none"
            /\ stmt[u].kind = "WRITE" => held[t][stmt[u].table] = "X"
      /\ t \in blocked => Locking(u)
      /\ waiting[t] # NoRequest =>
            waiting[t] = [res |-> WantedRes(u), mode |-> WantedMode(u)]
      /\ t \in blocked /\ waiting[t] = NoRequest /\ Locks!StillActive(t) =>
            held[t][WantedRes(u)] \in {"X", WantedMode(u)}
  BY <1>1, <1>2 DEF LocksOK
<1>7. /\ cursor'[u] # NoTable => held'[t][cursor'[u]] # "none"
      /\ At(u, "granted")' \/ At(u, "prepared")' =>
         /\ held'[t][stmt'[u].table] # "none"
         /\ stmt'[u].kind = "WRITE" => held'[t][stmt'[u].table] = "X"
  <2>1. At(u, "granted") \/ At(u, "prepared") => stmt[u].table \in Locks!Resources
    BY <1>1, <1>4 DEF CallOK, At
  <2> QED BY <1>1, <1>2, <1>4, <1>6, <2>1 DEF SameSession, Kept, At
<1>8. t \in blocked' => Locking(u)'
  BY <1>2, <1>5, <1>6 DEF Kept
<1>9. waiting'[t] # NoRequest =>
         waiting'[t] = [res |-> WantedRes(u)', mode |-> WantedMode(u)']
  BY <1>2, <1>5, <1>6 DEF Kept
<1>10. ASSUME t \in blocked', waiting'[t] = NoRequest, Locks!StillActive(t)'
       PROVE  held'[t][WantedRes(u)'] \in {"X", WantedMode(u)'}
  <2>1. Locks!StillActive(t) /\ t \in blocked /\ Locking(u) /\ t \notin failed' /\ ~unavailable'
    <3>1. t \in registered' /\ t \notin failed' /\ ~unavailable'
      BY <1>10 DEF Locks!StillActive
    <3>2. t \in registered /\ t \notin failed /\ ~unavailable /\ t \in blocked
      BY <1>2, <1>10, <3>1 DEF Kept
    <3> QED BY <1>6, <3>1, <3>2 DEF Locks!StillActive
  <2>2. CASE waiting[t] = NoRequest
    <3>1. WantedRes(u) \in Locks!Resources /\ held[t][WantedRes(u)] \in {"X", WantedMode(u)}
      BY <1>4, <1>6, <1>10, <2>1, <2>2
    <3>2. WantedMode(u) \in {"S", "X"} /\ held[t][WantedRes(u)] \in {"S", "X"}
      BY <3>1 DEF WantedMode
    <3>3. held[t][WantedRes(u)] = "S" => WantedMode(u) = "S"
      BY <3>1
    <3>4. held'[t][WantedRes(u)] \in {"S", "X", "none"}
      BY <1>2, <3>1 DEF TypeOK, Locks!TypeOK, Locks!LockModes
    <3> QED BY <1>2, <1>5, <3>1, <3>2, <3>3, <3>4 DEF Kept
  <2>3. CASE waiting[t] # NoRequest
    <3>1. held'[t][waiting[t].res] = waiting[t].mode
      BY <1>2, <1>10, <2>1, <2>3 DEF Kept
    <3> QED BY <1>5, <1>6, <2>3, <3>1
  <2> QED BY <2>2, <2>3
<1>11. (t \in blocked' /\ waiting'[t] = NoRequest /\ Locks!StillActive(t)') =>
         held'[t][WantedRes(u)'] \in {"X", WantedMode(u)'}
  BY <1>10
<1> QED BY <1>2, <1>7, <1>8, <1>9, <1>11 DEF LocksOK

\* Two transactions never hold a table exclusively, so neither depends on what
\* the other does to a table.
LEMMA OthersKeepWork ==
    ASSUME TxnIInv, TypeOK', NEW S \in SUBSET Sessions, NEW T \in SUBSET Txns,
           Frame(S, T), NEW u \in Sessions \ S
    PROVE  WorkOK(u)'
<1> SUFFICES ASSUME txn'[u] # NoTxn PROVE WorkOK(u)'
  BY DEF WorkOK
<1>1. SameSession(u) /\ CallOK(u) /\ LocksOK(u) /\ WorkOK(u)
  BY DEF Frame, TxnIInv, SessionOK
<1> DEFINE t == txn[u]
<1>2. t \in Txns \ T /\ t # NoTxn /\ txn'[u] = t /\ SameTxn(t) /\ ImagesOK(t)
  BY <1>1 DEF Frame, TxnIInv, TypeOK, SameSession, TxnOK
<1> HIDE DEF t
<1>3. touched[t] \subseteq Tables /\ touched'[t] = touched[t]
  BY <1>2 DEF TxnIInv, TypeOK, SameTxn
<1>4. ~At(u, "discarding") => t \in registered
  BY <1>1, <1>2 DEF CallOK, t
<1>5. ASSUME NEW r \in touched[t], t \in registered
      PROVE  SameTable(r)
  <2>1. held[t][r] = "X" /\ r \in Tables /\ r \in Locks!Resources
    BY <1>2, <1>3, <1>5 DEF ImagesOK, Locks!Resources
  <2>2. \A x \in T : held[x][r] # "X"
    BY <1>2, <2>1, LockFacts DEF TxnIInv, LockTable
  <2> QED BY <2>1, <2>2 DEF Frame
<1>6. CASE ~At(u, "discarding")
  <2>1. t \in registered /\ \A r \in touched[t] : SameTable(r)
    BY <1>4, <1>5, <1>6
  <2> QED BY <1>1, <1>2, <1>3, <2>1 DEF WorkOK, SameSession, SameTxn, SameTable, At,
     Writes, t
<1>7. CASE At(u, "discarding")
  BY <1>1, <1>2, <1>7 DEF WorkOK, CallOK, SameSession, SameTxn, At, StateAt, t
<1> QED BY <1>6, <1>7

LEMMA OthersKeepTxns ==
    ASSUME TxnIInv, TypeOK', NEW S \in SUBSET Sessions, NEW T \in SUBSET Txns,
           Frame(S, T), NEW x \in Txns \ T
    PROVE  TxnOK(x)'
<1>1. TxnOK(x) /\ SameTxn(x) /\ Kept(x)
  BY DEF Frame, TxnIInv
<1>2. LockTable
  BY LockFacts DEF TxnIInv
<1>3. x \in Unsettled' <=> x \in Unsettled
  BY <1>1 DEF Unsettled, SameTxn
<1>4. touched[x] \subseteq Tables
  BY DEF TxnIInv, TypeOK
\* A table x holds is not one the step changes.
<1>5. ASSUME NEW r \in Tables, held[x][r] # "none" PROVE SameTable(r)
  BY <1>2, <1>5 DEF Frame, LockTable, Locks!Resources
<1>6. ASSUME x \in Unsettled PROVE x \in registered
  <2>1. CASE \A s \in Sessions : txn[s] # x
    BY <1>1, <1>6, <2>1 DEF TxnOK, OrphanOK, Unsettled
  <2>2. ASSUME NEW s \in Sessions, txn[s] = x PROVE x \in registered
    <3>1. CallOK(s) /\ x # NoTxn
      BY <2>2, NoTxnAssumption DEF TxnIInv, SessionOK
    <3> QED BY <1>6, <2>2, <3>1 DEF CallOK, StateAt, Unsettled, At
  <2> QED BY <2>1, <2>2
<1>7. OrphanOK(x)'
  <2>1. ASSUME \A s \in Sessions : txn'[s] # x, NEW s \in Sessions PROVE txn[s] # x
    BY <2>1, NoTxnAssumption DEF Frame, SameSession
  <2> QED BY <1>1, <2>1 DEF TxnOK, OrphanOK, SameTxn, Kept
<1>8. ImagesOK(x)'
  <2>1. /\ \A r \in touched[x] : x \in registered => held[x][r] = "X"
        /\ \A i \in DOMAIN images[x] : images[x][i].table \in touched[x]
        /\ x \in Unsettled =>
             /\ \A r \in touched[x] : \E i \in DOMAIN images[x] : images[x][i].table = r
             /\ \A i \in DOMAIN images[x] :
                   images[x][i].before = contents[images[x][i].table] \ {x}
    BY <1>1 DEF TxnOK, ImagesOK
  <2>2. \A r \in touched'[x] : x \in registered' => held'[x][r] = "X"
    BY <1>1, <1>4, <2>1 DEF SameTxn, Kept, Locks!Resources
  <2>3. \A i \in DOMAIN images'[x] : images'[x][i].table \in touched'[x]
    BY <1>1, <2>1 DEF SameTxn
  <2>4. ASSUME x \in Unsettled, NEW i \in DOMAIN images[x]
        PROVE  contents'[images[x][i].table] = contents[images[x][i].table]
    <3>1. held[x][images[x][i].table] = "X" /\ images[x][i].table \in Tables
      BY <1>4, <1>6, <2>1, <2>4
    <3> QED BY <1>5, <3>1 DEF SameTable
  <2>5. x \in Unsettled' =>
             /\ \A r \in touched'[x] : \E i \in DOMAIN images'[x] : images'[x][i].table = r
             /\ \A i \in DOMAIN images'[x] :
                   images'[x][i].before = contents'[images'[x][i].table] \ {x}
    BY <1>1, <1>3, <2>1, <2>4 DEF SameTxn
  <2> QED BY <2>2, <2>3, <2>5 DEF ImagesOK
<1>9. WritesOK(x)'
  BY <1>1, <1>4 DEF Frame, TxnOK, WritesOK, SameTxn
<1>10. ReadsOK(x)'
  <2> SUFFICES ASSUME NEW r \in Tables, seen'[x][r] # NotRead
               PROVE  /\ state'[x] \in {"ACTIVE", "COMMITTING", "ABORTING"}
                      /\ held'[x][r] # "none"
                      /\ seen'[x][r] = contents'[r] \ {x}
    BY DEF ReadsOK
  <2>1. /\ seen[x][r] # NotRead /\ state[x] \in {"ACTIVE", "COMMITTING", "ABORTING"}
        /\ held[x][r] # "none" /\ seen[x][r] = contents[r] \ {x}
    BY <1>1 DEF TxnOK, ReadsOK, SameTxn
  <2>2. contents'[r] = contents[r]
    BY <1>5, <2>1 DEF SameTable
  <2>3. held'[x][r] # "none"
    BY <1>1, <2>1 DEF Kept, Locks!Resources
  <2> QED BY <1>1, <2>1, <2>2, <2>3 DEF SameTxn
<1> QED BY <1>7, <1>8, <1>9, <1>10 DEF TxnOK

\* One session keeps the transaction it has, gets one nobody has, or loses it.
LEMMA OwnersKept ==
    ASSUME TxnIInv, NEW S \in SUBSET Sessions, NEW T \in SUBSET Txns, Frame(S, T),
           \A s, u \in S : s = u
    PROVE  OneOwner'
<1> SUFFICES ASSUME NEW s \in Sessions, NEW u \in Sessions, s # u, txn'[s] # NoTxn
             PROVE  txn'[s] # txn'[u]
  BY DEF OneOwner
<1>1. \A v \in Sessions \ S : txn'[v] = txn[v] /\ txn[v] \notin T
  BY DEF Frame, SameSession
<1>2. \A v \in S : txn'[v] = txn[v] \/ txn'[v] \in T \union {NoTxn}
  BY DEF Frame
<1> QED BY <1>1, <1>2 DEF TxnIInv, OneOwner

\* The tables are accounted for as long as no table is closed or written, and no
\* transaction responsible for one settles.
LEMMA TablesKept ==
    ASSUME TxnIInv, NEW r \in Tables,
           \A t \in Txns : r \in touched[t] /\ t \in Unsettled =>
              /\ r \in touched'[t]
              /\ t \in Unsettled'
              /\ state[t] \in {"ABORTING", "ABORT_FAILED"} =>
                    state'[t] \in {"ABORTING", "ABORT_FAILED"},
           r \notin open' => r \notin open \/ (\E t \in Txns :
                state'[t] \in {"ABORTING", "ABORT_FAILED"} /\ r \in touched'[t]),
           r \in dirty' => r \in dirty \/ \E t \in Unsettled' : r \in touched'[t]
    PROVE  TableOK(r)'
<1>1. TableOK(r)
  BY DEF TxnIInv
<1>2. r \notin open' => \E t \in Txns :
         state'[t] \in {"ABORTING", "ABORT_FAILED"} /\ r \in touched'[t]
  BY <1>1 DEF TableOK, Unsettled
<1>3. r \in dirty' => \E t \in Unsettled' : r \in touched'[t]
  BY <1>1 DEF TableOK, Unsettled
<1> QED BY <1>2, <1>3 DEF TableOK

CallTypes ==
    /\ txn \in [Sessions -> Txns \union {NoTxn}]
    /\ explicit \in [Sessions -> BOOLEAN]
    /\ cancelled \in [Sessions -> BOOLEAN]
    /\ cursor \in [Sessions -> Tables \union {NoTable}]
    /\ step \in [Sessions -> Steps]
    /\ stmt \in [Sessions -> Statements \union {Closing, NoCall}]
    /\ left \in [Sessions -> Nat]
    /\ cancelling \subseteq Txns

StoreTypes ==
    /\ state \in [Txns -> States]
    /\ touched \in [Txns -> SUBSET Tables]
    /\ images \in [Txns -> Seq([table : Tables, before : SUBSET Txns])]
    /\ contents \in [Tables -> SUBSET Txns]
    /\ dirty \subseteq Tables
    /\ open \subseteq Tables
    /\ seen \in [Txns -> [Tables -> (SUBSET Txns) \union {NotRead}]]

LEMMA Types == TypeOK <=> Locks!TypeOK /\ CallTypes /\ StoreTypes
  BY DEF TypeOK, CallTypes, StoreTypes

\* What has to be shown of a step.
LEMMA StepKeeps ==
    ASSUME TxnIInv, LP!LockIInv', CallTypes', StoreTypes',
           NEW S \in SUBSET Sessions, NEW T \in SUBSET Txns, Frame(S, T),
           \A s, u \in S : s = u,
           \A s \in S : SessionOK(s)',
           \A t \in T : TxnOK(t)',
           \A r \in Tables : TableOK(r)'
    PROVE  TxnIInv'
<1>0. TypeOK'
  <2>1. LockTable'
    BY LockFacts, PTL
  <2>2. Locks!TypeOK'
    BY <2>1 DEF LockTable
  <2> QED BY <2>2, Types, PTL
<1>1. OneOwner'
  BY OwnersKept
<1>2. ASSUME NEW u \in Sessions PROVE SessionOK(u)'
  BY <1>0, OthersKeepCalls, OthersKeepLocks, OthersKeepWork DEF SessionOK
<1>3. ASSUME NEW x \in Txns PROVE TxnOK(x)'
  BY <1>0, OthersKeepTxns
<1> QED BY <1>0, <1>1, <1>2, <1>3 DEF TxnIInv

\* The session and the transaction of a step, and what is known of them.
LEMMA Owned ==
    ASSUME TxnIInv, NEW s \in Sessions, NEW t \in Txns, txn[s] = t
    PROVE  /\ t # NoTxn /\ \A u \in Sessions \ {s} : txn[u] # t
           /\ state[t] \in StateAt(step[s]) \ {"unborn"}
           /\ t \in registered <=> ~At(s, "discarding")
           /\ touched[t] \subseteq Tables
           /\ t \in registered => \A r \in touched[t] : held[t][r] = "X"
           /\ SessionOK(s) /\ TxnOK(t)
<1>1. t # NoTxn /\ SessionOK(s) /\ TxnOK(t)
  BY NoTxnAssumption DEF TxnIInv
<1> QED BY <1>1 DEF TxnIInv, OneOwner, SessionOK, CallOK, TxnOK, ImagesOK, TypeOK, StateAt

\* An unsettled transaction has its locks, so no two have a table in common.
LEMMA UnsettledHold ==
    ASSUME TxnIInv, NEW t \in Unsettled
    PROVE  /\ t \in Txns /\ t \in registered
           /\ \A r \in touched[t] : r \in Tables /\ held[t][r] = "X"
           /\ \A x \in Unsettled \ {t} : touched[x] \intersect touched[t] = {}
           /\ \A x \in Txns \ {t}, r \in touched[t] : held[x][r] = "none"
<1>1. ASSUME NEW x \in Unsettled
      PROVE  /\ x \in Txns /\ x \in registered
             /\ \A r \in touched[x] : r \in Tables /\ held[x][r] = "X"
  <2>1. x \in Txns /\ TxnOK(x) /\ touched[x] \subseteq Tables
    BY DEF TxnIInv, Unsettled, TypeOK
  <2>2. x \in registered
    <3>1. CASE \A s \in Sessions : txn[s] # x
      BY <1>1, <2>1, <3>1 DEF TxnOK, OrphanOK, Unsettled
    <3>2. ASSUME NEW s \in Sessions, txn[s] = x PROVE x \in registered
      BY <1>1, <2>1, <3>2, Owned DEF StateAt, Unsettled, At
    <3> QED BY <3>1, <3>2
  <2> QED BY <2>1, <2>2 DEF TxnOK, ImagesOK
<1>2. LockTable
  BY LockFacts DEF TxnIInv
<1>3. ASSUME NEW x \in Txns \ {t}, NEW r \in touched[t] PROVE held[x][r] = "none"
  BY <1>1, <1>2 DEF LockTable, Locks!Resources
<1>4. ASSUME NEW x \in Unsettled \ {t} PROVE touched[x] \intersect touched[t] = {}
  BY <1>1, <1>3
<1> QED BY <1>1, <1>3, <1>4

\* A step that changes neither the transactions nor the tables, only what the call
\* of a session knows, or its locks.
LEMMA QuietKeeps ==
    ASSUME TxnIInv, CallTypes', NEW s \in Sessions,
           UNCHANGED lockVars
              \/ (txn[s] \in Txns /\ LockMove(txn[s]) /\ registered' = registered),
           UNCHANGED <<txnVars, dataVars, txn, left>>,
           \A u \in Sessions \ {s} :
              cursor'[u] = cursor[u] /\ step'[u] = step[u] /\ stmt'[u] = stmt[u],
           LP!LockIInv' => SessionOK(s)'
    PROVE  TxnIInv'
<1> DEFINE T == {txn[s]} \ {NoTxn}
<1>1. T \in SUBSET Txns /\ \A u \in Sessions \ {s} : txn[u] \notin T
  BY DEF TxnIInv, TypeOK, OneOwner
<1>2. /\ UNCHANGED lockVars \/ \E t \in T : LockMove(t)
      /\ \A t \in T : t = txn[s]
      /\ txn'[s] = txn[s]
  BY NoTxnAssumption DEF dataVars, txnVars
<1> HIDE DEF T
<1>3. /\ LP!LockIInv' /\ \A x \in Txns \ T : Kept(x)
      /\ \A x \in Txns : x \in registered' =>
                \A r \in Locks!Resources :
                   held'[x][r] = held[x][r] \/ (held[x][r] # "X" /\ held'[x][r] # "none")
  BY <1>1, <1>2, LockStep DEF TxnIInv
<1>4. Frame({s}, T)
  BY <1>1, <1>2, <1>3
     DEF Frame, SameSession, SameTxn, SameTable, txnVars, dataVars
<1>5. ASSUME NEW r \in Tables PROVE TableOK(r)'
  BY TablesKept DEF txnVars, dataVars, Unsettled
<1>6. ASSUME NEW t \in T PROVE TxnOK(t)'
  <2>1. t \in Txns /\ txn[s] = t /\ txn'[s] = t
    BY <1>1, <1>2, <1>6
  <2>2. TxnOK(t) /\ touched[t] \subseteq Tables
    BY <2>1, Owned
  <2>3. t \in registered' <=> t \in registered
    BY DEF lockVars
  <2>4. OrphanOK(t)'
    BY <2>1, <2>2, <2>3 DEF TxnOK, OrphanOK, txnVars
  <2>5. ImagesOK(t)'
    BY <1>3, <2>1, <2>2, <2>3 DEF TxnOK, ImagesOK, Unsettled, txnVars, dataVars,
       Locks!Resources
  <2>6. WritesOK(t)'
    BY <2>2 DEF TxnOK, WritesOK, txnVars, dataVars
  <2>7. ReadsOK(t)'
    <3>1. \A r \in Tables : held[t][r] # "none" => held'[t][r] # "none"
      BY <1>3, <2>1, <2>3, LockFacts DEF TxnIInv, LockTable, Locks!Resources
    <3> QED BY <2>2, <3>1 DEF TxnOK, ReadsOK, txnVars, dataVars
  <2> QED BY <2>4, <2>5, <2>6, <2>7 DEF TxnOK
<1>7. StoreTypes'
  BY Types DEF TxnIInv, StoreTypes, txnVars, dataVars
<1> QED
  BY <1>1, <1>3, <1>4, <1>5, <1>6, <1>7, StepKeeps

\* The same with the step p, the statement q and the result c the call goes on with.
Move(s, p, q, c) ==
    /\ p \in Steps /\ step' = [step EXCEPT ![s] = p]
    /\ q \in Statements \union {Closing, NoCall} /\ stmt' = [stmt EXCEPT ![s] = q]
    /\ c \in Tables \union {NoTable} /\ cursor' = [cursor EXCEPT ![s] = c]
    /\ UNCHANGED <<txnVars, dataVars, txn, left>>
    /\ explicit' \in [Sessions -> BOOLEAN]
    /\ cancelled' \in [Sessions -> BOOLEAN]
    /\ cancelling' \subseteq Txns
    /\ p \in Executing => q \in Statements
    /\ p \in {"schema", "table", "granted", "prepared"} => q \in Data
    /\ c # NoTable => p = "idle" \/ (p = "entered" /\ q.kind = "ROLLBACK")

\* Without a transaction, or with one whose writes are done.
MayMove(s, p, q, c) ==
    /\ txn[s] = NoTxn =>
         /\ p \in {"idle", "entered", "closed"}
         /\ c = NoTable
         /\ p = "entered" => q.kind \notin {"END", "ROLLBACK"}
    /\ txn[s] # NoTxn =>
         /\ state[txn[s]] = "ACTIVE"
         /\ p \in Running
         /\ \A r \in touched[txn[s]] :
               \/ txn[s] \in contents[r]
               \/ p = "prepared" /\ q.kind = "WRITE" /\ q.table = r
         /\ p = "prepared" /\ q.kind = "WRITE" => q.table \in touched[txn[s]]

LEMMA MoveKeeps ==
    ASSUME TxnIInv, NEW s \in Sessions, NEW p, NEW q, NEW c,
           Move(s, p, q, c), MayMove(s, p, q, c),
           UNCHANGED lockVars
              \/ (txn[s] \in Txns /\ LockMove(txn[s]) /\ registered' = registered),
           txn[s] # NoTxn /\ LP!LockIInv' => LocksOK(s)'
    PROVE  TxnIInv'
<1> USE DEF Move
<1>1. CallTypes /\ SessionOK(s)
  BY Types DEF TxnIInv
<1>2. CallTypes'
  BY <1>1 DEF CallTypes
<1>3. /\ step'[s] = p /\ stmt'[s] = q /\ cursor'[s] = c
      /\ \A u \in Sessions \ {s} :
            cursor'[u] = cursor[u] /\ step'[u] = step[u] /\ stmt'[u] = stmt[u]
  BY <1>1 DEF CallTypes
<1>4. /\ txn' = txn /\ registered' = registered
      /\ UNCHANGED <<state, touched, images, contents, dirty, open, seen>>
  BY DEF lockVars, txnVars, dataVars
<1>5. CallOK(s)'
  <2>1. txn[s] # NoTxn => txn[s] \in registered
    BY <1>1 DEF MayMove, SessionOK, CallOK, StateAt, At
  <2> QED
    BY <1>3, <1>4, <2>1 DEF MayMove, CallOK, At, StateAt, Owning, Running
<1>6. LP!LockIInv' => LocksOK(s)'
  BY <1>4 DEF LocksOK
<1>7. WorkOK(s)'
  BY <1>3, <1>4 DEF MayMove, WorkOK, Writes, At, Running
<1> QED BY <1>2, <1>3, <1>5, <1>6, <1>7, QuietKeeps DEF SessionOK

\* A call that is not at its locks does not wait for one.
LEMMA Unblocked ==
    ASSUME TxnIInv, NEW s \in Sessions, txn[s] # NoTxn, ~Locking(s)
    PROVE  txn[s] \notin blocked /\ waiting[txn[s]] = NoRequest
<1>1. LocksOK(s) /\ txn[s] \in Txns
  BY DEF TxnIInv, SessionOK, TypeOK
<1> QED BY <1>1, LockFacts DEF TxnIInv, LockTable, LocksOK

\* Nor does it depend on a lock it has not had.
LEMMA UnlockedOK ==
    ASSUME TxnIInv, NEW s \in Sessions, txn[s] # NoTxn, UNCHANGED lockVars,
           txn'[s] = txn[s], ~Locking(s),
           ~Locking(s)' \/ (At(s, "schema")' /\ ~At(s, "granted")'),
           cursor'[s] # NoTable => held[txn[s]][cursor'[s]] # "none",
           At(s, "granted")' \/ At(s, "prepared")' =>
              At(s, "granted") /\ stmt'[s] = stmt[s]
    PROVE  LocksOK(s)'
<1>1. LocksOK(s) /\ txn[s] \notin blocked /\ waiting[txn[s]] = NoRequest
  BY Unblocked DEF TxnIInv, SessionOK
<1> QED BY <1>1 DEF LocksOK, lockVars, At

\* What an abort starts from: the transaction t of a call runs or commits.  A write
\* that fails has changed its table.
AbortMove(s, t, q) ==
    /\ txn[s] = t
    /\ step[s] \in Running \union {"committing"}
    /\ state' = [state EXCEPT ![t] = "ABORTING"]
    /\ left' = [left EXCEPT ![s] = Len(images[t])]
    /\ step' = [step EXCEPT ![s] = "restoring"]
    /\ q \in Statements \union {Closing, NoCall} /\ stmt' = [stmt EXCEPT ![s] = q]
    /\ cursor' = [cursor EXCEPT ![s] = NoTable]
    /\ UNCHANGED <<touched, images, txn, explicit, cancelled, cancelling, open, seen>>
    /\ \/ UNCHANGED <<contents, dirty>>
       \/ \E r \in Tables :
            /\ Writes(s, r)
            /\ contents' = [contents EXCEPT ![r] = @ \union {t}]
            /\ dirty' = dirty \union {r}

LEMMA AbortKeeps ==
    ASSUME TxnIInv, NEW s \in Sessions, NEW t \in Txns, NEW q, AbortMove(s, t, q),
           \/ UNCHANGED lockVars /\ (Locking(s) => t \notin blocked)
           \/ LockMove(t) /\ registered' = registered /\ t \notin blocked'
    PROVE  TxnIInv'
<1>1. /\ t # NoTxn /\ \A u \in Sessions \ {s} : txn[u] # t
      /\ state[t] \in {"ACTIVE", "COMMITTING"} /\ t \in Unsettled /\ t \in registered
      /\ touched[t] \subseteq Tables /\ \A r \in touched[t] : held[t][r] = "X"
      /\ SessionOK(s) /\ TxnOK(t)
  BY Owned DEF AbortMove, StateAt, Running, At, Unsettled
<1>2. CallTypes /\ StoreTypes /\ LockTable
  BY Types, LockFacts DEF TxnIInv
<1>3. CallTypes' /\ StoreTypes'
  <2>1. CallTypes'
    BY <1>2 DEF AbortMove, CallTypes, StoreTypes, Steps
  <2>2. contents' \in [Tables -> SUBSET Txns] /\ dirty' \subseteq Tables
    <3>1. contents \in [Tables -> SUBSET Txns] /\ dirty \subseteq Tables
      BY <1>2 DEF StoreTypes
    <3>2. ASSUME NEW r \in Tables, contents' = [contents EXCEPT ![r] = @ \union {t}]
          PROVE  contents' \in [Tables -> SUBSET Txns]
      BY <3>1, <3>2
    <3> QED BY <3>1, <3>2 DEF AbortMove
  <2> QED BY <1>2, <2>1, <2>2 DEF AbortMove, StoreTypes, States
<1>4. t \notin blocked'
  <2>1. CASE UNCHANGED lockVars /\ (Locking(s) => t \notin blocked)
    BY <1>1, <2>1, Unblocked DEF lockVars, AbortMove
  <2> QED BY <2>1
<1>5. /\ LP!LockIInv' /\ LockTable' /\ registered' = registered
      /\ \A x \in Txns \ {t} : Kept(x)
      /\ \A r \in Locks!Resources :
           held'[t][r] = held[t][r] \/ (held[t][r] # "X" /\ held'[t][r] # "none")
  <2>1. registered' = registered
    BY DEF lockVars
  <2>2. /\ LP!LockIInv' /\ \A x \in Txns \ {t} : Kept(x)
        /\ \A r \in Locks!Resources :
             held'[t][r] = held[t][r] \/ (held[t][r] # "X" /\ held'[t][r] # "none")
    BY <1>1, <2>1, LockStep DEF TxnIInv
  <2> QED BY <2>1, <2>2, LockFacts, PTL
\* What it wrote, it had touched and locked.
<1>6. /\ \A r \in Tables : SameTable(r) \/ (r \in touched[t] /\ held[t][r] = "X")
      /\ \A r \in Tables : contents'[r] \ {t} = contents[r] \ {t}
      /\ \A r \in Tables : t \in contents'[r] => r \in touched[t]
      /\ \A r \in Tables : r \in dirty' => r \in dirty \/ r \in touched[t]
  <2>1. \A r \in Tables : Writes(s, r) => r \in touched[t]
    BY <1>1 DEF SessionOK, WorkOK, Writes, AbortMove
  <2>2. \A r \in Tables : t \in contents[r] => r \in touched[t]
    BY <1>1 DEF TxnOK, WritesOK
  <2>3. CASE UNCHANGED <<contents, dirty>>
    BY <2>2, <2>3 DEF AbortMove, SameTable
  <2>4. ASSUME NEW w \in Tables, Writes(s, w), dirty' = dirty \union {w},
               contents' = [contents EXCEPT ![w] = @ \union {t}]
        PROVE  <1>6
    <3>1. contents \in [Tables -> SUBSET Txns] /\ open' = open
      BY <1>2 DEF StoreTypes, AbortMove
    <3>2. w \in touched[t] /\ held[t][w] = "X"
      BY <1>1, <2>1, <2>4
    <3>3. /\ contents'[w] = contents[w] \union {t}
          /\ \A r \in Tables \ {w} : contents'[r] = contents[r]
      BY <2>4, <3>1
    <3> QED BY <2>2, <2>4, <3>1, <3>2, <3>3 DEF SameTable
  <2> QED BY <2>3, <2>4 DEF AbortMove
<1>7. Frame({s}, {t})
  <2>1. \A u \in Sessions \ {s} : SameSession(u)
    BY <1>2 DEF AbortMove, SameSession, CallTypes
  <2>2. \A x \in Txns \ {t} : SameTxn(x)
    BY <1>2 DEF AbortMove, SameTxn, StoreTypes
  <2> QED BY <1>1, <1>5, <1>6, <2>1, <2>2 DEF Frame, AbortMove
<1>8. /\ step'[s] = "restoring" /\ state'[t] = "ABORTING" /\ cursor'[s] = NoTable
      /\ left'[s] = Len(images[t]) /\ txn'[s] = t
      /\ touched' = touched /\ images' = images /\ open' = open /\ seen' = seen
  BY <1>2 DEF AbortMove, CallTypes, StoreTypes
<1>9. SessionOK(s)'
  <2>1. CallOK(s)'
    BY <1>1, <1>5, <1>8 DEF CallOK, At, StateAt, Owning, Steps, Executing
  <2>2. LocksOK(s)'
    BY <1>4, <1>5, <1>8 DEF LocksOK, LockTable, At
  <2>3. /\ Len(images[t]) \in Nat
        /\ \A r \in touched[t] : \E i \in 1 .. Len(images[t]) : images[t][i].table = r
    <3>1. Len(images[t]) \in Nat /\ DOMAIN images[t] = 1 .. Len(images[t])
      BY <1>2 DEF StoreTypes
    <3>2. \A r \in touched[t] : \E i \in DOMAIN images[t] : images[t][i].table = r
      BY <1>1 DEF TxnOK, ImagesOK
    <3> QED BY <3>1, <3>2
  <2>4. touched[t] \subseteq open
    <3> SUFFICES ASSUME NEW r \in touched[t], r \notin open PROVE FALSE
      OBVIOUS
    <3>1. PICK x \in Txns : state[x] \in {"ABORTING", "ABORT_FAILED"} /\ r \in touched[x]
      BY <1>1 DEF TxnIInv, TableOK
    <3> QED BY <1>1, <3>1, UnsettledHold DEF Unsettled
  <2>5. WorkOK(s)'
    BY <1>8, <2>3, <2>4 DEF WorkOK, At
  <2> QED BY <2>1, <2>2, <2>5 DEF SessionOK
<1>10. TxnOK(t)'
  <2>1. OrphanOK(t)'
    BY <1>8 DEF OrphanOK
  <2>2. ImagesOK(t)'
    <3>1. \A r \in touched'[t] : held'[t][r] = "X"
      BY <1>1, <1>5, <1>8 DEF Locks!Resources
    <3>2. t \in Unsettled'
      BY <1>8 DEF Unsettled
    <3> QED BY <1>1, <1>6, <1>8, <3>1, <3>2 DEF TxnOK, ImagesOK
  <2>3. WritesOK(t)'
    BY <1>6, <1>8 DEF WritesOK
  <2>4. ReadsOK(t)'
    BY <1>1, <1>5, <1>6, <1>8 DEF TxnOK, ReadsOK, Locks!Resources
  <2> QED BY <2>1, <2>2, <2>3, <2>4 DEF TxnOK
<1>11. ASSUME NEW r \in Tables PROVE TableOK(r)'
  <2>1. \A x \in Unsettled : /\ x \in Unsettled'
                             /\ state[x] \in {"ABORTING", "ABORT_FAILED"} =>
                                  state'[x] \in {"ABORTING", "ABORT_FAILED"}
    BY <1>2, <1>8 DEF Unsettled, AbortMove, StoreTypes
  <2>2. r \in dirty' => r \in dirty \/ \E x \in Unsettled' : r \in touched'[x]
    BY <1>1, <1>6, <1>8, <2>1
  <2> QED BY <1>8, <2>1, <2>2, TablesKept
<1> QED BY <1>3, <1>5, <1>7, <1>9, <1>10, <1>11, StepKeeps

\* A step that leaves the locks alone.
LEMMA LocksAlone ==
    ASSUME TxnIInv, UNCHANGED lockVars
    PROVE  /\ LP!LockIInv' /\ LockTable /\ LockTable'
           /\ UNCHANGED <<registered, held, waiting, blocked, failed, unavailable>>
           /\ \A x \in Txns : Kept(x)
<1>1. LP!LockIInv' /\ \A x \in Txns \ {} : Kept(x)
  BY LockStep DEF TxnIInv
<1>2. LockTable'
  BY <1>1, LockFacts, PTL
<1> QED BY <1>1, <1>2, LockFacts DEF TxnIInv, lockVars

\* What a commit starts from: the writes of the call are done.
CommitMove(s, t, q) ==
    /\ txn[s] = t
    /\ step[s] \in {"idle", "entered", "executed"}
    /\ state' = [state EXCEPT ![t] = "COMMITTING"]
    /\ left' = [left EXCEPT ![s] = Len(images[t])]
    /\ step' = [step EXCEPT ![s] = "committing"]
    /\ q \in Statements \union {Closing, NoCall} /\ stmt' = [stmt EXCEPT ![s] = q]
    /\ cursor' = [cursor EXCEPT ![s] = NoTable]
    /\ UNCHANGED <<lockVars, touched, images, txn, explicit, cancelled, cancelling, dataVars>>

LEMMA CommitKeeps ==
    ASSUME TxnIInv, NEW s \in Sessions, NEW t \in Txns, NEW q, CommitMove(s, t, q)
    PROVE  TxnIInv'
<1>1. /\ t # NoTxn /\ \A u \in Sessions \ {s} : txn[u] # t
      /\ state[t] = "ACTIVE" /\ t \in Unsettled /\ t \in registered
      /\ touched[t] \subseteq Tables /\ \A r \in touched[t] : held[t][r] = "X"
      /\ SessionOK(s) /\ TxnOK(t)
  BY Owned DEF CommitMove, StateAt, Running, At, Unsettled
<1>2. CallTypes /\ StoreTypes
  BY Types DEF TxnIInv
<1>3. CallTypes' /\ StoreTypes'
  <2>1. CallTypes'
    BY <1>2 DEF CommitMove, CallTypes, StoreTypes, Steps
  <2> QED BY <1>2, <2>1 DEF CommitMove, StoreTypes, States, dataVars
<1>4. /\ LP!LockIInv' /\ LockTable' /\ \A x \in Txns : Kept(x)
      /\ registered' = registered /\ held' = held /\ blocked' = blocked /\ waiting' = waiting
      /\ t \notin blocked
  BY <1>1, LocksAlone, Unblocked DEF CommitMove, Locking
<1>5. Frame({s}, {t})
  <2>1. \A u \in Sessions \ {s} : SameSession(u)
    BY <1>2 DEF CommitMove, SameSession, CallTypes
  <2>2. \A x \in Txns \ {t} : SameTxn(x)
    BY <1>2 DEF CommitMove, SameTxn, StoreTypes, dataVars
  <2> QED BY <1>1, <1>4, <2>1, <2>2 DEF Frame, CommitMove, SameTable, dataVars
<1>6. /\ step'[s] = "committing" /\ state'[t] = "COMMITTING" /\ cursor'[s] = NoTable
      /\ left'[s] = Len(images[t]) /\ txn'[s] = t
      /\ UNCHANGED <<touched, images, contents, dirty, open, seen>>
  BY <1>2 DEF CommitMove, CallTypes, StoreTypes, dataVars
<1>7. SessionOK(s)'
  <2>1. CallOK(s)'
    BY <1>1, <1>4, <1>6 DEF CallOK, At, StateAt, Owning, Steps, Executing
  <2>2. LocksOK(s)'
    BY <1>4, <1>6 DEF LocksOK, LockTable, At
  <2>3. \A r \in touched[t] : t \in contents[r]
    BY <1>1 DEF SessionOK, WorkOK, CommitMove, Writes, At
  <2>4. /\ Len(images[t]) \in Nat /\ DOMAIN images[t] = 1 .. Len(images[t])
        /\ \A r \in touched[t] : \E i \in DOMAIN images[t] : images[t][i].table = r
    <3>1. Len(images[t]) \in Nat /\ DOMAIN images[t] = 1 .. Len(images[t])
      BY <1>2 DEF StoreTypes
    <3> QED BY <1>1, <3>1 DEF TxnOK, ImagesOK
  <2>5. WorkOK(s)'
    BY <1>6, <2>3, <2>4 DEF WorkOK, At
  <2> QED BY <2>1, <2>2, <2>5 DEF SessionOK
<1>8. TxnOK(t)'
  <2>1. OrphanOK(t)' /\ WritesOK(t)'
    BY <1>1, <1>6 DEF TxnOK, OrphanOK, WritesOK
  <2>2. ImagesOK(t)'
    BY <1>1, <1>4, <1>6 DEF TxnOK, ImagesOK, Unsettled
  <2>3. ReadsOK(t)'
    BY <1>1, <1>4, <1>6 DEF TxnOK, ReadsOK
  <2> QED BY <2>1, <2>2, <2>3 DEF TxnOK
<1>9. ASSUME NEW r \in Tables PROVE TableOK(r)'
  <2>1. \A x \in Unsettled : /\ x \in Unsettled'
                             /\ state[x] \in {"ABORTING", "ABORT_FAILED"} =>
                                  state'[x] \in {"ABORTING", "ABORT_FAILED"}
    BY <1>1, <1>2, <1>6 DEF Unsettled, CommitMove, StoreTypes
  <2> QED BY <1>6, <2>1, TablesKept
<1> QED BY <1>3, <1>4, <1>5, <1>7, <1>8, <1>9, StepKeeps

-----------------------------------------------------------------------------
(* The actions, one by one: first those that only move the call. *)

LEMMA EnterKeeps ==
    ASSUME TxnIInv, NEW s \in Sessions, NEW q \in Statements, Enter(s, q)
    PROVE  TxnIInv'
<1>1. CallTypes /\ SessionOK(s)
  BY Types DEF TxnIInv
<1>2. /\ q.kind \in {"END", "ROLLBACK"} => txn[s] # NoTxn
      /\ q.kind # "ROLLBACK" => cursor[s] = NoTable
  BY DEF Enter, Accepted, Statements, Data, Control
<1>3. Move(s, "entered", q, cursor[s]) /\ UNCHANGED lockVars /\ At(s, "idle")
  BY <1>1, <1>2 DEF Enter, Move, CallTypes, Steps, Executing
<1>4. MayMove(s, "entered", q, cursor[s])
  BY <1>1, <1>2, <1>3
     DEF MayMove, SessionOK, CallOK, WorkOK, Writes, StateAt, At, Running
<1>5. ASSUME txn[s] # NoTxn PROVE LocksOK(s)'
  <2>1. /\ ~Locking(s) /\ ~Locking(s)' /\ ~At(s, "granted")' /\ ~At(s, "prepared")'
        /\ txn'[s] = txn[s] /\ cursor' = cursor
    BY <1>1, <1>3 DEF Move, Locking, At, CallTypes
  <2> QED BY <1>1, <1>3, <1>5, <2>1, UnlockedOK DEF SessionOK, LocksOK
<1> QED BY <1>3, <1>4, <1>5, MoveKeeps

\* The call goes on, and has no open result.
After(s, p) == IF p \in Executing \/ stmt[s] = Closing THEN stmt[s] ELSE NoCall

LEMMA GotoMove ==
    ASSUME TxnIInv, NEW s \in Sessions, NEW p \in Steps, Goto(s, p), OnlyStep,
           UNCHANGED <<txnVars, dataVars>>,
           step[s] \in Owning \/ cursor[s] = NoTable,
           p \in Executing => stmt[s] \in Statements,
           p \in {"schema", "table", "granted", "prepared"} => stmt[s] \in Data
    PROVE  Move(s, p, After(s, p), NoTable)
<1>1. CallTypes /\ SessionOK(s)
  BY Types DEF TxnIInv
<1>2. cursor[s] = NoTable
  BY <1>1 DEF SessionOK, CallOK, Owning, At
<1>3. cursor' = [cursor EXCEPT ![s] = NoTable]
  BY <1>1, <1>2 DEF OnlyStep, CallTypes
<1>4. /\ After(s, p) \in Statements \union {Closing, NoCall}
      /\ stmt' = [stmt EXCEPT ![s] = After(s, p)]
      /\ p \in Executing => After(s, p) = stmt[s]
  BY <1>1 DEF Goto, After, CallTypes
<1>5. {"schema", "table", "granted", "prepared"} \subseteq Executing
  BY DEF Executing
<1> QED BY <1>1, <1>3, <1>4, <1>5 DEF Move, Goto, OnlyStep, CallTypes

\* The failure of a statement.
LEMMA FailMove ==
    ASSUME TxnIInv, NEW s \in Sessions, Fail(s), step[s] \in Owning \/ cursor[s] = NoTable,
           txn[s] # NoTxn, step[s] \in Running \union {"committing"},
           UNCHANGED <<open, seen>>,
           \/ UNCHANGED <<contents, dirty>>
           \/ \E r \in Tables :
                /\ Writes(s, r)
                /\ contents' = [contents EXCEPT ![r] = @ \union {txn[s]}]
                /\ dirty' = dirty \union {r}
    PROVE  \E q : AbortMove(s, txn[s], q) /\ txn[s] \in Txns
<1>1. CallTypes /\ SessionOK(s)
  BY Types DEF TxnIInv
<1>2. cursor[s] = NoTable
  BY <1>1 DEF SessionOK, CallOK, Owning, At
<1>3. cursor' = [cursor EXCEPT ![s] = NoTable] /\ txn[s] \in Txns
  BY <1>1, <1>2 DEF Fail, CallTypes
<1> DEFINE q == IF stmt[s] = Closing THEN stmt[s] ELSE NoCall
<1>4. /\ q \in Statements \union {Closing, NoCall}
      /\ stmt' = [stmt EXCEPT ![s] = q]
  BY <1>1 DEF Fail, StartAbort, Forgotten, CallTypes
<1> HIDE DEF q
<1>5. AbortMove(s, txn[s], q)
  BY <1>3, <1>4 DEF AbortMove, Fail, StartAbort, Ending
<1> QED BY <1>3, <1>5

LEMMA BegunKeeps ==
    ASSUME TxnIInv, NEW s \in Sessions, Begun(s)
    PROVE  TxnIInv'
<1>1. /\ SessionOK(s) /\ At(s, "begun") /\ UNCHANGED lockVars
      /\ UNCHANGED dataVars /\ txn[s] # NoTxn /\ step[s] \in Owning
  BY DEF TxnIInv, Begun, SessionOK, CallOK, At, Owning, Steps, Executing
<1>2. CASE Fail(s)
  <2>1. PICK q : AbortMove(s, txn[s], q) /\ txn[s] \in Txns
    BY <1>1, <1>2, FailMove DEF At, Running, dataVars
  <2> QED BY <1>1, <2>1, AbortKeeps DEF Locking, At
<1>3. CASE Goto(s, "idle") /\ OnlyStep /\ UNCHANGED txnVars
  <2>1. Move(s, "idle", After(s, "idle"), NoTable)
    BY <1>1, <1>3, GotoMove DEF Steps, Executing
  <2>2. MayMove(s, "idle", After(s, "idle"), NoTable)
    BY <1>1 DEF MayMove, SessionOK, CallOK, WorkOK, Writes, StateAt, At, Running
  <2>3. LocksOK(s)'
    BY <1>1, <2>1, UnlockedOK DEF Move, Locking, At, TxnIInv, TypeOK
  <2> QED BY <1>1, <2>1, <2>2, <2>3, MoveKeeps
<1> QED BY <1>2, <1>3 DEF Begun

LEMMA ContinueKeeps ==
    ASSUME TxnIInv, NEW s \in Sessions, Continue(s)
    PROVE  TxnIInv'
<1>1. /\ SessionOK(s) /\ At(s, "entered") /\ UNCHANGED lockVars
      /\ UNCHANGED dataVars /\ txn[s] # NoTxn /\ stmt[s] \in Data /\ stmt[s] \in Statements
      /\ cursor[s] = NoTable
  BY DEF TxnIInv, Continue, SessionOK, CallOK, At, Data, Statements
<1>2. CASE Fail(s)
  <2>1. PICK q : AbortMove(s, txn[s], q) /\ txn[s] \in Txns
    BY <1>1, <1>2, FailMove DEF At, Running, dataVars
  <2> QED BY <1>1, <2>1, AbortKeeps DEF Locking, At
<1>3. CASE Goto(s, "schema") /\ OnlyStep /\ UNCHANGED txnVars
  <2>1. Move(s, "schema", After(s, "schema"), NoTable)
    BY <1>1, <1>3, GotoMove DEF Steps, Executing
  <2>2. MayMove(s, "schema", After(s, "schema"), NoTable)
    BY <1>1 DEF MayMove, SessionOK, CallOK, WorkOK, Writes, StateAt, At, Running
  <2>3. LocksOK(s)'
    <3>1. /\ step'[s] = "schema" /\ cursor'[s] = NoTable /\ txn'[s] = txn[s]
          /\ txn[s] \notin blocked /\ waiting[txn[s]] = NoRequest
      BY <1>1, <2>1, Unblocked DEF Move, TxnIInv, TypeOK, Locking, At
    <3> QED BY <1>1, <3>1 DEF LocksOK, At, lockVars
  <2> QED BY <1>1, <2>1, <2>2, <2>3, MoveKeeps
<1> QED BY <1>2, <1>3 DEF Continue

\* A lock has been granted.
LEMMA LockedKeeps ==
    ASSUME TxnIInv, NEW s \in Sessions, NEW t \in Txns, txn[s] = t, Locking(s), Locked(s),
           OnlyStep, UNCHANGED <<txnVars, dataVars>>,
           UNCHANGED lockVars \/ (LockMove(t) /\ registered' = registered),
           t \notin blocked', held'[t][WantedRes(s)] \in {"X", WantedMode(s)}
    PROVE  TxnIInv'
<1>1. SessionOK(s) /\ t # NoTxn /\ stmt[s] \in Data /\ stmt[s] \in Statements
      /\ step[s] \in Owning
  BY Owned DEF SessionOK, CallOK, Locking, Data, Statements, Owning, Steps, Executing
<1> DEFINE p == IF At(s, "schema") THEN "table" ELSE "granted"
<1>2. Goto(s, p) /\ p \in {"table", "granted"} /\ p \in Steps /\ p \in Executing
      /\ (p = "granted" => At(s, "table"))
  BY DEF Locked, Steps, Executing, Locking, At
<1> HIDE DEF p
<1>3. Move(s, p, After(s, p), NoTable) /\ After(s, p) = stmt[s]
  BY <1>1, <1>2, GotoMove DEF After
<1>4. MayMove(s, p, After(s, p), NoTable)
  BY <1>1, <1>2
     DEF MayMove, SessionOK, CallOK, WorkOK, Writes, StateAt, At, Running, Locking
<1>5. LP!LockIInv' => LocksOK(s)'
  <2> SUFFICES ASSUME LP!LockIInv' PROVE LocksOK(s)'
    OBVIOUS
  <2>1. waiting'[t] = NoRequest
    <3>1. LockTable'
      BY LockFacts, PTL
    <3> QED BY <3>1 DEF LockTable
  <2>2. step'[s] = p /\ stmt'[s] = stmt[s] /\ cursor'[s] = NoTable /\ txn'[s] = t
    BY <1>1, <1>3 DEF Move, TxnIInv, TypeOK
  <2>3. p = "granted" => /\ held'[t][stmt[s].table] # "none"
                         /\ stmt[s].kind = "WRITE" => held'[t][stmt[s].table] = "X"
    BY <1>2 DEF WantedRes, WantedMode, At
  <2> QED BY <1>2, <2>1, <2>2, <2>3 DEF LocksOK, At
<1> QED BY <1>3, <1>4, <1>5, MoveKeeps

LEMMA WantedTypes ==
    ASSUME TxnIInv, NEW s \in Sessions, Locking(s)
    PROVE  /\ txn[s] \in Txns /\ txn[s] # NoTxn /\ step[s] \in Owning
           /\ WantedRes(s) \in Locks!Resources /\ WantedMode(s) \in Locks!LockModes
<1>1. CallOK(s) /\ txn[s] \in Txns \union {NoTxn}
  BY DEF TxnIInv, SessionOK, TypeOK
<1>2. stmt[s] \in Data /\ txn[s] # NoTxn /\ step[s] \in Owning
  BY <1>1 DEF CallOK, Locking, Owning, Steps, Executing
<1>3. stmt[s].table \in Tables
  BY <1>2 DEF Data
<1> QED BY <1>1, <1>2, <1>3
     DEF WantedRes, WantedMode, Locks!Resources, Locks!LockModes

LEMMA LockRetainedKeeps ==
    ASSUME TxnIInv, NEW s \in Sessions, LockRetained(s)
    PROVE  TxnIInv'
<1>1. held' = held /\ blocked' = blocked
  BY DEF LockRetained, lockVars
<1> QED BY <1>1, WantedTypes, LockedKeeps DEF LockRetained

LEMMA LockGrantedKeeps ==
    ASSUME TxnIInv, NEW s \in Sessions, LockGranted(s)
    PROVE  TxnIInv'
<1> DEFINE r == WantedRes(s)
           m == WantedMode(s)
<1> SUFFICES ASSUME NEW t \in Txns, t = txn[s], r \in Locks!Resources, m \in Locks!LockModes,
                    SessionOK(s), t # NoTxn
             PROVE  TxnIInv'
  BY WantedTypes DEF LockGranted, TxnIInv
<1>1. CASE Locks!AcquireGranted(t, r, m)
  <2>1. LP!AcquireGranted(t, r, m)
    BY <1>1, SameAcquire
  <2>2. held'[t][r] = m
    BY <2>1, LockBasis, LP!GrantedHolds DEF TxnIInv
  <2>3. LockMove(t) /\ registered' = registered /\ t \notin blocked'
    BY <1>1 DEF LockMove, Locks!AcquireGranted, Locks!MayRequest
  <2> QED BY <2>2, <2>3, LockedKeeps DEF LockGranted
<1>2. CASE Locks!ReturnGranted(t)
  <2>1. /\ t \in blocked /\ waiting[t] = NoRequest /\ Locks!StillActive(t)
        /\ t \notin blocked' /\ held' = held /\ registered' = registered
    BY <1>2 DEF Locks!ReturnGranted
  <2>2. held[t][r] \in {"X", m}
    BY <2>1 DEF SessionOK, LocksOK
  <2> QED BY <1>2, <2>1, <2>2, LockedKeeps DEF LockGranted, LockMove
<1> QED BY <1>1, <1>2 DEF LockGranted

LEMMA LockWaitsKeeps ==
    ASSUME TxnIInv, NEW s \in Sessions, LockWaits(s)
    PROVE  TxnIInv'
<1> SUFFICES ASSUME NEW t \in Txns, t = txn[s], SessionOK(s), t # NoTxn, step[s] \in Owning,
                    WantedRes(s) \in Locks!Resources, WantedMode(s) \in Locks!LockModes
             PROVE  TxnIInv'
  BY WantedTypes DEF LockWaits, TxnIInv
<1>1. /\ Locking(s) /\ UNCHANGED <<txnVars, dataVars, step, stmt>> /\ OnlyStep
      /\ Locks!AcquireWait(t, WantedRes(s), WantedMode(s))
      /\ CallTypes /\ LockTable /\ cursor[s] = NoTable
      /\ stmt[s] \in Data /\ stmt[s] \in Statements
  BY Types, LockFacts
     DEF LockWaits, TxnIInv, SessionOK, CallOK, Locking, At, Data, Statements, Owning
<1>2. Move(s, step[s], stmt[s], NoTable)
  BY <1>1 DEF Move, CallTypes, OnlyStep, Locking
<1>3. MayMove(s, step[s], stmt[s], NoTable)
  BY <1>1
     DEF MayMove, SessionOK, CallOK, WorkOK, Writes, StateAt, At, Running, Locking
<1>4. LockMove(t) /\ registered' = registered
  BY <1>1 DEF LockMove, Locks!AcquireWait
<1>5. LocksOK(s)'
  <2>1. waiting'[t] = [res |-> WantedRes(s), mode |-> WantedMode(s)]
        /\ waiting'[t] # NoRequest
    BY <1>1, NoRequestAssumption
       DEF Locks!AcquireWait, Locks!WithRequest, LockTable, Locks!TypeOK, Locks!Requests
  <2>2. /\ step' = step /\ stmt' = stmt /\ cursor'[s] = NoTable /\ txn'[s] = t
        /\ step[s] \in {"schema", "table"}
    BY <1>1 DEF OnlyStep, Locking
  <2> QED BY <2>1, <2>2 DEF LocksOK, WantedRes, WantedMode, Locking, At
<1> QED BY <1>2, <1>3, <1>4, <1>5, MoveKeeps

LEMMA LockFailsKeeps ==
    ASSUME TxnIInv, NEW s \in Sessions, LockFails(s)
    PROVE  TxnIInv'
<1> SUFFICES ASSUME NEW t \in Txns, t = txn[s], SessionOK(s), t # NoTxn, step[s] \in Owning,
                    WantedRes(s) \in Locks!Resources, WantedMode(s) \in Locks!LockModes
             PROVE  TxnIInv'
  BY WantedTypes DEF LockFails, TxnIInv
<1>1. PICK q : AbortMove(s, t, q)
  BY FailMove DEF LockFails, Locking, Running, dataVars
<1>2. \/ UNCHANGED lockVars /\ t \notin blocked
      \/ LockMove(t) /\ registered' = registered /\ t \notin blocked'
  BY DEF LockFails, LockMove, Locks!AcquireDeadlock, Locks!MayRequest, Locks!Timeout,
         Locks!ReturnFailed
<1> QED BY <1>1, <1>2, AbortKeeps

\* A SELECT, or a write of a table that has its before-image.
LEMMA PrepareAgainKeeps ==
    ASSUME TxnIInv, NEW s \in Sessions, Prepare(s),
           stmt[s].kind = "SELECT" \/ stmt[s].table \in touched[txn[s]]
    PROVE  TxnIInv'
<1>1. /\ SessionOK(s) /\ At(s, "granted") /\ UNCHANGED lockVars /\ txn[s] # NoTxn
      /\ stmt[s] \in Data /\ stmt[s] \in Statements /\ step[s] \in Owning
  BY DEF TxnIInv, Prepare, SessionOK, CallOK, At, Data, Statements, Owning, Steps, Executing
<1>2. Goto(s, "prepared") /\ OnlyStep /\ UNCHANGED <<txnVars, dataVars>>
  BY DEF Prepare, Table, txnVars, dataVars
<1>3. Move(s, "prepared", After(s, "prepared"), NoTable) /\ After(s, "prepared") = stmt[s]
  BY <1>1, <1>2, GotoMove DEF Steps, Executing, After
<1>4. MayMove(s, "prepared", stmt[s], NoTable)
  <2>1. stmt[s].kind = "WRITE" => stmt[s].table \in touched[txn[s]]
    OBVIOUS
  <2> QED BY <1>1, <2>1 DEF MayMove, SessionOK, CallOK, WorkOK, Writes, StateAt, At, Running
<1>5. LocksOK(s)'
  BY <1>1, <1>3, UnlockedOK DEF Move, Locking, At, TxnIInv, TypeOK
<1> QED BY <1>1, <1>3, <1>4, <1>5, MoveKeeps

LEMMA PrepareFailsKeeps ==
    ASSUME TxnIInv, NEW s \in Sessions, PrepareFails(s)
    PROVE  TxnIInv'
<1>1. /\ At(s, "granted") /\ UNCHANGED lockVars /\ txn[s] # NoTxn /\ step[s] \in Owning
  BY DEF TxnIInv, PrepareFails, SessionOK, CallOK, At, Owning, Steps, Executing
<1>2. PICK q : AbortMove(s, txn[s], q) /\ txn[s] \in Txns
  BY <1>1, FailMove DEF PrepareFails, At, Running, dataVars
<1> QED BY <1>1, <1>2, AbortKeeps DEF Locking, At

LEMMA WriteFailsKeeps ==
    ASSUME TxnIInv, NEW s \in Sessions, WriteFails(s)
    PROVE  TxnIInv'
<1>1. /\ At(s, "prepared") /\ UNCHANGED lockVars /\ txn[s] # NoTxn /\ step[s] \in Owning
      /\ stmt[s] \in Data /\ Table(s) \in Tables /\ Writes(s, Table(s))
  BY DEF TxnIInv, WriteFails, SessionOK, CallOK, At, Owning, Steps, Executing, Data,
         Table, Writes
<1>2. PICK q : AbortMove(s, txn[s], q) /\ txn[s] \in Txns
  BY <1>1, FailMove DEF WriteFails, At, Running
<1> QED BY <1>1, <1>2, AbortKeeps DEF Locking, At

LEMMA SelectKeeps ==
    ASSUME TxnIInv, NEW s \in Sessions, Select(s)
    PROVE  TxnIInv'
<1>1. /\ SessionOK(s) /\ At(s, "prepared") /\ UNCHANGED lockVars /\ txn[s] # NoTxn
      /\ UNCHANGED dataVars /\ step[s] \in Owning /\ stmt[s] \in Data
      /\ stmt[s].kind = "SELECT" /\ CallTypes
  BY Types
     DEF TxnIInv, Select, SessionOK, CallOK, At, Owning, Steps, Executing
<1>2. CASE Fail(s)
  <2>1. PICK q : AbortMove(s, txn[s], q) /\ txn[s] \in Txns
    BY <1>1, <1>2, FailMove DEF At, Running, dataVars
  <2> QED BY <1>1, <2>1, AbortKeeps DEF Locking, At
<1>3. CASE /\ Goto(s, "idle") /\ cursor' = [cursor EXCEPT ![s] = Table(s)]
           /\ UNCHANGED <<txnVars, txn, explicit, cancelled, left, cancelling>>
  <2>1. Table(s) \in Tables
    BY <1>1 DEF Data, Table
  <2>2. /\ After(s, "idle") \in Statements \union {Closing, NoCall}
        /\ stmt' = [stmt EXCEPT ![s] = After(s, "idle")]
    BY <1>1, <1>3 DEF Goto, After, CallTypes, Executing
  <2>3. Move(s, "idle", After(s, "idle"), Table(s))
    BY <1>1, <1>3, <2>1, <2>2 DEF Move, Goto, CallTypes, Steps, Executing
  <2>4. MayMove(s, "idle", After(s, "idle"), Table(s))
    BY <1>1 DEF MayMove, SessionOK, CallOK, WorkOK, Writes, StateAt, At, Running
  <2>5. LocksOK(s)'
    <3>1. held[txn[s]][Table(s)] # "none"
      BY <1>1 DEF SessionOK, LocksOK, Table
    <3>2. /\ step'[s] = "idle" /\ cursor'[s] = Table(s) /\ txn'[s] = txn[s]
          /\ txn[s] \notin blocked /\ waiting[txn[s]] = NoRequest
      BY <1>1, <2>3, Unblocked DEF Move, CallTypes, Locking, At
    <3> QED BY <1>1, <3>1, <3>2 DEF LocksOK, At, lockVars
  <2> QED BY <1>1, <2>3, <2>4, <2>5, MoveKeeps
<1> QED BY <1>2, <1>3 DEF Select

LEMMA ExecutedKeeps ==
    ASSUME TxnIInv, NEW s \in Sessions, Executed(s)
    PROVE  TxnIInv'
<1>1. /\ SessionOK(s) /\ At(s, "executed") /\ UNCHANGED lockVars /\ txn[s] # NoTxn
      /\ UNCHANGED dataVars /\ step[s] \in Owning /\ txn[s] \in Txns /\ CallTypes
      /\ UNCHANGED <<touched, images, txn, explicit, cancelled, cursor, cancelling>>
      /\ cursor[s] = NoTable
  BY Types
     DEF TxnIInv, Executed, SessionOK, CallOK, At, Owning, Steps, Executing, TypeOK
<1>2. CASE StartAbort(s)
  <2>1. PICK q : AbortMove(s, txn[s], q)
    BY <1>1, <1>2, FailMove DEF Fail, At, Running, dataVars
  <2> QED BY <1>1, <2>1, AbortKeeps DEF Locking, At
<1>3. CASE Goto(s, "idle") /\ UNCHANGED <<state, left>>
  <2>1. Move(s, "idle", After(s, "idle"), NoTable)
    BY <1>1, <1>3, GotoMove DEF Steps, Executing, OnlyStep, txnVars
  <2>2. MayMove(s, "idle", After(s, "idle"), NoTable)
    BY <1>1 DEF MayMove, SessionOK, CallOK, WorkOK, Writes, StateAt, At, Running
  <2>3. LocksOK(s)'
    BY <1>1, <2>1, UnlockedOK DEF Move, Locking, At, TxnIInv, TypeOK
  <2> QED BY <1>1, <2>1, <2>2, <2>3, MoveKeeps
<1>4. CASE StartCommit(s)
  <2> DEFINE q == IF stmt[s] = Closing THEN stmt[s] ELSE NoCall
  <2>1. /\ q \in Statements \union {Closing, NoCall}
        /\ stmt' = [stmt EXCEPT ![s] = q]
        /\ cursor' = [cursor EXCEPT ![s] = NoTable]
    BY <1>1, <1>4 DEF StartCommit, Forgotten, CallTypes
  <2> HIDE DEF q
  <2>2. CommitMove(s, txn[s], q)
    BY <1>1, <1>4, <2>1 DEF CommitMove, StartCommit, Ending, At
  <2> QED BY <1>1, <2>2, CommitKeeps
<1> QED BY <1>2, <1>3, <1>4 DEF Executed

\* Where a result ends, and where the transaction of a session is closed.
LEMMA FinishMoves ==
    ASSUME TxnIInv, NEW s \in Sessions, NEW t \in Txns, txn[s] = t,
           step[s] \in {"idle", "entered"},
           NEW q \in Statements \union {Closing, NoCall}, stmt' = [stmt EXCEPT ![s] = q],
           cursor' = [cursor EXCEPT ![s] = NoTable],
           UNCHANGED <<lockVars, touched, images, dataVars, txn, explicit, cancelled,
                       cancelling>>,
           Ending(s, "ABORTING", "restoring") \/ Ending(s, "COMMITTING", "committing")
    PROVE  TxnIInv'
<1>1. CASE Ending(s, "ABORTING", "restoring")
  <2>1. AbortMove(s, t, q)
    BY <1>1 DEF AbortMove, Ending, Running, dataVars
  <2> QED BY <2>1, AbortKeeps DEF Locking
<1>2. CASE Ending(s, "COMMITTING", "committing")
  <2>1. CommitMove(s, t, q)
    BY <1>2 DEF CommitMove, Ending
  <2> QED BY <2>1, CommitKeeps
<1> QED BY <1>1, <1>2

\* What Forgotten leaves of the statement.
LEMMA ForgottenMove ==
    ASSUME TxnIInv, NEW s \in Sessions, Forgotten(s)
    PROVE  \E q \in Statements \union {Closing, NoCall} : stmt' = [stmt EXCEPT ![s] = q]
<1> DEFINE q == IF stmt[s] = Closing THEN stmt[s] ELSE NoCall
<1>1. q \in Statements \union {Closing, NoCall} /\ stmt' = [stmt EXCEPT ![s] = q]
  BY DEF Forgotten
<1> QED BY <1>1

LEMMA FinishCursorKeeps ==
    ASSUME TxnIInv, NEW s \in Sessions, FinishCursor(s)
    PROVE  TxnIInv'
<1>1. /\ SessionOK(s) /\ At(s, "idle") /\ txn[s] # NoTxn /\ txn[s] \in Txns /\ CallTypes
      /\ cursor' = [cursor EXCEPT ![s] = NoTable]
      /\ UNCHANGED lockVars
      /\ UNCHANGED dataVars
      /\ UNCHANGED <<touched, images, txn, explicit, cancelled, cancelling>>
  BY Types DEF TxnIInv, FinishCursor, SessionOK, CallOK, TypeOK
<1>2. CASE StartAbort(s) \/ StartCommit(s)
  <2>1. /\ Forgotten(s)
        /\ Ending(s, "ABORTING", "restoring") \/ Ending(s, "COMMITTING", "committing")
    BY <1>2 DEF StartAbort, StartCommit
  <2>2. PICK q \in Statements \union {Closing, NoCall} : stmt' = [stmt EXCEPT ![s] = q]
    BY <2>1, ForgottenMove
  <2> QED BY <1>1, <2>1, <2>2, FinishMoves DEF At
<1>3. CASE UNCHANGED <<state, left, step, stmt>>
  <2>1. /\ step' = [step EXCEPT ![s] = "idle"] /\ stmt' = [stmt EXCEPT ![s] = stmt[s]]
        /\ stmt[s] \in Statements \union {Closing, NoCall}
    BY <1>1, <1>3 DEF At, CallTypes
  <2>2. Move(s, "idle", stmt[s], NoTable)
    BY <1>1, <1>3, <2>1 DEF Move, CallTypes, Steps, Executing, txnVars
  <2>3. MayMove(s, "idle", stmt[s], NoTable)
    BY <1>1 DEF MayMove, SessionOK, CallOK, WorkOK, Writes, StateAt, At, Running
  <2>4. LocksOK(s)'
    BY <1>1, <2>2, UnlockedOK DEF Move, Locking, At, CallTypes
  <2> QED BY <1>1, <2>2, <2>3, <2>4, MoveKeeps
<1> QED BY <1>2, <1>3 DEF FinishCursor

LEMMA EndKeeps ==
    ASSUME TxnIInv, NEW s \in Sessions, End(s)
    PROVE  TxnIInv'
<1>1. /\ SessionOK(s) /\ At(s, "entered") /\ txn[s] # NoTxn /\ txn[s] \in Txns /\ CallTypes
      /\ cursor[s] = NoTable /\ UNCHANGED lockVars /\ UNCHANGED dataVars
      /\ UNCHANGED <<touched, images, txn, explicit, cancelled, cursor, cancelling>>
  BY Types DEF TxnIInv, End, SessionOK, CallOK, TypeOK, At
<1>2. cursor' = [cursor EXCEPT ![s] = NoTable]
  BY <1>1 DEF CallTypes
<1>3. Forgotten(s) /\ (Ending(s, "ABORTING", "restoring") \/ Ending(s, "COMMITTING", "committing"))
  BY DEF End, StartAbort, StartCommit
<1>4. PICK q \in Statements \union {Closing, NoCall} : stmt' = [stmt EXCEPT ![s] = q]
  BY <1>3, ForgottenMove
<1> QED BY <1>1, <1>2, <1>3, <1>4, FinishMoves DEF At

LEMMA RollbackKeeps ==
    ASSUME TxnIInv, NEW s \in Sessions, Rollback(s)
    PROVE  TxnIInv'
<1>1. /\ SessionOK(s) /\ At(s, "entered") /\ txn[s] # NoTxn /\ txn[s] \in Txns
      /\ UNCHANGED lockVars /\ UNCHANGED dataVars
      /\ cursor' = [cursor EXCEPT ![s] = NoTable]
      /\ UNCHANGED <<touched, images, txn, explicit, cancelled, cancelling>>
      /\ Forgotten(s) /\ Ending(s, "ABORTING", "restoring")
  BY DEF TxnIInv, Rollback, StartAbort, SessionOK, CallOK, TypeOK, At
<1>2. PICK q \in Statements \union {Closing, NoCall} : stmt' = [stmt EXCEPT ![s] = q]
  BY <1>1, ForgottenMove
<1> QED BY <1>1, <1>2, FinishMoves DEF At

LEMMA CommitFailsKeeps ==
    ASSUME TxnIInv, NEW s \in Sessions, CommitFails(s)
    PROVE  TxnIInv'
<1>1. /\ At(s, "committing") /\ UNCHANGED lockVars /\ txn[s] # NoTxn /\ step[s] \in Owning
  BY DEF TxnIInv, CommitFails, SessionOK, CallOK, At, Owning, Steps, Executing
<1>2. PICK q : AbortMove(s, txn[s], q) /\ txn[s] \in Txns
  BY <1>1, FailMove DEF CommitFails, At, dataVars
<1> QED BY <1>1, <1>2, AbortKeeps DEF Locking, At

LEMMA CloseKeeps ==
    ASSUME TxnIInv, NEW s \in Sessions, Close(s)
    PROVE  TxnIInv'
<1>1. /\ SessionOK(s) /\ At(s, "idle") /\ CallTypes
      /\ cursor' = [cursor EXCEPT ![s] = NoTable]
      /\ stmt' = [stmt EXCEPT ![s] = Closing]
      /\ UNCHANGED lockVars /\ UNCHANGED dataVars
      /\ UNCHANGED <<touched, images, txn, explicit, cancelled, cancelling>>
  BY Types DEF TxnIInv, Close
<1>2. CASE /\ txn[s] # NoTxn
           /\ Ending(s, "ABORTING", "restoring") \/ Ending(s, "COMMITTING", "committing")
  <2>1. txn[s] \in Txns
    BY <1>1, <1>2 DEF CallTypes
  <2> QED BY <1>1, <1>2, <2>1, FinishMoves DEF At
<1>3. CASE /\ txn[s] = NoTxn
           /\ step' = [step EXCEPT ![s] = "closed"]
           /\ UNCHANGED <<state, left>>
  <2>1. Move(s, "closed", Closing, NoTable)
    BY <1>1, <1>3 DEF Move, CallTypes, Steps, Executing, txnVars
  <2>2. MayMove(s, "closed", Closing, NoTable)
    BY <1>3 DEF MayMove
  <2> QED BY <1>1, <1>3, <2>1, <2>2, MoveKeeps
<1> QED BY <1>2, <1>3 DEF Close

\* A step that none of this depends on: a cancellation, or no step at all.
LEMMA IdleKeeps ==
    ASSUME TxnIInv, CallTypes',
           UNCHANGED <<txnVars, dataVars, txn, cursor, step, stmt, left>>,
           UNCHANGED lockVars \/ \E t \in Txns : Locks!Cancel(t)
    PROVE  TxnIInv'
<1>1. LP!LockIInv' /\ \A x \in Txns \ {} : Kept(x)
  BY LockStep DEF TxnIInv
<1>2. UNCHANGED <<state, touched, images, seen, contents, dirty, open, txn, cursor, step,
                  stmt, left>>
  BY DEF txnVars, dataVars
<1>3. Frame({}, {})
  BY <1>1, <1>2 DEF Frame, SameSession, SameTxn, SameTable
<1>4. StoreTypes'
  BY <1>2, Types DEF TxnIInv, StoreTypes
<1>5. ASSUME NEW r \in Tables PROVE TableOK(r)'
  BY <1>2, TablesKept DEF Unsettled
<1> QED BY <1>1, <1>3, <1>4, <1>5, StepKeeps

LEMMA RequestCancelKeeps ==
    ASSUME TxnIInv, NEW s \in Sessions, RequestCancel(s)
    PROVE  TxnIInv'
<1>1. CallTypes /\ LockTable
  BY Types, LockFacts DEF TxnIInv
<1>2. CallTypes'
  BY <1>1 DEF RequestCancel, CallTypes, LockTable, Locks!TypeOK
<1> QED BY <1>2, IdleKeeps DEF RequestCancel

LEMMA CancelLocksKeeps ==
    ASSUME TxnIInv, NEW t \in Txns, CancelLocks(t)
    PROVE  TxnIInv'
<1>1. CallTypes
  BY Types DEF TxnIInv
<1>2. CallTypes'
  BY <1>1 DEF CancelLocks, CallTypes, callVars
<1> QED BY <1>2, IdleKeeps DEF CancelLocks, callVars

-----------------------------------------------------------------------------
(* The actions that read, write, flush and restore the tables. *)

\* The frame of a step of session s for its transaction t, or one it begins.
LEMMA OwnFrame ==
    ASSUME TxnIInv, NEW s \in Sessions, NEW t \in Txns,
           txn[s] = t \/ (txn[s] = NoTxn /\ state[t] = "unborn"),
           txn'[s] \in {txn[s], t, NoTxn},
           \A x \in Txns \ {t} : SameTxn(x) /\ Kept(x),
           \A u \in Sessions \ {s} : SameSession(u),
           \A r \in Tables : SameTable(r) \/ held[t][r] = "X",
           \A r \in Tables : contents'[r] \ {t} = contents[r] \ {t}
    PROVE  Frame({s}, {t})
<1>1. ASSUME NEW u \in Sessions \ {s} PROVE txn[u] # t
  BY Owned
<1> QED BY <1>1 DEF Frame

\* What a transaction whose call stays at work keeps, if only contents have changed.
LEMMA OwnTxn ==
    ASSUME TxnIInv, NEW s \in Sessions, NEW t \in Txns, txn[s] = t, txn'[s] = t,
           t \in registered, UNCHANGED lockVars, StoreTypes',
           UNCHANGED <<state, touched, images>>,
           \A r \in Tables : contents'[r] \ {t} = contents[r] \ {t},
           \A r \in Tables : t \in contents'[r] => r \in touched[t],
           state[t] \in {"ACTIVE", "COMMITTING", "ABORTING"},
           \A r \in Tables : seen'[t][r] = seen[t][r]
              \/ (held[t][r] # "none" /\ seen'[t][r] = contents[r] \ {t})
    PROVE  TxnOK(t)'
<1>1. TxnOK(t) /\ held' = held /\ registered' = registered /\ touched[t] \subseteq Tables
  BY Owned DEF lockVars
<1>2. OrphanOK(t)' /\ WritesOK(t)'
  BY <1>1 DEF OrphanOK, WritesOK
<1>3. ImagesOK(t)'
  BY <1>1 DEF TxnOK, ImagesOK, Unsettled
<1>4. ReadsOK(t)'
  BY <1>1 DEF TxnOK, ReadsOK
<1> QED BY <1>2, <1>3, <1>4 DEF TxnOK

LEMMA FetchKeeps ==
    ASSUME TxnIInv, NEW s \in Sessions, Fetch(s)
    PROVE  TxnIInv'
<1>1. /\ SessionOK(s) /\ At(s, "idle") /\ cursor[s] # NoTable /\ txn[s] # NoTxn
      /\ CallTypes /\ StoreTypes
      /\ seen' = [seen EXCEPT ![txn[s]][cursor[s]] = contents[cursor[s]] \ {txn[s]}]
      /\ UNCHANGED <<lockVars, txnVars, contents, dirty, open>>
      /\ UNCHANGED callVars /\ UNCHANGED cancelling
  BY Types DEF TxnIInv, Fetch, SessionOK, CallOK, Look
<1> SUFFICES ASSUME NEW t \in Txns, t = txn[s], NEW r \in Tables, r = cursor[s]
             PROVE  TxnIInv'
  BY <1>1 DEF CallTypes
<1>2. /\ UNCHANGED lockVars
      /\ UNCHANGED <<state, touched, images, contents, dirty, open>>
      /\ UNCHANGED <<txn, explicit, cancelled, cursor, step, stmt, left, cancelling>>
      /\ seen' = [seen EXCEPT ![t][r] = contents[r] \ {t}]
  BY <1>1 DEF txnVars, callVars
<1>3. CallTypes' /\ StoreTypes'
  <2>1. seen' \in [Txns -> [Tables -> (SUBSET Txns) \union {NotRead}]]
    BY <1>1, <1>2 DEF StoreTypes
  <2> QED BY <1>1, <1>2, <2>1 DEF CallTypes, StoreTypes
<1>4. LP!LockIInv' /\ \A x \in Txns : Kept(x)
  BY <1>2, LocksAlone
<1>5. Frame({s}, {t})
  <2>1. \A u \in Sessions \ {s} : SameSession(u)
    BY <1>2 DEF SameSession
  <2>2. \A x \in Txns \ {t} : SameTxn(x)
    BY <1>1, <1>2 DEF SameTxn, StoreTypes
  <2>3. \A q \in Tables : SameTable(q)
    BY <1>2 DEF SameTable
  <2> QED BY <1>2, <1>4, <2>1, <2>2, <2>3, OwnFrame
<1>6. t \in registered /\ state[t] = "ACTIVE" /\ held[t][r] # "none"
  BY <1>1, Owned DEF StateAt, At, SessionOK, LocksOK
<1>7. TxnOK(t)'
  <2>1. \A q \in Tables : seen'[t][q] = IF q = r THEN contents[r] \ {t} ELSE seen[t][q]
    BY <1>1, <1>2 DEF StoreTypes
  <2>2. \A q \in Tables : t \in contents'[q] => q \in touched[t]
    BY <1>2, Owned DEF TxnOK, WritesOK
  <2> QED BY <1>2, <1>3, <1>6, <2>1, <2>2, OwnTxn
<1>8. SessionOK(s)'
  BY <1>1, <1>2
     DEF SessionOK, CallOK, LocksOK, WorkOK, Writes, At, lockVars, Locking, WantedRes,
         WantedMode, Locks!StillActive
<1>9. ASSUME NEW q \in Tables PROVE TableOK(q)'
  BY <1>2, TablesKept DEF Unsettled
<1> QED BY <1>3, <1>4, <1>5, <1>7, <1>8, <1>9, StepKeeps

LEMMA WriteKeeps ==
    ASSUME TxnIInv, NEW s \in Sessions, Write(s)
    PROVE  TxnIInv'
<1>1. /\ SessionOK(s) /\ At(s, "prepared") /\ txn[s] # NoTxn /\ txn[s] \in Txns
      /\ CallTypes /\ StoreTypes
      /\ stmt[s] \in Data /\ stmt[s].kind = "WRITE" /\ Table(s) \in Tables
      /\ step[s] \in Owning
  BY Types
     DEF TxnIInv, Write, SessionOK, CallOK, At, Owning, Steps, Executing, CallTypes, Data,
         Table
<1> SUFFICES ASSUME NEW t \in Txns, t = txn[s], NEW r \in Tables, r = Table(s)
             PROVE  TxnIInv'
  BY <1>1
<1>2. /\ UNCHANGED lockVars
      /\ UNCHANGED <<state, touched, images, open>>
      /\ UNCHANGED <<txn, explicit, cancelled, cursor, left, cancelling>>
      /\ contents' = [contents EXCEPT ![r] = @ \union {t}]
      /\ dirty' = dirty \union {r}
      /\ seen' = [seen EXCEPT ![t][r] = contents[r] \ {t}]
      /\ Goto(s, "executed")
  BY DEF Write, txnVars, OnlyStep, Look
<1>3. CallTypes' /\ StoreTypes'
  <2>1. seen' \in [Txns -> [Tables -> (SUBSET Txns) \union {NotRead}]]
    BY <1>1, <1>2 DEF StoreTypes
  <2>2. contents' \in [Tables -> SUBSET Txns] /\ dirty' \subseteq Tables
    BY <1>1, <1>2 DEF StoreTypes
  <2>3. step' \in [Sessions -> Steps] /\ stmt' \in [Sessions -> Statements \union {Closing, NoCall}]
    BY <1>1, <1>2 DEF Goto, CallTypes, Steps
  <2> QED BY <1>1, <1>2, <2>1, <2>2, <2>3 DEF CallTypes, StoreTypes
<1>4. LP!LockIInv' /\ \A x \in Txns : Kept(x)
  BY <1>2, LocksAlone
<1>5. /\ t \in registered /\ state[t] = "ACTIVE" /\ held[t][r] = "X" /\ r \in touched[t]
      /\ cursor[s] = NoTable /\ t \notin blocked /\ waiting[t] = NoRequest
  BY <1>1, Owned, Unblocked
     DEF StateAt, At, SessionOK, CallOK, LocksOK, WorkOK, Table, Locking
<1>6. /\ \A q \in Tables : contents'[q] = IF q = r THEN contents[q] \union {t} ELSE contents[q]
      /\ \A q \in Tables : seen'[t][q] = IF q = r THEN contents[r] \ {t} ELSE seen[t][q]
  BY <1>1, <1>2 DEF StoreTypes
<1>7. Frame({s}, {t})
  <2>1. \A u \in Sessions \ {s} : SameSession(u)
    BY <1>1, <1>2 DEF SameSession, Goto, CallTypes
  <2>2. \A x \in Txns \ {t} : SameTxn(x)
    BY <1>1, <1>2 DEF SameTxn, StoreTypes
  <2>3. \A q \in Tables : SameTable(q) \/ held[t][q] = "X"
    BY <1>2, <1>5, <1>6 DEF SameTable
  <2> QED BY <1>2, <1>4, <1>6, <2>1, <2>2, <2>3, OwnFrame
<1>8. TxnOK(t)'
  <2>1. \A q \in Tables : t \in contents'[q] => q \in touched[t]
    BY <1>5, <1>6, Owned DEF TxnOK, WritesOK
  <2> QED BY <1>2, <1>3, <1>5, <1>6, <2>1, OwnTxn
<1>9. SessionOK(s)'
  <2>1. step'[s] = "executed" /\ txn'[s] = t /\ cursor'[s] = NoTable
    BY <1>1, <1>2, <1>5 DEF Goto, CallTypes
  <2>2. CallOK(s)'
    <3>1. t # NoTxn /\ registered' = registered /\ state' = state
      BY <1>1, <1>2 DEF lockVars
    <3> QED BY <1>5, <2>1, <3>1 DEF CallOK, At, StateAt, Owning, Executing, Steps
  <2>3. LocksOK(s)'
    BY <1>2, <1>5, <2>1 DEF LocksOK, At, lockVars
  <2>4. \A q \in touched[t] : t \in contents'[q]
    <3>1. touched[t] \subseteq Tables
      BY <1>1, Owned
    <3>2. \A q \in touched[t] : t \in contents[q] \/ Writes(s, q)
      BY <1>1, <1>5 DEF WorkOK, SessionOK
    <3>3. \A q \in touched[t] : t \in contents[q] \/ q = r
      BY <1>1, <3>2 DEF Writes, Table
    <3> QED BY <1>6, <3>1, <3>3
  <2>5. WorkOK(s)'
    BY <1>2, <2>1, <2>4 DEF WorkOK, At
  <2> QED BY <2>2, <2>3, <2>5 DEF SessionOK
<1>10. ASSUME NEW q \in Tables PROVE TableOK(q)'
  BY <1>2, <1>5, TablesKept DEF Unsettled
<1> QED BY <1>3, <1>4, <1>7, <1>8, <1>9, <1>10, StepKeeps

\* A write of a table its transaction has not touched: the before-image.
LEMMA PrepareTouchKeeps ==
    ASSUME TxnIInv, NEW s \in Sessions, Prepare(s),
           stmt[s].kind # "SELECT", stmt[s].table \notin touched[txn[s]]
    PROVE  TxnIInv'
<1>1. /\ SessionOK(s) /\ At(s, "granted") /\ txn[s] # NoTxn /\ txn[s] \in Txns
      /\ CallTypes /\ StoreTypes
      /\ stmt[s] \in Data /\ stmt[s] \in Statements /\ stmt[s].kind = "WRITE"
      /\ Table(s) \in Tables /\ step[s] \in Owning
  BY Types
     DEF TxnIInv, Prepare, SessionOK, CallOK, At, Owning, Steps, Executing, CallTypes, Data,
         Statements, Table
<1> SUFFICES ASSUME NEW t \in Txns, t = txn[s], NEW r \in Tables, r = Table(s)
             PROVE  TxnIInv'
  BY <1>1
<1> DEFINE image == [table |-> r, before |-> contents[r]]
<1>2. /\ UNCHANGED lockVars
      /\ UNCHANGED <<state, contents, open, seen>>
      /\ UNCHANGED <<txn, explicit, cancelled, cursor, left, cancelling>>
      /\ images' = [images EXCEPT ![t] = Append(@, image)]
      /\ touched' = [touched EXCEPT ![t] = @ \union {r}]
      /\ dirty' = dirty \ {r}
      /\ Goto(s, "prepared")
  BY DEF Prepare, OnlyStep, Table
<1>3. /\ images[t] \in Seq([table : Tables, before : SUBSET Txns])
      /\ image \in [table : Tables, before : SUBSET Txns]
      /\ image.table = r /\ image.before = contents[r]
  BY <1>1 DEF StoreTypes
<1> HIDE DEF image
<1>4. CallTypes' /\ StoreTypes'
  <2>1. images' \in [Txns -> Seq([table : Tables, before : SUBSET Txns])]
    <3>1. Append(images[t], image) \in Seq([table : Tables, before : SUBSET Txns])
      BY <1>3
    <3>2. images' = [images EXCEPT ![t] = Append(images[t], image)]
      BY <1>1, <1>2 DEF StoreTypes
    <3> QED BY <1>1, <3>1, <3>2 DEF StoreTypes
  <2>2. /\ touched' \in [Txns -> SUBSET Tables]
        /\ step' \in [Sessions -> Steps]
        /\ stmt' \in [Sessions -> Statements \union {Closing, NoCall}]
    BY <1>1, <1>2 DEF StoreTypes, CallTypes, Goto, Steps, Executing
  <2> QED BY <1>1, <1>2, <2>1, <2>2 DEF CallTypes, StoreTypes
<1>5. /\ LP!LockIInv' /\ \A x \in Txns : Kept(x)
      /\ held' = held /\ registered' = registered
  BY <1>2, LocksAlone
<1>6. /\ t # NoTxn /\ t \in registered /\ state[t] = "ACTIVE" /\ held[t][r] = "X"
      /\ r \notin touched[t] /\ cursor[s] = NoTable /\ TxnOK(t)
  BY <1>1, Owned DEF StateAt, At, SessionOK, CallOK, LocksOK, Table
<1>7. /\ \A q \in Tables : q \in touched'[t] <=> q \in touched[t] \/ q = r
      /\ Len(images[t]) \in Nat /\ DOMAIN images[t] = 1 .. Len(images[t])
      /\ DOMAIN images'[t] = 1 .. Len(images[t]) + 1
      /\ \A i \in 1 .. Len(images[t]) : images'[t][i] = images[t][i]
      /\ images'[t][Len(images[t]) + 1] = image
      /\ txn'[s] = t /\ step'[s] = "prepared" /\ stmt'[s] = stmt[s] /\ cursor'[s] = NoTable
      /\ stmt[s].kind = "WRITE" /\ stmt[s].table = r
  BY <1>1, <1>2, <1>3, <1>6 DEF StoreTypes, CallTypes, Goto, Executing, Table
<1>8. Frame({s}, {t})
  <2>1. \A u \in Sessions \ {s} : SameSession(u)
    BY <1>1, <1>2 DEF SameSession, Goto, CallTypes
  <2>2. \A x \in Txns \ {t} : SameTxn(x)
    BY <1>1, <1>2 DEF SameTxn, StoreTypes
  <2>3. \A q \in Tables : SameTable(q) \/ held[t][q] = "X"
    BY <1>2, <1>6 DEF SameTable
  <2> QED BY <1>2, <1>5, <2>1, <2>2, <2>3, OwnFrame
<1>9. TxnOK(t)'
  <2>1. OrphanOK(t)' /\ WritesOK(t)' /\ ReadsOK(t)'
    BY <1>1, <1>2, <1>5, <1>6, <1>7 DEF TxnOK, OrphanOK, WritesOK, ReadsOK
  <2>2. ImagesOK(t)'
    <3>1. ImagesOK(t) /\ t \notin contents[r] /\ t \in Unsettled
      BY <1>6 DEF TxnOK, WritesOK, Unsettled
    <3>2. /\ \A q \in touched'[t] : held'[t][q] = "X"
          /\ \A i \in DOMAIN images'[t] : images'[t][i].table \in touched'[t]
      <4>1. /\ touched[t] \subseteq Tables /\ touched'[t] \subseteq Tables
            /\ \A q \in touched[t] : held[t][q] = "X"
        BY <1>1, <1>4, <1>6, <3>1 DEF StoreTypes, ImagesOK
      <4>2. \A i \in DOMAIN images[t] : images[t][i].table \in touched[t]
        BY <3>1 DEF ImagesOK
      <4>3. \A i \in DOMAIN images'[t] : images'[t][i].table \in touched'[t]
        BY <1>3, <1>7, <4>1, <4>2
      <4> QED BY <1>5, <1>6, <1>7, <4>1, <4>3
    <3>3. ASSUME NEW q \in touched'[t]
          PROVE  \E i \in DOMAIN images'[t] : images'[t][i].table = q
      <4>1. CASE q = r
        BY <1>3, <1>7, <4>1
      <4>2. CASE q # r
        <5>1. q \in touched[t]
          BY <1>4, <1>7, <3>3, <4>2 DEF StoreTypes
        <5>2. PICK i \in DOMAIN images[t] : images[t][i].table = q
          BY <3>1, <5>1 DEF ImagesOK
        <5> QED BY <1>7, <5>2
      <4> QED BY <4>1, <4>2
    <3>4. ASSUME NEW i \in DOMAIN images'[t]
          PROVE  images'[t][i].before = contents'[images'[t][i].table] \ {t}
      BY <1>2, <1>3, <1>7, <3>1 DEF ImagesOK
    <3> QED BY <3>2, <3>3, <3>4 DEF ImagesOK
  <2> QED BY <2>1, <2>2 DEF TxnOK
<1>10. SessionOK(s)'
  <2>1. CallOK(s)'
    BY <1>1, <1>2, <1>5, <1>6, <1>7 DEF CallOK, At, StateAt, Owning, Executing
  <2>2. LocksOK(s)'
    BY <1>1, <1>2, <1>7, UnlockedOK DEF Locking, At
  <2>3. WorkOK(s)'
    BY <1>1, <1>2, <1>4, <1>6, <1>7 DEF SessionOK, WorkOK, Writes, At, StoreTypes
  <2> QED BY <2>1, <2>2, <2>3 DEF SessionOK
<1>11. ASSUME NEW q \in Tables PROVE TableOK(q)'
  <2>1. \A x \in Txns : touched[x] \subseteq touched'[x]
    BY <1>1, <1>2 DEF StoreTypes
  <2> QED BY <1>2, <2>1, TablesKept DEF Unsettled
<1> QED BY <1>4, <1>5, <1>8, <1>9, <1>10, <1>11, StepKeeps

LEMMA PrepareKeeps ==
    ASSUME TxnIInv, NEW s \in Sessions, Prepare(s)
    PROVE  TxnIInv'
  BY PrepareAgainKeeps, PrepareTouchKeeps

-----------------------------------------------------------------------------
(* The actions of commit and abort. *)

\* What is known of a call that completes its transaction.
LEMMA Completing ==
    ASSUME TxnIInv, NEW s \in Sessions,
           step[s] \in {"committing", "restoring", "quarantining", "releasing", "discarding"}
    PROVE  \E t \in Txns :
             /\ txn[s] = t /\ t # NoTxn /\ cursor[s] = NoTable
             /\ t \notin blocked /\ waiting[t] = NoRequest /\ ~Locking(s)
             /\ step[s] \in Owning \ {"begun", "executed"} /\ step[s] \notin Executing
<1>1. CallOK(s) /\ CallTypes /\ step[s] \in Owning /\ step[s] \notin Executing
      /\ ~Locking(s)
  BY Types DEF TxnIInv, SessionOK, Owning, Steps, Executing, Locking
<1>2. txn[s] # NoTxn /\ txn[s] \in Txns /\ cursor[s] = NoTable
  BY <1>1 DEF CallOK, CallTypes, At
<1> QED BY <1>1, <1>2, Unblocked

\* A step of commit or abort that goes on.
GoOn(s, t, p, l) ==
    /\ txn[s] = t
    /\ step[s] \in {"committing", "restoring"}
    /\ p = step[s] \/ (p = "quarantining" /\ At(s, "restoring"))
    /\ p \in Steps /\ step' = [step EXCEPT ![s] = p]
    /\ stmt' \in [Sessions -> Statements \union {Closing, NoCall}]
    /\ \A u \in Sessions \ {s} : stmt'[u] = stmt[u]
    /\ l \in Nat /\ left' = [left EXCEPT ![s] = l]
    /\ UNCHANGED <<lockVars, txnVars, seen, txn, explicit, cancelled, cursor, cancelling>>
    /\ contents' \in [Tables -> SUBSET Txns] /\ dirty' \subseteq dirty /\ open' \subseteq Tables
    /\ \A r \in Tables : SameTable(r) \/ r \in touched[t]
    /\ \A r \in Tables : contents'[r] = contents[r] \/ contents'[r] = contents[r] \ {t}
    /\ At(s, "committing") => contents' = contents /\ open' = open

LEMMA GoesOn ==
    ASSUME TxnIInv, NEW s \in Sessions, NEW t \in Txns, NEW p, NEW l, GoOn(s, t, p, l),
           WorkOK(s)'
    PROVE  TxnIInv'
<1> USE DEF GoOn
<1>1. /\ t # NoTxn /\ cursor[s] = NoTable /\ t \notin blocked /\ ~Locking(s)
      /\ step[s] \in Owning /\ CallTypes /\ StoreTypes
  BY Completing, Types DEF TxnIInv
<1>2. /\ TxnOK(t) /\ CallOK(s) /\ t \in registered /\ \A r \in touched[t] : held[t][r] = "X"
      /\ state[t] = IF step[s] = "committing" THEN "COMMITTING" ELSE "ABORTING"
  BY Owned DEF StateAt, At, SessionOK
<1>3. CallTypes' /\ StoreTypes'
  BY <1>1 DEF CallTypes, StoreTypes, txnVars
<1>4. LP!LockIInv' /\ registered' = registered /\ \A x \in Txns : Kept(x)
  BY LocksAlone
<1>5. Frame({s}, {t})
  <2>1. \A u \in Sessions \ {s} : SameSession(u)
    BY <1>1 DEF SameSession, CallTypes
  <2>2. \A x \in Txns \ {t} : SameTxn(x)
    BY DEF SameTxn, txnVars
  <2> QED BY <1>2, <1>4, <2>1, <2>2, OwnFrame
<1>6. TxnOK(t)'
  <2>1. \A r \in Tables : t \in contents'[r] => r \in touched[t]
    BY <1>2 DEF TxnOK, WritesOK
  <2> QED BY <1>2, <1>3, <2>1, OwnTxn DEF txnVars
<1>7. step'[s] = p /\ txn'[s] = t /\ cursor'[s] = NoTable /\ state' = state
  BY <1>1 DEF CallTypes, txnVars
<1>8. CallOK(s)'
  BY <1>1, <1>2, <1>4, <1>7 DEF CallOK, At, StateAt, Executing
<1>9. LocksOK(s)'
  BY <1>1, <1>7, UnlockedOK DEF At, Locking
<1>10. ASSUME NEW r \in Tables PROVE TableOK(r)'
  <2>1. ASSUME r \notin open', r \in open
        PROVE  state'[t] = "ABORTING" /\ r \in touched'[t]
    <3>1. step[s] = "restoring" /\ r \in touched[t]
      BY <2>1 DEF SameTable, At
    <3> QED BY <1>2, <1>7, <3>1 DEF txnVars
  <2> QED BY <2>1, TablesKept DEF txnVars, Unsettled
<1> QED BY <1>3, <1>4, <1>5, <1>6, <1>8, <1>9, <1>10, StepKeeps DEF SessionOK

LEMMA FlushNextKeeps ==
    ASSUME TxnIInv, NEW s \in Sessions, FlushNext(s)
    PROVE  TxnIInv'
<1>1. PICK t \in Txns : txn[s] = t /\ t # NoTxn /\ cursor[s] = NoTable
  BY Completing DEF FlushNext, At
<1>2. /\ WorkOK(s) /\ ImagesOK(t) /\ touched[t] \subseteq Tables /\ CallTypes /\ StoreTypes
      /\ At(s, "committing") /\ left[s] > 0 /\ state[t] = "COMMITTING"
  BY <1>1, Owned, Types DEF FlushNext, SessionOK, TxnOK, TxnIInv, StateAt, At
<1>3. left[s] \in Nat /\ Len(images[t]) \in Nat /\ DOMAIN images[t] = 1 .. Len(images[t])
      /\ left[s] <= Len(images[t])
  BY <1>1, <1>2 DEF CallTypes, StoreTypes, WorkOK
<1> DEFINE j == Len(images[t]) - left[s] + 1
<1>4. j \in DOMAIN images[t] /\ images[t][j].table \in touched[t]
  <2>1. j \in 1 .. Len(images[t])
    BY <1>2, <1>3
  <2> QED BY <1>2, <1>3, <2>1 DEF ImagesOK
<1>5. dirty' = dirty \ {images[t][j].table} /\ left' = [left EXCEPT ![s] = left[s] - 1]
      /\ UNCHANGED <<lockVars, txnVars, contents, open, seen, txn, explicit,
                     cancelled, cursor, step, stmt, cancelling>>
  BY <1>1, <1>2 DEF FlushNext, Images, CallTypes
<1> HIDE DEF j
<1>6. /\ left[s] - 1 \in Nat /\ left'[s] = left[s] - 1 /\ txn'[s] = t /\ step'[s] = "committing"
      /\ state' = state /\ touched' = touched /\ images' = images /\ contents' = contents
  BY <1>1, <1>2, <1>3, <1>5 DEF CallTypes, txnVars, At
<1>7. WorkOK(s)'
  <2>1. \A r \in touched[t] : t \in contents[r]
    BY <1>1, <1>2 DEF WorkOK, Writes, At
  <2>2. ASSUME NEW r \in touched[t] \intersect dirty'
        PROVE  \E i \in DOMAIN images[t] :
                  i > Len(images[t]) - (left[s] - 1) /\ images[t][i].table = r
    <3>1. r \in touched[t] \intersect dirty /\ r # images[t][j].table
      BY <1>5, <2>2
    <3>2. PICK i \in DOMAIN images[t] : i > Len(images[t]) - left[s] /\ images[t][i].table = r
      BY <1>1, <1>2, <3>1 DEF WorkOK
    <3>3. i # j /\ i \in Nat
      BY <1>3, <3>1, <3>2
    <3> QED BY <1>3, <3>2, <3>3 DEF j
  <2>3. left[s] - 1 <= Len(images[t])
    BY <1>3
  <2> QED BY <1>2, <1>6, <2>1, <2>2, <2>3 DEF WorkOK, At
<1>8. step' = [step EXCEPT ![s] = step[s]] /\ step[s] \in Steps
  BY <1>2, <1>5 DEF CallTypes
<1>9. /\ dirty' \subseteq dirty /\ open' \subseteq Tables /\ contents' \in [Tables -> SUBSET Txns]
      /\ \A r \in Tables : SameTable(r) \/ r \in touched[t]
  BY <1>2, <1>4, <1>5 DEF SameTable, StoreTypes
<1>10. GoOn(s, t, step[s], left[s] - 1)
  BY <1>1, <1>2, <1>5, <1>6, <1>8, <1>9 DEF GoOn, CallTypes, At
<1> QED BY <1>7, <1>10, GoesOn

\* The image an abort visits: its table was touched, and it has what the table had.
LEMMA NextImage ==
    ASSUME TxnIInv, NEW s \in Sessions, At(s, "restoring"), left[s] > 0
    PROVE  \E t \in Txns :
             /\ txn[s] = t /\ Images(s) = images[t] /\ state[t] = "ABORTING"
             /\ left[s] \in 1 .. Len(images[t]) /\ DOMAIN images[t] = 1 .. Len(images[t])
             /\ left[s] - 1 \in Nat /\ left[s] \in Nat /\ Len(images[t]) \in Nat
             /\ images[t][left[s]].table \in touched[t]
             /\ images[t][left[s]].before = contents[images[t][left[s]].table] \ {t}
             /\ touched[t] \subseteq Tables
             /\ WorkOK(s) /\ CallTypes /\ StoreTypes /\ t # NoTxn
<1>1. PICK t \in Txns : txn[s] = t /\ t # NoTxn
  BY Completing DEF At
<1>2. /\ WorkOK(s) /\ ImagesOK(t) /\ touched[t] \subseteq Tables /\ CallTypes /\ StoreTypes
      /\ state[t] = "ABORTING"
  BY <1>1, Owned, Types DEF SessionOK, TxnOK, TxnIInv, StateAt, At
<1>3. /\ left[s] \in Nat /\ Len(images[t]) \in Nat /\ DOMAIN images[t] = 1 .. Len(images[t])
      /\ left[s] <= Len(images[t])
  BY <1>1, <1>2 DEF CallTypes, StoreTypes, WorkOK
<1>4. left[s] \in 1 .. Len(images[t]) /\ left[s] - 1 \in Nat
  BY <1>3
<1>5. /\ images[t][left[s]].table \in touched[t]
      /\ images[t][left[s]].before = contents[images[t][left[s]].table] \ {t}
  BY <1>2, <1>3, <1>4 DEF ImagesOK, Unsettled
<1> QED BY <1>1, <1>2, <1>3, <1>4, <1>5 DEF Images

LEMMA CloseTableKeeps ==
    ASSUME TxnIInv, NEW s \in Sessions, CloseTable(s)
    PROVE  TxnIInv'
<1>1. PICK t \in Txns :
             /\ txn[s] = t /\ Images(s) = images[t] /\ left[s] \in Nat
             /\ images[t][left[s]].table \in touched[t]
             /\ touched[t] \subseteq Tables
             /\ WorkOK(s) /\ CallTypes /\ StoreTypes /\ t # NoTxn
  BY NextImage DEF CloseTable
<1>2. /\ open' = open \ {images[t][left[s]].table} /\ images[t][left[s]].table \in open
      /\ UNCHANGED <<lockVars, txnVars, contents, dirty, seen, cancelling>>
      /\ UNCHANGED <<txn, explicit, cancelled, cursor, step, stmt, left>>
      /\ step[s] = "restoring" /\ left[s] > 0
  BY <1>1 DEF CloseTable, callVars, At
<1>3. GoOn(s, t, "restoring", left[s])
  BY <1>1, <1>2 DEF GoOn, CallTypes, StoreTypes, SameTable, At
<1>4. WorkOK(s)'
  <2>1. \A r \in touched[t] : r \in dirty \/ t \in contents[r] =>
           \E i \in 1 .. left[s] : images[t][i].table = r
    BY <1>1, <1>2 DEF WorkOK, At
  <2>2. \A r \in touched[t] \ open' : left[s] > 0 /\ images[t][left[s]].table = r
    BY <1>1, <1>2 DEF WorkOK, At
  <2>3. left[s] <= Len(images[t]) /\ state[t] = "ABORTING"
    BY <1>1, <1>2, Owned DEF WorkOK, At, StateAt
  <2> QED BY <1>1, <1>2, <2>1, <2>2, <2>3 DEF WorkOK, At, txnVars
<1> QED BY <1>3, <1>4, GoesOn

LEMMA RestoreKeeps ==
    ASSUME TxnIInv, NEW s \in Sessions, Restore(s)
    PROVE  TxnIInv'
<1>1. PICK t \in Txns :
             /\ txn[s] = t /\ Images(s) = images[t] /\ state[t] = "ABORTING"
             /\ left[s] \in 1 .. Len(images[t]) /\ DOMAIN images[t] = 1 .. Len(images[t])
             /\ left[s] - 1 \in Nat /\ left[s] \in Nat /\ Len(images[t]) \in Nat
             /\ images[t][left[s]].table \in touched[t]
             /\ images[t][left[s]].before = contents[images[t][left[s]].table] \ {t}
             /\ touched[t] \subseteq Tables
             /\ WorkOK(s) /\ CallTypes /\ StoreTypes /\ t # NoTxn
  BY NextImage DEF Restore
<1> SUFFICES ASSUME NEW r \in Tables, r = images[t][left[s]].table
             PROVE  TxnIInv'
  BY <1>1
<1>2. /\ open' = open \union {r} /\ r \notin open /\ dirty' = dirty \ {r}
      /\ contents' = [contents EXCEPT ![r] = contents[r] \ {t}]
      /\ left' = [left EXCEPT ![s] = left[s] - 1]
      /\ UNCHANGED <<lockVars, txnVars, seen, txn, explicit, cancelled, cursor, step, stmt,
                     cancelling>>
      /\ step[s] = "restoring" /\ left[s] > 0
  BY <1>1 DEF Restore, CallTypes, At
<1>3. /\ \A q \in Tables : contents'[q] = IF q = r THEN contents[q] \ {t} ELSE contents[q]
      /\ contents' \in [Tables -> SUBSET Txns]
      /\ left'[s] = left[s] - 1
  BY <1>1, <1>2 DEF StoreTypes, CallTypes
<1>4. GoOn(s, t, "restoring", left[s] - 1)
  BY <1>1, <1>2, <1>3 DEF GoOn, CallTypes, StoreTypes, SameTable, At
<1>5. WorkOK(s)'
  <2>1. ASSUME NEW q \in touched[t], q \in dirty' \/ t \in contents'[q]
        PROVE  \E i \in 1 .. left[s] - 1 : images[t][i].table = q
    <3>1. q # r /\ (q \in dirty \/ t \in contents[q])
      BY <1>1, <1>2, <1>3, <2>1
    <3>2. PICK i \in 1 .. left[s] : images[t][i].table = q
      BY <1>1, <1>2, <3>1 DEF WorkOK, At
    <3> QED BY <1>1, <3>1, <3>2
  <2>2. touched[t] \ open' = {}
    BY <1>1, <1>2 DEF WorkOK, At
  <2>3. left[s] - 1 <= Len(images[t])
    BY <1>1
  <2> QED BY <1>1, <1>2, <1>3, <2>1, <2>2, <2>3 DEF WorkOK, At, txnVars
<1> QED BY <1>4, <1>5, GoesOn

LEMMA RestoreFailsKeeps ==
    ASSUME TxnIInv, NEW s \in Sessions, RestoreFails(s)
    PROVE  TxnIInv'
<1>1. PICK t \in Txns :
             /\ txn[s] = t /\ Images(s) = images[t] /\ state[t] = "ABORTING"
             /\ images[t][left[s]].table \in touched[t]
             /\ images[t][left[s]].before = contents[images[t][left[s]].table] \ {t}
             /\ touched[t] \subseteq Tables
             /\ CallTypes /\ StoreTypes /\ t # NoTxn
  BY NextImage DEF RestoreFails
<1> SUFFICES ASSUME NEW r \in Tables, r = images[t][left[s]].table
             PROVE  TxnIInv'
  BY <1>1
<1>2. /\ open' = open \ {r}
      /\ \/ UNCHANGED <<contents, dirty>>
         \/ dirty' = dirty \ {r} /\ contents' = [contents EXCEPT ![r] = contents[r] \ {t}]
      /\ UNCHANGED <<lockVars, txnVars, seen>>
      /\ UNCHANGED <<txn, explicit, cancelled, cursor, left, cancelling>>
      /\ step[s] = "restoring" /\ step' = [step EXCEPT ![s] = "quarantining"]
      /\ stmt' \in [Sessions -> Statements \union {Closing, NoCall}]
      /\ \A u \in Sessions \ {s} : stmt'[u] = stmt[u]
  BY <1>1 DEF RestoreFails, CallTypes, At, Goto, OnlyStep
<1>3. /\ \A q \in Tables : contents'[q] = contents[q]
                             \/ (q = r /\ contents'[q] = contents[q] \ {t})
      /\ contents' \in [Tables -> SUBSET Txns]
      /\ dirty' \subseteq dirty /\ \A q \in Tables : q # r => (q \in dirty' <=> q \in dirty)
  BY <1>1, <1>2 DEF StoreTypes
<1>4. GoOn(s, t, "quarantining", left[s])
  BY <1>1, <1>2, <1>3 DEF GoOn, CallTypes, StoreTypes, SameTable, At, Steps
<1>5. WorkOK(s)'
  BY <1>1, <1>2 DEF WorkOK, At, txnVars, CallTypes
<1> QED BY <1>4, <1>5, GoesOn

\* Every image visited: nothing of the transaction is unflushed, and its writes are
\* all there, or gone.
LEMMA AllVisited ==
    ASSUME TxnIInv, NEW s \in Sessions, step[s] \in {"committing", "restoring"}, left[s] = 0
    PROVE  \E t \in Txns :
             /\ txn[s] = t /\ t # NoTxn
             /\ touched[t] \subseteq Tables /\ touched[t] \intersect dirty = {}
             /\ At(s, "committing") => \A r \in touched[t] : t \in contents[r]
             /\ At(s, "restoring") =>
                  /\ \A r \in Tables : t \notin contents[r]
                  /\ touched[t] \subseteq open
<1>1. PICK t \in Txns : txn[s] = t /\ t # NoTxn
  BY Completing
<1>2. /\ WorkOK(s) /\ TxnOK(t) /\ touched[t] \subseteq Tables /\ StoreTypes
      /\ state[t] \in StateAt(step[s])
  BY <1>1, Owned, Types DEF SessionOK, TxnIInv
<1>3. CASE At(s, "committing")
  <2>1. Len(images[t]) \in Nat /\ DOMAIN images[t] = 1 .. Len(images[t])
    BY <1>2 DEF StoreTypes
  <2>2. touched[t] \intersect dirty = {}
    BY <1>1, <1>2, <1>3, <2>1 DEF WorkOK
  <2>3. \A r \in touched[t] : t \in contents[r]
    BY <1>1, <1>2, <1>3 DEF WorkOK, Writes, At, StateAt
  <2> QED BY <1>1, <1>2, <1>3, <2>2, <2>3 DEF At
<1>4. CASE At(s, "restoring")
  <2>1. \A r \in touched[t] : r \notin dirty /\ t \notin contents[r] /\ r \in open
    BY <1>1, <1>2, <1>4 DEF WorkOK
  <2>2. \A r \in Tables : t \notin contents[r]
    BY <1>2, <2>1 DEF TxnOK, WritesOK
  <2> QED BY <1>1, <1>2, <1>4, <2>1, <2>2 DEF At
<1> QED BY <1>3, <1>4 DEF At

\* The state of a transaction becomes final.
SettleMove(s, t, st) ==
    /\ txn[s] = t /\ left[s] = 0
    /\ (At(s, "committing") /\ st = "COMMITTED") \/ (At(s, "restoring") /\ st = "ABORTED")
    /\ state' = [state EXCEPT ![t] = st]
    /\ Forget(t)
    /\ Goto(s, "releasing")
    /\ UNCHANGED <<lockVars, touched, images, contents, dirty, open>>
    /\ OnlyStep

LEMMA SettleKeeps ==
    ASSUME TxnIInv, NEW s \in Sessions, NEW t \in Txns, NEW st, SettleMove(s, t, st)
    PROVE  TxnIInv'
<1>1. /\ txn[s] = t /\ t # NoTxn /\ touched[t] \subseteq Tables
      /\ touched[t] \intersect dirty = {}
      /\ st = "COMMITTED" => \A r \in touched[t] : t \in contents[r]
      /\ st = "ABORTED" => \A r \in Tables : t \notin contents[r]
      /\ st \in {"COMMITTED", "ABORTED"} /\ step[s] \in {"committing", "restoring"}
      /\ st = "ABORTED" => touched[t] \subseteq open
  BY AllVisited DEF SettleMove, At
<1>2. /\ t \in registered /\ TxnOK(t) /\ CallTypes /\ StoreTypes
      /\ cursor[s] = NoTable /\ ~Locking(s) /\ t \in Unsettled
      /\ \A r \in touched[t] : held[t][r] = "X"
  BY <1>1, Owned, Completing, Types DEF At, TxnIInv, Unsettled, StateAt
<1>3. /\ state' = [state EXCEPT ![t] = st]
      /\ seen' = [seen EXCEPT ![t] = [r \in Tables |-> NotRead]]
      /\ UNCHANGED lockVars
      /\ UNCHANGED <<touched, images, contents, dirty, open>>
      /\ UNCHANGED <<txn, explicit, cancelled, cursor, left, cancelling>>
      /\ Goto(s, "releasing")
  BY DEF SettleMove, Forget, OnlyStep
<1>4. CallTypes' /\ StoreTypes'
  <2>1. CallTypes'
    BY <1>2, <1>3 DEF CallTypes, Goto, Steps
  <2> QED BY <1>1, <1>2, <1>3, <2>1 DEF StoreTypes, States
<1>5. LP!LockIInv' /\ registered' = registered /\ held' = held /\ \A x \in Txns : Kept(x)
  BY <1>3, LocksAlone
<1>6. /\ step'[s] = "releasing" /\ txn'[s] = t /\ cursor'[s] = NoTable
      /\ \A x \in Txns : state'[x] = IF x = t THEN st ELSE state[x]
      /\ \A r \in Tables : seen'[t][r] = NotRead
  BY <1>1, <1>2, <1>3 DEF CallTypes, StoreTypes, Goto
<1>7. Frame({s}, {t})
  <2>1. \A u \in Sessions \ {s} : SameSession(u)
    BY <1>2, <1>3 DEF SameSession, CallTypes, Goto
  <2>2. \A x \in Txns \ {t} : SameTxn(x)
    BY <1>2, <1>3 DEF SameTxn, StoreTypes
  <2>3. \A r \in Tables : SameTable(r)
    BY <1>3 DEF SameTable
  <2> QED BY <1>1, <1>3, <1>5, <2>1, <2>2, <2>3, OwnFrame
<1>8. SessionOK(s)'
  <2>1. CallOK(s)'
    BY <1>1, <1>2, <1>5, <1>6 DEF CallOK, At, StateAt, Executing, Owning
  <2>2. LocksOK(s)'
    BY <1>1, <1>2, <1>3, <1>6, UnlockedOK DEF At, Locking
  <2>3. WorkOK(s)'
    BY <1>1, <1>6 DEF WorkOK, At
  <2> QED BY <2>1, <2>2, <2>3 DEF SessionOK
<1>9. TxnOK(t)'
  <2>1. OrphanOK(t)' /\ ReadsOK(t)'
    BY <1>1, <1>6 DEF OrphanOK, ReadsOK
  <2>2. ImagesOK(t)'
    BY <1>1, <1>2, <1>3, <1>5, <1>6 DEF TxnOK, ImagesOK, Unsettled
  <2>3. WritesOK(t)'
    BY <1>1, <1>2, <1>3, <1>6 DEF TxnOK, WritesOK
  <2> QED BY <2>1, <2>2, <2>3 DEF TxnOK
\* A table it touched is neither dirty nor closed, so another is responsible.
<1>10. ASSUME NEW r \in Tables PROVE TableOK(r)'
  <2>1. TableOK(r)
    BY DEF TxnIInv
  <2>2. ASSUME r \notin open
        PROVE  \E x \in Txns : state'[x] \in {"ABORTING", "ABORT_FAILED"} /\ r \in touched[x]
    <3>1. PICK x \in Txns : state[x] \in {"ABORTING", "ABORT_FAILED"} /\ r \in touched[x]
      BY <2>1, <2>2 DEF TableOK
    <3>2. x # t
      <4>1. CASE st = "ABORTED"
        BY <1>1, <2>2, <3>1, <4>1
      <4>2. CASE st = "COMMITTED"
        BY <1>1, <3>1, <4>2, Owned DEF SettleMove, StateAt, At
      <4> QED BY <1>1, <4>1, <4>2
    <3> QED BY <1>6, <3>1, <3>2
  <2>3. ASSUME r \in dirty
        PROVE  \E x \in Unsettled' : r \in touched[x]
    <3>1. PICK x \in Unsettled : r \in touched[x]
      BY <2>1, <2>3 DEF TableOK
    <3>2. x # t
      BY <1>1, <2>3, <3>1
    <3> QED BY <1>6, <3>1, <3>2 DEF Unsettled
  <2> QED BY <1>3, <2>2, <2>3 DEF TableOK
<1> QED BY <1>4, <1>5, <1>7, <1>8, <1>9, <1>10, StepKeeps

LEMMA CommittedKeeps ==
    ASSUME TxnIInv, NEW s \in Sessions, Committed(s)
    PROVE  TxnIInv'
<1>1. PICK t \in Txns : txn[s] = t
  BY Completing DEF Committed, At
<1>2. SettleMove(s, t, "COMMITTED")
  BY <1>1 DEF Committed, SettleMove
<1> QED BY <1>2, SettleKeeps

LEMMA AbortedKeeps ==
    ASSUME TxnIInv, NEW s \in Sessions, Aborted(s)
    PROVE  TxnIInv'
<1>1. PICK t \in Txns : txn[s] = t
  BY Completing DEF Aborted, At
<1>2. SettleMove(s, t, "ABORTED")
  BY <1>1 DEF Aborted, SettleMove
<1> QED BY <1>2, SettleKeeps

\* The call returns without its transaction.
LEMMA Cleared ==
    ASSUME TxnIInv, NEW s \in Sessions, Clear(s), cursor' = cursor, cancelling' = cancelling,
           cursor[s] = NoTable
    PROVE  /\ CallTypes' /\ SessionOK(s)'
           /\ txn'[s] = NoTxn
           /\ \A u \in Sessions \ {s} : SameSession(u)
<1>1. CallTypes
  BY Types DEF TxnIInv
<1>2. PICK p \in {"idle", "closed"} : Goto(s, p)
  BY DEF Clear, Return
<1>3. CallTypes'
  BY <1>1, <1>2 DEF Clear, Goto, CallTypes, Steps
<1>4. /\ txn'[s] = NoTxn /\ step'[s] = p /\ cursor'[s] = NoTable
      /\ \A u \in Sessions \ {s} : SameSession(u)
  BY <1>1, <1>2 DEF Clear, Goto, CallTypes, SameSession
<1>5. CallOK(s)'
  BY <1>2, <1>4 DEF CallOK, At, Owning, Executing
<1>6. LocksOK(s)' /\ WorkOK(s)'
  BY <1>4 DEF LocksOK, WorkOK
<1> QED BY <1>3, <1>4, <1>5, <1>6 DEF SessionOK

LEMMA QuarantineDomainKeeps ==
    ASSUME TxnIInv, NEW s \in Sessions, QuarantineDomain(s)
    PROVE  TxnIInv'
<1>1. PICK t \in Txns : txn[s] = t /\ t # NoTxn /\ cursor[s] = NoTable /\ t \notin blocked
  BY Completing DEF QuarantineDomain, At
<1>2. /\ t \in registered /\ TxnOK(t) /\ StoreTypes /\ t \in Unsettled
      /\ \A r \in touched[t] : held[t][r] = "X" /\ touched[t] \subseteq Tables
      /\ \A u \in Sessions \ {s} : txn[u] # t
  BY <1>1, Owned, Types DEF QuarantineDomain, At, TxnIInv, Unsettled, StateAt
<1>3. /\ state' = [state EXCEPT ![t] = "ABORT_FAILED"]
      /\ seen' = [seen EXCEPT ![t] = [r \in Tables |-> NotRead]]
      /\ UNCHANGED <<touched, images, contents, dirty, open, cursor, cancelling>>
      /\ Clear(s)
  BY <1>1 DEF QuarantineDomain, Forget
<1>4. CallTypes' /\ SessionOK(s)' /\ txn'[s] = NoTxn /\ \A u \in Sessions \ {s} : SameSession(u)
  BY <1>1, <1>3, Cleared
<1>5. StoreTypes'
  BY <1>2, <1>3 DEF StoreTypes, States
<1>6. /\ LP!LockIInv' /\ \A x \in Txns \ {} : Kept(x)
      /\ registered' = registered /\ held' = held /\ blocked' = blocked
  <2>1. LP!LockIInv' /\ \A x \in Txns \ {} : Kept(x)
    BY LockStep DEF TxnIInv, QuarantineDomain
  <2> QED BY <2>1 DEF QuarantineDomain, Locks!Quarantine
<1>7. Frame({s}, {t})
  <2>1. \A x \in Txns \ {t} : SameTxn(x)
    BY <1>2, <1>3 DEF SameTxn, StoreTypes
  <2>2. \A r \in Tables : SameTable(r)
    BY <1>3 DEF SameTable
  <2> QED BY <1>1, <1>3, <1>4, <1>6, <2>1, <2>2, OwnFrame
<1>8. /\ \A x \in Txns : state'[x] = IF x = t THEN "ABORT_FAILED" ELSE state[x]
      /\ \A r \in Tables : seen'[t][r] = NotRead
  BY <1>2, <1>3 DEF StoreTypes
<1>9. TxnOK(t)'
  <2>1. OrphanOK(t)' /\ ReadsOK(t)'
    BY <1>1, <1>2, <1>6, <1>8 DEF OrphanOK, ReadsOK
  <2>2. ImagesOK(t)'
    BY <1>2, <1>3, <1>6, <1>8 DEF TxnOK, ImagesOK, Unsettled
  <2>3. WritesOK(t)'
    BY <1>2, <1>3, <1>8 DEF TxnOK, WritesOK
  <2> QED BY <2>1, <2>2, <2>3 DEF TxnOK
<1>10. ASSUME NEW r \in Tables PROVE TableOK(r)'
  BY <1>3, <1>8, TablesKept DEF Unsettled
<1> QED BY <1>4, <1>5, <1>6, <1>7, <1>9, <1>10, StepKeeps

LEMMA ReleaseKeeps ==
    ASSUME TxnIInv, NEW s \in Sessions, Release(s)
    PROVE  TxnIInv'
<1>1. PICK t \in Txns : /\ txn[s] = t /\ t # NoTxn /\ cursor[s] = NoTable /\ t \notin blocked
                        /\ step[s] \notin Executing
  BY Completing DEF Release, At
<1>2. /\ TxnOK(t) /\ CallTypes /\ StoreTypes /\ state[t] \in {"COMMITTED", "ABORTED"}
      /\ \A u \in Sessions \ {s} : txn[u] # t
  BY <1>1, Owned, Types DEF Release, At, TxnIInv, StateAt
<1>3. /\ UNCHANGED <<state, touched, images, contents, dirty, open, seen>>
      /\ UNCHANGED <<txn, explicit, cancelled, cursor, left>>
      /\ Goto(s, "discarding") /\ cancelling' = cancelling \ {t}
      /\ Locks!ReleaseAll(t)
  BY <1>1 DEF Release, txnVars, dataVars
<1>4. CallTypes' /\ StoreTypes'
  BY <1>2, <1>3 DEF CallTypes, StoreTypes, Goto, Steps
<1>5. /\ LP!LockIInv' /\ \A x \in Txns \ {t} : Kept(x)
      /\ t \notin registered' /\ t \notin blocked' /\ LockTable'
  <2>1. LP!LockIInv' /\ \A x \in Txns \ {t} : Kept(x)
    BY <1>3, LockStep DEF TxnIInv, LockMove
  <2>2. LockTable'
    BY <2>1, LockFacts, PTL
  <2> QED BY <1>1, <1>3, <2>1, <2>2 DEF Locks!ReleaseAll
<1>6. step'[s] = "discarding" /\ txn'[s] = t /\ cursor'[s] = NoTable
  BY <1>1, <1>2, <1>3 DEF CallTypes, Goto
<1>7. Frame({s}, {t})
  <2>1. \A u \in Sessions \ {s} : SameSession(u)
    BY <1>2, <1>3 DEF SameSession, CallTypes, Goto
  <2>2. (\A x \in Txns : SameTxn(x)) /\ (\A r \in Tables : SameTable(r))
    BY <1>3 DEF SameTxn, SameTable
  <2> QED BY <1>1, <1>3, <1>5, <2>1, <2>2, OwnFrame
<1>8. SessionOK(s)'
  <2>1. CallOK(s)'
    BY <1>1, <1>2, <1>3, <1>5, <1>6 DEF CallOK, At, StateAt, Executing
  <2>2. LocksOK(s)'
    BY <1>5, <1>6 DEF LocksOK, LockTable, At
  <2>3. WorkOK(s)'
    BY <1>2, <1>3, <1>6 DEF WorkOK, At
  <2> QED BY <2>1, <2>2, <2>3 DEF SessionOK
<1>9. TxnOK(t)'
  <2>1. OrphanOK(t)'
    BY <1>2, <1>3, <1>6 DEF OrphanOK
  <2>2. ImagesOK(t)' /\ WritesOK(t)' /\ ReadsOK(t)'
    BY <1>2, <1>3, <1>5 DEF TxnOK, ImagesOK, WritesOK, ReadsOK, Unsettled
  <2> QED BY <2>1, <2>2 DEF TxnOK
<1>10. ASSUME NEW r \in Tables PROVE TableOK(r)'
  BY <1>3, TablesKept DEF Unsettled
<1> QED BY <1>4, <1>5, <1>7, <1>8, <1>9, <1>10, StepKeeps

LEMMA DiscardKeeps ==
    ASSUME TxnIInv, NEW s \in Sessions, Discard(s)
    PROVE  TxnIInv'
<1>1. PICK t \in Txns : txn[s] = t /\ t # NoTxn /\ cursor[s] = NoTable /\ t \notin blocked
  BY Completing DEF Discard, At
<1>2. /\ TxnOK(t) /\ StoreTypes /\ state[t] \in {"COMMITTED", "ABORTED"}
      /\ t \notin registered /\ \A u \in Sessions \ {s} : txn[u] # t
  BY <1>1, Owned, Types DEF Discard, At, TxnIInv, StateAt
<1>3. /\ UNCHANGED <<state, touched, contents, dirty, open, seen, cursor, cancelling>>
      /\ UNCHANGED lockVars /\ Clear(s)
      /\ images' = [images EXCEPT ![t] = <<>>]
  BY <1>1 DEF Discard, dataVars
<1>4. CallTypes' /\ SessionOK(s)' /\ txn'[s] = NoTxn /\ \A u \in Sessions \ {s} : SameSession(u)
  BY <1>1, <1>3, Cleared
<1>5. StoreTypes' /\ images'[t] = <<>>
  <2>1. <<>> \in Seq([table : Tables, before : SUBSET Txns])
    OBVIOUS
  <2>2. images' \in [Txns -> Seq([table : Tables, before : SUBSET Txns])] /\ images'[t] = <<>>
    BY <1>2, <1>3, <2>1 DEF StoreTypes
  <2> QED BY <1>2, <1>3, <2>2 DEF StoreTypes
<1>6. /\ LP!LockIInv' /\ \A x \in Txns : Kept(x)
      /\ registered' = registered /\ blocked' = blocked
  BY <1>3, LocksAlone
<1>7. Frame({s}, {t})
  <2>1. \A x \in Txns \ {t} : SameTxn(x)
    BY <1>2, <1>3 DEF SameTxn, StoreTypes
  <2>2. \A r \in Tables : SameTable(r)
    BY <1>3 DEF SameTable
  <2> QED BY <1>1, <1>3, <1>4, <1>6, <2>1, <2>2, OwnFrame
<1>8. TxnOK(t)'
  BY <1>1, <1>2, <1>3, <1>5, <1>6
     DEF TxnOK, OrphanOK, ImagesOK, WritesOK, ReadsOK, Unsettled
<1>9. ASSUME NEW r \in Tables PROVE TableOK(r)'
  BY <1>3, TablesKept DEF Unsettled
<1> QED BY <1>4, <1>5, <1>6, <1>7, <1>8, <1>9, StepKeeps

\* A transaction that no session has yet.
LEMMA Newborn ==
    ASSUME TxnIInv, NEW s \in Sessions, At(s, "entered"), txn[s] = NoTxn,
           NEW t \in Txns, state[t] = "unborn"
    PROVE  /\ t # NoTxn /\ \A u \in Sessions : txn[u] # t
           /\ t \notin registered /\ t \notin blocked /\ waiting[t] = NoRequest
           /\ touched[t] = {} /\ images[t] = <<>>
           /\ \A r \in Tables : seen[t][r] = NotRead /\ t \notin contents[r]
           /\ cursor[s] = NoTable /\ stmt[s].kind \notin {"END", "ROLLBACK"}
           /\ stmt[s] \in Statements
<1>1. \A u \in Sessions : txn[u] # t
  BY Owned
<1>2. CallOK(s) /\ TxnOK(t) /\ LockTable
  BY LockFacts DEF TxnIInv, SessionOK
<1> QED BY <1>1, <1>2, NoTxnAssumption
     DEF CallOK, TxnOK, OrphanOK, WritesOK, ReadsOK, LockTable, At, Executing

LEMMA BeginKeeps ==
    ASSUME TxnIInv, NEW s \in Sessions, NEW t \in Txns, Begin(s, t)
    PROVE  TxnIInv'
<1>1. /\ t # NoTxn /\ \A u \in Sessions : txn[u] # t
      /\ t \notin registered /\ t \notin blocked /\ waiting[t] = NoRequest
      /\ touched[t] = {} /\ images[t] = <<>>
      /\ \A r \in Tables : seen[t][r] = NotRead /\ t \notin contents[r]
      /\ cursor[s] = NoTable /\ stmt[s].kind \notin {"END", "ROLLBACK"}
      /\ stmt[s] \in Statements /\ txn[s] = NoTxn /\ state[t] = "unborn"
      /\ At(s, "entered")
  BY Newborn DEF Begin
<1>2. CallTypes /\ StoreTypes
  BY Types DEF TxnIInv
<1>3. PICK p \in {"begun", "schema"} :
         Goto(s, p) /\ (p = "schema" => stmt[s].kind # "BEGIN")
  BY DEF Begin
<1>4. /\ state' = [state EXCEPT ![t] = "ACTIVE"] /\ txn' = [txn EXCEPT ![s] = t]
      /\ UNCHANGED <<contents, dirty, open, seen, touched, images, cancelled, cursor,
                     left, cancelling>>
      /\ explicit' = [explicit EXCEPT ![s] = stmt[s].kind = "BEGIN"]
      /\ Locks!Register(t)
  BY DEF Begin, dataVars
<1>5. CallTypes' /\ StoreTypes'
  <2>1. step' \in [Sessions -> Steps] /\ stmt' \in [Sessions -> Statements \union {Closing, NoCall}]
    BY <1>2, <1>3 DEF Goto, CallTypes, Steps, Executing
  <2>2. /\ explicit' \in [Sessions -> BOOLEAN] /\ txn' \in [Sessions -> Txns \union {NoTxn}]
        /\ state' \in [Txns -> States]
    BY <1>2, <1>4 DEF CallTypes, StoreTypes, States
  <2> QED BY <1>2, <1>4, <2>1, <2>2 DEF CallTypes, StoreTypes
<1>6. /\ LP!LockIInv' /\ \A x \in Txns \ {t} : Kept(x)
      /\ t \in registered' /\ t \notin blocked' /\ waiting'[t] = NoRequest
  <2>1. LP!LockIInv' /\ \A x \in Txns \ {t} : Kept(x)
    BY <1>4, LockStep DEF TxnIInv, LockMove
  <2> QED BY <1>1, <1>4, <2>1 DEF Locks!Register
<1>7. /\ step'[s] = p /\ txn'[s] = t /\ cursor'[s] = NoTable
      /\ stmt'[s] = IF p = "schema" \/ stmt[s] = Closing THEN stmt[s] ELSE NoCall
      /\ \A x \in Txns : state'[x] = IF x = t THEN "ACTIVE" ELSE state[x]
  BY <1>1, <1>2, <1>3, <1>4 DEF CallTypes, StoreTypes, Goto, Executing
<1>8. Frame({s}, {t})
  <2>1. \A u \in Sessions \ {s} : SameSession(u)
    BY <1>2, <1>3, <1>4 DEF SameSession, CallTypes, Goto
  <2>2. \A x \in Txns \ {t} : SameTxn(x)
    BY <1>4, <1>7 DEF SameTxn
  <2>3. \A r \in Tables : SameTable(r)
    BY <1>4 DEF SameTable
  <2> QED BY <1>1, <1>4, <1>6, <1>7, <2>1, <2>2, <2>3, OwnFrame
<1>9. SessionOK(s)'
  <2>1. p = "schema" => stmt'[s] \in Data /\ stmt'[s] \in Statements
    BY <1>1, <1>3, <1>7 DEF Statements, Control
  <2>2. CallOK(s)'
    BY <1>1, <1>6, <1>7, <2>1 DEF CallOK, At, StateAt, Executing
  <2>3. LocksOK(s)'
    BY <1>6, <1>7 DEF LocksOK, At
  <2>4. WorkOK(s)'
    BY <1>1, <1>4, <1>7 DEF WorkOK, At
  <2> QED BY <2>2, <2>3, <2>4 DEF SessionOK
<1>10. TxnOK(t)'
  <2>1. OrphanOK(t)'
    BY <1>7 DEF OrphanOK
  <2>2. ImagesOK(t)' /\ WritesOK(t)' /\ ReadsOK(t)'
    BY <1>1, <1>4, <1>7 DEF ImagesOK, WritesOK, ReadsOK
  <2> QED BY <2>1, <2>2 DEF TxnOK
<1>11. ASSUME NEW r \in Tables PROVE TableOK(r)'
  BY <1>1, <1>4, <1>7, TablesKept DEF Unsettled
<1> QED BY <1>5, <1>6, <1>8, <1>9, <1>10, <1>11, StepKeeps

LEMMA BeginRefusedKeeps ==
    ASSUME TxnIInv, NEW s \in Sessions, NEW t \in Txns, BeginRefused(s, t)
    PROVE  TxnIInv'
<1>1. /\ t # NoTxn /\ \A u \in Sessions : txn[u] # t
      /\ t \notin registered /\ t \notin blocked
      /\ touched[t] = {} /\ images[t] = <<>>
      /\ \A r \in Tables : seen[t][r] = NotRead /\ t \notin contents[r]
      /\ cursor[s] = NoTable /\ txn[s] = NoTxn /\ state[t] = "unborn"
  BY Newborn DEF BeginRefused
<1>2. CallTypes /\ StoreTypes
  BY Types DEF TxnIInv
<1>3. /\ state' = [state EXCEPT ![t] = "ABORTED"] /\ Goto(s, "idle")
      /\ UNCHANGED lockVars
      /\ UNCHANGED <<contents, dirty, open, seen, touched, images>>
      /\ UNCHANGED <<txn, explicit, cancelled, cursor, left, cancelling>>
  BY DEF BeginRefused, dataVars, OnlyStep
<1>4. CallTypes' /\ StoreTypes'
  BY <1>2, <1>3 DEF CallTypes, StoreTypes, Goto, Steps, States
<1>5. LP!LockIInv' /\ registered' = registered /\ blocked' = blocked /\ \A x \in Txns : Kept(x)
  BY <1>3, LocksAlone
<1>6. /\ step'[s] = "idle" /\ txn'[s] = NoTxn /\ cursor'[s] = NoTable
      /\ \A x \in Txns : state'[x] = IF x = t THEN "ABORTED" ELSE state[x]
  BY <1>1, <1>2, <1>3 DEF CallTypes, StoreTypes, Goto
<1>7. Frame({s}, {t})
  <2>1. \A u \in Sessions \ {s} : SameSession(u)
    BY <1>2, <1>3 DEF SameSession, CallTypes, Goto
  <2>2. \A x \in Txns \ {t} : SameTxn(x)
    BY <1>3, <1>6 DEF SameTxn
  <2>3. \A r \in Tables : SameTable(r)
    BY <1>3 DEF SameTable
  <2> QED BY <1>1, <1>3, <1>5, <1>6, <2>1, <2>2, <2>3, OwnFrame
<1>8. SessionOK(s)'
  BY <1>6 DEF SessionOK, CallOK, LocksOK, WorkOK, At, Owning, Executing
<1>9. TxnOK(t)'
  BY <1>1, <1>3, <1>5, <1>6
     DEF TxnOK, OrphanOK, ImagesOK, WritesOK, ReadsOK, Unsettled
<1>10. ASSUME NEW r \in Tables PROVE TableOK(r)'
  BY <1>1, <1>3, <1>6, TablesKept DEF Unsettled
<1> QED BY <1>4, <1>5, <1>7, <1>8, <1>9, <1>10, StepKeeps

-----------------------------------------------------------------------------
(* The invariant holds of every reachable state. *)

LEMMA InitTxnIInv == Init => TxnIInv
<1> SUFFICES ASSUME Init PROVE TxnIInv
  OBVIOUS
<1> USE NoTxnAssumption, NoTableAssumption
<1>1. LP!LockIInv
  <2>1. LP!Init
    BY LockBasis DEF Init, Locks!Init, LP!Init
  <2> QED BY <2>1, LockBasis, LP!InitLockIInv
<1>2. CallTypes /\ StoreTypes
  <2>1. <<>> \in Seq([table : Tables, before : SUBSET Txns])
    OBVIOUS
  <2> QED BY <2>1 DEF Init, CallTypes, StoreTypes, States, Steps, Executing, NoCall
<1>3. TypeOK
  BY <1>1, <1>2, LockFacts, Types DEF LockTable
<1>4. OneOwner
  BY DEF Init, OneOwner
<1>5. ASSUME NEW s \in Sessions PROVE SessionOK(s)
  BY DEF Init, SessionOK, CallOK, LocksOK, WorkOK, At, Owning, Executing
<1>6. ASSUME NEW t \in Txns PROVE TxnOK(t)
  BY DEF Init, Locks!Init, TxnOK, OrphanOK, ImagesOK, WritesOK, ReadsOK, Unsettled
<1>7. ASSUME NEW r \in Tables PROVE TableOK(r)
  BY DEF Init, TableOK
<1> QED BY <1>1, <1>3, <1>4, <1>5, <1>6, <1>7 DEF TxnIInv

\* What the thread of a running call does.
LEMMA CallStepKeeps ==
    ASSUME TxnIInv, NEW s \in Sessions, CallStep(s)
    PROVE  TxnIInv'
<1>1. CASE \E t \in Txns : Begin(s, t) \/ BeginRefused(s, t)
  BY <1>1, BeginKeeps, BeginRefusedKeeps
<1>2. CASE Begun(s) \/ Continue(s)
  BY <1>2, BegunKeeps, ContinueKeeps
<1>3. CASE LockRetained(s) \/ LockGranted(s) \/ LockWaits(s) \/ LockFails(s)
  BY <1>3, LockRetainedKeeps, LockGrantedKeeps, LockWaitsKeeps, LockFailsKeeps
<1>4. CASE Prepare(s) \/ PrepareFails(s)
  BY <1>4, PrepareKeeps, PrepareFailsKeeps
<1>5. CASE Write(s) \/ WriteFails(s) \/ Select(s) \/ Executed(s)
  BY <1>5, WriteKeeps, WriteFailsKeeps, SelectKeeps, ExecutedKeeps
<1>6. CASE End(s) \/ Rollback(s)
  BY <1>6, EndKeeps, RollbackKeeps
<1>7. CASE FlushNext(s) \/ CommitFails(s) \/ Committed(s)
  BY <1>7, FlushNextKeeps, CommitFailsKeeps, CommittedKeeps
<1>8. CASE CloseTable(s) \/ Restore(s) \/ RestoreFails(s)
  BY <1>8, CloseTableKeeps, RestoreKeeps, RestoreFailsKeeps
<1>9. CASE QuarantineDomain(s) \/ Aborted(s) \/ Release(s) \/ Discard(s)
  BY <1>9, QuarantineDomainKeeps, AbortedKeeps, ReleaseKeeps, DiscardKeeps
<1> QED BY <1>1, <1>2, <1>3, <1>4, <1>5, <1>6, <1>7, <1>8, <1>9 DEF CallStep

LEMMA StepTxnIInv == TxnIInv /\ [Next]_vars => TxnIInv'
<1> SUFFICES ASSUME TxnIInv, [Next]_vars PROVE TxnIInv'
  OBVIOUS
<1>1. ASSUME NEW s \in Sessions,
             \/ \E q \in Statements : Enter(s, q)
             \/ Fetch(s) \/ FinishCursor(s) \/ Close(s) \/ RequestCancel(s) \/ CallStep(s)
      PROVE  TxnIInv'
  BY <1>1, EnterKeeps, FetchKeeps, FinishCursorKeeps, CloseKeeps, RequestCancelKeeps,
     CallStepKeeps
<1>2. ASSUME NEW t \in Txns, CancelLocks(t) PROVE TxnIInv'
  BY <1>2, CancelLocksKeeps
<1>3. CASE UNCHANGED vars
  <2>1. CallTypes'
    BY <1>3, Types DEF TxnIInv, CallTypes, vars, callVars
  <2> QED BY <1>3, <2>1, IdleKeeps DEF vars, callVars
<1> QED BY <1>1, <1>2, <1>3 DEF Next

\* Everything the sessions, their transactions, the locks and the tables know of each
\* other agrees, at every step of every call.
THEOREM TransactionInvariant == Spec => []TxnIInv
  BY InitTxnIInv, StepTxnIInv, PTL DEF Spec

\* No statement, cancellation, failed commit or abort, or quarantine leaves a variable
\* outside its type.
THEOREM TypesAreRight == Spec => []TypeOK
  BY TransactionInvariant, PTL DEF TxnIInv

\* Unsettled effects and open results stay locked, whatever was cancelled, timed out,
\* failed or quarantined since.
THEOREM UnsettledEffectsAreLocked == Spec => []EffectsAreLocked
<1>1. ASSUME TxnIInv PROVE EffectsAreLocked
  <2>1. ASSUME NEW t \in Unsettled, NEW r \in touched[t] PROVE held[t][r] = "X"
    BY <1>1, <2>1, UnsettledHold
  <2>2. ASSUME NEW s \in Sessions, cursor[s] # NoTable PROVE held[txn[s]][cursor[s]] # "none"
    BY <1>1, <2>2 DEF TxnIInv, SessionOK, CallOK, LocksOK
  <2> QED BY <2>1, <2>2 DEF EffectsAreLocked
<1>2. TxnIInv => EffectsAreLocked
  BY <1>1
<1> QED BY <1>2, TransactionInvariant, PTL

\* A closed table is locked by the transaction that restores it, or could not; so
\* whoever else has a lock on a table finds it open.
LEMMA HoldersFindTablesOpen ==
    ASSUME TxnIInv, NEW t \in Txns, state[t] \notin {"ABORTING", "ABORT_FAILED"},
           NEW r \in Tables, held[t][r] # "none"
    PROVE  r \in open
<1> SUFFICES ASSUME r \notin open PROVE FALSE
  OBVIOUS
<1>1. PICK x \in Txns : state[x] \in {"ABORTING", "ABORT_FAILED"} /\ r \in touched[x]
  BY DEF TxnIInv, TableOK
<1>2. x \in Unsettled /\ t \in Txns \ {x}
  BY <1>1 DEF Unsettled
<1> QED BY <1>1, <1>2, UnsettledHold

\* No statement, open result or commit finds a table closed, in any interleaving of
\* restorations, failed ones included.
THEOREM TablesAreOpenToUsers == Spec => []UsersFindTablesOpen
<1>1. ASSUME TxnIInv, NEW s \in Sessions
      PROVE  /\ cursor[s] # NoTable => cursor[s] \in open
             /\ At(s, "prepared") => Table(s) \in open
             /\ At(s, "committing") => touched[txn[s]] \subseteq open
  <2>1. SessionOK(s) /\ CallTypes
    BY <1>1, Types DEF TxnIInv
  <2>2. ASSUME NEW t \in Txns, txn[s] = t, step[s] \in Running \union {"committing"},
               NEW r \in Tables, held[t][r] # "none"
        PROVE  r \in open
    <3>1. state[t] \notin {"ABORTING", "ABORT_FAILED"}
      BY <1>1, <2>2, Owned DEF StateAt, Running
    <3> QED BY <1>1, <2>2, <3>1, HoldersFindTablesOpen
  <2>3. ASSUME cursor[s] # NoTable PROVE cursor[s] \in open
    <3>1. /\ txn[s] \in Txns /\ cursor[s] \in Tables /\ step[s] \in Running
          /\ held[txn[s]][cursor[s]] # "none"
      BY <2>1, <2>3 DEF SessionOK, CallOK, LocksOK, CallTypes, Running, At
    <3> QED BY <2>2, <3>1
  <2>4. ASSUME At(s, "prepared") PROVE Table(s) \in open
    <3>1. /\ txn[s] \in Txns /\ Table(s) \in Tables /\ step[s] \in Running
          /\ held[txn[s]][Table(s)] # "none"
      BY <2>1, <2>4
         DEF SessionOK, CallOK, LocksOK, CallTypes, Running, At, Owning, Steps, Executing,
             Table, Data
    <3> QED BY <2>2, <3>1
  <2>5. ASSUME At(s, "committing") PROVE touched[txn[s]] \subseteq open
    <3>1. txn[s] \in Txns
      BY <2>1, <2>5 DEF SessionOK, CallOK, CallTypes, At, Owning, Steps
    <3>2. \A r \in touched[txn[s]] : r \in Tables /\ held[txn[s]][r] = "X"
      BY <1>1, <2>5, <3>1, Owned DEF At
    <3> QED BY <2>2, <2>5, <3>1, <3>2 DEF At
  <2> QED BY <2>3, <2>4, <2>5
<1>2. TxnIInv => UsersFindTablesOpen
  BY <1>1 DEF UsersFindTablesOpen
<1> QED BY <1>2, TransactionInvariant, PTL

\* A COMMITTED report means every write is there, an ABORTED one that none is; and a
\* table that is not flushed has an unsettled writer.
THEOREM ReportsOfCompletionAreTrue == Spec => []ReportsAreTrue
<1>1. TxnIInv => ReportsAreTrue
  BY DEF TxnIInv, ReportsAreTrue, TxnOK, WritesOK, TableOK, TypeOK
<1> QED BY <1>1, TransactionInvariant, PTL

\* Only release_all takes a transaction out of the lock domain.
LEMMA OnlyReleaseReleases ==
    ASSUME NEW t \in Txns, t \in registered, t \notin registered', [Next]_vars
    PROVE  \E s \in Sessions : Release(s) /\ txn[s] = t
<1>1. registered' # registered /\ ~(UNCHANGED lockVars)
  BY DEF lockVars
<1>2. ASSUME NEW x \in Txns, CancelLocks(x) PROVE FALSE
  BY <1>1, <1>2 DEF CancelLocks, Locks!Cancel
<1>3. ~UNCHANGED vars
  BY <1>1 DEF vars
<1>4. PICK s \in Sessions :
         \/ \E q \in Statements : Enter(s, q)
         \/ Fetch(s) \/ FinishCursor(s) \/ Close(s) \/ RequestCancel(s) \/ CallStep(s)
  BY <1>2, <1>3 DEF Next
<1>5. CallStep(s)
  BY <1>1, <1>4 DEF Enter, Fetch, FinishCursor, Close, RequestCancel
<1>6. ASSUME NEW x \in Txns, Begin(s, x) \/ BeginRefused(s, x) PROVE FALSE
  BY <1>1, <1>6 DEF Begin, BeginRefused, Locks!Register
<1>7. ~(\/ Begun(s) \/ Continue(s)
        \/ Prepare(s) \/ PrepareFails(s)
        \/ Write(s) \/ WriteFails(s) \/ Select(s) \/ Executed(s)
        \/ End(s) \/ Rollback(s))
  BY <1>1
     DEF Begun, Continue, Prepare, PrepareFails, Write, WriteFails, Select, Executed,
         End, Rollback
<1>8. ~(LockRetained(s) \/ LockGranted(s) \/ LockWaits(s) \/ LockFails(s))
  BY <1>1
     DEF LockRetained, LockGranted, LockWaits, LockFails, Locks!AcquireGranted,
         Locks!AcquireWait, Locks!AcquireDeadlock, Locks!ReturnGranted, Locks!ReturnFailed,
         Locks!Timeout
<1>9. ~(\/ FlushNext(s) \/ CommitFails(s) \/ Committed(s)
        \/ CloseTable(s) \/ Restore(s) \/ RestoreFails(s)
        \/ QuarantineDomain(s) \/ Aborted(s) \/ Discard(s))
  BY <1>1
     DEF FlushNext, CommitFails, Committed, CloseTable, Restore, RestoreFails,
         QuarantineDomain, Aborted, Discard, Locks!Quarantine
<1>10. Release(s)
  BY <1>5, <1>6, <1>7, <1>8, <1>9 DEF CallStep
<1> QED BY <1>10 DEF Release, Locks!ReleaseAll

\* The order of commit and abort: the locks of a transaction go when its writes are
\* flushed, or undone and the handles of its tables open again.
THEOREM LocksOutliveEffects == Spec => ReleasedWhenSettled
<1>1. ASSUME TxnIInv, [Next]_vars, NEW t \in Txns, t \in registered, t \notin registered'
      PROVE  /\ state[t] \in {"COMMITTED", "ABORTED"}
             /\ \A r \in touched[t] :
                  r \in open \ dirty /\ (t \in contents[r] <=> state[t] = "COMMITTED")
  <2>1. PICK s \in Sessions : Release(s) /\ txn[s] = t
    BY <1>1, OnlyReleaseReleases
  <2>2. /\ state[t] \in {"COMMITTED", "ABORTED"} /\ TxnOK(t) /\ touched[t] \subseteq Tables
        /\ \A r \in touched[t] : held[t][r] = "X"
    BY <1>1, <2>1, Owned DEF Release, At, StateAt
  <2>3. ASSUME NEW r \in touched[t] PROVE r \in open /\ r \notin dirty
    <3>1. r \in open
      BY <1>1, <2>2, HoldersFindTablesOpen
    <3>2. ASSUME r \in dirty PROVE FALSE
      <4>1. PICK x \in Unsettled : r \in touched[x]
        BY <1>1, <2>2, <3>2 DEF TxnIInv, TableOK
      <4>2. t \in Txns \ {x}
        BY <2>2, <4>1 DEF Unsettled
      <4> QED BY <1>1, <2>2, <4>1, <4>2, UnsettledHold
    <3> QED BY <3>1, <3>2
  <2>4. ASSUME NEW r \in touched[t] PROVE t \in contents[r] <=> state[t] = "COMMITTED"
    BY <2>2 DEF TxnOK, WritesOK
  <2> QED BY <2>2, <2>3, <2>4
<1>2. TxnIInv /\ [Next]_vars =>
        [\A t \in Txns :
          t \in registered /\ t \notin registered' =>
            /\ state[t] \in {"COMMITTED", "ABORTED"}
            /\ \A r \in touched[t] :
                 r \in open \ dirty /\ (t \in contents[r] <=> state[t] = "COMMITTED")]_vars
  BY <1>1
<1> QED BY <1>2, TransactionInvariant, PTL DEF Spec, ReleasedWhenSettled

-----------------------------------------------------------------------------
(***************************************************************************)
(* Transactions implements SerialDatabase, for any numbers of sessions,    *)
(* transactions and tables.  The committed contents of a table are what it *)
(* contains less the writes of unsettled transactions (SettledContents), so *)
(* only the steps that settle a transaction change them; the locks make    *)
(* everything a transaction read hold until then.  Steps map as follows:   *)
(* a write and a fetch read, the first preparation of a table touches it,  *)
(* Committed commits, Aborted, QuarantineDomain and BeginRefused abort,    *)
(* and all others are invisible.                                           *)
(***************************************************************************)
-----------------------------------------------------------------------------
(* The refinement mapping. *)

SettledIsRest == Settled = [r \in Tables |-> contents[r] \ Unsettled]

\* A before-image is what the table contains without its unsettled writer, and there
\* is at most one.
LEMMA SettledContents == TxnIInv => SettledIsRest
<1> SUFFICES ASSUME TxnIInv, NEW r \in Tables PROVE Settled[r] = contents[r] \ Unsettled
  BY DEF Settled, SettledIsRest
<1>1. \A x \in Unsettled : x \in contents[r] => r \in touched[x]
  BY DEF TxnIInv, TxnOK, WritesOK, Unsettled
<1>2. CASE \E t \in Unsettled : r \in touched[t]
  <2> DEFINE t == CHOOSE u \in Unsettled : r \in touched[u]
             i == CHOOSE j \in DOMAIN images[t] : images[t][j].table = r
  <2>1. t \in Unsettled /\ r \in touched[t]
    BY <1>2
  <2>2. Settled[r] = images[t][i].before
    BY <1>2 DEF Settled
  <2> HIDE DEF t
  <2>3. ImagesOK(t)
    BY <2>1 DEF TxnIInv, TxnOK, Unsettled
  <2>4. i \in DOMAIN images[t] /\ images[t][i].table = r
    BY <2>1, <2>3 DEF ImagesOK
  <2> HIDE DEF i
  <2>5. Settled[r] = contents[r] \ {t}
    BY <2>1, <2>2, <2>3, <2>4 DEF ImagesOK
  <2>6. \A x \in Unsettled \ {t} : x \notin contents[r]
    BY <1>1, <2>1, UnsettledHold
  <2> QED BY <2>1, <2>5, <2>6
<1>3. CASE ~\E t \in Unsettled : r \in touched[t]
  <2>1. Settled[r] = contents[r]
    BY <1>3 DEF Settled
  <2> QED BY <1>1, <1>3, <2>1
<1> QED BY <1>2, <1>3

\* What a transaction with a lock finds in a table, less its own writes, is committed.
LEMMA FoundIsCommitted ==
    ASSUME TxnIInv, NEW t \in Txns, NEW r \in Tables, held[t][r] # "none"
    PROVE  t \in Unsettled => contents[r] \ {t} = Settled[r]
<1> SUFFICES ASSUME t \in Unsettled PROVE contents[r] \ {t} = Settled[r]
  OBVIOUS
<1>1. ASSUME NEW x \in Unsettled \ {t} PROVE x \notin contents[r]
  <2>1. x \in contents[r] => r \in touched[x]
    BY DEF TxnIInv, TxnOK, WritesOK, Unsettled
  <2> QED BY <2>1, UnsettledHold
<1> QED BY <1>1, SettledContents DEF SettledIsRest

\* So whatever it found before is what it would find now.
LEMMA ViewsAreCommitted ==
    ASSUME TxnIInv, NEW t \in Txns, NEW r \in Tables
    PROVE  seen[t][r] \in {NotRead, Settled[r]}
<1> SUFFICES ASSUME seen[t][r] # NotRead PROVE seen[t][r] = Settled[r]
  OBVIOUS
<1>1. t \in Unsettled /\ held[t][r] # "none" /\ seen[t][r] = contents[r] \ {t}
  BY DEF TxnIInv, TxnOK, ReadsOK, Unsettled
<1> QED BY <1>1, FoundIsCommitted

\* Running, for the serial database.
LEMMA Outcomes ==
    ASSUME TxnIInv, NEW t \in Txns
    PROVE  /\ Outcome[t] = "running" <=>
                state[t] \in {"unborn", "ACTIVE", "COMMITTING", "ABORTING"}
           /\ Outcome[t] = "committed" <=> state[t] = "COMMITTED"
           /\ Outcome[t] = "aborted" <=> state[t] = "ABORTED"
           /\ Outcome[t] = "failed" <=> state[t] = "ABORT_FAILED"
           /\ Outcome[t] \in {"running", "committed", "aborted", "failed"}
<1>1. state[t] \in States
  BY DEF TxnIInv, TypeOK
<1> QED BY <1>1 DEF Outcome, States

-----------------------------------------------------------------------------
(* The invisible steps. *)

\* Nothing the mapping looks at changes.
LEMMA NothingChanges ==
    ASSUME UNCHANGED <<state, touched, images, contents, seen>>
    PROVE  UNCHANGED Serial!serialVars
<1>1. Unsettled' = Unsettled
  BY DEF Unsettled
<1> QED BY <1>1 DEF Serial!serialVars, Settled, Outcome

\* A transaction that runs may begin, turn to commit or to abort, and change its own
\* writes in the tables.
LEMMA RunsOn ==
    ASSUME TxnIInv, TxnIInv', NEW t \in Txns, UNCHANGED <<touched, seen>>,
           state[t] \in {"unborn", "ACTIVE", "COMMITTING", "ABORTING"},
           state'[t] \in {"unborn", "ACTIVE", "COMMITTING", "ABORTING"},
           \A x \in Txns \ {t} : state'[x] = state[x],
           \A r \in Tables : contents'[r] \ {t} = contents[r] \ {t}
    PROVE  UNCHANGED Serial!serialVars
<1>1. SettledIsRest /\ SettledIsRest'
  BY SettledContents, PTL
<1>2. ASSUME NEW r \in Tables PROVE contents'[r] \ Unsettled' = contents[r] \ Unsettled
  <2>1. \A x \in Txns \ {t} : x \in Unsettled' <=> x \in Unsettled
    BY DEF Unsettled
  <2>2. t \notin contents[r] \ Unsettled
    BY DEF TxnIInv, TxnOK, OrphanOK, WritesOK, Unsettled
  <2>3. t \notin contents'[r] \ Unsettled'
    BY DEF TxnIInv, TxnOK, OrphanOK, WritesOK, Unsettled
  <2>4. contents[r] \subseteq Txns /\ contents'[r] \subseteq Txns
    BY DEF TxnIInv, TypeOK
  <2> QED BY <2>1, <2>2, <2>3, <2>4
<1>3. Settled' = Settled
  BY <1>1, <1>2 DEF SettledIsRest
<1>4. Outcome' = Outcome
  BY DEF Outcome
<1> QED BY <1>3, <1>4 DEF Serial!serialVars

-----------------------------------------------------------------------------
(* The visible steps. *)

\* A write and a fetch read.
LEMMA ReadsAreReads ==
    ASSUME TxnIInv, TxnIInv', NEW t \in Txns, NEW r \in Tables,
           state[t] = "ACTIVE", held[t][r] # "none",
           seen' = [seen EXCEPT ![t][r] = contents[r] \ {t}],
           UNCHANGED <<state, touched>>,
           \A q \in Tables : contents'[q] \ {t} = contents[q] \ {t}
    PROVE  Serial!Read(t, r)
<1>1. t \in Unsettled /\ Unsettled' = Unsettled
  BY DEF Unsettled
<1>2. Outcome[t] = "running" /\ Outcome' = Outcome
  BY Outcomes DEF Outcome
<1>3. seen' = [seen EXCEPT ![t][r] = Settled[r]] /\ seen[t][r] \in {NotRead, Settled[r]}
  BY <1>1, FoundIsCommitted, ViewsAreCommitted
<1>4. SettledIsRest /\ SettledIsRest'
  BY SettledContents, PTL
<1>5. ASSUME NEW q \in Tables PROVE contents'[q] \ Unsettled' = contents[q] \ Unsettled
  BY <1>1
<1>6. Settled' = Settled
  BY <1>4, <1>5 DEF SettledIsRest
<1> QED BY <1>2, <1>3, <1>6 DEF Serial!Read

\* The first preparation of a table.
LEMMA TouchesAreTouches ==
    ASSUME TxnIInv, TxnIInv', NEW t \in Txns, NEW r \in Tables,
           state[t] = "ACTIVE",
           touched' = [touched EXCEPT ![t] = @ \union {r}],
           UNCHANGED <<state, contents, seen>>
    PROVE  Serial!Touch(t, r)
<1>1. SettledIsRest /\ SettledIsRest'
  BY SettledContents, PTL
<1>2. Settled' = Settled
  BY <1>1 DEF SettledIsRest, Unsettled
<1>3. Outcome[t] = "running" /\ Outcome' = Outcome
  BY Outcomes DEF Outcome
<1> QED BY <1>2, <1>3 DEF Serial!Touch

\* The end of a transaction, as the serial database sees it.
LEMMA EndsAreEnds ==
    ASSUME TxnIInv, TxnIInv', NEW t \in Txns,
           NEW st \in {"COMMITTED", "ABORTED", "ABORT_FAILED"},
           state' = [state EXCEPT ![t] = st],
           state[t] \in {"unborn", "ACTIVE", "COMMITTING", "ABORTING"},
           seen' = [seen EXCEPT ![t] = [r \in Tables |-> NotRead]],
           UNCHANGED <<touched, contents>>
    PROVE  /\ Outcome[t] = "running"
           /\ Serial!End(t, CASE st = "COMMITTED" -> "committed"
                              [] st = "ABORTED" -> "aborted"
                              [] OTHER -> "failed")
           /\ st # "COMMITTED" => Settled' = Settled
           /\ st = "COMMITTED" =>
                Settled' = [r \in Tables |-> IF r \in touched[t]
                                             THEN Settled[r] \union {t} ELSE Settled[r]]
<1> DEFINE o == CASE st = "COMMITTED" -> "committed"
                  [] st = "ABORTED" -> "aborted"
                  [] OTHER -> "failed"
<1>1. state \in [Txns -> States]
  BY DEF TxnIInv, TypeOK
<1>2. \A x \in Txns : state'[x] = IF x = t THEN st ELSE state[x]
  BY <1>1
<1>3. Outcome[t] = "running" /\ Outcome' = [Outcome EXCEPT ![t] = o]
  BY <1>1, <1>2 DEF Outcome
<1>4. Serial!End(t, o)
  BY <1>3 DEF Serial!End
<1>5. SettledIsRest /\ SettledIsRest'
  BY SettledContents, PTL
<1>6. \A r \in Tables : contents[r] \subseteq Txns
  BY DEF TxnIInv, TypeOK
<1>7. TxnOK(t)' /\ TxnOK(t) /\ touched[t] \subseteq Tables
  BY DEF TxnIInv, TypeOK
<1>8. ASSUME st # "COMMITTED", NEW r \in Tables
      PROVE  contents'[r] \ Unsettled' = contents[r] \ Unsettled
  <2>1. CASE st = "ABORT_FAILED"
    <3>1. t \notin contents[r] \/ state[t] # "unborn"
      BY <1>7 DEF TxnOK, OrphanOK, WritesOK
    <3> QED BY <1>2, <1>6, <2>1, <3>1 DEF Unsettled
  <2>2. CASE st = "ABORTED"
    <3>1. t \notin contents[r]
      BY <1>2, <1>7, <2>2 DEF TxnOK, WritesOK
    <3> QED BY <1>2, <1>6, <2>2, <3>1 DEF Unsettled
  <2> QED BY <1>8, <2>1, <2>2
<1>9. ASSUME st = "COMMITTED", NEW r \in Tables
      PROVE  contents'[r] \ Unsettled' =
               IF r \in touched[t] THEN (contents[r] \ Unsettled) \union {t}
                                   ELSE contents[r] \ Unsettled
  <2>1. r \in touched[t] <=> t \in contents[r]
    BY <1>2, <1>7, <1>9 DEF TxnOK, WritesOK
  <2>2. t \notin Unsettled' /\ \A x \in Txns \ {t} : x \in Unsettled' <=> x \in Unsettled
    BY <1>2, <1>9 DEF Unsettled
  <2> QED BY <1>6, <2>1, <2>2
<1>10. st # "COMMITTED" => Settled' = Settled
  BY <1>5, <1>8 DEF SettledIsRest
<1>11. st = "COMMITTED" =>
         Settled' = [r \in Tables |-> IF r \in touched[t]
                                      THEN Settled[r] \union {t} ELSE Settled[r]]
  BY <1>5, <1>9 DEF SettledIsRest
<1> QED BY <1>3, <1>4, <1>10, <1>11

LEMMA CommittedCommits ==
    ASSUME TxnIInv, TxnIInv', NEW s \in Sessions, Committed(s)
    PROVE  \E t \in Txns : Serial!Commit(t)
<1>1. PICK t \in Txns : txn[s] = t
  BY Completing DEF Committed, At
<1>2. /\ state' = [state EXCEPT ![t] = "COMMITTED"]
      /\ seen' = [seen EXCEPT ![t] = [r \in Tables |-> NotRead]]
      /\ UNCHANGED <<touched, contents>> /\ state[t] = "COMMITTING"
  BY <1>1, Owned DEF Committed, Forget, At, StateAt
<1>3. /\ Outcome[t] = "running" /\ Serial!End(t, "committed")
      /\ Settled' = [r \in Tables |-> IF r \in touched[t]
                                      THEN Settled[r] \union {t} ELSE Settled[r]]
  BY <1>2, EndsAreEnds
<1>4. \A r \in Tables : seen[t][r] \in {NotRead, Settled[r]}
  BY ViewsAreCommitted
<1> QED BY <1>3, <1>4 DEF Serial!Commit

\* Both ends of an abort, and a begin that the quarantine refuses.
LEMMA AbortsAbort ==
    ASSUME TxnIInv, TxnIInv', NEW s \in Sessions,
           Aborted(s) \/ QuarantineDomain(s) \/ \E t \in Txns : BeginRefused(s, t)
    PROVE  \E t \in Txns : Serial!Abort(t)
<1>1. ASSUME NEW t \in Txns, NEW st \in {"ABORTED", "ABORT_FAILED"},
             state' = [state EXCEPT ![t] = st],
             state[t] \in {"unborn", "ABORTING"},
             seen' = [seen EXCEPT ![t] = [r \in Tables |-> NotRead]],
             UNCHANGED <<touched, contents>>
      PROVE  \E x \in Txns : Serial!Abort(x)
  <2>1. /\ Outcome[t] = "running" /\ Settled' = Settled
        /\ Serial!End(t, "aborted") \/ Serial!End(t, "failed")
    BY <1>1, EndsAreEnds
  <2> QED BY <2>1 DEF Serial!Abort
<1>2. CASE Aborted(s) \/ QuarantineDomain(s)
  <2>1. PICK t \in Txns : txn[s] = t
    BY <1>2, Completing DEF Aborted, QuarantineDomain, At
  <2>2. state[t] = "ABORTING"
    BY <1>2, <2>1, Owned DEF Aborted, QuarantineDomain, At, StateAt
  <2> QED BY <1>1, <1>2, <2>1, <2>2 DEF Aborted, QuarantineDomain, Forget
<1>3. ASSUME NEW t \in Txns, BeginRefused(s, t) PROVE \E x \in Txns : Serial!Abort(x)
  <2>1. \A r \in Tables : seen[t][r] = NotRead
    BY <1>3, Newborn DEF BeginRefused
  <2>2. seen \in [Txns -> [Tables -> (SUBSET Txns) \union {NotRead}]]
    BY DEF TxnIInv, TypeOK
  <2>3. seen[t] = [r \in Tables |-> NotRead]
    BY <2>1, <2>2
  <2>4. seen' = [seen EXCEPT ![t] = [r \in Tables |-> NotRead]]
    BY <1>3, <2>2, <2>3 DEF BeginRefused, dataVars
  <2> QED BY <1>1, <1>3, <2>4 DEF BeginRefused, dataVars
<1> QED BY <1>2, <1>3

\* The calls that look at a table, or make sure of its before-image.
LEMMA LooksRead ==
    ASSUME TxnIInv, TxnIInv', NEW s \in Sessions, Fetch(s) \/ Write(s)
    PROVE  \E t \in Txns, r \in Tables : Serial!Read(t, r)
<1>1. CallTypes /\ StoreTypes /\ SessionOK(s)
  BY Types DEF TxnIInv
<1>2. PICK t \in Txns : txn[s] = t
  BY <1>1
     DEF SessionOK, CallOK, CallTypes, Fetch, Write, At, Owning, Steps, Executing
<1>3. CASE Fetch(s)
  <2>1. cursor[s] \in Tables /\ held[t][cursor[s]] # "none"
    BY <1>1, <1>2, <1>3, Owned DEF Fetch, SessionOK, LocksOK, CallTypes
  <2>2. state[t] = "ACTIVE"
    BY <1>2, <1>3, Owned DEF Fetch, At, StateAt
  <2>3. /\ seen' = [seen EXCEPT ![t][cursor[s]] = contents[cursor[s]] \ {t}]
        /\ UNCHANGED <<state, touched, contents>>
    BY <1>2, <1>3 DEF Fetch, Look, txnVars
  <2>4. Serial!Read(t, cursor[s])
    BY <2>1, <2>2, <2>3, ReadsAreReads
  <2> QED BY <2>1, <2>4
<1>4. CASE Write(s)
  <2>1. Table(s) \in Tables /\ held[t][Table(s)] # "none"
    BY <1>1, <1>2, <1>4, Owned
       DEF Write, SessionOK, CallOK, LocksOK, CallTypes, At, Table, Data
  <2>2. state[t] = "ACTIVE"
    BY <1>2, <1>4, Owned DEF Write, At, StateAt
  <2>3. /\ seen' = [seen EXCEPT ![t][Table(s)] = contents[Table(s)] \ {t}]
        /\ UNCHANGED <<state, touched>>
        /\ contents' = [contents EXCEPT ![Table(s)] = contents[Table(s)] \union {t}]
    BY <1>1, <1>2, <1>4, <2>1 DEF Write, Look, txnVars, StoreTypes
  <2>4. \A q \in Tables : contents'[q] \ {t} = contents[q] \ {t}
    BY <1>1, <2>1, <2>3 DEF StoreTypes
  <2>5. Serial!Read(t, Table(s))
    BY <2>1, <2>2, <2>3, <2>4, ReadsAreReads
  <2> QED BY <2>1, <2>5
<1> QED BY <1>3, <1>4

LEMMA PreparesTouch ==
    ASSUME TxnIInv, TxnIInv', NEW s \in Sessions, Prepare(s)
    PROVE  \/ \E t \in Txns, r \in Tables : Serial!Touch(t, r)
           \/ UNCHANGED Serial!serialVars
<1>1. CASE UNCHANGED <<touched, images, dirty>>
  BY <1>1, NothingChanges DEF Prepare
<1>2. CASE touched' = [touched EXCEPT ![txn[s]] = @ \union {Table(s)}]
           /\ stmt[s].kind # "SELECT"
  <2>1. CallTypes /\ CallOK(s)
    BY Types DEF TxnIInv, SessionOK
  <2>2. PICK t \in Txns, r \in Tables : txn[s] = t /\ Table(s) = r
    BY <2>1 DEF Prepare, CallOK, CallTypes, At, Owning, Steps, Executing, Table, Data
  <2>3. state[t] = "ACTIVE"
    BY <2>2, Owned DEF Prepare, At, StateAt
  <2>4. Serial!Touch(t, r)
    BY <1>2, <2>2, <2>3, TouchesAreTouches DEF Prepare
  <2> QED BY <2>4
<1> QED BY <1>1, <1>2 DEF Prepare

-----------------------------------------------------------------------------
(* The invisible steps, action by action. *)

\* The transaction of a call begins, or turns to commit or abort.
LEMMA TurnsAreInvisible ==
    ASSUME TxnIInv, TxnIInv', NEW t \in Txns,
           NEW st \in {"ACTIVE", "COMMITTING", "ABORTING"},
           state' = [state EXCEPT ![t] = st],
           state[t] \in {"unborn", "ACTIVE", "COMMITTING", "ABORTING"},
           UNCHANGED <<touched, seen>>,
           \A r \in Tables : contents'[r] \ {t} = contents[r] \ {t}
    PROVE  UNCHANGED Serial!serialVars
<1>1. state'[t] = st /\ \A x \in Txns \ {t} : state'[x] = state[x]
  BY DEF TxnIInv, TypeOK
<1> QED BY <1>1, RunsOn

\* A call whose transaction may turn.
LEMMA OwnerRuns ==
    ASSUME TxnIInv, NEW s \in Sessions, txn[s] # NoTxn,
           step[s] \in Running \union {"committing", "restoring", "quarantining"}
    PROVE  \E t \in Txns : txn[s] = t /\ state[t] \in {"ACTIVE", "COMMITTING", "ABORTING"}
<1>1. PICK t \in Txns : txn[s] = t
  BY Types DEF TxnIInv, CallTypes
<1> QED BY <1>1, Owned DEF Running, StateAt

LEMMA EndingIsInvisible ==
    ASSUME TxnIInv, TxnIInv', NEW s \in Sessions, txn[s] # NoTxn,
           step[s] \in Running \union {"committing"},
           Ending(s, "ABORTING", "restoring") \/ Ending(s, "COMMITTING", "committing"),
           UNCHANGED <<touched, seen, contents>>
    PROVE  UNCHANGED Serial!serialVars
<1>1. PICK t \in Txns : txn[s] = t /\ state[t] \in {"ACTIVE", "COMMITTING", "ABORTING"}
  BY OwnerRuns
<1>2. state' = [state EXCEPT ![t] = "ABORTING"] \/ state' = [state EXCEPT ![t] = "COMMITTING"]
  BY <1>1 DEF Ending
<1> QED BY <1>1, <1>2, TurnsAreInvisible

LEMMA FailIsInvisible ==
    ASSUME TxnIInv, TxnIInv', NEW s \in Sessions, Fail(s),
           step[s] \in Owning \/ txn[s] # NoTxn,
           step[s] \in Running \union {"committing"}, UNCHANGED <<contents, seen>>
    PROVE  UNCHANGED Serial!serialVars
<1>1. txn[s] # NoTxn
  BY DEF TxnIInv, SessionOK, CallOK
<1> QED BY <1>1, EndingIsInvisible DEF Fail, StartAbort

\* The calls that run a statement.
LEMMA StatementsAreInvisible ==
    ASSUME TxnIInv, TxnIInv', NEW s \in Sessions,
           \/ \E t \in Txns : Begin(s, t)
           \/ Begun(s) \/ Continue(s)
           \/ LockRetained(s) \/ LockGranted(s) \/ LockWaits(s) \/ LockFails(s)
           \/ PrepareFails(s) \/ WriteFails(s) \/ Select(s) \/ Executed(s)
    PROVE  UNCHANGED Serial!serialVars
<1> USE DEF txnVars, dataVars
<1>1. ASSUME NEW t \in Txns, Begin(s, t) PROVE UNCHANGED Serial!serialVars
  BY <1>1, TurnsAreInvisible DEF Begin
<1>2. ASSUME step[s] \in Owning \/ txn[s] # NoTxn,
             step[s] \in Running \union {"committing"},
             Fail(s), UNCHANGED <<contents, seen>>
      PROVE  UNCHANGED Serial!serialVars
  BY <1>2, FailIsInvisible
<1>3. ASSUME Begun(s) \/ Continue(s) \/ PrepareFails(s) \/ Select(s)
      PROVE  UNCHANGED Serial!serialVars
  <2>1. CASE UNCHANGED txnVars
    BY <1>3, <2>1, NothingChanges DEF Begun, Continue, PrepareFails, Select
  <2>2. CASE Fail(s)
    BY <1>2, <1>3, <2>2
       DEF Begun, Continue, PrepareFails, Select, At, Owning, Steps, Executing, Running
  <2> QED BY <1>3, <2>1, <2>2 DEF Begun, Continue, PrepareFails, Select
<1>4. ASSUME LockRetained(s) \/ LockGranted(s) \/ LockWaits(s)
      PROVE  UNCHANGED Serial!serialVars
  BY <1>4, NothingChanges DEF LockRetained, LockGranted, LockWaits
<1>5. ASSUME LockFails(s) PROVE UNCHANGED Serial!serialVars
  BY <1>2, <1>5 DEF LockFails, Locking, Owning, Steps, Executing, Running
<1>6. ASSUME Executed(s) PROVE UNCHANGED Serial!serialVars
  <2>1. CASE StartAbort(s) \/ StartCommit(s)
    <3>1. txn[s] # NoTxn /\ step[s] \in Running
      BY <1>6 DEF Executed, At, TxnIInv, SessionOK, CallOK, Owning, Steps, Executing,
         Running
    <3> QED BY <1>6, <2>1, <3>1, EndingIsInvisible DEF Executed, StartAbort, StartCommit
  <2>2. CASE UNCHANGED <<state, left>>
    BY <1>6, <2>2, NothingChanges DEF Executed
  <2> QED BY <1>6, <2>1, <2>2 DEF Executed
<1>7. ASSUME WriteFails(s) PROVE UNCHANGED Serial!serialVars
  <2>1. txn[s] # NoTxn /\ step[s] \in Running
    BY <1>7 DEF WriteFails, At, TxnIInv, SessionOK, CallOK, Owning, Steps, Executing,
       Running
  <2>2. PICK t \in Txns : txn[s] = t /\ state[t] \in {"ACTIVE", "COMMITTING", "ABORTING"}
    BY <2>1, OwnerRuns
  <2>3. \A r \in Tables : contents'[r] \ {t} = contents[r] \ {t}
    BY <1>7, <2>2, Types DEF WriteFails, TxnIInv, StoreTypes
  <2> QED BY <1>7, <2>2, <2>3, TurnsAreInvisible DEF WriteFails, Fail, StartAbort, Ending
<1> QED BY <1>1, <1>3, <1>4, <1>5, <1>6, <1>7

\* The calls that end a statement, a result or a session, and the steps of commit and
\* abort up to their last image.
LEMMA EndingsAreInvisible ==
    ASSUME TxnIInv, TxnIInv', NEW s \in Sessions,
           \/ FinishCursor(s) \/ Close(s) \/ End(s) \/ Rollback(s)
           \/ FlushNext(s) \/ CommitFails(s)
           \/ CloseTable(s) \/ Restore(s) \/ RestoreFails(s)
           \/ Release(s) \/ Discard(s)
    PROVE  UNCHANGED Serial!serialVars
<1> USE DEF txnVars, dataVars
<1>1. CallTypes /\ CallOK(s)
  BY Types DEF TxnIInv, SessionOK
<1>2. ASSUME FinishCursor(s) \/ Close(s) \/ End(s) \/ Rollback(s)
      PROVE  UNCHANGED Serial!serialVars
  <2>1. CASE state' = state
    BY <1>2, <2>1, NothingChanges DEF FinishCursor, Close, End, Rollback
  <2>2. CASE Ending(s, "ABORTING", "restoring") \/ Ending(s, "COMMITTING", "committing")
    <3>1. step[s] \in Running
      BY <1>2 DEF FinishCursor, Close, End, Rollback, At, Running
    <3>2. CASE txn[s] # NoTxn
      BY <1>2, <2>2, <3>1, <3>2, EndingIsInvisible DEF FinishCursor, Close, End, Rollback
    <3>3. CASE txn[s] = NoTxn
      BY <1>1, <1>2, <3>3, NothingChanges DEF FinishCursor, Close, End, Rollback, CallOK, At
    <3> QED BY <3>2, <3>3
  <2> QED
    BY <1>2, <2>1, <2>2 DEF FinishCursor, Close, End, Rollback, StartAbort, StartCommit
<1>3. ASSUME CommitFails(s) PROVE UNCHANGED Serial!serialVars
  BY <1>3, FailIsInvisible DEF CommitFails, At, Owning, Steps, Executing
<1>4. ASSUME FlushNext(s) \/ CloseTable(s) \/ Release(s) PROVE UNCHANGED Serial!serialVars
  BY <1>4, NothingChanges DEF FlushNext, CloseTable, Release
<1>5. ASSUME Restore(s) \/ RestoreFails(s) PROVE UNCHANGED Serial!serialVars
  <2>1. PICK t \in Txns :
           /\ txn[s] = t /\ Images(s) = images[t] /\ state[t] = "ABORTING"
           /\ images[t][left[s]].before = contents[images[t][left[s]].table] \ {t}
    BY <1>5, NextImage DEF Restore, RestoreFails
  <2>2. \A r \in Tables : contents'[r] \ {t} = contents[r] \ {t}
    <3> DEFINE image == images[t][left[s]]
    <3>1. contents' = contents \/ contents' = [contents EXCEPT ![image.table] = image.before]
      BY <1>5, <2>1 DEF Restore, RestoreFails
    <3>2. contents \in [Tables -> SUBSET Txns]
      BY Types DEF TxnIInv, StoreTypes
    <3>3. ASSUME NEW r \in Tables PROVE contents'[r] = contents[r] \/ contents'[r] = contents[r] \ {t}
      BY <2>1, <3>1, <3>2
    <3> QED BY <3>3
  <2> QED BY <1>5, <2>1, <2>2, RunsOn DEF Restore, RestoreFails
<1>6. ASSUME Discard(s) PROVE UNCHANGED Serial!serialVars
  <2>1. SettledIsRest /\ SettledIsRest'
    BY SettledContents, PTL
  <2> QED BY <1>6, <2>1 DEF Discard, SettledIsRest, Unsettled, Outcome, Serial!serialVars
<1> QED BY <1>2, <1>3, <1>4, <1>5, <1>6

-----------------------------------------------------------------------------
LEMMA InitIsInit == Init => Serial!SerialInit
<1> SUFFICES ASSUME Init PROVE Serial!SerialInit
  OBVIOUS
<1>1. SettledIsRest
  BY InitTxnIInv, SettledContents
<1>2. Settled = [r \in Tables |-> {}]
  BY <1>1 DEF SettledIsRest, Init
<1> QED BY <1>2 DEF Init, Outcome, Serial!SerialInit

LEMMA StepsAreSteps ==
    TxnIInv /\ TxnIInv' /\ [Next]_vars => [Serial!SerialNext]_(Serial!serialVars)
<1> SUFFICES ASSUME TxnIInv, TxnIInv', [Next]_vars
             PROVE  Serial!SerialNext \/ UNCHANGED Serial!serialVars
  OBVIOUS
<1>1. CASE UNCHANGED vars
  BY <1>1, NothingChanges DEF vars, txnVars, dataVars
<1>2. ASSUME NEW t \in Txns, CancelLocks(t) PROVE UNCHANGED Serial!serialVars
  BY <1>2, NothingChanges DEF CancelLocks, txnVars, dataVars
<1>3. ASSUME NEW s \in Sessions, RequestCancel(s) \/ \E q \in Statements : Enter(s, q)
      PROVE  UNCHANGED Serial!serialVars
  BY <1>3, NothingChanges DEF RequestCancel, Enter, txnVars, dataVars
<1>4. ASSUME NEW s \in Sessions, Fetch(s) \/ FinishCursor(s) \/ Close(s) \/ CallStep(s)
      PROVE  Serial!SerialNext \/ UNCHANGED Serial!serialVars
  <2>1. CASE Fetch(s) \/ Write(s)
    BY <2>1, LooksRead DEF Serial!SerialNext
  <2>2. CASE Prepare(s)
    BY <2>2, PreparesTouch DEF Serial!SerialNext
  <2>3. CASE Committed(s)
    BY <2>3, CommittedCommits DEF Serial!SerialNext
  <2>4. CASE Aborted(s) \/ QuarantineDomain(s) \/ \E t \in Txns : BeginRefused(s, t)
    BY <2>4, AbortsAbort DEF Serial!SerialNext
  <2>5. CASE \/ \E t \in Txns : Begin(s, t)
             \/ Begun(s) \/ Continue(s)
             \/ LockRetained(s) \/ LockGranted(s) \/ LockWaits(s) \/ LockFails(s)
             \/ PrepareFails(s) \/ WriteFails(s) \/ Select(s) \/ Executed(s)
    BY <2>5, StatementsAreInvisible
  <2>6. CASE \/ FinishCursor(s) \/ Close(s) \/ End(s) \/ Rollback(s)
             \/ FlushNext(s) \/ CommitFails(s)
             \/ CloseTable(s) \/ Restore(s) \/ RestoreFails(s)
             \/ Release(s) \/ Discard(s)
    BY <2>6, EndingsAreInvisible
  <2> QED BY <1>4, <2>1, <2>2, <2>3, <2>4, <2>5, <2>6 DEF CallStep
<1> QED BY <1>1, <1>2, <1>3, <1>4 DEF Next

\* Rigorous two-phase locking with before-images implements the serial database:
\* whatever calls, cancellations, deadlocks, timeouts, failures and quarantines
\* interleave, the committed contents change only at a commit, all tables at once, and
\* everything the transaction read is still the case then.
THEOREM TransactionsAreSerializable == Spec => Serializable
  BY InitIsInit, StepsAreSteps, TransactionInvariant, PTL
     DEF Spec, Serializable, Serial!SerialSpec

=============================================================================
