----------------------------- MODULE LockManager -----------------------------
(***************************************************************************)
(* The logical lock domain of one database: engine/transactions/locks.py.  *)
(* A database has one schema resource and one resource per table, locked   *)
(* in shared (S) or exclusive (X) mode.  Every critical section of the     *)
(* class, i.e. every "with self._condition", is one action.  A thread that *)
(* has to wait leaves the section and comes back in an action of its own   *)
(* (Timeout, ReturnGranted, ReturnFailed).                                 *)
(*                                                                         *)
(* The queue of an entry is kept as an order: earlier[t] is the set of     *)
(* transactions whose request precedes t's in the queue t stands in.  A    *)
(* transaction has at most one pending request, so it names the request.   *)
(***************************************************************************)
EXTENDS Naturals, FiniteSets

CONSTANTS Txns,       \* transaction identities; none is ever used twice
          Tables,     \* the table resources
          Schema,     \* the schema resource
          NoRequest   \* "not in _waiting"

Resources == Tables \union {Schema}
LockModes == {"S", "X"}
Requests  == [res : Resources, mode : LockModes]

ASSUME SchemaAssumption    == Schema \notin Tables
ASSUME NoRequestAssumption == NoRequest \notin Requests

VARIABLES
    registered,   \* keys of _held: transactions known to the domain
    retired,      \* _retired: transactions that released everything
    failed,       \* keys of _failed: a wait ended badly, or was cancelled
    held,         \* _held and _Entry.holders: held[t][r], "none" if absent
    waiting,      \* _waiting: the pending request of a transaction
    earlier,      \* _Entry.queue, as an order
    blocked,      \* transactions whose thread is inside acquire's wait loop
    unavailable   \* _unavailable: the domain is quarantined

lockVars == <<registered, retired, failed, held, waiting, earlier, blocked,
              unavailable>>

(***************************************************************************)
(* Who stands in whose way, in a lock table given by its holders h, its    *)
(* pending requests w and its queue order e.                               *)
(***************************************************************************)
\* Fault: a reader does not conflict with a writer.
ConflictsOfWriters(requested, other) == other # "none" /\ requested = "X"

Conflicts(requested, other) ==
    other # "none" /\ (requested = "X" \/ other = "X")

\* Fault: blockers are looked for among the holders only, not in the queue.
HolderBlockers(t, h, w, e) ==
    {u \in Txns \ {t} : Conflicts(w[t].mode, h[u][w[t].res])}

Blockers(t, h, w, e) ==
    {u \in Txns \ {t} :
        \/ Conflicts(w[t].mode, h[u][w[t].res])
        \/ u \in e[t] /\ Conflicts(w[t].mode, w[u].mode)}

\* Fault: only a cycle of two is recognised.
ClosesPair(t, w, e) ==
    \E u \in Blockers(t, held, w, e) :
        w[u] # NoRequest /\ t \in Blockers(u, held, w, e)

\* Fault: no cycle is ever recognised.
ClosesNothing(t, w, e) == FALSE

\* _closes_cycle walks the wait-for graph from the requester; it finds the
\* requester again iff every set closed under the graph that contains the
\* requester's blockers contains the requester.
ClosesCycle(t, w, e) ==
    \A R \in SUBSET Txns :
        /\ Blockers(t, held, w, e) \subseteq R
        /\ \A u \in R : w[u] # NoRequest => Blockers(u, held, w, e) \subseteq R
        => t \in R

Queued(r, w) == {t \in Txns : w[t] # NoRequest /\ w[t].res = r}

GrantMode(prior, requested) ==
    IF requested = "X" \/ prior = "X" THEN "X" ELSE "S"

\* Fault: a drain looks at the holders it found, not at those it just added.
GrantableTogether(rs, h, w, e) ==
    {t \in Txns : /\ w[t] # NoRequest
                  /\ w[t].res \in rs
                  /\ HolderBlockers(t, h, w, e) = {}}

\* _drain serves a queue in order and stops at the first request that still
\* has a blocker, so it grants those that neither wait for anything nor stand
\* behind one that does.
Grantable(rs, h, w, e) ==
    {t \in Txns : /\ w[t] # NoRequest
                  /\ w[t].res \in rs
                  /\ \A u \in e[t] \union {t} : Blockers(u, h, w, e) = {}}

Granted(rs, h, w, e) == IF unavailable THEN {} ELSE Grantable(rs, h, w, e)

\* The lock table after draining the resources rs of <<h, w, e>>.
DrainedHeld(rs, h, w, e) ==
    [t \in Txns |->
        IF t \in Granted(rs, h, w, e)
        THEN [h[t] EXCEPT ![w[t].res] = GrantMode(h[t][w[t].res], w[t].mode)]
        ELSE h[t]]

DrainedWaiting(rs, h, w, e) ==
    [t \in Txns |-> IF t \in Granted(rs, h, w, e) THEN NoRequest ELSE w[t]]

DrainedEarlier(rs, h, w, e) ==
    [t \in Txns |-> IF t \in Granted(rs, h, w, e) THEN {}
                    ELSE e[t] \ Granted(rs, h, w, e)]

Drain(rs, h, w, e) ==
    /\ held' = DrainedHeld(rs, h, w, e)
    /\ waiting' = DrainedWaiting(rs, h, w, e)
    /\ earlier' = DrainedEarlier(rs, h, w, e)

\* The queues without the requests of the transactions D.
NoLongerWaiting(D) == [t \in Txns |-> IF t \in D THEN NoRequest ELSE waiting[t]]
NoLongerQueued(D)  == [t \in Txns |-> IF t \in D THEN {} ELSE earlier[t] \ D]

\* The resource, if any, whose queue t leaves.
QueueOf(t) == IF waiting[t] = NoRequest THEN {} ELSE {waiting[t].res}

\* Fault: a failed wait does not serve those behind it.
FailWaitSilently(t) ==
    /\ failed' = failed \union {t}
    /\ held' = held
    /\ waiting' = NoLongerWaiting({t})
    /\ earlier' = NoLongerQueued({t})

\* Fault: a failed wait leaves its request in the queue.
FailWaitInQueue(t) ==
    /\ failed' = failed \union {t}
    /\ Drain(QueueOf(t), held, waiting, earlier)

\* _fail_wait: t fails, leaves its queue, and those behind it are served.
FailWait(t) ==
    /\ failed' = failed \union {t}
    /\ Drain(QueueOf(t), held, NoLongerWaiting({t}), NoLongerQueued({t}))

-----------------------------------------------------------------------------
Init ==
    /\ registered = {}
    /\ retired = {}
    /\ failed = {}
    /\ held = [t \in Txns |-> [r \in Resources |-> "none"]]
    /\ waiting = [t \in Txns |-> NoRequest]
    /\ earlier = [t \in Txns |-> {}]
    /\ blocked = {}
    /\ unavailable = FALSE

Register(t) ==
    /\ ~unavailable
    /\ t \notin registered \union retired
    /\ registered' = registered \union {t}
    /\ UNCHANGED <<retired, failed, held, waiting, earlier, blocked, unavailable>>

\* acquire gets past its checks and the lock is not already held strongly
\* enough ("retained", which changes nothing).
MayRequest(t, r, m) ==
    /\ ~unavailable
    /\ t \in registered \ failed
    /\ t \notin blocked
    /\ waiting[t] = NoRequest
    /\ r \in Tables => held[t][Schema] # "none"
    /\ held[t][r] \notin {"X", m}

\* The tables with t's request appended to the queue of r.
WithRequest(t, r, m) == [waiting EXCEPT ![t] = [res |-> r, mode |-> m]]
WithQueue(t, r)      == [earlier EXCEPT ![t] = Queued(r, waiting)]

RequestBlockers(t, r, m) ==
    Blockers(t, held, WithRequest(t, r, m), WithQueue(t, r))

\* acquire, nothing in the way: granted at once, then the queue is drained.
AcquireGranted(t, r, m) ==
    /\ MayRequest(t, r, m)
    /\ RequestBlockers(t, r, m) = {}
    /\ Drain({r}, [held EXCEPT ![t][r] = GrantMode(@, m)], waiting, earlier)
    /\ UNCHANGED <<registered, retired, failed, blocked, unavailable>>

\* Fault: the victim gives its locks back at once, before its abort.
AcquireDeadlockReleasing(t, r, m) ==
    /\ MayRequest(t, r, m)
    /\ RequestBlockers(t, r, m) # {}
    /\ ClosesCycle(t, WithRequest(t, r, m), WithQueue(t, r))
    /\ failed' = failed \union {t}
    /\ Drain(Resources, [held EXCEPT ![t] = [q \in Resources |-> "none"]],
             waiting, earlier)
    /\ UNCHANGED <<registered, retired, blocked, unavailable>>

\* acquire, the request would close a cycle: the requester is the victim.
AcquireDeadlock(t, r, m) ==
    /\ MayRequest(t, r, m)
    /\ RequestBlockers(t, r, m) # {}
    /\ ClosesCycle(t, WithRequest(t, r, m), WithQueue(t, r))
    /\ failed' = failed \union {t}
    /\ Drain({r}, held, waiting, earlier)
    /\ UNCHANGED <<registered, retired, blocked, unavailable>>

\* acquire, the thread starts to wait.
AcquireWait(t, r, m) ==
    /\ MayRequest(t, r, m)
    /\ RequestBlockers(t, r, m) # {}
    /\ ~ClosesCycle(t, WithRequest(t, r, m), WithQueue(t, r))
    /\ waiting' = WithRequest(t, r, m)
    /\ earlier' = WithQueue(t, r)
    /\ blocked' = blocked \union {t}
    /\ UNCHANGED <<registered, retired, failed, held, unavailable>>

\* The wait loop wakes up past its deadline and the lock is not granted yet.
Timeout(t) ==
    /\ t \in blocked
    /\ waiting[t] # NoRequest
    /\ FailWait(t)
    /\ blocked' = blocked \ {t}
    /\ UNCHANGED <<registered, retired, unavailable>>

\* The wait loop ends: the request left its queue.  _require_active is asked
\* again, so a transaction failed or quarantined after its grant still raises.
StillActive(t) == ~unavailable /\ t \in registered \ failed

ReturnGranted(t) ==
    /\ t \in blocked
    /\ waiting[t] = NoRequest
    /\ StillActive(t)
    /\ blocked' = blocked \ {t}
    /\ UNCHANGED <<registered, retired, failed, held, waiting, earlier, unavailable>>

\* Fault: a woken thread only looks for a failure of its own, not at the domain.
ReturnOwnFailure(t) ==
    /\ t \in blocked \intersect failed
    /\ waiting[t] = NoRequest
    /\ blocked' = blocked \ {t}
    /\ UNCHANGED <<registered, retired, failed, held, waiting, earlier, unavailable>>

ReturnFailed(t) ==
    /\ t \in blocked
    /\ waiting[t] = NoRequest
    /\ ~StillActive(t)
    /\ blocked' = blocked \ {t}
    /\ UNCHANGED <<registered, retired, failed, held, waiting, earlier, unavailable>>

\* cancel, from any thread; the locks stay until the abort.
Cancel(t) ==
    /\ t \in registered \ failed
    /\ FailWait(t)
    /\ UNCHANGED <<registered, retired, blocked, unavailable>>

\* release_all, with a COMMITTED or ABORTED report.
ReleaseAll(t) ==
    /\ t \in registered
    /\ registered' = registered \ {t}
    /\ retired' = retired \union {t}
    /\ failed' = failed \ {t}
    /\ Drain({r \in Resources : held[t][r] # "none"} \union QueueOf(t),
             [held EXCEPT ![t] = [r \in Resources |-> "none"]],
             NoLongerWaiting({t}), NoLongerQueued({t}))
    /\ UNCHANGED <<blocked, unavailable>>

\* quarantine, after a restoration that failed: every wait fails, no grant.
Quarantine ==
    /\ unavailable' = TRUE
    /\ LET D == {t \in Txns : waiting[t] # NoRequest}
       IN  /\ failed' = failed \union D
           /\ waiting' = NoLongerWaiting(D)
           /\ earlier' = NoLongerQueued(D)
    /\ UNCHANGED <<registered, retired, held, blocked>>

Acquire(t, r, m) ==
    AcquireGranted(t, r, m) \/ AcquireDeadlock(t, r, m) \/ AcquireWait(t, r, m)

LockNext ==
    \/ \E t \in Txns :
         \/ Register(t) \/ Timeout(t) \/ ReturnGranted(t) \/ ReturnFailed(t)
         \/ Cancel(t) \/ ReleaseAll(t)
         \/ \E r \in Resources, m \in LockModes : Acquire(t, r, m)
    \/ ~unavailable /\ Quarantine

LockSpec == Init /\ [][LockNext]_lockVars

-----------------------------------------------------------------------------
(***************************************************************************)
(* Properties                                                              *)
(***************************************************************************)

\* Types of the lock table, and the bookkeeping the four dictionaries of the
\* class keep in step: only a registered, unfailed transaction waits, only a
\* registered one holds, and a queue is a strict total order of its requests.
TypeOK ==
    /\ registered \subseteq Txns
    /\ retired \subseteq Txns \ registered
    /\ failed \subseteq registered
    /\ held \in [Txns -> [Resources -> LockModes \union {"none"}]]
    /\ waiting \in [Txns -> Requests \union {NoRequest}]
    /\ earlier \in [Txns -> SUBSET Txns]
    /\ blocked \subseteq Txns
    /\ unavailable \in BOOLEAN

Waiting == {t \in Txns : waiting[t] # NoRequest}

\* _waiting, _failed, _held and the entry queues tell one story: a waiter is
\* registered, unfailed and has a thread in the loop; a holder is registered;
\* each queue is totally ordered; nobody waits in a quarantined domain.
QueuesAgree ==
    /\ Waiting \subseteq (registered \ failed) \intersect blocked
    /\ \A t \in Txns \ registered : \A r \in Resources : held[t][r] = "none"
    /\ \A t \in Txns \ Waiting : earlier[t] = {}
    /\ \A t \in Waiting :
         /\ t \notin earlier[t]
         /\ earlier[t] \subseteq Queued(waiting[t].res, waiting)
         /\ \A u \in earlier[t] : earlier[u] \subseteq earlier[t]
         /\ \A u \in Queued(waiting[t].res, waiting) \ {t} :
                u \in earlier[t] \/ t \in earlier[u]
    /\ unavailable => Waiting = {}

\* _conflicts, between holders: an exclusive lock has no other holder.
HoldersCompatible ==
    \A t, u \in Txns, r \in Resources :
        t # u /\ held[t][r] # "none" => ~Conflicts(held[t][r], held[u][r])

WaitsFor(t) == Blockers(t, held, waiting, earlier)

\* The victim rule of acquire leaves no cycle behind: in every group of
\* waiting transactions one waits for nobody of the group, so it can be served
\* when transactions outside the group end.
NoWaitCycle ==
    \A C \in SUBSET Waiting : C # {} => \E t \in C : WaitsFor(t) \intersect C = {}

\* No lost wake-up: whoever waits has a reason to.  Every removal from a queue
\* or from the holders (_grant, _fail_wait, release_all) drains what it frees.
NoLostGrant == \A t \in Waiting : WaitsFor(t) # {}

\* acquire's protocol check and release_all together: a table lock is covered
\* by the schema lock for as long as it is held.
SchemaCoversTables ==
    \A t \in Txns :
        (\E r \in Tables : held[t][r] # "none") => held[t][Schema] # "none"

Strengthened(t, r) ==
    /\ held'[t][r] # held[t][r]
    /\ held'[t][r] # "none"

\* Strict two-phase locking: while a transaction is registered its locks only
\* grow, and they go all at once, when it retires; a retired transaction never
\* holds or asks again.
LocksGrowThenGo ==
    [][\A t \in Txns :
         /\ t \in registered' =>
              \A r \in Resources :
                 held'[t][r] = held[t][r] \/ (held[t][r] # "X" /\ Strengthened(t, r))
         /\ t \in retired => /\ t \in retired' /\ t \notin registered'
                             /\ \A r \in Resources : held'[t][r] = "none"]_lockVars

\* FIFO: a lock is never granted past an earlier conflicting request of the
\* same queue that stays pending (a request that is granted at once has the
\* whole queue before it), and never at all in a quarantined domain.
NoOvertaking ==
    [][\A t \in Txns, r \in Resources :
         Strengthened(t, r) =>
            /\ ~unavailable
            /\ \A u \in Queued(r, waiting) \ {t} :
                 \/ waiting'[u] = NoRequest
                 \/ t \in Waiting /\ t \in earlier[u]
                 \/ ~Conflicts(held'[t][r], waiting[u].mode)]_lockVars

-----------------------------------------------------------------------------
(***************************************************************************)
(* Liveness.  A thread inside acquire runs again when it is notified or    *)
(* when its deadline passes: condition.wait(remaining) has a timeout.      *)
(***************************************************************************)
Wakes(t) == ReturnGranted(t) \/ ReturnFailed(t)

LockFairSpec == LockSpec /\ \A t \in Txns : WF_lockVars(Wakes(t))

\* Every wait ends even if no deadline ever expired, provided transactions
\* that are not waiting end (their owners commit or abort): the victim rule
\* and the drains alone are enough to keep the domain moving.
WaitsEnd ==
    (\A t \in Txns : WF_lockVars(t \notin blocked /\ ReleaseAll(t)))
        => \A t \in Txns : t \in blocked ~> t \notin blocked

\* Every call of acquire ends whatever the holders do, by its deadline.
DeadlineEndsWaits ==
    (\A t \in Txns : WF_lockVars(Timeout(t)))
        => \A t \in Txns : t \in blocked ~> t \notin blocked
=============================================================================
