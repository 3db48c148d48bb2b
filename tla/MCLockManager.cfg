\* Three transactions, the schema resource and two tables: enough for a three-party
\* cycle, an upgrade behind a waiter and a queue of two.  No symmetry: it is unsound
\* for liveness.
SPECIFICATION LockFairSpec
CONSTANTS
    Txns = {t1, t2, t3}
    Tables = {a, b}
    Schema = schema
    NoRequest = NoRequest
INVARIANTS QueuesAgree HoldersCompatible NoWaitCycle NoLostGrant
PROPERTIES LocksGrowThenGo NoOvertaking WaitsEnd DeadlineEndsWaits
CHECK_DEADLOCK FALSE
