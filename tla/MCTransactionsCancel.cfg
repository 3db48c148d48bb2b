\* One table is enough for a session to wait and to be cancelled.
SPECIFICATION Spec
CONSTANTS
    Sessions = {s1, s2}
    Txns = {t1, t2}
    Tables = {a}
    Schema = schema
    NoRequest = NoRequest
    NoTxn = NoTxn
    NoTable = NoTable
    NotRead = NotRead
CHECK_DEADLOCK FALSE
INVARIANTS CancelWakesWaiter
