\* No symmetry: it is unsound for liveness.
SPECIFICATION FairSpec
CONSTANTS
    Sessions = {s1, s2}
    Txns = {t1, t2}
    Tables = {a}
    Schema = schema
    NoRequest = NoRequest
    NoTxn = NoTxn
    NoTable = NoTable
    NotRead = NotRead
PROPERTIES CallsReturn
CHECK_DEADLOCK FALSE
