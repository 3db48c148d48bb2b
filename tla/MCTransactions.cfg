\* Two sessions and two tables; two transactions, so that both can overlap, and
\* either session may run both.  The system stops when no identity is left.
SPECIFICATION Spec
CONSTANTS
    Sessions = {s1, s2}
    Txns = {t1, t2}
    Tables = {a, b}
    Schema = schema
    NoRequest = NoRequest
    NoTxn = NoTxn
    NoTable = NoTable
    NotRead = NotRead
SYMMETRY Symmetry
CHECK_DEADLOCK FALSE
INVARIANTS EffectsAreLocked UsersFindTablesOpen ReportsAreTrue
PROPERTIES ReleasedWhenSettled Serializable
