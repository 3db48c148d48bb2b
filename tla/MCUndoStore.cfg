\* Three transactions on two tables, two of which may be captured at a time; a
\* transaction may reserve both tables, all of them together only two.  An owner
\* that is refused stops: require_clean asks for external inspection.
SPECIFICATION Spec
CONSTANTS
    Txns = {t1, t2, t3}
    Tables = {a, b}
    NoTxn = NoTxn
    NoTable = NoTable
    PerTransaction = 2
    Total = 2
    CaptureSlots = 2
SYMMETRY Symmetry
INVARIANTS WritesLeaveEvidence ImagesAreThere AccountsBalance
PROPERTIES OpensCommitted
CHECK_DEADLOCK FALSE
