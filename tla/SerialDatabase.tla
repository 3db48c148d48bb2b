---------------------------- MODULE SerialDatabase ----------------------------
(***************************************************************************)
(* What the transaction layer promises (docs/transactions.md): the tables  *)
(* change only when a transaction commits, all its tables at once, and     *)
(* whatever it had read is still the state of the database at that point,  *)
(* so that committed transactions are serial in the order of their commits.*)
(*                                                                         *)
(* The contents of a table are the set of transactions whose writes it     *)
(* contains.                                                               *)
(***************************************************************************)
CONSTANTS Txns, Tables,
          NotRead    \* not a set of transactions

VARIABLES
    db,        \* the committed contents of every table
    outcome,   \* "running", "committed", "aborted", or "failed": the database
               \*   is quarantined with the transaction's before-images kept
    view,      \* what a transaction found in a table, or NotRead
    wrote      \* the tables a transaction writes

serialVars == <<db, outcome, view, wrote>>

SerialInit ==
    /\ db = [r \in Tables |-> {}]
    /\ outcome = [t \in Txns |-> "running"]
    /\ view = [t \in Txns |-> [r \in Tables |-> NotRead]]
    /\ wrote = [t \in Txns |-> {}]

\* A read finds the committed contents, and the same contents every time.
Read(t, r) ==
    /\ outcome[t] = "running"
    /\ view[t][r] \in {NotRead, db[r]}
    /\ view' = [view EXCEPT ![t][r] = db[r]]
    /\ UNCHANGED <<db, outcome, wrote>>

Touch(t, r) ==
    /\ outcome[t] = "running"
    /\ wrote' = [wrote EXCEPT ![t] = @ \union {r}]
    /\ UNCHANGED <<db, outcome, view>>

\* A finished transaction reads no more; what it read is forgotten.
End(t, o) ==
    /\ outcome' = [outcome EXCEPT ![t] = o]
    /\ view' = [view EXCEPT ![t] = [r \in Tables |-> NotRead]]
    /\ UNCHANGED wrote

Commit(t) ==
    /\ outcome[t] = "running"
    /\ \A r \in Tables : view[t][r] \in {NotRead, db[r]}
    /\ db' = [r \in Tables |-> IF r \in wrote[t] THEN db[r] \union {t} ELSE db[r]]
    /\ End(t, "committed")

Abort(t) ==
    /\ outcome[t] = "running"
    /\ End(t, "aborted") \/ End(t, "failed")
    /\ UNCHANGED db

SerialNext ==
    \E t \in Txns : Commit(t) \/ Abort(t) \/ \E r \in Tables : Read(t, r) \/ Touch(t, r)

SerialSpec == SerialInit /\ [][SerialNext]_serialVars
=============================================================================
