---------------------------- MODULE MCTransactions ----------------------------
(* Small instances of Transactions for TLC. *)
EXTENDS Transactions, TLC

\* Sessions are interchangeable; so are transactions, and tables.
Symmetry == Permutations(Sessions) \union Permutations(Txns) \union Permutations(Tables)
=============================================================================
