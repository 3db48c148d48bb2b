----------------------------- MODULE MCUndoStore -----------------------------
(* Small instances of UndoStore for TLC. *)
EXTENDS UndoStore, TLC

\* Transactions are interchangeable, and so are tables.
Symmetry == Permutations(Txns) \union Permutations(Tables)
=============================================================================
