---------------------------- MODULE MCLockManager ----------------------------
(* Small instances of LockManager for TLC.  Transactions are interchangeable, *)
(* and so are tables, but the run checks liveness, where symmetry is unsound. *)
EXTENDS LockManager
=============================================================================
