------------------------------ MODULE MCService -------------------------------
(* A small instance of Service for TLC.  Its scenarios: much asked of one client   *)
(* session, two of them, a service that is stopped twice, a change that a stop      *)
(* meets, and three changes in a process that may end.                              *)
EXTENDS Service

Scenario(opens, calls, changes, asks, stops, ends) ==
  [opens |-> opens, calls |-> calls, changes |-> changes, asks |-> asks, stops |-> stops,
   ends |-> ends]
MCScenarios ==
  {Scenario(1, 2, 0, 3, 1, 0), Scenario(2, 2, 0, 1, 1, 0), Scenario(0, 1, 0, 0, 2, 0),
   Scenario(0, 2, 1, 0, 1, 0), Scenario(0, 3, 3, 0, 0, 1)}
=============================================================================
