---------------------------- MODULE MCTurnStream ----------------------------
(* Instances of TurnStream for TLC. *)
EXTENDS TurnStream

\* Each trouble once, two faults: a reconnect can fail as well.
Troubles == [fault |-> 2, gap |-> 1, probe |-> 1, forget |-> 1, cancel |-> 1]
=============================================================================
