-------------------------- MODULE MCApprovalQueue --------------------------
(* Instances of ApprovalQueue for TLC. *)
EXTENDS ApprovalQueue

CONSTANTS c1, c2, c3

Bothers == [restore |-> 1, cancel |-> 2, resolve |-> 1, close |-> 1, error |-> 1]
=============================================================================
