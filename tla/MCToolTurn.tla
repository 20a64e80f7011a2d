----------------------------- MODULE MCToolTurn -----------------------------
(* Instances of ToolTurn for TLC. *)
EXTENDS ToolTurn, TLC

CONSTANTS c1, c2

TwoCalls == {c1, c2}
OneAsk   == {c1}

Troubles == [fault |-> 2, close |-> 1, crash |-> 2, interrupt |-> 1]
=============================================================================
