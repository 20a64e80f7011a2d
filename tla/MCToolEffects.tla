---------------------------- MODULE MCToolEffects ----------------------------
(* Instances of ToolEffects for TLC. *)
EXTENDS ToolEffects, TLC

CONSTANTS manual1, safe1, k1, k2

Intent(i, r) == [id |-> i, fingerprint |-> i, replay |-> r]

Both == {Intent(manual1, "manual"), Intent(safe1, "safe")}

Times(call, cancel, crash, fault, delete) ==
  [call |-> call, cancel |-> cancel, crash |-> crash, fault |-> fault, delete |-> delete]

Troubles == Times(3, 1, 1, 2, 1)

Symmetric == Permutations({k1, k2})
=============================================================================
