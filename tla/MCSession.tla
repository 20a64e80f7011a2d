----------------------------- MODULE MCSession -----------------------------
(* Instances of SessionRecovery for TLC: one local session, Runs that are   *)
(* turns of the remote service, turns without a remote identity or Reviews. *)
EXTENDS SessionRecovery, TLC

CONSTANTS turn1, turn2, local1, review1, k1, k2, x1

Cmd(r, coord) ==
  [command_id |-> r, run_id |-> r, session_id |-> "session", idempotency_key |-> r,
   fingerprint |-> r, coord |-> coord, turn_id |-> r]

TurnAndLocal  == {Cmd(turn1, x1), Cmd(local1, NoCoord)}
TurnAndReview == {Cmd(turn1, x1), Cmd(review1, x1)}
TwoTurns      == {Cmd(turn1, x1), Cmd(turn2, x1)}
OneReview     == {Cmd(review1, x1)}

Times(call, stop, crash, fault) ==
  [call |-> call, stop |-> stop, crash |-> crash, fault |-> fault]

EachTrouble   == Times(2, 2, 1, 1)
CrashOnly     == Times(2, 0, 1, 0)
StopAmongThree == Times(3, 1, 0, 0)
OneCrash      == Times(1, 0, 1, 0)
=============================================================================
