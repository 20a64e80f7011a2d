----------------------------- MODULE MCRunStore -----------------------------
(* Instances of RunStore for TLC. *)
EXTENDS RunStore, TLC

CONSTANTS r1, r2, r3, s1, k1, x1, x2, t1, t2, t3, w1, w2, b1, q1

Cmd(id, run, session, key, fp, coord, turn) ==
  [command_id |-> id, run_id |-> run, session_id |-> session,
   idempotency_key |-> key, fingerprint |-> fp, coord |-> coord, turn_id |-> turn]

\* Rivals for two Runs of one session: a Run under two command ids, another Run
\* with the same idempotency key, and an unbound Run that reuses a command id.
Rivals ==
  {Cmd("c1", r1, s1, k1, "f1", x1, t1),
   Cmd("c2", r1, s1, k1, "f1", x1, t1),
   Cmd("c3", r2, s1, k1, "f2", x2, t2),
   Cmd("c1", r3, s1, k1, "f3", NoCoord, t3)}

TwoTargets == {[coord |-> x1, locals |-> {s1}], [coord |-> x2, locals |-> {}]}
=============================================================================
