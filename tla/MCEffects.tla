------------------------------ MODULE MCEffects ------------------------------
(* Instances of EffectJournal for TLC. *)
EXTENDS EffectJournal, TLC

CONSTANTS manual1, safe1, x1, x2, f1, f2, call1, p1, p2

Intent(i, f, r) == [id |-> i, fingerprint |-> f, replay |-> r]

\* A manual effect, the same id with another meaning, and a safe effect.
Intents == {Intent(manual1, f1, "manual"), Intent(manual1, f2, "manual"),
            Intent(safe1, f1, "safe")}
=============================================================================
