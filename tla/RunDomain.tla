----------------------------- MODULE RunDomain -----------------------------
(***************************************************************************)
(* The vocabulary of a local Run (agent/domain/runs.py) and the tables     *)
(* that translate it for the store (agent/stores/runs/records.py): the     *)
(* statuses, the legal transitions, the recovery action a status allows    *)
(* after a restart, the status each event kind stands for and the outbox   *)
(* status each Run status is written with.                                 *)
(***************************************************************************)

RunStatus ==
  {"created", "queued", "running", "waiting_approval", "waiting_effect",
   "paused", "completed", "failed", "incomplete", "interrupted",
   "cancelled", "reconciliation_required"}

\* The successors of a status; a status that is not listed has none.
Transitions(s) ==
  CASE s = "created"  -> {"queued"}
    [] s = "queued"   -> {"running", "cancelled", "failed"}
    [] s = "running"  -> {"waiting_approval", "waiting_effect", "paused",
                          "completed", "failed", "incomplete",
                          "interrupted", "cancelled",
                          "reconciliation_required"}
    [] s = "waiting_approval" -> {"running", "cancelled", "failed", "paused"}
    [] s = "waiting_effect"   -> {"running", "cancelled", "failed",
                                  "reconciliation_required"}
    [] s = "paused"   -> {"queued", "cancelled", "failed"}
    [] s = "reconciliation_required" -> {"queued"}
    [] OTHER -> {}

\* RECOVERABLE_RUN_STATUSES: what a restart has to look at.
Recoverable ==
  {"queued", "running", "waiting_approval", "waiting_effect", "paused",
   "reconciliation_required"}

\* Statuses the statement "a Run never leaves its terminal status" is about.
Terminal ==
  {"completed", "failed", "incomplete", "interrupted", "cancelled"}

\* recovery_action: the only thing that may be done with a Run found in a
\* recoverable status after a restart.
RecoveryAction(s) ==
  CASE s = "queued" -> "redispatch"
    [] s = "waiting_approval" -> "wait_approval"
    [] s = "paused" -> "resume"
    [] s \in {"running", "waiting_effect", "reconciliation_required"}
         -> "reconcile"

\* _EVENT_STATUSES: every status but "created" is named by one event kind;
\* "queued" has a second one, written when a reconciled Run is queued again.
EventKinds ==
  {"run_queued", "run_redispatch_queued", "run_started",
   "run_waiting_approval", "run_waiting_effect", "run_paused",
   "run_completed", "run_failed", "run_incomplete", "run_interrupted",
   "run_cancelled", "run_reconciliation_required"}

EventStatus(k) ==
  CASE k \in {"run_queued", "run_redispatch_queued"} -> "queued"
    [] k = "run_started"          -> "running"
    [] k = "run_waiting_approval" -> "waiting_approval"
    [] k = "run_waiting_effect"   -> "waiting_effect"
    [] k = "run_paused"           -> "paused"
    [] k = "run_completed"        -> "completed"
    [] k = "run_failed"           -> "failed"
    [] k = "run_incomplete"       -> "incomplete"
    [] k = "run_interrupted"      -> "interrupted"
    [] k = "run_cancelled"        -> "cancelled"
    [] k = "run_reconciliation_required" -> "reconciliation_required"

\* A mutation of outbox_update: the Run status is written unchanged.
MutOutboxStatus(s) == s

\* outbox_update: the effect status stored with a status the Run advances to.
OutboxStatus(s) ==
  CASE s = "running"   -> "dispatching"
    [] s = "completed" -> "committed"
    [] s \in {"cancelled", "interrupted"} -> "cancelled"
    [] s \in {"failed", "incomplete"}     -> "failed"
    [] OTHER -> s

EffectStatuses ==
  {"pending", "dispatching", "committed", "cancelled", "failed", "queued",
   "waiting_approval", "waiting_effect", "paused",
   "reconciliation_required"}

=============================================================================
