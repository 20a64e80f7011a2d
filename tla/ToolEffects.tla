----------------------------- MODULE ToolEffects -----------------------------
(***************************************************************************)
(* ClientToolCallRunner (agent/harness/tools/client_calls.py): execute()   *)
(* of a client tool call that carries an effect, from the journal's answer *)
(* through the tool and its hooks to the committed outcome, and            *)
(* reconcile_known_effect(), which tells the service an outcome the        *)
(* journal knows.                                                          *)
(*                                                                         *)
(* A task is one of these two coroutines; tasks belong to processes that   *)
(* share the journal file and die one by one.  A journal call runs in a    *)
(* thread: cancelling the task that waits for it, shielded or not, leaves  *)
(* the call to finish later, as a "ghost".  A tool that was started may    *)
(* likewise still take effect after its task was cancelled or has died.    *)
(*                                                                         *)
(* The service is external: it keeps the first resolution of an effect and *)
(* accepts the same one again.                                             *)
(***************************************************************************)
EXTENDS Naturals

CONSTANTS
  Effects, Tasks, Budget, MaxGrants, NoRow, NoPayload, session

\* What execute() can find out about a call: the tool ran, it reported an
\* error (and may have done its work), or a hook denied it before it ran.
Payloads == {"ok", "error", "denied"}

VARIABLES
  row, saved, retired, granted,   \* the journal
  task,       \* every coroutine: where it is, its effect and known outcome
  ghosts,     \* journal calls and tools that nobody waits for
  performed,  \* how often each effect took place
  told,       \* history: <<effect, outcome>> returned by execute()
  settled,    \* external: the resolution the service keeps for the effect
  budget      \* bound: how often each event of the environment happens

Journal == INSTANCE EffectJournal WITH
  Coords <- {session}, Calls <- {}

\* replay_policy is safe or manual.
ASSUME EffectsAssumption ==
  Effects # {} /\ \A e \in Effects : e.replay \in {"safe", "manual"}

ASSUME GrantsAssumption == MaxGrants \in Nat \ {0}

\* What stands for no row and no outcome is none.
ASSUME AbsentAssumption ==
  NoRow \notin Journal!Row /\ NoPayload \notin Payloads \cup {"not_executed"}

journal == <<row, saved, retired, granted>>
vars == <<journal, task, ghosts, performed, told, settled, budget>>

Ids == Journal!Ids

Idle == [at |-> "idle", effect |-> CHOOSE e \in Effects : TRUE, outcome |-> NoPayload]

Init ==
  /\ Journal!Init
  /\ task = [k \in Tasks |-> Idle]
  /\ ghosts = {}
  /\ performed = [i \in Ids |-> 0]
  /\ told = {}
  /\ settled = [i \in Ids |-> NoPayload]
  /\ budget = Budget

Spend(what) == budget[what] > 0 /\ budget' = [budget EXCEPT ![what] = @ - 1]

Goto(k, at) == task' = [task EXCEPT ![k].at = at]
Leave(k) == task' = [task EXCEPT ![k] = Idle]

\* execute() returns outcome o to its caller.
Return(k, o) == Leave(k) /\ told' = told \cup {<<task[k].effect.id, o>>}

-----------------------------------------------------------------------------
Execute(k, e) ==
  /\ task[k].at = "idle" /\ Spend("call")
  /\ task' = [task EXCEPT ![k] = [Idle EXCEPT !.at = "inspect", !.effect = e]]
  /\ UNCHANGED <<journal, ghosts, performed, told, settled>>

\* A mutation: everything but "execute" is answered from the row.
MutFollow(k, decision, next) ==
  \/ decision = "execute" /\ Goto(k, next) /\ UNCHANGED told
  \/ decision # "execute" /\ Return(k, row[task[k].effect.id].result)

\* The journal's answer: another execution's outcome is reused, an uncertain
\* one raises LocalEffectReconciliationRequired, else execution goes on.
Follow(k, decision, next) ==
  \/ decision = "execute" /\ Goto(k, next) /\ UNCHANGED told
  \/ decision = "reuse" /\ Return(k, row[task[k].effect.id].result)
  \/ decision = "reconcile" /\ Leave(k) /\ UNCHANGED told

\* A journal that refuses the effect or cannot be read is reported to the
\* model as a call that was not executed.
Unavailable(k) == Return(k, "not_executed")

\* inspect() looks without taking the right to execute.
Inspect(k) ==
  LET e == task[k].effect IN
  /\ task[k].at = "inspect"
  /\ IF Journal!CanInspect(session, e) THEN Follow(k, Journal!Decision(e), "begin")
     ELSE Unavailable(k)
  /\ UNCHANGED <<journal, ghosts, performed, settled, budget>>

\* A mutation: the earlier answer of inspect is trusted and begin's ignored.
MutBegin(k) ==
  LET e == task[k].effect IN
  /\ task[k].at = "begin"
  /\ IF Journal!CanBegin(session, e)
     THEN Journal!Begin(session, e) /\ Goto(k, "run") /\ UNCHANGED told
     ELSE Unavailable(k) /\ UNCHANGED journal
  /\ UNCHANGED <<ghosts, performed, settled, budget>>

\* begin() decides again and takes the right in the same transaction.
Begin(k) ==
  LET e == task[k].effect IN
  /\ task[k].at = "begin"
  /\ IF Journal!CanBegin(session, e)
     THEN Journal!Begin(session, e) /\ Follow(k, Journal!Decision(e), "run")
     ELSE Unavailable(k) /\ UNCHANGED journal
  /\ UNCHANGED <<ghosts, performed, settled, budget>>

JournalFails(k) ==
  /\ task[k].at \in {"inspect", "begin"} /\ Spend("fault")
  /\ Unavailable(k)
  /\ UNCHANGED <<journal, ghosts, performed, settled>>

\* The pre-tool hook denies the call.
Deny(k) ==
  /\ task[k].at = "run"
  /\ task' = [task EXCEPT ![k].at = "commit", ![k].outcome = "denied"]
  /\ UNCHANGED <<journal, ghosts, performed, told, settled, budget>>

\* The hook lets the call pass and the tool is started; its work may be done
\* at any time from now on.
StartTool(k) ==
  /\ task[k].at = "run"
  /\ Goto(k, "tool")
  /\ UNCHANGED <<journal, ghosts, performed, told, settled, budget>>

Performs(i) == performed' = [performed EXCEPT ![i] = @ + 1]

Perform(k) ==
  /\ task[k].at = "tool"
  /\ Performs(task[k].effect.id) /\ Goto(k, "done")
  /\ UNCHANGED <<journal, ghosts, told, settled, budget>>

\* A mutation: a tool that was only started is reported as ok.
MutRunReturns(k) ==
  /\ task[k].at \in {"tool", "done"}
  /\ \E o \in {"ok", "error"} :
       task' = [task EXCEPT ![k].at = "commit", ![k].outcome = o]
  /\ UNCHANGED <<journal, ghosts, performed, told, settled, budget>>

\* The operation and the post-tool hook return; a tool's own exception is an
\* outcome too.
RunReturns(k) ==
  /\ task[k].at \in {"tool", "done"}
  /\ \E o \in IF task[k].at = "done" THEN {"ok", "error"} ELSE {"error"} :
       task' = [task EXCEPT ![k].at = "commit", ![k].outcome = o]
  /\ UNCHANGED <<journal, ghosts, performed, told, settled, budget>>

\* run_invocation raises: a hook fails, the turn is interrupted.
RunRaises(k) ==
  /\ task[k].at \in {"run", "tool", "done"} /\ Spend("fault")
  /\ Goto(k, "unknown")
  /\ UNCHANGED <<journal, ghosts, performed, told, settled>>

\* A settling write of the journal either happens or raises.
TryCommit(k) ==
  LET t == task[k] IN
  IF Journal!CanSettle(session, t.effect) THEN Journal!Commit(session, t.effect, t.outcome)
  ELSE UNCHANGED journal

TryMarkUnknown(k) ==
  LET t == task[k] IN
  IF Journal!CanSettle(session, t.effect) THEN Journal!MarkUnknown(session, t.effect, t.outcome)
  ELSE UNCHANGED journal

\* The error is recorded without an outcome and raised again.
RecordUnknown(k) ==
  /\ task[k].at = "unknown"
  /\ TryMarkUnknown(k) /\ Leave(k)
  /\ UNCHANGED <<ghosts, performed, told, settled, budget>>

\* The outcome is committed, then returned.
Commit(k) ==
  /\ task[k].at = "commit"
  /\ TryCommit(k)
  /\ IF Journal!CanSettle(session, task[k].effect) THEN Return(k, task[k].outcome)
     ELSE Goto(k, "keep") /\ UNCHANGED told
  /\ UNCHANGED <<ghosts, performed, settled, budget>>

CommitFails(k) ==
  /\ task[k].at = "commit" /\ Spend("fault")
  /\ Goto(k, "keep")
  /\ UNCHANGED <<journal, ghosts, performed, told, settled>>

\* After a failed commit the outcome is kept as a candidate result; another
\* failure here is ignored.
Keep(k) ==
  /\ task[k].at = "keep"
  /\ TryMarkUnknown(k) /\ Goto(k, "submit")
  /\ UNCHANGED <<ghosts, performed, told, settled, budget>>

\* External: a resolution reaches the service.
Acceptable(i, o) == settled[i] \in {NoPayload, o}
Settle(i, o) == settled' = [settled EXCEPT ![i] = IF Acceptable(i, o) THEN o ELSE @]

\* _reconcile_known_outcome: the service is told before the caller.
Submit(k) ==
  LET t == task[k] IN
  /\ t.at = "submit"
  /\ Settle(t.effect.id, t.outcome)
  /\ IF Acceptable(t.effect.id, t.outcome) THEN Goto(k, "recommit") ELSE Leave(k)
  /\ UNCHANGED <<journal, ghosts, performed, told, budget>>

\* The request or its answer is lost, or the task is cancelled meanwhile.
SubmitFails(k) ==
  LET t == task[k] IN
  /\ t.at \in {"submit", "resubmit"} /\ Spend("fault")
  /\ Settle(t.effect.id, t.outcome) \/ UNCHANGED settled
  /\ Leave(k)
  /\ UNCHANGED <<journal, ghosts, performed, told>>

\* The last attempt to commit; the outcome is returned in any case.
Recommit(k) ==
  /\ task[k].at = "recommit"
  /\ TryCommit(k) /\ Return(k, task[k].outcome)
  /\ UNCHANGED <<ghosts, performed, settled, budget>>

-----------------------------------------------------------------------------
\* reconcile_known_effect: the journal's known result is submitted.
ReconcileKnown(k, e) ==
  /\ task[k].at = "idle" /\ Spend("call")
  /\ Journal!CanReconcile(session, e.id)
  /\ task' = [task EXCEPT ![k] = [at |-> "resubmit", effect |-> e,
                                  outcome |-> Journal!ReconciliationResult(e.id)]]
  /\ UNCHANGED <<journal, ghosts, performed, told, settled>>

Resubmit(k) ==
  LET t == task[k] IN
  /\ t.at = "resubmit"
  /\ Settle(t.effect.id, t.outcome)
  /\ IF Acceptable(t.effect.id, t.outcome) THEN Goto(k, "mark") ELSE Leave(k)
  /\ UNCHANGED <<journal, ghosts, performed, told, budget>>

\* mark_reconciled; a failure is only logged.
Mark(k) ==
  LET i == task[k].effect.id IN
  /\ task[k].at = "mark"
  /\ IF Journal!CanReconcile(session, i) THEN Journal!MarkReconciled(session, i)
     ELSE UNCHANGED journal
  /\ Leave(k)
  /\ UNCHANGED <<ghosts, performed, told, settled, budget>>

\* A settling write raises where its failure is ignored or only logged.
WriteFails(k) ==
  /\ Spend("fault")
  /\ \/ task[k].at \in {"unknown", "mark"} /\ Leave(k) /\ UNCHANGED told
     \/ task[k].at = "keep" /\ Goto(k, "submit") /\ UNCHANGED told
     \/ task[k].at = "recommit" /\ Return(k, task[k].outcome)
  /\ UNCHANGED <<journal, ghosts, performed, settled>>

-----------------------------------------------------------------------------
\* The call the task is waiting for goes on without it.
Ghost(k, do) == ghosts' = ghosts \cup {[do |-> do, effect |-> task[k].effect,
                                        outcome |-> task[k].outcome, task |-> k]}

\* CancelledError at the await the task is in.
Cancel(k) ==
  /\ Spend("cancel")
  /\ \/ /\ task[k].at = "inspect" /\ Leave(k)
        /\ UNCHANGED <<ghosts, told>>
     \/ /\ task[k].at = "begin" /\ Leave(k)
        /\ Ghost(k, "begin") /\ UNCHANGED told
     \/ /\ task[k].at \in {"run", "done"} /\ Goto(k, "unknown")
        /\ UNCHANGED <<ghosts, told>>
     \/ /\ task[k].at = "tool" /\ Goto(k, "unknown")
        /\ Ghost(k, "perform") /\ UNCHANGED told
     \/ /\ task[k].at = "unknown" /\ Leave(k)
        /\ Ghost(k, "unknown") /\ UNCHANGED told
     \/ /\ task[k].at = "commit" /\ Leave(k)
        /\ Ghost(k, "commit") /\ UNCHANGED told
     \/ /\ task[k].at = "keep" /\ Goto(k, "submit")
        /\ Ghost(k, "unknown") /\ UNCHANGED told
     \/ /\ task[k].at = "recommit" /\ Return(k, task[k].outcome)
        /\ Ghost(k, "commit")
     \/ /\ task[k].at = "mark" /\ Leave(k)
        /\ Ghost(k, "mark") /\ UNCHANGED told
  /\ UNCHANGED <<journal, performed, settled>>

\* The thread of an abandoned call, or the tool, finishes.
GhostEnds(g) ==
  LET e == g.effect IN
  /\ ghosts' = ghosts \ {g}
  /\ \/ /\ g.do = "perform" /\ Performs(e.id)
        /\ UNCHANGED journal
     \/ /\ g.do = "begin"
        /\ IF Journal!CanBegin(session, e) THEN Journal!Begin(session, e) ELSE UNCHANGED journal
        /\ UNCHANGED performed
     \/ /\ g.do = "unknown"
        /\ IF Journal!CanSettle(session, e) THEN Journal!MarkUnknown(session, e, g.outcome)
           ELSE UNCHANGED journal
        /\ UNCHANGED performed
     \/ /\ g.do = "commit"
        /\ IF Journal!CanSettle(session, e) THEN Journal!Commit(session, e, g.outcome)
           ELSE UNCHANGED journal
        /\ UNCHANGED performed
     \/ /\ g.do = "mark"
        /\ IF Journal!CanReconcile(session, e.id) THEN Journal!MarkReconciled(session, e.id)
           ELSE UNCHANGED journal
        /\ UNCHANGED performed
  /\ UNCHANGED <<task, told, settled, budget>>

\* The process of the task dies; a tool it has started may live on.
Crash(k) ==
  /\ task[k].at # "idle" /\ Spend("crash")
  /\ Leave(k)
  /\ ghosts' = {g \in ghosts : g.task # k \/ g.do = "perform"}
               \cup (IF task[k].at # "tool" THEN {}
                     ELSE {[do |-> "perform", effect |-> task[k].effect,
                            outcome |-> NoPayload, task |-> k]})
  /\ UNCHANGED <<journal, performed, told, settled>>

\* The session is deleted under the running calls.
Delete ==
  /\ Spend("delete")
  /\ Journal!DeleteSessions({session})
  /\ UNCHANGED <<task, ghosts, performed, told, settled>>

TaskStep(k) ==
  \/ Inspect(k) \/ Begin(k) \/ JournalFails(k) \/ Deny(k) \/ StartTool(k) \/ Perform(k)
  \/ RunReturns(k) \/ RunRaises(k) \/ RecordUnknown(k) \/ Commit(k) \/ CommitFails(k)
  \/ Keep(k) \/ Submit(k) \/ SubmitFails(k) \/ Recommit(k) \/ Resubmit(k) \/ Mark(k)
  \/ WriteFails(k)

Next ==
  \/ \E k \in Tasks, e \in Effects : Execute(k, e) \/ ReconcileKnown(k, e)
  \/ \E k \in Tasks : TaskStep(k) \/ Cancel(k) \/ Crash(k)
  \/ \E g \in ghosts : GhostEnds(g)
  \/ Delete

Spec == Init /\ [][Next]_vars

-----------------------------------------------------------------------------
\* Type correctness of the volatile state.
TypeOK ==
  /\ \A k \in Tasks :
       /\ task[k].at \in {"idle", "inspect", "begin", "run", "tool", "done", "unknown", "commit",
                          "keep", "submit", "recommit", "resubmit", "mark"}
       /\ task[k].effect \in Effects
       /\ task[k].outcome \in Payloads \cup {NoPayload}
  /\ told \subseteq Ids \X (Payloads \cup {"not_executed"})
  /\ settled \in [Ids -> Payloads \cup {NoPayload}]

\* A manual effect takes place at most once, over all calls for it: retries,
\* concurrent calls of two processes, late tools of cancelled calls, crashes
\* at any point and deletion of the session (execute, begin).
PerformedOnce == \A i \in Ids : Journal!Manual(i) => performed[i] <= 1

\* The outcomes anybody knows of effect i.
Known(i) == ({o \in Payloads : <<i, o>> \in told} \cup {settled[i]}
              \cup (IF Journal!HasRow(i) THEN {row[i].result} ELSE {})) \ {NoPayload}

\* Whoever learns the outcome of a manual effect, the caller, the service or
\* the journal, learns the same one, and a true one: ok only if it took
\* place, denied only if it did not (commit, _reconcile_known_outcome).
OutcomesAgree ==
  \A i \in Ids : Journal!Manual(i) =>
    /\ \A o, p \in Known(i) : o = p
    /\ "ok" \in Known(i) => performed[i] > 0
    /\ "denied" \in Known(i) => performed[i] = 0
=============================================================================
