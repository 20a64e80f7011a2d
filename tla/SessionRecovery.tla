-------------------------- MODULE SessionRecovery --------------------------
(***************************************************************************)
(* A session together with the flow that clears its recovery gate:         *)
(* TurnApplication.reconcile_remote_session and resolve_observed_recovery  *)
(* (agent/application/turns/commands.py), run by the terminal front end    *)
(* between two turns (frontends/tui/session/loop.py).                      *)
(*                                                                         *)
(* The flow reads the unfinished Runs, asks the service about each one and *)
(* stores a decision, queues a Review again, or leaves the turn to be      *)
(* observed to its end afterwards.  Between the service's answer and the   *)
(* decision abandoned writes, workers and late submissions may run.        *)
(***************************************************************************)
EXTENDS SessionLoop

\* The recovery flow: its stage, the snapshots it still has to look at, the
\* one the service was asked about, and the Runs to observe.
VARIABLE rec

allvars == <<vars, rec>>

NoRecovery == [at |-> "idle", todo |-> {}, snapshot |-> Nobody, seen |-> "none",
               observe |-> {}]

Init == LoopInit /\ rec = NoRecovery

Snapshot(r) == [run |-> r, status |-> status[r], sequence |-> sequence[r]]

\* A loop that has just read its recoveries.
WithGate(obj, g) == [obj EXCEPT !.mode = "open", !.ready = TRUE, !.gate = g, !.gateFailed = FALSE]

\* recover_session of the owner: a live loop refreshes its own gate.
RefreshOwner ==
  IF owner = 0 THEN UNCHANGED loop
  ELSE \E g \in Gates : loop' = [loop EXCEPT ![owner] = WithGate(@, g)]

\* A mutation: the flow is started without waiting for the turn to end.
MutBetweenTurns == TRUE

\* The front end is between two turns.
BetweenTurns == \A k \in Callers : caller[k].at = "idle"

RecoverBegin ==
  /\ rec.at = "idle" /\ BetweenTurns
  /\ Store!RecoverSession(Session) # {}
  /\ rec' = [NoRecovery EXCEPT !.at = "next",
                               !.todo = {Snapshot(r) : r \in Store!RecoverSession(Session)}]
  /\ RefreshOwner
  /\ UNCHANGED <<store, owner, caller, ghosts, external, budget>>

\* The flow is done with snapshot x.
Done(x) == [rec EXCEPT !.at = "next", !.todo = @ \ {x}, !.snapshot = Nobody, !.seen = "none"]

\* resolve_recovery; when the store refuses, the error ends the whole flow.
Decide(r, request, resolution, next) ==
  IF status[r] \in Recoverable /\ decision[r] = NoDecision
  THEN /\ Store!ResolveRecovery(r, [request |-> request, resolution |-> resolution])
       /\ rec' = next
  ELSE UNCHANGED store /\ rec' = NoRecovery

\* A queued Run never started: a turn goes back to the editor, a Review is
\* submitted again by the front end.
RecoverQueued(x) ==
  /\ x.status = "queued"
  /\ IF x.run \in Reviews THEN UNCHANGED store /\ rec' = Done(x)
     ELSE Decide(x.run, "not_executed", "not_executed", Done(x))
  /\ UNCHANGED <<loop, owner, caller, ghosts, external, budget>>

\* A started Run without any remote identity can only be failed.
RecoverUnbound(x) ==
  /\ x.status # "queued" /\ ~Bound(x.run)
  /\ Decide(x.run, "unbound", "failed", Done(x))
  /\ UNCHANGED <<loop, owner, caller, ghosts, external, budget>>

\* get_turn_status answers with what the service knows at that moment.
AskServer(x) ==
  /\ x.status # "queued" /\ Bound(x.run)
  /\ rec' = [rec EXCEPT !.at = "asked", !.snapshot = x, !.seen = server[x.run]]
  /\ UNCHANGED <<store, loop, owner, caller, ghosts, external, budget>>

\* An error that is no 404 leaves the Run for the next attempt.
ServerUnreachable(x) ==
  /\ x.status # "queued" /\ Bound(x.run)
  /\ Spend("fault")
  /\ rec' = Done(x)
  /\ UNCHANGED <<store, loop, owner, caller, ghosts, external>>

\* 404 for a turn: it was not executed and its input goes back to the user.
MissingTurn ==
  LET x == rec.snapshot IN
  /\ rec.at = "asked" /\ rec.seen = "absent" /\ x.run \notin Reviews
  /\ Decide(x.run, "not_executed", "not_executed", Done(x))
  /\ UNCHANGED <<loop, owner, caller, ghosts, external, budget>>

\* requeue_recovery accepts only the snapshot it was shown, and only in
\* reconciliation_required.
Requeueable(x) ==
  /\ sequence[x.run] = x.sequence
  /\ x.status = "reconciliation_required"
  /\ status[x.run] = "reconciliation_required"

\* 404 for a Review: the session's loop queues the same Run again and
\* refreshes its gate, or the flow ends with a conflict.  MaxSequence bounds
\* how often: the next execution of the Run has to fit.
MissingReview ==
  LET x == rec.snapshot IN
  /\ rec.at = "asked" /\ rec.seen = "absent" /\ x.run \in Reviews
  /\ x.sequence + EventsPerDispatch <= MaxSequence
  /\ \E l \in Loops :
       LET e == NewEvent(l, "recovery", "run_redispatch_queued", x.sequence + 1) IN
       /\ SessionFor(l)
       /\ owner' = l
       /\ \/ /\ Requeueable(x) /\ Store!Accepts(CommandOf(x.run), e)
             /\ Write(x.run, e)
             /\ rec' = Done(x)
             /\ \E g \in Gates' : loop' = [loop EXCEPT ![l] = WithGate(@, g)]
          \/ /\ ~Requeueable(x) \/ ~Store!Accepts(CommandOf(x.run), e)
             /\ UNCHANGED store
             /\ rec' = NoRecovery
             /\ \E g \in Gates :
                  loop' = [loop EXCEPT ![l] = IF @.ready THEN @ ELSE WithGate(@, g)]
  /\ UNCHANGED <<caller, ghosts, external, budget>>

\* A mutation: a turn that is still known is never observed.
MutKnownTurn ==
  /\ rec.at = "asked" /\ rec.seen # "absent"
  /\ rec' = Done(rec.snapshot)
  /\ UNCHANGED <<store, loop, owner, caller, ghosts, external, budget>>

\* The service knows the turn: with a frozen request it is observed later,
\* without one only a terminal answer decides.
KnownTurn ==
  LET x == rec.snapshot IN
  /\ rec.at = "asked" /\ rec.seen # "absent"
  /\ IF remote[x.run] # NoRemote
     THEN rec' = [Done(x) EXCEPT !.observe = @ \cup {x.run}] /\ UNCHANGED store
     ELSE IF rec.seen = "running" THEN rec' = Done(x) /\ UNCHANGED store
     ELSE Decide(x.run, "remote", IF rec.seen = "completed" THEN "committed" ELSE "failed",
                 Done(x))
  /\ UNCHANGED <<loop, owner, caller, ghosts, external, budget>>

\* The second recover_session of the flow, before the turns are observed.
RecoverEnd ==
  /\ rec.at = "next" /\ rec.todo = {}
  /\ rec' = IF rec.observe = {} THEN NoRecovery ELSE [rec EXCEPT !.at = "observe"]
  /\ RefreshOwner
  /\ UNCHANGED <<store, owner, caller, ghosts, external, budget>>

\* resolve_observed_recovery: the turn was followed to its terminal event.
ObserveTurn(r) ==
  LET rest == rec.observe \ {r} IN
  /\ server[r] \in {"completed", "failed"}
  /\ Decide(r, "observed", IF server[r] = "completed" THEN "committed" ELSE "failed",
            IF rest = {} THEN NoRecovery ELSE [rec EXCEPT !.observe = rest])
  /\ UNCHANGED <<loop, owner, caller, ghosts, external, budget>>

\* A broken observation ends the attempt.
ObservationFails ==
  /\ rec.at = "observe"
  /\ Spend("fault")
  /\ rec' = NoRecovery
  /\ UNCHANGED <<store, loop, owner, caller, ghosts, external>>

RecoveryStep ==
  \/ RecoverBegin \/ RecoverEnd
  \/ /\ rec.at = "next"
     /\ \E x \in rec.todo : RecoverQueued(x) \/ RecoverUnbound(x) \/ AskServer(x)
  \/ MissingTurn \/ MissingReview \/ KnownTurn
  \/ /\ rec.at = "observe"
     /\ \E r \in rec.observe : ObserveTurn(r)

RecoveryFails ==
  \/ /\ rec.at = "next"
     /\ \E x \in rec.todo : ServerUnreachable(x)
  \/ ObservationFails

\* While the flow runs the front end submits nothing, and what it handed back
\* to the user returns, if at all, as a new command.
Submission(k, r) == rec.at = "idle" /\ decision[r] = NoDecision /\ Call(k, r)

Next ==
  \/ (\E k \in Callers, r \in Runs : Submission(k, r)) /\ UNCHANGED rec
  \/ Background /\ UNCHANGED rec
  \/ Crash /\ rec' = NoRecovery
  \/ RecoveryStep \/ RecoveryFails

Spec == Init /\ [][Next]_allvars

\* Coroutines and threads that can run do run; the service handles what it
\* receives; an unfinished Run makes the front end start the flow.  Nothing
\* is assumed of submissions, cancellations, closes, crashes and faults.
Fairness ==
  /\ \A k \in Callers : WF_allvars(CallerStep(k) /\ UNCHANGED rec)
  /\ \A l \in Loops : WF_allvars(LoopStep(l) /\ UNCHANGED rec)
  /\ \A r \in Runs : WF_allvars(ServerStep(r) /\ UNCHANGED rec)
  /\ WF_allvars((\E g \in ghosts : GhostWrite(g)) /\ UNCHANGED rec)
  /\ WF_allvars(RecoveryStep)

FairSpec == Spec /\ Fairness

-----------------------------------------------------------------------------
\* Type correctness of the volatile state.
TypeOK ==
  /\ owner \in {0} \cup Loops
  /\ \A l \in Loops :
       /\ loop[l].mode \in {"unborn", "open", "draining", "drained", "cancelling", "broken",
                            "closed", "dead"}
       /\ \A i \in 1..Len(loop[l].queue) : loop[l].queue[i] \in Runs \cup {Stop}
       /\ \A r \in Runs : /\ loop[l].future[r] \in {"none", "pending", "done", "cancelled"}
                          /\ loop[l].actor[r] \in [status : RunStatus, sequence : 0..MaxSequence]
  /\ \A k \in Callers : caller[k].at \in {"idle", "init", "lock", "lookup", "enqueue", "wait",
                                          "cancel", "closing"}
  /\ \A g \in ghosts : g.run \in Runs /\ g.event \in Store!Event
  /\ wire \subseteq Runs

\* The worker of l is inside RunActor.run with the Run started.
Active(l) == loop[l].worker.at \in {"exec", "frozen", "posted", "settle", "abort"}

\* A Run that may have had effects and whose outcome nobody has settled.
Uncertain(r) == status[r] \in {"running", "reconciliation_required"} /\ decision[r] = NoDecision

\* Loop l is the owner's, or is being closed by a submission that waits for
\* it.  The others are closed, or close_session left them to drain.
Kept(l) == loop[l].mode \in {"open", "cancelling"}

\* The copy of the gate in the owner's loop object o lets work through.
Admits(o) == o.mode = "open" /\ o.ready /\ ~o.gateFailed /\ ~o.gate.blocked

\* The uncertain Runs that such a gate does not know of.
Hidden(l) == {q \in Runs \ {loop[l].worker.run} : Admits(loop[l]) /\ Uncertain(q)}

\* The start of q that a cancelled worker had given up commits after all.
StartCommitsLate(q) ==
  \E g \in ghosts \ ghosts' : g.run = q /\ g.event.kind = "run_started"

\* q begins in a loop that close_session left behind.
StartsUnkept(q) ==
  \E m \in Loops : ~Kept(m) /\ loop[m].worker.run = q /\ ~Active(m) /\ Active(m)'

\* Nothing is dispatched beside an uncertain Run that could be known.  A
\* worker somebody answers for begins to execute only while its loop's gate
\* lets work through, and this copy, read at the end of the last Run or by
\* the recovery flow, misses an uncertain Run only if that Run was started
\* since by an abandoned write or by a loop left to drain: not across a
\* crash, a cancellation, a new loop, a requeue or a failed refresh
\* (_refresh_recoveries, _recovery_blocks).
UncertainBlocksDispatch ==
  [][\A l \in Loops :
       /\ Kept(l) /\ ~Active(l) /\ Active(l)' => Admits(loop[l])
       /\ \A q \in Hidden(l)' \ Hidden(l) : StartCommitsLate(q) \/ StartsUnkept(q)]_allvars

\* While a worker executes a Run, the store says running at the sequence the
\* actor remembers: the actor is the only writer of its Run
\* (RunActor._transition).  And unless close_session left the loop to drain,
\* nobody has decided the Run's recovery meanwhile.
ActiveRunIsDurable ==
  \A l \in Loops : Active(l) =>
    LET r == loop[l].worker.run IN
    /\ status[r] = "running"
    /\ loop[l].actor[r] = [status |-> "running", sequence |-> sequence[r]]
    /\ Kept(l) => decision[r] = NoDecision

\* Whatever the service knows of a Run, or may still receive, was preceded
\* by a durable run_started and a frozen request: recovery can always find
\* the turn it has to ask about (record_remote_request).
SentOnlyIfRecorded ==
  \A r \in Runs : (r \in wire \/ server[r] # "absent") =>
    remote[r] # NoRemote /\ outbox[r].attempts > 0

\* When every submission has returned, also by way of cancel_session, no
\* loop that somebody answers for runs or holds anything
\* (close(cancel_running=True)).
QuietWhenIdle ==
  BetweenTurns => \A l \in Loops : Kept(l) => ~Active(l) /\ loop[l].queue = << >>

\* At most one Run of the session is executed at a time, over all the loop
\* objects that exist (SessionRuntimeOwner, "each session has one writer").
OneActiveRun == Cardinality({l \in Loops : Active(l)}) <= 1

\* Every submission is answered (SessionLoop.execute).
EveryCallerAnswered ==
  \A k \in Callers : (caller[k].at # "idle") ~> (caller[k].at = "idle")

\* Every uncertain Run is settled by the recovery flow or by the service.
UncertainIsSettled == \A r \in Runs : Uncertain(r) ~> ~Uncertain(r)
=============================================================================
