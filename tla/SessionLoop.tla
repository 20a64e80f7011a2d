---------------------------- MODULE SessionLoop ----------------------------
(***************************************************************************)
(* The execution of the Runs of one local session: SessionRuntimeOwner     *)
(* (agent/harness/sessions/owner.py) hands each caller a SessionLoop       *)
(* (loop.py), whose single worker takes Runs from a queue and drives a     *)
(* RunActor (agent/harness/execution/actor.py) that writes every status to *)
(* the Run store before it changes its own memory.                         *)
(*                                                                         *)
(* Everything runs as coroutines of one event loop, so a step here is what *)
(* happens between two awaits.  Store calls run in a thread: cancelling    *)
(* the waiting coroutine does not stop the transaction, so an abandoned    *)
(* write becomes a "ghost" that commits later or never.  A write that is   *)
(* not abandoned commits and resumes its coroutine in one step.  (A freeze *)
(* of the remote request that is cancelled is taken as never written.)     *)
(*                                                                         *)
(* Several SessionLoop objects of the session can exist: the owner forgets *)
(* a loop before it is closed and makes a new one for the next caller.     *)
(* The remote server is external: it knows a turn or does not.             *)
(***************************************************************************)
EXTENDS RunDomain, Integers, Sequences, FiniteSets

CONSTANTS
  Commands,     \* commands of the one session, see RunStore
  Reviews,      \* the Runs submitted by a SubmitReviewCommand
  Callers,      \* concurrent tasks in TurnApplication.submit
  MaxLoops,     \* bound: SessionLoop objects created over all processes
  MaxSequence, MaxRevision,
  Budget,       \* bound: how often each event of the environment happens
  NoCoord, NoCommand, NoDecision, NoRemote, Stop, Nobody

Loops == 1..MaxLoops

\* Who creates events: a submitting caller, a worker, a closing loop or the
\* recovery flow, each within one SessionLoop object.
Writers == Loops \X (Callers \cup {"worker", "close", "recovery"})

Requests == {"not_executed", "unbound", "remote", "observed"}

VARIABLES
  command, status, sequence, effect, events, outbox, decision, remote,
  retired, acked,   \* the Run store
  loop,      \* every SessionLoop object
  owner,     \* the loop the owner hands out, 0 when there is none
  caller,    \* every submitting task
  ghosts,    \* abandoned store writes still in their thread
  server,    \* external: what the remote service knows of each Run's turn
  wire,      \* external: submissions on their way to the service
  budget

Store == INSTANCE RunStore WITH
  Bodies <- {"frozen"}, Targets <- {}

store == <<command, status, sequence, effect, events, outbox, decision,
           remote, retired, acked>>
external == <<server, wire>>
vars == <<store, loop, owner, caller, ghosts, external, budget>>

Runs    == Store!Runs
Session == CHOOSE s \in Store!Sessions : TRUE
CommandOf(r) == CHOOSE c \in Commands : c.run_id = r

\* remote_turn_binding: the command names a turn of the remote service.
Bound(r) == CommandOf(r).coord # NoCoord

\* queued, running and the event that ends the execution.
EventsPerDispatch == 3

\* What the store assumes, for this session.
ASSUME StoreAssumption ==
  /\ \A c \in Commands : NoCommand # c
  /\ \A c, d \in Commands : c.fingerprint = d.fingerprint => Store!FieldsAgree(c, d)
  /\ NoDecision \notin Store!Decision /\ NoRemote \notin Store!RemoteRequest
  /\ MaxRevision \in Nat \ {0}

\* The commands are those of one session.
ASSUME SessionAssumption == \A c, d \in Commands : c.session_id = d.session_id

\* The first execution fits below the bound.
ASSUME BoundsAssumption ==
  MaxLoops \in Nat /\ MaxSequence \in Nat /\ EventsPerDispatch <= MaxSequence

\* The marks are neither Runs nor callers.
ASSUME MarkAssumption == {Stop, Nobody} \cap Runs = {} /\ Nobody \notin Callers

Spend(what) == budget[what] > 0 /\ budget' = [budget EXCEPT ![what] = @ - 1]

-----------------------------------------------------------------------------
Worker(at, r, next) == [at |-> at, run |-> r, next |-> next]
NoWorker    == Worker("none", Nobody, "none")
IdleWorker  == Worker("idle", Nobody, "none")
EndedWorker == Worker("ended", Nobody, "none")

\* A gate that blocks nothing: no uncertain Run, no queued Run that is first.
OpenGate == [blocked |-> FALSE, first |-> Nobody]

\* The object SessionLoop.__init__ builds.
NewLoop ==
  [mode |-> "unborn", ready |-> FALSE, gate |-> OpenGate, gateFailed |-> FALSE,
   queue |-> << >>, lock |-> Nobody, worker |-> NoWorker,
   future |-> [r \in Runs |-> "none"],
   actor |-> [r \in Runs |-> [status |-> "created", sequence |-> 0]]]

Idle == [at |-> "idle", run |-> Nobody, loop |-> 0]

LoopInit ==
  /\ Store!Init
  /\ loop = [l \in Loops |-> NewLoop]
  /\ owner = 0
  /\ caller = [k \in Callers |-> Idle]
  /\ ghosts = {}
  /\ server = [r \in Runs |-> "absent"]
  /\ wire = {}
  /\ budget = Budget

-----------------------------------------------------------------------------
NewEvent(l, who, kind, n) == [sequence |-> n, kind |-> kind, writer |-> <<l, who>>]

\* The event kind an actor names a status with.
KindOf(s) == CHOOSE k \in EventKinds : EventStatus(k) = s /\ k # "run_redispatch_queued"

\* The event RunActor._transition creates for the actor's next status.
ActorEvent(l, who, r, s) == NewEvent(l, who, KindOf(s), loop[l].actor[r].sequence + 1)

Write(r, e) == Store!AppendEvent(CommandOf(r), e)

\* A mutation of the gate: the recoveries are never looked at.
MutGates == {OpenGate}

\* What recover_session lets the gate see.  It sorts by updated_at, a wall
\* clock reading in milliseconds, so which queued Run comes first is left
\* open.
Gates ==
  LET open   == Store!RecoverSession(Session)
      queued == {r \in open : RecoveryAction(status[r]) = "redispatch"}
  IN  IF open # queued THEN {[blocked |-> TRUE, first |-> Nobody]}
      ELSE {[blocked |-> FALSE, first |-> r] : r \in IF queued = {} THEN {Nobody} ELSE queued}

\* _recovery_blocks and _execution_gate_error: an uncertain Run blocks all,
\* else only the first queued Run may go.
GateError(l, r) ==
  \/ loop[l].gateFailed
  \/ loop[l].gate.blocked
  \/ loop[l].gate.first \notin {Nobody, r}

-----------------------------------------------------------------------------
\* start(): the worker task is created when there is none.
Started(w) == IF w.at = "none" THEN IdleWorker ELSE w

\* Entering the submit lock: a command that is registered already shares the
\* future of its first submission, whatever happened to its Run since.
Enter(obj, r) == IF obj.lock # Nobody THEN "lock"
                 ELSE IF obj.future[r] # "none" THEN "wait" ELSE "lookup"
Entered(obj, k, r) == IF Enter(obj, r) = "lookup" THEN [obj EXCEPT !.lock = k] ELSE obj

\* The loop _session_for returns: the current one or a new object.
SessionFor(l) ==
  \/ l = owner
  \/ owner = 0 /\ loop[l].mode = "unborn" /\ \A m \in 1..(l - 1) : loop[m].mode # "unborn"

\* owner.execute finds the loop; execute() checks that it is open and awaits
\* start(), which suspends only while the loop is not initialized.
Call(k, r) ==
  /\ caller[k].at = "idle"
  /\ Spend("call")
  /\ \E l \in Loops :
       LET obj == [loop[l] EXCEPT !.mode = "open",
                                  !.worker = IF loop[l].ready THEN Started(@) ELSE @] IN
       /\ SessionFor(l)
       /\ owner' = l
       /\ loop' = [loop EXCEPT ![l] = IF loop[l].ready THEN Entered(obj, k, r) ELSE obj]
       /\ caller' = [caller EXCEPT ![k] =
            [at |-> IF loop[l].ready THEN Enter(obj, r) ELSE "init", run |-> r, loop |-> l]]
  /\ UNCHANGED <<store, ghosts, external>>

\* _initialize reads the recoveries; start() then makes the worker without
\* looking at the closing flag again.
Initialize(k) ==
  LET l == caller[k].loop
      r == caller[k].run IN
  /\ caller[k].at = "init"
  /\ \E g \in IF loop[l].ready THEN {loop[l].gate} ELSE Gates :
       LET obj == [loop[l] EXCEPT !.ready = TRUE, !.worker = Started(@), !.gate = g,
                                  !.gateFailed = loop[l].ready /\ @] IN
       /\ loop' = [loop EXCEPT ![l] = Entered(obj, k, r)]
       /\ caller' = [caller EXCEPT ![k].at = Enter(obj, r)]
  /\ UNCHANGED <<store, owner, ghosts, external, budget>>

InitializeFails(k) ==
  LET l == caller[k].loop IN
  /\ caller[k].at = "init" /\ ~loop[l].ready
  /\ Spend("fault")
  /\ loop' = [loop EXCEPT ![l].gateFailed = TRUE]
  /\ caller' = [caller EXCEPT ![k] = Idle]
  /\ UNCHANGED <<store, owner, ghosts, external>>

Acquire(k) ==
  LET l == caller[k].loop
      r == caller[k].run IN
  /\ caller[k].at = "lock" /\ loop[l].lock = Nobody
  /\ loop' = [loop EXCEPT ![l] = Entered(@, k, r)]
  /\ caller' = [caller EXCEPT ![k].at = Enter(loop[l], r)]
  /\ UNCHANGED <<store, owner, ghosts, external, budget>>

\* _register and the put into the queue, leaving the submit lock.
Register(l, k, r, actor) ==
  /\ loop' = [loop EXCEPT ![l].lock = Nobody, ![l].future[r] = "pending",
                          ![l].queue = Append(@, r), ![l].actor[r] = actor]
  /\ caller' = [caller EXCEPT ![k].at = "wait"]

Refuse(l, k) ==
  /\ loop' = [loop EXCEPT ![l].lock = Nobody]
  /\ caller' = [caller EXCEPT ![k] = Idle]

\* Only a Run found queued is given to an actor again.
Redispatchable(r) == status[r] \in Recoverable /\ RecoveryAction(status[r]) = "redispatch"

\* _prepare_actor up to its first write.
Prepare(k) ==
  LET l == caller[k].loop
      r == caller[k].run IN
  /\ caller[k].at = "lookup"
  /\ \/ /\ (Store!HasRow(r) /\ ~Redispatchable(r)) \/ GateError(l, r)
        /\ Refuse(l, k)
     \/ /\ Store!HasRow(r) /\ Redispatchable(r) /\ ~GateError(l, r)
        /\ Register(l, k, r, [status |-> status[r], sequence |-> sequence[r]])
     \/ /\ ~Store!HasRow(r) /\ ~GateError(l, r)
        /\ caller' = [caller EXCEPT ![k].at = "enqueue"]
        /\ UNCHANGED loop
  /\ UNCHANGED <<store, owner, ghosts, external, budget>>

\* A mutation: the first event takes the sequence of the created state.
MutEnqueueEvent(k) == NewEvent(caller[k].loop, k, "run_queued", 0)

EnqueueEvent(k) == NewEvent(caller[k].loop, k, "run_queued", 1)

\* RunActor.enqueue: queued is durable before the Run enters the queue.
Enqueue(k) ==
  LET l == caller[k].loop
      r == caller[k].run IN
  /\ caller[k].at = "enqueue"
  /\ IF Store!Accepts(CommandOf(r), EnqueueEvent(k))
     THEN /\ Write(r, EnqueueEvent(k))
          /\ Register(l, k, r, [status |-> "queued", sequence |-> 1])
     ELSE /\ Refuse(l, k)
          /\ UNCHANGED store
  /\ UNCHANGED <<owner, ghosts, external, budget>>

\* The awaited future is done.  A cancelled one raises CancelledError into
\* submit(), which then cancels the session as for its own cancellation.
Answer(k) ==
  LET f == loop[caller[k].loop].future[caller[k].run] IN
  /\ caller[k].at = "wait" /\ f \in {"done", "cancelled"}
  /\ caller' = [caller EXCEPT ![k] = IF f = "done" THEN Idle ELSE [@ EXCEPT !.at = "cancel"]]
  /\ UNCHANGED <<store, loop, owner, ghosts, external, budget>>

\* The task in submit() is cancelled: a user interrupt or a timeout.
CancelCaller(k) ==
  LET l == caller[k].loop IN
  /\ caller[k].at \in {"init", "lock", "lookup", "enqueue", "wait"}
  /\ Spend("stop")
  /\ caller' = [caller EXCEPT ![k].at = "cancel"]
  /\ loop' = [loop EXCEPT ![l].lock = IF @ = k THEN Nobody ELSE @]
  /\ ghosts' = IF caller[k].at # "enqueue" THEN ghosts
               ELSE ghosts \cup {[run |-> caller[k].run, event |-> EnqueueEvent(k)]}
  /\ UNCHANGED <<store, owner, external>>

-----------------------------------------------------------------------------
\* The status RunActor.run writes when it is cancelled inside the executor.
AbortStatus(r) == IF Bound(r) THEN "reconciliation_required" ELSE "cancelled"

\* worker.cancel(): what CancelledError does at the await the worker is in.
\* In the refresh after a Run it is caught like every other exception: it
\* becomes the future's exception, the gate is marked failed and the worker
\* goes on with its queue.
CancelledWorker(l) ==
  LET w == loop[l].worker
      r == w.run IN
  CASE w.at \in {"none", "ended", "abort"} -> loop[l]
    [] w.at = "idle" -> [loop[l] EXCEPT !.worker = EndedWorker]
    [] w.at \in {"start", "settle"} ->
         [loop[l] EXCEPT !.worker = EndedWorker, !.future[r] = "cancelled"]
    [] w.at \in {"exec", "frozen", "posted"} ->
         [loop[l] EXCEPT !.worker = Worker("abort", r, AbortStatus(r))]
    [] w.at = "refresh" ->
         [loop[l] EXCEPT !.worker = IdleWorker, !.future[r] = "cancelled",
                         !.gateFailed = TRUE]

\* The store write the worker is waiting for when it is cancelled.
WorkerGhost(l) ==
  LET w == loop[l].worker IN
  IF w.at \in {"start", "settle"}
  THEN {[run |-> w.run, event |-> ActorEvent(l, "worker", w.run,
                                     IF w.at = "start" THEN "running" ELSE w.next)]}
  ELSE {}

\* close() of a loop without a worker has nothing to wait for.
Closing(l, mode, closed) == IF loop[l].worker.at = "none" THEN closed ELSE mode

\* cancel_session takes the loop the owner has now, whichever it is, and
\* close(cancel_running=True) cancels its worker.
CancelSession(k) ==
  /\ caller[k].at = "cancel"
  /\ IF owner = 0
     THEN /\ caller' = [caller EXCEPT ![k] = Idle]
          /\ UNCHANGED <<loop, owner, ghosts>>
     ELSE /\ owner' = 0
          /\ loop' = [loop EXCEPT ![owner] =
                        [CancelledWorker(owner) EXCEPT !.mode = Closing(owner, "cancelling", "closed")]]
          /\ ghosts' = ghosts \cup WorkerGhost(owner)
          /\ caller' = [caller EXCEPT ![k].at = "closing", ![k].loop = owner]
  /\ UNCHANGED <<store, external, budget>>

\* close_session and retire_session: the queue is closed by a Stop mark.
CloseSession ==
  /\ owner # 0
  /\ Spend("stop")
  /\ owner' = 0
  /\ loop' = [loop EXCEPT ![owner].mode = Closing(owner, "draining", "drained"),
                ![owner].queue = IF loop[owner].worker.at = "none" THEN @ ELSE Append(@, Stop)]
  /\ UNCHANGED <<store, caller, ghosts, external>>

\* close(cancel_running=True) after the worker ended: one queued Run is
\* cancelled at a time; an error here leaves close() with futures pending.
CancelQueued(l) ==
  LET r == Head(loop[l].queue)
      e == ActorEvent(l, "close", r, "cancelled") IN
  /\ loop[l].mode = "cancelling" /\ loop[l].worker.at = "ended"
  /\ loop[l].queue # << >>
  /\ IF Store!Accepts(CommandOf(r), e)
     THEN /\ Write(r, e)
          /\ loop' = [loop EXCEPT ![l].queue = Tail(@),
                        ![l].actor[r] = [status |-> "cancelled", sequence |-> e.sequence]]
     ELSE /\ loop' = [loop EXCEPT ![l].queue = Tail(@), ![l].mode = "broken"]
          /\ UNCHANGED store
  /\ UNCHANGED <<owner, caller, ghosts, external, budget>>

\* close() cancels what is still pending and forgets the worker.
FinishClose(l) ==
  /\ loop[l].mode \in {"draining", "cancelling"} /\ loop[l].worker.at = "ended"
  /\ loop[l].mode = "cancelling" => loop[l].queue = << >>
  /\ loop' = [loop EXCEPT ![l].mode = IF @ = "draining" THEN "drained" ELSE "closed",
                ![l].worker = NoWorker,
                ![l].future = [r \in Runs |-> IF @[r] = "pending" THEN "cancelled" ELSE @[r]]]
  /\ UNCHANGED <<store, owner, caller, ghosts, external, budget>>

\* A mutation: cancel_session does not wait for close().
MutCloseReturns(k) ==
  /\ caller[k].at = "closing"
  /\ caller' = [caller EXCEPT ![k] = Idle]
  /\ UNCHANGED <<store, loop, owner, ghosts, external, budget>>

\* cancel_session returns to the submit() that called it.
CloseReturns(k) ==
  /\ caller[k].at = "closing" /\ loop[caller[k].loop].mode \in {"closed", "broken"}
  /\ caller' = [caller EXCEPT ![k] = Idle]
  /\ UNCHANGED <<store, loop, owner, ghosts, external, budget>>

-----------------------------------------------------------------------------
\* A mutation: a blocked submission is dropped without an answer.
MutTake(l) ==
  LET r == Head(loop[l].queue) IN
  /\ loop[l].worker.at = "idle" /\ loop[l].queue # << >>
  /\ loop' = [loop EXCEPT ![l].queue = Tail(@),
                ![l].worker = IF GateError(l, r) THEN @ ELSE Worker("start", r, "none")]
  /\ UNCHANGED <<store, owner, caller, ghosts, external, budget>>

\* The worker takes the next submission.  One that the gate blocks is
\* answered with the gate's error and forgotten; its queued row stays.
Take(l) ==
  LET r == Head(loop[l].queue) IN
  /\ loop[l].worker.at = "idle" /\ loop[l].queue # << >>
  /\ \/ /\ r = Stop
        /\ loop' = [loop EXCEPT ![l].queue = Tail(@), ![l].worker = EndedWorker]
        /\ UNCHANGED caller
     \/ /\ r # Stop /\ GateError(l, r)
        /\ loop' = [loop EXCEPT ![l].queue = Tail(@), ![l].future[r] = "none"]
        /\ caller' = [k \in Callers |->
             IF caller[k].at = "wait" /\ caller[k].loop = l /\ caller[k].run = r
             THEN Idle ELSE caller[k]]
     \/ /\ r # Stop /\ ~GateError(l, r)
        /\ loop' = [loop EXCEPT ![l].queue = Tail(@), ![l].worker = Worker("start", r, "none")]
        /\ UNCHANGED caller
  /\ UNCHANGED <<store, owner, ghosts, external, budget>>

\* RunActor._transition to s by the worker of l: durable first, then memory;
\* when the store refuses, memory keeps the previous status and the worker
\* goes on with the error.
Transition(l, s, w) ==
  LET r == loop[l].worker.run
      e == ActorEvent(l, "worker", r, s) IN
  IF Store!Accepts(CommandOf(r), e)
  THEN /\ Write(r, e)
       /\ loop' = [loop EXCEPT ![l].actor[r] = [status |-> s, sequence |-> e.sequence],
                               ![l].worker = w,
                               ![l].future[r] = IF w.at = "ended" THEN "cancelled" ELSE @]
  ELSE /\ loop' = [loop EXCEPT ![l].worker = Worker("refresh", r, "none")]
       /\ UNCHANGED store

StartRun(l) ==
  /\ loop[l].worker.at = "start"
  /\ Transition(l, "running", Worker("exec", loop[l].worker.run, "none"))
  /\ UNCHANGED <<owner, caller, ghosts, external, budget>>

\* A mutation: the request is not stored.
MutFreeze(l) ==
  /\ loop[l].worker.at = "exec" /\ Bound(loop[l].worker.run)
  /\ loop' = [loop EXCEPT ![l].worker.at = "frozen"]
  /\ UNCHANGED <<store, owner, caller, ghosts, external, budget>>

\* record_remote_request: the request is frozen before it may be sent.  A
\* Review that is dispatched again repeats its request.
Freeze(l) ==
  LET r == loop[l].worker.run IN
  /\ loop[l].worker.at = "exec" /\ Bound(r)
  /\ IF remote[r] = NoRemote
     THEN Store!SaveRemoteRequest(CommandOf(r), CommandOf(r).turn_id, "frozen")
     ELSE UNCHANGED store
  /\ loop' = [loop EXCEPT ![l].worker.at = "frozen"]
  /\ UNCHANGED <<owner, caller, ghosts, external, budget>>

Submit(l) ==
  /\ loop[l].worker.at = "frozen"
  /\ loop' = [loop EXCEPT ![l].worker.at = "posted"]
  /\ wire' = wire \cup {loop[l].worker.run}
  /\ UNCHANGED <<store, owner, caller, ghosts, server, budget>>

\* What the executor can end with: an error is failed or, for a timeout or
\* an unknown submission, reconciliation_required; completed is the word of
\* the service, or of an executor that needs none.
Outcomes(l) ==
  LET w == loop[l].worker IN
  CASE w.at \in {"exec", "frozen", "posted"} ->
         {"failed", "reconciliation_required"}
           \cup (IF Bound(w.run) THEN {server[w.run]} \cap {"completed"} ELSE {"completed"})
    [] OTHER -> {}

ExecutorEnds(l) ==
  /\ \E s \in Outcomes(l) :
       loop' = [loop EXCEPT ![l].worker.at = "settle", ![l].worker.next = s]
  /\ UNCHANGED <<store, owner, caller, ghosts, external, budget>>

Settle(l) ==
  LET w == loop[l].worker IN
  /\ w.at = "settle"
  /\ Transition(l, w.next, Worker("refresh", w.run, "none"))
  /\ UNCHANGED <<owner, caller, ghosts, external, budget>>

\* The write of a cancelled actor; afterwards the worker task is over.
Abort(l) ==
  LET w == loop[l].worker IN
  /\ w.at = "abort"
  /\ Transition(l, w.next, EndedWorker)
  /\ UNCHANGED <<owner, caller, ghosts, external, budget>>

\* _refresh_recoveries after a Run, then the future is done.
Refresh(l) ==
  LET w == loop[l].worker IN
  /\ w.at = "refresh"
  /\ \E g \in Gates :
       loop' = [loop EXCEPT ![l].gate = g, ![l].gateFailed = FALSE,
                            ![l].future[w.run] = "done", ![l].worker = IdleWorker]
  /\ UNCHANGED <<store, owner, caller, ghosts, external, budget>>

RefreshFails(l) ==
  LET w == loop[l].worker IN
  /\ w.at = "refresh"
  /\ Spend("fault")
  /\ loop' = [loop EXCEPT ![l].gateFailed = TRUE, ![l].future[w.run] = "done",
                          ![l].worker = IdleWorker]
  /\ UNCHANGED <<store, owner, caller, ghosts, external>>

-----------------------------------------------------------------------------
\* The thread of an abandoned write finishes: the store commits or refuses.
GhostWrite(g) ==
  /\ ghosts' = ghosts \ {g}
  /\ IF Store!Accepts(CommandOf(g.run), g.event) THEN Write(g.run, g.event)
     ELSE UNCHANGED store
  /\ UNCHANGED <<loop, owner, caller, external, budget>>

\* The process dies: memory and unfinished transactions are gone.  Used loop
\* numbers stay used, so a later event is never taken for an earlier one.
Crash ==
  /\ Spend("crash")
  /\ loop' = [l \in Loops |-> IF loop[l].mode = "unborn" THEN loop[l]
                              ELSE [NewLoop EXCEPT !.mode = "dead"]]
  /\ owner' = 0
  /\ caller' = [k \in Callers |-> Idle]
  /\ ghosts' = {}
  /\ UNCHANGED <<store, external>>

\* External: a submission reaches the service or is lost; a turn finishes.
ServerReceive(r) ==
  /\ r \in wire
  /\ wire' = wire \ {r}
  /\ server' = [server EXCEPT ![r] = IF @ = "absent" THEN "running" ELSE @]
  /\ UNCHANGED <<store, loop, owner, caller, ghosts, budget>>

SubmissionLost(r) ==
  /\ r \in wire
  /\ wire' = wire \ {r}
  /\ UNCHANGED <<store, loop, owner, caller, ghosts, server, budget>>

ServerFinish(r) ==
  /\ server[r] = "running"
  /\ \E s \in {"completed", "failed"} : server' = [server EXCEPT ![r] = s]
  /\ UNCHANGED <<store, loop, owner, caller, ghosts, wire, budget>>

-----------------------------------------------------------------------------
CallerStep(k) ==
  \/ Initialize(k) \/ Acquire(k) \/ Prepare(k) \/ Enqueue(k) \/ Answer(k)
  \/ CancelSession(k) \/ CloseReturns(k)

LoopStep(l) ==
  \/ Take(l) \/ StartRun(l) \/ Freeze(l) \/ Submit(l) \/ ExecutorEnds(l)
  \/ Settle(l) \/ Abort(l) \/ Refresh(l)
  \/ CancelQueued(l) \/ FinishClose(l)

ServerStep(r) == ServerReceive(r) \/ ServerFinish(r)

\* Everything but a new submission and a crash.
Background ==
  \/ \E k \in Callers : CallerStep(k) \/ InitializeFails(k) \/ CancelCaller(k)
  \/ \E l \in Loops : LoopStep(l) \/ RefreshFails(l)
  \/ CloseSession
  \/ \E g \in ghosts : GhostWrite(g)
  \/ \E r \in Runs : ServerStep(r) \/ SubmissionLost(r)
=============================================================================
