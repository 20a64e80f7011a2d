# A TLA+ model of the ProxyMind client runtime

ProxyMind ("Mind") is a Python client for a remote conversation service. The
service runs the model; the client accepts a user's turn, records it as a
durable *Run*, submits it, follows the event stream, executes the tool calls
the service sends back, and must come to one agreed outcome after interrupts,
crashes and lost answers. Its architecture document states the rules for this
core: each session has one writer, commands, Runs and effects have stable
identities, and an unknown result goes into explicit reconciliation and is never
silently repeated. This project models that core: Runs and sessions, recovery,
the turn's event stream, its tool calls and approvals, and the deletion of a
conversation. It checks the models with TLC and proves with TLAPS what the two
durable stores promise and the safety of the session, the event stream, the
tool turn, the approvals, the tool runner and the deletion that are built around
them.

Paths below are relative to `src/`. `PROJECT.json` maps each definition to the
lines it models.

- [Inventory](#inventory)
- [Modules and the code](#modules-and-the-code)
- [Runs](#runs)
- [Fairness](#fairness)
- [Proofs](#proofs)
- [Disagreements with the documentation](#disagreements-with-the-documentation)
- [Not modelled](#not-modelled)
- [Plan](#plan)

## Inventory

The client is layered: `agent/domain` (pure rules), `agent/stores` (durable
facts in SQLite and JSON files), `agent/harness` (coroutines that own sessions,
Runs, tools, hooks and sub-agents), `agent/application` (use cases),
`agent/adapters` (the wire protocol), with `protocol/` (the wire SDK),
`infrastructure/` (processes, configuration, MCP, files) and `frontends/` (the
terminal interface, command line and subscription websocket) around it.
`backend/` is a separate device-automation server.

| Component | State it keeps | Operations | What makes it correct |
|---|---|---|---|
| Run store (`agent/stores/runs`, `agent/domain/runs.py`) | event log, snapshot, outbox, recovery decision and frozen request of each Run; retirement marks | append an event, find, recover a session, decide a recovery, freeze a request, delete sessions | the snapshot is what the log replays to; acknowledged events stay; identities are unique; deleted sessions stay deleted |
| Session loop, Run actor, owner (`agent/harness/sessions`, `agent/harness/execution/actor.py`) | queue, worker task, futures, a copy of the recovery gate, the actor's status and sequence, which loop is current | submit, worker steps, cancel, close, requeue | one writer per session; nothing is dispatched beside an uncertain Run; every submission is answered |
| Recovery (`agent/application/turns/commands.py`, `frontends/tui/session/loop.py`) | the snapshots it has to look at and the turns to observe | ask the service, decide, requeue a Review, observe to the end | every uncertain Run is settled; nothing decided twice |
| Effect journal (`agent/stores/effects/journal.py`) | a row per local effect, frozen tool results, retirement marks | begin, inspect, commit, mark unknown, reconcile, save a tool result, delete | a manual effect is granted once; evidence is never lost |
| Client tool runner (`agent/harness/tools/client_calls.py`, `agent/harness/hooks/tool_lifecycle.py`) | the position and known outcome of each call | execute with hooks, commit and its fallbacks, reconcile a known effect | an effect takes place at most once; nobody learns a wrong outcome |
| Tool result delivery and dispatch (`agent/adapters/protocol/tool_*.py`) | batch buffer, the replayed calls, frozen results, submission attempts | buffer a batch, execute, freeze, post, query, replay, hand over at a turn boundary | a result is delivered once; replay and live calls keep their order |
| Session deletion (`agent/harness/sessions/root.py`, `agent/stores/sessions/deletion.py`) | the deletion intent, its progress over six stores, tombstones, transcript locks | delete, recover, clean in order | the service deletes first, the plan outlives every failure, a deletion is finished and what it deleted stays gone |
| Approvals (`agent/stores/approvals`, `agent/application/approvals`) | facts with revisions, the call ledger, permission grants; the queue of questions and its worker | request, share, decide, cancel, resolve, close; consume, replay | a call is approved and consumed once; who asks is answered; a declined call does not run |
| Agents (`agent/harness/agents`, `agent/stores/agents`) | agent tree, bounded mailbox with claims, checkpoints | spawn, send, claim, acknowledge, checkpoint, close | no message is lost or taken twice within the capacity |
| Turn stream (`protocol/client/chat.py`, `agent/adapters/protocol/turn_*.py`) | event cursor, replay target, outcome | attach, read, reconnect, settle | every event is applied once and in order |
| Process sessions (`infrastructure/platform/process_sessions.py`) | child processes, output buffers, closing flag | start, write, poll, reap, close | no process outlives its manager |
| MCP runtime (`infrastructure/mcp`) | leases of shared servers | acquire, release, reconnect | a server lives as long as a lease does |
| Subscription (`frontends/subscription`) | sequence numbers, cached requests | receive, forward, acknowledge, resume | a forwarded request runs once |
| Hooks, configuration, patches, protocol SDK, front ends, backend, sidecars | mostly data | | |

How they interact: a front end calls `TurnApplication.submit`, which asks the
owner for the session's loop; the loop's worker drives a Run actor that writes
every status to the Run store before it changes its own memory; the executor
inside the actor freezes the remote request in the store and then submits it;
stream events call back into tool dispatch, which runs tools through the
runner and the journal and posts their results. Between turns the front end
runs the recovery flow over the same store. Session deletion retires the
identities in each store.

What is hard here:

- all coroutines of a process interleave at each `await`, and several tasks
  (submitters, a canceller, the worker, a close) touch one loop object;
- store calls run in threads, and cancelling the coroutine that waits for one
  does not stop the transaction: it commits later, behind the back of whoever
  went on;
- the SQLite files are shared by several processes;
- a process may die between any two writes, and between a write and a request;
- requests and their answers get lost or arrive late.

The hazards are listed, each with its line and the properties that would show
it, in `PROJECT.json`.

## Modules and the code

| Module | Models | Uses |
|---|---|---|
| `RunDomain` | statuses, transitions, recovery actions, event and outbox tables | |
| `RunStore` | `SQLiteRunStore` | `RunDomain` |
| `RunStoreProofs` | theorems about `RunStore` | `RunStore` |
| `SessionLoop` | owner, loops, workers, actors, submitters, external service | `RunDomain`, an instance of `RunStore` |
| `SessionRecovery` | the recovery flow, the composed specification and the session properties | `SessionLoop` |
| `SessionProofs` | theorems about `SessionRecovery` | `SessionRecovery`, an instance of `RunStoreProofs` |
| `EffectJournal` | `LocalEffectJournal` | |
| `EffectJournalProofs` | theorems about `EffectJournal` | `EffectJournal` |
| `ToolEffects` | `ClientToolCallRunner` | an instance of `EffectJournal` |
| `ToolEffectsProofs` | theorems about `ToolEffects` | `ToolEffects`, an instance of `EffectJournalProofs` |
| `TurnFeed` | what `TurnEventStream` promises its owner (abstract) | |
| `TurnStream` | `TurnEventStream` (`protocol/client/chat.py`) | implements `TurnFeed` |
| `TurnStreamProofs` | theorems about `TurnStream`, its refinement of `TurnFeed` | `TurnStream` |
| `ToolTurn` | the tools and approvals of one turn: event consumer, ledger, dispatcher, delivery | extends `TurnFeed` |
| `ToolTurnProofs` | theorems about `ToolTurn` | `ToolTurn` |
| `ApprovalQueue` | `ApprovalCoordinator` | |
| `ApprovalQueueProofs` | theorems about `ApprovalQueue` | `ApprovalQueue` |
| `SessionDeletion` | `/delete` and `/delete recover` over the six stores and the service | |
| `SessionDeletionProofs` | theorems about `SessionDeletion` | `SessionDeletion` |
| `MCRunStore`, `MCSession`, `MCEffects`, `MCToolEffects`, `MCTurnStream`, `MCToolTurn`, `MCApprovalQueue`, `MCSessionDeletion` | instances for TLC | |

`Mut...` operators are small mutations of the definition that follows them:
plausible slips that the named property must detect.

**RunStore.** Each store operation is one `BEGIN IMMEDIATE` transaction and one
action; an operation that raises rolls back, changes nothing and is no step.
`AppendEvent` has the three successful paths of `_append_event` (first event,
next event, repetition of the latest event), `ResolveRecovery` the decision
that is stored once, `SaveRemoteRequest` the freeze of a request and its
later revisions, and `DeleteSessions` the deletion by remote session with the
check that no doomed local session is bound elsewhere. The callers are
arbitrary: any writer may offer any well formed event at any time, which is
what several processes with stale memories can do. An event's JSON is
abstracted to sequence, kind and writer, a command's to its identity and
fingerprint. `acked` is a history variable: the events whose `append_event`
returned.

**SessionLoop.** A step is what happens between two awaits. `Call`,
`Initialize`, `Acquire`, `Prepare`, `Enqueue`, `Answer` are
`SessionLoop.execute` as a submitter runs it; `Take`, `StartRun`, `Freeze`,
`Submit`, `ExecutorEnds`, `Settle`, `Abort`, `Refresh` are the worker with the
actor's `run`; `CancelCaller`, `CancelSession`, `CloseSession`, `CancelQueued`,
`FinishClose`, `CloseReturns` are `TurnApplication.submit`'s reaction to a
cancellation and `close`. `CancelledWorker` says what a `CancelledError` does
at each await the worker can be in. A write whose coroutine was cancelled
becomes a member of `ghosts` and commits later (`GhostWrite`) or is lost in a
crash; a write that is not abandoned commits and resumes its coroutine in one
step. `loop` holds all `SessionLoop` objects: the owner forgets a loop before
closing it, so several can exist. `recover_session` orders by a wall-clock
timestamp, so which queued Run the gate lets go first is left open. The turn
service is external: it knows a turn or does not, submissions may arrive late
or never. Events are written through the instance of `RunStore`, so the store's
guards are the ones the proofs are about.

**SessionRecovery.** `reconcile_remote_session` between two turns:
`RecoverBegin` takes the snapshots, and for each of them either decides at once
(`RecoverQueued`, `RecoverUnbound`) or asks the service (`AskServer`) and acts
on the answer in a later step (`MissingTurn`, `MissingReview`, `KnownTurn`), so
that ghosts and late submissions can come between. `ObserveTurn` is
`resolve_observed_recovery`. A refused decision ends the flow, as the exception
does.

**EffectJournal.** One transaction is one action, with arbitrary callers bound
to arbitrary sessions. `Begin` inserts the row if it is missing and takes the
right to execute in the same step; `Commit` and `MarkUnknown` look their row up
by id and fingerprint only; deletion leaves the ids of the deleted effects
behind, which the retirement triggers consult. `granted` counts how often
`begin` answered "execute".

**ToolEffects.** A task is a coroutine in `execute` or
`reconcile_known_effect`. Its steps are the awaits of the code: inspect, begin,
hooks and tool, commit, and after a failed commit the fallbacks in their order:
keep the outcome as candidate, tell the service, commit again. `Cancel` says
what each await does with a cancellation, `Ghost` keeps the journal call or the
tool that goes on without its task, `Crash` ends the process of one task and
`Delete` removes the session underneath. The service keeps the first resolution
of an effect it is told (external). The path is taken by callers that build a
tool invocation with an `effect`; a streamed tool call carries none and goes
through result delivery only.

**TurnFeed.** The contract between the stream and the turn: events are handed
over in order, each once; a reconnect freezes a target, nothing newer is handed
over while history is replayed, and "caught_up" is reported only when the
history is complete. `feed` is what the owner can know: cursor, phase, target,
whether a gap was announced, how the stream ended.

**TurnStream.** The fields of `stream` are those of the `TurnEventStream`
object (`pending` is `_recovery_catch_up_pending`, `control` and `probe` the
recovery probe of an interrupt, `snapshot` a terminal event taken from a status
answer). `Open` is the first read; `Receive`, `ReceiveSnapshot`,
`ReceivePrefixGap` and `ReceiveInternalGap` are the payload kinds of
`_next_event`; `Broken`, `Silent`, `Heartbeat` and `Probe` lead into
`_resume_stream`, whose awaits are `SubmitAgain`, `StatusFails`,
`StatusTerminal`, `StatusActive`, `Reattach` and `ApprovalsFail`. The service is
a log of increasing event numbers in which numbers may be missing, as events of
other turns are filtered out; it may drop the beginning of the log, repeat the
last confirmed event, accept a request late or answer it with a conflict. Retry
delays only decide when a step happens. That the turn's owner can read its
approvals (`on_approval_snapshot`) is a step that may fail.

**ToolTurn.** One turn from its first event to its end, over crashes and
further observations. `Take...` are the handlers of the event loop, `Decide`,
`ReportDecision`, `ReportLost` the approval handler, `CatchUp`, `Classify`,
`ExecuteRecovery` the replayed calls, `StartCall`, `Execute`, `Reject`,
`SaveResult` the worker, `Post`, `PostLost`, `Query`, `QueryFails` the delivery
of a result by either task, `Observe` the attach of a later recovery. Persistent
are the saved results and the first decision of each approval; ledger, queue and
worker die with the process. `torn` counts executions whose result was not yet
saved when the process or the observation ended. The start, call and done events
of a batch are one event; announced gaps are left to `TurnStream`; the service
asks for one approval at a time and answers only calls it waits for.

**ApprovalQueue.** `RequestRefused`, `RequestJoins`, `RequestQueued` are the
paths of `_enqueue_request`; `Restore`, `Resolve`, `Close`, `CancelCall` the
other entry points; the remaining actions are the worker `_run` from await to
await. An entry is identified by its place among all entries, which stands for
its request id; outcomes are not told apart. `Cancelled` says what
`worker.cancel()` does: a task that has not taken its first step ends without
its finally clause and stays in `_worker_task`.

**SessionDeletion.** One root session and a child, two processes on one state
directory. `rows` and `barred` hold, for each store and session, whether there
is data and whether there is a tombstone (retirement trigger or transcript
marker). A root has data in all six stores, a child in three. `Delete`,
`Prepare`, `Rejected`, `Unknown` are `delete_session`, `Recover` and `Query`
are `recover_delete`, `Retire`, `CloseRuntime`, `Lock`, `MarkTranscripts`,
`WipeDatabase`, `RemoveTranscripts`, `GraphRefuses`, `MarkComplete` are
`_complete_deletion` with the store's `delete` in its order; each database
deletes in one transaction. `CheckAvailable`, `Bind`, `BeginTurn`, `TurnWrites`,
`UseAgents`, `PersistGraph`, `Unbind` are what the processes do meanwhile. The
service performs a request when it likes, refuses it, or never gets it; it
answers a query only by the receipts it has. `Expire` is the TTL of a saved
agent graph.

## Runs

CHECK_DEADLOCK is off in each configuration because the systems may stop: a
session without submissions is idle for good, a store that was asked everything
the bound allows rests.

| Run | Instance | Distinct states | Shows |
|---|---|---|---|
| `run_store` | three Runs of one session under rival commands (a Run with two command ids, a reused idempotency key, a reused command id without coordinates), two writers, four events, two request revisions, two deletion targets | 79,932 | `LogReplaysToSnapshot`, `OutboxMatchesLog`, `AckedIsDurable`, `IdentitiesUnique`, `RetiredStaysGone`, `HistoryIsFinal`, type |
| `session` | one front end, a turn and a Review; two submissions, two stops (each an interrupt or a `close_session`), one crash, one failing call | 3,123,719 | `ActiveRunIsDurable`, `SentOnlyIfRecorded`, `QuietWhenIdle`, `UncertainBlocksDispatch`, type |
| `session_shared` | two submitters, a turn and a turn without remote identity, two submissions, one crash, fair | 17,058 | `EveryCallerAnswered`, `UncertainIsSettled` |
| `effect_journal` | two sessions, a manual effect, its id with another meaning, a safe effect, two results, three grants | 12,317 | `GrantedOnce`, `EvidenceRemains`, `EvidenceIsFinal`, type |
| `tool_effects` | two tasks, a manual and a safe effect; three calls, one cancellation, one crash, two faults, one deletion; symmetric tasks | 1,047,296 | `PerformedOnce`, `OutcomesAgree`, type |
| `turn_stream` | a new turn, or one attached at any event; four event numbers, four requests, two faults, one internal gap, one dropped prefix, one probe, one cancellation, fair | 664,341 | `EachEventOnce`, `CaughtUpWhenWaiting`, the refinement `KeepsFeed`, `StreamEnds`, type |
| `tool_turn` | two calls, one of which needs approval; four events, two faults, two crashes, one closed call or interrupted turn, one interrupted tool, one status round, fair | 740,158 | `RerunOnlyIfTorn`, `ResultsAgree`, `DeclinedNeverRuns`, `InOrder`, `CallsAnswered`, type |
| `approval_queue` | three callers, a queue of two; one restored question, two cancelled callers, one outside decision, one close, one failing front end, fair | 218,753 | `QueueConsistent`, `RequestsAnswered` |
| `session_deletion` | two processes, a root and a child, two requests and any three of turns, uses of agents, switches, lost, refused or unknown answers, failing steps, crashes, expiry, fair | 1,265,094 | `DeletedStaysGone`, `RemoteFirst`, `IntentRemains`, `DeletionFinishes`, type |
| `two_writers`, `review_crash`, `delete_kids` | | | see [below](#disagreements-with-the-documentation) |

Why the bounds are enough for the cases they are meant to reach:

- Four events lead a Run from queued through running and
  `reconciliation_required` to queued again, so the requeue cycle closes; two
  writers are enough for each pair of competing appends. The theorems remove
  these bounds.
- In the session runs a crash or a cancellation happens at each step of a
  submission and of the recovery that follows it, and a further submission
  comes afterwards; a stop is an interrupt or a close, and two of them give the
  close of a loop while an earlier one still drains. `MaxLoops` is large
  enough for a loop after each of them.
  `MaxSequence` bounds how often a Review is requeued: `MissingReview` asks for
  room for another execution (`EventsPerDispatch`), and a first execution always
  fits (`BoundsAssumption`). With nine events there is room for two requeues of
  the Review. The races are between two parties, so two submitters, or one
  submitter with a close, cover them.
- In `tool_effects` two faults let the commit fail and the fallback after it as
  well; with the cancellation, crash and deletion every pair of troubles meets.
  A third call can follow two calls that ended in any way.
- In `turn_stream` four event numbers leave room for a confirmed event, a
  replayed one, a live one and the terminal one, with numbers missing in
  between; two faults let a reconnect fail as well.
- In `tool_turn` two crashes let a call be torn, executed again and torn again;
  the approval, the batch and the end fit into four events with a text before
  them, so a replay target can lie before, between and behind the calls. One
  status round instead of three reaches each outcome of a round and the end of
  the rounds.
- In `approval_queue` three callers over two places give a shared entry, a full
  queue and a request that arrives while the worker is being cancelled.
- In `session_deletion` three troubles are enough for a turn with a sub-agent in
  one process while the other deletes and one step fails; two requests compete.

Reading the main session properties:

- A loop is *kept* (`Kept`) while somebody answers for it: it is the owner's,
  or the submission whose cancellation closes it still waits for the close. The
  other loops are closed, broken, or left to drain by `close_session`, which does
  not cancel what runs in them.
- `ActiveRunIsDurable` holds of the status and sequence in every loop. That the
  recovery of an executing Run is undecided holds in kept loops only: after
  `close_session` left a loop to drain, an interrupt has no loop to close and
  returns at once, and the recovery flow of the next turn may decide
  "not executed" for the Run that the draining worker is executing.
- `QuietWhenIdle` says that when every submission has returned, also with an
  error or a cancellation, no kept loop runs or holds anything. It cannot be
  said of all loops: `start()` gives a loop that was closed meanwhile a worker,
  the cause of `two_writers`.
- `UncertainBlocksDispatch` is an action property in two parts, for any number of
  front ends. The worker of a kept loop enters the executor only while the copy
  of the gate in its loop lets work through (`Admits`). And the Runs that are
  started and unsettled without this copy knowing (`Hidden`) become more only
  when a write that a cancelled worker had given up commits its `run_started`
  after all, or when a loop that is not kept starts one. The copy is read in one
  step and consulted in later ones, so the property fails if a crash, a new
  loop, a requeue, a failed refresh or another submission can slip in between.
  The two exceptions are real, and neither can be left out. A loop that drains
  or was closed can still start a Run (the cause of `two_writers`). The late
  commit needs three submissions of one front end: a Review is cancelled while
  its `run_queued` is being written, a turn while its `run_started` is, and the
  Review is submitted again. Both writes commit; if the turn's comes after the
  gate was read, the Review starts beside an uncertain turn.
- `OutcomesAgree` relates the caller, the journal row, the service and what
  really happened. A tool that reports an error may or may not have done its
  work.
- `RerunOnlyIfTorn` is as strong as the code allows: a call that ran without
  leaving a result is executed again by the next observation (see below). The
  property says that nothing else repeats a call: not a reconnect, a replayed
  approval, which marks a consumed call approved again, or a repeated delivery.
- `CallsAnswered`, `RequestsAnswered` and `DeletionFinishes` name their
  exceptions in the formula. Each exception is a case the code really gets into
  (see below); the properties say that there is no other.
- `IntentRemains` relates the network and the service to the disk: the plan
  exists as long as the request can still arrive.

## Fairness

`FairSpec` assumes weak fairness of the steps of each submitter, each loop, the
service, the abandoned writes and the recovery flow. The code justifies it as
follows: a coroutine that can continue is scheduled by the event loop; a
thread's transaction ends by SQLite's busy timeout; the executor ends because
requests and streams have timeouts of their own; the service answers a turn it
has accepted. The recovery flow is started by the front end before a turn while
an unfinished Run exists. Its own automatic retries are finite, after that the
user has to try again: that the user does is an assumption. Nothing is assumed
of submissions, cancellations, closes, crashes, lost messages or failing calls.

`FairStreamSpec`: the consumer keeps pulling, the reader's tasks run, and the
service accepts what reached it and brings a turn to its end. Silence ends
because each read has a timeout and heartbeats are compared with the status.
`FairTurnSpec`: the consumer and the worker run, the user answers an approval,
and a turn left unsettled is observed again; nothing is assumed of the service.
`ApprovalSpec`: the worker runs, the front end begins its sessions and the user
answers. `FairDeletionSpec`: a process goes on with the operation it is in, a
turn ends, and the user asks for `/delete recover` while a deletion is pending,
which is an assumption about the user. Nothing is assumed of the service there:
`DeletionFinishes` starts when the service has deleted.

## Proofs

The theorems hold for every value of the constants: any set of commands,
writers, sessions, effects, payloads, calls, processes and children, any number
of submitters, tasks and loops, any number of events, and every bound and budget
of troubles. What a theorem's name says and which property it states is listed
under "theorems" in `PROJECT.json`. Every safety property of a passing run, be it
an invariant, an action property or the refinement, is stated by a theorem.

*Assumptions.* `RunStore`: equal fingerprints mean equal intents
(`FingerprintAssumption`, from the canonical JSON the fingerprint is computed
over), a deletion names a remote session (`TargetAssumption`), the bounds are
positive, and the "no value" constants differ from real values
(`CommandAssumption`, `DecisionAssumption`, `RemoteAssumption`).
`EffectJournal`: the replay policy of an intent is safe or manual
(`EffectAssumption`), the bound is positive (`GrantAssumption`), and "no row",
"no payload" differ from real ones (`RowAssumption`). `ToolEffects` assumes the
same of its own constants. `SessionLoop` assumes of its commands what `RunStore`
does (`StoreAssumption`), that they belong to one session, as all commands of
one `SessionLoop` do (`SessionAssumption`), that the first execution of a Run
fits below the bound (`BoundsAssumption`), and that the marks "stop" and
"nobody" are no Runs or submitters (`MarkAssumption`). `ToolTurn`: who asks for
approval is a call (`AsksAreCalls`), "none" is not (`CallsAssumption`).
`TurnStream`: the bound on event numbers is a number (`MaxSeqAssumption`).
`ApprovalQueue`: the limit is a positive number, as the constructor demands
(`LimitAssumption`). `SessionDeletion`: the bounds are numbers, and "nobody",
"no intent" and "no control" differ from real ones. TLC evaluates all of them on
its instances.

*Run store.* The inductive core is `TypeOK` with `LogReplaysToSnapshot`.
`AppendEffect`, `DeleteEffect` and `OtherSteps` say once, for a single Run, what
each kind of step does to log, snapshot and outbox; the other proofs use only
these. `AckedIsDurable` needs the core because a repeated event is
acknowledged on the strength of the snapshot's sequence pointing at the log's
end. `OutboxMatchesLog` needs it to relate the counter to the log
(`DispatchesAppend`: appending adds one dispatch exactly if the event is
`run_started`). `RetiredStaysGone` is inductive with types alone;
`IdentitiesUnique` needs the core for a Run without a row, which holds no
request. `HistoryIsFinal`
follows from the core because no terminal status has a successor
(`TerminalHasNoSuccessor`).

*Effect journal.* `GrantedOnce` alone is not inductive: nothing in it prevents a
second grant after the row is gone. The strengthening is `EvidenceRemains`: a
granted effect has a row that is past "prepared", or its id is retired, and no
row belongs to a retired id or session. With it, `begin` can answer "execute"
for a manual effect only if it was never granted before. `BeginEffect` and
`SettleEffect` describe the rows after each operation; `EvidenceIsFinal`
follows from them and types.

*Session.* `SessionProofs` first shows that the store of the session is the one of
`RunStoreProofs` (`SameStates`, `SameSteps`), so that each step keeps the store's
own invariant (`StoreInv`) because it is a step of the store
(`UsesTheRunStore`). What has to be added for the session's properties
(`SessionInv`):

- `OneTask`, `InMode`: a Run is at one place of a loop, in the queue or with the
  worker, and has a future there; an open loop holds only Runs whose future is
  pending.
- `Remembers`, `Executes`: what an actor remembers of its Run is an entry of the
  Run's log, and "running" was its own word. A worker past the start is at the
  end of the log. The writer of an entry is what keeps two loops apart: only one
  of them can have written the `run_started` at a given sequence.
- `Abandoned`: a cancelled write is the very first one of its Run, or comes from
  a worker that has nothing more to do with the Run and, unless it is a start,
  follows an entry that worker wrote. So when it commits late it cannot
  move a Run another worker executes.
- `Submits`, `Served`: who prepares a submission holds the lock of its loop; each
  Run of an open loop is waited for by a submission, and a loop that is being
  cancelled has a submission in its close. This is what makes `QuietWhenIdle`
  true, and with the fact that recovery runs between submissions it keeps
  decisions away from kept loops.
- `LogInv`: an entry of a log leaves room for the rest of the execution, so no
  step of an actor is refused by the bound.
- `Sent`: `SentOnlyIfRecorded`.

`UncertainBlocksDispatch` needs a further invariant about the gate (`GateInv`),
on top of `SessionInv`: nothing of the session is retired and each row is that
of its command (`Rows`), so that what `recover_session` reads is all there is; a
loop that is not ready has no worker, a worker of an open loop that has passed
the gate stands behind one that still lets it through, and in a loop that is
being cancelled no worker goes on (`GateOK`). Each step then either leaves a
Run's uncertainty alone, reads the gate anew in the same step, closes the gate,
or is one of the two exceptions.

Each action is a step of the store together with one of six kinds of move:
of a loop, a submitter, a close, a new loop, the recovery flow, or none of
these. What each kind keeps is proved once, and the proof about an action shows
which kind it is.

*Turn stream.* `Ordered` and `Phases` relate the delivered events to the cursor,
the frozen target and the connection; with `Ends` (what an ended stream has told
its owner) they give `EachEventOnce` and `CaughtUpWhenWaiting`. For the
refinement each action is shown to change the owner's view by one step of
`TurnFeed` or not at all (`FeedStep`), under the invariant: a connection that is
attached is behind the target or the end of the replay is due, so what it brings
is history or the replay has been ended first.

*Tool turn.* `Placed`: a call is among the replayed calls, in the queue or with
the worker, at only one of them, and only after its event was handed over;
`Targets`: history is classified after all of it was. `Counted`: a call that may
still start has been torn as often as it ran. `Results`: what is saved or with
the worker numbers an execution that happened, and the service holds what is
saved. `Declined`: a declined call is closed in the ledger before its batch is
handled, so it is on none of the ways to an execution. `Service` is what the
service keeps to: each call is published once, after it was asked about.
`InOrder` needs four more parts (`OrderInv`). `Batches`: a call that waits is of
the last batch, because the service goes on only when a batch is answered.
`Queues` and `Classified`: in the dispatcher's queue, among the replayed calls
and in both halves of what is being classified, whatever the service brought
before an element and still waits is earlier in the same sequence or at the
place that is handled first; so a call that is handed over, restored or kept
does not overtake. `Ledgers`: what the ledger drops does not wait, unless the
worker has it, so nothing is skipped. That filtering, shortening and joining
sequences respects the order is shown at the head of the section, from lemmas
about filtered sequences that both `ToolTurnProofs` and `TurnStreamProofs` begin
with.

*Approval queue.* `QueueConsistent` says what a caller can rely on between two
steps; the strengthening (`ApprovalInv`) adds where the worker is. `Holds`: the
pending entries and the current one are the open entries, none twice.
`Presents`: the worker has the front end's session exactly while it presents or
handles a decision, what it presents is no longer queued, and the current entry
is that one or none, if somebody else has settled it meanwhile; a worker
elsewhere presents nothing. Callers wait for entries that exist, so that joining
or cancelling one touches no other. Each action is shown to change the queue in
one of a few ways: entries are settled and taken out, one is appended, or the
next one is taken.

*Tool runner.* `ToolEffects` uses the journal through its operations only
(`UsesTheJournal`), so `EffectJournalProofs` gives `GrantedOnce` and
`EvidenceRemains` in each step (`JournalKeeps`). `Once` adds that one task
executes a manual effect and that its tool, also one that goes on without its
task, starts once. `Truth` adds that nothing is said of the effect while it runs,
by a task, an abandoned call, the journal or the service, and afterwards one
thing, which is true. Steps that leave both alone are treated together.

*Deletion.* A process behind the service's confirmation holds the receipt of its
plan (`Requested`, which gives `RemoteFirst`); the plan of a request that is under
way or was performed is on disk (`IntentRemain`); a process in the cleanup has
barred and emptied the stores before the one it is at (`Cleaned`) and has the
exclusive lock (`Locked`), so no transcript is open for writing (`CleanupAlone`).
`DeletedStaysGone` follows because every writer asks for the tombstone or the
lock in the step in which it writes. Steps that change none of these are shown
once to keep the whole invariant.

*Only model-checked.* The liveness properties `EveryCallerAnswered`,
`UncertainIsSettled`, `StreamEnds`, `CallsAnswered`, `RequestsAnswered` and
`DeletionFinishes`: fairness and ENABLED are out of the prover's reach. The
theorems therefore use only the safety part of each specification.

## Disagreements with the documentation

Each of these runs checks a sentence of the repository and TLC finds a
behaviour of the code that contradicts it.

| Run | What happens |
|---|---|
| `two_writers` | `start()` creates its worker after awaiting `_initialize` without looking at the closing flag again. A submission that waited there while another one's cancellation closed the loop gives the closed loop a worker, beside the worker of the owner's next loop: two Runs of one session execute at once. |
| `review_crash` | A Review whose process died while running keeps the status running. Each 404 leads to `requeue_recovery`, which accepts only `reconciliation_required`, so the Review blocks its session for ever. |
| `delete_kids` | `delete_session` takes the children from the control in memory. A process that resumed the session and deletes it has none, so the plan and the request name the root alone, the children stay at the service, and the local graph store refuses the deletion until the saved graph expires. |

Further behaviours of the models that a reader of the code should know. They
have no run of their own; where a property would forbid them it says so.

- `execute()` checks the closing flag on entry only. A close during its awaits
  puts the stop mark first; the submission lands behind it and its future is
  never completed (`EveryCallerAnswered` is checked without a close).
- The worker's `_refresh_recoveries` is inside `except BaseException`: a
  cancellation that arrives there is swallowed and `close(cancel_running=True)`
  waits for ever.
- A Review requeued by recovery in the same process is answered with the future
  of its first execution.
- A tool whose process dies after the execution and before the result is saved
  runs again on the next observation (`torn` in `RerunOnlyIfTorn`), although
  `ARCHITECTURE_SYSTEM.md` says that effects that cannot be replayed are not
  repeated by a recovering process: a streamed call carries no effect entry.
- A result that is refused because the service closed its call ends the turn's
  only tool worker, and in a replay the classification; calls that arrive later
  in the same turn wait for the end of the turn (exceptions of `CallsAnswered`).
- The start of the approval worker can be cancelled while a new request relies
  on it; the request waits until its caller gives up (`Stranded`).
- A deletion request that never reached the service leaves the session pending:
  recovery only queries, by design, and nothing submits it again.
- A saved graph of a root that another process deleted cannot be flushed; the
  failed checkpoint also makes the flush of other roots raise.

## Not modelled

- JSON encoding, schema migrations, logging and wording in the stores; rows an
  old schema left without an owner.
- Continuations of a Run in the session (request revisions above 1; the store's
  revisions are modelled), the shutdown of the whole owner, a second
  cancellation of a caller that is already closing.
- A cancelled freeze of the remote request is taken as not written; nothing is
  sent in this case, so the service cannot know the turn.
- MCP authorization, nested tools and patch preview in front of a tool call.
- The events inside a tool batch, presentation, transport framing and retry
  delays of a turn; content and size limits of tool results; a gap in the events
  together with tool calls (each is modelled, in `TurnStream` and `ToolTurn`).
- Permission grants and the consumption marks of approval facts.
- More than one root session in `SessionDeletion`, layout checks of the stores,
  archive and fork, the cleanup of hooks, desktop and JavaScript resources.
- The agent mailbox, delivery of messages to a running turn and the agents'
  statuses; process sessions; MCP leases; the subscription's acknowledgements.
  They are stateful and could be modelled the same way; they are outside the
  path from a user's turn to its agreed outcome and were left for later.
- Workspace patches: recursive text algorithms over files.
- Rendering, input, discovery of hooks, configuration layers, request building,
  the sandbox, the backend hub, sidecars and packaging: data conversion, input
  and output, or operating-system behaviour.

The project covers the turn core. Most of the repository's lines are the
terminal interface, renderers, schemas, the backend hub and tools, which hold
little state a model checker could help with.

Hazards that are in the models' behaviours but carry no property: a 404 for a
turn whose submission still arrives later (nothing fences the turn id), an
effect left in dispatching by a cancelled `begin` (safe, but only a person can
settle it), a journal that cannot be read and is reported as not executed, the
cancellation of a newer loop through an older loop's future, and a failing store
in the middle of `close`.

## Plan

Done: `RunDomain`, `RunStore`, `SessionLoop`, `SessionRecovery`, `EffectJournal`,
`ToolEffects`, `TurnFeed`, `TurnStream`, `ToolTurn`, `ApprovalQueue`,
`SessionDeletion`, each with proofs of its safety properties.

Models left: `AgentMailbox` (capacity, claims, checkpoints), process sessions
(start against close), subscription acknowledgement, MCP leases, and a Run as a
single state machine that `RunStore` implements with the log hidden.
