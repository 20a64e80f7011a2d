------------------------------ MODULE ToolTurn ------------------------------
(***************************************************************************)
(* The tool calls of one streamed turn on the client: the event consumer   *)
(* (turn_stream.py, tool_turn_boundary.py), the approval handler and its   *)
(* ledger (approval_events.py, ledger.py), the dispatcher with its single  *)
(* worker (tool_dispatch.py, tool_events.py) and the delivery of results   *)
(* (tool_results.py), above the feed that TurnStream implements.           *)
(*                                                                         *)
(* Persistent: what the service knows (external), the results saved in the *)
(* effect journal and the approval decisions.  Everything else dies with   *)
(* the process.  A result is named by the number of the execution that     *)
(* produced it, a rejection by 0.  The start, call and done events of a    *)
(* batch are one event, the done event.                                    *)
(***************************************************************************)
EXTENDS TurnFeed

CONSTANTS
  Calls,       \* identifiers of tool calls
  Asks,        \* those the service wants approved
  MaxRounds,   \* bound: status rounds after a failed post (3 in the code)
  TurnBudget   \* bound: how often each trouble happens

ASSUME AsksAreCalls == Asks \subseteq Calls
ASSUME CallsAssumption == None \notin Calls

VARIABLES
  content,    \* external: what each published event is
  remote,     \* external: what the service knows of each call
  saved,      \* persistent: the result saved for a call, or None
  decided,    \* persistent: the approval decision, or "none"
  task,       \* the consumer that reads the feed, the dispatcher's worker
  ledger,     \* approval state of each call
  tools,      \* the dispatcher
  ran,        \* history: executions of a call
  torn,       \* history: crashes between an execution and its saving
  left        \* what is left of TurnBudget

toolvars == <<content, remote, saved, decided, task, ledger, tools, ran, torn, left>>
turnvars == <<feedvars, toolvars>>

Trouble(what) == left[what] > 0 /\ left' = [left EXCEPT ![what] = @ - 1]

-----------------------------------------------------------------------------
(* Events and the service. *)

Text      == [kind |-> "text", calls |-> << >>]
Ask(c)    == [kind |-> "ask", calls |-> <<c>>]
Batch(cs) == [kind |-> "batch", calls |-> cs]
Terminal  == [kind |-> "end", calls |-> << >>]

\* A call at the service: "none", "asked", "settled" (a decision arrived),
\* "waiting" for its result, "received" or "closed".
NewCall == [status |-> "none", approval |-> "none", result |-> None]

Waiting == {c \in Calls : remote[c].status = "waiting"}
CanAsk(c)  == c \in Asks /\ remote[c].status = "none"
CanCall(c) == IF c \in Asks THEN remote[c].status = "settled" ELSE remote[c].status = "none"

\* The next event; with the last number the turn is over.
PublishAs(what, calls) ==
  /\ FeedPublish
  /\ LastSeq(log') = LastSeq(log) + 1
  /\ over' = (what = Terminal)
  /\ LastSeq(log') = MaxSeq => over'
  /\ content' = [content EXCEPT ![LastSeq(log')] = what]
  /\ remote' = calls
  /\ UNCHANGED <<saved, decided, task, ledger, tools, ran, torn>>

PublishText == LastSeq(log) = 0 /\ PublishAs(Text, remote) /\ UNCHANGED left

\* The service goes on when no call waits any more; it asks one by one.
NothingPending == \A c \in Calls : remote[c].status \notin {"asked", "waiting"}

PublishAsk ==
  /\ NothingPending
  /\ \E c \in Calls :
       CanAsk(c) /\ PublishAs(Ask(c), [remote EXCEPT ![c].status = "asked"])
  /\ UNCHANGED left

PublishBatch ==
  /\ NothingPending
  /\ \E cs \in UNION {[1..n -> Calls] : n \in 1..Cardinality(Calls)} :
       /\ IsInjective(cs) /\ \A i \in DOMAIN cs : CanCall(cs[i])
       /\ PublishAs(Batch(cs), [c \in Calls |->
            IF c \notin Range(cs) THEN remote[c]
            ELSE [remote[c] EXCEPT !.status =
                    IF remote[c].approval = "decline" THEN "closed" ELSE "waiting"]])
  /\ UNCHANGED left

\* The turn ends: nothing is awaited, or it is interrupted.
PublishEnd ==
  /\ IF NothingPending THEN UNCHANGED left ELSE Trouble("close")
  /\ PublishAs(Terminal, [c \in Calls |-> [remote[c] EXCEPT !.status =
                              IF @ \in {"asked", "waiting"} THEN "closed" ELSE @]])

\* The service gives up on a call (execution_timed_out, cancelled).
CloseCall(c) ==
  /\ remote[c].status \in {"asked", "waiting"}
  /\ Trouble("close")
  /\ remote' = [remote EXCEPT ![c].status = "closed"]
  /\ UNCHANGED <<feedvars, content, saved, decided, task, ledger, tools, ran, torn>>

-----------------------------------------------------------------------------
(* The client process. *)

Reader     == [at |-> "read", call |-> None, try |-> 0, todo |-> << >>, keep |-> << >>]
IdleWorker == [at |-> "idle", call |-> None, try |-> 0, result |-> None]
NewTasks   == [consumer |-> Reader, worker |-> IdleWorker]
NewTools(target) ==
  [target |-> target, replayed |-> << >>, queue |-> << >>, aborted |-> FALSE]

TurnInit ==
  /\ log = {} /\ over = FALSE /\ feed = NewFeed /\ handed = << >>
  /\ content = [e \in 1..MaxSeq |-> Text]
  /\ remote = [c \in Calls |-> NewCall]
  /\ saved = [c \in Calls |-> None] /\ decided = [c \in Calls |-> "none"]
  /\ task = NewTasks /\ ledger = [c \in Calls |-> "unknown"] /\ tools = NewTools(None)
  /\ ran = [c \in Calls |-> 0] /\ torn = [c \in Calls |-> 0]
  /\ left = TurnBudget

Reading == Feeding /\ task.consumer.at = "read"

\* The terminal event was handed over (_close_after_yield).
Closing == over /\ feed.cursor = LastSeq(log)

Consumer(t) == task' = [task EXCEPT !.consumer = t]
Worker(t)   == task' = [task EXCEPT !.worker = t]

\* The observation stops: the dispatcher is closed and its worker cancelled.
\* A tool that ran without a saved result leaves no trace.
StopTurn(how) ==
  /\ feed' = [feed EXCEPT !.ended = how]
  /\ task' = NewTasks /\ tools' = NewTools(None)
  /\ torn' = [c \in Calls |->
       IF task.worker.at = "save" /\ task.worker.call = c /\ task.worker.result # 0 THEN torn[c] + 1 ELSE torn[c]]
  /\ UNCHANGED <<log, over, handed>>

\* An error that is not a closed call leaves the turn to reconciliation.
TurnFails == StopTurn("failed")

\* The connection is lost and the history of the turn is frozen anew.  The
\* approval snapshot is restored first: what was decided goes to the ledger,
\* consumed calls included; what is pending is asked now.
Reconnect ==
  /\ Reading /\ ~Closing
  /\ Trouble("fault")
  /\ FeedReplay
  /\ feed'.target = Max(log \cup {feed.cursor})
  /\ ledger' = [c \in Calls |->
       CASE remote[c].approval = "accept" -> "approved"
         [] remote[c].approval = "decline" -> "terminal"
         [] c \in Asks /\ remote[c].status = "closed" -> "terminal"
         [] OTHER -> ledger[c]]
  /\ \/ /\ \A c \in Calls : remote[c].status # "asked"
        /\ UNCHANGED task
     \/ \E c \in Calls : remote[c].status = "asked"
                         /\ Consumer([Reader EXCEPT !.at = "ask", !.call = c])
  /\ UNCHANGED <<content, remote, saved, decided, tools, ran, torn>>

\* _is_historical: only the target of the attach counts, not a later one.
Historical(e) == tools.target # None /\ e <= tools.target

\* One event of the feed reaches its handler.
TakeText ==
  /\ Reading /\ FeedNext
  /\ content[feed'.cursor] = Text
  /\ UNCHANGED toolvars

\* A replayed request may carry its resolution.
TakeAsk ==
  /\ Reading /\ FeedNext
  /\ content[feed'.cursor].kind = "ask"
  /\ LET c == content[feed'.cursor].calls[1]
         known == ledger[c] \in {"approved", "terminal"} IN
       \/ known /\ UNCHANGED <<task, ledger>>
       \/ ~known /\ Consumer([Reader EXCEPT !.at = "ask", !.call = c]) /\ UNCHANGED ledger
       \/ /\ ~known /\ remote[c].status # "asked"
          /\ ledger' = [ledger EXCEPT ![c] =
                          IF remote[c].approval = "accept" THEN "approved" ELSE "terminal"]
          /\ UNCHANGED task
  /\ UNCHANGED <<content, remote, saved, decided, tools, ran, torn, left>>

TakeBatch ==
  /\ Reading /\ FeedNext
  /\ content[feed'.cursor].kind = "batch"
  /\ LET cs == content[feed'.cursor].calls IN
       tools' = IF Historical(feed'.cursor) THEN [tools EXCEPT !.replayed = @ \o cs]
                ELSE [tools EXCEPT !.queue = @ \o cs]
  /\ UNCHANGED <<content, remote, saved, decided, task, ledger, ran, torn, left>>

\* The terminal event: the dispatcher is closed and running tools are
\* cancelled.  A replay that is still open is caught up before the end.
TakeEnd ==
  /\ Reading /\ FeedNext
  /\ content[feed'.cursor] = Terminal
  /\ tools' = [tools EXCEPT !.queue = << >>] /\ task' = NewTasks
  /\ UNCHANGED <<content, remote, saved, decided, ledger, ran, torn, left>>

EndTurn ==
  /\ Reading /\ Closing /\ feed.target = None
  /\ FeedEnd /\ feed'.ended = "settled"
  /\ UNCHANGED toolvars

-----------------------------------------------------------------------------
(* Approvals. *)

\* A mutation: a declined call is forgotten instead of closed.
MutRecordDecision(c, d) == [ledger EXCEPT ![c] = IF d = "accept" THEN "approved" ELSE "unknown"]

RecordDecision(c, d) == [ledger EXCEPT ![c] = IF d = "accept" THEN "approved" ELSE "terminal"]

\* The first decision is stored; asking again after a restart returns it.
Decide ==
  /\ Feeding /\ task.consumer.at = "ask"
  /\ LET c == task.consumer.call IN
       \E d \in {"accept", "decline"} :
         /\ decided[c] \in {"none", d}
         /\ decided' = [decided EXCEPT ![c] = d]
  /\ Consumer([task.consumer EXCEPT !.at = "decided"])
  /\ UNCHANGED <<feedvars, content, remote, saved, ledger, tools, ran, torn, left>>

\* The service takes the decision of a pending call.
Settled(c) ==
  IF remote[c].status = "asked"
  THEN [remote EXCEPT ![c].status = "settled", ![c].approval = decided[c]]
  ELSE remote

\* The call was closed before anyone decided.
NotPending(c) == remote[c].status = "closed" /\ remote[c].approval = "none"

\* The decision is reported; a call that is closed stays closed here as well.
ReportDecision ==
  /\ Feeding /\ task.consumer.at = "decided"
  /\ LET c == task.consumer.call IN
       /\ remote' = Settled(c)
       /\ ledger' = IF NotPending(c) THEN [ledger EXCEPT ![c] = "terminal"]
                    ELSE RecordDecision(c, decided[c])
  /\ Consumer(Reader)
  /\ UNCHANGED <<feedvars, content, saved, decided, tools, ran, torn, left>>

\* The report gets no answer, whether it was applied or not: the turn fails.
ReportLost ==
  /\ Feeding /\ task.consumer.at = "decided"
  /\ Trouble("fault")
  /\ remote' \in {remote, Settled(task.consumer.call)}
  /\ TurnFails
  /\ ledger' = [ledger EXCEPT ![task.consumer.call] = "unknown"]
  /\ UNCHANGED <<content, saved, decided, ran>>

-----------------------------------------------------------------------------
(* The replayed calls, once the feed has caught up. *)

CatchUp ==
  /\ Reading /\ FeedCatchUp
  /\ Consumer([Reader EXCEPT !.at = "classify", !.todo = tools.replayed])
  /\ UNCHANGED <<content, remote, saved, decided, ledger, tools, ran, torn, left>>

Classifying == Feeding /\ task.consumer.at = "classify"
NextToDo(t) == [t EXCEPT !.at = "classify", !.todo = Tail(@)]

\* A mutation: a saved result is not looked for.
MutReplayAction(c) == IF remote[c].status # "waiting" THEN "skip" ELSE "execute"

\* resolve_replayed_call: the service's answer first, then the saved result.
ReplayAction(c) ==
  CASE remote[c].status # "waiting" -> "skip"
    [] saved[c] # None -> "deliver"
    [] OTHER -> "execute"

\* A mutation: the call whose saved result is delivered is not named.
MutClassify ==
  /\ Classifying /\ task.consumer.todo # << >>
  /\ LET t == task.consumer
         c == Head(t.todo) IN
       Consumer(CASE ReplayAction(c) = "skip" -> NextToDo(t)
                  [] ReplayAction(c) = "execute" -> [NextToDo(t) EXCEPT !.keep = Append(@, c)]
                  [] OTHER -> [t EXCEPT !.at = "post"])
  /\ UNCHANGED <<feedvars, content, remote, saved, decided, ledger, tools, ran, torn, left>>

Classify ==
  /\ Classifying /\ task.consumer.todo # << >>
  /\ LET t == task.consumer
         c == Head(t.todo) IN
       Consumer(CASE ReplayAction(c) = "skip" -> NextToDo(t)
                  [] ReplayAction(c) = "execute" -> [NextToDo(t) EXCEPT !.keep = Append(@, c)]
                  [] OTHER -> [t EXCEPT !.at = "post", !.call = c, !.try = 0])
  /\ UNCHANGED <<feedvars, content, remote, saved, decided, ledger, tools, ran, torn, left>>

ClassifyFails ==
  /\ Classifying /\ task.consumer.todo # << >>
  /\ Trouble("fault")
  /\ TurnFails
  /\ UNCHANGED <<content, remote, saved, decided, ledger, ran>>

\* A mutation: what still waits is forgotten.
MutExecuteRecovery ==
  /\ Classifying /\ task.consumer.todo = << >>
  /\ tools' = [tools EXCEPT !.target = None, !.replayed = << >>]
  /\ Consumer(Reader)
  /\ UNCHANGED <<feedvars, content, remote, saved, decided, ledger, ran, torn, left>>

\* All are classified: what still waits is handed to the worker.
ExecuteRecovery ==
  /\ Classifying /\ task.consumer.todo = << >>
  /\ tools' = [tools EXCEPT !.target = None, !.replayed = << >>, !.aborted = FALSE,
                            !.queue = @ \o task.consumer.keep]
  /\ Consumer(Reader)
  /\ UNCHANGED <<feedvars, content, remote, saved, decided, ledger, ran, torn, left>>

-----------------------------------------------------------------------------
(* The worker. *)

\* A mutation: the queue is served from its end.
MutStartCall ==
  /\ Feeding /\ task.worker.at = "idle" /\ tools.queue # << >>
  /\ LET c == Last(tools.queue) IN
       IF ledger[c] \in {"consumed", "terminal"}
       THEN UNCHANGED <<task, ledger>>
       ELSE /\ Worker([IdleWorker EXCEPT !.at = "run", !.call = c])
            /\ ledger' = [ledger EXCEPT ![c] = "consumed"]
  /\ tools' = [tools EXCEPT !.queue = Front(@)]
  /\ UNCHANGED <<feedvars, content, remote, saved, decided, ran, torn, left>>

\* ledger.consume: a call that was consumed or closed is dropped.
StartCall ==
  /\ Feeding /\ task.worker.at = "idle" /\ tools.queue # << >>
  /\ LET c == Head(tools.queue) IN
       IF ledger[c] \in {"consumed", "terminal"}
       THEN UNCHANGED <<task, ledger>>
       ELSE /\ Worker([IdleWorker EXCEPT !.at = "run", !.call = c])
            /\ ledger' = [ledger EXCEPT ![c] = "consumed"]
  /\ tools' = [tools EXCEPT !.queue = Tail(@)]
  /\ UNCHANGED <<feedvars, content, remote, saved, decided, ran, torn, left>>

Execute ==
  /\ Feeding /\ task.worker.at = "run"
  /\ ran' = [ran EXCEPT ![task.worker.call] = @ + 1]
  /\ Worker([task.worker EXCEPT !.at = "save", !.result = ran'[task.worker.call]])
  /\ UNCHANGED <<feedvars, content, remote, saved, decided, ledger, tools, torn, left>>

\* A hook, the local policy or the user refuses: the answer is a rejection.
Reject ==
  /\ Feeding /\ task.worker.at = "run"
  /\ Worker([task.worker EXCEPT !.at = "save", !.result = 0])
  /\ UNCHANGED <<feedvars, content, remote, saved, decided, ledger, tools, ran, torn, left>>

\* The tool was interrupted: the worker ends without an error.
ToolInterrupted ==
  /\ Feeding /\ task.worker.at = "run"
  /\ Trouble("interrupt")
  /\ Worker([task.worker EXCEPT !.at = "closed"])
  /\ UNCHANGED <<feedvars, content, remote, saved, decided, ledger, tools, ran, torn>>

\* A mutation: the result is posted first and saved then.
MutSaveResult ==
  /\ Feeding /\ task.worker.at = "save"
  /\ LET c == task.worker.call IN
       IF remote[c].status = "waiting"
       THEN /\ remote' = [remote EXCEPT ![c].status = "received", ![c].result = task.worker.result]
            /\ UNCHANGED <<task, saved>>
       ELSE saved' = [saved EXCEPT ![c] = task.worker.result] /\ Worker(IdleWorker) /\ UNCHANGED remote
  /\ UNCHANGED <<feedvars, content, decided, ledger, tools, ran, torn, left>>

\* deliver: the result is saved before it is posted; another one that was
\* saved for the call is an error.
SaveResult ==
  /\ Feeding /\ task.worker.at = "save"
  /\ LET c == task.worker.call IN
       /\ saved' = IF saved[c] = None THEN [saved EXCEPT ![c] = task.worker.result] ELSE saved
       /\ Worker([task.worker EXCEPT !.at =
                    IF saved'[c] = task.worker.result THEN "post" ELSE "failed"])
  /\ UNCHANGED <<feedvars, content, remote, decided, ledger, tools, ran, torn, left>>

\* read_event: an error of the worker that is not a closed call ends the turn.
ReapWorker ==
  /\ Reading /\ task.worker.at = "failed"
  /\ TurnFails
  /\ UNCHANGED <<content, remote, saved, decided, ledger, ran, left>>

-----------------------------------------------------------------------------
(* Delivery of a saved result, by the worker or for a replayed call. *)

Delivering(who, at) == Feeding /\ task[who].at = at

\* The delivery of task t is done, or its call turns out to be closed, or it fails.
Delivered(who) ==
  /\ task' = [task EXCEPT ![who] = IF who = "worker" THEN IdleWorker ELSE NextToDo(@)]
  /\ UNCHANGED <<feedvars, tools, torn>>

\* A closed call ends the worker, and the classification under way, for good.
ClosedError(who) ==
  /\ task' = [task EXCEPT ![who] = IF who = "worker" THEN [@ EXCEPT !.at = "closed"] ELSE Reader]
  /\ tools' = IF who = "worker" THEN tools ELSE [tools EXCEPT !.aborted = TRUE]
  /\ UNCHANGED <<feedvars, torn>>

DeliveryFails(who) ==
  IF who = "worker"
  THEN task' = [task EXCEPT ![who].at = "failed"] /\ UNCHANGED <<feedvars, tools, torn>>
  ELSE TurnFails

\* The service stores the first result of a call that waits.
Received(c) ==
  IF remote[c].status = "waiting"
  THEN [remote EXCEPT ![c].status = "received", ![c].result = saved[c]]
  ELSE remote

Post(who) ==
  /\ Delivering(who, "post")
  /\ remote' = Received(task[who].call)
  /\ \/ remote[task[who].call].status \in {"waiting", "received"} /\ Delivered(who)
     \/ remote[task[who].call].status \in {"closed", "received"} /\ ClosedError(who)
  /\ UNCHANGED <<content, saved, decided, ledger, ran, left>>

\* No answer, whether the result arrived or not: ask for the status, unless
\* the rounds are used up.
PostLost(who) ==
  /\ Delivering(who, "post")
  /\ Trouble("fault")
  /\ remote' \in {remote, Received(task[who].call)}
  /\ IF task[who].try < MaxRounds
     THEN /\ task' = [task EXCEPT ![who].at = "status", ![who].try = @ + 1]
          /\ UNCHANGED <<feedvars, tools, torn>>
     ELSE DeliveryFails(who)
  /\ UNCHANGED <<content, saved, decided, ledger, ran>>

\* The status decides whether the result arrived; else it is posted again.
Query(who) ==
  /\ Delivering(who, "status")
  /\ LET status == remote[task[who].call].status IN
       CASE status = "received" -> Delivered(who)
         [] status = "closed" -> ClosedError(who)
         [] OTHER -> task' = [task EXCEPT ![who].at = "post"] /\ UNCHANGED <<feedvars, tools, torn>>
  /\ UNCHANGED <<content, remote, saved, decided, ledger, ran, left>>

\* The status cannot be read: post again, or give up on a final error.
QueryFails(who) ==
  /\ Delivering(who, "status")
  /\ Trouble("fault")
  /\ \/ task' = [task EXCEPT ![who].at = "post"] /\ UNCHANGED <<feedvars, tools, torn>>
     \/ DeliveryFails(who)
  /\ UNCHANGED <<content, remote, saved, decided, ledger, ran>>

-----------------------------------------------------------------------------
\* The process dies.
Crash ==
  /\ Feeding
  /\ Trouble("crash")
  /\ TurnFails
  /\ UNCHANGED <<content, remote, saved, decided, ledger, ran>>

\* reconcile_remote_session observes a turn that is not over: from its first
\* event, up to the last one the status names, with a new ledger.
Observe ==
  /\ feed.ended = "failed" /\ ~over
  /\ feed' = [NewFeed EXCEPT !.target = LastSeq(log), !.phase = "replaying"]
  /\ handed' = << >>
  /\ tools' = NewTools(LastSeq(log)) /\ task' = NewTasks
  /\ ledger' = [c \in Calls |-> "unknown"]
  /\ UNCHANGED <<log, over, content, remote, saved, decided, ran, torn, left>>

Takes     == TakeText \/ TakeAsk \/ TakeBatch \/ TakeEnd \/ EndTurn
Approving == Decide \/ ReportDecision
Catching  == CatchUp \/ Classify \/ ExecuteRecovery
Delivers(who) == Post(who) \/ Query(who)
ConsumerStep  == Takes \/ Approving \/ Catching \/ ReapWorker \/ Delivers("consumer") \/ Observe
WorkerStep    == StartCall \/ Execute \/ Reject \/ SaveResult \/ Delivers("worker")
ServiceStep   == PublishText \/ PublishAsk \/ PublishBatch \/ PublishEnd \/ \E c \in Calls : CloseCall(c)
TroubleStep   ==
  \/ Reconnect \/ ReportLost \/ ClassifyFails \/ ToolInterrupted \/ Crash
  \/ \E who \in {"consumer", "worker"} : PostLost(who) \/ QueryFails(who)

TurnNext == ConsumerStep \/ WorkerStep \/ ServiceStep \/ TroubleStep

TurnSpec == TurnInit /\ [][TurnNext]_turnvars

\* Both tasks run on the event loop, the user answers, the process comes back.
FairTurnSpec == TurnSpec /\ WF_turnvars(ConsumerStep) /\ WF_turnvars(WorkerStep)

-----------------------------------------------------------------------------
\* Type correctness; a task that handles a call knows which.
TurnTypeOK ==
  /\ \A c \in Calls : /\ remote[c].status \in {"none", "asked", "settled", "waiting", "received", "closed"}
                      /\ remote[c].result \in {None} \cup 0..ran[c]
                      /\ saved[c] \in {None} \cup 0..ran[c]
  /\ ledger \in [Calls -> {"unknown", "approved", "terminal", "consumed"}]
  /\ decided \in [Calls -> {"none", "accept", "decline"}]
  /\ task.worker.at \in {"idle", "run", "save", "post", "status", "closed", "failed"}
  /\ task.consumer.at \in {"read", "ask", "decided", "classify", "post", "status"}
  /\ \A who \in {"consumer", "worker"} :
       task[who].at \in {"ask", "decided", "run", "save", "post", "status"} => task[who].call \in Calls
  /\ tools.queue \in Seq(Calls) /\ tools.replayed \in Seq(Calls)

\* A call runs again only if its result was lost with the process or the
\* observation: reconnects, replays, restored approvals and repeated
\* deliveries never run it twice (resolve_replayed_call, ledger.consume).
RerunOnlyIfTorn == \A c \in Calls : ran[c] <= 1 + torn[c]

\* The result the service holds is the one the journal has: whatever is lost,
\* repeated or executed again, nobody can deliver another (deliver).
ResultsAgree == \A c \in Calls : remote[c].result # None => remote[c].result = saved[c]

\* A call the user declined does not run, in this process or a later one,
\* even if the service still sends it (ApprovalEventHandler, ledger).
DeclinedNeverRuns == \A c \in Calls : decided[c] = "decline" => ran[c] = 0

\* The service brought call c before d: in an earlier batch, or further ahead.
Precedes(c, d) ==
  \E e, f \in log : \E i \in DOMAIN content[e].calls, j \in DOMAIN content[f].calls :
    /\ content[e].kind = "batch" /\ content[e].calls[i] = c
    /\ content[f].kind = "batch" /\ content[f].calls[j] = d
    /\ e < f \/ (e = f /\ i < j)

\* A call runs only when every earlier call of the turn has its answer:
\* neither a reconnect nor a replay lets a call overtake another.
InOrder == task.worker.at = "run" => \A c \in Waiting : ~Precedes(c, task.worker.call)

Holds(c) ==
  \/ c \in Range(tools.replayed) \cup Range(tools.queue)
  \/ task.worker.call = c \/ c \in Range(task.consumer.todo) \cup Range(task.consumer.keep)

\* A call the client was given gets its result to the service, unless the
\* observation ends, or a closed call has stopped the worker or the
\* classification (tool_dispatch).
CallsAnswered ==
  \A c \in Calls : (Feeding /\ Holds(c) /\ c \in Waiting)
    ~> (c \notin Waiting \/ ~Feeding \/ task.worker.at = "closed" \/ tools.aborted)
=============================================================================
