--------------------------- MODULE ApprovalQueue ---------------------------
(***************************************************************************)
(* ApprovalCoordinator (agent/application/approvals/coordinator.py): the   *)
(* queue of questions for the user.  Callers with the same request share   *)
(* one entry; a single worker opens a session of the front end, presents   *)
(* the entries one after the other and ends the session and itself when    *)
(* none is left.                                                           *)
(*                                                                         *)
(* A step is what happens between two awaits; the lock is never held       *)
(* across one, except while the front end ends its session.  An entry that *)
(* is settled has left _by_request_id, so the index is Open(entries): the  *)
(* place of an entry stands for its request id.                            *)
(***************************************************************************)
EXTENDS Integers, Sequences, FiniteSets, SequencesExt

CONSTANTS
  Callers,        \* tasks that ask, each once
  QueueLimit,     \* _queue_limit
  ApprovalBudget  \* bound: how often each trouble happens

\* __init__ refuses other limits.
ASSUME LimitAssumption == QueueLimit \in Nat \ {0}

VARIABLES
  entries,    \* sequence of all _QueuedApproval objects
  queue,      \* the coordinator
  calls,      \* what each caller waits for
  bothers     \* what is left of ApprovalBudget

approvalvars == <<entries, queue, calls, bothers>>

Bother(what) == bothers[what] > 0 /\ bothers' = [bothers EXCEPT ![what] = @ - 1]

NoWorker == [at |-> "none", entry |-> 0, all |-> FALSE]
WorkerAt(where) == [NoWorker EXCEPT !.at = where]
NewEntry(waiters) == [waiters |-> waiters, settled |-> FALSE]

ApprovalInit ==
  /\ entries = << >>
  /\ queue = [pending |-> << >>, current |-> 0, worker |-> NoWorker, session |-> FALSE,
              closed |-> FALSE]
  /\ calls = [c \in Callers |-> [at |-> "idle", entry |-> 0]]
  /\ bothers = ApprovalBudget

Open(es) == {i \in DOMAIN es : ~es[i].settled}

-----------------------------------------------------------------------------
\* A task that is cancelled before its first step never reaches its finally
\* clause: _worker_task keeps naming it.
Cancelled(w) ==
  CASE w.at = "none" -> w
    [] w.at \in {"new", "dead"} -> WorkerAt("dead")
    [] OTHER -> WorkerAt("cancelled")

\* _settle_entry for the entries of S, and _cancel_empty_session_start: with
\* nothing left, a worker whose session has not begun is cancelled.
Settled(es, S) == [i \in DOMAIN es |-> [es[i] EXCEPT !.settled = @ \/ i \in S]]

\* _remove_entry for the entries of S, which are one or all there are.
Others(pending, S) ==
  IF Range(pending) \subseteq S THEN << >>
  ELSE IF Range(pending) \cap S = {} THEN pending
  ELSE RemoveAt(pending, CHOOSE n \in DOMAIN pending : pending[n] \in S)

Without(q, S) ==
  [q EXCEPT !.pending = Others(@, S), !.current = IF @ \in S THEN 0 ELSE @]

CancelEmptyStart(q, es) ==
  IF Open(es) = {} /\ ~q.session THEN [q EXCEPT !.worker = Cancelled(@)] ELSE q

Settle(es, S) ==
  /\ entries' = Settled(es, S)
  /\ queue' = CancelEmptyStart(Without(queue, S), entries')

\* A mutation: the session stays open when nothing is left.
MutAdvance(q) ==
  IF q.pending = << >>
  THEN [q EXCEPT !.worker = NoWorker, !.current = 0]
  ELSE [q EXCEPT !.current = Head(q.pending), !.pending = Tail(@),
                 !.worker = [WorkerAt("presenting") EXCEPT !.entry = Head(q.pending)]]

\* The worker takes the next entry, or ends the session and itself.
Advance(q) ==
  IF q.pending = << >>
  THEN [q EXCEPT !.worker = NoWorker, !.session = FALSE, !.current = 0]
  ELSE [q EXCEPT !.current = Head(q.pending), !.pending = Tail(@),
                 !.worker = [WorkerAt("presenting") EXCEPT !.entry = Head(q.pending)]]

\* _ensure_worker after an entry was appended.
Enqueue(entry) ==
  /\ entries' = Append(entries, entry)
  /\ queue' = [queue EXCEPT !.pending = Append(@, Len(entries) + 1),
                 !.worker = IF @.at = "none" THEN WorkerAt("new") ELSE @]

-----------------------------------------------------------------------------
Full == Cardinality(Open(entries)) >= QueueLimit

\* _enqueue_request.  Refused: the queue is closed or full, or another request
\* has the same id.
RequestRefused(c) ==
  /\ calls[c].at = "idle"
  /\ queue.closed \/ Full \/ Open(entries) # {}
  /\ calls' = [calls EXCEPT ![c].at = "answered"]
  /\ UNCHANGED <<entries, queue, bothers>>

\* The same request is open: one more waits for it.
RequestJoins(c) ==
  /\ calls[c].at = "idle" /\ ~queue.closed
  /\ \E i \in Open(entries) :
       /\ entries' = [entries EXCEPT ![i].waiters = @ + 1]
       /\ calls' = [calls EXCEPT ![c] = [at |-> "waiting", entry |-> i]]
  /\ UNCHANGED <<queue, bothers>>

RequestQueued(c) ==
  /\ calls[c].at = "idle" /\ ~queue.closed /\ ~Full
  /\ Enqueue(NewEntry(1))
  /\ calls' = [calls EXCEPT ![c] = [at |-> "waiting", entry |-> Len(entries')]]
  /\ UNCHANGED bothers

\* restore_pending: an entry nobody waits for.
Restore ==
  /\ ~queue.closed /\ ~Full
  /\ Bother("restore")
  /\ Enqueue(NewEntry(0))
  /\ UNCHANGED calls

\* The shared future is done: the caller has its answer.
Answer(c) ==
  /\ calls[c].at = "waiting" /\ entries[calls[c].entry].settled
  /\ calls' = [calls EXCEPT ![c].at = "answered"]
  /\ entries' = [entries EXCEPT ![calls[c].entry].waiters = @ - 1]
  /\ UNCHANGED <<queue, bothers>>

\* The caller is cancelled; with the last one the entry is declined.  The
\* first step of a new worker is scheduled before any cancellation.
CancelCall(c) ==
  /\ calls[c].at = "waiting" /\ queue.worker.at # "new"
  /\ Bother("cancel")
  /\ LET i  == calls[c].entry
         es == [entries EXCEPT ![i].waiters = @ - 1] IN
       IF es[i].waiters > 0 \/ es[i].settled
       THEN entries' = es /\ UNCHANGED queue
       ELSE Settle(es, {i})
  /\ calls' = [calls EXCEPT ![c].at = "cancelled"]

\* resolve: someone else decides.
Resolve ==
  /\ Bother("resolve")
  /\ \E i \in Open(entries) : Settle(entries, {i})
  /\ UNCHANGED calls

\* close: everything is declined; a worker whose session has not begun is cancelled.
Close ==
  /\ ~queue.closed
  /\ Bother("close")
  /\ entries' = Settled(entries, Open(entries))
  /\ LET q == [Without(queue, Open(entries)) EXCEPT !.closed = TRUE] IN
       queue' = IF Open(entries) # {} THEN CancelEmptyStart(q, entries') ELSE q
  /\ UNCHANGED calls

-----------------------------------------------------------------------------
(* The worker. *)

StartWorker ==
  /\ queue.worker.at = "new"
  /\ queue' = IF queue.closed THEN Advance(queue) ELSE [queue EXCEPT !.worker = WorkerAt("starting")]
  /\ UNCHANGED <<entries, calls, bothers>>

SessionBegins ==
  /\ queue.worker.at = "starting"
  /\ queue' = Advance([queue EXCEPT !.session = TRUE])
  /\ UNCHANGED <<entries, calls, bothers>>

\* The front end cannot begin: the first entry fails and the others are declined.
SessionFails ==
  /\ queue.worker.at = "starting"
  /\ Bother("error")
  /\ entries' = Settled(entries, Open(entries))
  /\ queue' = [Without(queue, Open(entries)) EXCEPT !.worker = NoWorker]
  /\ UNCHANGED calls

\* The cancellation arrives: the finally clause only forgets the worker.
StopWorker ==
  /\ queue.worker.at = "cancelled"
  /\ queue' = [queue EXCEPT !.worker = NoWorker]
  /\ UNCHANGED <<entries, calls, bothers>>

\* The user decides, or the presentation fails; a cancel is meant for all
\* entries, but for a local MCP question.
Present ==
  /\ queue.worker.at = "presenting" /\ queue.worker.entry \in Open(entries)
  /\ \E all \in BOOLEAN :
       queue' = [queue EXCEPT !.worker.at = "decided", !.worker.all = all]
  /\ UNCHANGED <<entries, calls, bothers>>

\* The worker applies the decision unless the entry was settled meanwhile.
Decided ==
  /\ queue.worker.at = "decided"
  /\ LET i == queue.worker.entry
         S == IF i \notin Open(entries) THEN {} ELSE IF queue.worker.all THEN Open(entries) ELSE {i} IN
       entries' = Settled(entries, S) /\ queue' = Advance(Without(queue, S))
  /\ UNCHANGED <<calls, bothers>>

\* A mutation: only closing cancels the presentation of a settled entry.
MutSkipSettled ==
  /\ queue.worker.at = "presenting" /\ queue.worker.entry \notin Open(entries) /\ queue.closed
  /\ queue' = Advance(queue)
  /\ UNCHANGED <<entries, calls, bothers>>

\* The entry was settled by someone else: its presentation is cancelled.
SkipSettled ==
  /\ queue.worker.at = "presenting" /\ queue.worker.entry \notin Open(entries)
  /\ queue' = Advance(queue)
  /\ UNCHANGED <<entries, calls, bothers>>

WorkerMoves == StartWorker \/ SessionBegins \/ StopWorker \/ Present \/ Decided \/ SkipSettled

ApprovalNext ==
  \/ WorkerMoves \/ SessionFails \/ Restore \/ Resolve \/ Close
  \/ \E c \in Callers :
       RequestRefused(c) \/ RequestJoins(c) \/ RequestQueued(c) \/ Answer(c) \/ CancelCall(c)

\* The worker runs, the front end begins its sessions and the user answers.
ApprovalFairness ==
  WF_approvalvars(WorkerMoves) /\ \A c \in Callers : WF_approvalvars(Answer(c))

ApprovalSpec == ApprovalInit /\ [][ApprovalNext]_approvalvars /\ ApprovalFairness

-----------------------------------------------------------------------------
\* The queue holds each open request once, within its limit, and the front
\* end's session is open exactly while the worker presents: no sequence of
\* cancellations, decisions and closing leaves a session or an entry behind.
QueueConsistent ==
  /\ Range(queue.pending) \cup ({queue.current} \ {0}) = Open(entries)
  /\ IsInjective(queue.pending) /\ queue.current \notin Range(queue.pending)
  /\ Cardinality(Open(entries)) <= QueueLimit
  /\ queue.session <=> queue.worker.at \in {"presenting", "decided"}
  /\ queue.closed => Open(entries) = {}

\* Entries are queued, and the worker they relied on was cancelled.
Stranded ==
  /\ Open(entries) # {} /\ Range(queue.pending) = Open(entries)
  /\ queue.worker.at \in {"none", "dead"}

\* A caller that waits is answered or cancelled, unless the queue is stranded:
\* the start of the worker was cancelled while a new request relied on it
\* (_ensure_worker, _cancel_empty_session_start).
RequestsAnswered ==
  \A c \in Callers : (calls[c].at = "waiting") ~> (calls[c].at # "waiting" \/ Stranded)
=============================================================================
