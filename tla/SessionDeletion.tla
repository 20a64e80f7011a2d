-------------------------- MODULE SessionDeletion --------------------------
(***************************************************************************)
(* Deleting a conversation (/delete and /delete recover): several client   *)
(* processes on one state directory, the six local stores, the persistent  *)
(* deletion intents and the service that deletes the remote copies.        *)
(*                                                                         *)
(* One root session and its child sessions (sub-agents) are modelled.  A   *)
(* step of a process is what happens between two awaits.  Operations on    *)
(* the root session hold _session_mutation_lock, so a process is in at     *)
(* most one of them; its running turn writes to the stores all the while.  *)
(***************************************************************************)
EXTENDS Integers, FiniteSets

CONSTANTS
  Procs,           \* client processes
  Root,            \* the session to be deleted
  Kids,            \* sessions of its sub-agents
  MaxRequests,     \* bound: deletion requests the users make
  DeletionBudget,  \* bound: turns, uses of agents, switches and troubles in all
  Nobody, NoIntent, NoControl

ASSUME RequestsAssumption == MaxRequests \in Nat /\ DeletionBudget \in Nat
ASSUME NobodyAssumption == Nobody \notin Procs
ASSUME PlanAssumption == NoIntent \notin [targets : SUBSET ({Root} \cup Kids), complete : BOOLEAN]
ASSUME ControlAssumption == NoControl \notin [rev : Nat, kids : SUBSET Kids, saved : BOOLEAN]

VARIABLES
  rows,        \* <<store, session>> pairs that hold data
  barred,      \* <<store, session>> pairs with a tombstone
  checkpoint,  \* saved agent graph: revision and recorded children
  intents,     \* session_deletions: request -> plan
  lease,       \* process with the exclusive transcript locks
  procs,       \* the processes
  asked,       \* request ids used so far
  net,         \* deletion requests on their way to the service
  remote,      \* the service: deleted sessions and receipts
  upsets       \* what is left of DeletionBudget

stores  == <<rows, barred, checkpoint>>
delvars == <<rows, barred, checkpoint, intents, lease, procs, asked, net, remote, upsets>>

Sessions == {Root} \cup Kids
Requests == 1 .. MaxRequests
Databases == {"effects", "approvals", "runs", "graph", "history"}
Stores    == Databases \cup {"transcript"}

\* The stores that hold data of a session: only a root has a graph, a history
\* cursor and Runs of the session loop.
Holds(s) == IF s = Root THEN Stores ELSE {"effects", "approvals", "transcript"}

Upset == upsets > 0 /\ upsets' = upsets - 1

\* at: where the process is in its operation; own: its snapshots are at hand.
Idle == [at |-> "idle", req |-> 0, plan |-> {}, own |-> FALSE]
Fresh == [op |-> Idle, bound |-> FALSE, retired |-> FALSE, turn |-> FALSE,
          writer |-> FALSE, control |-> NoControl]

At(p, where)   == procs[p].op.at = where
Move(p, op)    == procs' = [procs EXCEPT ![p].op = op]
Goto(p, where) == Move(p, [procs[p].op EXCEPT !.at = where])

\* A mutation: the transcript locks are kept.
MutGiveUp(p) == Move(p, Idle) /\ UNCHANGED lease

\* The operation ends; the transcript locks are released.
GiveUp(p) == Move(p, Idle) /\ lease' = IF lease = p THEN Nobody ELSE lease

KidsOf(control) == IF control = NoControl THEN {} ELSE control.kids

\* Root and the children a control remembers: _deletion_request.
Scope(control) == {Root} \cup KidsOf(control)

Intents == {r \in Requests : intents[r] # NoIntent}
Claimed == \E r \in Intents : Root \in intents[r].targets   \* for_session

\* A conversation that was used before, perhaps with sub-agents.
DeletionInit ==
  /\ \E kids \in {{}, Kids} :
       /\ checkpoint = [rev |-> IF kids = {} THEN 0 ELSE 1, kids |-> kids]
       /\ rows = UNION {Holds(s) \X {s} : s \in {Root} \cup kids}
                   \ (IF kids = {} THEN {<<"graph", Root>>} ELSE {})
  /\ barred = {}
  /\ intents = [r \in Requests |-> NoIntent]
  /\ lease = Nobody
  /\ procs = [p \in Procs |-> Fresh]
  /\ asked = 0
  /\ net = {}
  /\ remote = [deleted |-> {}, receipts |-> {}]
  /\ upsets = DeletionBudget

-----------------------------------------------------------------------------
(* Sessions and turns. *)

\* A mutation: the triggers and markers do not refuse late writes.
MutPut(rs, store, s) == rs \cup {<<store, s>>}

\* A write to a store: a trigger, or the transcript's marker, refuses a
\* session that was deleted, and the writer logs that and goes on.
Put(rs, store, s) == IF <<store, s>> \in barred THEN rs ELSE rs \cup {<<store, s>>}

\* _assert_session_available, for bind and begin_turn: refused when the session
\* belongs to a deletion request.  The rest follows after an await.
CheckAvailable(p) ==
  /\ At(p, "idle") /\ ~procs[p].turn /\ ~procs[p].retired /\ ~Claimed
  /\ IF procs[p].bound THEN Upset ELSE UNCHANGED upsets
  /\ Goto(p, "available")
  /\ UNCHANGED <<stores, intents, lease, asked, net, remote>>

Bind(p) ==
  /\ At(p, "available") /\ ~procs[p].bound
  /\ procs' = [procs EXCEPT ![p].op = Idle, ![p].bound = TRUE]
  /\ rows' = Put(rows, "history", Root)
  /\ UNCHANGED <<barred, checkpoint, intents, lease, asked, net, remote, upsets>>

\* The turn opens its transcript under a shared lock, or goes on without one
\* when that is being or has been deleted.
BeginTurn(p) ==
  /\ At(p, "available") /\ procs[p].bound
  /\ procs' = [procs EXCEPT ![p].op = Idle, ![p].turn = TRUE,
                 ![p].writer = lease = Nobody /\ <<"transcript", Root>> \notin barred]
  /\ rows' = Put(rows, "history", Root)
  /\ UNCHANGED <<barred, checkpoint, intents, lease, asked, net, remote, upsets>>

\* Everything a running turn and its sub-agents write.  A transcript that is
\* open is appended to without another look at its marker.
TurnWrites(p) ==
  /\ procs[p].turn
  /\ \E s \in {Root} \cup KidsOf(procs[p].control) : \E store \in Holds(s) \ {"graph"} :
       IF store = "transcript"
       THEN procs[p].writer /\ rows' = rows \cup {<<store, s>>}
       ELSE rows' = Put(rows, store, s)
  /\ UNCHANGED <<barred, checkpoint, intents, lease, procs, asked, net, remote, upsets>>

EndTurn(p) ==
  /\ procs[p].turn
  /\ procs' = [procs EXCEPT ![p].turn = FALSE, ![p].writer = FALSE]
  /\ UNCHANGED <<stores, intents, lease, asked, net, remote, upsets>>

-----------------------------------------------------------------------------
(* The agent graph. *)

\* AgentGraphStore.save: a newer revision replaces the row, unless it is barred.
SaveGraph(control, rs) ==
  LET saved == <<"graph", Root>> \notin barred /\ control.rev > checkpoint.rev IN
  /\ checkpoint' = IF saved THEN [rev |-> control.rev, kids |-> control.kids] ELSE checkpoint
  /\ rows' = IF saved THEN Put(rs, "graph", Root) ELSE rs

\* _build_control: the saved graph or an empty one; restoring publishes it.
Restored == IF <<"graph", Root>> \in rows
            THEN [rev |-> checkpoint.rev + 1, kids |-> checkpoint.kids, saved |-> FALSE]
            ELSE [rev |-> 0, kids |-> {}, saved |-> TRUE]

\* A turn lists its sub-agents or spawns one: the graph is restored first.
UseAgents(p) ==
  /\ procs[p].turn
  /\ Upset
  /\ LET control == IF procs[p].control = NoControl THEN Restored ELSE procs[p].control IN
     \E new \in {{}} \cup {{k} : k \in Kids \ control.kids} :
       procs' = [procs EXCEPT ![p].control =
         IF new = {} THEN control
         ELSE [rev |-> control.rev + 1, kids |-> control.kids \cup new, saved |-> FALSE]]
  /\ UNCHANGED <<stores, intents, lease, asked, net, remote>>

\* AgentGraphPersistence writes the published checkpoint.
PersistGraph(p) ==
  /\ procs[p].control # NoControl
  /\ ~procs[p].control.saved
  /\ SaveGraph(procs[p].control, rows)
  /\ procs' = [procs EXCEPT ![p].control.saved = TRUE]
  /\ UNCHANGED <<barred, intents, lease, asked, net, remote, upsets>>

\* shutdown_root: the control is forgotten and its last checkpoint flushed; the
\* flush raises when the graph is barred.
FlushFails(p) == KidsOf(procs[p].control) # {} /\ <<"graph", Root>> \in barred
ShutdownRoot(p, rs) ==
  IF KidsOf(procs[p].control) = {}
  THEN rows' = rs /\ UNCHANGED checkpoint
  ELSE SaveGraph([procs[p].control EXCEPT !.rev = @ + 1], rs)

\* The end of a session in its transcript, unless that is locked or deleted.
EndRecorded == IF lease = Nobody THEN Put(rows, "transcript", Root) ELSE rows

\* The user switches to another session; a graph that cannot be flushed keeps
\* the process where it is.
Unbind(p) ==
  /\ At(p, "idle") /\ procs[p].bound /\ ~procs[p].turn
  /\ Upset
  /\ IF procs[p].retired THEN UNCHANGED <<rows, checkpoint>> ELSE ShutdownRoot(p, EndRecorded)
  /\ procs' = [procs EXCEPT ![p].bound = ~procs[p].retired /\ FlushFails(p),
                            ![p].control = NoControl]
  /\ UNCHANGED <<barred, intents, lease, asked, net, remote>>

-----------------------------------------------------------------------------
(* delete_session *)

\* The session is claimed by no request: the sub-agents are shut down and the
\* scope is what their control remembered.
Delete(p) ==
  /\ At(p, "idle") /\ procs[p].bound /\ asked < MaxRequests
  /\ asked' = asked + 1
  /\ IF Claimed
     THEN /\ procs' = [procs EXCEPT ![p].retired =
               @ \/ \E r \in Intents : Root \in intents[r].targets /\ intents[r].complete]
          /\ UNCHANGED <<rows, checkpoint>>
     ELSE /\ ShutdownRoot(p, rows)
          /\ procs' = [procs EXCEPT ![p].control = NoControl,
               ![p].op = IF FlushFails(p) THEN Idle ELSE
                 [at |-> "prepare", req |-> asked', plan |-> Scope(procs[p].control), own |-> TRUE]]
  /\ UNCHANGED <<barred, intents, lease, net, remote, upsets>>

\* prepare: the plan is saved unless another request claims a target.
Overlaps(r, plan) == \E q \in Intents \ {r} : intents[q].targets \cap plan # {}

Prepare(p) ==
  LET op == procs[p].op IN
  /\ At(p, "prepare")
  /\ IF Overlaps(op.req, op.plan)
     THEN Move(p, Idle) /\ UNCHANGED <<intents, net>>
     ELSE /\ intents' = [intents EXCEPT ![op.req] = [targets |-> op.plan, complete |-> FALSE]]
          /\ net' = net \cup {[req |-> op.req, targets |-> op.plan]}
          /\ Goto(p, "sent")
  /\ UNCHANGED <<stores, lease, asked, remote, upsets>>

\* The service deletes all targets and keeps a receipt, or refuses; the client
\* hears of it if it still waits.
Answered(m, answer) ==
  [p \in Procs |-> IF At(p, "sent") /\ procs[p].op.req = m.req
                   THEN [procs[p] EXCEPT !.op = IF answer = "lost" THEN Idle
                                                        ELSE [@ EXCEPT !.at = answer]]
                   ELSE procs[p]]

Perform(m) ==
  /\ m \in net /\ net' = net \ {m}
  /\ remote' = [deleted |-> remote.deleted \cup m.targets, receipts |-> remote.receipts \cup {m}]
  /\ procs' = Answered(m, "confirmed")
  /\ UNCHANGED <<stores, intents, lease, asked, upsets>>

Refuse(m) ==
  /\ m \in net /\ net' = net \ {m}
  /\ Upset
  /\ procs' = Answered(m, "refused")
  /\ UNCHANGED <<stores, intents, lease, asked, remote>>

\* The request never arrives.
Lose(m) ==
  /\ m \in net /\ net' = net \ {m}
  /\ Upset
  /\ procs' = Answered(m, "lost")
  /\ UNCHANGED <<stores, intents, lease, asked, remote>>

\* rejected: only a refusal of the original submission releases the intent.
Rejected(p) ==
  /\ At(p, "refused")
  /\ intents' = [intents EXCEPT ![procs[p].op.req] = NoIntent]
  /\ Move(p, Idle)
  /\ UNCHANGED <<stores, lease, asked, net, remote, upsets>>

\* A mutation: an unknown result releases the intent as well.
MutUnknown(p) ==
  /\ At(p, "sent")
  /\ Upset
  /\ intents' = [intents EXCEPT ![procs[p].op.req] = NoIntent]
  /\ Move(p, Idle)
  /\ UNCHANGED <<stores, lease, asked, net, remote>>

\* No answer, an unusable answer or a cancelled wait: the result is unknown.
Unknown(p) ==
  /\ At(p, "sent")
  /\ Upset
  /\ Move(p, Idle)
  /\ UNCHANGED <<stores, intents, lease, asked, net, remote>>

\* recover_delete: the saved request is looked up and the service queried.
Recover(p, r) ==
  /\ At(p, "idle") /\ r \in Intents
  /\ IF intents[r].complete
     THEN procs' = [procs EXCEPT ![p].retired = @ \/ procs[p].bound]
     ELSE Move(p, [at |-> "query", req |-> r, plan |-> intents[r].targets, own |-> FALSE])
  /\ UNCHANGED <<stores, intents, lease, asked, net, remote, upsets>>

\* A mutation: a request the service does not know counts as deleted.
MutQuery(p) ==
  /\ At(p, "query")
  /\ Goto(p, "confirmed")
  /\ UNCHANGED <<stores, intents, lease, asked, net, remote, upsets>>

\* Only a receipt for the same targets confirms; its absence proves nothing.
Query(p) ==
  LET op == procs[p].op IN
  /\ At(p, "query")
  /\ IF [req |-> op.req, targets |-> op.plan] \in remote.receipts
     THEN Goto(p, "confirmed") ELSE Move(p, Idle)
  /\ UNCHANGED <<stores, intents, lease, asked, net, remote, upsets>>

-----------------------------------------------------------------------------
(* _complete_deletion *)

\* The identity is retired; in a recovery the sub-agents are shut down, which
\* may show that the scope has changed.
Retire(p) ==
  LET op == procs[p].op
      changed == ~(Scope(procs[p].control) \subseteq op.plan) IN
  /\ At(p, "confirmed")
  /\ procs' = [procs EXCEPT
       ![p].retired = @ \/ procs[p].bound,
       ![p].control = IF op.own THEN @ ELSE NoControl,
       ![p].op = IF ~op.own /\ (FlushFails(p) \/ changed) THEN Idle ELSE [op EXCEPT !.at = "close"]]
  /\ IF op.own THEN UNCHANGED <<rows, checkpoint>> ELSE ShutdownRoot(p, rows)
  /\ UNCHANGED <<barred, intents, lease, asked, net, remote, upsets>>

\* retire_session waits for the turn; then the end is recorded.
CloseRuntime(p) ==
  /\ At(p, "close") /\ ~procs[p].turn
  /\ rows' = IF procs[p].bound THEN EndRecorded ELSE rows
  /\ Goto(p, "lock")
  /\ UNCHANGED <<barred, checkpoint, intents, lease, asked, net, remote, upsets>>

\* The store's delete: nothing to do, or all transcripts are locked, which an
\* open writer prevents.
Lock(p) ==
  LET op == procs[p].op IN
  /\ At(p, "lock")
  /\ IF intents[op.req].complete \/ lease # Nobody \/ \E q \in Procs : procs[q].writer
     THEN Move(p, Idle) /\ UNCHANGED lease
     ELSE Goto(p, "retire") /\ lease' = p
  /\ UNCHANGED <<stores, intents, asked, net, remote, upsets>>

\* A mutation: the tombstone names the plan instead of its sessions.
MutPairs(store, plan) == {store} \X {plan}

Pairs(store, plan) == {store} \X plan

\* The transcripts are marked first and removed later.
MarkTranscripts(p) ==
  /\ At(p, "retire")
  /\ barred' = barred \cup Pairs("transcript", procs[p].op.plan)
  /\ Goto(p, "effects")
  /\ UNCHANGED <<rows, checkpoint, intents, lease, asked, net, remote, upsets>>

RemoveTranscripts(p) ==
  /\ At(p, "transcript")
  /\ rows' = rows \ Pairs("transcript", procs[p].op.plan)
  /\ Goto(p, "graph")
  /\ UNCHANGED <<barred, checkpoint, intents, lease, asked, net, remote, upsets>>

NextStore(store) ==
  CASE store = "effects"   -> "approvals"
    [] store = "approvals" -> "runs"
    [] store = "runs"      -> "transcript"
    [] store = "graph"     -> "history"
    [] store = "history"   -> "mark"

\* delete_sessions of a database: tombstones and deletion in one transaction.
\* The graph refuses when it records a child outside the plan.
Omitted(plan) == <<"graph", Root>> \in rows /\ ~(checkpoint.kids \subseteq plan)

WipeDatabase(p) ==
  LET op == procs[p].op IN
  /\ op.at \in Databases
  /\ ~(op.at = "graph" /\ Omitted(op.plan))
  /\ barred' = barred \cup Pairs(op.at, op.plan)
  /\ rows' = rows \ Pairs(op.at, op.plan)
  /\ Goto(p, NextStore(op.at))
  /\ UNCHANGED <<checkpoint, intents, lease, asked, net, remote, upsets>>

GraphRefuses(p) ==
  /\ At(p, "graph") /\ Omitted(procs[p].op.plan)
  /\ GiveUp(p)
  /\ UNCHANGED <<stores, intents, asked, net, remote, upsets>>

MarkComplete(p) ==
  /\ At(p, "mark")
  /\ intents' = [intents EXCEPT ![procs[p].op.req].complete = TRUE]
  /\ GiveUp(p)
  /\ UNCHANGED <<stores, asked, net, remote, upsets>>

-----------------------------------------------------------------------------
(* Failures. *)

\* A step of an operation raises or is cancelled.
Fail(p) ==
  /\ procs[p].op.at \notin {"idle", "sent"}
  /\ Upset
  /\ GiveUp(p)
  /\ UNCHANGED <<stores, intents, asked, net, remote>>

\* The process dies and starts again; the system releases its locks.
Crash(p) ==
  /\ Upset
  /\ procs' = [procs EXCEPT ![p] = Fresh]
  /\ lease' = IF lease = p THEN Nobody ELSE lease
  /\ UNCHANGED <<stores, intents, asked, net, remote>>

\* The saved graph grows too old and is pruned.
Expire ==
  /\ <<"graph", Root>> \in rows
  /\ Upset
  /\ rows' = rows \ {<<"graph", Root>>}
  /\ checkpoint' = [rev |-> 0, kids |-> {}]
  /\ UNCHANGED <<barred, intents, lease, procs, asked, net, remote>>

-----------------------------------------------------------------------------
Operation(p) ==
  \/ Bind(p) \/ BeginTurn(p) \/ EndTurn(p) \/ PersistGraph(p)
  \/ Prepare(p) \/ Rejected(p) \/ Query(p)
  \/ Retire(p) \/ CloseRuntime(p) \/ Lock(p)
  \/ MarkTranscripts(p) \/ WipeDatabase(p) \/ RemoveTranscripts(p) \/ GraphRefuses(p)
  \/ MarkComplete(p)

DeletionNext ==
  \/ \E p \in Procs :
       \/ Operation(p)
       \/ Unbind(p) \/ CheckAvailable(p) \/ TurnWrites(p) \/ UseAgents(p)
       \/ Delete(p) \/ Unknown(p) \/ Fail(p) \/ Crash(p)
       \/ \E r \in Requests : Recover(p, r)
  \/ \E m \in net : Perform(m) \/ Refuse(m) \/ Lose(m)
  \/ Expire

DeletionSpec == DeletionInit /\ [][DeletionNext]_delvars

\* A process goes on with what it has begun, and its user recovers a deletion
\* that is not complete.
DeletionFairness ==
  \A p \in Procs : WF_delvars(Operation(p) \/ \E r \in Requests : Recover(p, r))

FairDeletionSpec == DeletionSpec /\ DeletionFairness

-----------------------------------------------------------------------------
DeletionTypeOK ==
  /\ rows \subseteq Stores \X Sessions /\ barred \subseteq Stores \X Sessions
  /\ checkpoint \in [rev : Nat, kids : SUBSET Kids]
  /\ \A r \in Requests : intents[r] = NoIntent
       \/ intents[r] \in [targets : SUBSET Sessions, complete : BOOLEAN]
  /\ lease \in Procs \cup {Nobody}
  /\ asked \in 0 .. MaxRequests
  /\ net \subseteq [req : Requests, targets : SUBSET Sessions]
  /\ remote.deleted \subseteq Sessions
  /\ remote.receipts \subseteq [req : Requests, targets : SUBSET Sessions]

\* Once a deletion is marked complete, no store holds anything of its targets
\* and none ever will again, whatever turns, agents and processes still run.
DeletedStaysGone ==
  \A r \in Intents : intents[r].complete =>
    \A t \in intents[r].targets :
      /\ rows \cap (Stores \X {t}) = {}
      /\ Stores \X {t} \subseteq barred

\* Nothing local is deleted, or barred, that the service has not deleted.
RemoteFirst == \A pair \in barred : pair[2] \in remote.deleted

\* While a deletion request may reach the service, or the service has carried
\* it out, its plan is on disk: no crash, refusal or lost answer forgets it.
IntentRemains ==
  \A m \in net \cup remote.receipts :
    m.req \in Intents /\ intents[m.req].targets = m.targets

\* What the service has deleted is eventually gone here, unless the saved agent
\* graph names a child the plan omits (Omitted).
DeletionFinishes ==
  \A r \in Requests :
    (\E m \in remote.receipts : m.req = r)
      ~> (intents[r] # NoIntent /\ (intents[r].complete \/ Omitted(intents[r].targets)))

\* /delete deletes the sub-agents of the session too: the service deletes the
\* children the saved graph records along with the root.
KidsDeletedToo ==
  Root \in remote.deleted /\ <<"graph", Root>> \in rows => checkpoint.kids \subseteq remote.deleted
=============================================================================
