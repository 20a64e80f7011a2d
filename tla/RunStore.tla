------------------------------ MODULE RunStore ------------------------------
(***************************************************************************)
(* SQLiteRunStore (agent/stores/runs/store.py): the event log, snapshot,   *)
(* outbox row, recovery resolution and frozen remote request of every Run, *)
(* and the retirement marks deletion leaves behind.                        *)
(*                                                                         *)
(* Each operation is one BEGIN IMMEDIATE transaction, so each is one       *)
(* action.  An operation that raises rolls back: it changes nothing and is *)
(* no step here; its condition is the negation of the action's guard.  The *)
(* callers are arbitrary.  Several processes may open the same file, so    *)
(* Next lets any writer offer any well formed event at any time: late,     *)
(* repeated, out of order, or about a Run that another writer moved on.    *)
(***************************************************************************)
EXTENDS RunDomain, Integers, Sequences, FiniteSets

CONSTANTS
  Commands,     \* the RunCommands that may be submitted (records, see below)
  Writers,      \* who created an event: a retry repeats the writer's event
  Bodies,       \* contents of a frozen remote request (its fingerprint)
  Requests,     \* request ids of recovery decisions
  Targets,      \* deletion targets: [coord |-> .., locals |-> ..]
  MaxSequence,  \* bound: events offered for one Run
  MaxRevision,  \* bound: frozen requests saved for one Run
  NoCoord, NoCommand, NoDecision, NoRemote

CommandIds == {c.command_id : c \in Commands}
Runs       == {c.run_id : c \in Commands}
Sessions   == {c.session_id : c \in Commands} \cup (UNION {t.locals : t \in Targets})
Turns      == {c.turn_id : c \in Commands}
Coords     == {c.coord : c \in Commands \cup Targets} \ {NoCoord}

\* The fingerprint covers every field of a command except command_id.
FieldsAgree(c, d) ==
  /\ c.session_id = d.session_id
  /\ c.run_id = d.run_id
  /\ c.idempotency_key = d.idempotency_key
  /\ c.coord = d.coord
  /\ c.turn_id = d.turn_id

ASSUME CommandAssumption ==
  \A c \in Commands : NoCommand # c

ASSUME FingerprintAssumption ==
  \A c, d \in Commands : c.fingerprint = d.fingerprint => FieldsAgree(c, d)

ASSUME BoundAssumption ==
  MaxSequence \in Nat \ {0} /\ MaxRevision \in Nat \ {0}

Resolutions == {"committed", "failed", "not_executed"}
Decision    == [request : Requests, resolution : Resolutions]

ASSUME DecisionAssumption == NoDecision \notin Decision

ASSUME TargetAssumption == \A t \in Targets : t.coord # NoCoord

\* A RunEvent as append_event receives it: event_json is equal exactly when
\* sequence, kind and writer are, because event_id is fresh for each event.
Event == [sequence : 1..MaxSequence, kind : EventKinds, writer : Writers]

\* A row of run_remote_requests.
RemoteRequest == [turn : Turns, body : Bodies, revision : Nat]

ASSUME RemoteAssumption == NoRemote \notin RemoteRequest

VARIABLES
  command,   \* run_snapshots.command_json, NoCommand when there is no row
  status,    \* run_snapshots.status
  sequence,  \* run_snapshots.sequence
  effect,    \* run_snapshots.effect_status
  events,    \* run_events of the Run in sequence order
  outbox,    \* run_outbox: status and attempt_count
  decision,  \* run_facts of kind recovery_resolution, position 0
  remote,    \* run_remote_requests: turn, body and revision
  retired,   \* retired coordinates, local sessions and runs
  acked      \* history: <<run, event>> that append_event returned from

rows == <<command, status, sequence, effect, events, outbox, decision, remote>>
vars == <<rows, retired, acked>>

HasRow(r) == command[r] # NoCommand

Init ==
  /\ command = [r \in Runs |-> NoCommand]
  /\ status = [r \in Runs |-> "created"]
  /\ sequence = [r \in Runs |-> 0]
  /\ effect = [r \in Runs |-> "pending"]
  /\ events = [r \in Runs |-> << >>]
  /\ outbox = [r \in Runs |-> [status |-> "pending", attempts |-> 0]]
  /\ decision = [r \in Runs |-> NoDecision]
  /\ remote = [r \in Runs |-> NoRemote]
  /\ retired = [coords |-> {}, sessions |-> {}, runs |-> {}]
  /\ acked = {}

-----------------------------------------------------------------------------
\* Mutations of single rules below, each a plausible slip in the code.
MutWritable(c) == c.run_id \notin retired.runs
MutIdentityFree(c) ==
  \A r \in Runs : HasRow(r) => command[r].command_id # c.command_id
MutNextInSequence(r, e) == e.sequence > sequence[r]
MutAttempts(target) == IF target \in {"queued", "running"} THEN 1 ELSE 0
MutSameEvent(r, e) == events[r][e.sequence].kind = e.kind
MutUndecided(r) == TRUE

\* The retirement triggers on the Run tables.
Writable(c) ==
  /\ c.session_id \notin retired.sessions
  /\ c.run_id \notin retired.runs

\* UNIQUE (command_id) and UNIQUE (session_id, idempotency_key).
IdentityFree(c) ==
  \A r \in Runs : HasRow(r) =>
    /\ command[r].command_id # c.command_id
    /\ ~ /\ command[r].session_id = c.session_id
         /\ command[r].idempotency_key = c.idempotency_key

\* _validate_identity: the row belongs to the same intent.
SameIdentity(row, c) ==
  /\ row.session_id = c.session_id
  /\ row.run_id = c.run_id
  /\ row.idempotency_key = c.idempotency_key
  /\ row.fingerprint = c.fingerprint

\* Single writer order: only the event right after the last one is new.
NextInSequence(r, e) == e.sequence = sequence[r] + 1

\* attempt_count grows when the Run is dispatched.
Attempts(target) == IF target = "running" THEN 1 ELSE 0

\* event_json of the stored event equals the offered one.
SameEvent(r, e) == events[r][e.sequence] = e

\* The conditions _append_event checks before it writes.
CanInsert(c, e) ==
  /\ ~HasRow(c.run_id)
  /\ EventStatus(e.kind) = "queued" /\ e.sequence = 1
  /\ Writable(c) /\ IdentityFree(c)

CanAdvance(c, e) ==
  LET r == c.run_id IN
  /\ HasRow(r) /\ SameIdentity(command[r], c)
  /\ NextInSequence(r, e)
  /\ EventStatus(e.kind) \in Transitions(status[r])
  /\ Writable(c)

CanRepeat(c, e) ==
  LET r == c.run_id IN
  /\ HasRow(r) /\ SameIdentity(command[r], c)
  /\ e.sequence = sequence[r]
  /\ SameEvent(r, e)

Accepts(c, e) ==
  /\ c.coord \notin retired.coords
  /\ CanInsert(c, e) \/ CanAdvance(c, e) \/ CanRepeat(c, e)

InsertInitialRun(c, e) ==
  LET r == c.run_id IN
  /\ CanInsert(c, e)
  /\ command' = [command EXCEPT ![r] = c]
  /\ status' = [status EXCEPT ![r] = "queued"]
  /\ sequence' = [sequence EXCEPT ![r] = 1]
  /\ effect' = [effect EXCEPT ![r] = "pending"]
  /\ events' = [events EXCEPT ![r] = <<e>>]
  /\ outbox' = [outbox EXCEPT ![r] = [status |-> "pending", attempts |-> 0]]
  /\ UNCHANGED <<decision, remote>>

AdvanceRun(c, e) ==
  LET r      == c.run_id
      target == EventStatus(e.kind) IN
  /\ CanAdvance(c, e)
  /\ status' = [status EXCEPT ![r] = target]
  /\ sequence' = [sequence EXCEPT ![r] = e.sequence]
  /\ effect' = [effect EXCEPT ![r] = OutboxStatus(target)]
  /\ events' = [events EXCEPT ![r] = Append(@, e)]
  /\ outbox' = [outbox EXCEPT ![r] =
                  [status |-> OutboxStatus(target),
                   attempts |-> @.attempts + Attempts(target)]]
  /\ UNCHANGED <<command, decision, remote>>

\* The same event offered again is accepted when it is still the latest one.
RepeatLatest(c, e) == CanRepeat(c, e) /\ UNCHANGED rows

AppendEvent(c, e) ==
  /\ Accepts(c, e)
  /\ InsertInitialRun(c, e) \/ AdvanceRun(c, e) \/ RepeatLatest(c, e)
  /\ acked' = acked \cup {<<c.run_id, e>>}
  /\ UNCHANGED retired

\* find_run: the single row that shares run, command or intent identity.
FindRun(c) ==
  {r \in Runs : HasRow(r) /\ \/ r = c.run_id
                             \/ command[r].command_id = c.command_id
                             \/ /\ command[r].session_id = c.session_id
                                /\ command[r].idempotency_key = c.idempotency_key}

\* recover_session: unfinished and not yet decided (as a set).
RecoverSession(s) ==
  {r \in Runs : /\ HasRow(r) /\ command[r].session_id = s
                /\ status[r] \in Recoverable
                /\ decision[r] = NoDecision}

\* No recovery_resolution fact exists yet; a repeated request only reads it.
Undecided(r) == decision[r] = NoDecision

ResolveRecovery(r, d) ==
  /\ HasRow(r) /\ status[r] \in Recoverable
  /\ Undecided(r)
  /\ r \notin retired.runs
  /\ decision' = [decision EXCEPT ![r] = d]
  /\ LET to == IF d.resolution = "committed" THEN "committed" ELSE "failed" IN
     /\ effect' = [effect EXCEPT ![r] = to]
     /\ outbox' = [outbox EXCEPT ![r].status = to]
  /\ UNCHANGED <<command, status, sequence, events, remote, retired, acked>>

\* UNIQUE (cid, sid, turn_id) over the frozen requests.
TurnFree(c, t) ==
  \A r \in Runs \ {c.run_id} :
    remote[r] # NoRemote => ~(command[r].coord = c.coord /\ remote[r].turn = t)

SaveRemoteRequest(c, t, b) ==
  LET r == c.run_id IN
  /\ c.coord # NoCoord /\ HasRow(r) /\ command[r] = c
  /\ c.coord \notin retired.coords /\ r \notin retired.runs
  /\ TurnFree(c, t)
  /\ \/ /\ remote[r] = NoRemote /\ t = c.turn_id
        /\ remote' = [remote EXCEPT ![r] = [turn |-> t, body |-> b, revision |-> 1]]
     \/ /\ remote[r] # NoRemote /\ remote[r].turn # t
        /\ remote[r].revision < MaxRevision
        /\ remote' = [remote EXCEPT ![r] =
                        [turn |-> t, body |-> b, revision |-> @.revision + 1]]
  /\ UNCHANGED <<command, status, sequence, effect, events, outbox, decision,
                 retired, acked>>

\* The remote sessions a local session has ever been bound to.
Bindings(s) ==
  {command[r].coord : r \in {q \in Runs : HasRow(q) /\ command[q].session_id = s}}
    \ {NoCoord}

\* The local sessions a deletion covers: the named ones and the ones that
\* hold a Run bound to one of the deleted remote sessions.
Doomed(T) ==
  LET coords == {t.coord : t \in T} IN
  (UNION {t.locals : t \in T})
    \cup {s \in Sessions : Bindings(s) \cap coords # {}}

DeleteSessions(T) ==
  LET coords == {t.coord : t \in T}
      gone   == {r \in Runs : HasRow(r) /\ command[r].session_id \in Doomed(T)}
      Clear(f, v) == [r \in Runs |-> IF r \in gone THEN v ELSE f[r]] IN
  /\ \A s \in Doomed(T) : Bindings(s) \subseteq coords
  /\ retired' = [coords |-> retired.coords \cup coords,
                 sessions |-> retired.sessions \cup Doomed(T),
                 runs |-> retired.runs \cup gone]
  /\ command' = Clear(command, NoCommand)
  /\ status' = Clear(status, "created")
  /\ sequence' = Clear(sequence, 0)
  /\ effect' = Clear(effect, "pending")
  /\ events' = Clear(events, << >>)
  /\ outbox' = Clear(outbox, [status |-> "pending", attempts |-> 0])
  /\ decision' = Clear(decision, NoDecision)
  /\ remote' = Clear(remote, NoRemote)
  /\ UNCHANGED acked

Next ==
  \/ \E c \in Commands, e \in Event : AppendEvent(c, e)
  \/ \E r \in Runs, d \in Decision : ResolveRecovery(r, d)
  \/ \E c \in Commands, t \in Turns, b \in Bodies : SaveRemoteRequest(c, t, b)
  \/ \E T \in SUBSET Targets : T # {} /\ DeleteSessions(T)

Spec == Init /\ [][Next]_vars

-----------------------------------------------------------------------------
\* Type correctness of the tables.
TypeOK ==
  /\ command \in [Runs -> Commands \cup {NoCommand}]
  /\ status \in [Runs -> RunStatus]
  /\ sequence \in [Runs -> Nat]
  /\ effect \in [Runs -> EffectStatuses]
  /\ events \in [Runs -> Seq(Event)]
  /\ outbox \in [Runs -> [status : EffectStatuses, attempts : Nat]]
  /\ decision \in [Runs -> Decision \cup {NoDecision}]
  /\ remote \in [Runs -> RemoteRequest \cup {NoRemote}]
  /\ retired \in [coords : SUBSET Coords, sessions : SUBSET Sessions,
                  runs : SUBSET Runs]
  /\ acked \in SUBSET (Runs \X Event)

\* Numbered 1, 2, .. without a gap, queued first, then along _TRANSITIONS.
LegalHistory(h) ==
  /\ EventStatus(h[1].kind) = "queued"
  /\ \A i \in 1..Len(h) : h[i].sequence = i
  /\ \A i \in 1..(Len(h) - 1) :
       EventStatus(h[i + 1].kind) \in Transitions(EventStatus(h[i].kind))

Replays(r) ==
  IF HasRow(r)
  THEN /\ sequence[r] = Len(events[r]) /\ sequence[r] > 0
       /\ LegalHistory(events[r])
       /\ status[r] = EventStatus(events[r][sequence[r]].kind)
       /\ command[r].run_id = r
  ELSE /\ events[r] = << >> /\ status[r] = "created"
       /\ decision[r] = NoDecision /\ remote[r] = NoRemote

\* The snapshot of a Run is what its event log replays to: the log numbers
\* its events 1, 2, .. without a gap, starts with queued, moves only along
\* _TRANSITIONS and ends in the snapshot's status and sequence.  A Run
\* without a row has no events, decision or request (append_event,
\* delete_sessions).
LogReplaysToSnapshot == \A r \in Runs : Replays(r)

\* The dispatches a history shows.
Dispatches(h) == {i \in 1..Len(h) : h[i].kind = "run_started"}

OutboxAgrees(r) ==
  /\ effect[r] = outbox[r].status
  /\ outbox[r].attempts = Cardinality(Dispatches(events[r]))
  /\ decision[r] = NoDecision =>
       outbox[r].status = IF sequence[r] = 1 THEN "pending" ELSE OutboxStatus(status[r])

\* While nobody has decided a Run's recovery, its outbox row agrees with its
\* status, and in every case the row counts the dispatches the log shows:
\* as many attempts as run_started events (outbox_update, _advance_run).
OutboxMatchesLog == \A r \in Runs : HasRow(r) => OutboxAgrees(r)

\* An event whose append_event returned is in the log at its own sequence
\* until its Run is deleted.  So of two writers that both believe they
\* advanced a Run to sequence n, at most one was told so.
AckedIsDurable ==
  \A a \in acked :
    \/ a[1] \in retired.runs
    \/ /\ a[2].sequence \in 1..Len(events[a[1]])
       /\ events[a[1]][a[2].sequence] = a[2]

\* Two Runs never hold the same command, the same idempotency key of one
\* session, or a frozen request for the same remote turn.
IdentitiesUnique ==
  \A q, r \in {x \in Runs : HasRow(x)} : q # r =>
    /\ command[q].command_id # command[r].command_id
    /\ command[q].session_id = command[r].session_id =>
         command[q].idempotency_key # command[r].idempotency_key
    /\ (remote[q] # NoRemote /\ remote[r] # NoRemote
          /\ command[q].coord = command[r].coord) =>
         remote[q].turn # remote[r].turn

\* Nothing that deletion retired holds a row: no Run of a retired session,
\* no retired Run, and no Run bound to a retired remote session, however
\* late the writer that tries to bring it back (retirement triggers and the
\* coordinate check of _append_event).
RetiredStaysGone ==
  \A r \in Runs : HasRow(r) =>
    /\ r \notin retired.runs
    /\ command[r].session_id \notin retired.sessions
    /\ command[r].coord \notin retired.coords

KeepsHistory(r) ==
  /\ status[r] \in Terminal => status'[r] = status[r]
  /\ decision[r] # NoDecision => decision'[r] = decision[r]
  /\ Len(events[r]) <= Len(events'[r])
  /\ \A i \in 1..Len(events[r]) : events'[r][i] = events[r][i]

\* A Run leaves a terminal status only by deletion, a recovery decision is
\* never replaced, and the log of a Run only grows (_advance_run,
\* _resolve_recovery, delete_sessions).
HistoryIsFinal ==
  [][\A r \in Runs : r \notin retired'.runs => KeepsHistory(r)]_vars
=============================================================================
