---------------------------- MODULE EffectJournal ----------------------------
(***************************************************************************)
(* LocalEffectJournal (agent/stores/effects/journal.py): the evidence that *)
(* a local side effect was granted, finished or became uncertain, and the  *)
(* frozen tool results, in one SQLite file shared by every process.        *)
(*                                                                         *)
(* Each operation is one transaction and so one action; an operation that  *)
(* raises changes nothing and is no step.  Rows that an old version left   *)
(* without an owner (and the migration that looks for one) are not         *)
(* modelled.  The callers are arbitrary.                                   *)
(***************************************************************************)
EXTENDS Naturals

CONSTANTS
  Effects,    \* EffectIntents: [id |-> .., fingerprint |-> .., replay |-> ..]
  Coords,     \* remote sessions; a journal object is bound to one of them
  Calls,      \* call ids of client tools
  Payloads,   \* results of an effect and frozen tool results
  MaxGrants,  \* bound: executions granted to one effect
  NoRow, NoPayload

Ids == {e.id : e \in Effects}

ASSUME EffectAssumption == \A e \in Effects : e.replay \in {"safe", "manual"}

ASSUME GrantAssumption == MaxGrants \in Nat \ {0}

Statuses == {"prepared", "dispatching", "committed", "reconciliation_required"}

Row == [owner : Coords, fingerprint : {e.fingerprint : e \in Effects},
        replay : {"safe", "manual"}, status : Statuses,
        result : Payloads \cup {NoPayload}]

ASSUME RowAssumption == NoRow \notin Row /\ NoPayload \notin Payloads

VARIABLES
  row,       \* local_effects
  saved,     \* local_tool_results
  retired,   \* retired_session_coordinates and the retired effect ids
  granted    \* history: how often begin answered "execute"

vars == <<row, saved, retired, granted>>

HasRow(i) == row[i] # NoRow

Init ==
  /\ row = [i \in Ids |-> NoRow]
  /\ saved = [c \in Coords |-> [k \in Calls |-> NoPayload]]
  /\ retired = [coords |-> {}, effects |-> {}]
  /\ granted = [i \in Ids |-> 0]

-----------------------------------------------------------------------------
\* Mutations of single rules below, each a plausible slip in the code.
MutUncertain == {"unknown", "reconciliation_required"}
MutRetiredIds(T) == {}
MutFirstWins(c, k, p) == TRUE
MutPrepared(c, e) ==
  IF HasRow(e.id) THEN row[e.id]
  ELSE [owner |-> NoRow, fingerprint |-> e.fingerprint, replay |-> e.replay,
        status |-> "prepared", result |-> NoPayload]

\* _check_owner: the session is alive and the effect is its own.
Owned(c, i) == c \notin retired.coords /\ (HasRow(i) => row[i].owner = c)

\* The statuses after which nobody knows whether the effect took place.
Uncertain == {"dispatching", "unknown", "reconciliation_required"}

\* What begin and inspect answer for the stored row.
Decision(e) ==
  IF ~HasRow(e.id) THEN "execute"
  ELSE IF row[e.id].status = "committed" THEN "reuse"
  ELSE IF row[e.id].status \in Uncertain /\ e.replay = "manual" THEN "reconcile"
  ELSE "execute"

\* inspect raises unless the effect is the caller's and means the same.
CanInspect(c, e) ==
  /\ Owned(c, e.id)
  /\ HasRow(e.id) => /\ row[e.id].fingerprint = e.fingerprint
                     /\ row[e.id].replay = e.replay

\* begin also meets the triggers that guard the retired effect ids.
CanBegin(c, e) == CanInspect(c, e) /\ e.id \notin retired.effects

Prepared(c, e) ==
  IF HasRow(e.id) THEN row[e.id]
  ELSE [owner |-> c, fingerprint |-> e.fingerprint, replay |-> e.replay,
        status |-> "prepared", result |-> NoPayload]

\* The row is made if it is missing; the right to execute is taken in the
\* same transaction.
Begin(c, e) ==
  LET to == CASE Decision(e) = "execute"   -> "dispatching"
              [] Decision(e) = "reconcile" -> "reconciliation_required"
              [] Decision(e) = "reuse"     -> "committed" IN
  /\ CanBegin(c, e)
  /\ Decision(e) = "execute" => granted[e.id] < MaxGrants
  /\ row' = [row EXCEPT ![e.id] = [Prepared(c, e) EXCEPT !.status = to]]
  /\ granted' = [granted EXCEPT ![e.id] = IF Decision(e) = "execute" THEN @ + 1 ELSE @]
  /\ UNCHANGED <<saved, retired>>

\* commit and mark_unknown find their row by id and fingerprint only.
CanSettle(c, e) ==
  /\ Owned(c, e.id)
  /\ HasRow(e.id) /\ row[e.id].fingerprint = e.fingerprint

Commit(c, e, p) ==
  /\ CanSettle(c, e)
  /\ row' = [row EXCEPT ![e.id] = [@ EXCEPT !.status = "committed", !.result = p]]
  /\ UNCHANGED <<saved, retired, granted>>

\* p is the candidate result, NoPayload when the outcome is unknown.
MarkUnknown(c, e, p) ==
  /\ CanSettle(c, e)
  /\ LET result == IF p = NoPayload THEN row[e.id].result ELSE p IN
     row' = [row EXCEPT ![e.id] = [@ EXCEPT !.status = "reconciliation_required",
                                            !.result = result]]
  /\ UNCHANGED <<saved, retired, granted>>

\* reconciliation_result: what may be told to the service.
ReconciliationResult(i) ==
  IF HasRow(i) /\ row[i].status \in {"committed", "reconciliation_required"}
  THEN row[i].result ELSE NoPayload

CanReconcile(c, i) == Owned(c, i) /\ ReconciliationResult(i) # NoPayload

MarkReconciled(c, i) ==
  /\ CanReconcile(c, i)
  /\ row' = [row EXCEPT ![i] = [@ EXCEPT !.status = "committed"]]
  /\ UNCHANGED <<saved, retired, granted>>

\* INSERT OR IGNORE, then the stored payload must be the offered one.
FirstWins(c, k, p) == saved[c][k] \in {NoPayload, p}

SaveToolResult(c, k, p) ==
  /\ c \notin retired.coords
  /\ FirstWins(c, k, p)
  /\ saved' = [saved EXCEPT ![c][k] = p]
  /\ UNCHANGED <<row, retired, granted>>

\* The effects that belong to one of the sessions T.
RetiredIds(T) == {i \in Ids : HasRow(i) /\ row[i].owner \in T}

DeleteSessions(T) ==
  /\ retired' = [coords |-> retired.coords \cup T,
                 effects |-> retired.effects \cup RetiredIds(T)]
  /\ row' = [i \in Ids |-> IF HasRow(i) /\ row[i].owner \in T THEN NoRow ELSE row[i]]
  /\ saved' = [c \in Coords |-> IF c \in T THEN [k \in Calls |-> NoPayload] ELSE saved[c]]
  /\ UNCHANGED granted

Next ==
  \/ \E c \in Coords, e \in Effects : Begin(c, e)
  \/ \E c \in Coords, e \in Effects, p \in Payloads : Commit(c, e, p)
  \/ \E c \in Coords, e \in Effects, p \in Payloads \cup {NoPayload} : MarkUnknown(c, e, p)
  \/ \E c \in Coords, i \in Ids : MarkReconciled(c, i)
  \/ \E c \in Coords, k \in Calls, p \in Payloads : SaveToolResult(c, k, p)
  \/ \E T \in SUBSET Coords : DeleteSessions(T)

Spec == Init /\ [][Next]_vars

-----------------------------------------------------------------------------
\* Type correctness of the tables.
TypeOK ==
  /\ row \in [Ids -> Row \cup {NoRow}]
  /\ saved \in [Coords -> [Calls -> Payloads \cup {NoPayload}]]
  /\ retired \in [coords : SUBSET Coords, effects : SUBSET Ids]
  /\ granted \in [Ids -> Nat]

\* Every intent of effect i forbids an automatic replay.
Manual(i) == \A e \in Effects : e.id = i => e.replay = "manual"

\* The right to execute a manual effect is handed out at most once, whatever
\* the callers do with it afterwards, after any number of failures, and also
\* after its session has been deleted (begin, "manual" replay policy).
GrantedOnce == \A i \in Ids : Manual(i) => granted[i] <= 1

\* The evidence of a granted effect outlives everything but the deletion of
\* its session: it keeps a row that says it may have taken place, and
\* deletion leaves the mark that no row can be made again.
EvidenceRemains ==
  \A i \in Ids :
    /\ granted[i] > 0 => \/ HasRow(i) /\ row[i].status # "prepared"
                         \/ i \in retired.effects
    /\ HasRow(i) => /\ i \notin retired.effects
                    /\ row[i].owner \notin retired.coords

KeepsEvidence(i) ==
  HasRow(i) =>
    /\ HasRow(i)' /\ row'[i].owner = row[i].owner
    /\ row'[i].fingerprint = row[i].fingerprint
    /\ row'[i].replay = row[i].replay
    /\ row[i].result # NoPayload => row'[i].result # NoPayload

KeepsResult(c, k) == saved[c][k] # NoPayload => saved'[c][k] = saved[c][k]

\* Until its session is deleted, an effect never changes its owner, meaning
\* or replay policy and never loses a known result, and a frozen tool result
\* is never replaced (save_tool_result).
EvidenceIsFinal ==
  [][/\ \A i \in Ids : i \notin retired'.effects => KeepsEvidence(i)
     /\ \A c \in Coords : c \notin retired'.coords => \A k \in Calls : KeepsResult(c, k)]_vars
=============================================================================
