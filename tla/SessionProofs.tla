------------------------------ MODULE SessionProofs ------------------------------
(***************************************************************************)
(* Proofs about SessionRecovery for any number of commands, callers, loops *)
(* and troubles: the session uses the Run store only through its           *)
(* operations, an executing Run is the durable running one, whatever the   *)
(* service knows was recorded first, when no submission is under way no    *)
(* loop that somebody answers for holds anything, and such a loop begins   *)
(* to execute only under a gate that knows of every uncertain Run it       *)
(* could know of.  What the store itself guarantees is taken from          *)
(* RunStoreProofs.                                                         *)
(***************************************************************************)
EXTENDS SessionRecovery, FiniteSetTheorems, TLAPS

Proofs == INSTANCE RunStoreProofs WITH Bodies <- {"frozen"}, Targets <- {}

-----------------------------------------------------------------------------
(* The inductive invariant. *)

\* Where a worker has a Run, and where it is executing it.
Executing == {"exec", "frozen", "posted", "settle", "abort"}
Working   == {"start", "refresh"} \cup Executing

Modes   == {"unborn", "open", "draining", "drained", "cancelling", "broken", "closed", "dead"}
Futures == {"none", "pending", "done", "cancelled"}
Places  == {"idle", "init", "lock", "lookup", "enqueue", "wait", "cancel", "closing"}
Turns   == {"absent", "running", "completed", "failed"}

Entry     == Runs \cup {Stop}
WorkerRec == [at : {"none", "idle", "ended"} \cup Working, run : Runs \cup {Nobody},
              next : RunStatus \cup {"none"}]
ActorRec  == [status : RunStatus, sequence : 0..MaxSequence]
LoopRec   == [mode : Modes, ready : BOOLEAN, gate : [blocked : BOOLEAN, first : Runs \cup {Nobody}],
              gateFailed : BOOLEAN, queue : Seq(Entry), lock : Callers \cup {Nobody},
              worker : WorkerRec, future : [Runs -> Futures], actor : [Runs -> ActorRec]]
CallerRec == [at : Places, run : Runs \cup {Nobody}, loop : {0} \cup Loops]
Snap      == [run : Runs, status : RunStatus, sequence : Nat]
RecRec    == [at : {"idle", "next", "asked", "observe"}, todo : SUBSET Snap,
              snapshot : Snap \cup {Nobody}, seen : Turns \cup {"none"}, observe : SUBSET Runs]
GhostRec  == [run : Runs, event : Store!Event]

Typed ==
  /\ owner \in {0} \cup Loops /\ loop \in [Loops -> LoopRec] /\ caller \in [Callers -> CallerRec]
  /\ server \in [Runs -> Turns] /\ wire \subseteq Runs /\ ghosts \subseteq GhostRec
  /\ rec \in RecRec /\ (rec.at = "asked" => rec.snapshot \in Snap)
  /\ \A k \in Callers : caller[k].at # "idle" => caller[k].run \in Runs /\ caller[k].loop \in Loops

\* The events this session writes.
Offered == {"run_queued", "run_redispatch_queued", "run_started", "run_completed", "run_failed",
            "run_cancelled", "run_reconciliation_required"}

\* Entry i of a Run's log leaves room for the rest of its execution.
Fits(e, i) ==
  /\ e.kind \in Offered
  /\ EventStatus(e.kind) = "queued" => i + 2 <= MaxSequence
  /\ e.kind = "run_started" => i + 1 <= MaxSequence

\* What the actor of l remembers was in the log, and running was its own word.
Remembers(l, r) ==
  LET a == loop[l].actor[r] IN
  \/ a.sequence = 0 /\ a.status = "created"
  \/ /\ a.sequence \in 1..Len(events[r])
     /\ EventStatus(events[r][a.sequence].kind) = a.status
     /\ a.status = "running" => events[r][a.sequence].writer = <<l, "worker">>

Queued(o) == {o.queue[i] : i \in 1..Len(o.queue)}

\* Loop object o has Run r in its queue or its worker.
Holds(o, r) == r \in Queued(o) \/ o.worker.run = r

\* A Run is at one place of a loop, and somebody can wait for its future.
OneTask(o) ==
  /\ \A i, j \in 1..Len(o.queue) : o.queue[i] = o.queue[j] /\ o.queue[i] \in Runs => i = j
  /\ o.worker.run \in Runs <=> o.worker.at \in Working
  /\ o.worker.run \in Runs => o.worker.run \notin Queued(o)
  /\ \A r \in Runs : Holds(o, r) => o.future[r] # "none"
  /\ \A r \in Runs : r \in Queued(o) => o.actor[r].status = "queued"
  /\ o.worker.at = "start" => o.actor[o.worker.run].status = "queued"
  /\ o.worker.at = "settle" => o.worker.next \in {"completed", "failed", "reconciliation_required"}
  /\ o.worker.at = "abort" => o.worker.next \in {"cancelled", "reconciliation_required"}

\* What the mode of a loop says about it.
InMode(o) ==
  /\ o.mode = "unborn" => o = NewLoop
  /\ o.mode = "open" => \A r \in Runs : Holds(o, r) => o.future[r] = "pending"
  /\ o.mode \in {"open", "cancelling"} => Stop \notin Queued(o)

\* The Run a worker executes is as its actor left it.
Executes(l) ==
  LET w == loop[l].worker IN
  /\ w.at \in Executing => /\ loop[l].actor[w.run].status = "running"
                           /\ loop[l].actor[w.run].sequence = sequence[w.run]
  /\ w.at \in {"frozen", "posted"} => remote[w.run] # NoRemote

\* An abandoned write is the first one of its Run, or was made by a worker
\* that has nothing more to do with it.
Abandoned(g) ==
  \/ g.event.kind = "run_queued" /\ g.event.sequence = 1
  \/ \E m \in Loops :
       /\ loop[m].future[g.run] # "none" /\ ~Holds(loop[m], g.run)
       /\ g.event.kind \in Offered /\ EventStatus(g.event.kind) # "queued"
       /\ g.event.kind # "run_started" =>
            /\ g.event.sequence - 1 \in 1..Len(events[g.run])
            /\ events[g.run][g.event.sequence - 1].writer = <<m, "worker">>

\* A submission that prepares its Run has the lock and registers it first.
Submits(k) ==
  LET c == caller[k]
      o == loop[c.loop] IN
  c.at # "idle" =>
    /\ o.mode # "unborn" /\ decision[c.run] = NoDecision
    /\ c.at \in {"lookup", "enqueue"} => o.lock = k /\ o.future[c.run] = "none"

\* Somebody answers for a loop that is kept.
Served(l) ==
  /\ loop[l].mode = "open" <=> owner = l
  /\ loop[l].mode = "open" => \A r \in Runs : Holds(loop[l], r) =>
       \E k \in Callers : caller[k].at \in {"wait", "cancel"} /\ caller[k].loop = l
                            /\ caller[k].run = r
  /\ loop[l].mode = "cancelling" =>
       \E k \in Callers : caller[k].at = "closing" /\ caller[k].loop = l
  /\ Kept(l) => \A r \in Runs : Holds(loop[l], r) => decision[r] = NoDecision

\* What the service may know of Run r can be found again.
Sent(r) ==
  r \in wire \/ server[r] # "absent" => remote[r] # NoRemote /\ outbox[r].attempts > 0

StoreInv == Store!TypeOK /\ Store!LogReplaysToSnapshot /\ Store!OutboxMatchesLog

LogInv == \A r \in Runs : \A i \in 1..Len(events[r]) : Fits(events[r][i], i)

LoopInv ==
  /\ \A l \in Loops : OneTask(loop[l]) /\ InMode(loop[l]) /\ Executes(l) /\ Served(l)
  /\ \A l \in Loops, r \in Runs : Remembers(l, r)

SessionInv ==
  /\ StoreInv /\ Typed /\ LogInv /\ LoopInv
  /\ \A g \in ghosts : Abandoned(g)
  /\ \A k \in Callers : Submits(k)
  /\ rec.at # "idle" => BetweenTurns
  /\ \A r \in Runs : Sent(r)

-----------------------------------------------------------------------------
(* The store, as RunStoreProofs knows it. *)

\* The tables of RunDomain are the same everywhere.
LEMMA SameTables ==
  /\ Store!EventKinds = EventKinds /\ Proofs!EventKinds = EventKinds
  /\ Store!RunStatus = RunStatus /\ Proofs!RunStatus = RunStatus
  /\ Store!Recoverable = Recoverable /\ Proofs!Recoverable = Recoverable
  /\ Store!EffectStatuses = Proofs!EffectStatuses
  /\ \A k : Store!EventStatus(k) = EventStatus(k) /\ Proofs!EventStatus(k) = EventStatus(k)
  /\ \A s : Store!Transitions(s) = Transitions(s) /\ Proofs!Transitions(s) = Transitions(s)
  /\ \A s : Store!OutboxStatus(s) = Proofs!OutboxStatus(s)
BY Zenon
DEF EventKinds, RunStatus, Recoverable, EventStatus, Transitions, Store!EventKinds, Proofs!EventKinds,
    Store!RunStatus, Proofs!RunStatus, Store!Recoverable, Proofs!Recoverable, Store!EffectStatuses,
    Proofs!EffectStatuses, Store!EventStatus, Proofs!EventStatus, Store!Transitions, Proofs!Transitions,
    Store!OutboxStatus, Proofs!OutboxStatus

\* The two instances say the same.
LEMMA SameStates ==
  /\ Store!TypeOK <=> Proofs!TypeOK
  /\ Store!LogReplaysToSnapshot <=> Proofs!LogReplaysToSnapshot
  /\ Store!OutboxMatchesLog <=> Proofs!OutboxMatchesLog
  /\ Store!Init <=> Proofs!Init
  /\ Store!Decision = Proofs!Decision /\ Store!RemoteRequest = Proofs!RemoteRequest
  /\ \A c, d : Store!FieldsAgree(c, d) <=> Proofs!FieldsAgree(c, d)
<1>1. /\ Store!Runs = Proofs!Runs /\ Store!Sessions = Proofs!Sessions /\ Store!Turns = Proofs!Turns
      /\ Store!Coords = Proofs!Coords /\ Store!Decision = Proofs!Decision
      /\ Store!Event = Proofs!Event /\ Store!RemoteRequest = Proofs!RemoteRequest
  BY SameTables, Zenon DEF Store!Runs, Proofs!Runs, Store!Sessions, Proofs!Sessions, Store!Turns, Proofs!Turns,
               Store!Coords, Proofs!Coords, Store!Decision, Proofs!Decision, Store!Resolutions,
               Proofs!Resolutions, Store!Event, Proofs!Event, Store!RemoteRequest, Proofs!RemoteRequest
<1>2. Store!TypeOK <=> Proofs!TypeOK
  BY <1>1, SameTables, Zenon DEF Store!TypeOK, Proofs!TypeOK
<1>3. \A r : Store!HasRow(r) <=> Proofs!HasRow(r)
  BY Zenon DEF Store!HasRow, Proofs!HasRow
<1>4. Store!LogReplaysToSnapshot <=> Proofs!LogReplaysToSnapshot
  BY <1>1, <1>3, SameTables, Zenon DEF Store!LogReplaysToSnapshot, Proofs!LogReplaysToSnapshot, Store!Replays,
                           Proofs!Replays, Store!LegalHistory, Proofs!LegalHistory
<1>5. Store!OutboxMatchesLog <=> Proofs!OutboxMatchesLog
  <2>1. \A h : Store!Dispatches(h) = Proofs!Dispatches(h)
    BY Zenon DEF Store!Dispatches, Proofs!Dispatches
  <2>2. \A S : Store!Cardinality(S) = Proofs!Cardinality(S)
    BY Zenon DEF Store!Cardinality, Proofs!Cardinality
  <2>3. \A r : Store!OutboxAgrees(r) <=> Proofs!OutboxAgrees(r)
    BY <2>1, <2>2, SameTables, Zenon DEF Store!OutboxAgrees, Proofs!OutboxAgrees
  <2> QED BY <1>1, <1>3, <2>3, Zenon DEF Store!OutboxMatchesLog, Proofs!OutboxMatchesLog
<1>6. Store!Init <=> Proofs!Init
  BY <1>1, SameTables, Zenon DEF Store!Init, Proofs!Init
<1>7. \A c, d : Store!FieldsAgree(c, d) <=> Proofs!FieldsAgree(c, d)
  BY Zenon DEF Store!FieldsAgree, Proofs!FieldsAgree
<1> QED BY <1>1, <1>2, <1>4, <1>5, <1>6, <1>7

\* Also of the next state.
LEMMA SameNextStates ==
  /\ Store!TypeOK' <=> Proofs!TypeOK'
  /\ Store!LogReplaysToSnapshot' <=> Proofs!LogReplaysToSnapshot'
  /\ Store!OutboxMatchesLog' <=> Proofs!OutboxMatchesLog'
BY SameStates, PTL

\* Their steps are the same.
LEMMA SameSteps == [Store!Next]_store => [Proofs!Next]_(Proofs!vars)
<1>1. /\ Store!Runs = Proofs!Runs /\ Store!Turns = Proofs!Turns /\ Store!Decision = Proofs!Decision
      /\ Store!Event = Proofs!Event
  BY SameTables, Zenon DEF Store!Runs, Proofs!Runs, Store!Turns, Proofs!Turns, Store!Decision, Proofs!Decision,
               Store!Resolutions, Proofs!Resolutions, Store!Event, Proofs!Event
<1>2. \A r : Store!HasRow(r) <=> Proofs!HasRow(r)
  BY Zenon DEF Store!HasRow, Proofs!HasRow
<1>3. \A c, e : /\ Store!CanInsert(c, e) <=> Proofs!CanInsert(c, e)
                /\ Store!CanAdvance(c, e) <=> Proofs!CanAdvance(c, e)
                /\ Store!CanRepeat(c, e) <=> Proofs!CanRepeat(c, e)
  BY <1>1, <1>2, SameTables, ZenonT(60)
     DEF Store!CanInsert, Proofs!CanInsert, Store!CanAdvance, Proofs!CanAdvance, Store!CanRepeat,
         Proofs!CanRepeat, Store!Writable, Proofs!Writable, Store!IdentityFree, Proofs!IdentityFree,
         Store!SameIdentity, Proofs!SameIdentity, Store!NextInSequence, Proofs!NextInSequence,
         Store!SameEvent, Proofs!SameEvent
<1>4. \A c, e : Store!AppendEvent(c, e) <=> Proofs!AppendEvent(c, e)
  <2>1. \A c, e : Store!InsertInitialRun(c, e) <=> Proofs!InsertInitialRun(c, e)
    BY <1>3, Zenon DEF Store!InsertInitialRun, Proofs!InsertInitialRun
  <2>2. \A c, e : Store!AdvanceRun(c, e) <=> Proofs!AdvanceRun(c, e)
    <3>1. \A s : Store!Attempts(s) = Proofs!Attempts(s)
      BY Zenon DEF Store!Attempts, Proofs!Attempts
    <3> QED BY <1>3, <3>1, SameTables, Zenon DEF Store!AdvanceRun, Proofs!AdvanceRun
  <2>3. \A c, e : Store!RepeatLatest(c, e) <=> Proofs!RepeatLatest(c, e)
    BY <1>3, Zenon DEF Store!RepeatLatest, Proofs!RepeatLatest, Store!rows, Proofs!rows
  <2> QED BY <1>3, <2>1, <2>2, <2>3, Zenon
          DEF Store!AppendEvent, Proofs!AppendEvent, Store!Accepts, Proofs!Accepts
<1>5. \A r, d : Store!ResolveRecovery(r, d) <=> Proofs!ResolveRecovery(r, d)
  BY <1>2, SameTables, Zenon DEF Store!ResolveRecovery, Proofs!ResolveRecovery, Store!Undecided, Proofs!Undecided
<1>6. ASSUME NEW c, NEW t, NEW b, Store!SaveRemoteRequest(c, t, b)
      PROVE Proofs!SaveRemoteRequest(c, t, b)
  <2>1. Store!TurnFree(c, t) <=> Proofs!TurnFree(c, t)
    BY <1>1, Zenon DEF Store!TurnFree, Proofs!TurnFree
  <2> QED BY <1>2, <1>6, <2>1, SMT DEF Store!SaveRemoteRequest, Proofs!SaveRemoteRequest
<1>7. ~ \E T \in SUBSET {} : T # {} /\ Store!DeleteSessions(T)
  OBVIOUS
<1> QED BY <1>1, <1>4, <1>5, <1>6, <1>7, Zenon DEF Store!Next, Proofs!Next, store, Proofs!vars, Proofs!rows

\* What the store guarantees after each of its operations.
LEMMA StoreKeeps ==
  ASSUME StoreInv, [Store!Next]_store
  PROVE StoreInv'
<1>1. /\ \A c \in Commands : NoCommand # c
      /\ \A c, d \in Commands : c.fingerprint = d.fingerprint => Proofs!FieldsAgree(c, d)
      /\ MaxSequence \in Nat \ {0} /\ MaxRevision \in Nat \ {0}
      /\ NoDecision \notin Proofs!Decision /\ NoRemote \notin Proofs!RemoteRequest
  BY SameStates, StoreAssumption, BoundsAssumption DEF EventsPerDispatch
<1>2. Proofs!TypeOK /\ [Proofs!Next]_(Proofs!vars) => Proofs!TypeOK'
  BY <1>1, Proofs!NextType
<1>3. Proofs!TypeOK /\ Proofs!LogReplaysToSnapshot /\ [Proofs!Next]_(Proofs!vars)
        => Proofs!LogReplaysToSnapshot'
  BY <1>1, Proofs!NextLog
<1>4. Proofs!TypeOK /\ Proofs!LogReplaysToSnapshot /\ Proofs!OutboxMatchesLog
        /\ [Proofs!Next]_(Proofs!vars) => Proofs!OutboxMatchesLog'
  BY <1>1, Proofs!NextOutbox
<1> QED BY <1>2, <1>3, <1>4, SameStates, SameNextStates, SameSteps DEF StoreInv

\* An empty store guarantees it.
LEMMA StoreStarts == Store!Init => StoreInv
<1>1. /\ \A c \in Commands : NoCommand # c
      /\ \A c, d \in Commands : c.fingerprint = d.fingerprint => Proofs!FieldsAgree(c, d)
      /\ MaxSequence \in Nat \ {0} /\ MaxRevision \in Nat \ {0}
      /\ NoDecision \notin Proofs!Decision /\ NoRemote \notin Proofs!RemoteRequest
  BY SameStates, StoreAssumption, BoundsAssumption DEF EventsPerDispatch
<1>2. Proofs!Init => Proofs!TypeOK
  BY <1>1, Proofs!InitType
<1>3. Proofs!Init => Proofs!LogReplaysToSnapshot /\ Proofs!OutboxMatchesLog
  BY <1>1, Proofs!InitInv
<1> QED BY <1>2, <1>3, SameStates DEF StoreInv

-----------------------------------------------------------------------------
(* What a write does to the store. *)

\* A Run has a command of the session.
LEMMA RunFacts ==
  ASSUME NEW r \in Runs
  PROVE CommandOf(r) \in Commands /\ CommandOf(r).run_id = r
BY DEF Runs, Store!Runs, CommandOf

\* The event kinds that actors name their statuses with.
LEMMA KindFacts ==
  /\ KindOf("running") = "run_started" /\ KindOf("completed") = "run_completed"
  /\ KindOf("failed") = "run_failed" /\ KindOf("cancelled") = "run_cancelled"
  /\ KindOf("reconciliation_required") = "run_reconciliation_required"
<1>1. \A k \in EventKinds :
        /\ EventStatus(k) = "running" <=> k = "run_started"
        /\ EventStatus(k) = "completed" <=> k = "run_completed"
        /\ EventStatus(k) = "failed" <=> k = "run_failed"
        /\ EventStatus(k) = "cancelled" <=> k = "run_cancelled"
        /\ EventStatus(k) = "reconciliation_required" <=> k = "run_reconciliation_required"
  BY ZenonT(60) DEF EventKinds, EventStatus
<1>2. {"run_started", "run_completed", "run_failed", "run_cancelled", "run_reconciliation_required"}
        \subseteq EventKinds
  BY DEF EventKinds
<1>3. \A s, k : k \in EventKinds /\ k # "run_redispatch_queued" /\ EventStatus(k) = s
        => KindOf(s) \in EventKinds /\ EventStatus(KindOf(s)) = s
  BY DEF KindOf
<1>4. /\ KindOf("running") \in EventKinds /\ EventStatus(KindOf("running")) = "running"
      /\ KindOf("completed") \in EventKinds /\ EventStatus(KindOf("completed")) = "completed"
      /\ KindOf("failed") \in EventKinds /\ EventStatus(KindOf("failed")) = "failed"
      /\ KindOf("cancelled") \in EventKinds /\ EventStatus(KindOf("cancelled")) = "cancelled"
      /\ KindOf("reconciliation_required") \in EventKinds
      /\ EventStatus(KindOf("reconciliation_required")) = "reconciliation_required"
  BY <1>1, <1>2, <1>3
<1> QED BY <1>1, <1>4

\* What the offered kinds stand for, and what they may follow.
LEMMA OfferedFacts ==
  ASSUME NEW k \in Offered
  PROVE /\ k \in EventKinds
        /\ EventStatus(k) = "queued" <=> k \in {"run_queued", "run_redispatch_queued"}
        /\ EventStatus(k) = "running" <=> k = "run_started"
        /\ EventStatus(k) \in {"queued", "running", "completed", "failed", "cancelled",
                               "reconciliation_required"}
BY DEF Offered, EventKinds, EventStatus

\* The transitions among their statuses.
LEMMA Moves ==
  /\ Transitions("created") = {"queued"} /\ Transitions("queued") = {"running", "cancelled", "failed"}
  /\ "running" \notin Transitions("running") /\ "queued" \notin Transitions("running")
  /\ Transitions("reconciliation_required") = {"queued"}
  /\ Transitions("completed") = {} /\ Transitions("failed") = {} /\ Transitions("cancelled") = {}
BY DEF Transitions

\* What anybody in the session offers the store.
Offer == [sequence : Int, kind : Offered, writer : Writers]
Leaves(e) == EventStatus(e.kind) = "queued" => e.sequence + 2 <= MaxSequence

\* The snapshot and the log of a Run agree.
LEMMA RowFacts ==
  ASSUME StoreInv, NEW r \in Runs
  PROVE /\ Store!HasRow(r) =>
             /\ sequence[r] = Len(events[r]) /\ sequence[r] > 0
             /\ status[r] = EventStatus(events[r][sequence[r]].kind)
        /\ ~Store!HasRow(r) => events[r] = << >> /\ status[r] = "created" /\ remote[r] = NoRemote
        /\ events[r] \in Seq(Store!Event) /\ sequence[r] \in Nat /\ status[r] \in RunStatus
        /\ outbox[r].attempts \in Nat
<1>1. Store!Replays(r) /\ r \in Store!Runs
  BY DEF StoreInv, Store!LogReplaysToSnapshot, Runs
<1>2. /\ events[r] \in Seq(Store!Event) /\ sequence[r] \in Nat /\ status[r] \in RunStatus
      /\ outbox[r].attempts \in Nat
  BY <1>1, SameTables DEF StoreInv, Store!TypeOK
<1> QED BY <1>1, <1>2, SameTables DEF Store!Replays

\* An accepted event is one the store's bound allows.
LEMMA AcceptedFits ==
  ASSUME StoreInv, LogInv, NEW r \in Runs, NEW e \in Offer, Leaves(e),
         Store!Accepts(CommandOf(r), e)
  PROVE e \in Store!Event /\ Fits(e, e.sequence) /\ e.sequence \in 1..MaxSequence
<1>1. CommandOf(r).run_id = r /\ MaxSequence \in Nat /\ 3 <= MaxSequence
  BY RunFacts, BoundsAssumption DEF EventsPerDispatch
<1>2. \/ e.sequence = 1 /\ EventStatus(e.kind) = "queued"
      \/ /\ Store!HasRow(r) /\ e.sequence = sequence[r] + 1
         /\ EventStatus(e.kind) \in Transitions(status[r])
      \/ Store!HasRow(r) /\ e.sequence = sequence[r] /\ e = events[r][e.sequence]
  BY <1>1, SameTables DEF Store!Accepts, Store!CanInsert, Store!CanAdvance, Store!CanRepeat,
     Store!NextInSequence, Store!SameEvent
<1>3. e.sequence \in Int /\ e.kind \in Offered /\ e.writer \in Writers
  BY DEF Offer
<1>4. Store!HasRow(r) => /\ sequence[r] \in 1..Len(events[r]) /\ Fits(events[r][sequence[r]], sequence[r])
                         /\ status[r] = EventStatus(events[r][sequence[r]].kind)
                         /\ events[r][sequence[r]] \in Store!Event
  BY RowFacts DEF LogInv
<1>5. CASE e.sequence = 1 /\ EventStatus(e.kind) = "queued"
  <2>1. Fits(e, e.sequence)
    BY <1>1, <1>3, <1>5, OfferedFacts DEF Fits
  <2>2. e.sequence \in 1..MaxSequence
    BY <1>1, <1>5
  <2> QED BY <1>3, <2>1, <2>2, OfferedFacts, SameTables DEF Offer, Store!Event
<1>6. CASE /\ Store!HasRow(r) /\ e.sequence = sequence[r] + 1
           /\ EventStatus(e.kind) \in Transitions(status[r])
  <2>1. /\ events[r][sequence[r]].kind \in Offered
        /\ status[r] = "queued" => sequence[r] + 2 <= MaxSequence
        /\ status[r] = "running" => sequence[r] + 1 <= MaxSequence
        /\ status[r] \in {"queued", "running", "completed", "failed", "cancelled",
                          "reconciliation_required"}
        /\ sequence[r] \in Nat \ {0}
    BY <1>4, <1>6, OfferedFacts DEF Fits
  <2>2. CASE status[r] = "queued"
    <3>1. EventStatus(e.kind) # "queued" /\ e.sequence + 1 <= MaxSequence /\ e.sequence \in 1..MaxSequence
      BY <1>1, <1>6, <2>1, <2>2, Moves
    <3> QED BY <1>3, <3>1, OfferedFacts, SameTables DEF Fits, Offer, Store!Event
  <2>3. CASE status[r] = "running"
    <3>1. EventStatus(e.kind) \notin {"queued", "running"} /\ e.sequence \in 1..MaxSequence
      BY <1>1, <1>6, <2>1, <2>3, Moves
    <3> QED BY <1>3, <3>1, OfferedFacts, SameTables DEF Fits, Offer, Store!Event
  <2>4. CASE status[r] = "reconciliation_required"
    <3>1. EventStatus(e.kind) = "queued" /\ e.sequence + 2 <= MaxSequence /\ e.sequence \in 1..MaxSequence
      BY <1>1, <1>3, <1>6, <2>1, <2>4, Moves DEF Leaves
    <3> QED BY <1>3, <3>1, OfferedFacts, SameTables DEF Fits, Offer, Store!Event
  <2> QED BY <1>6, <2>1, <2>2, <2>3, <2>4, Moves
<1>7. CASE Store!HasRow(r) /\ e.sequence = sequence[r] /\ e = events[r][e.sequence]
  BY <1>4, <1>7 DEF Store!Event
<1> QED BY <1>2, <1>5, <1>6, <1>7

\* Logs only grow, requests stay frozen and dispatches counted.
Grows ==
  \A q \in Runs :
    /\ Len(events[q]) <= Len(events'[q])
    /\ \A i \in 1..Len(events[q]) : events'[q][i] = events[q][i]
    /\ remote[q] # NoRemote => remote'[q] # NoRemote /\ outbox[q].attempts <= outbox'[q].attempts

\* What holds of the store after every step.
StoreMoves == [Store!Next]_store /\ StoreInv' /\ LogInv' /\ Grows

\* No log changes.
SameLogs ==
  /\ events' = events /\ sequence' = sequence /\ status' = status
  /\ \A q \in Runs : outbox'[q].attempts = outbox[q].attempts

\* Run r has event e as its latest, maybe already before.
Latest(r, e) ==
  /\ e.sequence \in 1..Len(events'[r]) /\ events'[r][e.sequence] = e /\ sequence'[r] = e.sequence
  /\ status'[r] = EventStatus(e.kind) /\ Len(events'[r]) = e.sequence
  /\ \/ events'[r] = events[r] /\ sequence'[r] = sequence[r] /\ status'[r] = status[r]
     \/ /\ e.sequence = Len(events[r]) + 1 /\ EventStatus(e.kind) \in Transitions(status[r])
        /\ events'[r] = Append(events[r], e)
  /\ \A q \in Runs \ {r} : events'[q] = events[q] /\ sequence'[q] = sequence[q] /\ status'[q] = status[q]
  /\ decision' = decision /\ remote' = remote

\* What append_event does to the rows.
LEMMA Appends ==
  ASSUME StoreInv, NEW r \in Runs, NEW e \in Store!Event, Write(r, e)
  PROVE /\ Latest(r, e)
        /\ \A q \in Runs : remote[q] # NoRemote => outbox[q].attempts <= outbox'[q].attempts
<1>1. CommandOf(r).run_id = r /\ r \in Store!Runs /\ Runs = Store!Runs
  BY RunFacts DEF Runs
<1>2. /\ events \in [Runs -> Seq(Store!Event)] /\ sequence \in [Runs -> Nat] /\ status \in [Runs -> RunStatus]
      /\ outbox \in [Runs -> [status : Store!EffectStatuses, attempts : Nat]]
  BY <1>1, SameTables DEF StoreInv, Store!TypeOK
<1>3. CASE Store!InsertInitialRun(CommandOf(r), e)
  <2>1. ~Store!HasRow(r) /\ EventStatus(e.kind) = "queued" /\ e.sequence = 1
    BY <1>1, <1>3, SameTables DEF Store!InsertInitialRun, Store!CanInsert
  <2>2. /\ status' = [status EXCEPT ![r] = "queued"] /\ sequence' = [sequence EXCEPT ![r] = 1]
        /\ events' = [events EXCEPT ![r] = <<e>>] /\ decision' = decision /\ remote' = remote
        /\ outbox' = [outbox EXCEPT ![r] = [status |-> "pending", attempts |-> 0]]
    BY <1>1, <1>3 DEF Store!InsertInitialRun
  <2>3. events[r] = << >> /\ status[r] = "created" /\ remote[r] = NoRemote
    BY <2>1, RowFacts
  <2>4. \A q \in Runs : remote[q] # NoRemote => outbox[q].attempts <= outbox'[q].attempts
    BY <1>2, <2>1, <2>2, RowFacts
  <2>5. Append(events[r], e) = <<e>> /\ Len(<<e>>) = 1 /\ <<e>>[1] = e
    BY <2>3
  <2> QED BY <1>1, <1>2, <2>1, <2>2, <2>3, <2>4, <2>5, Moves DEF Latest
<1>4. CASE Store!AdvanceRun(CommandOf(r), e)
  <2> DEFINE t == EventStatus(e.kind)
  <2>1. Store!HasRow(r) /\ e.sequence = sequence[r] + 1 /\ t \in Transitions(status[r])
    BY <1>1, <1>4, SameTables DEF Store!AdvanceRun, Store!CanAdvance, Store!NextInSequence
  <2>2. /\ status' = [status EXCEPT ![r] = t] /\ sequence' = [sequence EXCEPT ![r] = e.sequence]
        /\ events' = [events EXCEPT ![r] = Append(events[r], e)] /\ decision' = decision /\ remote' = remote
        /\ outbox' = [outbox EXCEPT ![r] = [status |-> Store!OutboxStatus(t),
                                            attempts |-> outbox[r].attempts + Store!Attempts(t)]]
    BY <1>1, <1>4, SameTables DEF Store!AdvanceRun
  <2>3. Store!Attempts(t) \in Nat
    BY DEF Store!Attempts
  <2>4. sequence[r] = Len(events[r]) /\ sequence[r] > 0 /\ events[r] \in Seq(Store!Event)
    BY <2>1, RowFacts
  <2>5. /\ Len(Append(events[r], e)) = Len(events[r]) + 1 /\ Append(events[r], e)[Len(events[r]) + 1] = e
    BY <2>4
  <2>6. \A q \in Runs : outbox[q].attempts <= outbox'[q].attempts
    BY <1>2, <2>2, <2>3
  <2> QED BY <1>1, <1>2, <2>1, <2>2, <2>4, <2>5, <2>6 DEF Latest
<1>5. CASE Store!RepeatLatest(CommandOf(r), e)
  <2>1. Store!HasRow(r) /\ e.sequence = sequence[r] /\ events[r][e.sequence] = e
    BY <1>1, <1>5 DEF Store!RepeatLatest, Store!CanRepeat, Store!SameEvent
  <2>2. /\ events' = events /\ sequence' = sequence /\ status' = status /\ decision' = decision
        /\ remote' = remote /\ outbox' = outbox
    BY <1>5 DEF Store!RepeatLatest, Store!rows
  <2> QED BY <1>2, <2>1, <2>2, RowFacts DEF Latest
<1> QED BY <1>3, <1>4, <1>5 DEF Write, Store!AppendEvent

\* A write that keeps to the bound moves the store.
LEMMA Wrote ==
  ASSUME StoreInv, LogInv, NEW r \in Runs, NEW e \in Offer, Leaves(e),
         Store!Accepts(CommandOf(r), e), Write(r, e)
  PROVE StoreMoves /\ Latest(r, e) /\ e \in Store!Event
<1>1. e \in Store!Event /\ Fits(e, e.sequence)
  BY AcceptedFits
<1>2. /\ Latest(r, e)
      /\ \A q \in Runs : remote[q] # NoRemote => outbox[q].attempts <= outbox'[q].attempts
  BY <1>1, Appends
<1>3. Store!Next
  BY <1>1, RunFacts DEF Store!Next, Write
<1>4. \A q \in Runs : events[q] \in Seq(Store!Event)
  BY RowFacts
<1>5. ASSUME NEW q \in Runs
      PROVE /\ Len(events[q]) <= Len(events'[q])
            /\ \A i \in 1..Len(events[q]) : events'[q][i] = events[q][i]
            /\ \A i \in 1..Len(events'[q]) : Fits(events'[q][i], i)
  <2>1. CASE events'[q] = events[q]
    BY <1>4, <2>1 DEF LogInv
  <2>2. CASE q = r /\ e.sequence = Len(events[r]) + 1 /\ events'[r] = Append(events[r], e)
    BY <1>1, <1>4, <2>2 DEF LogInv
  <2> QED BY <1>2, <2>1, <2>2 DEF Latest
<1>6. LogInv' /\ Grows
  BY <1>2, <1>5 DEF LogInv, Grows, Latest
<1> QED BY <1>1, <1>2, <1>3, <1>6, StoreKeeps DEF StoreMoves

\* A recovery decision moves no log.
LEMMA Resolves ==
  ASSUME StoreInv, LogInv, NEW r \in Runs, NEW d \in Store!Decision, Store!ResolveRecovery(r, d)
  PROVE /\ StoreMoves /\ SameLogs /\ remote' = remote
        /\ \A q \in Runs \ {r} : decision'[q] = decision[q]
<1>1. Store!Next
  BY DEF Store!Next, Runs
<1>2. /\ events' = events /\ sequence' = sequence /\ status' = status /\ remote' = remote
      /\ \A q \in Runs \ {r} : decision'[q] = decision[q]
      /\ \E to : outbox' = [outbox EXCEPT ![r].status = to]
  <2>1. decision \in [Runs -> Store!Decision \cup {NoDecision}]
    BY DEF StoreInv, Store!TypeOK, Runs
  <2> QED BY <2>1 DEF Store!ResolveRecovery
<1>3. outbox \in [Runs -> [status : Store!EffectStatuses, attempts : Nat]]
  BY DEF StoreInv, Store!TypeOK, Runs
<1>4. \A q \in Runs : outbox'[q].attempts = outbox[q].attempts /\ outbox[q].attempts \in Nat
  BY <1>2, <1>3
<1>5. SameLogs /\ LogInv' /\ Grows
  BY <1>2, <1>4, RowFacts DEF SameLogs, LogInv, Grows
<1> QED BY <1>1, <1>2, <1>5, StoreKeeps DEF StoreMoves

\* A frozen request moves no log.
LEMMA Saves ==
  ASSUME StoreInv, LogInv, NEW r \in Runs,
         Store!SaveRemoteRequest(CommandOf(r), CommandOf(r).turn_id, "frozen")
  PROVE StoreMoves /\ SameLogs /\ decision' = decision /\ remote'[r] # NoRemote
<1>1. CommandOf(r) \in Commands /\ CommandOf(r).run_id = r /\ CommandOf(r).turn_id \in Store!Turns
  BY RunFacts DEF Store!Turns
<1>2. Store!Next
  BY <1>1 DEF Store!Next
<1>3. remote \in [Runs -> Store!RemoteRequest \cup {NoRemote}]
  BY DEF StoreInv, Store!TypeOK, Runs
<1>4. /\ events' = events /\ sequence' = sequence /\ status' = status /\ decision' = decision
      /\ outbox' = outbox
      /\ \E x \in Store!RemoteRequest : remote' = [remote EXCEPT ![r] = x]
  BY <1>1, <1>3 DEF Store!SaveRemoteRequest, Store!RemoteRequest
<1>5. remote'[r] # NoRemote /\ \A q \in Runs : remote[q] # NoRemote => remote'[q] # NoRemote
  BY <1>3, <1>4, StoreAssumption
<1>6. SameLogs /\ LogInv' /\ Grows
  BY <1>4, <1>5, RowFacts DEF SameLogs, LogInv, Grows
<1> QED BY <1>2, <1>4, <1>5, <1>6, StoreKeeps DEF StoreMoves

\* A step that leaves the store alone.
LEMMA Leave ==
  ASSUME StoreInv, LogInv, UNCHANGED store
  PROVE StoreMoves /\ SameLogs /\ decision' = decision /\ remote' = remote
<1>1. SameLogs /\ LogInv' /\ Grows /\ decision' = decision /\ remote' = remote
  BY RowFacts DEF store, SameLogs, LogInv, Grows
<1> QED BY <1>1, StoreKeeps DEF StoreMoves

-----------------------------------------------------------------------------
(* What happens to one loop object. *)

\* The parts of a well formed loop object.
LEMMA ObjectFacts ==
  ASSUME NEW o \in LoopRec
  PROVE /\ o.mode \in Modes /\ o.ready \in BOOLEAN /\ o.gateFailed \in BOOLEAN
        /\ o.gate \in [blocked : BOOLEAN, first : Runs \cup {Nobody}]
        /\ o.queue \in Seq(Entry) /\ o.lock \in Callers \cup {Nobody} /\ o.worker \in WorkerRec
        /\ o.future \in [Runs -> Futures] /\ o.actor \in [Runs -> ActorRec]
        /\ o.worker.at \in {"none", "idle", "ended"} \cup Working
        /\ o.worker.run \in Runs \cup {Nobody} /\ o.worker.next \in RunStatus \cup {"none"}
BY DEF LoopRec, WorkerRec

\* The workers without a Run, and what a worker with a Run is.
LEMMA WorkerFacts ==
  /\ NoWorker \in WorkerRec /\ IdleWorker \in WorkerRec /\ EndedWorker \in WorkerRec
  /\ NoWorker.at = "none" /\ IdleWorker.at = "idle" /\ EndedWorker.at = "ended"
  /\ NoWorker.run = Nobody /\ IdleWorker.run = Nobody /\ EndedWorker.run = Nobody
  /\ \A at \in Working, r \in Runs, s \in RunStatus \cup {"none"} :
       /\ Worker(at, r, s) \in WorkerRec /\ Worker(at, r, s).at = at
       /\ Worker(at, r, s).run = r /\ Worker(at, r, s).next = s
  /\ Nobody \notin Runs /\ Stop \notin Runs /\ Nobody \notin Callers
  /\ {"none", "idle", "ended"} \cap Working = {} /\ "refresh" \notin Executing /\ "start" \notin Executing
  /\ Executing \subseteq Working
BY MarkAssumption DEF NoWorker, IdleWorker, EndedWorker, Worker, WorkerRec, Working, Executing

\* The object SessionLoop.__init__ builds.
LEMMA NewLoopFacts ==
  /\ NewLoop \in LoopRec /\ NewLoop.mode = "unborn" /\ NewLoop.ready = FALSE /\ NewLoop.queue = << >>
  /\ NewLoop.lock = Nobody /\ NewLoop.worker = NoWorker /\ Queued(NewLoop) = {}
  /\ \A r \in Runs : /\ NewLoop.future[r] = "none" /\ ~Holds(NewLoop, r)
                     /\ NewLoop.actor[r] = [status |-> "created", sequence |-> 0]
<1>1. [status |-> "created", sequence |-> 0] \in ActorRec
  BY BoundsAssumption DEF ActorRec, RunStatus
<1>2. OpenGate \in [blocked : BOOLEAN, first : Runs \cup {Nobody}]
  BY DEF OpenGate
<1>3. NewLoop \in LoopRec
  BY <1>1, <1>2, WorkerFacts DEF NewLoop, LoopRec, Modes, Futures
<1>4. /\ NewLoop.mode = "unborn" /\ NewLoop.ready = FALSE /\ NewLoop.queue = << >>
      /\ NewLoop.lock = Nobody /\ NewLoop.worker = NoWorker
      /\ NewLoop.future = [r \in Runs |-> "none"]
      /\ NewLoop.actor = [r \in Runs |-> [status |-> "created", sequence |-> 0]]
  BY DEF NewLoop
<1>5. Queued(NewLoop) = {}
  BY <1>4 DEF Queued
<1>6. \A r \in Runs : ~Holds(NewLoop, r)
  BY <1>4, <1>5, WorkerFacts DEF Holds
<1> QED BY <1>3, <1>4, <1>5, <1>6

\* A queue after one more entry.
LEMMA QueueAppend ==
  ASSUME NEW o \in LoopRec, NEW p \in LoopRec, NEW x \in Entry, p.queue = Append(o.queue, x)
  PROVE /\ Queued(p) = Queued(o) \cup {x}
        /\ OneTask(o) /\ (x \notin Queued(o) \/ x \notin Runs) =>
             \A i, j \in 1..Len(p.queue) : p.queue[i] = p.queue[j] /\ p.queue[i] \in Runs => i = j
<1>1. /\ o.queue \in Seq(Entry) /\ Len(p.queue) = Len(o.queue) + 1 /\ p.queue[Len(o.queue) + 1] = x
      /\ \A i \in 1..Len(o.queue) : p.queue[i] = o.queue[i]
  BY ObjectFacts
<1>2. Queued(p) = Queued(o) \cup {x}
  <2>1. \A y \in Queued(p) : y \in Queued(o) \cup {x}
    BY <1>1 DEF Queued
  <2>2. \A y \in Queued(o) : y \in Queued(p)
    BY <1>1 DEF Queued
  <2>3. x \in Queued(p)
    BY <1>1 DEF Queued
  <2> QED BY <2>1, <2>2, <2>3
<1>3. ASSUME OneTask(o), x \notin Queued(o) \/ x \notin Runs
      PROVE \A i, j \in 1..Len(p.queue) : p.queue[i] = p.queue[j] /\ p.queue[i] \in Runs => i = j
  <2>1. \A i, j \in 1..Len(o.queue) : o.queue[i] = o.queue[j] /\ o.queue[i] \in Runs => i = j
    BY <1>3 DEF OneTask
  <2>2. \A i \in 1..Len(o.queue) : o.queue[i] \in Queued(o)
    BY DEF Queued
  <2> QED BY <1>1, <1>3, <2>1, <2>2
<1> QED BY <1>2, <1>3

\* A queue after its head was taken.
LEMMA QueueTail ==
  ASSUME NEW o \in LoopRec, NEW p \in LoopRec, o.queue # << >>, p.queue = Tail(o.queue)
  PROVE /\ Head(o.queue) \in Entry /\ Queued(o) = Queued(p) \cup {Head(o.queue)}
        /\ OneTask(o) =>
                 /\ \A i, j \in 1..Len(p.queue) : p.queue[i] = p.queue[j] /\ p.queue[i] \in Runs => i = j
                 /\ Head(o.queue) \in Runs => Head(o.queue) \notin Queued(p)
<1>1. /\ o.queue \in Seq(Entry) /\ Len(o.queue) \in Nat \ {0} /\ Len(p.queue) = Len(o.queue) - 1
      /\ Head(o.queue) = o.queue[1] /\ o.queue[1] \in Entry
      /\ \A i \in 1..Len(p.queue) : p.queue[i] = o.queue[i + 1]
  BY ObjectFacts
<1>2. Queued(o) = Queued(p) \cup {Head(o.queue)}
  <2>1. \A y \in Queued(p) : y \in Queued(o)
    BY <1>1 DEF Queued
  <2>2. Head(o.queue) \in Queued(o)
    BY <1>1 DEF Queued
  <2>3. ASSUME NEW i \in 1..Len(o.queue) PROVE o.queue[i] \in Queued(p) \cup {Head(o.queue)}
    <3>1. CASE i = 1
      BY <1>1, <3>1
    <3>2. CASE i > 1
      <4>1. i - 1 \in 1..Len(p.queue) /\ o.queue[i] = p.queue[i - 1]
        BY <1>1, <3>2
      <4> QED BY <4>1 DEF Queued
    <3> QED BY <3>1, <3>2
  <2> QED BY <2>1, <2>2, <2>3 DEF Queued
<1>3. ASSUME OneTask(o)
      PROVE /\ \A i, j \in 1..Len(p.queue) : p.queue[i] = p.queue[j] /\ p.queue[i] \in Runs => i = j
            /\ Head(o.queue) \in Runs => Head(o.queue) \notin Queued(p)
  <2>1. \A i, j \in 1..Len(o.queue) : o.queue[i] = o.queue[j] /\ o.queue[i] \in Runs => i = j
    BY <1>3 DEF OneTask
  <2>2. \A i \in 1..Len(p.queue) : i + 1 \in 1..Len(o.queue) /\ i + 1 # 1
    BY <1>1
  <2>3. \A i, j \in 1..Len(p.queue) : p.queue[i] = p.queue[j] /\ p.queue[i] \in Runs => i = j
    BY <1>1, <2>1, <2>2
  <2>4. \A i \in 1..Len(p.queue) : Head(o.queue) \in Runs => p.queue[i] # Head(o.queue)
    BY <1>1, <2>1, <2>2
  <2> QED BY <2>3, <2>4 DEF Queued
<1> QED BY <1>1, <1>2, <1>3

\* A Run that p holds was held before.
Drops(o, p) == \A q \in Runs : Holds(p, q) => Holds(o, q)

\* A Run the loop is done with stays so.
Calm(o, p) ==
  \A q \in Runs : o.future[q] # "none" /\ ~Holds(o, q) => p.future[q] # "none" /\ ~Holds(p, q)

\* The same Runs are at the same places; the worker may just have been made.
Similar(o, p) ==
  /\ p.mode = o.mode /\ p.queue = o.queue /\ p.future = o.future /\ p.actor = o.actor
  /\ p.worker = o.worker \/ (o.worker.at = "none" /\ p.worker = IdleWorker)

\* Such an object is as good.
LEMMA SimilarTask ==
  ASSUME NEW o \in LoopRec, NEW p \in LoopRec, OneTask(o), Similar(o, p)
  PROVE /\ OneTask(p) /\ Drops(o, p) /\ Calm(o, p) /\ Queued(p) = Queued(o)
        /\ \A q \in Runs : Holds(p, q) <=> Holds(o, q)
        /\ InMode(o) /\ o.mode # "unborn" => InMode(p)
<1>1. Queued(p) = Queued(o)
  BY DEF Queued, Similar
<1>2. \/ p.worker = o.worker
      \/ o.worker.at = "none" /\ p.worker.at = "idle" /\ p.worker.run = Nobody /\ o.worker.run \notin Runs
  BY WorkerFacts DEF Similar, OneTask
<1>3. \A q \in Runs : Holds(p, q) <=> Holds(o, q)
  BY <1>1, <1>2, WorkerFacts DEF Holds
<1>4. OneTask(p)
  BY <1>1, <1>2, <1>3, WorkerFacts DEF OneTask, Similar
<1>5. InMode(o) /\ o.mode # "unborn" => InMode(p)
  BY <1>1, <1>3 DEF InMode, Similar
<1> QED BY <1>1, <1>3, <1>4, <1>5 DEF Drops, Calm, Similar

\* A Run is registered and put into the queue.
LEMMA RegisterTask ==
  ASSUME NEW o \in LoopRec, NEW p \in LoopRec, NEW r \in Runs, OneTask(o), o.future[r] = "none",
         p.queue = Append(o.queue, r), p.worker = o.worker, p.future[r] = "pending",
         p.actor[r].status = "queued",
         \A q \in Runs \ {r} : p.future[q] = o.future[q] /\ p.actor[q] = o.actor[q]
  PROVE /\ OneTask(p) /\ Calm(o, p)
        /\ \A q \in Runs : Holds(p, q) <=> Holds(o, q) \/ q = r
        /\ InMode(o) /\ p.mode = o.mode /\ o.mode # "unborn" => InMode(p)
<1>1. ~Holds(o, r)
  BY DEF OneTask
<1>2. Queued(p) = Queued(o) \cup {r} /\ r \in Entry /\ r # Stop
  BY QueueAppend, WorkerFacts DEF Entry
<1>3. \A i, j \in 1..Len(p.queue) : p.queue[i] = p.queue[j] /\ p.queue[i] \in Runs => i = j
  BY <1>1, QueueAppend DEF Holds, Entry
<1>4. \A q \in Runs : Holds(p, q) <=> Holds(o, q) \/ q = r
  BY <1>2 DEF Holds
<1>5. \A q \in Runs : Holds(p, q) => p.future[q] # "none"
  BY <1>4 DEF OneTask
<1>6. \A q \in Runs : q \in Queued(p) => p.actor[q].status = "queued"
  BY <1>2 DEF OneTask
<1>7. o.worker.run \in Runs => o.worker.run # r
  BY <1>1 DEF Holds
<1>8. OneTask(p)
  <2>1. p.worker.run \in Runs => p.worker.run \notin Queued(p)
    BY <1>2, <1>7 DEF OneTask
  <2>2. p.worker.at = "start" => p.actor[p.worker.run].status = "queued"
    BY <1>7, WorkerFacts DEF OneTask, Working
  <2> QED BY <1>3, <1>5, <1>6, <2>1, <2>2 DEF OneTask
<1>9. InMode(o) /\ p.mode = o.mode /\ o.mode # "unborn" => InMode(p)
  BY <1>2, <1>4 DEF InMode
<1>10. Calm(o, p)
  BY <1>1, <1>4 DEF Calm
<1> QED BY <1>4, <1>8, <1>9, <1>10

\* The worker goes on: with its Run, or without one.
LEMMA WorkerMoves ==
  ASSUME NEW o \in LoopRec, NEW p \in LoopRec, OneTask(o), p.queue = o.queue,
         \A q \in Runs : q # o.worker.run => p.future[q] = o.future[q] /\ p.actor[q] = o.actor[q],
         \/ p.worker \in {IdleWorker, EndedWorker}
         \/ /\ p.worker.run = o.worker.run /\ p.worker.run \in Runs
            /\ p.worker.at \in Working \ {"start"} /\ p.future[p.worker.run] = o.future[p.worker.run]
            /\ p.worker.at = "settle" =>
                 p.worker.next \in {"completed", "failed", "reconciliation_required"}
            /\ p.worker.at = "abort" => p.worker.next \in {"cancelled", "reconciliation_required"}
  PROVE /\ OneTask(p) /\ Drops(o, p) /\ Calm(o, p)
        /\ InMode(o) /\ p.mode = o.mode /\ o.mode # "unborn" => InMode(p)
        /\ InMode(o) /\ p.mode \in {"cancelling", "closed"} /\ o.mode = "open" => InMode(p)
<1>1. Queued(p) = Queued(o)
  BY DEF Queued
<1>2. CASE p.worker \in {IdleWorker, EndedWorker}
  <2>1. p.worker.run = Nobody /\ p.worker.run \notin Runs /\ p.worker.at \in {"idle", "ended"}
    BY <1>2, WorkerFacts
  <2>2. Drops(o, p)
    BY <1>1, <2>1 DEF Drops, Holds
  <2>3. \A q \in Runs : Holds(p, q) => q # o.worker.run
    BY <1>1, <2>1 DEF OneTask, Holds
  <2>4. OneTask(p)
    BY <1>1, <2>1, <2>2, <2>3, WorkerFacts DEF OneTask, Drops, Holds
  <2>5. Calm(o, p)
    BY <2>2 DEF Calm, Drops, Holds
  <2>6. InMode(o) /\ p.mode = o.mode /\ o.mode # "unborn" => InMode(p)
    BY <1>1, <2>2, <2>3 DEF InMode, Drops
  <2>7. InMode(o) /\ p.mode \in {"cancelling", "closed"} /\ o.mode = "open" => InMode(p)
    BY <1>1 DEF InMode
  <2> QED BY <2>2, <2>4, <2>5, <2>6, <2>7
<1>3. CASE /\ p.worker.run = o.worker.run /\ p.worker.run \in Runs
           /\ p.worker.at \in Working \ {"start"} /\ p.future[p.worker.run] = o.future[p.worker.run]
           /\ p.worker.at = "settle" =>
                p.worker.next \in {"completed", "failed", "reconciliation_required"}
           /\ p.worker.at = "abort" => p.worker.next \in {"cancelled", "reconciliation_required"}
  <2>1. \A q \in Runs : p.future[q] = o.future[q]
    BY <1>3
  <2>2. \A q \in Runs : Holds(p, q) <=> Holds(o, q)
    BY <1>1, <1>3 DEF Holds
  <2>3. OneTask(p)
    BY <1>1, <1>3, <2>1, <2>2, WorkerFacts DEF OneTask
  <2>4. Drops(o, p) /\ Calm(o, p)
    BY <2>1, <2>2 DEF Drops, Calm
  <2>5. InMode(o) /\ p.mode = o.mode /\ o.mode # "unborn" => InMode(p)
    BY <1>1, <2>1, <2>2 DEF InMode
  <2>6. InMode(o) /\ p.mode \in {"cancelling", "closed"} /\ o.mode = "open" => InMode(p)
    BY <1>1 DEF InMode
  <2> QED BY <2>3, <2>4, <2>5, <2>6
<1> QED BY <1>2, <1>3

\* The head leaves the queue, maybe for the worker.
LEMMA HeadLeaves ==
  ASSUME NEW o \in LoopRec, NEW p \in LoopRec, NEW h, h = Head(o.queue), OneTask(o), o.queue # << >>,
         p.queue = Tail(o.queue), o.worker.at \notin Working,
         \A q \in Runs : q # h => p.future[q] = o.future[q] /\ p.actor[q] = o.actor[q],
         \/ p.worker.at \notin Working /\ p.worker.run \notin Runs
         \/ /\ p.worker = Worker("start", h, "none") /\ h \in Runs
            /\ p.future[h] = o.future[h] /\ p.actor[h] = o.actor[h]
  PROVE /\ OneTask(p) /\ Drops(o, p) /\ Calm(o, p) /\ (h \in Runs => Holds(o, h))
        /\ InMode(o) /\ p.mode = o.mode /\ o.mode # "unborn" => InMode(p)
        /\ p.mode = "broken" => InMode(p)
<1>1. /\ h \in Entry /\ Queued(o) = Queued(p) \cup {h} /\ (h \in Runs => h \notin Queued(p))
      /\ \A i, j \in 1..Len(p.queue) : p.queue[i] = p.queue[j] /\ p.queue[i] \in Runs => i = j
  BY QueueTail
<1>2. o.worker.run \notin Runs
  BY DEF OneTask
<1>3. (h \in Runs => Holds(o, h)) /\ \A q \in Runs : q \in Queued(p) => q # h
  BY <1>1 DEF Holds
<1>4. CASE p.worker.at \notin Working /\ p.worker.run \notin Runs
  <2>1. Drops(o, p) /\ \A q \in Runs : Holds(p, q) => q # h
    BY <1>1, <1>3, <1>4 DEF Drops, Holds
  <2>2. OneTask(p)
    BY <1>1, <1>3, <1>4, <2>1, WorkerFacts DEF OneTask, Drops, Holds, Working, Executing
  <2>3. Calm(o, p)
    BY <1>3, <2>1 DEF Calm, Drops
  <2>4. InMode(o) /\ p.mode = o.mode /\ o.mode # "unborn" => InMode(p)
    BY <1>1, <2>1 DEF InMode, Drops
  <2> QED BY <1>3, <2>1, <2>2, <2>3, <2>4 DEF InMode
<1>5. CASE /\ p.worker = Worker("start", h, "none") /\ h \in Runs
           /\ p.future[h] = o.future[h] /\ p.actor[h] = o.actor[h]
  <2>1. p.worker.at = "start" /\ p.worker.run = h /\ "start" \in Working
    BY <1>5, WorkerFacts DEF Working
  <2>2. \A q \in Runs : Holds(p, q) <=> Holds(o, q)
    BY <1>1, <1>2, <1>5, <2>1 DEF Holds
  <2>3. \A q \in Runs : p.future[q] = o.future[q] /\ p.actor[q] = o.actor[q]
    BY <1>5
  <2>4. o.actor[h].status = "queued"
    BY <1>1, <1>5 DEF OneTask
  <2>5. OneTask(p)
    BY <1>1, <1>5, <2>1, <2>2, <2>3, <2>4 DEF OneTask
  <2>6. InMode(o) /\ p.mode = o.mode /\ o.mode # "unborn" => InMode(p)
    BY <1>1, <2>2, <2>3 DEF InMode
  <2> QED BY <1>3, <2>2, <2>3, <2>5, <2>6 DEF Drops, Calm, InMode
<1> QED BY <1>4, <1>5

\* A loop is closed: the queue may get its mark, the futures their end.
LEMMA CloseTask ==
  ASSUME NEW o \in LoopRec, NEW p \in LoopRec, OneTask(o), p.mode \in {"draining", "drained", "closed"},
         p.queue = o.queue \/ p.queue = Append(o.queue, Stop), p.actor = o.actor,
         p.worker = o.worker \/ (o.worker.at \notin Working /\ p.worker = NoWorker),
         \A q \in Runs : o.future[q] # "none" => p.future[q] # "none"
  PROVE OneTask(p) /\ InMode(p) /\ Drops(o, p) /\ Calm(o, p)
<1>1. /\ \A i, j \in 1..Len(p.queue) : p.queue[i] = p.queue[j] /\ p.queue[i] \in Runs => i = j
      /\ \A q \in Runs : q \in Queued(p) <=> q \in Queued(o)
  <2>1. CASE p.queue = o.queue
    BY <2>1 DEF OneTask, Queued
  <2>2. CASE p.queue = Append(o.queue, Stop)
    <3>1. Stop \in Entry /\ Stop \notin Runs
      BY WorkerFacts DEF Entry
    <3> QED BY <2>2, <3>1, QueueAppend
  <2> QED BY <2>1, <2>2
<1>2. /\ p.worker.run \in Runs => p.worker = o.worker
      /\ p.worker = o.worker \/ (p.worker.at = "none" /\ p.worker.run = Nobody /\ o.worker.run \notin Runs)
  BY WorkerFacts DEF OneTask
<1>3. \A q \in Runs : Holds(p, q) <=> Holds(o, q)
  BY <1>1, <1>2, WorkerFacts DEF Holds
<1>4. OneTask(p)
  BY <1>1, <1>2, <1>3, WorkerFacts DEF OneTask, Working, Executing
<1>5. InMode(p)
  BY DEF InMode
<1> QED BY <1>3, <1>4, <1>5 DEF Drops, Calm

-----------------------------------------------------------------------------
(* What a step leaves as it was. *)

\* The facts the typing holds ready.
LEMMA TypedFacts ==
  ASSUME Typed
  PROVE /\ \A l \in Loops : loop[l] \in LoopRec
        /\ \A k \in Callers :
             /\ caller[k] \in CallerRec
             /\ caller[k].at # "idle" => caller[k].run \in Runs /\ caller[k].loop \in Loops
        /\ loop \in [Loops -> LoopRec] /\ caller \in [Callers -> CallerRec]
BY DEF Typed

\* A Run in execution is the durable running one, and was counted.
LEMMA ExecutingFacts ==
  ASSUME SessionInv, NEW l \in Loops, loop[l].worker.at \in Executing, NEW r, r = loop[l].worker.run
  PROVE /\ r \in Runs /\ status[r] = "running" /\ Store!HasRow(r)
        /\ loop[l].actor[r] = [status |-> "running", sequence |-> sequence[r]]
        /\ loop[l].actor[r].sequence = sequence[r]
        /\ sequence[r] \in Nat /\ sequence[r] \in 1..Len(events[r]) /\ sequence[r] = Len(events[r])
        /\ events[r][sequence[r]].kind = "run_started"
        /\ events[r][sequence[r]].writer = <<l, "worker">>
        /\ outbox[r].attempts > 0
<1>1. loop[l] \in LoopRec /\ OneTask(loop[l]) /\ Executes(l) /\ StoreInv /\ LogInv
  BY DEF SessionInv, LoopInv, Typed
<1>2. r \in Runs
  BY <1>1, WorkerFacts DEF OneTask
<1>3. Remembers(l, r) /\ loop[l].actor[r].status = "running" /\ loop[l].actor[r].sequence = sequence[r]
  BY <1>1, <1>2 DEF SessionInv, LoopInv, Executes
<1>4. /\ sequence[r] \in 1..Len(events[r]) /\ EventStatus(events[r][sequence[r]].kind) = "running"
      /\ events[r][sequence[r]].writer = <<l, "worker">>
  BY <1>3 DEF Remembers
<1>5. /\ Store!HasRow(r) /\ sequence[r] = Len(events[r]) /\ status[r] = "running"
      /\ sequence[r] \in Nat /\ events[r] \in Seq(Store!Event)
  <2>1. ASSUME events[r] = << >> PROVE FALSE
    BY <1>4, <2>1
  <2> QED BY <1>1, <1>2, <1>4, <2>1, RowFacts
<1>6. events[r][sequence[r]].kind = "run_started"
  BY <1>1, <1>2, <1>4, OfferedFacts DEF LogInv, Fits
<1>7. loop[l].actor[r] = [status |-> "running", sequence |-> sequence[r]]
  <2>1. loop[l].actor[r] \in ActorRec
    BY <1>1, <1>2, ObjectFacts
  <2> QED BY <1>3, <2>1 DEF ActorRec
<1>8. outbox[r].attempts > 0
  <2> DEFINE d == Store!Dispatches(events[r])
  <2>1. outbox[r].attempts = Store!Cardinality(d)
    BY <1>1, <1>2, <1>5 DEF StoreInv, Store!OutboxMatchesLog, Store!OutboxAgrees, Runs
  <2>2. Store!Cardinality(d) = Cardinality(d)
    BY Zenon DEF Store!Cardinality, Cardinality
  <2>3. sequence[r] \in d /\ d \subseteq 1..sequence[r]
    BY <1>4, <1>5, <1>6 DEF Store!Dispatches
  <2>4. IsFiniteSet(d)
    <3>1. IsFiniteSet(1..sequence[r])
      BY <1>5, FS_Interval
    <3> QED BY <2>3, <3>1, FS_Subset
  <2>5. Cardinality(d) \in Nat /\ Cardinality(d) # 0
    BY <2>3, <2>4, FS_CardinalityType, FS_EmptySet
  <2> QED BY <2>1, <2>2, <2>5
<1> QED BY <1>2, <1>4, <1>5, <1>6, <1>7, <1>8

\* The Run of the worker of l is not advanced by the step.
Spared(l) ==
  loop[l].worker.at \in Executing => sequence'[loop[l].worker.run] = sequence[loop[l].worker.run]

\* A write that cannot follow the running of l.
Spares(l, r, e) ==
  \/ EventStatus(e.kind) \in {"queued", "running"}
  \/ /\ e.sequence - 1 \in 1..Len(events[r])
     /\ \/ EventStatus(events[r][e.sequence - 1].kind) # "running"
        \/ events[r][e.sequence - 1].writer # <<l, "worker">>

\* Nobody but its worker advances a Run in execution.
LEMMA SparedBy ==
  ASSUME SessionInv, NEW r \in Runs, NEW e \in Store!Event, Latest(r, e), NEW l \in Loops, Spares(l, r, e)
  PROVE Spared(l)
<1> SUFFICES ASSUME loop[l].worker.at \in Executing
             PROVE sequence'[loop[l].worker.run] = sequence[loop[l].worker.run]
  BY DEF Spared
<1>1. CASE loop[l].worker.run = r
  <2>1. /\ status[r] = "running" /\ sequence[r] = Len(events[r]) /\ sequence[r] \in Nat
        /\ events[r][sequence[r]].kind = "run_started"
        /\ events[r][sequence[r]].writer = <<l, "worker">>
    BY <1>1, ExecutingFacts
  <2>2. CASE EventStatus(e.kind) \in {"queued", "running"}
    BY <1>1, <2>1, <2>2, Moves DEF Latest
  <2>3. CASE /\ e.sequence - 1 \in 1..Len(events[r])
             /\ \/ EventStatus(events[r][e.sequence - 1].kind) # "running"
                \/ events[r][e.sequence - 1].writer # <<l, "worker">>
    <3>1. EventStatus("run_started") = "running"
      BY DEF EventStatus
    <3> QED BY <1>1, <2>1, <2>3, <3>1 DEF Latest
  <2> QED BY <2>2, <2>3 DEF Spares
<1>2. CASE loop[l].worker.run # r
  BY <1>2, ExecutingFacts DEF Latest
<1> QED BY <1>1, <1>2

\* What an actor remembers stays in the log.
LEMMA RemembersKeeps ==
  ASSUME NEW l \in Loops, NEW r \in Runs, Remembers(l, r), Grows, loop'[l].actor[r] = loop[l].actor[r],
         StoreInv, StoreInv'
  PROVE Remembers(l, r)'
<1>1. /\ Len(events[r]) \in Nat /\ Len(events'[r]) \in Nat /\ Len(events[r]) <= Len(events'[r])
      /\ \A i \in 1..Len(events[r]) : events'[r][i] = events[r][i]
  <2>1. events[r] \in Seq(Store!Event)
    BY RowFacts
  <2>2. events'[r] \in Seq(Store!Event)
    BY DEF StoreInv, Store!TypeOK, Runs
  <2> QED BY <2>1, <2>2 DEF Grows
<1>2. CASE loop[l].actor[r].sequence = 0 /\ loop[l].actor[r].status = "created"
  BY <1>2 DEF Remembers
<1>3. CASE /\ loop[l].actor[r].sequence \in 1..Len(events[r])
           /\ EventStatus(events[r][loop[l].actor[r].sequence].kind) = loop[l].actor[r].status
           /\ loop[l].actor[r].status = "running" =>
                events[r][loop[l].actor[r].sequence].writer = <<l, "worker">>
  <2>1. /\ loop[l].actor[r].sequence \in 1..Len(events'[r])
        /\ events'[r][loop[l].actor[r].sequence] = events[r][loop[l].actor[r].sequence]
    BY <1>1, <1>3
  <2> QED BY <1>3, <2>1 DEF Remembers
<1> QED BY <1>2, <1>3 DEF Remembers

\* A loop whose worker executes on what it executed.
LEMMA ExecutesKeeps ==
  ASSUME SessionInv, Grows, NEW l \in Loops, Spared(l), loop'[l].worker = loop[l].worker \/ loop'[l].worker = IdleWorker,
         loop'[l].actor = loop[l].actor
  PROVE Executes(l)'
<1>1. CASE loop'[l].worker = loop[l].worker
  <2>1. loop[l].worker.at \in Executing => loop[l].worker.run \in Runs
    BY ExecutingFacts
  <2>2. Executes(l)
    BY DEF SessionInv, LoopInv
  <2> QED BY <1>1, <2>1, <2>2 DEF Executes, Spared, Grows, Executing
<1>2. CASE loop'[l].worker = IdleWorker
  BY <1>2, WorkerFacts DEF Executes, Executing
<1> QED BY <1>1, <1>2

\* What a step may do to loop l.
MovesWell(l) ==
  /\ loop'[l] \in LoopRec /\ OneTask(loop'[l]) /\ InMode(loop'[l])
  /\ Executes(l)' /\ \A r \in Runs : Remembers(l, r)'
  /\ Calm(loop[l], loop'[l])
  /\ loop[l].mode # "unborn" => loop'[l].mode # "unborn"

\* A loop the step hardly touches.
LEMMA SimilarMoves ==
  ASSUME SessionInv, StoreMoves, NEW l \in Loops, Spared(l), loop'[l] \in LoopRec,
         Similar(loop[l], loop'[l]), loop[l].mode # "unborn" \/ loop'[l] = loop[l]
  PROVE MovesWell(l)
<1>1. loop[l] \in LoopRec /\ OneTask(loop[l]) /\ InMode(loop[l])
  BY DEF SessionInv, LoopInv, Typed
<1>2. /\ OneTask(loop'[l]) /\ Calm(loop[l], loop'[l])
      /\ loop[l].mode # "unborn" => InMode(loop'[l])
  BY <1>1, SimilarTask
<1>3. loop'[l].actor = loop[l].actor /\ (loop'[l].worker = loop[l].worker \/ loop'[l].worker = IdleWorker)
  BY DEF Similar
<1>4. Executes(l)'
  BY <1>3, ExecutesKeeps DEF StoreMoves
<1>5. \A r \in Runs : Remembers(l, r)'
  BY <1>3, RemembersKeeps DEF SessionInv, LoopInv, StoreMoves
<1> QED BY <1>1, <1>2, <1>4, <1>5 DEF MovesWell, Similar

\* A loop the step does not touch.
LEMMA StillMoves ==
  ASSUME SessionInv, StoreMoves, NEW l \in Loops, Spared(l), loop'[l] = loop[l]
  PROVE MovesWell(l)
<1>1. loop[l] \in LoopRec
  BY DEF SessionInv, Typed
<1>2. Similar(loop[l], loop'[l])
  BY DEF Similar
<1> QED BY <1>1, <1>2, SimilarMoves

\* Writes that were abandoned stay so.
LEMMA GhostsStay ==
  ASSUME SessionInv, StoreMoves, \A m \in Loops : Calm(loop[m], loop'[m]), NEW g \in ghosts
  PROVE Abandoned(g)'
<1>1. Abandoned(g) /\ g.run \in Runs
  BY DEF SessionInv, Typed, GhostRec
<1>2. CASE g.event.kind = "run_queued" /\ g.event.sequence = 1
  BY <1>2 DEF Abandoned
<1>3. ASSUME NEW m \in Loops,
             loop[m].future[g.run] # "none", ~Holds(loop[m], g.run),
             g.event.kind \in Offered, EventStatus(g.event.kind) # "queued",
             g.event.kind # "run_started" =>
               /\ g.event.sequence - 1 \in 1..Len(events[g.run])
               /\ events[g.run][g.event.sequence - 1].writer = <<m, "worker">>
      PROVE Abandoned(g)'
  <2>1. loop'[m].future[g.run] # "none" /\ ~Holds(loop'[m], g.run)
    BY <1>1, <1>3 DEF Calm
  <2>2. /\ events[g.run] \in Seq(Store!Event) /\ events'[g.run] \in Seq(Store!Event)
        /\ Len(events[g.run]) <= Len(events'[g.run])
        /\ \A i \in 1..Len(events[g.run]) : events'[g.run][i] = events[g.run][i]
    BY <1>1, RowFacts DEF StoreMoves, Grows, StoreInv, Store!TypeOK, Runs, SessionInv
  <2>3. g.event.kind # "run_started" =>
               /\ g.event.sequence - 1 \in 1..Len(events'[g.run])
               /\ events'[g.run][g.event.sequence - 1].writer = <<m, "worker">>
    BY <1>3, <2>2
  <2> QED BY <1>3, <2>1, <2>3 DEF Abandoned
<1> QED BY <1>1, <1>2, <1>3 DEF Abandoned

\* What the service may know can still be found.
LEMMA SentStays ==
  ASSUME SessionInv, StoreMoves, NEW r \in Runs,
         r \in wire' \/ server'[r] # "absent" =>
           \/ r \in wire \/ server[r] # "absent"
           \/ remote'[r] # NoRemote /\ outbox'[r].attempts > 0
  PROVE Sent(r)'
<1>1. Sent(r) /\ StoreInv /\ StoreInv' /\ Grows
  BY DEF SessionInv, StoreMoves
<1>2. outbox[r].attempts \in Nat /\ outbox'[r].attempts \in Nat
  BY <1>1, RowFacts DEF StoreInv, Store!TypeOK, Runs
<1> QED BY <1>1, <1>2 DEF Sent, Grows

\* The lock that q may hold stays with it, and so do the futures it saw.
Respects(q, l) ==
  loop[l].lock = q =>
    /\ loop'[l].lock = q
    /\ \A r \in Runs : loop[l].future[r] = "none" => loop'[l].future[r] = "none"

\* A submission that is not at work.
LEMMA SubmitsStay ==
  ASSUME SessionInv, NEW q \in Callers, caller'[q] = caller[q], decision' = decision,
         \A m \in Loops : Respects(q, m) /\ (loop[m].mode # "unborn" => loop'[m].mode # "unborn")
  PROVE Submits(q)'
<1>1. Submits(q) /\ (caller[q].at # "idle" => caller[q].run \in Runs /\ caller[q].loop \in Loops)
  BY DEF SessionInv, Typed
<1> QED BY <1>1 DEF Submits, Respects

\* The submissions that a loop's Runs or its closing depend on.
Serves(c, l, r) == c.at \in {"wait", "cancel"} /\ c.loop = l /\ c.run = r
Closes(c, l)    == c.at = "closing" /\ c.loop = l

\* A loop that somebody answers for stays answered for.
LEMMA ServedStays ==
  ASSUME NEW l \in Loops, Served(l), owner' = owner, decision' = decision,
         Drops(loop[l], loop'[l]),
         \/ loop'[l].mode = loop[l].mode
         \/ loop'[l].mode \in {"broken", "closed", "drained"} /\ loop[l].mode # "open",
         \A k \in Callers :
           /\ \A r \in Runs : loop[l].mode = "open" /\ Holds(loop'[l], r) /\ Serves(caller[k], l, r)
                => Serves(caller'[k], l, r)
           /\ loop[l].mode = "cancelling" /\ Closes(caller[k], l) => Closes(caller'[k], l)
  PROVE Served(l)'
<1>1. loop'[l].mode = "open" => loop[l].mode = "open"
  OBVIOUS
<1>2. loop'[l].mode = "cancelling" => loop[l].mode = "cancelling"
  OBVIOUS
<1>3. loop'[l].mode = "open" <=> owner' = l
  BY DEF Served
<1>4. ASSUME loop'[l].mode = "open", NEW r \in Runs, Holds(loop'[l], r)
      PROVE \E k \in Callers : caller'[k].at \in {"wait", "cancel"} /\ caller'[k].loop = l
                                 /\ caller'[k].run = r
  <2>1. PICK k \in Callers : Serves(caller[k], l, r)
    BY <1>1, <1>4 DEF Served, Drops, Serves
  <2>2. Serves(caller'[k], l, r)
    BY <1>1, <1>4, <2>1
  <2> QED BY <2>2 DEF Serves
<1>5. ASSUME loop'[l].mode = "cancelling"
      PROVE \E k \in Callers : caller'[k].at = "closing" /\ caller'[k].loop = l
  <2>1. PICK k \in Callers : Closes(caller[k], l)
    BY <1>2, <1>5 DEF Served, Closes
  <2>2. Closes(caller'[k], l)
    BY <1>2, <1>5, <2>1
  <2> QED BY <2>2 DEF Closes
<1>6. Kept(l)' => \A r \in Runs : Holds(loop'[l], r) => decision'[r] = NoDecision
  BY <1>1, <1>2 DEF Served, Kept, Drops
<1> QED BY <1>3, <1>4, <1>5, <1>6 DEF Served

\* A step inside one loop keeps the invariant.
LEMMA LoopMove ==
  ASSUME SessionInv, StoreMoves, decision' = decision, NEW l \in Loops, NEW p \in LoopRec,
         loop' = [loop EXCEPT ![l] = p], caller' = caller, owner' = owner, rec' = rec,
         ghosts' = ghosts, server' = server,
         \A r \in wire' : r \in wire \/ (r \in Runs /\ remote'[r] # NoRemote /\ outbox'[r].attempts > 0),
         loop[l].mode # "unborn", p.lock = loop[l].lock,
         \A r \in Runs : loop[l].future[r] = "none" => p.future[r] = "none",
         \/ p.mode = loop[l].mode
         \/ p.mode \in {"broken", "closed", "drained"} /\ loop[l].mode # "open",
         OneTask(p), InMode(p), Drops(loop[l], p), Calm(loop[l], p), Executes(l)',
         \A r \in Runs : Remembers(l, r)', \A m \in Loops \ {l} : Spared(m)
  PROVE SessionInv'
<1>1. /\ loop' \in [Loops -> LoopRec] /\ loop'[l] = p
      /\ \A m \in Loops \ {l} : loop'[m] = loop[m]
  BY TypedFacts DEF SessionInv
<1>2. MovesWell(l)
  BY <1>1 DEF MovesWell
<1>3. \A m \in Loops : MovesWell(m)
  BY <1>1, <1>2, StillMoves
<1>4. Typed'
  BY <1>1 DEF Typed, SessionInv
<1>5. ASSUME NEW m \in Loops PROVE Served(m)'
  <2>1. Served(m) /\ Drops(loop[m], loop'[m])
    BY <1>1 DEF SessionInv, LoopInv, Drops
  <2> QED BY <1>1, <2>1, ServedStays
<1>6. LoopInv'
  BY <1>3, <1>5 DEF LoopInv, MovesWell
<1>7. \A g \in ghosts' : Abandoned(g)'
  BY <1>3, GhostsStay DEF MovesWell
<1>8. ASSUME NEW k \in Callers PROVE Submits(k)'
  <2>1. \A m \in Loops : Respects(k, m) /\ (loop[m].mode # "unborn" => loop'[m].mode # "unborn")
    BY <1>1, <1>3 DEF Respects, MovesWell
  <2> QED BY <2>1, SubmitsStay
<1>9. rec'.at # "idle" => BetweenTurns'
  BY DEF SessionInv, BetweenTurns
<1>10. \A r \in Runs : Sent(r)'
  BY SentStays
<1> QED BY <1>4, <1>6, <1>7, <1>8, <1>9, <1>10 DEF SessionInv, StoreMoves

\* A step of one submission keeps the invariant.
LEMMA CallerMove ==
  ASSUME SessionInv, StoreMoves, decision' = decision, NEW k \in Callers, NEW c \in CallerRec,
         NEW l \in Loops, NEW p \in LoopRec, caller[k].at # "idle",
         loop' = [loop EXCEPT ![l] = p], caller' = [caller EXCEPT ![k] = c],
         owner' = owner, rec' = rec, server' = server, wire' = wire,
         \A g \in ghosts' : g \in ghosts \/ (g \in GhostRec /\ Abandoned(g)'),
         c.at # "idle" => c.run \in Runs /\ c.loop \in Loops, Submits(k)',
         \A q \in Callers \ {k} : Respects(q, l),
         loop[l].mode # "unborn", p.mode = loop[l].mode, OneTask(p), InMode(p), Calm(loop[l], p),
         Executes(l)', \A r \in Runs : Remembers(l, r)', \A m \in Loops \ {l} : Spared(m),
         \A r \in Runs : Holds(p, r) => Holds(loop[l], r) \/ (Serves(c, l, r) /\ decision[r] = NoDecision),
         \A m \in Loops, r \in Runs :
           loop[m].mode = "open" /\ Holds(loop'[m], r) /\ Serves(caller[k], m, r) => Serves(c, m, r),
         \A m \in Loops : loop[m].mode = "cancelling" /\ Closes(caller[k], m) => Closes(c, m)
  PROVE SessionInv'
<1>1. /\ loop' \in [Loops -> LoopRec] /\ loop'[l] = p
      /\ \A m \in Loops \ {l} : loop'[m] = loop[m]
      /\ caller' \in [Callers -> CallerRec] /\ caller'[k] = c
      /\ \A q \in Callers \ {k} : caller'[q] = caller[q]
  BY TypedFacts DEF SessionInv
<1>2. MovesWell(l)
  BY <1>1 DEF MovesWell
<1>3. \A m \in Loops : MovesWell(m)
  BY <1>1, <1>2, StillMoves
<1>4. Typed'
  BY <1>1 DEF Typed, SessionInv
<1>5. ASSUME NEW m \in Loops, m # l \/ Drops(loop[l], p) PROVE Served(m)'
  <2>1. Served(m) /\ Drops(loop[m], loop'[m]) /\ loop'[m].mode = loop[m].mode
    BY <1>1, <1>5 DEF SessionInv, LoopInv, Drops
  <2>2. \A q \in Callers :
           /\ \A r \in Runs : loop[m].mode = "open" /\ Holds(loop'[m], r) /\ Serves(caller[q], m, r)
                => Serves(caller'[q], m, r)
           /\ loop[m].mode = "cancelling" /\ Closes(caller[q], m) => Closes(caller'[q], m)
    BY <1>1
  <2> QED BY <2>1, <2>2, ServedStays
<1>6. Served(l)'
  <2>1. Served(l) /\ loop'[l].mode = loop[l].mode
    BY <1>1 DEF SessionInv, LoopInv
  <2>2. ASSUME loop[l].mode = "open", NEW r \in Runs, Holds(p, r)
        PROVE \E q \in Callers : Serves(caller'[q], l, r)
    <3>1. CASE Holds(loop[l], r)
      <4>1. PICK q \in Callers : Serves(caller[q], l, r)
        BY <2>1, <2>2, <3>1 DEF Served, Serves
      <4> QED BY <1>1, <2>2, <4>1
    <3>2. CASE Serves(c, l, r)
      BY <1>1, <3>2
    <3> QED BY <2>2, <3>1, <3>2
  <2>3. loop[l].mode = "cancelling" => \E q \in Callers : Closes(caller'[q], l)
    <3>1. loop[l].mode = "cancelling" => \E q \in Callers : Closes(caller[q], l)
      BY <2>1 DEF Served, Closes
    <3> QED BY <1>1, <3>1
  <2>4. Kept(l)' => \A r \in Runs : Holds(p, r) => decision'[r] = NoDecision
    BY <2>1 DEF Served, Kept
  <2> QED BY <1>1, <2>1, <2>2, <2>3, <2>4 DEF Served, Serves, Closes
<1>7. LoopInv'
  BY <1>3, <1>5, <1>6 DEF LoopInv, MovesWell
<1>8. \A g \in ghosts' : Abandoned(g)'
  BY <1>3, GhostsStay DEF MovesWell
<1>9. ASSUME NEW q \in Callers PROVE Submits(q)'
  <2>1. CASE q # k
    <3>1. \A m \in Loops : Respects(q, m) /\ (loop[m].mode # "unborn" => loop'[m].mode # "unborn")
      BY <1>1, <1>3, <2>1 DEF Respects, MovesWell
    <3> QED BY <1>1, <2>1, <3>1, SubmitsStay
  <2> QED BY <2>1
<1>10. rec'.at = "idle"
  BY DEF SessionInv, BetweenTurns
<1>11. \A r \in Runs : Sent(r)'
  BY SentStays
<1> QED BY <1>4, <1>7, <1>8, <1>9, <1>10, <1>11 DEF SessionInv, StoreMoves

-----------------------------------------------------------------------------
(* The steps of a worker and of a closing loop. *)

\* Who writes, and the statuses an actor moves to after it was queued.
Authors == Callers \cup {"worker", "close", "recovery"}
Steps   == {"running", "completed", "failed", "cancelled", "reconciliation_required"}

\* A new event of the session.
LEMMA EventFacts ==
  ASSUME NEW l \in Loops, NEW who \in Authors, NEW k \in Offered, NEW n \in Int
  PROVE /\ NewEvent(l, who, k, n) \in Offer /\ NewEvent(l, who, k, n).sequence = n
        /\ NewEvent(l, who, k, n).kind = k /\ NewEvent(l, who, k, n).writer = <<l, who>>
BY DEF NewEvent, Offer, Writers, Authors

\* The event an actor writes.
LEMMA ActorEventFacts ==
  ASSUME NEW l \in Loops, NEW who \in Authors, NEW r \in Runs, Typed,
         NEW s \in Steps
  PROVE \E e \in Offer :
          /\ e = ActorEvent(l, who, r, s)
          /\ Leaves(e) /\ EventStatus(e.kind) = s /\ e.kind \in Offered /\ e.writer = <<l, who>>
          /\ e.sequence = loop[l].actor[r].sequence + 1 /\ loop[l].actor[r].sequence \in Nat
          /\ e.kind = "run_started" <=> s = "running"
<1>1. /\ KindOf(s) \in Offered /\ EventStatus(KindOf(s)) = s /\ s # "queued"
      /\ KindOf(s) = "run_started" <=> s = "running"
  BY KindFacts DEF Offered, EventStatus, Steps
<1>2. loop[l].actor[r].sequence \in Nat
  <2>1. loop[l].actor[r] \in ActorRec
    BY TypedFacts, ObjectFacts
  <2> QED BY <2>1, BoundsAssumption DEF ActorRec
<1>3. PICK n \in Nat, k \in Offered : n = loop[l].actor[r].sequence + 1 /\ k = KindOf(s)
  BY <1>1, <1>2
<1>4. PICK e \in Offer : /\ e = ActorEvent(l, who, r, s) /\ e.sequence = n /\ e.kind = k
                        /\ e.writer = <<l, who>>
  <2>1. ActorEvent(l, who, r, s) = NewEvent(l, who, k, n)
    BY <1>3 DEF ActorEvent
  <2> QED BY <2>1, EventFacts
<1> QED BY <1>1, <1>2, <1>3, <1>4 DEF Leaves

\* A step inside one loop that moves no log and no actor.
LEMMA SilentMove ==
  ASSUME SessionInv, StoreMoves, SameLogs, decision' = decision, NEW l \in Loops, NEW p \in LoopRec,
         loop' = [loop EXCEPT ![l] = p], caller' = caller, owner' = owner, rec' = rec,
         ghosts' = ghosts, server' = server,
         \A r \in wire' : r \in wire \/ (r \in Runs /\ remote'[r] # NoRemote /\ outbox'[r].attempts > 0),
         loop[l].mode # "unborn", p.lock = loop[l].lock,
         \A r \in Runs : loop[l].future[r] = "none" => p.future[r] = "none",
         \/ p.mode = loop[l].mode
         \/ p.mode \in {"broken", "closed", "drained"} /\ loop[l].mode # "open",
         OneTask(p), InMode(p), Drops(loop[l], p), Calm(loop[l], p), p.actor = loop[l].actor,
         p.worker.at \in Executing =>
           /\ loop[l].worker.at \in Executing /\ p.worker.run = loop[l].worker.run
           /\ p.worker.at \in {"frozen", "posted"} => remote'[p.worker.run] # NoRemote
  PROVE SessionInv'
<1>1. loop'[l] = p
  BY TypedFacts DEF SessionInv
<1>2. Executes(l)'
  <2>1. ASSUME p.worker.at \in Executing
        PROVE /\ loop'[l].actor[p.worker.run].status = "running"
              /\ loop'[l].actor[p.worker.run].sequence = sequence'[p.worker.run]
    <3>1. loop[l].worker.at \in Executing /\ p.worker.run = loop[l].worker.run
      BY <2>1
    <3>2. loop[l].actor[p.worker.run] = [status |-> "running", sequence |-> sequence[p.worker.run]]
      BY <3>1, ExecutingFacts
    <3> QED BY <1>1, <3>2 DEF SameLogs
  <2> QED BY <1>1, <2>1 DEF Executes, Executing
<1>3. \A r \in Runs : Remembers(l, r)'
  BY <1>1, RemembersKeeps DEF SessionInv, LoopInv, StoreMoves
<1>4. \A m \in Loops : Spared(m)
  BY DEF Spared, SameLogs
<1> QED BY <1>2, <1>3, <1>4, LoopMove

\* A worker that has something to do belongs to a loop that was made.
LEMMA Born ==
  ASSUME SessionInv, NEW l \in Loops, loop[l].worker.at # "none" \/ loop[l].queue # << >>
  PROVE /\ loop[l].mode # "unborn" /\ loop[l] \in LoopRec /\ OneTask(loop[l]) /\ InMode(loop[l])
        /\ Executes(l) /\ Served(l) /\ \A r \in Runs : Remembers(l, r)
<1>1. /\ loop[l] \in LoopRec /\ OneTask(loop[l]) /\ InMode(loop[l]) /\ Executes(l) /\ Served(l)
      /\ \A r \in Runs : Remembers(l, r)
  BY DEF SessionInv, LoopInv, Typed
<1> QED BY <1>1, NewLoopFacts, WorkerFacts DEF InMode

\* A worker's write, or its refusal.
LEMMA TransitionKeeps ==
  ASSUME SessionInv, NEW l \in Loops, loop[l].worker.at \in {"start", "settle", "abort"},
         NEW s \in Steps,
         s = "running" <=> loop[l].worker.at = "start",
         NEW w, \/ w = Worker("exec", loop[l].worker.run, "none") /\ s = "running"
                \/ w = Worker("refresh", loop[l].worker.run, "none")
                \/ w = EndedWorker,
         Transition(l, s, w), UNCHANGED <<owner, caller, ghosts, external, budget>>, rec' = rec
  PROVE StoreMoves /\ SessionInv'
<1> DEFINE o == loop[l]
           r == o.worker.run
<1>1. /\ o.mode # "unborn" /\ o \in LoopRec /\ OneTask(o) /\ InMode(o) /\ r \in Runs /\ Holds(o, r)
      /\ o.future[r] # "none" /\ \A q \in Runs : Remembers(l, q)
  <2>1. o.worker.at # "none"
    OBVIOUS
  <2>2. o.mode # "unborn" /\ o \in LoopRec /\ OneTask(o) /\ InMode(o) /\ \A q \in Runs : Remembers(l, q)
    BY <2>1, Born
  <2>3. r \in Runs /\ Holds(o, r)
    BY <2>2, WorkerFacts DEF OneTask, Holds, Working, Executing
  <2> QED BY <2>2, <2>3 DEF OneTask
<1>2. PICK e \in Offer :
        /\ e = ActorEvent(l, "worker", r, s)
        /\ Leaves(e) /\ EventStatus(e.kind) = s /\ e.writer = <<l, "worker">>
        /\ e.sequence = o.actor[r].sequence + 1
  <2>1. Typed /\ "worker" \in Authors
    BY DEF SessionInv, Authors
  <2> QED BY <1>1, <2>1, ActorEventFacts
<1>3. /\ o.queue \in Seq(Entry) /\ o.future \in [Runs -> Futures] /\ o.actor \in [Runs -> ActorRec]
      /\ o.worker \in WorkerRec
  BY <1>1, ObjectFacts
<1>4. w \in WorkerRec /\ Worker("refresh", r, "none") \in WorkerRec
  BY <1>1, WorkerFacts DEF Working, Executing
<1>5. UNCHANGED <<owner, caller, ghosts, server, wire, rec>>
  BY DEF external
<1>6. CASE Store!Accepts(CommandOf(r), e)
  <2>1. StoreMoves /\ Latest(r, e) /\ e.sequence \in 1..MaxSequence
    BY <1>1, <1>2, <1>6, Wrote, AcceptedFits DEF Transition, SessionInv
  <2>2. PICK fut : fut = [o.future EXCEPT ![r] = IF w.at = "ended" THEN "cancelled" ELSE @]
    OBVIOUS
  <2>3. PICK act : act = [o.actor EXCEPT ![r] = [status |-> s, sequence |-> e.sequence]]
    OBVIOUS
  <2>4. PICK p : p = [o EXCEPT !.actor = act, !.worker = w, !.future = fut]
    OBVIOUS
  <2>5. loop' = [loop EXCEPT ![l] = p]
    <3>1. loop' = [loop EXCEPT ![l].actor[r] = [status |-> s, sequence |-> e.sequence], ![l].worker = w,
                               ![l].future[r] = IF w.at = "ended" THEN "cancelled" ELSE @]
      BY <1>2, <1>6 DEF Transition
    <3> QED BY <2>2, <2>3, <2>4, <3>1, Zenon
  <2>6. fut \in [Runs -> Futures] /\ act \in [Runs -> ActorRec]
    <3>1. [status |-> s, sequence |-> e.sequence] \in ActorRec
      BY <2>1 DEF ActorRec, RunStatus, Steps
    <3> QED BY <1>3, <2>2, <2>3, <3>1 DEF Futures
  <2>7. /\ p \in LoopRec /\ p.actor = act /\ p.worker = w /\ p.future = fut /\ p.queue = o.queue
        /\ p.mode = o.mode /\ p.lock = o.lock
    BY <1>1, <1>4, <2>4, <2>6, Zenon DEF LoopRec
  <2>8. /\ \A q \in Runs : q # r => p.future[q] = o.future[q] /\ p.actor[q] = o.actor[q]
        /\ w.at # "ended" => p.future[r] = o.future[r]
        /\ p.actor[r] = [status |-> s, sequence |-> e.sequence]
        /\ \A q \in Runs : o.future[q] = "none" => p.future[q] = "none"
    BY <1>1, <1>3, <2>2, <2>3, <2>7
  <2>9. \/ w.at = "exec" /\ w.run = r /\ s = "running"
        \/ w.at = "refresh" /\ w.run = r
        \/ w = EndedWorker /\ w.at = "ended"
    BY <1>1, WorkerFacts DEF Working, Executing
  <2>10. OneTask(p) /\ Drops(o, p) /\ Calm(o, p) /\ InMode(p)
    <3>1. \/ p.worker \in {IdleWorker, EndedWorker}
          \/ /\ p.worker.run = o.worker.run /\ p.worker.run \in Runs
             /\ p.worker.at \in Working \ {"start"} /\ p.future[p.worker.run] = o.future[p.worker.run]
             /\ p.worker.at # "settle" /\ p.worker.at # "abort"
      BY <1>1, <2>7, <2>8, <2>9 DEF Working, Executing
    <3> QED BY <1>1, <2>7, <2>8, <3>1, WorkerMoves
  <2>11. loop'[l] = p
    BY <2>5, TypedFacts DEF SessionInv
  <2>12. Executes(l)'
    <3>1. w.at \in Executing => w.run = r /\ s = "running" /\ w.at = "exec"
      BY <2>9, WorkerFacts DEF Executing
    <3>2. p.actor[r].status = s /\ p.actor[r].sequence = sequence'[r]
      <4>1. p.actor[r].status = s /\ p.actor[r].sequence = e.sequence
        BY <2>8
      <4>2. sequence'[r] = e.sequence
        BY <2>1 DEF Latest
      <4> QED BY <4>1, <4>2
    <3>3. p.worker.at \in Executing =>
            /\ p.actor[p.worker.run].status = "running"
            /\ p.actor[p.worker.run].sequence = sequence'[p.worker.run]
      BY <2>7, <3>1, <3>2
    <3>4. p.worker.at \notin {"frozen", "posted"}
      BY <2>7, <2>9
    <3> QED BY <2>11, <3>3, <3>4 DEF Executes
  <2>13. ASSUME NEW q \in Runs PROVE Remembers(l, q)'
    <3>1. CASE q = r
      <4>1. /\ e.sequence \in 1..Len(events'[r]) /\ events'[r][e.sequence] = e
        BY <2>1 DEF Latest
      <4>2. p.actor[r].status = s /\ p.actor[r].sequence = e.sequence
        BY <2>8
      <4> QED BY <1>2, <2>11, <3>1, <4>1, <4>2 DEF Remembers
    <3>2. CASE q # r
      BY <1>1, <2>1, <2>8, <2>11, <3>2, RemembersKeeps DEF StoreMoves, SessionInv
    <3> QED BY <3>1, <3>2
  <2>14. ASSUME NEW m \in Loops \ {l} PROVE Spared(m)
    <3>1. CASE s = "running"
      BY <1>1, <1>2, <2>1, <3>1, Wrote, SparedBy, AcceptedFits, <1>6 DEF Spares, SessionInv
    <3>2. CASE s # "running"
      <4>1. o.worker.at \in Executing
        BY <3>2 DEF Executing
      <4>2. /\ o.actor[r].sequence = sequence[r] /\ sequence[r] \in 1..Len(events[r])
            /\ events[r][sequence[r]].writer = <<l, "worker">> /\ sequence[r] \in Nat
        BY <4>1, ExecutingFacts, ZenonT(40)
      <4>3. e.sequence - 1 = sequence[r]
        <5>1. e.sequence = o.actor[r].sequence + 1
          BY <1>2, Zenon
        <5>2. e.sequence = sequence[r] + 1
          BY <4>2, <5>1, Zenon
        <5>3. ASSUME NEW a \in Nat PROVE (a + 1) - 1 = a
          OBVIOUS
        <5>4. (sequence[r] + 1) - 1 = sequence[r]
          BY <4>2, <5>3
        <5> QED BY <5>2, <5>4
      <4>4. <<l, "worker">> # <<m, "worker">>
        OBVIOUS
      <4>5. Spares(m, r, e)
        BY <4>2, <4>3, <4>4 DEF Spares
      <4> QED BY <1>1, <1>2, <1>6, <2>1, <4>5, SparedBy, AcceptedFits DEF SessionInv
    <3> QED BY <3>1, <3>2
  <2> QED BY <1>1, <1>5, <2>1, <2>5, <2>7, <2>8, <2>10, <2>12, <2>13, <2>14, LoopMove DEF Latest
<1>7. CASE ~Store!Accepts(CommandOf(r), e)
  <2>1. UNCHANGED store /\ loop' = [loop EXCEPT ![l].worker = Worker("refresh", r, "none")]
    BY <1>2, <1>7 DEF Transition
  <2>2. StoreMoves /\ SameLogs /\ decision' = decision /\ remote' = remote
    BY <2>1, Leave DEF SessionInv
  <2>3. PICK p : p = [o EXCEPT !.worker = Worker("refresh", r, "none")]
    OBVIOUS
  <2>4. loop' = [loop EXCEPT ![l] = p]
    BY <2>1, <2>3, Zenon
  <2>5. /\ p \in LoopRec /\ p.actor = o.actor /\ p.worker = Worker("refresh", r, "none")
        /\ p.future = o.future /\ p.queue = o.queue /\ p.mode = o.mode /\ p.lock = o.lock
    BY <1>1, <1>4, <2>3, Zenon DEF LoopRec
  <2>6. p.worker.at = "refresh" /\ p.worker.run = r /\ "refresh" \notin Executing
        /\ "refresh" \in Working \ {"start"}
    BY <1>1, <2>5, WorkerFacts DEF Working
  <2>7. OneTask(p) /\ Drops(o, p) /\ Calm(o, p) /\ InMode(p)
    BY <1>1, <2>5, <2>6, WorkerMoves
  <2> QED BY <1>1, <1>5, <2>2, <2>4, <2>5, <2>6, <2>7, SilentMove
<1> QED BY <1>6, <1>7

\* The store writes of a worker.
LEMMA WritesKeep ==
  ASSUME SessionInv, NEW l \in Loops, StartRun(l) \/ Settle(l) \/ Abort(l), rec' = rec
  PROVE StoreMoves /\ SessionInv'
<1> DEFINE w == loop[l].worker
<1>1. CASE StartRun(l)
  BY <1>1, TransitionKeeps DEF StartRun, Steps
<1>2. loop[l].worker.at # "none" => OneTask(loop[l])
  BY Born
<1>3. CASE Settle(l)
  BY <1>2, <1>3, TransitionKeeps DEF Settle, OneTask, Steps
<1>4. CASE Abort(l)
  BY <1>2, <1>4, TransitionKeeps DEF Abort, OneTask, Steps
<1> QED BY <1>1, <1>3, <1>4

\* The steps of a worker with its Run that write no event.
LEMMA ExecutionKeeps ==
  ASSUME SessionInv, NEW l \in Loops, Freeze(l) \/ Submit(l) \/ ExecutorEnds(l), rec' = rec
  PROVE StoreMoves /\ SessionInv'
<1> DEFINE o == loop[l]
           r == o.worker.run
<1>1. UNCHANGED <<owner, caller, ghosts, server, rec>>
  BY DEF Freeze, Submit, ExecutorEnds, external
<1>2. o.worker.at \in {"exec", "frozen", "posted"}
  BY DEF Freeze, Submit, ExecutorEnds, Outcomes
<1>3. /\ o.mode # "unborn" /\ o \in LoopRec /\ OneTask(o) /\ InMode(o) /\ Executes(l)
      /\ r \in Runs /\ outbox[r].attempts > 0 /\ outbox[r].attempts \in Nat
      /\ o.worker.at \in Executing /\ o.worker \in WorkerRec
  <2>1. o.worker.at # "none" /\ o.worker.at \in Executing
    BY <1>2 DEF Executing
  <2>2. r \in Runs /\ outbox[r].attempts > 0
    BY <2>1, ExecutingFacts
  <2>3. o.mode # "unborn" /\ o \in LoopRec /\ OneTask(o) /\ InMode(o) /\ Executes(l)
    BY <2>1, Born
  <2> QED BY <2>1, <2>2, <2>3, RowFacts, ObjectFacts DEF SessionInv
<1>4. ASSUME NEW a \in {"frozen", "posted", "settle"}, NEW s \in RunStatus \cup {"none"},
             a = "settle" => s \in {"completed", "failed", "reconciliation_required"},
             a # "settle" => remote'[r] # NoRemote,
             NEW v \in WorkerRec, v.at = a, v.run = r, v.next = s, loop' = [loop EXCEPT ![l].worker = v],
             StoreMoves, SameLogs, decision' = decision,
             \A q \in wire' : q \in wire \/ (q \in Runs /\ remote'[q] # NoRemote /\ outbox'[q].attempts > 0)
      PROVE SessionInv'
  <2>1. PICK p : p = [o EXCEPT !.worker = v]
    OBVIOUS
  <2>2. loop' = [loop EXCEPT ![l] = p]
    BY <1>4, <2>1, Zenon
  <2>3. /\ p \in LoopRec /\ p.actor = o.actor /\ p.worker = v /\ p.future = o.future
        /\ p.queue = o.queue /\ p.mode = o.mode /\ p.lock = o.lock
    BY <1>3, <1>4, <2>1, Zenon DEF LoopRec
  <2>4. p.worker.at \in Working \ {"start"} /\ p.worker.at # "abort"
    BY <1>4, <2>3 DEF Working, Executing
  <2>5. OneTask(p) /\ Drops(o, p) /\ Calm(o, p) /\ InMode(p)
    BY <1>3, <1>4, <2>3, <2>4, WorkerMoves
  <2> QED BY <1>1, <1>3, <1>4, <2>2, <2>3, <2>5, SilentMove
<1>5. o.worker.next \in RunStatus \cup {"none"}
  BY <1>3, ObjectFacts
<1>6. CASE Freeze(l)
  <2>1. /\ \/ remote[r] = NoRemote /\ Store!SaveRemoteRequest(CommandOf(r), CommandOf(r).turn_id, "frozen")
           \/ remote[r] # NoRemote /\ UNCHANGED store
        /\ loop' = [loop EXCEPT ![l].worker.at = "frozen"] /\ wire' = wire
    BY <1>6 DEF Freeze, external
  <2>2. StoreMoves /\ SameLogs /\ decision' = decision /\ remote'[r] # NoRemote
    BY <1>3, <2>1, Saves, Leave DEF SessionInv
  <2>3. PICK v : v = [o.worker EXCEPT !.at = "frozen", !.next = o.worker.next]
    OBVIOUS
  <2>4. v = [o.worker EXCEPT !.at = "frozen"]
    BY <1>3, <2>3 DEF WorkerRec
  <2>5. loop' = [loop EXCEPT ![l].worker = v]
    BY <2>1, <2>4, Zenon
  <2>6. v \in WorkerRec /\ v.at = "frozen" /\ v.run = r /\ v.next = o.worker.next
    BY <1>3, <1>5, <2>3 DEF WorkerRec, Working, Executing
  <2>7. \A q \in wire' : q \in wire
    BY <2>1
  <2> QED BY <1>4, <1>5, <2>2, <2>5, <2>6, <2>7
<1>7. CASE Submit(l)
  <2>1. /\ UNCHANGED store /\ loop' = [loop EXCEPT ![l].worker.at = "posted"] /\ wire' = wire \cup {r}
        /\ o.worker.at = "frozen"
    BY <1>7 DEF Submit, external
  <2>2. StoreMoves /\ SameLogs /\ decision' = decision /\ remote' = remote
    BY <2>1, Leave DEF SessionInv
  <2>3. remote'[r] # NoRemote /\ outbox'[r].attempts > 0
    BY <1>3, <2>1, <2>2 DEF Executes, SameLogs
  <2>4. PICK v : v = [o.worker EXCEPT !.at = "posted", !.next = o.worker.next]
    OBVIOUS
  <2>5. v = [o.worker EXCEPT !.at = "posted"]
    BY <1>3, <2>4 DEF WorkerRec
  <2>6. loop' = [loop EXCEPT ![l].worker = v]
    BY <2>1, <2>5, Zenon
  <2>7. \A q \in wire' : q \in wire \/ (q \in Runs /\ remote'[q] # NoRemote /\ outbox'[q].attempts > 0)
    BY <1>3, <2>1, <2>3
  <2>8. v \in WorkerRec /\ v.at = "posted" /\ v.run = r /\ v.next = o.worker.next
    BY <1>3, <1>5, <2>4 DEF WorkerRec, Working, Executing
  <2> QED BY <1>4, <1>5, <2>2, <2>3, <2>6, <2>7, <2>8
<1>8. CASE ExecutorEnds(l)
  <2>1. PICK s \in {"completed", "failed", "reconciliation_required"} :
          loop' = [loop EXCEPT ![l].worker.at = "settle", ![l].worker.next = s]
    BY <1>2, <1>8 DEF ExecutorEnds, Outcomes
  <2>2. UNCHANGED store /\ wire' = wire
    BY <1>8 DEF ExecutorEnds, external
  <2>3. StoreMoves /\ SameLogs /\ decision' = decision
    BY <2>2, Leave DEF SessionInv
  <2>4. PICK v : v = [o.worker EXCEPT !.at = "settle", !.next = s]
    OBVIOUS
  <2>5. loop' = [loop EXCEPT ![l].worker = v]
    BY <2>1, <2>4, Zenon
  <2>6. s \in RunStatus \cup {"none"}
    BY DEF RunStatus
  <2>7. v \in WorkerRec /\ v.at = "settle" /\ v.run = r /\ v.next = s
    BY <1>3, <2>4, <2>6 DEF WorkerRec, Working, Executing
  <2>8. \A q \in wire' : q \in wire
    BY <2>2
  <2> QED BY <1>4, <2>3, <2>5, <2>6, <2>7, <2>8
<1> QED BY <1>6, <1>7, <1>8

\* What a gate can be.
LEMMA GateFacts ==
  /\ \A g \in Gates : g \in [blocked : BOOLEAN, first : Runs \cup {Nobody}]
  /\ (\A g \in Gates : g \in [blocked : BOOLEAN, first : Runs \cup {Nobody}])'
  /\ OpenGate \in [blocked : BOOLEAN, first : Runs \cup {Nobody}]
<1>1. \A g \in Gates : g \in [blocked : BOOLEAN, first : Runs \cup {Nobody}]
  <2>1. \A g \in Gates : \E b \in BOOLEAN, r \in Runs \cup {Nobody} : g = [blocked |-> b, first |-> r]
    BY Zenon DEF Gates, Store!RecoverSession, Runs
  <2> QED BY <2>1
<1>2. (\A g \in Gates : g \in [blocked : BOOLEAN, first : Runs \cup {Nobody}])'
  <2>1. (\A g \in Gates : \E b \in BOOLEAN, r \in Runs \cup {Nobody} : g = [blocked |-> b, first |-> r])'
    BY Zenon DEF Gates, Store!RecoverSession, Runs
  <2> QED BY <2>1
<1> QED BY <1>1, <1>2 DEF OpenGate

\* The Run is over: the gate is read again and the future done.
LEMMA RefreshKeeps ==
  ASSUME SessionInv, NEW l \in Loops, Refresh(l) \/ RefreshFails(l), rec' = rec
  PROVE StoreMoves /\ SessionInv'
<1> DEFINE o == loop[l]
           r == o.worker.run
<1>1. UNCHANGED <<owner, caller, ghosts, server, wire, rec>> /\ UNCHANGED store
  BY DEF Refresh, RefreshFails, external
<1>2. o.worker.at = "refresh"
  BY DEF Refresh, RefreshFails
<1>3. /\ o.mode # "unborn" /\ o \in LoopRec /\ OneTask(o) /\ InMode(o) /\ r \in Runs
      /\ o.future \in [Runs -> Futures] /\ o.future[r] # "none"
  <2>1. o.mode # "unborn" /\ o \in LoopRec /\ OneTask(o) /\ InMode(o)
    BY <1>2, Born
  <2>2. r \in Runs /\ Holds(o, r)
    BY <1>2, <2>1 DEF OneTask, Working, Holds
  <2> QED BY <2>1, <2>2, ObjectFacts DEF OneTask
<1>4. PICK fut : fut = [o.future EXCEPT ![r] = "done"]
  OBVIOUS
<1>5. PICK g \in [blocked : BOOLEAN, first : Runs \cup {Nobody}], b \in BOOLEAN :
        loop' = [loop EXCEPT ![l] = [o EXCEPT !.gate = g, !.gateFailed = b, !.future = fut,
                                              !.worker = IdleWorker]]
  <2>1. CASE Refresh(l)
    <3>1. PICK g \in Gates : loop' = [loop EXCEPT ![l].gate = g, ![l].gateFailed = FALSE,
                                        ![l].future[r] = "done", ![l].worker = IdleWorker]
      BY <2>1 DEF Refresh
    <3>2. g \in [blocked : BOOLEAN, first : Runs \cup {Nobody}]
      BY GateFacts
    <3>3. loop' = [loop EXCEPT ![l] = [o EXCEPT !.gate = g, !.gateFailed = FALSE, !.future = fut,
                                                !.worker = IdleWorker]]
      BY <1>4, <3>1, Zenon
    <3> QED BY <3>2, <3>3
  <2>2. CASE RefreshFails(l)
    <3>1. loop' = [loop EXCEPT ![l].gateFailed = TRUE, ![l].future[r] = "done", ![l].worker = IdleWorker]
      BY <2>2 DEF RefreshFails
    <3>2. loop' = [loop EXCEPT ![l] = [o EXCEPT !.gateFailed = TRUE, !.future = fut,
                                                !.worker = IdleWorker]]
      BY <1>4, <3>1, Zenon
    <3>3. [o EXCEPT !.gateFailed = TRUE, !.future = fut, !.worker = IdleWorker]
            = [o EXCEPT !.gate = o.gate, !.gateFailed = TRUE, !.future = fut, !.worker = IdleWorker]
      BY <1>3, Zenon DEF LoopRec
    <3>4. o.gate \in [blocked : BOOLEAN, first : Runs \cup {Nobody}]
      BY <1>3, ObjectFacts
    <3> QED BY <3>2, <3>3, <3>4
  <2> QED BY <2>1, <2>2
<1>6. PICK p : p = [o EXCEPT !.gate = g, !.gateFailed = b, !.future = fut, !.worker = IdleWorker]
  OBVIOUS
<1>7. loop' = [loop EXCEPT ![l] = p]
  BY <1>5, <1>6, Zenon
<1>8. fut \in [Runs -> Futures]
  BY <1>3, <1>4 DEF Futures
<1>9. /\ p \in LoopRec /\ p.actor = o.actor /\ p.worker = IdleWorker /\ p.future = fut
      /\ p.queue = o.queue /\ p.mode = o.mode /\ p.lock = o.lock
  BY <1>3, <1>5, <1>6, <1>8, WorkerFacts, Zenon DEF LoopRec
<1>10. /\ \A q \in Runs : q # r => p.future[q] = o.future[q] /\ p.actor[q] = o.actor[q]
       /\ \A q \in Runs : o.future[q] = "none" => p.future[q] = "none"
  BY <1>3, <1>4, <1>9
<1>11. OneTask(p) /\ Drops(o, p) /\ Calm(o, p) /\ InMode(p)
  BY <1>3, <1>9, <1>10, WorkerMoves
<1>12. StoreMoves /\ SameLogs /\ decision' = decision
  BY <1>1, Leave DEF SessionInv
<1>13. p.worker.at \notin Executing
  BY <1>9, WorkerFacts DEF Executing
<1> QED BY <1>1, <1>3, <1>7, <1>9, <1>10, <1>11, <1>12, <1>13, SilentMove

\* close() forgets the worker and cancels what is still pending.
LEMMA FinishKeeps ==
  ASSUME SessionInv, NEW l \in Loops, FinishClose(l), rec' = rec
  PROVE StoreMoves /\ SessionInv'
<1> DEFINE o == loop[l]
<1>1. UNCHANGED <<owner, caller, ghosts, server, wire, rec>> /\ UNCHANGED store
  BY DEF FinishClose, external
<1>2. o.mode \in {"draining", "cancelling"} /\ o.worker.at = "ended"
  BY DEF FinishClose
<1>3. o.mode # "unborn" /\ o \in LoopRec /\ OneTask(o) /\ o.future \in [Runs -> Futures]
  <2>1. o.mode # "unborn" /\ o \in LoopRec /\ OneTask(o)
    BY <1>2, Born
  <2> QED BY <2>1, ObjectFacts
<1>4. PICK mode : mode = IF o.mode = "draining" THEN "drained" ELSE "closed"
  OBVIOUS
<1>5. PICK fut : fut = [r \in Runs |-> IF o.future[r] = "pending" THEN "cancelled" ELSE o.future[r]]
  OBVIOUS
<1>6. PICK p : p = [o EXCEPT !.mode = mode, !.worker = NoWorker, !.future = fut]
  OBVIOUS
<1>7. loop' = [loop EXCEPT ![l] = p]
  <2>1. loop' = [loop EXCEPT ![l].mode = IF @ = "draining" THEN "drained" ELSE "closed",
                ![l].worker = NoWorker,
                ![l].future = [r \in Runs |-> IF @[r] = "pending" THEN "cancelled" ELSE @[r]]]
    BY DEF FinishClose
  <2> QED BY <1>4, <1>5, <1>6, <2>1, Zenon
<1>8. fut \in [Runs -> Futures] /\ mode \in Modes /\ mode \in {"drained", "closed"}
  BY <1>3, <1>4, <1>5 DEF Futures, Modes
<1>9. /\ p \in LoopRec /\ p.actor = o.actor /\ p.worker = NoWorker /\ p.future = fut
      /\ p.queue = o.queue /\ p.mode = mode /\ p.lock = o.lock
  BY <1>3, <1>6, <1>8, WorkerFacts, Zenon DEF LoopRec
<1>10. \A q \in Runs : o.future[q] = "none" <=> p.future[q] = "none"
  BY <1>3, <1>5, <1>9
<1>11. OneTask(p) /\ Drops(o, p) /\ Calm(o, p) /\ InMode(p)
  <2>1. o.worker.at \notin Working
    BY <1>2 DEF Working, Executing
  <2> QED BY <1>3, <1>8, <1>9, <1>10, <2>1, CloseTask
<1>12. StoreMoves /\ SameLogs /\ decision' = decision
  BY <1>1, Leave DEF SessionInv
<1>13. p.worker.at \notin Executing
  BY <1>9, WorkerFacts DEF Executing
<1> QED BY <1>1, <1>2, <1>3, <1>7, <1>8, <1>9, <1>10, <1>11, <1>12, <1>13, SilentMove

\* close() cancels the first Run of the queue.
LEMMA CancelQueuedKeeps ==
  ASSUME SessionInv, NEW l \in Loops, CancelQueued(l), rec' = rec
  PROVE StoreMoves /\ SessionInv'
<1> DEFINE o == loop[l]
<1>1. UNCHANGED <<owner, caller, ghosts, server, wire, rec>>
  BY DEF CancelQueued, external
<1>2. o.mode = "cancelling" /\ o.worker.at = "ended" /\ o.queue # << >> /\ o.worker.at \notin Working
  BY DEF CancelQueued, Working, Executing
<1>3. /\ o \in LoopRec /\ OneTask(o) /\ InMode(o) /\ o.queue \in Seq(Entry) /\ o.actor \in [Runs -> ActorRec]
      /\ \A q \in Runs : Remembers(l, q)
  <2>1. o \in LoopRec /\ OneTask(o) /\ InMode(o) /\ \A q \in Runs : Remembers(l, q)
    BY <1>2, Born
  <2> QED BY <2>1, ObjectFacts
<1>4. PICK r : r = Head(o.queue)
  OBVIOUS
<1>5. r \in Runs /\ r \in Queued(o) /\ o.actor[r].status = "queued" /\ o.worker.run \notin Runs
  <2>1. r \in Entry /\ r \in Queued(o)
    BY <1>2, <1>3, <1>4 DEF Queued
  <2> QED BY <1>2, <1>3, <2>1 DEF Entry, OneTask, InMode
<1>6. PICK e \in Offer :
        /\ e = ActorEvent(l, "close", r, "cancelled")
        /\ Leaves(e) /\ EventStatus(e.kind) = "cancelled" /\ e.writer = <<l, "close">>
        /\ e.sequence = o.actor[r].sequence + 1 /\ o.actor[r].sequence \in Nat
  <2>1. Typed /\ "close" \in Authors /\ "cancelled" \in Steps
    BY DEF SessionInv, Authors, Steps
  <2> QED BY <1>5, <2>1, ActorEventFacts
<1>7. Tail(o.queue) \in Seq(Entry)
  BY <1>2, <1>3
<1>8. CASE Store!Accepts(CommandOf(r), e)
  <2>1. /\ Write(r, e)
        /\ loop' = [loop EXCEPT ![l].queue = Tail(@),
                        ![l].actor[r] = [status |-> "cancelled", sequence |-> e.sequence]]
    BY <1>4, <1>6, <1>8 DEF CancelQueued
  <2>2. StoreMoves /\ Latest(r, e) /\ e.sequence \in 1..MaxSequence /\ e \in Store!Event
    BY <1>5, <1>6, <1>8, <2>1, Wrote, AcceptedFits DEF SessionInv
  <2>3. PICK act : act = [o.actor EXCEPT ![r] = [status |-> "cancelled", sequence |-> e.sequence]]
    OBVIOUS
  <2>4. PICK p : p = [o EXCEPT !.queue = Tail(@), !.actor = act]
    OBVIOUS
  <2>5. loop' = [loop EXCEPT ![l] = p]
    BY <2>1, <2>3, <2>4, Zenon
  <2>6. act \in [Runs -> ActorRec]
    <3>1. [status |-> "cancelled", sequence |-> e.sequence] \in ActorRec
      BY <2>2 DEF ActorRec, RunStatus
    <3> QED BY <1>3, <2>3, <3>1
  <2>7. /\ p \in LoopRec /\ p.actor = act /\ p.worker = o.worker /\ p.future = o.future
        /\ p.queue = Tail(o.queue) /\ p.mode = o.mode /\ p.lock = o.lock
    BY <1>3, <1>7, <2>4, <2>6, Zenon DEF LoopRec
  <2>8. /\ \A q \in Runs : q # r => p.actor[q] = o.actor[q]
        /\ p.actor[r].status = "cancelled" /\ p.actor[r].sequence = e.sequence
    BY <1>3, <1>5, <2>3, <2>7
  <2>9. OneTask(p) /\ Drops(o, p) /\ Calm(o, p) /\ InMode(p)
    BY <1>2, <1>3, <1>4, <1>5, <2>7, <2>8, HeadLeaves
  <2>10. loop'[l] = p
    BY <2>5, TypedFacts DEF SessionInv
  <2>11. Executes(l)'
    BY <1>2, <2>7, <2>10 DEF Executes, Executing
  <2>12. ASSUME NEW q \in Runs PROVE Remembers(l, q)'
    <3>1. CASE q = r
      BY <1>6, <2>2, <2>8, <2>10, <3>1 DEF Remembers, Latest
    <3>2. CASE q # r
      BY <1>3, <2>2, <2>8, <2>10, <3>2, RemembersKeeps DEF StoreMoves, SessionInv
    <3> QED BY <3>1, <3>2
  <2>13. ASSUME NEW m \in Loops \ {l} PROVE Spared(m)
    <3>1. /\ o.actor[r].sequence \in 1..Len(events[r])
          /\ EventStatus(events[r][o.actor[r].sequence].kind) = "queued"
      BY <1>3, <1>5 DEF Remembers
    <3>2. e.sequence - 1 = o.actor[r].sequence
      BY <1>6
    <3>3. Spares(m, r, e)
      BY <3>1, <3>2 DEF Spares
    <3> QED BY <1>5, <2>2, <3>3, SparedBy
  <2> QED BY <1>1, <1>2, <2>2, <2>5, <2>7, <2>9, <2>11, <2>12, <2>13, LoopMove DEF Latest
<1>9. CASE ~Store!Accepts(CommandOf(r), e)
  <2>1. UNCHANGED store /\ loop' = [loop EXCEPT ![l].queue = Tail(@), ![l].mode = "broken"]
    BY <1>4, <1>6, <1>9 DEF CancelQueued
  <2>2. StoreMoves /\ SameLogs /\ decision' = decision
    BY <2>1, Leave DEF SessionInv
  <2>3. PICK p : p = [o EXCEPT !.queue = Tail(@), !.mode = "broken"]
    OBVIOUS
  <2>4. loop' = [loop EXCEPT ![l] = p]
    BY <2>1, <2>3, Zenon
  <2>5. "broken" \in Modes
    BY DEF Modes
  <2>6. /\ p \in LoopRec /\ p.actor = o.actor /\ p.worker = o.worker /\ p.future = o.future
        /\ p.queue = Tail(o.queue) /\ p.mode = "broken" /\ p.lock = o.lock
    BY <1>3, <1>7, <2>3, <2>5, Zenon DEF LoopRec
  <2>7. OneTask(p) /\ Drops(o, p) /\ Calm(o, p) /\ InMode(p)
    BY <1>2, <1>3, <1>4, <1>5, <2>6, HeadLeaves
  <2>8. p.worker.at \notin Executing
    BY <1>2, <2>6 DEF Executing
  <2> QED BY <1>1, <1>2, <2>2, <2>4, <2>6, <2>7, <2>8, SilentMove
<1> QED BY <1>8, <1>9

\* The worker takes the head of its queue.
LEMMA TakeKeeps ==
  ASSUME SessionInv, NEW l \in Loops, Take(l), rec' = rec
  PROVE StoreMoves /\ SessionInv'
<1> DEFINE o == loop[l]
<1>1. UNCHANGED <<owner, ghosts, server, wire, rec>> /\ UNCHANGED store
  BY DEF Take, external
<1>2. o.worker.at = "idle" /\ o.queue # << >> /\ o.worker.at \notin Working
  BY DEF Take, Working, Executing
<1>3. /\ o \in LoopRec /\ OneTask(o) /\ InMode(o) /\ o.queue \in Seq(Entry) /\ o.mode # "unborn"
      /\ o.future \in [Runs -> Futures] /\ Executes(l)
  <2>1. o \in LoopRec /\ OneTask(o) /\ InMode(o) /\ o.mode # "unborn" /\ Executes(l)
    BY <1>2, Born
  <2> QED BY <2>1, ObjectFacts
<1>4. PICK r : r = Head(o.queue)
  OBVIOUS
<1>5. r \in Entry /\ (r # Stop => r \in Runs) /\ (r \in Runs => o.future[r] # "none") /\ o.worker.run \notin Runs
  <2>1. r \in Entry /\ r \in Queued(o)
    BY <1>2, <1>3, <1>4 DEF Queued
  <2> QED BY <1>2, <1>3, <2>1 DEF Entry, OneTask, Holds
<1>6. Tail(o.queue) \in Seq(Entry)
  BY <1>2, <1>3
<1>7. StoreMoves /\ SameLogs /\ decision' = decision /\ remote' = remote
  BY <1>1, Leave DEF SessionInv
<1>8. ASSUME NEW v \in {EndedWorker, Worker("start", r, "none")}, v = EndedWorker \/ r \in Runs,
             loop' = [loop EXCEPT ![l].queue = Tail(@), ![l].worker = v], caller' = caller
      PROVE SessionInv'
  <2>1. PICK p : p = [o EXCEPT !.queue = Tail(@), !.worker = v]
    OBVIOUS
  <2>2. loop' = [loop EXCEPT ![l] = p]
    BY <1>8, <2>1, Zenon
  <2>3. v \in WorkerRec /\ v.at \notin Executing /\ (v = EndedWorker => v.at \notin Working /\ v.run \notin Runs)
    BY <1>8, WorkerFacts DEF Working, Executing
  <2>4. /\ p \in LoopRec /\ p.actor = o.actor /\ p.worker = v /\ p.future = o.future
        /\ p.queue = Tail(o.queue) /\ p.mode = o.mode /\ p.lock = o.lock
    BY <1>3, <1>6, <2>1, <2>3, Zenon DEF LoopRec
  <2>5. OneTask(p) /\ Drops(o, p) /\ Calm(o, p) /\ InMode(p)
    BY <1>2, <1>3, <1>4, <1>8, <2>3, <2>4, HeadLeaves
  <2> QED BY <1>1, <1>3, <1>7, <1>8, <2>2, <2>3, <2>4, <2>5, SilentMove
<1>9. ASSUME r \in Runs, loop' = [loop EXCEPT ![l].queue = Tail(@), ![l].future[r] = "none"],
             caller' = [k \in Callers |->
               IF caller[k].at = "wait" /\ caller[k].loop = l /\ caller[k].run = r
               THEN Idle ELSE caller[k]]
      PROVE SessionInv'
  <2>1. PICK fut : fut = [o.future EXCEPT ![r] = "none"]
    OBVIOUS
  <2>2. PICK p : p = [o EXCEPT !.queue = Tail(@), !.future = fut]
    OBVIOUS
  <2>3. loop' = [loop EXCEPT ![l] = p]
    BY <1>9, <2>1, <2>2, Zenon
  <2>4. fut \in [Runs -> Futures]
    BY <1>3, <2>1 DEF Futures
  <2>5. /\ p \in LoopRec /\ p.actor = o.actor /\ p.worker = o.worker /\ p.future = fut
        /\ p.queue = Tail(o.queue) /\ p.mode = o.mode /\ p.lock = o.lock
    BY <1>3, <1>6, <2>2, <2>4, Zenon DEF LoopRec
  <2>6. /\ \A q \in Runs : q # r => p.future[q] = o.future[q]
        /\ \A q \in Runs : o.future[q] = "none" => p.future[q] = "none"
    BY <1>3, <1>9, <2>1, <2>5
  <2>7. OneTask(p) /\ Drops(o, p) /\ Calm(o, p) /\ InMode(p)
    BY <1>2, <1>3, <1>4, <1>5, <2>5, <2>6, HeadLeaves
  <2>8. \A q \in Runs : Holds(p, q) => q # r
    <3>1. r \notin Queued(p)
      BY <1>2, <1>3, <1>4, <1>9, <2>5, QueueTail
    <3> QED BY <1>5, <2>5, <3>1 DEF Holds
  <2>9. /\ loop' \in [Loops -> LoopRec] /\ loop'[l] = p
        /\ \A m \in Loops \ {l} : loop'[m] = loop[m]
    BY <2>3, <2>5, TypedFacts DEF SessionInv
  <2>10. \A m \in Loops : Spared(m)
    BY <1>7 DEF Spared, SameLogs
  <2>11. MovesWell(l)
    <3>1. Executes(l)'
      BY <1>2, <2>5, <2>9 DEF Executes, Executing
    <3>2. \A q \in Runs : Remembers(l, q)'
      BY <1>7, <2>5, <2>9, RemembersKeeps DEF SessionInv, LoopInv, StoreMoves
    <3> QED BY <1>3, <2>5, <2>7, <2>9, <3>1, <3>2 DEF MovesWell
  <2>12. \A m \in Loops : MovesWell(m)
    BY <1>7, <2>9, <2>10, <2>11, StillMoves
  <2>13. /\ \A k \in Callers : caller'[k] = caller[k] \/ (caller'[k] = Idle /\ Serves(caller[k], l, r)
                                                            /\ caller[k].at = "wait")
         /\ caller' \in [Callers -> CallerRec] /\ Idle.at = "idle"
    <3>1. Idle \in CallerRec /\ Idle.at = "idle"
      BY DEF Idle, CallerRec, Places
    <3> QED BY <1>9, <3>1, TypedFacts DEF SessionInv, Serves
  <2>14. Typed'
    BY <1>1, <2>9, <2>13 DEF Typed, SessionInv
  <2>15. ASSUME NEW m \in Loops PROVE Served(m)'
    <3>1. Served(m) /\ Drops(loop[m], loop'[m]) /\ loop'[m].mode = loop[m].mode
      BY <2>5, <2>7, <2>9 DEF SessionInv, LoopInv, Drops
    <3>2. ASSUME NEW k \in Callers
          PROVE /\ \A q \in Runs : loop[m].mode = "open" /\ Holds(loop'[m], q) /\ Serves(caller[k], m, q)
                     => Serves(caller'[k], m, q)
                /\ loop[m].mode = "cancelling" /\ Closes(caller[k], m) => Closes(caller'[k], m)
      <4>1. CASE caller'[k] = caller[k]
        BY <4>1
      <4>2. CASE Serves(caller[k], l, r) /\ caller[k].at = "wait"
        BY <2>8, <2>9, <4>2 DEF Serves, Closes
      <4> QED BY <2>13, <4>1, <4>2
    <3> QED BY <1>1, <1>7, <3>1, <3>2, ServedStays
  <2>16. LoopInv'
    BY <2>12, <2>15 DEF LoopInv, MovesWell
  <2>17. \A g \in ghosts' : Abandoned(g)'
    BY <1>1, <1>7, <2>12, GhostsStay DEF MovesWell
  <2>18. ASSUME NEW k \in Callers PROVE Submits(k)'
    <3>1. CASE caller'[k] = caller[k]
      <4>1. \A m \in Loops : Respects(k, m) /\ (loop[m].mode # "unborn" => loop'[m].mode # "unborn")
        BY <2>5, <2>6, <2>9, <2>12 DEF Respects, MovesWell
      <4> QED BY <1>7, <3>1, <4>1, SubmitsStay
    <3>2. CASE caller'[k] = Idle
      BY <2>13, <3>2 DEF Submits
    <3> QED BY <2>13, <3>1, <3>2
  <2>19. rec'.at # "idle" => BetweenTurns'
    BY <1>1, <2>13 DEF SessionInv, BetweenTurns
  <2>20. \A q \in Runs : Sent(q)'
    BY <1>1, <1>7, SentStays
  <2> QED BY <1>7, <2>14, <2>16, <2>17, <2>18, <2>19, <2>20 DEF SessionInv, StoreMoves
<1>10. \/ r = Stop /\ loop' = [loop EXCEPT ![l].queue = Tail(@), ![l].worker = EndedWorker]
          /\ caller' = caller
       \/ /\ r # Stop /\ loop' = [loop EXCEPT ![l].queue = Tail(@), ![l].future[r] = "none"]
          /\ caller' = [k \in Callers |->
               IF caller[k].at = "wait" /\ caller[k].loop = l /\ caller[k].run = r
               THEN Idle ELSE caller[k]]
       \/ /\ r # Stop /\ loop' = [loop EXCEPT ![l].queue = Tail(@), ![l].worker = Worker("start", r, "none")]
          /\ caller' = caller
  BY <1>4 DEF Take
<1> QED BY <1>5, <1>7, <1>8, <1>9, <1>10

\* Every step of a loop.
LEMMA LoopKeeps ==
  ASSUME SessionInv, NEW l \in Loops, LoopStep(l) \/ RefreshFails(l), rec' = rec
  PROVE StoreMoves /\ SessionInv'
BY WritesKeep, ExecutionKeeps, RefreshKeeps, FinishKeeps, CancelQueuedKeeps, TakeKeeps DEF LoopStep

-----------------------------------------------------------------------------
(* The steps of a submission. *)

\* A submission at work has an object and a Run.
LEMMA AtWork ==
  ASSUME SessionInv, NEW k \in Callers, caller[k].at # "idle", NEW l, l = caller[k].loop, NEW r, r = caller[k].run
  PROVE /\ l \in Loops /\ r \in Runs /\ caller[k] \in CallerRec
        /\ loop[l] \in LoopRec /\ OneTask(loop[l]) /\ InMode(loop[l]) /\ Executes(l) /\ Served(l)
        /\ \A q \in Runs : Remembers(l, q)
        /\ loop[l].mode # "unborn" /\ decision[r] = NoDecision
        /\ caller[k].at \in {"lookup", "enqueue"} => loop[l].lock = k /\ loop[l].future[r] = "none"
<1>1. l \in Loops /\ r \in Runs /\ caller[k] \in CallerRec
  BY TypedFacts DEF SessionInv
<1>2. /\ loop[l] \in LoopRec /\ OneTask(loop[l]) /\ InMode(loop[l]) /\ Executes(l) /\ Served(l)
      /\ \A q \in Runs : Remembers(l, q)
  BY <1>1, TypedFacts DEF SessionInv, LoopInv
<1>3. /\ loop[l].mode # "unborn" /\ decision[r] = NoDecision
      /\ caller[k].at \in {"lookup", "enqueue"} => loop[l].lock = k /\ loop[l].future[r] = "none"
  BY DEF SessionInv, Submits
<1> QED BY <1>1, <1>2, <1>3

\* A submission goes to another place.
LEMMA CallerPlaces ==
  ASSUME NEW c \in CallerRec, NEW at \in Places, NEW d, d = [c EXCEPT !.at = at]
  PROVE d \in CallerRec /\ d.at = at /\ d.run = c.run /\ d.loop = c.loop
BY DEF CallerRec

\* Submission c goes on as d, and what loop l needed of it is still there.
Passes(l, c, d) ==
  /\ \A r \in Runs : loop[l].mode = "open" /\ Holds(loop[l], r) /\ Serves(c, l, r) => Serves(d, l, r)
  /\ loop[l].mode = "cancelling" /\ Closes(c, l) => Closes(d, l)

\* A step of a submission that moves no Run and no log.
LEMMA CallerSilent ==
  ASSUME SessionInv, UNCHANGED store, NEW k \in Callers, NEW c \in CallerRec, caller[k].at # "idle",
         NEW l \in Loops, l = caller[k].loop, NEW p \in LoopRec, Similar(loop[l], p),
         loop' = [loop EXCEPT ![l] = p], caller' = [caller EXCEPT ![k] = c],
         owner' = owner, rec' = rec, server' = server, wire' = wire,
         \A g \in ghosts' : g \in ghosts \/ (g \in GhostRec /\ Abandoned(g)'),
         c.at # "idle" => c.run = caller[k].run /\ c.loop = l,
         c.at \in {"lookup", "enqueue"} => p.lock = k /\ p.future[c.run] = "none",
         \A q \in Callers \ {k} : loop[l].lock = q => p.lock = q,
         Passes(l, caller[k], c)
  PROVE StoreMoves /\ SessionInv'
<1>1. StoreMoves /\ SameLogs /\ decision' = decision /\ remote' = remote
  BY Leave DEF SessionInv
<1>2. /\ caller[k].run \in Runs /\ loop[l] \in LoopRec /\ OneTask(loop[l]) /\ InMode(loop[l])
      /\ loop[l].mode # "unborn" /\ decision[caller[k].run] = NoDecision
  BY AtWork
<1>3. loop'[l] = p /\ (\A m \in Loops \ {l} : loop'[m] = loop[m]) /\ caller'[k] = c
  BY TypedFacts DEF SessionInv
<1>4. /\ OneTask(p) /\ InMode(p) /\ Calm(loop[l], p) /\ \A q \in Runs : Holds(p, q) <=> Holds(loop[l], q)
  BY <1>2, SimilarTask
<1>5. p.mode = loop[l].mode /\ p.future = loop[l].future
  BY DEF Similar
<1>6. \A m \in Loops : Spared(m)
  BY <1>1 DEF Spared, SameLogs
<1>7. MovesWell(l)
  BY <1>1, <1>2, <1>3, <1>6, SimilarMoves
<1>8. Submits(k)'
  BY <1>1, <1>2, <1>3, <1>5 DEF Submits
<1>9. \A q \in Callers \ {k} : Respects(q, l)
  BY <1>3, <1>5 DEF Respects
<1>10. \A m \in Loops, r \in Runs :
           loop[m].mode = "open" /\ Holds(loop'[m], r) /\ Serves(caller[k], m, r) => Serves(c, m, r)
  <2>1. \A m \in Loops, r \in Runs : Serves(caller[k], m, r) => m = l
    BY DEF Serves
  <2> QED BY <1>3, <1>4, <2>1 DEF Passes
<1>11. \A m \in Loops : loop[m].mode = "cancelling" /\ Closes(caller[k], m) => Closes(c, m)
  <2>1. \A m \in Loops : Closes(caller[k], m) => m = l
    BY DEF Closes
  <2> QED BY <2>1 DEF Passes
<1>12. Executes(l)' /\ \A r \in Runs : Remembers(l, r)'
  BY <1>7 DEF MovesWell
<1> QED BY <1>1, <1>2, <1>4, <1>5, <1>6, <1>8, <1>9, <1>10, <1>11, <1>12, CallerMove

\* The caller leaves: there is nothing left to say about it.
LEMMA IdleFacts == Idle \in CallerRec /\ Idle.at = "idle"
BY DEF Idle, CallerRec, Places

\* Entering the submit lock changes the lock only.
LEMMA EnteredFacts ==
  ASSUME NEW o \in LoopRec, NEW k \in Callers, NEW r \in Runs, NEW p, p = Entered(o, k, r)
  PROVE /\ p \in LoopRec /\ Similar(o, p) /\ p.mode = o.mode /\ p.worker = o.worker
        /\ Enter(o, r) \in {"lock", "wait", "lookup"}
        /\ Enter(o, r) = "lookup" => p.lock = k /\ p.future[r] = "none"
        /\ \A q \in Callers : o.lock = q => p.lock = q
<1>1. /\ Enter(o, r) \in {"lock", "wait", "lookup"}
      /\ Enter(o, r) = "lookup" => o.lock = Nobody /\ o.future[r] = "none"
  BY DEF Enter
<1>2. CASE Enter(o, r) = "lookup"
  <2>1. p = [o EXCEPT !.lock = k]
    BY <1>2 DEF Entered
  <2>2. /\ p \in LoopRec /\ p.lock = k /\ p.mode = o.mode /\ p.queue = o.queue /\ p.future = o.future
        /\ p.actor = o.actor /\ p.worker = o.worker
    BY <2>1, Zenon DEF LoopRec
  <2> QED BY <1>1, <1>2, <2>2, WorkerFacts DEF Similar
<1>3. CASE Enter(o, r) # "lookup"
  <2>1. p = o
    BY <1>3 DEF Entered
  <2> QED BY <1>1, <1>3, <2>1 DEF Similar
<1> QED BY <1>2, <1>3

\* The gate is read, the worker made, and the submission goes to the lock.
LEMMA InitializeKeeps ==
  ASSUME SessionInv, NEW k \in Callers, Initialize(k), rec' = rec
  PROVE StoreMoves /\ SessionInv'
<1>1. PICK l, r : l = caller[k].loop /\ r = caller[k].run
  OBVIOUS
<1>2. UNCHANGED <<store, owner, ghosts, server, wire, rec>> /\ caller[k].at = "init" /\ UNCHANGED store
  BY DEF Initialize, external
<1>3. /\ l \in Loops /\ r \in Runs /\ caller[k] \in CallerRec /\ loop[l] \in LoopRec
      /\ loop[l].mode # "unborn"
  BY <1>1, <1>2, AtWork
<1>4. PICK g \in IF loop[l].ready THEN {loop[l].gate} ELSE Gates :
         LET obj == [loop[l] EXCEPT !.ready = TRUE, !.worker = Started(@), !.gate = g,
                                    !.gateFailed = loop[l].ready /\ @] IN
         /\ loop' = [loop EXCEPT ![l] = Entered(obj, k, r)]
         /\ caller' = [caller EXCEPT ![k].at = Enter(obj, r)]
  BY <1>1, Zenon DEF Initialize
<1>5. PICK o, p :
        /\ o = [loop[l] EXCEPT !.ready = TRUE, !.worker = Started(@), !.gate = g,
                               !.gateFailed = loop[l].ready /\ @]
        /\ p = Entered(o, k, r)
        /\ loop' = [loop EXCEPT ![l] = p] /\ caller' = [caller EXCEPT ![k].at = Enter(o, r)]
  BY <1>4, Zenon
<1>6. g \in [blocked : BOOLEAN, first : Runs \cup {Nobody}]
  BY <1>3, <1>4, GateFacts, ObjectFacts
<1>7. Started(loop[l].worker) \in WorkerRec /\ (loop[l].ready /\ loop[l].gateFailed) \in BOOLEAN
  BY <1>3, ObjectFacts, WorkerFacts DEF Started
<1>8. /\ o \in LoopRec /\ o.mode = loop[l].mode /\ o.queue = loop[l].queue /\ o.future = loop[l].future
      /\ o.actor = loop[l].actor /\ o.worker = Started(loop[l].worker) /\ o.lock = loop[l].lock
  BY <1>3, <1>5, <1>6, <1>7, Zenon DEF LoopRec
<1>9. /\ p \in LoopRec /\ Similar(o, p) /\ p.mode = o.mode /\ p.worker = o.worker
      /\ Enter(o, r) \in {"lock", "wait", "lookup"}
      /\ Enter(o, r) = "lookup" => p.lock = k /\ p.future[r] = "none"
      /\ \A q \in Callers : o.lock = q => p.lock = q
  <2>1. p = Entered(o, k, r) /\ o \in LoopRec
    BY <1>5, <1>8
  <2> QED BY <1>3, <2>1, EnteredFacts
<1>10. Similar(loop[l], p)
  <2>1. o.worker = loop[l].worker \/ (loop[l].worker.at = "none" /\ o.worker = IdleWorker)
    BY <1>8 DEF Started
  <2> QED BY <1>8, <1>9, <2>1 DEF Similar
<1>11. PICK c : c = [caller[k] EXCEPT !.at = Enter(o, r)]
  OBVIOUS
<1>12. caller' = [caller EXCEPT ![k] = c]
  BY <1>5, <1>11, Zenon
<1>13. c \in CallerRec /\ c.at = Enter(o, r) /\ c.run = r /\ c.loop = l
  <2>1. Enter(o, r) \in Places
    BY <1>9 DEF Places
  <2> QED BY <1>1, <1>3, <1>11, <2>1, CallerPlaces
<1>14. \A m, q : ~Serves(caller[k], m, q) /\ ~Closes(caller[k], m)
  BY <1>2 DEF Serves, Closes
<1>15. /\ c.at # "idle" => c.run = caller[k].run /\ c.loop = l
       /\ c.at \in {"lookup", "enqueue"} => p.lock = k /\ p.future[c.run] = "none"
       /\ \A q \in Callers \ {k} : loop[l].lock = q => p.lock = q
  BY <1>1, <1>8, <1>9, <1>13
<1>16. loop' = [loop EXCEPT ![l] = p]
  BY <1>5
<1> QED BY <1>1, <1>2, <1>3, <1>9, <1>10, <1>12, <1>13, <1>14, <1>15, <1>16, CallerSilent DEF Passes

\* Reading the recoveries fails.
LEMMA InitializeFailsKeeps ==
  ASSUME SessionInv, NEW k \in Callers, InitializeFails(k), rec' = rec
  PROVE StoreMoves /\ SessionInv'
<1>1. PICK l : l = caller[k].loop
  OBVIOUS
<1>2. UNCHANGED <<owner, ghosts, server, wire, rec>> /\ caller[k].at = "init" /\ UNCHANGED store
  BY DEF InitializeFails, external
<1>3. l \in Loops /\ loop[l] \in LoopRec
  BY <1>1, <1>2, AtWork
<1>4. PICK p : p = [loop[l] EXCEPT !.gateFailed = TRUE]
  OBVIOUS
<1>5. loop' = [loop EXCEPT ![l] = p] /\ caller' = [caller EXCEPT ![k] = Idle]
  BY <1>1, <1>4, Zenon DEF InitializeFails
<1>6. /\ p \in LoopRec /\ p.mode = loop[l].mode /\ p.queue = loop[l].queue /\ p.future = loop[l].future
      /\ p.actor = loop[l].actor /\ p.worker = loop[l].worker /\ p.lock = loop[l].lock
  BY <1>3, <1>4, Zenon DEF LoopRec
<1>7. \A m, q : ~Serves(caller[k], m, q) /\ ~Closes(caller[k], m)
  BY <1>2 DEF Serves, Closes
<1>8. Similar(loop[l], p)
  BY <1>6 DEF Similar
<1>9. PICK c \in CallerRec : c = Idle /\ c.at = "idle"
  BY IdleFacts
<1>10. caller' = [caller EXCEPT ![k] = c] /\ \A q \in Callers : loop[l].lock = q => p.lock = q
  BY <1>5, <1>6, <1>9
<1>11. p \in LoopRec /\ loop' = [loop EXCEPT ![l] = p]
  BY <1>5, <1>6
<1> QED BY <1>1, <1>2, <1>3, <1>7, <1>8, <1>9, <1>10, <1>11, CallerSilent DEF Passes

\* The lock is free.
LEMMA AcquireKeeps ==
  ASSUME SessionInv, NEW k \in Callers, Acquire(k), rec' = rec
  PROVE StoreMoves /\ SessionInv'
<1>1. PICK l, r : l = caller[k].loop /\ r = caller[k].run
  OBVIOUS
<1>2. UNCHANGED <<owner, ghosts, server, wire, rec>> /\ caller[k].at = "lock" /\ UNCHANGED store
  BY DEF Acquire, external
<1>3. l \in Loops /\ r \in Runs /\ caller[k] \in CallerRec /\ loop[l] \in LoopRec
  BY <1>1, <1>2, AtWork
<1>4. PICK p : p = Entered(loop[l], k, r)
  OBVIOUS
<1>5. loop' = [loop EXCEPT ![l] = p] /\ caller' = [caller EXCEPT ![k].at = Enter(loop[l], r)]
  BY <1>1, <1>4, Zenon DEF Acquire
<1>6. /\ p \in LoopRec /\ Similar(loop[l], p) /\ Enter(loop[l], r) \in {"lock", "wait", "lookup"}
      /\ Enter(loop[l], r) = "lookup" => p.lock = k /\ p.future[r] = "none"
      /\ \A q \in Callers : loop[l].lock = q => p.lock = q
  BY <1>3, <1>4, EnteredFacts
<1>7. PICK c : c = [caller[k] EXCEPT !.at = Enter(loop[l], r)]
  OBVIOUS
<1>8. caller' = [caller EXCEPT ![k] = c]
  BY <1>5, <1>7, Zenon
<1>9. c \in CallerRec /\ c.at = Enter(loop[l], r) /\ c.run = r /\ c.loop = l
  <2>1. Enter(loop[l], r) \in Places
    BY <1>6 DEF Places
  <2> QED BY <1>1, <1>3, <1>7, <2>1, CallerPlaces
<1>10. \A m, q : ~Serves(caller[k], m, q) /\ ~Closes(caller[k], m)
  BY <1>2 DEF Serves, Closes
<1>11. /\ c.at # "idle" => c.run = caller[k].run /\ c.loop = l
       /\ c.at \in {"lookup", "enqueue"} => p.lock = k /\ p.future[c.run] = "none"
       /\ \A q \in Callers \ {k} : loop[l].lock = q => p.lock = q
  BY <1>1, <1>6, <1>9
<1> QED BY <1>1, <1>2, <1>3, <1>5, <1>6, <1>8, <1>9, <1>10, <1>11, CallerSilent, ZenonT(60) DEF Passes

\* The lock is left without a registration.
LEMMA RefuseKeeps ==
  ASSUME SessionInv, NEW k \in Callers, NEW l, l = caller[k].loop, caller[k].at \in {"lookup", "enqueue"},
         Refuse(l, k), UNCHANGED store, UNCHANGED <<owner, ghosts, server, wire, rec>>
  PROVE StoreMoves /\ SessionInv'
<1>1. l \in Loops /\ loop[l] \in LoopRec /\ loop[l].lock = k
  BY AtWork
<1>2. PICK p : p = [loop[l] EXCEPT !.lock = Nobody]
  OBVIOUS
<1>3. loop' = [loop EXCEPT ![l] = p] /\ caller' = [caller EXCEPT ![k] = Idle]
  BY <1>2, Zenon DEF Refuse
<1>4. /\ p \in LoopRec /\ p.mode = loop[l].mode /\ p.queue = loop[l].queue /\ p.future = loop[l].future
      /\ p.actor = loop[l].actor /\ p.worker = loop[l].worker
  BY <1>1, <1>2, Zenon DEF LoopRec
<1>5. \A m, q : ~Serves(caller[k], m, q) /\ ~Closes(caller[k], m)
  BY DEF Serves, Closes
<1>6. Similar(loop[l], p)
  BY <1>4 DEF Similar
<1> QED BY <1>1, <1>3, <1>4, <1>5, <1>6, IdleFacts, CallerSilent DEF Passes

\* What a registration changes, as one change of the object.
LEMMA Registered ==
  ASSUME NEW l \in Loops, NEW k, NEW r \in Runs, NEW a \in ActorRec, loop[l] \in LoopRec,
         Register(l, k, r, a)
  PROVE \E p \in LoopRec :
          /\ loop' = [loop EXCEPT ![l] = p] /\ p.lock = Nobody /\ p.mode = loop[l].mode
          /\ p.queue = Append(loop[l].queue, r) /\ p.worker = loop[l].worker
          /\ p.future[r] = "pending" /\ p.actor[r] = a
          /\ \A q \in Runs \ {r} : p.future[q] = loop[l].future[q] /\ p.actor[q] = loop[l].actor[q]
<1> DEFINE o == loop[l]
<1>1. loop' = [loop EXCEPT ![l] =
                 [loop[l] EXCEPT !.lock = Nobody, !.future = [loop[l].future EXCEPT ![r] = "pending"],
                                 !.queue = Append(loop[l].queue, r),
                                 !.actor = [loop[l].actor EXCEPT ![r] = a]]]
  BY Zenon DEF Register
<1>2. o.queue \in Seq(Entry) /\ o.future \in [Runs -> Futures] /\ o.actor \in [Runs -> ActorRec]
  BY ObjectFacts
<1>3. PICK fut : fut = [o.future EXCEPT ![r] = "pending"]
  OBVIOUS
<1>4. PICK act : act = [o.actor EXCEPT ![r] = a]
  OBVIOUS
<1>5. PICK que : que = Append(o.queue, r)
  OBVIOUS
<1>6. fut \in [Runs -> Futures] /\ fut[r] = "pending" /\ \A q \in Runs \ {r} : fut[q] = o.future[q]
  BY <1>2, <1>3 DEF Futures
<1>7. act \in [Runs -> ActorRec] /\ act[r] = a /\ \A q \in Runs \ {r} : act[q] = o.actor[q]
  BY <1>2, <1>4
<1>8. que \in Seq(Entry)
  <2>1. r \in Entry
    BY DEF Entry
  <2> QED BY <1>2, <1>5, <2>1
<1>9. PICK p : p = [o EXCEPT !.lock = Nobody, !.future = fut, !.queue = que, !.actor = act]
  OBVIOUS
<1>10. loop' = [loop EXCEPT ![l] = p]
  BY <1>1, <1>3, <1>4, <1>5, <1>9
<1>11. /\ p \in LoopRec /\ p.actor = act /\ p.worker = o.worker /\ p.future = fut
       /\ p.queue = que /\ p.mode = o.mode /\ p.lock = Nobody
  BY <1>6, <1>7, <1>8, <1>9, Zenon DEF LoopRec
<1> QED BY <1>5, <1>6, <1>7, <1>10, <1>11

\* Submission k brings Run r to loop l.
Brings(k, l, r) == l = caller[k].loop /\ r = caller[k].run

\* A Run is registered at the loop and its submission waits for it.
LEMMA RegisterKeeps ==
  ASSUME SessionInv, StoreMoves, decision' = decision, NEW k \in Callers,
         caller[k].at \in {"lookup", "enqueue"},
         NEW l, NEW r, Brings(k, l, r), NEW a \in ActorRec, a.status = "queued", Register(l, k, r, a),
         a.sequence \in 1..Len(events'[r]), EventStatus(events'[r][a.sequence].kind) = "queued",
         UNCHANGED <<owner, ghosts, server, wire, rec>>, \A m \in Loops : Spared(m)
  PROVE SessionInv'
<1> DEFINE o == loop[l]
<1>1. /\ l \in Loops /\ r \in Runs /\ o \in LoopRec /\ OneTask(o) /\ InMode(o) /\ o.mode # "unborn"
      /\ Executes(l) /\ Served(l) /\ (\A q \in Runs : Remembers(l, q)) /\ decision[r] = NoDecision
      /\ o.lock = k /\ o.future[r] = "none" /\ caller[k] \in CallerRec
  BY AtWork DEF Brings
<1>2. PICK p \in LoopRec :
        /\ loop' = [loop EXCEPT ![l] = p] /\ p.lock = Nobody /\ p.mode = o.mode
        /\ p.queue = Append(o.queue, r) /\ p.worker = o.worker
        /\ p.future[r] = "pending" /\ p.actor[r] = a
        /\ \A q \in Runs \ {r} : p.future[q] = o.future[q] /\ p.actor[q] = o.actor[q]
  BY <1>1, Registered
<1>3. OneTask(p) /\ Calm(o, p) /\ InMode(p) /\ \A q \in Runs : Holds(p, q) <=> Holds(o, q) \/ q = r
  BY <1>1, <1>2, RegisterTask
<1>4. PICK c : c = [caller[k] EXCEPT !.at = "wait"]
  OBVIOUS
<1>5. caller' = [caller EXCEPT ![k] = c]
  BY <1>4, Zenon DEF Register
<1>6. c \in CallerRec /\ c.at = "wait" /\ c.run = r /\ c.loop = l
  BY <1>1, <1>4, CallerPlaces DEF Places, Brings
<1>7. loop'[l] = p /\ (\A m \in Loops \ {l} : loop'[m] = loop[m]) /\ caller'[k] = c
  BY <1>1, <1>2, <1>5, <1>6, TypedFacts DEF SessionInv
<1>8. Executes(l)'
  <2>1. o.worker.at \in Executing => o.worker.run \in Runs /\ o.worker.run # r
    <3>1. ~Holds(o, r)
      BY <1>1 DEF OneTask
    <3> QED BY <3>1, ExecutingFacts, <1>1 DEF Holds
  <2>2. o.worker.at \in Executing => p.actor[o.worker.run] = o.actor[o.worker.run]
    BY <1>2, <2>1
  <2>3. Spared(l) /\ Grows
    BY <1>1 DEF StoreMoves
  <2> QED BY <1>1, <1>2, <1>7, <2>1, <2>2, <2>3 DEF Executes, Spared, Grows, Executing
<1>9. ASSUME NEW q \in Runs PROVE Remembers(l, q)'
  <2>1. CASE q = r
    BY <1>2, <1>7, <2>1 DEF Remembers
  <2>2. CASE q # r
    BY <1>1, <1>2, <1>7, <2>2, RemembersKeeps DEF SessionInv, StoreMoves
  <2> QED BY <2>1, <2>2
<1>10. Submits(k)'
  BY <1>1, <1>2, <1>6, <1>7 DEF Submits
<1>11. \A q \in Callers \ {k} : Respects(q, l)
  BY <1>1 DEF Respects
<1>12. Serves(c, l, r) /\ \A m, q : ~Serves(caller[k], m, q) /\ ~Closes(caller[k], m)
  BY <1>6 DEF Serves, Closes
<1>13. \A q \in Runs : Holds(p, q) => Holds(o, q) \/ (Serves(c, l, q) /\ decision[q] = NoDecision)
  BY <1>1, <1>3, <1>12
<1>14. \A m \in Loops \ {l} : Spared(m)
  OBVIOUS
<1>15. c.at # "idle" => c.run \in Runs /\ c.loop \in Loops
  BY <1>1, <1>6
<1> QED BY <1>1, <1>2, <1>3, <1>5, <1>6, <1>8, <1>9, <1>10, <1>11, <1>12, <1>13, <1>14, <1>15, CallerMove

\* The Run is looked up.
LEMMA PrepareKeeps ==
  ASSUME SessionInv, NEW k \in Callers, Prepare(k), rec' = rec
  PROVE StoreMoves /\ SessionInv'
<1>1. PICK l, r : l = caller[k].loop /\ r = caller[k].run
  OBVIOUS
<1>2. UNCHANGED <<owner, ghosts, server, wire, rec>> /\ UNCHANGED store /\ caller[k].at = "lookup"
  BY DEF Prepare, external
<1>3. /\ l \in Loops /\ r \in Runs /\ caller[k] \in CallerRec /\ loop[l] \in LoopRec
      /\ loop[l].lock = k /\ loop[l].future[r] = "none"
  BY <1>1, <1>2, AtWork
<1>4. \/ Refuse(l, k)
      \/ /\ Store!HasRow(r) /\ Redispatchable(r)
         /\ Register(l, k, r, [status |-> status[r], sequence |-> sequence[r]])
      \/ caller' = [caller EXCEPT ![k].at = "enqueue"] /\ loop' = loop
  BY <1>1 DEF Prepare
<1>5. CASE Refuse(l, k)
  BY <1>1, <1>2, <1>5, RefuseKeeps
<1>6. CASE /\ Store!HasRow(r) /\ Redispatchable(r)
           /\ Register(l, k, r, [status |-> status[r], sequence |-> sequence[r]])
  <2>1. StoreMoves /\ SameLogs /\ decision' = decision
    BY <1>2, Leave DEF SessionInv
  <2>2. \A s \in RunStatus : s \in Recoverable /\ RecoveryAction(s) = "redispatch" => s = "queued"
    BY DEF Recoverable, RecoveryAction
  <2>3. /\ status[r] = "queued" /\ sequence[r] \in 1..Len(events[r]) /\ sequence[r] \in Nat
        /\ EventStatus(events[r][sequence[r]].kind) = "queued"
    BY <1>3, <1>6, <2>2, RowFacts DEF Redispatchable, SessionInv
  <2>4. sequence[r] + 2 <= MaxSequence
    BY <1>3, <2>3 DEF SessionInv, LogInv, Fits
  <2>5. PICK a : a = [status |-> status[r], sequence |-> sequence[r]]
    OBVIOUS
  <2>6. a \in ActorRec /\ a.status = "queued" /\ a.sequence = sequence[r]
    BY <2>3, <2>4, <2>5, BoundsAssumption DEF ActorRec, RunStatus
  <2>7. a.sequence \in 1..Len(events'[r]) /\ EventStatus(events'[r][a.sequence].kind) = "queued"
    BY <2>1, <2>3, <2>6 DEF SameLogs
  <2>8. \A m \in Loops : Spared(m)
    BY <2>1 DEF Spared, SameLogs
  <2>9. Register(l, k, r, a)
    BY <1>6, <2>5
  <2> QED BY <1>1, <1>2, <2>1, <2>6, <2>7, <2>8, <2>9, RegisterKeeps DEF Brings
<1>7. CASE caller' = [caller EXCEPT ![k].at = "enqueue"] /\ loop' = loop
  <2>1. PICK p : p = loop[l]
    OBVIOUS
  <2>2. loop' = [loop EXCEPT ![l] = p] /\ p \in LoopRec /\ Similar(loop[l], p)
    BY <1>3, <1>7, <2>1, TypedFacts DEF SessionInv, Similar
  <2>3. PICK c : c = [caller[k] EXCEPT !.at = "enqueue"]
    OBVIOUS
  <2>4. caller' = [caller EXCEPT ![k] = c]
    BY <1>7, <2>3, Zenon
  <2>5. c \in CallerRec /\ c.at = "enqueue" /\ c.run = r /\ c.loop = l
    BY <1>1, <1>3, <2>3, CallerPlaces DEF Places
  <2>6. \A m, q : ~Serves(caller[k], m, q) /\ ~Closes(caller[k], m)
    BY <1>2 DEF Serves, Closes
  <2>7. /\ c.at # "idle" => c.run = caller[k].run /\ c.loop = l
        /\ c.at \in {"lookup", "enqueue"} => p.lock = k /\ p.future[c.run] = "none"
        /\ \A q \in Callers \ {k} : loop[l].lock = q => p.lock = q
    BY <1>1, <1>3, <2>1, <2>5
  <2> QED BY <1>1, <1>2, <1>3, <2>2, <2>4, <2>5, <2>6, <2>7, CallerSilent DEF Passes
<1> QED BY <1>4, <1>5, <1>6, <1>7

\* The first event of a submission.
LEMMA EnqueueEventFacts ==
  ASSUME Typed, NEW k \in Callers, caller[k].at # "idle"
  PROVE \E e \in Offer :
          /\ e = EnqueueEvent(k) /\ Leaves(e) /\ e \in Store!Event /\ e.kind = "run_queued" /\ e.sequence = 1
          /\ EventStatus(e.kind) = "queued"
<1>1. PICK l \in Loops : l = caller[k].loop
  BY TypedFacts
<1>2. k \in Authors /\ "run_queued" \in Offered /\ 1 \in Int
  BY DEF Authors, Offered
<1>3. PICK e : e = NewEvent(l, k, "run_queued", 1)
  OBVIOUS
<1>4. e \in Offer /\ e.sequence = 1 /\ e.kind = "run_queued" /\ e = EnqueueEvent(k)
  BY <1>1, <1>2, <1>3, EventFacts DEF EnqueueEvent
<1>5. EventStatus("run_queued") = "queued"
  BY DEF EventStatus
<1>6. MaxSequence \in Nat /\ 3 <= MaxSequence
  BY BoundsAssumption DEF EventsPerDispatch
<1>7. Leaves(e)
  BY <1>4, <1>5, <1>6 DEF Leaves
<1>8. e \in Store!Event
  <2>1. "run_queued" \in EventKinds
    BY DEF EventKinds
  <2> QED BY <1>4, <1>6, <2>1, SameTables DEF Offer, Store!Event
<1> QED BY <1>4, <1>5, <1>7, <1>8

\* The first write of a submission.
LEMMA EnqueueKeeps ==
  ASSUME SessionInv, NEW k \in Callers, Enqueue(k), rec' = rec
  PROVE StoreMoves /\ SessionInv'
<1>1. PICK l, r : l = caller[k].loop /\ r = caller[k].run
  OBVIOUS
<1>2. UNCHANGED <<owner, ghosts, server, wire, rec>> /\ caller[k].at = "enqueue"
  BY DEF Enqueue, external
<1>3. l \in Loops /\ r \in Runs
  BY <1>1, <1>2, AtWork
<1>4. PICK e \in Offer :
        /\ e = EnqueueEvent(k) /\ Leaves(e) /\ e \in Store!Event /\ e.kind = "run_queued" /\ e.sequence = 1
        /\ EventStatus(e.kind) = "queued"
  BY <1>2, EnqueueEventFacts DEF SessionInv
<1>5. CASE Store!Accepts(CommandOf(r), e)
  <2>1. PICK a : a = [status |-> "queued", sequence |-> 1]
    OBVIOUS
  <2>2. Write(r, e) /\ Register(l, k, r, a)
    BY <1>1, <1>4, <1>5, <2>1 DEF Enqueue
  <2>3. StoreMoves /\ Latest(r, e)
    BY <1>3, <1>4, <1>5, <2>2, Wrote DEF SessionInv
  <2>4. a \in ActorRec /\ a.status = "queued" /\ a.sequence = 1
    BY <2>1, BoundsAssumption DEF ActorRec, RunStatus, EventsPerDispatch
  <2>5. a.sequence \in 1..Len(events'[r]) /\ EventStatus(events'[r][a.sequence].kind) = "queued"
    BY <1>4, <2>3, <2>4 DEF Latest
  <2>6. \A m \in Loops : Spared(m)
    BY <1>3, <1>4, <2>3, SparedBy DEF Spares
  <2>7. decision' = decision
    BY <2>3 DEF Latest
  <2> QED BY <1>1, <1>2, <2>2, <2>3, <2>4, <2>5, <2>6, <2>7, RegisterKeeps DEF Brings
<1>6. CASE ~Store!Accepts(CommandOf(r), e)
  <2>1. UNCHANGED store /\ Refuse(l, k)
    BY <1>1, <1>4, <1>6 DEF Enqueue
  <2> QED BY <1>1, <1>2, <2>1, RefuseKeeps
<1> QED BY <1>5, <1>6

\* A submission goes on, is cancelled or returns.
LEMMA LeaveKeeps ==
  ASSUME SessionInv, NEW k \in Callers, rec' = rec,
         Answer(k) \/ CancelCaller(k) \/ CloseReturns(k) \/ (CancelSession(k) /\ owner = 0)
  PROVE StoreMoves /\ SessionInv'
<1>1. PICK l, r : l = caller[k].loop /\ r = caller[k].run
  OBVIOUS
<1>2. UNCHANGED <<owner, server, wire, rec>> /\ UNCHANGED store
  BY DEF Answer, CancelCaller, CloseReturns, CancelSession, external
<1>3. caller[k].at # "idle"
  BY DEF Answer, CancelCaller, CloseReturns, CancelSession
<1>4. /\ l \in Loops /\ r \in Runs /\ caller[k] \in CallerRec /\ loop[l] \in LoopRec /\ InMode(loop[l])
      /\ Served(l)
  BY <1>1, <1>3, AtWork
<1>5. ASSUME NEW c \in CallerRec, c = Idle \/ (c.at = "cancel" /\ c.run = r /\ c.loop = l),
             caller' = [caller EXCEPT ![k] = c], NEW p \in LoopRec, loop' = [loop EXCEPT ![l] = p],
             Similar(loop[l], p), \A q \in Callers \ {k} : loop[l].lock = q => p.lock = q,
             \A g \in ghosts' : g \in ghosts \/ (g \in GhostRec /\ Abandoned(g)'),
             \A q \in Runs : loop[l].mode = "open" /\ Holds(loop[l], q) /\ Serves(caller[k], l, q)
               => c # Idle,
             ~(loop[l].mode = "cancelling" /\ Closes(caller[k], l))
      PROVE StoreMoves /\ SessionInv'
  <2>1. c = Idle => c.at = "idle"
    BY IdleFacts
  <2>2. c.at # "idle" => c.run = caller[k].run /\ c.loop = l
    BY <1>1, <1>5, <2>1
  <2>3. c.at \in {"lookup", "enqueue"} => p.lock = k /\ p.future[c.run] = "none"
    BY <1>5, <2>1
  <2>4. \A q \in Runs : loop[l].mode = "open" /\ Holds(loop[l], q) /\ Serves(caller[k], l, q)
          => Serves(c, l, q)
    BY <1>1, <1>5 DEF Serves
  <2>5. Passes(l, caller[k], c)
    BY <1>5, <2>4 DEF Passes
  <2>6. loop' = [loop EXCEPT ![l] = p] /\ caller' = [caller EXCEPT ![k] = c] /\ Similar(loop[l], p)
    BY <1>5
  <2>7. \A g \in ghosts' : g \in ghosts \/ (g \in GhostRec /\ Abandoned(g)')
    BY <1>5
  <2>8. \A q \in Callers \ {k} : loop[l].lock = q => p.lock = q
    BY <1>5
  <2>9. l \in Loops /\ l = caller[k].loop
    BY <1>1, <1>4
  <2> QED BY <1>2, <1>3, <2>2, <2>3, <2>4, <2>5, <2>6, <2>7, <2>8, <2>9, CallerSilent
<1>6. /\ loop[l] \in LoopRec /\ Similar(loop[l], loop[l])
      /\ loop' = loop => loop' = [loop EXCEPT ![l] = loop[l]]
  BY <1>4, TypedFacts DEF SessionInv, Similar
<1>7. CASE Answer(k)
  <2>1. /\ caller[k].at = "wait" /\ loop' = loop /\ ghosts' = ghosts
        /\ loop[l].future[r] \in {"done", "cancelled"}
        /\ caller' = [caller EXCEPT ![k] = IF loop[l].future[r] = "done" THEN Idle
                                           ELSE [@ EXCEPT !.at = "cancel"]]
    BY <1>1, <1>7 DEF Answer
  <2>2. PICK d : d = [caller[k] EXCEPT !.at = "cancel"]
    OBVIOUS
  <2>3. d \in CallerRec /\ d.at = "cancel" /\ d.run = r /\ d.loop = l
    BY <1>1, <1>4, <2>2, CallerPlaces DEF Places
  <2>4. PICK c \in CallerRec : /\ c = IF loop[l].future[r] = "done" THEN Idle ELSE d
                               /\ caller' = [caller EXCEPT ![k] = c]
    BY <2>1, <2>2, <2>3, IdleFacts
  <2>5. \A q \in Runs : loop[l].mode = "open" /\ Holds(loop[l], q) /\ Serves(caller[k], l, q)
          => c # Idle
    <3>1. \A q : Serves(caller[k], l, q) => q = r
      BY <1>1 DEF Serves
    <3>2. loop[l].future[r] = "done" => ~(loop[l].mode = "open" /\ Holds(loop[l], r))
      BY <1>4 DEF InMode
    <3> QED BY <2>3, <2>4, <3>1, <3>2, IdleFacts
  <2>6. ~Closes(caller[k], l)
    BY <2>1 DEF Closes
  <2> QED BY <1>5, <1>6, <2>1, <2>3, <2>4, <2>5, <2>6
<1>8. CASE CloseReturns(k)
  <2>1. /\ caller[k].at = "closing" /\ loop' = loop /\ ghosts' = ghosts /\ loop[l].mode # "cancelling"
        /\ caller' = [caller EXCEPT ![k] = Idle]
    BY <1>1, <1>8 DEF CloseReturns
  <2>2. \A q : ~Serves(caller[k], l, q)
    BY <2>1 DEF Serves
  <2> QED BY <1>5, <1>6, <2>1, <2>2, IdleFacts
<1>9. CASE CancelSession(k) /\ owner = 0
  <2>1. /\ caller[k].at = "cancel" /\ loop' = loop /\ ghosts' = ghosts
        /\ caller' = [caller EXCEPT ![k] = Idle]
    BY <1>9 DEF CancelSession
  <2>2. loop[l].mode # "open"
    BY <1>4, <1>9 DEF Served, Loops
  <2>3. ~Closes(caller[k], l)
    BY <2>1 DEF Closes
  <2> QED BY <1>5, <1>6, <2>1, <2>2, <2>3, IdleFacts
<1>10. CASE CancelCaller(k)
  <2>1. /\ loop' = [loop EXCEPT ![l].lock = IF @ = k THEN Nobody ELSE @]
        /\ caller' = [caller EXCEPT ![k].at = "cancel"] /\ caller[k].at # "closing"
        /\ \A g \in ghosts' : g \in ghosts \/ g = [run |-> r, event |-> EnqueueEvent(k)]
    BY <1>1, <1>10 DEF CancelCaller
  <2>2. PICK c : c = [caller[k] EXCEPT !.at = "cancel"]
    OBVIOUS
  <2>3. c \in CallerRec /\ c.at = "cancel" /\ c.run = r /\ c.loop = l
    BY <1>1, <1>4, <2>2, CallerPlaces DEF Places
  <2>4. caller' = [caller EXCEPT ![k] = c]
    BY <2>1, <2>2, Zenon
  <2>5. PICK who : who = IF loop[l].lock = k THEN Nobody ELSE loop[l].lock
    OBVIOUS
  <2>6. who \in Callers \cup {Nobody} /\ \A q \in Callers \ {k} : loop[l].lock = q => who = q
    BY <1>4, <2>5, ObjectFacts
  <2>7. PICK p : p = [loop[l] EXCEPT !.lock = who]
    OBVIOUS
  <2>8. loop' = [loop EXCEPT ![l] = p]
    BY <2>1, <2>5, <2>7
  <2>9. /\ p \in LoopRec /\ p.mode = loop[l].mode /\ p.queue = loop[l].queue /\ p.future = loop[l].future
        /\ p.actor = loop[l].actor /\ p.worker = loop[l].worker /\ p.lock = who
    BY <1>4, <2>6, <2>7, Zenon DEF LoopRec
  <2>10. Similar(loop[l], p)
    BY <2>9 DEF Similar
  <2>11. PICK e \in Store!Event : e = EnqueueEvent(k) /\ e.kind = "run_queued" /\ e.sequence = 1
    BY <1>3, EnqueueEventFacts DEF SessionInv
  <2>12. \A g \in ghosts' : g \in ghosts \/ (g \in GhostRec /\ Abandoned(g)')
    <3>1. PICK g : g = [run |-> r, event |-> e]
      OBVIOUS
    <3>2. g \in GhostRec /\ g.event = e
      BY <1>4, <3>1 DEF GhostRec
    <3>3. Abandoned(g)'
      BY <2>11, <3>2 DEF Abandoned
    <3> QED BY <2>1, <2>11, <3>1, <3>2, <3>3
  <2>13. c # Idle /\ ~Closes(caller[k], l)
    BY <2>1, <2>3, IdleFacts DEF Closes
  <2> QED BY <1>5, <2>3, <2>4, <2>6, <2>8, <2>9, <2>10, <2>12, <2>13
<1> QED BY <1>7, <1>8, <1>9, <1>10

-----------------------------------------------------------------------------
(* Closing a loop. *)

\* The owner forgets its loop, which begins to close or is closed.
LEMMA CloseMove ==
  ASSUME SessionInv, UNCHANGED store, NEW l \in Loops, l = owner, NEW p \in LoopRec,
         loop' = [loop EXCEPT ![l] = p], owner' = 0, rec' = rec, server' = server, wire' = wire,
         caller' \in [Callers -> CallerRec],
         \A q \in Callers :
           \/ caller'[q] = caller[q]
           \/ /\ caller[q].at = "cancel" /\ caller'[q].at = "closing"
              /\ caller'[q].run = caller[q].run /\ caller'[q].loop = l,
         \A g \in ghosts' : g \in ghosts \/ (g \in GhostRec /\ Abandoned(g)'),
         p.mode \in {"draining", "drained", "cancelling", "closed"}, p.lock = loop[l].lock,
         p.actor = loop[l].actor, \A r \in Runs : loop[l].future[r] = "none" => p.future[r] = "none",
         OneTask(p), InMode(p), Drops(loop[l], p), Calm(loop[l], p),
         p.worker.at \in Executing =>
           /\ loop[l].worker.at \in Executing /\ p.worker.run = loop[l].worker.run
           /\ p.worker.at \in {"frozen", "posted"} => remote[p.worker.run] # NoRemote,
         p.mode = "cancelling" => \E q \in Callers : Closes(caller'[q], l)
  PROVE StoreMoves /\ SessionInv'
<1>1. StoreMoves /\ SameLogs /\ decision' = decision /\ remote' = remote
  BY Leave DEF SessionInv
<1>2. /\ loop' \in [Loops -> LoopRec] /\ loop'[l] = p
      /\ \A m \in Loops \ {l} : loop'[m] = loop[m]
  BY TypedFacts DEF SessionInv
<1>3. \A m \in Loops : Spared(m)
  BY <1>1 DEF Spared, SameLogs
<1>4. loop[l].mode = "open" /\ \A m \in Loops \ {l} : loop[m].mode # "open"
  BY DEF SessionInv, LoopInv, Served
<1>5. MovesWell(l)
  <2>1. Executes(l)'
    <3>1. Executes(l) /\ (loop[l].worker.at \in Executing => loop[l].worker.run \in Runs)
      BY ExecutingFacts DEF SessionInv, LoopInv
    <3> QED BY <1>1, <1>2, <3>1 DEF Executes, SameLogs, Executing
  <2>2. \A r \in Runs : Remembers(l, r)'
    BY <1>1, <1>2, RemembersKeeps DEF SessionInv, LoopInv, StoreMoves
  <2> QED BY <1>2, <2>1, <2>2 DEF MovesWell
<1>6. \A m \in Loops : MovesWell(m)
  BY <1>1, <1>2, <1>3, <1>5, StillMoves
<1>7. Typed'
  <2>1. \A q \in Callers : caller'[q].at # "idle" => caller'[q].run \in Runs /\ caller'[q].loop \in Loops
    BY TypedFacts DEF SessionInv
  <2> QED BY <1>2, <2>1 DEF Typed, SessionInv
<1>8. ASSUME NEW m \in Loops PROVE Served(m)'
  <2>1. loop'[m].mode # "open" /\ owner' # m
    BY <1>2, <1>4 DEF Loops
  <2>2. Served(m)
    BY DEF SessionInv, LoopInv
  <2>3. loop'[m].mode = "cancelling" => \E k \in Callers : Closes(caller'[k], m)
    <3>1. CASE m = l
      BY <1>2, <3>1
    <3>2. CASE m # l /\ loop[m].mode = "cancelling"
      <4>1. PICK k \in Callers : Closes(caller[k], m)
        BY <2>2, <3>2 DEF Served, Closes
      <4>2. caller'[k] = caller[k]
        BY <4>1 DEF Closes
      <4> QED BY <4>1, <4>2
    <3> QED BY <1>2, <3>1, <3>2
  <2>4. Kept(m)' => \A r \in Runs : Holds(loop'[m], r) => decision'[r] = NoDecision
    BY <1>1, <1>2, <1>4, <2>2 DEF Served, Kept, Drops
  <2> QED BY <2>1, <2>3, <2>4 DEF Served, Closes
<1>9. LoopInv'
  BY <1>6, <1>8 DEF LoopInv, MovesWell
<1>10. \A g \in ghosts' : Abandoned(g)'
  BY <1>1, <1>6, GhostsStay DEF MovesWell
<1>11. ASSUME NEW q \in Callers PROVE Submits(q)'
  <2>1. \A m \in Loops : Respects(q, m) /\ (loop[m].mode # "unborn" => loop'[m].mode # "unborn")
    BY <1>2, <1>6 DEF Respects, MovesWell
  <2>2. CASE caller'[q] = caller[q]
    BY <1>1, <2>1, <2>2, SubmitsStay
  <2>3. CASE /\ caller[q].at = "cancel" /\ caller'[q].at = "closing"
             /\ caller'[q].run = caller[q].run /\ caller'[q].loop = l
    <3>1. decision[caller[q].run] = NoDecision
      BY <2>3 DEF SessionInv, Submits
    <3> QED BY <1>1, <1>2, <2>3, <3>1 DEF Submits
  <2> QED BY <2>2, <2>3
<1>12. rec'.at # "idle" => BetweenTurns'
  BY DEF SessionInv, BetweenTurns
<1>13. \A r \in Runs : Sent(r)'
  BY <1>1, SentStays
<1> QED BY <1>1, <1>7, <1>9, <1>10, <1>11, <1>12, <1>13 DEF SessionInv, StoreMoves

\* close_session: the queue gets its mark.
LEMMA CloseSessionKeeps ==
  ASSUME SessionInv, CloseSession, rec' = rec
  PROVE StoreMoves /\ SessionInv'
<1>1. PICK l : l = owner /\ l \in Loops
  BY DEF CloseSession, SessionInv, Typed
<1>2. /\ UNCHANGED store /\ UNCHANGED <<caller, ghosts, server, wire, rec>> /\ owner' = 0
  BY DEF CloseSession, external
<1>3. /\ loop[l] \in LoopRec /\ OneTask(loop[l]) /\ InMode(loop[l]) /\ Executes(l) /\ loop[l].mode = "open"
      /\ caller \in [Callers -> CallerRec]
  BY <1>1, TypedFacts DEF SessionInv, LoopInv, Served
<1>4. PICK m : m = Closing(l, "draining", "drained")
  OBVIOUS
<1>5. PICK qu : qu = IF loop[l].worker.at = "none" THEN loop[l].queue ELSE Append(loop[l].queue, Stop)
  OBVIOUS
<1>6. m \in {"draining", "drained"} /\ qu \in Seq(Entry) /\ Stop \in Entry
  BY <1>3, <1>4, <1>5, ObjectFacts DEF Closing, Entry
<1>7. PICK p : p = [loop[l] EXCEPT !.mode = m, !.queue = qu]
  OBVIOUS
<1>8. loop' = [loop EXCEPT ![l] = p]
  <2>1. loop' = [loop EXCEPT ![l].mode = Closing(l, "draining", "drained"),
                  ![l].queue = IF loop[l].worker.at = "none" THEN @ ELSE Append(@, Stop)]
    BY <1>1 DEF CloseSession
  <2>2. loop' = [loop EXCEPT ![l] = [loop[l] EXCEPT !.mode = Closing(l, "draining", "drained"),
                  !.queue = IF loop[l].worker.at = "none" THEN loop[l].queue ELSE Append(loop[l].queue, Stop)]]
    BY <2>1, Zenon
  <2> QED BY <1>4, <1>5, <1>7, <2>2
<1>9. /\ p \in LoopRec /\ p.mode = m /\ p.queue = qu /\ p.future = loop[l].future
      /\ p.actor = loop[l].actor /\ p.worker = loop[l].worker /\ p.lock = loop[l].lock
  <2>1. m \in Modes
    BY <1>6 DEF Modes
  <2> QED BY <1>3, <1>6, <1>7, <2>1, Zenon DEF LoopRec
<1>10. OneTask(p) /\ InMode(p) /\ Drops(loop[l], p) /\ Calm(loop[l], p)
  <2>1. p.mode \in {"draining", "drained", "closed"} /\ (p.queue = loop[l].queue \/ p.queue = Append(loop[l].queue, Stop))
    BY <1>5, <1>6, <1>9
  <2> QED BY <1>3, <1>9, <2>1, CloseTask
<1>11. p.worker.at \in Executing =>
         /\ loop[l].worker.at \in Executing /\ p.worker.run = loop[l].worker.run
         /\ p.worker.at \in {"frozen", "posted"} => remote[p.worker.run] # NoRemote
  BY <1>3, <1>9 DEF Executes
<1>12. /\ p.mode \in {"draining", "drained", "cancelling", "closed"} /\ p.mode # "cancelling"
       /\ \A r \in Runs : loop[l].future[r] = "none" => p.future[r] = "none"
  BY <1>6, <1>9
<1>13. caller' \in [Callers -> CallerRec] /\ \A q \in Callers : caller'[q] = caller[q]
  BY <1>2, <1>3
<1> QED BY <1>1, <1>2, <1>8, <1>9, <1>10, <1>11, <1>12, <1>13, CloseMove

\* A loop object whose mode alone changes when it is closed.
LEMMA ModeTask ==
  ASSUME NEW o \in LoopRec, NEW p \in LoopRec, OneTask(o), InMode(o), o.mode = "open",
         p.mode \in {"cancelling", "closed"},
         p.queue = o.queue, p.worker = o.worker, p.future = o.future, p.actor = o.actor
  PROVE OneTask(p) /\ InMode(p) /\ Drops(o, p) /\ Calm(o, p)
<1>1. Queued(p) = Queued(o) /\ \A q \in Runs : Holds(p, q) <=> Holds(o, q)
  BY DEF Queued, Holds
<1>2. OneTask(p)
  BY <1>1 DEF OneTask
<1>3. InMode(p)
  BY <1>1 DEF InMode
<1> QED BY <1>1, <1>2, <1>3 DEF Drops, Calm

\* The write that a cancelled worker leaves behind.
LEMMA WorkerGhostFacts ==
  ASSUME SessionInv, NEW l \in Loops, NEW g \in WorkerGhost(l)
  PROVE /\ g \in GhostRec /\ g.run = loop[l].worker.run /\ loop[l].worker.at \in {"start", "settle"}
        /\ g.event.kind \in Offered /\ EventStatus(g.event.kind) # "queued"
        /\ g.event.kind # "run_started" =>
             /\ g.event.sequence - 1 \in 1..Len(events[g.run])
             /\ events[g.run][g.event.sequence - 1].writer = <<l, "worker">>
<1>1. PICK w, r : w = loop[l].worker /\ r = w.run
  OBVIOUS
<1>2. PICK s : s = IF w.at = "start" THEN "running" ELSE w.next
  OBVIOUS
<1>3. w.at \in {"start", "settle"} /\ g = [run |-> r, event |-> ActorEvent(l, "worker", r, s)]
  BY <1>1, <1>2 DEF WorkerGhost
<1>4. r \in Runs /\ OneTask(loop[l]) /\ loop[l] \in LoopRec /\ Remembers(l, r)
  <2>1. OneTask(loop[l]) /\ loop[l] \in LoopRec /\ \A q \in Runs : Remembers(l, q)
    BY TypedFacts DEF SessionInv, LoopInv
  <2> QED BY <1>1, <1>3, <2>1 DEF OneTask, Working, Executing
<1>5. /\ s \in Steps /\ (w.at = "start" => s = "running")
      /\ w.at = "settle" => s \in {"completed", "failed", "reconciliation_required"}
  BY <1>1, <1>2, <1>3, <1>4 DEF OneTask, Steps
<1>6. PICK e \in Offer :
          /\ e = ActorEvent(l, "worker", r, s)
          /\ Leaves(e) /\ EventStatus(e.kind) = s /\ e.kind \in Offered /\ e.writer = <<l, "worker">>
          /\ e.sequence = loop[l].actor[r].sequence + 1 /\ loop[l].actor[r].sequence \in Nat
          /\ e.kind = "run_started" <=> s = "running"
  <2>1. "worker" \in Authors /\ Typed
    BY DEF Authors, SessionInv
  <2> QED BY <1>4, <1>5, <2>1, ActorEventFacts
<1>7. CASE w.at = "start"
  <2>1. loop[l].actor[r].status = "queued"
    BY <1>1, <1>4, <1>7 DEF OneTask
  <2>2. /\ loop[l].actor[r].sequence \in 1..Len(events[r])
        /\ EventStatus(events[r][loop[l].actor[r].sequence].kind) = "queued"
    BY <1>4, <2>1 DEF Remembers
  <2>3. loop[l].actor[r].sequence + 2 <= MaxSequence
    BY <1>4, <2>2 DEF SessionInv, LogInv, Fits
  <2>4. e.sequence \in 1..MaxSequence
    BY <1>6, <2>3, BoundsAssumption
  <2>5. e \in Store!Event
    BY <1>6, <2>4, OfferedFacts, SameTables DEF Offer, Store!Event
  <2> QED BY <1>1, <1>3, <1>4, <1>5, <1>6, <1>7, <2>5 DEF GhostRec
<1>8. CASE w.at = "settle"
  <2>1. /\ loop[l].actor[r].sequence = sequence[r] /\ sequence[r] \in Nat /\ sequence[r] \in 1..Len(events[r])
        /\ events[r][sequence[r]].kind = "run_started"
        /\ events[r][sequence[r]].writer = <<l, "worker">>
    <3>1. loop[l].worker.at \in Executing /\ r = loop[l].worker.run
      BY <1>1, <1>8 DEF Executing
    <3>2. /\ loop[l].actor[r] = [status |-> "running", sequence |-> sequence[r]]
          /\ sequence[r] \in Nat /\ sequence[r] \in 1..Len(events[r])
          /\ events[r][sequence[r]].kind = "run_started"
          /\ events[r][sequence[r]].writer = <<l, "worker">>
      BY <3>1, ExecutingFacts
    <3> QED BY <3>2
  <2>2. sequence[r] + 1 <= MaxSequence
    BY <1>4, <2>1 DEF SessionInv, LogInv, Fits
  <2>3. e.sequence = sequence[r] + 1 /\ e.sequence \in 1..MaxSequence /\ e.sequence - 1 = sequence[r]
    BY <1>6, <2>1, <2>2, BoundsAssumption
  <2>4. e \in Store!Event
    BY <1>6, <2>3, OfferedFacts, SameTables DEF Offer, Store!Event
  <2> QED BY <1>1, <1>3, <1>4, <1>5, <1>6, <1>8, <2>1, <2>3, <2>4 DEF GhostRec
<1> QED BY <1>3, <1>7, <1>8

\* What worker.cancel() leaves of the object.
LEMMA CancelledFacts ==
  ASSUME NEW l \in Loops, loop[l] \in LoopRec, OneTask(loop[l])
  PROVE \E p \in LoopRec :
          /\ p = CancelledWorker(l) /\ p.mode = loop[l].mode /\ p.queue = loop[l].queue
          /\ p.actor = loop[l].actor /\ p.lock = loop[l].lock
          /\ \A q \in Runs : q # loop[l].worker.run => p.future[q] = loop[l].future[q]
          /\ \A q \in Runs : loop[l].future[q] = "none" => p.future[q] = "none"
          /\ \/ p.worker = loop[l].worker /\ p.future = loop[l].future
                  /\ loop[l].worker.at \in {"none", "ended", "abort"}
             \/ /\ p.worker \in {IdleWorker, EndedWorker}
                /\ loop[l].worker.at \in {"start", "settle"} =>
                     /\ p.worker = EndedWorker /\ p.future[loop[l].worker.run] = "cancelled"
             \/ /\ p.worker = Worker("abort", loop[l].worker.run, AbortStatus(loop[l].worker.run))
                /\ p.future = loop[l].future /\ loop[l].worker.at \in {"exec", "frozen", "posted"}
<1>1. PICK o, w, r : o = loop[l] /\ w = o.worker /\ r = w.run
  OBVIOUS
<1>2. o \in LoopRec /\ OneTask(o) /\ o.future \in [Runs -> Futures]
      /\ w.at \in {"none", "idle", "ended"} \cup Working
  BY <1>1, ObjectFacts
<1>3. w.at \in Working => r \in Runs /\ o.future[r] # "none"
  BY <1>1, <1>2 DEF OneTask, Holds
<1>4. CASE w.at \in {"none", "ended", "abort"}
  <2>1. CancelledWorker(l) = o
    BY <1>1, <1>4 DEF CancelledWorker
  <2> QED BY <1>1, <1>2, <1>4, <2>1
<1>5. CASE w.at = "idle"
  <2>1. CancelledWorker(l) = [o EXCEPT !.worker = EndedWorker]
    BY <1>1, <1>5 DEF CancelledWorker
  <2>2. PICK p : p = [o EXCEPT !.worker = EndedWorker]
    OBVIOUS
  <2>3. /\ p \in LoopRec /\ p.mode = o.mode /\ p.queue = o.queue /\ p.future = o.future
        /\ p.actor = o.actor /\ p.worker = EndedWorker /\ p.lock = o.lock
    BY <1>2, <2>2, WorkerFacts, Zenon DEF LoopRec
  <2>4. p = CancelledWorker(l) /\ o.worker.at \notin {"start", "settle"}
    BY <1>1, <1>5, <2>1, <2>2
  <2> QED BY <1>1, <2>3, <2>4
<1>6. CASE w.at \in {"start", "settle"}
  <2>1. CancelledWorker(l) = [o EXCEPT !.worker = EndedWorker, !.future[r] = "cancelled"]
    BY <1>1, <1>6 DEF CancelledWorker
  <2>2. PICK fut : fut = [o.future EXCEPT ![r] = "cancelled"]
    OBVIOUS
  <2>3. r \in Runs
    BY <1>3, <1>6 DEF Working, Executing
  <2>4. fut \in [Runs -> Futures] /\ fut[r] = "cancelled" /\ \A q \in Runs \ {r} : fut[q] = o.future[q]
    BY <1>2, <2>2, <2>3 DEF Futures
  <2>5. PICK p : p = [o EXCEPT !.worker = EndedWorker, !.future = fut]
    OBVIOUS
  <2>6. CancelledWorker(l) = p
    BY <2>1, <2>2, <2>5, Zenon
  <2>7. /\ p \in LoopRec /\ p.mode = o.mode /\ p.queue = o.queue /\ p.future = fut
        /\ p.actor = o.actor /\ p.worker = EndedWorker /\ p.lock = o.lock
    BY <1>2, <2>4, <2>5, WorkerFacts, Zenon DEF LoopRec
  <2>8. \A q \in Runs : o.future[q] = "none" => q # r
    BY <1>3, <1>6 DEF Working, Executing
  <2> QED BY <1>1, <1>6, <2>4, <2>6, <2>7, <2>8
<1>7. CASE w.at \in {"exec", "frozen", "posted"}
  <2>1. CancelledWorker(l) = [o EXCEPT !.worker = Worker("abort", r, AbortStatus(r))]
    BY <1>1, <1>7 DEF CancelledWorker
  <2>2. r \in Runs /\ "abort" \in Working
    BY <1>3, <1>7 DEF Working, Executing
  <2>3. AbortStatus(r) \in RunStatus
    BY DEF AbortStatus, RunStatus
  <2>4. PICK v : v = Worker("abort", r, AbortStatus(r))
    OBVIOUS
  <2>5. v \in WorkerRec
    BY <2>2, <2>3, <2>4, WorkerFacts
  <2>6. PICK p : p = [o EXCEPT !.worker = v]
    OBVIOUS
  <2>7. /\ p \in LoopRec /\ p.mode = o.mode /\ p.queue = o.queue /\ p.future = o.future
        /\ p.actor = o.actor /\ p.worker = v /\ p.lock = o.lock
    BY <1>2, <2>5, <2>6, Zenon DEF LoopRec
  <2> QED BY <1>1, <1>7, <2>1, <2>4, <2>6, <2>7
<1>8. CASE w.at = "refresh"
  <2>1. CancelledWorker(l) = [o EXCEPT !.worker = IdleWorker, !.future[r] = "cancelled",
                         !.gateFailed = TRUE]
    BY <1>1, <1>8 DEF CancelledWorker
  <2>2. PICK fut : fut = [o.future EXCEPT ![r] = "cancelled"]
    OBVIOUS
  <2>3. r \in Runs
    BY <1>3, <1>8 DEF Working, Executing
  <2>4. fut \in [Runs -> Futures] /\ fut[r] = "cancelled" /\ \A q \in Runs \ {r} : fut[q] = o.future[q]
    BY <1>2, <2>2, <2>3 DEF Futures
  <2>5. PICK p : p = [o EXCEPT !.worker = IdleWorker, !.future = fut, !.gateFailed = TRUE]
    OBVIOUS
  <2>6. CancelledWorker(l) = p
    BY <2>1, <2>2, <2>5, Zenon
  <2>7. /\ p \in LoopRec /\ p.mode = o.mode /\ p.queue = o.queue /\ p.future = fut
        /\ p.actor = o.actor /\ p.worker = IdleWorker /\ p.lock = o.lock
    BY <1>2, <2>4, <2>5, WorkerFacts, Zenon DEF LoopRec
  <2>8. \A q \in Runs : o.future[q] = "none" => q # r
    BY <1>3, <1>8 DEF Working, Executing
  <2> QED BY <1>1, <1>8, <2>4, <2>6, <2>7, <2>8
<1> QED BY <1>2, <1>4, <1>5, <1>6, <1>7, <1>8 DEF Working, Executing

\* An open loop whose worker goes on to abort its Run, or stops.
LEMMA StopTask ==
  ASSUME NEW o \in LoopRec, NEW p \in LoopRec, OneTask(o), InMode(o), o.mode = "open",
         p.mode \in {"cancelling", "closed"}, p.queue = o.queue, p.actor = o.actor,
         \A q \in Runs : q # o.worker.run => p.future[q] = o.future[q],
         \/ p.worker \in {IdleWorker, EndedWorker}
         \/ /\ p.worker.run = o.worker.run /\ p.worker.run \in Runs /\ p.worker.at = "abort"
            /\ p.future = o.future /\ p.worker.next \in {"cancelled", "reconciliation_required"}
  PROVE OneTask(p) /\ InMode(p) /\ Drops(o, p) /\ Calm(o, p)
<1>1. \A q \in Runs : q # o.worker.run => p.future[q] = o.future[q] /\ p.actor[q] = o.actor[q]
  OBVIOUS
<1>2. \/ p.worker \in {IdleWorker, EndedWorker}
      \/ /\ p.worker.run = o.worker.run /\ p.worker.run \in Runs
         /\ p.worker.at \in Working \ {"start"} /\ p.future[p.worker.run] = o.future[p.worker.run]
         /\ p.worker.at = "settle" =>
              p.worker.next \in {"completed", "failed", "reconciliation_required"}
         /\ p.worker.at = "abort" => p.worker.next \in {"cancelled", "reconciliation_required"}
  BY DEF Working, Executing
<1>3. OneTask(p) /\ Drops(o, p) /\ Calm(o, p)
  BY <1>1, <1>2, WorkerMoves
<1>4. InMode(o) /\ p.mode \in {"cancelling", "closed"} /\ o.mode = "open" => InMode(p)
  BY <1>1, <1>2, WorkerMoves
<1> QED BY <1>3, <1>4

\* The object of a loop that cancel_session closes.
Stopped(l) == [CancelledWorker(l) EXCEPT !.mode = Closing(l, "cancelling", "closed")]

\* It is a good one.
LEMMA CancelledTask ==
  ASSUME NEW l \in Loops, loop[l] \in LoopRec, OneTask(loop[l]), InMode(loop[l]), loop[l].mode = "open",
         NEW p, p = Stopped(l)
  PROVE /\ p \in LoopRec /\ p.mode \in {"cancelling", "closed"} /\ p.lock = loop[l].lock
        /\ p.actor = loop[l].actor /\ \A q \in Runs : loop[l].future[q] = "none" => p.future[q] = "none"
        /\ OneTask(p) /\ InMode(p) /\ Drops(loop[l], p) /\ Calm(loop[l], p)
        /\ p.worker.at \in Executing =>
             /\ loop[l].worker.at \in Executing /\ p.worker.run = loop[l].worker.run
             /\ p.worker.at \notin {"frozen", "posted"}
        /\ loop[l].worker.at \in {"start", "settle"} =>
             /\ p.future[loop[l].worker.run] # "none" /\ ~Holds(p, loop[l].worker.run)
<1>1. PICK o : o = loop[l] /\ o \in LoopRec /\ OneTask(o) /\ InMode(o) /\ o.mode = "open"
  OBVIOUS
<1>2. PICK c \in LoopRec :
          /\ c = CancelledWorker(l) /\ c.mode = o.mode /\ c.queue = o.queue
          /\ c.actor = o.actor /\ c.lock = o.lock
          /\ \A q \in Runs : q # o.worker.run => c.future[q] = o.future[q]
          /\ \A q \in Runs : o.future[q] = "none" => c.future[q] = "none"
          /\ \/ c.worker = o.worker /\ c.future = o.future /\ o.worker.at \in {"none", "ended", "abort"}
             \/ /\ c.worker \in {IdleWorker, EndedWorker}
                /\ o.worker.at \in {"start", "settle"} =>
                     /\ c.worker = EndedWorker /\ c.future[o.worker.run] = "cancelled"
             \/ /\ c.worker = Worker("abort", o.worker.run, AbortStatus(o.worker.run))
                /\ c.future = o.future /\ o.worker.at \in {"exec", "frozen", "posted"}
  BY <1>1, CancelledFacts
<1>3. PICK m : m = Closing(l, "cancelling", "closed") /\ m \in {"cancelling", "closed"}
  BY DEF Closing
<1>4. p = [c EXCEPT !.mode = m]
  BY <1>2, <1>3 DEF Stopped
<1>5. /\ p \in LoopRec /\ p.mode = m /\ p.queue = c.queue /\ p.future = c.future
      /\ p.actor = c.actor /\ p.worker = c.worker /\ p.lock = c.lock
  <2>1. m \in Modes
    BY <1>3 DEF Modes
  <2> QED BY <1>2, <1>4, <2>1, Zenon DEF LoopRec
<1>6. p \in LoopRec /\ p.mode \in {"cancelling", "closed"} /\ p.actor = o.actor
  BY <1>2, <1>3, <1>5
<1>7. CASE c.worker = o.worker /\ c.future = o.future /\ o.worker.at \in {"none", "ended", "abort"}
  <2>1. OneTask(p) /\ InMode(p) /\ Drops(o, p) /\ Calm(o, p)
    BY <1>1, <1>2, <1>3, <1>5, <1>7, ModeTask
  <2>2. p.worker = o.worker /\ o.worker.at \notin {"frozen", "posted", "start", "settle"}
    BY <1>5, <1>7
  <2> QED BY <1>1, <1>2, <1>3, <1>5, <2>1, <2>2
<1>8. CASE /\ c.worker \in {IdleWorker, EndedWorker}
           /\ o.worker.at \in {"start", "settle"} =>
                /\ c.worker = EndedWorker /\ c.future[o.worker.run] = "cancelled"
  <2>1. /\ p.queue = o.queue /\ p.worker \in {IdleWorker, EndedWorker}
        /\ \A q \in Runs : q # o.worker.run => p.future[q] = o.future[q]
    BY <1>2, <1>5, <1>8
  <2>2. OneTask(p) /\ InMode(p) /\ Drops(o, p) /\ Calm(o, p)
    BY <1>1, <1>6, <2>1, StopTask
  <2>3. p.worker.at \in {"idle", "ended"} /\ p.worker.run \notin Runs
    BY <2>1, WorkerFacts
  <2>4. o.worker.at \in {"start", "settle"} => p.future[o.worker.run] # "none" /\ ~Holds(p, o.worker.run)
    <3>1. o.worker.at \in {"start", "settle"} => o.worker.run \in Runs /\ o.worker.run \notin Queued(o)
      BY <1>1 DEF OneTask, Working, Executing
    <3>2. Queued(p) = Queued(o)
      BY <2>1 DEF Queued
    <3> QED BY <1>5, <1>8, <2>3, <3>1, <3>2 DEF Holds
  <2>5. p.worker.at \notin Executing
    BY <2>3 DEF Executing
  <2> QED BY <1>1, <1>2, <1>3, <1>5, <2>2, <2>4, <2>5
<1>9. CASE /\ c.worker = Worker("abort", o.worker.run, AbortStatus(o.worker.run))
           /\ c.future = o.future /\ o.worker.at \in {"exec", "frozen", "posted"}
  <2>1. o.worker.run \in Runs /\ "abort" \in Working \ {"start"} /\ o.worker.at \in Executing
    BY <1>1, <1>9 DEF OneTask, Working, Executing
  <2>2. AbortStatus(o.worker.run) \in {"cancelled", "reconciliation_required"} \cap (RunStatus \cup {"none"})
    BY DEF AbortStatus, RunStatus
  <2>3. /\ p.worker.at = "abort" /\ p.worker.run = o.worker.run
        /\ p.worker.next \in {"cancelled", "reconciliation_required"}
    BY <1>5, <1>9, <2>1, <2>2, WorkerFacts
  <2>4. /\ p.queue = o.queue /\ p.future = o.future
        /\ \A q \in Runs : q # o.worker.run => p.future[q] = o.future[q]
    BY <1>2, <1>5, <1>9
  <2>5. OneTask(p) /\ InMode(p) /\ Drops(o, p) /\ Calm(o, p)
    BY <1>1, <1>6, <2>1, <2>3, <2>4, StopTask
  <2>6. p.worker.at \notin {"frozen", "posted"} /\ o.worker.at \notin {"start", "settle"}
    BY <1>9, <2>3
  <2> QED BY <1>1, <1>2, <1>3, <1>5, <2>1, <2>3, <2>5, <2>6
<1> QED BY <1>2, <1>7, <1>8, <1>9

\* cancel_session: the loop the owner has begins to close without its queue.
LEMMA CancelSessionKeeps ==
  ASSUME SessionInv, NEW k \in Callers, CancelSession(k), rec' = rec
  PROVE StoreMoves /\ SessionInv'
<1>1. CASE owner = 0
  BY <1>1, LeaveKeeps
<1>2. CASE owner # 0
  <2>1. PICK l : l = owner /\ l \in Loops
    BY <1>2 DEF SessionInv, Typed
  <2>2. /\ UNCHANGED store /\ UNCHANGED <<server, wire, rec>> /\ owner' = 0 /\ caller[k].at = "cancel"
        /\ ghosts' = ghosts \cup WorkerGhost(l)
        /\ caller' = [caller EXCEPT ![k].at = "closing", ![k].loop = l]
    BY <1>2, <2>1 DEF CancelSession, external
  <2>3. /\ loop[l] \in LoopRec /\ OneTask(loop[l]) /\ InMode(loop[l]) /\ Executes(l)
        /\ loop[l].mode = "open" /\ caller \in [Callers -> CallerRec]
    BY <2>1, TypedFacts DEF SessionInv, LoopInv, Served
  <2>4. PICK p : p = Stopped(l)
    OBVIOUS
  <2>5. loop' = [loop EXCEPT ![l] = p]
    BY <1>2, <2>1, <2>4, Zenon DEF CancelSession, Stopped
  <2>6. /\ p \in LoopRec /\ p.mode \in {"cancelling", "closed"} /\ p.lock = loop[l].lock
        /\ p.actor = loop[l].actor /\ \A q \in Runs : loop[l].future[q] = "none" => p.future[q] = "none"
        /\ OneTask(p) /\ InMode(p) /\ Drops(loop[l], p) /\ Calm(loop[l], p)
        /\ p.worker.at \in Executing =>
             /\ loop[l].worker.at \in Executing /\ p.worker.run = loop[l].worker.run
             /\ p.worker.at \notin {"frozen", "posted"}
        /\ loop[l].worker.at \in {"start", "settle"} =>
             /\ p.future[loop[l].worker.run] # "none" /\ ~Holds(p, loop[l].worker.run)
    BY <2>1, <2>3, <2>4, CancelledTask
  <2>7. PICK c : c = [caller[k] EXCEPT !.at = "closing", !.loop = l]
    OBVIOUS
  <2>8. caller' = [caller EXCEPT ![k] = c]
    BY <2>2, <2>7, Zenon
  <2>9. c \in CallerRec /\ c.at = "closing" /\ c.run = caller[k].run /\ c.loop = l
    <3>1. caller[k] \in CallerRec /\ "closing" \in Places
      BY <2>3 DEF Places
    <3> QED BY <2>1, <2>7, <3>1 DEF CallerRec
  <2>10. /\ caller' \in [Callers -> CallerRec] /\ Closes(caller'[k], l)
         /\ \A q \in Callers :
           \/ caller'[q] = caller[q]
           \/ /\ caller[q].at = "cancel" /\ caller'[q].at = "closing"
              /\ caller'[q].run = caller[q].run /\ caller'[q].loop = l
    BY <2>2, <2>3, <2>8, <2>9 DEF Closes
  <2>11. \A g \in ghosts' : g \in ghosts \/ (g \in GhostRec /\ Abandoned(g)')
    <3>1. SUFFICES ASSUME NEW g \in WorkerGhost(l) PROVE g \in GhostRec /\ Abandoned(g)'
      BY <2>2
    <3>2. /\ g \in GhostRec /\ g.run = loop[l].worker.run /\ loop[l].worker.at \in {"start", "settle"}
          /\ g.event.kind \in Offered /\ EventStatus(g.event.kind) # "queued"
          /\ g.event.kind # "run_started" =>
               /\ g.event.sequence - 1 \in 1..Len(events[g.run])
               /\ events[g.run][g.event.sequence - 1].writer = <<l, "worker">>
      BY <2>1, WorkerGhostFacts
    <3>3. loop'[l] = p /\ events' = events
      BY <2>1, <2>2, <2>5, TypedFacts DEF SessionInv, store
    <3>4. loop'[l].future[g.run] # "none" /\ ~Holds(loop'[l], g.run)
      BY <2>6, <3>2, <3>3
    <3> QED BY <2>1, <3>2, <3>3, <3>4 DEF Abandoned
  <2>12. p.worker.at \in Executing =>
           /\ loop[l].worker.at \in Executing /\ p.worker.run = loop[l].worker.run
           /\ p.worker.at \in {"frozen", "posted"} => remote[p.worker.run] # NoRemote
    BY <2>6
  <2>13. p.mode \in {"draining", "drained", "cancelling", "closed"}
    BY <2>6
  <2> QED BY <2>1, <2>2, <2>5, <2>6, <2>10, <2>11, <2>12, <2>13, CloseMove
<1> QED BY <1>1, <1>2

-----------------------------------------------------------------------------
(* The loop that SessionRuntimeOwner hands out. *)

\* An object that is open already, or just made, is opened.
LEMMA OpenTask ==
  ASSUME NEW o \in LoopRec, NEW p \in LoopRec, OneTask(o), InMode(o), o.mode \in {"open", "unborn"},
         p.mode = "open", p.queue = o.queue, p.future = o.future, p.actor = o.actor,
         p.worker = o.worker \/ (o.worker.at = "none" /\ p.worker = IdleWorker)
  PROVE /\ OneTask(p) /\ InMode(p) /\ Calm(o, p) /\ Drops(o, p)
        /\ o.mode = "unborn" => \A q \in Runs : ~Holds(p, q)
<1>1. Queued(p) = Queued(o)
  BY DEF Queued
<1>2. \/ p.worker = o.worker
      \/ o.worker.at = "none" /\ p.worker.at = "idle" /\ p.worker.run = Nobody /\ o.worker.run \notin Runs
  BY WorkerFacts DEF OneTask
<1>3. \A q \in Runs : Holds(p, q) <=> Holds(o, q)
  BY <1>1, <1>2, WorkerFacts DEF Holds
<1>4. OneTask(p)
  BY <1>1, <1>2, <1>3, WorkerFacts DEF OneTask
<1>5. o.mode = "unborn" => o = NewLoop
  BY DEF InMode
<1>6. o.mode = "unborn" => (\A q \in Runs : ~Holds(p, q)) /\ Queued(p) = {}
  BY <1>1, <1>3, <1>5, NewLoopFacts
<1>7. InMode(p)
  BY <1>1, <1>3, <1>6 DEF InMode
<1> QED BY <1>3, <1>4, <1>6, <1>7 DEF Calm, Drops

\* A step in which the owner's loop, or a new one, is opened.
LEMMA OpenMove ==
  ASSUME SessionInv, StoreMoves, decision' = decision, NEW l \in Loops, SessionFor(l), owner' = l,
         NEW p \in LoopRec, loop' = [loop EXCEPT ![l] = p], p.mode = "open",
         p.queue = loop[l].queue, p.future = loop[l].future, p.actor = loop[l].actor,
         p.worker = loop[l].worker \/ (loop[l].worker.at = "none" /\ p.worker = IdleWorker),
         \A q \in Callers : loop[l].lock = q => p.lock = q,
         ghosts' = ghosts, server' = server, wire' = wire, caller' \in [Callers -> CallerRec],
         \A q \in Callers :
           \/ caller'[q] = caller[q]
           \/ /\ caller[q].at = "idle" /\ caller'[q].run \in Runs /\ caller'[q].loop \in Loops
              /\ Submits(q)',
         rec' \in RecRec, rec'.at = "asked" => rec'.snapshot \in Snap, rec'.at # "idle" => BetweenTurns',
         \A m \in Loops : Spared(m)
  PROVE SessionInv'
<1>1. /\ loop' \in [Loops -> LoopRec] /\ loop'[l] = p
      /\ \A m \in Loops \ {l} : loop'[m] = loop[m]
  BY TypedFacts DEF SessionInv
<1>2. /\ loop[l] \in LoopRec /\ OneTask(loop[l]) /\ InMode(loop[l]) /\ Executes(l) /\ Served(l)
      /\ \A r \in Runs : Remembers(l, r)
  BY TypedFacts DEF SessionInv, LoopInv
<1>3. \/ owner = l /\ loop[l].mode = "open"
      \/ owner = 0 /\ loop[l].mode = "unborn"
  BY <1>2 DEF SessionFor, Served
<1>4. /\ OneTask(p) /\ InMode(p) /\ Calm(loop[l], p) /\ Drops(loop[l], p)
      /\ loop[l].mode = "unborn" => \A q \in Runs : ~Holds(p, q)
  <2>1. loop[l].mode \in {"open", "unborn"}
    BY <1>3
  <2> QED BY <1>2, <2>1, OpenTask
<1>5. MovesWell(l)
  <2>1. Executes(l)'
    BY <1>1, ExecutesKeeps DEF StoreMoves
  <2>2. \A r \in Runs : Remembers(l, r)'
    BY <1>1, <1>2, RemembersKeeps DEF SessionInv, StoreMoves
  <2> QED BY <1>1, <1>4, <2>1, <2>2 DEF MovesWell
<1>6. \A m \in Loops : MovesWell(m)
  BY <1>1, <1>5, StillMoves
<1>7. Typed'
  <2>1. \A q \in Callers : caller'[q].at # "idle" => caller'[q].run \in Runs /\ caller'[q].loop \in Loops
    BY TypedFacts DEF SessionInv
  <2> QED BY <1>1, <2>1 DEF Typed, SessionInv
<1>8. ASSUME NEW m \in Loops PROVE Served(m)'
  <2>1. CASE m = l
    <3>1. ASSUME NEW r \in Runs, Holds(p, r)
          PROVE /\ \E k \in Callers : Serves(caller'[k], l, r)
                /\ decision'[r] = NoDecision
      <4>1. loop[l].mode = "open" /\ Holds(loop[l], r)
        BY <1>3, <1>4, <3>1 DEF Drops
      <4>2. decision[r] = NoDecision
        BY <1>2, <4>1 DEF Served, Kept
      <4>3. PICK k \in Callers : Serves(caller[k], l, r)
        BY <1>2, <4>1 DEF Served, Serves
      <4>4. caller'[k] = caller[k]
        BY <4>3 DEF Serves
      <4> QED BY <4>2, <4>3, <4>4
    <3>2. loop'[m].mode = "open" /\ owner' = m
      BY <1>1, <2>1
    <3> QED BY <1>1, <2>1, <3>1, <3>2 DEF Served, Serves
  <2>2. CASE m # l
    <3>1. Served(m) /\ loop'[m] = loop[m]
      BY <1>1, <2>2 DEF SessionInv, LoopInv
    <3>2. loop[m].mode # "open" /\ owner' # m
      BY <1>3, <2>2, <3>1 DEF Served, Loops
    <3>3. loop[m].mode = "cancelling" => \E k \in Callers : Closes(caller'[k], m)
      <4>1. SUFFICES ASSUME loop[m].mode = "cancelling" PROVE \E k \in Callers : Closes(caller'[k], m)
        OBVIOUS
      <4>2. PICK k \in Callers : Closes(caller[k], m)
        BY <3>1, <4>1 DEF Served, Closes
      <4>3. caller'[k] = caller[k]
        BY <4>2 DEF Closes
      <4> QED BY <4>2, <4>3
    <3>4. Kept(m)' => \A r \in Runs : Holds(loop'[m], r) => decision'[r] = NoDecision
      BY <3>1 DEF Served, Kept
    <3> QED BY <3>1, <3>2, <3>3, <3>4 DEF Served, Closes
  <2> QED BY <2>1, <2>2
<1>9. LoopInv'
  BY <1>6, <1>8 DEF LoopInv, MovesWell
<1>10. \A g \in ghosts' : Abandoned(g)'
  BY <1>6, GhostsStay DEF MovesWell
<1>11. ASSUME NEW q \in Callers PROVE Submits(q)'
  <2>1. \A m \in Loops : Respects(q, m) /\ (loop[m].mode # "unborn" => loop'[m].mode # "unborn")
    BY <1>1, <1>6 DEF Respects, MovesWell
  <2>2. CASE caller'[q] = caller[q]
    BY <2>1, <2>2, SubmitsStay
  <2> QED BY <2>2
<1>12. \A r \in Runs : Sent(r)'
  BY SentStays
<1> QED BY <1>7, <1>9, <1>10, <1>11, <1>12 DEF SessionInv, StoreMoves

\* A new submission.
LEMMA SubmissionKeeps ==
  ASSUME SessionInv, NEW k \in Callers, NEW r \in Runs, Submission(k, r), rec' = rec
  PROVE StoreMoves /\ SessionInv'
<1>1. /\ rec.at = "idle" /\ decision[r] = NoDecision /\ caller[k].at = "idle" /\ UNCHANGED store
      /\ UNCHANGED <<ghosts, server, wire, rec>>
  BY DEF Submission, Call, external
<1>2. PICK l \in Loops :
         LET obj == [loop[l] EXCEPT !.mode = "open",
                                    !.worker = IF loop[l].ready THEN Started(@) ELSE @] IN
         /\ SessionFor(l) /\ owner' = l
         /\ loop' = [loop EXCEPT ![l] = IF loop[l].ready THEN Entered(obj, k, r) ELSE obj]
         /\ caller' = [caller EXCEPT ![k] =
              [at |-> IF loop[l].ready THEN Enter(obj, r) ELSE "init", run |-> r, loop |-> l]]
  BY Zenon DEF Submission, Call
<1>3. PICK o, p, c :
        /\ o = [loop[l] EXCEPT !.mode = "open",
                               !.worker = IF loop[l].ready THEN Started(@) ELSE @]
        /\ SessionFor(l) /\ owner' = l
        /\ p = IF loop[l].ready THEN Entered(o, k, r) ELSE o
        /\ loop' = [loop EXCEPT ![l] = p]
        /\ c = [at |-> IF loop[l].ready THEN Enter(o, r) ELSE "init", run |-> r, loop |-> l]
        /\ caller' = [caller EXCEPT ![k] = c]
  BY <1>2, Zenon
<1>4. loop[l] \in LoopRec /\ caller \in [Callers -> CallerRec]
  BY TypedFacts DEF SessionInv
<1>5. PICK w \in WorkerRec : /\ w = IF loop[l].ready THEN Started(loop[l].worker) ELSE loop[l].worker
                             /\ w = loop[l].worker \/ (loop[l].worker.at = "none" /\ w = IdleWorker)
  BY <1>4, ObjectFacts, WorkerFacts DEF Started
<1>6. o = [loop[l] EXCEPT !.mode = "open", !.worker = w]
  BY <1>3, <1>5
<1>7. /\ o \in LoopRec /\ o.mode = "open" /\ o.queue = loop[l].queue /\ o.future = loop[l].future
      /\ o.actor = loop[l].actor /\ o.worker = w /\ o.lock = loop[l].lock
  <2>1. "open" \in Modes
    BY DEF Modes
  <2> QED BY <1>4, <1>6, <2>1, Zenon DEF LoopRec
<1>8. /\ p \in LoopRec /\ p.mode = "open" /\ p.queue = loop[l].queue /\ p.future = loop[l].future
      /\ p.actor = loop[l].actor /\ p.worker = w /\ \A q \in Callers : loop[l].lock = q => p.lock = q
      /\ c.at \in {"init", "lock", "wait", "lookup"} /\ c.run = r /\ c.loop = l
      /\ c.at = "lookup" => p.lock = k /\ p.future[r] = "none"
  <2>1. CASE loop[l].ready
    <3>1. PICK x : x = Entered(o, k, r)
      OBVIOUS
    <3>2. /\ x \in LoopRec /\ Similar(o, x) /\ x.mode = o.mode /\ x.worker = o.worker
          /\ Enter(o, r) \in {"lock", "wait", "lookup"}
          /\ Enter(o, r) = "lookup" => x.lock = k /\ x.future[r] = "none"
          /\ \A q \in Callers : o.lock = q => x.lock = q
      BY <1>7, <3>1, EnteredFacts
    <3>3. x = p /\ c = [at |-> Enter(o, r), run |-> r, loop |-> l]
      BY <1>3, <2>1, <3>1
    <3>4. c.at = Enter(o, r) /\ c.run = r /\ c.loop = l
      BY <3>3
    <3> QED BY <1>7, <3>2, <3>3, <3>4 DEF Similar
  <2>2. CASE ~loop[l].ready
    <3>1. p = o /\ c = [at |-> "init", run |-> r, loop |-> l]
      BY <1>3, <2>2
    <3> QED BY <1>7, <3>1
  <2> QED BY <2>1, <2>2
<1>9. StoreMoves /\ SameLogs /\ decision' = decision
  BY <1>1, Leave DEF SessionInv
<1>10. \A m \in Loops : Spared(m)
  BY <1>9 DEF Spared, SameLogs
<1>11. loop'[l] = p /\ caller'[k] = c /\ c \in CallerRec /\ caller' \in [Callers -> CallerRec]
       /\ \A q \in Callers \ {k} : caller'[q] = caller[q]
  <2>1. c \in CallerRec
    <3>1. c = [at |-> c.at, run |-> r, loop |-> l]
      BY <1>3, <1>8
    <3>2. c.at \in Places
      BY <1>8 DEF Places
    <3> QED BY <3>1, <3>2 DEF CallerRec
  <2> QED BY <1>3, <1>4, <2>1, TypedFacts DEF SessionInv
<1>12. Submits(k)'
  <2>1. p.mode # "unborn" /\ decision'[r] = NoDecision /\ c.at # "enqueue"
    BY <1>1, <1>8, <1>9
  <2> QED BY <1>8, <1>11, <2>1 DEF Submits
<1>13. /\ rec' \in RecRec /\ (rec'.at = "asked" => rec'.snapshot \in Snap)
       /\ (rec'.at # "idle" => BetweenTurns')
  BY <1>1 DEF SessionInv, Typed
<1>14. \A q \in Callers :
         \/ caller'[q] = caller[q]
         \/ /\ caller[q].at = "idle" /\ caller'[q].run \in Runs /\ caller'[q].loop \in Loops
            /\ Submits(q)'
  BY <1>1, <1>8, <1>11, <1>12
<1>15. p.worker = loop[l].worker \/ (loop[l].worker.at = "none" /\ p.worker = IdleWorker)
  BY <1>5, <1>8
<1>16. SessionFor(l) /\ owner' = l /\ loop' = [loop EXCEPT ![l] = p]
  BY <1>3
<1> QED BY <1>1, <1>8, <1>9, <1>10, <1>11, <1>13, <1>14, <1>15, <1>16, OpenMove

-----------------------------------------------------------------------------
(* The recovery flow. *)

\* Between two turns the loops that are kept hold nothing.
LEMMA IdleHolds ==
  ASSUME SessionInv, BetweenTurns, NEW l \in Loops, Kept(l), NEW r \in Runs
  PROVE ~Holds(loop[l], r)
<1>1. Served(l)
  BY DEF SessionInv, LoopInv
<1> QED BY <1>1 DEF Served, Kept, BetweenTurns

\* A good state of the flow.
FlowOK(v) == v \in RecRec /\ (v.at = "asked" => v.snapshot \in Snap)

\* A step of the flow that touches no loop.
LEMMA FlowMove ==
  ASSUME SessionInv, BetweenTurns, StoreMoves, SameLogs, UNCHANGED <<loop, owner, caller, ghosts>>,
         server' = server, wire' = wire, FlowOK(rec')
  PROVE SessionInv'
<1>1. \A l \in Loops : Spared(l) /\ MovesWell(l)
  <2>1. \A l \in Loops : Spared(l)
    BY DEF Spared, SameLogs
  <2> QED BY <2>1, StillMoves
<1>2. Typed'
  BY DEF SessionInv, Typed, FlowOK
<1>3. ASSUME NEW l \in Loops PROVE Served(l)'
  <2>1. Served(l)
    BY DEF SessionInv, LoopInv
  <2>2. Kept(l) => \A r \in Runs : ~Holds(loop[l], r)
    BY IdleHolds
  <2> QED BY <2>1, <2>2 DEF Served, Kept
<1>4. LoopInv'
  BY <1>1, <1>3 DEF LoopInv, MovesWell
<1>5. \A g \in ghosts' : Abandoned(g)'
  BY <1>1, GhostsStay DEF MovesWell
<1>6. \A k \in Callers : Submits(k)'
  BY DEF Submits, BetweenTurns
<1>7. BetweenTurns'
  BY DEF BetweenTurns
<1>8. \A r \in Runs : Sent(r)'
  BY SentStays
<1> QED BY <1>2, <1>4, <1>5, <1>6, <1>7, <1>8 DEF SessionInv, StoreMoves

\* How the flow goes on.
LEMMA FlowFacts ==
  ASSUME Typed, NEW x
  PROVE /\ FlowOK(Done(x)) /\ FlowOK(NoRecovery) /\ NoRecovery.at = "idle" /\ Done(x).at = "next"
        /\ Done(x).observe = rec.observe /\ NoRecovery \in RecRec /\ Done(x) \in RecRec
<1>1. rec \in RecRec
  BY DEF Typed
<1>2. PICK t : t = rec.todo \ {x}
  OBVIOUS
<1>3. Done(x) = [rec EXCEPT !.at = "next", !.todo = t, !.snapshot = Nobody, !.seen = "none"]
  BY <1>2 DEF Done
<1>4. t \in SUBSET Snap
  BY <1>1, <1>2 DEF RecRec
<1>5. Done(x) \in RecRec /\ Done(x).at = "next" /\ Done(x).observe = rec.observe
  BY <1>1, <1>3, <1>4, Zenon DEF RecRec
<1>6. NoRecovery \in RecRec /\ NoRecovery.at = "idle"
  BY DEF NoRecovery, RecRec
<1> QED BY <1>5, <1>6 DEF FlowOK

\* A decision moves the store and the flow.
LEMMA Decides ==
  ASSUME StoreInv, LogInv, NEW r \in Runs, NEW q \in Requests,
         NEW s \in {"committed", "failed", "not_executed"}, NEW n, Decide(r, q, s, n)
  PROVE StoreMoves /\ SameLogs /\ (rec' = n \/ rec' = NoRecovery)
<1>1. PICK d : d = [request |-> q, resolution |-> s]
  OBVIOUS
<1>2. d \in Store!Decision
  BY <1>1 DEF Store!Decision, Store!Resolutions
<1>3. \/ Store!ResolveRecovery(r, d) /\ rec' = n
      \/ UNCHANGED store /\ rec' = NoRecovery
  BY <1>1, Zenon DEF Decide
<1>4. CASE Store!ResolveRecovery(r, d) /\ rec' = n
  BY <1>2, <1>4, Resolves
<1>5. CASE UNCHANGED store /\ rec' = NoRecovery
  BY <1>5, Leave
<1> QED BY <1>3, <1>4, <1>5

\* The steps of the flow that touch no loop.
LEMMA FlowKeeps ==
  ASSUME SessionInv,
         \/ rec.at = "next" /\ \E x \in rec.todo :
              RecoverQueued(x) \/ RecoverUnbound(x) \/ AskServer(x) \/ ServerUnreachable(x)
         \/ MissingTurn \/ KnownTurn \/ ObservationFails
         \/ rec.at = "observe" /\ \E r \in rec.observe : ObserveTurn(r)
  PROVE StoreMoves /\ SessionInv'
<1>1. rec.at # "idle"
  BY DEF MissingTurn, KnownTurn, ObservationFails
<1>2. /\ BetweenTurns /\ Typed /\ StoreInv /\ LogInv /\ rec.todo \subseteq Snap /\ rec.observe \subseteq Runs
      /\ rec \in RecRec /\ (rec.at = "asked" => rec.snapshot \in Snap) /\ server \in [Runs -> Turns]
  BY <1>1 DEF SessionInv, Typed, RecRec
<1>3. /\ UNCHANGED <<loop, owner, caller, ghosts>> /\ server' = server /\ wire' = wire
  BY DEF MissingTurn, KnownTurn, ObservationFails, RecoverQueued, RecoverUnbound, AskServer,
         ServerUnreachable, ObserveTurn, external
<1>4. Requests = {"not_executed", "unbound", "remote", "observed"}
  BY DEF Requests
<1>5. SUFFICES StoreMoves /\ SameLogs /\ FlowOK(rec')
  BY <1>2, <1>3, FlowMove
<1>6. UNCHANGED store => StoreMoves /\ SameLogs
  BY <1>2, Leave
<1>7. ASSUME NEW x \in rec.todo, RecoverQueued(x) PROVE StoreMoves /\ SameLogs /\ FlowOK(rec')
  <2>1. x.run \in Runs
    BY <1>2 DEF Snap
  <2>2. \/ UNCHANGED store /\ rec' = Done(x)
        \/ Decide(x.run, "not_executed", "not_executed", Done(x))
    BY <1>7 DEF RecoverQueued
  <2>3. StoreMoves /\ SameLogs /\ (rec' = Done(x) \/ rec' = NoRecovery)
    BY <1>2, <1>4, <1>6, <2>1, <2>2, Decides
  <2> QED BY <1>2, <2>3, FlowFacts
<1>8. ASSUME NEW x \in rec.todo, RecoverUnbound(x) PROVE StoreMoves /\ SameLogs /\ FlowOK(rec')
  <2>1. x.run \in Runs
    BY <1>2 DEF Snap
  <2>2. Decide(x.run, "unbound", "failed", Done(x))
    BY <1>8 DEF RecoverUnbound
  <2>3. StoreMoves /\ SameLogs /\ (rec' = Done(x) \/ rec' = NoRecovery)
    BY <1>2, <1>4, <2>1, <2>2, Decides
  <2> QED BY <1>2, <2>3, FlowFacts
<1>9. ASSUME NEW x \in rec.todo, AskServer(x) PROVE StoreMoves /\ SameLogs /\ FlowOK(rec')
  <2>1. x \in Snap /\ server[x.run] \in Turns
    BY <1>2 DEF Snap
  <2>2. UNCHANGED store /\ rec' = [rec EXCEPT !.at = "asked", !.snapshot = x, !.seen = server[x.run]]
    BY <1>9 DEF AskServer
  <2>3. rec' \in RecRec /\ rec'.snapshot = x
    BY <1>2, <2>1, <2>2 DEF RecRec
  <2> QED BY <1>6, <2>1, <2>2, <2>3 DEF FlowOK
<1>10. ASSUME NEW x \in rec.todo, ServerUnreachable(x) PROVE StoreMoves /\ SameLogs /\ FlowOK(rec')
  <2>1. UNCHANGED store /\ rec' = Done(x)
    BY <1>10 DEF ServerUnreachable
  <2> QED BY <1>2, <1>6, <2>1, FlowFacts
<1>11. ASSUME MissingTurn PROVE StoreMoves /\ SameLogs /\ FlowOK(rec')
  <2>1. PICK x : x = rec.snapshot
    OBVIOUS
  <2>2. rec.at = "asked" /\ Decide(x.run, "not_executed", "not_executed", Done(x))
    BY <1>11, <2>1 DEF MissingTurn
  <2>3. x.run \in Runs
    BY <1>2, <2>1, <2>2 DEF Snap
  <2>4. StoreMoves /\ SameLogs /\ (rec' = Done(x) \/ rec' = NoRecovery)
    BY <1>2, <1>4, <2>2, <2>3, Decides
  <2> QED BY <1>2, <2>4, FlowFacts
<1>12. ASSUME KnownTurn PROVE StoreMoves /\ SameLogs /\ FlowOK(rec')
  <2>1. PICK x : x = rec.snapshot
    OBVIOUS
  <2>2. /\ rec.at = "asked"
        /\ \/ rec' = [Done(x) EXCEPT !.observe = @ \cup {x.run}] /\ UNCHANGED store
           \/ rec' = Done(x) /\ UNCHANGED store
           \/ Decide(x.run, "remote", IF rec.seen = "completed" THEN "committed" ELSE "failed", Done(x))
    BY <1>12, <2>1 DEF KnownTurn
  <2>3. x.run \in Runs
    BY <1>2, <2>1, <2>2 DEF Snap
  <2>4. CASE rec' = [Done(x) EXCEPT !.observe = @ \cup {x.run}] /\ UNCHANGED store
    <3>1. Done(x) \in RecRec /\ Done(x).at = "next" /\ Done(x).observe = rec.observe
      BY <1>2, FlowFacts
    <3>2. rec.observe \cup {x.run} \in SUBSET Runs
      BY <1>2, <2>3
    <3>3. PICK d \in RecRec : d = Done(x) /\ d.at = "next" /\ d.observe = rec.observe
      BY <3>1
    <3>4. rec' = [d EXCEPT !.observe = rec.observe \cup {x.run}]
      BY <2>4, <3>3
    <3>5. rec' \in RecRec /\ rec'.at = "next"
      BY <3>2, <3>3, <3>4 DEF RecRec
    <3> QED BY <1>6, <2>4, <3>5 DEF FlowOK
  <2>5. CASE rec' = Done(x) /\ UNCHANGED store
    BY <1>2, <1>6, <2>5, FlowFacts
  <2>6. CASE Decide(x.run, "remote", IF rec.seen = "completed" THEN "committed" ELSE "failed", Done(x))
    <3>1. PICK s \in {"committed", "failed", "not_executed"} :
            s = IF rec.seen = "completed" THEN "committed" ELSE "failed"
      OBVIOUS
    <3>2. StoreMoves /\ SameLogs /\ (rec' = Done(x) \/ rec' = NoRecovery)
      BY <1>2, <1>4, <2>3, <2>6, <3>1, Decides
    <3> QED BY <1>2, <3>2, FlowFacts
  <2> QED BY <2>2, <2>4, <2>5, <2>6
<1>13. ASSUME ObservationFails PROVE StoreMoves /\ SameLogs /\ FlowOK(rec')
  <2>1. UNCHANGED store /\ rec' = NoRecovery
    BY <1>13 DEF ObservationFails
  <2> QED BY <1>2, <1>6, <2>1, FlowFacts
<1>14. ASSUME rec.at = "observe", NEW r \in rec.observe, ObserveTurn(r)
       PROVE StoreMoves /\ SameLogs /\ FlowOK(rec')
  <2>1. PICK n : n = IF rec.observe \ {r} = {} THEN NoRecovery ELSE [rec EXCEPT !.observe = rec.observe \ {r}]
    OBVIOUS
  <2>2. PICK s \in {"committed", "failed", "not_executed"} :
            s = IF server[r] = "completed" THEN "committed" ELSE "failed"
    OBVIOUS
  <2>3. Decide(r, "observed", s, n)
    BY <1>14, <2>1, <2>2 DEF ObserveTurn
  <2>4. StoreMoves /\ SameLogs /\ (rec' = n \/ rec' = NoRecovery)
    BY <1>2, <1>4, <2>3, Decides
  <2>5. FlowOK(n)
    <3>1. CASE rec.observe \ {r} = {}
      BY <1>2, <2>1, <3>1, FlowFacts
    <3>2. CASE rec.observe \ {r} # {}
      <4>1. rec.observe \ {r} \in SUBSET Runs /\ n = [rec EXCEPT !.observe = rec.observe \ {r}]
        BY <1>2, <2>1, <3>2
      <4>2. n \in RecRec /\ n.at = "observe"
        BY <1>2, <1>14, <4>1 DEF RecRec
      <4> QED BY <4>2 DEF FlowOK
    <3> QED BY <3>1, <3>2
  <2> QED BY <1>2, <2>4, <2>5, FlowFacts
<1> QED BY <1>7, <1>8, <1>9, <1>10, <1>11, <1>12, <1>13, <1>14

\* A loop that has read its recoveries.
LEMMA WithGateFacts ==
  ASSUME NEW o \in LoopRec, NEW g \in [blocked : BOOLEAN, first : Runs \cup {Nobody}], NEW p,
         p = WithGate(o, g)
  PROVE /\ p \in LoopRec /\ p.mode = "open" /\ p.queue = o.queue /\ p.future = o.future
        /\ p.actor = o.actor /\ p.worker = o.worker /\ p.lock = o.lock
<1>1. p = [o EXCEPT !.mode = "open", !.ready = TRUE, !.gate = g, !.gateFailed = FALSE]
  BY DEF WithGate
<1>2. "open" \in Modes
  BY DEF Modes
<1> QED BY <1>1, <1>2, Zenon DEF LoopRec

\* The flow reads the unfinished Runs, and so does the owner's loop.
LEMMA OwnerRefreshes ==
  ASSUME SessionInv, BetweenTurns, UNCHANGED store, RefreshOwner,
         UNCHANGED <<owner, caller, ghosts, server, wire>>, FlowOK(rec')
  PROVE StoreMoves /\ SessionInv'
<1>1. StoreMoves /\ SameLogs /\ decision' = decision
  BY Leave DEF SessionInv
<1>2. CASE owner = 0
  <2>1. loop' = loop
    BY <1>2 DEF RefreshOwner
  <2> QED BY <1>1, <2>1, FlowMove
<1>3. CASE owner # 0
  <2>1. PICK l \in Loops : l = owner
    BY <1>3 DEF SessionInv, Typed
  <2>2. PICK g \in Gates : loop' = [loop EXCEPT ![l] = WithGate(@, g)]
    BY <1>3, <2>1 DEF RefreshOwner
  <2>3. g \in [blocked : BOOLEAN, first : Runs \cup {Nobody}] /\ loop[l] \in LoopRec
        /\ caller \in [Callers -> CallerRec]
    BY <2>2, GateFacts, TypedFacts DEF SessionInv
  <2>4. PICK p : p = WithGate(loop[l], g)
    OBVIOUS
  <2>5. loop' = [loop EXCEPT ![l] = p]
    BY <2>2, <2>4
  <2>6. /\ p \in LoopRec /\ p.mode = "open" /\ p.queue = loop[l].queue /\ p.future = loop[l].future
        /\ p.actor = loop[l].actor /\ p.worker = loop[l].worker /\ p.lock = loop[l].lock
    BY <2>3, <2>4, WithGateFacts
  <2>7. SessionFor(l) /\ owner' = l
    BY <2>1 DEF SessionFor
  <2>8. \A m \in Loops : Spared(m)
    BY <1>1 DEF Spared, SameLogs
  <2>9. BetweenTurns' /\ rec' \in RecRec /\ (rec'.at = "asked" => rec'.snapshot \in Snap)
    BY DEF BetweenTurns, FlowOK
  <2>10. caller' \in [Callers -> CallerRec] /\ \A q \in Callers : caller'[q] = caller[q]
    BY <2>3
  <2> QED BY <1>1, <2>5, <2>6, <2>7, <2>8, <2>9, <2>10, OpenMove
<1> QED BY <1>2, <1>3

\* The flow begins and ends with a look at the unfinished Runs.
LEMMA EndsKeep ==
  ASSUME SessionInv, RecoverBegin \/ RecoverEnd
  PROVE StoreMoves /\ SessionInv'
<1>1. /\ UNCHANGED store /\ UNCHANGED <<owner, caller, ghosts, server, wire>> /\ RefreshOwner
  BY DEF RecoverBegin, RecoverEnd, external
<1>2. Typed /\ rec \in RecRec /\ StoreInv
  BY DEF SessionInv, Typed
<1>3. BetweenTurns
  BY DEF RecoverBegin, RecoverEnd, SessionInv
<1>4. FlowOK(rec')
  <2>1. CASE RecoverBegin
    <3>1. PICK t : t = {Snapshot(r) : r \in Store!RecoverSession(Session)}
      OBVIOUS
    <3>2. rec' = [NoRecovery EXCEPT !.at = "next", !.todo = t]
      BY <2>1, <3>1 DEF RecoverBegin
    <3>3. ASSUME NEW r \in Store!RecoverSession(Session) PROVE Snapshot(r) \in Snap
      <4>1. r \in Runs
        BY DEF Store!RecoverSession, Runs
      <4>2. status[r] \in RunStatus /\ sequence[r] \in Nat
        BY <1>2, <4>1, RowFacts
      <4> QED BY <4>1, <4>2 DEF Snapshot, Snap
    <3>4. t \in SUBSET Snap
      BY <3>1, <3>3
    <3>5. PICK n \in RecRec : n = NoRecovery
      BY <1>2, FlowFacts
    <3>6. rec' = [n EXCEPT !.at = "next", !.todo = t]
      BY <3>2, <3>5
    <3>7. rec' \in RecRec /\ rec'.at = "next"
      BY <3>4, <3>5, <3>6 DEF RecRec
    <3> QED BY <3>7 DEF FlowOK
  <2>2. CASE RecoverEnd
    <3>1. rec' = NoRecovery \/ rec' = [rec EXCEPT !.at = "observe"]
      BY <2>2 DEF RecoverEnd
    <3>2. CASE rec' = [rec EXCEPT !.at = "observe"]
      <4>1. rec' \in RecRec /\ rec'.at = "observe"
        BY <1>2, <3>2 DEF RecRec
      <4> QED BY <4>1 DEF FlowOK
    <3> QED BY <1>2, <3>1, <3>2, FlowFacts
  <2> QED BY <2>1, <2>2
<1> QED BY <1>1, <1>3, <1>4, OwnerRefreshes

\* A Review that the service does not know is queued again.
LEMMA MissingReviewKeeps ==
  ASSUME SessionInv, MissingReview
  PROVE StoreMoves /\ SessionInv'
<1>1. PICK x : x = rec.snapshot
  OBVIOUS
<1>2. /\ rec.at = "asked" /\ x.sequence + EventsPerDispatch <= MaxSequence
      /\ UNCHANGED <<caller, ghosts, server, wire>>
  BY <1>1 DEF MissingReview, external
<1>3. /\ x \in Snap /\ x.run \in Runs /\ x.sequence \in Nat /\ BetweenTurns /\ Typed
      /\ StoreInv /\ LogInv /\ caller \in [Callers -> CallerRec]
  BY <1>1, <1>2 DEF SessionInv, Typed, Snap
<1>4. PICK l \in Loops :
         LET e == NewEvent(l, "recovery", "run_redispatch_queued", x.sequence + 1) IN
         /\ SessionFor(l) /\ owner' = l
         /\ \/ /\ Store!Accepts(CommandOf(x.run), e) /\ Write(x.run, e) /\ rec' = Done(x)
               /\ \E g \in Gates' : loop' = [loop EXCEPT ![l] = WithGate(@, g)]
            \/ /\ UNCHANGED store /\ rec' = NoRecovery
               /\ \E g \in Gates :
                    loop' = [loop EXCEPT ![l] = IF @.ready THEN @ ELSE WithGate(@, g)]
  BY <1>1 DEF MissingReview
<1>5. PICK e :
        /\ e = NewEvent(l, "recovery", "run_redispatch_queued", x.sequence + 1)
        /\ SessionFor(l) /\ owner' = l
        /\ \/ /\ Store!Accepts(CommandOf(x.run), e) /\ Write(x.run, e) /\ rec' = Done(x)
              /\ \E g \in Gates' : loop' = [loop EXCEPT ![l] = WithGate(@, g)]
           \/ /\ UNCHANGED store /\ rec' = NoRecovery
              /\ \E g \in Gates :
                   loop' = [loop EXCEPT ![l] = IF @.ready THEN @ ELSE WithGate(@, g)]
  BY <1>4
<1>6. /\ e \in Offer /\ e.sequence = x.sequence + 1 /\ e.kind = "run_redispatch_queued"
      /\ EventStatus(e.kind) = "queued"
  <2>1. "recovery" \in Authors /\ "run_redispatch_queued" \in Offered /\ x.sequence + 1 \in Int
    BY <1>3 DEF Authors, Offered
  <2>2. PICK n, k : n = x.sequence + 1 /\ k = "run_redispatch_queued"
    OBVIOUS
  <2>3. e \in Offer /\ e.sequence = n /\ e.kind = k
    BY <1>5, <2>1, <2>2, EventFacts
  <2>4. EventStatus(k) = "queued"
    BY <2>2 DEF EventStatus
  <2> QED BY <2>2, <2>3, <2>4
<1>7. Leaves(e)
  BY <1>2, <1>3, <1>6, BoundsAssumption DEF Leaves, EventsPerDispatch
<1>8. loop[l] \in LoopRec /\ (owner = l => loop[l].mode = "open")
      /\ (owner # l => loop[l] = NewLoop /\ ~loop[l].ready)
  <2>1. loop[l] \in LoopRec /\ Served(l) /\ InMode(loop[l])
    BY TypedFacts DEF SessionInv, LoopInv
  <2> QED BY <1>5, <2>1, NewLoopFacts DEF SessionFor, Served, InMode
<1>9. /\ caller' \in [Callers -> CallerRec] /\ (\A q \in Callers : caller'[q] = caller[q]) /\ BetweenTurns'
  BY <1>2, <1>3 DEF BetweenTurns
<1>10. FlowOK(Done(x)) /\ FlowOK(NoRecovery)
  BY <1>3, FlowFacts
<1>11. CASE /\ Store!Accepts(CommandOf(x.run), e) /\ Write(x.run, e) /\ rec' = Done(x)
            /\ \E g \in Gates' : loop' = [loop EXCEPT ![l] = WithGate(@, g)]
  <2>1. StoreMoves /\ Latest(x.run, e) /\ e \in Store!Event
    BY <1>3, <1>6, <1>7, <1>11, Wrote
  <2>2. decision' = decision
    BY <2>1 DEF Latest
  <2>3. \A m \in Loops : Spared(m)
    BY <1>3, <1>6, <2>1, SparedBy DEF Spares
  <2>4. PICK g \in [blocked : BOOLEAN, first : Runs \cup {Nobody}] :
          loop' = [loop EXCEPT ![l] = WithGate(@, g)]
    BY <1>11, GateFacts
  <2>5. PICK p : p = WithGate(loop[l], g)
    OBVIOUS
  <2>6. loop' = [loop EXCEPT ![l] = p]
    BY <2>4, <2>5
  <2>7. /\ p \in LoopRec /\ p.mode = "open" /\ p.queue = loop[l].queue /\ p.future = loop[l].future
        /\ p.actor = loop[l].actor /\ p.worker = loop[l].worker /\ p.lock = loop[l].lock
    BY <1>8, <2>5, WithGateFacts
  <2>8. rec' \in RecRec /\ (rec'.at = "asked" => rec'.snapshot \in Snap)
    BY <1>10, <1>11 DEF FlowOK
  <2>9. SessionFor(l) /\ owner' = l
    BY <1>5
  <2> QED BY <1>2, <1>9, <2>1, <2>2, <2>3, <2>6, <2>7, <2>8, <2>9, OpenMove
<1>12. CASE /\ UNCHANGED store /\ rec' = NoRecovery
            /\ \E g \in Gates :
                 loop' = [loop EXCEPT ![l] = IF @.ready THEN @ ELSE WithGate(@, g)]
  <2>1. StoreMoves /\ SameLogs /\ decision' = decision
    BY <1>3, <1>12, Leave
  <2>2. \A m \in Loops : Spared(m)
    BY <2>1 DEF Spared, SameLogs
  <2>3. PICK g \in [blocked : BOOLEAN, first : Runs \cup {Nobody}] :
          loop' = [loop EXCEPT ![l] = IF @.ready THEN @ ELSE WithGate(@, g)]
    BY <1>12, GateFacts
  <2>4. PICK p : p = IF loop[l].ready THEN loop[l] ELSE WithGate(loop[l], g)
    OBVIOUS
  <2>5. loop' = [loop EXCEPT ![l] = p]
    BY <2>3, <2>4
  <2>6. /\ p \in LoopRec /\ p.mode = "open" /\ p.queue = loop[l].queue /\ p.future = loop[l].future
        /\ p.actor = loop[l].actor /\ p.worker = loop[l].worker /\ p.lock = loop[l].lock
    <3>1. CASE loop[l].ready
      BY <1>8, <2>4, <3>1
    <3>2. CASE ~loop[l].ready
      BY <1>8, <2>4, <3>2, WithGateFacts
    <3> QED BY <3>1, <3>2
  <2>7. rec' \in RecRec /\ (rec'.at = "asked" => rec'.snapshot \in Snap)
    BY <1>10, <1>12 DEF FlowOK
  <2>8. SessionFor(l) /\ owner' = l
    BY <1>5
  <2> QED BY <1>2, <1>9, <2>1, <2>2, <2>5, <2>6, <2>7, <2>8, OpenMove
<1> QED BY <1>5, <1>11, <1>12

\* The steps of the flow.
LEMMA RecoveryKeeps ==
  ASSUME SessionInv, RecoveryStep \/ RecoveryFails
  PROVE StoreMoves /\ SessionInv'
BY FlowKeeps, EndsKeep, MissingReviewKeeps DEF RecoveryStep, RecoveryFails

-----------------------------------------------------------------------------
(* Abandoned writes, the service and the death of the process. *)

\* A step that touches neither a loop nor a submission.
LEMMA QuietMove ==
  ASSUME SessionInv, StoreMoves, decision' = decision, UNCHANGED <<loop, owner, caller, rec>>,
         ghosts' \subseteq ghosts, server' \in [Runs -> Turns], wire' \subseteq Runs,
         \A l \in Loops : Spared(l),
         \A r \in Runs : r \in wire' \/ server'[r] # "absent" => r \in wire \/ server[r] # "absent"
  PROVE SessionInv'
<1>1. \A l \in Loops : MovesWell(l)
  BY StillMoves
<1>2. Typed'
  BY DEF SessionInv, Typed
<1>3. ASSUME NEW l \in Loops PROVE Served(l)'
  BY DEF SessionInv, LoopInv, Served, Kept
<1>4. LoopInv'
  BY <1>1, <1>3 DEF LoopInv, MovesWell
<1>5. \A g \in ghosts' : Abandoned(g)'
  BY <1>1, GhostsStay DEF MovesWell
<1>6. \A k \in Callers : Submits(k)'
  BY DEF SessionInv, Submits
<1>7. rec'.at # "idle" => BetweenTurns'
  BY DEF SessionInv, BetweenTurns
<1>8. \A r \in Runs : Sent(r)'
  BY SentStays
<1> QED BY <1>2, <1>4, <1>5, <1>6, <1>7, <1>8 DEF SessionInv, StoreMoves

\* An abandoned write commits, or is refused.
LEMMA GhostWriteKeeps ==
  ASSUME SessionInv, NEW g \in ghosts, GhostWrite(g), rec' = rec
  PROVE StoreMoves /\ SessionInv'
<1>1. /\ ghosts' \subseteq ghosts /\ UNCHANGED <<loop, owner, caller, rec>>
      /\ server' = server /\ wire' = wire
  BY DEF GhostWrite, external
<1>2. PICK r, e : r = g.run /\ e = g.event
  OBVIOUS
<1>3. r \in Runs /\ e \in Store!Event /\ Abandoned(g) /\ StoreInv /\ LogInv
      /\ server \in [Runs -> Turns] /\ wire \subseteq Runs
  BY <1>2 DEF SessionInv, Typed, GhostRec
<1>4. SUFFICES StoreMoves /\ decision' = decision /\ \A l \in Loops : Spared(l)
  BY <1>1, <1>3, QuietMove
<1>5. CASE UNCHANGED store
  <2>1. StoreMoves /\ SameLogs /\ decision' = decision
    BY <1>3, <1>5, Leave
  <2> QED BY <2>1 DEF Spared, SameLogs
<1>6. CASE Store!Accepts(CommandOf(r), e) /\ Write(r, e)
  <2>1. \/ e.kind = "run_queued" /\ e.sequence = 1
        \/ \E m \in Loops :
             /\ ~Holds(loop[m], r) /\ e.kind \in Offered /\ EventStatus(e.kind) # "queued"
             /\ e.kind # "run_started" =>
                  /\ e.sequence - 1 \in 1..Len(events[r])
                  /\ events[r][e.sequence - 1].writer = <<m, "worker">>
    BY <1>2, <1>3 DEF Abandoned
  <2>2. e.kind \in Offered
    BY <2>1 DEF Offered
  <2>3. e \in Offer
    BY <1>3, <2>2 DEF Store!Event, Offer
  <2>4. Leaves(e)
    BY <2>1, BoundsAssumption DEF Leaves, EventsPerDispatch
  <2>5. StoreMoves /\ Latest(r, e)
    BY <1>3, <1>6, <2>3, <2>4, Wrote
  <2>6. decision' = decision
    BY <2>5 DEF Latest
  <2>7. ASSUME NEW l \in Loops PROVE Spared(l)
    <3>1. CASE EventStatus(e.kind) \in {"queued", "running"}
      BY <1>3, <2>5, <3>1, SparedBy DEF Spares
    <3>2. CASE EventStatus(e.kind) \notin {"queued", "running"}
      <4>1. e.kind \notin {"run_queued", "run_started"}
        BY <2>2, <3>2, OfferedFacts
      <4>2. PICK m \in Loops :
              /\ ~Holds(loop[m], r) /\ e.sequence - 1 \in 1..Len(events[r])
              /\ events[r][e.sequence - 1].writer = <<m, "worker">>
        BY <2>1, <4>1
      <4>3. CASE m = l
        <5>1. loop[l].worker.run # r
          BY <4>2, <4>3 DEF Holds
        <5>2. loop[l].worker.at \in Executing => loop[l].worker.run \in Runs
          BY ExecutingFacts
        <5> QED BY <2>5, <5>1, <5>2 DEF Spared, Latest
      <4>4. CASE m # l
        <5>1. <<m, "worker">> # <<l, "worker">>
          BY <4>4
        <5>2. Spares(l, r, e)
          BY <4>2, <5>1 DEF Spares
        <5> QED BY <1>3, <2>5, <5>2, SparedBy
      <4> QED BY <4>3, <4>4
    <3> QED BY <3>1, <3>2
  <2> QED BY <2>5, <2>6, <2>7
<1> QED BY <1>2, <1>5, <1>6 DEF GhostWrite

\* The service learns of a turn, never does, or ends it.
LEMMA ServiceKeeps ==
  ASSUME SessionInv, NEW r \in Runs, ServerStep(r) \/ SubmissionLost(r), rec' = rec
  PROVE StoreMoves /\ SessionInv'
<1>1. /\ ghosts' = ghosts /\ UNCHANGED <<loop, owner, caller, rec>> /\ UNCHANGED store
  BY DEF ServerStep, ServerReceive, ServerFinish, SubmissionLost
<1>2. server \in [Runs -> Turns] /\ wire \subseteq Runs
  BY DEF SessionInv, Typed
<1>3. /\ server' \in [Runs -> Turns] /\ wire' \subseteq Runs
      /\ \A q \in Runs : q \in wire' \/ server'[q] # "absent" => q \in wire \/ server[q] # "absent"
  <2>1. CASE ServerReceive(r)
    BY <1>2, <2>1 DEF ServerReceive, Turns
  <2>2. CASE ServerFinish(r)
    BY <1>2, <2>2 DEF ServerFinish, Turns
  <2>3. CASE SubmissionLost(r)
    BY <1>2, <2>3 DEF SubmissionLost
  <2> QED BY <2>1, <2>2, <2>3 DEF ServerStep
<1>4. StoreMoves /\ SameLogs /\ decision' = decision
  BY <1>1, Leave DEF SessionInv
<1>5. \A l \in Loops : Spared(l)
  BY <1>4 DEF Spared, SameLogs
<1> QED BY <1>1, <1>3, <1>4, <1>5, QuietMove

\* The object of a loop of an earlier process.
LEMMA DeadFacts ==
  ASSUME NEW p, p = [NewLoop EXCEPT !.mode = "dead"]
  PROVE /\ p \in LoopRec /\ OneTask(p) /\ InMode(p) /\ p.mode = "dead" /\ p.worker = NoWorker
        /\ \A r \in Runs : p.actor[r] = [status |-> "created", sequence |-> 0] /\ ~Holds(p, r)
<1>1. PICK o \in LoopRec : o = NewLoop
  BY NewLoopFacts
<1>2. p = [o EXCEPT !.mode = "dead"]
  BY <1>1
<1>3. /\ p \in LoopRec /\ p.mode = "dead" /\ p.queue = o.queue /\ p.future = o.future
      /\ p.actor = o.actor /\ p.worker = o.worker
  <2>1. "dead" \in Modes
    BY DEF Modes
  <2> QED BY <1>1, <1>2, <2>1, Zenon DEF LoopRec
<1>4. /\ o.queue = << >> /\ o.worker = NoWorker
      /\ \A r \in Runs : o.actor[r] = [status |-> "created", sequence |-> 0]
  BY <1>1, NewLoopFacts
<1>5. Queued(p) = {} /\ Len(p.queue) = 0
  BY <1>3, <1>4 DEF Queued
<1>6. \A r \in Runs : ~Holds(p, r)
  BY <1>3, <1>4, <1>5, WorkerFacts DEF Holds
<1>7. p.worker.at = "none" /\ p.worker.run = Nobody /\ Nobody \notin Runs /\ "none" \notin Working
  BY <1>3, <1>4, WorkerFacts
<1>8. OneTask(p)
  BY <1>5, <1>6, <1>7 DEF OneTask
<1>9. InMode(p)
  BY <1>3 DEF InMode
<1> QED BY <1>3, <1>4, <1>6, <1>8, <1>9

\* The process dies and leaves the store and the service.
LEMMA CrashKeeps ==
  ASSUME SessionInv, Crash, rec' = NoRecovery
  PROVE StoreMoves /\ SessionInv'
<1>1. /\ owner' = 0 /\ caller' = [k \in Callers |-> Idle] /\ ghosts' = {} /\ UNCHANGED store
      /\ server' = server /\ wire' = wire
  BY DEF Crash, external
<1>2. StoreMoves /\ SameLogs /\ decision' = decision /\ remote' = remote
  BY <1>1, Leave DEF SessionInv
<1>3. PICK d : d = [NewLoop EXCEPT !.mode = "dead"]
  OBVIOUS
<1>4. /\ d \in LoopRec /\ OneTask(d) /\ InMode(d) /\ d.mode = "dead" /\ d.worker = NoWorker
      /\ \A r \in Runs : d.actor[r] = [status |-> "created", sequence |-> 0] /\ ~Holds(d, r)
  BY <1>3, DeadFacts
<1>5. loop' = [l \in Loops |-> IF loop[l].mode = "unborn" THEN loop[l] ELSE d]
  BY <1>3 DEF Crash
<1>6. ASSUME NEW l \in Loops
      PROVE /\ loop'[l] \in LoopRec /\ OneTask(loop'[l]) /\ InMode(loop'[l]) /\ loop'[l].worker = NoWorker
            /\ loop'[l].mode \in {"unborn", "dead"}
            /\ \A r \in Runs : loop'[l].actor[r] = [status |-> "created", sequence |-> 0]
  <2>1. loop[l] \in LoopRec /\ OneTask(loop[l]) /\ InMode(loop[l])
    BY TypedFacts DEF SessionInv, LoopInv
  <2>2. CASE loop[l].mode = "unborn"
    <3>1. loop'[l] = loop[l] /\ loop[l] = NewLoop
      BY <1>5, <2>1, <2>2 DEF InMode
    <3> QED BY <2>1, <2>2, <3>1, NewLoopFacts
  <2>3. CASE loop[l].mode # "unborn"
    <3>1. loop'[l] = d
      BY <1>5, <2>3
    <3> QED BY <1>4, <3>1
  <2> QED BY <2>2, <2>3
<1>7. loop' \in [Loops -> LoopRec]
  BY <1>5, <1>6
<1>8. \A k \in Callers : caller'[k] = Idle /\ caller'[k].at = "idle"
  BY <1>1, IdleFacts
<1>9. caller' \in [Callers -> CallerRec]
  BY <1>1, IdleFacts
<1>10. Typed'
  <2>1. NoRecovery \in RecRec /\ NoRecovery.at = "idle"
    BY FlowFacts DEF SessionInv
  <2> QED BY <1>1, <1>7, <1>8, <1>9, <2>1 DEF Typed, SessionInv
<1>11. ASSUME NEW l \in Loops
       PROVE Executes(l)' /\ Served(l)' /\ \A r \in Runs : Remembers(l, r)'
  <2>1. NoWorker.at \notin Executing /\ NoWorker.at \notin {"frozen", "posted"}
    BY WorkerFacts DEF Executing
  <2>2. Executes(l)'
    BY <1>6, <2>1 DEF Executes
  <2>3. Served(l)'
    <3>1. loop'[l].mode \notin {"open", "cancelling"} /\ owner' # l
      BY <1>1, <1>6 DEF Loops
    <3> QED BY <3>1 DEF Served, Kept
  <2> QED BY <1>6, <2>2, <2>3 DEF Remembers
<1>12. LoopInv'
  BY <1>6, <1>11 DEF LoopInv
<1>13. \A k \in Callers : Submits(k)'
  BY <1>8 DEF Submits
<1>14. BetweenTurns'
  BY <1>8 DEF BetweenTurns
<1>15. \A r \in Runs : Sent(r)'
  BY <1>1, <1>2, SentStays
<1>16. \A g \in ghosts' : Abandoned(g)'
  BY <1>1
<1> QED BY <1>2, <1>10, <1>12, <1>13, <1>14, <1>15, <1>16 DEF SessionInv, StoreMoves

-----------------------------------------------------------------------------
(* The gate: nothing is dispatched beside an uncertain Run. *)

\* Nothing of the session is retired, and a row is that of its command.
Rows ==
  /\ retired = [coords |-> {}, sessions |-> {}, runs |-> {}]
  /\ \A r \in Runs : command[r] \in {NoCommand, CommandOf(r)}

\* What a loop object that is kept says about its gate: the worker starts
\* nothing that the gate would have stopped, and close() leaves no worker
\* that goes on.
GateOK(o) ==
  /\ ~o.ready => o.worker.at = "none"
  /\ o.mode = "open" => /\ o.worker.at # "abort"
                        /\ o.worker.at = "start" => Admits(o)
  /\ o.mode = "cancelling" => /\ o.ready /\ o.worker.at \in {"idle", "abort", "ended"}
                              /\ o.worker.at = "idle" => o.gateFailed

GateInv == Rows /\ \A l \in Loops : GateOK(loop[l])

\* The Runs that become uncertain in a step do so by a late or an unkept start.
Excused == \A q \in Runs : Uncertain(q)' => Uncertain(q) \/ StartCommitsLate(q) \/ StartsUnkept(q)

\* What a step may do to loop l and its gate.
GateStep(l) ==
  /\ GateOK(loop'[l])
  /\ Kept(l) /\ ~Active(l) /\ Active(l)' => Admits(loop[l])
  /\ \A q \in Hidden(l)' \ Hidden(l) : StartCommitsLate(q) \/ StartsUnkept(q)

\* A step of the store in which no Run becomes uncertain.
Settled == Rows' /\ \A q \in Runs : Uncertain(q)' => Uncertain(q)

\* A gate that lets work through was read while no Run was uncertain.
LEMMA OpenGates ==
  StoreInv /\ Rows => \A g \in Gates : ~g.blocked => \A q \in Runs : ~Uncertain(q)
<1> SUFFICES ASSUME StoreInv, Rows, NEW g \in Gates, ~g.blocked, NEW q \in Runs, Uncertain(q)
             PROVE FALSE
  OBVIOUS
<1>1. status[q] \in {"running", "reconciliation_required"} /\ decision[q] = NoDecision
  BY DEF Uncertain
<1>2. Store!HasRow(q)
  BY <1>1, RowFacts
<1>3. command[q].session_id = Session
  <2>1. command[q] \in Commands
    BY <1>2, RunFacts DEF Rows, Store!HasRow
  <2>2. \E s : s \in Store!Sessions
    BY <2>1 DEF Store!Sessions
  <2>3. Session \in Store!Sessions
    BY <2>2 DEF Session
  <2> QED BY <2>1, <2>3, SessionAssumption DEF Store!Sessions
<1>4. q \in Store!RecoverSession(Session)
  BY <1>1, <1>2, <1>3 DEF Store!RecoverSession, Runs, Store!Recoverable
<1>5. RecoveryAction(status[q]) # "redispatch"
  BY <1>1 DEF RecoveryAction
<1>6. Store!RecoverSession(Session)
        # {r \in Store!RecoverSession(Session) : RecoveryAction(status[r]) = "redispatch"}
  BY <1>4, <1>5
<1>7. g = [blocked |-> TRUE, first |-> Nobody]
  BY <1>6 DEF Gates
<1> QED BY <1>7

\* Also of the next state.
LEMMA NextOpenGates ==
  (StoreInv /\ Rows => \A g \in Gates : ~g.blocked => \A q \in Runs : ~Uncertain(q))'
BY OpenGates, PTL

\* A step that leaves the store alone.
LEMMA LeaveSettles ==
  ASSUME Rows, UNCHANGED store
  PROVE Settled
BY DEF Settled, Rows, store, Uncertain

\* A frozen request makes no Run uncertain.
LEMMA SaveSettles ==
  ASSUME Rows, NEW r \in Runs, Store!SaveRemoteRequest(CommandOf(r), CommandOf(r).turn_id, "frozen")
  PROVE Settled
<1>1. command' = command /\ retired' = retired /\ status' = status /\ decision' = decision
  BY DEF Store!SaveRemoteRequest
<1> QED BY <1>1 DEF Settled, Rows, Uncertain

\* Nor does a recovery decision.
LEMMA DecisionSettles ==
  ASSUME StoreInv, Rows, NEW r \in Runs, NEW q, NEW s, NEW n, Decide(r, q, s, n)
  PROVE Settled
<1>1. CASE UNCHANGED store
  BY <1>1, LeaveSettles
<1>2. ASSUME NEW d, Store!ResolveRecovery(r, d) PROVE Settled
  <2>1. decision \in [Runs -> Store!Decision \cup {NoDecision}]
    BY DEF StoreInv, Store!TypeOK, Runs
  <2>2. /\ command' = command /\ retired' = retired /\ status' = status /\ decision[r] = NoDecision
        /\ \A p \in Runs \ {r} : decision'[p] = decision[p]
    BY <1>2, <2>1 DEF Store!ResolveRecovery, Store!Undecided
  <2>3. \A p \in Runs : decision'[p] = NoDecision => decision[p] = NoDecision
    BY <2>2
  <2> QED BY <2>2, <2>3 DEF Settled, Rows, Uncertain
<1> QED BY <1>1, <1>2 DEF Decide

\* Only a start makes a Run uncertain.
LEMMA WriteSettles ==
  ASSUME StoreInv, LogInv, Rows, NEW r \in Runs, NEW e \in Store!Event, e.kind \in Offered, Write(r, e)
  PROVE /\ Rows'
        /\ \A q \in Runs : Uncertain(q)' => Uncertain(q) \/ (q = r /\ e.kind = "run_started")
        /\ e.kind # "run_started" => Settled
<1>1. Latest(r, e)
  BY Appends
<1>2. Rows'
  <2>1. /\ retired' = retired
        /\ \/ command' = command
           \/ command' = [command EXCEPT ![r] = CommandOf(r)]
    BY RunFacts DEF Write, Store!AppendEvent, Store!InsertInitialRun, Store!AdvanceRun, Store!RepeatLatest, Store!rows
  <2>2. command \in [Runs -> Commands \cup {NoCommand}]
    BY DEF StoreInv, Store!TypeOK, Runs
  <2> QED BY <2>1, <2>2 DEF Rows
<1>3. ASSUME NEW q \in Runs, Uncertain(q)', ~Uncertain(q)
      PROVE q = r /\ e.kind = "run_started"
  <2>1. /\ status'[q] \in {"running", "reconciliation_required"} /\ decision'[q] = NoDecision
        /\ decision[q] = NoDecision /\ status[q] \notin {"running", "reconciliation_required"}
        /\ status'[q] # status[q]
    BY <1>1, <1>3 DEF Uncertain, Latest
  <2>2. q = r
    BY <1>1, <2>1 DEF Latest
  <2>3. /\ EventStatus(e.kind) \in Transitions(status[r])
        /\ EventStatus(e.kind) \in {"running", "reconciliation_required"}
    BY <1>1, <2>1, <2>2 DEF Latest
  <2>4. status[r] \in {"created", "queued", "completed", "failed", "cancelled"}
    <3>1. CASE Store!HasRow(r)
      <4>1. /\ sequence[r] \in 1..Len(events[r])
            /\ status[r] = EventStatus(events[r][sequence[r]].kind)
        BY <3>1, RowFacts
      <4>2. events[r][sequence[r]].kind \in Offered
        BY <4>1 DEF LogInv, Fits
      <4> QED BY <2>1, <2>2, <4>1, <4>2, OfferedFacts
    <3>2. CASE ~Store!HasRow(r)
      BY <3>2, RowFacts
    <3> QED BY <3>1, <3>2
  <2>5. EventStatus(e.kind) = "running"
    BY <2>3, <2>4, Moves
  <2> QED BY <2>2, <2>5, OfferedFacts
<1> QED BY <1>2, <1>3 DEF Settled

\* What makes a step of one loop a good one: its gate is shut, or read while
\* no Run is uncertain, or still the one that knew of every other Run.
LEMMA GateHolds ==
  ASSUME NEW l \in Loops, loop[l].worker.run \in Runs \cup {Nobody}, GateOK(loop'[l]),
         Kept(l) /\ ~Active(l) /\ Active(l)' => Admits(loop[l]),
         \/ ~Admits(loop'[l])
         \/ \A q \in Runs : ~Uncertain(q)'
         \/ /\ Admits(loop[l]) /\ loop[l].worker.run \in {Nobody, loop'[l].worker.run}
            /\ \A q \in Runs : Uncertain(q)' =>
                 \/ Uncertain(q) \/ q = loop'[l].worker.run
                 \/ StartCommitsLate(q) \/ StartsUnkept(q)
  PROVE GateStep(l)
<1>1. ASSUME NEW q \in Hidden(l)' \ Hidden(l)
      PROVE StartCommitsLate(q) \/ StartsUnkept(q)
  <2>1. q \in Runs /\ q # loop'[l].worker.run /\ Admits(loop'[l]) /\ Uncertain(q)'
    BY <1>1 DEF Hidden, Admits
  <2>2. q # Nobody
    BY <2>1, WorkerFacts
  <2>3. ~(q # loop[l].worker.run /\ Admits(loop[l]) /\ Uncertain(q))
    BY <1>1, <2>1 DEF Hidden
  <2> QED BY <2>1, <2>2, <2>3
<1> QED BY <1>1 DEF GateStep

\* Two objects with the same gate and worker.
SameView(o, p) ==
  p.mode = o.mode /\ p.ready = o.ready /\ p.gate = o.gate /\ p.gateFailed = o.gateFailed
    /\ p.worker = o.worker

\* A loop that keeps its gate and its worker.
LEMMA ViewKeeps ==
  ASSUME SessionInv, GateInv, Excused, NEW l \in Loops, SameView(loop[l], loop'[l])
  PROVE GateStep(l)
<1>1. GateOK(loop[l]) /\ loop[l].worker.run \in Runs \cup {Nobody}
  BY TypedFacts, ObjectFacts DEF GateInv, SessionInv
<1>2. GateOK(loop'[l]) /\ (Admits(loop'[l]) <=> Admits(loop[l]))
  BY <1>1 DEF SameView, GateOK, Admits
<1>3. Active(l)' => Active(l)
  BY DEF SameView, Active
<1>4. loop'[l].worker.run = loop[l].worker.run
  BY DEF SameView
<1> QED BY <1>1, <1>2, <1>3, <1>4, GateHolds DEF Excused

\* A loop whose gate is shut by the step, and whose worker starts nothing.
LEMMA ShutKeeps ==
  ASSUME SessionInv, NEW l \in Loops, GateOK(loop'[l]), ~Admits(loop'[l]), Active(l)' => Active(l)
  PROVE GateStep(l)
<1>1. loop[l].worker.run \in Runs \cup {Nobody}
  BY TypedFacts, ObjectFacts DEF SessionInv
<1> QED BY <1>1, GateHolds

\* No Run becomes uncertain.
LEMMA SettledFacts ==
  ASSUME Settled
  PROVE Excused /\ Rows'
BY DEF Settled, Excused

\* What a step may do to the loops and their gates.
GateMoves == GateInv' /\ \A m \in Loops : GateStep(m)

\* All loops make good steps when one does and the others keep still.
LEMMA GateMove ==
  ASSUME SessionInv, GateInv, Excused, Rows', NEW l \in Loops, NEW p, loop' = [loop EXCEPT ![l] = p],
         loop'[l] = p => GateStep(l)
  PROVE GateMoves
<1>1. loop'[l] = p /\ \A m \in Loops \ {l} : loop'[m] = loop[m]
  BY TypedFacts DEF SessionInv
<1>2. \A m \in Loops \ {l} : GateStep(m)
  BY <1>1, ViewKeeps DEF SameView
<1>3. \A m \in Loops : GateStep(m)
  BY <1>1, <1>2
<1> QED BY <1>3 DEF GateMoves, GateInv, GateStep

\* All loops keep still.
LEMMA GateStill ==
  ASSUME SessionInv, GateInv, Excused, Rows', loop' = loop
  PROVE GateMoves
<1>1. \A m \in Loops : GateStep(m)
  BY ViewKeeps DEF SameView
<1> QED BY <1>1 DEF GateMoves, GateInv, GateStep

\* One loop keeps its gate and its worker, too.
LEMMA GateSeen ==
  ASSUME SessionInv, GateInv, Excused, Rows', NEW l \in Loops, NEW p, loop' = [loop EXCEPT ![l] = p],
         SameView(loop[l], p)
  PROVE GateMoves
BY ViewKeeps, GateMove

\* One loop shuts its gate.
LEMMA GateShut ==
  ASSUME SessionInv, GateInv, Excused, Rows', NEW l \in Loops, NEW p, loop' = [loop EXCEPT ![l] = p],
         GateOK(p), ~Admits(p), p.worker.at \in Executing => loop[l].worker.at \in Executing
  PROVE GateMoves
<1>1. ASSUME loop'[l] = p PROVE GateStep(l)
  <2>1. Active(l)' => Active(l)
    BY <1>1 DEF Active, Executing
  <2> QED BY <1>1, <2>1, ShutKeeps
<1> QED BY <1>1, GateMove

\* One loop reads its gate while no Run is uncertain.
LEMMA GateRead ==
  ASSUME SessionInv, GateInv, Excused, Rows', NEW l \in Loops, NEW p, loop' = [loop EXCEPT ![l] = p],
         GateOK(p), p.worker.at \in Executing => loop[l].worker.at \in Executing,
         p.gate.blocked \/ \A q \in Runs : ~Uncertain(q)'
  PROVE GateMoves
<1>1. ASSUME loop'[l] = p PROVE GateStep(l)
  <2>1. Active(l)' => Active(l)
    BY <1>1 DEF Active, Executing
  <2>2. loop[l].worker.run \in Runs \cup {Nobody}
    BY TypedFacts, ObjectFacts DEF SessionInv
  <2>3. ~Admits(p) \/ \A q \in Runs : ~Uncertain(q)'
    BY DEF Admits
  <2> QED BY <1>1, <2>1, <2>2, <2>3, GateHolds
<1> QED BY <1>1, GateMove

\* One loop goes on under the same gate.
LEMMA GateGoesOn ==
  ASSUME SessionInv, GateInv, Excused, Rows', NEW l \in Loops, NEW p, loop' = [loop EXCEPT ![l] = p],
         GateOK(p), Admits(p) => Admits(loop[l]),
         p.worker.at \in Executing => loop[l].worker.at \in Executing,
         loop[l].worker.run \in {Nobody, p.worker.run}
  PROVE GateMoves
<1>1. ASSUME loop'[l] = p PROVE GateStep(l)
  <2>1. Active(l)' => Active(l)
    BY <1>1 DEF Active, Executing
  <2>2. loop[l].worker.run \in Runs \cup {Nobody}
    BY TypedFacts, ObjectFacts DEF SessionInv
  <2> QED BY <1>1, <2>1, <2>2, GateHolds DEF Excused
<1> QED BY <1>1, GateMove

\* Entering the submit lock touches neither.
LEMMA EnteredView ==
  ASSUME NEW o \in LoopRec, NEW k \in Callers, NEW r, NEW p, p = Entered(o, k, r)
  PROVE SameView(o, p)
<1>1. p = o \/ p = [o EXCEPT !.lock = k]
  BY DEF Entered
<1>2. CASE p = [o EXCEPT !.lock = k]
  BY <1>2, Zenon DEF LoopRec, SameView
<1> QED BY <1>1, <1>2 DEF SameView

\* A worker that is not there has no Run.
LEMMA NoRun ==
  ASSUME NEW o \in LoopRec, OneTask(o), o.worker.at \notin Working
  PROVE o.worker.run = Nobody
BY ObjectFacts DEF OneTask

\* A submission finds a loop or makes one.
LEMMA SubmissionGate ==
  ASSUME SessionInv, GateInv, NEW k \in Callers, NEW r \in Runs, Submission(k, r)
  PROVE GateMoves
<1>0. PICK l \in Loops :
         LET obj == [loop[l] EXCEPT !.mode = "open",
                                    !.worker = IF loop[l].ready THEN Started(@) ELSE @] IN
         /\ SessionFor(l)
         /\ loop' = [loop EXCEPT ![l] = IF loop[l].ready THEN Entered(obj, k, r) ELSE obj]
  BY Zenon DEF Submission, Call
<1>1. UNCHANGED store
  BY DEF Submission, Call
<1>2. Excused /\ Rows'
  BY <1>1, LeaveSettles, SettledFacts DEF GateInv
<1>3. PICK o, p :
        /\ o = [loop[l] EXCEPT !.mode = "open",
                               !.worker = IF loop[l].ready THEN Started(@) ELSE @]
        /\ p = (IF loop[l].ready THEN Entered(o, k, r) ELSE o)
        /\ SessionFor(l) /\ loop' = [loop EXCEPT ![l] = p]
  BY <1>0, Zenon
<1>4. /\ loop[l] \in LoopRec /\ OneTask(loop[l]) /\ InMode(loop[l]) /\ GateOK(loop[l]) /\ Served(l)
  BY TypedFacts DEF SessionInv, LoopInv, GateInv
<1>5. PICK w \in WorkerRec : /\ w = (IF loop[l].ready THEN Started(loop[l].worker) ELSE loop[l].worker)
                             /\ w = loop[l].worker \/ (loop[l].ready /\ loop[l].worker.at = "none" /\ w = IdleWorker)
  BY <1>4, ObjectFacts, WorkerFacts DEF Started
<1>6. /\ o \in LoopRec /\ o.mode = "open" /\ o.ready = loop[l].ready /\ o.gate = loop[l].gate
      /\ o.gateFailed = loop[l].gateFailed /\ o.worker = w
  <2>1. o = [loop[l] EXCEPT !.mode = "open", !.worker = w] /\ "open" \in Modes
    BY <1>3, <1>5 DEF Modes
  <2> QED BY <1>4, <2>1, Zenon DEF LoopRec
<1>7. SameView(o, p)
  <2>1. p = o \/ p = Entered(o, k, r)
    BY <1>3
  <2> QED BY <1>6, <2>1, EnteredView DEF SameView
<1>8. loop[l].mode = "open" \/ (~loop[l].ready /\ loop[l].worker.at = "none")
  <2>1. loop[l].mode = "open" \/ loop[l].mode = "unborn"
    BY <1>3, <1>4 DEF SessionFor, Served
  <2> QED BY <1>4, <2>1, NewLoopFacts, WorkerFacts DEF InMode
<1>9. /\ p.mode = "open" /\ p.ready = loop[l].ready /\ p.gate = loop[l].gate
      /\ p.gateFailed = loop[l].gateFailed /\ p.worker = w
  BY <1>6, <1>7 DEF SameView
<1>10. w.at \in Executing => loop[l].worker.at \in Executing
  BY <1>5, WorkerFacts DEF Executing
<1>11. GateOK(p) /\ (Admits(p) => Admits(loop[l]))
  BY <1>4, <1>5, <1>8, <1>9, WorkerFacts DEF GateOK, Admits
<1>12. loop[l].worker.run \in {Nobody, w.run}
  <2>1. loop[l].worker.at = "none" => loop[l].worker.run = Nobody
    BY <1>4, NoRun, WorkerFacts
  <2> QED BY <1>5, <2>1
<1> QED BY <1>2, <1>3, <1>9, <1>10, <1>11, <1>12, GateGoesOn

\* The gate is read for the first time, or it was before.
LEMMA InitializeGate ==
  ASSUME SessionInv, GateInv, NEW k \in Callers, Initialize(k)
  PROVE GateMoves
<1>1. PICK l, r : l = caller[k].loop /\ r = caller[k].run
  OBVIOUS
<1>2. UNCHANGED store /\ caller[k].at = "init"
  BY DEF Initialize
<1>3. /\ l \in Loops /\ r \in Runs /\ loop[l] \in LoopRec /\ OneTask(loop[l]) /\ GateOK(loop[l])
  BY <1>1, <1>2, AtWork DEF GateInv
<1>4. Excused /\ Rows'
  BY <1>2, LeaveSettles, SettledFacts DEF GateInv
<1>5. PICK g \in IF loop[l].ready THEN {loop[l].gate} ELSE Gates :
         LET obj == [loop[l] EXCEPT !.ready = TRUE, !.worker = Started(@), !.gate = g,
                                    !.gateFailed = loop[l].ready /\ @] IN
         loop' = [loop EXCEPT ![l] = Entered(obj, k, r)]
  BY <1>1, Zenon DEF Initialize
<1>6. PICK o, p :
        /\ o = [loop[l] EXCEPT !.ready = TRUE, !.worker = Started(@), !.gate = g,
                               !.gateFailed = loop[l].ready /\ @]
        /\ p = Entered(o, k, r) /\ loop' = [loop EXCEPT ![l] = p]
  BY <1>5, Zenon
<1>7. g \in [blocked : BOOLEAN, first : Runs \cup {Nobody}]
  BY <1>3, <1>5, GateFacts, ObjectFacts
<1>8. PICK v \in WorkerRec : /\ v = Started(loop[l].worker)
                             /\ v = loop[l].worker \/ (loop[l].worker.at = "none" /\ v = IdleWorker)
  BY <1>3, ObjectFacts, WorkerFacts DEF Started
<1>9. PICK b \in BOOLEAN : /\ b = (loop[l].ready /\ loop[l].gateFailed)
                           /\ loop[l].ready => b = loop[l].gateFailed
  BY <1>3, ObjectFacts
<1>10. /\ p.mode = loop[l].mode /\ p.ready = TRUE /\ p.gate = g /\ p.gateFailed = b /\ p.worker = v
  <2>1. o = [loop[l] EXCEPT !.ready = TRUE, !.worker = v, !.gate = g, !.gateFailed = b]
    BY <1>6, <1>8, <1>9, Zenon
  <2>2. /\ o \in LoopRec /\ o.mode = loop[l].mode /\ o.ready = TRUE /\ o.gate = g
        /\ o.gateFailed = b /\ o.worker = v
    BY <1>3, <1>7, <1>8, <1>9, <2>1, Zenon DEF LoopRec
  <2>3. p = Entered(o, k, r)
    BY <1>6
  <2>4. SameView(o, p)
    BY <2>2, <2>3, EnteredView
  <2> QED BY <2>2, <2>4 DEF SameView
<1>11. /\ p.worker.at \in Executing => loop[l].worker.at \in Executing
       /\ p.worker = loop[l].worker \/ (loop[l].worker.at = "none" /\ p.worker.at = "idle")
  <2>1. p.worker = loop[l].worker \/ (loop[l].worker.at = "none" /\ p.worker.at = "idle")
    BY <1>8, <1>10, WorkerFacts
  <2> QED BY <2>1 DEF Executing
<1>12. loop[l].worker.at = "none" => loop[l].worker.run = Nobody
  BY <1>3, NoRun, WorkerFacts
<1>13. CASE loop[l].ready
  <2>1. g = loop[l].gate /\ b = loop[l].gateFailed
    BY <1>5, <1>9, <1>13
  <2>2. GateOK(p) /\ (Admits(p) => Admits(loop[l]))
    BY <1>3, <1>10, <1>11, <1>13, <2>1 DEF GateOK, Admits
  <2>3. loop[l].worker.run \in {Nobody, p.worker.run}
    BY <1>8, <1>10, <1>12
  <2> QED BY <1>3, <1>4, <1>6, <1>11, <2>2, <2>3, GateGoesOn
<1>14. CASE ~loop[l].ready
  <2>1. loop[l].worker.at = "none" /\ loop[l].mode # "cancelling" /\ p.worker.at \in {"idle", "none"}
    BY <1>3, <1>11, <1>14 DEF GateOK
  <2>2. GateOK(p)
    BY <1>10, <2>1 DEF GateOK
  <2>3. g \in Gates
    BY <1>5, <1>14
  <2>4. p.gate.blocked \/ \A q \in Runs : ~Uncertain(q)'
    <3>1. ~g.blocked => \A q \in Runs : ~Uncertain(q)
      BY <2>3, OpenGates DEF SessionInv, GateInv
    <3> QED BY <1>2, <1>10, <3>1 DEF store, Uncertain
  <2> QED BY <1>3, <1>4, <1>6, <1>11, <2>2, <2>4, GateRead
<1> QED BY <1>13, <1>14

\* The recoveries could not be read: the gate is shut.
LEMMA InitializeFailsGate ==
  ASSUME SessionInv, GateInv, NEW k \in Callers, InitializeFails(k)
  PROVE GateMoves
<1>1. PICK l : l = caller[k].loop
  OBVIOUS
<1>2. UNCHANGED store /\ caller[k].at = "init" /\ ~loop[l].ready
  BY <1>1 DEF InitializeFails
<1>3. l \in Loops /\ loop[l] \in LoopRec /\ GateOK(loop[l])
  BY <1>1, <1>2, AtWork DEF GateInv
<1>4. Excused /\ Rows'
  BY <1>2, LeaveSettles, SettledFacts DEF GateInv
<1>5. PICK p : p = [loop[l] EXCEPT !.gateFailed = TRUE]
  OBVIOUS
<1>6. loop' = [loop EXCEPT ![l] = p]
  BY <1>1, <1>5, Zenon DEF InitializeFails
<1>7. /\ p.mode = loop[l].mode /\ p.ready = loop[l].ready /\ p.gateFailed = TRUE
      /\ p.worker = loop[l].worker
  BY <1>3, <1>5, Zenon DEF LoopRec
<1>8. GateOK(p) /\ ~Admits(p)
  BY <1>2, <1>3, <1>7 DEF GateOK, Admits
<1> QED BY <1>3, <1>4, <1>6, <1>7, <1>8, GateShut

\* The lock is taken or left: the gate and the worker stay.
LEMMA LockGate ==
  ASSUME SessionInv, GateInv, NEW k \in Callers,
         Acquire(k) \/ Prepare(k) \/ Enqueue(k) \/ CancelCaller(k)
  PROVE GateMoves
<1>1. PICK l, r : l = caller[k].loop /\ r = caller[k].run
  OBVIOUS
<1>2. caller[k].at # "idle"
  BY DEF Acquire, Prepare, Enqueue, CancelCaller
<1>3. l \in Loops /\ r \in Runs /\ loop[l] \in LoopRec
  BY <1>1, <1>2, AtWork
<1>4. StoreInv /\ LogInv /\ Typed /\ Rows
  BY DEF SessionInv, GateInv
<1>5. \A x : x = [loop[l] EXCEPT !.lock = Nobody] => SameView(loop[l], x)
  BY <1>3, Zenon DEF LoopRec, SameView
<1>6. ASSUME NEW a, Register(l, k, r, a)
      PROVE \E p : loop' = [loop EXCEPT ![l] = p] /\ SameView(loop[l], p)
  <2>1. PICK x, y, z :
          loop' = [loop EXCEPT ![l] = [loop[l] EXCEPT !.lock = Nobody, !.future = x, !.queue = y, !.actor = z]]
    <3>1. loop' = [loop EXCEPT ![l] =
            [loop[l] EXCEPT !.lock = Nobody, !.future = [loop[l].future EXCEPT ![r] = "pending"],
                            !.queue = Append(loop[l].queue, r),
                            !.actor = [loop[l].actor EXCEPT ![r] = a]]]
      BY <1>6, Zenon DEF Register
    <3> QED BY <3>1
  <2>2. PICK p : p = [loop[l] EXCEPT !.lock = Nobody, !.future = x, !.queue = y, !.actor = z]
    OBVIOUS
  <2>3. SameView(loop[l], p)
    BY <1>3, <2>2, Zenon DEF LoopRec, SameView
  <2> QED BY <2>1, <2>2, <2>3
<1>7. Settled
  <2>1. CASE UNCHANGED store
    BY <1>4, <2>1, LeaveSettles
  <2>2. CASE Enqueue(k) /\ Store!Accepts(CommandOf(r), EnqueueEvent(k))
    <3>1. PICK e \in Offer : e = EnqueueEvent(k) /\ Leaves(e) /\ e.kind = "run_queued"
      BY <1>2, <1>4, EnqueueEventFacts
    <3>2. Write(r, e) /\ Store!Accepts(CommandOf(r), e)
      BY <1>1, <2>2, <3>1 DEF Enqueue
    <3>3. e \in Store!Event /\ e.kind \in Offered
      BY <1>3, <1>4, <3>1, <3>2, Wrote DEF Offer
    <3> QED BY <1>3, <1>4, <3>1, <3>2, <3>3, WriteSettles
  <2> QED BY <1>1, <2>1, <2>2 DEF Acquire, Prepare, Enqueue, CancelCaller
<1>8. \E p : loop' = [loop EXCEPT ![l] = p] /\ SameView(loop[l], p)
  <2>1. CASE Acquire(k)
    <3>1. loop' = [loop EXCEPT ![l] = Entered(loop[l], k, r)]
      BY <1>1, <2>1, Zenon DEF Acquire
    <3> QED BY <1>3, <3>1, EnteredView
  <2>2. CASE Prepare(k)
    <3>1. CASE Refuse(l, k)
      BY <1>5, <3>1, Zenon DEF Refuse
    <3>2. CASE loop' = loop
      BY <1>3, <3>2, TypedFacts DEF SessionInv, SameView
    <3>3. CASE Register(l, k, r, [status |-> status[r], sequence |-> sequence[r]])
      BY <1>6, <3>3
    <3> QED BY <1>1, <2>2, <3>1, <3>2, <3>3 DEF Prepare
  <2>3. CASE Enqueue(k)
    <3>1. CASE Refuse(l, k)
      BY <1>5, <3>1, Zenon DEF Refuse
    <3>2. CASE Register(l, k, r, [status |-> "queued", sequence |-> 1])
      BY <1>6, <3>2
    <3> QED BY <1>1, <2>3, <3>1, <3>2 DEF Enqueue
  <2>4. CASE CancelCaller(k)
    <3>1. PICK x : x = IF loop[l].lock = k THEN Nobody ELSE loop[l].lock
      OBVIOUS
    <3>2. loop' = [loop EXCEPT ![l] = [loop[l] EXCEPT !.lock = x]]
      BY <1>1, <2>4, <3>1, Zenon DEF CancelCaller
    <3>3. PICK p : p = [loop[l] EXCEPT !.lock = x]
      OBVIOUS
    <3>4. SameView(loop[l], p)
      BY <1>3, <3>3, Zenon DEF LoopRec, SameView
    <3> QED BY <3>2, <3>3, <3>4
  <2> QED BY <2>1, <2>2, <2>3, <2>4
<1> QED BY <1>3, <1>7, <1>8, SettledFacts, GateSeen

\* cancel_session stops the worker of the loop it closes: what it was waiting
\* for is over, and what goes on does so behind a shut gate.
LEMMA CancelGate ==
  ASSUME SessionInv, GateInv, NEW k \in Callers, CancelSession(k)
  PROVE GateMoves
<1>1. UNCHANGED store
  BY DEF CancelSession
<1>2. Excused /\ Rows'
  BY <1>1, LeaveSettles, SettledFacts DEF GateInv
<1>3. CASE owner = 0
  <2>1. loop' = loop
    BY <1>3 DEF CancelSession
  <2> QED BY <1>2, <2>1, GateStill
<1>4. CASE owner # 0
  <2>1. PICK l \in Loops : l = owner
    BY <1>4 DEF SessionInv, Typed
  <2>2. loop[l] \in LoopRec /\ OneTask(loop[l]) /\ GateOK(loop[l]) /\ loop[l].mode = "open"
    BY <2>1, TypedFacts DEF SessionInv, LoopInv, Served, GateInv
  <2>3. PICK m : m = Closing(l, "cancelling", "closed")
    OBVIOUS
  <2>4. PICK p : p = [CancelledWorker(l) EXCEPT !.mode = m]
    OBVIOUS
  <2>5. loop' = [loop EXCEPT ![l] = p]
    BY <1>4, <2>1, <2>3, <2>4, Zenon DEF CancelSession
  <2>6. m \in {"cancelling", "closed"} /\ m \in Modes /\ (m = "closed" <=> loop[l].worker.at = "none")
    BY <2>3 DEF Closing, Modes
  <2>7. PICK w, r : w = loop[l].worker /\ r = loop[l].worker.run
    OBVIOUS
  <2>8. \/ CancelledWorker(l) = loop[l] /\ w.at \in {"none", "ended", "abort"}
        \/ CancelledWorker(l) = [loop[l] EXCEPT !.worker = EndedWorker] /\ w.at = "idle"
        \/ /\ \E f : CancelledWorker(l) = [loop[l] EXCEPT !.worker = EndedWorker, !.future = f]
           /\ w.at \in {"start", "settle"}
        \/ /\ CancelledWorker(l) = [loop[l] EXCEPT !.worker = Worker("abort", r, AbortStatus(r))]
           /\ w.at \in {"exec", "frozen", "posted"}
        \/ /\ \E f : CancelledWorker(l) = [loop[l] EXCEPT !.worker = IdleWorker, !.future = f, !.gateFailed = TRUE]
           /\ w.at = "refresh"
    <3>1. w.at \in {"none", "ended", "abort", "idle", "start", "settle", "exec", "frozen", "posted", "refresh"}
      BY <2>2, <2>7, ObjectFacts DEF Working, Executing
    <3>2. CASE w.at \in {"none", "ended", "abort"}
      BY <2>7, <3>2 DEF CancelledWorker
    <3>3. CASE w.at = "idle"
      BY <2>7, <3>3 DEF CancelledWorker
    <3>4. CASE w.at \in {"start", "settle"}
      <4>1. CancelledWorker(l) = [loop[l] EXCEPT !.worker = EndedWorker,
                                                !.future = [loop[l].future EXCEPT ![r] = "cancelled"]]
        BY <2>7, <3>4, Zenon DEF CancelledWorker
      <4> QED BY <3>4, <4>1
    <3>5. CASE w.at \in {"exec", "frozen", "posted"}
      BY <2>7, <3>5, Zenon DEF CancelledWorker
    <3>6. CASE w.at = "refresh"
      <4>1. CancelledWorker(l) = [loop[l] EXCEPT !.worker = IdleWorker,
                                                !.future = [loop[l].future EXCEPT ![r] = "cancelled"],
                                                !.gateFailed = TRUE]
        BY <2>7, <3>6, Zenon DEF CancelledWorker
      <4> QED BY <3>6, <4>1
    <3> QED BY <3>1, <3>2, <3>3, <3>4, <3>5, <3>6
  <2>9. /\ p.mode = m /\ p.ready = loop[l].ready
        /\ \/ p.worker = w /\ w.at \in {"none", "ended", "abort"}
           \/ p.worker = EndedWorker /\ w.at # "none"
           \/ p.worker = Worker("abort", r, AbortStatus(r)) /\ w.at \in {"exec", "frozen", "posted"}
           \/ p.worker = IdleWorker /\ p.gateFailed = TRUE /\ w.at # "none"
    <3>1. CASE CancelledWorker(l) = loop[l] /\ w.at \in {"none", "ended", "abort"}
      <4>1. p = [loop[l] EXCEPT !.mode = m]
        BY <2>4, <3>1
      <4>2. p.mode = m /\ p.ready = loop[l].ready /\ p.worker = loop[l].worker
        BY <2>2, <4>1, Zenon DEF LoopRec
      <4> QED BY <2>7, <3>1, <4>2
    <3>2. ASSUME NEW v, CancelledWorker(l) = [loop[l] EXCEPT !.worker = v]
          PROVE p.mode = m /\ p.ready = loop[l].ready /\ p.worker = v
      <4>1. p = [loop[l] EXCEPT !.worker = v, !.mode = m]
        BY <2>4, <3>2, Zenon
      <4> QED BY <2>2, <4>1, Zenon DEF LoopRec
    <3>3. ASSUME NEW f, CancelledWorker(l) = [loop[l] EXCEPT !.worker = EndedWorker, !.future = f]
          PROVE p.mode = m /\ p.ready = loop[l].ready /\ p.worker = EndedWorker
      <4>1. p = [loop[l] EXCEPT !.worker = EndedWorker, !.future = f, !.mode = m]
        BY <2>4, <3>3, Zenon
      <4> QED BY <2>2, <4>1, Zenon DEF LoopRec
    <3>4. ASSUME NEW f, CancelledWorker(l) = [loop[l] EXCEPT !.worker = IdleWorker, !.future = f, !.gateFailed = TRUE]
          PROVE p.mode = m /\ p.ready = loop[l].ready /\ p.worker = IdleWorker /\ p.gateFailed = TRUE
      <4>1. p = [loop[l] EXCEPT !.worker = IdleWorker, !.future = f, !.gateFailed = TRUE, !.mode = m]
        BY <2>4, <3>4, Zenon
      <4> QED BY <2>2, <4>1, Zenon DEF LoopRec
    <3> QED BY <2>8, <3>1, <3>2, <3>3, <3>4
  <2>10. Worker("abort", r, AbortStatus(r)).at = "abort" /\ EndedWorker.at = "ended" /\ IdleWorker.at = "idle"
    BY DEF Worker, EndedWorker, IdleWorker
  <2>11. p.worker.at \in {"none", "ended", "abort", "idle"} /\ (p.worker.at = "none" => m = "closed")
    BY <2>6, <2>7, <2>9, <2>10
  <2>12. w.at # "none" => loop[l].ready
    BY <2>2, <2>7 DEF GateOK
  <2>13. GateOK(p) /\ ~Admits(p)
    <3>1. ~p.ready => p.worker.at = "none"
      BY <2>9, <2>12
    <3>2. p.mode = "cancelling" => p.ready /\ p.worker.at \in {"idle", "abort", "ended"}
                                    /\ (p.worker.at = "idle" => p.gateFailed)
      BY <2>6, <2>7, <2>9, <2>10, <2>12
    <3>3. p.mode # "open"
      BY <2>6, <2>9
    <3> QED BY <3>1, <3>2, <3>3 DEF GateOK, Admits
  <2>14. p.worker.at \in Executing => loop[l].worker.at \in Executing
    BY <2>7, <2>9, <2>10 DEF Executing
  <2> QED BY <1>2, <2>1, <2>5, <2>13, <2>14, GateShut
<1> QED BY <1>3, <1>4

\* close_session shuts the gate, and so does the end of a close().
LEMMA CloseGate ==
  ASSUME SessionInv, GateInv, CloseSession \/ \E l \in Loops : FinishClose(l)
  PROVE GateMoves
<1>1. Excused /\ Rows'
  <2>1. UNCHANGED store
    BY DEF CloseSession, FinishClose
  <2> QED BY <2>1, LeaveSettles, SettledFacts DEF GateInv
<1>2. CASE CloseSession
  <2>1. PICK l \in Loops : l = owner
    BY <1>2 DEF CloseSession, SessionInv, Typed
  <2>2. loop[l] \in LoopRec /\ GateOK(loop[l])
    BY TypedFacts DEF SessionInv, GateInv
  <2>3. PICK m, q : /\ m = Closing(l, "draining", "drained")
                    /\ q = (IF loop[l].worker.at = "none" THEN loop[l].queue ELSE Append(loop[l].queue, Stop))
    OBVIOUS
  <2>4. PICK p : p = [loop[l] EXCEPT !.mode = m, !.queue = q]
    OBVIOUS
  <2>5. loop' = [loop EXCEPT ![l] = p]
    BY <1>2, <2>1, <2>3, <2>4, Zenon DEF CloseSession
  <2>6. p.mode = m /\ p.ready = loop[l].ready /\ p.worker = loop[l].worker
    BY <2>2, <2>4, Zenon DEF LoopRec
  <2>7. m \in {"draining", "drained"}
    BY <2>3 DEF Closing
  <2>8. GateOK(p) /\ ~Admits(p)
    BY <2>2, <2>6, <2>7 DEF GateOK, Admits
  <2> QED BY <1>1, <2>5, <2>6, <2>8, GateShut
<1>3. ASSUME NEW l \in Loops, FinishClose(l) PROVE GateMoves
  <2>1. loop[l] \in LoopRec /\ GateOK(loop[l])
    BY TypedFacts DEF SessionInv, GateInv
  <2>2. PICK m, f : /\ m = (IF loop[l].mode = "draining" THEN "drained" ELSE "closed")
                    /\ f = [r \in Runs |-> IF loop[l].future[r] = "pending" THEN "cancelled"
                                           ELSE loop[l].future[r]]
    OBVIOUS
  <2>3. PICK p : p = [loop[l] EXCEPT !.mode = m, !.worker = NoWorker, !.future = f]
    OBVIOUS
  <2>4. loop' = [loop EXCEPT ![l] = p]
    BY <1>3, <2>2, <2>3, Zenon DEF FinishClose
  <2>5. p.mode = m /\ p.ready = loop[l].ready /\ p.worker = NoWorker
    BY <2>1, <2>3, Zenon DEF LoopRec
  <2>6. m \in {"drained", "closed"} /\ NoWorker.at = "none"
    BY <2>2, WorkerFacts
  <2>7. GateOK(p) /\ ~Admits(p) /\ p.worker.at \notin Executing
    BY <2>5, <2>6 DEF GateOK, Admits, Executing
  <2> QED BY <1>1, <2>4, <2>7, GateShut
<1> QED BY <1>2, <1>3

\* A queued Run is cancelled by close(), or close() fails.
LEMMA CancelQueuedGate ==
  ASSUME SessionInv, GateInv, NEW l \in Loops, CancelQueued(l)
  PROVE GateMoves
<1>1. PICK r : r = Head(loop[l].queue)
  OBVIOUS
<1>2. loop[l].mode = "cancelling" /\ loop[l].worker.at = "ended" /\ loop[l].queue # << >>
  BY DEF CancelQueued
<1>3. loop[l] \in LoopRec /\ GateOK(loop[l]) /\ InMode(loop[l]) /\ loop[l].queue \in Seq(Entry)
  BY TypedFacts, ObjectFacts DEF SessionInv, LoopInv, GateInv
<1>4. r \in Runs
  <2>1. r \in Entry /\ r \in Queued(loop[l])
    BY <1>1, <1>2, <1>3 DEF Queued
  <2> QED BY <1>2, <1>3, <2>1 DEF InMode, Entry
<1>5. StoreInv /\ LogInv /\ Typed /\ Rows
  BY DEF SessionInv, GateInv
<1>6. PICK e \in Offer : /\ e = ActorEvent(l, "close", r, "cancelled") /\ Leaves(e) /\ e.kind \in Offered
                         /\ e.kind # "run_started"
  <2>1. "close" \in Authors /\ "cancelled" \in Steps
    BY DEF Authors, Steps
  <2> QED BY <1>4, <1>5, <2>1, ActorEventFacts
<1>7. CASE Store!Accepts(CommandOf(r), e)
  <2>1. /\ Write(r, e)
        /\ loop' = [loop EXCEPT ![l].queue = Tail(@),
                      ![l].actor[r] = [status |-> "cancelled", sequence |-> e.sequence]]
    BY <1>1, <1>6, <1>7 DEF CancelQueued
  <2>2. e \in Store!Event
    BY <1>4, <1>5, <1>6, <1>7, <2>1, Wrote
  <2>3. Excused /\ Rows'
    BY <1>4, <1>5, <1>6, <2>1, <2>2, WriteSettles, SettledFacts
  <2>4. loop' = [loop EXCEPT ![l] = [loop[l] EXCEPT !.queue = Tail(loop[l].queue),
           !.actor = [loop[l].actor EXCEPT ![r] = [status |-> "cancelled", sequence |-> e.sequence]]]]
    BY <2>1, Zenon
  <2>5. PICK q, a : loop' = [loop EXCEPT ![l] = [loop[l] EXCEPT !.queue = q, !.actor = a]]
    BY <2>4
  <2>6. PICK p : p = [loop[l] EXCEPT !.queue = q, !.actor = a]
    OBVIOUS
  <2>7. SameView(loop[l], p)
    BY <1>3, <2>6, Zenon DEF LoopRec, SameView
  <2> QED BY <2>3, <2>5, <2>6, <2>7, GateSeen
<1>8. CASE ~Store!Accepts(CommandOf(r), e)
  <2>1. /\ UNCHANGED store
        /\ loop' = [loop EXCEPT ![l].queue = Tail(@), ![l].mode = "broken"]
    BY <1>1, <1>6, <1>8 DEF CancelQueued
  <2>2. Excused /\ Rows'
    BY <1>5, <2>1, LeaveSettles, SettledFacts
  <2>3. PICK q : loop' = [loop EXCEPT ![l] = [loop[l] EXCEPT !.queue = q, !.mode = "broken"]]
    BY <2>1, Zenon
  <2>4. PICK p : p = [loop[l] EXCEPT !.queue = q, !.mode = "broken"]
    OBVIOUS
  <2>5. p.mode = "broken" /\ p.ready = loop[l].ready /\ p.worker = loop[l].worker
    BY <1>3, <2>4, Zenon DEF LoopRec
  <2>6. GateOK(p) /\ ~Admits(p)
    BY <1>3, <2>5 DEF GateOK, Admits
  <2> QED BY <2>2, <2>3, <2>4, <2>5, <2>6, GateShut
<1> QED BY <1>7, <1>8

\* The worker takes a Run only if the gate lets it through.
LEMMA TakeGate ==
  ASSUME SessionInv, GateInv, NEW l \in Loops, Take(l)
  PROVE GateMoves
<1>1. PICK r, q : r = Head(loop[l].queue) /\ q = Tail(loop[l].queue)
  OBVIOUS
<1>2. loop[l].worker.at = "idle" /\ UNCHANGED store
  BY DEF Take
<1>3. loop[l] \in LoopRec /\ OneTask(loop[l]) /\ GateOK(loop[l])
  BY TypedFacts DEF SessionInv, LoopInv, GateInv
<1>4. Excused /\ Rows'
  BY <1>2, LeaveSettles, SettledFacts DEF GateInv
<1>5. loop[l].worker.run = Nobody /\ loop[l].ready
  BY <1>2, <1>3, NoRun, WorkerFacts DEF GateOK
<1>6. ASSUME NEW v, loop' = [loop EXCEPT ![l].queue = Tail(@), ![l].worker = v],
             \/ v = EndedWorker
             \/ v = Worker("start", r, "none") /\ ~GateError(l, r)
      PROVE GateMoves
  <2>1. PICK p : p = [loop[l] EXCEPT !.queue = q, !.worker = v]
    OBVIOUS
  <2>2. loop' = [loop EXCEPT ![l] = p]
    BY <1>1, <1>6, <2>1, Zenon
  <2>3. /\ p.mode = loop[l].mode /\ p.ready = loop[l].ready /\ p.gate = loop[l].gate
        /\ p.gateFailed = loop[l].gateFailed /\ p.worker = v
    BY <1>3, <2>1, Zenon DEF LoopRec
  <2>4. v.at = "ended" \/ (v.at = "start" /\ ~loop[l].gateFailed /\ ~loop[l].gate.blocked)
    BY <1>6 DEF GateError, EndedWorker, Worker
  <2>5. GateOK(p) /\ (Admits(p) => Admits(loop[l])) /\ p.worker.at \notin Executing
    BY <1>2, <1>3, <1>5, <2>3, <2>4 DEF GateOK, Admits, Executing
  <2> QED BY <1>4, <1>5, <2>2, <2>5, GateGoesOn
<1>7. ASSUME loop' = [loop EXCEPT ![l].queue = Tail(@), ![l].future[r] = "none"]
      PROVE GateMoves
  <2>1. loop' = [loop EXCEPT ![l] = [loop[l] EXCEPT !.queue = q, !.future = [loop[l].future EXCEPT ![r] = "none"]]]
    BY <1>1, <1>7, Zenon
  <2>2. PICK f : loop' = [loop EXCEPT ![l] = [loop[l] EXCEPT !.queue = q, !.future = f]]
    BY <2>1
  <2>3. PICK p : p = [loop[l] EXCEPT !.queue = q, !.future = f]
    OBVIOUS
  <2>4. SameView(loop[l], p)
    BY <1>3, <2>3, Zenon DEF LoopRec, SameView
  <2> QED BY <1>4, <2>2, <2>3, <2>4, GateSeen
<1> QED BY <1>1, <1>6, <1>7 DEF Take

\* The store accepts the last write of a cancelled worker.
LEMMA AbortAccepted ==
  ASSUME SessionInv, Rows, NEW l \in Loops, loop[l].worker.at = "abort", NEW r, r = loop[l].worker.run
  PROVE Store!Accepts(CommandOf(r), ActorEvent(l, "worker", r, loop[l].worker.next))
<1>1. PICK s : s = loop[l].worker.next
  OBVIOUS
<1>2. loop[l].worker.at \in Executing
  BY DEF Executing
<1>3. /\ r \in Runs /\ Store!HasRow(r) /\ status[r] = "running"
      /\ loop[l].actor[r].sequence = sequence[r]
  BY <1>2, ExecutingFacts
<1>4. s \in {"cancelled", "reconciliation_required"}
  BY <1>1 DEF SessionInv, LoopInv, OneTask
<1>5. PICK e \in Offer : /\ e = ActorEvent(l, "worker", r, s) /\ EventStatus(e.kind) = s
                         /\ e.sequence = loop[l].actor[r].sequence + 1
  <2>1. "worker" \in Authors /\ s \in Steps /\ Typed
    BY <1>4 DEF Authors, Steps, SessionInv
  <2> QED BY <1>3, <2>1, ActorEventFacts
<1>6. s \in Transitions("running")
  BY <1>4 DEF Transitions
<1>7. PICK c : c = CommandOf(r) /\ c.run_id = r /\ command[r] = c
  BY <1>3, RunFacts DEF Rows, Store!HasRow
<1>8. Store!CanAdvance(c, e)
  <2>1. Store!SameIdentity(command[r], c) /\ Store!Writable(c) /\ Store!NextInSequence(r, e)
    BY <1>3, <1>5, <1>7 DEF Rows, Store!SameIdentity, Store!Writable, Store!NextInSequence
  <2> QED BY <1>3, <1>5, <1>6, <1>7, <2>1, SameTables DEF Store!CanAdvance
<1>9. c.coord \notin retired.coords
  BY DEF Rows
<1> QED BY <1>1, <1>5, <1>7, <1>8, <1>9 DEF Store!Accepts

\* Only the owner's loop admits anything.
LEMMA OthersShut ==
  ASSUME SessionInv, NEW l \in Loops, loop[l].mode = "open", NEW m \in Loops \ {l}
  PROVE ~Admits(loop[m])
<1>1. Served(l) /\ Served(m)
  BY DEF SessionInv, LoopInv
<1> QED BY <1>1 DEF Served, Admits

\* A worker's write, or its refusal.
LEMMA TransitionGate ==
  ASSUME SessionInv, GateInv, NEW l \in Loops, NEW r, r = loop[l].worker.run, NEW s \in Steps, NEW w,
         Transition(l, s, w),
         \/ loop[l].worker.at = "start" /\ s = "running" /\ w = Worker("exec", r, "none")
         \/ loop[l].worker.at = "settle" /\ s # "running" /\ w = Worker("refresh", r, "none")
         \/ loop[l].worker.at = "abort" /\ s # "running" /\ s = loop[l].worker.next /\ w = EndedWorker
  PROVE GateMoves
<1> DEFINE o == loop[l]
<1>1. /\ o \in LoopRec /\ OneTask(o) /\ GateOK(o) /\ StoreInv /\ LogInv /\ Typed /\ Rows
      /\ o.worker.at \in {"start", "settle", "abort"}
  BY TypedFacts DEF SessionInv, LoopInv, GateInv
<1>2. r \in Runs /\ o.ready /\ (o.mode = "cancelling" => o.worker.at = "abort")
  BY <1>1 DEF OneTask, Working, Executing, GateOK
<1>3. PICK e \in Offer : /\ e = ActorEvent(l, "worker", r, s) /\ Leaves(e) /\ e.kind \in Offered
                         /\ e.kind = "run_started" <=> s = "running"
  <2>1. "worker" \in Authors
    BY DEF Authors
  <2> QED BY <1>1, <1>2, <2>1, ActorEventFacts
<1>4. ASSUME NEW p, NEW v, loop' = [loop EXCEPT ![l] = p],
             p.mode = o.mode, p.ready = o.ready, p.gate = o.gate, p.gateFailed = o.gateFailed, p.worker = v,
             v.at \in {"exec", "refresh", "ended"}, v.at = "ended" => o.mode # "open", o.mode # "cancelling" \/ v.at = "ended"
      PROVE GateOK(p) /\ (Admits(p) => Admits(o)) /\ (Admits(p) => v.at # "ended")
  BY <1>1, <1>2, <1>4 DEF GateOK, Admits
<1>5. Worker("exec", r, "none").at = "exec" /\ Worker("exec", r, "none").run = r
      /\ Worker("refresh", r, "none").at = "refresh" /\ Worker("refresh", r, "none").run = r
      /\ EndedWorker.at = "ended"
  BY DEF Worker, EndedWorker
<1>6. CASE Store!Accepts(CommandOf(r), e)
  <2>1. /\ Write(r, e)
        /\ loop' = [loop EXCEPT ![l].actor[r] = [status |-> s, sequence |-> e.sequence],
                               ![l].worker = w,
                               ![l].future[r] = IF w.at = "ended" THEN "cancelled" ELSE @]
    BY <1>3, <1>6 DEF Transition
  <2>2. e \in Store!Event
    BY <1>1, <1>2, <1>3, <1>6, <2>1, Wrote
  <2>3. /\ Rows'
        /\ \A q \in Runs : Uncertain(q)' => Uncertain(q) \/ (q = r /\ s = "running")
    BY <1>1, <1>2, <1>3, <2>1, <2>2, WriteSettles
  <2>4. loop' = [loop EXCEPT ![l] = [loop[l] EXCEPT
           !.actor = [loop[l].actor EXCEPT ![r] = [status |-> s, sequence |-> e.sequence]],
           !.worker = w,
           !.future = [loop[l].future EXCEPT ![r] = IF w.at = "ended" THEN "cancelled" ELSE @]]]
    BY <2>1, Zenon
  <2>5. PICK a, f : loop' = [loop EXCEPT ![l] = [loop[l] EXCEPT !.actor = a, !.worker = w, !.future = f]]
    BY <2>4
  <2>6. PICK p : p = [loop[l] EXCEPT !.actor = a, !.worker = w, !.future = f]
    OBVIOUS
  <2>7. loop' = [loop EXCEPT ![l] = p]
    BY <2>5, <2>6
  <2>8. /\ p.mode = o.mode /\ p.ready = o.ready /\ p.gate = o.gate /\ p.gateFailed = o.gateFailed
        /\ p.worker = w
    BY <1>1, <2>6, Zenon DEF LoopRec
  <2>9. w.at \in {"exec", "refresh", "ended"} /\ (w.at = "ended" <=> o.worker.at = "abort")
    BY <1>5
  <2>10. GateOK(p) /\ (Admits(p) => Admits(o))  /\ (Admits(p) => w.at # "ended")
    <3>1. /\ w.at = "ended" => o.mode # "open"
          /\ o.mode # "cancelling" \/ w.at = "ended"
      BY <1>1, <1>2, <2>9 DEF GateOK
    <3> QED BY <1>4, <2>7, <2>8, <2>9, <3>1
  <2>11. CASE s # "running"
    <3>1. Excused /\ Rows'
      BY <2>3, <2>11 DEF Excused
    <3>2. p.worker.at \notin Executing
      BY <1>5, <2>8, <2>11 DEF Executing
    <3>3. CASE o.worker.at = "settle"
      BY <1>5, <2>7, <2>8, <2>10, <2>11, <3>1, <3>2, <3>3, GateGoesOn
    <3>4. CASE o.worker.at = "abort"
      BY <2>7, <2>9, <2>10, <3>1, <3>2, <3>4, GateShut
    <3> QED BY <2>11, <3>3, <3>4
  <2>12. CASE s = "running" /\ Kept(l)
    <3>1. o.mode = "open" /\ Admits(o) /\ p.worker.run = r
      BY <1>1, <1>2, <1>5, <2>8, <2>12 DEF Kept, GateOK
    <3>2. loop'[l] = p /\ \A m \in Loops \ {l} : loop'[m] = loop[m]
      BY <2>7, TypedFacts DEF SessionInv
    <3>3. GateStep(l)
      BY <1>2, <2>3, <2>10, <3>1, <3>2, GateHolds
    <3>4. \A m \in Loops \ {l} : GateStep(m)
      <4>1. SUFFICES ASSUME NEW m \in Loops \ {l} PROVE GateStep(m)
        OBVIOUS
      <4>2. ~Admits(loop'[m]) /\ GateOK(loop'[m]) /\ (Active(m)' => Active(m))
        BY <3>1, <3>2, OthersShut DEF GateInv, Active
      <4> QED BY <4>2, ShutKeeps
    <3> QED BY <2>3, <3>3, <3>4 DEF GateMoves, GateInv, GateStep
  <2>13. CASE s = "running" /\ ~Kept(l)
    <3>1. p.worker.at = "exec" /\ p.worker.run = r /\ o.worker.at = "start" /\ ~Admits(p)
      BY <1>5, <2>8, <2>10, <2>13 DEF Kept, Admits
    <3>2. StartsUnkept(r)
      <4>1. loop'[l] = p
        BY <2>7, TypedFacts DEF SessionInv
      <4>2. ~Active(l) /\ Active(l)'
        BY <3>1, <4>1 DEF Active
      <4> QED BY <2>13, <4>2 DEF StartsUnkept
    <3>3. Excused
      BY <2>3, <3>2 DEF Excused
    <3>4. ASSUME loop'[l] = p PROVE GateStep(l)
      BY <1>2, <2>10, <2>13, <3>1, <3>4, GateHolds
    <3> QED BY <2>3, <2>7, <3>3, <3>4, GateMove
  <2> QED BY <2>11, <2>12, <2>13
<1>7. CASE ~Store!Accepts(CommandOf(r), e)
  <2>1. UNCHANGED store /\ loop' = [loop EXCEPT ![l].worker = Worker("refresh", r, "none")]
    BY <1>3, <1>7 DEF Transition
  <2>2. Excused /\ Rows'
    BY <1>1, <2>1, LeaveSettles, SettledFacts
  <2>3. o.worker.at # "abort"
    BY <1>1, <1>3, <1>7, AbortAccepted
  <2>4. PICK v : v = Worker("refresh", r, "none")
    OBVIOUS
  <2>5. PICK p : p = [loop[l] EXCEPT !.worker = v]
    OBVIOUS
  <2>6. loop' = [loop EXCEPT ![l] = p]
    BY <2>1, <2>4, <2>5, Zenon
  <2>7. /\ p.mode = o.mode /\ p.ready = o.ready /\ p.gate = o.gate /\ p.gateFailed = o.gateFailed
        /\ p.worker = v
    BY <1>1, <2>5, Zenon DEF LoopRec
  <2>8. GateOK(p) /\ (Admits(p) => Admits(o))
    BY <1>2, <1>4, <1>5, <2>3, <2>4, <2>6, <2>7
  <2>9. p.worker.at \notin Executing /\ p.worker.run = r
    BY <1>5, <2>4, <2>7 DEF Executing
  <2> QED BY <2>2, <2>6, <2>8, <2>9, GateGoesOn
<1> QED BY <1>6, <1>7

\* The writes of a worker.
LEMMA WritesGate ==
  ASSUME SessionInv, GateInv, NEW l \in Loops, StartRun(l) \/ Settle(l) \/ Abort(l)
  PROVE GateMoves
<1>1. PICK r, s : r = loop[l].worker.run /\ s = loop[l].worker.next
  OBVIOUS
<1>2. OneTask(loop[l])
  BY DEF SessionInv, LoopInv
<1>3. CASE StartRun(l)
  <2>1. "running" \in Steps
    BY DEF Steps
  <2> QED BY <1>1, <1>3, <2>1, TransitionGate DEF StartRun
<1>4. CASE Settle(l)
  <2>1. s \in Steps /\ s # "running"
    BY <1>1, <1>2, <1>4 DEF Settle, OneTask, Steps
  <2> QED BY <1>1, <1>4, <2>1, TransitionGate DEF Settle
<1>5. CASE Abort(l)
  <2>1. s \in Steps /\ s # "running"
    BY <1>1, <1>2, <1>5 DEF Abort, OneTask, Steps
  <2> QED BY <1>1, <1>5, <2>1, TransitionGate DEF Abort
<1> QED BY <1>3, <1>4, <1>5

\* A worker on its way through a Run.
LEMMA ExecutionGate ==
  ASSUME SessionInv, GateInv, NEW l \in Loops, Freeze(l) \/ Submit(l) \/ ExecutorEnds(l)
  PROVE GateMoves
<1> DEFINE o == loop[l]
<1>1. o.worker.at \in {"exec", "frozen", "posted"}
  BY DEF Freeze, Submit, ExecutorEnds, Outcomes
<1>2. /\ o \in LoopRec /\ OneTask(o) /\ GateOK(o) /\ o.worker \in WorkerRec /\ o.worker.at \in Executing
      /\ o.worker.run \in Runs
  BY <1>1, TypedFacts, ObjectFacts, ExecutingFacts DEF SessionInv, LoopInv, GateInv, Executing
<1>3. Excused /\ Rows'
  <2>1. CASE UNCHANGED store
    BY <2>1, LeaveSettles, SettledFacts DEF GateInv
  <2>2. CASE \E r \in Runs : Store!SaveRemoteRequest(CommandOf(r), CommandOf(r).turn_id, "frozen")
    BY <2>2, SaveSettles, SettledFacts DEF GateInv
  <2>3. UNCHANGED store \/ \E r \in Runs : Store!SaveRemoteRequest(CommandOf(r), CommandOf(r).turn_id, "frozen")
    BY <1>2 DEF Freeze, Submit, ExecutorEnds
  <2> QED BY <2>1, <2>2, <2>3
<1>4. PICK v : /\ loop' = [loop EXCEPT ![l].worker = v]
               /\ v.at \in {"frozen", "posted", "settle"} /\ v.run = o.worker.run
  <2>1. CASE Freeze(l)
    <3>1. PICK v : v = [o.worker EXCEPT !.at = "frozen"]
      OBVIOUS
    <3>2. loop' = [loop EXCEPT ![l].worker = v]
      BY <2>1, <3>1, Zenon DEF Freeze
    <3>3. v.at = "frozen" /\ v.run = o.worker.run
      BY <1>2, <3>1 DEF WorkerRec
    <3> QED BY <3>2, <3>3
  <2>2. CASE Submit(l)
    <3>1. PICK v : v = [o.worker EXCEPT !.at = "posted"]
      OBVIOUS
    <3>2. loop' = [loop EXCEPT ![l].worker = v]
      BY <2>2, <3>1, Zenon DEF Submit
    <3>3. v.at = "posted" /\ v.run = o.worker.run
      BY <1>2, <3>1 DEF WorkerRec
    <3> QED BY <3>2, <3>3
  <2>3. CASE ExecutorEnds(l)
    <3>1. PICK s : loop' = [loop EXCEPT ![l].worker.at = "settle", ![l].worker.next = s]
      BY <2>3 DEF ExecutorEnds
    <3>2. PICK v : v = [o.worker EXCEPT !.at = "settle", !.next = s]
      OBVIOUS
    <3>3. loop' = [loop EXCEPT ![l].worker = v]
      BY <3>1, <3>2, Zenon
    <3>4. v.at = "settle" /\ v.run = o.worker.run
      BY <1>2, <3>2 DEF WorkerRec
    <3> QED BY <3>3, <3>4
  <2> QED BY <2>1, <2>2, <2>3
<1>5. PICK p : p = [o EXCEPT !.worker = v]
  OBVIOUS
<1>6. loop' = [loop EXCEPT ![l] = p]
  BY <1>4, <1>5, Zenon
<1>7. /\ p.mode = o.mode /\ p.ready = o.ready /\ p.gate = o.gate /\ p.gateFailed = o.gateFailed
      /\ p.worker = v
  BY <1>2, <1>5, Zenon DEF LoopRec
<1>8. GateOK(p) /\ (Admits(p) => Admits(o))
  BY <1>1, <1>2, <1>4, <1>7 DEF GateOK, Admits
<1> QED BY <1>2, <1>3, <1>4, <1>6, <1>7, <1>8, GateGoesOn

\* After a Run the gate is read, or shut.
LEMMA RefreshGate ==
  ASSUME SessionInv, GateInv, NEW l \in Loops, Refresh(l) \/ RefreshFails(l)
  PROVE GateMoves
<1> DEFINE o == loop[l]
           r == o.worker.run
<1>1. o.worker.at = "refresh" /\ UNCHANGED store
  BY DEF Refresh, RefreshFails
<1>2. o \in LoopRec /\ GateOK(o) /\ o.ready /\ o.mode # "cancelling"
  BY <1>1, TypedFacts DEF SessionInv, GateInv, GateOK
<1>3. Excused /\ Rows'
  BY <1>1, LeaveSettles, SettledFacts DEF GateInv
<1>4. PICK f : f = [o.future EXCEPT ![r] = "done"]
  OBVIOUS
<1>5. "idle" \notin Executing
  BY DEF Executing
<1>6. CASE Refresh(l)
  <2>1. PICK g \in Gates : loop' = [loop EXCEPT ![l].gate = g, ![l].gateFailed = FALSE,
                                      ![l].future[r] = "done", ![l].worker = IdleWorker]
    BY <1>6 DEF Refresh
  <2>2. PICK p : p = [o EXCEPT !.gate = g, !.gateFailed = FALSE, !.future = f, !.worker = IdleWorker]
    OBVIOUS
  <2>3. loop' = [loop EXCEPT ![l] = p]
    BY <1>4, <2>1, <2>2, Zenon
  <2>4. p.mode = o.mode /\ p.ready = o.ready /\ p.gate = g /\ p.worker = IdleWorker
    BY <1>2, <2>2, Zenon DEF LoopRec
  <2>5. p.worker.at = "idle"
    BY <2>4, WorkerFacts
  <2>6. GateOK(p)
    BY <1>2, <2>4, <2>5 DEF GateOK
  <2>7. p.gate.blocked \/ \A q \in Runs : ~Uncertain(q)'
    <3>1. ~g.blocked => \A q \in Runs : ~Uncertain(q)
      BY <2>1, OpenGates DEF SessionInv, GateInv
    <3> QED BY <1>1, <2>4, <3>1 DEF store, Uncertain
  <2> QED BY <1>3, <1>5, <2>3, <2>5, <2>6, <2>7, GateRead
<1>7. CASE RefreshFails(l)
  <2>1. loop' = [loop EXCEPT ![l].gateFailed = TRUE, ![l].future[r] = "done", ![l].worker = IdleWorker]
    BY <1>7 DEF RefreshFails
  <2>2. PICK p : p = [o EXCEPT !.gateFailed = TRUE, !.future = f, !.worker = IdleWorker]
    OBVIOUS
  <2>3. loop' = [loop EXCEPT ![l] = p]
    BY <1>4, <2>1, <2>2, Zenon
  <2>4. p.mode = o.mode /\ p.ready = o.ready /\ p.gateFailed = TRUE /\ p.worker = IdleWorker
    BY <1>2, <2>2, Zenon DEF LoopRec
  <2>5. p.worker.at = "idle"
    BY <2>4, WorkerFacts
  <2>6. GateOK(p) /\ ~Admits(p)
    BY <1>2, <2>4, <2>5 DEF GateOK, Admits
  <2> QED BY <1>3, <1>5, <2>3, <2>5, <2>6, GateShut
<1> QED BY <1>6, <1>7

\* A start that commits late is one the gates could not know of.
LEMMA GhostWriteGate ==
  ASSUME SessionInv, GateInv, NEW g \in ghosts, GhostWrite(g)
  PROVE GateMoves
<1>1. loop' = loop /\ g \in ghosts \ ghosts'
  BY DEF GhostWrite
<1>2. PICK r, e : r = g.run /\ e = g.event
  OBVIOUS
<1>3. r \in Runs /\ e \in Store!Event /\ Abandoned(g) /\ StoreInv /\ LogInv /\ Rows
  BY <1>2 DEF SessionInv, Typed, GhostRec, GateInv
<1>4. e.kind \in Offered
  BY <1>2, <1>3 DEF Abandoned, Offered
<1>5. Excused /\ Rows'
  <2>1. CASE UNCHANGED store
    BY <1>3, <2>1, LeaveSettles, SettledFacts
  <2>2. CASE Write(r, e)
    <3>1. /\ Rows'
          /\ \A q \in Runs : Uncertain(q)' => Uncertain(q) \/ (q = r /\ e.kind = "run_started")
      BY <1>3, <1>4, <2>2, WriteSettles
    <3>2. e.kind = "run_started" => StartCommitsLate(r)
      BY <1>1, <1>2 DEF StartCommitsLate
    <3> QED BY <3>1, <3>2 DEF Excused
  <2> QED BY <1>2, <2>1, <2>2 DEF GhostWrite
<1> QED BY <1>1, <1>5, GateStill

\* The steps that touch neither the store nor a loop.
LEMMA LeaveGate ==
  ASSUME SessionInv, GateInv, UNCHANGED store, loop' = loop
  PROVE GateMoves
BY LeaveSettles, SettledFacts, GateStill DEF GateInv

\* No loop is left when the process dies.
LEMMA CrashGate ==
  ASSUME SessionInv, GateInv, Crash
  PROVE GateMoves
<1>1. Rows'
  BY LeaveSettles, SettledFacts DEF GateInv, Crash
<1>2. PICK d : d = [NewLoop EXCEPT !.mode = "dead"]
  OBVIOUS
<1>3. d.mode = "dead" /\ d.worker = NoWorker
  BY <1>2, DeadFacts
<1>4. loop' = [l \in Loops |-> IF loop[l].mode = "unborn" THEN loop[l] ELSE d]
  BY <1>2 DEF Crash
<1>5. ASSUME NEW l \in Loops PROVE GateStep(l)
  <2>1. loop'[l].mode \in {"unborn", "dead"} /\ loop'[l].worker = NoWorker
    <3>1. loop[l].mode = "unborn" => loop[l] = NewLoop
      BY DEF SessionInv, LoopInv, InMode
    <3> QED BY <1>3, <1>4, <3>1, NewLoopFacts
  <2>2. loop'[l].worker.at = "none"
    BY <2>1, WorkerFacts
  <2>3. GateOK(loop'[l]) /\ ~Admits(loop'[l]) /\ ~Active(l)'
    BY <2>1, <2>2 DEF GateOK, Admits, Active
  <2> QED BY <2>3, ShutKeeps
<1> QED BY <1>1, <1>5 DEF GateMoves, GateInv, GateStep

\* A decision makes nothing uncertain.
LEMMA FlowGate ==
  ASSUME SessionInv, GateInv,
         \/ rec.at = "next" /\ \E x \in rec.todo :
              RecoverQueued(x) \/ RecoverUnbound(x) \/ AskServer(x) \/ ServerUnreachable(x)
         \/ MissingTurn \/ KnownTurn \/ ObservationFails
         \/ rec.at = "observe" /\ \E r \in rec.observe : ObserveTurn(r)
  PROVE GateMoves
<1>1. /\ Typed /\ StoreInv /\ Rows /\ rec.todo \subseteq Snap /\ rec.observe \subseteq Runs
      /\ (rec.at = "asked" => rec.snapshot \in Snap)
  BY DEF SessionInv, Typed, RecRec, GateInv
<1>2. loop' = loop
  BY DEF MissingTurn, KnownTurn, ObservationFails, RecoverQueued, RecoverUnbound, AskServer,
         ServerUnreachable, ObserveTurn
<1>3. UNCHANGED store \/ \E r \in Runs : \E q, s, n : Decide(r, q, s, n)
  <2>1. ASSUME NEW x \in rec.todo, RecoverQueued(x) \/ RecoverUnbound(x) \/ AskServer(x) \/ ServerUnreachable(x)
        PROVE UNCHANGED store \/ \E r \in Runs : \E q, s, n : Decide(r, q, s, n)
    <3>1. x.run \in Runs
      BY <1>1 DEF Snap
    <3>2. \/ UNCHANGED store
          \/ Decide(x.run, "not_executed", "not_executed", Done(x))
          \/ Decide(x.run, "unbound", "failed", Done(x))
      BY <2>1 DEF RecoverQueued, RecoverUnbound, AskServer, ServerUnreachable
    <3> QED BY <3>1, <3>2
  <2>2. ASSUME MissingTurn \/ KnownTurn
        PROVE UNCHANGED store \/ \E r \in Runs : \E q, s, n : Decide(r, q, s, n)
    <3>1. rec.snapshot.run \in Runs
      BY <1>1, <2>2 DEF MissingTurn, KnownTurn, Snap
    <3>2. \/ UNCHANGED store
          \/ Decide(rec.snapshot.run, "not_executed", "not_executed", Done(rec.snapshot))
          \/ Decide(rec.snapshot.run, "remote", IF rec.seen = "completed" THEN "committed" ELSE "failed",
                    Done(rec.snapshot))
      BY <2>2 DEF MissingTurn, KnownTurn
    <3> QED BY <3>1, <3>2
  <2>3. ASSUME ObservationFails PROVE UNCHANGED store
    BY <2>3 DEF ObservationFails
  <2>4. ASSUME NEW r \in rec.observe, ObserveTurn(r)
        PROVE \E p \in Runs : \E q, s, n : Decide(p, q, s, n)
    BY <1>1, <2>4, Zenon DEF ObserveTurn
  <2> QED BY <2>1, <2>2, <2>3, <2>4
<1>4. Settled
  BY <1>1, <1>3, LeaveSettles, DecisionSettles
<1> QED BY <1>2, <1>4, SettledFacts, GateStill

\* A loop that answers for nothing is given a gate that was just read.
LEMMA GivenGate ==
  ASSUME SessionInv, GateInv, BetweenTurns, Excused, Rows', NEW l \in Loops, SessionFor(l), NEW g, NEW p,
         p = WithGate(loop[l], g), loop' = [loop EXCEPT ![l] = p],
         g.blocked \/ \A q \in Runs : ~Uncertain(q)'
  PROVE GateMoves
<1>1. loop[l] \in LoopRec /\ OneTask(loop[l]) /\ Served(l) /\ InMode(loop[l]) /\ GateOK(loop[l])
  BY TypedFacts DEF SessionInv, LoopInv, GateInv
<1>2. /\ p.mode = "open" /\ p.ready = TRUE /\ p.gate = g /\ p.worker = loop[l].worker
  BY <1>1, Zenon DEF WithGate, LoopRec
<1>3. loop[l].worker.at \notin Working
  <2>1. CASE loop[l].mode = "open"
    <3>1. \A r \in Runs : ~Holds(loop[l], r)
      BY <2>1, IdleHolds DEF Kept
    <3> QED BY <1>1, <3>1 DEF OneTask, Holds
  <2>2. CASE loop[l].mode = "unborn"
    BY <1>1, <2>2, NewLoopFacts, WorkerFacts DEF InMode
  <2> QED BY <1>1, <2>1, <2>2 DEF SessionFor, Served
<1>4. loop[l].worker.at \notin Executing /\ loop[l].worker.at \notin {"start", "abort"}
  BY <1>3 DEF Working, Executing
<1>5. GateOK(p) /\ p.worker.at \notin Executing
  BY <1>2, <1>4 DEF GateOK
<1>6. p.gate.blocked \/ \A q \in Runs : ~Uncertain(q)'
  BY <1>2
<1> QED BY <1>5, <1>6, GateRead

\* The flow begins and ends with a look at the unfinished Runs.
LEMMA EndsGate ==
  ASSUME SessionInv, GateInv, RecoverBegin \/ RecoverEnd
  PROVE GateMoves
<1>1. UNCHANGED store /\ RefreshOwner
  BY DEF RecoverBegin, RecoverEnd
<1>2. BetweenTurns
  BY DEF RecoverBegin, RecoverEnd, SessionInv
<1>3. CASE owner = 0
  BY <1>1, <1>3, LeaveGate DEF RefreshOwner
<1>4. CASE owner # 0
  <2>1. PICK l \in Loops : l = owner
    BY <1>4 DEF SessionInv, Typed
  <2>2. PICK g \in Gates : loop' = [loop EXCEPT ![l] = WithGate(@, g)]
    BY <1>1, <1>4, <2>1 DEF RefreshOwner
  <2>3. PICK p : p = WithGate(loop[l], g)
    OBVIOUS
  <2>4. loop' = [loop EXCEPT ![l] = p] /\ SessionFor(l)
    BY <2>1, <2>2, <2>3 DEF SessionFor
  <2>5. g.blocked \/ \A q \in Runs : ~Uncertain(q)'
    <3>1. ~g.blocked => \A q \in Runs : ~Uncertain(q)
      BY <2>2, OpenGates DEF SessionInv, GateInv
    <3> QED BY <1>1, <3>1 DEF store, Uncertain
  <2>6. Excused /\ Rows'
    BY <1>1, LeaveSettles, SettledFacts DEF GateInv
  <2> QED BY <1>2, <2>3, <2>4, <2>5, <2>6, GivenGate
<1> QED BY <1>3, <1>4

\* A Review is queued again, and the gate read after that.
LEMMA MissingReviewGate ==
  ASSUME SessionInv, GateInv, MissingReview
  PROVE GateMoves
<1>1. PICK x : x = rec.snapshot
  OBVIOUS
<1>2. rec.at = "asked" /\ x.sequence + EventsPerDispatch <= MaxSequence
  BY <1>1 DEF MissingReview
<1>3. /\ x.run \in Runs /\ x.sequence \in Nat /\ BetweenTurns /\ StoreInv /\ LogInv /\ Rows
  BY <1>1, <1>2 DEF SessionInv, Typed, Snap, GateInv
<1>4. PICK l \in Loops :
         LET e == NewEvent(l, "recovery", "run_redispatch_queued", x.sequence + 1) IN
         /\ SessionFor(l)
         /\ \/ /\ Store!Accepts(CommandOf(x.run), e) /\ Write(x.run, e)
               /\ \E g \in Gates' : loop' = [loop EXCEPT ![l] = WithGate(@, g)]
            \/ /\ UNCHANGED store
               /\ \E g \in Gates :
                    loop' = [loop EXCEPT ![l] = IF @.ready THEN @ ELSE WithGate(@, g)]
  BY <1>1 DEF MissingReview
<1>5. PICK n, k : n = x.sequence + 1 /\ k = "run_redispatch_queued"
  OBVIOUS
<1>6. PICK e :
        /\ e = NewEvent(l, "recovery", k, n)
        /\ SessionFor(l)
        /\ \/ /\ Store!Accepts(CommandOf(x.run), e) /\ Write(x.run, e)
              /\ \E g \in Gates' : loop' = [loop EXCEPT ![l] = WithGate(@, g)]
           \/ /\ UNCHANGED store
              /\ \E g \in Gates :
                   loop' = [loop EXCEPT ![l] = IF @.ready THEN @ ELSE WithGate(@, g)]
  BY <1>4, <1>5
<1>7. e \in Offer /\ e.sequence = n /\ e.kind = k /\ k \in Offered
  <2>1. "recovery" \in Authors /\ k \in Offered /\ n \in Int
    BY <1>3, <1>5 DEF Authors, Offered
  <2> QED BY <1>6, <2>1, EventFacts
<1>8. Leaves(e)
  <2>1. EventStatus(k) = "queued"
    BY <1>5 DEF EventStatus
  <2> QED BY <1>2, <1>3, <1>5, <1>7, <2>1, BoundsAssumption DEF Leaves, EventsPerDispatch
<1>9. CASE /\ Store!Accepts(CommandOf(x.run), e) /\ Write(x.run, e)
           /\ \E g \in Gates' : loop' = [loop EXCEPT ![l] = WithGate(@, g)]
  <2>1. StoreMoves /\ e \in Store!Event
    BY <1>3, <1>7, <1>8, <1>9, Wrote
  <2>2. Settled
    BY <1>3, <1>5, <1>7, <1>9, <2>1, WriteSettles
  <2>3. PICK g \in Gates' : loop' = [loop EXCEPT ![l] = WithGate(@, g)]
    BY <1>9
  <2>4. PICK p : p = WithGate(loop[l], g)
    OBVIOUS
  <2>5. loop' = [loop EXCEPT ![l] = p]
    BY <2>3, <2>4
  <2>6. g.blocked \/ \A q \in Runs : ~Uncertain(q)'
    BY <2>1, <2>2, <2>3, NextOpenGates DEF Settled, StoreMoves
  <2> QED BY <1>3, <1>6, <2>2, <2>4, <2>5, <2>6, SettledFacts, GivenGate
<1>10. CASE /\ UNCHANGED store
            /\ \E g \in Gates :
                 loop' = [loop EXCEPT ![l] = IF @.ready THEN @ ELSE WithGate(@, g)]
  <2>1. Excused /\ Rows'
    BY <1>3, <1>10, LeaveSettles, SettledFacts
  <2>2. PICK g \in Gates : loop' = [loop EXCEPT ![l] = IF @.ready THEN @ ELSE WithGate(@, g)]
    BY <1>10
  <2>3. CASE loop[l].ready
    <3>1. loop' = [loop EXCEPT ![l] = loop[l]]
      BY <2>2, <2>3
    <3> QED BY <2>1, <3>1, GateSeen DEF SameView
  <2>4. CASE ~loop[l].ready
    <3>1. PICK p : p = WithGate(loop[l], g)
      OBVIOUS
    <3>2. loop' = [loop EXCEPT ![l] = p]
      BY <2>2, <2>4, <3>1
    <3>3. g.blocked \/ \A q \in Runs : ~Uncertain(q)'
      <4>1. ~g.blocked => \A q \in Runs : ~Uncertain(q)
        BY <1>3, <2>2, OpenGates
      <4> QED BY <1>10, <4>1 DEF store, Uncertain
    <3> QED BY <1>3, <1>6, <2>1, <3>1, <3>2, <3>3, GivenGate
  <2> QED BY <2>3, <2>4
<1> QED BY <1>6, <1>9, <1>10

\* No gate was read in an empty session.
LEMMA GateStarts == Init => GateInv
<1> SUFFICES ASSUME Init PROVE GateInv
  OBVIOUS
<1>1. Store!Init /\ loop = [l \in Loops |-> NewLoop]
  BY DEF Init, LoopInit
<1>2. Rows
  BY <1>1 DEF Store!Init, Rows, Runs
<1>3. NewLoop.mode = "unborn" /\ NewLoop.worker.at = "none"
  BY NewLoopFacts, WorkerFacts
<1> QED BY <1>1, <1>2, <1>3 DEF GateInv, GateOK

\* Every step keeps what the loops know of the gate.
LEMMA GateKeeps ==
  ASSUME SessionInv, GateInv, [Next]_allvars
  PROVE GateMoves
<1>1. ASSUME NEW k \in Callers, NEW r \in Runs, Submission(k, r) PROVE GateMoves
  BY <1>1, SubmissionGate
<1>2. ASSUME Background PROVE GateMoves
  <2>1. ASSUME NEW k \in Callers, CallerStep(k) PROVE GateMoves
    <3>1. ASSUME Answer(k) \/ CloseReturns(k) PROVE GateMoves
      BY <3>1, LeaveGate DEF Answer, CloseReturns
    <3> QED BY <2>1, <3>1, InitializeGate, LockGate, CancelGate DEF CallerStep
  <2>2. ASSUME NEW k \in Callers, InitializeFails(k) \/ CancelCaller(k) PROVE GateMoves
    BY <2>2, InitializeFailsGate, LockGate
  <2>3. ASSUME NEW l \in Loops, LoopStep(l) \/ RefreshFails(l) PROVE GateMoves
    BY <2>3, TakeGate, WritesGate, ExecutionGate, RefreshGate, CancelQueuedGate, CloseGate DEF LoopStep
  <2>4. ASSUME NEW r \in Runs, ServerStep(r) \/ SubmissionLost(r) PROVE GateMoves
    BY <2>4, LeaveGate DEF ServerStep, ServerReceive, ServerFinish, SubmissionLost
  <2> QED BY <1>2, <2>1, <2>2, <2>3, <2>4, CloseGate, GhostWriteGate DEF Background
<1>3. ASSUME RecoveryStep \/ RecoveryFails PROVE GateMoves
  BY <1>3, FlowGate, EndsGate, MissingReviewGate DEF RecoveryStep, RecoveryFails
<1>4. ASSUME UNCHANGED allvars PROVE GateMoves
  BY <1>4, LeaveGate DEF allvars, vars
<1> QED BY <1>1, <1>2, <1>3, <1>4, CrashGate DEF Next

-----------------------------------------------------------------------------
(* The theorems. *)

\* An empty session satisfies the invariant.
LEMMA InitKeeps == Init => SessionInv
<1> SUFFICES ASSUME Init PROVE SessionInv
  OBVIOUS
<1>1. /\ Store!Init /\ loop = [l \in Loops |-> NewLoop] /\ owner = 0 /\ caller = [k \in Callers |-> Idle]
      /\ ghosts = {} /\ server = [r \in Runs |-> "absent"] /\ wire = {} /\ rec = NoRecovery
  BY DEF Init, LoopInit
<1>2. StoreInv
  BY <1>1, StoreStarts
<1>3. LogInv
  <2>1. \A r \in Runs : events[r] = << >>
    BY <1>1 DEF Store!Init, Runs
  <2> QED BY <2>1 DEF LogInv
<1>4. \A k \in Callers : caller[k] \in CallerRec /\ caller[k].at = "idle"
  BY <1>1, IdleFacts
<1>5. Typed
  <2>1. caller \in [Callers -> CallerRec]
    BY <1>1, IdleFacts
  <2>2. loop \in [Loops -> LoopRec]
    BY <1>1, NewLoopFacts
  <2>3. server \in [Runs -> Turns]
    BY <1>1 DEF Turns
  <2>4. NoRecovery \in RecRec /\ NoRecovery.at = "idle"
    BY DEF NoRecovery, RecRec
  <2> QED BY <1>1, <1>4, <2>1, <2>2, <2>3, <2>4 DEF Typed
<1>6. ASSUME NEW l \in Loops
      PROVE OneTask(loop[l]) /\ InMode(loop[l]) /\ Executes(l) /\ Served(l) /\ \A r \in Runs : Remembers(l, r)
  <2>1. PICK o \in LoopRec : o = NewLoop /\ loop[l] = o
    BY <1>1, NewLoopFacts
  <2>2. /\ o.mode = "unborn" /\ o.queue = << >> /\ o.worker = NoWorker /\ Queued(o) = {}
        /\ \A r \in Runs : /\ o.future[r] = "none" /\ ~Holds(o, r)
                           /\ o.actor[r] = [status |-> "created", sequence |-> 0]
    BY <2>1, NewLoopFacts
  <2>3. o.worker.at = "none" /\ o.worker.run = Nobody /\ Nobody \notin Runs /\ "none" \notin Working
    BY <2>2, WorkerFacts
  <2>4. Len(o.queue) = 0
    BY <2>2
  <2>5. OneTask(o)
    BY <2>2, <2>3, <2>4 DEF OneTask
  <2>6. InMode(o)
    BY <2>1, <2>2 DEF InMode
  <2>7. Executes(l)
    BY <2>1, <2>3 DEF Executes, Executing
  <2>8. Served(l)
    BY <1>1, <2>1, <2>2 DEF Served, Kept, Loops
  <2> QED BY <2>1, <2>2, <2>5, <2>6, <2>7, <2>8 DEF Remembers
<1>7. LoopInv
  BY <1>6 DEF LoopInv
<1>8. \A k \in Callers : Submits(k)
  BY <1>4 DEF Submits
<1>9. BetweenTurns
  BY <1>4 DEF BetweenTurns
<1>10. \A r \in Runs : Sent(r)
  BY <1>1 DEF Sent
<1> QED BY <1>1, <1>2, <1>3, <1>5, <1>7, <1>8, <1>9, <1>10 DEF SessionInv

\* Every step keeps it, and moves the store by the store's own steps.
LEMMA StepKeeps ==
  ASSUME SessionInv, [Next]_allvars
  PROVE StoreMoves /\ SessionInv'
<1>1. CASE (\E k \in Callers, r \in Runs : Submission(k, r)) /\ UNCHANGED rec
  BY <1>1, SubmissionKeeps
<1>2. CASE Background /\ UNCHANGED rec
  <2>1. ASSUME NEW k \in Callers, CallerStep(k) PROVE StoreMoves /\ SessionInv'
    BY <1>2, <2>1, InitializeKeeps, AcquireKeeps, PrepareKeeps, EnqueueKeeps, LeaveKeeps,
       CancelSessionKeeps DEF CallerStep
  <2>2. ASSUME NEW k \in Callers, InitializeFails(k) \/ CancelCaller(k) PROVE StoreMoves /\ SessionInv'
    BY <1>2, <2>2, InitializeFailsKeeps, LeaveKeeps
  <2>3. ASSUME NEW l \in Loops, LoopStep(l) \/ RefreshFails(l) PROVE StoreMoves /\ SessionInv'
    BY <1>2, <2>3, LoopKeeps
  <2>4. ASSUME NEW g \in ghosts, GhostWrite(g) PROVE StoreMoves /\ SessionInv'
    BY <1>2, <2>4, GhostWriteKeeps
  <2>5. ASSUME NEW r \in Runs, ServerStep(r) \/ SubmissionLost(r) PROVE StoreMoves /\ SessionInv'
    BY <1>2, <2>5, ServiceKeeps
  <2>6. ASSUME CloseSession PROVE StoreMoves /\ SessionInv'
    BY <1>2, <2>6, CloseSessionKeeps
  <2> QED BY <1>2, <2>1, <2>2, <2>3, <2>4, <2>5, <2>6 DEF Background
<1>3. CASE Crash /\ rec' = NoRecovery
  BY <1>3, CrashKeeps
<1>4. CASE RecoveryStep \/ RecoveryFails
  BY <1>4, RecoveryKeeps
<1>5. CASE UNCHANGED allvars
  <2>1. /\ UNCHANGED store /\ UNCHANGED <<loop, owner, caller, rec>> /\ ghosts' = ghosts
        /\ server' = server /\ wire' = wire
    BY <1>5 DEF allvars, vars, external
  <2>2. StoreMoves /\ SameLogs /\ decision' = decision
    BY <2>1, Leave DEF SessionInv
  <2>3. \A l \in Loops : Spared(l)
    BY <2>2 DEF Spared, SameLogs
  <2>4. server' \in [Runs -> Turns] /\ wire' \subseteq Runs
    BY <2>1 DEF SessionInv, Typed
  <2> QED BY <2>1, <2>2, <2>3, <2>4, QuietMove
<1> QED BY <1>1, <1>2, <1>3, <1>4, <1>5 DEF Next

\* The inductive invariant holds in every reachable state.
THEOREM SessionInvariant == Spec => []SessionInv
<1>1. SessionInv /\ [Next]_allvars => SessionInv'
  BY StepKeeps
<1> QED BY <1>1, InitKeeps, PTL DEF Spec

\* The volatile state of the session is always what its objects can hold.
THEOREM SessionTypes == Spec => []TypeOK
<1>1. SessionInv => TypeOK
  <2> SUFFICES ASSUME SessionInv PROVE TypeOK
    OBVIOUS
  <2>1. /\ owner \in {0} \cup Loops /\ ghosts \subseteq GhostRec /\ wire \subseteq Runs
        /\ \A k \in Callers : caller[k] \in CallerRec
    BY DEF SessionInv, Typed
  <2>2. ASSUME NEW l \in Loops
        PROVE /\ loop[l].mode \in {"unborn", "open", "draining", "drained", "cancelling", "broken",
                                   "closed", "dead"}
              /\ \A i \in 1..Len(loop[l].queue) : loop[l].queue[i] \in Runs \cup {Stop}
              /\ \A r \in Runs : /\ loop[l].future[r] \in {"none", "pending", "done", "cancelled"}
                                 /\ loop[l].actor[r] \in [status : RunStatus, sequence : 0..MaxSequence]
    <3>1. /\ loop[l].mode \in Modes /\ loop[l].queue \in Seq(Entry) /\ loop[l].future \in [Runs -> Futures]
          /\ loop[l].actor \in [Runs -> ActorRec]
      BY TypedFacts, ObjectFacts DEF SessionInv
    <3> QED BY <3>1 DEF Modes, Entry, Futures, ActorRec
  <2>3. \A k \in Callers : caller[k].at \in Places
    BY <2>1 DEF CallerRec
  <2> QED BY <2>1, <2>2, <2>3 DEF TypeOK, Places, GhostRec
<1> QED BY <1>1, SessionInvariant, PTL

\* While a worker executes a Run the store says running, at the sequence the
\* actor remembers, and in a loop that somebody answers for the Run's recovery
\* is undecided.
THEOREM ActiveIsDurable == Spec => []ActiveRunIsDurable
<1>1. SessionInv => ActiveRunIsDurable
  <2> SUFFICES ASSUME SessionInv, NEW l \in Loops, Active(l), NEW r, r = loop[l].worker.run
               PROVE /\ status[r] = "running"
                     /\ loop[l].actor[r] = [status |-> "running", sequence |-> sequence[r]]
                     /\ Kept(l) => decision[r] = NoDecision
    BY DEF ActiveRunIsDurable
  <2>1. loop[l].worker.at \in Executing
    BY DEF Active, Executing
  <2>2. /\ r \in Runs /\ status[r] = "running"
        /\ loop[l].actor[r] = [status |-> "running", sequence |-> sequence[r]]
    BY <2>1, ExecutingFacts
  <2>3. Served(l) /\ Holds(loop[l], r)
    BY DEF SessionInv, LoopInv, Holds
  <2> QED BY <2>2, <2>3 DEF Served
<1> QED BY <1>1, SessionInvariant, PTL

\* Whatever the service may know of a Run was preceded by a durable start and
\* a frozen request.
THEOREM SentIsRecorded == Spec => []SentOnlyIfRecorded
<1>1. SessionInv => SentOnlyIfRecorded
  BY DEF SessionInv, Sent, SentOnlyIfRecorded
<1> QED BY <1>1, SessionInvariant, PTL

\* When every submission has returned, no loop that somebody answers for runs
\* or holds anything.
THEOREM QuietBetweenTurns == Spec => []QuietWhenIdle
<1>1. SessionInv => QuietWhenIdle
  <2> SUFFICES ASSUME SessionInv, BetweenTurns, NEW l \in Loops, Kept(l)
               PROVE ~Active(l) /\ loop[l].queue = << >>
    BY DEF QuietWhenIdle
  <2>1. \A r \in Runs : ~Holds(loop[l], r)
    BY IdleHolds
  <2>2. loop[l] \in LoopRec /\ OneTask(loop[l]) /\ InMode(loop[l])
    BY TypedFacts DEF SessionInv, LoopInv
  <2>3. ~Active(l)
    <3>1. loop[l].worker.at \notin Working
      BY <2>1, <2>2 DEF OneTask, Holds
    <3> QED BY <3>1 DEF Active, Working, Executing
  <2>4. loop[l].queue = << >>
    <3>1. loop[l].queue \in Seq(Entry)
      BY <2>2, ObjectFacts
    <3>2. Queued(loop[l]) \subseteq Entry
      BY <3>1 DEF Queued
    <3>3. Stop \notin Queued(loop[l])
      BY <2>2 DEF InMode, Kept
    <3>4. Queued(loop[l]) = {}
      BY <2>1, <3>2, <3>3 DEF Holds, Entry
    <3>5. 1 \notin 1..Len(loop[l].queue)
      BY <3>4 DEF Queued
    <3> QED BY <3>1, <3>5
  <2> QED BY <2>3, <2>4
<1> QED BY <1>1, SessionInvariant, PTL

\* The invariant of the gate holds in every reachable state.
THEOREM GateInvariant == Spec => []GateInv
<1>1. SessionInv /\ GateInv /\ [Next]_allvars => GateInv'
  BY GateKeeps DEF GateMoves
<1> QED BY <1>1, GateStarts, SessionInvariant, PTL DEF Spec

\* A worker somebody answers for begins to execute only while its gate lets
\* work through, and this gate misses only what starts behind its back.
THEOREM NothingBesideUncertain == Spec => UncertainBlocksDispatch
<1> DEFINE Step == \A l \in Loops :
             /\ Kept(l) /\ ~Active(l) /\ Active(l)' => Admits(loop[l])
             /\ \A q \in Hidden(l)' \ Hidden(l) : StartCommitsLate(q) \/ StartsUnkept(q)
<1>1. SessionInv /\ GateInv /\ [Next]_allvars => [Step]_allvars
  BY GateKeeps DEF GateMoves, GateStep
<1>2. Spec => [][Step]_allvars
  BY <1>1, SessionInvariant, GateInvariant, PTL DEF Spec
<1> QED BY <1>2 DEF UncertainBlocksDispatch

\* The session uses the store only through its operations: it implements the
\* specification of the Run store, with everything RunStoreProofs says of it.
THEOREM UsesTheRunStore == Spec => Store!Spec
<1>1. Init => Store!Init
  BY DEF Init, LoopInit
<1>2. SessionInv /\ [Next]_allvars => [Store!Next]_(Store!vars)
  <2> SUFFICES ASSUME SessionInv, [Next]_allvars PROVE [Store!Next]_(Store!vars)
    OBVIOUS
  <2>1. [Store!Next]_store
    BY StepKeeps DEF StoreMoves
  <2> QED BY <2>1 DEF store, Store!vars, Store!rows
<1> QED BY <1>1, <1>2, SessionInvariant, PTL DEF Spec, Store!Spec
=============================================================================
