----------------------------- MODULE TurnStream -----------------------------
(***************************************************************************)
(* TurnEventStream (protocol/client/chat.py): the client's view of one     *)
(* remote turn.  It submits the turn or attaches to it, survives broken    *)
(* connections by asking the service for the turn's status and attaching   *)
(* again behind the last event it delivered, and tells its owner when it   *)
(* replays history and when it has caught up.                              *)
(*                                                                         *)
(* A step is what happens between two awaits.  The service is external: a  *)
(* log of increasing event numbers (events of other turns of the session   *)
(* are filtered out, so numbers may be missing), the last one terminal.    *)
(* Delays and retry budgets only decide when a step happens and are left   *)
(* out; so is the content of events.                                       *)
(***************************************************************************)
EXTENDS Integers, Sequences, FiniteSets, SequencesExt, FiniteSetsExt

CONSTANTS
  MaxSeq,        \* bound: the largest event number of the turn
  MaxRequests,   \* bound: chat requests sent
  StreamBudget   \* bound: how often each trouble of the environment happens

ASSUME MaxSeqAssumption == MaxSeq \in Nat

None == -1

VARIABLES
  service,    \* external: whether the turn is known, its events, whether it is over
  wire,       \* external: chat requests on their way
  conn,       \* the payload stream
  stream,     \* the TurnEventStream object
  seen,       \* history: event numbers handed to the consumer
  lost,       \* history: event numbers a retained_prefix gap skipped
  troubles    \* what is left of StreamBudget

streamvars == <<service, wire, conn, stream, seen, lost, troubles>>

Trouble(what) == troubles[what] > 0 /\ troubles' = [troubles EXCEPT ![what] = @ - 1]

LastSeq(log) == IF log = {} THEN 0 ELSE Max(log)

NoConn      == [kind |-> "none", id |-> 0, up |-> FALSE, after |-> 0]
ChatConn(q) == [NoConn EXCEPT !.kind = "chat", !.id = q]

\* The service may repeat the last confirmed event after an attach.
AttachConns(cursor) ==
  {[kind |-> "attach", id |-> 0, up |-> TRUE, after |-> n] : n \in {cursor, cursor - 1} \cap Nat}

NewStream(submits, target) ==
  [at |-> "pull", submits |-> submits, requests |-> 0, cursor |-> 0, observed |-> ~submits,
   phase |-> "none", target |-> None, initial |-> target, pending |-> FALSE, snapshot |-> None,
   gap |-> FALSE, control |-> FALSE, probe |-> FALSE, closing |-> FALSE, answer |-> None,
   reason |-> "none"]

\* A new turn, or one whose last event number was read before the attach.
StreamInit ==
  /\ \/ /\ service = [known |-> FALSE, log |-> {}, over |-> FALSE, floor |-> 0]
        /\ stream = NewStream(TRUE, None)
     \/ \E n \in 1..(MaxSeq - 1) :
          /\ service = [known |-> TRUE, log |-> 1..n, over |-> FALSE, floor |-> 0]
          /\ stream = NewStream(FALSE, n)
  /\ wire = {} /\ conn = NoConn /\ seen = << >> /\ lost = {}
  /\ troubles = StreamBudget

-----------------------------------------------------------------------------
\* _begin_replay, _complete_replay: what they do to the stream object s.
BeginReplay(s, n) ==
  [s EXCEPT !.target = Max({s.cursor, n}), !.pending = FALSE, !.phase = "replaying"]

\* A mutation: the end of the replay stays due.
MutCompleteReplay(s) == [s EXCEPT !.target = None, !.phase = "caught_up"]

CompleteReplay(s) == [s EXCEPT !.target = None, !.pending = FALSE, !.phase = "caught_up"]

\* _finish: a stream that was still recovering reports "closed".
Finish(s, reason) ==
  [s EXCEPT !.at = "ended", !.reason = reason, !.control = FALSE,
            !.phase = IF @ \in {"reconnecting", "replaying"} THEN "closed" ELSE @]

Fails == stream' = Finish(stream, "fatal") /\ conn' = NoConn

\* The consumer is inside _next_event and nothing has to be told first.
Pulling == stream.at = "pull" /\ ~stream.pending /\ ~stream.closing

\* The last replayed event was handed over and the next one is asked for.
CatchUp ==
  /\ stream.at = "pull" /\ stream.pending
  /\ stream' = CompleteReplay(stream)
  /\ UNCHANGED <<service, wire, conn, seen, lost, troubles>>

\* The terminal event was handed over.
SettleStream ==
  /\ stream.at = "pull" /\ ~stream.pending /\ stream.closing
  /\ stream' = Finish(stream, "settled")
  /\ conn' = NoConn
  /\ UNCHANGED <<service, wire, seen, lost, troubles>>

\* The coordinates of the turn are known: there is something to resume.
HasTarget == stream.requests > 0 \/ ~stream.submits

\* _ensure_open: the first read submits the turn or attaches to it.
Open ==
  /\ Pulling /\ conn = NoConn /\ stream.snapshot = None
  /\ HasTarget => ~stream.control
  /\ IF stream.submits
     THEN /\ stream.requests < MaxRequests
          /\ stream' = [stream EXCEPT !.requests = @ + 1]
          /\ conn' = ChatConn(stream'.requests)
          /\ wire' = wire \cup {stream'.requests}
     ELSE /\ stream' = IF stream.initial = None THEN stream
                       ELSE [BeginReplay(stream, stream.initial) EXCEPT !.initial = None]
          /\ conn' \in AttachConns(stream.cursor)
          /\ UNCHANGED wire
  /\ UNCHANGED <<service, seen, lost, troubles>>

-----------------------------------------------------------------------------
\* Events that are read and dropped: after an internal gap everything but
\* the terminal event, and whatever was confirmed before.
Stale(s, e) ==
  \/ s.gap /\ ~(service.over /\ e = LastSeq(service.log))
  \/ e <= s.cursor

\* A mutation: an event one behind the target still counts as history.
MutBehindTarget(s, e) == s.target # None /\ e > s.target + 1

\* _prepare_recovery_delivery: the event is newer than what is replayed.
BehindTarget(s, e) == s.target # None /\ e > s.target

\* The next event the payload stream holds.
Incoming == {e \in service.log : e > conn.after}

\* An event behind the replay target: caught_up is reported before it.
CatchUpLate ==
  /\ Pulling /\ conn.up /\ conn.after >= service.floor /\ Incoming # {}
  /\ ~Stale(stream, Min(Incoming)) /\ BehindTarget(stream, Min(Incoming))
  /\ stream' = CompleteReplay(stream)
  /\ UNCHANGED <<service, wire, conn, seen, lost, troubles>>

\* An event reaches the consumer: _prepare_recovery_delivery, cursor, and
\* the end of the stream after the terminal one.
Deliver(s, e) ==
  [s EXCEPT !.cursor = e, !.observed = TRUE,
            !.pending = s.target # None /\ e >= s.target,
            !.closing = service.over /\ e = LastSeq(service.log)]

Receive ==
  /\ Pulling /\ conn.up /\ conn.after >= service.floor /\ Incoming # {}
  /\ stream.snapshot = None
  /\ LET e == Min(Incoming) IN
       /\ conn' = [conn EXCEPT !.after = e]
       /\ IF Stale(stream, e)
          THEN stream' = [stream EXCEPT !.observed = TRUE] /\ UNCHANGED seen
          ELSE /\ ~BehindTarget(stream, e)
               /\ stream' = Deliver(stream, e)
               /\ seen' = Append(seen, e)
  /\ UNCHANGED <<service, wire, lost, troubles>>

\* The terminal event taken from a status answer.
ReceiveSnapshot ==
  /\ Pulling /\ stream.snapshot # None
  /\ stream' = [Deliver(stream, stream.snapshot) EXCEPT !.snapshot = None]
  /\ seen' = Append(seen, stream.snapshot)
  /\ UNCHANGED <<service, wire, conn, lost, troubles>>

\* The service dropped the beginning of the log: the cursor moves behind it,
\* and without a replay under way the status, if it can be read, starts one.
ReceivePrefixGap ==
  /\ Pulling /\ conn.up /\ conn.after < service.floor
  /\ \E answered \in BOOLEAN :
     LET s == [stream EXCEPT !.cursor = Max({@, service.floor})]
         n == IF answered THEN LastSeq(service.log) ELSE s.cursor
         r == IF s.target = None THEN BeginReplay(s, n) ELSE s IN
       /\ IF answered THEN UNCHANGED troubles ELSE s.target = None /\ Trouble("fault")
       /\ stream' = [r EXCEPT !.pending = r.cursor >= r.target]
       /\ lost' = lost \cup {e \in service.log : stream.cursor < e /\ e <= s.cursor}
       /\ conn' = [conn EXCEPT !.after = s.cursor]
  /\ UNCHANGED <<service, wire, seen>>

\* The service cannot read its own log: only the terminal event counts.
ReceiveInternalGap ==
  /\ Pulling /\ conn.up /\ ~stream.gap
  /\ Trouble("gap")
  /\ stream' = [stream EXCEPT !.gap = TRUE]
  /\ UNCHANGED <<service, wire, conn, seen, lost>>

-----------------------------------------------------------------------------
\* _resume_stream up to the status query.
Resume ==
  /\ stream' = [stream EXCEPT !.at = "resume", !.probe = FALSE, !.phase =
       IF ~stream.control THEN "reconnecting"
       ELSE IF @ \in {"reconnecting", "replaying"} THEN "closed" ELSE @]
  /\ conn' = NoConn

\* The connection breaks or stays silent for too long.
Broken ==
  /\ Pulling /\ conn # NoConn /\ stream.snapshot = None
  /\ Trouble("fault")
  /\ Resume
  /\ UNCHANGED <<service, wire, seen, lost>>

\* A request that got lost is never answered.
Silent ==
  /\ Pulling /\ conn.kind = "chat" /\ ~conn.up /\ conn.id \notin wire
  /\ Resume
  /\ UNCHANGED <<service, wire, seen, lost, troubles>>

\* A heartbeat of a connection that brings no events: the status is compared
\* with the cursor (_probe_event_progress).
Heartbeat ==
  /\ Pulling /\ conn.up /\ Incoming = {}
  /\ service.over \/ LastSeq(service.log) # stream.cursor
  /\ Resume
  /\ UNCHANGED <<service, wire, seen, lost, troubles>>

\* request_recovery_probe: the user interrupts and wants the turn's end.
RequestProbe ==
  /\ stream.at # "ended"
  /\ Trouble("probe")
  /\ stream' = [stream EXCEPT !.control = TRUE, !.probe = TRUE]
  /\ UNCHANGED <<service, wire, conn, seen, lost>>

\* A mutation: a probe that found the turn running is not repeated.
MutProbe ==
  /\ Pulling /\ stream.snapshot = None
  /\ stream.probe /\ HasTarget
  /\ Resume
  /\ UNCHANGED <<service, wire, seen, lost, troubles>>

\* The probe wakes the reader; with no connection it is repeated.
Probe ==
  /\ Pulling /\ stream.snapshot = None
  /\ stream.probe \/ (stream.control /\ conn = NoConn)
  /\ HasTarget
  /\ Resume
  /\ UNCHANGED <<service, wire, seen, lost, troubles>>

\* 404 for a turn nobody has seen: the same request is sent again.
SubmitAgain ==
  /\ stream.at = "resume" /\ ~service.known /\ ~stream.observed
  /\ stream.requests < MaxRequests
  /\ stream' = [stream EXCEPT !.at = "pull", !.control = FALSE, !.target = stream.cursor,
                              !.requests = @ + 1]
  /\ conn' = ChatConn(stream'.requests)
  /\ wire' = wire \cup {stream'.requests}
  /\ UNCHANGED <<service, seen, lost, troubles>>

\* 404 for a turn that was seen, or an error that is final.
StatusFails ==
  /\ stream.at = "resume"
  /\ \/ ~service.known /\ stream.observed /\ UNCHANGED troubles
     \/ Trouble("fault")
  /\ Fails
  /\ UNCHANGED <<service, wire, seen, lost>>

\* A mutation: the terminal snapshot stands for everything that is missing.
MutSnapshotSuffices(s) == LastSeq(service.log) > s.cursor

\* Only the terminal event itself is missing, or nothing else can be read.
SnapshotSuffices(s) ==
  \/ LastSeq(service.log) = s.cursor + 1
  \/ s.gap /\ LastSeq(service.log) > s.cursor

\* The turn is over: replay the rest, or take the end from the answer.
StatusTerminal ==
  /\ stream.at = "resume" /\ service.known /\ service.over
  /\ LET s == [BeginReplay(stream, LastSeq(service.log)) EXCEPT
                 !.at = "pull", !.control = FALSE, !.observed = TRUE] IN
       IF SnapshotSuffices(stream)
       THEN stream' = [s EXCEPT !.snapshot = LastSeq(service.log)] /\ UNCHANGED conn
       ELSE stream' = s /\ conn' \in AttachConns(stream.cursor)
  /\ UNCHANGED <<service, wire, seen, lost, troubles>>

\* The turn goes on, or the status cannot be read just now.  A control probe
\* only waits for the end; else the approvals are restored first.
StatusActive ==
  /\ stream.at = "resume"
  /\ \/ /\ service.known /\ ~service.over
        /\ stream' = [stream EXCEPT !.at = IF stream.control THEN "pull" ELSE "approvals",
                        !.observed = TRUE, !.answer = LastSeq(service.log)]
        /\ UNCHANGED troubles
     \/ /\ Trouble("fault")
        /\ stream' = [stream EXCEPT !.at = IF stream.control THEN "pull" ELSE "approvals",
                        !.answer = stream.cursor]
  /\ UNCHANGED <<service, wire, conn, seen, lost>>

\* A mutation: nothing ends a replay that has nothing to replay.
MutReattach ==
  /\ stream.at = "approvals" /\ service.known
  /\ stream' = [BeginReplay(stream, Max({stream.answer, LastSeq(service.log)})) EXCEPT
                  !.at = "pull", !.control = FALSE, !.observed = TRUE, !.answer = None]
  /\ conn' \in AttachConns(stream.cursor)
  /\ UNCHANGED <<service, wire, seen, lost, troubles>>

\* _restore_approval_snapshot, then attach behind the cursor.
Reattach ==
  /\ stream.at = "approvals" /\ service.known
  /\ LET n == Max({stream.answer, LastSeq(service.log)})
         s == [BeginReplay(stream, n) EXCEPT !.at = "pull", !.control = FALSE,
                                             !.observed = TRUE, !.answer = None] IN
       stream' = [s EXCEPT !.pending = s.cursor >= n]
  /\ conn' \in AttachConns(stream.cursor)
  /\ UNCHANGED <<service, wire, seen, lost, troubles>>

\* The approvals cannot be read: try again with a new status, or give up.
ApprovalsFail ==
  /\ stream.at = "approvals"
  /\ Trouble("fault") \/ (~service.known /\ UNCHANGED troubles)
  /\ \/ stream' = [stream EXCEPT !.at = "resume", !.phase = "reconnecting"] /\ UNCHANGED conn
     \/ Fails
  /\ UNCHANGED <<service, wire, seen, lost>>

-----------------------------------------------------------------------------
\* External: a chat request arrives.  For a turn that is known already the
\* service answers with its events or with a conflict, which is final.
Accept(q) ==
  /\ q \in wire
  /\ wire' = wire \ {q}
  /\ service' = [service EXCEPT !.known = TRUE]
  /\ LET mine == conn.kind = "chat" /\ conn.id = q IN
       IF ~mine THEN UNCHANGED <<conn, stream>>
       ELSE \/ conn' = [conn EXCEPT !.up = TRUE] /\ UNCHANGED stream
            \/ service.known /\ Fails
  /\ UNCHANGED <<seen, lost, troubles>>

RequestLost(q) ==
  /\ q \in wire
  /\ Trouble("fault")
  /\ wire' = wire \ {q}
  /\ UNCHANGED <<service, conn, stream, seen, lost>>

\* External: the turn produces an event, the last one ends it.
Publish ==
  /\ service.known /\ ~service.over
  /\ \E n \in {1, 2}, over \in BOOLEAN :
       /\ LastSeq(service.log) + n <= MaxSeq
       /\ LastSeq(service.log) + n = MaxSeq => over
       /\ service' = [service EXCEPT !.log = @ \cup {LastSeq(service.log) + n}, !.over = over]
  /\ UNCHANGED <<wire, conn, stream, seen, lost, troubles>>

\* External: the beginning of the log is no longer kept.
Forget ==
  /\ Trouble("forget")
  /\ \E n \in service.log \ {LastSeq(service.log)} : service' = [service EXCEPT !.floor = n]
  /\ UNCHANGED <<wire, conn, stream, seen, lost>>

\* The consumer gives up: the stream is closed or its task cancelled.
Cancel ==
  /\ stream.at # "ended"
  /\ Trouble("cancel")
  /\ stream' = Finish(stream, "cancelled")
  /\ conn' = NoConn
  /\ UNCHANGED <<service, wire, seen, lost>>

StreamStep ==
  \/ CatchUp \/ CatchUpLate \/ SettleStream \/ Open \/ Receive \/ ReceiveSnapshot
  \/ ReceivePrefixGap \/ Silent \/ Probe \/ Heartbeat
  \/ SubmitAgain \/ StatusFails \/ StatusTerminal \/ StatusActive \/ Reattach \/ ApprovalsFail

ServiceStep == Publish \/ \E q \in wire : Accept(q)

StreamNext ==
  \/ StreamStep \/ ServiceStep
  \/ Broken \/ ReceiveInternalGap \/ RequestProbe \/ Forget \/ Cancel
  \/ \E q \in wire : RequestLost(q)

StreamSpec == StreamInit /\ [][StreamNext]_streamvars

\* The consumer keeps pulling, the client's tasks run, the service handles
\* what it received and brings each turn to its end.
StreamFairness == WF_streamvars(StreamStep) /\ WF_streamvars(ServiceStep)

FairStreamSpec == StreamSpec /\ StreamFairness

-----------------------------------------------------------------------------
\* Type correctness of the stream object; the end of a replay is due only
\* while there is a target.
StreamTypeOK ==
  /\ stream.at \in {"pull", "resume", "approvals", "ended"}
  /\ stream.phase \in {"none", "reconnecting", "replaying", "caught_up", "closed"}
  /\ stream.cursor \in 0..MaxSeq
  /\ {stream.target, stream.snapshot, stream.answer} \subseteq {None} \cup 0..MaxSeq
  /\ stream.pending => stream.target # None
  /\ conn.kind \in {"none", "chat", "attach"}
  /\ seen \in Seq(service.log) /\ lost \subseteq service.log

\* Over any number of reconnects, replays and status answers the consumer
\* gets each event of the turn once and in order; none below the cursor is
\* missing but those the service announced to have dropped, or, after an
\* internal gap, those before the terminal one (_next_event, SnapshotSuffices).
EachEventOnce ==
  /\ \A i, j \in 1..Len(seen) : i < j => seen[i] < seen[j]
  /\ ~stream.gap => Range(seen) \cup lost = {e \in service.log : e <= stream.cursor}

\* A consumer that waits for a live event on an attached connection has been
\* told that the replay is over: what it held back until then can go on
\* (_recovery_catch_up_pending).
CaughtUpWhenWaiting ==
  (Pulling /\ conn.kind = "attach" /\ stream.snapshot = None /\ Incoming = {}
     /\ conn.after >= service.floor /\ ~stream.gap)
    => stream.phase \notin {"reconnecting", "replaying"}

Feed == INSTANCE TurnFeed WITH
  log <- service.log, over <- service.over, handed <- seen,
  feed <- [cursor |-> stream.cursor, phase |-> stream.phase, target |-> stream.target,
           skipped |-> stream.gap \/ lost # {},
           ended |-> CASE stream.at # "ended" -> "no"
                       [] stream.reason = "settled" -> "settled"
                       [] OTHER -> "failed"]

\* Whatever connections, status answers, probes and gaps do, the owner sees
\* the promised feed: every event once and in order, nothing newer than the
\* frozen target while history is replayed, "caught_up" only when the history
\* is complete, and "settled" only after the terminal event.
KeepsFeed == Feed!FeedSpec

\* The consumer of a turn that ends gets to its end or to an error: no loss,
\* silence, probe or gap leaves it waiting for ever (_next_payload,
\* _resume_stream, _probe_event_progress).
StreamEnds == <>(stream.at = "ended")
=============================================================================
