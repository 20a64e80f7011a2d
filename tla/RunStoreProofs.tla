--------------------------- MODULE RunStoreProofs ---------------------------
(***************************************************************************)
(* Proofs about RunStore for every set of commands, writers and targets.   *)
(***************************************************************************)
EXTENDS RunStore, FiniteSetTheorems, TLAPS

\* Every event kind names a status a stored Run can have, and the outbox
\* table has an entry for it.
LEMMA EventTables ==
  ASSUME NEW k \in EventKinds
  PROVE  /\ EventStatus(k) \in RunStatus \ {"created"}
         /\ OutboxStatus(EventStatus(k)) \in EffectStatuses
BY DEF EventKinds, EventStatus, RunStatus, OutboxStatus, EffectStatuses

\* The identifiers a command carries belong to the sets built from Commands.
LEMMA CommandFields ==
  ASSUME NEW c \in Commands
  PROVE  /\ c.run_id \in Runs
         /\ c.session_id \in Sessions
         /\ c.coord # NoCoord => c.coord \in Coords
         /\ c # NoCommand
BY CommandAssumption DEF Runs, Sessions, Coords

\* The tables start well typed.
LEMMA InitType == Init => TypeOK
BY DEF Init, TypeOK, RunStatus, EffectStatuses

\* Inserting a Run keeps the tables well typed.
LEMMA InsertType ==
  ASSUME TypeOK, NEW c \in Commands, NEW e \in Event, InsertInitialRun(c, e)
  PROVE  /\ command' \in [Runs -> Commands \cup {NoCommand}]
         /\ status' \in [Runs -> RunStatus]
         /\ sequence' \in [Runs -> Nat]
         /\ effect' \in [Runs -> EffectStatuses]
         /\ events' \in [Runs -> Seq(Event)]
         /\ outbox' \in [Runs -> [status : EffectStatuses, attempts : Nat]]
         /\ decision' = decision /\ remote' = remote
<1>1. c.run_id \in Runs
  BY CommandFields
<1>2. "queued" \in RunStatus /\ "pending" \in EffectStatuses
  BY DEF RunStatus, EffectStatuses
<1>3. <<e>> \in Seq(Event)
  OBVIOUS
<1> QED
  BY <1>1, <1>2, <1>3 DEF TypeOK, InsertInitialRun

\* Advancing a Run keeps the tables well typed.
LEMMA AdvanceType ==
  ASSUME TypeOK, NEW c \in Commands, NEW e \in Event, AdvanceRun(c, e)
  PROVE  /\ command' = command
         /\ status' \in [Runs -> RunStatus]
         /\ sequence' \in [Runs -> Nat]
         /\ effect' \in [Runs -> EffectStatuses]
         /\ events' \in [Runs -> Seq(Event)]
         /\ outbox' \in [Runs -> [status : EffectStatuses, attempts : Nat]]
         /\ decision' = decision /\ remote' = remote
<1>1. c.run_id \in Runs
  BY CommandFields
<1>2. EventStatus(e.kind) \in RunStatus /\ OutboxStatus(EventStatus(e.kind)) \in EffectStatuses
  BY EventTables DEF Event
<1>3. e.sequence \in Nat
  BY BoundAssumption DEF Event
<1>4. Append(events[c.run_id], e) \in Seq(Event)
  BY <1>1 DEF TypeOK
<1>5. outbox' \in [Runs -> [status : EffectStatuses, attempts : Nat]]
  BY <1>1, <1>2 DEF TypeOK, AdvanceRun, Attempts
<1> QED
  BY <1>1, <1>2, <1>3, <1>4, <1>5 DEF TypeOK, AdvanceRun

\* Deletion keeps the tables well typed.
LEMMA DeleteType ==
  ASSUME TypeOK, NEW T \in SUBSET Targets, DeleteSessions(T)
  PROVE  TypeOK'
<1>1. {t.coord : t \in T} \subseteq Coords
  BY TargetAssumption DEF Coords
<1>2. Doomed(T) \subseteq Sessions
  BY DEF Doomed, Sessions
<1>3. "created" \in RunStatus /\ "pending" \in EffectStatuses
  BY DEF RunStatus, EffectStatuses
<1>4. [status |-> "pending", attempts |-> 0] \in [status : EffectStatuses, attempts : Nat]
  BY <1>3
<1>5. << >> \in Seq(Event)
  OBVIOUS
<1>6. retired' \in [coords : SUBSET Coords, sessions : SUBSET Sessions, runs : SUBSET Runs]
  BY <1>1, <1>2 DEF TypeOK, DeleteSessions
<1>7. /\ command' \in [Runs -> Commands \cup {NoCommand}]
      /\ status' \in [Runs -> RunStatus]
      /\ sequence' \in [Runs -> Nat]
      /\ effect' \in [Runs -> EffectStatuses]
  BY <1>3 DEF TypeOK, DeleteSessions
<1>8. /\ events' \in [Runs -> Seq(Event)]
      /\ decision' \in [Runs -> Decision \cup {NoDecision}]
      /\ remote' \in [Runs -> RemoteRequest \cup {NoRemote}]
  BY <1>5 DEF TypeOK, DeleteSessions
<1>9. outbox' \in [Runs -> [status : EffectStatuses, attempts : Nat]]
  BY <1>4 DEF TypeOK, DeleteSessions
<1> QED
  BY <1>6, <1>7, <1>8, <1>9 DEF TypeOK, DeleteSessions

\* Every operation keeps the tables well typed.
LEMMA NextType == TypeOK /\ [Next]_vars => TypeOK'
<1> SUFFICES ASSUME TypeOK, [Next]_vars PROVE TypeOK'
  OBVIOUS
<1>1. ASSUME NEW c \in Commands, NEW e \in Event, AppendEvent(c, e)
      PROVE  TypeOK'
  <2>1. acked' \in SUBSET (Runs \X Event) /\ retired' = retired
    BY <1>1, CommandFields DEF AppendEvent, TypeOK
  <2>2. CASE InsertInitialRun(c, e)
    BY <2>1, <2>2, InsertType DEF TypeOK
  <2>3. CASE AdvanceRun(c, e)
    BY <2>1, <2>3, AdvanceType DEF TypeOK
  <2>4. CASE RepeatLatest(c, e)
    BY <2>1, <2>4 DEF TypeOK, RepeatLatest, rows
  <2> QED
    BY <1>1, <2>2, <2>3, <2>4 DEF AppendEvent
<1>2. ASSUME NEW r \in Runs, NEW d \in Decision, ResolveRecovery(r, d)
      PROVE  TypeOK'
  <2>1. "committed" \in EffectStatuses /\ "failed" \in EffectStatuses
    BY DEF EffectStatuses
  <2>2. /\ effect' \in [Runs -> EffectStatuses]
        /\ outbox' \in [Runs -> [status : EffectStatuses, attempts : Nat]]
    BY <1>2, <2>1 DEF TypeOK, ResolveRecovery
  <2>3. decision' \in [Runs -> Decision \cup {NoDecision}]
    BY <1>2 DEF TypeOK, ResolveRecovery
  <2> QED
    BY <1>2, <2>2, <2>3 DEF TypeOK, ResolveRecovery
<1>3. ASSUME NEW c \in Commands, NEW t \in Turns, NEW b \in Bodies,
             SaveRemoteRequest(c, t, b)
      PROVE  TypeOK'
  <2>1. c.run_id \in Runs
    BY CommandFields
  <2>2. ASSUME remote[c.run_id] # NoRemote
        PROVE  remote[c.run_id].revision + 1 \in Nat
    BY <2>1, <2>2 DEF TypeOK, RemoteRequest
  <2>3. PICK v \in RemoteRequest : remote' = [remote EXCEPT ![c.run_id] = v]
    <3>1. [turn |-> t, body |-> b, revision |-> 1] \in RemoteRequest
      BY DEF RemoteRequest
    <3>2. CASE remote[c.run_id] = NoRemote
      BY <1>3, <3>1, <3>2 DEF SaveRemoteRequest
    <3>3. CASE remote[c.run_id] # NoRemote
      <4>1. [turn |-> t, body |-> b, revision |-> remote[c.run_id].revision + 1] \in RemoteRequest
        BY <2>2, <3>3 DEF RemoteRequest
      <4> QED
        BY <1>3, <3>3, <4>1 DEF SaveRemoteRequest
    <3> QED
      BY <3>2, <3>3
  <2>4. remote' \in [Runs -> RemoteRequest \cup {NoRemote}]
    BY <2>3 DEF TypeOK
  <2> QED
    BY <1>3, <2>4 DEF TypeOK, SaveRemoteRequest
<1>4. ASSUME NEW T \in SUBSET Targets, DeleteSessions(T)
      PROVE  TypeOK'
  BY <1>4, DeleteType
<1>5. CASE UNCHANGED vars
  BY <1>5 DEF TypeOK, vars, rows
<1> QED
  BY <1>1, <1>2, <1>3, <1>4, <1>5 DEF Next

\* The tables of the Run store are well typed in every reachable state.
THEOREM TypeCorrect == Spec => []TypeOK
BY InitType, NextType, PTL DEF Spec

-----------------------------------------------------------------------------
\* Appending the next legal event keeps a history legal.
LEMMA LegalAppend ==
  ASSUME NEW h \in Seq(Event), LegalHistory(h), Len(h) > 0, NEW e \in Event,
         e.sequence = Len(h) + 1,
         EventStatus(e.kind) \in Transitions(EventStatus(h[Len(h)].kind))
  PROVE  /\ LegalHistory(Append(h, e))
         /\ Len(Append(h, e)) = Len(h) + 1
         /\ Append(h, e)[Len(h) + 1] = e
         /\ \A i \in 1..Len(h) : Append(h, e)[i] = h[i]
<1> DEFINE g == Append(h, e)
<1>1. Len(g) = Len(h) + 1 /\ g[Len(h) + 1] = e /\ \A i \in 1..Len(h) : g[i] = h[i]
  OBVIOUS
<1>2. Len(h) \in Nat
  OBVIOUS
<1>3. EventStatus(g[1].kind) = "queued"
  BY <1>1, <1>2 DEF LegalHistory
<1>4. \A i \in 1..Len(g) : g[i].sequence = i
  BY <1>1, <1>2 DEF LegalHistory
<1>5. ASSUME NEW i \in 1..(Len(g) - 1)
      PROVE  EventStatus(g[i + 1].kind) \in Transitions(EventStatus(g[i].kind))
  <2>1. CASE i = Len(h)
    BY <1>1, <1>2, <2>1
  <2>2. CASE i # Len(h)
    <3>1. i \in 1..(Len(h) - 1) /\ i \in 1..Len(h) /\ i + 1 \in 1..Len(h)
      BY <1>1, <1>2, <2>2
    <3> QED
      BY <1>1, <3>1 DEF LegalHistory
  <2> QED
    BY <2>1, <2>2
<1> QED
  BY <1>1, <1>3, <1>4, <1>5 DEF LegalHistory

\* A terminal status has no successor.
LEMMA TerminalHasNoSuccessor ==
  ASSUME NEW s \in Terminal PROVE Transitions(s) = {}
BY DEF Terminal, Transitions

\* What an append does to the log of its own Run, and that it leaves every
\* other Run alone.
LEMMA AppendEffect ==
  ASSUME TypeOK, LogReplaysToSnapshot, NEW c \in Commands, NEW e \in Event, AppendEvent(c, e)
  PROVE  /\ Replays(c.run_id)'
         /\ HasRow(c.run_id)'
         /\ e.sequence \in 1..Len(events'[c.run_id]) /\ events'[c.run_id][e.sequence] = e
         /\ Len(events[c.run_id]) <= Len(events'[c.run_id])
         /\ \A i \in 1..Len(events[c.run_id]) : events'[c.run_id][i] = events[c.run_id][i]
         /\ status[c.run_id] \in Terminal => status'[c.run_id] = status[c.run_id]
         /\ decision' = decision /\ remote' = remote /\ retired' = retired
         /\ \A r \in Runs \ {c.run_id} :
              /\ command'[r] = command[r] /\ status'[r] = status[r]
              /\ sequence'[r] = sequence[r] /\ events'[r] = events[r]
              /\ effect'[r] = effect[r] /\ outbox'[r] = outbox[r]
<1> DEFINE r == c.run_id
<1>1. r \in Runs /\ c # NoCommand
  BY CommandFields
<1>2. Replays(r) /\ events[r] \in Seq(Event) /\ Len(events[r]) \in Nat
  BY <1>1 DEF LogReplaysToSnapshot, TypeOK
<1>3. CASE InsertInitialRun(c, e)
  <2>1. ~HasRow(r) /\ events[r] = << >> /\ status[r] = "created"
    BY <1>2, <1>3 DEF InsertInitialRun, CanInsert, Replays
  <2>2. /\ command'[r] = c /\ status'[r] = "queued" /\ sequence'[r] = 1 /\ events'[r] = <<e>>
        /\ e.sequence = 1 /\ EventStatus(e.kind) = "queued"
    BY <1>1, <1>3 DEF InsertInitialRun, CanInsert, TypeOK
  <2>3. Len(<<e>>) = 1 /\ <<e>>[1] = e
    OBVIOUS
  <2>4. LegalHistory(<<e>>)
    BY <2>2, <2>3 DEF LegalHistory
  <2>5. "created" \notin Terminal
    BY DEF Terminal
  <2>6. \A q \in Runs \ {r} :
              /\ command'[q] = command[q] /\ status'[q] = status[q]
              /\ sequence'[q] = sequence[q] /\ events'[q] = events[q]
              /\ effect'[q] = effect[q] /\ outbox'[q] = outbox[q]
    BY <1>1, <1>3 DEF InsertInitialRun, TypeOK
  <2>7. Replays(r)' /\ HasRow(r)'
    BY <1>1, <2>2, <2>3, <2>4 DEF Replays, HasRow
  <2>8. decision' = decision /\ remote' = remote
    BY <1>3 DEF InsertInitialRun
  <2>9. retired' = retired
    BY DEF AppendEvent
  <2> QED
    BY <2>1, <2>2, <2>3, <2>5, <2>6, <2>7, <2>8, <2>9
<1>4. CASE AdvanceRun(c, e)
  <2>1. /\ HasRow(r) /\ e.sequence = sequence[r] + 1
        /\ EventStatus(e.kind) \in Transitions(status[r])
    BY <1>4 DEF AdvanceRun, CanAdvance, NextInSequence
  <2>2. /\ sequence[r] = Len(events[r]) /\ sequence[r] > 0 /\ LegalHistory(events[r])
        /\ status[r] = EventStatus(events[r][Len(events[r])].kind) /\ command[r].run_id = r
    BY <1>2, <2>1 DEF Replays
  <2>3. /\ command'[r] = command[r] /\ status'[r] = EventStatus(e.kind)
        /\ sequence'[r] = e.sequence /\ events'[r] = Append(events[r], e)
    BY <1>1, <1>4 DEF AdvanceRun, TypeOK
  <2>4. /\ LegalHistory(Append(events[r], e))
        /\ Len(Append(events[r], e)) = Len(events[r]) + 1
        /\ Append(events[r], e)[Len(events[r]) + 1] = e
        /\ \A i \in 1..Len(events[r]) : Append(events[r], e)[i] = events[r][i]
    BY <1>2, <2>1, <2>2, LegalAppend
  <2>5. status[r] \notin Terminal
    BY <2>1, TerminalHasNoSuccessor
  <2>6. \A q \in Runs \ {r} :
              /\ command'[q] = command[q] /\ status'[q] = status[q]
              /\ sequence'[q] = sequence[q] /\ events'[q] = events[q]
              /\ effect'[q] = effect[q] /\ outbox'[q] = outbox[q]
    BY <1>1, <1>4 DEF AdvanceRun, TypeOK
  <2>7. Replays(r)' /\ HasRow(r)'
    BY <1>2, <2>1, <2>2, <2>3, <2>4 DEF Replays, HasRow
  <2>8. decision' = decision /\ remote' = remote
    BY <1>4 DEF AdvanceRun
  <2>9. retired' = retired
    BY DEF AppendEvent
  <2>10. e.sequence \in 1..Len(events'[r]) /\ events'[r][e.sequence] = e
    BY <1>2, <2>1, <2>2, <2>3, <2>4
  <2> QED
    BY <1>2, <2>3, <2>4, <2>5, <2>6, <2>7, <2>8, <2>9, <2>10
<1>5. CASE RepeatLatest(c, e)
  <2>1. HasRow(r) /\ e.sequence = sequence[r] /\ events[r][e.sequence] = e
    BY <1>5 DEF RepeatLatest, CanRepeat, SameEvent
  <2>2. sequence[r] = Len(events[r]) /\ sequence[r] > 0
    BY <1>2, <2>1 DEF Replays
  <2>3. UNCHANGED rows /\ retired' = retired
    BY <1>5 DEF RepeatLatest, AppendEvent
  <2>4. Replays(r)' /\ HasRow(r)'
    BY <1>2, <2>1, <2>3 DEF Replays, HasRow, rows
  <2> QED
    BY <1>2, <2>1, <2>2, <2>3, <2>4 DEF rows
<1> QED
  BY <1>3, <1>4, <1>5 DEF AppendEvent

\* Deletion empties the rows of the Runs it retires and no others.
LEMMA DeleteEffect ==
  ASSUME TypeOK, NEW T \in SUBSET Targets, DeleteSessions(T),
         NEW r \in Runs
  PROVE  \/ /\ r \in retired'.runs /\ ~HasRow(r)'
            /\ events'[r] = << >> /\ status'[r] = "created"
            /\ decision'[r] = NoDecision /\ remote'[r] = NoRemote
         \/ /\ ~(HasRow(r) /\ command[r].session_id \in Doomed(T))
            /\ command'[r] = command[r] /\ status'[r] = status[r]
            /\ sequence'[r] = sequence[r] /\ events'[r] = events[r]
            /\ effect'[r] = effect[r] /\ outbox'[r] = outbox[r]
            /\ decision'[r] = decision[r] /\ remote'[r] = remote[r]
<1>1. CASE HasRow(r) /\ command[r].session_id \in Doomed(T)
  BY <1>1 DEF DeleteSessions, HasRow
<1>2. CASE ~(HasRow(r) /\ command[r].session_id \in Doomed(T))
  BY <1>2 DEF DeleteSessions
<1> QED
  BY <1>1, <1>2

\* Steps other than appends and deletions leave the log of every Run alone.
LEMMA OtherSteps ==
  ASSUME TypeOK,
         \/ \E r \in Runs, d \in Decision : ResolveRecovery(r, d)
         \/ \E c \in Commands, t \in Turns, b \in Bodies : SaveRemoteRequest(c, t, b)
         \/ UNCHANGED vars
  PROVE  /\ command' = command /\ status' = status /\ sequence' = sequence
         /\ events' = events /\ retired' = retired /\ acked' = acked
         /\ \A r \in Runs : decision'[r] = NoDecision => decision[r] = NoDecision
         /\ \A r \in Runs : decision[r] # NoDecision => decision'[r] = decision[r]
         /\ \A r \in Runs : ~HasRow(r) => decision'[r] = decision[r] /\ remote'[r] = remote[r]
<1>1. ASSUME NEW r \in Runs, NEW d \in Decision, ResolveRecovery(r, d)
      PROVE  /\ command' = command /\ status' = status /\ sequence' = sequence
             /\ events' = events /\ retired' = retired /\ acked' = acked /\ remote' = remote
             /\ decision[r] = NoDecision /\ decision'[r] = d /\ d # NoDecision /\ HasRow(r)
             /\ \A q \in Runs \ {r} : decision'[q] = decision[q]
  BY <1>1, DecisionAssumption DEF ResolveRecovery, Undecided, TypeOK
<1>2. ASSUME NEW c \in Commands, NEW t \in Turns, NEW b \in Bodies, SaveRemoteRequest(c, t, b)
      PROVE  /\ command' = command /\ status' = status /\ sequence' = sequence
             /\ events' = events /\ retired' = retired /\ acked' = acked /\ decision' = decision
             /\ HasRow(c.run_id)
             /\ \A q \in Runs \ {c.run_id} : remote'[q] = remote[q]
  BY <1>2 DEF SaveRemoteRequest, TypeOK
<1>3. CASE UNCHANGED vars
  BY <1>3 DEF vars, rows
<1> QED
  BY <1>1, <1>2, <1>3

\* The log invariant is preserved.
LEMMA NextLog == TypeOK /\ LogReplaysToSnapshot /\ [Next]_vars => LogReplaysToSnapshot'
<1> SUFFICES ASSUME TypeOK, LogReplaysToSnapshot, [Next]_vars, NEW r \in Runs
             PROVE  Replays(r)'
  BY DEF LogReplaysToSnapshot, Runs
<1>0. Replays(r)
  BY DEF LogReplaysToSnapshot
<1>1. ASSUME NEW c \in Commands, NEW e \in Event, AppendEvent(c, e)
      PROVE  Replays(r)'
  <2>1. CASE r = c.run_id
    BY <1>1, <2>1, AppendEffect
  <2>2. CASE r # c.run_id
    <3>1. /\ command'[r] = command[r] /\ status'[r] = status[r]
          /\ sequence'[r] = sequence[r] /\ events'[r] = events[r]
          /\ decision'[r] = decision[r] /\ remote'[r] = remote[r]
      BY <1>1, <2>2, AppendEffect
    <3> QED
      BY <1>0, <3>1 DEF Replays, HasRow
  <2> QED
    BY <2>1, <2>2
<1>2. ASSUME NEW T \in SUBSET Targets, DeleteSessions(T)
      PROVE  Replays(r)'
  <2>1. CASE /\ ~HasRow(r)'
             /\ events'[r] = << >> /\ status'[r] = "created"
             /\ decision'[r] = NoDecision /\ remote'[r] = NoRemote
    BY <2>1 DEF Replays
  <2>2. CASE /\ command'[r] = command[r] /\ status'[r] = status[r]
             /\ sequence'[r] = sequence[r] /\ events'[r] = events[r]
             /\ decision'[r] = decision[r] /\ remote'[r] = remote[r]
    BY <1>0, <2>2 DEF Replays, HasRow
  <2> QED
    BY <1>2, <2>1, <2>2, DeleteEffect
<1>3. CASE \/ \E q \in Runs, d \in Decision : ResolveRecovery(q, d)
           \/ \E c \in Commands, t \in Turns, b \in Bodies : SaveRemoteRequest(c, t, b)
           \/ UNCHANGED vars
  BY <1>0, <1>3, OtherSteps DEF Replays, HasRow
<1> QED
  BY <1>1, <1>2, <1>3 DEF Next

\* The acknowledged events stay in the log.
LEMMA NextAcked ==
  TypeOK /\ LogReplaysToSnapshot /\ AckedIsDurable /\ [Next]_vars => AckedIsDurable'
<1> SUFFICES ASSUME TypeOK, LogReplaysToSnapshot, AckedIsDurable, [Next]_vars,
                    NEW a \in acked'
             PROVE  \/ a[1] \in retired'.runs
                    \/ /\ a[2].sequence \in 1..Len(events'[a[1]])
                       /\ events'[a[1]][a[2].sequence] = a[2]
  BY DEF AckedIsDurable
<1> DEFINE Durable == \/ a[1] \in retired.runs
                      \/ /\ a[2].sequence \in 1..Len(events[a[1]])
                         /\ events[a[1]][a[2].sequence] = a[2]
<1>0. a \in acked => a[1] \in Runs /\ a[2] \in Event /\ Durable
  BY DEF AckedIsDurable, TypeOK
<1>1. ASSUME NEW c \in Commands, NEW e \in Event, AppendEvent(c, e)
      PROVE  \/ a[1] \in retired'.runs
             \/ /\ a[2].sequence \in 1..Len(events'[a[1]])
                /\ events'[a[1]][a[2].sequence] = a[2]
  <2>1. CASE a = <<c.run_id, e>>
    BY <1>1, <2>1, AppendEffect
  <2>2. CASE a \in acked
    <3>1. retired' = retired
      BY <1>1, AppendEffect
    <3>2. CASE a[1] = c.run_id
      <4>1. /\ Len(events[c.run_id]) <= Len(events'[c.run_id])
            /\ \A i \in 1..Len(events[c.run_id]) : events'[c.run_id][i] = events[c.run_id][i]
        BY <1>1, AppendEffect
      <4>2. events[c.run_id] \in Seq(Event) /\ events'[c.run_id] \in Seq(Event)
        <5>1. TypeOK'
          BY <1>1, NextType DEF Next
        <5> QED
          BY <5>1, CommandFields DEF TypeOK
      <4>3. Len(events[c.run_id]) \in Nat /\ Len(events'[c.run_id]) \in Nat
        BY <4>2
      <4> QED
        BY <1>0, <2>2, <3>1, <3>2, <4>1, <4>3
    <3>3. CASE a[1] # c.run_id
      <4>1. events'[a[1]] = events[a[1]]
        BY <1>0, <1>1, <2>2, <3>3, AppendEffect
      <4> QED
        BY <1>0, <2>2, <3>1, <4>1
    <3> QED
      BY <3>2, <3>3
  <2> QED
    BY <1>1, <2>1, <2>2 DEF AppendEvent
<1>2. ASSUME NEW T \in SUBSET Targets, DeleteSessions(T)
      PROVE  \/ a[1] \in retired'.runs
             \/ /\ a[2].sequence \in 1..Len(events'[a[1]])
                /\ events'[a[1]][a[2].sequence] = a[2]
  <2>1. a \in acked
    BY <1>2 DEF DeleteSessions
  <2>2. a[1] \in retired'.runs \/ events'[a[1]] = events[a[1]]
    BY <1>0, <1>2, <2>1, DeleteEffect
  <2>3. retired.runs \subseteq retired'.runs
    BY <1>2 DEF DeleteSessions
  <2> QED
    BY <1>0, <2>1, <2>2, <2>3
<1>3. CASE \/ \E q \in Runs, d \in Decision : ResolveRecovery(q, d)
           \/ \E c \in Commands, t \in Turns, b \in Bodies : SaveRemoteRequest(c, t, b)
           \/ UNCHANGED vars
  <2>1. acked' = acked /\ events' = events /\ retired' = retired
    BY <1>3, OtherSteps
  <2> QED
    BY <1>0, <2>1
<1> QED
  BY <1>1, <1>2, <1>3 DEF Next

-----------------------------------------------------------------------------
\* What deletion retired is not brought back.
LEMMA NextRetired == TypeOK /\ RetiredStaysGone /\ [Next]_vars => RetiredStaysGone'
<1> SUFFICES ASSUME TypeOK, RetiredStaysGone, [Next]_vars,
                    NEW r \in Runs, HasRow(r)'
             PROVE  /\ r \notin retired'.runs
                    /\ command'[r].session_id \notin retired'.sessions
                    /\ command'[r].coord \notin retired'.coords
  BY DEF RetiredStaysGone, Runs
<1>0. HasRow(r) => /\ r \notin retired.runs
                   /\ command[r].session_id \notin retired.sessions
                   /\ command[r].coord \notin retired.coords
  BY DEF RetiredStaysGone
<1>1. ASSUME NEW c \in Commands, NEW e \in Event, AppendEvent(c, e)
      PROVE  /\ r \notin retired'.runs
             /\ command'[r].session_id \notin retired'.sessions
             /\ command'[r].coord \notin retired'.coords
  <2>1. retired' = retired /\ c.coord \notin retired.coords
    BY <1>1 DEF AppendEvent, Accepts
  <2>2. CASE InsertInitialRun(c, e) /\ r = c.run_id
    <3>1. command'[r] = c /\ Writable(c)
      BY <2>2 DEF InsertInitialRun, CanInsert, TypeOK
    <3> QED
      BY <2>1, <2>2, <3>1 DEF Writable
  <2>3. CASE command'[r] = command[r]
    BY <1>0, <2>1, <2>3 DEF HasRow
  <2>4. command'[r] = command[r] \/ (InsertInitialRun(c, e) /\ r = c.run_id)
    BY <1>1 DEF AppendEvent, InsertInitialRun, AdvanceRun, RepeatLatest, rows, TypeOK
  <2> QED
    BY <2>2, <2>3, <2>4
<1>2. ASSUME NEW T \in SUBSET Targets, DeleteSessions(T)
      PROVE  /\ r \notin retired'.runs
             /\ command'[r].session_id \notin retired'.sessions
             /\ command'[r].coord \notin retired'.coords
  <2>1. HasRow(r) /\ command'[r] = command[r] /\ command[r].session_id \notin Doomed(T)
    BY <1>2, DeleteEffect DEF HasRow
  <2>2. /\ r \notin retired'.runs
        /\ retired'.sessions = retired.sessions \cup Doomed(T)
        /\ retired'.coords = retired.coords \cup {t.coord : t \in T}
    BY <1>0, <1>2, <2>1 DEF DeleteSessions
  <2>3. command[r].coord \notin {t.coord : t \in T}
    <3> SUFFICES ASSUME command[r].coord \in {t.coord : t \in T}
                 PROVE  command[r].session_id \in Doomed(T)
      BY <2>1
    <3>1. command[r].coord \in Bindings(command[r].session_id)
      BY <2>1, TargetAssumption DEF Bindings
    <3>2. command[r].session_id \in Sessions
      BY <2>1, CommandFields DEF TypeOK, HasRow
    <3> QED
      BY <3>1, <3>2 DEF Doomed
  <2> QED
    BY <1>0, <2>1, <2>2, <2>3
<1>3. CASE \/ \E q \in Runs, d \in Decision : ResolveRecovery(q, d)
           \/ \E c \in Commands, t \in Turns, b \in Bodies : SaveRemoteRequest(c, t, b)
           \/ UNCHANGED vars
  <2>1. command' = command /\ retired' = retired
    BY <1>3, OtherSteps
  <2> QED
    BY <1>0, <2>1 DEF HasRow
<1> QED
  BY <1>1, <1>2, <1>3 DEF Next

\* No operation gives two Runs the same identity.
LEMMA NextIdentities ==
  TypeOK /\ LogReplaysToSnapshot /\ IdentitiesUnique /\ [Next]_vars => IdentitiesUnique'
<1> DEFINE Differ(q, r) ==
      /\ command[q].command_id # command[r].command_id
      /\ command[q].session_id = command[r].session_id =>
           command[q].idempotency_key # command[r].idempotency_key
      /\ (remote[q] # NoRemote /\ remote[r] # NoRemote
            /\ command[q].coord = command[r].coord) =>
           remote[q].turn # remote[r].turn
<1> SUFFICES ASSUME TypeOK, LogReplaysToSnapshot, IdentitiesUnique, [Next]_vars,
                    NEW q \in Runs, NEW r \in Runs, q # r, HasRow(q)', HasRow(r)'
             PROVE  Differ(q, r)'
  BY DEF IdentitiesUnique, Runs
<1>0. HasRow(q) /\ HasRow(r) => Differ(q, r)
  BY DEF IdentitiesUnique
<1>1. CASE command'[q] = command[q] /\ command'[r] = command[r]
           /\ remote'[q] = remote[q] /\ remote'[r] = remote[r]
  BY <1>0, <1>1 DEF HasRow
<1>2. ASSUME NEW c \in Commands, NEW e \in Event, AppendEvent(c, e)
      PROVE  Differ(q, r)'
  <2>1. CASE InsertInitialRun(c, e)
    <3>1. /\ remote' = remote /\ command'[c.run_id] = c
          /\ \A p \in Runs \ {c.run_id} : command'[p] = command[p]
      BY <2>1, CommandFields DEF InsertInitialRun, TypeOK
    <3>2. remote[c.run_id] = NoRemote
      BY <2>1, CommandFields DEF InsertInitialRun, CanInsert, LogReplaysToSnapshot, Replays
    <3>3. \A p \in Runs : HasRow(p) =>
            /\ command[p].command_id # c.command_id
            /\ command[p].session_id = c.session_id =>
                 command[p].idempotency_key # c.idempotency_key
      BY <2>1 DEF InsertInitialRun, CanInsert, IdentityFree
    <3>4. CASE q = c.run_id
      BY <3>1, <3>2, <3>3, <3>4 DEF HasRow
    <3>5. CASE r = c.run_id
      BY <3>1, <3>2, <3>3, <3>5 DEF HasRow
    <3>6. CASE q # c.run_id /\ r # c.run_id
      BY <1>1, <3>1, <3>6
    <3> QED
      BY <3>4, <3>5, <3>6
  <2>2. CASE AdvanceRun(c, e) \/ RepeatLatest(c, e)
    BY <1>1, <2>2 DEF AdvanceRun, RepeatLatest, rows
  <2> QED
    BY <1>2, <2>1, <2>2 DEF AppendEvent
<1>3. ASSUME NEW p \in Runs, NEW d \in Decision, ResolveRecovery(p, d)
      PROVE  Differ(q, r)'
  BY <1>1, <1>3 DEF ResolveRecovery
<1>4. ASSUME NEW c \in Commands, NEW t \in Turns, NEW b \in Bodies, SaveRemoteRequest(c, t, b)
      PROVE  Differ(q, r)'
  <2>1. /\ command' = command /\ command[c.run_id] = c
        /\ \A p \in Runs \ {c.run_id} : remote'[p] = remote[p]
    BY <1>4, CommandFields DEF SaveRemoteRequest, TypeOK
  <2>2. c.run_id \in Runs /\ remote'[c.run_id].turn = t
    BY <1>4, CommandFields DEF SaveRemoteRequest, TypeOK
  <2>3. \A p \in Runs \ {c.run_id} :
          remote[p] # NoRemote => ~(command[p].coord = c.coord /\ remote[p].turn = t)
    BY <1>4 DEF SaveRemoteRequest, TurnFree
  <2>4. HasRow(q) /\ HasRow(r)
    BY <2>1 DEF HasRow
  <2>5. CASE q = c.run_id
    BY <1>0, <2>1, <2>2, <2>3, <2>4, <2>5
  <2>6. CASE r = c.run_id
    BY <1>0, <2>1, <2>2, <2>3, <2>4, <2>6
  <2>7. CASE q # c.run_id /\ r # c.run_id
    BY <1>1, <2>1, <2>7
  <2> QED
    BY <2>5, <2>6, <2>7
<1>5. ASSUME NEW T \in SUBSET Targets, DeleteSessions(T)
      PROVE  Differ(q, r)'
  BY <1>1, <1>5, DeleteEffect
<1>6. CASE UNCHANGED vars
  BY <1>1, <1>6 DEF vars, rows
<1> QED
  BY <1>2, <1>3, <1>4, <1>5, <1>6 DEF Next

-----------------------------------------------------------------------------
\* Only run_started counts as a dispatch: the status a kind stands for and
\* the attempts column agree.
LEMMA StartedKind ==
  ASSUME NEW k \in EventKinds
  PROVE  EventStatus(k) = "running" <=> k = "run_started"
BY DEF EventKinds, EventStatus

\* An appended event adds one dispatch exactly when it is run_started.
LEMMA DispatchesAppend ==
  ASSUME NEW h \in Seq(Event), NEW e \in Event
  PROVE  Cardinality(Dispatches(Append(h, e)))
           = Cardinality(Dispatches(h)) + Attempts(EventStatus(e.kind))
<1> DEFINE n == Len(h)
           g == Append(h, e)
<1>1. n \in Nat /\ Len(g) = n + 1 /\ g[n + 1] = e /\ \A i \in 1..n : g[i] = h[i]
  OBVIOUS
<1>2. IsFiniteSet(1..n)
  BY <1>1, FS_Interval
<1>3. IsFiniteSet(Dispatches(h)) /\ n + 1 \notin Dispatches(h)
  BY <1>1, <1>2, FS_Subset DEF Dispatches
<1>4. Cardinality(Dispatches(h)) \in Nat
  BY <1>3, FS_CardinalityType
<1>5. e.kind \in EventKinds
  BY DEF Event
<1>6. CASE e.kind = "run_started"
  <2>1. Dispatches(g) = Dispatches(h) \cup {n + 1}
    BY <1>1, <1>6 DEF Dispatches
  <2>2. Cardinality(Dispatches(g)) = Cardinality(Dispatches(h)) + 1
    BY <1>3, <2>1, FS_AddElement
  <2> QED
    BY <1>5, <1>6, <2>2, StartedKind DEF Attempts
<1>7. CASE e.kind # "run_started"
  <2>1. Dispatches(g) = Dispatches(h)
    BY <1>1, <1>7 DEF Dispatches
  <2> QED
    BY <1>4, <1>5, <1>7, <2>1, StartedKind DEF Attempts
<1> QED
  BY <1>6, <1>7

\* The outbox row of a Run stays in step with its log.
LEMMA NextOutbox ==
  TypeOK /\ LogReplaysToSnapshot /\ OutboxMatchesLog /\ [Next]_vars => OutboxMatchesLog'
<1> SUFFICES ASSUME TypeOK, LogReplaysToSnapshot, OutboxMatchesLog, [Next]_vars,
                    NEW r \in Runs, HasRow(r)'
             PROVE  OutboxAgrees(r)'
  BY DEF OutboxMatchesLog, Runs
<1>0. HasRow(r) => OutboxAgrees(r)
  BY DEF OutboxMatchesLog
<1>1. CASE /\ command'[r] = command[r] /\ status'[r] = status[r]
           /\ sequence'[r] = sequence[r] /\ events'[r] = events[r]
           /\ effect'[r] = effect[r] /\ outbox'[r] = outbox[r]
           /\ decision'[r] = decision[r]
  BY <1>0, <1>1 DEF HasRow, OutboxAgrees
<1>2. ASSUME NEW c \in Commands, NEW e \in Event, AppendEvent(c, e)
      PROVE  OutboxAgrees(r)'
  <2>1. CASE r # c.run_id
    BY <1>1, <1>2, <2>1, AppendEffect
  <2>2. CASE r = c.run_id /\ InsertInitialRun(c, e)
    <3>1. /\ events'[r] = <<e>> /\ sequence'[r] = 1 /\ effect'[r] = "pending"
          /\ outbox'[r] = [status |-> "pending", attempts |-> 0]
          /\ EventStatus(e.kind) = "queued"
      BY <2>2 DEF InsertInitialRun, CanInsert, TypeOK
    <3>2. e.kind # "run_started"
      BY <3>1, StartedKind DEF Event
    <3>3. Dispatches(<<e>>) = {}
      BY <3>2 DEF Dispatches
    <3>4. Cardinality({}) = 0
      BY FS_EmptySet
    <3> QED
      BY <3>1, <3>3, <3>4 DEF OutboxAgrees
  <2>3. CASE r = c.run_id /\ AdvanceRun(c, e)
    <3>1. HasRow(r) /\ OutboxAgrees(r) /\ e.sequence = sequence[r] + 1
      BY <1>0, <2>3 DEF AdvanceRun, CanAdvance, NextInSequence
    <3>2. sequence[r] \in Nat /\ sequence[r] > 0
      BY <3>1 DEF LogReplaysToSnapshot, Replays, TypeOK
    <3>3. /\ events'[r] = Append(events[r], e) /\ sequence'[r] = e.sequence
          /\ status'[r] = EventStatus(e.kind)
          /\ effect'[r] = OutboxStatus(EventStatus(e.kind))
          /\ outbox'[r].status = OutboxStatus(EventStatus(e.kind))
          /\ outbox'[r].attempts = outbox[r].attempts + Attempts(EventStatus(e.kind))
      BY <2>3 DEF AdvanceRun, TypeOK
    <3>4. events[r] \in Seq(Event)
      BY DEF TypeOK
    <3>5. outbox'[r].attempts = Cardinality(Dispatches(events'[r]))
      BY <3>1, <3>3, <3>4, DispatchesAppend DEF OutboxAgrees
    <3> QED
      BY <3>1, <3>2, <3>3, <3>5 DEF OutboxAgrees
  <2>4. CASE RepeatLatest(c, e)
    BY <1>1, <2>4 DEF RepeatLatest, rows
  <2> QED
    BY <1>2, <2>1, <2>2, <2>3, <2>4 DEF AppendEvent
<1>3. ASSUME NEW q \in Runs, NEW d \in Decision, ResolveRecovery(q, d)
      PROVE  OutboxAgrees(r)'
  <2>0. DEFINE to == IF d.resolution = "committed" THEN "committed" ELSE "failed"
  <2>1. /\ command' = command /\ status' = status /\ sequence' = sequence /\ events' = events
        /\ decision' = [decision EXCEPT ![q] = d] /\ effect' = [effect EXCEPT ![q] = to]
    BY <1>3 DEF ResolveRecovery
  <2>2. outbox' = [outbox EXCEPT ![q] = [outbox[q] EXCEPT !.status = to]]
    BY <1>3 DEF ResolveRecovery
  <2>3. CASE q # r
    BY <1>1, <2>1, <2>2, <2>3 DEF TypeOK
  <2>4. CASE q = r
    <3>1. OutboxAgrees(r)
      BY <1>0, <1>3, <2>4 DEF ResolveRecovery
    <3>2. decision'[r] = d /\ d # NoDecision /\ effect'[r] = to
      BY <2>1, <2>4, DecisionAssumption DEF TypeOK
    <3>3. outbox'[r].status = to /\ outbox'[r].attempts = outbox[r].attempts
      BY <2>2, <2>4 DEF TypeOK
    <3> QED
      BY <2>1, <3>1, <3>2, <3>3 DEF OutboxAgrees
  <2> QED
    BY <2>3, <2>4
<1>4. ASSUME NEW c \in Commands, NEW t \in Turns, NEW b \in Bodies, SaveRemoteRequest(c, t, b)
      PROVE  OutboxAgrees(r)'
  BY <1>1, <1>4 DEF SaveRemoteRequest
<1>5. ASSUME NEW T \in SUBSET Targets, DeleteSessions(T)
      PROVE  OutboxAgrees(r)'
  BY <1>1, <1>5, DeleteEffect
<1>6. CASE UNCHANGED vars
  BY <1>1, <1>6 DEF vars, rows
<1> QED
  BY <1>2, <1>3, <1>4, <1>5, <1>6 DEF Next

\* Every step but the deletion of a Run keeps what its log says.
LEMMA NextHistory ==
  ASSUME TypeOK, LogReplaysToSnapshot, [Next]_vars, NEW r \in Runs, r \notin retired'.runs
  PROVE  KeepsHistory(r)
<1>1. CASE status'[r] = status[r] /\ decision'[r] = decision[r] /\ events'[r] = events[r]
  <2>1. Len(events[r]) \in Nat
    BY DEF TypeOK
  <2> QED
    BY <1>1, <2>1 DEF KeepsHistory
<1>2. ASSUME NEW c \in Commands, NEW e \in Event, AppendEvent(c, e)
      PROVE  KeepsHistory(r)
  <2>1. CASE r = c.run_id
    BY <1>2, <2>1, AppendEffect DEF KeepsHistory
  <2>2. CASE r # c.run_id
    BY <1>1, <1>2, <2>2, AppendEffect
  <2> QED
    BY <2>1, <2>2
<1>3. ASSUME NEW T \in SUBSET Targets, DeleteSessions(T)
      PROVE  KeepsHistory(r)
  BY <1>1, <1>3, DeleteEffect
<1>4. CASE \/ \E q \in Runs, d \in Decision : ResolveRecovery(q, d)
           \/ \E c \in Commands, t \in Turns, b \in Bodies : SaveRemoteRequest(c, t, b)
           \/ UNCHANGED vars
  <2>1. /\ status' = status /\ events' = events
        /\ decision[r] # NoDecision => decision'[r] = decision[r]
    BY <1>4, OtherSteps
  <2>2. Len(events[r]) \in Nat
    BY DEF TypeOK
  <2> QED
    BY <2>1, <2>2 DEF KeepsHistory
<1> QED
  BY <1>2, <1>3, <1>4 DEF Next

-----------------------------------------------------------------------------
\* The inductive invariant: the properties the store promises hold together.
LEMMA InitInv ==
  Init => /\ LogReplaysToSnapshot /\ AckedIsDurable /\ RetiredStaysGone
          /\ IdentitiesUnique /\ OutboxMatchesLog
BY DEF Init, LogReplaysToSnapshot, Replays, HasRow, AckedIsDurable, RetiredStaysGone,
       IdentitiesUnique, OutboxMatchesLog

\* Whatever the writers offer and in whatever order, the snapshot of every
\* Run is what its event log replays to (append_event).
THEOREM LogCorrect == Spec => []LogReplaysToSnapshot
BY InitType, InitInv, NextType, NextLog, PTL DEF Spec

\* An event the store acknowledged is in the log until its Run is deleted,
\* for any number of writers (append_event).
THEOREM AckedCorrect == Spec => []AckedIsDurable
BY InitType, InitInv, NextType, NextLog, NextAcked, PTL DEF Spec

\* No late writer brings back what deletion retired (the retirement triggers,
\* _append_event).
THEOREM RetiredCorrect == Spec => []RetiredStaysGone
BY InitType, InitInv, NextType, NextRetired, PTL DEF Spec

\* No two Runs share a command, an idempotency key of one session or a
\* remote turn (_insert_initial_run, _save_remote_request).
THEOREM IdentitiesCorrect == Spec => []IdentitiesUnique
BY InitType, InitInv, NextType, NextLog, NextIdentities, PTL DEF Spec

\* The outbox row counts the dispatches of the log and, until recovery is
\* decided, shows its status (outbox_update, _advance_run).
THEOREM OutboxCorrect == Spec => []OutboxMatchesLog
BY InitType, InitInv, NextType, NextLog, NextOutbox, PTL DEF Spec

\* Terminal statuses, recovery decisions and logged events are final until
\* their Run is deleted (_advance_run, _resolve_recovery).
THEOREM HistoryCorrect == Spec => HistoryIsFinal
<1>1. TypeOK /\ LogReplaysToSnapshot /\ [Next]_vars
        => [\A r \in Runs : r \notin retired'.runs => KeepsHistory(r)]_vars
  BY NextHistory
<1> QED
  BY <1>1, InitType, InitInv, NextType, NextLog, PTL DEF Spec, HistoryIsFinal
=============================================================================
