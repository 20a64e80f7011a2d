--------------------------- MODULE ToolEffectsProofs ---------------------------
(***************************************************************************)
(* Proofs about ToolEffects for any number of effects, tasks and troubles: *)
(* the calls use the journal only through its operations, a manual effect  *)
(* takes place at most once, and whoever learns its outcome learns the     *)
(* same, true one.  What the journal itself guarantees is taken from       *)
(* EffectJournalProofs, for this instance of the journal.                  *)
(***************************************************************************)
EXTENDS ToolEffects, TLAPS

Proofs == INSTANCE EffectJournalProofs WITH Coords <- {session}, Calls <- {}

-----------------------------------------------------------------------------
(* The inductive invariant. *)

\* Where the task's call has taken the right to execute its effect.
Starting  == {"run", "tool"}
Running   == Starting \cup {"done", "unknown"}
Executing == Running \cup {"commit", "keep", "submit", "recommit"}

\* Where the outcome is known.
Holding == {"commit", "keep", "submit", "recommit", "resubmit", "mark"}

Places   == {"idle", "inspect", "begin"} \cup Executing \cup Holding
Outcomes == Payloads \cup {NoPayload}
TaskRec  == [at : Places, effect : Effects, outcome : Outcomes]
GhostRec == [do : {"begin", "perform", "unknown", "commit", "mark"}, effect : Effects,
             outcome : Outcomes, task : Tasks]

Typed ==
  /\ task \in [Tasks -> TaskRec] /\ ghosts \subseteq GhostRec
  /\ performed \in [Ids -> Nat] /\ settled \in [Ids -> Outcomes]
  /\ told \subseteq Ids \X (Payloads \cup {"not_executed"})
  /\ \A k \in Tasks : task[k].outcome # NoPayload <=> task[k].at \in Holding
  /\ \A g \in ghosts : /\ g.do = "commit" => g.outcome # NoPayload
                       /\ g.do \in {"begin", "perform"} => g.outcome = NoPayload
  /\ \A i \in Ids : Journal!HasRow(i) /\ row[i].status = "committed" => row[i].result # NoPayload

\* Task k is at one of the places for effect i.
At(k, i, places) == task[k].effect.id = i /\ task[k].at \in places

\* A tool for effect i goes on without its task.
Late(g, i) == g.do = "perform" /\ g.effect.id = i

\* Somebody takes o for the outcome of effect i, or is about to.
Says(i, o) ==
  /\ o \in Payloads
  /\ \/ <<i, o>> \in told \/ settled[i] = o \/ (Journal!HasRow(i) /\ row[i].result = o)
     \/ \E k \in Tasks : task[k].effect.id = i /\ task[k].outcome = o
     \/ \E g \in ghosts : g.effect.id = i /\ g.outcome = o

Silence(i) == \A o \in Payloads : ~Says(i, o)

\* One task executes effect i, and the tool that does its work is started once.
Once(i) ==
  /\ granted[i] = 0 => /\ performed[i] = 0 /\ Silence(i)
                       /\ \A k \in Tasks : ~At(k, i, Executing)
                       /\ \A g \in ghosts : ~Late(g, i)
  /\ \A k, l \in Tasks : At(k, i, Executing) /\ At(l, i, Executing) => k = l
  /\ \A k \in Tasks : At(k, i, Starting) => performed[i] = 0 /\ \A g \in ghosts : ~Late(g, i)
  /\ \A g, h \in ghosts : Late(g, i) /\ Late(h, i) => g = h
  /\ \A g \in ghosts : Late(g, i) => performed[i] = 0
  /\ performed[i] <= 1

\* Nothing is said of it while it runs, and then one thing, which is true.
Truth(i) ==
  /\ \A k \in Tasks : At(k, i, Running) => Silence(i)
  /\ \A g \in ghosts : Late(g, i) => Silence(i)
  /\ \A k \in Tasks : At(k, i, {"done"}) => performed[i] > 0
  /\ \A o, p \in Payloads : Says(i, o) /\ Says(i, p) => o = p
  /\ Says(i, "ok") => performed[i] > 0
  /\ Says(i, "denied") => performed[i] = 0

JournalInv == Journal!TypeOK /\ Journal!EvidenceRemains /\ Journal!GrantedOnce

EffectsInv ==
  /\ JournalInv /\ Typed
  /\ \A i \in Ids : Journal!Manual(i) => Once(i) /\ Truth(i)

-----------------------------------------------------------------------------
(* The journal, as EffectJournalProofs knows it. *)

\* The two instances say the same.
LEMMA SameStates ==
  /\ Journal!TypeOK <=> Proofs!TypeOK
  /\ Journal!EvidenceRemains <=> Proofs!EvidenceRemains
  /\ Journal!GrantedOnce <=> Proofs!GrantedOnce
  /\ Journal!Init <=> Proofs!Init
  /\ Journal!Row = Proofs!Row
BY Zenon
DEF Journal!TypeOK, Journal!EvidenceRemains, Journal!GrantedOnce, Journal!Ids, Journal!Row, Journal!Statuses,
    Journal!HasRow, Journal!Manual, Journal!Init,
    Proofs!TypeOK, Proofs!EvidenceRemains, Proofs!GrantedOnce, Proofs!Ids, Proofs!Row, Proofs!Statuses,
    Proofs!HasRow, Proofs!Manual, Proofs!Init

\* Also of the next state.
LEMMA SameNextStates ==
  /\ Journal!TypeOK' <=> Proofs!TypeOK'
  /\ Journal!EvidenceRemains' <=> Proofs!EvidenceRemains'
  /\ Journal!GrantedOnce' <=> Proofs!GrantedOnce'
BY SameStates, PTL

\* Their steps are the same.
LEMMA SameSteps == [Journal!Next]_journal <=> [Proofs!Next]_(Proofs!vars)
BY Zenon
DEF Journal!Next, Proofs!Next, journal, Proofs!vars, Journal!Begin, Proofs!Begin, Journal!Commit,
    Proofs!Commit, Journal!MarkUnknown, Proofs!MarkUnknown, Journal!MarkReconciled,
    Proofs!MarkReconciled, Journal!SaveToolResult, Proofs!SaveToolResult, Journal!DeleteSessions,
    Proofs!DeleteSessions, Journal!CanBegin, Proofs!CanBegin, Journal!CanInspect, Proofs!CanInspect,
    Journal!CanSettle, Proofs!CanSettle, Journal!Owned, Proofs!Owned, Journal!Decision,
    Proofs!Decision, Journal!Uncertain, Proofs!Uncertain, Journal!Prepared, Proofs!Prepared,
    Journal!ReconciliationResult, Proofs!ReconciliationResult, Journal!CanReconcile,
    Proofs!CanReconcile, Journal!FirstWins, Proofs!FirstWins, Journal!RetiredIds, Proofs!RetiredIds,
    Journal!Ids, Proofs!Ids, Journal!HasRow, Proofs!HasRow

\* What the journal guarantees after each of its operations.
LEMMA JournalKeeps ==
  ASSUME JournalInv, [Journal!Next]_journal
  PROVE JournalInv'
<1>1. /\ NoRow \notin Proofs!Row /\ NoPayload \notin Payloads /\ MaxGrants \in Nat \ {0}
      /\ \A e \in Effects : e.replay \in {"safe", "manual"}
  BY SameStates, EffectsAssumption, GrantsAssumption, AbsentAssumption
<1>2. Proofs!TypeOK /\ [Proofs!Next]_(Proofs!vars) => Proofs!TypeOK'
  BY <1>1, Proofs!NextType
<1>3. Proofs!TypeOK /\ Proofs!EvidenceRemains /\ [Proofs!Next]_(Proofs!vars)
        => Proofs!EvidenceRemains'
  BY <1>1, Proofs!NextEvidence
<1>4. Proofs!TypeOK /\ Proofs!EvidenceRemains /\ Proofs!GrantedOnce /\ [Proofs!Next]_(Proofs!vars)
        => Proofs!GrantedOnce'
  BY <1>1, Proofs!NextGranted
<1> QED BY <1>2, <1>3, <1>4, SameStates, SameNextStates, SameSteps DEF JournalInv

\* An empty journal guarantees it.
LEMMA JournalStarts == Journal!Init => JournalInv
<1>1. /\ NoRow \notin Proofs!Row /\ NoPayload \notin Payloads /\ MaxGrants \in Nat \ {0}
      /\ \A e \in Effects : e.replay \in {"safe", "manual"}
  BY SameStates, EffectsAssumption, GrantsAssumption, AbsentAssumption
<1>2. Proofs!Init => Proofs!TypeOK
  BY <1>1, Proofs!InitType
<1>3. Proofs!Init => Proofs!EvidenceRemains /\ Proofs!GrantedOnce
  BY <1>1, Proofs!InitInv
<1> QED BY <1>2, <1>3, SameStates DEF JournalInv

\* What the callers use of the journal for effect e and outcome p.
Writes(e, p) ==
  \/ UNCHANGED journal
  \/ Journal!Begin(session, e)
  \/ p \in Payloads /\ Journal!Commit(session, e, p)
  \/ Journal!MarkUnknown(session, e, p)
  \/ Journal!MarkReconciled(session, e.id)

\* They use nothing but its operations.
LEMMA WritesAreSteps ==
  ASSUME NEW e \in Effects, NEW p \in Outcomes, Writes(e, p)
  PROVE [Journal!Next]_journal
<1>1. e.id \in Journal!Ids
  BY DEF Journal!Ids
<1> QED BY <1>1 DEF Writes, Journal!Next, Outcomes

\* A row keeps its result or gets the one that is written, and only results
\* are committed.
LEMMA RowFacts ==
  ASSUME Typed, JournalInv, NEW e \in Effects, NEW p \in Outcomes, Writes(e, p), NEW i \in Ids
  PROVE /\ Journal!HasRow(i)' =>
             \/ row'[i].result = NoPayload
             \/ Journal!HasRow(i) /\ row'[i].result = row[i].result
             \/ i = e.id /\ row'[i].result = p
        /\ Journal!HasRow(i)' /\ row'[i].status = "committed" => row'[i].result # NoPayload
        /\ i # e.id => granted'[i] = granted[i]
<1>1. /\ e.id \in Ids /\ row \in [Ids -> Journal!Row \cup {NoRow}]
      /\ NoRow \notin Journal!Row /\ NoPayload \notin Payloads /\ granted \in [Ids -> Nat]
  BY AbsentAssumption DEF JournalInv, Journal!TypeOK, Ids, Journal!Ids
<1>2. Journal!HasRow(i) /\ row[i].status = "committed" => row[i].result # NoPayload
  BY DEF Typed
<1>3. Journal!HasRow(e.id) => row[e.id] \in Journal!Row
  BY <1>1 DEF Journal!HasRow
<1>4. CASE UNCHANGED journal
  BY <1>2, <1>4 DEF journal, Journal!HasRow
<1>5. CASE Journal!Begin(session, e)
  <2>1. PICK w : w = Journal!Prepared(session, e)
    OBVIOUS
  <2>2. PICK to \in {"dispatching", "reconciliation_required", "committed"} :
          /\ row' = [row EXCEPT ![e.id] = [w EXCEPT !.status = to]]
          /\ to = "committed" => Journal!HasRow(e.id) /\ row[e.id].status = "committed"
    BY <1>5, <2>1 DEF Journal!Begin, Journal!Decision
  <2>3. w \in [owner : {w.owner}, fingerprint : {w.fingerprint}, replay : {w.replay},
               status : {w.status}, result : {w.result}]
    BY <1>3, <2>1 DEF Journal!Prepared, Journal!Row
  <2>4. w.result = IF Journal!HasRow(e.id) THEN row[e.id].result ELSE NoPayload
    BY <2>1 DEF Journal!Prepared
  <2>5. PICK u : u = [w EXCEPT !.status = to]
    OBVIOUS
  <2>6. u.status = to /\ u.result = w.result
    BY <2>3, <2>5
  <2>7. row'[i] = IF i = e.id THEN u ELSE row[i]
    BY <1>1, <2>2, <2>5
  <2>8. i # e.id => granted'[i] = granted[i]
    BY <1>1, <1>5 DEF Journal!Begin
  <2>9. CASE i = e.id
    BY <1>2, <2>2, <2>4, <2>6, <2>7, <2>9
  <2>10. CASE i # e.id
    BY <1>2, <2>7, <2>8, <2>10 DEF Journal!HasRow
  <2> QED BY <2>9, <2>10
<1>6. CASE p \in Payloads /\ Journal!Commit(session, e, p)
  <2>1. Journal!HasRow(e.id) /\ row' = [row EXCEPT ![e.id] = [@ EXCEPT !.status = "committed", !.result = p]]
    BY <1>6 DEF Journal!Commit, Journal!CanSettle
  <2>2. i = e.id => row'[i].result = p
    BY <1>1, <1>3, <2>1 DEF Journal!Row
  <2>3. i # e.id => row'[i] = row[i]
    BY <1>1, <2>1
  <2>4. granted' = granted
    BY <1>6 DEF Journal!Commit
  <2> QED BY <1>1, <1>2, <1>6, <2>2, <2>3, <2>4 DEF Journal!HasRow
<1>7. CASE Journal!MarkUnknown(session, e, p)
  <2>1. PICK r : r = IF p = NoPayload THEN row[e.id].result ELSE p
    OBVIOUS
  <2>2. /\ Journal!HasRow(e.id)
        /\ row' = [row EXCEPT ![e.id] = [@ EXCEPT !.status = "reconciliation_required", !.result = r]]
    BY <1>7, <2>1 DEF Journal!MarkUnknown, Journal!CanSettle
  <2>3. i = e.id => row'[i].result = r /\ row'[i].status = "reconciliation_required"
    BY <1>1, <1>3, <2>2 DEF Journal!Row
  <2>4. i # e.id => row'[i] = row[i]
    BY <1>1, <2>2
  <2>5. granted' = granted
    BY <1>7 DEF Journal!MarkUnknown
  <2> QED BY <1>2, <2>1, <2>2, <2>3, <2>4, <2>5 DEF Journal!HasRow
<1>8. CASE Journal!MarkReconciled(session, e.id)
  <2>1. /\ Journal!HasRow(e.id) /\ row[e.id].result # NoPayload
        /\ row' = [row EXCEPT ![e.id] = [@ EXCEPT !.status = "committed"]]
    BY <1>8 DEF Journal!MarkReconciled, Journal!CanReconcile, Journal!ReconciliationResult
  <2>2. i = e.id => row'[i].result = row[i].result
    BY <1>1, <1>3, <2>1 DEF Journal!Row
  <2>3. i # e.id => row'[i] = row[i]
    BY <1>1, <2>1
  <2>4. granted' = granted
    BY <1>8 DEF Journal!MarkReconciled
  <2> QED BY <1>2, <2>1, <2>2, <2>3, <2>4 DEF Journal!HasRow
<1> QED BY <1>4, <1>5, <1>6, <1>7, <1>8 DEF Writes

-----------------------------------------------------------------------------
(* What a step of task k does. *)

\* A call that is left to finish alone.
Left(k, do) == [do |-> do, effect |-> task[k].effect, outcome |-> task[k].outcome, task |-> k]

\* What execute() may return.
Tellable(k, o) ==
  LET i == task[k].effect.id IN
  \/ o = "not_executed"
  \/ o # NoPayload /\ o = task[k].outcome
  \/ o # NoPayload /\ Journal!HasRow(i) /\ o = row[i].result

\* What happens around task k concerns its effect and outcome.
Around(k) ==
  LET e == task[k].effect
      p == task[k].outcome IN
  /\ Writes(e, p)
  /\ \A g \in ghosts' :
       \/ g \in ghosts
       \/ /\ g.do \in {"begin", "perform", "unknown", "commit", "mark"} /\ g = Left(k, g.do)
          /\ g.do = "commit" => p # NoPayload
          /\ g.do \in {"begin", "perform"} => p = NoPayload
  /\ \A x \in told' : x \in told \/ \E o : x = <<e.id, o>> /\ Tellable(k, o)
  /\ settled' \in [Ids -> Outcomes]
  /\ \A i \in Ids : settled'[i] = settled[i] \/ (i = e.id /\ settled'[i] = p)

\* The task itself becomes v.
Does(k, v) ==
  /\ task' = [task EXCEPT ![k] = v] /\ v \in TaskRec
  /\ v.outcome # NoPayload <=> v.at \in Holding
  /\ Around(k)

\* A task is typed.
LEMMA TaskFacts ==
  ASSUME Typed, NEW k \in Tasks
  PROVE /\ task[k] \in TaskRec /\ task[k].effect \in Effects /\ task[k].effect.id \in Ids
        /\ task[k].at \in Places /\ task[k].outcome \in Outcomes
        /\ task[k].outcome # NoPayload <=> task[k].at \in Holding
<1>1. task \in [Tasks -> TaskRec]
  BY DEF Typed
<1>2. task[k] \in TaskRec /\ task[k].effect \in Effects
  BY <1>1 DEF TaskRec
<1>3. task[k].effect.id \in Ids
  BY <1>2 DEF Ids, Journal!Ids
<1> QED BY <1>1, <1>2, <1>3 DEF Typed, TaskRec

\* One task changes, the others stay.
LEMMA OneTask ==
  ASSUME Typed, NEW k \in Tasks, NEW v, task' = [task EXCEPT ![k] = v], NEW l \in Tasks
  PROVE task'[l] = IF l = k THEN v ELSE task[l]
BY DEF Typed

\* The effect ids of the journal are the ones of the calls.
LEMMA IdsAre == Ids = Journal!Ids /\ \A e \in Effects : e.id \in Ids
BY DEF Ids, Journal!Ids

\* What is kept is typed.
LEMMA DoesTyped ==
  ASSUME EffectsInv, NEW k \in Tasks, NEW v, Does(k, v), performed' \in [Ids -> Nat]
  PROVE JournalInv' /\ Typed'
<1>1. JournalInv /\ Typed
  BY DEF EffectsInv
<1>2. /\ task[k].effect \in Effects /\ task[k].effect.id \in Ids /\ task[k].outcome \in Outcomes
  BY <1>1, TaskFacts
<1>3. Writes(task[k].effect, task[k].outcome)
  BY DEF Does, Around
<1>4. JournalInv'
  BY <1>1, <1>2, <1>3, WritesAreSteps, JournalKeeps
<1>5. task' \in [Tasks -> TaskRec] /\ \A l \in Tasks : task'[l].outcome # NoPayload <=> task'[l].at \in Holding
  <2>1. task \in [Tasks -> TaskRec] /\ \A l \in Tasks : task[l].outcome # NoPayload <=> task[l].at \in Holding
    BY <1>1 DEF Typed
  <2>2. /\ task' = [task EXCEPT ![k] = v] /\ v \in TaskRec
        /\ v.outcome # NoPayload <=> v.at \in Holding
    BY DEF Does, Around
  <2> QED BY <2>1, <2>2
<1>6. /\ ghosts' \subseteq GhostRec
      /\ \A g \in ghosts' : /\ g.do = "commit" => g.outcome # NoPayload
                            /\ g.do \in {"begin", "perform"} => g.outcome = NoPayload
  <2> SUFFICES ASSUME NEW g \in ghosts'
               PROVE /\ g \in GhostRec
                     /\ g.do = "commit" => g.outcome # NoPayload
                     /\ g.do \in {"begin", "perform"} => g.outcome = NoPayload
    OBVIOUS
  <2>1. CASE g \in ghosts
    BY <1>1, <2>1 DEF Typed
  <2>2. CASE g \notin ghosts
    <3>1. /\ g.do \in {"begin", "perform", "unknown", "commit", "mark"} /\ g = Left(k, g.do)
          /\ g.do = "commit" => task[k].outcome # NoPayload
          /\ g.do \in {"begin", "perform"} => task[k].outcome = NoPayload
      BY <2>2 DEF Does, Around
    <3>2. g.outcome = task[k].outcome /\ g \in GhostRec
      BY <1>2, <3>1 DEF Left, GhostRec
    <3> QED BY <3>1, <3>2
  <2> QED BY <2>1, <2>2
<1>7. told' \subseteq Ids \X (Payloads \cup {"not_executed"})
  <2> SUFFICES ASSUME NEW x \in told', x \notin told PROVE x \in Ids \X (Payloads \cup {"not_executed"})
    BY <1>1 DEF Typed
  <2>1. PICK o : x = <<task[k].effect.id, o>> /\ Tellable(k, o)
    BY DEF Does, Around
  <2>2. \A i \in Ids : Journal!HasRow(i) => row[i].result \in Outcomes
    BY <1>1 DEF JournalInv, Journal!TypeOK, Journal!HasRow, Journal!Row, Outcomes, Ids, Journal!Ids
  <2>3. o \in Payloads \cup {"not_executed"}
    BY <1>2, <2>1, <2>2 DEF Tellable, Outcomes
  <2> QED BY <1>2, <2>1, <2>3
<1>8. \A i \in Ids : (Journal!HasRow(i) /\ row[i].status = "committed" => row[i].result # NoPayload)'
  <2> TAKE i \in Ids
  <2> QED BY <1>1, <1>2, <1>3, RowFacts
<1>9. settled' \in [Ids -> Outcomes]
  BY DEF Does, Around
<1> QED BY <1>4, <1>5, <1>6, <1>7, <1>8, <1>9 DEF Typed

\* Nothing is said that was not said before, or by the task itself.
LEMMA DoesSays ==
  ASSUME EffectsInv, NEW k \in Tasks, NEW v, Does(k, v), NEW i \in Ids, NEW o \in Payloads, Says(i, o)'
  PROVE Says(i, o) \/ (v.effect.id = i /\ v.outcome = o)
<1>1. JournalInv /\ Typed /\ o # NoPayload /\ o # "not_executed"
  BY AbsentAssumption DEF EffectsInv, Payloads
<1>2. /\ task[k].effect \in Effects /\ task[k].effect.id \in Ids /\ task[k].outcome \in Outcomes
  BY <1>1, TaskFacts
<1>3. task[k].effect.id = i /\ task[k].outcome = o => Says(i, o)
  BY DEF Says
<1>4. CASE <<i, o>> \in told'
  <2>1. CASE <<i, o>> \in told
    BY <2>1 DEF Says
  <2>2. CASE <<i, o>> \notin told
    <3>1. PICK q : <<i, o>> = <<task[k].effect.id, q>> /\ Tellable(k, q)
      BY <1>4, <2>2 DEF Does, Around
    <3>2. task[k].effect.id = i /\ Tellable(k, o)
      BY <3>1
    <3> QED BY <1>1, <1>3, <3>2 DEF Tellable, Says
  <2> QED BY <2>1, <2>2
<1>5. CASE settled'[i] = o
  <2>1. settled'[i] = settled[i] \/ (i = task[k].effect.id /\ settled'[i] = task[k].outcome)
    BY DEF Does, Around
  <2> QED BY <1>3, <1>5, <2>1 DEF Says
<1>6. CASE Journal!HasRow(i)' /\ row'[i].result = o
  <2>1. \/ Journal!HasRow(i) /\ row'[i].result = row[i].result
        \/ i = task[k].effect.id /\ row'[i].result = task[k].outcome
    BY <1>1, <1>2, <1>6, RowFacts DEF Does, Around
  <2> QED BY <1>3, <1>6, <2>1 DEF Says
<1>7. CASE \E l \in Tasks : task'[l].effect.id = i /\ task'[l].outcome = o
  <2>1. PICK l \in Tasks : task'[l].effect.id = i /\ task'[l].outcome = o
    BY <1>7
  <2>2. task'[l] = IF l = k THEN v ELSE task[l]
    BY <1>1, OneTask DEF Does
  <2> QED BY <2>1, <2>2 DEF Says
<1>8. CASE \E g \in ghosts' : g.effect.id = i /\ g.outcome = o
  <2>1. PICK g \in ghosts' : g.effect.id = i /\ g.outcome = o
    BY <1>8
  <2>2. CASE g \in ghosts
    BY <2>1, <2>2 DEF Says
  <2>3. CASE g \notin ghosts
    <3>1. g = Left(k, g.do)
      BY <2>3 DEF Does, Around
    <3>2. g.effect = task[k].effect /\ g.outcome = task[k].outcome
      BY <3>1 DEF Left
    <3> QED BY <1>3, <2>1, <3>2
  <2> QED BY <2>2, <2>3
<1> QED BY <1>4, <1>5, <1>6, <1>7, <1>8 DEF Says

\* Where the tasks are.
LEMMA DoesAt ==
  ASSUME EffectsInv, NEW k \in Tasks, NEW v, Does(k, v), NEW i, NEW S, NEW l \in Tasks
  PROVE At(l, i, S)' <=> IF l = k THEN v.effect.id = i /\ v.at \in S ELSE At(l, i, S)
<1>1. task'[l] = IF l = k THEN v ELSE task[l]
  BY OneTask DEF Does, EffectsInv
<1> QED BY <1>1 DEF At

\* An effect is left alone, or less is under way for it.
Quiet(i) ==
  /\ \A k \in Tasks : /\ At(k, i, Executing)' => At(k, i, Executing)
                      /\ At(k, i, Starting)' => At(k, i, Starting)
                      /\ At(k, i, Running)' => At(k, i, Running)
                      /\ At(k, i, {"done"})' => At(k, i, {"done"})
  /\ \A g \in ghosts' : Late(g, i) => g \in ghosts
  /\ \A o \in Payloads : Says(i, o)' => Says(i, o)
  /\ performed'[i] = performed[i]
  /\ granted'[i] = 0 => granted[i] = 0

\* Then nothing about it can go wrong.
LEMMA QuietKeeps ==
  ASSUME NEW i, Once(i), Truth(i), Quiet(i)
  PROVE Once(i)' /\ Truth(i)'
<1>1. Silence(i) => Silence(i)'
  BY DEF Silence, Quiet
<1>2. Says(i, "ok")' => Says(i, "ok")
  BY DEF Quiet, Payloads
<1>3. Says(i, "denied")' => Says(i, "denied")
  BY DEF Quiet, Payloads
<1>4. Once(i)'
  BY <1>1 DEF Once, Quiet
<1>5. Truth(i)'
  BY <1>1, <1>2, <1>3 DEF Truth, Quiet
<1> QED BY <1>4, <1>5

\* A task that moves on, gives up or looks on leaves the effect alone.
LEMMA DoesQuiet ==
  ASSUME EffectsInv, NEW k \in Tasks, NEW v, Does(k, v), NEW i \in Ids, Once(i), Truth(i),
         v.effect.id = i => /\ \A S \in {Executing, Starting, Running, {"done"}} :
                                 v.at \in S => At(k, i, S)
                            /\ v.outcome # NoPayload => Says(i, v.outcome),
         \A g \in ghosts' : Late(g, i) => g \in ghosts,
         performed'[i] = performed[i], granted'[i] = 0 => granted[i] = 0
  PROVE Once(i)' /\ Truth(i)'
<1>1. \A l \in Tasks : \A S \in {Executing, Starting, Running, {"done"}} : At(l, i, S)' => At(l, i, S)
  BY DoesAt
<1>2. \A o \in Payloads : Says(i, o)' => Says(i, o)
  <2> TAKE o \in Payloads
  <2>1. o # NoPayload
    BY AbsentAssumption
  <2> QED BY <2>1, DoesSays
<1>3. Quiet(i)
  BY <1>1, <1>2 DEF Quiet
<1> QED BY <1>3, QuietKeeps

-----------------------------------------------------------------------------
(* Steps that leave no more to do than before. *)

\* No tool starts or ends, and no right to execute is taken.
Calm ==
  /\ performed' = performed /\ granted' = granted
  /\ \A g \in ghosts' : g.do = "perform" => g \in ghosts

\* The ways in which a step touches what is around its task.
LEMMA AroundFrom ==
  ASSUME EffectsInv, NEW k \in Tasks, Writes(task[k].effect, task[k].outcome),
         \/ ghosts' \subseteq ghosts
         \/ \E do \in {"begin", "perform", "unknown", "commit", "mark"} :
              /\ Ghost(k, do)
              /\ do = "commit" => task[k].outcome # NoPayload
              /\ do \in {"begin", "perform"} => task[k].outcome = NoPayload,
         \/ told' = told
         \/ \E o : Tellable(k, o) /\ told' = told \cup {<<task[k].effect.id, o>>},
         settled' = settled \/ Settle(task[k].effect.id, task[k].outcome)
  PROVE Around(k)
<1>1. Typed
  BY DEF EffectsInv
<1>2. task[k].effect.id \in Ids /\ task[k].outcome \in Outcomes /\ settled \in [Ids -> Outcomes]
  BY <1>1, TaskFacts DEF Typed
<1>3. \A g \in ghosts' :
       \/ g \in ghosts
       \/ /\ g.do \in {"begin", "perform", "unknown", "commit", "mark"} /\ g = Left(k, g.do)
          /\ g.do = "commit" => task[k].outcome # NoPayload
          /\ g.do \in {"begin", "perform"} => task[k].outcome = NoPayload
  <2> SUFFICES ASSUME NEW g \in ghosts', g \notin ghosts
               PROVE /\ g.do \in {"begin", "perform", "unknown", "commit", "mark"} /\ g = Left(k, g.do)
                     /\ g.do = "commit" => task[k].outcome # NoPayload
                     /\ g.do \in {"begin", "perform"} => task[k].outcome = NoPayload
    OBVIOUS
  <2>1. PICK do \in {"begin", "perform", "unknown", "commit", "mark"} :
          /\ Ghost(k, do)
          /\ do = "commit" => task[k].outcome # NoPayload
          /\ do \in {"begin", "perform"} => task[k].outcome = NoPayload
    OBVIOUS
  <2>2. g = Left(k, do) /\ g.do = do
    BY <2>1 DEF Left, Ghost
  <2> QED BY <2>1, <2>2
<1>4. \A x \in told' : x \in told \/ \E o : x = <<task[k].effect.id, o>> /\ Tellable(k, o)
  OBVIOUS
<1>5. /\ settled' \in [Ids -> Outcomes]
      /\ \A i \in Ids : settled'[i] = settled[i] \/ (i = task[k].effect.id /\ settled'[i] = task[k].outcome)
  BY <1>2 DEF Settle, Acceptable
<1> QED BY <1>3, <1>4, <1>5 DEF Around

\* The task goes somewhere else with what it knows.
LEMMA GotoFacts ==
  ASSUME Typed, NEW k \in Tasks, NEW at \in Places, Goto(k, at)
  PROVE \E v \in TaskRec : /\ task' = [task EXCEPT ![k] = v] /\ v.at = at
                           /\ v.effect = task[k].effect /\ v.outcome = task[k].outcome
<1>1. task[k] \in TaskRec
  BY TaskFacts
<1>2. PICK v : v = [task[k] EXCEPT !.at = at]
  OBVIOUS
<1>3. v \in TaskRec /\ v.at = at /\ v.effect = task[k].effect /\ v.outcome = task[k].outcome
  BY <1>1, <1>2 DEF TaskRec
<1>4. task' = [task EXCEPT ![k] = v]
  BY <1>2 DEF Goto
<1> QED BY <1>3, <1>4

\* A task without a call.
LEMMA IdleFacts ==
  Idle \in TaskRec /\ Idle.at = "idle" /\ Idle.outcome = NoPayload
<1>1. (CHOOSE e \in Effects : TRUE) \in Effects
  BY EffectsAssumption
<1> QED BY <1>1 DEF Idle, TaskRec, Places, Outcomes

\* A task that goes on, without a new right, keeps the invariant.
LEMMA MovesOn ==
  ASSUME EffectsInv, NEW k \in Tasks, NEW v, Does(k, v), Calm,
         v.outcome = NoPayload \/ (v.effect = task[k].effect /\ v.outcome = task[k].outcome),
         \A S \in {Executing, Starting, Running, {"done"}} :
            v.at \in S => v.effect = task[k].effect /\ task[k].at \in S
  PROVE EffectsInv'
<1>1. Typed /\ JournalInv
  BY DEF EffectsInv
<1>2. performed' \in [Ids -> Nat]
  BY <1>1 DEF Calm, Typed
<1>3. JournalInv' /\ Typed'
  BY <1>2, DoesTyped
<1>4. ASSUME NEW i \in Ids, Journal!Manual(i)
      PROVE Once(i)' /\ Truth(i)'
  <2>1. Once(i) /\ Truth(i)
    BY <1>4 DEF EffectsInv
  <2>2. v.effect.id = i => \A S \in {Executing, Starting, Running, {"done"}} : v.at \in S => At(k, i, S)
    BY DEF At
  <2>3. v.effect.id = i /\ v.outcome # NoPayload => Says(i, v.outcome)
    <3>1. v.outcome \in Outcomes
      BY DEF Does, TaskRec
    <3> QED BY <3>1 DEF Says, Outcomes
  <2>4. \A g \in ghosts' : Late(g, i) => g \in ghosts
    BY DEF Calm, Late
  <2>5. performed'[i] = performed[i] /\ granted'[i] = granted[i]
    BY DEF Calm
  <2> QED BY <2>1, <2>2, <2>3, <2>4, <2>5, DoesQuiet
<1> QED BY <1>3, <1>4 DEF EffectsInv

\* It goes on to another place.
LEMMA GoesOn ==
  ASSUME EffectsInv, NEW k \in Tasks, NEW at \in Places, Goto(k, at), Around(k), Calm,
         at \in Holding <=> task[k].at \in Holding,
         \A S \in {Executing, Starting, Running, {"done"}} : at \in S => task[k].at \in S
  PROVE EffectsInv'
<1>1. Typed
  BY DEF EffectsInv
<1>2. PICK v \in TaskRec : /\ task' = [task EXCEPT ![k] = v] /\ v.at = at
                           /\ v.effect = task[k].effect /\ v.outcome = task[k].outcome
  BY <1>1, GotoFacts
<1>3. Does(k, v)
  BY <1>1, <1>2, TaskFacts DEF Does
<1> QED BY <1>2, <1>3, MovesOn

\* Or its call is over.
LEMMA GivesUp ==
  ASSUME EffectsInv, NEW k \in Tasks, Leave(k), Around(k), Calm
  PROVE EffectsInv'
<1>1. Does(k, Idle)
  BY IdleFacts DEF Does, Leave, Holding
<1>2. \A S \in {Executing, Starting, Running, {"done"}} : Idle.at \notin S
  BY IdleFacts DEF Executing, Starting, Running
<1> QED BY <1>1, <1>2, IdleFacts, MovesOn

-----------------------------------------------------------------------------
(* The steps of a call that take no right and start no tool. *)

\* A step of that kind: it writes what the task knows.
CalmStep(k) ==
  /\ Calm /\ Writes(task[k].effect, task[k].outcome)
  /\ \/ ghosts' \subseteq ghosts
     \/ \E do \in {"begin", "unknown", "commit", "mark"} :
          /\ Ghost(k, do)
          /\ do = "commit" => task[k].outcome # NoPayload
          /\ do = "begin" => task[k].outcome = NoPayload
  /\ settled' = settled \/ Settle(task[k].effect.id, task[k].outcome)

\* The call is over, with or without an answer.
Ends(k) ==
  \/ Leave(k) /\ told' = told
  \/ \E o : Tellable(k, o) /\ Return(k, o)

\* A call that ends calmly keeps the invariant.
LEMMA CallEnds ==
  ASSUME EffectsInv, NEW k \in Tasks, CalmStep(k), Ends(k)
  PROVE EffectsInv'
<1>1. Around(k)
  <2>1. \/ ghosts' \subseteq ghosts
        \/ \E do \in {"begin", "perform", "unknown", "commit", "mark"} :
             /\ Ghost(k, do)
             /\ do = "commit" => task[k].outcome # NoPayload
             /\ do \in {"begin", "perform"} => task[k].outcome = NoPayload
    BY DEF CalmStep
  <2>2. \/ told' = told
        \/ \E o : Tellable(k, o) /\ told' = told \cup {<<task[k].effect.id, o>>}
    BY DEF Ends, Return
  <2> QED BY <2>1, <2>2, AroundFrom DEF CalmStep
<1>2. Leave(k)
  BY DEF Ends, Return
<1> QED BY <1>1, <1>2, GivesUp DEF CalmStep

\* And so does one that goes on.
LEMMA CallGoesOn ==
  ASSUME EffectsInv, NEW k \in Tasks, CalmStep(k), NEW at \in Places, Goto(k, at), told' = told,
         at \in Holding <=> task[k].at \in Holding,
         \A S \in {Executing, Starting, Running, {"done"}} : at \in S => task[k].at \in S
  PROVE EffectsInv'
<1>1. Around(k)
  <2>1. \/ ghosts' \subseteq ghosts
        \/ \E do \in {"begin", "perform", "unknown", "commit", "mark"} :
             /\ Ghost(k, do)
             /\ do = "commit" => task[k].outcome # NoPayload
             /\ do \in {"begin", "perform"} => task[k].outcome = NoPayload
    BY DEF CalmStep
  <2> QED BY <2>1, AroundFrom DEF CalmStep
<1> QED BY <1>1, GoesOn DEF CalmStep

\* What the journal's answer makes of the call.
LEMMA FollowFacts ==
  ASSUME EffectsInv, NEW k \in Tasks, NEW next, Follow(k, Journal!Decision(task[k].effect), next)
  PROVE \/ Journal!Decision(task[k].effect) = "execute" /\ Goto(k, next) /\ told' = told
        \/ Journal!Decision(task[k].effect) # "execute" /\ Ends(k)
<1>1. task[k].effect.id \in Ids
  BY TaskFacts DEF EffectsInv
<1>2. CASE Journal!Decision(task[k].effect) = "reuse" /\ Return(k, row[task[k].effect.id].result)
  <2>1. Journal!HasRow(task[k].effect.id) /\ row[task[k].effect.id].status = "committed"
    BY <1>2 DEF Journal!Decision
  <2>2. row[task[k].effect.id].result # NoPayload
    BY <1>1, <2>1 DEF EffectsInv, Typed
  <2>3. Tellable(k, row[task[k].effect.id].result)
    BY <2>1, <2>2 DEF Tellable
  <2> QED BY <1>2, <2>3 DEF Ends
<1> QED BY <1>2 DEF Follow, Ends

\* A call that is not executed.
LEMMA UnavailableEnds ==
  ASSUME NEW k \in Tasks, Unavailable(k)
  PROVE Ends(k)
BY DEF Unavailable, Ends, Tellable

\* The places of a call, once and for all.
LEMMA PlaceFacts ==
  ASSUME NEW k \in Tasks, NEW at,
         \/ task[k].at = "inspect" /\ at = "begin"
         \/ task[k].at = "run" /\ at = "tool"
         \/ task[k].at \in {"run", "tool", "done"} /\ at = "unknown"
         \/ task[k].at = "commit" /\ at = "keep"
         \/ task[k].at = "keep" /\ at = "submit"
         \/ task[k].at = "submit" /\ at = "recommit"
         \/ task[k].at = "resubmit" /\ at = "mark"
  PROVE /\ at \in Places /\ (at \in Holding <=> task[k].at \in Holding)
        /\ \A S \in {Executing, Starting, Running, {"done"}} : at \in S => task[k].at \in S
<1>1. at \in Places
  BY DEF Places, Executing, Running, Starting, Holding
<1>2. at \in Holding <=> task[k].at \in Holding
  BY DEF Holding
<1>3. at \in Starting => task[k].at \in Starting
  BY DEF Starting
<1>4. at \in Running => task[k].at \in Running
  BY DEF Running, Starting
<1>5. at \in Executing => task[k].at \in Executing
  BY DEF Executing, Running, Starting
<1>6. at # "done"
  OBVIOUS
<1> QED BY <1>1, <1>2, <1>3, <1>4, <1>5, <1>6

\* inspect() only looks.
LEMMA InspectKeeps ==
  ASSUME EffectsInv, NEW k \in Tasks, Inspect(k)
  PROVE EffectsInv'
<1>1. CalmStep(k)
  BY DEF Inspect, CalmStep, Calm, journal, Writes
<1>2. (Goto(k, "begin") /\ told' = told) \/ Ends(k)
  BY FollowFacts, UnavailableEnds DEF Inspect
<1>3. CASE Goto(k, "begin") /\ told' = told
  <2>1. task[k].at = "inspect"
    BY DEF Inspect
  <2> QED BY <1>1, <1>3, <2>1, CallGoesOn, PlaceFacts
<1> QED BY <1>1, <1>2, <1>3, CallEnds

\* begin() answers without the right to execute, or fails.
LEMMA BeginEnds ==
  ASSUME EffectsInv, NEW k \in Tasks, Begin(k),
         ~Journal!CanBegin(session, task[k].effect) \/ Journal!Decision(task[k].effect) # "execute"
  PROVE EffectsInv'
<1>1. CASE Journal!CanBegin(session, task[k].effect)
  <2>1. Journal!Begin(session, task[k].effect) /\ Ends(k)
    BY <1>1, FollowFacts DEF Begin
  <2>2. granted' = granted
    <3>1. granted \in [Ids -> Nat] /\ granted' = [granted EXCEPT ![task[k].effect.id] = @]
      BY <2>1, <1>1 DEF Journal!Begin, EffectsInv, JournalInv, Journal!TypeOK, Ids
    <3> QED BY <3>1
  <2>3. CalmStep(k)
    BY <2>1, <2>2 DEF Begin, CalmStep, Calm, Writes
  <2> QED BY <2>1, <2>3, CallEnds
<1>2. CASE ~Journal!CanBegin(session, task[k].effect)
  <2>1. CalmStep(k)
    BY <1>2 DEF Begin, CalmStep, Calm, Writes, journal
  <2> QED BY <1>2, <2>1, CallEnds, UnavailableEnds DEF Begin
<1> QED BY <1>1, <1>2

\* The journal cannot be read.
LEMMA JournalFailsKeeps ==
  ASSUME EffectsInv, NEW k \in Tasks, JournalFails(k)
  PROVE EffectsInv'
<1>1. CalmStep(k)
  BY DEF JournalFails, CalmStep, Calm, journal, Writes
<1> QED BY <1>1, CallEnds, UnavailableEnds DEF JournalFails

\* The tool is started, or the invocation raises.
LEMMA RunKeeps ==
  ASSUME EffectsInv, NEW k \in Tasks, StartTool(k) \/ RunRaises(k)
  PROVE EffectsInv'
<1>1. CalmStep(k) /\ told' = told
  BY DEF StartTool, RunRaises, CalmStep, Calm, journal, Writes
<1>2. CASE StartTool(k)
  BY <1>1, <1>2, CallGoesOn, PlaceFacts DEF StartTool
<1>3. CASE RunRaises(k)
  BY <1>1, <1>3, CallGoesOn, PlaceFacts DEF RunRaises
<1> QED BY <1>2, <1>3

\* Settling writes are the journal's own operations and grant nothing.
LEMMA SettlingWrites ==
  ASSUME EffectsInv, NEW k \in Tasks,
         \/ TryCommit(k) /\ task[k].at \in Holding
         \/ TryMarkUnknown(k) \/ UNCHANGED journal
  PROVE Writes(task[k].effect, task[k].outcome) /\ granted' = granted
<1>1. task[k].at \in Holding => task[k].outcome \in Payloads
  BY TaskFacts DEF EffectsInv, Outcomes
<1> QED BY <1>1 DEF TryCommit, TryMarkUnknown, Writes, Journal!Commit, Journal!MarkUnknown, journal

\* The error is recorded.
LEMMA RecordUnknownKeeps ==
  ASSUME EffectsInv, NEW k \in Tasks, RecordUnknown(k)
  PROVE EffectsInv'
<1>1. CalmStep(k)
  BY SettlingWrites DEF RecordUnknown, CalmStep, Calm
<1> QED BY <1>1, CallEnds DEF RecordUnknown, Ends

\* An outcome that is known can be returned.
LEMMA ReturnEnds ==
  ASSUME EffectsInv, NEW k \in Tasks, task[k].at \in Holding, Return(k, task[k].outcome)
  PROVE Ends(k)
BY TaskFacts DEF EffectsInv, Ends, Tellable

\* The outcome is committed.
LEMMA CommitKeeps ==
  ASSUME EffectsInv, NEW k \in Tasks, Commit(k) \/ CommitFails(k)
  PROVE EffectsInv'
<1>1. task[k].at = "commit" /\ task[k].at \in Holding
  BY DEF Commit, CommitFails, Holding
<1>2. CalmStep(k)
  BY <1>1, SettlingWrites DEF Commit, CommitFails, CalmStep, Calm
<1>3. Return(k, task[k].outcome) \/ (Goto(k, "keep") /\ told' = told)
  BY DEF Commit, CommitFails
<1>4. CASE Return(k, task[k].outcome)
  BY <1>1, <1>2, <1>4, ReturnEnds, CallEnds
<1>5. CASE Goto(k, "keep") /\ told' = told
  BY <1>1, <1>2, <1>5, CallGoesOn, PlaceFacts
<1> QED BY <1>3, <1>4, <1>5

\* Or kept as a candidate.
LEMMA KeepKeeps ==
  ASSUME EffectsInv, NEW k \in Tasks, Keep(k)
  PROVE EffectsInv'
<1>1. CalmStep(k) /\ told' = told
  BY SettlingWrites DEF Keep, CalmStep, Calm
<1> QED BY <1>1, CallGoesOn, PlaceFacts DEF Keep

\* The service is told; the request may fail.
LEMMA SubmitKeeps ==
  ASSUME EffectsInv, NEW k \in Tasks, Submit(k) \/ Resubmit(k) \/ SubmitFails(k)
  PROVE EffectsInv'
<1>1. CalmStep(k) /\ told' = told
  BY DEF Submit, Resubmit, SubmitFails, CalmStep, Calm, journal, Writes
<1>2. CASE Leave(k)
  BY <1>1, <1>2, CallEnds DEF Ends
<1>3. CASE task[k].at = "submit" /\ Goto(k, "recommit")
  BY <1>1, <1>3, CallGoesOn, PlaceFacts
<1>4. CASE task[k].at = "resubmit" /\ Goto(k, "mark")
  BY <1>1, <1>4, CallGoesOn, PlaceFacts
<1> QED BY <1>2, <1>3, <1>4 DEF Submit, Resubmit, SubmitFails

\* The last attempt to commit.
LEMMA RecommitKeeps ==
  ASSUME EffectsInv, NEW k \in Tasks, Recommit(k)
  PROVE EffectsInv'
<1>1. task[k].at \in Holding
  BY DEF Recommit, Holding
<1>2. CalmStep(k)
  BY <1>1, SettlingWrites DEF Recommit, CalmStep, Calm
<1> QED BY <1>1, <1>2, ReturnEnds, CallEnds DEF Recommit

\* The journal learns that the service was told.
LEMMA MarkKeeps ==
  ASSUME EffectsInv, NEW k \in Tasks, Mark(k)
  PROVE EffectsInv'
<1>1. Writes(task[k].effect, task[k].outcome) /\ granted' = granted
  BY DEF Mark, Writes, Journal!MarkReconciled, journal
<1>2. CalmStep(k)
  BY <1>1 DEF Mark, CalmStep, Calm
<1> QED BY <1>2, CallEnds DEF Mark, Ends

\* A settling write fails.
LEMMA WriteFailsKeeps ==
  ASSUME EffectsInv, NEW k \in Tasks, WriteFails(k)
  PROVE EffectsInv'
<1>1. CalmStep(k)
  BY DEF WriteFails, CalmStep, Calm, journal, Writes
<1>2. CASE Leave(k) /\ told' = told
  BY <1>1, <1>2, CallEnds DEF Ends
<1>3. CASE task[k].at = "keep" /\ Goto(k, "submit") /\ told' = told
  BY <1>1, <1>3, CallGoesOn, PlaceFacts
<1>4. CASE task[k].at = "recommit" /\ Return(k, task[k].outcome)
  <2>1. task[k].at \in Holding
    BY <1>4 DEF Holding
  <2> QED BY <1>1, <1>4, <2>1, ReturnEnds, CallEnds
<1> QED BY <1>2, <1>3, <1>4 DEF WriteFails

-----------------------------------------------------------------------------
(* Cancellation and crashes. *)

\* Without a tool under way, cancelling leaves at most a journal call behind.
LEMMA CancelKeeps ==
  ASSUME EffectsInv, NEW k \in Tasks, Cancel(k), task[k].at # "tool"
  PROVE EffectsInv'
<1>1. /\ task[k].at \in Holding <=> task[k].outcome # NoPayload
      /\ UNCHANGED journal /\ performed' = performed /\ settled' = settled
  BY TaskFacts DEF EffectsInv, Cancel
<1>2. \/ UNCHANGED ghosts
      \/ Ghost(k, "begin") /\ task[k].at = "begin"
      \/ Ghost(k, "unknown")
      \/ Ghost(k, "commit") /\ task[k].at \in {"commit", "recommit"}
      \/ Ghost(k, "mark")
  BY DEF Cancel
<1>3. \/ ghosts' \subseteq ghosts
      \/ \E do \in {"begin", "unknown", "commit", "mark"} :
           /\ Ghost(k, do)
           /\ do = "commit" => task[k].outcome # NoPayload
           /\ do = "begin" => task[k].outcome = NoPayload
  BY <1>1, <1>2 DEF Holding
<1>4. Calm
  BY <1>1, <1>3 DEF Calm, Ghost, journal
<1>5. CalmStep(k)
  BY <1>1, <1>3, <1>4 DEF CalmStep, Writes
<1>6. CASE Leave(k) /\ told' = told
  BY <1>5, <1>6, CallEnds DEF Ends
<1>7. CASE task[k].at \in {"run", "done"} /\ Goto(k, "unknown") /\ told' = told
  BY <1>5, <1>7, CallGoesOn, PlaceFacts
<1>8. CASE task[k].at = "keep" /\ Goto(k, "submit") /\ told' = told
  BY <1>5, <1>8, CallGoesOn, PlaceFacts
<1>9. CASE task[k].at = "recommit" /\ Return(k, task[k].outcome)
  <2>1. task[k].at \in Holding
    BY <1>9 DEF Holding
  <2> QED BY <1>5, <1>9, <2>1, ReturnEnds, CallEnds
<1> QED BY <1>6, <1>7, <1>8, <1>9 DEF Cancel

\* A process that dies takes its journal calls with it.
LEMMA CrashKeeps ==
  ASSUME EffectsInv, NEW k \in Tasks, Crash(k), task[k].at # "tool"
  PROVE EffectsInv'
<1>1. CalmStep(k) /\ told' = told
  BY DEF Crash, CalmStep, Calm, Writes, journal
<1> QED BY <1>1, CallEnds DEF Crash, Ends

-----------------------------------------------------------------------------
(* The steps on which the invariant turns. *)

\* Of the other effects it is enough that nothing is started for them.
LEMMA OthersQuiet ==
  ASSUME EffectsInv, NEW k \in Tasks, NEW v, Does(k, v), v.effect = task[k].effect,
         NEW i \in Ids, Journal!Manual(i), i # task[k].effect.id,
         performed'[i] = performed[i]
  PROVE Once(i)' /\ Truth(i)'
<1>1. Once(i) /\ Truth(i) /\ Typed /\ JournalInv
  BY DEF EffectsInv
<1>2. granted'[i] = granted[i]
  BY <1>1, TaskFacts, RowFacts DEF Does, Around
<1>3. \A g \in ghosts' : Late(g, i) => g \in ghosts
  BY DEF Does, Around, Left, Late
<1> QED BY <1>1, <1>2, <1>3, DoesQuiet

\* The task goes somewhere else with another outcome.
Learns(k, at, o) == task' = [task EXCEPT ![k].at = at, ![k].outcome = o]

\* Only the place and the outcome change.
LEMMA LearnFacts ==
  ASSUME Typed, NEW k \in Tasks, NEW at \in Places, NEW o \in Outcomes,
         Learns(k, at, o)
  PROVE \E v \in TaskRec : /\ task' = [task EXCEPT ![k] = v]
                           /\ v.at = at /\ v.effect = task[k].effect /\ v.outcome = o
<1>1. task[k] \in TaskRec /\ task \in [Tasks -> TaskRec]
  BY TaskFacts DEF Typed
<1>2. PICK t : t = [task EXCEPT ![k].at = at]
  OBVIOUS
<1>3. task' = [t EXCEPT ![k].outcome = o]
  BY <1>2, Zenon DEF Learns
<1>4. t \in [Tasks -> TaskRec] /\ t[k].at = at /\ t[k].effect = task[k].effect
  BY <1>1, <1>2 DEF TaskRec
<1>5. PICK v : v = [t[k] EXCEPT !.outcome = o]
  OBVIOUS
<1>6. v \in TaskRec /\ v.at = at /\ v.effect = task[k].effect /\ v.outcome = o
  BY <1>4, <1>5 DEF TaskRec
<1>7. task' = [task EXCEPT ![k] = v]
  BY <1>1, <1>2, <1>3, <1>4, <1>5
<1> QED BY <1>6, <1>7

\* begin() grants the right to execute: nobody has done so for a manual effect.
LEMMA BeginGrants ==
  ASSUME EffectsInv, NEW k \in Tasks, Begin(k), Journal!CanBegin(session, task[k].effect),
         Journal!Decision(task[k].effect) = "execute"
  PROVE EffectsInv'
<1>1. /\ Typed /\ JournalInv /\ task[k].effect \in Effects /\ task[k].effect.id \in Ids
      /\ task[k].at = "begin" /\ task[k].outcome = NoPayload
  BY TaskFacts DEF EffectsInv, Begin, Holding
<1>2. /\ Journal!Begin(session, task[k].effect) /\ Goto(k, "run") /\ told' = told
      /\ ghosts' = ghosts /\ performed' = performed /\ settled' = settled
  BY FollowFacts DEF Begin
<1>3. PICK v \in TaskRec : /\ task' = [task EXCEPT ![k] = v] /\ v.at = "run"
                           /\ v.effect = task[k].effect /\ v.outcome = task[k].outcome
  BY <1>1, <1>2, GotoFacts DEF Places, Executing, Running, Starting
<1>4. Does(k, v)
  <2>1. Around(k)
    BY <1>2, AroundFrom DEF Writes
  <2> QED BY <1>1, <1>3, <2>1 DEF Does, Holding
<1>5. JournalInv' /\ Typed'
  BY <1>1, <1>2, <1>4, DoesTyped DEF Typed
<1>6. ASSUME NEW i \in Ids, Journal!Manual(i), i = task[k].effect.id
      PROVE Once(i)' /\ Truth(i)'
  <2>1. Once(i) /\ Truth(i)
    BY <1>6 DEF EffectsInv
  <2>2. granted[i] = 0 /\ granted'[i] = 1
    <3>1. granted \in [Ids -> Nat] /\ i \in Journal!Ids
      BY <1>1, <1>6 DEF JournalInv, Journal!TypeOK, Ids
    <3>2. granted'[i] = granted[i] + 1
      BY <1>2, <1>6, <3>1 DEF Journal!Begin, Ids
    <3>3. granted'[i] <= 1
      BY <1>5, <1>6, <3>1 DEF JournalInv, Journal!GrantedOnce, Journal!Manual, Journal!Ids
    <3> QED BY <3>1, <3>2, <3>3 DEF Ids
  <2>3. /\ performed[i] = 0 /\ Silence(i)
        /\ \A l \in Tasks : ~At(l, i, Executing)
        /\ \A g \in ghosts : ~Late(g, i)
    BY <2>1, <2>2 DEF Once
  <2>4. \A l \in Tasks : \A S : At(l, i, S)' <=> IF l = k THEN v.effect.id = i /\ v.at \in S ELSE At(l, i, S)
    BY <1>4, DoesAt
  <2>5. Silence(i)'
    BY <1>1, <1>3, <1>4, <2>3, DoesSays, AbsentAssumption DEF Silence
  <2>6. \A l \in Tasks : At(l, i, Executing)' => l = k
    BY <2>3, <2>4
  <2>7. \A l \in Tasks : ~At(l, i, {"done"})'
    BY <1>3, <2>3, <2>4 DEF At, Executing, Running
  <2>8. Once(i)'
    BY <1>2, <2>2, <2>3, <2>6 DEF Once
  <2>9. Truth(i)'
    BY <1>2, <2>3, <2>5, <2>7 DEF Truth, Silence, Payloads
  <2> QED BY <2>8, <2>9
<1>7. ASSUME NEW i \in Ids, Journal!Manual(i), i # task[k].effect.id
      PROVE Once(i)' /\ Truth(i)'
  BY <1>2, <1>3, <1>4, <1>7, OthersQuiet
<1>8. ASSUME NEW i \in Ids, Journal!Manual(i)
      PROVE Once(i)' /\ Truth(i)'
  BY <1>6, <1>7, <1>8
<1> QED BY <1>5, <1>8 DEF EffectsInv

\* One task executes an effect, by a right that was granted.
LEMMA Alone ==
  ASSUME NEW i, Once(i), NEW k \in Tasks, At(k, i, Executing)
  PROVE granted[i] # 0 /\ \A l \in Tasks : At(l, i, Executing) => l = k
BY DEF Once

\* Where a tool is under way nothing is known yet.
LEMMA RunningFacts ==
  ASSUME EffectsInv, NEW k \in Tasks, NEW i \in Ids, Journal!Manual(i), i = task[k].effect.id,
         task[k].at \in Running
  PROVE /\ Once(i) /\ Truth(i) /\ Silence(i) /\ granted[i] # 0
        /\ \A l \in Tasks : At(l, i, Executing) => l = k
        /\ task[k].at \in Starting => performed[i] = 0 /\ \A g \in ghosts : ~Late(g, i)
<1>1. Once(i) /\ Truth(i)
  BY DEF EffectsInv
<1>2. At(k, i, Executing) /\ At(k, i, Running)
  BY DEF At, Executing
<1>3. Silence(i)
  BY <1>1, <1>2 DEF Truth
<1>4. task[k].at \in Starting => performed[i] = 0 /\ \A g \in ghosts : ~Late(g, i)
  BY <1>1 DEF Once, At
<1> QED BY <1>1, <1>2, <1>3, <1>4, Alone

\* After a step of the executing task it is still the only one.
LEMMA StillAlone ==
  ASSUME EffectsInv, NEW k \in Tasks, NEW v, Does(k, v), NEW i \in Ids,
         \A l \in Tasks : At(l, i, Executing) => l = k
  PROVE \A l \in Tasks : /\ At(l, i, Executing)' => l = k
                         /\ At(l, i, Running)' => l = k /\ v.at \in Running
                         /\ At(l, i, Starting)' => l = k /\ v.at \in Starting
                         /\ At(l, i, {"done"})' => l = k /\ v.at = "done"
<1> SUFFICES ASSUME NEW l \in Tasks
             PROVE /\ At(l, i, Executing)' => l = k
                   /\ At(l, i, Running)' => l = k /\ v.at \in Running
                   /\ At(l, i, Starting)' => l = k /\ v.at \in Starting
                   /\ At(l, i, {"done"})' => l = k /\ v.at = "done"
  OBVIOUS
<1>1. \A S : At(l, i, S)' <=> IF l = k THEN v.effect.id = i /\ v.at \in S ELSE At(l, i, S)
  BY DoesAt
<1>2. \A S \in {Running, Starting, {"done"}} : At(l, i, S) => At(l, i, Executing)
  BY DEF At, Executing, Running
<1> QED BY <1>1, <1>2

\* The tool, or the hook before it, has an answer.
LEMMA Answers ==
  ASSUME EffectsInv, NEW k \in Tasks, NEW o \in Payloads, task[k].at \in {"run", "tool", "done"},
         Learns(k, "commit", o),
         UNCHANGED <<journal, ghosts, performed, told, settled>>,
         o = "ok" => task[k].at = "done",
         o = "denied" => task[k].at = "run"
  PROVE EffectsInv'
<1>1. /\ Typed /\ JournalInv /\ task[k].effect \in Effects /\ task[k].effect.id \in Ids
      /\ o \in Outcomes /\ o # NoPayload
  BY TaskFacts, AbsentAssumption DEF EffectsInv, Outcomes
<1>2. PICK v \in TaskRec : /\ task' = [task EXCEPT ![k] = v]
                           /\ v.at = "commit" /\ v.effect = task[k].effect /\ v.outcome = o
  BY <1>1, LearnFacts DEF Places, Executing
<1>3. Does(k, v)
  <2>1. Around(k)
    BY AroundFrom DEF Writes, journal
  <2> QED BY <1>1, <1>2, <2>1 DEF Does, Holding
<1>4. JournalInv' /\ Typed'
  BY <1>1, <1>3, DoesTyped DEF Typed
<1>5. ASSUME NEW i \in Ids, Journal!Manual(i), i = task[k].effect.id
      PROVE Once(i)' /\ Truth(i)'
  <2>1. /\ Once(i) /\ Truth(i) /\ Silence(i) /\ granted[i] # 0
        /\ \A l \in Tasks : At(l, i, Executing) => l = k
        /\ task[k].at \in Starting => performed[i] = 0 /\ \A g \in ghosts : ~Late(g, i)
    BY <1>5, RunningFacts DEF Running, Starting
  <2>2. \A l \in Tasks : /\ At(l, i, Executing)' => l = k
                         /\ ~At(l, i, Running)' /\ ~At(l, i, Starting)' /\ ~At(l, i, {"done"})'
    <3>1. v.at \notin Running /\ v.at \notin Starting /\ v.at # "done"
      BY <1>2 DEF Running, Starting
    <3> QED BY <1>3, <2>1, <3>1, StillAlone
  <2>3. \A p \in Payloads : Says(i, p)' => p = o
    <3> SUFFICES ASSUME NEW p \in Payloads, Says(i, p)' PROVE p = o
      OBVIOUS
    <3>1. ~Says(i, p)
      BY <2>1 DEF Silence
    <3>2. Says(i, p) \/ (v.effect.id = i /\ v.outcome = p)
      BY <1>3, DoesSays
    <3> QED BY <1>2, <3>1, <3>2
  <2>4. o = "ok" => performed[i] > 0
    BY <1>5, <2>1 DEF Truth, At
  <2>5. o = "denied" => performed[i] = 0
    BY <2>1 DEF Starting
  <2>6. \A g \in ghosts : ~Late(g, i)
    <3>1. task[k].at = "done" => performed[i] > 0
      BY <1>5, <2>1 DEF Truth, At
    <3>2. task[k].at = "done" => \A g \in ghosts : ~Late(g, i)
      BY <2>1, <3>1 DEF Once
    <3> QED BY <2>1, <3>2 DEF Starting
  <2>7. Once(i)'
    BY <2>1, <2>2, <2>6 DEF Once, journal
  <2>8. Truth(i)'
    BY <2>2, <2>3, <2>4, <2>5, <2>6 DEF Truth, Payloads
  <2> QED BY <2>7, <2>8
<1>6. ASSUME NEW i \in Ids, Journal!Manual(i), i # task[k].effect.id
      PROVE Once(i)' /\ Truth(i)'
  BY <1>2, <1>3, <1>6, OthersQuiet
<1>7. ASSUME NEW i \in Ids, Journal!Manual(i)
      PROVE Once(i)' /\ Truth(i)'
  BY <1>5, <1>6, <1>7
<1> QED BY <1>4, <1>7 DEF EffectsInv

\* A hook denies the call, or the invocation returns.
LEMMA AnswerKeeps ==
  ASSUME EffectsInv, NEW k \in Tasks, Deny(k) \/ RunReturns(k)
  PROVE EffectsInv'
<1>1. CASE Deny(k)
  <2>1. Learns(k, "commit", "denied")
    BY <1>1, Zenon DEF Deny, Learns
  <2> QED BY <1>1, <2>1, Answers DEF Deny, Payloads
<1>2. CASE RunReturns(k)
  <2>1. PICK o \in IF task[k].at = "done" THEN {"ok", "error"} ELSE {"error"} : Learns(k, "commit", o)
    BY <1>2, Zenon DEF RunReturns, Learns
  <2>2. o \in Payloads /\ o # "denied" /\ (o = "ok" => task[k].at = "done")
    BY <2>1 DEF Payloads
  <2> QED BY <1>2, <2>1, <2>2, Answers DEF RunReturns
<1> QED BY <1>1, <1>2

\* The tool does its work under its task, for the first time.
LEMMA PerformKeeps ==
  ASSUME EffectsInv, NEW k \in Tasks, Perform(k)
  PROVE EffectsInv'
<1>1. /\ Typed /\ JournalInv /\ task[k].effect \in Effects /\ task[k].effect.id \in Ids
      /\ task[k].at = "tool" /\ task[k].outcome = NoPayload
  BY TaskFacts DEF EffectsInv, Perform, Holding
<1>2. /\ Performs(task[k].effect.id) /\ Goto(k, "done")
      /\ UNCHANGED <<journal, ghosts, told, settled>>
  BY DEF Perform
<1>3. PICK v \in TaskRec : /\ task' = [task EXCEPT ![k] = v] /\ v.at = "done"
                           /\ v.effect = task[k].effect /\ v.outcome = task[k].outcome
  BY <1>1, <1>2, GotoFacts DEF Places, Executing, Running
<1>4. Does(k, v)
  <2>1. Around(k)
    BY <1>2, AroundFrom DEF Writes, journal
  <2> QED BY <1>1, <1>3, <2>1 DEF Does, Holding
<1>5. /\ performed \in [Ids -> Nat] /\ performed' \in [Ids -> Nat]
      /\ performed'[task[k].effect.id] = performed[task[k].effect.id] + 1
      /\ \A i \in Ids : i # task[k].effect.id => performed'[i] = performed[i]
  BY <1>1, <1>2 DEF Performs, Typed
<1>6. JournalInv' /\ Typed'
  BY <1>4, <1>5, DoesTyped
<1>7. ASSUME NEW i \in Ids, Journal!Manual(i), i = task[k].effect.id
      PROVE Once(i)' /\ Truth(i)'
  <2>1. /\ Silence(i) /\ granted[i] # 0 /\ performed[i] = 0
        /\ \A l \in Tasks : At(l, i, Executing) => l = k
        /\ \A g \in ghosts : ~Late(g, i)
    BY <1>1, <1>7, RunningFacts DEF Running, Starting
  <2>2. \A l \in Tasks : (At(l, i, Executing)' => l = k) /\ ~At(l, i, Starting)'
    <3>1. v.at \notin Starting
      BY <1>3 DEF Starting
    <3> QED BY <1>4, <2>1, <3>1, StillAlone
  <2>3. Silence(i)'
    <3> SUFFICES ASSUME NEW o \in Payloads, Says(i, o)' PROVE FALSE
      BY DEF Silence
    <3>1. o # NoPayload
      BY AbsentAssumption
    <3>2. Says(i, o) \/ (v.effect.id = i /\ v.outcome = o)
      BY <1>4, DoesSays
    <3> QED BY <1>1, <1>3, <2>1, <3>1, <3>2 DEF Silence
  <2>4. Once(i)'
    BY <1>2, <1>5, <1>7, <2>1, <2>2 DEF Once, journal
  <2>5. Truth(i)'
    BY <1>5, <1>7, <2>1, <2>3 DEF Truth, Silence, Payloads
  <2> QED BY <2>4, <2>5
<1>8. ASSUME NEW i \in Ids, Journal!Manual(i), i # task[k].effect.id
      PROVE Once(i)' /\ Truth(i)'
  BY <1>3, <1>4, <1>5, <1>8, OthersQuiet
<1>9. ASSUME NEW i \in Ids, Journal!Manual(i)
      PROVE Once(i)' /\ Truth(i)'
  BY <1>7, <1>8, <1>9
<1> QED BY <1>6, <1>9 DEF EffectsInv

\* The task goes, the tool it has started stays.
LEMMA LateKeeps ==
  ASSUME EffectsInv, NEW k \in Tasks, task[k].at = "tool", NEW v, Does(k, v),
         v.at = "idle" \/ (v.at = "unknown" /\ v.effect = task[k].effect),
         UNCHANGED <<journal, performed>>,
         \A g \in ghosts' : g \in ghosts \/ g = Left(k, "perform")
  PROVE EffectsInv'
<1>1. /\ Typed /\ JournalInv /\ task[k].effect \in Effects /\ task[k].effect.id \in Ids
      /\ v.outcome = NoPayload
  BY TaskFacts DEF EffectsInv, Does, Holding
<1>2. JournalInv' /\ Typed'
  BY <1>1, DoesTyped DEF Typed
<1>3. v.at \notin Starting /\ v.at # "done" /\ task[k].at \in Running /\ task[k].at \in Executing
  BY DEF Starting, Running, Executing
<1>4. ASSUME NEW i \in Ids, Journal!Manual(i), i = task[k].effect.id
      PROVE Once(i)' /\ Truth(i)'
  <2>1. /\ Silence(i) /\ granted[i] # 0 /\ performed[i] = 0
        /\ \A l \in Tasks : At(l, i, Executing) => l = k
        /\ \A g \in ghosts : ~Late(g, i)
    BY <1>3, <1>4, RunningFacts DEF Starting
  <2>2. \A l \in Tasks : /\ At(l, i, Executing)' => l = k
                         /\ ~At(l, i, Starting)' /\ ~At(l, i, {"done"})'
    BY <1>3, <2>1, StillAlone
  <2>3. Silence(i)'
    <3> SUFFICES ASSUME NEW o \in Payloads, Says(i, o)' PROVE FALSE
      BY DEF Silence
    <3>1. o # NoPayload
      BY AbsentAssumption
    <3>2. Says(i, o) \/ (v.effect.id = i /\ v.outcome = o)
      BY DoesSays
    <3> QED BY <1>1, <2>1, <3>1, <3>2 DEF Silence
  <2>4. \A g \in ghosts' : Late(g, i) => g = Left(k, "perform")
    BY <2>1
  <2>5. Once(i)'
    BY <2>1, <2>2, <2>4 DEF Once, journal
  <2>6. Truth(i)'
    BY <2>1, <2>2, <2>3 DEF Truth, Silence, Payloads
  <2> QED BY <2>5, <2>6
<1>5. ASSUME NEW i \in Ids, Journal!Manual(i), i # task[k].effect.id
      PROVE Once(i)' /\ Truth(i)'
  <2>1. Once(i) /\ Truth(i)
    BY <1>5 DEF EffectsInv
  <2>2. v.effect.id = i => \A S \in {Executing, Starting, Running, {"done"}} : v.at \notin S
    BY <1>5 DEF Executing, Starting, Running
  <2>3. \A g \in ghosts' : Late(g, i) => g \in ghosts
    BY <1>5 DEF Late, Left
  <2> QED BY <1>1, <2>1, <2>2, <2>3, DoesQuiet DEF journal
<1>6. ASSUME NEW i \in Ids, Journal!Manual(i)
      PROVE Once(i)' /\ Truth(i)'
  BY <1>4, <1>5, <1>6
<1> QED BY <1>2, <1>6 DEF EffectsInv

\* Cancellation and crash while the tool is under way.
LEMMA LeavesTool ==
  ASSUME EffectsInv, NEW k \in Tasks, task[k].at = "tool", Cancel(k) \/ Crash(k)
  PROVE EffectsInv'
<1>1. /\ Typed /\ JournalInv /\ task[k].effect \in Effects /\ task[k].effect.id \in Ids
      /\ task[k].outcome = NoPayload
      /\ UNCHANGED <<journal, performed>> /\ told' = told /\ settled' = settled
  BY TaskFacts DEF EffectsInv, Cancel, Crash, Holding
<1>2. \A g \in ghosts' : g \in ghosts \/ g = Left(k, "perform")
  BY <1>1 DEF Cancel, Crash, Ghost, Left
<1>3. Around(k)
  <2>1. Left(k, "perform").do = "perform"
    BY DEF Left
  <2> QED BY <1>1, <1>2, <2>1 DEF Around, Writes, Typed
<1>4. CASE Cancel(k)
  <2>1. PICK v \in TaskRec : /\ task' = [task EXCEPT ![k] = v] /\ v.at = "unknown"
                             /\ v.effect = task[k].effect /\ v.outcome = task[k].outcome
    BY <1>1, <1>4, GotoFacts DEF Cancel, Places, Executing, Running
  <2>2. Does(k, v)
    BY <1>1, <1>3, <2>1 DEF Does, Holding
  <2> QED BY <1>1, <1>2, <2>1, <2>2, LateKeeps
<1>5. CASE Crash(k)
  <2>1. Does(k, Idle)
    BY <1>3, <1>5, IdleFacts DEF Does, Crash, Leave, Holding
  <2> QED BY <1>1, <1>2, <2>1, IdleFacts, LateKeeps
<1> QED BY <1>4, <1>5

\* A new call starts.
LEMMA ExecuteKeeps ==
  ASSUME EffectsInv, NEW k \in Tasks, NEW e \in Effects, Execute(k, e)
  PROVE EffectsInv'
<1>1. PICK t : t = [Idle EXCEPT !.at = "inspect"]
  OBVIOUS
<1>2. PICK v : v = [t EXCEPT !.effect = e]
  OBVIOUS
<1>3. t \in TaskRec /\ t.at = "inspect" /\ t.outcome = NoPayload
  BY <1>1, IdleFacts DEF TaskRec, Places
<1>4. v \in TaskRec /\ v.at = "inspect" /\ v.effect = e /\ v.outcome = NoPayload
  BY <1>2, <1>3 DEF TaskRec
<1>5. task' = [task EXCEPT ![k] = v]
  BY <1>1, <1>2, Zenon DEF Execute
<1>6. Around(k)
  BY AroundFrom DEF Execute, Writes
<1>7. Does(k, v)
  BY <1>4, <1>5, <1>6 DEF Does, Holding
<1>8. Calm
  BY DEF Execute, Calm, journal
<1>9. \A S \in {Executing, Starting, Running, {"done"}} : v.at \notin S
  BY <1>4 DEF Executing, Starting, Running
<1> QED BY <1>4, <1>7, <1>8, <1>9, MovesOn

\* A known result is taken up again.
LEMMA ReconcileKeeps ==
  ASSUME EffectsInv, NEW k \in Tasks, NEW e \in Effects, ReconcileKnown(k, e)
  PROVE EffectsInv'
<1>1. /\ Typed /\ JournalInv /\ e.id \in Ids
      /\ UNCHANGED <<journal, ghosts, performed, told, settled>>
  BY IdsAre DEF EffectsInv, ReconcileKnown
<1>2. PICK v : v = [at |-> "resubmit", effect |-> e, outcome |-> Journal!ReconciliationResult(e.id)]
  OBVIOUS
<1>3. /\ v.at = "resubmit" /\ v.effect = e /\ task' = [task EXCEPT ![k] = v]
      /\ v.outcome # NoPayload /\ v.outcome = row[e.id].result /\ Journal!HasRow(e.id)
  BY <1>2 DEF ReconcileKnown, Journal!CanReconcile, Journal!ReconciliationResult
<1>4. v.outcome \in Payloads
  BY <1>1, <1>3, IdsAre DEF JournalInv, Journal!TypeOK, Journal!HasRow, Journal!Row
<1>5. v \in TaskRec
  BY <1>2, <1>3, <1>4 DEF TaskRec, Places, Holding, Outcomes
<1>6. Around(k)
  BY <1>1, AroundFrom DEF Writes
<1>7. Does(k, v)
  BY <1>3, <1>5, <1>6 DEF Does, Holding
<1>8. JournalInv' /\ Typed'
  BY <1>1, <1>7, DoesTyped DEF Typed
<1>9. \A S \in {Executing, Starting, Running, {"done"}} : v.at \notin S
  BY <1>3 DEF Executing, Starting, Running
<1>10. ASSUME NEW i \in Ids, Journal!Manual(i)
       PROVE Once(i)' /\ Truth(i)'
  <2>1. Once(i) /\ Truth(i)
    BY <1>10 DEF EffectsInv
  <2>2. v.effect.id = i => Says(i, v.outcome)
    BY <1>3, <1>4 DEF Says
  <2> QED BY <1>1, <1>7, <1>9, <2>1, <2>2, DoesQuiet DEF journal
<1> QED BY <1>8, <1>10 DEF EffectsInv

-----------------------------------------------------------------------------
(* Steps in which no task moves. *)

\* The tasks, their answers and what the service was told stay; the journal
\* says nothing new.
Aside ==
  /\ [Journal!Next]_journal
  /\ task' = task /\ told' = told /\ settled' = settled
  /\ \A g \in ghosts' : g \in ghosts
  /\ performed' \in [Ids -> Nat]
  /\ \A i \in Ids :
       /\ Journal!HasRow(i)' => row'[i].result = NoPayload \/ Says(i, row'[i].result)
       /\ Journal!HasRow(i)' /\ row'[i].status = "committed" => row'[i].result # NoPayload
       /\ granted'[i] = 0 => granted[i] = 0

\* The types stay.
LEMMA AsideTyped ==
  ASSUME EffectsInv, Aside
  PROVE JournalInv' /\ Typed'
<1>1. JournalInv'
  BY JournalKeeps DEF EffectsInv, Aside
<1>2. Typed'
  <2>1. \A i \in Ids : (Journal!HasRow(i) /\ row[i].status = "committed" => row[i].result # NoPayload)'
    BY DEF Aside
  <2>2. /\ task' \in [Tasks -> TaskRec] /\ ghosts' \subseteq GhostRec
        /\ settled' \in [Ids -> Outcomes] /\ told' \subseteq Ids \X (Payloads \cup {"not_executed"})
        /\ \A k \in Tasks : task'[k].outcome # NoPayload <=> task'[k].at \in Holding
        /\ \A g \in ghosts' : /\ g.do = "commit" => g.outcome # NoPayload
                              /\ g.do \in {"begin", "perform"} => g.outcome = NoPayload
    BY DEF EffectsInv, Typed, Aside
  <2> QED BY <2>1, <2>2 DEF Typed, Aside
<1> QED BY <1>1, <1>2

\* Nothing new is said.
LEMMA AsideSays ==
  ASSUME EffectsInv, Aside, NEW i \in Ids, NEW o \in Payloads, Says(i, o)'
  PROVE Says(i, o)
<1>1. o # NoPayload
  BY AbsentAssumption
<1>2. Journal!HasRow(i)' /\ row'[i].result = o => Says(i, o)
  BY <1>1 DEF Aside
<1>3. (<<i, o>> \in told \/ settled[i] = o)' => Says(i, o)
  BY DEF Aside, Says
<1>4. (\E k \in Tasks : task[k].effect.id = i /\ task[k].outcome = o)' => Says(i, o)
  BY DEF Aside, Says
<1>5. (\E g \in ghosts : g.effect.id = i /\ g.outcome = o)' => Says(i, o)
  BY DEF Aside, Says
<1> QED BY <1>2, <1>3, <1>4, <1>5 DEF Says

\* An effect that does not take place now stays as it is.
LEMMA AsideQuiet ==
  ASSUME EffectsInv, Aside, NEW i \in Ids, Journal!Manual(i), performed'[i] = performed[i]
  PROVE Once(i)' /\ Truth(i)'
<1>1. Once(i) /\ Truth(i)
  BY DEF EffectsInv
<1>2. \A o \in Payloads : Says(i, o)' => Says(i, o)
  BY AsideSays
<1>3. \A k \in Tasks : \A S : At(k, i, S)' <=> At(k, i, S)
  BY DEF Aside, At
<1>4. Quiet(i)
  BY <1>2, <1>3 DEF Quiet, Aside
<1> QED BY <1>1, <1>4, QuietKeeps

\* A step that concerns the journal only.
LEMMA AsideKeeps ==
  ASSUME EffectsInv, Aside, performed' = performed
  PROVE EffectsInv'
BY AsideTyped, AsideQuiet DEF EffectsInv

\* The deletion of the session only takes rows away.
LEMMA DeleteKeeps ==
  ASSUME EffectsInv, Delete
  PROVE EffectsInv'
<1>1. Journal!DeleteSessions({session}) /\ UNCHANGED <<task, ghosts, performed, told, settled>>
  BY DEF Delete
<1>2. [Journal!Next]_journal
  BY <1>1 DEF Journal!Next
<1>3. \A i \in Ids : Journal!HasRow(i)' => Journal!HasRow(i) /\ row'[i] = row[i]
  BY <1>1, IdsAre DEF Journal!DeleteSessions, Journal!HasRow
<1>4. /\ \A i \in Ids : Journal!HasRow(i) /\ row[i].status = "committed" => row[i].result # NoPayload
      /\ performed \in [Ids -> Nat] /\ granted' = granted
  BY <1>1 DEF EffectsInv, Typed, Journal!DeleteSessions
<1>5. \A i \in Ids : Journal!HasRow(i) => row[i].result \in Outcomes
  BY IdsAre DEF EffectsInv, JournalInv, Journal!TypeOK, Journal!HasRow, Journal!Row, Outcomes
<1>6. \A i \in Ids : Journal!HasRow(i)' => row'[i].result = NoPayload \/ Says(i, row'[i].result)
  BY <1>3, <1>5 DEF Says, Outcomes
<1>7. Aside
  BY <1>1, <1>2, <1>3, <1>4, <1>6 DEF Aside
<1> QED BY <1>1, <1>7, AsideKeeps

\* A journal call that nobody waits for writes what its task knew.
LEMMA GhostWrites ==
  ASSUME EffectsInv, NEW g \in ghosts, GhostEnds(g)
  PROVE /\ g \in GhostRec /\ Writes(g.effect, g.outcome)
        /\ \A i \in Ids : granted'[i] = 0 => granted[i] = 0
<1>1. /\ Typed /\ g \in GhostRec /\ granted \in [Ids -> Nat] /\ g.outcome \in Outcomes
      /\ g.effect.id \in Ids
  BY IdsAre DEF EffectsInv, Typed, JournalInv, Journal!TypeOK, GhostRec
<1>2. g.do = "commit" => g.outcome \in Payloads
  BY <1>1 DEF Typed, Outcomes
<1>3. Writes(g.effect, g.outcome)
  BY <1>2 DEF GhostEnds, Writes, journal
<1>4. ASSUME Journal!Begin(session, g.effect) PROVE \A i \in Ids : granted'[i] = 0 => granted[i] = 0
  BY <1>1, <1>4 DEF Journal!Begin
<1>5. granted' = granted \/ Journal!Begin(session, g.effect)
  BY DEF GhostEnds, Journal!Commit, Journal!MarkUnknown, Journal!MarkReconciled, journal
<1> QED BY <1>1, <1>3, <1>4, <1>5

\* It ends, or a tool that was left alone takes effect, for the first time.
LEMMA GhostEndsKeeps ==
  ASSUME EffectsInv, NEW g \in ghosts, GhostEnds(g)
  PROVE EffectsInv'
<1>1. /\ JournalInv /\ Typed /\ g.effect \in Effects /\ g.outcome \in Outcomes /\ g.effect.id \in Ids
      /\ Writes(g.effect, g.outcome) /\ performed \in [Ids -> Nat]
      /\ \A i \in Ids : granted'[i] = 0 => granted[i] = 0
  BY GhostWrites, IdsAre DEF EffectsInv, Typed, GhostRec
<1>2. /\ ghosts' = ghosts \ {g} /\ task' = task /\ told' = told /\ settled' = settled
      /\ \/ performed' = performed
         \/ g.do = "perform" /\ Performs(g.effect.id) /\ UNCHANGED journal
  BY DEF GhostEnds
<1>3. \A i \in Ids : Journal!HasRow(i)' => row'[i].result = NoPayload \/ Says(i, row'[i].result)
  <2> SUFFICES ASSUME NEW i \in Ids, Journal!HasRow(i)', row'[i].result # NoPayload
               PROVE Says(i, row'[i].result)
    OBVIOUS
  <2>1. \/ Journal!HasRow(i) /\ row'[i].result = row[i].result
        \/ i = g.effect.id /\ row'[i].result = g.outcome
    BY <1>1, RowFacts
  <2>2. Journal!HasRow(i) => row[i].result \in Outcomes
    BY <1>1, IdsAre DEF JournalInv, Journal!TypeOK, Journal!HasRow, Journal!Row, Outcomes
  <2> QED BY <1>1, <2>1, <2>2 DEF Says, Outcomes
<1>4. \A i \in Ids : Journal!HasRow(i)' /\ row'[i].status = "committed" => row'[i].result # NoPayload
  BY <1>1, RowFacts
<1>5. performed' \in [Ids -> Nat]
  BY <1>1, <1>2 DEF Performs
<1>6. Aside
  BY <1>1, <1>2, <1>3, <1>4, <1>5, WritesAreSteps DEF Aside
<1>7. CASE performed' = performed
  BY <1>6, <1>7, AsideKeeps
<1>8. CASE g.do = "perform" /\ Performs(g.effect.id) /\ UNCHANGED journal
  <2>1. /\ performed'[g.effect.id] = performed[g.effect.id] + 1
        /\ \A i \in Ids : i # g.effect.id => performed'[i] = performed[i]
    BY <1>1, <1>8 DEF Performs
  <2>2. ASSUME NEW i \in Ids, Journal!Manual(i), i = g.effect.id
        PROVE Once(i)' /\ Truth(i)'
    <3>1. Once(i) /\ Truth(i) /\ Late(g, i)
      BY <1>8, <2>2 DEF EffectsInv, Late
    <3>2. /\ performed[i] = 0 /\ Silence(i) /\ granted[i] # 0
          /\ \A h \in ghosts : Late(h, i) => h = g
          /\ \A k \in Tasks : ~At(k, i, Starting)
      BY <3>1 DEF Once, Truth
    <3>3. \A k \in Tasks : \A S : At(k, i, S)' <=> At(k, i, S)
      BY <1>2 DEF At
    <3>4. \A h \in ghosts' : ~Late(h, i)
      BY <1>2, <3>2
    <3>5. Silence(i)'
      BY <1>6, <3>2, AsideSays DEF Silence
    <3>6. performed'[i] = 1
      BY <2>1, <2>2, <3>2
    <3>7. Once(i)'
      <4>1. \A k, l \in Tasks : At(k, i, Executing)' /\ At(l, i, Executing)' => k = l
        BY <3>1, <3>3 DEF Once
      <4>2. granted'[i] # 0
        BY <1>1, <3>2
      <4> QED BY <3>2, <3>3, <3>4, <3>6, <4>1, <4>2 DEF Once
    <3>8. Truth(i)'
      BY <3>4, <3>5, <3>6 DEF Truth, Silence, Payloads
    <3> QED BY <3>7, <3>8
  <2>3. ASSUME NEW i \in Ids, Journal!Manual(i)
        PROVE Once(i)' /\ Truth(i)'
    BY <1>6, <2>1, <2>2, <2>3, AsideQuiet
  <2> QED BY <1>6, <2>3, AsideTyped DEF EffectsInv
<1> QED BY <1>2, <1>7, <1>8

\* A step that changes nothing.
LEMMA StutterKeeps ==
  ASSUME EffectsInv, UNCHANGED vars
  PROVE EffectsInv'
<1>1. /\ UNCHANGED <<row, saved, retired, granted>> /\ UNCHANGED journal
      /\ UNCHANGED <<task, ghosts, performed, told, settled>>
  BY DEF vars, journal
<1>2. \A i \in Ids : Journal!HasRow(i)' => row'[i].result = NoPayload \/ Says(i, row'[i].result)
  <2>1. \A i \in Ids : Journal!HasRow(i) => row[i].result \in Outcomes
    BY IdsAre DEF EffectsInv, JournalInv, Journal!TypeOK, Journal!HasRow, Journal!Row, Outcomes
  <2>2. \A i \in Ids : Journal!HasRow(i)' <=> Journal!HasRow(i)
    BY <1>1 DEF Journal!HasRow
  <2> QED BY <1>1, <2>1, <2>2 DEF Says, Outcomes
<1>3. Aside
  <2>1. \A i \in Ids : (Journal!HasRow(i) /\ row[i].status = "committed" => row[i].result # NoPayload)'
    BY <1>1 DEF EffectsInv, Typed, Journal!HasRow
  <2> QED BY <1>1, <1>2, <2>1 DEF Aside, EffectsInv, Typed
<1> QED BY <1>1, <1>3, AsideKeeps

-----------------------------------------------------------------------------
(* The specification. *)

\* No call has been made yet.
LEMMA StartKeeps == Init => EffectsInv
<1> SUFFICES ASSUME Init PROVE EffectsInv
  OBVIOUS
<1>1. JournalInv
  BY JournalStarts DEF Init
<1>2. /\ \A k \in Tasks : task[k] = Idle
      /\ task \in [Tasks -> TaskRec] /\ ghosts = {} /\ told = {}
      /\ \A i \in Ids : performed[i] = 0 /\ settled[i] = NoPayload
      /\ performed \in [Ids -> Nat] /\ settled \in [Ids -> Outcomes]
  BY IdleFacts DEF Init, Outcomes
<1>3. \A i \in Ids : ~Journal!HasRow(i)
  BY IdsAre DEF Init, Journal!Init, Journal!HasRow
<1>4. Typed
  BY <1>2, <1>3, IdleFacts DEF Typed, Holding
<1>5. \A i \in Ids : Silence(i)
  BY <1>2, <1>3, IdleFacts, AbsentAssumption DEF Silence, Says
<1>6. \A i, k : k \in Tasks => /\ ~At(k, i, Executing) /\ ~At(k, i, Starting)
                               /\ ~At(k, i, Running) /\ ~At(k, i, {"done"})
  BY <1>2, IdleFacts DEF At, Executing, Running, Starting
<1>7. \A i \in Ids : Once(i)
  BY <1>2, <1>5, <1>6 DEF Once
<1>8. \A i \in Ids : Truth(i)
  BY <1>2, <1>5, <1>6 DEF Truth, Silence, Payloads
<1> QED BY <1>1, <1>4, <1>7, <1>8 DEF EffectsInv

\* Every step of a task keeps it.
LEMMA TaskStepKeeps ==
  ASSUME EffectsInv, NEW k \in Tasks, TaskStep(k)
  PROVE EffectsInv'
<1>1. CASE Begin(k)
  BY <1>1, BeginEnds, BeginGrants
<1>2. CASE Inspect(k) \/ JournalFails(k) \/ Deny(k) \/ StartTool(k) \/ Perform(k) \/ RunReturns(k)
  BY <1>2, InspectKeeps, JournalFailsKeeps, AnswerKeeps, RunKeeps, PerformKeeps
<1>3. CASE RunRaises(k) \/ RecordUnknown(k) \/ Commit(k) \/ CommitFails(k) \/ Keep(k)
  BY <1>3, RunKeeps, RecordUnknownKeeps, CommitKeeps, KeepKeeps
<1>4. CASE Submit(k) \/ SubmitFails(k) \/ Recommit(k) \/ Resubmit(k) \/ Mark(k) \/ WriteFails(k)
  BY <1>4, SubmitKeeps, RecommitKeeps, MarkKeeps, WriteFailsKeeps
<1> QED BY <1>1, <1>2, <1>3, <1>4 DEF TaskStep

\* Every step keeps it.
LEMMA StepKeeps == EffectsInv /\ [Next]_vars => EffectsInv'
<1> SUFFICES ASSUME EffectsInv, [Next]_vars PROVE EffectsInv'
  OBVIOUS
<1>1. ASSUME NEW k \in Tasks, NEW e \in Effects, Execute(k, e) \/ ReconcileKnown(k, e)
      PROVE EffectsInv'
  BY <1>1, ExecuteKeeps, ReconcileKeeps
<1>2. ASSUME NEW k \in Tasks, TaskStep(k) PROVE EffectsInv'
  BY <1>2, TaskStepKeeps
<1>3. ASSUME NEW k \in Tasks, Cancel(k) \/ Crash(k) PROVE EffectsInv'
  BY <1>3, CancelKeeps, CrashKeeps, LeavesTool
<1>4. ASSUME NEW g \in ghosts, GhostEnds(g) PROVE EffectsInv'
  BY <1>4, GhostEndsKeeps
<1>5. CASE Delete
  BY <1>5, DeleteKeeps
<1>6. CASE UNCHANGED vars
  BY <1>6, StutterKeeps
<1> QED BY <1>1, <1>2, <1>3, <1>4, <1>5, <1>6 DEF Next

\* A task uses the journal only through its operations.
LEMMA TaskUses ==
  ASSUME EffectsInv, NEW k \in Tasks, TaskStep(k)
  PROVE [Journal!Next]_journal
<1>1. task[k].effect \in Effects /\ task[k].outcome \in Outcomes
  BY TaskFacts DEF EffectsInv
<1>2. CASE \/ Inspect(k) \/ JournalFails(k) \/ Deny(k) \/ StartTool(k) \/ Perform(k) \/ RunReturns(k)
           \/ RunRaises(k) \/ CommitFails(k) \/ Submit(k) \/ SubmitFails(k) \/ Resubmit(k)
           \/ WriteFails(k)
  <2>1. UNCHANGED journal
    BY <1>2 DEF Inspect, JournalFails, Deny, StartTool, Perform, RunReturns, RunRaises, CommitFails,
                Submit, SubmitFails, Resubmit, WriteFails
  <2> QED BY <2>1
<1>3. CASE Begin(k) \/ RecordUnknown(k) \/ Commit(k) \/ Keep(k) \/ Recommit(k) \/ Mark(k)
  <2>1. Begin(k) => Writes(task[k].effect, task[k].outcome)
    BY DEF Begin, Writes
  <2>2. Mark(k) => Writes(task[k].effect, task[k].outcome)
    BY DEF Mark, Writes
  <2>3. Commit(k) \/ Recommit(k) => TryCommit(k) /\ task[k].at \in Holding
    BY DEF Commit, Recommit, Holding
  <2>4. RecordUnknown(k) \/ Keep(k) => TryMarkUnknown(k)
    BY DEF RecordUnknown, Keep
  <2>5. Writes(task[k].effect, task[k].outcome)
    BY <1>3, <2>1, <2>2, <2>3, <2>4, SettlingWrites
  <2> QED BY <1>1, <2>5, WritesAreSteps
<1> QED BY <1>2, <1>3 DEF TaskStep

\* And so does everything else.
LEMMA StepUses == EffectsInv /\ [Next]_vars => [Journal!Next]_journal
<1> SUFFICES ASSUME EffectsInv, [Next]_vars PROVE [Journal!Next]_journal
  OBVIOUS
<1>1. ASSUME NEW k \in Tasks, NEW e \in Effects, Execute(k, e) \/ ReconcileKnown(k, e)
      PROVE [Journal!Next]_journal
  BY <1>1 DEF Execute, ReconcileKnown
<1>2. ASSUME NEW k \in Tasks, Cancel(k) \/ Crash(k)
      PROVE [Journal!Next]_journal
  BY <1>2 DEF Cancel, Crash
<1>3. ASSUME NEW g \in ghosts, GhostEnds(g)
      PROVE [Journal!Next]_journal
  BY <1>3, GhostWrites, WritesAreSteps DEF GhostRec
<1>4. CASE Delete
  BY <1>4 DEF Delete, Journal!Next
<1>5. CASE UNCHANGED vars
  BY <1>5 DEF vars
<1> QED BY <1>1, <1>2, <1>3, <1>4, <1>5, TaskUses DEF Next

\* The invariant holds throughout.
THEOREM EffectsInvariant == Spec => []EffectsInv
BY StartKeeps, StepKeeps, PTL DEF Spec

\* Tasks, answers and the service's record stay well formed (execute,
\* reconcile_known_effect).
THEOREM EffectTypes == Spec => []TypeOK
<1>1. EffectsInv => TypeOK
  BY DEF EffectsInv, Typed, TaskRec, Places, Executing, Running, Starting, Holding, Outcomes, TypeOK
<1> QED BY <1>1, EffectsInvariant, PTL

\* Whatever is retried, cancelled, killed or deleted, and however many calls
\* and processes there are, a manual effect takes place at most once
\* (execute, LocalEffectJournal.begin).
THEOREM TakesPlaceOnce == Spec => []PerformedOnce
<1>1. EffectsInv => PerformedOnce
  BY DEF EffectsInv, Once, PerformedOnce
<1> QED BY <1>1, EffectsInvariant, PTL

\* The caller, the service and the journal never hold different outcomes of a
\* manual effect, ok only of one that took place and denied only of one that
\* did not (commit, _reconcile_known_outcome, reconcile_known_effect).
THEOREM OneTrueOutcome == Spec => []OutcomesAgree
<1>1. EffectsInv => OutcomesAgree
  <2> SUFFICES ASSUME EffectsInv, NEW i \in Ids, Journal!Manual(i)
               PROVE /\ \A o, p \in Known(i) : o = p
                     /\ "ok" \in Known(i) => performed[i] > 0
                     /\ "denied" \in Known(i) => performed[i] = 0
    BY DEF OutcomesAgree
  <2>1. settled[i] \in Outcomes /\ (Journal!HasRow(i) => row[i].result \in Outcomes) /\ Truth(i)
    BY IdsAre DEF EffectsInv, Typed, JournalInv, Journal!TypeOK, Journal!HasRow, Journal!Row, Outcomes
  <2>2. \A o \in Known(i) : o \in Payloads /\ Says(i, o)
    BY <2>1 DEF Known, Says, Outcomes
  <2> QED BY <2>1, <2>2 DEF Truth
<1> QED BY <1>1, EffectsInvariant, PTL

\* Seen from the journal, the calls are among the arbitrary callers for which
\* EffectJournal was proved: what holds there holds here (LocalEffectJournal).
THEOREM UsesTheJournal == Spec => Journal!Spec
<1>1. Init => Journal!Init
  BY DEF Init
<1>2. Spec => [][Journal!Next]_journal
  BY EffectsInvariant, StepUses, PTL DEF Spec
<1> QED BY <1>1, <1>2, PTL DEF Spec, Journal!Spec, journal, Journal!vars
=============================================================================
