------------------------- MODULE EffectJournalProofs -------------------------
(***************************************************************************)
(* Proofs about EffectJournal for every set of intents, sessions, calls    *)
(* and payloads.                                                           *)
(***************************************************************************)
EXTENDS EffectJournal, TLAPS

\* The identity of an intent belongs to the sets built from Effects.
LEMMA IntentFields ==
  ASSUME NEW e \in Effects
  PROVE  /\ e.id \in Ids
         /\ e.fingerprint \in {d.fingerprint : d \in Effects}
         /\ e.replay \in {"safe", "manual"}
BY EffectAssumption DEF Ids

\* The tables start well typed.
LEMMA InitType == Init => TypeOK
BY DEF Init, TypeOK

\* What begin writes: a row of the caller with the intent's identity, in a
\* status other than prepared.
LEMMA BeginEffect ==
  ASSUME TypeOK, NEW c \in Coords, NEW e \in Effects, Begin(c, e)
  PROVE  \E v \in Row :
           /\ row' = [row EXCEPT ![e.id] = v]
           /\ v.owner = c /\ v.fingerprint = e.fingerprint /\ v.replay = e.replay
           /\ v.status # "prepared"
           /\ HasRow(e.id) => v.result = row[e.id].result
<1>1. e.id \in Ids
  BY IntentFields
<1>2. PICK p : p = Prepared(c, e)
  OBVIOUS
<1>3. p \in Row
  <2>1. CASE HasRow(e.id)
    BY <1>1, <1>2, <2>1 DEF Prepared, TypeOK, HasRow
  <2>2. CASE ~HasRow(e.id)
    BY <1>2, <2>2, IntentFields DEF Prepared, Row, Statuses
  <2> QED
    BY <2>1, <2>2
<1>4. p.owner = c /\ p.fingerprint = e.fingerprint /\ p.replay = e.replay
  BY <1>2 DEF Begin, CanBegin, CanInspect, Owned, Prepared
<1>5. HasRow(e.id) => p.result = row[e.id].result
  BY <1>2 DEF Prepared
<1>6. PICK s \in Statuses \ {"prepared"} : row' = [row EXCEPT ![e.id] = [p EXCEPT !.status = s]]
  BY <1>2 DEF Begin, Decision, Statuses
<1>7. /\ [p EXCEPT !.status = s] \in Row
      /\ [p EXCEPT !.status = s].owner = p.owner
      /\ [p EXCEPT !.status = s].fingerprint = p.fingerprint
      /\ [p EXCEPT !.status = s].replay = p.replay
      /\ [p EXCEPT !.status = s].result = p.result
      /\ [p EXCEPT !.status = s].status = s
  BY <1>3 DEF Row
<1> QED
  BY <1>4, <1>5, <1>6, <1>7

\* commit, mark_unknown and mark_reconciled change the status and at most the
\* result of one existing row of the caller.
LEMMA SettleEffect ==
  ASSUME TypeOK, NEW c \in Coords,
         \/ \E e \in Effects, p \in Payloads : Commit(c, e, p)
         \/ \E e \in Effects, p \in Payloads \cup {NoPayload} : MarkUnknown(c, e, p)
         \/ \E i \in Ids : MarkReconciled(c, i)
  PROVE  /\ saved' = saved /\ retired' = retired /\ granted' = granted
         /\ \E i \in Ids, v \in Row :
              /\ HasRow(i) /\ row' = [row EXCEPT ![i] = v]
              /\ v.owner = row[i].owner /\ v.fingerprint = row[i].fingerprint
              /\ v.replay = row[i].replay /\ v.status # "prepared"
              /\ row[i].result # NoPayload => v.result # NoPayload
<1>1. ASSUME NEW e \in Effects, NEW p \in Payloads, Commit(c, e, p)
      PROVE  \E v \in Row :
              /\ HasRow(e.id) /\ row' = [row EXCEPT ![e.id] = v]
              /\ v.owner = row[e.id].owner /\ v.fingerprint = row[e.id].fingerprint
              /\ v.replay = row[e.id].replay /\ v.status # "prepared"
              /\ row[e.id].result # NoPayload => v.result # NoPayload
  <2> DEFINE v == [row[e.id] EXCEPT !.status = "committed", !.result = p]
  <2>1. HasRow(e.id) /\ row[e.id] \in Row /\ row' = [row EXCEPT ![e.id] = v]
    BY <1>1, IntentFields DEF Commit, CanSettle, TypeOK, HasRow
  <2>2. /\ v \in Row /\ v.owner = row[e.id].owner /\ v.fingerprint = row[e.id].fingerprint
        /\ v.replay = row[e.id].replay /\ v.status = "committed" /\ v.result = p
    BY <2>1 DEF Row, Statuses
  <2> QED
    BY <2>1, <2>2, RowAssumption
<1>2. ASSUME NEW e \in Effects, NEW p \in Payloads \cup {NoPayload}, MarkUnknown(c, e, p)
      PROVE  \E v \in Row :
              /\ HasRow(e.id) /\ row' = [row EXCEPT ![e.id] = v]
              /\ v.owner = row[e.id].owner /\ v.fingerprint = row[e.id].fingerprint
              /\ v.replay = row[e.id].replay /\ v.status # "prepared"
              /\ row[e.id].result # NoPayload => v.result # NoPayload
  <2> DEFINE q == IF p = NoPayload THEN row[e.id].result ELSE p
             v == [row[e.id] EXCEPT !.status = "reconciliation_required", !.result = q]
  <2>1. HasRow(e.id) /\ row[e.id] \in Row /\ row' = [row EXCEPT ![e.id] = v]
    BY <1>2, IntentFields DEF MarkUnknown, CanSettle, TypeOK, HasRow
  <2>2. q \in Payloads \cup {NoPayload}
    BY <2>1 DEF Row
  <2>3. /\ v \in Row /\ v.owner = row[e.id].owner /\ v.fingerprint = row[e.id].fingerprint
        /\ v.replay = row[e.id].replay /\ v.status = "reconciliation_required" /\ v.result = q
    BY <2>1, <2>2 DEF Row, Statuses
  <2>4. row[e.id].result # NoPayload => q # NoPayload
    OBVIOUS
  <2> HIDE DEF q, v
  <2> QED
    BY <2>1, <2>3, <2>4
<1>3. ASSUME NEW i \in Ids, MarkReconciled(c, i)
      PROVE  \E v \in Row :
              /\ HasRow(i) /\ row' = [row EXCEPT ![i] = v]
              /\ v.owner = row[i].owner /\ v.fingerprint = row[i].fingerprint
              /\ v.replay = row[i].replay /\ v.status # "prepared"
              /\ row[i].result # NoPayload => v.result # NoPayload
  <2> DEFINE v == [row[i] EXCEPT !.status = "committed"]
  <2>1. HasRow(i) /\ row[i] \in Row /\ row' = [row EXCEPT ![i] = v]
    BY <1>3 DEF MarkReconciled, CanReconcile, ReconciliationResult, TypeOK, HasRow
  <2>2. /\ v \in Row /\ v.owner = row[i].owner /\ v.fingerprint = row[i].fingerprint
        /\ v.replay = row[i].replay /\ v.status = "committed" /\ v.result = row[i].result
    BY <2>1 DEF Row, Statuses
  <2> QED
    BY <2>1, <2>2
<1>4. saved' = saved /\ retired' = retired /\ granted' = granted
  BY DEF Commit, MarkUnknown, MarkReconciled
<1> QED
  BY <1>1, <1>2, <1>3, <1>4, IntentFields

-----------------------------------------------------------------------------
\* Every operation keeps the tables well typed.
LEMMA NextType == TypeOK /\ [Next]_vars => TypeOK'
<1> SUFFICES ASSUME TypeOK, [Next]_vars PROVE TypeOK'
  OBVIOUS
<1>1. ASSUME NEW c \in Coords, NEW e \in Effects, Begin(c, e)
      PROVE  TypeOK'
  <2>1. row' \in [Ids -> Row \cup {NoRow}]
    BY <1>1, BeginEffect DEF TypeOK
  <2>2. granted' \in [Ids -> Nat]
    BY <1>1, IntentFields DEF Begin, TypeOK
  <2> QED
    BY <1>1, <2>1, <2>2 DEF Begin, TypeOK
<1>2. ASSUME NEW c \in Coords,
             \/ \E e \in Effects, p \in Payloads : Commit(c, e, p)
             \/ \E e \in Effects, p \in Payloads \cup {NoPayload} : MarkUnknown(c, e, p)
             \/ \E i \in Ids : MarkReconciled(c, i)
      PROVE  TypeOK'
  BY <1>2, SettleEffect DEF TypeOK
<1>3. ASSUME NEW c \in Coords, NEW k \in Calls, NEW p \in Payloads, SaveToolResult(c, k, p)
      PROVE  TypeOK'
  BY <1>3 DEF SaveToolResult, TypeOK
<1>4. ASSUME NEW T \in SUBSET Coords, DeleteSessions(T)
      PROVE  TypeOK'
  BY <1>4 DEF DeleteSessions, RetiredIds, TypeOK
<1>5. CASE UNCHANGED vars
  BY <1>5 DEF TypeOK, vars
<1> QED
  BY <1>1, <1>2, <1>3, <1>4, <1>5 DEF Next

\* The evidence of what was granted survives every operation.
LEMMA NextEvidence == TypeOK /\ EvidenceRemains /\ [Next]_vars => EvidenceRemains'
<1> SUFFICES ASSUME TypeOK, EvidenceRemains, [Next]_vars, NEW i \in Ids
             PROVE  /\ granted'[i] > 0 => \/ HasRow(i)' /\ row'[i].status # "prepared"
                                          \/ i \in retired'.effects
                    /\ HasRow(i)' => /\ i \notin retired'.effects
                                     /\ row'[i].owner \notin retired'.coords
  BY DEF EvidenceRemains, Ids
<1>0. /\ granted[i] > 0 => \/ HasRow(i) /\ row[i].status # "prepared"
                           \/ i \in retired.effects
      /\ HasRow(i) => i \notin retired.effects /\ row[i].owner \notin retired.coords
  BY DEF EvidenceRemains
<1>1. ASSUME NEW c \in Coords, NEW e \in Effects, Begin(c, e)
      PROVE  /\ granted'[i] > 0 => \/ HasRow(i)' /\ row'[i].status # "prepared"
                                   \/ i \in retired'.effects
             /\ HasRow(i)' => /\ i \notin retired'.effects
                              /\ row'[i].owner \notin retired'.coords
  <2>1. PICK v \in Row : row' = [row EXCEPT ![e.id] = v] /\ v.owner = c /\ v.status # "prepared"
    BY <1>1, BeginEffect
  <2>2. retired' = retired /\ e.id \notin retired.effects /\ c \notin retired.coords
    BY <1>1 DEF Begin, CanBegin, CanInspect, Owned
  <2>3. CASE i = e.id
    <3>1. row'[i] = v /\ HasRow(i)'
      BY <2>1, <2>3, RowAssumption DEF TypeOK, HasRow
    <3> QED
      BY <2>1, <2>2, <2>3, <3>1
  <2>4. CASE i # e.id
    <3>1. row'[i] = row[i] /\ granted'[i] = granted[i]
      BY <1>1, <2>1, <2>4 DEF Begin, TypeOK
    <3> QED
      BY <1>0, <2>2, <3>1 DEF HasRow
  <2> QED
    BY <2>3, <2>4
<1>2. ASSUME NEW c \in Coords,
             \/ \E e \in Effects, p \in Payloads : Commit(c, e, p)
             \/ \E e \in Effects, p \in Payloads \cup {NoPayload} : MarkUnknown(c, e, p)
             \/ \E j \in Ids : MarkReconciled(c, j)
      PROVE  /\ granted'[i] > 0 => \/ HasRow(i)' /\ row'[i].status # "prepared"
                                   \/ i \in retired'.effects
             /\ HasRow(i)' => /\ i \notin retired'.effects
                              /\ row'[i].owner \notin retired'.coords
  <2>1. retired' = retired /\ granted' = granted
    BY <1>2, SettleEffect
  <2>2. PICK j \in Ids, v \in Row :
          /\ HasRow(j) /\ row' = [row EXCEPT ![j] = v]
          /\ v.owner = row[j].owner /\ v.status # "prepared"
    BY <1>2, SettleEffect
  <2>3. CASE i = j
    <3>1. row'[i] = v /\ HasRow(i)' /\ HasRow(i)
      BY <2>2, <2>3, RowAssumption DEF TypeOK, HasRow
    <3> QED
      BY <1>0, <2>1, <2>2, <2>3, <3>1
  <2>4. CASE i # j
    <3>1. row'[i] = row[i]
      BY <2>2, <2>4 DEF TypeOK
    <3> QED
      BY <1>0, <2>1, <3>1 DEF HasRow
  <2> QED
    BY <2>3, <2>4
<1>3. ASSUME NEW c \in Coords, NEW k \in Calls, NEW p \in Payloads, SaveToolResult(c, k, p)
      PROVE  /\ granted'[i] > 0 => \/ HasRow(i)' /\ row'[i].status # "prepared"
                                   \/ i \in retired'.effects
             /\ HasRow(i)' => /\ i \notin retired'.effects
                              /\ row'[i].owner \notin retired'.coords
  BY <1>0, <1>3 DEF SaveToolResult, HasRow
<1>4. ASSUME NEW T \in SUBSET Coords, DeleteSessions(T)
      PROVE  /\ granted'[i] > 0 => \/ HasRow(i)' /\ row'[i].status # "prepared"
                                   \/ i \in retired'.effects
             /\ HasRow(i)' => /\ i \notin retired'.effects
                              /\ row'[i].owner \notin retired'.coords
  BY <1>0, <1>4 DEF DeleteSessions, RetiredIds, HasRow
<1>5. CASE UNCHANGED vars
  BY <1>0, <1>5 DEF vars, HasRow
<1> QED
  BY <1>1, <1>2, <1>3, <1>4, <1>5 DEF Next

\* begin does not grant a manual effect again.
LEMMA NextGranted ==
  TypeOK /\ EvidenceRemains /\ GrantedOnce /\ [Next]_vars => GrantedOnce'
<1> SUFFICES ASSUME TypeOK, EvidenceRemains, GrantedOnce, [Next]_vars,
                    NEW i \in Ids, Manual(i)
             PROVE  granted'[i] <= 1
  BY DEF GrantedOnce, Manual, Ids
<1>0. granted[i] <= 1 /\ granted[i] \in Nat
  BY DEF GrantedOnce, TypeOK
<1>1. ASSUME NEW c \in Coords, NEW e \in Effects, Begin(c, e)
      PROVE  granted'[i] <= 1
  <2>1. CASE i = e.id /\ Decision(e) = "execute"
    <3>1. e.replay = "manual" /\ i \notin retired.effects
      BY <1>1, <2>1 DEF Manual, Begin, CanBegin
    <3>2. HasRow(i) => row[i].status \in Statuses
      BY DEF TypeOK, HasRow, Row
    <3>3. ~HasRow(i) \/ row[i].status = "prepared"
      BY <2>1, <3>1, <3>2 DEF Decision, Uncertain, Statuses
    <3>4. ~(granted[i] > 0)
      BY <3>1, <3>3 DEF EvidenceRemains
    <3>5. granted'[i] = granted[i] + 1
      BY <1>1, <2>1 DEF Begin, TypeOK
    <3> QED
      BY <1>0, <3>4, <3>5
  <2>2. CASE ~(i = e.id /\ Decision(e) = "execute")
    <3>1. granted'[i] = granted[i]
      BY <1>1, <2>2 DEF Begin, TypeOK
    <3> QED
      BY <1>0, <3>1
  <2> QED
    BY <2>1, <2>2
<1>2. CASE granted' = granted
  BY <1>0, <1>2
<1>3. CASE ~(\E c \in Coords, e \in Effects : Begin(c, e))
  BY <1>2, <1>3 DEF Next, Commit, MarkUnknown, MarkReconciled, SaveToolResult, DeleteSessions, vars
<1> QED
  BY <1>1, <1>3

\* No operation but deletion changes what the evidence says.
LEMMA NextFinal ==
  ASSUME TypeOK, [Next]_vars
  PROVE  /\ \A i \in Ids : i \notin retired'.effects => KeepsEvidence(i)
         /\ \A c \in Coords : c \notin retired'.coords => \A k \in Calls : KeepsResult(c, k)
<1>1. ASSUME NEW c \in Coords, NEW e \in Effects, Begin(c, e)
      PROVE  saved' = saved /\ \A i \in Ids : KeepsEvidence(i)
  <2>1. PICK v \in Row :
           /\ row' = [row EXCEPT ![e.id] = v]
           /\ v.owner = c /\ v.fingerprint = e.fingerprint /\ v.replay = e.replay
           /\ HasRow(e.id) => v.result = row[e.id].result
    BY <1>1, BeginEffect
  <2>2. HasRow(e.id) => /\ row[e.id].owner = c /\ row[e.id].fingerprint = e.fingerprint
                        /\ row[e.id].replay = e.replay
    BY <1>1 DEF Begin, CanBegin, CanInspect, Owned
  <2> QED
    BY <1>1, <2>1, <2>2, RowAssumption DEF Begin, KeepsEvidence, HasRow, TypeOK
<1>2. ASSUME NEW c \in Coords,
             \/ \E e \in Effects, p \in Payloads : Commit(c, e, p)
             \/ \E e \in Effects, p \in Payloads \cup {NoPayload} : MarkUnknown(c, e, p)
             \/ \E j \in Ids : MarkReconciled(c, j)
      PROVE  saved' = saved /\ \A i \in Ids : KeepsEvidence(i)
  <2>1. saved' = saved
    BY <1>2, SettleEffect
  <2>2. PICK j \in Ids, v \in Row :
              /\ HasRow(j) /\ row' = [row EXCEPT ![j] = v]
              /\ v.owner = row[j].owner /\ v.fingerprint = row[j].fingerprint
              /\ v.replay = row[j].replay
              /\ row[j].result # NoPayload => v.result # NoPayload
    BY <1>2, SettleEffect
  <2> QED
    BY <2>1, <2>2, RowAssumption DEF KeepsEvidence, HasRow, TypeOK
<1>3. ASSUME NEW c \in Coords, NEW k \in Calls, NEW p \in Payloads, SaveToolResult(c, k, p)
      PROVE  /\ row' = row
             /\ \A d \in Coords, m \in Calls : KeepsResult(d, m)
  BY <1>3 DEF SaveToolResult, FirstWins, KeepsResult, TypeOK
<1>4. ASSUME NEW T \in SUBSET Coords, DeleteSessions(T)
      PROVE  /\ \A i \in Ids : i \notin retired'.effects => row'[i] = row[i]
             /\ \A c \in Coords : c \notin retired'.coords => saved'[c] = saved[c]
  BY <1>4 DEF DeleteSessions, RetiredIds
<1>5. CASE UNCHANGED vars
  BY <1>5 DEF vars, KeepsEvidence, KeepsResult, HasRow
<1> QED
  BY <1>1, <1>2, <1>3, <1>4, <1>5 DEF Next, KeepsEvidence, KeepsResult, HasRow

-----------------------------------------------------------------------------
\* Nothing is granted, and nothing can contradict it, in an empty journal.
LEMMA InitInv == Init => EvidenceRemains /\ GrantedOnce
BY DEF Init, EvidenceRemains, GrantedOnce, HasRow

\* The tables of the journal are well typed in every reachable state.
THEOREM TypeCorrect == Spec => []TypeOK
BY InitType, NextType, PTL DEF Spec

\* The evidence of a granted effect is kept, or its id is retired for good
\* (begin, commit, mark_unknown, delete_sessions).
THEOREM EvidenceCorrect == Spec => []EvidenceRemains
BY InitType, InitInv, NextType, NextEvidence, PTL DEF Spec

\* For any number of processes, sessions and failures, the right to execute
\* a manual effect is handed out at most once (begin).
THEOREM GrantedCorrect == Spec => []GrantedOnce
BY InitType, InitInv, NextType, NextEvidence, NextGranted, PTL DEF Spec

\* Until its session is deleted an effect keeps its owner, meaning and replay
\* policy and never loses a known result, and a frozen tool result is never
\* replaced (commit, mark_unknown, save_tool_result).
THEOREM FinalCorrect == Spec => EvidenceIsFinal
<1>1. TypeOK /\ [Next]_vars
        => [/\ \A i \in Ids : i \notin retired'.effects => KeepsEvidence(i)
            /\ \A c \in Coords : c \notin retired'.coords => \A k \in Calls : KeepsResult(c, k)]_vars
  BY NextFinal
<1> QED
  BY <1>1, InitType, NextType, PTL DEF Spec, EvidenceIsFinal
=============================================================================
