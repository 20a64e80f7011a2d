------------------------ MODULE SessionDeletionProofs ------------------------
(***************************************************************************)
(* Proofs about SessionDeletion for every number of processes, children    *)
(* and requests.                                                           *)
(*                                                                         *)
(* The invariant is DeletionInv == Typed /\ Facts.  Facts holds the three  *)
(* properties and what they rest on: a request belongs to one process      *)
(* (Owned), its messages and receipts carry the plan on disk (Requested),  *)
(* the holder of the transcript locks has barred one store after the other *)
(* (Cleaned), and an open transcript excludes all of that (Locked).        *)
(*                                                                         *)
(* Most steps are calm: they leave requests, tombstones and the service    *)
(* alone and write only where no tombstone is, or to a transcript that is  *)
(* open.  For these one lemma (CalmKeeps) proves the invariant; the other  *)
(* steps, of a request and of the cleanup, have a lemma each.              *)
(***************************************************************************)
EXTENDS SessionDeletion, TLAPS

\* The steps of the store's delete, which holds the transcript locks, and all
\* steps after the service has confirmed.
Cleaning  == {"retire", "effects", "approvals", "runs", "transcript", "graph", "history", "mark"}
Confirmed == {"confirmed", "close", "lock"} \cup Cleaning
Places    == {"idle", "available", "prepare", "sent", "refused", "query"} \cup Confirmed

Op      == [at : Places, req : 0 .. MaxRequests, plan : SUBSET Sessions, own : BOOLEAN]
Control == [rev : Nat, kids : SUBSET Kids, saved : BOOLEAN]
Proc    == [op : Op, bound : BOOLEAN, retired : BOOLEAN, turn : BOOLEAN, writer : BOOLEAN,
            control : Control \cup {NoControl}]
Plan    == [targets : SUBSET Sessions, complete : BOOLEAN]
Message == [req : Requests, targets : SUBSET Sessions]

\* Full types; a process in an operation on a request has one.
StoresTyped ==
  /\ rows \in SUBSET (Stores \X Sessions) /\ barred \in SUBSET (Stores \X Sessions)
  /\ checkpoint \in [rev : Nat, kids : SUBSET Kids]

RequestsTyped ==
  /\ intents \in [Requests -> Plan \cup {NoIntent}]
  /\ lease \in Procs \cup {Nobody}
  /\ asked \in 0 .. MaxRequests
  /\ net \in SUBSET Message
  /\ remote \in [deleted : SUBSET Sessions, receipts : SUBSET Message]
  /\ upsets \in Nat

ProcsTyped ==
  /\ procs \in [Procs -> Proc]
  /\ \A p \in Procs : procs[p].op.at \notin {"idle", "available"} => procs[p].op.req \in Requests

Typed == StoresTyped /\ RequestsTyped /\ ProcsTyped

\* Each request belongs to one process, which has not saved its plan before
\* it prepares.
Owned ==
  /\ \A p \in Procs : procs[p].op.at \in {"idle", "available"} => ~procs[p].op.own
  /\ \A p \in Procs : procs[p].op.at \in {"prepare", "sent", "refused"} => procs[p].op.own
  /\ \A p \in Procs : procs[p].op.own => procs[p].op.req \in 1 .. asked
  /\ \A p, q \in Procs : procs[p].op.own /\ procs[q].op.own /\ procs[p].op.req = procs[q].op.req => p = q
  /\ \A r \in Requests : intents[r] # NoIntent => r <= asked
  /\ \A p \in Procs : At(p, "prepare") => intents[procs[p].op.req] = NoIntent

\* Who waits for an answer has its plan on disk, a refused request is nowhere
\* any more, and who was confirmed holds the receipt of its plan.
Requested ==
  /\ \A p \in Procs : At(p, "sent") =>
       intents[procs[p].op.req] # NoIntent /\ intents[procs[p].op.req].targets = procs[p].op.plan
  /\ \A p \in Procs : At(p, "refused") => \A m \in net \cup remote.receipts : m.req # procs[p].op.req
  /\ \A m \in net, n \in remote.receipts : m.req # n.req
  /\ \A p \in Procs : procs[p].op.at \in Confirmed =>
       [req |-> procs[p].op.req, targets |-> procs[p].op.plan] \in remote.receipts
  /\ \A m \in remote.receipts : m.targets \subseteq remote.deleted

\* What the cleanup has barred when it gets to a place.
BarredBefore(at) ==
  CASE at = "effects"    -> {"transcript"}
    [] at = "approvals"  -> {"transcript", "effects"}
    [] at = "runs"       -> {"transcript", "effects", "approvals"}
    [] at = "transcript" -> {"transcript", "effects", "approvals", "runs"}
    [] at = "graph"      -> {"transcript", "effects", "approvals", "runs"}
    [] at = "history"    -> {"transcript", "effects", "approvals", "runs", "graph"}
    [] at = "mark"       -> Stores
    [] OTHER             -> {}

Cleaned ==
  /\ \A p \in Procs : procs[p].op.at \in Cleaning => lease = p
  /\ \A p \in Procs : \A store \in BarredBefore(procs[p].op.at) : {store} \X procs[p].op.plan \subseteq barred
  /\ \A p \in Procs : procs[p].op.at \in {"graph", "history", "mark"} =>
       \A t \in procs[p].op.plan : <<"transcript", t>> \notin rows
  /\ \A store \in Databases, t \in Sessions : <<store, t>> \in barred => <<store, t>> \notin rows

\* An open transcript excludes the deletion of all transcripts.
Locked ==
  /\ \A r \in Intents : Root \in intents[r].targets
  /\ \A p \in Procs : At(p, "prepare") => Root \in procs[p].op.plan
  /\ \A t \in Sessions : <<"transcript", t>> \in barred => <<"transcript", Root>> \in barred
  /\ \A p \in Procs : procs[p].writer => lease = Nobody /\ <<"transcript", Root>> \notin barred

-----------------------------------------------------------------------------
(* How the records of a process and the stores change. *)

\* A process that is in no operation on a request, or only looks one up.
Rests(o) == ~o.own /\ (o.at \in {"idle", "available"} \/ (o.at = "query" /\ o.req \in Requests))

\* How an operation goes on that neither waits for the service nor holds locks:
\* as it was, at rest, or with the receipt of its plan at hand.
Follows(o, n) ==
  \/ n = o
  \/ Rests(n)
  \/ /\ n.at \in {"confirmed", "close", "lock"} /\ n.req = o.req /\ n.own = o.own
     /\ [req |-> n.req, targets |-> n.plan] \in remote.receipts

\* Process p becomes v, and no other process changes.
Becomes(p, v) ==
  /\ v \in Proc
  /\ procs' \in [Procs -> Proc]
  /\ procs'[p] = v
  /\ \A q \in Procs : q # p => procs'[q] = procs[q]

\* Rows that appear are not barred, unless an open transcript is written.
Guarded(rs) ==
  \A pair \in rs \ rows :
    pair \notin barred \/ (pair[1] = "transcript" /\ \E q \in Procs : procs[q].writer)

\* Idle is an operation record of a resting process.
LEMMA IdleOp == Idle \in Op /\ Rests(Idle)
BY RequestsAssumption DEF Idle, Op, Places, Rests

\* Advancing an operation changes its place only.
LEMMA OpAt ==
  ASSUME NEW o \in Op, NEW x \in Places
  PROVE /\ [o EXCEPT !.at = x] \in Op
        /\ [o EXCEPT !.at = x].at = x
        /\ [o EXCEPT !.at = x].req = o.req
        /\ [o EXCEPT !.at = x].plan = o.plan
        /\ [o EXCEPT !.at = x].own = o.own
BY DEF Op

\* An assignment to one process.
LEMMA Assigned ==
  ASSUME procs \in [Procs -> Proc], NEW p \in Procs, NEW v \in Proc, procs' = [procs EXCEPT ![p] = v]
  PROVE Becomes(p, v)
BY DEF Becomes

\* Move and Goto change the operation of one process and nothing else of it.
LEMMA Moved ==
  ASSUME procs \in [Procs -> Proc], NEW p \in Procs, NEW o \in Op, Move(p, o)
  PROVE \E v \in Proc : Becomes(p, v) /\ v.op = o /\ v.writer = procs[p].writer
<1> DEFINE v == [procs[p] EXCEPT !.op = o]
<1>1. procs' = [procs EXCEPT ![p] = v]
  BY DEF Move
<1>2. v \in Proc /\ v.op = o /\ v.writer = procs[p].writer
  BY DEF Proc
<1> QED BY <1>1, <1>2, Assigned

\* Goto advances the operation of one process.
LEMMA Went ==
  ASSUME procs \in [Procs -> Proc], NEW p \in Procs, NEW x \in Places, Goto(p, x)
  PROVE \E v \in Proc :
          /\ Becomes(p, v) /\ v.writer = procs[p].writer
          /\ v.op \in Op /\ v.op.at = x /\ v.op.req = procs[p].op.req
          /\ v.op.plan = procs[p].op.plan /\ v.op.own = procs[p].op.own
<1> DEFINE o == [procs[p].op EXCEPT !.at = x]
<1>1. procs[p].op \in Op
  BY DEF Proc
<1>2. o \in Op /\ o.at = x /\ o.req = procs[p].op.req /\ o.plan = procs[p].op.plan /\ o.own = procs[p].op.own
  BY <1>1, OpAt
<1>3. Move(p, o)
  BY DEF Goto
<1> HIDE DEF o
<1> QED BY <1>2, <1>3, Moved

\* The processes stay typed when one of them changes its record.
LEMMA ProcsTypedStep ==
  ASSUME ProcsTyped, NEW p \in Procs, NEW v \in Proc, Becomes(p, v),
         v.op.at \notin {"idle", "available"} => v.op.req \in Requests
  PROVE ProcsTyped'
BY DEF ProcsTyped, Becomes

\* The sessions of a control, and the pairs of a store.
LEMMA ScopeTyped ==
  ASSUME NEW c \in Control \cup {NoControl}
  PROVE Root \in Scope(c) /\ Scope(c) \in SUBSET Sessions /\ KidsOf(c) \in SUBSET Kids
BY DEF Scope, KidsOf, Control, Sessions

\* A write adds its pair, and only when the session was not deleted.
LEMMA PutGuarded ==
  ASSUME NEW rs \in SUBSET (Stores \X Sessions), NEW store \in Stores, NEW s \in Sessions
  PROVE /\ Put(rs, store, s) \in SUBSET (Stores \X Sessions)
        /\ \A pair \in Put(rs, store, s) \ rs : pair \notin barred
BY DEF Put

\* The end of a session is written to a transcript that was not deleted.
LEMMA EndGuarded ==
  ASSUME StoresTyped
  PROVE EndRecorded \in SUBSET (Stores \X Sessions) /\ Guarded(EndRecorded)
<1>1. "transcript" \in Stores /\ Root \in Sessions
  BY DEF Stores, Sessions
<1>2. /\ Put(rows, "transcript", Root) \in SUBSET (Stores \X Sessions)
      /\ \A pair \in Put(rows, "transcript", Root) \ rows : pair \notin barred
  BY <1>1, PutGuarded DEF StoresTyped
<1> QED BY <1>2 DEF EndRecorded, Guarded, StoresTyped

\* Saving a graph writes at most the graph's row, unless it is barred.
LEMMA SaveGuarded ==
  ASSUME StoresTyped, NEW rs \in SUBSET (Stores \X Sessions), Guarded(rs),
         NEW c, c.rev \in Nat, c.kids \in SUBSET Kids, SaveGraph(c, rs)
  PROVE /\ rows' \in SUBSET (Stores \X Sessions) /\ Guarded(rows')
        /\ checkpoint' \in [rev : Nat, kids : SUBSET Kids]
<1>1. "graph" \in Stores /\ Root \in Sessions
  BY DEF Stores, Databases, Sessions
<1>2. /\ Put(rs, "graph", Root) \in SUBSET (Stores \X Sessions)
      /\ \A pair \in Put(rs, "graph", Root) \ rs : pair \notin barred
  BY <1>1, PutGuarded
<1>3. rows' = rs \/ rows' = Put(rs, "graph", Root)
  BY DEF SaveGraph
<1>4. checkpoint' = checkpoint \/ checkpoint' = [rev |-> c.rev, kids |-> c.kids]
  BY DEF SaveGraph
<1>5. checkpoint' \in [rev : Nat, kids : SUBSET Kids]
  BY <1>4 DEF StoresTyped
<1> QED BY <1>2, <1>3, <1>5 DEF Guarded

\* So does shutting down the sub-agents of a process.
LEMMA ShutdownGuarded ==
  ASSUME StoresTyped, ProcsTyped, NEW p \in Procs, NEW rs \in SUBSET (Stores \X Sessions), Guarded(rs),
         ShutdownRoot(p, rs)
  PROVE /\ rows' \in SUBSET (Stores \X Sessions) /\ Guarded(rows')
        /\ checkpoint' \in [rev : Nat, kids : SUBSET Kids]
<1>1. CASE KidsOf(procs[p].control) = {}
  BY <1>1 DEF ShutdownRoot, StoresTyped
<1>2. CASE KidsOf(procs[p].control) # {}
  <2> DEFINE c == [procs[p].control EXCEPT !.rev = @ + 1]
  <2>1. procs[p].control \in Control \cup {NoControl}
    BY DEF ProcsTyped, Proc
  <2>2. procs[p].control \in Control
    BY <1>2, <2>1 DEF KidsOf
  <2>3. c.rev \in Nat /\ c.kids \in SUBSET Kids
    BY <2>2 DEF Control
  <2>4. SaveGraph(c, rs)
    BY <1>2 DEF ShutdownRoot
  <2> HIDE DEF c
  <2> QED BY <2>3, <2>4, SaveGuarded
<1> QED BY <1>1, <1>2
-----------------------------------------------------------------------------
(* The steps that leave the deletion requests, the tombstones and the       *)
(* service alone: turns, agents, and operations that end early.             *)

\* Operations go on as they are or end; who gives up gives the lock back; who
\* starts to write finds no lock and no tombstone.
Calm ==
  /\ UNCHANGED <<barred, intents, remote>>
  /\ net' \subseteq net
  /\ asked <= asked'
  /\ Guarded(rows')
  /\ \A q \in Procs : Follows(procs[q].op, procs'[q].op)
  /\ \A q \in Procs : procs'[q].writer =>
       procs[q].writer \/ (lease = Nobody /\ <<"transcript", Root>> \notin barred)
  /\ lease' # lease => lease \in Procs /\ lease' = Nobody /\ Rests(procs'[lease].op)

\* What an action has to show to be a calm step.
LEMMA CalmBy ==
  ASSUME Typed, NEW p \in Procs, NEW v \in Proc, Becomes(p, v),
         Follows(procs[p].op, v.op),
         v.writer => procs[p].writer \/ (lease = Nobody /\ <<"transcript", Root>> \notin barred),
         UNCHANGED <<barred, intents, net, remote>>,
         asked' \in 0 .. MaxRequests, asked <= asked', upsets' \in Nat,
         rows' \in SUBSET (Stores \X Sessions), Guarded(rows'),
         checkpoint' \in [rev : Nat, kids : SUBSET Kids],
         lease' = lease \/ (lease = p /\ lease' = Nobody /\ Rests(v.op))
  PROVE Typed' /\ Calm
<1>1. ProcsTyped'
  <2>1. v.op.at \notin {"idle", "available"} => v.op.req \in Requests
    BY DEF Follows, Rests, Typed, ProcsTyped, RequestsTyped, Message
  <2> QED BY <2>1, ProcsTypedStep DEF Typed
<1>2. StoresTyped' /\ RequestsTyped'
  BY DEF Typed, StoresTyped, RequestsTyped
<1>3. Calm
  BY DEF Calm, Becomes, Follows
<1> QED BY <1>1, <1>2, <1>3 DEF Typed

\* The types unfolded that the lemmas on actions start from.
LEMMA Known ==
  ASSUME Typed, NEW p \in Procs
  PROVE /\ rows \in SUBSET (Stores \X Sessions) /\ Guarded(rows)
        /\ checkpoint \in [rev : Nat, kids : SUBSET Kids]
        /\ asked \in 0 .. MaxRequests /\ asked <= asked
        /\ upsets \in Nat /\ (Upset => upsets' \in Nat)
        /\ procs \in [Procs -> Proc] /\ procs[p] \in Proc /\ procs[p].op \in Op
        /\ procs[p].control \in Control \cup {NoControl}
        /\ StoresTyped /\ ProcsTyped
<1>1. procs[p] \in Proc
  BY DEF Typed, ProcsTyped
<1>2. procs[p].op \in Op /\ procs[p].control \in Control \cup {NoControl}
  BY <1>1 DEF Proc
<1>3. upsets \in Nat /\ (Upset => upsets' \in Nat)
  BY DEF Typed, RequestsTyped, Upset
<1>4. asked \in 0 .. MaxRequests /\ asked <= asked
  BY DEF Typed, RequestsTyped
<1> QED BY <1>1, <1>2, <1>3, <1>4 DEF Typed, StoresTyped, ProcsTyped, Guarded

\* _assert_session_available moves a resting process only.
LEMMA CheckAvailableCalm ==
  ASSUME Typed, Owned, NEW p \in Procs, CheckAvailable(p)
  PROVE Typed' /\ Calm
<1>1. PICK v \in Proc : /\ Becomes(p, v) /\ v.writer = procs[p].writer
                        /\ v.op.at = "available" /\ v.op.own = procs[p].op.own
  BY Went, Known DEF CheckAvailable, Places
<1>2. Rests(v.op)
  BY <1>1 DEF Owned, CheckAvailable, At, Rests
<1>3. upsets' \in Nat
  BY Known DEF CheckAvailable
<1> QED BY <1>1, <1>2, <1>3, Known, CalmBy DEF Follows, CheckAvailable, stores

\* Binding writes the history cursor, unless the trigger refuses it.
LEMMA BindCalm ==
  ASSUME Typed, NEW p \in Procs, Bind(p)
  PROVE Typed' /\ Calm
<1> DEFINE v == [procs[p] EXCEPT !.op = Idle, !.bound = TRUE]
<1>1. procs' = [procs EXCEPT ![p] = v]
  BY DEF Bind
<1>2. v \in Proc /\ v.op = Idle /\ v.writer = procs[p].writer
  BY Known, IdleOp DEF Proc
<1> HIDE DEF v
<1>3. Becomes(p, v)
  BY <1>1, <1>2, Known, Assigned
<1>4. "history" \in Stores /\ Root \in Sessions
  BY DEF Stores, Databases, Sessions
<1>5. rows' \in SUBSET (Stores \X Sessions) /\ Guarded(rows')
  BY <1>4, Known, PutGuarded DEF Bind, Guarded
<1> QED BY <1>2, <1>3, <1>5, IdleOp, Known, CalmBy DEF Follows, Bind

\* A turn opens its transcript only when no process deletes and none was marked.
LEMMA BeginTurnCalm ==
  ASSUME Typed, NEW p \in Procs, BeginTurn(p)
  PROVE Typed' /\ Calm
<1> DEFINE w == lease = Nobody /\ <<"transcript", Root>> \notin barred
           v == [procs[p] EXCEPT !.op = Idle, !.turn = TRUE, !.writer = w]
<1>1. procs' = [procs EXCEPT ![p] = v]
  BY DEF BeginTurn
<1>2. v \in Proc /\ v.op = Idle /\ v.writer = w
  BY Known, IdleOp DEF Proc
<1> HIDE DEF v
<1>3. Becomes(p, v)
  BY <1>1, <1>2, Known, Assigned
<1>4. "history" \in Stores /\ Root \in Sessions
  BY DEF Stores, Databases, Sessions
<1>5. rows' \in SUBSET (Stores \X Sessions) /\ Guarded(rows')
  BY <1>4, Known, PutGuarded DEF BeginTurn, Guarded
<1> QED BY <1>2, <1>3, <1>5, IdleOp, Known, CalmBy DEF Follows, BeginTurn

\* A turn writes guarded stores, and a transcript that it holds open.
LEMMA TurnWritesCalm ==
  ASSUME Typed, NEW p \in Procs, TurnWrites(p)
  PROVE Typed' /\ Calm
<1>0. PICK s \in Scope(procs[p].control) : \E store \in Holds(s) \ {"graph"} :
        IF store = "transcript"
        THEN procs[p].writer /\ rows' = rows \cup {<<store, s>>}
        ELSE rows' = Put(rows, store, s)
  BY DEF TurnWrites, Scope
<1>1. PICK store \in Holds(s) \ {"graph"} :
        IF store = "transcript"
        THEN procs[p].writer /\ rows' = rows \cup {<<store, s>>}
        ELSE rows' = Put(rows, store, s)
  BY <1>0
<1>2. s \in Sessions /\ store \in Stores
  BY Known, ScopeTyped DEF Holds, Stores, Databases
<1>3. rows' \in SUBSET (Stores \X Sessions) /\ Guarded(rows')
  <2>1. CASE store = "transcript"
    BY <1>1, <1>2, <2>1, Known DEF Guarded
  <2>2. CASE store # "transcript"
    BY <1>1, <1>2, <2>2, Known, PutGuarded DEF Guarded
  <2> QED BY <2>1, <2>2
<1>4. Becomes(p, procs[p])
  BY Known DEF Becomes, TurnWrites
<1> QED BY <1>3, <1>4, Known, CalmBy DEF Follows, TurnWrites

\* The end of a turn closes its transcript.
LEMMA EndTurnCalm ==
  ASSUME Typed, NEW p \in Procs, EndTurn(p)
  PROVE Typed' /\ Calm
<1> DEFINE v == [procs[p] EXCEPT !.turn = FALSE, !.writer = FALSE]
<1>1. procs' = [procs EXCEPT ![p] = v]
  BY DEF EndTurn
<1>2. v \in Proc /\ v.op = procs[p].op /\ v.writer = FALSE
  BY Known DEF Proc
<1> HIDE DEF v
<1>3. Becomes(p, v)
  BY <1>1, <1>2, Known, Assigned
<1> QED BY <1>2, <1>3, Known, CalmBy DEF Follows, EndTurn, stores

\* A control that a process gets is typed, and the operation stays.
LEMMA Controlled ==
  ASSUME Typed, NEW p \in Procs, NEW c \in Control \cup {NoControl},
         procs' = [procs EXCEPT ![p].control = c]
  PROVE \E v \in Proc : Becomes(p, v) /\ v.op = procs[p].op /\ v.writer = procs[p].writer
<1> DEFINE v == [procs[p] EXCEPT !.control = c]
<1>1. procs' = [procs EXCEPT ![p] = v]
  OBVIOUS
<1>2. v \in Proc /\ v.op = procs[p].op /\ v.writer = procs[p].writer
  BY Known DEF Proc
<1> HIDE DEF v
<1> QED BY <1>1, <1>2, Known, Assigned

\* Sub-agents live in the memory of the process until they are persisted.
LEMMA UseAgentsCalm ==
  ASSUME Typed, NEW p \in Procs, UseAgents(p)
  PROVE Typed' /\ Calm
<1> DEFINE control == IF procs[p].control = NoControl THEN Restored ELSE procs[p].control
<1>1. PICK new \in {{}} \cup {{k} : k \in Kids \ control.kids} :
       procs' = [procs EXCEPT ![p].control =
         IF new = {} THEN control
         ELSE [rev |-> control.rev + 1, kids |-> control.kids \cup new, saved |-> FALSE]]
  BY DEF UseAgents
<1>2. Restored \in Control
  BY Known DEF Restored, Control
<1>3. control \in Control
  BY <1>2, Known
<1> HIDE DEF control
<1>4. new \in SUBSET Kids
  OBVIOUS
<1>5. [rev |-> control.rev + 1, kids |-> control.kids \cup new, saved |-> FALSE] \in Control
  BY <1>3, <1>4 DEF Control
<1>6. PICK v \in Proc : Becomes(p, v) /\ v.op = procs[p].op /\ v.writer = procs[p].writer
  BY <1>1, <1>3, <1>5, Controlled
<1> QED BY <1>6, Known, CalmBy DEF Follows, UseAgents, stores

\* The saved graph is written under its trigger.
LEMMA PersistGraphCalm ==
  ASSUME Typed, NEW p \in Procs, PersistGraph(p)
  PROVE Typed' /\ Calm
<1> DEFINE c == [procs[p].control EXCEPT !.saved = TRUE]
<1>1. procs[p].control \in Control
  BY Known DEF PersistGraph
<1>2. c \in Control /\ procs[p].control.rev \in Nat /\ procs[p].control.kids \in SUBSET Kids
  BY <1>1 DEF Control
<1>3. procs' = [procs EXCEPT ![p].control = c]
  BY DEF PersistGraph
<1> HIDE DEF c
<1>4. PICK v \in Proc : Becomes(p, v) /\ v.op = procs[p].op /\ v.writer = procs[p].writer
  BY <1>2, <1>3, Controlled
<1>5. /\ rows' \in SUBSET (Stores \X Sessions) /\ Guarded(rows')
      /\ checkpoint' \in [rev : Nat, kids : SUBSET Kids]
  BY <1>2, Known, SaveGuarded DEF PersistGraph
<1> QED BY <1>4, <1>5, Known, CalmBy DEF Follows, PersistGraph

\* Leaving a session records its end and flushes the graph, both guarded.
LEMMA UnbindCalm ==
  ASSUME Typed, NEW p \in Procs, Unbind(p)
  PROVE Typed' /\ Calm
<1> DEFINE b == ~procs[p].retired /\ FlushFails(p)
           v == [procs[p] EXCEPT !.bound = b, !.control = NoControl]
<1>1. procs' = [procs EXCEPT ![p] = v]
  BY DEF Unbind
<1>2. b \in BOOLEAN
  OBVIOUS
<1>3. v \in Proc /\ v.op = procs[p].op /\ v.writer = procs[p].writer
  <2> HIDE DEF b
  <2> QED BY <1>2, Known DEF Proc
<1> HIDE DEF v
<1>4. Becomes(p, v)
  BY <1>1, <1>3, Known, Assigned
<1>5. /\ rows' \in SUBSET (Stores \X Sessions) /\ Guarded(rows')
      /\ checkpoint' \in [rev : Nat, kids : SUBSET Kids]
  BY Known, EndGuarded, ShutdownGuarded DEF Unbind
<1> QED BY <1>3, <1>4, <1>5, Known, CalmBy DEF Follows, Unbind
\* An operation that ends, with or without the transcript locks.
LEMMA EndsCalm ==
  ASSUME Typed, NEW p \in Procs, Move(p, Idle),
         lease' = lease \/ (lease = p /\ lease' = Nobody),
         UNCHANGED <<stores, intents, asked, net, remote>>, upsets' \in Nat
  PROVE Typed' /\ Calm
<1>1. PICK v \in Proc : Becomes(p, v) /\ v.op = Idle /\ v.writer = procs[p].writer
  BY Known, IdleOp, Moved
<1> QED BY <1>1, IdleOp, Known, CalmBy DEF Follows, stores

\* GiveUp releases the locks of its process.
LEMMA GiveUpCalm ==
  ASSUME Typed, NEW p \in Procs, GiveUp(p), UNCHANGED <<stores, intents, asked, net, remote>>, upsets' \in Nat
  PROVE Typed' /\ Calm
BY EndsCalm DEF GiveUp

\* An operation that fails, is refused by the graph or hears nothing ends.
LEMMA FailCalm ==
  ASSUME Typed, NEW p \in Procs, Fail(p) \/ GraphRefuses(p) \/ Unknown(p)
  PROVE Typed' /\ Calm
<1>1. CASE Fail(p)
  BY <1>1, Known, GiveUpCalm DEF Fail
<1>2. CASE GraphRefuses(p)
  BY <1>2, Known, GiveUpCalm DEF GraphRefuses
<1>3. CASE Unknown(p)
  BY <1>3, Known, EndsCalm DEF Unknown
<1> QED BY <1>1, <1>2, <1>3

\* A crash loses the process and its locks, and nothing on disk.
LEMMA CrashCalm ==
  ASSUME Typed, NEW p \in Procs, Crash(p)
  PROVE Typed' /\ Calm
<1>1. Fresh \in Proc /\ Fresh.op = Idle /\ ~Fresh.writer
  BY IdleOp DEF Fresh, Proc
<1>2. Becomes(p, Fresh)
  BY <1>1, Known, Assigned DEF Crash
<1> QED BY <1>1, <1>2, IdleOp, Known, CalmBy DEF Follows, Crash, stores

\* Pruning the graph removes its row only.
LEMMA ExpireCalm ==
  ASSUME Typed, Expire
  PROVE Typed' /\ Calm
<1>1. upsets' \in Nat
  BY DEF Expire, Upset, Typed, RequestsTyped
<1>2. checkpoint' \in [rev : Nat, kids : SUBSET Kids]
  BY DEF Expire
<1>3. StoresTyped' /\ RequestsTyped' /\ ProcsTyped'
  BY <1>1, <1>2 DEF Expire, Typed, StoresTyped, RequestsTyped, ProcsTyped
<1>4. Calm
  BY DEF Follows, Expire, Calm, Guarded, Typed, RequestsTyped
<1> QED BY <1>3, <1>4 DEF Typed

\* Marking an identity as retired changes neither operation nor writer.
LEMMA Retired ==
  ASSUME Typed, NEW p \in Procs, NEW b \in BOOLEAN, procs' = [procs EXCEPT ![p].retired = b]
  PROVE \E v \in Proc : Becomes(p, v) /\ v.op = procs[p].op /\ v.writer = procs[p].writer
<1> DEFINE v == [procs[p] EXCEPT !.retired = b]
<1>1. procs' = [procs EXCEPT ![p] = v]
  OBVIOUS
<1>2. v \in Proc /\ v.op = procs[p].op /\ v.writer = procs[p].writer
  BY Known DEF Proc
<1> HIDE DEF v
<1> QED BY <1>1, <1>2, Known, Assigned

\* A step that leaves every store and request alone and retires at most.
LEMMA RetiredCalm ==
  ASSUME Typed, NEW p \in Procs, NEW b \in BOOLEAN, procs' = [procs EXCEPT ![p].retired = b],
         asked' \in 0 .. MaxRequests, asked <= asked',
         UNCHANGED <<stores, intents, lease, net, remote, upsets>>
  PROVE Typed' /\ Calm
<1>1. PICK v \in Proc : Becomes(p, v) /\ v.op = procs[p].op /\ v.writer = procs[p].writer
  BY Retired
<1> QED BY <1>1, Known, CalmBy DEF Follows, stores

\* A deletion that starts, or finds the session claimed, or cannot flush the
\* graph.
LEMMA DeleteSteps ==
  ASSUME Typed, NEW p \in Procs, Delete(p)
  PROVE \/ Typed' /\ Calm
        \/ /\ \E v \in Proc :
                /\ Becomes(p, v) /\ v.writer = procs[p].writer
                /\ v.op.at = "prepare" /\ v.op.req = asked + 1 /\ v.op.own
                /\ Root \in v.op.plan /\ v.op.plan \in SUBSET Sessions
           /\ rows' \in SUBSET (Stores \X Sessions) /\ Guarded(rows')
           /\ checkpoint' \in [rev : Nat, kids : SUBSET Kids]
<1>1. asked' \in 0 .. MaxRequests /\ asked <= asked' /\ asked' = asked + 1 /\ asked' \in Requests
  BY Known, RequestsAssumption DEF Delete, Requests
<1>2. CASE Claimed
  <2> DEFINE b == procs[p].retired \/ \E r \in Intents : Root \in intents[r].targets /\ intents[r].complete
  <2>1. procs' = [procs EXCEPT ![p].retired = b]
    BY <1>2 DEF Delete
  <2>2. b \in BOOLEAN
    BY Known DEF Proc
  <2> HIDE DEF b
  <2> QED BY <1>1, <1>2, <2>1, <2>2, RetiredCalm DEF Delete, stores
<1>3. CASE ~Claimed
  <2> DEFINE o == IF FlushFails(p) THEN Idle ELSE
                 [at |-> "prepare", req |-> asked', plan |-> Scope(procs[p].control), own |-> TRUE]
             v == [procs[p] EXCEPT !.control = NoControl, !.op = o]
  <2>1. procs' = [procs EXCEPT ![p] = v]
    BY <1>3 DEF Delete
  <2>2. Root \in Scope(procs[p].control) /\ Scope(procs[p].control) \in SUBSET Sessions
    BY Known, ScopeTyped
  <2>3. o \in Op
    BY <1>1, <2>2, IdleOp DEF Op, Places
  <2>4. o = Idle \/ (o.at = "prepare" /\ o.req = asked + 1 /\ o.own /\ o.plan = Scope(procs[p].control))
    BY <1>1
  <2> HIDE DEF o
  <2>5. v \in Proc /\ v.op = o /\ v.writer = procs[p].writer
    BY <2>3, Known DEF Proc
  <2> HIDE DEF v
  <2>6. Becomes(p, v)
    BY <2>1, <2>5, Known, Assigned
  <2>7. /\ rows' \in SUBSET (Stores \X Sessions) /\ Guarded(rows')
        /\ checkpoint' \in [rev : Nat, kids : SUBSET Kids]
    BY <1>3, Known, ShutdownGuarded DEF Delete
  <2>8. CASE o = Idle
    BY <1>1, <2>5, <2>6, <2>7, <2>8, IdleOp, Known, CalmBy DEF Follows, Delete
  <2>9. CASE o # Idle
    BY <2>2, <2>4, <2>5, <2>6, <2>7, <2>9
  <2> QED BY <2>8, <2>9
<1> QED BY <1>2, <1>3

\* A recovery starts as a query of the saved request.
LEMMA RecoverCalm ==
  ASSUME Typed, NEW p \in Procs, NEW r \in Requests, Recover(p, r)
  PROVE Typed' /\ Calm
<1>1. CASE intents[r].complete
  <2> DEFINE b == procs[p].retired \/ procs[p].bound
  <2>1. procs' = [procs EXCEPT ![p].retired = b]
    BY <1>1 DEF Recover
  <2>2. b \in BOOLEAN
    BY Known DEF Proc
  <2> HIDE DEF b
  <2> QED BY <2>1, <2>2, Known, RetiredCalm DEF Recover, stores
<1>2. CASE ~intents[r].complete
  <2> DEFINE o == [at |-> "query", req |-> r, plan |-> intents[r].targets, own |-> FALSE]
  <2>1. intents[r] \in Plan
    BY DEF Recover, Intents, Typed, RequestsTyped
  <2>2. o \in Op
    BY <2>1 DEF Plan, Op, Places, Requests
  <2>3. Rests(o)
    BY DEF Rests
  <2>4. Move(p, o)
    BY <1>2 DEF Recover
  <2> HIDE DEF o
  <2>5. PICK v \in Proc : Becomes(p, v) /\ v.op = o /\ v.writer = procs[p].writer
    BY <2>2, <2>4, Known, Moved
  <2> QED BY <2>3, <2>5, Known, CalmBy DEF Follows, Recover, stores
<1> QED BY <1>1, <1>2

\* A query goes on only with the receipt of its plan.
LEMMA QueryCalm ==
  ASSUME Typed, NEW p \in Procs, Query(p)
  PROVE Typed' /\ Calm
<1>1. CASE [req |-> procs[p].op.req, targets |-> procs[p].op.plan] \in remote.receipts
  <2>1. Goto(p, "confirmed") /\ "confirmed" \in Places
    BY <1>1 DEF Query, Places, Confirmed
  <2>2. PICK v \in Proc :
          /\ Becomes(p, v) /\ v.writer = procs[p].writer
          /\ v.op.at = "confirmed" /\ v.op.req = procs[p].op.req
          /\ v.op.plan = procs[p].op.plan /\ v.op.own = procs[p].op.own
    BY <2>1, Known, Went
  <2> QED BY <1>1, <2>2, Known, CalmBy DEF Follows, Query, stores
<1>2. CASE [req |-> procs[p].op.req, targets |-> procs[p].op.plan] \notin remote.receipts
  BY <1>2, Known, EndsCalm DEF Query
<1> QED BY <1>1, <1>2

\* A process retires its session with the receipt at hand.
LEMMA RetireCalm ==
  ASSUME Typed, Requested, NEW p \in Procs, Retire(p)
  PROVE Typed' /\ Calm
<1> DEFINE changed == ~(Scope(procs[p].control) \subseteq procs[p].op.plan)
           n == [procs[p].op EXCEPT !.at = "close"]
           r == procs[p].retired \/ procs[p].bound
           c == IF procs[p].op.own THEN procs[p].control ELSE NoControl
           o == IF ~procs[p].op.own /\ (FlushFails(p) \/ changed) THEN Idle ELSE n
           v == [procs[p] EXCEPT !.retired = r, !.control = c, !.op = o]
<1>1. procs' = [procs EXCEPT ![p] = v]
  BY DEF Retire
<1>2. "close" \in Places
  BY DEF Places, Confirmed
<1>3. n \in Op /\ n.at = "close" /\ n.req = procs[p].op.req /\ n.plan = procs[p].op.plan /\ n.own = procs[p].op.own
  BY <1>2, Known, OpAt
<1>4. r \in BOOLEAN /\ c \in Control \cup {NoControl}
  BY Known DEF Proc
<1> HIDE DEF n
<1>5. o \in Op /\ (o = Idle \/ o = n)
  BY <1>3, IdleOp
<1> HIDE DEF r, c, o
<1>6. v \in Proc /\ v.op = o /\ v.writer = procs[p].writer
  BY <1>4, <1>5, Known DEF Proc
<1> HIDE DEF v
<1>7. Becomes(p, v)
  BY <1>1, <1>6, Known, Assigned
<1>8. [req |-> procs[p].op.req, targets |-> procs[p].op.plan] \in remote.receipts
  BY DEF Retire, Requested, At, Confirmed
<1>9. Follows(procs[p].op, v.op)
  BY <1>3, <1>5, <1>6, <1>8, IdleOp DEF Follows
<1>10. /\ rows' \in SUBSET (Stores \X Sessions) /\ Guarded(rows')
       /\ checkpoint' \in [rev : Nat, kids : SUBSET Kids]
  BY Known, ShutdownGuarded DEF Retire
<1> QED BY <1>6, <1>7, <1>9, <1>10, Known, CalmBy DEF Retire

\* The end of the retired session is recorded under the marker.
LEMMA CloseRuntimeCalm ==
  ASSUME Typed, Requested, NEW p \in Procs, CloseRuntime(p)
  PROVE Typed' /\ Calm
<1>1. Goto(p, "lock") /\ "lock" \in Places
  BY DEF CloseRuntime, Places, Confirmed
<1>2. PICK v \in Proc :
        /\ Becomes(p, v) /\ v.writer = procs[p].writer
        /\ v.op.at = "lock" /\ v.op.req = procs[p].op.req
        /\ v.op.plan = procs[p].op.plan /\ v.op.own = procs[p].op.own
  BY <1>1, Known, Went
<1>3. [req |-> procs[p].op.req, targets |-> procs[p].op.plan] \in remote.receipts
  BY DEF CloseRuntime, Requested, At, Confirmed
<1>4. rows' \in SUBSET (Stores \X Sessions) /\ Guarded(rows')
  BY Known, EndGuarded DEF CloseRuntime
<1> QED BY <1>2, <1>3, <1>4, Known, CalmBy DEF Follows, CloseRuntime

\* An answer moves every process that waits for it.
LEMMA AnsweredProcs ==
  ASSUME Typed, NEW m \in Message, NEW answer \in {"confirmed", "refused", "lost"},
         procs' = Answered(m, answer)
  PROVE /\ ProcsTyped'
        /\ \A q \in Procs :
             IF At(q, "sent") /\ procs[q].op.req = m.req
             THEN /\ procs'[q].writer = procs[q].writer
                  /\ IF answer = "lost" THEN procs'[q].op = Idle
                     ELSE /\ procs'[q].op.at = answer /\ procs'[q].op.req = m.req
                          /\ procs'[q].op.plan = procs[q].op.plan
                          /\ procs'[q].op.own = procs[q].op.own
             ELSE procs'[q] = procs[q]
<1> DEFINE waits(q) == At(q, "sent") /\ procs[q].op.req = m.req
           o(q) == IF answer = "lost" THEN Idle ELSE [procs[q].op EXCEPT !.at = answer]
           v(q) == [procs[q] EXCEPT !.op = o(q)]
<1>1. procs' = [q \in Procs |-> IF waits(q) THEN v(q) ELSE procs[q]]
  BY DEF Answered
<1>2. ASSUME NEW q \in Procs, waits(q)
      PROVE /\ v(q) \in Proc /\ v(q).writer = procs[q].writer /\ v(q).op = o(q)
            /\ IF answer = "lost" THEN o(q) = Idle
               ELSE /\ o(q).at = answer /\ o(q).req = m.req
                    /\ o(q).plan = procs[q].op.plan /\ o(q).own = procs[q].op.own
  <2>1. CASE answer = "lost"
    <3>1. o(q) = Idle
      BY <2>1
    <3> HIDE DEF o
    <3> QED BY <2>1, <3>1, Known, IdleOp DEF Proc
  <2>2. CASE answer # "lost"
    <3>1. o(q) = [procs[q].op EXCEPT !.at = answer] /\ answer \in Places
      BY <2>2 DEF Places, Confirmed
    <3> HIDE DEF o
    <3>2. /\ o(q) \in Op /\ o(q).at = answer /\ o(q).req = m.req
          /\ o(q).plan = procs[q].op.plan /\ o(q).own = procs[q].op.own
      BY <1>2, <3>1, Known, OpAt
    <3> QED BY <2>2, <3>2, Known DEF Proc
  <2> QED BY <2>1, <2>2
<1> HIDE DEF v, o
<1>3. procs' \in [Procs -> Proc]
  BY <1>1, <1>2, Known
<1>4. \A q \in Procs : procs'[q].op.at \notin {"idle", "available"} => procs'[q].op.req \in Requests
  BY <1>1, <1>2 DEF Typed, ProcsTyped, Message, Idle
<1> QED BY <1>1, <1>2, <1>3, <1>4 DEF ProcsTyped

\* A lost request ends the wait of its owner and leaves the saved plan.
LEMMA LoseCalm ==
  ASSUME Typed, NEW m \in net, Lose(m)
  PROVE Typed' /\ Calm
<1>1. m \in Message
  BY DEF Typed, RequestsTyped
<1>2. ProcsTyped' /\ \A q \in Procs : /\ procs'[q].writer = procs[q].writer
                                      /\ procs'[q].op = procs[q].op \/ procs'[q].op = Idle
  BY <1>1, AnsweredProcs DEF Lose
<1>3. StoresTyped' /\ RequestsTyped'
  BY DEF Lose, Upset, stores, Typed, StoresTyped, RequestsTyped
<1>4. Calm
  BY <1>2, IdleOp DEF Lose, Calm, Follows, Guarded, stores, Typed, RequestsTyped
<1> QED BY <1>2, <1>3, <1>4 DEF Typed
-----------------------------------------------------------------------------
(* Steps that neither bar nor clean a session, the calm ones among them.    *)

\* All parts of the invariant but the types.
Facts == Owned /\ Requested /\ IntentRemains /\ Cleaned /\ Locked /\ RemoteFirst /\ DeletedStaysGone

\* No tombstone is set, no cleanup starts or advances, no deletion completes.
Aside ==
  /\ UNCHANGED barred
  /\ Guarded(rows')
  /\ remote.deleted \subseteq remote'.deleted
  /\ \A q \in Procs : procs'[q].op = procs[q].op \/ procs'[q].op.at \notin Cleaning
  /\ \A q \in Procs : procs'[q].writer =>
       procs[q].writer \/ (lease = Nobody /\ <<"transcript", Root>> \notin barred)
  /\ lease' # lease => lease \in Procs /\ lease' = Nobody /\ procs'[lease].op.at \notin Cleaning
  /\ \A r \in Requests : intents'[r] # NoIntent /\ intents'[r].complete => intents'[r] = intents[r]

\* Such a step keeps what the invariant says of the stores and locks.
LEMMA AsideKeeps ==
  ASSUME Typed, Facts, Aside
  PROVE /\ Cleaned' /\ RemoteFirst' /\ DeletedStaysGone'
        /\ \A t \in Sessions : <<"transcript", t>> \in barred' => <<"transcript", Root>> \in barred'
        /\ \A p \in Procs : procs'[p].writer => lease' = Nobody /\ <<"transcript", Root>> \notin barred'
<1> USE DEF Facts, Intents
<1>1. Cleaned'
  <2>1. \A p \in Procs : procs'[p].op.at \in Cleaning => procs'[p].op = procs[p].op
    BY DEF Aside
  <2>2. \A p \in Procs : procs'[p].op.at \in Cleaning => lease' = p
    BY <2>1 DEF Cleaned, Aside
  <2>3. \A p \in Procs : BarredBefore(procs'[p].op.at) # {} => procs'[p].op.at \in Cleaning
    BY DEF BarredBefore, Cleaning
  <2>4. \A p \in Procs : \A store \in BarredBefore(procs'[p].op.at) :
           {store} \X procs'[p].op.plan \subseteq barred
    BY <2>1, <2>3 DEF Cleaned
  <2>5. \A p \in Procs : procs'[p].op.at \in {"graph", "history", "mark"} =>
          \A t \in procs'[p].op.plan : <<"transcript", t>> \notin rows'
    <3> TAKE p \in Procs
    <3> HAVE procs'[p].op.at \in {"graph", "history", "mark"}
    <3> TAKE t \in procs'[p].op.plan
    <3>1. procs'[p].op = procs[p].op /\ lease = p /\ "transcript" \in BarredBefore(procs[p].op.at)
      BY <2>1 DEF Cleaned, Cleaning, BarredBefore, Stores
    <3>2. <<"transcript", t>> \in barred /\ <<"transcript", t>> \notin rows
      BY <3>1 DEF Cleaned
    <3>3. \A q \in Procs : ~procs[q].writer
      BY <3>1, NobodyAssumption DEF Locked
    <3> QED BY <3>2, <3>3 DEF Aside, Guarded
  <2>6. \A store \in Databases, t \in Sessions : <<store, t>> \in barred => <<store, t>> \notin rows'
    <3> TAKE store \in Databases, t \in Sessions
    <3> HAVE <<store, t>> \in barred
    <3>1. store # "transcript" /\ <<store, t>>[1] = store
      BY DEF Databases
    <3>2. <<store, t>> \notin rows
      BY DEF Cleaned
    <3> QED BY <3>1, <3>2 DEF Aside, Guarded
  <2>7. barred' = barred
    BY DEF Aside
  <2> QED BY <2>2, <2>4, <2>5, <2>6, <2>7 DEF Cleaned
<1>2. RemoteFirst'
  BY DEF Aside, RemoteFirst
<1>3. DeletedStaysGone'
  <2> SUFFICES ASSUME NEW r \in Requests, intents'[r] # NoIntent, intents'[r].complete,
                      NEW t \in intents'[r].targets
               PROVE rows' \cap (Stores \X {t}) = {} /\ Stores \X {t} \subseteq barred'
    BY DEF DeletedStaysGone
  <2>1. intents'[r] = intents[r] /\ r \in Intents
    BY DEF Aside
  <2>2. rows \cap (Stores \X {t}) = {} /\ Stores \X {t} \subseteq barred
    BY <2>1 DEF DeletedStaysGone
  <2>3. Root \in intents[r].targets
    BY <2>1 DEF Locked
  <2>4. <<"transcript", Root>> \in barred
    BY <2>1, <2>3 DEF DeletedStaysGone, Stores
  <2>5. \A q \in Procs : ~procs[q].writer
    BY <2>4 DEF Locked
  <2>6. \A pair \in rows' : pair \notin Stores \X {t}
    BY <2>2, <2>5 DEF Aside, Guarded
  <2> QED BY <2>2, <2>6 DEF Aside
<1>4. /\ \A t \in Sessions : <<"transcript", t>> \in barred' => <<"transcript", Root>> \in barred'
      /\ \A p \in Procs : procs'[p].writer => lease' = Nobody /\ <<"transcript", Root>> \notin barred'
  BY DEF Aside, Locked
<1> QED BY <1>1, <1>2, <1>3, <1>4

\* A calm step keeps the whole invariant.
LEMMA CalmKeeps ==
  ASSUME Typed, Facts, Typed', Calm
  PROVE Facts'
<1> USE DEF Facts, Intents, At
<1>1. Aside
  BY DEF Calm, Aside, Follows, Rests, Cleaning
<1>2. Owned'
  <2>1. \A p \in Procs : procs'[p].op.at \in {"idle", "available"} => ~procs'[p].op.own
    BY DEF Owned, Calm, Follows, Rests
  <2>2. \A p \in Procs : procs'[p].op.at \in {"prepare", "sent", "refused"} =>
           procs'[p].op = procs[p].op
    BY DEF Calm, Follows, Rests
  <2>3. \A p \in Procs : procs'[p].op.own => procs[p].op.own /\ procs'[p].op.req = procs[p].op.req
    BY DEF Calm, Follows, Rests
  <2>4. asked \in Nat /\ asked' \in Nat /\ asked <= asked'
    BY DEF Typed, RequestsTyped, Calm
  <2>5. \A r \in 1 .. asked : r \in 1 .. asked'
    BY <2>4
  <2>6. \A r \in Requests : r <= asked => r <= asked'
    BY <2>4 DEF Requests
  <2>7. intents' = intents
    BY DEF Calm
  <2> QED BY <2>1, <2>2, <2>3, <2>5, <2>6, <2>7 DEF Owned
<1>3. Requested'
  <2>1. \A p \in Procs : procs'[p].op.at \in {"sent", "refused"} => procs'[p].op = procs[p].op
    BY DEF Calm, Follows, Rests
  <2>2. \A p \in Procs : procs'[p].op.at \in Confirmed =>
          [req |-> procs'[p].op.req, targets |-> procs'[p].op.plan] \in remote.receipts
    BY DEF Calm, Follows, Rests, Requested, Confirmed, Cleaning
  <2>3. intents' = intents /\ remote' = remote /\ net' \subseteq net
    BY DEF Calm
  <2> QED BY <2>1, <2>2, <2>3 DEF Requested
<1>4. IntentRemains'
  BY DEF Calm, IntentRemains
<1>5. Locked'
  <2>1. \A p \in Procs : procs'[p].op.at = "prepare" => procs'[p].op = procs[p].op
    BY DEF Calm, Follows, Rests
  <2> QED BY <1>1, <2>1, AsideKeeps DEF Calm, Locked
<1> QED BY <1>1, <1>2, <1>3, <1>4, <1>5, AsideKeeps

\* A request begins: its number is fresh and its plan not yet saved.
LEMMA DeleteKeeps ==
  ASSUME Typed, Facts, NEW p \in Procs, Delete(p)
  PROVE Typed' /\ Facts'
<1>1. CASE Typed' /\ Calm
  BY <1>1, CalmKeeps
<1>2. ASSUME NEW v \in Proc,
             Becomes(p, v), v.writer = procs[p].writer,
             v.op.at = "prepare", v.op.req = asked + 1, v.op.own,
             Root \in v.op.plan, v.op.plan \in SUBSET Sessions,
             rows' \in SUBSET (Stores \X Sessions), Guarded(rows'),
             checkpoint' \in [rev : Nat, kids : SUBSET Kids]
      PROVE Typed' /\ Facts'
  <2> USE <1>2
  <2>1. /\ asked \in Nat /\ MaxRequests \in Nat /\ asked' = asked + 1 /\ asked' \in 0 .. MaxRequests
        /\ asked + 1 \in Requests /\ At(p, "idle")
        /\ UNCHANGED <<barred, intents, lease, net, remote, upsets>>
    BY RequestsAssumption DEF Delete, Requests, Typed, RequestsTyped
  <2>2. ProcsTyped'
    BY <2>1, ProcsTypedStep DEF Typed
  <2>3. Typed'
    BY <2>1, <2>2 DEF Typed, StoresTyped, RequestsTyped
  <2>4. procs'[p] = v /\ \A q \in Procs : q # p => procs'[q] = procs[q]
    BY DEF Becomes
  <2>5. Aside
    BY <2>1, <2>4 DEF Aside, Cleaning
  <2>6. Owned'
    <3>1. \A r \in 1 .. asked : r # asked + 1 /\ r \in 1 .. asked'
      BY <2>1
    <3>2. \A r \in Requests : r <= asked => r <= asked'
      BY <2>1 DEF Requests
    <3>3. intents[asked + 1] = NoIntent
      BY <2>1 DEF Facts, Owned, Requests
    <3>4. asked + 1 \in 1 .. asked'
      BY <2>1
    <3> QED BY <2>1, <2>4, <3>1, <3>2, <3>3, <3>4 DEF Facts, Owned, At
  <2>7. Requested'
    BY <2>1, <2>4 DEF Facts, Requested, At, Confirmed, Cleaning
  <2>8. IntentRemains'
    BY <2>1 DEF Facts, IntentRemains, Intents
  <2>9. Locked'
    BY <2>1, <2>4, <2>5, AsideKeeps DEF Facts, Locked, At, Intents
  <2> QED BY <2>3, <2>5, <2>6, <2>7, <2>8, <2>9, AsideKeeps DEF Facts
<1> QED BY <1>1, <1>2, DeleteSteps DEF Facts
-----------------------------------------------------------------------------
(* The steps of a request.                                                  *)

\* The message of a saved plan, if it is anywhere, is the only one of its request.
LEMMA OneMessage ==
  ASSUME Typed, Facts, NEW m \in net, NEW n \in net \cup remote.receipts, n.req = m.req
  PROVE n = m
<1>1. m \in Message /\ n \in Message
  BY DEF Typed, RequestsTyped
<1>2. m.targets = n.targets
  BY DEF Facts, IntentRemains
<1> QED BY <1>1, <1>2 DEF Message

\* The plan is on disk when the request leaves.
LEMMA PrepareKeeps ==
  ASSUME Typed, Facts, NEW p \in Procs, Prepare(p)
  PROVE Typed' /\ Facts'
<1> DEFINE r == procs[p].op.req
           plan == procs[p].op.plan
           m == [req |-> r, targets |-> plan]
           i == [targets |-> plan, complete |-> FALSE]
<1>1. CASE Overlaps(r, plan)
  <2>1. Typed' /\ Calm
    BY <1>1, Known, EndsCalm DEF Prepare
  <2> QED BY <2>1, CalmKeeps
<1>2. CASE ~Overlaps(r, plan)
  <2>1. /\ At(p, "prepare") /\ Goto(p, "sent") /\ "sent" \in Places
        /\ intents' = [intents EXCEPT ![r] = i] /\ net' = net \cup {m}
        /\ UNCHANGED <<stores, lease, asked, remote, upsets>>
    BY <1>2 DEF Prepare, Places
  <2>2. r \in Requests /\ plan \in SUBSET Sessions
    BY <2>1, Known DEF At, Typed, ProcsTyped, Op
  <2>3. PICK v \in Proc :
          /\ Becomes(p, v) /\ v.writer = procs[p].writer
          /\ v.op.at = "sent" /\ v.op.req = r /\ v.op.plan = plan /\ v.op.own = procs[p].op.own
    BY <2>1, Known, Went
  <2>4. procs'[p] = v /\ \A q \in Procs : q # p => procs'[q] = procs[q]
    BY <2>3 DEF Becomes
  <2>5. procs[p].op.own /\ intents[r] = NoIntent /\ r \in 1 .. asked /\ Root \in plan
    BY <2>1 DEF Facts, Owned, Locked, At
  <2>6. m \in Message /\ m.req = r /\ m.targets = plan
    BY <2>2 DEF Message
  <2>7. i \in Plan /\ i # NoIntent /\ i.targets = plan /\ ~i.complete
    <3>1. i \in Plan /\ i.targets = plan /\ i.complete = FALSE
      BY <2>2 DEF Plan
    <3>2. NoIntent \notin Plan
      BY PlanAssumption DEF Plan, Sessions
    <3> QED BY <3>1, <3>2
  <2> HIDE DEF m, i
  <2>8. intents'[r] = i /\ \A s \in Requests : s # r => intents'[s] = intents[s]
    BY <2>1, <2>2 DEF Typed, RequestsTyped
  <2>9. Typed'
    <3>1. ProcsTyped'
      BY <2>2, <2>3, ProcsTypedStep DEF Typed
    <3>2. intents' \in [Requests -> Plan \cup {NoIntent}] /\ net' \in SUBSET Message
      BY <2>1, <2>6, <2>7 DEF Typed, RequestsTyped
    <3> QED BY <2>1, <3>1, <3>2 DEF Typed, StoresTyped, RequestsTyped, stores
  <2>10. Aside
    BY <2>1, <2>3, <2>4, <2>7, <2>8 DEF Aside, Cleaning, Guarded, stores
  <2>11. \A q \in Procs : q # p /\ procs[q].op.own => procs[q].op.req # r
    BY <2>5 DEF Facts, Owned
  <2>12. \A n \in net \cup remote.receipts : n.req \in Requests /\ n.req # r
    BY <2>5 DEF Facts, IntentRemains, Intents
  <2>13. Owned'
    <3>1. \A s \in Requests : intents'[s] # NoIntent => s <= asked
      BY <2>5, <2>8 DEF Facts, Owned
    <3>2. \A q \in Procs : procs'[q].op.own = procs[q].op.own /\ procs'[q].op.req = procs[q].op.req
      BY <2>3, <2>4
    <3>3. \A q \in Procs : procs'[q].op.at \in {"prepare", "refused"} => q # p /\ procs'[q].op = procs[q].op
      BY <2>3, <2>4
    <3>4. \A q \in Procs : procs'[q].op.at = "prepare" => intents'[procs'[q].op.req] = NoIntent
      BY <2>8, <2>11, <3>3 DEF Facts, Owned, At, Typed, ProcsTyped
    <3>5. asked' = asked
      BY <2>1
    <3> QED BY <2>3, <2>4, <2>5, <3>1, <3>2, <3>4, <3>5 DEF Facts, Owned, At
  <2>14. Requested'
    <3>1. \A q \in Procs : procs'[q].op.at = "sent" =>
            intents'[procs'[q].op.req] # NoIntent /\ intents'[procs'[q].op.req].targets = procs'[q].op.plan
      <4> TAKE q \in Procs
      <4> HAVE procs'[q].op.at = "sent"
      <4>1. CASE q = p
        BY <2>3, <2>4, <2>7, <2>8, <4>1
      <4>2. CASE q # p
        BY <2>4, <2>8, <2>11, <4>2 DEF Facts, Owned, Requested, At, Typed, ProcsTyped
      <4> QED BY <4>1, <4>2
    <3>2. \A q \in Procs : procs'[q].op.at = "refused" => \A n \in net' \cup remote.receipts : n.req # procs'[q].op.req
      BY <2>1, <2>3, <2>4, <2>6, <2>11 DEF Facts, Owned, Requested, At
    <3>3. \A k \in net', n \in remote.receipts : k.req # n.req
      BY <2>1, <2>6, <2>12 DEF Facts, Requested
    <3>4. \A q \in Procs : procs'[q].op.at \in Confirmed => procs'[q] = procs[q]
      BY <2>3, <2>4 DEF Confirmed, Cleaning
    <3> QED BY <2>1, <3>1, <3>2, <3>3, <3>4 DEF Facts, Requested, At
  <2>15. IntentRemains'
    <3> SUFFICES ASSUME NEW n \in net' \cup remote'.receipts
                 PROVE n.req \in Requests /\ intents'[n.req] # NoIntent /\ intents'[n.req].targets = n.targets
      BY DEF IntentRemains, Intents
    <3>1. CASE n = m
      BY <2>2, <2>6, <2>7, <2>8, <3>1
    <3>2. CASE n \in net \cup remote.receipts
      BY <2>8, <2>12, <3>2 DEF Facts, IntentRemains, Intents
    <3> QED BY <2>1, <3>1, <3>2
  <2>16. Locked'
    <3>1. \A s \in Requests : intents'[s] # NoIntent => Root \in intents'[s].targets
      BY <2>5, <2>7, <2>8 DEF Facts, Locked, Intents
    <3>2. \A q \in Procs : procs'[q].op.at = "prepare" => procs'[q] = procs[q]
      BY <2>3, <2>4
    <3> QED BY <2>10, <3>1, <3>2, AsideKeeps DEF Facts, Locked, Intents, At
  <2> QED BY <2>9, <2>10, <2>13, <2>14, <2>15, <2>16, AsideKeeps DEF Facts
<1> QED BY <1>1, <1>2

\* Only the owner of a refused request waits for it, and it is nowhere else.
LEMMA RejectedKeeps ==
  ASSUME Typed, Facts, NEW p \in Procs, Rejected(p)
  PROVE Typed' /\ Facts'
<1> DEFINE r == procs[p].op.req
<1>1. r \in Requests /\ procs[p].op.own
  BY DEF Rejected, At, Typed, ProcsTyped, Facts, Owned
<1>2. /\ UNCHANGED <<stores, lease, asked, net, remote, upsets>>
      /\ intents' = [intents EXCEPT ![r] = NoIntent] /\ At(p, "refused") /\ Move(p, Idle)
  BY DEF Rejected
<1>3. PICK v \in Proc : Becomes(p, v) /\ v.op = Idle /\ v.writer = procs[p].writer
  BY <1>2, Known, IdleOp, Moved
<1>4. procs'[p] = v /\ \A q \in Procs : q # p => procs'[q] = procs[q]
  BY <1>3 DEF Becomes
<1>5. intents'[r] = NoIntent /\ \A s \in Requests : s # r => intents'[s] = intents[s]
  BY <1>1, <1>2 DEF Typed, RequestsTyped
<1>6. Typed'
  <2>1. ProcsTyped'
    BY <1>3, ProcsTypedStep DEF Typed, Idle
  <2>2. intents' \in [Requests -> Plan \cup {NoIntent}]
    BY <1>2 DEF Typed, RequestsTyped
  <2> QED BY <1>2, <2>1, <2>2 DEF Typed, StoresTyped, RequestsTyped, stores
<1>7. Aside
  BY <1>2, <1>3, <1>4, <1>5 DEF Aside, Cleaning, Guarded, stores, Idle
<1>8. \A q \in Procs : q # p /\ procs[q].op.own => procs[q].op.req # r
  BY <1>1 DEF Facts, Owned
<1>9. Owned'
  <2>1. \A s \in Requests : intents'[s] # NoIntent => s <= asked
    BY <1>5 DEF Facts, Owned
  <2>2. \A q \in Procs : procs'[q].op.own => q # p /\ procs'[q] = procs[q]
    BY <1>3, <1>4 DEF Idle
  <2>3. \A q \in Procs : procs'[q].op.at = "prepare" => intents'[procs'[q].op.req] = NoIntent
    BY <1>3, <1>4, <1>5, <1>8 DEF Facts, Owned, At, Typed, ProcsTyped, Idle
  <2> QED BY <1>2, <1>3, <1>4, <2>1, <2>2, <2>3 DEF Facts, Owned, At, Idle
<1>10. Requested'
  <2>1. \A q \in Procs : procs'[q].op.at \in {"sent", "refused"} \cup Confirmed => q # p /\ procs'[q] = procs[q]
    BY <1>3, <1>4 DEF Idle, Confirmed, Cleaning
  <2>2. \A q \in Procs : procs'[q].op.at = "sent" =>
          intents'[procs'[q].op.req] # NoIntent /\ intents'[procs'[q].op.req].targets = procs'[q].op.plan
    BY <1>5, <1>8, <2>1 DEF Facts, Owned, Requested, At, Typed, ProcsTyped
  <2> QED BY <1>2, <2>1, <2>2 DEF Facts, Requested, At
<1>11. IntentRemains'
  BY <1>2, <1>5 DEF Facts, Requested, IntentRemains, Intents, At
<1>12. Locked'
  <2>1. \A s \in Requests : intents'[s] # NoIntent => Root \in intents'[s].targets
    BY <1>5 DEF Facts, Locked, Intents
  <2>2. \A q \in Procs : procs'[q].op.at = "prepare" => procs'[q] = procs[q]
    BY <1>3, <1>4 DEF Idle
  <2> QED BY <1>7, <2>1, <2>2, AsideKeeps DEF Facts, Locked, Intents, At
<1> QED BY <1>6, <1>7, <1>9, <1>10, <1>11, <1>12, AsideKeeps DEF Facts

\* Who is told that its request was carried out holds the receipt of its plan.
LEMMA PerformKeeps ==
  ASSUME Typed, Facts, NEW m \in net, Perform(m)
  PROVE Typed' /\ Facts'
<1>1. /\ net' = net \ {m} /\ procs' = Answered(m, "confirmed")
      /\ UNCHANGED <<stores, intents, lease, asked, upsets>>
      /\ remote' = [deleted |-> remote.deleted \cup m.targets, receipts |-> remote.receipts \cup {m}]
  BY DEF Perform
<1>2. remote'.deleted = remote.deleted \cup m.targets /\ remote'.receipts = remote.receipts \cup {m}
  BY <1>1
<1>3. m \in Message /\ m.req \in Requests /\ m.targets \in SUBSET Sessions
  BY DEF Typed, RequestsTyped, Message
<1>4. /\ ProcsTyped'
      /\ \A q \in Procs :
           IF At(q, "sent") /\ procs[q].op.req = m.req
           THEN /\ procs'[q].writer = procs[q].writer
                /\ procs'[q].op.at = "confirmed" /\ procs'[q].op.req = m.req
                /\ procs'[q].op.plan = procs[q].op.plan
                /\ procs'[q].op.own = procs[q].op.own
           ELSE procs'[q] = procs[q]
  BY <1>1, <1>3, AnsweredProcs
<1>5. Typed'
  <2>1. remote' \in [deleted : SUBSET Sessions, receipts : SUBSET Message] /\ net' \in SUBSET Message
    BY <1>1, <1>3 DEF Typed, RequestsTyped
  <2> QED BY <1>1, <1>4, <2>1 DEF Typed, StoresTyped, RequestsTyped, stores
<1>6. Aside
  BY <1>1, <1>2, <1>4 DEF Aside, Cleaning, Guarded, stores
<1>7. Owned'
  <2>1. \A q \in Procs : procs'[q].op.own = procs[q].op.own /\ procs'[q].op.req = procs[q].op.req
    BY <1>4
  <2>2. \A q \in Procs : procs'[q].op.at = procs[q].op.at \/ procs'[q].op.at = "confirmed"
    BY <1>4
  <2>3. asked' = asked /\ intents' = intents
    BY <1>1
  <2> QED BY <2>1, <2>2, <2>3 DEF Facts, Owned, At
<1>8. Requested'
  <2>1. \A q \in Procs : procs'[q].op.at \in {"sent", "refused"} => procs'[q] = procs[q]
    BY <1>4
  <2>2. \A q \in Procs : procs'[q].op.at = "refused" => \A n \in net' \cup remote'.receipts : n.req # procs'[q].op.req
    BY <1>1, <1>2, <2>1 DEF Facts, Requested, At
  <2>3. \A k \in net', n \in remote'.receipts : k.req # n.req
    BY <1>1, <1>2, OneMessage DEF Facts, Requested
  <2>4. \A q \in Procs : procs'[q].op.at \in Confirmed =>
          [req |-> procs'[q].op.req, targets |-> procs'[q].op.plan] \in remote'.receipts
    <3> TAKE q \in Procs
    <3> HAVE procs'[q].op.at \in Confirmed
    <3>1. CASE At(q, "sent") /\ procs[q].op.req = m.req
      <4>1. procs[q].op.plan = m.targets
        BY <3>1 DEF Facts, Requested, IntentRemains
      <4>2. m = [req |-> m.req, targets |-> m.targets]
        BY <1>3 DEF Message
      <4> QED BY <1>2, <1>4, <3>1, <4>1, <4>2
    <3>2. CASE ~(At(q, "sent") /\ procs[q].op.req = m.req)
      BY <1>2, <1>4, <3>2 DEF Facts, Requested
    <3> QED BY <3>1, <3>2
  <2>5. \A n \in remote'.receipts : n.targets \subseteq remote'.deleted
    BY <1>2 DEF Facts, Requested
  <2> QED BY <1>1, <2>1, <2>2, <2>3, <2>4, <2>5 DEF Facts, Requested, At
<1>9. IntentRemains'
  BY <1>1, <1>2 DEF Facts, IntentRemains, Intents
<1>10. Locked'
  <2>1. \A q \in Procs : procs'[q].op.at = "prepare" => procs'[q] = procs[q]
    BY <1>4
  <2> QED BY <1>1, <1>6, <2>1, AsideKeeps DEF Facts, Locked, Intents, At
<1> QED BY <1>5, <1>6, <1>7, <1>8, <1>9, <1>10, AsideKeeps DEF Facts

\* A refused request is neither on its way nor carried out.
LEMMA RefuseKeeps ==
  ASSUME Typed, Facts, NEW m \in net, Refuse(m)
  PROVE Typed' /\ Facts'
<1>1. /\ net' = net \ {m} /\ procs' = Answered(m, "refused") /\ upsets' \in Nat
      /\ UNCHANGED <<stores, intents, lease, asked, remote>>
  BY DEF Refuse, Upset, Typed, RequestsTyped
<1>2. m \in Message
  BY DEF Typed, RequestsTyped
<1>3. /\ ProcsTyped'
      /\ \A q \in Procs :
           IF At(q, "sent") /\ procs[q].op.req = m.req
           THEN /\ procs'[q].writer = procs[q].writer
                /\ procs'[q].op.at = "refused" /\ procs'[q].op.req = m.req
                /\ procs'[q].op.plan = procs[q].op.plan
                /\ procs'[q].op.own = procs[q].op.own
           ELSE procs'[q] = procs[q]
  BY <1>1, <1>2, AnsweredProcs
<1>4. Typed'
  BY <1>1, <1>3 DEF Typed, StoresTyped, RequestsTyped, stores
<1>5. Aside
  BY <1>1, <1>3 DEF Aside, Cleaning, Guarded, stores
<1>6. Owned'
  <2>1. \A q \in Procs : procs'[q].op.own = procs[q].op.own /\ procs'[q].op.req = procs[q].op.req
    BY <1>3
  <2>2. \A q \in Procs : procs'[q].op.at = procs[q].op.at \/ (procs'[q].op.at = "refused" /\ procs[q].op.at = "sent")
    BY <1>3 DEF At
  <2>3. asked' = asked /\ intents' = intents
    BY <1>1
  <2> QED BY <2>1, <2>2, <2>3 DEF Facts, Owned, At
<1>7. Requested'
  <2>1. \A q \in Procs : procs'[q].op.at \in {"sent"} \cup Confirmed => procs'[q] = procs[q]
    BY <1>3 DEF Confirmed, Cleaning
  <2>2. \A n \in net' \cup remote.receipts : n.req # m.req
    BY <1>1, OneMessage DEF Facts, Requested
  <2>3. \A q \in Procs : procs'[q].op.at = "refused" => \A n \in net' \cup remote.receipts : n.req # procs'[q].op.req
    BY <1>1, <1>3, <2>2 DEF Facts, Requested, At
  <2> QED BY <1>1, <2>1, <2>3 DEF Facts, Requested, At
<1>8. IntentRemains'
  BY <1>1 DEF Facts, IntentRemains, Intents
<1>9. Locked'
  <2>1. \A q \in Procs : procs'[q].op.at = "prepare" => procs'[q] = procs[q]
    BY <1>3
  <2> QED BY <1>1, <1>5, <2>1, AsideKeeps DEF Facts, Locked, Intents, At
<1> QED BY <1>4, <1>5, <1>6, <1>7, <1>8, <1>9, AsideKeeps DEF Facts

-----------------------------------------------------------------------------
(* The cleanup under the transcript locks.                                  *)

\* The cleanup of p goes on to x; requests and the service stay.
Onward(p, x) ==
  /\ UNCHANGED <<intents, asked, net, remote, upsets, checkpoint>>
  /\ \E v \in Proc :
       /\ Becomes(p, v) /\ v.writer = procs[p].writer
       /\ v.op.at = x /\ v.op.req = procs[p].op.req
       /\ v.op.plan = procs[p].op.plan /\ v.op.own = procs[p].op.own

\* Goto is how the cleanup advances.
LEMMA OnwardBy ==
  ASSUME Typed, NEW p \in Procs, NEW x \in Places, Goto(p, x),
         UNCHANGED <<intents, asked, net, remote, upsets, checkpoint>>
  PROVE Onward(p, x)
BY Known, Went DEF Onward

\* It keeps everything that is said of requests.
LEMMA OnwardKeeps ==
  ASSUME Typed, Facts, NEW p \in Procs, NEW x \in Cleaning, Onward(p, x), procs[p].op.at \in Confirmed,
         rows' \in SUBSET (Stores \X Sessions), barred' \in SUBSET (Stores \X Sessions),
         lease' \in Procs \cup {Nobody}
  PROVE /\ Typed' /\ Owned' /\ Requested' /\ IntentRemains'
        /\ procs'[p].op.at = x /\ procs'[p].op.plan = procs[p].op.plan /\ procs'[p].writer = procs[p].writer
        /\ \A q \in Procs : q # p => procs'[q] = procs[q]
        /\ Root \in procs[p].op.plan /\ procs[p].op.plan \subseteq remote.deleted
        /\ procs[p].op.plan \in SUBSET Sessions
<1>1. PICK v \in Proc :
        /\ Becomes(p, v) /\ v.writer = procs[p].writer
        /\ v.op.at = x /\ v.op.req = procs[p].op.req
        /\ v.op.plan = procs[p].op.plan /\ v.op.own = procs[p].op.own
  BY DEF Onward
<1>2. procs'[p] = v /\ \A q \in Procs : q # p => procs'[q] = procs[q]
  BY <1>1 DEF Becomes
<1>3. UNCHANGED <<intents, asked, net, remote, upsets, checkpoint>>
  BY DEF Onward
<1>4. x \notin {"idle", "available", "prepare", "sent", "refused"} /\ x \in Confirmed
  BY DEF Cleaning, Confirmed
<1>5. procs[p].op.at \notin {"idle", "available"}
  BY DEF Cleaning, Confirmed
<1>6. Typed'
  <2>1. ProcsTyped'
    BY <1>1, <1>5, ProcsTypedStep DEF Typed, ProcsTyped
  <2> QED BY <1>3, <2>1 DEF Typed, StoresTyped, RequestsTyped
<1>7. Owned'
  BY <1>1, <1>2, <1>3, <1>4 DEF Facts, Owned, At
<1>8. Requested'
  BY <1>1, <1>2, <1>3, <1>4 DEF Facts, Requested, At
<1>9. IntentRemains'
  BY <1>3 DEF Facts, IntentRemains, Intents
<1>10. [req |-> procs[p].op.req, targets |-> procs[p].op.plan] \in remote.receipts
  BY DEF Facts, Requested
<1>11. procs[p].op.plan \subseteq remote.deleted
  BY <1>10 DEF Facts, Requested
<1>12. Root \in procs[p].op.plan
  BY <1>10 DEF Facts, IntentRemains, Locked
<1>13. procs[p].op.plan \in SUBSET Sessions
  BY Known DEF Op
<1> QED BY <1>1, <1>2, <1>6, <1>7, <1>8, <1>9, <1>11, <1>12, <1>13

\* The locks are taken when nobody else has them and no transcript is open.
LEMMA LockKeeps ==
  ASSUME Typed, Facts, NEW p \in Procs, Lock(p)
  PROVE Typed' /\ Facts'
<1> DEFINE busy == intents[procs[p].op.req].complete \/ lease # Nobody \/ \E q \in Procs : procs[q].writer
<1>1. CASE busy
  <2>1. Typed' /\ Calm
    BY <1>1, Known, EndsCalm DEF Lock
  <2> QED BY <2>1, CalmKeeps
<1>2. CASE ~busy
  <2>1. /\ Goto(p, "retire") /\ "retire" \in Places /\ "retire" \in Cleaning /\ lease' = p
        /\ lease = Nobody /\ (\A q \in Procs : ~procs[q].writer) /\ procs[p].op.at = "lock"
        /\ UNCHANGED <<stores, intents, asked, net, remote, upsets>>
    BY <1>2 DEF Lock, At, Places, Confirmed, Cleaning
  <2>2. Onward(p, "retire")
    BY <2>1, OnwardBy DEF stores
  <2>3. procs[p].op.at \in Confirmed
    BY <2>1 DEF Confirmed
  <2>4. /\ Typed' /\ Owned' /\ Requested' /\ IntentRemains'
        /\ procs'[p].op.at = "retire" /\ procs'[p].writer = procs[p].writer
        /\ \A q \in Procs : q # p => procs'[q] = procs[q]
    BY <2>1, <2>2, <2>3, Known, OnwardKeeps DEF stores, Typed, StoresTyped
  <2>5. \A q \in Procs : q # p => procs[q].op.at \notin Cleaning
    BY <2>1, NobodyAssumption DEF Facts, Cleaned
  <2>6. Cleaned'
    <3>1. \A q \in Procs : procs'[q].op.at \in Cleaning => q = p
      BY <2>4, <2>5
    <3>2. \A q \in Procs : BarredBefore(procs'[q].op.at) = {}
      <4>1. BarredBefore("retire") = {}
        BY DEF BarredBefore
      <4>2. \A a : a \notin Cleaning => BarredBefore(a) = {}
        BY DEF BarredBefore, Cleaning
      <4> QED BY <2>4, <3>1, <4>1, <4>2
    <3>3. \A q \in Procs : procs'[q].op.at \notin {"graph", "history", "mark"}
      BY <2>4, <3>1 DEF Cleaning
    <3> QED BY <2>1, <3>1, <3>2, <3>3 DEF Facts, Cleaned, stores
  <2>7. Locked'
    BY <2>1, <2>4 DEF Facts, Locked, Intents, At, stores
  <2>8. RemoteFirst' /\ DeletedStaysGone'
    BY <2>1 DEF Facts, RemoteFirst, DeletedStaysGone, Intents, stores
  <2> QED BY <2>4, <2>6, <2>7, <2>8 DEF Facts
<1> QED BY <1>1, <1>2

\* A step of the cleanup bars a store for the plan, or only removes rows.
LEMMA CleanKeeps ==
  ASSUME Typed, Facts, NEW p \in Procs, NEW x \in Cleaning, Onward(p, x), procs[p].op.at \in Cleaning,
         UNCHANGED lease,
         rows' \in SUBSET rows, NEW bars \in SUBSET Stores,
         barred' = barred \cup (bars \X procs[p].op.plan),
         BarredBefore(x) \subseteq BarredBefore(procs[p].op.at) \cup bars,
         x \in {"graph", "history", "mark"} =>
           \A t \in procs[p].op.plan : <<"transcript", t>> \notin rows',
         \A store \in bars \ {"transcript"} : \A t \in procs[p].op.plan : <<store, t>> \notin rows'
  PROVE Typed' /\ Facts'
<1> DEFINE plan == procs[p].op.plan
<1>1. plan \in SUBSET Sessions /\ lease = p /\ procs[p].op.at \in Confirmed
  BY Known DEF Facts, Cleaned, Op, Confirmed
<1>2. rows' \in SUBSET (Stores \X Sessions) /\ barred' \in SUBSET (Stores \X Sessions)
  BY <1>1 DEF Typed, StoresTyped
<1>3. lease' \in Procs \cup {Nobody}
  BY DEF Typed, RequestsTyped
<1>4. /\ Typed' /\ Owned' /\ Requested' /\ IntentRemains'
      /\ procs'[p].op.at = x /\ procs'[p].op.plan = plan /\ procs'[p].writer = procs[p].writer
      /\ \A q \in Procs : q # p => procs'[q] = procs[q]
      /\ Root \in plan /\ plan \subseteq remote.deleted
  BY <1>1, <1>2, <1>3, OnwardKeeps
<1>5. intents' = intents /\ remote' = remote
  BY DEF Onward
<1>6. \A q \in Procs : q # p => procs[q].op.at \notin Cleaning
  BY <1>1 DEF Facts, Cleaned
<1>7. Cleaned'
  <2>1. \A q \in Procs : procs'[q].op.at \in Cleaning => lease' = q
    BY <1>1, <1>4, <1>6
  <2>2. \A q \in Procs : \A store \in BarredBefore(procs'[q].op.at) :
          {store} \X procs'[q].op.plan \subseteq barred'
    <3> TAKE q \in Procs
    <3> TAKE store \in BarredBefore(procs'[q].op.at)
    <3>1. CASE q = p
      <4>1. store \in BarredBefore(procs[p].op.at) \cup bars
        BY <1>4, <3>1
      <4>2. CASE store \in bars
        BY <1>4, <3>1, <4>2
      <4>3. CASE store \in BarredBefore(procs[p].op.at)
        BY <1>4, <3>1, <4>3 DEF Facts, Cleaned
      <4> QED BY <4>1, <4>2, <4>3
    <3>2. CASE q # p
      BY <1>4, <3>2 DEF Facts, Cleaned
    <3> QED BY <3>1, <3>2
  <2>3. \A q \in Procs : procs'[q].op.at \in {"graph", "history", "mark"} =>
          \A t \in procs'[q].op.plan : <<"transcript", t>> \notin rows'
    BY <1>4, <1>6 DEF Cleaning
  <2>4. \A store \in Databases, t \in Sessions : <<store, t>> \in barred' => <<store, t>> \notin rows'
    <3> TAKE store \in Databases, t \in Sessions
    <3> HAVE <<store, t>> \in barred'
    <3>1. CASE <<store, t>> \in barred
      BY <3>1 DEF Facts, Cleaned
    <3>2. CASE <<store, t>> \in bars \X plan
      <4>1. store \in bars \ {"transcript"} /\ t \in plan
        BY <3>2 DEF Databases
      <4> QED BY <4>1
    <3> QED BY <3>1, <3>2
  <2> QED BY <2>1, <2>2, <2>3, <2>4 DEF Cleaned
<1>8. Locked'
  <2>1. \A q \in Procs : ~procs'[q].writer
    BY <1>1, <1>4, NobodyAssumption DEF Facts, Locked
  <2>2. \A q \in Procs : procs'[q].op.at = "prepare" => procs'[q] = procs[q]
    BY <1>4 DEF Cleaning
  <2>3. \A t \in Sessions : <<"transcript", t>> \in barred' => <<"transcript", Root>> \in barred'
    <3> TAKE t \in Sessions
    <3> HAVE <<"transcript", t>> \in barred'
    <3>1. CASE <<"transcript", t>> \in barred
      BY <3>1 DEF Facts, Locked
    <3>2. CASE <<"transcript", t>> \in bars \X plan
      BY <1>4, <3>2
    <3> QED BY <3>1, <3>2
  <2> QED BY <1>5, <2>1, <2>2, <2>3 DEF Facts, Locked, Intents, At
<1>9. RemoteFirst'
  BY <1>4, <1>5 DEF Facts, RemoteFirst
<1>10. DeletedStaysGone'
  BY <1>5 DEF Facts, DeletedStaysGone, Intents
<1> QED BY <1>4, <1>7, <1>8, <1>9, <1>10 DEF Facts

\* The markers of the plan come first, the root's among them.
LEMMA MarkTranscriptsKeeps ==
  ASSUME Typed, Facts, NEW p \in Procs, MarkTranscripts(p)
  PROVE Typed' /\ Facts'
<1>1. Goto(p, "effects") /\ "effects" \in Places /\ "effects" \in Cleaning /\ procs[p].op.at \in Cleaning
  BY DEF MarkTranscripts, At, Places, Confirmed, Cleaning
<1>2. Onward(p, "effects")
  BY <1>1, OnwardBy DEF MarkTranscripts
<1>3. {"transcript"} \in SUBSET Stores /\ barred' = barred \cup ({"transcript"} \X procs[p].op.plan)
  BY DEF MarkTranscripts, Pairs, Stores
<1>4. BarredBefore("effects") \subseteq {"transcript"}
  BY DEF BarredBefore
<1> QED BY <1>1, <1>2, <1>3, <1>4, CleanKeeps DEF MarkTranscripts

\* Transcripts are removed after their markers are set.
LEMMA RemoveTranscriptsKeeps ==
  ASSUME Typed, Facts, NEW p \in Procs, RemoveTranscripts(p)
  PROVE Typed' /\ Facts'
<1>1. Goto(p, "graph") /\ "graph" \in Places /\ "graph" \in Cleaning /\ procs[p].op.at \in Cleaning
  BY DEF RemoveTranscripts, At, Places, Confirmed, Cleaning
<1>2. Onward(p, "graph")
  BY <1>1, OnwardBy DEF RemoveTranscripts
<1>3. \A t \in procs[p].op.plan : <<"transcript", t>> \notin rows'
  BY DEF RemoveTranscripts, Pairs
<1>4. BarredBefore("graph") = BarredBefore(procs[p].op.at)
  BY DEF BarredBefore, RemoveTranscripts, At
<1>5. PICK none \in SUBSET Stores : none = {}
  OBVIOUS
<1>6. /\ barred' = barred \cup (none \X procs[p].op.plan) /\ rows' \in SUBSET rows /\ UNCHANGED lease
      /\ BarredBefore("graph") \subseteq BarredBefore(procs[p].op.at) \cup none
      /\ \A store \in none \ {"transcript"} : \A t \in procs[p].op.plan : <<store, t>> \notin rows'
  BY <1>4, <1>5 DEF RemoveTranscripts
<1> QED BY <1>1, <1>2, <1>3, <1>6, CleanKeeps

\* The places of the databases, and what is barred on the way.
LEMMA NextStoreFacts ==
  ASSUME NEW store \in Databases
  PROVE /\ NextStore(store) \in Cleaning
        /\ BarredBefore(NextStore(store)) \subseteq BarredBefore(store) \cup {store}
        /\ NextStore(store) \in {"graph", "history", "mark"} => store \in {"graph", "history"}
<1>1. CASE store = "effects"
  BY <1>1 DEF NextStore, BarredBefore, Cleaning
<1>2. CASE store = "approvals"
  BY <1>2 DEF NextStore, BarredBefore, Cleaning
<1>3. CASE store = "runs"
  BY <1>3 DEF NextStore, BarredBefore, Cleaning
<1>4. CASE store = "graph"
  BY <1>4 DEF NextStore, BarredBefore, Cleaning
<1>5. CASE store = "history"
  BY <1>5 DEF NextStore, BarredBefore, Cleaning, Stores, Databases
<1> QED BY <1>1, <1>2, <1>3, <1>4, <1>5 DEF Databases

\* A database is barred and emptied for the plan in one transaction.
LEMMA WipeDatabaseKeeps ==
  ASSUME Typed, Facts, NEW p \in Procs, WipeDatabase(p)
  PROVE Typed' /\ Facts'
<1> DEFINE at == procs[p].op.at
<1>1. at \in Databases /\ Goto(p, NextStore(at)) /\ at \in Cleaning /\ {at} \in SUBSET Stores
  BY DEF WipeDatabase, Databases, Cleaning, Stores
<1>2. /\ NextStore(at) \in Cleaning /\ NextStore(at) \in Places
      /\ BarredBefore(NextStore(at)) \subseteq BarredBefore(at) \cup {at}
      /\ NextStore(at) \in {"graph", "history", "mark"} => at \in {"graph", "history"}
  BY <1>1, NextStoreFacts DEF Places, Confirmed
<1>3. Onward(p, NextStore(at))
  BY <1>1, <1>2, OnwardBy DEF WipeDatabase
<1>4. barred' = barred \cup ({at} \X procs[p].op.plan) /\ rows' \in SUBSET rows /\ UNCHANGED lease
  BY DEF WipeDatabase, Pairs
<1>5. \A t \in procs[p].op.plan : <<at, t>> \notin rows'
  BY DEF WipeDatabase, Pairs
<1>6. at \in {"graph", "history"} => \A t \in procs[p].op.plan : <<"transcript", t>> \notin rows'
  BY <1>4 DEF Facts, Cleaned
<1> QED BY <1>1, <1>2, <1>3, <1>4, <1>5, <1>6, CleanKeeps

\* A deletion is marked complete when every store is barred and empty.
LEMMA MarkCompleteKeeps ==
  ASSUME Typed, Facts, NEW p \in Procs, MarkComplete(p)
  PROVE Typed' /\ Facts'
<1> DEFINE r == procs[p].op.req
           plan == procs[p].op.plan
<1>1. /\ At(p, "mark") /\ intents' = [intents EXCEPT ![r].complete = TRUE] /\ Move(p, Idle)
      /\ UNCHANGED <<stores, asked, net, remote, upsets>>
      /\ lease' = IF lease = p THEN Nobody ELSE lease
  BY DEF MarkComplete, GiveUp
<1>2. r \in Requests /\ plan \in SUBSET Sessions
  BY <1>1, Known DEF At, Typed, ProcsTyped, Op
<1>3. [req |-> r, targets |-> plan] \in remote.receipts
  BY <1>1 DEF Facts, Requested, At, Confirmed, Cleaning
<1>4. intents[r] \in Plan /\ intents[r] # NoIntent /\ intents[r].targets = plan
  BY <1>2, <1>3 DEF Facts, IntentRemains, Intents, Typed, RequestsTyped
<1>5. NoIntent \notin Plan
  BY PlanAssumption DEF Plan, Sessions
<1>6. /\ intents'[r] \in Plan /\ intents'[r].targets = plan
      /\ \A s \in Requests : s # r => intents'[s] = intents[s]
  BY <1>1, <1>2, <1>4 DEF Plan, Typed, RequestsTyped
<1>7. PICK v \in Proc : Becomes(p, v) /\ v.op = Idle /\ v.writer = procs[p].writer
  BY <1>1, Known, IdleOp, Moved
<1>8. procs'[p] = v /\ \A q \in Procs : q # p => procs'[q] = procs[q]
  BY <1>7 DEF Becomes
<1>9. \A s \in Requests : /\ intents'[s] = NoIntent <=> intents[s] = NoIntent
                          /\ intents'[s] # NoIntent => intents'[s].targets = intents[s].targets
  BY <1>4, <1>5, <1>6
<1>10. Typed'
  <2>1. ProcsTyped'
    BY <1>7, ProcsTypedStep DEF Typed, Idle
  <2>2. intents' \in [Requests -> Plan \cup {NoIntent}]
    BY <1>1, <1>6 DEF Typed, RequestsTyped
  <2> QED BY <1>1, <2>1, <2>2 DEF Typed, StoresTyped, RequestsTyped, stores
<1>11. lease = p /\ lease' = Nobody /\ (\A q \in Procs : ~procs[q].writer)
       /\ \A q \in Procs : q # p => procs[q].op.at \notin Cleaning
  BY <1>1, NobodyAssumption DEF Facts, Cleaned, Locked, At, Cleaning
<1>12. \A q \in Procs : procs'[q].op = procs[q].op \/ (procs'[q].op = Idle /\ q = p)
  BY <1>7, <1>8
<1>13. Idle.at = "idle" /\ ~Idle.own
  BY DEF Idle
<1>14. Owned'
  <2>1. \A q \in Procs : procs'[q].op.own => procs'[q].op = procs[q].op
    BY <1>12, <1>13
  <2>2. \A q \in Procs : procs'[q].op.at # "idle" => procs'[q].op = procs[q].op
    BY <1>12, <1>13
  <2>3. \A q \in Procs : procs'[q].op.at = "idle" => ~procs'[q].op.own
    BY <1>12, <1>13 DEF Facts, Owned
  <2>4. \A q \in Procs : procs'[q].op.at = "prepare" => intents'[procs'[q].op.req] = NoIntent
    BY <1>9, <2>2 DEF Facts, Owned, At, Typed, ProcsTyped
  <2> QED BY <1>1, <1>9, <2>1, <2>2, <2>3, <2>4 DEF Facts, Owned, At
<1>15. Requested'
  <2>1. \A q \in Procs : procs'[q].op.at \in {"sent", "refused"} \cup Confirmed => procs'[q].op = procs[q].op
    BY <1>12, <1>13 DEF Confirmed, Cleaning
  <2>2. \A q \in Procs : procs'[q].op.at = "sent" =>
          intents'[procs'[q].op.req] # NoIntent /\ intents'[procs'[q].op.req].targets = procs'[q].op.plan
    BY <1>9, <2>1 DEF Facts, Requested, At, Typed, ProcsTyped
  <2> QED BY <1>1, <2>1, <2>2 DEF Facts, Requested, At
<1>16. IntentRemains'
  BY <1>1, <1>9 DEF Facts, IntentRemains, Intents
<1>17. Cleaned'
  <2>1. \A q \in Procs : procs'[q].op.at \notin Cleaning
    BY <1>8, <1>11, <1>7, <1>13 DEF Cleaning
  <2>2. \A a : a \notin Cleaning => BarredBefore(a) = {}
    BY DEF BarredBefore, Cleaning
  <2> QED BY <1>1, <2>1, <2>2 DEF Facts, Cleaned, Cleaning, stores
<1>18. Locked'
  <2>1. \A q \in Procs : ~procs'[q].writer
    BY <1>7, <1>8, <1>11
  <2>2. \A q \in Procs : procs'[q].op.at = "prepare" => procs'[q].op = procs[q].op
    BY <1>12, <1>13
  <2>3. \A s \in Requests : intents'[s] # NoIntent => Root \in intents'[s].targets
    BY <1>9 DEF Facts, Locked, Intents
  <2> QED BY <1>1, <2>1, <2>2, <2>3 DEF Facts, Locked, Intents, At, stores
<1>19. RemoteFirst'
  BY <1>1 DEF Facts, RemoteFirst, stores
<1>20. DeletedStaysGone'
  <2> SUFFICES ASSUME NEW s \in Requests, intents'[s] # NoIntent, intents'[s].complete,
                      NEW t \in intents'[s].targets
               PROVE rows \cap (Stores \X {t}) = {} /\ Stores \X {t} \subseteq barred
    BY <1>1 DEF DeletedStaysGone, Intents, stores
  <2>1. CASE s # r
    BY <1>6, <2>1 DEF Facts, DeletedStaysGone, Intents
  <2>2. CASE s = r
    <3>1. t \in plan /\ t \in Sessions
      BY <1>2, <1>6, <2>2
    <3>2. BarredBefore("mark") = Stores
      BY DEF BarredBefore
    <3>3. \A store \in Stores : <<store, t>> \in barred
      BY <1>1, <3>1, <3>2 DEF Facts, Cleaned, At
    <3>4. <<"transcript", t>> \notin rows
      BY <1>1, <3>1 DEF Facts, Cleaned, At
    <3>5. \A store \in Stores : <<store, t>> \notin rows
      BY <3>1, <3>3, <3>4 DEF Facts, Cleaned, Stores
    <3> QED BY <3>3, <3>5
  <2> QED BY <2>1, <2>2
<1> QED BY <1>10, <1>14, <1>15, <1>16, <1>17, <1>18, <1>19, <1>20 DEF Facts
-----------------------------------------------------------------------------
(* The theorems.                                                            *)

DeletionInv == Typed /\ Facts

\* The initial states satisfy the invariant.
LEMMA DeletionInit_Inv == DeletionInit => DeletionInv
<1> SUFFICES ASSUME DeletionInit PROVE DeletionInv
  OBVIOUS
<1>1. Fresh \in Proc /\ Fresh.op = Idle /\ ~Fresh.writer
  BY IdleOp DEF Fresh, Proc
<1>2. procs \in [Procs -> Proc] /\ \A p \in Procs : procs[p] = Fresh
  BY <1>1 DEF DeletionInit
<1>3. \A p \in Procs : procs[p].op.at = "idle" /\ ~procs[p].op.own /\ ~procs[p].writer
  BY <1>1, <1>2 DEF Idle
<1>4. StoresTyped
  <2>1. PICK kids \in {{}, Kids} :
          /\ checkpoint = [rev |-> IF kids = {} THEN 0 ELSE 1, kids |-> kids]
          /\ rows = UNION {Holds(s) \X {s} : s \in {Root} \cup kids}
                      \ (IF kids = {} THEN {<<"graph", Root>>} ELSE {})
    BY DEF DeletionInit
  <2>2. \A s \in Sessions : Holds(s) \subseteq Stores
    BY DEF Holds, Stores, Databases
  <2>3. {Root} \cup kids \subseteq Sessions
    BY DEF Sessions
  <2>4. \A pair \in rows : pair \in Stores \X Sessions
    BY <2>1, <2>2, <2>3
  <2>5. checkpoint \in [rev : Nat, kids : SUBSET Kids]
    BY <2>1
  <2> QED BY <2>4, <2>5 DEF StoresTyped, DeletionInit
<1>5. RequestsTyped
  BY RequestsAssumption DEF RequestsTyped, DeletionInit
<1>6. ProcsTyped
  BY <1>2, <1>3 DEF ProcsTyped
<1>7. remote.deleted = {} /\ remote.receipts = {} /\ net = {} /\ barred = {} /\ Intents = {}
      /\ \A r \in Requests : intents[r] = NoIntent
  BY DEF DeletionInit, Intents
<1>8. Owned
  BY <1>3, <1>7 DEF Owned, At
<1>9. Requested
  BY <1>3, <1>7 DEF Requested, At, Confirmed, Cleaning
<1>10. Cleaned
  <2>1. \A p \in Procs : BarredBefore(procs[p].op.at) = {}
    BY <1>3 DEF BarredBefore
  <2> QED BY <1>3, <1>7, <2>1 DEF Cleaned, Cleaning
<1>11. Locked /\ IntentRemains /\ RemoteFirst /\ DeletedStaysGone
  BY <1>3, <1>7 DEF Locked, IntentRemains, RemoteFirst, DeletedStaysGone, At
<1> QED BY <1>4, <1>5, <1>6, <1>8, <1>9, <1>10, <1>11 DEF DeletionInv, Typed, Facts

\* Every step preserves the invariant.
LEMMA DeletionNext_Inv == DeletionInv /\ [DeletionNext]_delvars => DeletionInv'
<1> SUFFICES ASSUME Typed, Facts, [DeletionNext]_delvars PROVE Typed' /\ Facts'
  BY DEF DeletionInv
<1>1. ASSUME NEW p \in Procs, Operation(p)
      PROVE Typed' /\ Facts'
  <2>1. CASE Bind(p)
    BY <2>1, BindCalm, CalmKeeps
  <2>2. CASE BeginTurn(p)
    BY <2>2, BeginTurnCalm, CalmKeeps
  <2>3. CASE EndTurn(p)
    BY <2>3, EndTurnCalm, CalmKeeps
  <2>4. CASE PersistGraph(p)
    BY <2>4, PersistGraphCalm, CalmKeeps
  <2>5. CASE Prepare(p)
    BY <2>5, PrepareKeeps
  <2>6. CASE Rejected(p)
    BY <2>6, RejectedKeeps
  <2>7. CASE Query(p)
    BY <2>7, QueryCalm, CalmKeeps
  <2>8. CASE Retire(p)
    BY <2>8, RetireCalm, CalmKeeps DEF Facts
  <2>9. CASE CloseRuntime(p)
    BY <2>9, CloseRuntimeCalm, CalmKeeps DEF Facts
  <2>10. CASE Lock(p)
    BY <2>10, LockKeeps
  <2>11. CASE MarkTranscripts(p)
    BY <2>11, MarkTranscriptsKeeps
  <2>12. CASE WipeDatabase(p)
    BY <2>12, WipeDatabaseKeeps
  <2>13. CASE RemoveTranscripts(p)
    BY <2>13, RemoveTranscriptsKeeps
  <2>14. CASE GraphRefuses(p)
    BY <2>14, FailCalm, CalmKeeps
  <2>15. CASE MarkComplete(p)
    BY <2>15, MarkCompleteKeeps
  <2> QED BY <1>1, <2>1, <2>2, <2>3, <2>4, <2>5, <2>6, <2>7, <2>8, <2>9, <2>10, <2>11, <2>12,
             <2>13, <2>14, <2>15 DEF Operation
<1>2. ASSUME NEW p \in Procs,
             \/ Unbind(p) \/ CheckAvailable(p) \/ TurnWrites(p) \/ UseAgents(p)
             \/ Delete(p) \/ Unknown(p) \/ Fail(p) \/ Crash(p)
             \/ \E r \in Requests : Recover(p, r)
      PROVE Typed' /\ Facts'
  <2>1. CASE Unbind(p)
    BY <2>1, UnbindCalm, CalmKeeps
  <2>2. CASE CheckAvailable(p)
    BY <2>2, CheckAvailableCalm, CalmKeeps DEF Facts
  <2>3. CASE TurnWrites(p)
    BY <2>3, TurnWritesCalm, CalmKeeps
  <2>4. CASE UseAgents(p)
    BY <2>4, UseAgentsCalm, CalmKeeps
  <2>5. CASE Delete(p)
    BY <2>5, DeleteKeeps
  <2>6. CASE Unknown(p) \/ Fail(p)
    BY <2>6, FailCalm, CalmKeeps
  <2>7. CASE Crash(p)
    BY <2>7, CrashCalm, CalmKeeps
  <2>8. ASSUME NEW r \in Requests, Recover(p, r)
        PROVE Typed' /\ Facts'
    BY <2>8, RecoverCalm, CalmKeeps
  <2> QED BY <1>2, <2>1, <2>2, <2>3, <2>4, <2>5, <2>6, <2>7, <2>8
<1>3. ASSUME NEW m \in net, Perform(m) \/ Refuse(m) \/ Lose(m)
      PROVE Typed' /\ Facts'
  BY <1>3, PerformKeeps, RefuseKeeps, LoseCalm, CalmKeeps
<1>4. CASE Expire
  BY <1>4, ExpireCalm, CalmKeeps
<1>5. CASE UNCHANGED delvars
  <2>1. Typed'
    BY <1>5 DEF delvars, Typed, StoresTyped, RequestsTyped, ProcsTyped
  <2>2. Calm
    BY <1>5 DEF delvars, Calm, Follows, Guarded, Typed, RequestsTyped
  <2> QED BY <2>1, <2>2, CalmKeeps
<1> QED BY <1>1, <1>2, <1>3, <1>4, <1>5 DEF DeletionNext

\* The inductive invariant of the deletion.
THEOREM DeletionInvariant == DeletionSpec => []DeletionInv
BY DeletionInit_Inv, DeletionNext_Inv, PTL DEF DeletionSpec

\* Types, for every number of processes, children, requests and troubles.
THEOREM DeletionTypes == DeletionSpec => []DeletionTypeOK
<1>1. DeletionInv => DeletionTypeOK
  BY DEF DeletionInv, Typed, StoresTyped, RequestsTyped, DeletionTypeOK, Plan, Message
<1> QED BY <1>1, DeletionInvariant, PTL

\* The plan of a deletion stays on disk as long as the service may act on it
\* or has acted on it (DeletionIntentStore.prepare before the request is sent;
\* only a refusal of the first submission releases it).
THEOREM IntentsRemain == DeletionSpec => []IntentRemains
<1>1. DeletionInv => IntentRemains
  BY DEF DeletionInv, Facts
<1> QED BY <1>1, DeletionInvariant, PTL

\* Nothing local is barred or cleaned before the service has deleted it.
THEOREM RemoteIsFirst == DeletionSpec => []RemoteFirst
<1>1. DeletionInv => RemoteFirst
  BY DEF DeletionInv, Facts
<1> QED BY <1>1, DeletionInvariant, PTL

\* No turn, agent, second process or later deletion brings back a session
\* whose deletion is complete.
THEOREM DeletionIsFinal == DeletionSpec => []DeletedStaysGone
<1>1. DeletionInv => DeletedStaysGone
  BY DEF DeletionInv, Facts
<1> QED BY <1>1, DeletionInvariant, PTL

\* Transcripts: while a process has one open for writing, no process is at the
\* cleanup of the stores (exclusive and shared locks of the lease).
THEOREM CleanupAlone ==
  DeletionSpec => [](\A p, q \in Procs : procs[p].op.at \in Cleaning => ~procs[q].writer)
<1>1. DeletionInv => \A p, q \in Procs : procs[p].op.at \in Cleaning => ~procs[q].writer
  BY NobodyAssumption DEF DeletionInv, Facts, Cleaned, Locked
<1> QED BY <1>1, DeletionInvariant, PTL
=============================================================================
