------------------------- MODULE ApprovalQueueProofs -------------------------
(***************************************************************************)
(* The queue of questions is consistent in every reachable state, for any  *)
(* callers, limit and troubles.                                            *)
(***************************************************************************)
EXTENDS ApprovalQueue, FiniteSetTheorems, TLAPS

-----------------------------------------------------------------------------
(* The inductive invariant. *)

\* Where the worker has the front end's session.
Presenting == {"presenting", "decided"}

EntryRec  == [waiters : Int, settled : BOOLEAN]
WorkerRec == [at : {"none", "new", "starting", "cancelled", "dead"} \cup Presenting,
              entry : Nat, all : BOOLEAN]
QueueRec  == [pending : Seq(Nat \ {0}), current : Nat, worker : WorkerRec,
              session : BOOLEAN, closed : BOOLEAN]
CallRec   == [at : {"idle", "waiting", "answered", "cancelled"}, entry : Nat]

\* Coordinator q holds the open entries O, none twice.
Holds(q, O) ==
  /\ Range(q.pending) \cup ({q.current} \ {0}) = O
  /\ IsInjective(q.pending) /\ q.current \notin Range(q.pending)

\* Its worker presents the current entry, in a session of the front end, and
\* presents it to the end when somebody else has settled it.
Presents(q, n) ==
  /\ q.session <=> q.worker.at \in Presenting
  /\ q.worker.at \in Presenting => /\ q.worker.entry \in 1..n \ Range(q.pending)
                                   /\ q.current \in {0, q.worker.entry}
  /\ q.worker.at \notin Presenting => q.current = 0

Consistent(q, es) ==
  /\ Holds(q, Open(es)) /\ Presents(q, Len(es)) /\ (q.closed => Open(es) = {})
  /\ Cardinality(Open(es)) <= QueueLimit

ApprovalInv ==
  /\ entries \in Seq(EntryRec) /\ queue \in QueueRec /\ calls \in [Callers -> CallRec]
  /\ \A c \in Callers : calls[c].at = "waiting" => calls[c].entry \in DOMAIN entries
  /\ Consistent(queue, entries)

-----------------------------------------------------------------------------
(* Sequences of entries and of their numbers. *)

\* The elements of a sequence are its head and those of its tail.
LEMMA RangeTail ==
  ASSUME NEW S, NEW s \in Seq(S), s # << >>
  PROVE /\ Head(s) \in S /\ Tail(s) \in Seq(S)
        /\ Range(s) = {Head(s)} \cup Range(Tail(s))
        /\ IsInjective(s) => Head(s) \notin Range(Tail(s)) /\ IsInjective(Tail(s))
<1> DEFINE t == Tail(s)
           n == Len(s)
<1>1. n \in Nat /\ n >= 1 /\ Head(s) = s[1] /\ t \in Seq(S) /\ Len(t) = n - 1
  OBVIOUS
<1>2. DOMAIN s = 1 .. n /\ DOMAIN t = 1 .. (n - 1)
  BY <1>1
<1>3. \A i \in 1 .. (n - 1) : t[i] = s[i + 1]
  OBVIOUS
<1> HIDE DEF t, n
<1>4. \A i \in 1 .. (n - 1) : i + 1 \in 1 .. n /\ t[i] = s[i + 1]
  BY <1>1, <1>3
<1>5. \A i \in 1 .. n : i = 1 \/ (i - 1 \in 1 .. (n - 1) /\ s[i] = t[i - 1])
  BY <1>1, <1>3
<1>6. Head(s) \in S /\ 1 \in 1 .. n
  BY <1>1, <1>2
<1>7. Range(s) \subseteq {Head(s)} \cup Range(t)
  BY <1>1, <1>2, <1>5 DEF Range
<1>8. {Head(s)} \cup Range(t) \subseteq Range(s)
  BY <1>1, <1>2, <1>4, <1>6 DEF Range
<1>9. ASSUME IsInjective(s) PROVE Head(s) \notin Range(t) /\ IsInjective(t)
  <2>1. \A i \in 1 .. (n - 1) : i + 1 # 1 /\ t[i] # s[1]
    BY <1>1, <1>2, <1>4, <1>6, <1>9 DEF IsInjective
  <2>2. \A i, j \in 1 .. (n - 1) : t[i] = t[j] => i + 1 = j + 1
    BY <1>2, <1>4, <1>9 DEF IsInjective
  <2>3. \A i, j \in 1 .. (n - 1) : t[i] = t[j] => i = j
    BY <1>1, <2>2
  <2> QED BY <1>1, <1>2, <2>1, <2>3 DEF Range, IsInjective
<1> QED BY <1>1, <1>6, <1>7, <1>8, <1>9 DEF t

\* A sequence of one element more.
LEMMA RangeAppend ==
  ASSUME NEW S, NEW s \in Seq(S), NEW x \in S
  PROVE /\ Append(s, x) \in Seq(S)
        /\ Range(Append(s, x)) = Range(s) \cup {x}
        /\ IsInjective(s) /\ x \notin Range(s) => IsInjective(Append(s, x))
<1> DEFINE t == Append(s, x)
           n == Len(s)
<1>1. n \in Nat /\ t \in Seq(S) /\ Len(t) = n + 1
  OBVIOUS
<1>2. DOMAIN s = 1 .. n /\ DOMAIN t = 1 .. (n + 1)
  BY <1>1
<1>3. t[n + 1] = x /\ \A i \in 1 .. n : t[i] = s[i]
  OBVIOUS
<1> HIDE DEF t, n
<1>4. \A i \in 1 .. (n + 1) : i = n + 1 \/ i \in 1 .. n
  BY <1>1
<1>5. 1 .. n \subseteq 1 .. (n + 1) /\ n + 1 \in 1 .. (n + 1)
  BY <1>1
<1>6. Range(t) = Range(s) \cup {x}
  BY <1>2, <1>3, <1>4, <1>5 DEF Range
<1>7. IsInjective(s) /\ x \notin Range(s) => IsInjective(t)
  BY <1>2, <1>3, <1>4, <1>5 DEF Range, IsInjective
<1> QED BY <1>1, <1>6, <1>7 DEF t

\* A sequence without one of its elements.
LEMMA RangeRemoveAt ==
  ASSUME NEW T, NEW s \in Seq(T), IsInjective(s), NEW k \in DOMAIN s
  PROVE /\ RemoveAt(s, k) \in Seq(T) /\ IsInjective(RemoveAt(s, k))
        /\ Range(RemoveAt(s, k)) = Range(s) \ {s[k]}
<1> DEFINE t == RemoveAt(s, k)
           m == Len(s)
<1>1. m \in Nat /\ DOMAIN s = 1 .. m /\ k \in 1 .. m
  OBVIOUS
<1>2. t \in Seq(T) /\ Len(t) = m - 1
  BY <1>1 DEF RemoveAt
<1>3. \A i \in 1 .. (m - 1) : t[i] = IF i < k THEN s[i] ELSE s[i + 1]
  <2>1. PICK a, b : a = SubSeq(s, 1, k - 1) /\ b = SubSeq(s, k + 1, m)
    OBVIOUS
  <2>2. a \in Seq(T) /\ Len(a) = k - 1 /\ \A i \in 1 .. (k - 1) : a[i] = s[i]
    BY <1>1, <2>1
  <2>3. b \in Seq(T) /\ Len(b) = m - k /\ \A i \in 1 .. (m - k) : b[i] = s[i + k]
    BY <1>1, <2>1
  <2>4. t = a \o b
    BY <2>1 DEF RemoveAt
  <2>5. \A i \in 1 .. (m - 1) : t[i] = IF i <= Len(a) THEN a[i] ELSE b[i - Len(a)]
    BY <1>1, <2>2, <2>3, <2>4
  <2> TAKE i \in 1 .. (m - 1)
  <2>6. CASE i < k
    <3>1. i \in 1 .. (k - 1) /\ i <= Len(a)
      BY <1>1, <2>2, <2>6
    <3> QED BY <2>2, <2>5, <2>6, <3>1
  <2>7. CASE i >= k
    <3>1. i - (k - 1) \in 1 .. (m - k) /\ (i - (k - 1)) + k = i + 1 /\ ~(i <= Len(a)) /\ ~(i < k)
      BY <1>1, <2>2, <2>7
    <3>2. t[i] = b[i - (k - 1)]
      BY <2>2, <2>5, <3>1
    <3> QED BY <2>3, <3>1, <3>2
  <2> QED BY <1>1, <2>6, <2>7
<1>4. DOMAIN t = 1 .. (m - 1)
  BY <1>1, <1>2
<1> HIDE DEF t, m
<1> DEFINE up(i) == IF i < k THEN i ELSE i + 1
<1>5. \A i \in 1 .. (m - 1) : up(i) \in 1 .. m /\ up(i) # k /\ t[i] = s[up(i)]
  BY <1>1, <1>3
<1>6. \A i, j \in 1 .. (m - 1) : up(i) = up(j) => i = j
  BY <1>1
<1>7. \A i \in 1 .. m : i # k => \E j \in 1 .. (m - 1) : up(j) = i
  <2> TAKE i \in 1 .. m
  <2>1. CASE i < k
    <3>1. i \in 1 .. (m - 1) /\ up(i) = i
      BY <1>1, <2>1
    <3> QED BY <3>1
  <2>2. CASE i > k
    <3>1. i - 1 \in 1 .. (m - 1) /\ up(i - 1) = i
      BY <1>1, <2>2
    <3> QED BY <3>1
  <2> QED BY <1>1, <2>1, <2>2
<1> HIDE DEF up
<1>8. \A i, j \in 1 .. m : s[i] = s[j] => i = j
  BY <1>1 DEF IsInjective
<1>9. Range(t) \subseteq Range(s) \ {s[k]}
  BY <1>1, <1>4, <1>5, <1>8 DEF Range
<1>10. Range(s) \ {s[k]} \subseteq Range(t)
  BY <1>1, <1>4, <1>5, <1>7 DEF Range
<1>11. IsInjective(t)
  BY <1>4, <1>5, <1>6, <1>8 DEF IsInjective
<1> QED BY <1>2, <1>9, <1>10, <1>11 DEF t

\* A queue without one of its entries, or without all of them.
LEMMA OthersFacts ==
  ASSUME NEW T, NEW s \in Seq(T), IsInjective(s), NEW S,
         Range(s) \subseteq S \/ S = {} \/ \E i : S = {i}
  PROVE /\ Others(s, S) \in Seq(T) /\ IsInjective(Others(s, S))
        /\ Range(Others(s, S)) = Range(s) \ S
<1>1. CASE Range(s) \subseteq S
  <2>1. Others(s, S) = << >>
    BY <1>1 DEF Others
  <2> QED BY <1>1, <2>1 DEF Range, IsInjective
<1>2. CASE ~(Range(s) \subseteq S) /\ Range(s) \cap S = {}
  <2>1. Others(s, S) = s
    BY <1>2 DEF Others
  <2> QED BY <1>2, <2>1
<1>3. CASE ~(Range(s) \subseteq S) /\ Range(s) \cap S # {}
  <2>1. PICK k : k = CHOOSE n \in DOMAIN s : s[n] \in S
    OBVIOUS
  <2>2. k \in DOMAIN s /\ s[k] \in S
    BY <1>3, <2>1 DEF Range
  <2>3. S = {s[k]}
    BY <1>3, <2>2
  <2>4. Others(s, S) = RemoveAt(s, k)
    BY <1>3, <2>1 DEF Others
  <2>5. /\ RemoveAt(s, k) \in Seq(T) /\ IsInjective(RemoveAt(s, k))
        /\ Range(RemoveAt(s, k)) = Range(s) \ {s[k]}
    BY <2>2, RangeRemoveAt
  <2> QED BY <2>3, <2>4, <2>5
<1> QED BY <1>1, <1>2, <1>3

\* The open entries are finitely many.
LEMMA OpenFacts ==
  ASSUME NEW es \in Seq(EntryRec)
  PROVE /\ Open(es) \subseteq 1..Len(es) /\ IsFiniteSet(Open(es)) /\ Cardinality(Open(es)) \in Nat
        /\ Len(es) \in Nat /\ \A S \in SUBSET Open(es) : Cardinality(S) <= Cardinality(Open(es))
<1>1. Len(es) \in Nat /\ DOMAIN es = 1..Len(es)
  OBVIOUS
<1>2. Open(es) \subseteq 1..Len(es)
  BY <1>1 DEF Open
<1>3. IsFiniteSet(Open(es))
  <2>1. PICK n \in Nat : n = Len(es)
    BY <1>1
  <2>2. IsFiniteSet(1..n)
    BY FS_Interval
  <2> QED BY <1>2, <2>1, <2>2, FS_Subset
<1>4. Cardinality(Open(es)) \in Nat
  BY <1>3, FS_CardinalityType
<1>5. \A S \in SUBSET Open(es) : Cardinality(S) <= Cardinality(Open(es))
  BY <1>3, FS_Subset
<1> QED BY <1>1, <1>2, <1>3, <1>4, <1>5

\* Settling entries closes them.
LEMMA SettledFacts ==
  ASSUME NEW es \in Seq(EntryRec), NEW S
  PROVE /\ Settled(es, S) \in Seq(EntryRec) /\ Len(Settled(es, S)) = Len(es)
        /\ Open(Settled(es, S)) = Open(es) \ S
        /\ Cardinality(Open(Settled(es, S))) <= Cardinality(Open(es))
<1> DEFINE t == Settled(es, S)
<1>1. DOMAIN es = 1..Len(es) /\ Len(es) \in Nat
  OBVIOUS
<1>2. \A i \in 1..Len(es) : es[i] \in EntryRec
  BY <1>1
<1>3. t = [i \in 1..Len(es) |-> [es[i] EXCEPT !.settled = @ \/ i \in S]]
  BY <1>1 DEF Settled
<1>4. \A i \in 1..Len(es) : t[i] = [es[i] EXCEPT !.settled = es[i].settled \/ i \in S]
  BY <1>3
<1>5. \A i \in 1..Len(es) : t[i] \in EntryRec /\ (t[i].settled <=> es[i].settled \/ i \in S)
  <2> SUFFICES ASSUME NEW i \in 1..Len(es)
               PROVE t[i] \in EntryRec /\ (t[i].settled <=> es[i].settled \/ i \in S)
    OBVIOUS
  <2>1. PICK b \in BOOLEAN : b = (es[i].settled \/ i \in S)
    BY <1>2 DEF EntryRec
  <2>2. t[i] = [es[i] EXCEPT !.settled = b]
    BY <1>4, <2>1, Zenon
  <2>3. t[i] \in EntryRec /\ t[i].settled = b
    BY <1>2, <2>1, <2>2, Zenon DEF EntryRec
  <2> QED BY <2>1, <2>3
<1>6. t \in Seq(EntryRec) /\ Len(t) = Len(es) /\ DOMAIN t = 1..Len(es)
  <2>1. t \in [1..Len(es) -> EntryRec]
    BY <1>3, <1>5
  <2> QED BY <1>1, <2>1
<1>7. Open(t) = Open(es) \ S
  BY <1>1, <1>5, <1>6 DEF Open
<1> QED BY <1>6, <1>7, OpenFacts

\* A new entry is open.
LEMMA NewEntryFacts ==
  ASSUME NEW es \in Seq(EntryRec), NEW w \in Int
  PROVE /\ Append(es, NewEntry(w)) \in Seq(EntryRec) /\ Len(Append(es, NewEntry(w))) = Len(es) + 1
        /\ Open(Append(es, NewEntry(w))) = Open(es) \cup {Len(es) + 1}
        /\ Cardinality(Open(Append(es, NewEntry(w)))) = Cardinality(Open(es)) + 1
<1>1. NewEntry(w) \in EntryRec /\ NewEntry(w).settled = FALSE
  BY Zenon DEF NewEntry, EntryRec
<1>2. PICK n \in Nat, e \in EntryRec : n = Len(es) /\ DOMAIN es = 1..n /\ e = NewEntry(w)
  BY <1>1
<1>3. PICK t : t = Append(es, e)
  OBVIOUS
<1>4. /\ t \in Seq(EntryRec) /\ Len(t) = n + 1 /\ DOMAIN t = 1..(n + 1)
      /\ t[n + 1] = e /\ \A i \in 1..n : t[i] = es[i]
  BY <1>2, <1>3
<1>5. Open(t) = Open(es) \cup {n + 1}
  BY <1>1, <1>2, <1>4 DEF Open
<1>6. n + 1 \notin Open(es)
  BY <1>2 DEF Open
<1>7. Cardinality(Open(es) \cup {n + 1}) = Cardinality(Open(es)) + 1
  BY <1>6, OpenFacts, FS_AddElement
<1> QED BY <1>2, <1>3, <1>4, <1>5, <1>7

\* Entry i with w waiters.
Waited(es, i, w) == [es EXCEPT ![i].waiters = w]

\* Waiting for an entry, or no longer, leaves it open or settled.
LEMMA WaitersFacts ==
  ASSUME NEW es \in Seq(EntryRec), NEW i \in DOMAIN es, NEW w \in Int, NEW t,
         t = Waited(es, i, w)
  PROVE /\ t \in Seq(EntryRec) /\ Len(t) = Len(es) /\ DOMAIN t = DOMAIN es /\ Open(t) = Open(es)
        /\ t[i].settled = es[i].settled
<1>1. PICK e : e = [es[i] EXCEPT !.waiters = w]
  OBVIOUS
<1>2. es[i] \in EntryRec
  OBVIOUS
<1>3. e \in EntryRec /\ e.settled = es[i].settled
  BY <1>1, <1>2, Zenon DEF EntryRec
<1>4. t = [es EXCEPT ![i] = e]
  BY <1>1, Zenon DEF Waited
<1>5. t \in Seq(EntryRec) /\ Len(t) = Len(es) /\ DOMAIN t = DOMAIN es
  BY <1>3, <1>4
<1>6. \A j \in DOMAIN es : t[j].settled = es[j].settled
  BY <1>3, <1>4
<1> QED BY <1>5, <1>6 DEF Open

-----------------------------------------------------------------------------
(* What happens to the coordinator. *)

\* The workers there are.
LEMMA WorkerFacts ==
  /\ NoWorker \in WorkerRec /\ NoWorker.at = "none"
  /\ \A at \in {"new", "starting", "cancelled", "dead"} : WorkerAt(at) \in WorkerRec /\ WorkerAt(at).at = at
  /\ \A i \in Nat : LET w == [WorkerAt("presenting") EXCEPT !.entry = i] IN
       w \in WorkerRec /\ w.at = "presenting" /\ w.entry = i
  /\ {"none", "new", "starting", "cancelled", "dead"} \cap Presenting = {}
BY DEF NoWorker, WorkerAt, WorkerRec, Presenting

\* The parts of a well formed coordinator.
LEMMA QueueFacts ==
  ASSUME NEW q \in QueueRec
  PROVE /\ q.pending \in Seq(Nat \ {0}) /\ q.current \in Nat /\ q.worker \in WorkerRec
        /\ q.session \in BOOLEAN /\ q.closed \in BOOLEAN /\ q.worker.entry \in Nat
        /\ Range(q.pending) \subseteq Nat \ {0}
        /\ q.worker.at \in {"none", "new", "starting", "cancelled", "dead"} \cup Presenting
BY DEF QueueRec, WorkerRec, Range

\* The entries that leave are all there are, none or one.
OneOrAll(S, O) == S = O \/ S = {} \/ \E i : S = {i}

\* Entries leave the coordinator, one or all of them.
LEMMA WithoutHolds ==
  ASSUME NEW q \in QueueRec, NEW O, NEW n \in Nat, Holds(q, O), Presents(q, n), NEW S,
         OneOrAll(S, O), NEW r, r = Without(q, S)
  PROVE /\ r \in QueueRec /\ Holds(r, O \ S) /\ Presents(r, n)
        /\ r.worker = q.worker /\ r.session = q.session /\ r.closed = q.closed
<1>1. PICK s, c : s = Others(q.pending, S) /\ c = IF q.current \in S THEN 0 ELSE q.current
  OBVIOUS
<1>2. r = [q EXCEPT !.pending = s, !.current = c]
  BY <1>1, Zenon DEF Without
<1>3. q.pending \in Seq(Nat \ {0}) /\ q.current \in Nat /\ 0 \notin Range(q.pending)
  BY QueueFacts
<1>4. Range(q.pending) \subseteq S \/ S = {} \/ \E i : S = {i}
  BY DEF Holds, OneOrAll
<1>5. s \in Seq(Nat \ {0}) /\ IsInjective(s) /\ Range(s) = Range(q.pending) \ S
  BY <1>1, <1>3, <1>4, OthersFacts DEF Holds
<1>6. c \in Nat
  BY <1>1, <1>3
<1>7. /\ r \in QueueRec /\ r.pending = s /\ r.current = c /\ r.worker = q.worker
      /\ r.session = q.session /\ r.closed = q.closed
  BY <1>2, <1>5, <1>6, Zenon DEF QueueRec
<1>8. Holds(r, O \ S)
  BY <1>1, <1>3, <1>5, <1>7 DEF Holds
<1>9. Presents(r, n)
  BY <1>1, <1>5, <1>7 DEF Presents
<1> QED BY <1>7, <1>8, <1>9

\* A worker without a session is cancelled when nothing is left.
LEMMA CancelEmptyHolds ==
  ASSUME NEW q \in QueueRec, NEW es, NEW n \in Nat, Holds(q, Open(es)), Presents(q, n), NEW r,
         r = CancelEmptyStart(q, es)
  PROVE r \in QueueRec /\ Holds(r, Open(es)) /\ Presents(r, n) /\ r.closed = q.closed
<1>1. CASE r = q
  BY <1>1
<1>2. CASE ~q.session /\ r = [q EXCEPT !.worker = Cancelled(q.worker)]
  <2>1. q.worker.at \notin Presenting /\ q.worker \in WorkerRec
    BY <1>2, QueueFacts DEF Presents
  <2>2. PICK w \in WorkerRec : w = Cancelled(q.worker) /\ w.at \notin Presenting
    BY <2>1, WorkerFacts DEF Cancelled
  <2>3. r = [q EXCEPT !.worker = w]
    BY <1>2, <2>2
  <2>4. /\ r \in QueueRec /\ r.pending = q.pending /\ r.current = q.current /\ r.worker = w
        /\ r.session = q.session /\ r.closed = q.closed
    BY <2>2, <2>3, Zenon DEF QueueRec
  <2> QED BY <2>1, <2>2, <2>4 DEF Holds, Presents
<1> QED BY <1>1, <1>2, Zenon DEF CancelEmptyStart

\* The worker goes on with the first that waits, or ends.
LEMMA AdvanceHolds ==
  ASSUME NEW q \in QueueRec, NEW n \in Nat, NEW O \in SUBSET (1..n), Holds(q, O), q.current = 0,
         q.session \/ O = {}, NEW r, r = Advance(q)
  PROVE r \in QueueRec /\ Holds(r, O) /\ Presents(r, n) /\ r.closed = q.closed
<1>1. q.pending \in Seq(Nat \ {0}) /\ q.session \in BOOLEAN /\ Range(q.pending) = O /\ IsInjective(q.pending)
  BY QueueFacts DEF Holds
<1>2. CASE q.pending = << >>
  <2>1. r = [q EXCEPT !.worker = NoWorker, !.session = FALSE, !.current = 0]
    BY <1>2 DEF Advance
  <2>2. /\ r \in QueueRec /\ r.pending = q.pending /\ r.current = 0 /\ r.worker = NoWorker
        /\ r.session = FALSE /\ r.closed = q.closed
    <3>1. 0 \in Nat /\ NoWorker \in WorkerRec
      BY WorkerFacts
    <3> QED BY <2>1, <3>1, Zenon DEF QueueRec
  <2> QED BY <2>2, WorkerFacts DEF Holds, Presents
<1>3. CASE q.pending # << >>
  <2>1. PICK h, t : h = Head(q.pending) /\ t = Tail(q.pending)
    OBVIOUS
  <2>2. /\ h \in Nat \ {0} /\ t \in Seq(Nat \ {0}) /\ Range(q.pending) = {h} \cup Range(t)
        /\ h \notin Range(t) /\ IsInjective(t)
    BY <1>1, <1>3, <2>1, RangeTail
  <2>3. PICK w : w = [WorkerAt("presenting") EXCEPT !.entry = h]
    OBVIOUS
  <2>4. w \in WorkerRec /\ w.at = "presenting" /\ w.entry = h
    BY <2>2, <2>3, WorkerFacts
  <2>5. r = [q EXCEPT !.current = h, !.pending = t, !.worker = w]
    BY <1>3, <2>1, <2>3, Zenon DEF Advance
  <2>6. h \in Nat
    BY <2>2
  <2>7. /\ r \in QueueRec /\ r.pending = t /\ r.current = h /\ r.worker = w
        /\ r.session = q.session /\ r.closed = q.closed
    BY <2>2, <2>4, <2>5, <2>6, Zenon DEF QueueRec
  <2>8. h \in O /\ q.session
    BY <1>1, <2>2
  <2>9. Holds(r, O)
    BY <1>1, <2>2, <2>7 DEF Holds
  <2>10. Presents(r, n)
    BY <2>2, <2>4, <2>7, <2>8 DEF Presents, Presenting
  <2> QED BY <2>7, <2>9, <2>10
<1> QED BY <1>2, <1>3

\* A worker outside a session changes.
LEMMA WorkerHolds ==
  ASSUME NEW q \in QueueRec, NEW O, NEW n \in Nat, Holds(q, O), Presents(q, n),
         q.worker.at \notin Presenting, NEW w \in WorkerRec, w.at \notin Presenting, NEW r,
         r = [q EXCEPT !.worker = w]
  PROVE r \in QueueRec /\ Holds(r, O) /\ Presents(r, n) /\ r.closed = q.closed
<1>1. /\ r \in QueueRec /\ r.pending = q.pending /\ r.current = q.current /\ r.worker = w
      /\ r.session = q.session /\ r.closed = q.closed
  BY Zenon DEF QueueRec
<1> QED BY <1>1 DEF Holds, Presents

-----------------------------------------------------------------------------
(* The steps. *)

\* A step keeps the entries and the coordinator in order.
Moves ==
  /\ entries' \in Seq(EntryRec) /\ Len(entries') >= Len(entries) /\ queue' \in QueueRec
  /\ Consistent(queue', entries')

\* What the invariant says of the current state.
LEMMA Now ==
  ASSUME ApprovalInv
  PROVE /\ entries \in Seq(EntryRec) /\ Len(entries) \in Nat /\ DOMAIN entries = 1..Len(entries)
        /\ queue \in QueueRec /\ Holds(queue, Open(entries)) /\ Presents(queue, Len(entries))
        /\ (queue.closed => Open(entries) = {}) /\ Cardinality(Open(entries)) <= QueueLimit
        /\ Cardinality(Open(entries)) \in Nat /\ QueueLimit \in Nat /\ Open(entries) \subseteq 1..Len(entries)
        /\ (queue.worker.at \notin Presenting => queue.current = 0 /\ ~queue.session)
        /\ queue.worker \in WorkerRec
BY OpenFacts, QueueFacts, LimitAssumption DEF ApprovalInv, Consistent, Presents

\* A worker outside a session changes, and nothing else.
LEMMA WorkerStays ==
  ASSUME ApprovalInv, queue.worker.at \notin Presenting, NEW w \in WorkerRec, w.at \notin Presenting,
         queue' = [queue EXCEPT !.worker = w]
  PROVE /\ queue' \in QueueRec /\ Holds(queue', Open(entries)) /\ Presents(queue', Len(entries))
        /\ queue'.closed = queue.closed
<1>1. PICK O, n, r : O = Open(entries) /\ n = Len(entries) /\ r = queue'
  OBVIOUS
<1>2. Holds(queue, O) /\ Presents(queue, n) /\ queue \in QueueRec /\ n \in Nat
  BY <1>1, Now
<1>3. r = [queue EXCEPT !.worker = w]
  BY <1>1
<1>4. r \in QueueRec /\ Holds(r, O) /\ Presents(r, n) /\ r.closed = queue.closed
  BY <1>2, <1>3, WorkerHolds
<1> QED BY <1>1, <1>4

\* The coordinator and the entries stay.
LEMMA StillMoves ==
  ASSUME ApprovalInv, entries' = entries, queue' = queue
  PROVE Moves
BY Now DEF Moves, Consistent

\* The waiters of an entry are counted.
LEMMA WaitersCount ==
  ASSUME ApprovalInv, NEW i \in DOMAIN entries
  PROVE entries[i].waiters + 1 \in Int /\ entries[i].waiters - 1 \in Int
<1>1. PICK e : e = entries[i]
  OBVIOUS
<1>2. entries \in Seq(EntryRec)
  BY Now
<1>3. e \in EntryRec
  BY <1>1, <1>2
<1>4. e.waiters \in Int
  BY <1>3, Zenon DEF EntryRec
<1> QED BY <1>1, <1>4

\* One more waits, or one less.
LEMMA WaitersMove ==
  ASSUME ApprovalInv, NEW i \in DOMAIN entries, NEW w \in Int,
         entries' = [entries EXCEPT ![i].waiters = w], queue' = queue
  PROVE Moves
<1>1. PICK t : t = Waited(entries, i, w)
  OBVIOUS
<1>2. entries \in Seq(EntryRec)
  BY Now
<1>3. t \in Seq(EntryRec) /\ Len(t) = Len(entries) /\ Open(t) = Open(entries)
  BY <1>1, <1>2, WaitersFacts
<1>4. entries' = t
  BY <1>1, Zenon DEF Waited
<1>5. entries' \in Seq(EntryRec) /\ Len(entries') = Len(entries) /\ Open(entries') = Open(entries)
  BY <1>3, <1>4
<1>6. Consistent(queue', entries')
  BY <1>5, Now DEF Consistent
<1> QED BY <1>5, <1>6, Now DEF Moves

\* Entries are settled, and an idle start of the worker is cancelled.
LEMMA SettleMoves ==
  ASSUME ApprovalInv, NEW es \in Seq(EntryRec), Len(es) = Len(entries), Open(es) = Open(entries),
         NEW i, Settle(es, {i})
  PROVE Moves
<1>1. /\ entries' \in Seq(EntryRec) /\ Len(entries') = Len(es) /\ Open(entries') = Open(es) \ {i}
      /\ Cardinality(Open(entries')) <= Cardinality(Open(es)) /\ Cardinality(Open(entries')) \in Nat
  BY SettledFacts, OpenFacts DEF Settle
<1>2. PICK q : q = Without(queue, {i})
  OBVIOUS
<1>3. /\ q \in QueueRec /\ Holds(q, Open(entries')) /\ Presents(q, Len(entries'))
      /\ q.closed = queue.closed
  <2>1. PICK S, O, n : S = {i} /\ O = Open(entries) /\ n = Len(entries)
    OBVIOUS
  <2>2. OneOrAll(S, O)
    BY <2>1 DEF OneOrAll
  <2>3. /\ Holds(queue, O) /\ Presents(queue, n) /\ queue \in QueueRec /\ q = Without(queue, S)
        /\ n \in Nat
    BY <1>2, <2>1, Now
  <2>4. q \in QueueRec /\ Holds(q, O \ S) /\ Presents(q, n) /\ q.closed = queue.closed
    BY <2>2, <2>3, WithoutHolds
  <2>5. O \ S = Open(entries') /\ n = Len(entries')
    BY <1>1, <2>1
  <2> QED BY <2>4, <2>5
<1>4. queue' = CancelEmptyStart(q, entries')
  BY <1>2 DEF Settle
<1>5. queue' \in QueueRec /\ Holds(queue', Open(entries')) /\ Presents(queue', Len(entries'))
      /\ queue'.closed = q.closed
  BY <1>1, <1>3, <1>4, Now, CancelEmptyHolds
<1> QED BY <1>1, <1>3, <1>5, Now DEF Moves, Consistent

\* An entry is appended, and a worker made when there is none.
LEMMA EnqueueMoves ==
  ASSUME ApprovalInv, ~queue.closed, ~Full, NEW w \in Int, Enqueue(NewEntry(w))
  PROVE Moves /\ Len(entries') = Len(entries) + 1
<1>1. /\ entries' \in Seq(EntryRec) /\ Len(entries') = Len(entries) + 1
      /\ Open(entries') = Open(entries) \cup {Len(entries) + 1}
      /\ Cardinality(Open(entries')) = Cardinality(Open(entries)) + 1
  BY Now, NewEntryFacts DEF Enqueue
<1>2. PICK n, v : /\ n = Len(entries)
                  /\ v = IF queue.worker.at = "none" THEN WorkerAt("new") ELSE queue.worker
  OBVIOUS
<1>3. /\ v \in WorkerRec /\ (v.at \in Presenting <=> queue.worker.at \in Presenting)
      /\ (v.at \in Presenting => v = queue.worker)
  BY <1>2, Now, WorkerFacts
<1>4. PICK s : s = Append(queue.pending, n + 1)
  OBVIOUS
<1>5. queue' = [queue EXCEPT !.pending = s, !.worker = v]
  BY <1>2, <1>4, Zenon DEF Enqueue
<1>6. n + 1 \in Nat \ {0} /\ queue.pending \in Seq(Nat \ {0}) /\ 0 \notin Range(queue.pending)
  <2>1. n \in Nat /\ queue \in QueueRec
    BY <1>2, Now
  <2>2. n + 1 \in Nat \ {0}
    BY <2>1
  <2> QED BY <2>1, <2>2, QueueFacts
<1>7. n + 1 \notin Range(queue.pending) /\ n + 1 # queue.current /\ n + 1 \notin Open(entries)
  BY <1>2, <1>6, Now DEF Holds
<1>8. s \in Seq(Nat \ {0}) /\ Range(s) = Range(queue.pending) \cup {n + 1} /\ IsInjective(s)
  BY <1>4, <1>6, <1>7, Now, RangeAppend DEF Holds
<1>9. /\ queue' \in QueueRec /\ queue'.pending = s /\ queue'.current = queue.current /\ queue'.worker = v
      /\ queue'.session = queue.session /\ queue'.closed = queue.closed
  BY <1>3, <1>5, <1>8, Now, Zenon DEF QueueRec
<1>10. Holds(queue', Open(entries'))
  BY <1>1, <1>2, <1>6, <1>7, <1>8, <1>9, Now DEF Holds
<1>11. Presents(queue', Len(entries'))
  <2>1. CASE v.at \in Presenting
    <3>1. /\ queue.session /\ queue.worker.entry \in 1..n \ Range(queue.pending)
          /\ queue.current \in {0, queue.worker.entry} /\ v = queue.worker
      BY <1>2, <1>3, <2>1, Now DEF Presents
    <3>2. v.entry \in 1..(n + 1) \ Range(s)
      <4>1. n \in Nat
        BY <1>2, Now
      <4> QED BY <1>8, <3>1, <4>1
    <3> QED BY <1>1, <1>2, <1>9, <2>1, <3>1, <3>2 DEF Presents
  <2>2. CASE v.at \notin Presenting
    BY <1>3, <1>9, <2>2, Now DEF Presents
  <2> QED BY <2>1, <2>2
<1>12. Cardinality(Open(entries')) <= QueueLimit
  BY <1>1, Now DEF Full
<1> QED BY <1>1, <1>9, <1>10, <1>11, <1>12, Now DEF Moves, Consistent

\* All entries leave the coordinator.
LEMMA AllLeave ==
  ASSUME ApprovalInv, NEW q, q = Without(queue, Open(entries))
  PROVE q \in QueueRec /\ Holds(q, {}) /\ Presents(q, Len(entries)) /\ q.worker = queue.worker
<1>1. PICK O, n : O = Open(entries) /\ n = Len(entries)
  OBVIOUS
<1>2. OneOrAll(O, O) /\ Holds(queue, O) /\ Presents(queue, n) /\ queue \in QueueRec /\ n \in Nat
  BY <1>1, Now DEF OneOrAll
<1>3. q = Without(queue, O)
  BY <1>1
<1>4. q \in QueueRec /\ Holds(q, O \ O) /\ Presents(q, n) /\ q.worker = queue.worker
  BY <1>2, <1>3, WithoutHolds
<1>5. O \ O = {}
  OBVIOUS
<1> QED BY <1>1, <1>4, <1>5

\* close: nothing is left.
LEMMA CloseMoves ==
  ASSUME ApprovalInv, Close
  PROVE Moves
<1>1. /\ entries' \in Seq(EntryRec) /\ Len(entries') = Len(entries) /\ Open(entries') = {}
      /\ Cardinality(Open(entries')) <= Cardinality(Open(entries)) /\ Cardinality(Open(entries')) \in Nat
  BY Now, SettledFacts, OpenFacts DEF Close
<1>2. PICK q : q = Without(queue, Open(entries))
  OBVIOUS
<1>3. q \in QueueRec /\ Holds(q, {}) /\ Presents(q, Len(entries))
  BY <1>2, AllLeave
<1>4. PICK r : r = [q EXCEPT !.closed = TRUE]
  OBVIOUS
<1>5. /\ r \in QueueRec /\ r.pending = q.pending /\ r.current = q.current /\ r.worker = q.worker
      /\ r.session = q.session
  BY <1>3, <1>4, Zenon DEF QueueRec
<1>6. Holds(r, Open(entries')) /\ Presents(r, Len(entries'))
  BY <1>1, <1>3, <1>5 DEF Holds, Presents
<1>7. queue' = CancelEmptyStart(r, entries') \/ queue' = r
  BY <1>2, <1>4, Zenon DEF Close
<1>8. queue' \in QueueRec /\ Holds(queue', Open(entries')) /\ Presents(queue', Len(entries'))
  BY <1>1, <1>5, <1>6, <1>7, Now, CancelEmptyHolds
<1> QED BY <1>1, <1>8, Now DEF Moves, Consistent

\* The front end cannot begin: nothing is left.
LEMMA SessionFailsMoves ==
  ASSUME ApprovalInv, SessionFails
  PROVE Moves
<1>1. /\ entries' \in Seq(EntryRec) /\ Len(entries') = Len(entries) /\ Open(entries') = {}
      /\ Cardinality(Open(entries')) <= Cardinality(Open(entries)) /\ Cardinality(Open(entries')) \in Nat
  BY Now, SettledFacts, OpenFacts DEF SessionFails
<1>2. PICK q : q = Without(queue, Open(entries))
  OBVIOUS
<1>3. q \in QueueRec /\ Holds(q, {}) /\ Presents(q, Len(entries)) /\ q.worker = queue.worker
  BY <1>2, AllLeave
<1>4. q.worker.at \notin Presenting
  BY <1>3, WorkerFacts DEF SessionFails
<1>5. queue' = [q EXCEPT !.worker = NoWorker]
  BY <1>2 DEF SessionFails
<1>6. queue' \in QueueRec /\ Holds(queue', {}) /\ Presents(queue', Len(entries))
  BY <1>3, <1>4, <1>5, Now, WorkerFacts, WorkerHolds
<1> QED BY <1>1, <1>6, Now DEF Moves, Consistent

\* The worker goes on, with a session or with nothing to do.
LEMMA AdvanceMoves ==
  ASSUME ApprovalInv, NEW S, entries' = Settled(entries, S), NEW q \in QueueRec, q.current = 0,
         Holds(q, Open(entries) \ S), q.session \/ Open(entries) = {}, q.closed = queue.closed,
         queue' = Advance(q)
  PROVE Moves
<1>1. /\ entries' \in Seq(EntryRec) /\ Len(entries') = Len(entries) /\ Open(entries') = Open(entries) \ S
      /\ Cardinality(Open(entries')) <= Cardinality(Open(entries)) /\ Cardinality(Open(entries')) \in Nat
      /\ Open(entries') \in SUBSET (1..Len(entries))
  BY Now, SettledFacts, OpenFacts
<1>2. queue' \in QueueRec /\ Holds(queue', Open(entries')) /\ Presents(queue', Len(entries))
      /\ queue'.closed = q.closed
  BY <1>1, Now, AdvanceHolds
<1> QED BY <1>1, <1>2, Now DEF Moves, Consistent

\* Nobody's entry: nothing is settled.
LEMMA SettleNothing ==
  ASSUME ApprovalInv
  PROVE Settled(entries, {}) = entries
<1>1. \A i \in DOMAIN entries : [entries[i] EXCEPT !.settled = @ \/ i \in {}] = entries[i]
  <2> TAKE i \in DOMAIN entries
  <2>1. entries[i] \in EntryRec
    BY Now
  <2>2. PICK b \in BOOLEAN : b = (entries[i].settled \/ i \in {}) /\ b = entries[i].settled
    BY <2>1 DEF EntryRec
  <2>3. [entries[i] EXCEPT !.settled = @ \/ i \in {}] = [entries[i] EXCEPT !.settled = b]
    BY <2>2, Zenon
  <2>4. [entries[i] EXCEPT !.settled = b] = entries[i]
    BY <2>1, <2>2, Zenon DEF EntryRec
  <2> QED BY <2>3, <2>4
<1>2. Settled(entries, {}) = [i \in DOMAIN entries |-> entries[i]]
  BY <1>1, Zenon DEF Settled
<1> QED BY <1>2, Now

\* The worker's own steps.
LEMMA WorkerMovesWell ==
  ASSUME ApprovalInv, WorkerMoves
  PROVE Moves
<1>1. CASE StartWorker
  <2>1. queue.worker.at \notin Presenting /\ entries' = entries
    BY <1>1, WorkerFacts DEF StartWorker
  <2>2. CASE queue.closed
    <3>1. queue' = Advance(queue) /\ Open(entries) = {}
      BY <1>1, <2>2, Now DEF StartWorker
    <3>2. Holds(queue, Open(entries) \ {}) /\ entries' = Settled(entries, {})
      BY <2>1, Now, SettleNothing
    <3> QED BY <2>1, <3>1, <3>2, Now, AdvanceMoves
  <2>3. CASE ~queue.closed
    <3>1. queue' = [queue EXCEPT !.worker = WorkerAt("starting")]
      BY <1>1, <2>3 DEF StartWorker
    <3>2. PICK w \in WorkerRec : w = WorkerAt("starting") /\ w.at \notin Presenting
      BY WorkerFacts DEF Presenting
    <3>3. queue' = [queue EXCEPT !.worker = w]
      BY <3>1, <3>2, Zenon
    <3>4. queue' \in QueueRec /\ Holds(queue', Open(entries)) /\ Presents(queue', Len(entries))
          /\ queue'.closed = queue.closed
      BY <2>1, <3>2, <3>3, WorkerStays
    <3> QED BY <2>1, <3>4, Now DEF Moves, Consistent
  <2> QED BY <2>2, <2>3
<1>2. CASE SessionBegins
  <2>1. queue.worker.at \notin Presenting /\ entries' = entries
    BY <1>2, WorkerFacts DEF SessionBegins
  <2>2. PICK q : q = [queue EXCEPT !.session = TRUE]
    OBVIOUS
  <2>3. /\ q \in QueueRec /\ q.pending = queue.pending /\ q.current = queue.current
        /\ q.session = TRUE /\ q.closed = queue.closed
    BY <2>2, Now, Zenon DEF QueueRec
  <2>4. Holds(q, Open(entries) \ {}) /\ entries' = Settled(entries, {})
    BY <2>1, <2>3, Now, SettleNothing DEF Holds
  <2>5. queue' = Advance(q)
    BY <1>2, <2>2 DEF SessionBegins
  <2> QED BY <2>1, <2>3, <2>4, <2>5, Now, AdvanceMoves
<1>3. CASE StopWorker
  <2>1. queue.worker.at \notin Presenting /\ entries' = entries /\ queue' = [queue EXCEPT !.worker = NoWorker]
    BY <1>3, WorkerFacts DEF StopWorker
  <2>2. PICK w \in WorkerRec : w = NoWorker /\ w.at \notin Presenting
    BY WorkerFacts DEF Presenting
  <2>3. queue' = [queue EXCEPT !.worker = w]
    BY <2>1, <2>2, Zenon
  <2>4. queue' \in QueueRec /\ Holds(queue', Open(entries)) /\ Presents(queue', Len(entries))
        /\ queue'.closed = queue.closed
    BY <2>1, <2>2, <2>3, WorkerStays
  <2> QED BY <2>1, <2>4, Now DEF Moves, Consistent
<1>4. CASE Present
  <2>1. PICK all \in BOOLEAN : queue' = [queue EXCEPT !.worker.at = "decided", !.worker.all = all]
    BY <1>4 DEF Present
  <2>2. PICK w : w = [queue.worker EXCEPT !.at = "decided", !.all = all]
    OBVIOUS
  <2>3. queue' = [queue EXCEPT !.worker = w]
    BY <2>1, <2>2, Zenon
  <2>4. w \in WorkerRec /\ w.at = "decided" /\ w.entry = queue.worker.entry
    <3>1. "decided" \in {"none", "new", "starting", "cancelled", "dead"} \cup Presenting
      BY DEF Presenting
    <3> QED BY <2>2, <3>1, Now, Zenon DEF WorkerRec
  <2>5. /\ queue' \in QueueRec /\ queue'.pending = queue.pending /\ queue'.current = queue.current
        /\ queue'.worker = w /\ queue'.session = queue.session /\ queue'.closed = queue.closed
    BY <2>3, <2>4, Now, Zenon DEF QueueRec
  <2>6. queue.worker.at \in Presenting /\ w.at \in Presenting /\ entries' = entries
    BY <1>4, <2>4 DEF Present, Presenting
  <2>7. Holds(queue', Open(entries)) /\ Presents(queue', Len(entries))
    BY <2>4, <2>5, <2>6, Now DEF Holds, Presents
  <2> QED BY <2>5, <2>6, <2>7, Now DEF Moves, Consistent
<1>5. CASE Decided
  <2>1. PICK i, S : /\ i = queue.worker.entry
                    /\ S = IF i \notin Open(entries) THEN {}
                           ELSE IF queue.worker.all THEN Open(entries) ELSE {i}
    OBVIOUS
  <2>2. PICK q : q = Without(queue, S)
    OBVIOUS
  <2>3. entries' = Settled(entries, S) /\ queue' = Advance(q)
    BY <1>5, <2>1, <2>2 DEF Decided
  <2>4. /\ q \in QueueRec /\ Holds(q, Open(entries) \ S) /\ q.session = queue.session
        /\ q.closed = queue.closed
    <3>1. PICK O, n : O = Open(entries) /\ n = Len(entries)
      OBVIOUS
    <3>2. OneOrAll(S, O)
      BY <2>1, <3>1 DEF OneOrAll
    <3>3. Holds(queue, O) /\ Presents(queue, n) /\ queue \in QueueRec /\ n \in Nat
      BY <3>1, Now
    <3> QED BY <2>2, <3>1, <3>2, <3>3, WithoutHolds
  <2>5. queue.session /\ queue.current \in {0, i}
    BY <1>5, <2>1, Now DEF Decided, Presents, Presenting
  <2>6. queue.current # 0 => queue.current \in S
    BY <2>1, <2>5, Now DEF Holds
  <2>7. q.current = 0
    <3>1. q = [queue EXCEPT !.pending = Others(queue.pending, S),
                            !.current = IF queue.current \in S THEN 0 ELSE queue.current]
      BY <2>2, Zenon DEF Without
    <3>2. PICK c, s : c = (IF queue.current \in S THEN 0 ELSE queue.current) /\ s = Others(queue.pending, S)
      OBVIOUS
    <3>3. q = [queue EXCEPT !.pending = s, !.current = c]
      BY <3>1, <3>2
    <3>4. q.current = c
      BY <3>3, Now, Zenon DEF QueueRec
    <3> QED BY <2>6, <3>2, <3>4
  <2> QED BY <2>3, <2>4, <2>5, <2>7, AdvanceMoves
<1>6. CASE SkipSettled
  <2>1. /\ queue.worker.at \in Presenting /\ queue.worker.entry \notin Open(entries)
        /\ entries' = entries /\ queue' = Advance(queue)
    BY <1>6 DEF SkipSettled, Presenting
  <2>2. queue.session /\ queue.current = 0
    BY <2>1, Now DEF Presents, Holds
  <2>3. Holds(queue, Open(entries) \ {}) /\ entries' = Settled(entries, {})
    BY <2>1, Now, SettleNothing
  <2> QED BY <2>1, <2>2, <2>3, Now, AdvanceMoves
<1> QED BY <1>1, <1>2, <1>3, <1>4, <1>5, <1>6 DEF WorkerMoves

\* What a caller waits for exists.
LEMMA CallsKeep ==
  ASSUME ApprovalInv, Moves,
         \/ calls' = calls
         \/ \E c \in Callers, a \in {"answered", "cancelled"} : calls' = [calls EXCEPT ![c].at = a]
         \/ \E c \in Callers, i \in 1..Len(entries') : calls' = [calls EXCEPT ![c] = [at |-> "waiting", entry |-> i]]
  PROVE ApprovalInv'
<1>1. /\ DOMAIN entries = 1..Len(entries) /\ DOMAIN entries' = 1..Len(entries')
      /\ Len(entries) \in Nat /\ Len(entries') \in Nat /\ Len(entries') >= Len(entries)
  BY Now DEF Moves
<1>2. calls \in [Callers -> CallRec] /\ \A c \in Callers : calls[c].at = "waiting" => calls[c].entry \in DOMAIN entries
  BY DEF ApprovalInv
<1>3. ASSUME NEW c \in Callers, NEW v \in CallRec, v.at = "waiting" => v.entry \in 1..Len(entries'),
             calls' = [calls EXCEPT ![c] = v]
      PROVE ApprovalInv'
  <2>1. \A d \in Callers : calls'[d].at = "waiting" => calls'[d].entry \in DOMAIN entries'
    BY <1>1, <1>2, <1>3
  <2> QED BY <1>2, <1>3, <2>1 DEF ApprovalInv, Moves
<1>4. CASE calls' = calls
  BY <1>1, <1>2, <1>4 DEF ApprovalInv, Moves
<1>5. ASSUME NEW c \in Callers, NEW a \in {"answered", "cancelled"}, calls' = [calls EXCEPT ![c].at = a]
      PROVE ApprovalInv'
  <2>1. PICK v : v = [calls[c] EXCEPT !.at = a]
    OBVIOUS
  <2>2. v \in CallRec /\ v.at # "waiting"
    BY <1>2, <2>1 DEF CallRec
  <2>3. calls' = [calls EXCEPT ![c] = v]
    BY <1>5, <2>1, Zenon
  <2> QED BY <1>3, <2>2, <2>3
<1>6. ASSUME NEW c \in Callers, NEW i \in 1..Len(entries'), calls' = [calls EXCEPT ![c] = [at |-> "waiting", entry |-> i]]
      PROVE ApprovalInv'
  <2>1. [at |-> "waiting", entry |-> i] \in CallRec
    BY <1>1 DEF CallRec
  <2> QED BY <1>3, <1>6, <2>1
<1> QED BY <1>4, <1>5, <1>6

\* The steps of a caller.
LEMMA CallerKeeps ==
  ASSUME ApprovalInv, NEW c \in Callers,
         RequestRefused(c) \/ RequestJoins(c) \/ RequestQueued(c) \/ Answer(c) \/ CancelCall(c)
  PROVE ApprovalInv'
<1>1. CASE RequestRefused(c)
  BY <1>1, StillMoves, CallsKeep DEF RequestRefused
<1>2. CASE RequestJoins(c)
  <2>1. PICK i \in Open(entries) :
          /\ entries' = [entries EXCEPT ![i].waiters = @ + 1]
          /\ calls' = [calls EXCEPT ![c] = [at |-> "waiting", entry |-> i]] /\ queue' = queue
    BY <1>2 DEF RequestJoins
  <2>2. i \in DOMAIN entries /\ entries[i].waiters + 1 \in Int
    BY WaitersCount DEF Open
  <2>3. entries' = [entries EXCEPT ![i].waiters = entries[i].waiters + 1]
    BY <2>1, Zenon
  <2>4. Moves
    BY <2>1, <2>2, <2>3, WaitersMove
  <2>5. i \in 1..Len(entries')
    BY <2>2, <2>4, Now DEF Moves
  <2> QED BY <2>1, <2>4, <2>5, CallsKeep
<1>3. CASE RequestQueued(c)
  <2>1. Moves /\ Len(entries') = Len(entries) + 1
    BY <1>3, EnqueueMoves DEF RequestQueued
  <2>2. Len(entries') \in 1..Len(entries')
    BY <2>1, Now
  <2> QED BY <1>3, <2>1, <2>2, CallsKeep DEF RequestQueued
<1>4. CASE Answer(c)
  <2>1. PICK i : i = calls[c].entry
    OBVIOUS
  <2>2. /\ calls' = [calls EXCEPT ![c].at = "answered"] /\ queue' = queue
        /\ entries' = [entries EXCEPT ![i].waiters = entries[i].waiters - 1]
    BY <1>4, <2>1, Zenon DEF Answer
  <2>3. i \in DOMAIN entries
    BY <1>4, <2>1 DEF Answer, ApprovalInv
  <2>4. entries[i].waiters - 1 \in Int
    BY <2>3, WaitersCount
  <2>5. Moves
    BY <2>2, <2>3, <2>4, WaitersMove
  <2> QED BY <2>2, <2>5, CallsKeep
<1>5. CASE CancelCall(c)
  <2>1. PICK i, es : i = calls[c].entry /\ es = [entries EXCEPT ![i].waiters = entries[i].waiters - 1]
    OBVIOUS
  <2>2. i \in DOMAIN entries
    BY <1>5, <2>1 DEF CancelCall, ApprovalInv
  <2>3. entries[i].waiters - 1 \in Int
    BY <2>2, WaitersCount
  <2>4. /\ calls' = [calls EXCEPT ![c].at = "cancelled"]
        /\ (entries' = es /\ queue' = queue) \/ Settle(es, {i})
    <3>1. es = [entries EXCEPT ![i].waiters = @ - 1]
      BY <2>1, Zenon
    <3> QED BY <1>5, <2>1, <3>1 DEF CancelCall
  <2>5. es \in Seq(EntryRec) /\ Len(es) = Len(entries) /\ Open(es) = Open(entries)
    <3>1. entries \in Seq(EntryRec)
      BY Now
    <3>2. PICK w : w = entries[i].waiters - 1
      OBVIOUS
    <3>3. es = Waited(entries, i, w)
      BY <2>1, <3>2, Zenon DEF Waited
    <3>4. w \in Int
      BY <2>3, <3>2
    <3> QED BY <2>2, <3>1, <3>3, <3>4, WaitersFacts
  <2>6. Moves
    BY <2>1, <2>2, <2>3, <2>4, <2>5, WaitersMove, SettleMoves
  <2> QED BY <2>4, <2>6, CallsKeep
<1> QED BY <1>1, <1>2, <1>3, <1>4, <1>5

\* Every step keeps the invariant.
LEMMA ApprovalKeeps ==
  ASSUME ApprovalInv, [ApprovalNext]_approvalvars
  PROVE ApprovalInv'
<1>1. CASE WorkerMoves
  <2>1. calls' = calls
    BY <1>1 DEF WorkerMoves, StartWorker, SessionBegins, StopWorker, Present, Decided, SkipSettled
  <2> QED BY <1>1, <2>1, WorkerMovesWell, CallsKeep
<1>2. CASE SessionFails
  BY <1>2, SessionFailsMoves, CallsKeep DEF SessionFails
<1>3. CASE Restore
  BY <1>3, EnqueueMoves, CallsKeep DEF Restore
<1>4. CASE Resolve
  BY <1>4, Now, SettleMoves, CallsKeep DEF Resolve
<1>5. CASE Close
  BY <1>5, CloseMoves, CallsKeep DEF Close
<1>6. CASE UNCHANGED approvalvars
  BY <1>6, StillMoves, CallsKeep DEF approvalvars
<1> QED BY <1>1, <1>2, <1>3, <1>4, <1>5, <1>6, CallerKeeps DEF ApprovalNext

\* A new coordinator satisfies it.
LEMMA ApprovalStarts == ApprovalInit => ApprovalInv
<1> SUFFICES ASSUME ApprovalInit PROVE ApprovalInv
  OBVIOUS
<1>1. PICK q : /\ q = [pending |-> << >>, current |-> 0, worker |-> NoWorker, session |-> FALSE, closed |-> FALSE]
               /\ queue = q
  BY DEF ApprovalInit
<1>2. /\ q \in QueueRec /\ q.pending = << >> /\ q.current = 0 /\ q.worker = NoWorker
      /\ q.session = FALSE /\ q.closed = FALSE
  BY <1>1, WorkerFacts DEF QueueRec
<1>3. entries = << >> /\ entries \in Seq(EntryRec) /\ Len(entries) = 0 /\ Open(entries) = {}
  BY DEF ApprovalInit, Open
<1>4. Cardinality(Open(entries)) <= QueueLimit
  BY <1>3, FS_EmptySet, LimitAssumption
<1>5. Holds(q, {}) /\ Presents(q, 0)
  BY <1>2, WorkerFacts DEF Holds, Presents, Range, IsInjective
<1>6. calls \in [Callers -> CallRec] /\ \A c \in Callers : calls[c].at # "waiting"
  BY DEF ApprovalInit, CallRec
<1> QED BY <1>1, <1>2, <1>3, <1>4, <1>5, <1>6 DEF ApprovalInv, Consistent

-----------------------------------------------------------------------------
\* The inductive invariant holds in every reachable state.
THEOREM ApprovalInvariant == ApprovalSpec => []ApprovalInv
<1>1. ApprovalInv /\ [ApprovalNext]_approvalvars => ApprovalInv'
  BY ApprovalKeeps
<1> QED BY <1>1, ApprovalStarts, PTL DEF ApprovalSpec

\* The queue holds each open request once, within its limit, and the front
\* end's session is open exactly while the worker presents.
THEOREM QueueIsConsistent == ApprovalSpec => []QueueConsistent
<1>1. ApprovalInv => QueueConsistent
  BY DEF ApprovalInv, Consistent, Holds, Presents, Presenting, QueueConsistent
<1> QED BY <1>1, ApprovalInvariant, PTL
=============================================================================
