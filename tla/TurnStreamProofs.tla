--------------------------- MODULE TurnStreamProofs ---------------------------
(***************************************************************************)
(* Proofs about TurnStream for any number of events, requests and          *)
(* troubles: what the consumer receives, and that the stream implements    *)
(* the feed that ToolTurn is built upon.                                   *)
(***************************************************************************)
EXTENDS TurnStream, WellFoundedInduction, TLAPS

-----------------------------------------------------------------------------
(* Sequences, their elements, and least and greatest numbers. *)

\* Every nonempty set of natural numbers has a least element.
LEMMA MinExists ==
  ASSUME NEW T \in SUBSET Nat, T # {}
  PROVE \E x \in T : \A y \in T : x <= y
<1> DEFINE Less == {ss \in Nat \X Nat : ss[1] < ss[2]}
<1>1. IsWellFoundedOn(Less, Nat)
  BY NatLessThanWellFounded DEF OpToRel
<1> HIDE DEF Less
<1>2. PICK x \in T : \A y \in T : ~(<<y, x>> \in Less)
  BY <1>1, WFMin
<1>3. \A y \in T : ~(y < x)
  BY <1>2 DEF Less
<1> QED BY <1>3

\* Min is that element.
LEMMA MinIs ==
  ASSUME NEW T \in SUBSET Nat, T # {}
  PROVE Min(T) \in T /\ \A y \in T : Min(T) <= y
BY MinExists DEF Min

\* Max is the greatest element, where there is one.
LEMMA MaxIs ==
  ASSUME NEW T \in SUBSET Int, NEW m \in T, \A e \in T : e <= m
  PROVE Max(T) = m
<1>1. Max(T) \in T /\ \A e \in T : e <= Max(T)
  BY DEF Max
<1>2. Max(T) \in Int /\ m \in Int /\ m <= Max(T) /\ Max(T) <= m
  BY <1>1
<1> QED BY <1>2

\* A sequence of one element more.
LEMMA RangeAppend ==
  ASSUME NEW S, NEW s \in Seq(S), NEW x \in S
  PROVE /\ Append(s, x) \in Seq(S)
        /\ Range(Append(s, x)) = Range(s) \cup {x}
        /\ IsInjective(s) /\ x \notin Range(s) => IsInjective(Append(s, x))
<1> DEFINE t == Append(s, x)
           n == Len(s)
<1>1. n \in Nat /\ t \in Seq(S) /\ Len(t) = n + 1
  OBVIOUS
<1>2. DOMAIN s = 1 .. n /\ DOMAIN t = 1 .. (n + 1)
  BY <1>1
<1>3. t[n + 1] = x /\ \A i \in 1 .. n : t[i] = s[i]
  OBVIOUS
<1> HIDE DEF t, n
<1>4. \A i \in 1 .. (n + 1) : i = n + 1 \/ i \in 1 .. n
  BY <1>1
<1>5. 1 .. n \subseteq 1 .. (n + 1) /\ n + 1 \in 1 .. (n + 1)
  BY <1>1
<1>6. Range(t) = Range(s) \cup {x}
  BY <1>2, <1>3, <1>4, <1>5 DEF Range
<1>7. IsInjective(s) /\ x \notin Range(s) => IsInjective(t)
  BY <1>2, <1>3, <1>4, <1>5 DEF Range, IsInjective
<1> QED BY <1>1, <1>6, <1>7 DEF t

-----------------------------------------------------------------------------
(* The inductive invariant. *)

Log    == service.log
Events == 1 .. MaxSeq

Services == [known : BOOLEAN, log : SUBSET Events, over : BOOLEAN, floor : Nat]
Conns    == [kind : {"none", "chat", "attach"}, id : Nat, up : BOOLEAN, after : Nat]
Streams  ==
  [at : {"pull", "resume", "approvals", "ended"}, submits : BOOLEAN, requests : Nat, cursor : Nat,
   observed : BOOLEAN, phase : {"none", "reconnecting", "replaying", "caught_up", "closed"},
   target : {None} \cup Nat, initial : {None} \cup Nat, pending : BOOLEAN, snapshot : {None} \cup Nat,
   gap : BOOLEAN, control : BOOLEAN, probe : BOOLEAN, closing : BOOLEAN, answer : {None} \cup Nat,
   reason : {"none", "settled", "fatal", "cancelled"}]

Typed ==
  /\ service \in Services /\ conn \in Conns /\ stream \in Streams
  /\ conn.kind = "none" => conn = NoConn
  /\ stream.at # "ended" => stream.reason = "none"
  /\ service.floor = 0 \/ (service.floor \in Log /\ service.floor < LastSeq(Log))
  /\ stream.cursor \in Log \cup {0} /\ stream.target \in {None, 0} \cup Log
  /\ stream.initial \in {None} \cup Log /\ stream.answer \in {None, 0} \cup Log
  /\ seen \in Seq(Log) /\ lost \subseteq Log

\* The end of the turn is handed over once, and last.
Ends ==
  /\ stream.closing => /\ service.over /\ stream.cursor = LastSeq(Log)
                       /\ seen # << >> /\ Last(seen) = stream.cursor
                       /\ stream.at \in {"pull", "ended"}
  /\ service.over /\ stream.cursor = LastSeq(Log) => stream.closing
  /\ stream.snapshot # None =>
       /\ service.over /\ stream.snapshot = LastSeq(Log) /\ stream.snapshot \in Log
       /\ stream.snapshot > stream.cursor
       /\ stream.gap \/ stream.snapshot = stream.cursor + 1
       /\ stream.target \in {None, stream.snapshot}
       /\ conn = NoConn /\ stream.at \in {"pull", "ended"}

\* What was handed over is in order, and complete up to the cursor.
Ordered ==
  /\ \A i, j \in 1 .. Len(seen) : i < j => seen[i] < seen[j]
  /\ \A i \in 1 .. Len(seen) : seen[i] <= stream.cursor
  /\ ~stream.gap => Range(seen) \cup lost = {e \in Log : e <= stream.cursor}
  /\ stream.gap \/ conn.after <= stream.cursor

\* A replay has a target, and a connection that is attached is behind it
\* unless its end is due.
Phases ==
  /\ stream.pending => stream.target # None /\ stream.cursor >= stream.target
  /\ stream.phase = "replaying" => stream.target # None
  /\ stream.at \in {"resume", "approvals", "ended"} => conn = NoConn
  /\ stream.at = "approvals" => stream.answer # None
  /\ stream.at = "pull" /\ conn.kind = "attach" =>
       /\ stream.phase # "reconnecting"
       /\ stream.pending \/ stream.target = None \/ stream.target > stream.cursor
  /\ stream.at = "pull" /\ conn.kind = "none" /\ stream.snapshot = None /\ ~stream.closing =>
       \/ stream.control
       \/ stream.cursor = 0 /\ stream.phase = "none" /\ stream.target = None

StreamInv == Typed /\ Ends /\ Ordered /\ Phases

\* The largest number of a nonempty log.
LEMMA LastFacts ==
  ASSUME NEW T \in SUBSET Events
  PROVE /\ LastSeq(T) \in Nat /\ LastSeq(T) \in T \cup {0} /\ (T # {} => LastSeq(T) \in T)
        /\ \A e \in T : e \in Nat /\ e > 0 /\ e <= LastSeq(T)
<1> USE MaxSeqAssumption DEF Events
<1>1. CASE T = {}
  BY <1>1 DEF LastSeq
<1>2. CASE T # {}
  <2> DEFINE R == {MaxSeq - e : e \in T}
  <2>1. \A e \in T : e \in Nat /\ MaxSeq - e \in Nat
    OBVIOUS
  <2>2. R \in SUBSET Nat /\ R # {}
    BY <1>2, <2>1
  <2>3. PICK r \in R : \A y \in R : r <= y
    BY <2>2, MinExists
  <2>4. PICK m \in T : r = MaxSeq - m
    OBVIOUS
  <2>5. \A e \in T : MaxSeq - m <= MaxSeq - e
    BY <2>3, <2>4
  <2>6. \A e \in T : e <= m
    BY <2>1, <2>5
  <2>7. Max(T) = m
    BY <2>1, <2>6, MaxIs
  <2> QED BY <1>2, <2>6, <2>7 DEF LastSeq
<1> QED BY <1>1, <1>2

\* The greater of two numbers.
LEMMA MaxOfTwo ==
  ASSUME NEW a \in Int, NEW b \in Int
  PROVE Max({a, b}) = IF b > a THEN b ELSE a
<1>1. CASE b > a
  BY <1>1, MaxIs
<1>2. CASE ~(b > a)
  BY <1>2, MaxIs
<1> QED BY <1>1, <1>2

\* The least event the connection still brings.
LEMMA IncomingFacts ==
  ASSUME Typed, Incoming # {}
  PROVE /\ Min(Incoming) \in Log /\ Min(Incoming) > conn.after
        /\ \A e \in Log : e > conn.after => Min(Incoming) <= e
<1>1. Incoming \in SUBSET Nat
  BY MaxSeqAssumption DEF Incoming, Typed, Services, Events, Log
<1>2. Min(Incoming) \in Incoming /\ \A e \in Incoming : Min(Incoming) <= e
  BY <1>1, MinIs
<1> QED BY <1>2 DEF Incoming, Log

\* r differs from s in the replay only.
OtherReplay(s, r) ==
  /\ r \in Streams
  /\ r.at = s.at /\ r.submits = s.submits /\ r.requests = s.requests /\ r.cursor = s.cursor
  /\ r.observed = s.observed /\ r.initial = s.initial /\ r.snapshot = s.snapshot /\ r.gap = s.gap
  /\ r.control = s.control /\ r.probe = s.probe /\ r.closing = s.closing /\ r.answer = s.answer
  /\ r.reason = s.reason

\* Recovery starts: the replay gets a target at or behind the cursor.
LEMMA BeginFacts ==
  ASSUME NEW s \in Streams, NEW n \in Nat, NEW r, r = BeginReplay(s, n)
  PROVE /\ OtherReplay(s, r) /\ r.target = IF n > s.cursor THEN n ELSE s.cursor
        /\ r.pending = FALSE /\ r.phase = "replaying"
<1>1. PICK t \in Nat : t = Max({s.cursor, n})
  BY MaxOfTwo DEF Streams
<1>2. t = IF n > s.cursor THEN n ELSE s.cursor
  BY <1>1, MaxOfTwo DEF Streams
<1>3. r = [s EXCEPT !.target = t, !.pending = FALSE, !.phase = "replaying"]
  BY <1>1 DEF BeginReplay
<1> QED BY <1>2, <1>3 DEF Streams, OtherReplay

\* The replay is over.
LEMMA CompleteFacts ==
  ASSUME NEW s \in Streams, NEW r, r = CompleteReplay(s)
  PROVE OtherReplay(s, r) /\ r.target = None /\ r.pending = FALSE /\ r.phase = "caught_up"
BY DEF CompleteReplay, Streams, OtherReplay

\* A phase of recovery is closed when the stream ends or is only probed.
Closed(phase) == IF phase \in {"reconnecting", "replaying"} THEN "closed" ELSE phase

\* The stream ends.
LEMMA FinishFacts ==
  ASSUME NEW s \in Streams, NEW why \in {"settled", "fatal", "cancelled"}, NEW r, r = Finish(s, why)
  PROVE /\ r \in Streams /\ r.at = "ended" /\ r.reason = why /\ r.phase = Closed(s.phase)
        /\ r.target = s.target /\ r.pending = s.pending /\ r.cursor = s.cursor
        /\ r.initial = s.initial /\ r.snapshot = s.snapshot /\ r.gap = s.gap
        /\ r.closing = s.closing /\ r.answer = s.answer
<1>1. PICK p \in {"none", "reconnecting", "replaying", "caught_up", "closed"} : p = Closed(s.phase)
  BY DEF Closed, Streams
<1>2. PICK a : a = [s EXCEPT !.at = "ended", !.reason = why]
  OBVIOUS
<1>3. /\ a.at = "ended" /\ a.reason = why /\ a.phase = s.phase /\ a.target = s.target
      /\ a.pending = s.pending /\ a.cursor = s.cursor /\ a.initial = s.initial
      /\ a.snapshot = s.snapshot /\ a.gap = s.gap /\ a.closing = s.closing /\ a.answer = s.answer
      /\ a \in Streams
  <2>1. a \in Streams
    BY <1>2 DEF Streams
  <2> QED BY <1>2, <2>1 DEF Streams
<1>4. r = [a EXCEPT !.control = FALSE, !.phase = p]
  BY <1>1, <1>2 DEF Finish, Closed
<1>5. r \in Streams
  BY <1>1, <1>3, <1>4 DEF Streams
<1>6. /\ r.at = a.at /\ r.reason = a.reason /\ r.phase = p /\ r.target = a.target
      /\ r.pending = a.pending /\ r.cursor = a.cursor /\ r.initial = a.initial
      /\ r.snapshot = a.snapshot /\ r.gap = a.gap /\ r.closing = a.closing /\ r.answer = a.answer
  BY <1>3, <1>4 DEF Streams
<1> QED BY <1>1, <1>3, <1>5, <1>6

-----------------------------------------------------------------------------
(* Steps of the feed. *)

Skipped == stream.gap \/ lost # {}
Ending  == CASE stream.at # "ended" -> "no"
             [] stream.reason = "settled" -> "settled"
             [] OTHER -> "failed"

\* Whether events were skipped changes only with these.
LEMMA SkippedSame ==
  ASSUME stream'.gap = stream.gap, lost' = lost
  PROVE Skipped' = Skipped
BY Zenon DEF Skipped

\* How the stream ended, if it did.
LEMMA EndingIs ==
  /\ stream.at # "ended" /\ stream.reason = "none" => Ending = "no"
  /\ stream.at = "ended" => Ending = IF stream.reason = "settled" THEN "settled" ELSE "failed"
BY DEF Ending

\* The same of the next state.
LEMMA EndingNext ==
  /\ stream'.at # "ended" /\ stream'.reason = "none" => Ending' = "no"
  /\ stream'.at = "ended" => Ending' = IF stream'.reason = "settled" THEN "settled" ELSE "failed"
BY DEF Ending

\* The feed as the stream shows it.
Feeds(c, p, t, k, e) == [cursor |-> c, phase |-> p, target |-> t, skipped |-> k, ended |-> e]
View == Feeds(stream.cursor, stream.phase, stream.target, Skipped, Ending)

\* A step of the feed, or one that its owner does not see.
FeedStep == Feed!FeedNextStep \/ UNCHANGED Feed!feedvars

\* The log and what was handed over stay as they are.
SameFeed == UNCHANGED <<service.log, service.over, seen>>

\* The actions of the feed, said of this view.
LEMMA FeedActions ==
  /\ UNCHANGED Feed!feedvars <=> UNCHANGED <<service.log, service.over, View, seen>>
  /\ Feed!FeedBreak <=>
       /\ View.ended = "no"
       /\ \E phase \in {"reconnecting", "closed"} : View' = [View EXCEPT !.phase = phase]
       /\ SameFeed
  /\ Feed!FeedReplay <=>
       /\ View.ended = "no"
       /\ \E n \in {e \in service.log : e > View.cursor} \cup {View.cursor} :
            View' = [View EXCEPT !.target = n, !.phase = "replaying"]
       /\ SameFeed
  /\ Feed!FeedRestart <=>
       View.ended = "no" /\ View' = [View EXCEPT !.target = View.cursor] /\ SameFeed
  /\ Feed!FeedCatchUp <=>
       /\ View.ended = "no" /\ View.target # Feed!None
       /\ View.skipped \/ \A e \in {e \in service.log : e > View.cursor} : e > View.target
       /\ View' = [View EXCEPT !.target = Feed!None, !.phase = "caught_up"]
       /\ SameFeed
  /\ Feed!FeedNext <=>
       /\ View.ended = "no"
       /\ \E e \in {e \in service.log : e > View.cursor} :
            /\ View.skipped \/ e = Feed!Min({f \in service.log : f > View.cursor})
            /\ View.target = Feed!None \/ e <= View.target
            /\ View' = [View EXCEPT !.cursor = e]
            /\ seen' = Append(seen, e)
       /\ UNCHANGED <<service.log, service.over>>
  /\ Feed!FeedGap <=>
       /\ View.ended = "no"
       /\ \E e \in {e \in service.log : e > View.cursor} \cup {View.cursor} :
            \/ View' = [View EXCEPT !.cursor = e, !.skipped = TRUE]
            \/ \E n \in service.log :
                 n >= e /\ View' = [View EXCEPT !.cursor = e, !.skipped = TRUE,
                                                !.target = n, !.phase = "replaying"]
       /\ SameFeed
  /\ Feed!FeedEnd <=>
       /\ View.ended = "no"
       /\ \E how \in {"settled", "failed"} :
            /\ how = "settled" => /\ service.over /\ {e \in service.log : e > View.cursor} = {}
                                  /\ seen # << >> /\ Feed!Last(seen) = Feed!LastSeq(service.log)
            /\ View' = [View EXCEPT !.ended = how,
                          !.phase = IF @ \in {"reconnecting", "replaying"} THEN "closed" ELSE @]
       /\ SameFeed
BY DEF Feed!feedvars, Feed!FeedBreak, Feed!FeedReplay, Feed!FeedRestart, Feed!FeedCatchUp, Feed!FeedNext,
       Feed!FeedGap, Feed!FeedEnd, Feed!Feeding, Feed!Unseen, View, Feeds, Skipped, Ending, SameFeed

\* What the view shows.
LEMMA ViewFacts ==
  /\ View.cursor = stream.cursor /\ View.phase = stream.phase /\ View.target = stream.target
  /\ View.skipped = Skipped /\ View.ended = Ending
BY DEF View, Feeds

\* Nothing the owner sees changes.
LEMMA FeedStutters ==
  ASSUME SameFeed, stream'.cursor = stream.cursor, stream'.phase = stream.phase,
         stream'.target = stream.target, Skipped' = Skipped, Ending' = Ending
  PROVE FeedStep
<1>1. View' = View
  BY DEF View, Feeds
<1> QED BY <1>1, FeedActions DEF FeedStep, SameFeed

\* The connection is lost, or recovery is given up.
LEMMA FeedBreaks ==
  ASSUME SameFeed, stream'.cursor = stream.cursor,
         stream'.phase \in {"reconnecting", "closed", stream.phase},
         stream'.target = stream.target, Skipped' = Skipped, Ending = "no", Ending' = "no"
  PROVE FeedStep
<1>1. CASE stream'.phase = stream.phase
  BY <1>1, FeedStutters
<1>2. CASE stream'.phase \in {"reconnecting", "closed"}
  <2>1. View' = [View EXCEPT !.phase = stream'.phase]
    BY DEF View, Feeds
  <2>2. Feed!FeedBreak
    BY <1>2, <2>1, FeedActions, ViewFacts
  <2> QED BY <2>2 DEF FeedStep, Feed!FeedNextStep
<1> QED BY <1>1, <1>2

\* A replay starts, up to an event nobody has handed over yet.
LEMMA FeedReplays ==
  ASSUME SameFeed, stream'.cursor = stream.cursor, stream'.phase = "replaying",
         stream'.target = stream.cursor \/ (stream'.target \in Log /\ stream'.target > stream.cursor),
         Skipped' = Skipped, Ending = "no", Ending' = "no"
  PROVE FeedStep
<1>1. PICK n \in {e \in service.log : e > View.cursor} \cup {View.cursor} : n = stream'.target
  BY ViewFacts DEF Log
<1>2. View' = [View EXCEPT !.target = n, !.phase = "replaying"]
  <2>1. PICK v : v = [View EXCEPT !.target = n]
    OBVIOUS
  <2>2. v = Feeds(stream.cursor, stream.phase, n, Skipped, Ending)
    BY <2>1 DEF View, Feeds
  <2>3. View' = [v EXCEPT !.phase = "replaying"]
    BY <1>1, <2>2 DEF View, Feeds
  <2> QED BY <2>1, <2>3
<1>3. Feed!FeedReplay
  BY <1>2, FeedActions, ViewFacts
<1> QED BY <1>3 DEF FeedStep, Feed!FeedNextStep

\* A turn nobody has seen is submitted again.
LEMMA FeedRestarts ==
  ASSUME SameFeed, stream'.cursor = stream.cursor, stream'.phase = stream.phase,
         stream'.target = stream.cursor, Skipped' = Skipped, Ending = "no", Ending' = "no"
  PROVE FeedStep
<1>1. View' = [View EXCEPT !.target = stream.cursor]
  BY DEF View, Feeds
<1>2. Feed!FeedRestart
  BY <1>1, FeedActions, ViewFacts
<1> QED BY <1>2 DEF FeedStep, Feed!FeedNextStep

\* The replay is complete.
LEMMA FeedCatchesUp ==
  ASSUME SameFeed, stream'.cursor = stream.cursor, stream'.phase = "caught_up", stream'.target = None,
         stream.target # None,
         Skipped \/ \A e \in Log : e > stream.cursor => e > stream.target,
         Skipped' = Skipped, Ending = "no", Ending' = "no"
  PROVE FeedStep
<1>1. View' = [View EXCEPT !.target = None, !.phase = "caught_up"]
  <2>1. PICK v : v = [View EXCEPT !.target = None]
    OBVIOUS
  <2>2. v = Feeds(stream.cursor, stream.phase, None, Skipped, Ending)
    BY <2>1 DEF View, Feeds
  <2>3. View' = [v EXCEPT !.phase = "caught_up"]
    BY <2>2 DEF View, Feeds
  <2> QED BY <2>1, <2>3
<1>2. Feed!None = None
  BY DEF Feed!None, None
<1>3. View.skipped \/ \A e \in {e \in service.log : e > View.cursor} : e > View.target
  BY ViewFacts DEF Log
<1>4. Feed!FeedCatchUp
  BY <1>1, <1>2, <1>3, FeedActions, ViewFacts
<1> QED BY <1>4 DEF FeedStep, Feed!FeedNextStep

\* The least of a set of event numbers.
LEMMA FeedMinIs ==
  ASSUME NEW T \in SUBSET Nat, NEW e \in T, \A f \in T : e <= f
  PROVE e = Feed!Min(T)
<1>1. PICK m : m = Feed!Min(T)
  OBVIOUS
<1>2. m \in T /\ \A f \in T : m <= f
  BY <1>1 DEF Feed!Min
<1>3. e <= m /\ m <= e /\ m \in Nat /\ e \in Nat
  BY <1>2
<1> QED BY <1>1, <1>3

\* An event is handed over: the next one, or after a gap a later one.
LEMMA FeedHandsOver ==
  ASSUME NEW e \in Log, e > stream.cursor, Log \in SUBSET Nat,
         service'.log = service.log, service'.over = service.over, seen' = Append(seen, e),
         stream'.cursor = e, stream'.phase = stream.phase, stream'.target = stream.target,
         stream.target = None \/ e <= stream.target,
         Skipped \/ \A f \in Log : f > stream.cursor => e <= f,
         Skipped' = Skipped, Ending = "no", Ending' = "no"
  PROVE FeedStep
<1> DEFINE U == {f \in service.log : f > View.cursor}
<1>1. e \in U /\ U \in SUBSET Nat
  BY ViewFacts DEF Log
<1>2. View.skipped \/ e = Feed!Min(U)
  <2>1. ASSUME \A f \in Log : f > stream.cursor => e <= f
        PROVE e = Feed!Min(U)
    <3>1. \A f \in U : e <= f
      BY <2>1, ViewFacts DEF Log
    <3>2. e \in U /\ U \in SUBSET Nat
      BY <1>1
    <3> HIDE DEF U
    <3> QED BY <3>1, <3>2, FeedMinIs
  <2> QED BY <2>1, ViewFacts
<1>3. View' = [View EXCEPT !.cursor = e]
  BY DEF View, Feeds
<1>4. Feed!None = None
  BY DEF Feed!None, None
<1>5. View.target = Feed!None \/ e <= View.target
  BY <1>4, ViewFacts
<1>6. View.ended = "no"
  BY ViewFacts
<1>7. Feed!FeedNext
  BY <1>1, <1>2, <1>3, <1>5, <1>6, FeedActions
<1> QED BY <1>7 DEF FeedStep, Feed!FeedNextStep

\* Its phase changes.
LEMMA ReplayingIs ==
  ASSUME NEW c, NEW p, NEW t, NEW k, NEW e
  PROVE [Feeds(c, p, t, k, e) EXCEPT !.phase = "replaying"] = Feeds(c, "replaying", t, k, e)
BY DEF Feeds

\* The service announces that events are gone.
LEMMA FeedSkips ==
  ASSUME SameFeed, Skipped' = TRUE, Ending = "no", Ending' = "no",
         stream'.cursor = stream.cursor \/ (stream'.cursor \in Log /\ stream'.cursor > stream.cursor),
         \/ stream'.phase = stream.phase /\ stream'.target = stream.target
         \/ stream'.phase = "replaying" /\ stream'.target \in Log /\ stream'.target >= stream'.cursor
  PROVE FeedStep
<1>1. PICK e \in {e \in service.log : e > View.cursor} \cup {View.cursor} : e = stream'.cursor
  BY ViewFacts DEF Log
<1>2. PICK v : v = [View EXCEPT !.cursor = e]
  OBVIOUS
<1>3. v = Feeds(e, stream.phase, stream.target, Skipped, Ending)
  BY <1>2 DEF View, Feeds
<1>4. PICK k : k = TRUE
  OBVIOUS
<1>5. PICK w : w = [v EXCEPT !.skipped = k]
  OBVIOUS
<1>6. w = Feeds(e, stream.phase, stream.target, k, Ending)
  BY <1>3, <1>5 DEF Feeds
<1>7. CASE stream'.phase = stream.phase /\ stream'.target = stream.target
  <2>1. View' = w
    BY <1>1, <1>4, <1>6, <1>7 DEF View, Feeds
  <2>2. w = [View EXCEPT !.cursor = e, !.skipped = TRUE]
    BY <1>2, <1>4, <1>5
  <2>3. Feed!FeedGap
    BY <2>1, <2>2, FeedActions, ViewFacts
  <2> QED BY <2>3 DEF FeedStep, Feed!FeedNextStep
<1>8. CASE stream'.phase = "replaying" /\ stream'.target \in Log /\ stream'.target >= stream'.cursor
  <2>1. PICK n \in service.log : n = stream'.target /\ n >= e
    BY <1>1, <1>8 DEF Log
  <2>2. PICK x : x = [w EXCEPT !.target = n]
    OBVIOUS
  <2>3. x = Feeds(e, stream.phase, n, k, Ending)
    BY <1>6, <2>2 DEF Feeds
  <2>4. View' = [x EXCEPT !.phase = "replaying"]
    <3>1. View' = Feeds(e, "replaying", n, k, Ending)
      BY <1>1, <1>4, <1>8, <2>1 DEF View
    <3>2. [Feeds(e, stream.phase, n, k, Ending) EXCEPT !.phase = "replaying"]
            = Feeds(e, "replaying", n, k, Ending)
      BY ReplayingIs
    <3> QED BY <2>3, <3>1, <3>2
  <2>5. View' = [View EXCEPT !.cursor = e, !.skipped = TRUE, !.target = n, !.phase = "replaying"]
    BY <1>2, <1>4, <1>5, <2>2, <2>4
  <2>6. Feed!FeedGap
    BY <2>1, <2>5, FeedActions, ViewFacts
  <2> QED BY <2>6 DEF FeedStep, Feed!FeedNextStep
<1> QED BY <1>7, <1>8

\* The stream ends, settled only behind the terminal event.
LEMMA FeedEnds ==
  ASSUME SameFeed, stream'.cursor = stream.cursor, stream'.target = stream.target,
         stream'.phase = Closed(stream.phase), Skipped' = Skipped, Ending = "no",
         Ending' \in {"settled", "failed"},
         Ending' = "settled" => /\ service.over /\ \A e \in Log : ~(e > stream.cursor)
                                /\ seen # << >> /\ Last(seen) = LastSeq(Log)
  PROVE FeedStep
<1>1. PICK how \in {"settled", "failed"} : how = Ending'
  OBVIOUS
<1>2. how = "settled" => /\ service.over /\ {e \in service.log : e > View.cursor} = {}
                         /\ seen # << >> /\ Feed!Last(seen) = Feed!LastSeq(service.log)
  <2>1. Feed!LastSeq(service.log) = LastSeq(Log) /\ Feed!Last(seen) = Last(seen)
    BY DEF Log, Feed!LastSeq, LastSeq, Feed!Max, Max, Feed!Last, Last
  <2> QED BY <1>1, <2>1, ViewFacts DEF Log
<1>3. View' = [View EXCEPT !.ended = how, !.phase = Closed(stream.phase)]
  <2>1. PICK v : v = [View EXCEPT !.ended = how]
    OBVIOUS
  <2>2. v = Feeds(stream.cursor, stream.phase, stream.target, Skipped, how)
    BY <2>1 DEF View, Feeds
  <2>3. View' = [v EXCEPT !.phase = Closed(stream.phase)]
    BY <1>1, <2>2 DEF View, Feeds
  <2> QED BY <2>1, <2>3
<1>4. View' = [View EXCEPT !.ended = how,
                 !.phase = IF @ \in {"reconnecting", "replaying"} THEN "closed" ELSE @]
  BY <1>3, ViewFacts DEF Closed
<1>5. Feed!FeedEnd
  BY <1>2, <1>4, FeedActions, ViewFacts
<1> QED BY <1>5 DEF FeedStep, Feed!FeedNextStep

\* The service publishes an event.
LEMMA FeedPublishes ==
  ASSUME ~service.over, NEW e \in Events, e > LastSeq(Log), service'.log = service.log \cup {e},
         service'.over \in BOOLEAN, UNCHANGED <<stream, seen, lost>>
  PROVE FeedStep
<1>1. View' = View
  BY DEF View, Feeds, Skipped, Ending
<1>2. Feed!LastSeq(service.log) = LastSeq(Log)
  BY DEF Log, Feed!LastSeq, LastSeq, Feed!Max, Max
<1>3. Feed!FeedPublish
  <2>1. Feed!FeedPublish <=>
          /\ ~service.over
          /\ \E n \in 1 .. MaxSeq : n > Feed!LastSeq(service.log) /\ service'.log = service.log \cup {n}
          /\ service'.over \in BOOLEAN
          /\ UNCHANGED <<View, seen>>
    BY DEF Feed!FeedPublish, View, Feeds, Skipped, Ending
  <2> QED BY <1>1, <1>2, <2>1 DEF Events
<1> QED BY <1>3 DEF FeedStep, Feed!FeedNextStep

-----------------------------------------------------------------------------
(* The end of a replay and of the stream. *)

\* What the invariant says of the log.
LEMMA InvFacts ==
  ASSUME StreamInv
  PROVE /\ Log \in SUBSET Events /\ Log \in SUBSET Nat
        /\ LastSeq(Log) \in Nat /\ LastSeq(Log) \in Log \cup {0}
        /\ \A e \in Log : e \in Nat /\ e > 0 /\ e <= LastSeq(Log)
        /\ stream \in Streams /\ stream.cursor \in Nat /\ conn \in Conns
        /\ service \in Services
<1>1. service \in Services /\ stream \in Streams /\ conn \in Conns
  BY DEF StreamInv, Typed
<1>2. Log \in SUBSET Events /\ stream.cursor \in Nat
  BY <1>1 DEF Services, Streams, Log
<1> QED BY <1>1, <1>2, LastFacts

\* The replay is complete, and its end is told.
LEMMA CatchUpKeeps ==
  ASSUME StreamInv, CatchUp
  PROVE StreamInv' /\ FeedStep
<1> USE InvFacts
<1>1. /\ stream.at = "pull" /\ stream.pending /\ stream' = CompleteReplay(stream)
      /\ service' = service /\ conn' = conn /\ seen' = seen /\ lost' = lost
  BY DEF CatchUp
<1>2. /\ OtherReplay(stream, stream')
      /\ stream'.target = None /\ stream'.pending = FALSE /\ stream'.phase = "caught_up"
  BY <1>1, CompleteFacts
<1>3. Log' = Log
  BY <1>1 DEF Log
<1>4. Typed'
  BY <1>1, <1>2, <1>3 DEF StreamInv, Typed, OtherReplay
<1>5. Ends'
  BY <1>1, <1>2, <1>3 DEF StreamInv, Ends, OtherReplay
<1>6. Ordered'
  BY <1>1, <1>2, <1>3 DEF StreamInv, Ordered, OtherReplay
<1>7. Phases'
  BY <1>1, <1>2, <1>3 DEF StreamInv, Phases, OtherReplay
<1>8. stream.target # None /\ \A e \in Log : e > stream.cursor => e > stream.target
  BY <1>1 DEF StreamInv, Phases, Typed
<1>9. FeedStep
  <2>1. SameFeed /\ Skipped' = Skipped /\ Ending = "no" /\ Ending' = "no"
    BY <1>1, <1>2, SkippedSame, EndingIs, EndingNext DEF StreamInv, Typed, SameFeed, OtherReplay
  <2> QED BY <1>2, <1>8, <2>1, FeedCatchesUp DEF OtherReplay
<1> QED BY <1>4, <1>5, <1>6, <1>7, <1>9 DEF StreamInv

\* The next event is behind the target: the end of the replay is told first.
LEMMA CatchUpLateKeeps ==
  ASSUME StreamInv, CatchUpLate
  PROVE StreamInv' /\ FeedStep
<1> USE InvFacts
<1>1. PICK e : e = Min(Incoming)
  OBVIOUS
<1>2. /\ stream.at = "pull" /\ ~stream.pending /\ conn.up /\ Incoming # {}
      /\ ~Stale(stream, e) /\ BehindTarget(stream, e)
      /\ stream' = CompleteReplay(stream)
      /\ service' = service /\ conn' = conn /\ seen' = seen /\ lost' = lost
  BY <1>1 DEF CatchUpLate, Pulling
<1>3. /\ OtherReplay(stream, stream')
      /\ stream'.target = None /\ stream'.pending = FALSE /\ stream'.phase = "caught_up"
  BY <1>2, CompleteFacts
<1>4. Log' = Log
  BY <1>2 DEF Log
<1>5. conn.kind # "none"
  BY <1>2 DEF StreamInv, Typed, NoConn
<1>6. Typed'
  BY <1>2, <1>3, <1>4 DEF StreamInv, Typed, OtherReplay
<1>7. Ends'
  BY <1>2, <1>3, <1>4 DEF StreamInv, Ends, OtherReplay
<1>8. Ordered'
  BY <1>2, <1>3, <1>4 DEF StreamInv, Ordered, OtherReplay
<1>9. Phases'
  BY <1>2, <1>3, <1>4, <1>5 DEF StreamInv, Phases, OtherReplay
<1>10. /\ e \in Log /\ e > stream.target /\ stream.target # None
       /\ \A f \in Log : f > conn.after => e <= f
  BY <1>1, <1>2, IncomingFacts DEF BehindTarget, StreamInv
<1>11. stream.gap \/ \A f \in Log : f > stream.cursor => f > stream.target
  <2>1. CASE ~stream.gap
    <3>1. conn.after <= stream.cursor
      BY <2>1 DEF StreamInv, Ordered
    <3>2. conn.after \in Nat /\ stream.target \in Int
      BY DEF Conns, Streams, None
    <3> QED BY <1>10, <3>1, <3>2
  <2> QED BY <2>1
<1>12. FeedStep
  <2>1. SameFeed /\ Skipped' = Skipped /\ Ending = "no" /\ Ending' = "no"
    BY <1>2, <1>3, SkippedSame, EndingIs, EndingNext DEF StreamInv, Typed, SameFeed, OtherReplay
  <2>2. Skipped \/ \A f \in Log : f > stream.cursor => f > stream.target
    BY <1>11 DEF Skipped
  <2> QED BY <1>3, <1>10, <2>1, <2>2, FeedCatchesUp DEF OtherReplay
<1> QED BY <1>6, <1>7, <1>8, <1>9, <1>12 DEF StreamInv

\* The stream ends, with an error, by a cancellation, or behind its last event.
LEMMA FinishKeeps ==
  ASSUME StreamInv, stream.at # "ended",
         NEW why \in {"settled", "fatal", "cancelled"}, stream' = Finish(stream, why), conn' = NoConn,
         service'.log = service.log, service'.over = service.over, service'.floor = service.floor,
         service' \in Services, seen' = seen, lost' = lost,
         why = "settled" => stream.closing
  PROVE StreamInv' /\ FeedStep
<1> USE InvFacts
<1>1. /\ stream' \in Streams /\ stream'.at = "ended" /\ stream'.reason = why
      /\ stream'.phase = Closed(stream.phase)
      /\ stream'.target = stream.target /\ stream'.pending = stream.pending /\ stream'.cursor = stream.cursor
      /\ stream'.initial = stream.initial /\ stream'.snapshot = stream.snapshot /\ stream'.gap = stream.gap
      /\ stream'.closing = stream.closing /\ stream'.answer = stream.answer
  BY FinishFacts
<1>2. Log' = Log
  BY DEF Log
<1>3. NoConn \in Conns /\ NoConn.kind = "none" /\ NoConn.after = 0 /\ NoConn.up = FALSE
  BY DEF NoConn, Conns
<1>4. Typed'
  BY <1>1, <1>2, <1>3 DEF StreamInv, Typed
<1>5. Ends'
  BY <1>1, <1>2, <1>3 DEF StreamInv, Ends
<1>6. Ordered'
  BY <1>1, <1>2, <1>3 DEF StreamInv, Ordered
<1>7. Phases'
  BY <1>1, <1>3 DEF StreamInv, Phases, Closed
<1>8. why = "settled" => /\ service.over /\ \A e \in Log : ~(e > stream.cursor)
                         /\ seen # << >> /\ Last(seen) = LastSeq(Log)
  BY DEF StreamInv, Ends
<1>9. FeedStep
  <2>1. Ending = "no" /\ Skipped' = Skipped
    BY <1>1, SkippedSame, EndingIs DEF StreamInv, Typed
  <2>2. Ending' = IF why = "settled" THEN "settled" ELSE "failed"
    BY <1>1, EndingNext
  <2> QED BY <1>1, <1>8, <2>1, <2>2, FeedEnds DEF SameFeed
<1> QED BY <1>4, <1>5, <1>6, <1>7, <1>9 DEF StreamInv

\* It settles, it is given up, or it fails.
LEMMA EndsKeep ==
  ASSUME StreamInv, SettleStream \/ Cancel \/ StatusFails
  PROVE StreamInv' /\ FeedStep
<1>1. service' = service /\ seen' = seen /\ lost' = lost /\ conn' = NoConn /\ stream.at # "ended"
  BY DEF SettleStream, Cancel, StatusFails, Fails
<1>2. \/ stream' = Finish(stream, "settled") /\ stream.closing
      \/ stream' = Finish(stream, "cancelled") \/ stream' = Finish(stream, "fatal")
  BY DEF SettleStream, Cancel, StatusFails, Fails
<1> QED BY <1>1, <1>2, InvFacts, FinishKeeps

-----------------------------------------------------------------------------
(* Connections and events. *)

\* Connections that are opened.
LEMMA ConnFacts ==
  /\ NoConn \in Conns /\ NoConn.kind = "none" /\ NoConn.after = 0 /\ NoConn.up = FALSE
  /\ \A q \in Nat : /\ ChatConn(q) \in Conns /\ ChatConn(q).kind = "chat"
                    /\ ChatConn(q).after = 0 /\ ChatConn(q) # NoConn
  /\ \A n \in Nat : \A c \in AttachConns(n) : c \in Conns /\ c.kind = "attach" /\ c.after <= n /\ c # NoConn
<1>1. /\ NoConn \in Conns /\ NoConn.kind = "none" /\ NoConn.after = 0 /\ NoConn.up = FALSE
  BY DEF NoConn, Conns
<1>2. ASSUME NEW q \in Nat
      PROVE /\ ChatConn(q) \in Conns /\ ChatConn(q).kind = "chat"
            /\ ChatConn(q).after = 0 /\ ChatConn(q) # NoConn
  BY <1>1 DEF ChatConn, NoConn, Conns
<1>3. ASSUME NEW n \in Nat, NEW c \in AttachConns(n)
      PROVE c \in Conns /\ c.kind = "attach" /\ c.after <= n /\ c # NoConn
  <2>1. PICK m \in {n, n - 1} \cap Nat : c = [kind |-> "attach", id |-> 0, up |-> TRUE, after |-> m]
    BY <1>3 DEF AttachConns
  <2>2. c.kind = "attach" /\ c.after = m /\ m <= n
    BY <2>1
  <2> QED BY <1>1, <2>1, <2>2 DEF Conns
<1> QED BY <1>1, <1>2, <1>3

\* Nothing is said to the owner when only the connection changes.
LEMMA ConnChanges ==
  ASSUME StreamInv, service' = service, seen' = seen, lost' = lost,
         stream'.cursor = stream.cursor, stream'.phase = stream.phase, stream'.target = stream.target,
         stream'.gap = stream.gap, stream'.at # "ended", stream.at # "ended", stream'.reason = stream.reason
  PROVE FeedStep
<1>1. SameFeed /\ Skipped' = Skipped /\ Ending = "no" /\ Ending' = "no"
  BY SkippedSame, EndingIs, EndingNext DEF StreamInv, Typed, SameFeed
<1> QED BY <1>1, FeedStutters

\* The first read submits the turn.
LEMMA SubmitKeeps ==
  ASSUME StreamInv, Open, stream.submits
  PROVE StreamInv' /\ FeedStep
<1> USE InvFacts
<1>1. PICK q \in Nat : q = stream.requests + 1
  BY DEF Streams
<1>2. stream' = [stream EXCEPT !.requests = q]
  BY <1>1 DEF Open
<1>3. /\ stream.at = "pull" /\ ~stream.pending /\ conn = NoConn /\ stream.snapshot = None /\ ~stream.closing
      /\ conn' = ChatConn(stream'.requests)
      /\ service' = service /\ seen' = seen /\ lost' = lost
  BY DEF Open, Pulling
<1>4. /\ stream' \in Streams /\ stream'.at = stream.at /\ stream'.cursor = stream.cursor
      /\ stream'.phase = stream.phase /\ stream'.target = stream.target /\ stream'.initial = stream.initial
      /\ stream'.pending = stream.pending /\ stream'.snapshot = stream.snapshot /\ stream'.gap = stream.gap
      /\ stream'.control = stream.control /\ stream'.closing = stream.closing
      /\ stream'.answer = stream.answer /\ stream'.reason = stream.reason /\ stream'.requests = q
  BY <1>1, <1>2 DEF Streams
<1>5. conn' \in Conns /\ conn'.kind = "chat" /\ conn'.after = 0 /\ conn' # NoConn
  BY <1>3, <1>4, ConnFacts
<1>6. Log' = Log
  BY <1>3 DEF Log
<1>7. Typed'
  BY <1>3, <1>4, <1>5, <1>6 DEF StreamInv, Typed
<1>8. Ends'
  BY <1>3, <1>4, <1>6 DEF StreamInv, Ends
<1>9. Ordered'
  BY <1>3, <1>4, <1>5, <1>6 DEF StreamInv, Ordered
<1>10. Phases'
  BY <1>3, <1>4, <1>5 DEF StreamInv, Phases
<1>11. FeedStep
  BY <1>3, <1>4, ConnChanges
<1> QED BY <1>7, <1>8, <1>9, <1>10, <1>11 DEF StreamInv

\* Or it attaches to a turn, and replays it up to the event known before.
LEMMA AttachKeeps ==
  ASSUME StreamInv, Open, ~stream.submits
  PROVE StreamInv' /\ FeedStep
<1> USE InvFacts
<1>1. /\ stream.at = "pull" /\ ~stream.pending /\ conn = NoConn /\ stream.snapshot = None /\ ~stream.closing
      /\ ~stream.control /\ conn' \in AttachConns(stream.cursor)
      /\ service' = service /\ seen' = seen /\ lost' = lost
  BY DEF Open, Pulling, HasTarget
<1>2. conn' \in Conns /\ conn'.kind = "attach" /\ conn'.after <= stream.cursor /\ conn' # NoConn
  BY <1>1, ConnFacts
<1>3. stream.cursor = 0 /\ stream.phase = "none" /\ stream.target = None
  BY <1>1, ConnFacts DEF StreamInv, Phases
<1>4. Log' = Log
  BY <1>1 DEF Log
<1>5. CASE stream.initial = None
  <2>1. stream' = stream
    BY <1>5 DEF Open
  <2>2. Typed'
    BY <1>1, <1>2, <1>4, <2>1 DEF StreamInv, Typed
  <2>3. Ends'
    BY <1>1, <1>4, <2>1 DEF StreamInv, Ends
  <2>4. Ordered'
    BY <1>1, <1>2, <1>4, <2>1 DEF StreamInv, Ordered
  <2>5. Phases'
    BY <1>1, <1>2, <1>3, <2>1 DEF StreamInv, Phases
  <2>6. FeedStep
    BY <1>1, <2>1, ConnChanges
  <2> QED BY <2>2, <2>3, <2>4, <2>5, <2>6 DEF StreamInv
<1>6. CASE stream.initial # None
  <2>1. stream.initial \in Log /\ stream.initial \in Nat /\ stream.initial > 0
    BY <1>6 DEF StreamInv, Typed
  <2>2. PICK b : b = BeginReplay(stream, stream.initial)
    OBVIOUS
  <2>3. stream' = [b EXCEPT !.initial = None]
    BY <1>1, <1>6, <2>2 DEF Open
  <2>4. OtherReplay(stream, b) /\ b.target = stream.initial /\ b.pending = FALSE /\ b.phase = "replaying"
    BY <1>3, <2>1, <2>2, BeginFacts
  <2>5. /\ stream' \in Streams /\ stream'.at = "pull" /\ stream'.cursor = 0 /\ stream'.phase = "replaying"
        /\ stream'.target = stream.initial /\ stream'.initial = None /\ stream'.pending = FALSE
        /\ stream'.snapshot = None /\ stream'.gap = stream.gap /\ stream'.closing = FALSE
        /\ stream'.answer = stream.answer /\ stream'.reason = stream.reason
    <3>1. b \in Streams
      BY <2>4 DEF OtherReplay
    <3> QED BY <1>1, <1>3, <2>3, <2>4, <3>1 DEF Streams, OtherReplay
  <2>6. Typed'
    BY <1>1, <1>2, <1>3, <1>4, <2>1, <2>5 DEF StreamInv, Typed
  <2>7. Ends'
    BY <1>1, <1>3, <1>4, <2>5 DEF StreamInv, Ends
  <2>8. Ordered'
    BY <1>1, <1>2, <1>3, <1>4, <2>5 DEF StreamInv, Ordered
  <2>9. Phases'
    BY <1>2, <2>1, <2>5, ConnFacts DEF StreamInv, Phases, None
  <2>10. FeedStep
    <3>1. SameFeed /\ Skipped' = Skipped /\ Ending = "no" /\ Ending' = "no"
      BY <1>1, <2>5, SkippedSame, EndingIs, EndingNext DEF StreamInv, Typed, SameFeed
    <3> QED BY <1>3, <2>1, <2>5, <3>1, FeedReplays
  <2> QED BY <2>6, <2>7, <2>8, <2>9, <2>10 DEF StreamInv
<1> QED BY <1>5, <1>6

\* An event that was confirmed before, or that a gap has made worthless, is dropped.
LEMMA DropKeeps ==
  ASSUME StreamInv, NEW e \in Log, e > conn.after, Stale(stream, e), stream.at = "pull",
         conn.up, conn' = [conn EXCEPT !.after = e], stream' = [stream EXCEPT !.observed = TRUE],
         service' = service, seen' = seen, lost' = lost
  PROVE StreamInv' /\ FeedStep
<1> USE InvFacts
<1>1. /\ stream' \in Streams /\ stream'.at = stream.at /\ stream'.cursor = stream.cursor
      /\ stream'.phase = stream.phase /\ stream'.target = stream.target /\ stream'.initial = stream.initial
      /\ stream'.pending = stream.pending /\ stream'.snapshot = stream.snapshot /\ stream'.gap = stream.gap
      /\ stream'.control = stream.control /\ stream'.closing = stream.closing
      /\ stream'.answer = stream.answer /\ stream'.reason = stream.reason
  BY DEF Streams
<1>2. conn.kind # "none" /\ conn # NoConn
  BY ConnFacts DEF StreamInv, Typed
<1>3. conn' \in Conns /\ conn'.kind = conn.kind /\ conn'.after = e
  BY DEF Conns
<1>4. Log' = Log
  BY DEF Log
<1>5. stream.gap \/ e <= stream.cursor
  BY DEF Stale
<1>6. Typed'
  BY <1>1, <1>2, <1>3, <1>4 DEF StreamInv, Typed
<1>7. Ends'
  BY <1>1, <1>2, <1>4 DEF StreamInv, Ends
<1>8. Ordered'
  BY <1>1, <1>3, <1>4, <1>5 DEF StreamInv, Ordered
<1>9. Phases'
  BY <1>1, <1>2, <1>3 DEF StreamInv, Phases
<1>10. FeedStep
  BY <1>1, ConnChanges
<1> QED BY <1>6, <1>7, <1>8, <1>9, <1>10 DEF StreamInv

\* What an event that is handed over does to the stream.
LEMMA DeliverFacts ==
  ASSUME NEW s \in Streams, NEW e \in Nat, NEW r, r = Deliver(s, e)
  PROVE /\ r \in Streams /\ r.cursor = e
        /\ r.pending <=> (s.target # None /\ e >= s.target)
        /\ r.closing <=> (service.over /\ e = LastSeq(Log))
        /\ r.at = s.at /\ r.phase = s.phase /\ r.target = s.target /\ r.initial = s.initial
        /\ r.snapshot = s.snapshot /\ r.gap = s.gap /\ r.control = s.control
        /\ r.answer = s.answer /\ r.reason = s.reason
<1>1. PICK p \in BOOLEAN : p <=> (s.target # None /\ e >= s.target)
  OBVIOUS
<1>2. PICK c \in BOOLEAN : c <=> (service.over /\ e = LastSeq(Log))
  OBVIOUS
<1>3. r = [s EXCEPT !.cursor = e, !.observed = TRUE, !.pending = p, !.closing = c]
  BY <1>1, <1>2 DEF Deliver, Log
<1> QED BY <1>1, <1>2, <1>3 DEF Streams

\* An index of a sequence that was appended to.
LEMMA NextIndex == \A n \in Nat : \A i \in 1 .. (n + 1) : i \in 1 .. n \/ i = n + 1
OBVIOUS

\* An event is handed over.
LEMMA DeliverKeeps ==
  ASSUME StreamInv, stream.at = "pull", NEW e \in Log, e > stream.cursor,
         stream.target = None \/ e <= stream.target,
         stream.gap \/ \A f \in Log : f > stream.cursor => e <= f,
         stream' \in Streams, stream'.cursor = e,
         stream'.pending <=> (stream.target # None /\ e >= stream.target),
         stream'.closing <=> (service.over /\ e = LastSeq(Log)),
         stream'.at = stream.at, stream'.phase = stream.phase, stream'.target = stream.target,
         stream'.initial = stream.initial, stream'.snapshot = None, stream'.gap = stream.gap,
         stream'.control = stream.control, stream'.answer = stream.answer, stream'.reason = stream.reason,
         seen' = Append(seen, e), lost' = lost, service' = service, conn' \in Conns,
         \/ conn'.kind = conn.kind /\ conn.kind # "none" /\ (stream.gap \/ conn'.after <= e)
         \/ conn' = NoConn /\ service.over /\ e = LastSeq(Log)
  PROVE StreamInv' /\ FeedStep
<1> USE InvFacts
<1>1. Log' = Log
  BY DEF Log
<1>2. seen \in Seq(Log) /\ Len(seen) \in Nat
  BY DEF StreamInv, Typed
<1>3. /\ seen' \in Seq(Log) /\ seen' # << >> /\ Last(seen') = e /\ Range(seen') = Range(seen) \cup {e}
      /\ Len(seen') = Len(seen) + 1 /\ seen'[Len(seen) + 1] = e
      /\ \A i \in 1 .. Len(seen) : seen'[i] = seen[i]
  BY <1>2, RangeAppend DEF Last
<1>4. \A i \in 1 .. Len(seen) : seen[i] \in Nat /\ seen[i] < e
  <2>1. \A i \in 1 .. Len(seen) : seen[i] \in Nat /\ seen[i] <= stream.cursor
    BY <1>2 DEF StreamInv, Ordered
  <2> QED BY <2>1
<1>5. Typed'
  BY <1>1, <1>3, ConnFacts DEF StreamInv, Typed
<1>6. Ends'
  BY <1>1, <1>3 DEF StreamInv, Ends
<1>7. Ordered'
  <2>1. \A i, j \in 1 .. Len(seen') : i < j => seen'[i] < seen'[j]
    <3> TAKE i, j \in 1 .. Len(seen')
    <3> HAVE i < j
    <3>1. i \in 1 .. Len(seen)
      BY <1>2, <1>3
    <3>2. CASE j \in 1 .. Len(seen)
      BY <1>3, <3>1, <3>2 DEF StreamInv, Ordered
    <3>3. CASE j = Len(seen) + 1
      <4>1. seen'[j] = e /\ seen'[i] = seen[i]
        BY <1>3, <3>1, <3>3
      <4> QED BY <1>4, <3>1, <4>1
    <3>4. j \in 1 .. Len(seen) \/ j = Len(seen) + 1
      BY <1>2, <1>3, NextIndex
    <3> QED BY <3>2, <3>3, <3>4
  <2>2. \A i \in 1 .. Len(seen') : seen'[i] <= stream'.cursor
    <3> TAKE i \in 1 .. Len(seen')
    <3>1. CASE i \in 1 .. Len(seen)
      BY <1>3, <1>4, <3>1
    <3>2. CASE i = Len(seen) + 1
      BY <1>3, <3>2
    <3>3. i \in 1 .. Len(seen) \/ i = Len(seen) + 1
      BY <1>2, <1>3, NextIndex
    <3> QED BY <3>1, <3>2, <3>3
  <2>3. ASSUME ~stream.gap PROVE Range(seen') \cup lost' = {f \in Log : f <= e}
    <3>1. Range(seen) \cup lost = {f \in Log : f <= stream.cursor}
      BY <2>3 DEF StreamInv, Ordered
    <3>2. \A f \in Log : f <= e <=> f <= stream.cursor \/ f = e
      <4>1. \A f \in Log : f \in Nat /\ (f > stream.cursor => e <= f)
        BY <2>3
      <4>2. e \in Nat /\ stream.cursor \in Nat
        OBVIOUS
      <4>3. \A f, m, n \in Nat : (f > m => n <= f) /\ n > m => (f <= n <=> f <= m \/ f = n)
        OBVIOUS
      <4> QED BY <4>1, <4>2, <4>3
    <3>3. {f \in Log : f <= e} = {f \in Log : f <= stream.cursor} \cup {e}
      BY <3>2
    <3> QED BY <1>3, <3>1, <3>3
  <2>4. stream.gap \/ conn'.after <= e
    BY ConnFacts
  <2> QED BY <1>1, <2>1, <2>2, <2>3, <2>4 DEF Ordered
<1>8. Phases'
  <2>1. stream.target # None => stream.target \in Nat
    BY DEF Streams
  <2>2. stream'.closing \/ conn'.kind # "none"
    BY ConnFacts
  <2>3. stream'.pending \/ stream.target = None \/ stream.target > e
    BY <2>1
  <2>4. conn'.kind = "attach" => stream'.phase # "reconnecting"
    BY ConnFacts DEF StreamInv, Phases
  <2>5. stream'.pending => stream.target # None /\ e >= stream.target
    OBVIOUS
  <2>6. stream'.phase = "replaying" => stream'.target # None
    BY DEF StreamInv, Phases
  <2> QED BY <2>2, <2>3, <2>4, <2>5, <2>6 DEF Phases
<1>9. FeedStep
  <2>1. Skipped' = Skipped /\ Ending = "no" /\ Ending' = "no"
    BY SkippedSame, EndingIs, EndingNext DEF StreamInv, Typed
  <2>2. Skipped \/ \A f \in Log : f > stream.cursor => e <= f
    BY DEF Skipped
  <2> QED BY <2>1, <2>2, FeedHandsOver
<1> QED BY <1>5, <1>6, <1>7, <1>8, <1>9 DEF StreamInv

\* An event of the connection is dropped or handed over.
LEMMA ReceiveKeeps ==
  ASSUME StreamInv, Receive
  PROVE StreamInv' /\ FeedStep
<1> USE InvFacts
<1>1. PICK e : e = Min(Incoming)
  OBVIOUS
<1>2. /\ stream.at = "pull" /\ conn.up /\ Incoming # {} /\ stream.snapshot = None
      /\ conn' = [conn EXCEPT !.after = e] /\ service' = service /\ lost' = lost
      /\ \/ Stale(stream, e) /\ stream' = [stream EXCEPT !.observed = TRUE] /\ seen' = seen
         \/ /\ ~Stale(stream, e) /\ ~BehindTarget(stream, e)
            /\ stream' = Deliver(stream, e) /\ seen' = Append(seen, e)
  BY <1>1 DEF Receive, Pulling
<1>3. e \in Log /\ e \in Nat /\ e > conn.after /\ \A f \in Log : f > conn.after => e <= f
  BY <1>1, <1>2, IncomingFacts DEF StreamInv
<1>4. CASE Stale(stream, e) /\ stream' = [stream EXCEPT !.observed = TRUE] /\ seen' = seen
  BY <1>2, <1>3, <1>4, DropKeeps
<1>5. CASE /\ ~Stale(stream, e) /\ ~BehindTarget(stream, e)
           /\ stream' = Deliver(stream, e) /\ seen' = Append(seen, e)
  <2>1. e > stream.cursor
    BY <1>3, <1>5 DEF Stale
  <2>2. stream.target = None \/ e <= stream.target
    <3>1. stream.target # None => stream.target \in Nat
      BY DEF Streams
    <3> QED BY <1>3, <1>5, <3>1 DEF BehindTarget
  <2>3. stream.gap \/ \A f \in Log : f > stream.cursor => e <= f
    <3>1. stream.gap \/ conn.after <= stream.cursor
      BY DEF StreamInv, Ordered
    <3>2. conn.after \in Nat
      BY DEF Conns
    <3> QED BY <1>3, <3>1, <3>2
  <2>4. conn' \in Conns /\ conn'.kind = conn.kind /\ conn'.after = e /\ conn.kind # "none"
    <3>1. conn.kind # "none"
      BY <1>2, ConnFacts DEF StreamInv, Typed
    <3> QED BY <1>2, <1>3, <3>1 DEF Conns
  <2>5. /\ stream' \in Streams /\ stream'.cursor = e
        /\ stream'.pending <=> (stream.target # None /\ e >= stream.target)
        /\ stream'.closing <=> (service.over /\ e = LastSeq(Log))
        /\ stream'.at = stream.at /\ stream'.phase = stream.phase /\ stream'.target = stream.target
        /\ stream'.initial = stream.initial /\ stream'.snapshot = stream.snapshot
        /\ stream'.gap = stream.gap /\ stream'.control = stream.control
        /\ stream'.answer = stream.answer /\ stream'.reason = stream.reason
    <3>1. PICK d : d = Deliver(stream, e)
      OBVIOUS
    <3>2. /\ d \in Streams /\ d.cursor = e
          /\ d.pending <=> (stream.target # None /\ e >= stream.target)
          /\ d.closing <=> (service.over /\ e = LastSeq(Log))
          /\ d.at = stream.at /\ d.phase = stream.phase /\ d.target = stream.target
          /\ d.initial = stream.initial /\ d.snapshot = stream.snapshot
          /\ d.gap = stream.gap /\ d.control = stream.control
          /\ d.answer = stream.answer /\ d.reason = stream.reason
      <4>1. e \in Nat
        BY <1>3
      <4>2. stream \in Streams
        OBVIOUS
      <4> HIDE InvFacts
      <4> QED BY <3>1, <4>1, <4>2, DeliverFacts
    <3> QED BY <1>5, <3>1, <3>2
  <2>6. stream.gap \/ conn'.after <= e
    BY <1>3, <2>4
  <2> QED BY <1>2, <1>3, <1>5, <2>1, <2>2, <2>3, <2>4, <2>5, <2>6, DeliverKeeps
<1> QED BY <1>2, <1>4, <1>5

\* The terminal event of a status answer is handed over.
LEMMA ReceiveSnapshotKeeps ==
  ASSUME StreamInv, ReceiveSnapshot
  PROVE StreamInv' /\ FeedStep
<1> USE InvFacts
<1>1. PICK e : e = stream.snapshot
  OBVIOUS
<1>2. PICK d : d = Deliver(stream, e)
  OBVIOUS
<1>3. /\ stream.at = "pull" /\ stream.snapshot # None /\ stream' = [d EXCEPT !.snapshot = None]
      /\ seen' = Append(seen, e) /\ service' = service /\ conn' = conn /\ lost' = lost
  BY <1>1, <1>2 DEF ReceiveSnapshot, Pulling
<1>4. /\ service.over /\ e = LastSeq(Log) /\ e \in Log /\ e > stream.cursor
      /\ stream.gap \/ e = stream.cursor + 1
      /\ stream.target \in {None, e} /\ conn = NoConn
  BY <1>1, <1>3 DEF StreamInv, Ends
<1>5. e \in Nat
  BY <1>4
<1>6. /\ d \in Streams /\ d.cursor = e
      /\ d.pending <=> (stream.target # None /\ e >= stream.target)
      /\ d.closing <=> (service.over /\ e = LastSeq(Log))
      /\ d.at = stream.at /\ d.phase = stream.phase /\ d.target = stream.target
      /\ d.initial = stream.initial /\ d.gap = stream.gap /\ d.control = stream.control
      /\ d.answer = stream.answer /\ d.reason = stream.reason
  <2>1. stream \in Streams
    OBVIOUS
  <2> HIDE InvFacts
  <2> QED BY <1>2, <1>5, <2>1, DeliverFacts
<1>7. /\ stream' \in Streams /\ stream'.cursor = e /\ stream'.snapshot = None
      /\ stream'.pending = d.pending /\ stream'.closing = d.closing
      /\ stream'.at = stream.at /\ stream'.phase = stream.phase /\ stream'.target = stream.target
      /\ stream'.initial = stream.initial /\ stream'.gap = stream.gap /\ stream'.control = stream.control
      /\ stream'.answer = stream.answer /\ stream'.reason = stream.reason
  BY <1>3, <1>6 DEF Streams
<1>8. stream.gap \/ \A f \in Log : f > stream.cursor => e <= f
  BY <1>4
<1>9. stream.target = None \/ e <= stream.target
  BY <1>4, <1>5
<1>10. conn' = NoConn /\ conn' \in Conns
  BY <1>3, <1>4
<1> QED BY <1>3, <1>4, <1>6, <1>7, <1>8, <1>9, <1>10, DeliverKeeps

-----------------------------------------------------------------------------
(* Gaps the service announces. *)

\* r differs from s in the cursor only.
OtherCursor(s, r, c) ==
  /\ r.at = s.at /\ r.cursor = c /\ r.phase = s.phase /\ r.target = s.target /\ r.initial = s.initial
  /\ r.pending = s.pending /\ r.snapshot = s.snapshot /\ r.gap = s.gap /\ r.control = s.control
  /\ r.closing = s.closing /\ r.answer = s.answer /\ r.reason = s.reason

\* The beginning of the log is gone: the cursor moves behind it.
LEMMA PrefixGapKeeps ==
  ASSUME StreamInv, ReceivePrefixGap
  PROVE StreamInv' /\ FeedStep
<1> USE InvFacts
<1>1. /\ stream.at = "pull" /\ ~stream.pending /\ ~stream.closing /\ conn.up
      /\ conn.after < service.floor
      /\ service' = service /\ seen' = seen
  BY DEF ReceivePrefixGap, Pulling
<1>2. PICK c : c = Max({stream.cursor, service.floor})
  OBVIOUS
<1>3. PICK s : s = [stream EXCEPT !.cursor = c]
  OBVIOUS
<1>4. /\ service.floor \in Nat /\ conn.after \in Nat /\ service.floor > 0
      /\ service.floor \in Log /\ service.floor < LastSeq(Log)
  <2>1. service.floor \in Nat /\ conn.after \in Nat
    BY DEF Services, Conns
  <2> QED BY <1>1, <2>1 DEF StreamInv, Typed
<1>5. /\ c = IF service.floor > stream.cursor THEN service.floor ELSE stream.cursor
      /\ c \in Log \cup {0} /\ c \in Nat /\ c >= stream.cursor /\ c >= service.floor
  <2>1. c = IF service.floor > stream.cursor THEN service.floor ELSE stream.cursor
    BY <1>2, <1>4, MaxOfTwo
  <2> QED BY <1>4, <2>1 DEF StreamInv, Typed
<1>6. /\ OtherCursor(stream, s, c) /\ s \in Streams
  BY <1>3, <1>5 DEF Streams, OtherCursor
<1>7. PICK answered \in BOOLEAN :
        LET z == [stream EXCEPT !.cursor = Max({@, service.floor})]
            n == IF answered THEN LastSeq(service.log) ELSE z.cursor
            r == IF z.target = None THEN BeginReplay(z, n) ELSE z IN
          /\ stream' = [r EXCEPT !.pending = r.cursor >= r.target]
          /\ lost' = lost \cup {e \in service.log : stream.cursor < e /\ e <= z.cursor}
          /\ conn' = [conn EXCEPT !.after = z.cursor]
  BY Zenon DEF ReceivePrefixGap
<1>8. PICK n : n = IF answered THEN LastSeq(service.log) ELSE c
  OBVIOUS
<1>9. PICK r : r = IF s.target = None THEN BeginReplay(s, n) ELSE s
  OBVIOUS
<1>10. /\ stream' = [r EXCEPT !.pending = r.cursor >= r.target]
       /\ lost' = lost \cup {e \in service.log : stream.cursor < e /\ e <= c}
       /\ conn' = [conn EXCEPT !.after = c]
  <2>1. s.cursor = c /\ s = [stream EXCEPT !.cursor = Max({@, service.floor})]
    BY <1>2, <1>3, <1>6 DEF OtherCursor
  <2> HIDE InvFacts
  <2> QED BY <1>7, <1>8, <1>9, <2>1
<1>11. n \in Nat /\ n \in Log \cup {0}
  BY <1>5, <1>8, <1>9, <1>10 DEF Log
<1>12. /\ r \in Streams /\ r.at = "pull" /\ r.cursor = c /\ r.gap = stream.gap /\ r.closing = FALSE
      /\ r.initial = stream.initial /\ r.snapshot = stream.snapshot /\ r.control = stream.control
      /\ r.answer = stream.answer /\ r.reason = stream.reason
      /\ \/ /\ stream.target = None /\ r.phase = "replaying"
            /\ r.target = IF n > c THEN n ELSE c
         \/ stream.target # None /\ r.phase = stream.phase /\ r.target = stream.target
  <2>1. CASE stream.target = None
    <3>1. r = BeginReplay(s, n)
      BY <1>6, <1>8, <1>9, <1>10, <2>1 DEF OtherCursor
    <3>2. OtherReplay(s, r) /\ r.phase = "replaying" /\ r.target = IF n > s.cursor THEN n ELSE s.cursor
      BY <1>6, <1>11, <3>1, BeginFacts
    <3> QED BY <1>1, <1>6, <2>1, <3>2 DEF OtherReplay, OtherCursor
  <2>2. CASE stream.target # None
    <3>1. r = s
      BY <1>6, <1>8, <1>9, <1>10, <2>2 DEF OtherCursor
    <3> QED BY <1>1, <1>6, <2>2, <3>1 DEF OtherCursor
  <2> QED BY <2>1, <2>2
<1>13. /\ r.target # None /\ r.target \in Nat /\ r.target \in Log \cup {0}
  <2>1. r.target \in Log \cup {0}
    BY <1>5, <1>11, <1>12 DEF StreamInv, Typed
  <2> QED BY <2>1 DEF None
<1>14. PICK p \in BOOLEAN : p <=> c >= r.target
  OBVIOUS
<1>15. stream' = [r EXCEPT !.pending = p]
  BY <1>8, <1>9, <1>10, <1>12, <1>14
<1>16. /\ stream' \in Streams /\ stream'.at = "pull" /\ stream'.cursor = c /\ stream'.gap = stream.gap
       /\ stream'.closing = FALSE /\ stream'.initial = stream.initial
       /\ stream'.snapshot = stream.snapshot /\ stream'.control = stream.control
       /\ stream'.answer = stream.answer /\ stream'.reason = stream.reason
       /\ stream'.phase = r.phase /\ stream'.target = r.target
       /\ stream'.pending <=> c >= r.target
  BY <1>12, <1>14, <1>15 DEF Streams
<1>17. /\ conn' \in Conns /\ conn'.kind = conn.kind /\ conn'.after = c
       /\ conn.kind # "none" /\ conn # NoConn /\ stream.snapshot = None
  <2>1. conn.kind # "none" /\ conn # NoConn
    BY <1>1, ConnFacts DEF StreamInv, Typed
  <2>2. stream.snapshot = None
    BY <2>1 DEF StreamInv, Ends
  <2> QED BY <1>5, <1>8, <1>9, <1>10, <2>1, <2>2 DEF Conns
<1>18. Log' = Log
  BY <1>1 DEF Log
<1>19. stream.reason = "none"
  BY <1>1 DEF StreamInv, Typed
<1>20. Typed'
  <2>1. lost' \subseteq Log
    BY <1>8, <1>9, <1>10 DEF StreamInv, Typed, Log
  <2> QED BY <1>1, <1>5, <1>13, <1>16, <1>17, <1>18, <1>19, <2>1 DEF StreamInv, Typed
<1>21. ~(service.over /\ c = LastSeq(Log))
  BY <1>1, <1>4, <1>5 DEF StreamInv, Ends
<1>22. Ends'
  BY <1>1, <1>16, <1>17, <1>18, <1>21 DEF StreamInv, Ends
<1>23. Ordered'
  <2>1. \A i \in 1 .. Len(seen) : seen[i] <= c
    <3>1. \A i \in 1 .. Len(seen) : seen[i] \in Nat /\ seen[i] <= stream.cursor
      BY DEF StreamInv, Typed, Ordered
    <3> QED BY <1>5, <3>1
  <2>2. ASSUME ~stream.gap PROVE Range(seen) \cup lost' = {e \in Log : e <= c}
    <3>1. Range(seen) \cup lost = {e \in Log : e <= stream.cursor}
      BY <2>2 DEF StreamInv, Ordered
    <3>2. \A e \in Log : e <= c <=> e <= stream.cursor \/ (stream.cursor < e /\ e <= c)
      BY <1>5
    <3>3. lost' = lost \cup {e \in Log : stream.cursor < e /\ e <= c}
      BY <1>8, <1>9, <1>10 DEF Log
    <3> QED BY <3>1, <3>2, <3>3
  <2> QED BY <1>1, <1>5, <1>16, <1>17, <1>18, <2>1, <2>2 DEF StreamInv, Ordered
<1>24. Phases'
  <2>1. stream'.phase = "reconnecting" => stream.phase = "reconnecting"
    BY <1>12, <1>16
  <2>2. conn.kind = "attach" => stream'.phase # "reconnecting"
    BY <1>1, <2>1 DEF StreamInv, Phases
  <2>3. stream'.pending \/ stream'.target > c
    BY <1>5, <1>13, <1>16
  <2> QED BY <1>13, <1>16, <1>17, <2>2, <2>3 DEF Phases
<1>25. FeedStep
  <2>1. Ending = "no" /\ Ending' = "no" /\ SameFeed
    BY <1>1, <1>16, <1>19, EndingIs, EndingNext DEF SameFeed
  <2>2. CASE c > stream.cursor
    <3>1. c = service.floor /\ c \in Log
      BY <1>4, <1>5, <2>2
    <3>2. Skipped' = TRUE
      BY <1>5, <1>8, <1>9, <1>10, <2>2, <3>1 DEF Skipped, Log
    <3>3. \/ stream'.phase = stream.phase /\ stream'.target = stream.target
          \/ stream'.phase = "replaying" /\ stream'.target \in Log /\ stream'.target >= c
      BY <1>5, <1>11, <1>12, <1>13, <1>16, <3>1
    <3> QED BY <1>16, <2>1, <2>2, <3>1, <3>2, <3>3, FeedSkips
  <2>3. CASE c = stream.cursor
    <3>1. lost' = lost
      <4>1. \A e \in service.log : ~(stream.cursor < e /\ e <= c)
        BY <2>3 DEF Log
      <4> QED BY <1>8, <1>9, <1>10, <4>1
    <3>2. Skipped' = Skipped
      BY <1>16, <3>1, SkippedSame
    <3>3. CASE stream.target = None
      <4>1. stream'.target = c \/ (stream'.target \in Log /\ stream'.target > c)
        BY <1>5, <1>11, <1>12, <1>16, <3>3
      <4> QED BY <1>12, <1>16, <2>1, <2>3, <3>2, <3>3, <4>1, FeedReplays
    <3>4. CASE stream.target # None
      BY <1>12, <1>16, <2>1, <2>3, <3>2, <3>4, FeedStutters
    <3> QED BY <3>3, <3>4
  <2> QED BY <1>5, <2>2, <2>3
<1> QED BY <1>20, <1>22, <1>23, <1>24, <1>25 DEF StreamInv

\* The service cannot read its log any more.
LEMMA InternalGapKeeps ==
  ASSUME StreamInv, ReceiveInternalGap
  PROVE StreamInv' /\ FeedStep
<1> USE InvFacts
<1>1. /\ stream.at = "pull" /\ stream' = [stream EXCEPT !.gap = TRUE]
      /\ service' = service /\ seen' = seen /\ lost' = lost /\ conn' = conn
  BY DEF ReceiveInternalGap, Pulling
<1>2. /\ stream' \in Streams /\ stream'.at = stream.at /\ stream'.cursor = stream.cursor
      /\ stream'.phase = stream.phase /\ stream'.target = stream.target /\ stream'.initial = stream.initial
      /\ stream'.pending = stream.pending /\ stream'.snapshot = stream.snapshot /\ stream'.gap = TRUE
      /\ stream'.control = stream.control /\ stream'.closing = stream.closing
      /\ stream'.answer = stream.answer /\ stream'.reason = stream.reason
  BY <1>1 DEF Streams
<1>3. Log' = Log
  BY <1>1 DEF Log
<1>4. Typed' /\ Ends' /\ Ordered' /\ Phases'
  <2>1. Typed'
    BY <1>1, <1>2, <1>3 DEF StreamInv, Typed
  <2>2. Ends'
    BY <1>1, <1>2, <1>3 DEF StreamInv, Ends
  <2>3. Ordered'
    BY <1>1, <1>2, <1>3 DEF StreamInv, Ordered
  <2>4. Phases'
    BY <1>1, <1>2, <1>3 DEF StreamInv, Phases
  <2> QED BY <2>1, <2>2, <2>3, <2>4
<1>5. FeedStep
  <2>1. Ending = "no" /\ Ending' = "no" /\ SameFeed /\ Skipped' = TRUE
    BY <1>1, <1>2, EndingIs, EndingNext DEF StreamInv, Typed, SameFeed, Skipped
  <2> QED BY <1>2, <2>1, FeedSkips
<1> QED BY <1>4, <1>5 DEF StreamInv
-----------------------------------------------------------------------------
(* Recovery. *)

\* What follows a lost connection, a silence, a heartbeat or a probe.
LEMMA ResumeKeeps ==
  ASSUME StreamInv, stream.at = "pull", ~stream.pending, ~stream.closing, stream.snapshot = None,
         Resume, service' = service, seen' = seen, lost' = lost
  PROVE StreamInv' /\ FeedStep
<1> USE InvFacts
<1>1. PICK p : p = IF ~stream.control THEN "reconnecting"
                   ELSE IF stream.phase \in {"reconnecting", "replaying"} THEN "closed" ELSE stream.phase
  OBVIOUS
<1>2. /\ p \in {"none", "reconnecting", "caught_up", "closed"}
      /\ p \in {"reconnecting", "closed", stream.phase}
  BY <1>1 DEF Streams
<1>3. stream' = [stream EXCEPT !.at = "resume", !.probe = FALSE, !.phase = p] /\ conn' = NoConn
  BY <1>1 DEF Resume
<1>4. /\ stream' \in Streams /\ stream'.at = "resume" /\ stream'.cursor = stream.cursor
      /\ stream'.phase = p /\ stream'.target = stream.target /\ stream'.initial = stream.initial
      /\ stream'.pending = FALSE /\ stream'.snapshot = None /\ stream'.gap = stream.gap
      /\ stream'.control = stream.control /\ stream'.closing = FALSE
      /\ stream'.answer = stream.answer /\ stream'.reason = "none"
  BY <1>2, <1>3 DEF Streams, StreamInv, Typed
<1>5. Log' = Log
  BY DEF Log
<1>6. Typed'
  BY <1>3, <1>4, <1>5, ConnFacts DEF StreamInv, Typed
<1>7. Ends'
  BY <1>3, <1>4, <1>5 DEF StreamInv, Ends
<1>8. Ordered'
  BY <1>3, <1>4, <1>5, ConnFacts DEF StreamInv, Ordered
<1>9. Phases'
  BY <1>2, <1>3, <1>4 DEF StreamInv, Phases
<1>10. FeedStep
  <2>1. SameFeed /\ Skipped' = Skipped /\ Ending = "no" /\ Ending' = "no"
    BY <1>4, SkippedSame, EndingIs, EndingNext DEF StreamInv, Typed, SameFeed
  <2> QED BY <1>2, <1>4, <2>1, FeedBreaks
<1> QED BY <1>6, <1>7, <1>8, <1>9, <1>10 DEF StreamInv

\* The four ways into recovery.
LEMMA RecoveryKeeps ==
  ASSUME StreamInv, Broken \/ Silent \/ Heartbeat \/ Probe
  PROVE StreamInv' /\ FeedStep
<1>1. /\ stream.at = "pull" /\ ~stream.pending /\ ~stream.closing
      /\ Resume /\ service' = service /\ seen' = seen /\ lost' = lost
  BY DEF Broken, Silent, Heartbeat, Probe, Pulling
<1>2. stream.snapshot = None
  <2>1. CASE Broken \/ Probe
    BY <2>1 DEF Broken, Probe
  <2>2. CASE Silent \/ Heartbeat
    <3>1. conn # NoConn
      BY <2>2, ConnFacts DEF Silent, Heartbeat
    <3> QED BY <3>1 DEF StreamInv, Ends
  <2> QED BY <2>1, <2>2
<1> QED BY <1>1, <1>2, ResumeKeeps

\* The user interrupts: only the end is waited for.
LEMMA RequestProbeKeeps ==
  ASSUME StreamInv, RequestProbe
  PROVE StreamInv' /\ FeedStep
<1> USE InvFacts
<1>1. /\ stream.at # "ended" /\ stream' = [stream EXCEPT !.control = TRUE, !.probe = TRUE]
      /\ service' = service /\ seen' = seen /\ lost' = lost /\ conn' = conn
  BY DEF RequestProbe
<1>2. /\ stream' \in Streams /\ stream'.at = stream.at /\ stream'.cursor = stream.cursor
      /\ stream'.phase = stream.phase /\ stream'.target = stream.target /\ stream'.initial = stream.initial
      /\ stream'.pending = stream.pending /\ stream'.snapshot = stream.snapshot /\ stream'.gap = stream.gap
      /\ stream'.control = TRUE /\ stream'.closing = stream.closing
      /\ stream'.answer = stream.answer /\ stream'.reason = stream.reason
  BY <1>1 DEF Streams
<1>3. Log' = Log
  BY <1>1 DEF Log
<1>4. Typed'
  BY <1>1, <1>2, <1>3 DEF StreamInv, Typed
<1>5. Ends'
  BY <1>1, <1>2, <1>3 DEF StreamInv, Ends
<1>6. Ordered'
  BY <1>1, <1>2, <1>3 DEF StreamInv, Ordered
<1>7. Phases'
  BY <1>1, <1>2 DEF StreamInv, Phases
<1>8. FeedStep
  BY <1>1, <1>2, ConnChanges
<1> QED BY <1>4, <1>5, <1>6, <1>7, <1>8 DEF StreamInv

\* In recovery nothing is closing, due or taken from an answer.
LEMMA RecoveringFacts ==
  ASSUME StreamInv, stream.at \in {"resume", "approvals"}
  PROVE /\ ~stream.closing /\ stream.snapshot = None /\ conn = NoConn /\ stream.reason = "none"
        /\ service.over => LastSeq(Log) > stream.cursor
<1> USE InvFacts
<1>1. ~stream.closing /\ stream.snapshot = None /\ conn = NoConn /\ stream.reason = "none"
  BY DEF StreamInv, Typed, Ends, Phases
<1>2. service.over => LastSeq(Log) > stream.cursor
  <2>1. stream.cursor <= LastSeq(Log)
    BY DEF StreamInv, Typed
  <2> QED BY <1>1, <2>1 DEF StreamInv, Ends
<1> QED BY <1>1, <1>2

\* A turn nobody has seen is submitted once more.
LEMMA SubmitAgainKeeps ==
  ASSUME StreamInv, SubmitAgain
  PROVE StreamInv' /\ FeedStep
<1> USE InvFacts
<1>1. PICK q \in Nat : q = stream.requests + 1
  BY DEF Streams
<1>2. stream' = [stream EXCEPT !.at = "pull", !.control = FALSE, !.target = stream.cursor, !.requests = q]
  BY <1>1 DEF SubmitAgain
<1>3. /\ stream.at = "resume" /\ conn' = ChatConn(stream'.requests)
      /\ service' = service /\ seen' = seen /\ lost' = lost
  BY DEF SubmitAgain
<1>4. /\ ~stream.closing /\ stream.snapshot = None /\ stream.reason = "none"
      /\ service.over => LastSeq(Log) > stream.cursor
  BY <1>3, RecoveringFacts
<1>5. /\ stream' \in Streams /\ stream'.at = "pull" /\ stream'.cursor = stream.cursor
      /\ stream'.phase = stream.phase /\ stream'.target = stream.cursor /\ stream'.initial = stream.initial
      /\ stream'.pending = stream.pending /\ stream'.snapshot = None /\ stream'.gap = stream.gap
      /\ stream'.control = FALSE /\ stream'.closing = FALSE
      /\ stream'.answer = stream.answer /\ stream'.reason = "none" /\ stream'.requests = q
  <2>1. stream' \in Streams
    BY <1>1, <1>2 DEF Streams
  <2> QED BY <1>1, <1>2, <1>4, <2>1 DEF Streams
<1>6. conn' \in Conns /\ conn'.kind = "chat" /\ conn'.after = 0 /\ conn' # NoConn
  BY <1>3, <1>5, ConnFacts
<1>7. Log' = Log /\ stream.cursor # None
  BY <1>3 DEF Log, None
<1>8. Typed'
  BY <1>3, <1>5, <1>6, <1>7 DEF StreamInv, Typed
<1>9. Ends'
  BY <1>3, <1>4, <1>5, <1>7 DEF StreamInv, Ends
<1>10. Ordered'
  BY <1>3, <1>5, <1>6, <1>7 DEF StreamInv, Ordered
<1>11. Phases'
  BY <1>5, <1>6, <1>7 DEF StreamInv, Phases
<1>12. FeedStep
  <2>1. SameFeed /\ Skipped' = Skipped /\ Ending = "no" /\ Ending' = "no"
    BY <1>3, <1>4, <1>5, SkippedSame, EndingIs, EndingNext DEF SameFeed
  <2> QED BY <1>5, <2>1, FeedRestarts
<1> QED BY <1>8, <1>9, <1>10, <1>11, <1>12 DEF StreamInv

\* A replay starts on a new connection.
LEMMA ReplayKeeps ==
  ASSUME StreamInv, stream.at \in {"resume", "approvals"},
         stream' \in Streams, stream'.at = "pull", stream'.cursor = stream.cursor,
         stream'.phase = "replaying",
         \/ stream'.target = stream.cursor /\ stream'.pending
         \/ stream'.target \in Log /\ stream'.target > stream.cursor /\ ~stream'.pending,
         stream'.initial = stream.initial, stream'.gap = stream.gap, stream'.closing = stream.closing,
         stream'.answer \in {None, stream.answer}, stream'.reason = stream.reason,
         \/ stream'.snapshot = stream.snapshot /\ conn' \in AttachConns(stream.cursor)
         \/ /\ stream'.snapshot = LastSeq(Log) /\ stream'.target = LastSeq(Log) /\ conn' = conn
            /\ service.over /\ (stream.gap \/ LastSeq(Log) = stream.cursor + 1),
         service' = service, seen' = seen, lost' = lost
  PROVE StreamInv' /\ FeedStep
<1> USE InvFacts
<1>1. /\ ~stream.closing /\ stream.snapshot = None /\ conn = NoConn /\ stream.reason = "none"
      /\ service.over => LastSeq(Log) > stream.cursor
  BY RecoveringFacts
<1>2. Log' = Log
  BY DEF Log
<1>3. /\ conn' \in Conns /\ conn'.after <= stream.cursor /\ conn'.kind # "chat"
      /\ conn'.kind = "none" => conn' = NoConn /\ stream'.snapshot # None
  <2>1. CASE stream'.snapshot = stream.snapshot /\ conn' \in AttachConns(stream.cursor)
    BY <2>1, ConnFacts
  <2>2. CASE stream'.snapshot = LastSeq(Log) /\ conn' = conn
    <3>1. stream'.snapshot # None
      BY <2>2 DEF None
    <3> QED BY <1>1, <2>2, <3>1, ConnFacts
  <2> QED BY <2>1, <2>2
<1>4. /\ stream'.target \in Log \cup {0} /\ stream'.target \in Nat /\ stream'.target # None
  <2>1. stream'.target \in Log \cup {0}
    BY DEF StreamInv, Typed
  <2> QED BY <2>1 DEF None
<1>5. Typed'
  <2>1. stream'.answer \in {None, 0} \cup Log
    BY DEF StreamInv, Typed
  <2> QED BY <1>1, <1>2, <1>3, <1>4, <2>1 DEF StreamInv, Typed
<1>6. Ends'
  <2>1. stream'.snapshot # None =>
          /\ service.over /\ stream'.snapshot = LastSeq(Log) /\ stream'.snapshot > stream.cursor
          /\ LastSeq(Log) \in Log /\ stream'.target = LastSeq(Log) /\ conn' = NoConn
          /\ stream.gap \/ stream'.snapshot = stream.cursor + 1
    BY <1>1
  <2> QED BY <1>1, <1>2, <2>1 DEF Ends
<1>7. Ordered'
  BY <1>2, <1>3 DEF StreamInv, Ordered
<1>8. Phases'
  BY <1>1, <1>3, <1>4 DEF Phases
<1>9. FeedStep
  <2>1. SameFeed /\ Skipped' = Skipped /\ Ending = "no" /\ Ending' = "no"
    BY <1>1, SkippedSame, EndingIs, EndingNext DEF SameFeed
  <2> QED BY <2>1, FeedReplays
<1> QED BY <1>5, <1>6, <1>7, <1>8, <1>9 DEF StreamInv

\* The turn is over: the rest is replayed or taken from the answer.
LEMMA StatusTerminalKeeps ==
  ASSUME StreamInv, StatusTerminal
  PROVE StreamInv' /\ FeedStep
<1> USE InvFacts
<1>1. PICK b : b = BeginReplay(stream, LastSeq(Log))
  OBVIOUS
<1>2. PICK s : s = [b EXCEPT !.at = "pull", !.control = FALSE, !.observed = TRUE]
  OBVIOUS
<1>3. /\ stream.at = "resume" /\ service.over /\ service' = service /\ seen' = seen /\ lost' = lost
      /\ \/ SnapshotSuffices(stream) /\ stream' = [s EXCEPT !.snapshot = LastSeq(Log)] /\ conn' = conn
         \/ stream' = s /\ conn' \in AttachConns(stream.cursor)
  BY <1>1, <1>2 DEF StatusTerminal, Log
<1>4. LastSeq(Log) > stream.cursor /\ LastSeq(Log) \in Log /\ stream.snapshot = None
  BY <1>3, RecoveringFacts
<1>5. OtherReplay(stream, b) /\ b.target = LastSeq(Log) /\ b.pending = FALSE /\ b.phase = "replaying"
  BY <1>1, <1>4, BeginFacts
<1>6. /\ s \in Streams /\ s.at = "pull" /\ s.cursor = stream.cursor /\ s.phase = "replaying"
      /\ s.target = LastSeq(Log) /\ s.pending = FALSE /\ s.snapshot = stream.snapshot
      /\ s.initial = stream.initial /\ s.gap = stream.gap /\ s.closing = stream.closing
      /\ s.answer = stream.answer /\ s.reason = stream.reason
  <2>1. b \in Streams
    BY <1>5 DEF OtherReplay
  <2> QED BY <1>2, <1>5, <2>1 DEF OtherReplay, Streams
<1>7. /\ stream' \in Streams /\ stream'.at = "pull" /\ stream'.cursor = stream.cursor
      /\ stream'.phase = "replaying" /\ stream'.target = LastSeq(Log) /\ stream'.pending = FALSE
      /\ stream'.initial = stream.initial /\ stream'.gap = stream.gap
      /\ stream'.closing = stream.closing /\ stream'.answer = stream.answer
      /\ stream'.reason = stream.reason
      /\ \/ SnapshotSuffices(stream) /\ stream'.snapshot = LastSeq(Log) /\ conn' = conn
         \/ stream'.snapshot = stream.snapshot /\ conn' \in AttachConns(stream.cursor)
  <2>1. CASE SnapshotSuffices(stream) /\ stream' = [s EXCEPT !.snapshot = LastSeq(Log)] /\ conn' = conn
    BY <1>6, <2>1 DEF Streams
  <2>2. CASE stream' = s /\ conn' \in AttachConns(stream.cursor)
    BY <1>6, <2>2
  <2> QED BY <1>3, <2>1, <2>2
<1>8. SnapshotSuffices(stream) => stream.gap \/ LastSeq(Log) = stream.cursor + 1
  BY DEF SnapshotSuffices, Log
<1> QED BY <1>3, <1>4, <1>7, <1>8, ReplayKeeps

\* The turn goes on, or its status is unknown.
LEMMA StatusActiveKeeps ==
  ASSUME StreamInv, StatusActive
  PROVE StreamInv' /\ FeedStep
<1> USE InvFacts
<1>1. PICK at \in {"pull", "approvals"} : at = IF stream.control THEN "pull" ELSE "approvals"
  OBVIOUS
<1>2. /\ stream.at = "resume" /\ service' = service /\ seen' = seen /\ lost' = lost /\ conn' = conn
      /\ \/ stream' = [stream EXCEPT !.at = at, !.observed = TRUE, !.answer = LastSeq(Log)]
         \/ stream' = [stream EXCEPT !.at = at, !.answer = stream.cursor]
  BY <1>1 DEF StatusActive, Log
<1>3. /\ ~stream.closing /\ stream.snapshot = None /\ conn = NoConn /\ stream.reason = "none"
      /\ service.over => LastSeq(Log) > stream.cursor
  BY <1>2, RecoveringFacts
<1>4. /\ stream' \in Streams /\ stream'.at = at /\ stream'.cursor = stream.cursor
      /\ stream'.phase = stream.phase /\ stream'.target = stream.target /\ stream'.initial = stream.initial
      /\ stream'.pending = stream.pending /\ stream'.snapshot = None /\ stream'.gap = stream.gap
      /\ stream'.control = stream.control /\ stream'.closing = FALSE /\ stream'.reason = "none"
      /\ stream'.answer \in {LastSeq(Log), stream.cursor}
  <2>1. CASE stream' = [stream EXCEPT !.at = at, !.observed = TRUE, !.answer = LastSeq(Log)]
    BY <1>3, <2>1 DEF Streams
  <2>2. CASE stream' = [stream EXCEPT !.at = at, !.answer = stream.cursor]
    BY <1>3, <2>2 DEF Streams
  <2> QED BY <1>2, <2>1, <2>2
<1>5. stream'.answer # None /\ stream'.answer \in Log \cup {0}
  BY <1>4 DEF StreamInv, Typed, None
<1>6. Log' = Log
  BY <1>2 DEF Log
<1>7. Typed'
  BY <1>2, <1>3, <1>4, <1>5, <1>6 DEF StreamInv, Typed
<1>8. Ends'
  BY <1>2, <1>3, <1>4, <1>6 DEF StreamInv, Ends
<1>9. Ordered'
  BY <1>2, <1>4, <1>6 DEF StreamInv, Ordered
<1>10. Phases'
  BY <1>1, <1>2, <1>3, <1>4, <1>5, ConnFacts DEF StreamInv, Phases
<1>11. FeedStep
  BY <1>2, <1>3, <1>4, ConnChanges
<1> QED BY <1>7, <1>8, <1>9, <1>10, <1>11 DEF StreamInv

\* The stream attaches behind its cursor.
LEMMA ReattachKeeps ==
  ASSUME StreamInv, Reattach
  PROVE StreamInv' /\ FeedStep
<1> USE InvFacts
<1>1. PICK n : n = Max({stream.answer, LastSeq(Log)})
  OBVIOUS
<1>2. PICK b : b = BeginReplay(stream, n)
  OBVIOUS
<1>3. PICK s : s = [b EXCEPT !.at = "pull", !.control = FALSE, !.observed = TRUE, !.answer = None]
  OBVIOUS
<1>4. /\ stream.at = "approvals" /\ stream' = [s EXCEPT !.pending = s.cursor >= n]
      /\ conn' \in AttachConns(stream.cursor) /\ service' = service /\ seen' = seen /\ lost' = lost
  BY <1>1, <1>2, <1>3 DEF Reattach, Log
<1>5. n \in Log \cup {0} /\ n \in Nat
  <2>1. stream.answer \in Nat /\ stream.answer \in Log \cup {0}
    BY <1>4 DEF StreamInv, Typed, Phases
  <2> QED BY <1>1, <2>1, MaxOfTwo
<1>6. /\ OtherReplay(stream, b) /\ b.phase = "replaying"
      /\ b.target = IF n > stream.cursor THEN n ELSE stream.cursor
  BY <1>2, <1>5, BeginFacts
<1>7. /\ s \in Streams /\ s.at = "pull" /\ s.cursor = stream.cursor /\ s.phase = "replaying"
      /\ s.target = b.target /\ s.snapshot = stream.snapshot /\ s.initial = stream.initial
      /\ s.gap = stream.gap /\ s.closing = stream.closing /\ s.answer = None
      /\ s.reason = stream.reason
  <2>1. b \in Streams
    BY <1>6 DEF OtherReplay
  <2>2. s \in Streams
    BY <1>3, <2>1 DEF Streams
  <2>3. /\ s.at = "pull" /\ s.cursor = b.cursor /\ s.phase = b.phase /\ s.target = b.target
        /\ s.snapshot = b.snapshot /\ s.initial = b.initial /\ s.gap = b.gap
        /\ s.closing = b.closing /\ s.answer = None /\ s.reason = b.reason
    BY <1>3, <2>1 DEF Streams
  <2> QED BY <1>6, <2>2, <2>3 DEF OtherReplay
<1>8. PICK p \in BOOLEAN : p <=> stream.cursor >= n
  OBVIOUS
<1>9. stream' = [s EXCEPT !.pending = p]
  BY <1>4, <1>5, <1>7, <1>8
<1>10. /\ stream' \in Streams /\ stream'.at = "pull" /\ stream'.cursor = stream.cursor
       /\ stream'.phase = "replaying" /\ stream'.target = b.target
       /\ stream'.snapshot = stream.snapshot /\ stream'.initial = stream.initial
       /\ stream'.gap = stream.gap /\ stream'.closing = stream.closing /\ stream'.answer = None
       /\ stream'.reason = stream.reason /\ (stream'.pending <=> stream.cursor >= n)
  BY <1>7, <1>8, <1>9 DEF Streams
<1>11. \/ stream'.target = stream.cursor /\ stream'.pending
       \/ stream'.target \in Log /\ stream'.target > stream.cursor /\ ~stream'.pending
  <2>1. CASE n > stream.cursor
    BY <1>5, <1>6, <1>10, <2>1
  <2>2. CASE ~(n > stream.cursor)
    BY <1>5, <1>6, <1>10, <2>2
  <2> QED BY <2>1, <2>2
<1> QED BY <1>4, <1>10, <1>11, ReplayKeeps

\* The approvals cannot be read: once more, or not at all.
LEMMA ApprovalsFailKeeps ==
  ASSUME StreamInv, ApprovalsFail
  PROVE StreamInv' /\ FeedStep
<1> USE InvFacts
<1>1. /\ stream.at = "approvals" /\ service' = service /\ seen' = seen /\ lost' = lost
      /\ \/ stream' = [stream EXCEPT !.at = "resume", !.phase = "reconnecting"] /\ conn' = conn
         \/ Fails
  BY DEF ApprovalsFail
<1>2. CASE Fails
  BY <1>1, <1>2, FinishKeeps DEF Fails
<1>3. CASE stream' = [stream EXCEPT !.at = "resume", !.phase = "reconnecting"] /\ conn' = conn
  <2>1. /\ ~stream.closing /\ stream.snapshot = None /\ conn = NoConn /\ stream.reason = "none"
    BY <1>1, RecoveringFacts
  <2>2. /\ stream' \in Streams /\ stream'.at = "resume" /\ stream'.cursor = stream.cursor
        /\ stream'.phase = "reconnecting" /\ stream'.target = stream.target
        /\ stream'.initial = stream.initial /\ stream'.pending = stream.pending
        /\ stream'.snapshot = stream.snapshot /\ stream'.gap = stream.gap
        /\ stream'.control = stream.control /\ stream'.closing = stream.closing
        /\ stream'.answer = stream.answer /\ stream'.reason = stream.reason
    BY <1>3 DEF Streams
  <2>3. Log' = Log
    BY <1>1 DEF Log
  <2>4. Typed'
    BY <1>1, <1>3, <2>1, <2>2, <2>3 DEF StreamInv, Typed
  <2>5. Ends'
    BY <1>1, <1>3, <2>1, <2>2, <2>3 DEF StreamInv, Ends
  <2>6. Ordered'
    BY <1>1, <1>3, <2>2, <2>3 DEF StreamInv, Ordered
  <2>7. Phases'
    BY <1>3, <2>1, <2>2 DEF StreamInv, Phases
  <2>8. FeedStep
    <3>1. SameFeed /\ Skipped' = Skipped /\ Ending = "no" /\ Ending' = "no"
      BY <1>1, <2>1, <2>2, SkippedSame, EndingIs, EndingNext DEF SameFeed
    <3> QED BY <2>2, <3>1, FeedBreaks
  <2> QED BY <2>4, <2>5, <2>6, <2>7, <2>8 DEF StreamInv
<1> QED BY <1>1, <1>2, <1>3
-----------------------------------------------------------------------------
(* The service. *)

\* A step that changes nothing but requests on their way.
LEMMA SameKeeps ==
  ASSUME StreamInv, service' = service, conn' = conn, stream' = stream, seen' = seen, lost' = lost
  PROVE StreamInv' /\ FeedStep
<1>1. Log' = Log
  BY DEF Log
<1>2. StreamInv'
  BY <1>1 DEF StreamInv, Typed, Ends, Ordered, Phases
<1>3. Skipped' = Skipped /\ Ending' = Ending
  BY DEF Skipped, Ending
<1>4. FeedStep
  BY <1>3, FeedStutters DEF SameFeed
<1> QED BY <1>2, <1>4

\* A request arrives; it is answered with events or refused.
LEMMA AcceptKeeps ==
  ASSUME StreamInv, NEW q, Accept(q)
  PROVE StreamInv' /\ FeedStep
<1> USE InvFacts
<1>1. /\ service' = [service EXCEPT !.known = TRUE] /\ seen' = seen /\ lost' = lost
      /\ \/ conn' = conn /\ stream' = stream
         \/ conn.kind = "chat" /\ conn' = [conn EXCEPT !.up = TRUE] /\ stream' = stream
         \/ conn.kind = "chat" /\ Fails
  BY DEF Accept
<1>2. /\ service' \in Services /\ service'.log = service.log /\ service'.over = service.over
      /\ service'.floor = service.floor
  BY <1>1 DEF Services
<1>3. Log' = Log
  BY <1>2 DEF Log
<1>4. CASE conn.kind = "chat" /\ Fails
  <2>1. stream.at # "ended"
    BY <1>4, ConnFacts DEF StreamInv, Phases
  <2> QED BY <1>1, <1>2, <1>4, <2>1, FinishKeeps DEF Fails
<1>5. CASE stream' = stream /\ \/ conn' = conn
                               \/ conn.kind = "chat" /\ conn' = [conn EXCEPT !.up = TRUE]
  <2>1. /\ conn' \in Conns /\ conn'.kind = conn.kind /\ conn'.after = conn.after
        /\ conn.kind = "none" => conn' = conn
    BY <1>5 DEF Conns
  <2>2. conn = NoConn => conn' = NoConn
    BY <1>5, ConnFacts
  <2>3. Typed'
    BY <1>1, <1>2, <1>3, <1>5, <2>1 DEF StreamInv, Typed
  <2>4. Ends'
    BY <1>1, <1>2, <1>3, <1>5, <2>2 DEF StreamInv, Ends
  <2>5. Ordered'
    BY <1>1, <1>3, <1>5, <2>1 DEF StreamInv, Ordered
  <2>6. Phases'
    BY <1>5, <2>1, <2>2 DEF StreamInv, Phases
  <2>7. FeedStep
    <3>1. Skipped' = Skipped /\ Ending' = Ending
      BY <1>1, <1>5 DEF Skipped, Ending
    <3> QED BY <1>1, <1>2, <1>5, <3>1, FeedStutters DEF SameFeed
  <2> QED BY <2>3, <2>4, <2>5, <2>6, <2>7 DEF StreamInv
<1> QED BY <1>1, <1>4, <1>5

\* A request that gets lost changes nothing the stream depends on.
LEMMA LostKeeps ==
  ASSUME StreamInv, NEW q, RequestLost(q)
  PROVE StreamInv' /\ FeedStep
<1>1. service' = service /\ conn' = conn /\ stream' = stream /\ seen' = seen /\ lost' = lost
  BY DEF RequestLost
<1> QED BY <1>1, SameKeeps

\* A sequence over a set is one over every larger set.
LEMMA SeqWider ==
  ASSUME NEW S, NEW T, S \subseteq T, NEW s \in Seq(S)
  PROVE s \in Seq(T)
OBVIOUS

\* The log grows at its end.
LEMMA PublishKeeps ==
  ASSUME StreamInv, Publish
  PROVE StreamInv' /\ FeedStep
<1> USE InvFacts
<1>1. PICK n \in {1, 2}, over \in BOOLEAN :
        /\ LastSeq(Log) + n <= MaxSeq
        /\ service' = [service EXCEPT !.log = @ \cup {LastSeq(Log) + n}, !.over = over]
  BY DEF Publish, Log
<1>2. PICK e \in Nat : e = LastSeq(Log) + n
  OBVIOUS
<1>3. e \in Events /\ e > LastSeq(Log)
  BY <1>1, <1>2, MaxSeqAssumption DEF Events
<1>4. service' = [service EXCEPT !.log = Log \cup {e}, !.over = over]
  BY <1>1, <1>2 DEF Log
<1>5. ~service.over /\ conn' = conn /\ stream' = stream /\ seen' = seen /\ lost' = lost
  BY DEF Publish
<1>6. /\ service' \in Services /\ Log' = Log \cup {e} /\ service'.floor = service.floor
      /\ service'.over = over
  BY <1>3, <1>4 DEF Services, Log
<1>7. LastSeq(Log') = e
  <2>1. \A f \in Log' : f \in Nat /\ f <= e
    BY <1>3, <1>6
  <2>2. Max(Log') = e
    BY <1>2, <1>6, <2>1, MaxIs
  <2> QED BY <1>6, <2>2 DEF LastSeq
<1>8. stream.cursor < e /\ (stream.snapshot = None) /\ ~stream.closing
  <2>1. stream.cursor <= LastSeq(Log)
    BY DEF StreamInv, Typed
  <2> QED BY <1>2, <1>3, <1>5, <2>1 DEF StreamInv, Ends
<1>9. Typed'
  <2>1. seen \in Seq(Log')
    BY <1>6, SeqWider DEF StreamInv, Typed
  <2>2. service.floor = 0 \/ (service.floor \in Log' /\ service.floor < e)
    BY <1>2, <1>3, <1>6 DEF StreamInv, Typed, Services
  <2> QED BY <1>5, <1>6, <1>7, <2>1, <2>2 DEF StreamInv, Typed
<1>10. Ends'
  BY <1>5, <1>6, <1>7, <1>8 DEF StreamInv, Ends
<1>11. Ordered'
  <2>1. {f \in Log' : f <= stream.cursor} = {f \in Log : f <= stream.cursor}
    BY <1>2, <1>6, <1>8
  <2> QED BY <1>5, <1>6, <2>1 DEF StreamInv, Ordered
<1>12. Phases'
  BY <1>5 DEF StreamInv, Phases
<1>13. FeedStep
  BY <1>3, <1>5, <1>6, FeedPublishes DEF Log
<1> QED BY <1>9, <1>10, <1>11, <1>12, <1>13 DEF StreamInv

\* The beginning of the log is no longer kept.
LEMMA ForgetKeeps ==
  ASSUME StreamInv, Forget
  PROVE StreamInv' /\ FeedStep
<1> USE InvFacts
<1>1. PICK n \in Log \ {LastSeq(Log)} : service' = [service EXCEPT !.floor = n]
  BY DEF Forget, Log
<1>2. conn' = conn /\ stream' = stream /\ seen' = seen /\ lost' = lost
  BY DEF Forget
<1>3. /\ service' \in Services /\ Log' = Log /\ service'.over = service.over /\ service'.floor = n
  BY <1>1 DEF Services, Log
<1>4. n < LastSeq(Log)
  BY <1>1
<1>5. Typed'
  BY <1>1, <1>2, <1>3, <1>4 DEF StreamInv, Typed
<1>6. Ends'
  BY <1>2, <1>3 DEF StreamInv, Ends
<1>7. Ordered'
  BY <1>2, <1>3 DEF StreamInv, Ordered
<1>8. Phases'
  BY <1>2 DEF StreamInv, Phases
<1>9. FeedStep
  <2>1. Skipped' = Skipped /\ Ending' = Ending
    BY <1>2 DEF Skipped, Ending
  <2> QED BY <1>2, <1>3, <2>1, FeedStutters DEF SameFeed, Log
<1> QED BY <1>5, <1>6, <1>7, <1>8, <1>9 DEF StreamInv

-----------------------------------------------------------------------------
(* The theorems. *)

\* Every step of the stream keeps the invariant and is a step of the feed.
LEMMA StepKeeps ==
  ASSUME StreamInv, [StreamNext]_streamvars
  PROVE StreamInv' /\ FeedStep
<1>1. CASE UNCHANGED streamvars
  <2>1. service' = service /\ conn' = conn /\ stream' = stream /\ seen' = seen /\ lost' = lost
    BY <1>1 DEF streamvars
  <2> QED BY <2>1, SameKeeps
<1>2. CASE StreamStep
  <2>1. CASE CatchUp
    BY <2>1, CatchUpKeeps
  <2>2. CASE CatchUpLate
    BY <2>2, CatchUpLateKeeps
  <2>3. CASE SettleStream \/ StatusFails
    BY <2>3, EndsKeep
  <2>4. CASE Open
    BY <2>4, SubmitKeeps, AttachKeeps
  <2>5. CASE Receive
    BY <2>5, ReceiveKeeps
  <2>6. CASE ReceiveSnapshot
    BY <2>6, ReceiveSnapshotKeeps
  <2>7. CASE ReceivePrefixGap
    BY <2>7, PrefixGapKeeps
  <2>8. CASE Silent \/ Probe \/ Heartbeat
    BY <2>8, RecoveryKeeps
  <2>9. CASE SubmitAgain
    BY <2>9, SubmitAgainKeeps
  <2>10. CASE StatusTerminal
    BY <2>10, StatusTerminalKeeps
  <2>11. CASE StatusActive
    BY <2>11, StatusActiveKeeps
  <2>12. CASE Reattach
    BY <2>12, ReattachKeeps
  <2>13. CASE ApprovalsFail
    BY <2>13, ApprovalsFailKeeps
  <2> QED
    BY <1>2, <2>1, <2>2, <2>3, <2>4, <2>5, <2>6, <2>7, <2>8, <2>9, <2>10, <2>11, <2>12, <2>13
    DEF StreamStep
<1>3. CASE ServiceStep
  BY <1>3, PublishKeeps, AcceptKeeps DEF ServiceStep
<1>4. CASE Broken
  BY <1>4, RecoveryKeeps
<1>5. CASE ReceiveInternalGap
  BY <1>5, InternalGapKeeps
<1>6. CASE RequestProbe
  BY <1>6, RequestProbeKeeps
<1>7. CASE Forget
  BY <1>7, ForgetKeeps
<1>8. CASE Cancel
  BY <1>8, EndsKeep
<1>9. CASE \E q \in wire : RequestLost(q)
  BY <1>9, LostKeeps
<1> QED BY <1>1, <1>2, <1>3, <1>4, <1>5, <1>6, <1>7, <1>8, <1>9 DEF StreamNext

\* A new stream, or one that attaches to a turn, starts well, and so does its feed.
LEMMA InitKeeps ==
  ASSUME StreamInit
  PROVE StreamInv /\ Feed!FeedInit
<1>1. PICK m \in Nat, submits \in BOOLEAN :
        /\ service.log = 1 .. m /\ m <= MaxSeq /\ service \in Services
        /\ service.over = FALSE /\ service.floor = 0
        /\ stream = NewStream(submits, IF submits THEN None ELSE m)
        /\ submits <=> m = 0
  <2>1. CASE /\ service = [known |-> FALSE, log |-> {}, over |-> FALSE, floor |-> 0]
             /\ stream = NewStream(TRUE, None)
    <3>1. service.log = 1 .. 0 /\ service \in Services /\ service.over = FALSE /\ service.floor = 0
      BY <2>1 DEF Services
    <3>2. stream = NewStream(TRUE, IF TRUE THEN None ELSE 0) /\ (TRUE <=> 0 = 0) /\ 0 <= MaxSeq
      BY <2>1, MaxSeqAssumption
    <3> WITNESS 0 \in Nat, TRUE \in BOOLEAN
    <3> QED BY <3>1, <3>2
  <2>2. CASE \E n \in 1 .. (MaxSeq - 1) :
               /\ service = [known |-> TRUE, log |-> 1 .. n, over |-> FALSE, floor |-> 0]
               /\ stream = NewStream(FALSE, n)
    <3>1. PICK n \in 1 .. (MaxSeq - 1) :
            /\ service = [known |-> TRUE, log |-> 1 .. n, over |-> FALSE, floor |-> 0]
            /\ stream = NewStream(FALSE, n)
      BY <2>2
    <3>2. n \in Nat /\ n > 0 /\ n <= MaxSeq /\ 1 .. n \in SUBSET Events
      BY MaxSeqAssumption DEF Events
    <3>3. service \in Services /\ service.log = 1 .. n /\ service.over = FALSE /\ service.floor = 0
      BY <3>1, <3>2 DEF Services
    <3>4. stream = NewStream(FALSE, IF FALSE THEN None ELSE n) /\ (FALSE <=> n = 0)
      BY <3>1, <3>2
    <3> WITNESS n \in Nat, FALSE \in BOOLEAN
    <3> QED BY <3>2, <3>3, <3>4
  <2> QED BY <2>1, <2>2 DEF StreamInit
<1>2. conn = NoConn /\ seen = << >> /\ lost = {}
  BY DEF StreamInit
<1>3. PICK i \in {None} \cup Nat : i = IF submits THEN None ELSE m
  OBVIOUS
<1>4. /\ stream \in Streams /\ stream.at = "pull" /\ stream.cursor = 0 /\ stream.phase = "none"
      /\ stream.target = None /\ stream.initial = i /\ stream.pending = FALSE
      /\ stream.snapshot = None /\ stream.gap = FALSE /\ stream.control = FALSE
      /\ stream.closing = FALSE /\ stream.answer = None /\ stream.reason = "none"
  <2>1. stream = NewStream(submits, i)
    BY <1>1, <1>3
  <2> QED BY <2>1 DEF NewStream, Streams
<1>5. Log = 1 .. m /\ Log \in SUBSET Events
  BY <1>1, MaxSeqAssumption DEF Log, Events
<1>6. i \in {None} \cup Log
  BY <1>1, <1>3, <1>5
<1>7. Len(seen) = 0 /\ Range(seen) = {}
  BY <1>2 DEF Range
<1>8. Typed
  BY <1>1, <1>2, <1>4, <1>6, ConnFacts DEF Typed
<1>9. Ends
  BY <1>1, <1>4 DEF Ends
<1>10. Ordered
  BY <1>2, <1>4, <1>5, <1>7, ConnFacts DEF Ordered
<1>11. Phases
  BY <1>2, <1>4, ConnFacts DEF Phases
<1>12. Feed!FeedInit
  <2>1. ~Skipped /\ Ending = "no"
    BY <1>2, <1>4 DEF Skipped, Ending
  <2>2. View = Feed!NewFeed
    <3>1. View = Feeds(0, "none", None, Skipped, Ending)
      BY <1>4 DEF View
    <3>2. PICK k \in BOOLEAN : k <=> Skipped
      OBVIOUS
    <3>3. Skipped = k
      BY <2>1, <3>2 DEF Skipped
    <3>4. View = Feeds(0, "none", None, FALSE, "no")
      BY <2>1, <3>1, <3>2, <3>3
    <3>5. Feed!NewFeed = Feeds(0, "none", None, FALSE, "no")
      BY DEF Feeds, Feed!NewFeed, Feed!None, None
    <3> QED BY <3>4, <3>5
  <2>3. m \in 0 .. MaxSeq
    BY <1>1, MaxSeqAssumption
  <2>4. service.log \in {1 .. n : n \in 0 .. MaxSeq}
    BY <1>1, <2>3
  <2>5. Feed!FeedInit <=> /\ service.log \in {1 .. n : n \in 0 .. MaxSeq} /\ service.over = FALSE
                          /\ View = Feed!NewFeed /\ seen = << >>
    BY DEF Feed!FeedInit, View, Feeds, Skipped, Ending
  <2> QED BY <1>1, <1>2, <2>2, <2>4, <2>5
<1> QED BY <1>8, <1>9, <1>10, <1>11, <1>12 DEF StreamInv

\* The invariant holds in every state the stream reaches.
THEOREM StreamInvariant == StreamSpec => []StreamInv
<1>1. StreamInit => StreamInv
  BY InitKeeps
<1>2. StreamInv /\ [StreamNext]_streamvars => StreamInv'
  BY StepKeeps
<1> QED BY <1>1, <1>2, PTL DEF StreamSpec

\* Type correctness: cursor, target, snapshot and answer are event numbers,
\* and the end of a replay is due only while there is a target.
THEOREM StreamTypes == StreamSpec => []StreamTypeOK
<1>1. StreamInv => StreamTypeOK
  <2> SUFFICES ASSUME StreamInv PROVE StreamTypeOK
    OBVIOUS
  <2>1. /\ Log \in SUBSET Events /\ stream \in Streams /\ conn \in Conns
    BY InvFacts
  <2>2. Log \cup {0} \subseteq 0 .. MaxSeq
    BY <2>1, MaxSeqAssumption DEF Events
  <2>3. stream.snapshot \in {None} \cup Log
    BY DEF StreamInv, Ends
  <2>4. /\ stream.cursor \in Log \cup {0} /\ stream.target \in {None, 0} \cup Log
        /\ stream.answer \in {None, 0} \cup Log
        /\ seen \in Seq(service.log) /\ lost \subseteq service.log
    BY DEF StreamInv, Typed, Log
  <2>5. /\ stream.at \in {"pull", "resume", "approvals", "ended"}
        /\ stream.phase \in {"none", "reconnecting", "replaying", "caught_up", "closed"}
        /\ conn.kind \in {"none", "chat", "attach"}
    BY <2>1 DEF Streams, Conns
  <2>6. stream.pending => stream.target # None
    BY DEF StreamInv, Phases
  <2> QED BY <2>2, <2>3, <2>4, <2>5, <2>6 DEF StreamTypeOK
<1> QED BY <1>1, StreamInvariant, PTL

\* Over any number of reconnects, replays and status answers the consumer
\* gets each event once and in order, and misses none below its cursor but
\* those the service announced to have dropped.
THEOREM DeliveredOnce == StreamSpec => []EachEventOnce
<1>1. StreamInv => EachEventOnce
  BY DEF StreamInv, Ordered, EachEventOnce, Log
<1> QED BY <1>1, StreamInvariant, PTL

\* A consumer that waits for a live event on an attached connection has been
\* told that the replay is over.
THEOREM WaitingIsCaughtUp == StreamSpec => []CaughtUpWhenWaiting
<1>1. StreamInv => CaughtUpWhenWaiting
  <2> SUFFICES ASSUME StreamInv, Pulling, conn.kind = "attach", stream.snapshot = None, Incoming = {},
                      ~stream.gap, stream.phase \in {"reconnecting", "replaying"}
               PROVE FALSE
    BY DEF CaughtUpWhenWaiting
  <2> USE InvFacts
  <2>1. /\ stream.phase = "replaying" /\ stream.target # None /\ stream.target > stream.cursor
    BY DEF Pulling, StreamInv, Phases
  <2>2. stream.target \in Log /\ stream.target \in Nat
    BY <2>1 DEF StreamInv, Typed
  <2>3. conn.after <= stream.cursor /\ conn.after \in Nat
    BY DEF StreamInv, Ordered, Conns
  <2>4. stream.target \in Incoming
    BY <2>1, <2>2, <2>3 DEF Incoming, Log
  <2> QED BY <2>4
<1> QED BY <1>1, StreamInvariant, PTL

\* Whatever connections, status answers, probes and gaps do, the owner of the
\* turn sees the feed that TurnFeed promises.
THEOREM KeepsTheFeed == StreamSpec => KeepsFeed
<1>1. StreamInit => Feed!FeedInit
  BY InitKeeps
<1>2. StreamInv /\ [StreamNext]_streamvars => [Feed!FeedNextStep]_(Feed!feedvars)
  BY StepKeeps DEF FeedStep
<1> QED BY <1>1, <1>2, StreamInvariant, PTL DEF StreamSpec, KeepsFeed, Feed!FeedSpec
=============================================================================
