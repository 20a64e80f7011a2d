---------------------------- MODULE ToolTurnProofs ----------------------------
(***************************************************************************)
(* Proofs about ToolTurn for any number of calls, events and troubles.     *)
(***************************************************************************)
EXTENDS ToolTurn, WellFoundedInduction, TLAPS

-----------------------------------------------------------------------------
(* Sequences, their elements, and least and greatest numbers. *)

\* Every nonempty set of natural numbers has a least element.
LEMMA MinExists ==
  ASSUME NEW T \in SUBSET Nat, T # {}
  PROVE \E x \in T : \A y \in T : x <= y
<1> DEFINE Less == {ss \in Nat \X Nat : ss[1] < ss[2]}
<1>1. IsWellFoundedOn(Less, Nat)
  BY NatLessThanWellFounded DEF OpToRel
<1> HIDE DEF Less
<1>2. PICK x \in T : \A y \in T : ~(<<y, x>> \in Less)
  BY <1>1, WFMin
<1>3. \A y \in T : ~(y < x)
  BY <1>2 DEF Less
<1> QED BY <1>3

\* Min is that element.
LEMMA MinIs ==
  ASSUME NEW T \in SUBSET Nat, T # {}
  PROVE Min(T) \in T /\ \A y \in T : Min(T) <= y
BY MinExists DEF Min

\* The elements of a concatenation, which repeats none if neither part does and
\* they share none.
LEMMA RangeConcat ==
  ASSUME NEW S, NEW s \in Seq(S), NEW t \in Seq(S)
  PROVE /\ s \o t \in Seq(S)
        /\ Range(s \o t) = Range(s) \cup Range(t)
        /\ IsInjective(s) /\ IsInjective(t) /\ Range(s) \cap Range(t) = {} => IsInjective(s \o t)
<1> DEFINE u == s \o t
           m == Len(s)
           n == Len(t)
<1>1. u \in Seq(S) /\ Len(u) = m + n /\ m \in Nat /\ n \in Nat
  OBVIOUS
<1>2. DOMAIN s = 1 .. m /\ DOMAIN t = 1 .. n /\ DOMAIN u = 1 .. (m + n)
  BY <1>1
<1>3. \A i \in 1 .. (m + n) : u[i] = IF i <= m THEN s[i] ELSE t[i - m]
  OBVIOUS
<1> HIDE DEF u, m, n
<1>4. \A i \in 1 .. m : i \in 1 .. (m + n) /\ u[i] = s[i]
  BY <1>1, <1>3
<1>5. \A i \in 1 .. n : i + m \in 1 .. (m + n) /\ u[i + m] = t[i]
  BY <1>1, <1>3
<1>6. \A i \in 1 .. (m + n) : i \in 1 .. m \/ i - m \in 1 .. n
  BY <1>1
<1>7. (\A k \in 1 .. m : s[k] \in Range(s)) /\ \A k \in 1 .. n : t[k] \in Range(t)
  BY <1>2 DEF Range
<1>8. Range(u) \subseteq Range(s) \cup Range(t)
  <2>1. \A i \in 1 .. (m + n) : u[i] \in Range(s) \cup Range(t)
    <3> TAKE i \in 1 .. (m + n)
    <3>1. CASE i <= m
      <4>1. i \in 1 .. m /\ u[i] = s[i]
        BY <1>1, <1>4, <3>1
      <4> QED BY <1>7, <4>1
    <3>2. CASE i > m
      <4>1. i - m \in 1 .. n /\ u[i] = t[i - m]
        BY <1>1, <1>3, <1>6, <3>2
      <4> QED BY <1>7, <4>1
    <3> QED BY <1>1, <3>1, <3>2
  <2> QED BY <1>2, <2>1 DEF Range
<1>9. Range(s) \cup Range(t) \subseteq Range(u)
  BY <1>2, <1>4, <1>5 DEF Range
<1>10. ASSUME IsInjective(s), IsInjective(t), Range(s) \cap Range(t) = {} PROVE IsInjective(u)
  <2> SUFFICES ASSUME NEW i \in 1 .. (m + n), NEW j \in 1 .. (m + n), u[i] = u[j]
               PROVE i = j
    BY <1>2 DEF IsInjective
  <2>1. CASE i <= m /\ j <= m
    BY <1>1, <1>2, <1>3, <1>10, <2>1 DEF IsInjective
  <2>2. CASE i > m /\ j > m
    <3>1. i - m \in 1 .. n /\ j - m \in 1 .. n /\ t[i - m] = t[j - m]
      BY <1>1, <1>3, <2>2
    <3>2. i - m = j - m
      BY <1>2, <1>10, <3>1 DEF IsInjective
    <3> QED BY <1>1, <3>2
  <2>3. CASE (i <= m /\ j > m) \/ (i > m /\ j <= m)
    <3>1. \A k \in 1 .. (m + n) : (k <= m => u[k] \in Range(s)) /\ (k > m => u[k] \in Range(t))
      <4> TAKE k \in 1 .. (m + n)
      <4>1. k <= m => k \in 1 .. m /\ u[k] = s[k]
        BY <1>1, <1>3
      <4>2. k > m => k - m \in 1 .. n /\ u[k] = t[k - m]
        BY <1>1, <1>3, <1>6
      <4> QED BY <1>7, <4>1, <4>2
    <3>2. (i <= m /\ j > m) \/ (i > m /\ j <= m) => u[i] # u[j]
      BY <1>10, <3>1
    <3> QED BY <2>3, <3>2
  <2> QED BY <1>1, <2>1, <2>2, <2>3
<1> QED BY <1>1, <1>8, <1>9, <1>10 DEF u

\* The elements of a sequence are its head and those of its tail.
LEMMA RangeTail ==
  ASSUME NEW S, NEW s \in Seq(S), s # << >>
  PROVE /\ Head(s) \in S /\ Tail(s) \in Seq(S)
        /\ Range(s) = {Head(s)} \cup Range(Tail(s))
        /\ IsInjective(s) => Head(s) \notin Range(Tail(s)) /\ IsInjective(Tail(s))
<1> DEFINE t == Tail(s)
           n == Len(s)
<1>1. n \in Nat /\ n >= 1 /\ Head(s) = s[1] /\ t \in Seq(S) /\ Len(t) = n - 1
  OBVIOUS
<1>2. DOMAIN s = 1 .. n /\ DOMAIN t = 1 .. (n - 1)
  BY <1>1
<1>3. \A i \in 1 .. (n - 1) : t[i] = s[i + 1]
  OBVIOUS
<1> HIDE DEF t, n
<1>4. \A i \in 1 .. (n - 1) : i + 1 \in 1 .. n /\ t[i] = s[i + 1]
  BY <1>1, <1>3
<1>5. \A i \in 1 .. n : i = 1 \/ (i - 1 \in 1 .. (n - 1) /\ s[i] = t[i - 1])
  BY <1>1, <1>3
<1>6. Head(s) \in S /\ 1 \in 1 .. n
  BY <1>1, <1>2
<1>7. Range(s) \subseteq {Head(s)} \cup Range(t)
  BY <1>1, <1>2, <1>5 DEF Range
<1>8. {Head(s)} \cup Range(t) \subseteq Range(s)
  BY <1>1, <1>2, <1>4, <1>6 DEF Range
<1>9. ASSUME IsInjective(s) PROVE Head(s) \notin Range(t) /\ IsInjective(t)
  <2>1. \A i \in 1 .. (n - 1) : i + 1 # 1 /\ t[i] # s[1]
    BY <1>1, <1>2, <1>4, <1>6, <1>9 DEF IsInjective
  <2>2. \A i, j \in 1 .. (n - 1) : t[i] = t[j] => i + 1 = j + 1
    BY <1>2, <1>4, <1>9 DEF IsInjective
  <2>3. \A i, j \in 1 .. (n - 1) : t[i] = t[j] => i = j
    BY <1>1, <2>2
  <2> QED BY <1>1, <1>2, <2>1, <2>3 DEF Range, IsInjective
<1> QED BY <1>1, <1>6, <1>7, <1>8, <1>9 DEF t

\* Max is the greatest element, where there is one.
LEMMA MaxIs ==
  ASSUME NEW T \in SUBSET Int, NEW m \in T, \A e \in T : e <= m
  PROVE Max(T) = m
<1>1. Max(T) \in T /\ \A e \in T : e <= Max(T)
  BY DEF Max
<1>2. Max(T) \in Int /\ m \in Int /\ m <= Max(T) /\ Max(T) <= m
  BY <1>1
<1> QED BY <1>2

\* A sequence of one element more.
LEMMA RangeAppend ==
  ASSUME NEW S, NEW s \in Seq(S), NEW x \in S
  PROVE /\ Append(s, x) \in Seq(S)
        /\ Range(Append(s, x)) = Range(s) \cup {x}
        /\ IsInjective(s) /\ x \notin Range(s) => IsInjective(Append(s, x))
<1> DEFINE t == Append(s, x)
           n == Len(s)
<1>1. n \in Nat /\ t \in Seq(S) /\ Len(t) = n + 1
  OBVIOUS
<1>2. DOMAIN s = 1 .. n /\ DOMAIN t = 1 .. (n + 1)
  BY <1>1
<1>3. t[n + 1] = x /\ \A i \in 1 .. n : t[i] = s[i]
  OBVIOUS
<1> HIDE DEF t, n
<1>4. \A i \in 1 .. (n + 1) : i = n + 1 \/ i \in 1 .. n
  BY <1>1
<1>5. 1 .. n \subseteq 1 .. (n + 1) /\ n + 1 \in 1 .. (n + 1)
  BY <1>1
<1>6. Range(t) = Range(s) \cup {x}
  BY <1>2, <1>3, <1>4, <1>5 DEF Range
<1>7. IsInjective(s) /\ x \notin Range(s) => IsInjective(t)
  BY <1>2, <1>3, <1>4, <1>5 DEF Range, IsInjective
<1> QED BY <1>1, <1>6, <1>7 DEF t

\* The empty sequence has no elements.
LEMMA RangeEmpty ==
  ASSUME NEW S
  PROVE << >> \in Seq(S) /\ Range(<< >>) = {} /\ IsInjective(<< >>)
BY DEF Range, IsInjective

\* The elements of a sequence over a set are in the set.
LEMMA RangeIn ==
  ASSUME NEW S, NEW s \in Seq(S)
  PROVE Range(s) \subseteq S
BY DEF Range

-----------------------------------------------------------------------------
(* The inductive invariant. *)

Statuses  == {"none", "asked", "settled", "waiting", "received", "closed"}
Decisions == {"none", "accept", "decline"}
Event     == [kind : {"text", "ask", "batch", "end"}, calls : Seq(Calls)]
Numbers   == {None} \cup Nat
Approves  == {"ask", "decided"}
Replaying == {"classify", "post", "status"}

Consumers == [at : {"read"} \cup Approves \cup Replaying, call : Calls \cup {None}, try : Nat,
              todo : Seq(Calls), keep : Seq(Calls)]
Workers   == [at : {"idle", "run", "save", "post", "status", "closed", "failed"},
              call : Calls \cup {None}, try : Nat, result : Numbers]

FeedTyped ==
  /\ log \in SUBSET (1 .. MaxSeq) /\ over \in BOOLEAN
  /\ feed \in [cursor : Nat, phase : {"none", "replaying", "caught_up", "closed"}, target : Numbers,
               skipped : {FALSE}, ended : {"no", "settled", "failed"}]
  /\ feed.cursor \in log \cup {0}
  /\ log = {} \/ \E m \in log : \A e \in log : e <= m
  /\ content \in [1 .. MaxSeq -> Event]

CallsTyped ==
  /\ remote \in [Calls -> [status : Statuses, approval : Decisions, result : Numbers]]
  /\ saved \in [Calls -> Numbers]
  /\ decided \in [Calls -> Decisions]
  /\ ledger \in [Calls -> {"unknown", "approved", "terminal", "consumed"}]
  /\ ran \in [Calls -> Nat] /\ torn \in [Calls -> Nat]

TasksTyped ==
  /\ task \in [consumer : Consumers, worker : Workers]
  /\ task.consumer.at \in Approves \cup {"post", "status"} => task.consumer.call \in Calls
  /\ task.consumer.at \in {"post", "status"} => task.consumer.todo # << >>
  /\ task.consumer.at = "read" => task.consumer = Reader
  /\ task.worker.at \in {"run", "save", "post", "status"} => task.worker.call \in Calls
  /\ tools \in [target : Numbers, replayed : Seq(Calls), queue : Seq(Calls), aborted : BOOLEAN]

Typed == FeedTyped /\ CallsTyped /\ TasksTyped

\* Event e asks about c, or brings it; c was brought to this observation.
AskOf(c, e)   == e \in log /\ content[e].kind = "ask" /\ content[e].calls[1] = c
BatchOf(c, e) == e \in log /\ content[e].kind = "batch" /\ c \in Range(content[e].calls)
Published(c)  == \E e \in log : BatchOf(c, e)
Given(c)      == \E e \in log : e <= feed.cursor /\ BatchOf(c, e)
Asking(c)     == task.consumer.at \in Approves /\ task.consumer.call = c
Unsaved(c)    == task.worker.at = "save" /\ task.worker.call = c /\ task.worker.result # 0

\* The service publishes each call once, and asks about it before, once.
Service ==
  /\ \A c \in Calls, e \in log : BatchOf(c, e) =>
       /\ remote[c].status \in {"waiting", "received", "closed"}
       /\ c \in Asks => remote[c].approval # "none" /\ \E a \in log : a < e /\ AskOf(c, a)
  /\ \A c \in Calls : \A e, f \in log : BatchOf(c, e) /\ BatchOf(c, f) => e = f
  /\ \A c \in Calls : \A e, f \in log : AskOf(c, e) /\ AskOf(c, f) => e = f
  /\ \A e \in log : content[e].kind = "batch" => IsInjective(content[e].calls)
  /\ \A e \in log : content[e].kind = "ask" => content[e].calls[1] \in Asks
  /\ \A c \in Calls, e \in log : AskOf(c, e) => remote[c].status # "none"
  /\ \A c \in Asks : remote[c].status # "none" => \E a \in log : AskOf(c, a)
  /\ \A e \in log : content[e] = Terminal => over
  /\ \A c \in Calls \ Asks : remote[c].status \notin {"asked", "settled"}

\* A call is in one place of the client, and only after its event.
Placed ==
  /\ IsInjective(tools.queue) /\ IsInjective(tools.replayed)
  /\ IsInjective(task.consumer.todo) /\ IsInjective(task.consumer.keep)
  /\ Range(tools.queue) \cap Range(tools.replayed) = {}
  /\ Range(task.consumer.todo) \cup Range(task.consumer.keep) \subseteq Range(tools.replayed)
  /\ Range(task.consumer.todo) \cap Range(task.consumer.keep) = {}
  /\ task.worker.call \notin Range(tools.queue) \cup Range(tools.replayed)
  /\ \A c \in Calls : c \in Range(tools.queue) \cup Range(tools.replayed) => Given(c)
  /\ \A c \in Calls : task.worker.call = c => Given(c)
  /\ task.worker.at = "idle" => task.worker.call = None

\* History is replayed up to the target, and classified after that.
Targets ==
  /\ tools.target \in {None, 0} \cup log
  /\ feed.target # None => \A e \in log : e <= tools.target => e <= feed.target
  /\ task.consumer.at \in Replaying => \A e \in log : e > feed.cursor => e > tools.target

\* A call that may still start here has been torn as often as it ran.
Counted ==
  /\ \A c \in Calls : ran[c] <= 1 + torn[c]
  /\ \A c \in Calls : ran[c] # 0 => Published(c)
  /\ \A c \in Calls : saved[c] = None /\ ~Unsaved(c) /\ (~over \/ c \in Range(tools.replayed) \/ ~Given(c))
       => ran[c] <= torn[c]
  /\ \A c \in Calls : task.worker.at = "run" /\ task.worker.call = c => ran[c] <= torn[c]
  /\ \A c \in Range(tools.queue) \cup Range(task.consumer.keep) : ran[c] <= torn[c]
  /\ \A c \in Calls, e \in log :
       Feeding /\ e > feed.cursor /\ ~Historical(e) /\ BatchOf(c, e) => ran[c] <= torn[c]
  /\ \A c \in Calls : feed.ended = "failed" => ~Unsaved(c)

\* Results are numbers of executions; the service has the one that is saved.
Results ==
  /\ \A c \in Calls : saved[c] \in {None} \cup 0 .. ran[c]
  /\ \A c \in Calls : task.worker.call = c => task.worker.result \in {None} \cup 0 .. ran[c]
  /\ task.worker.at = "save" => task.worker.result # None
  /\ ResultsAgree

\* What the user declined is closed here before its event is handled.
Declined ==
  /\ \A c \in Calls : decided[c] # "none" => c \in Asks
  /\ \A c \in Calls : remote[c].approval # "none" => remote[c].approval = decided[c]
  /\ \A c \in Asks : remote[c].status \in {"settled", "waiting", "received"} => remote[c].approval # "none"
  /\ \A c \in Asks : remote[c].status \in {"waiting", "received"} => remote[c].approval = "accept"
  /\ \A c \in Calls : remote[c].status \in {"none", "asked"} => remote[c].approval = "none"
  /\ \A c \in Calls : Asking(c) => c \in Asks /\ ~Given(c) /\ remote[c].status # "none"
  /\ \A c \in Calls : task.consumer.at = "decided" /\ task.consumer.call = c => decided[c] # "none"
  /\ \A c \in Calls : ledger[c] = "approved" => remote[c].approval = "accept"
  /\ \A c \in Calls, a \in log :
       Feeding /\ remote[c].approval = "decline" /\ a <= feed.cursor /\ AskOf(c, a)
         => ledger[c] = "terminal" \/ Asking(c)
  /\ \A c \in Range(task.consumer.keep) : decided[c] # "decline"
  /\ \A c \in Range(tools.queue) : decided[c] = "decline" => ledger[c] = "terminal"
  /\ \A c \in Calls : task.worker.at = "run" /\ task.worker.call = c => decided[c] # "decline"
  /\ DeclinedNeverRuns

TurnInv == Typed /\ Service /\ Placed /\ Targets /\ Counted /\ Results /\ Declined

-----------------------------------------------------------------------------
(* What leaves a part of the invariant alone.                               *)

\* Nothing new is published.
SameEvents == log' = log /\ content' = content /\ feed'.cursor = feed.cursor

\* With the same events, every call has been asked about and brought as before.
LEMMA SameEventsFacts ==
  ASSUME SameEvents
  PROVE /\ \A c, e : AskOf(c, e)' <=> AskOf(c, e)
        /\ \A c, e : BatchOf(c, e)' <=> BatchOf(c, e)
        /\ \A c : Published(c)' <=> Published(c)
        /\ \A c : Given(c)' <=> Given(c)
BY DEF SameEvents, AskOf, BatchOf, Published, Given

\* Calls stay what they are at the service, or get a result, or are closed.
CallsGoOn ==
  \A c \in Calls :
    /\ remote'[c].approval = remote[c].approval
    /\ remote'[c].status = remote[c].status
         \/ (remote[c].status = "waiting" /\ remote'[c].status \in {"received", "closed"})
         \/ (remote[c].status = "asked" /\ remote'[c].status = "closed")

\* The events stay true of the calls while these only go on.
LEMMA ServiceKeeps ==
  ASSUME Typed, Service, SameEvents, CallsGoOn, over => over'
  PROVE Service'
<1> USE SameEventsFacts
<1>1. log' = log /\ content' = content
  BY DEF SameEvents
<1>2. \A c \in Calls : remote'[c].approval = remote[c].approval
  BY DEF CallsGoOn
<1>3. \A c \in Calls : remote[c].status \in {"waiting", "received", "closed"} =>
         remote'[c].status \in {"waiting", "received", "closed"}
  BY DEF CallsGoOn
<1>4. \A c \in Calls : remote'[c].status = "none" <=> remote[c].status = "none"
  BY DEF CallsGoOn
<1>5. \A c \in Calls : remote'[c].status \in {"asked", "settled"} => remote[c].status \in {"asked", "settled"}
  BY DEF CallsGoOn
<1>6. Asks \subseteq Calls
  BY AsksAreCalls
<1>7. \A c \in Calls, e \in log : BatchOf(c, e) =>
       /\ remote'[c].status \in {"waiting", "received", "closed"}
       /\ c \in Asks => remote'[c].approval # "none" /\ \E a \in log : a < e /\ AskOf(c, a)
  BY <1>2, <1>3 DEF Service
<1>8. \A c \in Calls, e \in log : AskOf(c, e) => remote'[c].status # "none"
  BY <1>4 DEF Service
<1>9. \A c \in Asks : remote'[c].status # "none" => \E a \in log : AskOf(c, a)
  BY <1>4, <1>6 DEF Service
<1>10. \A c \in Calls \ Asks : remote'[c].status \notin {"asked", "settled"}
  BY <1>5 DEF Service
<1> QED BY <1>1, <1>7, <1>8, <1>9, <1>10 DEF Service

\* The client's queues and its worker's call stay, or are given up.
LEMMA PlacedKeeps ==
  ASSUME Typed, Placed, SameEvents,
         tools'.queue = tools.queue, tools'.replayed = tools.replayed,
         task'.worker.call \in {task.worker.call, None},
         task'.worker.at = "idle" => task'.worker.call = None,
         task'.consumer.todo \in Seq(Calls), task'.consumer.keep \in Seq(Calls),
         IsInjective(task'.consumer.todo), IsInjective(task'.consumer.keep),
         Range(task'.consumer.todo) \cup Range(task'.consumer.keep) \subseteq Range(tools.replayed),
         Range(task'.consumer.todo) \cap Range(task'.consumer.keep) = {}
  PROVE Placed'
<1> USE SameEventsFacts
<1>1. Range(tools.queue) \cup Range(tools.replayed) \subseteq Calls
  BY RangeIn DEF Typed, TasksTyped
<1>2. task'.worker.call \notin Range(tools.queue) \cup Range(tools.replayed)
  BY <1>1, CallsAssumption DEF Placed
<1>3. \A c \in Calls : task'.worker.call = c => Given(c)
  BY CallsAssumption DEF Placed
<1> QED BY <1>2, <1>3 DEF Placed

\* A step that moves no target keeps the replay within it.
LEMMA TargetsKeeps ==
  ASSUME Targets, SameEvents, tools'.target = tools.target, feed'.target = feed.target,
         task'.consumer.at \in Replaying => task.consumer.at \in Replaying
  PROVE Targets'
BY DEF Targets, SameEvents

\* A step that executes nothing and queues nothing keeps the counts.
LEMMA CountedKeeps ==
  ASSUME Typed, Counted, SameEvents, ran' = ran, torn' = torn, saved' = saved, over' = over,
         feed'.ended = "no" => feed.ended = "no",
         tools'.target = tools.target, Range(tools'.replayed) \subseteq Range(tools.replayed),
         Range(tools'.queue) \subseteq Range(tools.queue),
         Range(task'.consumer.keep) \subseteq Range(task.consumer.keep),
         \A c \in Calls : Unsaved(c) => Unsaved(c)' \/ saved[c] # None \/ (over /\ Given(c) /\ c \notin Range(tools.replayed)),
         \A c \in Calls : feed'.ended = "failed" => ~Unsaved(c)',
         task'.worker.at = "run" => task.worker.at = "run" /\ task'.worker.call = task.worker.call
  PROVE Counted'
<1> USE SameEventsFacts
<1>1. \A c \in Calls : saved'[c] = None /\ ~Unsaved(c)' /\ (~over' \/ c \in Range(tools'.replayed) \/ ~Given(c)')
       => ran'[c] <= torn'[c]
  BY DEF Counted
<1>2. \A c \in Calls, e \in log' :
       Feeding' /\ e > feed'.cursor /\ ~Historical(e)' /\ BatchOf(c, e)' => ran'[c] <= torn'[c]
  BY DEF Counted, SameEvents, Historical, Feeding
<1> QED BY <1>1, <1>2 DEF Counted, SameEvents

\* A result that was saved, or is about to be, stays the number of an execution.
LEMMA ResultsKeeps ==
  ASSUME Results, ran' = ran, saved' = saved,
         \A c \in Calls : task'.worker.call = c => task'.worker.result = None
           \/ (task.worker.call = c /\ task'.worker.result = task.worker.result),
         task'.worker.at = "save" => task'.worker.result # None,
         \A c \in Calls : remote'[c].result \in {remote[c].result, saved[c]}
  PROVE Results'
<1>1. \A c \in Calls : task'.worker.call = c => task'.worker.result \in {None} \cup 0 .. ran'[c]
  BY DEF Results
<1>2. ResultsAgree'
  BY DEF Results, ResultsAgree
<1> QED BY <1>1, <1>2 DEF Results

\* A step that asks nothing and queues nothing keeps what was declined closed.
LEMMA DeclinedKeeps ==
  ASSUME Typed, Declined, SameEvents, CallsGoOn, decided' = decided, ledger' = ledger, ran' = ran,
         feed'.ended = "no" => feed.ended = "no",
         \A c \in Calls : Asking(c)' => Asking(c),
         \A c \in Calls : feed'.ended = "no" /\ Asking(c) => Asking(c)',
         \A c \in Calls : task'.consumer.at = "decided" /\ task'.consumer.call = c => decided[c] # "none",
         Range(tools'.queue) \subseteq Range(tools.queue),
         Range(task'.consumer.keep) \subseteq Range(task.consumer.keep),
         task'.worker.at = "run" => task.worker.at = "run" /\ task'.worker.call = task.worker.call
  PROVE Declined'
<1> USE SameEventsFacts
<1>1. Asks \subseteq Calls
  BY AsksAreCalls
<1>2. /\ \A c \in Calls : remote'[c].approval = remote[c].approval
      /\ \A c \in Calls : remote'[c].status \in {"settled", "waiting", "received"} =>
           remote[c].status \in {"settled", "waiting", "received"}
      /\ \A c \in Calls : remote'[c].status \in {"waiting", "received"} =>
           remote[c].status \in {"waiting", "received"}
      /\ \A c \in Calls : remote'[c].status \in {"none", "asked"} => remote'[c].status = remote[c].status
      /\ \A c \in Calls : remote[c].status # "none" => remote'[c].status # "none"
  BY DEF CallsGoOn
<1>3. \A c \in Calls : Asking(c)' => c \in Asks /\ ~Given(c)' /\ remote'[c].status # "none"
  BY <1>2 DEF Declined
<1>4. \A c \in Calls, a \in log' :
       Feeding' /\ remote'[c].approval = "decline" /\ a <= feed'.cursor /\ AskOf(c, a)'
         => ledger'[c] = "terminal" \/ Asking(c)'
  BY <1>2 DEF Declined, SameEvents, Feeding
<1>5. \A c \in Range(task'.consumer.keep) : decided'[c] # "decline"
  BY DEF Declined
<1>6. \A c \in Range(tools'.queue) : decided'[c] = "decline" => ledger'[c] = "terminal"
  BY DEF Declined
<1>7. \A c \in Calls : task'.worker.at = "run" /\ task'.worker.call = c => decided'[c] # "decline"
  BY DEF Declined
<1>8. DeclinedNeverRuns'
  BY DEF Declined, DeclinedNeverRuns
<1>9. \A c \in Asks : remote'[c].status \in {"settled", "waiting", "received"} => remote'[c].approval # "none"
  BY <1>1, <1>2 DEF Declined
<1>10. \A c \in Asks : remote'[c].status \in {"waiting", "received"} => remote'[c].approval = "accept"
  BY <1>1, <1>2 DEF Declined
<1>11. \A c \in Calls : remote'[c].status \in {"none", "asked"} => remote'[c].approval = "none"
  BY <1>2 DEF Declined
<1>12. /\ \A c \in Calls : decided'[c] # "none" => c \in Asks
       /\ \A c \in Calls : remote'[c].approval # "none" => remote'[c].approval = decided'[c]
       /\ \A c \in Calls : ledger'[c] = "approved" => remote'[c].approval = "accept"
  BY <1>2 DEF Declined
<1> QED BY <1>3, <1>4, <1>5, <1>6, <1>7, <1>8, <1>9, <1>10, <1>11, <1>12 DEF Declined
-----------------------------------------------------------------------------
(* The tasks.                                                               *)

\* The tasks of a new process.
LEMMA NewTasksFacts ==
  /\ Reader \in Consumers /\ IdleWorker \in Workers
  /\ NewTasks \in [consumer : Consumers, worker : Workers]
  /\ NewTasks.consumer = Reader /\ NewTasks.worker = IdleWorker
  /\ Reader.at = "read" /\ Reader.call = None /\ Reader.todo = << >> /\ Reader.keep = << >>
  /\ IdleWorker.at = "idle" /\ IdleWorker.call = None /\ IdleWorker.result = None
<1>1. << >> \in Seq(Calls)
  BY RangeEmpty
<1> QED BY <1>1 DEF NewTasks, Reader, IdleWorker, Consumers, Workers, Numbers

\* An assignment to one task.
LEMMA WorkerSet ==
  ASSUME TasksTyped, NEW w \in Workers, task' = [task EXCEPT !.worker = w],
         w.at \in {"run", "save", "post", "status"} => w.call \in Calls,
         tools' \in [target : Numbers, replayed : Seq(Calls), queue : Seq(Calls), aborted : BOOLEAN]
  PROVE TasksTyped' /\ task'.worker = w /\ task'.consumer = task.consumer
BY DEF TasksTyped

\* The consumer changes, the worker does not.
LEMMA ConsumerSet ==
  ASSUME TasksTyped, NEW t \in Consumers, task' = [task EXCEPT !.consumer = t],
         t.at \in Approves \cup {"post", "status"} => t.call \in Calls,
         t.at \in {"post", "status"} => t.todo # << >>, t.at = "read" => t = Reader,
         tools' \in [target : Numbers, replayed : Seq(Calls), queue : Seq(Calls), aborted : BOOLEAN]
  PROVE TasksTyped' /\ task'.consumer = t /\ task'.worker = task.worker
BY DEF TasksTyped

\* The worker goes on with its call.
LEMMA WorkerAt ==
  ASSUME NEW w \in Workers, NEW a \in {"run", "save", "post", "status", "closed", "failed"}
  PROVE /\ [w EXCEPT !.at = a] \in Workers /\ [w EXCEPT !.at = a].at = a
        /\ [w EXCEPT !.at = a].call = w.call /\ [w EXCEPT !.at = a].result = w.result
BY DEF Workers

\* The worker tries once more.
LEMMA WorkerTries ==
  ASSUME NEW w \in Workers
  PROVE LET n == [w EXCEPT !.at = "status", !.try = @ + 1] IN
          n \in Workers /\ n.at = "status" /\ n.call = w.call /\ n.result = w.result
<1> DEFINE k == w.try + 1
<1>1. k \in Nat
  BY DEF Workers
<1> HIDE DEF k
<1> DEFINE n == [w EXCEPT !.at = "status", !.try = k]
<1>2. n \in Workers /\ n.at = "status" /\ n.call = w.call /\ n.result = w.result
  BY <1>1 DEF Workers
<1> QED BY <1>2 DEF k

\* The consumer goes on with its call and the calls it has to classify.
LEMMA ConsumerAt ==
  ASSUME NEW t \in Consumers, NEW a \in {"ask", "decided", "classify", "post", "status"}
  PROVE /\ [t EXCEPT !.at = a] \in Consumers /\ [t EXCEPT !.at = a].at = a
        /\ [t EXCEPT !.at = a].call = t.call /\ [t EXCEPT !.at = a].todo = t.todo
        /\ [t EXCEPT !.at = a].keep = t.keep
BY DEF Consumers, Approves, Replaying

\* The consumer tries once more.
LEMMA ConsumerTries ==
  ASSUME NEW t \in Consumers
  PROVE LET n == [t EXCEPT !.at = "status", !.try = @ + 1] IN
          n \in Consumers /\ n.at = "status" /\ n.call = t.call /\ n.todo = t.todo /\ n.keep = t.keep
<1> DEFINE k == t.try + 1
<1>1. k \in Nat
  BY DEF Consumers
<1> HIDE DEF k
<1> DEFINE n == [t EXCEPT !.at = "status", !.try = k]
<1>2. n \in Consumers /\ n.at = "status" /\ n.call = t.call /\ n.todo = t.todo /\ n.keep = t.keep
  BY <1>1 DEF Consumers, Replaying
<1> QED BY <1>2 DEF k

\* The next call to classify.
LEMMA NextToDoFacts ==
  ASSUME NEW t \in Consumers, t.todo # << >>
  PROVE /\ NextToDo(t) \in Consumers /\ NextToDo(t).at = "classify" /\ NextToDo(t).call = t.call
        /\ NextToDo(t).todo = Tail(t.todo) /\ NextToDo(t).keep = t.keep
        /\ Head(t.todo) \in Calls /\ Tail(t.todo) \in Seq(Calls)
        /\ Range(t.todo) = {Head(t.todo)} \cup Range(Tail(t.todo))
        /\ IsInjective(t.todo) => Head(t.todo) \notin Range(Tail(t.todo)) /\ IsInjective(Tail(t.todo))
<1>1. t.todo \in Seq(Calls)
  BY DEF Consumers
<1>2. /\ Head(t.todo) \in Calls /\ Tail(t.todo) \in Seq(Calls)
      /\ Range(t.todo) = {Head(t.todo)} \cup Range(Tail(t.todo))
      /\ IsInjective(t.todo) => Head(t.todo) \notin Range(Tail(t.todo)) /\ IsInjective(Tail(t.todo))
  BY <1>1, RangeTail
<1>3. /\ NextToDo(t) \in Consumers /\ NextToDo(t).at = "classify" /\ NextToDo(t).call = t.call
      /\ NextToDo(t).todo = Tail(t.todo) /\ NextToDo(t).keep = t.keep
  BY <1>2 DEF NextToDo, Consumers, Replaying
<1> QED BY <1>2, <1>3

\* A new dispatcher holds no call.
LEMMA NoTools ==
  ASSUME NEW n \in Numbers
  PROVE /\ NewTools(n) \in [target : Numbers, replayed : Seq(Calls), queue : Seq(Calls), aborted : BOOLEAN]
        /\ NewTools(n).target = n /\ Range(NewTools(n).queue) = {} /\ Range(NewTools(n).replayed) = {}
        /\ IsInjective(NewTools(n).queue) /\ IsInjective(NewTools(n).replayed)
<1>1. << >> \in Seq(Calls) /\ Range(<< >>) = {} /\ IsInjective(<< >>)
  BY RangeEmpty
<1> QED BY <1>1 DEF NewTools

\* The observation stops: what ran and was not saved is torn.
LEMMA FailsKeep ==
  ASSUME TurnInv, TurnFails, UNCHANGED <<content, saved, decided, ran>>
  PROVE /\ FeedTyped' /\ TasksTyped' /\ torn' \in [Calls -> Nat]
        /\ Placed' /\ Targets' /\ Counted'
        /\ SameEvents /\ over' = over /\ feed'.ended = "failed"
        /\ task'.worker = IdleWorker /\ task'.consumer = Reader /\ Range(tools'.queue) = {}
<1> USE NewTasksFacts DEF TurnInv, Typed
<1>1. /\ feed' = [feed EXCEPT !.ended = "failed"] /\ task' = NewTasks /\ tools' = NewTools(None)
      /\ UNCHANGED <<log, over, content>>
      /\ torn' = [c \in Calls |-> IF Unsaved(c) THEN torn[c] + 1 ELSE torn[c]]
  BY DEF TurnFails, StopTurn, Unsaved
<1>2. /\ tools' \in [target : Numbers, replayed : Seq(Calls), queue : Seq(Calls), aborted : BOOLEAN]
      /\ tools'.target = None /\ Range(tools'.queue) = {} /\ Range(tools'.replayed) = {}
      /\ IsInjective(tools'.queue) /\ IsInjective(tools'.replayed)
  BY <1>1, NoTools DEF Numbers
<1>3. FeedTyped' /\ SameEvents /\ feed'.ended = "failed" /\ feed'.target = feed.target
  BY <1>1 DEF FeedTyped, SameEvents
<1>4. TasksTyped' /\ task'.worker = IdleWorker /\ task'.consumer = Reader
  BY <1>1, <1>2 DEF TasksTyped, Approves
<1>5. torn' \in [Calls -> Nat] /\ \A c \in Calls : torn[c] <= torn'[c] /\ (Unsaved(c) => torn'[c] = torn[c] + 1)
  BY <1>1 DEF CallsTyped
<1>6. Range(Reader.todo) = {} /\ Range(Reader.keep) = {} /\ IsInjective(Reader.todo) /\ IsInjective(Reader.keep)
  BY RangeEmpty
<1>7. Placed'
  BY <1>2, <1>4, <1>6, CallsAssumption DEF Placed
<1>8. Targets'
  BY <1>1, <1>2, <1>3, <1>4 DEF Targets, Replaying, None, FeedTyped
<1>9. Counted'
  <2> USE SameEventsFacts, <1>3
  <2>1. \A c \in Calls : ran[c] \in Nat /\ torn[c] \in Nat /\ torn'[c] \in Nat
    BY <1>5 DEF CallsTyped
  <2>2. \A c \in Calls : ran[c] <= 1 + torn'[c]
    BY <1>5, <2>1 DEF Counted
  <2>3. \A c \in Calls : saved[c] = None /\ ~over => ran[c] <= torn'[c]
    BY <1>5, <2>1 DEF Counted
  <2>4. \A c \in Calls : saved[c] = None /\ ~Given(c) => ran[c] <= torn'[c]
    BY <1>5, <2>1 DEF Counted
  <2>5. ran' = ran /\ saved' = saved /\ over' = over
    BY <1>1
  <2>6. \A c \in Calls : ~Unsaved(c)'
    BY <1>4 DEF Unsaved
  <2> QED BY <1>2, <1>4, <1>6, <2>2, <2>3, <2>4, <2>5, <2>6 DEF Counted, Feeding
<1> QED BY <1>1, <1>2, <1>3, <1>4, <1>5, <1>7, <1>8, <1>9
-----------------------------------------------------------------------------
(* Deliveries, and other steps that bring nothing new to the client.        *)

\* The worker goes on with its result, or is done with it.
WorkerGoesOn(w) ==
  \/ w = task.worker
  \/ w = IdleWorker /\ task.worker.at \notin {"run", "save"}
  \/ /\ w.call = task.worker.call /\ w.result = task.worker.result
     /\ w.at \in {"post", "status", "closed", "failed"} /\ task.worker.at # "save"

\* The consumer goes on with the calls to classify, or stops that.
ConsumerGoesOn(t) ==
  \/ t = task.consumer
  \/ t = Reader /\ task.consumer.at \in Replaying
  \/ /\ t.at \in Replaying /\ task.consumer.at \in Replaying /\ t.keep = task.consumer.keep
     /\ t.todo = task.consumer.todo \/ (task.consumer.todo # << >> /\ t.todo = Tail(task.consumer.todo))

\* A delivery that goes on, ends or gives up keeps the invariant.
LEMMA DeliveryKeeps ==
  ASSUME TurnInv, TasksTyped', UNCHANGED <<log, over, feed, content, saved, decided, ledger, ran, torn>>,
         remote' \in [Calls -> [status : Statuses, approval : Decisions, result : Numbers]],
         CallsGoOn, \A c \in Calls : remote'[c].result \in {remote[c].result, saved[c]},
         WorkerGoesOn(task'.worker), ConsumerGoesOn(task'.consumer),
         tools'.target = tools.target, tools'.queue = tools.queue, tools'.replayed = tools.replayed
  PROVE TurnInv'
<1> USE NewTasksFacts DEF TurnInv, Typed
<1>1. SameEvents
  BY DEF SameEvents
<1>2. Typed'
  BY DEF FeedTyped, CallsTyped
<1>3. Service'
  BY <1>1, ServiceKeeps
<1>4. /\ task'.worker.call \in {task.worker.call, None}
      /\ task'.worker.at = "idle" => task'.worker.call = None
      /\ task'.worker.at = "run" => task.worker.at = "run" /\ task'.worker.call = task.worker.call
      /\ \A c \in Calls : task'.worker.call = c => task'.worker.result = None
           \/ (task.worker.call = c /\ task'.worker.result = task.worker.result)
      /\ \A c \in Calls : Unsaved(c) <=> Unsaved(c)'
      /\ task'.worker.at = "save" => task'.worker.result # None
  BY DEF WorkerGoesOn, Placed, Unsaved, Results
<1>5. /\ task'.consumer.todo \in Seq(Calls) /\ task'.consumer.keep \in Seq(Calls)
      /\ IsInjective(task'.consumer.todo) /\ IsInjective(task'.consumer.keep)
      /\ Range(task'.consumer.todo) \subseteq Range(task.consumer.todo)
      /\ Range(task'.consumer.keep) \subseteq Range(task.consumer.keep)
  <2>1. /\ task.consumer \in Consumers /\ task.consumer.todo \in Seq(Calls) /\ task.consumer.keep \in Seq(Calls)
        /\ IsInjective(task.consumer.todo) /\ IsInjective(task.consumer.keep)
    BY DEF TasksTyped, Consumers, Placed
  <2>2. CASE task'.consumer = task.consumer
    BY <2>1, <2>2
  <2>3. CASE task'.consumer = Reader
    BY <2>3, RangeEmpty
  <2>4. CASE task'.consumer.keep = task.consumer.keep /\ task'.consumer.todo = task.consumer.todo
    BY <2>1, <2>4
  <2>5. CASE /\ task'.consumer.keep = task.consumer.keep
             /\ task.consumer.todo # << >> /\ task'.consumer.todo = Tail(task.consumer.todo)
    BY <2>1, <2>5, NextToDoFacts
  <2> QED BY <2>2, <2>3, <2>4, <2>5 DEF ConsumerGoesOn
<1>6. task'.consumer.at \in Replaying => task.consumer.at \in Replaying
  BY DEF ConsumerGoesOn, Replaying
<1>7. /\ \A c \in Calls : Asking(c)' => Asking(c)
      /\ \A c \in Calls : Asking(c) => Asking(c)'
  BY DEF ConsumerGoesOn, Asking, Replaying, Approves
<1>8. Placed'
  BY <1>1, <1>4, <1>5, PlacedKeeps DEF Placed
<1>9. \A c \in Calls : task'.consumer.at = "decided" /\ task'.consumer.call = c => decided[c] # "none"
  BY DEF ConsumerGoesOn, Replaying, Declined
<1>10. Targets'
  BY <1>1, <1>6, TargetsKeeps
<1>11. Counted'
  <2>1. \A c \in Calls : feed'.ended = "failed" => ~Unsaved(c)'
    BY <1>4 DEF Counted
  <2> QED BY <1>1, <1>4, <1>5, <2>1, CountedKeeps
<1>12. Results'
  BY <1>4, ResultsKeeps
<1>13. Declined'
  BY <1>1, <1>4, <1>5, <1>7, <1>9, DeclinedKeeps
<1> QED BY <1>2, <1>3, <1>8, <1>10, <1>11, <1>12, <1>13

\* The service has the saved result, or nothing changes.
LEMMA ReceivedFacts ==
  ASSUME TurnInv, NEW c \in Calls, remote' \in {remote, Received(c)}
  PROVE /\ remote' \in [Calls -> [status : Statuses, approval : Decisions, result : Numbers]]
        /\ CallsGoOn /\ \A d \in Calls : remote'[d].result \in {remote[d].result, saved[d]}
<1>1. remote \in [Calls -> [status : Statuses, approval : Decisions, result : Numbers]] /\ saved[c] \in Numbers
  BY DEF TurnInv, Typed, CallsTyped
<1>2. CASE remote' = remote
  BY <1>1, <1>2 DEF CallsGoOn
<1>3. CASE remote' # remote
  <2> DEFINE v == [remote[c] EXCEPT !.status = "received", !.result = saved[c]]
  <2>1. remote' = [remote EXCEPT ![c] = v] /\ remote[c].status = "waiting"
    BY <1>3 DEF Received
  <2>2. /\ v \in [status : Statuses, approval : Decisions, result : Numbers]
        /\ v.status = "received" /\ v.result = saved[c] /\ v.approval = remote[c].approval
    BY <1>1 DEF Statuses
  <2> HIDE DEF v
  <2> QED BY <1>1, <2>1, <2>2 DEF CallsGoOn
<1> QED BY <1>2, <1>3

\* A step that fails keeps the invariant if it leaves the approvals alone.
LEMMA FailureKeeps ==
  ASSUME TurnInv, TurnFails, UNCHANGED <<content, saved, decided, ledger, ran>>,
         remote' \in [Calls -> [status : Statuses, approval : Decisions, result : Numbers]],
         CallsGoOn, \A c \in Calls : remote'[c].result \in {remote[c].result, saved[c]}
  PROVE TurnInv'
<1> USE NewTasksFacts DEF TurnInv, Typed
<1>1. /\ FeedTyped' /\ TasksTyped' /\ torn' \in [Calls -> Nat]
      /\ Placed' /\ Targets' /\ Counted'
      /\ SameEvents /\ over' = over /\ feed'.ended = "failed"
      /\ task'.worker = IdleWorker /\ task'.consumer = Reader /\ Range(tools'.queue) = {}
  BY FailsKeep
<1>2. CallsTyped'
  BY <1>1 DEF CallsTyped
<1>3. Service'
  BY <1>1, ServiceKeeps
<1>4. Results'
  BY <1>1, ResultsKeeps
<1>5. Declined'
  <2>1. \A c \in Calls : ~Asking(c)'
    BY <1>1 DEF Asking, Approves
  <2>2. Range(task'.consumer.keep) = {}
    BY <1>1, RangeEmpty
  <2> QED BY <1>1, <2>1, <2>2, DeclinedKeeps
<1> QED BY <1>1, <1>2, <1>3, <1>4, <1>5

\* How a delivery of either task ends.
LEMMA DeliveryEnds ==
  ASSUME TurnInv, NEW who \in {"worker", "consumer"}, task[who].at \in {"post", "status"},
         \/ Delivered(who) \/ ClosedError(who) \/ DeliveryFails(who)
         \/ task' = [task EXCEPT ![who].at = "post"] /\ UNCHANGED <<feedvars, tools, torn>>
         \/ task' = [task EXCEPT ![who].at = "status", ![who].try = @ + 1] /\ UNCHANGED <<feedvars, tools, torn>>
  PROVE \/ TurnFails
        \/ /\ UNCHANGED <<log, over, feed, torn>> /\ TasksTyped'
           /\ WorkerGoesOn(task'.worker) /\ ConsumerGoesOn(task'.consumer)
           /\ tools'.target = tools.target /\ tools'.queue = tools.queue /\ tools'.replayed = tools.replayed
<1> DEFINE w == task.worker
           t == task.consumer
           Tools == [target : Numbers, replayed : Seq(Calls), queue : Seq(Calls), aborted : BOOLEAN]
<1> USE NewTasksFacts DEF feedvars
<1>1. TasksTyped /\ w \in Workers /\ t \in Consumers /\ tools \in Tools
  BY DEF TurnInv, Typed, TasksTyped
<1>2. CASE who = "worker"
  <2>1. w.at \in {"post", "status"} /\ w.call \in Calls
    BY <1>1, <1>2 DEF TasksTyped
  <2>2. CASE Delivered(who)
    <3>1. task' = [task EXCEPT !.worker = IdleWorker] /\ UNCHANGED <<log, over, feed, tools, torn>>
      BY <1>2, <2>2 DEF Delivered
    <3> QED BY <1>1, <2>1, <3>1, WorkerSet DEF WorkerGoesOn, ConsumerGoesOn
  <2>3. ASSUME NEW a \in {"post", "closed", "failed"}, task' = [task EXCEPT !.worker = [w EXCEPT !.at = a]],
               UNCHANGED <<log, over, feed, tools, torn>>
        PROVE /\ TasksTyped' /\ WorkerGoesOn(task'.worker) /\ ConsumerGoesOn(task'.consumer)
    <3> DEFINE n == [w EXCEPT !.at = a]
    <3>1. task' = [task EXCEPT !.worker = n]
      BY <2>3
    <3>2. n \in Workers /\ n.at = a /\ n.call = w.call /\ n.result = w.result
      <4>1. w \in Workers
        BY <1>1
      <4> HIDE DEF w
      <4> QED BY <4>1 DEF Workers
    <3> HIDE DEF n
    <3>3. TasksTyped' /\ task'.worker = n /\ task'.consumer = t
      BY <1>1, <2>1, <2>3, <3>1, <3>2, WorkerSet
    <3> QED BY <2>1, <3>2, <3>3 DEF WorkerGoesOn, ConsumerGoesOn
  <2>4. CASE ClosedError(who)
    <3>1. task' = [task EXCEPT !.worker = [w EXCEPT !.at = "closed"]] /\ UNCHANGED <<log, over, feed, tools, torn>>
      BY <1>2, <2>4 DEF ClosedError
    <3> QED BY <2>3, <3>1
  <2>5. CASE DeliveryFails(who)
    <3>1. task' = [task EXCEPT !.worker = [w EXCEPT !.at = "failed"]] /\ UNCHANGED <<log, over, feed, tools, torn>>
      BY <1>1, <1>2, <2>5 DEF DeliveryFails, TasksTyped
    <3> QED BY <2>3, <3>1
  <2>6. CASE task' = [task EXCEPT ![who].at = "post"] /\ UNCHANGED <<feedvars, tools, torn>>
    <3>1. task' = [task EXCEPT !.worker = [w EXCEPT !.at = "post"]]
      BY <1>1, <1>2, <2>6 DEF TasksTyped
    <3> QED BY <2>3, <2>6, <3>1
  <2>7. CASE task' = [task EXCEPT ![who].at = "status", ![who].try = @ + 1] /\ UNCHANGED <<feedvars, tools, torn>>
    <3> DEFINE n == [w EXCEPT !.at = "status", !.try = @ + 1]
    <3>1. task' = [task EXCEPT !.worker = n]
      BY <1>1, <1>2, <2>7 DEF TasksTyped
    <3>2. n \in Workers /\ n.at = "status" /\ n.call = w.call /\ n.result = w.result
      BY <1>1, WorkerTries
    <3> HIDE DEF n
    <3> QED BY <1>1, <2>1, <2>7, <3>1, <3>2, WorkerSet DEF WorkerGoesOn, ConsumerGoesOn
  <2> QED BY <2>2, <2>4, <2>5, <2>6, <2>7
<1>3. CASE who = "consumer"
  <2>1. t.at \in {"post", "status"} /\ t.call \in Calls /\ t.todo # << >> /\ t.at \in Replaying
    BY <1>1, <1>3 DEF TasksTyped, Replaying
  <2>2. CASE Delivered(who)
    <3>1. task' = [task EXCEPT !.consumer = NextToDo(t)] /\ UNCHANGED <<log, over, feed, tools, torn>>
      BY <1>3, <2>2 DEF Delivered
    <3>2. /\ NextToDo(t) \in Consumers /\ NextToDo(t).at = "classify"
          /\ NextToDo(t).todo = Tail(t.todo) /\ NextToDo(t).keep = t.keep
      BY <1>1, <2>1, NextToDoFacts
    <3>3. TasksTyped' /\ task'.consumer = NextToDo(t) /\ task'.worker = w
      BY <1>1, <3>1, <3>2, ConsumerSet DEF Approves
    <3> QED BY <2>1, <3>1, <3>2, <3>3 DEF WorkerGoesOn, ConsumerGoesOn, Replaying
  <2>3. CASE ClosedError(who)
    <3>1. task' = [task EXCEPT !.consumer = Reader] /\ tools' = [tools EXCEPT !.aborted = TRUE]
          /\ UNCHANGED <<log, over, feed, torn>>
      BY <1>3, <2>3 DEF ClosedError
    <3>2. /\ tools' \in Tools
          /\ tools'.target = tools.target /\ tools'.queue = tools.queue /\ tools'.replayed = tools.replayed
      BY <1>1, <3>1
    <3>3. TasksTyped' /\ task'.consumer = Reader /\ task'.worker = w
      BY <1>1, <3>1, <3>2, ConsumerSet DEF Approves
    <3> QED BY <2>1, <3>1, <3>2, <3>3 DEF WorkerGoesOn, ConsumerGoesOn
  <2>4. CASE DeliveryFails(who)
    BY <1>3, <2>4 DEF DeliveryFails
  <2>5. CASE task' = [task EXCEPT ![who].at = "post"] /\ UNCHANGED <<feedvars, tools, torn>>
    <3> DEFINE n == [t EXCEPT !.at = "post"]
    <3>1. task' = [task EXCEPT !.consumer = n]
      BY <1>1, <1>3, <2>5 DEF TasksTyped
    <3>2. n \in Consumers /\ n.at = "post" /\ n.call = t.call /\ n.todo = t.todo /\ n.keep = t.keep
      <4>1. t \in Consumers
        BY <1>1
      <4> HIDE DEF t
      <4> QED BY <4>1, ConsumerAt
    <3> HIDE DEF n
    <3> QED BY <1>1, <2>1, <2>5, <3>1, <3>2, ConsumerSet DEF WorkerGoesOn, ConsumerGoesOn, Replaying
  <2>6. CASE task' = [task EXCEPT ![who].at = "status", ![who].try = @ + 1] /\ UNCHANGED <<feedvars, tools, torn>>
    <3> DEFINE n == [t EXCEPT !.at = "status", !.try = @ + 1]
    <3>1. task' = [task EXCEPT !.consumer = n]
      BY <1>1, <1>3, <2>6 DEF TasksTyped
    <3>2. n \in Consumers /\ n.at = "status" /\ n.call = t.call /\ n.todo = t.todo /\ n.keep = t.keep
      BY <1>1, ConsumerTries
    <3> HIDE DEF n
    <3> QED BY <1>1, <2>1, <2>6, <3>1, <3>2, ConsumerSet DEF WorkerGoesOn, ConsumerGoesOn, Replaying
  <2> QED BY <2>2, <2>3, <2>4, <2>5, <2>6
<1> QED BY <1>2, <1>3

\* Posts, queries and their failures, by either task.
LEMMA DeliversKeep ==
  ASSUME TurnInv, NEW who \in {"worker", "consumer"},
         Post(who) \/ PostLost(who) \/ Query(who) \/ QueryFails(who)
  PROVE TurnInv'
<1>1. task[who].at \in {"post", "status"} /\ task[who].call \in Calls
  <2>1. TasksTyped /\ task[who].at \in {"post", "status"}
    BY DEF Post, PostLost, Query, QueryFails, Delivering, TurnInv, Typed
  <2> QED BY <2>1 DEF TasksTyped
<1>2. \/ Delivered(who) \/ ClosedError(who) \/ DeliveryFails(who)
      \/ task' = [task EXCEPT ![who].at = "post"] /\ UNCHANGED <<feedvars, tools, torn>>
      \/ task' = [task EXCEPT ![who].at = "status", ![who].try = @ + 1] /\ UNCHANGED <<feedvars, tools, torn>>
  BY DEF Post, PostLost, Query, QueryFails
<1>3. remote' \in {remote, Received(task[who].call)}
  BY DEF Post, PostLost, Query, QueryFails
<1>4. UNCHANGED <<content, saved, decided, ledger, ran>>
  BY DEF Post, PostLost, Query, QueryFails
<1>5. /\ remote' \in [Calls -> [status : Statuses, approval : Decisions, result : Numbers]]
      /\ CallsGoOn /\ \A d \in Calls : remote'[d].result \in {remote[d].result, saved[d]}
  BY <1>1, <1>3, ReceivedFacts
<1>6. \/ TurnFails
      \/ /\ UNCHANGED <<log, over, feed, torn>> /\ TasksTyped'
         /\ WorkerGoesOn(task'.worker) /\ ConsumerGoesOn(task'.consumer)
         /\ tools'.target = tools.target /\ tools'.queue = tools.queue /\ tools'.replayed = tools.replayed
  BY <1>1, <1>2, DeliveryEnds
<1> QED BY <1>4, <1>5, <1>6, DeliveryKeeps, FailureKeeps
-----------------------------------------------------------------------------
(* What the service publishes.                                              *)

\* Event n is the newest one, and it is what.
New(n, what) ==
  /\ log' = log \cup {n} /\ n \notin log /\ n > feed.cursor /\ \A e \in log : e < n
  /\ content'[n] = what /\ \A e \in log : content'[e] = content[e]

\* The events by their kinds.
LEMMA EventKinds ==
  /\ Text \in Event /\ Text.kind = "text" /\ Terminal \in Event /\ Terminal.kind = "end"
  /\ \A c \in Calls : Ask(c) \in Event /\ Ask(c).kind = "ask" /\ Ask(c).calls[1] = c
  /\ \A cs \in Seq(Calls) : Batch(cs) \in Event /\ Batch(cs).kind = "batch" /\ Batch(cs).calls = cs
<1>1. << >> \in Seq(Calls) /\ \A c \in Calls : <<c>> \in Seq(Calls)
  BY RangeEmpty
<1> QED BY <1>1 DEF Text, Terminal, Ask, Batch, Event

\* A publication adds the newest event.
LEMMA PublishFacts ==
  ASSUME FeedTyped, NEW what \in Event, NEW calls, PublishAs(what, calls)
  PROVE /\ ~over /\ over' = (what = Terminal) /\ feed' = feed /\ remote' = calls
        /\ UNCHANGED <<saved, decided, task, ledger, tools, ran, torn>>
        /\ FeedTyped' /\ \E n \in 1 .. MaxSeq : New(n, what)
<1>1. PICK n \in 1 .. MaxSeq : n > LastSeq(log) /\ log' = log \cup {n}
  BY DEF PublishAs, FeedPublish
<1>2. /\ ~over /\ over' = (what = Terminal) /\ feed' = feed /\ remote' = calls
      /\ UNCHANGED <<saved, decided, task, ledger, tools, ran, torn>>
      /\ content' = [content EXCEPT ![LastSeq(log')] = what]
  BY DEF PublishAs, FeedPublish
<1>3. \A e \in log : e < n
  <2>1. CASE log = {}
    BY <2>1
  <2>2. CASE log # {}
    <3>1. PICK m \in log : \A e \in log : e <= m
      BY <2>2 DEF FeedTyped
    <3>2. Max(log) = m
      BY <3>1, MaxIs DEF FeedTyped
    <3> QED BY <1>1, <2>2, <3>1, <3>2 DEF LastSeq, FeedTyped
  <2> QED BY <2>1, <2>2
<1>4. n \in log' /\ \A e \in log' : e <= n
  BY <1>1, <1>3 DEF FeedTyped
<1>5. LastSeq(log') = n
  <2>1. log' \in SUBSET Int /\ log' # {}
    BY <1>1 DEF FeedTyped
  <2> QED BY <1>4, <2>1, MaxIs DEF LastSeq
<1>6. n > feed.cursor
  BY <1>1, <1>3 DEF FeedTyped
<1>7. content' \in [1 .. MaxSeq -> Event] /\ content'[n] = what /\ \A e \in log : content'[e] = content[e]
  BY <1>2, <1>3, <1>5 DEF FeedTyped
<1>8. New(n, what)
  BY <1>1, <1>3, <1>6, <1>7 DEF New
<1>9. FeedTyped'
  BY <1>1, <1>2, <1>4, <1>7 DEF FeedTyped
<1> QED BY <1>2, <1>8, <1>9

\* The events before it stay, and the client has not seen it.
LEMMA NewFacts ==
  ASSUME FeedTyped, NEW what \in Event, NEW n \in 1 .. MaxSeq, New(n, what), feed' = feed
  PROVE /\ \A c, e : e \in log => (AskOf(c, e)' <=> AskOf(c, e)) /\ (BatchOf(c, e)' <=> BatchOf(c, e))
        /\ \A c : AskOf(c, n)' <=> what.kind = "ask" /\ what.calls[1] = c
        /\ \A c : BatchOf(c, n)' <=> what.kind = "batch" /\ c \in Range(what.calls)
        /\ \A c : Given(c)' <=> Given(c)
        /\ \A c : Published(c) => Published(c)'
        /\ log' = log \cup {n} /\ n \notin log /\ n > feed.cursor /\ \A e \in log : e < n
<1>1. /\ log' = log \cup {n} /\ n \notin log /\ n > feed.cursor /\ \A e \in log : e < n
      /\ content'[n] = what /\ \A e \in log : content'[e] = content[e]
  BY DEF New
<1>2. \A c, e : e \in log => (AskOf(c, e)' <=> AskOf(c, e)) /\ (BatchOf(c, e)' <=> BatchOf(c, e))
  BY <1>1 DEF AskOf, BatchOf
<1>3. \A c : (AskOf(c, n)' <=> what.kind = "ask" /\ what.calls[1] = c)
  BY <1>1 DEF AskOf
<1>4. \A c : (BatchOf(c, n)' <=> what.kind = "batch" /\ c \in Range(what.calls))
  BY <1>1 DEF BatchOf
<1>5. \A c : Published(c) => Published(c)'
  BY <1>1, <1>2 DEF Published
<1>6. feed.cursor \in Nat /\ \A c, e : BatchOf(c, e) => e \in log
  BY DEF FeedTyped, BatchOf
<1>7. \A c : Given(c)' <=> Given(c)
  BY <1>1, <1>2, <1>6 DEF Given
<1> QED BY <1>1, <1>2, <1>3, <1>4, <1>5, <1>7

\* How a publication moves the calls.
Moves ==
  \A c \in Calls :
    /\ remote'[c].approval = remote[c].approval /\ remote'[c].result = remote[c].result
    /\ \/ remote'[c].status = remote[c].status
       \/ remote[c].status = "none" /\ remote'[c].status = "asked"
       \/ remote[c].status \in {"asked", "waiting", "settled"} /\ remote'[c].status = "closed"
       \/ remote[c].status = "settled" /\ remote'[c].status = "waiting" /\ remote[c].approval # "decline"
       \/ remote[c].status = "none" /\ remote'[c].status = "waiting" /\ c \notin Asks

\* The calls of a batch may wait when no other does; nothing waits in the end.
Brings(what) ==
  /\ what.kind = "batch" => Waiting = {} /\ Waiting' \subseteq Range(what.calls)
  /\ what.kind # "batch" => Waiting' \subseteq Waiting
  /\ what = Terminal => Waiting' = {}

Brought == \E what \in Event : PublishAs(what, remote') /\ Moves /\ Brings(what)

\* The client's side of the invariant, when a publication brings calls that
\* never ran.
LEMMA PublishKeeps ==
  ASSUME TurnInv, NEW what \in Event, PublishAs(what, remote'), Moves,
         remote' \in [Calls -> [status : Statuses, approval : Decisions, result : Numbers]],
         what.kind = "batch" => \A c \in Range(what.calls) : ran[c] = 0
  PROVE Typed' /\ Placed' /\ Targets' /\ Counted' /\ Results' /\ Declined'
<1> USE DEF TurnInv, Typed
<1>1. /\ ~over /\ feed' = feed /\ FeedTyped'
      /\ UNCHANGED <<saved, decided, task, ledger, tools, ran, torn>>
  BY PublishFacts
<1>2. PICK n \in 1 .. MaxSeq : New(n, what)
  BY PublishFacts
<1>3. /\ \A c, e : e \in log => (AskOf(c, e)' <=> AskOf(c, e)) /\ (BatchOf(c, e)' <=> BatchOf(c, e))
      /\ \A c : BatchOf(c, n)' => what.kind = "batch" /\ c \in Range(what.calls)
      /\ \A c : Given(c)' <=> Given(c)
      /\ \A c : Published(c) => Published(c)'
      /\ log' = log \cup {n} /\ n > feed.cursor /\ \A e \in log : e < n
  BY <1>1, <1>2, NewFacts
<1>4. Typed'
  BY <1>1 DEF CallsTyped, TasksTyped
<1>5. Placed'
  BY <1>1, <1>3 DEF Placed
<1>6. Targets'
  <2>1. n > 0 /\ log \in SUBSET Int /\ tools.target \in {None, 0} \cup log /\ \A e \in log : e < n
    BY <1>2, <1>3 DEF Targets, FeedTyped
  <2>2. tools.target < n /\ tools.target \in Int
    <3>1. CASE tools.target \in log
      BY <2>1, <3>1
    <3>2. CASE tools.target \in {None, 0}
      BY <2>1, <3>2 DEF None
    <3> QED BY <2>1, <3>1, <3>2
  <2>3. tools'.target \in {None, 0} \cup log'
    BY <1>1, <1>3 DEF Targets
  <2>4. feed'.target # None => \A e \in log' : e <= tools'.target => e <= feed'.target
    <3>1. ~(n <= tools.target)
      BY <2>2
    <3> QED BY <1>1, <1>3, <3>1 DEF Targets
  <2>5. task'.consumer.at \in Replaying => \A e \in log' : e > feed'.cursor => e > tools'.target
    <3>1. n > tools.target
      BY <2>2
    <3> QED BY <1>1, <1>3, <3>1 DEF Targets
  <2> QED BY <2>3, <2>4, <2>5 DEF Targets
<1>7. Counted'
  <2>1. /\ \A c \in Calls : ran[c] <= 1 + torn[c]
        /\ \A c \in Calls : ran[c] # 0 => Published(c)'
        /\ \A c \in Calls : saved[c] = None /\ ~Unsaved(c) => ran[c] <= torn[c]
        /\ \A c \in Calls : task.worker.at = "run" /\ task.worker.call = c => ran[c] <= torn[c]
        /\ \A c \in Range(tools.queue) \cup Range(task.consumer.keep) : ran[c] <= torn[c]
    BY <1>1, <1>3 DEF Counted
  <2>2. \A c \in Calls : Unsaved(c)' <=> Unsaved(c)
    BY <1>1 DEF Unsaved
  <2>3. ASSUME NEW c \in Calls, NEW e \in log', Feeding, e > feed.cursor, ~Historical(e), BatchOf(c, e)'
        PROVE ran[c] <= torn[c]
    <3>1. CASE e \in log
      BY <1>3, <2>3, <3>1 DEF Counted
    <3>2. CASE e = n
      BY <1>3, <2>3, <3>2 DEF CallsTyped
    <3> QED BY <1>3, <3>1, <3>2
  <2>4. Feeding' = Feeding /\ \A e : Historical(e)' = Historical(e)
    BY <1>1 DEF Feeding, Historical
  <2> QED BY <1>1, <2>1, <2>2, <2>3, <2>4 DEF Counted
<1>8. Results'
  BY <1>1 DEF Results, ResultsAgree, Moves
<1>9. Declined'
  <2>1. Asks \subseteq Calls
    BY AsksAreCalls
  <2>2. \A c \in Calls : remote'[c].approval = remote[c].approval /\ remote[c].approval \in Decisions
    BY DEF Moves, CallsTyped
  <2>3. \A c \in Asks : remote'[c].status \in {"settled", "waiting", "received"} => remote[c].approval # "none"
    BY <2>1 DEF Moves, Declined
  <2>4. \A c \in Asks : remote'[c].status \in {"waiting", "received"} => remote[c].approval = "accept"
    BY <2>1, <2>2, <2>3 DEF Moves, Declined, Decisions
  <2>5. \A c \in Calls : remote'[c].status \in {"none", "asked"} => remote[c].approval = "none"
    BY DEF Moves, Declined
  <2>6. \A c \in Calls : Asking(c)' => c \in Asks /\ ~Given(c)' /\ remote'[c].status # "none"
    BY <1>1, <1>3 DEF Asking, Declined, Moves
  <2>7. \A c \in Calls, a \in log' :
          Feeding' /\ remote'[c].approval = "decline" /\ a <= feed'.cursor /\ AskOf(c, a)'
            => ledger'[c] = "terminal" \/ Asking(c)'
    <3> SUFFICES ASSUME NEW c \in Calls, NEW a \in log', Feeding', remote'[c].approval = "decline",
                        a <= feed'.cursor, AskOf(c, a)'
                 PROVE ledger'[c] = "terminal" \/ Asking(c)'
      OBVIOUS
    <3>1. a \in log
      BY <1>1, <1>3 DEF FeedTyped
    <3>2. AskOf(c, a) /\ a <= feed.cursor /\ Feeding /\ remote[c].approval = "decline"
      BY <1>1, <1>3, <2>2, <3>1 DEF Feeding
    <3>3. ledger[c] = "terminal" \/ Asking(c)
      BY <3>1, <3>2 DEF Declined
    <3> QED BY <1>1, <3>3 DEF Asking
  <2>8. /\ \A c \in Range(task'.consumer.keep) : decided'[c] # "decline"
        /\ \A c \in Range(tools'.queue) : decided'[c] = "decline" => ledger'[c] = "terminal"
        /\ \A c \in Calls : task'.worker.at = "run" /\ task'.worker.call = c => decided'[c] # "decline"
        /\ DeclinedNeverRuns'
        /\ \A c \in Calls : decided'[c] # "none" => c \in Asks
        /\ \A c \in Calls : remote'[c].approval # "none" => remote'[c].approval = decided'[c]
        /\ \A c \in Calls : ledger'[c] = "approved" => remote'[c].approval = "accept"
        /\ \A c \in Calls : task'.consumer.at = "decided" /\ task'.consumer.call = c => decided'[c] # "none"
    BY <1>1, <2>2 DEF Declined, DeclinedNeverRuns
  <2>9. /\ \A c \in Asks : remote'[c].status \in {"settled", "waiting", "received"} => remote'[c].approval # "none"
        /\ \A c \in Asks : remote'[c].status \in {"waiting", "received"} => remote'[c].approval = "accept"
        /\ \A c \in Calls : remote'[c].status \in {"none", "asked"} => remote'[c].approval = "none"
    BY <2>1, <2>2, <2>3, <2>4, <2>5
  <2> QED BY <2>6, <2>7, <2>8, <2>9 DEF Declined
<1> QED BY <1>4, <1>5, <1>6, <1>7, <1>8, <1>9

\* The event that is published fits what it does to the calls.
Fits(what) ==
  /\ what.kind = "ask" =>
       /\ what.calls[1] \in Asks /\ remote[what.calls[1]].status = "none"
       /\ remote'[what.calls[1]].status # "none"
  /\ what.kind = "batch" =>
       /\ IsInjective(what.calls)
       /\ \A c \in Range(what.calls) :
            c \in Calls /\ CanCall(c) /\ remote'[c].status \in {"waiting", "closed"}
  /\ \A c \in Calls : remote[c].status = "none" /\ remote'[c].status # "none" =>
       \/ what.kind = "ask" /\ what.calls[1] = c
       \/ c \notin Asks /\ remote'[c].status = "waiting"

\* A new event is true of the calls it moves, and what it brings never ran.
LEMMA PublishService ==
  ASSUME TurnInv, NEW what \in Event, PublishAs(what, remote'), Moves, Fits(what)
  PROVE Service' /\ (what.kind = "batch" => \A c \in Range(what.calls) : ran[c] = 0)
<1> USE DEF TurnInv, Typed
<1>1. ~over /\ feed' = feed /\ over' = (what = Terminal)
  BY PublishFacts
<1>2. PICK n \in 1 .. MaxSeq : New(n, what)
  BY PublishFacts
<1>3. /\ \A c, e : e \in log => (AskOf(c, e)' <=> AskOf(c, e)) /\ (BatchOf(c, e)' <=> BatchOf(c, e))
      /\ \A c : AskOf(c, n)' <=> what.kind = "ask" /\ what.calls[1] = c
      /\ \A c : BatchOf(c, n)' <=> what.kind = "batch" /\ c \in Range(what.calls)
      /\ log' = log \cup {n} /\ \A e \in log : e < n
  BY <1>1, <1>2, NewFacts
<1>4. content'[n] = what /\ \A e \in log : content'[e] = content[e]
  BY <1>2 DEF New
<1>5. Asks \subseteq Calls
  BY AsksAreCalls
<1>6. \A c \in Calls : remote'[c].approval = remote[c].approval
  BY DEF Moves
<1>7. \A c \in Calls : CanCall(c) =>
         /\ ~Published(c)
         /\ c \in Asks => remote[c].approval # "none" /\ \E a \in log : AskOf(c, a)
  <2> SUFFICES ASSUME NEW c \in Calls, CanCall(c)
               PROVE /\ ~Published(c)
                     /\ c \in Asks => remote[c].approval # "none" /\ \E a \in log : AskOf(c, a)
    OBVIOUS
  <2>1. remote[c].status \in {"none", "settled"}
    BY DEF CanCall
  <2>2. ~Published(c)
    BY <2>1 DEF Published, Service
  <2>3. c \in Asks => remote[c].approval # "none" /\ \E a \in log : AskOf(c, a)
    BY DEF CanCall, Service, Declined
  <2> QED BY <2>2, <2>3
<1>8. what.kind = "batch" => \A c \in Range(what.calls) : ran[c] = 0
  BY <1>7 DEF Fits, Counted
<1>9. \A c \in Calls, e \in log' : BatchOf(c, e)' =>
       /\ remote'[c].status \in {"waiting", "received", "closed"}
       /\ c \in Asks => remote'[c].approval # "none" /\ \E a \in log' : a < e /\ AskOf(c, a)'
  <2> SUFFICES ASSUME NEW c \in Calls, NEW e \in log', BatchOf(c, e)'
               PROVE /\ remote'[c].status \in {"waiting", "received", "closed"}
                     /\ c \in Asks => remote'[c].approval # "none" /\ \E a \in log' : a < e /\ AskOf(c, a)'
    OBVIOUS
  <2>1. CASE e \in log
    <3>1. BatchOf(c, e)
      BY <1>3, <2>1
    <3>2. /\ remote[c].status \in {"waiting", "received", "closed"}
          /\ c \in Asks => remote[c].approval # "none" /\ \E a \in log : a < e /\ AskOf(c, a)
      BY <2>1, <3>1 DEF Service
    <3>3. remote'[c].status \in {"waiting", "received", "closed"}
      BY <3>2 DEF Moves
    <3> QED BY <1>3, <1>6, <3>2, <3>3
  <2>2. CASE e = n
    <3>1. what.kind = "batch" /\ c \in Range(what.calls)
      BY <1>3, <2>2
    <3>2. CanCall(c) /\ remote'[c].status \in {"waiting", "closed"}
      BY <3>1 DEF Fits
    <3> QED BY <1>3, <1>6, <1>7, <2>2, <3>2
  <2> QED BY <1>3, <2>1, <2>2
<1>10. \A c \in Calls : \A e, f \in log' : BatchOf(c, e)' /\ BatchOf(c, f)' => e = f
  <2>1. \A c \in Calls : \A e \in log : BatchOf(c, n)' => ~BatchOf(c, e)
    BY <1>3, <1>7 DEF Fits, Published
  <2> QED BY <1>3, <2>1 DEF Service
<1>11. \A c \in Calls : \A e, f \in log' : AskOf(c, e)' /\ AskOf(c, f)' => e = f
  <2>1. \A c \in Calls : \A e \in log : AskOf(c, n)' => ~AskOf(c, e)
    BY <1>3 DEF Fits, Service
  <2> QED BY <1>3, <2>1 DEF Service
<1>12. /\ \A e \in log' : content'[e].kind = "batch" => IsInjective(content'[e].calls)
       /\ \A e \in log' : content'[e].kind = "ask" => content'[e].calls[1] \in Asks
       /\ \A e \in log' : content'[e] = Terminal => over'
  <2>1. /\ \A e \in log : content'[e].kind = "batch" => IsInjective(content'[e].calls)
        /\ \A e \in log : content'[e].kind = "ask" => content'[e].calls[1] \in Asks
        /\ \A e \in log : content'[e] = Terminal => over'
    BY <1>1, <1>4 DEF Service
  <2>2. /\ content'[n].kind = "batch" => IsInjective(content'[n].calls)
        /\ content'[n].kind = "ask" => content'[n].calls[1] \in Asks
        /\ content'[n] = Terminal => over'
    BY <1>1, <1>4 DEF Fits
  <2>3. \A e \in log' : e \in log \/ e = n
    BY <1>3
  <2> QED BY <2>1, <2>2, <2>3
<1>13. \A c \in Calls, e \in log' : AskOf(c, e)' => remote'[c].status # "none"
  <2>1. \A c \in Calls : remote[c].status # "none" => remote'[c].status # "none"
    BY DEF Moves
  <2> QED BY <1>3, <2>1 DEF Service, Fits
<1>14. \A c \in Asks : remote'[c].status # "none" => \E a \in log' : AskOf(c, a)'
  <2> SUFFICES ASSUME NEW c \in Asks, remote'[c].status # "none"
               PROVE \E a \in log' : AskOf(c, a)'
    OBVIOUS
  <2>1. CASE remote[c].status = "none"
    BY <1>3, <1>5, <2>1 DEF Fits
  <2>2. CASE remote[c].status # "none"
    BY <1>3, <2>2 DEF Service
  <2> QED BY <2>1, <2>2
<1>15. \A c \in Calls \ Asks : remote'[c].status \notin {"asked", "settled"}
  BY DEF Service, Moves, Fits
<1> QED BY <1>8, <1>9, <1>10, <1>11, <1>12, <1>13, <1>14, <1>15 DEF Service

\* A new event that fits the calls keeps the invariant.
LEMMA PublishKeepsAll ==
  ASSUME TurnInv, NEW what \in Event, PublishAs(what, remote'), Moves, Fits(what),
         remote' \in [Calls -> [status : Statuses, approval : Decisions, result : Numbers]]
  PROVE TurnInv'
BY PublishService, PublishKeeps DEF TurnInv

\* The service publishes text.
LEMMA TextKeeps ==
  ASSUME TurnInv, PublishText
  PROVE TurnInv' /\ Brought
<1>1. PublishAs(Text, remote) /\ remote' = remote
  BY EventKinds, PublishFacts DEF PublishText, TurnInv, Typed
<1>2. Moves /\ Fits(Text)
  BY <1>1, EventKinds DEF Moves, Fits
<1>3. PublishAs(Text, remote') /\ Brings(Text)
  BY <1>1, EventKinds DEF Brings, Waiting
<1> QED BY <1>1, <1>2, <1>3, EventKinds, PublishKeepsAll DEF TurnInv, Typed, CallsTyped, Brought

\* The service asks about a call, once.
LEMMA AskKeeps ==
  ASSUME TurnInv, PublishAsk
  PROVE TurnInv' /\ Brought
<1>1. PICK c \in Calls : CanAsk(c) /\ PublishAs(Ask(c), [remote EXCEPT ![c].status = "asked"])
  BY DEF PublishAsk
<1>2. Ask(c) \in Event /\ Ask(c).kind = "ask" /\ Ask(c).calls[1] = c
  BY EventKinds
<1>3. remote' = [remote EXCEPT ![c].status = "asked"]
  BY <1>1, <1>2, PublishFacts DEF TurnInv, Typed
<1>4. remote \in [Calls -> [status : Statuses, approval : Decisions, result : Numbers]]
  BY DEF TurnInv, Typed, CallsTyped
<1>5. PublishAs(Ask(c), remote')
  BY <1>1, <1>3
<1> DEFINE v == [remote[c] EXCEPT !.status = "asked"]
<1>6. /\ v \in [status : Statuses, approval : Decisions, result : Numbers]
      /\ v.status = "asked" /\ v.approval = remote[c].approval /\ v.result = remote[c].result
  BY <1>4 DEF Statuses
<1>7. remote' = [remote EXCEPT ![c] = v]
  BY <1>3
<1> HIDE DEF v
<1>8. remote' \in [Calls -> [status : Statuses, approval : Decisions, result : Numbers]]
  BY <1>4, <1>6, <1>7
<1>9. c \in Asks /\ remote[c].status = "none"
  BY <1>1 DEF CanAsk
<1>10. remote'[c] = v /\ \A d \in Calls : d # c => remote'[d] = remote[d]
  BY <1>4, <1>7
<1>11. Moves
  BY <1>6, <1>9, <1>10 DEF Moves
<1>12. Fits(Ask(c))
  BY <1>2, <1>6, <1>9, <1>10 DEF Fits
<1>13. Brings(Ask(c))
  BY <1>2, <1>6, <1>10, EventKinds DEF Brings, Waiting
<1> QED BY <1>2, <1>5, <1>8, <1>11, <1>12, <1>13, PublishKeepsAll DEF Brought

\* The service brings calls, each once, and after its decision.
LEMMA BatchKeeps ==
  ASSUME TurnInv, PublishBatch
  PROVE TurnInv' /\ Brought
<1> DEFINE Calling(cs) ==
      [c \in Calls |->
            IF c \notin Range(cs) THEN remote[c]
            ELSE [remote[c] EXCEPT !.status =
                    IF remote[c].approval = "decline" THEN "closed" ELSE "waiting"]]
<1>1. PICK cs \in UNION {[1..n -> Calls] : n \in 1..Cardinality(Calls)} :
         IsInjective(cs) /\ (\A i \in DOMAIN cs : CanCall(cs[i])) /\ PublishAs(Batch(cs), Calling(cs))
  BY DEF PublishBatch
<1>2. cs \in Seq(Calls)
  OBVIOUS
<1>3. Batch(cs) \in Event /\ Batch(cs).kind = "batch" /\ Batch(cs).calls = cs
  BY <1>2, EventKinds
<1>4. remote' = Calling(cs)
  BY <1>1, <1>3, PublishFacts DEF TurnInv, Typed
<1>5. remote \in [Calls -> [status : Statuses, approval : Decisions, result : Numbers]]
  BY DEF TurnInv, Typed, CallsTyped
<1>6. \A c \in Range(cs) : c \in Calls /\ CanCall(c)
  BY <1>1, <1>2, RangeIn DEF Range
<1>7. \A c \in Calls :
        /\ remote'[c] \in [status : Statuses, approval : Decisions, result : Numbers]
        /\ remote'[c].approval = remote[c].approval /\ remote'[c].result = remote[c].result
        /\ c \notin Range(cs) => remote'[c].status = remote[c].status
        /\ c \in Range(cs) /\ remote[c].approval = "decline" => remote'[c].status = "closed"
        /\ c \in Range(cs) /\ remote[c].approval # "decline" => remote'[c].status = "waiting"
  <2> SUFFICES ASSUME NEW c \in Calls
               PROVE  /\ remote'[c] \in [status : Statuses, approval : Decisions, result : Numbers]
                      /\ remote'[c].approval = remote[c].approval /\ remote'[c].result = remote[c].result
                      /\ c \notin Range(cs) => remote'[c].status = remote[c].status
                      /\ c \in Range(cs) /\ remote[c].approval = "decline" => remote'[c].status = "closed"
                      /\ c \in Range(cs) /\ remote[c].approval # "decline" => remote'[c].status = "waiting"
    OBVIOUS
  <2>1. CASE c \notin Range(cs)
    BY <1>4, <1>5, <2>1
  <2>2. CASE c \in Range(cs) /\ remote[c].approval = "decline"
    <3>1. remote'[c] = [remote[c] EXCEPT !.status = "closed"]
      BY <1>4, <2>2
    <3> QED BY <1>5, <2>2, <3>1 DEF Statuses
  <2>3. CASE c \in Range(cs) /\ remote[c].approval # "decline"
    <3>1. remote'[c] = [remote[c] EXCEPT !.status = "waiting"]
      BY <1>4, <2>3
    <3> QED BY <1>5, <2>3, <3>1 DEF Statuses
  <2> QED BY <2>1, <2>2, <2>3
<1>8. remote' \in [Calls -> [status : Statuses, approval : Decisions, result : Numbers]]
  BY <1>4, <1>7
<1>9. PublishAs(Batch(cs), remote')
  BY <1>1, <1>4
<1>10. \A c \in Range(cs) : \/ c \notin Asks /\ remote[c].status = "none" /\ remote[c].approval = "none"
                            \/ c \in Asks /\ remote[c].status = "settled"
  BY <1>6 DEF CanCall, TurnInv, Declined
<1> HIDE DEF Calling
<1>11. Moves
  BY <1>7, <1>10 DEF Moves
<1>12. Fits(Batch(cs))
  BY <1>1, <1>3, <1>6, <1>7, <1>10 DEF Fits
<1>13. Brings(Batch(cs))
  <2>1. Waiting = {}
    BY DEF PublishBatch, NothingPending, Waiting
  <2>2. Waiting' \subseteq Range(cs)
    BY <1>7, <2>1 DEF Waiting
  <2> QED BY <1>3, <2>1, <2>2, EventKinds DEF Brings
<1> QED BY <1>3, <1>8, <1>9, <1>11, <1>12, <1>13, PublishKeepsAll DEF Brought

\* The turn ends, and closes what still waits.
LEMMA EndKeeps ==
  ASSUME TurnInv, PublishEnd
  PROVE TurnInv' /\ Brought
<1> DEFINE Ended ==
      [c \in Calls |-> [remote[c] EXCEPT !.status = IF @ \in {"asked", "waiting"} THEN "closed" ELSE @]]
<1>1. PublishAs(Terminal, Ended)
  BY DEF PublishEnd
<1>2. remote' = Ended
  BY <1>1, EventKinds, PublishFacts DEF TurnInv, Typed
<1>3. remote \in [Calls -> [status : Statuses, approval : Decisions, result : Numbers]]
  BY DEF TurnInv, Typed, CallsTyped
<1>4. \A c \in Calls :
        /\ remote'[c] \in [status : Statuses, approval : Decisions, result : Numbers]
        /\ remote'[c].approval = remote[c].approval /\ remote'[c].result = remote[c].result
        /\ \/ remote'[c].status = remote[c].status
           \/ remote[c].status \in {"asked", "waiting"} /\ remote'[c].status = "closed"
        /\ remote'[c].status # "waiting"
  <2> SUFFICES ASSUME NEW c \in Calls
               PROVE /\ remote'[c] \in [status : Statuses, approval : Decisions, result : Numbers]
                     /\ remote'[c].approval = remote[c].approval /\ remote'[c].result = remote[c].result
                     /\ \/ remote'[c].status = remote[c].status
                        \/ remote[c].status \in {"asked", "waiting"} /\ remote'[c].status = "closed"
                     /\ remote'[c].status # "waiting"
    OBVIOUS
  <2>1. CASE remote[c].status \in {"asked", "waiting"}
    <3>1. remote'[c] = [remote[c] EXCEPT !.status = "closed"]
      BY <1>2, <2>1
    <3> QED BY <1>3, <2>1, <3>1 DEF Statuses
  <2>2. CASE remote[c].status \notin {"asked", "waiting"}
    <3>1. remote'[c] = [remote[c] EXCEPT !.status = remote[c].status]
      BY <1>2, <2>2
    <3> QED BY <1>3, <2>2, <3>1 DEF Statuses
  <2> QED BY <2>1, <2>2
<1>5. remote' \in [Calls -> [status : Statuses, approval : Decisions, result : Numbers]]
  BY <1>2, <1>4
<1>6. PublishAs(Terminal, remote')
  BY <1>1, <1>2
<1> HIDE DEF Ended
<1>7. Moves /\ Fits(Terminal)
  BY <1>4, EventKinds DEF Moves, Fits
<1>8. Brings(Terminal)
  BY <1>4, EventKinds DEF Brings, Waiting
<1> QED BY <1>5, <1>6, <1>7, <1>8, EventKinds, PublishKeepsAll DEF Brought

\* The service gives up on a call; nothing else changes.
LEMMA CloseKeeps ==
  ASSUME TurnInv, NEW c \in Calls, CloseCall(c)
  PROVE TurnInv'
<1> DEFINE v == [remote[c] EXCEPT !.status = "closed"]
<1>1. remote \in [Calls -> [status : Statuses, approval : Decisions, result : Numbers]]
  BY DEF TurnInv, Typed, CallsTyped
<1>2. /\ v \in [status : Statuses, approval : Decisions, result : Numbers]
      /\ v.status = "closed" /\ v.approval = remote[c].approval /\ v.result = remote[c].result
  BY <1>1 DEF Statuses
<1>3. remote' = [remote EXCEPT ![c] = v] /\ remote[c].status \in {"asked", "waiting"}
  BY DEF CloseCall
<1> HIDE DEF v
<1>4. /\ remote' \in [Calls -> [status : Statuses, approval : Decisions, result : Numbers]]
      /\ remote'[c] = v /\ \A d \in Calls : d # c => remote'[d] = remote[d]
  BY <1>1, <1>2, <1>3
<1>5. CallsGoOn /\ \A d \in Calls : remote'[d].result \in {remote[d].result, saved[d]}
  BY <1>2, <1>3, <1>4 DEF CallsGoOn
<1>6. UNCHANGED <<log, over, feed, content, saved, decided, ledger, ran, torn, task, tools>>
  BY DEF CloseCall, feedvars
<1>7. TasksTyped' /\ WorkerGoesOn(task'.worker) /\ ConsumerGoesOn(task'.consumer)
  BY <1>6 DEF TurnInv, Typed, TasksTyped, WorkerGoesOn, ConsumerGoesOn
<1> QED BY <1>4, <1>5, <1>6, <1>7, DeliveryKeeps
-----------------------------------------------------------------------------
(* The consumer reads the next event.                                       *)

\* Event n is the oldest one the client has not seen; now it has.
Next(n) ==
  /\ n \in log /\ n > feed.cursor /\ \A e \in log : e > feed.cursor => n <= e
  /\ feed.ended = "no" /\ feed'.ended = "no" /\ feed'.cursor = n /\ feed'.target = feed.target
  /\ UNCHANGED <<log, over, content>>

\* FeedNext hands over the oldest event that is not seen.
LEMMA NextEvent ==
  ASSUME FeedTyped, FeedNext, content' = content
  PROVE FeedTyped' /\ Next(feed'.cursor) /\ feed'.cursor \in log
<1>1. Unseen \in SUBSET Nat /\ feed.skipped = FALSE
  <2>1. log \in SUBSET Nat
    BY DEF FeedTyped
  <2>2. feed.skipped = FALSE
    BY DEF FeedTyped
  <2> QED BY <2>1, <2>2 DEF Unseen
<1>2. PICK e \in Unseen : (feed.skipped \/ e = Min(Unseen)) /\ feed' = [feed EXCEPT !.cursor = e]
  BY DEF FeedNext
<1>3. feed.ended = "no" /\ UNCHANGED <<log, over>>
  BY DEF FeedNext, Feeding
<1>4. e \in Unseen /\ \A f \in Unseen : e <= f
  BY <1>1, <1>2, MinIs
<1>5. e \in log /\ e > feed.cursor /\ e \in Nat /\ \A f \in log : f > feed.cursor => e <= f
  BY <1>4 DEF Unseen, FeedTyped
<1>6. feed'.cursor = e /\ feed'.ended = "no" /\ feed'.target = feed.target /\ FeedTyped'
  BY <1>2, <1>3, <1>5 DEF FeedTyped
<1> QED BY <1>3, <1>5, <1>6 DEF Next

\* What the next event changes about what is seen.
LEMMA NextEventFacts ==
  ASSUME TurnInv, NEW n \in log, Next(n)
  PROVE /\ \A c, e : AskOf(c, e)' <=> AskOf(c, e)
        /\ \A c, e : BatchOf(c, e)' <=> BatchOf(c, e)
        /\ \A c : Published(c)' <=> Published(c)
        /\ \A c : Given(c)' <=> Given(c) \/ BatchOf(c, n)
        /\ \A c \in Calls : BatchOf(c, n) => ~Given(c)
        /\ \A c \in Calls : AskOf(c, n) => c \in Asks /\ ~Given(c)' /\ remote[c].status # "none"
        /\ \A e \in log : e <= feed'.cursor <=> e <= feed.cursor \/ e = n
<1> USE DEF TurnInv, Typed
<1>1. /\ n \in log /\ n > feed.cursor /\ (\A e \in log : e > feed.cursor => n <= e)
      /\ feed'.cursor = n /\ UNCHANGED <<log, over, content>>
  BY DEF Next
<1>2. log \in SUBSET Int /\ feed.cursor \in Int
  BY DEF FeedTyped
<1>3. /\ \A c, e : AskOf(c, e)' <=> AskOf(c, e)
      /\ \A c, e : BatchOf(c, e)' <=> BatchOf(c, e)
  BY <1>1 DEF AskOf, BatchOf
<1>4. \A c : Published(c)' <=> Published(c)
  BY <1>1, <1>3 DEF Published
<1>5. \A e \in log : e <= feed'.cursor <=> e <= feed.cursor \/ e = n
  BY <1>1, <1>2
<1>6. \A c : Given(c)' <=> Given(c) \/ BatchOf(c, n)
  BY <1>1, <1>3, <1>5 DEF Given
<1>7. \A c \in Calls : BatchOf(c, n) => ~Given(c)
  <2> SUFFICES ASSUME NEW c \in Calls, BatchOf(c, n), NEW e \in log, e <= feed.cursor, BatchOf(c, e)
               PROVE FALSE
    BY DEF Given
  <2>1. e = n
    BY DEF Service
  <2> QED BY <1>1, <1>2, <2>1
<1>8. \A c \in Calls : AskOf(c, n) => c \in Asks /\ ~Given(c)' /\ remote[c].status # "none"
  <2> SUFFICES ASSUME NEW c \in Calls, AskOf(c, n)
               PROVE c \in Asks /\ ~Given(c)' /\ remote[c].status # "none"
    OBVIOUS
  <2>1. c \in Asks /\ remote[c].status # "none"
    BY DEF Service, AskOf
  <2>2. ASSUME NEW e \in log, e <= n, BatchOf(c, e)
        PROVE FALSE
    <3>1. PICK a \in log : a < e /\ AskOf(c, a)
      BY <2>1, <2>2 DEF Service
    <3>2. a = n
      BY <3>1 DEF Service
    <3> QED BY <1>2, <2>2, <3>1, <3>2
  <2>3. ~Given(c)'
    BY <1>1, <1>3, <2>2 DEF Given
  <2> QED BY <2>1, <2>3
<1> QED BY <1>3, <1>4, <1>5, <1>6, <1>7, <1>8

\* What the dispatcher gets with the event, and that a task goes on or ends.
Hands(n) ==
  /\ \A c \in Range(tools'.replayed) : c \in Range(tools.replayed) \/ BatchOf(c, n)
  /\ \A c \in Range(tools'.queue) : c \in Range(tools.queue) \/ (BatchOf(c, n) /\ ~Historical(n))
  /\ tools'.target = tools.target
  /\ task'.consumer.keep = << >> /\ task'.consumer.todo = << >>
  /\ task'.worker = task.worker \/ (task'.worker = IdleWorker /\ over)

\* Taking an event keeps the replay within its target.
LEMMA NextTargets ==
  ASSUME TurnInv, NEW n \in log, Next(n), Hands(n), task'.consumer.at \notin Replaying
  PROVE Targets'
BY DEF TurnInv, Targets, Next, Hands

\* A call that an event brings, and that history does not hold, has not run.
LEMMA NextCounted ==
  ASSUME TurnInv, NEW n \in log, Next(n), Hands(n), UNCHANGED <<ran, torn, saved>>
  PROVE Counted'
<1> USE NextEventFacts, NewTasksFacts DEF TurnInv, Typed
<1>1. /\ feed.ended = "no" /\ feed'.ended = "no" /\ feed'.cursor = n /\ n > feed.cursor
      /\ UNCHANGED <<log, over>>
  BY DEF Next
<1>2. /\ \A c \in Calls : ran'[c] <= 1 + torn'[c]
      /\ \A c \in Calls : ran'[c] # 0 => Published(c)'
  BY DEF Counted
<1>3. ASSUME NEW c \in Calls, saved'[c] = None, ~Unsaved(c)', ~over' \/ c \in Range(tools'.replayed) \/ ~Given(c)'
      PROVE ran'[c] <= torn'[c]
  <2>1. CASE ~Unsaved(c)
    BY <1>1, <1>3, <2>1 DEF Counted, Hands
  <2>2. CASE Unsaved(c)
    <3>1. task'.worker # task.worker /\ over
      BY <1>3, <2>2 DEF Unsaved, Hands
    <3>2. Given(c) /\ c \notin Range(tools.replayed)
      BY <2>2 DEF Unsaved, Placed
    <3> QED BY <1>1, <1>3, <3>1, <3>2 DEF Hands
  <2> QED BY <2>1, <2>2
<1>4. \A c \in Calls : task'.worker.at = "run" /\ task'.worker.call = c => ran'[c] <= torn'[c]
  BY DEF Counted, Hands
<1>5. \A c \in Range(tools'.queue) \cup Range(task'.consumer.keep) : ran'[c] <= torn'[c]
  <2>1. Range(task'.consumer.keep) = {}
    BY RangeEmpty DEF Hands
  <2>2. ASSUME NEW c \in Range(tools'.queue)
        PROVE ran'[c] <= torn'[c]
    <3>1. CASE c \in Range(tools.queue)
      BY <3>1 DEF Counted
    <3>2. CASE BatchOf(c, n) /\ ~Historical(n)
      <4>1. c \in Calls
        <5>1. content[n].calls \in Seq(Calls)
          BY DEF FeedTyped, Event
        <5> QED BY <3>2, <5>1, RangeIn DEF BatchOf
      <4> QED BY <1>1, <3>2, <4>1 DEF Counted, Feeding
    <3> QED BY <2>2, <3>1, <3>2 DEF Hands
  <2> QED BY <2>1, <2>2
<1>6. \A c \in Calls, e \in log' :
       Feeding' /\ e > feed'.cursor /\ ~Historical(e)' /\ BatchOf(c, e)' => ran'[c] <= torn'[c]
  <2> SUFFICES ASSUME NEW c \in Calls, NEW e \in log, e > n, ~Historical(e)', BatchOf(c, e)
               PROVE ran[c] <= torn[c]
    BY <1>1
  <2>1. ~Historical(e)
    BY DEF Historical, Hands
  <2>2. e > feed.cursor
    BY <1>1 DEF FeedTyped
  <2> QED BY <1>1, <2>1, <2>2 DEF Counted, Feeding
<1> QED BY <1>1, <1>2, <1>3, <1>4, <1>5, <1>6 DEF Counted

\* The calls of an event are new to the client.
LEMMA NextPlaced ==
  ASSUME TurnInv, NEW n \in log, Next(n), Hands(n), IsInjective(tools'.queue), IsInjective(tools'.replayed),
         \A c \in Range(tools'.queue) \cap Range(tools'.replayed) : ~BatchOf(c, n),
         tools'.queue \in Seq(Calls), tools'.replayed \in Seq(Calls)
  PROVE Placed'
<1> USE NextEventFacts, NewTasksFacts DEF TurnInv, Typed
<1>1. Range(tools'.queue) \cup Range(tools'.replayed) \subseteq Calls
  BY RangeIn
<1>2. Range(tools'.queue) \cap Range(tools'.replayed) = {}
  BY DEF Hands, Placed
<1>3. /\ Range(task'.consumer.todo) = {} /\ Range(task'.consumer.keep) = {}
      /\ IsInjective(task'.consumer.todo) /\ IsInjective(task'.consumer.keep)
  BY RangeEmpty DEF Hands
<1>4. \A c \in Calls : c \in Range(tools'.queue) \cup Range(tools'.replayed) => Given(c)'
  BY DEF Hands, Placed
<1>5. \A c \in Calls : task'.worker.call = c => Given(c) /\ c \notin Range(tools.queue) \cup Range(tools.replayed)
  BY CallsAssumption DEF Hands, Placed
<1>6. task'.worker.call \notin Range(tools'.queue) \cup Range(tools'.replayed)
  BY <1>1, <1>5 DEF Hands
<1>7. task'.worker.at = "idle" => task'.worker.call = None
  BY DEF Hands, Placed
<1> QED BY <1>2, <1>3, <1>4, <1>5, <1>6, <1>7 DEF Placed

\* Taking an event keeps what was declined closed.
LEMMA NextDeclined ==
  ASSUME TurnInv, Reading, NEW n \in log, Next(n), Hands(n), UNCHANGED <<remote, decided, ran>>,
         \A c \in Calls : ledger[c] = "terminal" => ledger'[c] = "terminal",
         \A c \in Calls : ledger'[c] = "approved" => ledger[c] = "approved" \/ remote[c].approval = "accept",
         \A c \in Calls : AskOf(c, n) => ledger'[c] \in {"approved", "terminal"} \/ Asking(c)',
         \A c \in Calls : Asking(c)' => AskOf(c, n),
         task'.consumer.at # "decided"
  PROVE Declined'
<1> USE NextEventFacts, NewTasksFacts DEF TurnInv, Typed
<1>1. /\ feed.ended = "no" /\ feed'.ended = "no" /\ feed'.cursor = n /\ n > feed.cursor
      /\ UNCHANGED <<log, over, content>>
  BY DEF Next
<1>2. \A c : ~Asking(c)
  BY DEF Reading, Asking, Approves
<1>3. \A c \in Calls : Asking(c)' => c \in Asks /\ ~Given(c)' /\ remote'[c].status # "none"
  OBVIOUS
<1>4. \A c \in Calls : ledger'[c] = "approved" => remote'[c].approval = "accept"
  BY DEF Declined
<1>5. \A c \in Calls, a \in log :
        remote[c].approval = "decline" /\ a <= feed.cursor /\ AskOf(c, a) => ledger[c] = "terminal"
  BY <1>1, <1>2 DEF Declined, Feeding
<1>6. \A c \in Calls, a \in log' :
        Feeding' /\ remote'[c].approval = "decline" /\ a <= feed'.cursor /\ AskOf(c, a)'
          => ledger'[c] = "terminal" \/ Asking(c)'
  <2> SUFFICES ASSUME NEW c \in Calls, NEW a \in log, remote[c].approval = "decline",
                      a <= feed'.cursor, AskOf(c, a)
               PROVE ledger'[c] = "terminal" \/ Asking(c)'
    BY <1>1
  <2>1. CASE a <= feed.cursor
    BY <1>5, <2>1
  <2>2. CASE a = n
    BY <1>4, <2>2
  <2> QED BY <2>1, <2>2
<1>7. \A c \in Range(tools'.queue) : decided'[c] = "decline" => ledger'[c] = "terminal"
  <2> SUFFICES ASSUME NEW c \in Range(tools'.queue), decided[c] = "decline"
               PROVE ledger'[c] = "terminal"
    OBVIOUS
  <2>1. CASE c \in Range(tools.queue)
    <3>1. c \in Calls
      BY <2>1, RangeIn DEF TasksTyped
    <3> QED BY <2>1, <3>1 DEF Declined
  <2>2. CASE BatchOf(c, n)
    <3>1. c \in Calls
      <4>1. content[n].calls \in Seq(Calls)
        BY DEF FeedTyped, Event
      <4> QED BY <2>2, <4>1, RangeIn DEF BatchOf
    <3>2. c \in Asks
      BY <3>1 DEF Declined
    <3>3. remote[c].approval # "none" /\ \E a \in log : a < n /\ AskOf(c, a)
      BY <2>2, <3>1, <3>2 DEF Service
    <3>4. remote[c].approval = "decline"
      BY <3>1, <3>3 DEF Declined
    <3>5. PICK a \in log : a < n /\ AskOf(c, a)
      BY <3>3
    <3>6. a <= feed.cursor
      <4>1. a \in Int /\ n \in Int /\ feed.cursor \in Int
        BY DEF FeedTyped
      <4>2. a > feed.cursor => n <= a
        BY <3>5 DEF Next
      <4> QED BY <3>5, <4>1, <4>2
    <3> QED BY <1>5, <3>1, <3>4, <3>5, <3>6
  <2> QED BY <2>1, <2>2 DEF Hands
<1>8. \A c \in Range(task'.consumer.keep) : decided'[c] # "decline"
  BY RangeEmpty DEF Hands
<1>9. \A c \in Calls : task'.worker.at = "run" /\ task'.worker.call = c => decided'[c] # "decline"
  BY DEF Declined, Hands
<1>10. DeclinedNeverRuns'
  BY DEF Declined, DeclinedNeverRuns
<1>11. /\ \A c \in Calls : decided'[c] # "none" => c \in Asks
       /\ \A c \in Calls : remote'[c].approval # "none" => remote'[c].approval = decided'[c]
       /\ \A c \in Asks : remote'[c].status \in {"settled", "waiting", "received"} => remote'[c].approval # "none"
       /\ \A c \in Asks : remote'[c].status \in {"waiting", "received"} => remote'[c].approval = "accept"
       /\ \A c \in Calls : remote'[c].status \in {"none", "asked"} => remote'[c].approval = "none"
  BY DEF Declined
<1> QED BY <1>3, <1>4, <1>6, <1>7, <1>8, <1>9, <1>10, <1>11 DEF Declined

\* While the consumer reads, no call is being asked about or classified.
LEMMA ReadingFacts ==
  ASSUME TurnInv, Reading
  PROVE /\ feed.ended = "no" /\ task.consumer = Reader /\ task.consumer.at = "read"
        /\ task.consumer.todo = << >> /\ task.consumer.keep = << >>
        /\ \A c : ~Asking(c)
BY NewTasksFacts DEF Reading, Feeding, Asking, Approves, TurnInv, Typed, TasksTyped

\* The next event, for the parts that do not depend on what it is.
LEMMA NextKeeps ==
  ASSUME TurnInv, Reading, NEW n \in log, Next(n), FeedTyped', TasksTyped', Hands(n), n = feed'.cursor,
         UNCHANGED <<remote, saved, decided, ran, torn>>,
         ledger' \in [Calls -> {"unknown", "approved", "terminal", "consumed"}],
         task'.consumer.at \in {"read", "ask"}
  PROVE Typed' /\ Service' /\ Targets' /\ Counted' /\ Results'
<1> USE NewTasksFacts DEF TurnInv, Typed
<1>1. UNCHANGED <<log, over, content>>
  BY DEF Next
<1>2. Typed'
  BY DEF CallsTyped
<1>3. Service'
  BY <1>1 DEF Service, AskOf, BatchOf
<1>4. Targets'
  BY NextTargets DEF Replaying
<1>5. Counted'
  BY NextCounted
<1>6. Results'
  <2>1. /\ task'.worker.at = "save" => task'.worker.result # None
        /\ \A c \in Calls : task'.worker.call = c => task'.worker.result \in {None} \cup 0 .. ran[c]
    BY DEF Hands, Results
  <2> QED BY <2>1 DEF Results, ResultsAgree
<1> QED BY <1>2, <1>3, <1>4, <1>5, <1>6

\* Nothing is asked or queued for a text.
LEMMA TakeTextKeeps ==
  ASSUME TurnInv, TakeText
  PROVE TurnInv'
<1> USE NewTasksFacts DEF TurnInv, Typed
<1>1. Reading /\ FeedNext /\ UNCHANGED <<content, remote, saved, decided, task, ledger, tools, ran, torn>>
  BY DEF TakeText, toolvars
<1>2. FeedTyped' /\ Next(feed'.cursor) /\ feed'.cursor \in log
  BY <1>1, NextEvent
<1>3. /\ task.consumer.todo = << >> /\ task.consumer.keep = << >> /\ task.consumer.at = "read"
      /\ \A c : ~Asking(c)
  BY <1>1, ReadingFacts
<1> DEFINE n == feed'.cursor
<1>4. content[n].kind = "text"
  BY <1>1, EventKinds DEF TakeText
<1>5. \A c : ~BatchOf(c, n) /\ ~AskOf(c, n)
  BY <1>4 DEF BatchOf, AskOf
<1>6. Hands(n)
  BY <1>1, <1>3 DEF Hands
<1>7. TasksTyped'
  BY <1>1 DEF TasksTyped
<1>8. \A c : ~Asking(c)'
  BY <1>1, <1>3 DEF Asking
<1>9. Typed' /\ Service' /\ Targets' /\ Counted' /\ Results'
  BY <1>1, <1>2, <1>3, <1>6, <1>7, NextKeeps DEF CallsTyped
<1>10. Placed'
  BY <1>1, <1>2, <1>5, <1>6, NextPlaced DEF TasksTyped, Placed
<1>11. Declined'
  BY <1>1, <1>2, <1>3, <1>5, <1>6, <1>8, NextDeclined
<1> QED BY <1>9, <1>10, <1>11

\* A call is asked about, unless the answer is known.
LEMMA TakeAskKeeps ==
  ASSUME TurnInv, TakeAsk
  PROVE TurnInv'
<1> USE NewTasksFacts DEF TurnInv, Typed
<1>1. Reading /\ FeedNext /\ UNCHANGED <<content, remote, saved, decided, tools, ran, torn>>
  BY DEF TakeAsk
<1>2. FeedTyped' /\ Next(feed'.cursor) /\ feed'.cursor \in log
  BY <1>1, NextEvent
<1>3. PICK n \in log : n = feed'.cursor
  BY <1>2
<1>4. Next(n) /\ content[n].kind = "ask"
  <2>1. content[feed'.cursor].kind = "ask"
    BY DEF TakeAsk
  <2> QED BY <1>2, <1>3, <2>1
<1>5. PICK c \in Calls : c = content[n].calls[1] /\ c \in Asks
  BY <1>4, AsksAreCalls DEF Service
<1> DEFINE v == IF remote[c].approval = "accept" THEN "approved" ELSE "terminal"
           t == [Reader EXCEPT !.at = "ask", !.call = c]
<1>6. /\ task.consumer.todo = << >> /\ task.consumer.keep = << >> /\ task.consumer.at = "read"
      /\ task.consumer = Reader /\ \A d : ~Asking(d)
  BY <1>1, ReadingFacts
<1>7. (\A d : ~BatchOf(d, n)) /\ \A d : AskOf(d, n) <=> d = c
  BY <1>5, <1>4 DEF BatchOf, AskOf
<1>8. \/ ledger[c] \in {"approved", "terminal"} /\ UNCHANGED <<task, ledger>>
      \/ ledger[c] \notin {"approved", "terminal"} /\ task' = [task EXCEPT !.consumer = t] /\ UNCHANGED ledger
      \/ ledger[c] \notin {"approved", "terminal"} /\ ledger' = [ledger EXCEPT ![c] = v] /\ UNCHANGED task
  BY <1>1, <1>5, <1>3 DEF TakeAsk, Consumer
<1>9. ledger \in [Calls -> {"unknown", "approved", "terminal", "consumed"}] /\ TasksTyped
  BY DEF CallsTyped
<1>10. v \in {"approved", "terminal"} /\ (v = "approved" => remote[c].approval = "accept")
  OBVIOUS
<1>11. t \in Consumers /\ t.at = "ask" /\ t.call = c /\ t.todo = << >> /\ t.keep = << >>
  BY <1>5, RangeEmpty DEF Reader, Consumers, Approves
<1>12. c \in Calls /\ tools' = tools /\ tools \in [target : Numbers, replayed : Seq(Calls), queue : Seq(Calls), aborted : BOOLEAN]
  BY <1>1, <1>5, <1>9 DEF TasksTyped
<1> HIDE DEF v, t
<1>13. /\ ledger' \in [Calls -> {"unknown", "approved", "terminal", "consumed"}]
       /\ \A d \in Calls : ledger[d] = "terminal" => ledger'[d] = "terminal"
       /\ \A d \in Calls : ledger'[d] = "approved" => ledger[d] = "approved" \/ remote[d].approval = "accept"
  BY <1>8, <1>9, <1>10, <1>12
<1>14. /\ TasksTyped' /\ task'.consumer.at \in {"read", "ask"}
       /\ task'.consumer.keep = << >> /\ task'.consumer.todo = << >> /\ task'.worker = task.worker
       /\ ledger'[c] \in {"approved", "terminal"} \/ Asking(c)'
       /\ \A d : Asking(d)' => d = c
  <2>1. CASE ledger'[c] \in {"approved", "terminal"} /\ UNCHANGED task
    <3>1. TasksTyped'
      BY <1>9, <1>12, <2>1 DEF TasksTyped
    <3>2. \A d : ~Asking(d)'
      BY <1>6, <2>1 DEF Asking
    <3> QED BY <1>6, <2>1, <3>1, <3>2
  <2>2. CASE task' = [task EXCEPT !.consumer = t]
    <3>1. TasksTyped' /\ task'.consumer = t /\ task'.worker = task.worker
      BY <1>9, <1>11, <1>12, <2>2, ConsumerSet DEF Approves
    <3>2. (\A d : Asking(d)' => d = c) /\ (ledger'[c] \in {"approved", "terminal"} \/ Asking(c)')
      BY <1>11, <3>1 DEF Asking, Approves
    <3> QED BY <1>11, <3>1, <3>2
  <2>3. ledger' = [ledger EXCEPT ![c] = v] => ledger'[c] \in {"approved", "terminal"}
    BY <1>9, <1>10, <1>12
  <2> QED BY <1>8, <2>1, <2>2, <2>3
<1>15. Hands(n)
  BY <1>12, <1>14 DEF Hands
<1>16. Typed' /\ Service' /\ Targets' /\ Counted' /\ Results'
  BY <1>1, <1>2, <1>13, <1>14, <1>15, <1>3, <1>4, NextKeeps
<1>17. Placed'
  BY <1>1, <1>7, <1>12, <1>15, <1>4, NextPlaced DEF TasksTyped, Placed
<1>18. Declined'
  <2>1. task'.consumer.at # "decided"
    BY <1>14
  <2> QED BY <1>1, <1>7, <1>13, <1>14, <1>15, <1>4, <2>1, NextDeclined
<1> QED BY <1>16, <1>17, <1>18

\* The calls of a batch go to the queue, or to those that are replayed.
LEMMA TakeBatchKeeps ==
  ASSUME TurnInv, TakeBatch
  PROVE TurnInv'
<1> USE NewTasksFacts DEF TurnInv, Typed
<1>1. Reading /\ FeedNext /\ UNCHANGED <<content, remote, saved, decided, task, ledger, ran, torn>>
  BY DEF TakeBatch
<1>2. FeedTyped' /\ Next(feed'.cursor) /\ feed'.cursor \in log
  BY <1>1, NextEvent
<1>3. /\ task.consumer.todo = << >> /\ task.consumer.keep = << >> /\ task.consumer.at = "read"
      /\ task.consumer = Reader /\ \A d : ~Asking(d)
  BY <1>1, ReadingFacts
<1>4. PICK n \in log : n = feed'.cursor
  BY <1>2
<1>5. Next(n) /\ content' = content /\ content[n].kind = "batch"
  <2>1. content[feed'.cursor].kind = "batch"
    BY <1>1 DEF TakeBatch
  <2> QED BY <1>1, <1>2, <1>4, <2>1
<1>6. PICK cs \in Seq(Calls) : cs = content[n].calls
  BY DEF FeedTyped, Event
<1>7. /\ \A d : BatchOf(d, n) <=> d \in Range(cs)
      /\ \A d : ~AskOf(d, n)
      /\ IsInjective(cs)
  BY <1>5, <1>6 DEF BatchOf, AskOf, Service
<1>8. tools' = IF Historical(n) THEN [tools EXCEPT !.replayed = @ \o cs] ELSE [tools EXCEPT !.queue = @ \o cs]
  BY <1>1, <1>4, <1>6 DEF TakeBatch
<1>9. /\ tools \in [target : Numbers, replayed : Seq(Calls), queue : Seq(Calls), aborted : BOOLEAN]
      /\ tools.queue \in Seq(Calls) /\ tools.replayed \in Seq(Calls)
  BY DEF TasksTyped
<1>10. \A d \in Range(cs) : d \in Calls /\ d \notin Range(tools.queue) \cup Range(tools.replayed)
  <2>1. Range(cs) \subseteq Calls
    BY RangeIn
  <2> QED BY <1>5, <1>7, <2>1, NextEventFacts DEF Placed
<1>11. /\ tools' \in [target : Numbers, replayed : Seq(Calls), queue : Seq(Calls), aborted : BOOLEAN]
       /\ tools'.target = tools.target
       /\ tools'.queue \in Seq(Calls) /\ tools'.replayed \in Seq(Calls)
       /\ IsInjective(tools'.queue) /\ IsInjective(tools'.replayed)
       /\ \A d \in Range(tools'.replayed) : d \in Range(tools.replayed) \/ d \in Range(cs)
       /\ \A d \in Range(tools'.queue) : d \in Range(tools.queue) \/ (d \in Range(cs) /\ ~Historical(n))
       /\ \A d \in Range(tools'.queue) \cap Range(tools'.replayed) : d \notin Range(cs)
  <2>1. CASE Historical(n)
    <3> DEFINE s == tools.replayed \o cs
    <3>1. /\ s \in Seq(Calls) /\ Range(s) = Range(tools.replayed) \cup Range(cs) /\ IsInjective(s)
      <4>1. Range(tools.replayed) \cap Range(cs) = {} /\ IsInjective(tools.replayed)
        BY <1>10 DEF Placed
      <4> QED BY <1>7, <1>9, <4>1, RangeConcat
    <3>2. tools' = [tools EXCEPT !.replayed = s]
      BY <1>8, <2>1
    <3> HIDE DEF s
    <3>3. /\ tools'.replayed = s /\ tools'.queue = tools.queue /\ tools'.target = tools.target
          /\ tools' \in [target : Numbers, replayed : Seq(Calls), queue : Seq(Calls), aborted : BOOLEAN]
      BY <1>9, <3>1, <3>2
    <3> QED BY <1>9, <1>10, <3>1, <3>3 DEF Placed
  <2>2. CASE ~Historical(n)
    <3> DEFINE s == tools.queue \o cs
    <3>1. /\ s \in Seq(Calls) /\ Range(s) = Range(tools.queue) \cup Range(cs) /\ IsInjective(s)
      <4>1. Range(tools.queue) \cap Range(cs) = {} /\ IsInjective(tools.queue)
        BY <1>10 DEF Placed
      <4> QED BY <1>7, <1>9, <4>1, RangeConcat
    <3>2. tools' = [tools EXCEPT !.queue = s]
      BY <1>8, <2>2
    <3> HIDE DEF s
    <3>3. /\ tools'.queue = s /\ tools'.replayed = tools.replayed /\ tools'.target = tools.target
          /\ tools' \in [target : Numbers, replayed : Seq(Calls), queue : Seq(Calls), aborted : BOOLEAN]
      BY <1>9, <3>1, <3>2
    <3> QED BY <1>9, <1>10, <2>2, <3>1, <3>3 DEF Placed
  <2> QED BY <2>1, <2>2
<1>12. Hands(n)
  BY <1>1, <1>3, <1>7, <1>11 DEF Hands
<1>13. TasksTyped'
  BY <1>1, <1>11 DEF TasksTyped
<1>14. \A d : ~Asking(d)'
  BY <1>1, <1>3 DEF Asking
<1>15. Typed' /\ Service' /\ Targets' /\ Counted' /\ Results'
  BY <1>1, <1>2, <1>3, <1>4, <1>5, <1>12, <1>13, NextKeeps DEF CallsTyped
<1>16. Placed'
  BY <1>5, <1>7, <1>11, <1>12, NextPlaced
<1>17. Declined'
  BY <1>1, <1>3, <1>5, <1>7, <1>12, <1>14, NextDeclined
<1> QED BY <1>15, <1>16, <1>17

\* The terminal event empties the queue and takes the worker away.
LEMMA TakeEndKeeps ==
  ASSUME TurnInv, TakeEnd
  PROVE TurnInv'
<1> USE NewTasksFacts DEF TurnInv, Typed
<1>1. /\ Reading /\ FeedNext /\ UNCHANGED <<content, remote, saved, decided, ledger, ran, torn>>
      /\ tools' = [tools EXCEPT !.queue = << >>] /\ task' = NewTasks
  BY DEF TakeEnd
<1>2. FeedTyped' /\ Next(feed'.cursor) /\ feed'.cursor \in log
  BY <1>1, NextEvent
<1>3. \A d : ~Asking(d)
  BY <1>1, ReadingFacts
<1>4. PICK n \in log : n = feed'.cursor
  BY <1>2
<1>5. Next(n) /\ content[n].kind = "end" /\ over
  <2>1. content[n] = Terminal
    BY <1>1, <1>4 DEF TakeEnd
  <2> QED BY <1>2, <1>4, <2>1, EventKinds DEF Service
<1>6. \A d : ~BatchOf(d, n) /\ ~AskOf(d, n)
  BY <1>5 DEF BatchOf, AskOf
<1>7. /\ tools' \in [target : Numbers, replayed : Seq(Calls), queue : Seq(Calls), aborted : BOOLEAN]
      /\ tools'.target = tools.target /\ tools'.queue = << >> /\ tools'.replayed = tools.replayed
      /\ tools.replayed \in Seq(Calls) /\ << >> \in Seq(Calls) /\ Range(<< >>) = {} /\ IsInjective(<< >>)
  BY <1>1, RangeEmpty DEF TasksTyped
<1>8. task'.worker = IdleWorker /\ task'.consumer = Reader /\ TasksTyped'
  BY <1>1, <1>7 DEF TasksTyped, Approves
<1>9. Hands(n)
  BY <1>5, <1>7, <1>8 DEF Hands
<1>10. (\A d : ~Asking(d)') /\ task'.consumer.at = "read"
  BY <1>8 DEF Asking, Approves
<1>11. Typed' /\ Service' /\ Targets' /\ Counted' /\ Results'
  BY <1>1, <1>2, <1>4, <1>5, <1>8, <1>9, <1>10, NextKeeps DEF CallsTyped
<1>12. Placed'
  BY <1>5, <1>6, <1>7, <1>9, NextPlaced DEF Placed
<1>13. Declined'
  BY <1>1, <1>5, <1>6, <1>9, <1>10, NextDeclined
<1> QED BY <1>11, <1>12, <1>13

-----------------------------------------------------------------------------
(* The feed ends, is replayed, or catches up.                               *)

\* The turn ends: nothing of it is left to replay.
LEMMA EndTurnKeeps ==
  ASSUME TurnInv, EndTurn
  PROVE TurnInv'
<1> USE NewTasksFacts DEF TurnInv, Typed
<1>1. /\ Reading /\ FeedEnd /\ feed'.ended = "settled"
      /\ UNCHANGED <<content, remote, saved, decided, task, ledger, tools, ran, torn>>
  BY DEF EndTurn, toolvars
<1>2. UNCHANGED <<log, over>>
  BY <1>1 DEF FeedEnd
<1>3. FeedTyped' /\ feed'.cursor = feed.cursor /\ feed'.target = feed.target
  <2>1. PICK how \in {"settled", "failed"} :
           feed' = [feed EXCEPT !.ended = how,
                     !.phase = IF @ \in {"reconnecting", "replaying"} THEN "closed" ELSE @]
    BY <1>1 DEF FeedEnd
  <2> DEFINE p == IF feed.phase \in {"reconnecting", "replaying"} THEN "closed" ELSE feed.phase
  <2>2. p \in {"none", "replaying", "caught_up", "closed"} /\ feed' = [feed EXCEPT !.ended = how, !.phase = p]
    BY <2>1 DEF FeedTyped
  <2> HIDE DEF p
  <2>3. /\ feed' \in [cursor : Nat, phase : {"none", "replaying", "caught_up", "closed"}, target : Numbers,
               skipped : {FALSE}, ended : {"no", "settled", "failed"}]
        /\ feed'.cursor = feed.cursor /\ feed'.target = feed.target
    BY <2>2 DEF FeedTyped
  <2> QED BY <1>1, <1>2, <2>3 DEF FeedTyped
<1>4. SameEvents
  BY <1>1, <1>2, <1>3 DEF SameEvents
<1>5. Typed'
  BY <1>1, <1>3 DEF CallsTyped, TasksTyped
<1>6. CallsGoOn
  BY <1>1 DEF CallsGoOn
<1>7. Service'
  BY <1>2, <1>4, <1>6, ServiceKeeps
<1>8. Placed'
  BY <1>1, <1>4, PlacedKeeps DEF Placed, TasksTyped, Consumers
<1>9. Targets'
  BY <1>1, <1>3, <1>4, TargetsKeeps
<1>10. Counted'
  BY <1>1, <1>2, <1>4, CountedKeeps DEF Unsaved
<1>11. Results'
  BY <1>1, ResultsKeeps DEF Results
<1>12. Declined'
  BY <1>1, <1>4, <1>6, DeclinedKeeps DEF Asking, Declined
<1> QED BY <1>5, <1>7, <1>8, <1>9, <1>10, <1>11, <1>12

\* What is pending is asked now; the snapshot says what was decided.
LEMMA ReconnectKeeps ==
  ASSUME TurnInv, Reconnect
  PROVE TurnInv'
<1> USE NewTasksFacts DEF TurnInv, Typed
<1>1. /\ Reading /\ FeedReplay /\ feed'.target = Max(log \cup {feed.cursor})
      /\ UNCHANGED <<content, remote, saved, decided, tools, ran, torn>>
      /\ ledger' = [c \in Calls |->
           CASE remote[c].approval = "accept" -> "approved"
             [] remote[c].approval = "decline" -> "terminal"
             [] c \in Asks /\ remote[c].status = "closed" -> "terminal"
             [] OTHER -> ledger[c]]
      /\ \/ UNCHANGED task
         \/ \E c \in Calls : /\ remote[c].status = "asked"
                             /\ task' = [task EXCEPT !.consumer = [Reader EXCEPT !.at = "ask", !.call = c]]
  BY DEF Reconnect, Consumer
<1>2. UNCHANGED <<log, over>>
  BY <1>1 DEF FeedReplay
<1>3. /\ feed.ended = "no" /\ task.consumer = Reader /\ task.consumer.at = "read"
      /\ task.consumer.todo = << >> /\ task.consumer.keep = << >> /\ \A d : ~Asking(d)
  BY <1>1, ReadingFacts
<1>4. FeedTyped' /\ feed'.cursor = feed.cursor /\ feed'.ended = "no"
  <2>1. PICK n \in Unseen \cup {feed.cursor} : feed' = [feed EXCEPT !.target = n, !.phase = "replaying"]
    BY <1>1 DEF FeedReplay
  <2>2. n \in log \cup {0}
    BY <2>1 DEF Unseen, FeedTyped
  <2>3. log \cup {0} \in SUBSET Nat
    BY DEF FeedTyped
  <2>4. n \in Numbers
    BY <2>2, <2>3, Zenon DEF Numbers
  <2>5. /\ feed' \in [cursor : Nat, phase : {"none", "replaying", "caught_up", "closed"}, target : Numbers,
                     skipped : {FALSE}, ended : {"no", "settled", "failed"}]
        /\ feed'.cursor = feed.cursor /\ feed'.ended = feed.ended
    BY <2>1, <2>4 DEF FeedTyped
  <2> QED BY <1>1, <1>2, <1>3, <2>5 DEF FeedTyped
<1>5. \A e \in log : e <= feed'.target
  <2> DEFINE T == log \cup {feed.cursor}
  <2>1. T \in SUBSET Int /\ feed.cursor \in log \cup {0} /\ log \in SUBSET Int
    <3>1. feed.cursor \in log \cup {0} /\ log \in SUBSET Int
      BY DEF FeedTyped
    <3>2. \A e \in T : e \in Int
      BY <3>1
    <3> QED BY <3>1, <3>2
  <2>2. CASE log = {}
    BY <2>2
  <2>3. CASE log # {}
    <3>1. PICK m \in log : \A e \in log : e <= m
      BY <2>3 DEF FeedTyped
    <3>2. \A e \in T : e <= m
      <4>1. m \in 1 .. MaxSeq
        BY DEF FeedTyped
      <4> QED BY <2>1, <3>1, <4>1
    <3>3. Max(T) = m
      <4> HIDE DEF T
      <4>1. m \in T
        BY <3>1 DEF T
      <4> QED BY <2>1, <3>2, <4>1, MaxIs
    <3> QED BY <1>1, <3>1, <3>3
  <2> QED BY <2>2, <2>3
<1>6. SameEvents
  BY <1>1, <1>2, <1>4 DEF SameEvents
<1>7. /\ ledger' \in [Calls -> {"unknown", "approved", "terminal", "consumed"}]
      /\ \A c \in Calls : remote[c].approval = "decline" => ledger'[c] = "terminal"
      /\ \A c \in Calls : ledger'[c] = "approved" => ledger[c] = "approved" \/ remote[c].approval = "accept"
      /\ \A c \in Calls : ledger[c] = "terminal" => ledger'[c] = "terminal" \/ remote[c].approval = "accept"
  BY <1>1 DEF CallsTyped
<1>8. /\ TasksTyped' /\ task'.worker = task.worker
      /\ task'.consumer.todo = << >> /\ task'.consumer.keep = << >> /\ task'.consumer.at \in {"read", "ask"}
      /\ \A d : Asking(d)' => d \in Calls /\ remote[d].status = "asked"
  <2>1. CASE UNCHANGED task
    <3>1. TasksTyped'
      BY <1>1, <2>1 DEF TasksTyped
    <3> QED BY <1>3, <2>1, <3>1 DEF Asking
  <2>2. CASE \E c \in Calls : /\ remote[c].status = "asked"
                              /\ task' = [task EXCEPT !.consumer = [Reader EXCEPT !.at = "ask", !.call = c]]
    <3>1. PICK c \in Calls : /\ remote[c].status = "asked"
                             /\ task' = [task EXCEPT !.consumer = [Reader EXCEPT !.at = "ask", !.call = c]]
      BY <2>2
    <3> DEFINE t == [Reader EXCEPT !.at = "ask", !.call = c]
    <3>2. t \in Consumers /\ t.at = "ask" /\ t.call = c /\ t.todo = << >> /\ t.keep = << >>
      BY RangeEmpty DEF Reader, Consumers, Approves
    <3>3. task' = [task EXCEPT !.consumer = t]
      BY <3>1
    <3> HIDE DEF t
    <3>4. TasksTyped /\ tools' \in [target : Numbers, replayed : Seq(Calls), queue : Seq(Calls), aborted : BOOLEAN]
      BY <1>1 DEF TasksTyped
    <3>5. TasksTyped' /\ task'.consumer = t /\ task'.worker = task.worker
      BY <3>2, <3>3, <3>4, ConsumerSet DEF Approves
    <3>6. \A d : Asking(d)' => d = c
      BY <3>2, <3>5 DEF Asking
    <3> QED BY <3>1, <3>2, <3>5, <3>6
  <2> QED BY <1>1, <2>1, <2>2
<1>9. Typed'
  BY <1>1, <1>4, <1>7, <1>8 DEF CallsTyped
<1>10. CallsGoOn
  BY <1>1 DEF CallsGoOn
<1>11. Service'
  BY <1>2, <1>6, <1>10, ServiceKeeps
<1>12. /\ Range(task'.consumer.todo) = {} /\ Range(task'.consumer.keep) = {}
       /\ IsInjective(task'.consumer.todo) /\ IsInjective(task'.consumer.keep)
       /\ task'.consumer.todo \in Seq(Calls) /\ task'.consumer.keep \in Seq(Calls)
  BY <1>8, RangeEmpty
<1>13. Placed'
  BY <1>1, <1>6, <1>8, <1>12, PlacedKeeps DEF Placed
<1>14. Targets'
  BY <1>1, <1>2, <1>5, <1>8 DEF Targets, Replaying
<1>15. Counted'
  <2>1. \A c \in Calls : Unsaved(c)' <=> Unsaved(c)
    BY <1>8 DEF Unsaved
  <2> QED BY <1>1, <1>2, <1>3, <1>4, <1>6, <1>8, <1>12, <2>1, CountedKeeps
<1>16. Results'
  BY <1>1, <1>8, ResultsKeeps DEF Results
<1>17. Declined'
  <2> USE SameEventsFacts
  <2>1. \A c \in Calls : Asking(c)' => c \in Asks /\ ~Given(c)' /\ remote'[c].status # "none"
    BY <1>1, <1>6, <1>8 DEF Service, Given
  <2>2. /\ \A c \in Calls : ledger'[c] = "approved" => remote'[c].approval = "accept"
        /\ \A c \in Calls, a \in log' :
             Feeding' /\ remote'[c].approval = "decline" /\ a <= feed'.cursor /\ AskOf(c, a)'
               => ledger'[c] = "terminal" \/ Asking(c)'
    BY <1>1, <1>7 DEF Declined
  <2>3. \A c \in Range(tools'.queue) : decided'[c] = "decline" => ledger'[c] = "terminal"
    <3> SUFFICES ASSUME NEW c \in Range(tools.queue), decided[c] = "decline"
                 PROVE ledger'[c] = "terminal"
      BY <1>1
    <3>1. c \in Calls
      BY RangeIn DEF TasksTyped
    <3>2. remote[c].approval # "accept"
      BY <3>1 DEF Declined
    <3> QED BY <1>7, <3>1, <3>2 DEF Declined
  <2>4. /\ \A c \in Calls : task'.worker.at = "run" /\ task'.worker.call = c => decided'[c] # "decline"
        /\ DeclinedNeverRuns'
    <3>1. UNCHANGED <<decided, ran>> /\ task'.worker = task.worker
      BY <1>1, <1>8
    <3> QED BY <3>1 DEF Declined, DeclinedNeverRuns
  <2>5. /\ \A c \in Range(task'.consumer.keep) : decided'[c] # "decline"
        /\ \A c \in Calls : task'.consumer.at = "decided" /\ task'.consumer.call = c => decided'[c] # "none"
    BY <1>8, <1>12
  <2>6. /\ \A c \in Calls : decided'[c] # "none" => c \in Asks
        /\ \A c \in Calls : remote'[c].approval # "none" => remote'[c].approval = decided'[c]
        /\ \A c \in Asks : remote'[c].status \in {"settled", "waiting", "received"} => remote'[c].approval # "none"
        /\ \A c \in Asks : remote'[c].status \in {"waiting", "received"} => remote'[c].approval = "accept"
        /\ \A c \in Calls : remote'[c].status \in {"none", "asked"} => remote'[c].approval = "none"
    BY <1>1 DEF Declined
  <2> QED BY <2>1, <2>2, <2>3, <2>4, <2>6, <2>5 DEF Declined
<1> QED BY <1>9, <1>11, <1>13, <1>14, <1>15, <1>16, <1>17

\* All of the history is there; the calls it brought are classified.
LEMMA CatchUpKeeps ==
  ASSUME TurnInv, CatchUp
  PROVE TurnInv'
<1> USE NewTasksFacts DEF TurnInv, Typed
<1> DEFINE t == [Reader EXCEPT !.at = "classify", !.todo = tools.replayed]
<1>1. /\ Reading /\ FeedCatchUp /\ task' = [task EXCEPT !.consumer = t]
      /\ UNCHANGED <<content, remote, saved, decided, ledger, tools, ran, torn>>
  BY DEF CatchUp, Consumer
<1>2. /\ UNCHANGED <<log, over>> /\ feed' = [feed EXCEPT !.target = None, !.phase = "caught_up"]
      /\ feed.target # None /\ \A e \in log : e > feed.cursor => e > feed.target
  BY <1>1 DEF FeedCatchUp, Unseen, FeedTyped
<1>3. /\ feed.ended = "no" /\ task.consumer = Reader /\ \A d : ~Asking(d)
  BY <1>1, ReadingFacts
<1>4. /\ tools \in [target : Numbers, replayed : Seq(Calls), queue : Seq(Calls), aborted : BOOLEAN]
      /\ tools.replayed \in Seq(Calls) /\ TasksTyped
  BY DEF TasksTyped
<1>5. t \in Consumers /\ t.at = "classify" /\ t.todo = tools.replayed /\ t.keep = << >>
  BY <1>4, RangeEmpty DEF Reader, Consumers, Approves, Replaying
<1> HIDE DEF t
<1>6. TasksTyped' /\ task'.consumer = t /\ task'.worker = task.worker
  BY <1>1, <1>4, <1>5, ConsumerSet DEF Approves
<1>7. FeedTyped' /\ feed'.cursor = feed.cursor /\ feed'.ended = "no" /\ feed'.target = None
  BY <1>1, <1>2, <1>3 DEF FeedTyped, Numbers
<1>8. SameEvents
  BY <1>1, <1>2, <1>7 DEF SameEvents
<1>9. Typed'
  BY <1>1, <1>6, <1>7 DEF CallsTyped
<1>10. CallsGoOn
  BY <1>1 DEF CallsGoOn
<1>11. Service'
  BY <1>2, <1>8, <1>10, ServiceKeeps
<1>12. Range(t.keep) = {} /\ IsInjective(t.keep) /\ t.keep \in Seq(Calls)
  BY <1>5, RangeEmpty
<1>13. Placed'
  BY <1>1, <1>4, <1>5, <1>6, <1>8, <1>12, PlacedKeeps DEF Placed
<1>14. Targets'
  <2>1. \A e \in log : e > feed.cursor => e > tools.target
    <3> SUFFICES ASSUME NEW e \in log, e > feed.cursor
                 PROVE e > tools.target
      OBVIOUS
    <3>1. ~(e <= feed.target) \/ e > feed.target
      BY <1>2
    <3>2. e \in Int /\ tools.target \in Int /\ feed.target \in Int
      BY DEF FeedTyped, TasksTyped, Numbers, None
    <3>3. ~(e <= tools.target)
      BY <1>2, <3>2 DEF Targets
    <3> QED BY <3>2, <3>3
  <2> QED BY <1>1, <1>2, <1>7, <2>1 DEF Targets
<1>15. Counted'
  <2>1. \A c \in Calls : Unsaved(c)' <=> Unsaved(c)
    BY <1>6 DEF Unsaved
  <2> QED BY <1>1, <1>2, <1>3, <1>6, <1>7, <1>8, <1>12, <2>1, CountedKeeps
<1>16. Results'
  BY <1>1, <1>6, ResultsKeeps DEF Results
<1>17. Declined'
  <2>1. (\A d : ~Asking(d)') /\ task'.consumer.at # "decided"
    BY <1>5, <1>6 DEF Asking, Approves
  <2> QED BY <1>1, <1>3, <1>6, <1>8, <1>10, <1>12, <2>1, DeclinedKeeps
<1> QED BY <1>9, <1>11, <1>13, <1>14, <1>15, <1>16, <1>17

-----------------------------------------------------------------------------
(* Approvals.                                                               *)

\* The user decides, before any event has brought the call.
LEMMA DecideKeeps ==
  ASSUME TurnInv, Decide
  PROVE TurnInv'
<1> USE NewTasksFacts DEF TurnInv, Typed
<1> DEFINE t == [task.consumer EXCEPT !.at = "decided"]
<1>1. PICK c \in Calls : c = task.consumer.call
  BY DEF Decide, TasksTyped, Approves
<1>2. PICK d \in {"accept", "decline"} : decided[c] \in {"none", d} /\ decided' = [decided EXCEPT ![c] = d]
  BY <1>1 DEF Decide
<1>3. /\ feed.ended = "no" /\ task.consumer.at = "ask" /\ task' = [task EXCEPT !.consumer = t]
      /\ UNCHANGED <<log, over, feed, content, remote, saved, ledger, tools, ran, torn>>
  BY DEF Decide, Feeding, Consumer, feedvars
<1>4. /\ task.consumer \in Consumers /\ TasksTyped
      /\ tools' \in [target : Numbers, replayed : Seq(Calls), queue : Seq(Calls), aborted : BOOLEAN]
  BY <1>3 DEF TasksTyped
<1>5. /\ t \in Consumers /\ t.at = "decided" /\ t.call = c
      /\ t.todo = task.consumer.todo /\ t.keep = task.consumer.keep
  BY <1>1, <1>4, ConsumerAt
<1> HIDE DEF t
<1>6. TasksTyped' /\ task'.consumer = t /\ task'.worker = task.worker
  BY <1>3, <1>4, <1>5, ConsumerSet
<1>7. SameEvents
  BY <1>3 DEF SameEvents
<1>8. Asking(c) /\ c \in Asks /\ ~Given(c) /\ remote[c].status # "none"
  BY <1>1, <1>3 DEF Asking, Approves, Declined
<1>9. \A e : Asking(e)' <=> Asking(e)
  BY <1>1, <1>3, <1>5, <1>6 DEF Asking, Approves
<1>10. decided \in [Calls -> Decisions] /\ decided' \in [Calls -> Decisions]
  BY <1>2 DEF CallsTyped, Decisions
<1>11. Typed'
  BY <1>3, <1>6, <1>10 DEF FeedTyped, CallsTyped
<1>12. CallsGoOn
  BY <1>3 DEF CallsGoOn
<1>13. Service'
  BY <1>3, <1>7, <1>12, ServiceKeeps
<1>14. Placed'
  BY <1>3, <1>4, <1>5, <1>6, <1>7, PlacedKeeps DEF Placed, Consumers
<1>15. Targets'
  BY <1>3, <1>5, <1>6, <1>7, TargetsKeeps DEF Replaying
<1>16. Counted'
  <2>1. \A e \in Calls : Unsaved(e)' <=> Unsaved(e)
    BY <1>6 DEF Unsaved
  <2> QED BY <1>3, <1>5, <1>6, <1>7, <2>1, CountedKeeps
<1>17. Results'
  BY <1>3, <1>6, ResultsKeeps DEF Results
<1>18. Declined'
  <2> USE SameEventsFacts
  <2>1. decided'[c] = d /\ \A e \in Calls : e # c => decided'[e] = decided[e]
    BY <1>2, <1>10
  <2>2. remote[c].approval # "none" => decided[c] = d
    BY <1>2 DEF Declined
  <2>3. \A e \in Calls : remote'[e].approval # "none" => remote'[e].approval = decided'[e]
    BY <1>3, <2>1, <2>2 DEF Declined
  <2>4. \A e \in Calls : decided'[e] # "none" => e \in Asks
    BY <1>8, <2>1 DEF Declined
  <2>5. /\ Range(tools.queue) \cup Range(task.consumer.keep) \subseteq Calls
        /\ \A e \in Calls : e \in Range(tools.queue) \cup Range(task.consumer.keep) => e # c
        /\ task.worker.call # c
    <3>1. Range(tools.queue) \cup Range(tools.replayed) \subseteq Calls
      BY RangeIn DEF TasksTyped
    <3> QED BY <1>8, <3>1 DEF Placed
  <2>6. /\ \A e \in Range(task'.consumer.keep) : decided'[e] # "decline"
        /\ \A e \in Range(tools'.queue) : decided'[e] = "decline" => ledger'[e] = "terminal"
        /\ \A e \in Calls : task'.worker.at = "run" /\ task'.worker.call = e => decided'[e] # "decline"
    BY <1>3, <1>5, <1>6, <2>1, <2>5 DEF Declined
  <2>7. DeclinedNeverRuns'
    <3>1. ran[c] # 0 => decided[c] = d
      <4>1. ran[c] # 0 => remote[c].approval # "none"
        BY <1>8 DEF Counted, Published, Service
      <4> QED BY <2>2, <4>1
    <3> QED BY <1>3, <2>1, <3>1 DEF Declined, DeclinedNeverRuns
  <2>8. /\ \A e \in Calls : Asking(e)' => e \in Asks /\ ~Given(e)' /\ remote'[e].status # "none"
        /\ \A e \in Calls : ledger'[e] = "approved" => remote'[e].approval = "accept"
        /\ \A e \in Calls, a \in log' :
             Feeding' /\ remote'[e].approval = "decline" /\ a <= feed'.cursor /\ AskOf(e, a)'
               => ledger'[e] = "terminal" \/ Asking(e)'
    BY <1>3, <1>7, <1>9 DEF Declined, Feeding
  <2>9. \A e \in Calls : task'.consumer.at = "decided" /\ task'.consumer.call = e => decided'[e] # "none"
    BY <1>5, <1>6, <2>1
  <2>10. /\ \A e \in Asks : remote'[e].status \in {"settled", "waiting", "received"} => remote'[e].approval # "none"
         /\ \A e \in Asks : remote'[e].status \in {"waiting", "received"} => remote'[e].approval = "accept"
         /\ \A e \in Calls : remote'[e].status \in {"none", "asked"} => remote'[e].approval = "none"
    BY <1>3 DEF Declined
  <2> QED BY <2>3, <2>4, <2>6, <2>7, <2>8, <2>9, <2>10 DEF Declined
<1> QED BY <1>11, <1>13, <1>14, <1>15, <1>16, <1>17, <1>18

\* The decision reaches the service, or it does not.
LEMMA SettledFacts ==
  ASSUME TurnInv, NEW c \in Calls, Asking(c), task.consumer.at = "decided",
         remote' \in {remote, Settled(c)}, UNCHANGED <<log, over, content, decided>>
  PROVE /\ remote' \in [Calls -> [status : Statuses, approval : Decisions, result : Numbers]]
        /\ Service'
        /\ \A d \in Calls : remote'[d].result = remote[d].result
        /\ \A d \in Calls : d # c => remote'[d] = remote[d]
        /\ \A d \in Calls : remote[d].approval # "none" => remote'[d].approval = remote[d].approval
        /\ \A d \in Calls : remote'[d].approval # "none" => remote'[d].approval = decided[d]
        /\ \A d \in Asks : remote'[d].status \in {"settled", "waiting", "received"} => remote'[d].approval # "none"
        /\ \A d \in Asks : remote'[d].status \in {"waiting", "received"} => remote'[d].approval = "accept"
        /\ \A d \in Calls : remote'[d].status \in {"none", "asked"} => remote'[d].approval = "none"
        /\ remote'[c].status # "none"
<1> USE DEF TurnInv, Typed
<1>1. remote \in [Calls -> [status : Statuses, approval : Decisions, result : Numbers]]
  BY DEF CallsTyped
<1>2. Asks \subseteq Calls
  BY AsksAreCalls
<1>3. c \in Asks /\ ~Given(c) /\ remote[c].status # "none" /\ decided[c] \in {"accept", "decline"}
  BY DEF Asking, Declined, CallsTyped, Decisions
<1>4. CASE remote' = remote
  <2>1. Service'
    BY <1>4 DEF Service, AskOf, BatchOf
  <2> QED BY <1>1, <1>3, <1>4, <2>1 DEF Declined
<1>5. CASE remote[c].status = "asked" /\ remote' = [remote EXCEPT ![c].status = "settled", ![c].approval = decided[c]]
  <2> DEFINE v == [remote[c] EXCEPT !.status = "settled", !.approval = decided[c]]
  <2>1. /\ v \in [status : Statuses, approval : Decisions, result : Numbers]
        /\ v.status = "settled" /\ v.approval = decided[c] /\ v.result = remote[c].result
    BY <1>1, <1>3 DEF Statuses, Decisions
  <2>2. remote' = [remote EXCEPT ![c] = v] /\ remote[c].status = "asked"
    BY <1>5
  <2> HIDE DEF v
  <2>3. /\ remote' \in [Calls -> [status : Statuses, approval : Decisions, result : Numbers]]
        /\ remote'[c] = v /\ \A d \in Calls : d # c => remote'[d] = remote[d]
    BY <1>1, <2>1, <2>2
  <2>4. remote[c].approval = "none"
    BY <2>2 DEF Declined
  <2>5. \A d, e : (AskOf(d, e)' <=> AskOf(d, e)) /\ (BatchOf(d, e)' <=> BatchOf(d, e))
    BY DEF AskOf, BatchOf
  <2>6. \A e \in log : ~BatchOf(c, e)
    BY <2>2 DEF Service
  <2>7. \A d \in Calls, e \in log' : BatchOf(d, e)' =>
         /\ remote'[d].status \in {"waiting", "received", "closed"}
         /\ d \in Asks => remote'[d].approval # "none" /\ \E a \in log' : a < e /\ AskOf(d, a)'
    BY <2>3, <2>5, <2>6 DEF Service
  <2>8. /\ \A d \in Calls : \A e, f \in log' : BatchOf(d, e)' /\ BatchOf(d, f)' => e = f
        /\ \A d \in Calls : \A e, f \in log' : AskOf(d, e)' /\ AskOf(d, f)' => e = f
        /\ \A e \in log' : content'[e].kind = "batch" => IsInjective(content'[e].calls)
        /\ \A e \in log' : content'[e].kind = "ask" => content'[e].calls[1] \in Asks
        /\ \A e \in log' : content'[e] = Terminal => over'
    BY <2>5 DEF Service
  <2>9. \A d \in Calls : remote'[d].status = "none" <=> remote[d].status = "none"
    BY <1>3, <2>1, <2>3
  <2>10. /\ \A d \in Calls, e \in log' : AskOf(d, e)' => remote'[d].status # "none"
         /\ \A d \in Asks : remote'[d].status # "none" => \E a \in log' : AskOf(d, a)'
         /\ \A d \in Calls \ Asks : remote'[d].status \notin {"asked", "settled"}
    BY <1>2, <1>3, <2>3, <2>5, <2>9 DEF Service
  <2>11. Service'
    BY <2>7, <2>8, <2>10 DEF Service
  <2>12. /\ \A d \in Calls : remote'[d].result = remote[d].result
         /\ \A d \in Calls : remote[d].approval # "none" => remote'[d].approval = remote[d].approval
         /\ \A d \in Calls : remote'[d].approval # "none" => remote'[d].approval = decided[d]
         /\ remote'[c].status # "none"
    BY <1>1, <2>1, <2>3, <2>4 DEF Declined
  <2>13. /\ \A d \in Asks : remote'[d].status \in {"settled", "waiting", "received"} => remote'[d].approval # "none"
         /\ \A d \in Asks : remote'[d].status \in {"waiting", "received"} => remote'[d].approval = "accept"
         /\ \A d \in Calls : remote'[d].status \in {"none", "asked"} => remote'[d].approval = "none"
    BY <1>2, <1>3, <2>1, <2>3 DEF Declined
  <2> QED BY <2>3, <2>11, <2>12, <2>13
<1> QED BY <1>4, <1>5 DEF Settled

\* The decision reaches the service, or the call was closed before.
LEMMA ReportKeeps ==
  ASSUME TurnInv, ReportDecision
  PROVE TurnInv'
<1> USE NewTasksFacts DEF TurnInv, Typed
<1>1. PICK c \in Calls : c = task.consumer.call
  BY DEF ReportDecision, TasksTyped, Approves
<1>2. /\ feed.ended = "no" /\ task.consumer.at = "decided" /\ task' = [task EXCEPT !.consumer = Reader]
      /\ remote' = Settled(c)
      /\ ledger' = IF NotPending(c) THEN [ledger EXCEPT ![c] = "terminal"] ELSE RecordDecision(c, decided[c])
      /\ UNCHANGED <<log, over, feed, content, saved, decided, tools, ran, torn>>
  BY <1>1 DEF ReportDecision, Feeding, Consumer, feedvars
<1>3. Asking(c) /\ c \in Asks /\ ~Given(c)
  BY <1>1, <1>2 DEF Asking, Approves, Declined
<1>4. /\ remote' \in [Calls -> [status : Statuses, approval : Decisions, result : Numbers]]
      /\ Service'
      /\ \A d \in Calls : remote'[d].result = remote[d].result
      /\ \A d \in Calls : d # c => remote'[d] = remote[d]
      /\ \A d \in Calls : remote[d].approval # "none" => remote'[d].approval = remote[d].approval
      /\ \A d \in Calls : remote'[d].approval # "none" => remote'[d].approval = decided[d]
      /\ \A d \in Asks : remote'[d].status \in {"settled", "waiting", "received"} => remote'[d].approval # "none"
      /\ \A d \in Asks : remote'[d].status \in {"waiting", "received"} => remote'[d].approval = "accept"
      /\ \A d \in Calls : remote'[d].status \in {"none", "asked"} => remote'[d].approval = "none"
      /\ remote'[c].status # "none"
  <2>1. remote' \in {remote, Settled(c)}
    BY <1>2
  <2>2. UNCHANGED <<log, over, content, decided>> /\ task.consumer.at = "decided"
    BY <1>2
  <2> QED BY <1>3, <2>1, <2>2, SettledFacts
<1>5. TasksTyped' /\ task'.consumer = Reader /\ task'.worker = task.worker
  <2>1. TasksTyped /\ tools' \in [target : Numbers, replayed : Seq(Calls), queue : Seq(Calls), aborted : BOOLEAN]
    BY <1>2 DEF TasksTyped
  <2> QED BY <1>2, <2>1, ConsumerSet DEF Approves
<1>6. SameEvents
  BY <1>2 DEF SameEvents
<1>7. decided[c] \in {"accept", "decline"}
  BY <1>1, <1>2 DEF Declined, CallsTyped, Decisions
<1>8. /\ ledger' \in [Calls -> {"unknown", "approved", "terminal", "consumed"}]
      /\ ledger'[c] = IF NotPending(c) \/ decided[c] = "decline" THEN "terminal" ELSE "approved"
      /\ \A d \in Calls : d # c => ledger'[d] = ledger[d]
  <2>1. ledger \in [Calls -> {"unknown", "approved", "terminal", "consumed"}]
    BY DEF CallsTyped
  <2> QED BY <1>2, <1>7, <2>1 DEF RecordDecision
<1>9. Typed'
  BY <1>2, <1>4, <1>5, <1>8 DEF FeedTyped, CallsTyped
<1>10. Range(Reader.todo) = {} /\ Range(Reader.keep) = {} /\ IsInjective(Reader.todo) /\ IsInjective(Reader.keep)
       /\ Reader.todo \in Seq(Calls) /\ Reader.keep \in Seq(Calls)
  BY RangeEmpty
<1>11. Placed'
  BY <1>2, <1>5, <1>6, <1>10, PlacedKeeps DEF Placed
<1>12. Targets'
  BY <1>2, <1>5, <1>6, TargetsKeeps DEF Replaying
<1>13. Counted'
  <2>1. \A e \in Calls : Unsaved(e)' <=> Unsaved(e)
    BY <1>5 DEF Unsaved
  <2> QED BY <1>2, <1>5, <1>6, <1>10, <2>1, CountedKeeps
<1>14. Results'
  BY <1>2, <1>4, <1>5, ResultsKeeps DEF Results
<1>15. Declined'
  <2> USE SameEventsFacts, <1>6
  <2>1. \A d : ~Asking(d)'
    BY <1>5 DEF Asking, Approves
  <2>2. ledger'[c] = "approved" => remote'[c].approval = "accept"
    <3>1. CASE remote[c].status = "asked"
      <4>1. remote'[c].approval = decided[c]
        <5>1. remote \in [Calls -> [status : Statuses, approval : Decisions, result : Numbers]]
          BY DEF CallsTyped
        <5>2. remote' = [remote EXCEPT ![c].status = "settled", ![c].approval = decided[c]]
          BY <1>2, <3>1 DEF Settled
        <5> QED BY <5>1, <5>2
      <4> QED BY <1>7, <1>8, <4>1
    <3>2. CASE remote[c].status # "asked"
      <4>1. remote' = remote
        BY <1>2, <3>2 DEF Settled
      <4>2. remote[c].approval = "none" => NotPending(c)
        <5>1. remote[c].status \in Statuses
          BY DEF CallsTyped
        <5> QED BY <1>3, <1>4, <3>2, <4>1, <5>1 DEF NotPending, Statuses
      <4> QED BY <1>4, <1>7, <1>8, <4>1, <4>2
    <3> QED BY <3>1, <3>2
  <2>3. \A d \in Calls : ledger'[d] = "approved" => remote'[d].approval = "accept"
    BY <1>4, <1>8, <2>2 DEF Declined
  <2>4. \A d \in Calls, a \in log' :
          Feeding' /\ remote'[d].approval = "decline" /\ a <= feed'.cursor /\ AskOf(d, a)'
            => ledger'[d] = "terminal" \/ Asking(d)'
    <3> SUFFICES ASSUME NEW d \in Calls, NEW a \in log, remote'[d].approval = "decline",
                        a <= feed.cursor, AskOf(d, a)
                 PROVE ledger'[d] = "terminal"
      BY <1>2
    <3>1. CASE d = c
      BY <1>4, <1>8, <3>1
    <3>2. CASE d # c
      <4>1. ~Asking(d)
        BY <1>1, <3>2 DEF Asking
      <4>2. remote[d].approval = "decline"
        BY <1>4, <3>2
      <4> QED BY <1>2, <1>8, <3>2, <4>1, <4>2 DEF Declined, Feeding
    <3> QED BY <3>1, <3>2
  <2>5. \A d \in Range(tools'.queue) : decided'[d] = "decline" => ledger'[d] = "terminal"
    <3>1. \A d \in Range(tools.queue) : d \in Calls /\ d # c
      <4>1. Range(tools.queue) \subseteq Calls
        BY RangeIn DEF TasksTyped
      <4> QED BY <1>3, <4>1 DEF Placed
    <3> QED BY <1>2, <1>8, <3>1 DEF Declined
  <2>6. /\ \A d \in Calls : task'.worker.at = "run" /\ task'.worker.call = d => decided'[d] # "decline"
        /\ DeclinedNeverRuns'
        /\ \A d \in Calls : decided'[d] # "none" => d \in Asks
    BY <1>2, <1>5 DEF Declined, DeclinedNeverRuns
  <2>7. /\ \A d \in Range(task'.consumer.keep) : decided'[d] # "decline"
        /\ \A d \in Calls : task'.consumer.at = "decided" /\ task'.consumer.call = d => decided'[d] # "none"
    BY <1>5, <1>10
  <2>8. /\ \A d \in Calls : remote'[d].approval # "none" => remote'[d].approval = decided'[d]
        /\ \A d \in Asks : remote'[d].status \in {"settled", "waiting", "received"} => remote'[d].approval # "none"
        /\ \A d \in Asks : remote'[d].status \in {"waiting", "received"} => remote'[d].approval = "accept"
        /\ \A d \in Calls : remote'[d].status \in {"none", "asked"} => remote'[d].approval = "none"
    BY <1>2, <1>4
  <2> QED BY <2>1, <2>3, <2>4, <2>5, <2>6, <2>7, <2>8 DEF Declined
<1> QED BY <1>4, <1>9, <1>11, <1>12, <1>13, <1>14, <1>15

\* The report may have arrived or not: the observation fails.
LEMMA ReportLostKeeps ==
  ASSUME TurnInv, ReportLost
  PROVE TurnInv'
<1> USE NewTasksFacts DEF TurnInv, Typed
<1>1. PICK c \in Calls : c = task.consumer.call
  BY DEF ReportLost, TasksTyped, Approves
<1>2. /\ task.consumer.at = "decided" /\ remote' \in {remote, Settled(c)} /\ TurnFails
      /\ ledger' = [ledger EXCEPT ![c] = "unknown"]
      /\ UNCHANGED <<content, saved, decided, ran>>
  BY <1>1 DEF ReportLost
<1>3. /\ FeedTyped' /\ TasksTyped' /\ torn' \in [Calls -> Nat]
      /\ Placed' /\ Targets' /\ Counted'
      /\ SameEvents /\ over' = over /\ feed'.ended = "failed"
      /\ task'.worker = IdleWorker /\ task'.consumer = Reader /\ Range(tools'.queue) = {}
  BY <1>2, FailsKeep
<1>4. Asking(c)
  BY <1>1, <1>2 DEF Asking, Approves
<1>5. /\ remote' \in [Calls -> [status : Statuses, approval : Decisions, result : Numbers]]
      /\ Service'
      /\ \A d \in Calls : remote'[d].result = remote[d].result
      /\ \A d \in Calls : remote[d].approval # "none" => remote'[d].approval = remote[d].approval
      /\ \A d \in Calls : remote'[d].approval # "none" => remote'[d].approval = decided[d]
      /\ \A d \in Asks : remote'[d].status \in {"settled", "waiting", "received"} => remote'[d].approval # "none"
      /\ \A d \in Asks : remote'[d].status \in {"waiting", "received"} => remote'[d].approval = "accept"
      /\ \A d \in Calls : remote'[d].status \in {"none", "asked"} => remote'[d].approval = "none"
  <2>1. UNCHANGED <<log, over, content, decided>>
    BY <1>2, <1>3 DEF SameEvents
  <2> QED BY <1>2, <1>4, <2>1, SettledFacts
<1>6. ledger' \in [Calls -> {"unknown", "approved", "terminal", "consumed"}]
  BY <1>2 DEF CallsTyped
<1>7. Typed'
  BY <1>2, <1>3, <1>5, <1>6 DEF CallsTyped
<1>8. Results'
  BY <1>2, <1>3, <1>5, ResultsKeeps
<1>9. Declined'
  <2>1. (\A d : ~Asking(d)') /\ task'.consumer.at # "decided"
    BY <1>3 DEF Asking, Approves
  <2>2. Range(task'.consumer.keep) = {}
    BY <1>3, RangeEmpty
  <2>3. \A d \in Calls : ledger'[d] = "approved" => remote'[d].approval = "accept"
    <3>1. \A d \in Calls : ledger'[d] = "approved" => ledger[d] = "approved"
      BY <1>2 DEF CallsTyped
    <3>2. \A d \in Calls : ledger[d] = "approved" => remote[d].approval = "accept"
      BY DEF Declined
    <3> QED BY <1>5, <3>1, <3>2
  <2>4. DeclinedNeverRuns' /\ \A d \in Calls : decided'[d] # "none" => d \in Asks
    BY <1>2 DEF Declined, DeclinedNeverRuns
  <2>5. ~Feeding' /\ task'.worker.at # "run"
    BY <1>3 DEF Feeding
  <2> QED BY <1>2, <1>3, <1>5, <2>1, <2>2, <2>3, <2>4, <2>5 DEF Declined
<1> QED BY <1>3, <1>5, <1>7, <1>8, <1>9

\* The failures that leave the service and the approvals alone.
LEMMA FailuresKeep ==
  ASSUME TurnInv, ClassifyFails \/ ReapWorker \/ Crash
  PROVE TurnInv'
<1>1. TurnFails /\ UNCHANGED <<content, remote, saved, decided, ledger, ran>>
  BY DEF ClassifyFails, ReapWorker, Crash
<1>2. /\ remote' \in [Calls -> [status : Statuses, approval : Decisions, result : Numbers]]
      /\ CallsGoOn /\ \A c \in Calls : remote'[c].result \in {remote[c].result, saved[c]}
  BY <1>1 DEF TurnInv, Typed, CallsTyped, CallsGoOn
<1> QED BY <1>1, <1>2, FailureKeeps

-----------------------------------------------------------------------------
(* The replayed calls.                                                      *)

\* A call is skipped, delivered, or kept because it waits and has no result.
LEMMA ClassifyKeeps ==
  ASSUME TurnInv, Classify
  PROVE TurnInv'
<1> USE NewTasksFacts DEF TurnInv, Typed
<1> DEFINE c == Head(task.consumer.todo)
           n == NextToDo(task.consumer)
           kept == Append(task.consumer.keep, c)
           t == [n EXCEPT !.keep = kept]
           p == [task.consumer EXCEPT !.at = "post", !.call = c, !.try = 0]
<1>1. /\ feed.ended = "no" /\ task.consumer.at = "classify" /\ task.consumer.todo # << >>
      /\ \/ task' = [task EXCEPT !.consumer = n]
         \/ /\ remote[c].status = "waiting" /\ saved[c] = None
            /\ task' = [task EXCEPT !.consumer = [NextToDo(task.consumer) EXCEPT !.keep = Append(@, c)]]
         \/ task' = [task EXCEPT !.consumer = p]
      /\ UNCHANGED <<log, over, feed, content, remote, saved, decided, ledger, tools, ran, torn>>
  BY DEF Classify, Classifying, Feeding, Consumer, feedvars, ReplayAction
<1>2. /\ TasksTyped /\ task.consumer \in Consumers
      /\ tools' \in [target : Numbers, replayed : Seq(Calls), queue : Seq(Calls), aborted : BOOLEAN]
  BY <1>1 DEF TasksTyped
<1>3. /\ n \in Consumers /\ n.at = "classify" /\ n.call = task.consumer.call
      /\ n.todo = Tail(task.consumer.todo) /\ n.keep = task.consumer.keep
      /\ c \in Calls /\ Tail(task.consumer.todo) \in Seq(Calls)
      /\ Range(task.consumer.todo) = {c} \cup Range(Tail(task.consumer.todo))
      /\ IsInjective(task.consumer.todo) =>
           c \notin Range(Tail(task.consumer.todo)) /\ IsInjective(Tail(task.consumer.todo))
  <2>1. task.consumer \in Consumers /\ task.consumer.todo # << >>
    BY <1>1, <1>2
  <2> QED BY <2>1, NextToDoFacts
<1>4. CASE task' = [task EXCEPT !.consumer = n]
  <2> HIDE DEF n, c
  <2>1. TasksTyped' /\ task'.consumer = n /\ task'.worker = task.worker
    BY <1>2, <1>3, <1>4, ConsumerSet DEF Approves
  <2>2. WorkerGoesOn(task'.worker) /\ ConsumerGoesOn(task'.consumer)
    BY <1>1, <1>3, <2>1 DEF WorkerGoesOn, ConsumerGoesOn, Replaying
  <2>3. /\ remote' \in [Calls -> [status : Statuses, approval : Decisions, result : Numbers]]
        /\ CallsGoOn /\ \A d \in Calls : remote'[d].result \in {remote[d].result, saved[d]}
    BY <1>1 DEF CallsTyped, CallsGoOn
  <2> QED BY <1>1, <2>1, <2>2, <2>3, DeliveryKeeps
<1>5. CASE task' = [task EXCEPT !.consumer = p]
  <2> HIDE DEF c
  <2>1. /\ p \in Consumers /\ p.at = "post" /\ p.call = c
        /\ p.todo = task.consumer.todo /\ p.keep = task.consumer.keep
    BY <1>2, <1>3 DEF Consumers, Replaying
  <2> HIDE DEF p
  <2>2. TasksTyped' /\ task'.consumer = p /\ task'.worker = task.worker
    BY <1>1, <1>2, <1>3, <1>5, <2>1, ConsumerSet
  <2>3. WorkerGoesOn(task'.worker) /\ ConsumerGoesOn(task'.consumer)
    BY <1>1, <2>1, <2>2 DEF WorkerGoesOn, ConsumerGoesOn, Replaying
  <2>4. /\ remote' \in [Calls -> [status : Statuses, approval : Decisions, result : Numbers]]
        /\ CallsGoOn /\ \A d \in Calls : remote'[d].result \in {remote[d].result, saved[d]}
    BY <1>1 DEF CallsTyped, CallsGoOn
  <2> QED BY <1>1, <2>2, <2>3, <2>4, DeliveryKeeps
<1>6. CASE /\ remote[c].status = "waiting" /\ saved[c] = None
           /\ task' = [task EXCEPT !.consumer = [NextToDo(task.consumer) EXCEPT !.keep = Append(@, c)]]
  <2> HIDE DEF c
  <2>1. /\ kept \in Seq(Calls) /\ Range(kept) = Range(task.consumer.keep) \cup {c}
        /\ IsInjective(task.consumer.keep) /\ c \notin Range(task.consumer.keep) => IsInjective(kept)
    <3>1. task.consumer.keep \in Seq(Calls)
      BY <1>2 DEF Consumers
    <3> QED BY <1>3, <3>1, RangeAppend
  <2>2. task' = [task EXCEPT !.consumer = t]
    BY <1>3, <1>6
  <2> HIDE DEF kept, n
  <2>3. t \in Consumers /\ t.at = "classify" /\ t.todo = n.todo /\ t.keep = kept
    BY <1>3, <2>1 DEF Consumers
  <2> HIDE DEF t
  <2>4. TasksTyped' /\ task'.consumer = t /\ task'.worker = task.worker
    BY <1>2, <2>2, <2>3, ConsumerSet DEF Approves
  <2>5. SameEvents
    BY <1>1 DEF SameEvents
  <2>6. Typed'
    BY <1>1, <2>4 DEF FeedTyped, CallsTyped
  <2>7. CallsGoOn
    BY <1>1 DEF CallsGoOn
  <2>8. Service'
    BY <1>1, <2>5, <2>7, ServiceKeeps
  <2>9. /\ c \in Range(tools.replayed) /\ c \notin Range(task.consumer.keep)
        /\ c \notin Range(n.todo) /\ IsInjective(n.todo) /\ Range(n.todo) \subseteq Range(task.consumer.todo)
    BY <1>3 DEF Placed
  <2>10. Placed'
    <3>1. /\ Range(t.todo) \cup Range(t.keep) \subseteq Range(tools.replayed)
          /\ Range(t.todo) \cap Range(t.keep) = {}
          /\ IsInjective(t.todo) /\ IsInjective(t.keep)
      BY <2>1, <2>3, <2>9 DEF Placed
    <3>2. t.todo \in Seq(Calls) /\ t.keep \in Seq(Calls)
      BY <1>3, <2>1, <2>3
    <3> QED BY <1>1, <2>4, <2>5, <3>1, <3>2, PlacedKeeps DEF Placed
  <2>11. Targets'
    BY <1>1, <2>5, TargetsKeeps DEF Replaying
  <2>12. Counted'
    <3> USE SameEventsFacts
    <3>1. \A d \in Calls : Unsaved(d)' <=> Unsaved(d)
      BY <2>4 DEF Unsaved
    <3>2. ran[c] <= torn[c]
      <4>1. ~Unsaved(c)
        BY <2>9 DEF Unsaved, Placed
      <4> QED BY <1>3, <1>6, <2>9, <4>1 DEF Counted
    <3>3. \A d \in Range(tools.queue) \cup Range(t.keep) : ran[d] <= torn[d]
      BY <2>1, <2>3, <3>2 DEF Counted
    <3>4. /\ \A d \in Calls : ran'[d] <= 1 + torn'[d]
          /\ \A d \in Calls : ran'[d] # 0 => Published(d)'
          /\ \A d \in Calls : saved'[d] = None /\ ~Unsaved(d)' /\ (~over' \/ d \in Range(tools'.replayed) \/ ~Given(d)')
               => ran'[d] <= torn'[d]
          /\ \A d \in Calls : feed'.ended = "failed" => ~Unsaved(d)'
      BY <1>1, <2>5, <3>1 DEF Counted
    <3>5. /\ \A d \in Calls : task'.worker.at = "run" /\ task'.worker.call = d => ran'[d] <= torn'[d]
          /\ \A d \in Calls, e \in log' :
               Feeding' /\ e > feed'.cursor /\ ~Historical(e)' /\ BatchOf(d, e)' => ran'[d] <= torn'[d]
      BY <1>1, <2>4, <2>5 DEF Counted, Feeding, Historical
    <3>6. \A d \in Range(tools'.queue) \cup Range(task'.consumer.keep) : ran'[d] <= torn'[d]
      BY <1>1, <2>4, <3>3
    <3> QED BY <3>4, <3>5, <3>6 DEF Counted
  <2>13. Results'
    BY <1>1, <2>4, ResultsKeeps DEF Results
  <2>14. Declined'
    <3> USE SameEventsFacts
    <3>1. \A d : ~Asking(d) /\ ~Asking(d)'
      BY <1>1, <2>3, <2>4 DEF Asking, Approves
    <3>2. decided[c] # "decline"
      <4>1. c \in Asks => remote[c].approval = "accept" /\ remote[c].approval = decided[c]
        BY <1>3, <1>6 DEF Declined
      <4> QED BY <1>3, <4>1 DEF Declined
    <3>3. \A d \in Range(task'.consumer.keep) : decided'[d] # "decline"
      BY <1>1, <2>1, <2>3, <2>4, <3>2 DEF Declined
    <3>4. task'.consumer.at # "decided"
      BY <2>3, <2>4
    <3>5. /\ \A d \in Range(tools'.queue) : decided'[d] = "decline" => ledger'[d] = "terminal"
          /\ \A d \in Calls : task'.worker.at = "run" /\ task'.worker.call = d => decided'[d] # "decline"
          /\ DeclinedNeverRuns'
      BY <1>1, <2>4 DEF Declined, DeclinedNeverRuns
    <3>6. /\ \A d \in Calls : decided'[d] # "none" => d \in Asks
          /\ \A d \in Calls : remote'[d].approval # "none" => remote'[d].approval = decided'[d]
          /\ \A d \in Asks : remote'[d].status \in {"settled", "waiting", "received"} => remote'[d].approval # "none"
          /\ \A d \in Asks : remote'[d].status \in {"waiting", "received"} => remote'[d].approval = "accept"
          /\ \A d \in Calls : remote'[d].status \in {"none", "asked"} => remote'[d].approval = "none"
          /\ \A d \in Calls : ledger'[d] = "approved" => remote'[d].approval = "accept"
          /\ \A d \in Calls, a \in log' :
               Feeding' /\ remote'[d].approval = "decline" /\ a <= feed'.cursor /\ AskOf(d, a)'
                 => ledger'[d] = "terminal" \/ Asking(d)'
      BY <1>1, <2>5, <3>1 DEF Declined, Feeding
    <3> QED BY <3>1, <3>3, <3>4, <3>5, <3>6 DEF Declined
  <2> QED BY <2>6, <2>8, <2>10, <2>11, <2>12, <2>13, <2>14
<1> QED BY <1>1, <1>4, <1>5, <1>6

\* What still waits goes to the queue, in the order of the replay.
LEMMA RecoveryKeeps ==
  ASSUME TurnInv, ExecuteRecovery
  PROVE TurnInv'
<1> USE NewTasksFacts DEF TurnInv, Typed
<1> DEFINE s == tools.queue \o task.consumer.keep
<1>1. /\ feed.ended = "no" /\ task.consumer.at = "classify"
      /\ tools' = [tools EXCEPT !.target = None, !.replayed = << >>, !.aborted = FALSE,
                                !.queue = @ \o task.consumer.keep]
      /\ task' = [task EXCEPT !.consumer = Reader]
      /\ UNCHANGED <<log, over, feed, content, remote, saved, decided, ledger, ran, torn>>
  BY DEF ExecuteRecovery, Classifying, Feeding, Consumer, feedvars
<1>2. /\ TasksTyped /\ tools \in [target : Numbers, replayed : Seq(Calls), queue : Seq(Calls), aborted : BOOLEAN]
      /\ tools.queue \in Seq(Calls) /\ task.consumer.keep \in Seq(Calls) /\ << >> \in Seq(Calls)
      /\ Range(<< >>) = {} /\ IsInjective(<< >>)
  BY RangeEmpty DEF TasksTyped, Consumers
<1>3. /\ s \in Seq(Calls) /\ Range(s) = Range(tools.queue) \cup Range(task.consumer.keep) /\ IsInjective(s)
      /\ Range(s) \subseteq Calls
  <2>1. /\ Range(tools.queue) \cap Range(task.consumer.keep) = {}
        /\ IsInjective(tools.queue) /\ IsInjective(task.consumer.keep)
    BY DEF Placed
  <2> QED BY <1>2, <2>1, RangeConcat, RangeIn
<1>4. tools' = [tools EXCEPT !.target = None, !.replayed = << >>, !.aborted = FALSE, !.queue = s]
  BY <1>1, <1>2
<1> HIDE DEF s
<1>5. /\ tools' \in [target : Numbers, replayed : Seq(Calls), queue : Seq(Calls), aborted : BOOLEAN]
      /\ tools'.target = None /\ tools'.replayed = << >> /\ tools'.queue = s
  BY <1>2, <1>3, <1>4 DEF Numbers
<1>6. TasksTyped' /\ task'.consumer = Reader /\ task'.worker = task.worker
  BY <1>1, <1>2, <1>5, ConsumerSet DEF Approves
<1>7. SameEvents
  BY <1>1 DEF SameEvents
<1>8. Typed'
  BY <1>1, <1>6 DEF FeedTyped, CallsTyped
<1>9. CallsGoOn
  BY <1>1 DEF CallsGoOn
<1>10. Service'
  BY <1>1, <1>7, <1>9, ServiceKeeps
<1> USE SameEventsFacts, <1>7
<1>11. Placed'
  <2>1. /\ Range(tools'.queue) = Range(tools.queue) \cup Range(task.consumer.keep)
        /\ Range(tools'.replayed) = {} /\ IsInjective(tools'.queue) /\ IsInjective(tools'.replayed)
        /\ Range(task'.consumer.todo) = {} /\ Range(task'.consumer.keep) = {}
        /\ IsInjective(task'.consumer.todo) /\ IsInjective(task'.consumer.keep)
    BY <1>2, <1>3, <1>5, <1>6
  <2>2. Range(task.consumer.keep) \subseteq Range(tools.replayed)
    BY DEF Placed
  <2> QED BY <1>6, <2>1, <2>2 DEF Placed
<1>12. Targets'
  <2>1. \A e \in log : ~(e <= None) /\ e > None
    BY DEF FeedTyped, None
  <2> QED BY <1>1, <1>5, <1>6, <2>1 DEF Targets, Replaying
<1>13. Counted'
  <2>1. \A c \in Calls : Unsaved(c)' <=> Unsaved(c)
    BY <1>6 DEF Unsaved
  <2>2. Range(tools'.replayed) = {} /\ Range(task'.consumer.keep) = {}
    BY <1>2, <1>5, <1>6
  <2>3. \A c \in Range(tools'.queue) \cup Range(task'.consumer.keep) : ran'[c] <= torn'[c]
    BY <1>1, <1>3, <1>5, <2>2 DEF Counted
  <2>4. \A c \in Calls, e \in log' :
          Feeding' /\ e > feed'.cursor /\ ~Historical(e)' /\ BatchOf(c, e)' => ran'[c] <= torn'[c]
    <3>1. \A e \in log : e > feed.cursor => ~Historical(e)
      <4>1. \A e \in log : e > feed.cursor => e > tools.target
        BY <1>1 DEF Targets, Replaying
      <4>2. log \in SUBSET Int /\ tools.target \in Int
        <5>1. log \in SUBSET Int
          BY DEF FeedTyped
        <5>2. tools.target \in Numbers
          BY <1>2
        <5> QED BY <5>1, <5>2 DEF Numbers, None
      <4>3. \A e \in log : e > tools.target => ~(e <= tools.target)
        <5>1. \A x, y \in Int : x > y => ~(x <= y)
          OBVIOUS
        <5> QED BY <4>2, <5>1, Zenon
      <4> QED BY <4>1, <4>3 DEF Historical
    <3> QED BY <1>1, <3>1 DEF Counted, Feeding
  <2>5. /\ \A c \in Calls : ran'[c] <= 1 + torn'[c]
        /\ \A c \in Calls : ran'[c] # 0 => Published(c)'
        /\ \A c \in Calls : saved'[c] = None /\ ~Unsaved(c)' /\ (~over' \/ c \in Range(tools'.replayed) \/ ~Given(c)')
             => ran'[c] <= torn'[c]
        /\ \A c \in Calls : feed'.ended = "failed" => ~Unsaved(c)'
    BY <1>1, <2>1, <2>2 DEF Counted
  <2>6. \A c \in Calls : task'.worker.at = "run" /\ task'.worker.call = c => ran'[c] <= torn'[c]
    BY <1>1, <1>6 DEF Counted
  <2> QED BY <2>3, <2>4, <2>5, <2>6 DEF Counted
<1>14. Results'
  BY <1>1, <1>6, ResultsKeeps DEF Results
<1>15. Declined'
  <2>1. \A d : ~Asking(d) /\ ~Asking(d)'
    BY <1>1, <1>6 DEF Asking, Approves
  <2>2. Range(task'.consumer.keep) = {} /\ task'.consumer.at # "decided"
    BY <1>2, <1>6
  <2>3. \A d \in Range(tools'.queue) : decided'[d] = "decline" => ledger'[d] = "terminal"
    BY <1>1, <1>3, <1>5 DEF Declined
  <2>4. /\ \A d \in Calls : task'.worker.at = "run" /\ task'.worker.call = d => decided'[d] # "decline"
        /\ DeclinedNeverRuns'
    BY <1>1, <1>6 DEF Declined, DeclinedNeverRuns
  <2>5. /\ \A d \in Calls : decided'[d] # "none" => d \in Asks
        /\ \A d \in Calls : remote'[d].approval # "none" => remote'[d].approval = decided'[d]
        /\ \A d \in Asks : remote'[d].status \in {"settled", "waiting", "received"} => remote'[d].approval # "none"
        /\ \A d \in Asks : remote'[d].status \in {"waiting", "received"} => remote'[d].approval = "accept"
        /\ \A d \in Calls : remote'[d].status \in {"none", "asked"} => remote'[d].approval = "none"
        /\ \A d \in Calls : ledger'[d] = "approved" => remote'[d].approval = "accept"
        /\ \A d \in Calls, a \in log' :
             Feeding' /\ remote'[d].approval = "decline" /\ a <= feed'.cursor /\ AskOf(d, a)'
               => ledger'[d] = "terminal" \/ Asking(d)'
    BY <1>1, <2>1 DEF Declined, Feeding
  <2> QED BY <2>1, <2>2, <2>3, <2>4, <2>5 DEF Declined
<1> QED BY <1>8, <1>10, <1>11, <1>12, <1>13, <1>14, <1>15

-----------------------------------------------------------------------------
(* The worker.                                                              *)

\* A call leaves the queue: it is dropped, or it starts.
LEMMA StartKeeps ==
  ASSUME TurnInv, StartCall
  PROVE TurnInv'
<1> USE NewTasksFacts DEF TurnInv, Typed
<1> DEFINE w(d) == [IdleWorker EXCEPT !.at = "run", !.call = d]
<1>1. PICK c : c = Head(tools.queue)
  OBVIOUS
<1>2. /\ feed.ended = "no" /\ task.worker.at = "idle" /\ tools.queue # << >>
      /\ \/ ledger[c] \in {"consumed", "terminal"} /\ UNCHANGED <<task, ledger>>
         \/ /\ ledger[c] \notin {"consumed", "terminal"}
            /\ task' = [task EXCEPT !.worker = w(c)]
            /\ ledger' = [ledger EXCEPT ![c] = "consumed"]
      /\ tools' = [tools EXCEPT !.queue = Tail(@)]
      /\ UNCHANGED <<log, over, feed, content, remote, saved, decided, ran, torn>>
  BY <1>1 DEF StartCall, Feeding, Worker, feedvars
<1>3. /\ TasksTyped /\ tools \in [target : Numbers, replayed : Seq(Calls), queue : Seq(Calls), aborted : BOOLEAN]
      /\ tools.queue \in Seq(Calls)
  BY DEF TasksTyped
<1>4. /\ c \in Calls /\ Tail(tools.queue) \in Seq(Calls)
      /\ Range(tools.queue) = {c} \cup Range(Tail(tools.queue))
      /\ c \notin Range(Tail(tools.queue)) /\ IsInjective(Tail(tools.queue))
  <2>1. IsInjective(tools.queue) /\ tools.queue # << >>
    BY <1>2 DEF Placed
  <2> QED BY <1>1, <1>3, <2>1, RangeTail
<1>5. /\ tools' \in [target : Numbers, replayed : Seq(Calls), queue : Seq(Calls), aborted : BOOLEAN]
      /\ tools'.queue = Tail(tools.queue) /\ tools'.replayed = tools.replayed /\ tools'.target = tools.target
  BY <1>2, <1>3, <1>4
<1>6. /\ w(c) \in Workers /\ w(c).at = "run" /\ w(c).call = c /\ w(c).result = None
  BY <1>4 DEF IdleWorker, Workers, Numbers
<1> HIDE DEF w
<1>7. TasksTyped' /\ task'.consumer = task.consumer
  <2>1. CASE UNCHANGED task
    BY <1>5, <2>1 DEF TasksTyped
  <2>2. CASE task' = [task EXCEPT !.worker = w(c)]
    BY <1>3, <1>4, <1>5, <1>6, <2>2, WorkerSet
  <2> QED BY <1>2, <2>1, <2>2
<1>8. \/ ledger[c] \in {"consumed", "terminal"} /\ task'.worker = task.worker
      \/ ledger[c] \notin {"consumed", "terminal"} /\ task'.worker = w(c)
  <2>1. task' = [task EXCEPT !.worker = w(c)] => task'.worker = w(c)
    BY <1>3, <1>4, <1>5, <1>6, WorkerSet
  <2> QED BY <1>2, <2>1
<1>9. /\ ledger' \in [Calls -> {"unknown", "approved", "terminal", "consumed"}]
      /\ \A d \in Calls : ledger'[d] = ledger[d]
           \/ (d = c /\ ledger'[d] = "consumed" /\ ledger[c] \notin {"consumed", "terminal"})
  BY <1>2, <1>4 DEF CallsTyped
<1>10. SameEvents
  BY <1>2 DEF SameEvents
<1>11. Typed'
  BY <1>2, <1>7, <1>9 DEF FeedTyped, CallsTyped
<1>12. CallsGoOn
  BY <1>2 DEF CallsGoOn
<1>13. Service'
  BY <1>2, <1>10, <1>12, ServiceKeeps
<1> USE SameEventsFacts, <1>10
<1>14. Given(c) /\ c \notin Range(tools.replayed)
  BY <1>4 DEF Placed
<1>15. Placed'
  <2>1. task'.worker.call \in {c, None}
    BY <1>2, <1>6, <1>8 DEF Placed
  <2>2. Range(Tail(tools.queue)) \cup Range(tools.replayed) \subseteq Calls
    BY <1>4, RangeIn DEF TasksTyped
  <2>3. task'.worker.call \notin Range(Tail(tools.queue)) \cup Range(tools.replayed)
    BY <1>4, <1>14, <2>1, <2>2, CallsAssumption
  <2>4. task'.worker.at = "idle" => task'.worker.call = None
    BY <1>2, <1>6, <1>8 DEF Placed
  <2>5. \A d \in Calls : task'.worker.call = d => Given(d)
    BY <1>14, <2>1, CallsAssumption
  <2> QED BY <1>4, <1>5, <1>7, <2>3, <2>4, <2>5 DEF Placed
<1>16. Targets'
  BY <1>2, <1>5, <1>7, TargetsKeeps
<1>17. Counted'
  <2>1. \A d \in Calls : ~Unsaved(d) /\ ~Unsaved(d)'
    BY <1>2, <1>6, <1>8 DEF Unsaved
  <2>2. ran[c] <= torn[c]
    BY <1>4 DEF Counted
  <2>3. \A d \in Calls : task'.worker.at = "run" /\ task'.worker.call = d => ran'[d] <= torn'[d]
    BY <1>2, <1>6, <1>8, <2>2
  <2>4. /\ \A d \in Calls : ran'[d] <= 1 + torn'[d]
        /\ \A d \in Calls : ran'[d] # 0 => Published(d)'
        /\ \A d \in Calls : saved'[d] = None /\ ~Unsaved(d)' /\ (~over' \/ d \in Range(tools'.replayed) \/ ~Given(d)')
             => ran'[d] <= torn'[d]
        /\ \A d \in Calls : feed'.ended = "failed" => ~Unsaved(d)'
    BY <1>2, <1>5, <2>1 DEF Counted
  <2>5. /\ \A d \in Range(tools'.queue) \cup Range(task'.consumer.keep) : ran'[d] <= torn'[d]
        /\ \A d \in Calls, e \in log' :
             Feeding' /\ e > feed'.cursor /\ ~Historical(e)' /\ BatchOf(d, e)' => ran'[d] <= torn'[d]
    BY <1>2, <1>4, <1>5, <1>7 DEF Counted, Feeding, Historical
  <2> QED BY <2>3, <2>4, <2>5 DEF Counted
<1>18. Results'
  <2>1. task'.worker.at # "save" /\ \A d \in Calls : task'.worker.call = d => task'.worker.result = None
    BY <1>2, <1>6, <1>8, CallsAssumption DEF Placed
  <2> QED BY <1>2, <2>1, ResultsKeeps
<1>19. Declined'
  <2>1. \A d : Asking(d)' <=> Asking(d)
    BY <1>7 DEF Asking
  <2>2. ~Asking(c)
    BY <1>4, <1>14 DEF Declined
  <2>3. \A d \in Calls, a \in log' :
          Feeding' /\ remote'[d].approval = "decline" /\ a <= feed'.cursor /\ AskOf(d, a)'
            => ledger'[d] = "terminal" \/ Asking(d)'
    <3> SUFFICES ASSUME NEW d \in Calls, NEW a \in log, remote[d].approval = "decline",
                        a <= feed.cursor, AskOf(d, a)
                 PROVE ledger'[d] = "terminal" \/ Asking(d)
      BY <1>2, <2>1
    <3>1. ledger[d] = "terminal" \/ Asking(d)
      BY <1>2 DEF Declined, Feeding
    <3> QED BY <1>9, <2>2, <3>1
  <2>4. \A d \in Range(tools'.queue) : decided'[d] = "decline" => ledger'[d] = "terminal"
    <3>1. \A d \in Range(tools'.queue) : d \in Range(tools.queue) /\ d \in Calls /\ d # c
      BY <1>4, <1>5, RangeIn
    <3> QED BY <1>2, <1>9, <3>1 DEF Declined
  <2>5. \A d \in Calls : task'.worker.at = "run" /\ task'.worker.call = d => decided'[d] # "decline"
    BY <1>2, <1>4, <1>6, <1>8 DEF Declined
  <2>6. DeclinedNeverRuns' /\ \A d \in Calls : ledger'[d] = "approved" => remote'[d].approval = "accept"
    BY <1>2, <1>9 DEF Declined, DeclinedNeverRuns
  <2>7. /\ \A d \in Calls : decided'[d] # "none" => d \in Asks
        /\ \A d \in Calls : remote'[d].approval # "none" => remote'[d].approval = decided'[d]
        /\ \A d \in Asks : remote'[d].status \in {"settled", "waiting", "received"} => remote'[d].approval # "none"
        /\ \A d \in Asks : remote'[d].status \in {"waiting", "received"} => remote'[d].approval = "accept"
        /\ \A d \in Calls : remote'[d].status \in {"none", "asked"} => remote'[d].approval = "none"
        /\ \A d \in Calls : Asking(d)' => d \in Asks /\ ~Given(d)' /\ remote'[d].status # "none"
        /\ \A d \in Calls : task'.consumer.at = "decided" /\ task'.consumer.call = d => decided'[d] # "none"
        /\ \A d \in Range(task'.consumer.keep) : decided'[d] # "decline"
    BY <1>2, <1>7, <2>1 DEF Declined
  <2> QED BY <2>3, <2>4, <2>5, <2>6, <2>7 DEF Declined
<1> QED BY <1>11, <1>13, <1>15, <1>16, <1>17, <1>18, <1>19

\* An execution is numbered; only this one may still be lost.
LEMMA ExecuteKeeps ==
  ASSUME TurnInv, Execute
  PROVE TurnInv'
<1> USE NewTasksFacts DEF TurnInv, Typed
<1>1. PICK c \in Calls : c = task.worker.call
  BY DEF Execute, TasksTyped
<1>2. /\ ran \in [Calls -> Nat] /\ torn \in [Calls -> Nat] /\ TasksTyped /\ task.worker \in Workers
      /\ saved \in [Calls -> Numbers]
  BY DEF CallsTyped, TasksTyped
<1>3. PICK r \in Nat : r = ran[c] + 1
  BY <1>2
<1> DEFINE w == [task.worker EXCEPT !.at = "save", !.result = r]
<1>4. /\ feed.ended = "no" /\ task.worker.at = "run" /\ ran' = [ran EXCEPT ![c] = r]
      /\ UNCHANGED <<log, over, feed, content, remote, saved, decided, ledger, tools, torn>>
      /\ task' = [task EXCEPT !.worker = w]
  <2>1. ran' = [ran EXCEPT ![c] = r]
    BY <1>1, <1>3 DEF Execute
  <2>2. ran'[c] = r
    BY <1>2, <2>1
  <2> QED BY <1>1, <2>1, <2>2 DEF Execute, Feeding, Worker, feedvars
<1>5. w \in Workers /\ w.at = "save" /\ w.call = c /\ w.result = r /\ r # 0 /\ r # None
  <2>1. r # 0 /\ r # None /\ r \in Numbers
    BY <1>2, <1>3 DEF Numbers, None
  <2>2. w \in Workers /\ w.at = "save" /\ w.call = task.worker.call /\ w.result = r
    BY <1>2, <2>1 DEF Workers
  <2> QED BY <1>1, <2>1, <2>2
<1> HIDE DEF w
<1>6. TasksTyped' /\ task'.worker = w /\ task'.consumer = task.consumer
  <2>1. tools' \in [target : Numbers, replayed : Seq(Calls), queue : Seq(Calls), aborted : BOOLEAN]
    BY <1>4 DEF TasksTyped
  <2> QED BY <1>2, <1>4, <1>5, <2>1, WorkerSet
<1>7. SameEvents
  BY <1>4 DEF SameEvents
<1>8. ran' \in [Calls -> Nat] /\ ran'[c] = r /\ \A d \in Calls : d # c => ran'[d] = ran[d]
  BY <1>2, <1>4
<1>9. Typed'
  BY <1>4, <1>6, <1>8 DEF FeedTyped, CallsTyped
<1>10. CallsGoOn
  BY <1>4 DEF CallsGoOn
<1>11. Service'
  BY <1>4, <1>7, <1>10, ServiceKeeps
<1> USE SameEventsFacts, <1>7
<1>12. /\ Given(c) /\ c \notin Range(tools.queue) \cup Range(tools.replayed)
       /\ c \notin Range(task.consumer.keep) /\ ran[c] <= torn[c]
  BY <1>1, <1>4 DEF Placed, Counted
<1>13. Placed'
  BY <1>1, <1>4, <1>5, <1>6 DEF Placed
<1>14. Targets'
  BY <1>4, <1>6, TargetsKeeps
<1>15. Counted'
  <2>1. Unsaved(c)' /\ \A d \in Calls : d # c => ~Unsaved(d) /\ ~Unsaved(d)'
    BY <1>1, <1>4, <1>5, <1>6 DEF Unsaved
  <2>2. \A d \in Calls : ran'[d] <= 1 + torn'[d]
    <3>1. ran'[c] <= 1 + torn'[c]
      BY <1>2, <1>3, <1>4, <1>8, <1>12
    <3> QED BY <1>4, <1>8, <3>1 DEF Counted
  <2>3. \A d \in Calls : ran'[d] # 0 => Published(d)'
    BY <1>8, <1>12 DEF Counted, Given, Published
  <2>4. /\ \A d \in Calls : saved'[d] = None /\ ~Unsaved(d)' /\ (~over' \/ d \in Range(tools'.replayed) \/ ~Given(d)')
             => ran'[d] <= torn'[d]
        /\ \A d \in Calls : feed'.ended = "failed" => ~Unsaved(d)'
    BY <1>4, <1>8, <2>1 DEF Counted
  <2>5. \A d \in Range(tools'.queue) \cup Range(task'.consumer.keep) : ran'[d] <= torn'[d]
    <3>1. \A d \in Range(tools.queue) \cup Range(task.consumer.keep) : d \in Calls /\ d # c
      <4>1. Range(tools.queue) \cup Range(task.consumer.keep) \subseteq Calls
        BY RangeIn DEF TasksTyped, Consumers
      <4> QED BY <1>12, <4>1
    <3> QED BY <1>4, <1>6, <1>8, <3>1 DEF Counted
  <2>6. \A d \in Calls, e \in log' :
          Feeding' /\ e > feed'.cursor /\ ~Historical(e)' /\ BatchOf(d, e)' => ran'[d] <= torn'[d]
    <3>1. \A e \in log : e > feed.cursor => ~BatchOf(c, e)
      <4>1. PICK f \in log : f <= feed.cursor /\ BatchOf(c, f)
        BY <1>12 DEF Given
      <4>2. \A e \in log : BatchOf(c, e) => e = f
        BY <4>1 DEF Service
      <4>3. f \in Int /\ feed.cursor \in Int
        BY DEF FeedTyped
      <4> QED BY <4>1, <4>2, <4>3
    <3> QED BY <1>4, <1>8, <3>1 DEF Counted, Feeding, Historical
  <2>7. task'.worker.at # "run"
    BY <1>5, <1>6
  <2> QED BY <2>2, <2>3, <2>4, <2>5, <2>6, <2>7 DEF Counted
<1>16. Results'
  <2>1. \A d \in Calls : saved'[d] \in {None} \cup 0 .. ran'[d]
    <3>1. \A d \in Calls : ran[d] \in Nat /\ ran'[d] \in Nat /\ ran[d] <= ran'[d]
      <4>1. \A d \in Calls : ran[d] \in Nat /\ ran'[d] \in Nat
        BY <1>2, <1>8
      <4>2. ran[c] <= ran'[c]
        BY <1>2, <1>3, <1>8
      <4> QED BY <1>8, <4>1, <4>2
    <3>2. \A m, n \in Nat : m <= n => \A x \in 0 .. m : x \in 0 .. n
      OBVIOUS
    <3> QED BY <1>4, <3>1, <3>2 DEF Results
  <2>2. \A d \in Calls : task'.worker.call = d => task'.worker.result \in {None} \cup 0 .. ran'[d]
    BY <1>5, <1>6, <1>8
  <2> QED BY <1>4, <1>5, <1>6, <2>1, <2>2 DEF Results, ResultsAgree
<1>17. Declined'
  <2>1. \A d : Asking(d)' <=> Asking(d)
    BY <1>6 DEF Asking
  <2>2. DeclinedNeverRuns'
    <3>1. decided[c] # "decline"
      BY <1>1, <1>4 DEF Declined
    <3> QED BY <1>4, <1>8, <3>1 DEF Declined, DeclinedNeverRuns
  <2>3. task'.worker.at # "run"
    BY <1>5, <1>6
  <2>4. /\ \A d \in Calls : decided'[d] # "none" => d \in Asks
        /\ \A d \in Calls : remote'[d].approval # "none" => remote'[d].approval = decided'[d]
        /\ \A d \in Asks : remote'[d].status \in {"settled", "waiting", "received"} => remote'[d].approval # "none"
        /\ \A d \in Asks : remote'[d].status \in {"waiting", "received"} => remote'[d].approval = "accept"
        /\ \A d \in Calls : remote'[d].status \in {"none", "asked"} => remote'[d].approval = "none"
        /\ \A d \in Calls : Asking(d)' => d \in Asks /\ ~Given(d)' /\ remote'[d].status # "none"
        /\ \A d \in Calls : task'.consumer.at = "decided" /\ task'.consumer.call = d => decided'[d] # "none"
        /\ \A d \in Range(task'.consumer.keep) : decided'[d] # "decline"
        /\ \A d \in Range(tools'.queue) : decided'[d] = "decline" => ledger'[d] = "terminal"
        /\ \A d \in Calls : ledger'[d] = "approved" => remote'[d].approval = "accept"
    BY <1>4, <1>6, <2>1 DEF Declined
  <2>5. \A d \in Calls, a \in log' :
          Feeding' /\ remote'[d].approval = "decline" /\ a <= feed'.cursor /\ AskOf(d, a)'
            => ledger'[d] = "terminal" \/ Asking(d)'
    BY <1>4, <2>1 DEF Declined, Feeding
  <2> QED BY <2>2, <2>3, <2>4, <2>5 DEF Declined
<1> QED BY <1>9, <1>11, <1>13, <1>14, <1>15, <1>16, <1>17

\* A rejection is the result 0, and executes nothing.
LEMMA RejectKeeps ==
  ASSUME TurnInv, Reject
  PROVE TurnInv'
<1> USE NewTasksFacts DEF TurnInv, Typed
<1> DEFINE w == [task.worker EXCEPT !.at = "save", !.result = 0]
<1>1. /\ feed.ended = "no" /\ task.worker.at = "run" /\ task' = [task EXCEPT !.worker = w]
      /\ UNCHANGED <<log, over, feed, content, remote, saved, decided, ledger, tools, ran, torn>>
  BY DEF Reject, Feeding, Worker, feedvars
<1>2. TasksTyped /\ task.worker \in Workers /\ task.worker.call \in Calls
  BY <1>1 DEF TasksTyped
<1>3. w \in Workers /\ w.at = "save" /\ w.call = task.worker.call /\ w.result = 0
  BY <1>2 DEF Workers, Numbers
<1> HIDE DEF w
<1>4. TasksTyped' /\ task'.worker = w /\ task'.consumer = task.consumer
  <2>1. tools' \in [target : Numbers, replayed : Seq(Calls), queue : Seq(Calls), aborted : BOOLEAN]
    BY <1>1 DEF TasksTyped
  <2> QED BY <1>1, <1>2, <1>3, <2>1, WorkerSet
<1>5. SameEvents
  BY <1>1 DEF SameEvents
<1>6. Typed'
  BY <1>1, <1>4 DEF FeedTyped, CallsTyped
<1>7. CallsGoOn
  BY <1>1 DEF CallsGoOn
<1>8. Service'
  BY <1>1, <1>5, <1>7, ServiceKeeps
<1>9. Placed'
  BY <1>1, <1>3, <1>4, <1>5, PlacedKeeps DEF Placed, TasksTyped, Consumers
<1>10. Targets'
  BY <1>1, <1>4, <1>5, TargetsKeeps
<1>11. Counted'
  <2>1. \A c \in Calls : ~Unsaved(c) /\ ~Unsaved(c)'
    BY <1>1, <1>3, <1>4 DEF Unsaved
  <2> QED BY <1>1, <1>3, <1>4, <1>5, <2>1, CountedKeeps
<1>12. Results'
  <2>1. task'.worker.result # None /\ \A c \in Calls : 0 \in 0 .. ran[c]
    BY <1>3, <1>4 DEF None, CallsTyped
  <2> QED BY <1>1, <1>3, <1>4, <2>1 DEF Results, ResultsAgree
<1>13. Declined'
  BY <1>1, <1>3, <1>4, <1>5, <1>7, DeclinedKeeps DEF Asking, Declined
<1> QED BY <1>6, <1>8, <1>9, <1>10, <1>11, <1>12, <1>13

\* An interrupted tool leaves no result.
LEMMA InterruptKeeps ==
  ASSUME TurnInv, ToolInterrupted
  PROVE TurnInv'
<1> USE NewTasksFacts DEF TurnInv, Typed
<1> DEFINE w == [task.worker EXCEPT !.at = "closed"]
<1>1. /\ task.worker.at = "run" /\ task' = [task EXCEPT !.worker = w]
      /\ UNCHANGED <<log, over, feed, content, remote, saved, decided, ledger, tools, ran, torn>>
  BY DEF ToolInterrupted, Worker, feedvars
<1>2. TasksTyped /\ task.worker \in Workers
  BY DEF TasksTyped
<1>3. w \in Workers /\ w.at = "closed" /\ w.call = task.worker.call /\ w.result = task.worker.result
  BY <1>2, WorkerAt
<1> HIDE DEF w
<1>4. TasksTyped' /\ task'.worker = w /\ task'.consumer = task.consumer
  <2>1. tools' \in [target : Numbers, replayed : Seq(Calls), queue : Seq(Calls), aborted : BOOLEAN]
    BY <1>1 DEF TasksTyped
  <2> QED BY <1>1, <1>2, <1>3, <2>1, WorkerSet
<1>5. WorkerGoesOn(task'.worker) /\ ConsumerGoesOn(task'.consumer)
  BY <1>1, <1>3, <1>4 DEF WorkerGoesOn, ConsumerGoesOn
<1>6. /\ remote' \in [Calls -> [status : Statuses, approval : Decisions, result : Numbers]]
      /\ CallsGoOn /\ \A c \in Calls : remote'[c].result \in {remote[c].result, saved[c]}
  BY <1>1 DEF CallsTyped, CallsGoOn
<1> QED BY <1>1, <1>4, <1>5, <1>6, DeliveryKeeps

\* The result is saved, or the one that is there stays.
LEMMA SaveKeeps ==
  ASSUME TurnInv, SaveResult
  PROVE TurnInv'
<1> USE NewTasksFacts DEF TurnInv, Typed
<1>1. PICK c \in Calls : c = task.worker.call
  BY DEF SaveResult, TasksTyped
<1>2. PICK a \in {"post", "failed"} : task' = [task EXCEPT !.worker = [task.worker EXCEPT !.at = a]]
  BY DEF SaveResult, Worker
<1> DEFINE w == [task.worker EXCEPT !.at = a]
<1>3. /\ feed.ended = "no" /\ task.worker.at = "save"
      /\ saved' = IF saved[c] = None THEN [saved EXCEPT ![c] = task.worker.result] ELSE saved
      /\ UNCHANGED <<log, over, feed, content, remote, decided, ledger, tools, ran, torn>>
  BY <1>1 DEF SaveResult, Feeding, feedvars
<1>4. /\ TasksTyped /\ task.worker \in Workers /\ task.worker.result \in Numbers
      /\ saved \in [Calls -> Numbers]
  BY DEF TasksTyped, CallsTyped, Workers
<1>5. w \in Workers /\ w.at = a /\ w.call = c /\ w.result = task.worker.result
  BY <1>1, <1>4 DEF Workers
<1>6. task' = [task EXCEPT !.worker = w]
  BY <1>2
<1> HIDE DEF w
<1>7. TasksTyped' /\ task'.worker = w /\ task'.consumer = task.consumer
  <2>1. tools' \in [target : Numbers, replayed : Seq(Calls), queue : Seq(Calls), aborted : BOOLEAN]
    BY <1>3 DEF TasksTyped
  <2> QED BY <1>4, <1>5, <1>6, <2>1, WorkerSet
<1>8. task.worker.result # None /\ task.worker.result \in {None} \cup 0 .. ran[c]
  BY <1>1, <1>3 DEF Results
<1>9. /\ saved' \in [Calls -> Numbers] /\ saved'[c] # None
      /\ saved'[c] = saved[c] \/ (saved[c] = None /\ saved'[c] = task.worker.result)
      /\ \A d \in Calls : d # c => saved'[d] = saved[d]
  BY <1>3, <1>4, <1>8
<1>10. SameEvents
  BY <1>3 DEF SameEvents
<1>11. Typed'
  BY <1>3, <1>7, <1>9 DEF FeedTyped, CallsTyped
<1>12. CallsGoOn
  BY <1>3 DEF CallsGoOn
<1>13. Service'
  BY <1>3, <1>10, <1>12, ServiceKeeps
<1>14. Placed'
  BY <1>1, <1>3, <1>5, <1>7, <1>10, PlacedKeeps DEF Placed, TasksTyped, Consumers
<1>15. Targets'
  BY <1>3, <1>7, <1>10, TargetsKeeps
<1>16. Counted'
  <2> USE SameEventsFacts, <1>10
  <2>1. \A d \in Calls : ~Unsaved(d)' /\ (d # c => ~Unsaved(d))
    BY <1>1, <1>5, <1>7 DEF Unsaved
  <2>2. \A d \in Calls : saved'[d] = None /\ ~Unsaved(d)' /\ (~over' \/ d \in Range(tools'.replayed) \/ ~Given(d)')
             => ran'[d] <= torn'[d]
    BY <1>3, <1>9, <2>1 DEF Counted
  <2>3. task'.worker.at # "run"
    BY <1>5, <1>7
  <2>4. /\ \A d \in Calls : ran'[d] <= 1 + torn'[d]
        /\ \A d \in Calls : ran'[d] # 0 => Published(d)'
        /\ \A d \in Range(tools'.queue) \cup Range(task'.consumer.keep) : ran'[d] <= torn'[d]
        /\ \A d \in Calls, e \in log' :
             Feeding' /\ e > feed'.cursor /\ ~Historical(e)' /\ BatchOf(d, e)' => ran'[d] <= torn'[d]
    BY <1>3, <1>7 DEF Counted, Feeding, Historical
  <2> QED BY <2>1, <2>2, <2>3, <2>4 DEF Counted
<1>17. Results'
  <2>1. \A d \in Calls : saved'[d] \in {None} \cup 0 .. ran'[d]
    BY <1>3, <1>8, <1>9 DEF Results
  <2>2. ResultsAgree'
    BY <1>3, <1>9 DEF Results, ResultsAgree
  <2>3. \A d \in Calls : task'.worker.call = d => task'.worker.result \in {None} \cup 0 .. ran'[d]
    BY <1>3, <1>5, <1>7, <1>8
  <2>4. task'.worker.at # "save"
    BY <1>5, <1>7
  <2> QED BY <2>1, <2>2, <2>3, <2>4 DEF Results
<1>18. Declined'
  <2>1. task'.worker.at # "run" /\ \A d : Asking(d)' <=> Asking(d)
    BY <1>5, <1>7 DEF Asking
  <2> QED BY <1>3, <1>7, <1>10, <1>12, <2>1, DeclinedKeeps DEF Declined
<1> QED BY <1>11, <1>13, <1>14, <1>15, <1>16, <1>17, <1>18

-----------------------------------------------------------------------------
(* The specification.                                                       *)

\* A new observation starts from nothing.
LEMMA ObserveKeeps ==
  ASSUME TurnInv, Observe
  PROVE TurnInv'
<1> USE NewTasksFacts DEF TurnInv, Typed
<1>1. /\ feed.ended = "failed" /\ ~over
      /\ feed' = [NewFeed EXCEPT !.target = LastSeq(log), !.phase = "replaying"]
      /\ tools' = NewTools(LastSeq(log)) /\ task' = NewTasks
      /\ ledger' = [c \in Calls |-> "unknown"]
      /\ UNCHANGED <<log, over, content, remote, saved, decided, ran, torn>>
  BY DEF Observe
<1>2. /\ LastSeq(log) \in {0} \cup log /\ LastSeq(log) \in Nat /\ \A e \in log : e <= LastSeq(log)
  <2>1. CASE log = {}
    BY <2>1 DEF LastSeq
  <2>2. CASE log # {}
    <3>1. PICK m \in log : \A e \in log : e <= m
      BY <2>2 DEF FeedTyped
    <3>2. log \in SUBSET Nat /\ log \in SUBSET Int
      BY DEF FeedTyped
    <3>3. Max(log) = m
      BY <3>1, <3>2, MaxIs
    <3> QED BY <2>2, <3>1, <3>2, <3>3 DEF LastSeq
  <2> QED BY <2>1, <2>2
<1> DEFINE n == LastSeq(log)
<1>3. n \in Numbers
  BY <1>2 DEF Numbers
<1>4. /\ tools' \in [target : Numbers, replayed : Seq(Calls), queue : Seq(Calls), aborted : BOOLEAN]
      /\ tools'.target = n /\ Range(tools'.queue) = {} /\ Range(tools'.replayed) = {}
      /\ IsInjective(tools'.queue) /\ IsInjective(tools'.replayed)
  BY <1>1, <1>3, NoTools
<1>5. task'.worker = IdleWorker /\ task'.consumer = Reader /\ TasksTyped'
  BY <1>1, <1>4 DEF TasksTyped, Approves
<1>6. /\ feed'.cursor = 0 /\ feed'.target = n /\ feed'.ended = "no"
      /\ feed' \in [cursor : Nat, phase : {"none", "replaying", "caught_up", "closed"}, target : Numbers,
               skipped : {FALSE}, ended : {"no", "settled", "failed"}]
  <2> HIDE DEF n
  <2> QED BY <1>1, <1>3 DEF NewFeed, n
<1>7. Typed'
  BY <1>1, <1>5, <1>6 DEF FeedTyped, CallsTyped
<1>8. Service'
  BY <1>1 DEF Service, AskOf, BatchOf
<1>9. Range(Reader.todo) = {} /\ Range(Reader.keep) = {} /\ IsInjective(Reader.todo) /\ IsInjective(Reader.keep)
  BY RangeEmpty
<1>10. Placed'
  BY <1>4, <1>5, <1>9, CallsAssumption DEF Placed
<1>11. Targets'
  BY <1>1, <1>2, <1>4, <1>5, <1>6 DEF Targets, Replaying
<1>12. Counted'
  <2>1. \A c \in Calls : ~Unsaved(c) /\ ~Unsaved(c)'
    BY <1>1, <1>5 DEF Counted, Unsaved
  <2>2. \A e \in log : Historical(e)'
    BY <1>2, <1>4 DEF Historical, None
  <2>3. \A c \in Calls : Published(c)' <=> Published(c)
    BY <1>1 DEF Published, BatchOf
  <2>4. /\ \A c \in Calls : ran'[c] <= 1 + torn'[c]
        /\ \A c \in Calls : ran'[c] # 0 => Published(c)'
        /\ \A c \in Calls : saved'[c] = None => ran'[c] <= torn'[c]
    BY <1>1, <2>1, <2>3 DEF Counted
  <2>5. task'.worker.at # "run"
    BY <1>5
  <2> QED BY <1>1, <1>4, <1>5, <1>9, <2>1, <2>2, <2>4, <2>5 DEF Counted
<1>13. Results'
  BY <1>1, <1>5, ResultsKeeps
<1>14. Declined'
  <2>1. (\A c : ~Asking(c)') /\ task'.consumer.at # "decided" /\ task'.worker.at # "run"
    BY <1>5 DEF Asking, Approves
  <2>2. \A a \in log : ~(a <= 0)
    BY DEF FeedTyped
  <2>3. \A c \in Calls : ledger'[c] # "approved"
    BY <1>1
  <2>4. /\ DeclinedNeverRuns'
        /\ \A c \in Calls : decided'[c] # "none" => c \in Asks
        /\ \A c \in Calls : remote'[c].approval # "none" => remote'[c].approval = decided'[c]
        /\ \A c \in Asks : remote'[c].status \in {"settled", "waiting", "received"} => remote'[c].approval # "none"
        /\ \A c \in Asks : remote'[c].status \in {"waiting", "received"} => remote'[c].approval = "accept"
        /\ \A c \in Calls : remote'[c].status \in {"none", "asked"} => remote'[c].approval = "none"
    BY <1>1 DEF Declined, DeclinedNeverRuns
  <2> QED BY <1>1, <1>4, <1>5, <1>6, <1>9, <2>1, <2>2, <2>3, <2>4 DEF Declined
<1> QED BY <1>7, <1>8, <1>10, <1>11, <1>12, <1>13, <1>14

\* Every step keeps the invariant.
LEMMA StepKeeps ==
  ASSUME TurnInv, TurnNext
  PROVE TurnInv'
<1>1. CASE ConsumerStep
  BY <1>1, TakeTextKeeps, TakeAskKeeps, TakeBatchKeeps, TakeEndKeeps, EndTurnKeeps, DecideKeeps, ReportKeeps,
     CatchUpKeeps, ClassifyKeeps, RecoveryKeeps, FailuresKeep, DeliversKeep, ObserveKeeps
     DEF ConsumerStep, Takes, Approving, Catching, Delivers
<1>2. CASE WorkerStep
  BY <1>2, StartKeeps, ExecuteKeeps, RejectKeeps, SaveKeeps, DeliversKeep DEF WorkerStep, Delivers
<1>3. CASE ServiceStep
  BY <1>3, TextKeeps, AskKeeps, BatchKeeps, EndKeeps, CloseKeeps DEF ServiceStep
<1>4. CASE TroubleStep
  BY <1>4, ReconnectKeeps, ReportLostKeeps, FailuresKeep, InterruptKeeps, DeliversKeep DEF TroubleStep
<1> QED BY <1>1, <1>2, <1>3, <1>4 DEF TurnNext

\* A step that changes nothing keeps it.
LEMMA StutterKeeps ==
  ASSUME TurnInv, UNCHANGED turnvars
  PROVE TurnInv'
<1>1. UNCHANGED <<log, over, feed, content, remote, saved, decided, ledger, ran, torn, task, tools>>
  BY DEF turnvars, toolvars, feedvars
<1>2. /\ TasksTyped
      /\ remote \in [Calls -> [status : Statuses, approval : Decisions, result : Numbers]]
  BY DEF TurnInv, Typed, CallsTyped
<1>3. TasksTyped'
  BY <1>1, <1>2 DEF TasksTyped
<1>4. CallsGoOn /\ \A c \in Calls : remote'[c].result \in {remote[c].result, saved[c]}
  BY <1>1 DEF CallsGoOn
<1>5. WorkerGoesOn(task'.worker) /\ ConsumerGoesOn(task'.consumer)
  BY <1>1 DEF WorkerGoesOn, ConsumerGoesOn
<1> QED BY <1>1, <1>2, <1>3, <1>4, <1>5, DeliveryKeeps

\* The initial state: nothing is published, nothing is known.
LEMMA InitHolds ==
  ASSUME TurnInit
  PROVE TurnInv
<1> USE NewTasksFacts
<1>1. /\ log = {} /\ over = FALSE /\ feed = NewFeed
      /\ content = [e \in 1 .. MaxSeq |-> Text]
      /\ remote = [c \in Calls |-> NewCall]
      /\ saved = [c \in Calls |-> None] /\ decided = [c \in Calls |-> "none"]
      /\ task = NewTasks /\ ledger = [c \in Calls |-> "unknown"] /\ tools = NewTools(None)
      /\ ran = [c \in Calls |-> 0] /\ torn = [c \in Calls |-> 0]
  BY DEF TurnInit
<1>2. /\ tools \in [target : Numbers, replayed : Seq(Calls), queue : Seq(Calls), aborted : BOOLEAN]
      /\ tools.target = None /\ Range(tools.queue) = {} /\ Range(tools.replayed) = {}
      /\ IsInjective(tools.queue) /\ IsInjective(tools.replayed)
  BY <1>1, NoTools DEF Numbers
<1>3. task.worker = IdleWorker /\ task.consumer = Reader /\ TasksTyped
  BY <1>1, <1>2 DEF TasksTyped, Approves
<1>4. /\ NewFeed.cursor = 0 /\ NewFeed.target = None /\ NewFeed.ended = "no"
      /\ NewFeed \in [cursor : Nat, phase : {"none", "replaying", "caught_up", "closed"}, target : Numbers,
               skipped : {FALSE}, ended : {"no", "settled", "failed"}]
  BY DEF NewFeed, Numbers
<1>5. FeedTyped
  BY <1>1, <1>4, EventKinds DEF FeedTyped
<1>6. /\ NewCall \in [status : Statuses, approval : Decisions, result : Numbers]
      /\ NewCall.status = "none" /\ NewCall.approval = "none" /\ NewCall.result = None
  BY DEF NewCall, Statuses, Decisions, Numbers
<1>7. CallsTyped
  BY <1>1, <1>6 DEF CallsTyped, Numbers, Decisions
<1>8. Asks \subseteq Calls
  BY AsksAreCalls
<1>9. \A c \in Calls : /\ remote[c].status = "none" /\ remote[c].approval = "none" /\ remote[c].result = None
                       /\ saved[c] = None /\ decided[c] = "none" /\ ledger[c] = "unknown"
                       /\ ran[c] = 0 /\ torn[c] = 0
  BY <1>1, <1>6
<1>10. Service
  BY <1>1, <1>8, <1>9 DEF Service, AskOf, BatchOf
<1>11. Range(Reader.todo) = {} /\ Range(Reader.keep) = {} /\ IsInjective(Reader.todo) /\ IsInjective(Reader.keep)
  BY RangeEmpty
<1>12. Placed
  BY <1>2, <1>3, <1>11, CallsAssumption DEF Placed
<1>13. Targets
  BY <1>1, <1>2, <1>3, <1>4 DEF Targets, Replaying
<1>14. Counted
  <2>1. \A c \in Calls : ran[c] = 0 /\ ran[c] <= 1 + torn[c] /\ ran[c] <= torn[c] /\ ~Unsaved(c)
    BY <1>3, <1>9 DEF Unsaved
  <2> QED BY <1>1, <1>2, <1>3, <1>11, <2>1 DEF Counted
<1>15. Results
  BY <1>3, <1>9 DEF Results, ResultsAgree
<1>16. Declined
  <2>1. (\A c : ~Asking(c)) /\ task.consumer.at # "decided" /\ task.worker.at # "run"
    BY <1>3 DEF Asking, Approves
  <2> QED BY <1>1, <1>2, <1>3, <1>8, <1>9, <1>11, <2>1 DEF Declined, DeclinedNeverRuns
<1> QED BY <1>5, <1>7, <1>3, <1>10, <1>12, <1>13, <1>14, <1>15, <1>16 DEF TurnInv, Typed

\* The invariant of the turn, on which the theorems below rest.
THEOREM TurnInvariant == TurnSpec => []TurnInv
<1>1. TurnInit => TurnInv
  BY InitHolds
<1>2. TurnInv /\ [TurnNext]_turnvars => TurnInv'
  BY StepKeeps, StutterKeeps
<1> QED BY <1>1, <1>2, PTL DEF TurnSpec

\* Every call is in a known state, and a task that handles a call knows which.
THEOREM TurnTypes == TurnSpec => []TurnTypeOK
<1>1. TurnInv => TurnTypeOK
  <2> SUFFICES ASSUME TurnInv PROVE TurnTypeOK
    OBVIOUS
  <2> USE DEF TurnInv, Typed
  <2>1. \A c \in Calls : /\ remote[c].status \in {"none", "asked", "settled", "waiting", "received", "closed"}
                         /\ saved[c] \in {None} \cup 0 .. ran[c]
                         /\ remote[c].result \in {None} \cup 0 .. ran[c]
    BY DEF CallsTyped, Statuses, Results, ResultsAgree
  <2>2. /\ ledger \in [Calls -> {"unknown", "approved", "terminal", "consumed"}]
        /\ decided \in [Calls -> {"none", "accept", "decline"}]
    BY DEF CallsTyped, Decisions
  <2>3. /\ task.worker.at \in {"idle", "run", "save", "post", "status", "closed", "failed"}
        /\ task.consumer.at \in {"read", "ask", "decided", "classify", "post", "status"}
    BY DEF TasksTyped, Workers, Consumers, Approves, Replaying
  <2>4. \A who \in {"consumer", "worker"} :
          task[who].at \in {"ask", "decided", "run", "save", "post", "status"} => task[who].call \in Calls
    <3>1. task.worker.at \in {"run", "save", "post", "status"} => task.worker.call \in Calls
      BY DEF TasksTyped
    <3>2. task.consumer.at \in {"ask", "decided", "post", "status"} => task.consumer.call \in Calls
      BY DEF TasksTyped, Approves
    <3> QED BY <2>3, <3>1, <3>2
  <2>5. tools.queue \in Seq(Calls) /\ tools.replayed \in Seq(Calls)
    BY DEF TasksTyped
  <2> QED BY <2>1, <2>2, <2>3, <2>4, <2>5 DEF TurnTypeOK
<1> QED BY <1>1, TurnInvariant, PTL

\* A call runs again only if an execution of it was lost before its result
\* was saved: reconnects, replays and repeated deliveries never run it twice.
THEOREM RerunsAreTorn == TurnSpec => []RerunOnlyIfTorn
<1>1. TurnInv => RerunOnlyIfTorn
  BY DEF TurnInv, Counted, RerunOnlyIfTorn
<1> QED BY <1>1, TurnInvariant, PTL

\* The service never holds a result other than the saved one.
THEOREM ServiceHoldsSaved == TurnSpec => []ResultsAgree
<1>1. TurnInv => ResultsAgree
  BY DEF TurnInv, Results
<1> QED BY <1>1, TurnInvariant, PTL

\* No process runs a call that the user declined, in this one or before.
THEOREM DeclinedStaysDeclined == TurnSpec => []DeclinedNeverRuns
<1>1. TurnInv => DeclinedNeverRuns
  BY DEF TurnInv, Declined
<1> QED BY <1>1, TurnInvariant, PTL

-----------------------------------------------------------------------------
(* The order of the calls.                                                  *)

\* Call c waits, and the service brought it before call d.
Overdue == {p \in Calls \X Calls : p[1] \in Waiting /\ Precedes(p[1], p[2])}

\* What is before an element of s in R is earlier in s, or in P.
InLine(R, P, s) ==
  \A j \in DOMAIN s : \A c \in Calls :
    <<c, s[j]>> \in R => c \in P \/ \E i \in DOMAIN s : i < j /\ s[i] = c

\* A call that waits is of the last batch, and none waits after the turn.
Batches ==
  /\ \A c \in Waiting, e, f \in log : BatchOf(c, e) /\ content[f].kind = "batch" => f <= e
  /\ over => Waiting = {}

\* The dispatcher's queues and what is classified are in the service's order.
Queues ==
  /\ InLine(Overdue, {}, tools.replayed)
  /\ InLine(Overdue, {task.worker.call}, tools.queue)
  /\ \A c \in Calls : <<c, task.worker.call>> \notin Overdue

Classified ==
  /\ InLine(Overdue, {}, task.consumer.keep)
  /\ InLine(Overdue, Range(task.consumer.keep), task.consumer.todo)
  /\ task.consumer.at \in {"post", "status"} => task.consumer.call = Head(task.consumer.todo)

\* A call the dispatcher would drop does not wait, except in the worker's hands.
Ledgers ==
  /\ \A c \in Calls : ledger[c] = "terminal" =>
       c \in Asks /\ (remote[c].status = "closed" \/ remote[c].approval = "decline")
  /\ \A c \in Calls : ledger[c] = "consumed" =>
       Published(c) /\ (Feeding /\ c \in Waiting => task.worker.call = c)

OrderInv == Batches /\ Queues /\ Classified /\ Ledgers

\* The order does not depend on more than the pairs of its elements.
LEMMA InLineKeeps ==
  ASSUME NEW R, NEW Q, NEW P, NEW N, NEW s \in Seq(Calls), InLine(R, P, s),
         \A c \in Calls, d \in Range(s) : <<c, d>> \in Q => <<c, d>> \in R /\ (c \in P => c \in N)
  PROVE InLine(Q, N, s)
<1>1. \A j \in DOMAIN s : s[j] \in Range(s)
  BY DEF Range
<1> QED BY <1>1 DEF InLine

\* Nothing is out of line in an empty sequence.
LEMMA InLineEmpty ==
  ASSUME NEW R, NEW P
  PROVE InLine(R, P, << >>)
BY DEF InLine

\* The head is the first in line, and the tail waits for it.
LEMMA InLineTail ==
  ASSUME NEW R, NEW P, NEW s \in Seq(Calls), s # << >>, InLine(R, P, s)
  PROVE /\ \A c \in Calls : <<c, Head(s)>> \in R => c \in P
        /\ InLine(R, P \cup {Head(s)}, Tail(s))
<1> DEFINE t == Tail(s)
           n == Len(s)
<1>1. n \in Nat /\ n >= 1 /\ Head(s) = s[1] /\ t \in Seq(Calls) /\ Len(t) = n - 1
  OBVIOUS
<1>2. DOMAIN s = 1 .. n /\ DOMAIN t = 1 .. (n - 1)
  BY <1>1
<1>3. \A i \in 1 .. (n - 1) : t[i] = s[i + 1]
  OBVIOUS
<1> HIDE DEF t, n
<1>4. \A c \in Calls : <<c, Head(s)>> \in R => c \in P
  <2> SUFFICES ASSUME NEW c \in Calls, <<c, s[1]>> \in R
               PROVE c \in P
    BY <1>1
  <2>1. 1 \in DOMAIN s /\ ~\E i \in DOMAIN s : i < 1
    BY <1>1, <1>2
  <2> QED BY <2>1 DEF InLine
<1>5. InLine(R, P \cup {Head(s)}, t)
  <2> SUFFICES ASSUME NEW j \in DOMAIN t, NEW c \in Calls, <<c, t[j]>> \in R, c \notin P \cup {Head(s)}
               PROVE \E i \in DOMAIN t : i < j /\ t[i] = c
    BY DEF InLine
  <2>1. j \in 1 .. (n - 1) /\ j + 1 \in 1 .. n /\ t[j] = s[j + 1]
    BY <1>1, <1>2, <1>3
  <2>2. PICK i \in 1 .. n : i < j + 1 /\ s[i] = c
    BY <1>2, <2>1 DEF InLine
  <2>3. i # 1
    BY <1>1, <2>2
  <2>4. i - 1 \in 1 .. (n - 1) /\ i - 1 < j /\ (i - 1) + 1 = i
    BY <1>1, <2>1, <2>2, <2>3
  <2>5. t[i - 1] = c
    BY <1>3, <2>2, <2>4
  <2> QED BY <1>2, <2>4, <2>5
<1> QED BY <1>4, <1>5 DEF t

\* Two sequences one after the other.
LEMMA InLineConcat ==
  ASSUME NEW R, NEW P, NEW s \in Seq(Calls), NEW t \in Seq(Calls), InLine(R, P, s), InLine(R, P, t)
  PROVE InLine(R, P, s \o t)
<1> DEFINE u == s \o t
           m == Len(s)
           n == Len(t)
<1>1. u \in Seq(Calls) /\ Len(u) = m + n /\ m \in Nat /\ n \in Nat
  OBVIOUS
<1>2. DOMAIN s = 1 .. m /\ DOMAIN t = 1 .. n /\ DOMAIN u = 1 .. (m + n)
  BY <1>1
<1>3. \A i \in 1 .. (m + n) : u[i] = IF i <= m THEN s[i] ELSE t[i - m]
  OBVIOUS
<1> HIDE DEF u, m, n
<1> SUFFICES ASSUME NEW j \in 1 .. (m + n), NEW c \in Calls, <<c, u[j]>> \in R, c \notin P
             PROVE \E i \in 1 .. (m + n) : i < j /\ u[i] = c
  BY <1>2 DEF InLine, u
<1>4. CASE j <= m
  <2>1. j \in 1 .. m /\ u[j] = s[j]
    BY <1>1, <1>3, <1>4
  <2>2. PICK i \in 1 .. m : i < j /\ s[i] = c
    BY <1>2, <2>1 DEF InLine
  <2>3. i \in 1 .. (m + n) /\ u[i] = s[i]
    BY <1>1, <1>3, <2>2
  <2> QED BY <2>2, <2>3
<1>5. CASE ~(j <= m)
  <2>1. j - m \in 1 .. n /\ u[j] = t[j - m]
    BY <1>1, <1>3, <1>5
  <2>2. PICK i \in 1 .. n : i < j - m /\ t[i] = c
    BY <1>2, <2>1 DEF InLine
  <2>3. i + m \in 1 .. (m + n) /\ i + m < j /\ ~(i + m <= m) /\ (i + m) - m = i
    BY <1>1, <2>1, <2>2
  <2>4. u[i + m] = t[i]
    BY <1>3, <2>3
  <2> QED BY <2>2, <2>3, <2>4
<1> QED BY <1>4, <1>5

\* One more at the end.
LEMMA InLineAppend ==
  ASSUME NEW R, NEW s \in Seq(Calls), NEW x \in Calls, InLine(R, {}, s),
         \A c \in Calls : <<c, x>> \in R => c \in Range(s)
  PROVE InLine(R, {}, Append(s, x))
<1> DEFINE t == Append(s, x)
           n == Len(s)
<1>1. n \in Nat /\ t \in Seq(Calls) /\ Len(t) = n + 1
  OBVIOUS
<1>2. DOMAIN s = 1 .. n /\ DOMAIN t = 1 .. (n + 1)
  BY <1>1
<1>3. t[n + 1] = x /\ \A i \in 1 .. n : t[i] = s[i]
  OBVIOUS
<1> HIDE DEF t, n
<1> SUFFICES ASSUME NEW j \in 1 .. (n + 1), NEW c \in Calls, <<c, t[j]>> \in R
             PROVE \E i \in 1 .. (n + 1) : i < j /\ t[i] = c
  BY <1>2 DEF InLine, t
<1>4. \A i \in 1 .. n : i \in 1 .. (n + 1) /\ t[i] = s[i] /\ i < n + 1
  BY <1>1, <1>3
<1>5. CASE j \in 1 .. n
  <2>1. PICK i \in 1 .. n : i < j /\ s[i] = c
    BY <1>2, <1>4, <1>5 DEF InLine
  <2> QED BY <1>4, <2>1
<1>6. CASE j = n + 1
  <2>1. c \in Range(s)
    BY <1>3, <1>6
  <2>2. PICK i \in 1 .. n : s[i] = c
    BY <1>2, <2>1 DEF Range
  <2> QED BY <1>4, <1>6, <2>2
<1> QED BY <1>1, <1>5, <1>6

\* What waited and still waits, and the calls the client has been given, are
\* ordered as before.
FewerOverdue ==
  \A c, d \in Calls : Given(d) /\ <<c, d>> \in Overdue' => <<c, d>> \in Overdue

\* The queues stay or are emptied; the worker gives up only a call that has its answer.
QueuesGoOn ==
  /\ tools'.replayed \in {tools.replayed, << >>} /\ tools'.queue \in {tools.queue, << >>}
  /\ \/ task'.worker.call = task.worker.call
     \/ task'.worker.call = None /\ task.worker.call \notin Waiting'

\* The classification stays, ends, or passes over a call that has its answer.
ClassifiedGoOn ==
  \/ /\ task'.consumer.todo = << >> /\ task'.consumer.keep = << >>
     /\ task'.consumer.at \notin {"post", "status"}
  \/ /\ task'.consumer.todo = task.consumer.todo /\ task'.consumer.keep = task.consumer.keep
     /\ task'.consumer.at \in {"post", "status"} =>
          task.consumer.at \in {"post", "status"} /\ task'.consumer.call = task.consumer.call
  \/ /\ task.consumer.todo # << >> /\ Head(task.consumer.todo) \notin Waiting'
     /\ task'.consumer.todo = Tail(task.consumer.todo) /\ task'.consumer.keep = task.consumer.keep
     /\ task'.consumer.at \notin {"post", "status"}

\* The ledger forgets, or learns of calls that are closed or declined; a call it
\* dropped does not begin to wait, and the worker keeps one that waits.
LedgersGoOn ==
  /\ \A c \in Calls : ledger'[c] = "terminal" => ledger[c] = "terminal"
       \/ (c \in Asks /\ (remote'[c].status = "closed" \/ remote'[c].approval = "decline"))
  /\ \A c \in Calls : ledger'[c] = "consumed" => ledger[c] = "consumed"
  /\ \A c \in Calls : remote[c].status = "closed" => remote'[c].status = "closed"
  /\ \A c \in Calls : remote[c].approval = "decline" => remote'[c].approval = "decline"
  /\ \A c \in Calls : Published(c) => Published(c)'
  /\ \A c \in Calls : Feeding' /\ c \in Waiting' /\ Published(c) =>
       Feeding /\ c \in Waiting /\ (task.worker.call = c => task'.worker.call = c)

\* With the same events, the calls that still wait are ordered as before.
LEMMA OverdueShrinks ==
  ASSUME log' = log, content' = content, Waiting' \subseteq Waiting
  PROVE Overdue' \subseteq Overdue /\ FewerOverdue
<1>1. \A c, d : Precedes(c, d)' <=> Precedes(c, d)
  BY DEF Precedes
<1>2. Overdue' \subseteq Overdue
  BY <1>1 DEF Overdue
<1> QED BY <1>2 DEF FewerOverdue

\* With the same events, what still waits is of the last batch.
LEMMA BatchesKeep ==
  ASSUME Batches, log' = log, content' = content, over' = over, Waiting' \subseteq Waiting
  PROVE Batches'
<1>1. \A c, e : BatchOf(c, e)' <=> BatchOf(c, e)
  BY DEF BatchOf
<1>2. \A c \in Waiting', e, f \in log' : BatchOf(c, e)' /\ content'[f].kind = "batch" => f <= e
  BY <1>1 DEF Batches
<1>3. over' => Waiting' = {}
  BY DEF Batches
<1> QED BY <1>2, <1>3 DEF Batches

\* The types of the sequences, and that their calls were given.
LEMMA LineFacts ==
  ASSUME TurnInv
  PROVE /\ tools.replayed \in Seq(Calls) /\ tools.queue \in Seq(Calls)
        /\ task.consumer.todo \in Seq(Calls) /\ task.consumer.keep \in Seq(Calls)
        /\ \A c \in Range(tools.replayed) \cup Range(tools.queue) : c \in Calls /\ Given(c)
        /\ \A c \in Range(task.consumer.todo) \cup Range(task.consumer.keep) : c \in Calls /\ Given(c)
        /\ task.worker.call \in Calls => Given(task.worker.call)
<1>1. /\ tools.replayed \in Seq(Calls) /\ tools.queue \in Seq(Calls)
      /\ task.consumer.todo \in Seq(Calls) /\ task.consumer.keep \in Seq(Calls)
  BY DEF TurnInv, Typed, TasksTyped, Consumers
<1>2. Range(tools.replayed) \subseteq Calls /\ Range(tools.queue) \subseteq Calls
  BY <1>1, RangeIn
<1>3. \A c \in Range(tools.replayed) \cup Range(tools.queue) : c \in Calls /\ Given(c)
  BY <1>2 DEF TurnInv, Placed
<1>4. \A c \in Range(task.consumer.todo) \cup Range(task.consumer.keep) : c \in Calls /\ Given(c)
  BY <1>3 DEF TurnInv, Placed
<1>5. task.worker.call \in Calls => Given(task.worker.call)
  BY DEF TurnInv, Placed
<1> QED BY <1>1, <1>3, <1>4, <1>5

\* A call that was given stays in line.
LEMMA GivenInLine ==
  ASSUME FewerOverdue, NEW P, NEW N, NEW s \in Seq(Calls), \A d \in Range(s) : d \in Calls /\ Given(d),
         InLine(Overdue, P, s), \A c \in P : c \in Waiting' => c \in N
  PROVE InLine(Overdue', N, s)
<1>1. \A c \in Calls, d \in Range(s) : <<c, d>> \in Overdue' => <<c, d>> \in Overdue
  BY DEF FewerOverdue
<1>2. \A c, d \in Calls : <<c, d>> \in Overdue' => c \in Waiting'
  BY DEF Overdue
<1>3. \A c \in Calls, d \in Range(s) : <<c, d>> \in Overdue' => <<c, d>> \in Overdue /\ (c \in P => c \in N)
  BY <1>1, <1>2
<1> HIDE DEF Overdue
<1> QED BY <1>3, InLineKeeps

\* The queues stay in order.
LEMMA QueuesKeep ==
  ASSUME TurnInv, Queues, FewerOverdue, QueuesGoOn
  PROVE Queues'
<1> USE LineFacts, InLineEmpty
<1>1. InLine(Overdue', {}, tools'.replayed)
  <2>1. InLine(Overdue', {}, tools.replayed)
    BY GivenInLine DEF Queues
  <2> QED BY <2>1 DEF QueuesGoOn
<1>2. InLine(Overdue', {task'.worker.call}, tools'.queue)
  <2>1. \A c \in {task.worker.call} : c \in Waiting' => c \in {task'.worker.call}
    BY DEF QueuesGoOn
  <2>2. InLine(Overdue', {task'.worker.call}, tools.queue)
    BY <2>1, GivenInLine DEF Queues
  <2> QED BY <2>2 DEF QueuesGoOn
<1>3. \A c \in Calls : <<c, task'.worker.call>> \notin Overdue'
  <2>1. CASE task'.worker.call = task.worker.call
    <3>1. \A c \in Calls : <<c, task'.worker.call>> \in Overdue' => task'.worker.call \in Calls
      BY DEF Overdue
    <3> QED BY <2>1, <3>1 DEF FewerOverdue, Queues
  <2>2. CASE task'.worker.call = None
    BY <2>2, CallsAssumption DEF Overdue
  <2> QED BY <2>1, <2>2 DEF QueuesGoOn
<1> QED BY <1>1, <1>2, <1>3 DEF Queues

\* The classification stays in order.
LEMMA ClassifiedKeeps ==
  ASSUME TurnInv, Classified, FewerOverdue, ClassifiedGoOn
  PROVE Classified'
<1> USE LineFacts, InLineEmpty
<1> DEFINE keep == task.consumer.keep
           todo == task.consumer.todo
<1>1. InLine(Overdue', {}, keep) /\ InLine(Overdue', Range(keep), todo)
  <2>1. InLine(Overdue', {}, keep)
    BY GivenInLine DEF Classified
  <2>2. InLine(Overdue', Range(keep), todo)
    BY GivenInLine DEF Classified
  <2> QED BY <2>1, <2>2
<1>2. CASE task'.consumer.todo = << >> /\ task'.consumer.keep = << >> /\ task'.consumer.at \notin {"post", "status"}
  <2>1. InLine(Overdue', {}, task'.consumer.keep) /\ InLine(Overdue', Range(task'.consumer.keep), task'.consumer.todo)
    BY <1>2
  <2> QED BY <1>2, <2>1 DEF Classified
<1>3. CASE /\ task'.consumer.todo = todo /\ task'.consumer.keep = keep
           /\ task'.consumer.at \in {"post", "status"} =>
                task.consumer.at \in {"post", "status"} /\ task'.consumer.call = task.consumer.call
  BY <1>1, <1>3 DEF Classified
<1>4. CASE /\ todo # << >> /\ Head(todo) \notin Waiting'
           /\ task'.consumer.todo = Tail(todo) /\ task'.consumer.keep = keep
           /\ task'.consumer.at \notin {"post", "status"}
  <2>1. InLine(Overdue', Range(keep) \cup {Head(todo)}, Tail(todo)) /\ Tail(todo) \in Seq(Calls)
    BY <1>1, <1>4, InLineTail, RangeTail
  <2>2. \A c \in Calls, d \in Range(Tail(todo)) :
           <<c, d>> \in Overdue' => <<c, d>> \in Overdue' /\ (c \in Range(keep) \cup {Head(todo)} => c \in Range(keep))
    BY <1>4 DEF Overdue
  <2>3. InLine(Overdue', Range(keep), Tail(todo))
    BY <2>1, <2>2, InLineKeeps
  <2> QED BY <1>1, <1>4, <2>3 DEF Classified
<1> QED BY <1>2, <1>3, <1>4 DEF ClassifiedGoOn

\* What the ledger drops does not wait.
LEMMA LedgersKeep ==
  ASSUME Ledgers, LedgersGoOn
  PROVE Ledgers'
<1>1. \A c \in Calls : ledger'[c] = "terminal" =>
        c \in Asks /\ (remote'[c].status = "closed" \/ remote'[c].approval = "decline")
  BY DEF Ledgers, LedgersGoOn
<1>2. \A c \in Calls : ledger'[c] = "consumed" =>
        Published(c)' /\ (Feeding' /\ c \in Waiting' => task'.worker.call = c)
  BY DEF Ledgers, LedgersGoOn
<1> QED BY <1>1, <1>2 DEF Ledgers

\* A step that brings nothing, and hands nothing over.
LEMMA OrderKeeps ==
  ASSUME TurnInv, OrderInv, log' = log, content' = content, over' = over, Waiting' \subseteq Waiting,
         QueuesGoOn, ClassifiedGoOn, LedgersGoOn
  PROVE OrderInv'
BY OverdueShrinks, BatchesKeep, QueuesKeep, ClassifiedKeeps, LedgersKeep DEF OrderInv

\* A dispatcher that is new holds nothing.
LEMMA NewInOrder ==
  ASSUME task' = NewTasks, tools'.queue = << >>, tools'.replayed = << >>
  PROVE Queues' /\ Classified'
<1>1. task'.worker.call = None /\ task'.consumer.todo = << >> /\ task'.consumer.keep = << >> /\ task'.consumer.at = "read"
  BY NewTasksFacts
<1>2. \A c \in Calls : <<c, task'.worker.call>> \notin Overdue'
  BY <1>1, CallsAssumption DEF Overdue
<1> QED BY <1>1, <1>2, InLineEmpty DEF Queues, Classified

\* The calls of a new batch wait behind none that the client has.
LEMMA NewBatchOrder ==
  ASSUME TurnInv, TurnInv', NEW what \in Event, NEW n \in 1 .. MaxSeq, New(n, what), feed' = feed,
         what.kind = "batch", Waiting' \subseteq Range(what.calls), over' = (what = Terminal)
  PROVE Batches' /\ FewerOverdue
<1>1. /\ \A c, e : e \in log => (BatchOf(c, e)' <=> BatchOf(c, e))
      /\ \A c : BatchOf(c, n)' <=> c \in Range(what.calls)
      /\ log' = log \cup {n} /\ n \notin log /\ n > feed.cursor /\ \A e \in log : e < n
  BY NewFacts DEF TurnInv, Typed
<1>2. \A c \in Calls, e \in log' : BatchOf(c, e)' /\ BatchOf(c, n)' => e = n
  BY <1>1 DEF TurnInv, Service
<1>3. \A c \in Waiting', e \in log' : BatchOf(c, e)' => e = n
  <2>1. \A c \in Waiting' : c \in Calls /\ BatchOf(c, n)'
    BY <1>1 DEF Waiting
  <2> QED BY <1>2, <2>1
<1>4. log' \in SUBSET Int /\ n \in Int /\ \A e \in log' : e <= n
  BY <1>1 DEF TurnInv, Typed, FeedTyped
<1>5. Batches'
  <2>1. \A c \in Waiting', e, f \in log' : BatchOf(c, e)' /\ content'[f].kind = "batch" => f <= e
    BY <1>3, <1>4
  <2>2. ~over'
    BY EventKinds
  <2> QED BY <2>1, <2>2 DEF Batches
<1>6. FewerOverdue
  <2> SUFFICES ASSUME NEW c \in Calls, NEW d \in Calls, Given(d), <<c, d>> \in Overdue'
               PROVE FALSE
    BY DEF FewerOverdue
  <2>1. c \in Waiting' /\ Precedes(c, d)'
    BY DEF Overdue
  <2>2. PICK e \in log', f \in log' : \E i \in DOMAIN content'[e].calls, j \in DOMAIN content'[f].calls :
           /\ content'[e].kind = "batch" /\ content'[e].calls[i] = c
           /\ content'[f].kind = "batch" /\ content'[f].calls[j] = d
           /\ e < f \/ (e = f /\ i < j)
    BY <2>1 DEF Precedes
  <2>3. e \in log' /\ f \in log' /\ (e < f \/ e = f)
    BY <2>2
  <2>4. BatchOf(c, e)' /\ BatchOf(d, f)'
    <3>1. c \in Range(content'[e].calls) /\ d \in Range(content'[f].calls)
      BY <2>2 DEF Range
    <3> QED BY <2>2, <3>1 DEF BatchOf
  <2>5. f = n
    BY <1>3, <1>4, <2>1, <2>3, <2>4
  <2>6. PICK g \in log : BatchOf(d, g)
    BY DEF Given
  <2>7. BatchOf(d, g)' /\ g \in log'
    BY <1>1, <2>6
  <2> QED BY <1>1, <1>2, <2>3, <2>4, <2>5, <2>6, <2>7
<1> QED BY <1>5, <1>6

\* Another event brings no call.
LEMMA NewEventOrder ==
  ASSUME TurnInv, Batches, NEW what \in Event, NEW n \in 1 .. MaxSeq, New(n, what), feed' = feed,
         what.kind # "batch", Waiting' \subseteq Waiting, what = Terminal => Waiting' = {},
         over' = (what = Terminal)
  PROVE Batches' /\ FewerOverdue
<1>1. /\ \A c, e : e \in log => (BatchOf(c, e)' <=> BatchOf(c, e))
      /\ \A c : ~BatchOf(c, n)'
      /\ log' = log \cup {n} /\ n \notin log
  BY NewFacts DEF TurnInv, Typed
<1>2. content'[n].kind # "batch" /\ \A e \in log : content'[e] = content[e]
  BY DEF New
<1>3. Batches'
  <2>1. \A c \in Waiting', e, f \in log' : BatchOf(c, e)' /\ content'[f].kind = "batch" => f <= e
    BY <1>1, <1>2 DEF Batches
  <2> QED BY <2>1 DEF Batches
<1>4. FewerOverdue
  <2> SUFFICES ASSUME NEW c \in Calls, NEW d \in Calls, <<c, d>> \in Overdue'
               PROVE c \in Waiting /\ Precedes(c, d)
    BY DEF FewerOverdue, Overdue
  <2>1. c \in Waiting' /\ Precedes(c, d)'
    BY DEF Overdue
  <2>2. \A e \in log' : content'[e].kind = "batch" => e \in log /\ content'[e] = content[e]
    BY <1>1, <1>2
  <2>3. Precedes(c, d)
    BY <2>1, <2>2 DEF Precedes
  <2> QED BY <2>1, <2>3
<1> QED BY <1>3, <1>4

\* What the service publishes leaves the client's queues in order.
LEMMA PublishOrder ==
  ASSUME TurnInv, TurnInv', OrderInv, Brought
  PROVE OrderInv'
<1> USE DEF OrderInv
<1>1. PICK what \in Event : PublishAs(what, remote') /\ Moves /\ Brings(what)
  BY DEF Brought
<1>2. /\ over' = (what = Terminal) /\ feed' = feed
      /\ UNCHANGED <<saved, decided, task, ledger, tools, ran, torn>>
  BY <1>1, PublishFacts DEF TurnInv, Typed
<1>3. PICK n \in 1 .. MaxSeq : New(n, what)
  BY <1>1, PublishFacts DEF TurnInv, Typed
<1>4. Batches' /\ FewerOverdue
  <2>1. CASE what.kind = "batch"
    BY <1>1, <1>2, <1>3, <2>1, NewBatchOrder DEF Brings
  <2>2. CASE what.kind # "batch"
    BY <1>1, <1>2, <1>3, <2>2, NewEventOrder DEF Brings
  <2> QED BY <2>1, <2>2
<1>5. Queues' /\ Classified'
  BY <1>2, <1>4, QueuesKeep, ClassifiedKeeps DEF QueuesGoOn, ClassifiedGoOn
<1>6. LedgersGoOn
  <2>1. \A c : Published(c) => Published(c)'
    BY <1>2, <1>3, NewFacts DEF TurnInv, Typed
  <2>2. \A c \in Calls : Published(c) => remote[c].status \in {"waiting", "received", "closed"}
    BY DEF Published, TurnInv, Service
  <2>3. \A c \in Calls : c \in Waiting' /\ Published(c) => c \in Waiting
    BY <1>1, <2>2 DEF Moves, Waiting
  <2>4. \A c \in Calls : remote[c].status = "closed" => remote'[c].status = "closed"
    BY <1>1 DEF Moves
  <2>5. \A c \in Calls : remote[c].approval = "decline" => remote'[c].approval = "decline"
    BY <1>1 DEF Moves
  <2>6. Feeding' <=> Feeding
    BY <1>2 DEF Feeding
  <2>7. /\ \A c \in Calls : ledger'[c] = "terminal" => ledger[c] = "terminal"
        /\ \A c \in Calls : ledger'[c] = "consumed" => ledger[c] = "consumed"
    BY <1>2
  <2>8. \A c \in Calls : task.worker.call = c => task'.worker.call = c
    BY <1>2
  <2> QED BY <2>1, <2>3, <2>4, <2>5, <2>6, <2>7, <2>8 DEF LedgersGoOn
<1> QED BY <1>4, <1>5, <1>6, LedgersKeep

\* Calls that go on do not begin to wait, and what is closed or declined stays so.
LEMMA CallsGoOnFacts ==
  ASSUME CallsGoOn
  PROVE /\ Waiting' \subseteq Waiting
        /\ \A c \in Calls : remote[c].status = "closed" => remote'[c].status = "closed"
        /\ \A c \in Calls : remote[c].approval = "decline" => remote'[c].approval = "decline"
BY DEF CallsGoOn, Waiting

\* A step that leaves the ledger alone.
LEMMA StepInOrder ==
  ASSUME TurnInv, OrderInv, UNCHANGED <<log, over, content, ledger>>, CallsGoOn, Feeding' => Feeding,
         QueuesGoOn, ClassifiedGoOn
  PROVE OrderInv'
<1>1. \A c : Published(c)' <=> Published(c)
  BY DEF Published, BatchOf
<1>2. \A c \in Calls : c \in Waiting' /\ task.worker.call = c => task'.worker.call = c
  BY DEF QueuesGoOn
<1>3. LedgersGoOn
  BY <1>1, <1>2, CallsGoOnFacts DEF LedgersGoOn
<1> QED BY <1>3, CallsGoOnFacts, OrderKeeps

\* The observation stops.
LEMMA FailInOrder ==
  ASSUME TurnInv, OrderInv, TurnFails, content' = content, Waiting' \subseteq Waiting,
         \A c \in Calls : remote[c].status = "closed" => remote'[c].status = "closed",
         \A c \in Calls : remote[c].approval = "decline" => remote'[c].approval = "decline",
         \A c \in Calls : ledger'[c] \in {ledger[c], "unknown"}
  PROVE OrderInv'
<1>1. /\ UNCHANGED <<log, over>> /\ task' = NewTasks /\ tools' = NewTools(None)
      /\ feed' = [feed EXCEPT !.ended = "failed"]
  BY DEF TurnFails, StopTurn
<1>2. tools'.queue = << >> /\ tools'.replayed = << >>
  BY <1>1 DEF NewTools
<1>3. Queues' /\ Classified'
  BY <1>1, <1>2, NewInOrder
<1>4. Batches'
  BY <1>1, BatchesKeep DEF OrderInv
<1>5. LedgersGoOn
  <2>1. \A c : Published(c)' <=> Published(c)
    BY <1>1 DEF Published, BatchOf
  <2>2. ~Feeding'
    BY <1>1 DEF Feeding, TurnInv, Typed, FeedTyped
  <2> QED BY <2>1, <2>2 DEF LedgersGoOn
<1> QED BY <1>3, <1>4, <1>5, LedgersKeep DEF OrderInv

\* The service gives up on a call.
LEMMA CloseInOrder ==
  ASSUME TurnInv, OrderInv, NEW c \in Calls, CloseCall(c)
  PROVE OrderInv'
<1>1. /\ remote' = [remote EXCEPT ![c].status = "closed"] /\ remote[c].status \in {"asked", "waiting"}
      /\ UNCHANGED <<log, over, feed, content, ledger, task, tools>>
  BY DEF CloseCall, feedvars
<1>2. CallsGoOn
  BY <1>1 DEF CallsGoOn, TurnInv, Typed, CallsTyped
<1>3. Feeding' => Feeding
  BY <1>1 DEF Feeding
<1>4. QueuesGoOn /\ ClassifiedGoOn
  BY <1>1 DEF QueuesGoOn, ClassifiedGoOn
<1> QED BY <1>1, <1>2, <1>3, <1>4, StepInOrder

\* A text, the end of the turn, a decision: none of them moves a call.
LEMMA QuietInOrder ==
  ASSUME TurnInv, OrderInv, TakeText \/ EndTurn \/ Decide
  PROVE OrderInv'
<1>1. UNCHANGED <<log, over, content, remote, ledger, tools>> /\ Feeding
  BY DEF TakeText, EndTurn, Decide, FeedNext, FeedEnd, toolvars, feedvars, Reading
<1>2. CallsGoOn
  BY <1>1 DEF CallsGoOn
<1>3. task'.worker = task.worker /\ (task'.consumer = task.consumer
        \/ /\ task'.consumer.todo = task.consumer.todo /\ task'.consumer.keep = task.consumer.keep
           /\ task'.consumer.at = "decided")
  <2>1. CASE TakeText \/ EndTurn
    BY <2>1 DEF TakeText, EndTurn, toolvars
  <2>2. CASE Decide
    <3>1. task' = [task EXCEPT !.consumer = [task.consumer EXCEPT !.at = "decided"]]
      BY <2>2 DEF Decide, Consumer
    <3>2. TasksTyped /\ task.consumer \in Consumers
      BY DEF TurnInv, Typed, TasksTyped
    <3> QED BY <3>1, <3>2, ConsumerAt DEF TasksTyped
  <2> QED BY <2>1, <2>2
<1>4. QueuesGoOn /\ ClassifiedGoOn
  BY <1>1, <1>3 DEF QueuesGoOn, ClassifiedGoOn
<1> QED BY <1>1, <1>2, <1>4, StepInOrder

\* The terminal event: nothing waits any more.
LEMMA TakeEndInOrder ==
  ASSUME TurnInv, OrderInv, TakeEnd
  PROVE OrderInv'
<1>1. /\ UNCHANGED <<log, over, content, remote, ledger>> /\ Feeding /\ task' = NewTasks
      /\ tools' = [tools EXCEPT !.queue = << >>] /\ content[feed'.cursor] = Terminal
  BY DEF TakeEnd, FeedNext, Reading
<1>2. feed'.cursor \in log
  BY NextEvent DEF TakeEnd, TurnInv, Typed
<1>3. over
  BY <1>1, <1>2 DEF TurnInv, Service
<1>4. Waiting' = {} /\ CallsGoOn
  BY <1>1, <1>3 DEF OrderInv, Batches, Waiting, CallsGoOn
<1>5. /\ task'.worker.call = None /\ task'.consumer.todo = << >> /\ task'.consumer.keep = << >>
      /\ task'.consumer.at = "read"
  BY <1>1, NewTasksFacts
<1>6. tools'.queue = << >> /\ tools'.replayed = tools.replayed
  BY <1>1 DEF TurnInv, Typed, TasksTyped
<1>7. QueuesGoOn /\ ClassifiedGoOn
  BY <1>4, <1>5, <1>6 DEF QueuesGoOn, ClassifiedGoOn
<1> QED BY <1>1, <1>4, <1>7, StepInOrder

\* The worker executes its call, or refuses it, and saves the result.
LEMMA WorkInOrder ==
  ASSUME TurnInv, OrderInv, Execute \/ Reject \/ ToolInterrupted \/ SaveResult
  PROVE OrderInv'
<1>1. UNCHANGED <<log, over, feed, content, remote, ledger, tools>>
  BY DEF Execute, Reject, ToolInterrupted, SaveResult, feedvars
<1>2. task'.worker.call = task.worker.call /\ task'.consumer = task.consumer
  <2>1. TasksTyped /\ task.worker \in Workers
    BY DEF TurnInv, Typed, TasksTyped
  <2>2. \E a, r : task' = [task EXCEPT !.worker = [task.worker EXCEPT !.at = a, !.result = r]]
                  \/ task' = [task EXCEPT !.worker = [task.worker EXCEPT !.at = a]]
    BY DEF Execute, Reject, ToolInterrupted, SaveResult, Worker
  <2> QED BY <2>1, <2>2 DEF TasksTyped, Workers
<1>3. CallsGoOn /\ (Feeding' => Feeding)
  BY <1>1 DEF CallsGoOn, Feeding
<1>4. QueuesGoOn /\ ClassifiedGoOn
  BY <1>1, <1>2 DEF QueuesGoOn, ClassifiedGoOn
<1> QED BY <1>1, <1>3, <1>4, StepInOrder

\* What the service has not waiting is not waited for by the worker.
LEMMA DeliverInOrder ==
  ASSUME TurnInv, OrderInv, NEW who \in {"worker", "consumer"},
         Post(who) \/ PostLost(who) \/ Query(who) \/ QueryFails(who)
  PROVE OrderInv'
<1> USE DEF OrderInv
<1>1. /\ TasksTyped /\ task.worker \in Workers /\ task.consumer \in Consumers
      /\ tools \in [target : Numbers, replayed : Seq(Calls), queue : Seq(Calls), aborted : BOOLEAN]
  BY DEF TurnInv, Typed, TasksTyped
<1>2. task[who].at \in {"post", "status"} /\ task[who].call \in Calls
  <2>1. task[who].at \in {"post", "status"}
    BY DEF Post, PostLost, Query, QueryFails, Delivering
  <2> QED BY <1>1, <2>1 DEF TasksTyped
<1>3. remote' \in {remote, Received(task[who].call)} /\ UNCHANGED <<content, ledger>>
  BY DEF Post, PostLost, Query, QueryFails
<1>4. CallsGoOn
  BY <1>2, <1>3, ReceivedFacts
<1>5. \/ Delivered(who) /\ task[who].call \notin Waiting'
      \/ ClosedError(who) \/ DeliveryFails(who)
      \/ task' = [task EXCEPT ![who].at = "post"] /\ UNCHANGED <<feedvars, tools, torn>>
      \/ task' = [task EXCEPT ![who].at = "status", ![who].try = @ + 1] /\ UNCHANGED <<feedvars, tools, torn>>
  <2>1. CASE Post(who)
    <3>1. remote' = Received(task[who].call)
      BY <2>1 DEF Post
    <3>2. task[who].call \notin Waiting'
      BY <1>2, <3>1 DEF Received, Waiting, TurnInv, Typed, CallsTyped
    <3> QED BY <2>1, <3>2 DEF Post
  <2>2. CASE PostLost(who)
    BY <2>2 DEF PostLost
  <2>3. CASE Query(who)
    BY <2>3 DEF Query, Waiting
  <2>4. CASE QueryFails(who)
    BY <2>4 DEF QueryFails
  <2> QED BY <2>1, <2>2, <2>3, <2>4
<1>6. CASE TurnFails
  BY <1>3, <1>4, <1>6, CallsGoOnFacts, FailInOrder
<1>7. ASSUME UNCHANGED feedvars, QueuesGoOn, ClassifiedGoOn
      PROVE OrderInv'
  <2>1. UNCHANGED <<log, over, feed>>
    BY <1>7 DEF feedvars
  <2> QED BY <1>3, <1>4, <1>7, <2>1, StepInOrder DEF Feeding
<1>8. CASE who = "worker"
  <2>1. ASSUME NEW w, task' = [task EXCEPT !.worker = w], w.call = task.worker.call \/ (w.call = None /\ task.worker.call \notin Waiting'),
               UNCHANGED <<feedvars, tools>>
        PROVE OrderInv'
    <3>1. task'.worker = w /\ task'.consumer = task.consumer
      BY <1>1, <2>1 DEF TasksTyped
    <3>2. QueuesGoOn /\ ClassifiedGoOn
      BY <2>1, <3>1 DEF QueuesGoOn, ClassifiedGoOn
    <3> QED BY <1>7, <2>1, <3>2
  <2>2. CASE Delivered(who) /\ task[who].call \notin Waiting'
    BY <1>8, <2>1, <2>2, NewTasksFacts DEF Delivered
  <2>3. ASSUME NEW a, task' = [task EXCEPT !.worker = [task.worker EXCEPT !.at = a]], UNCHANGED <<feedvars, tools>>
        PROVE OrderInv'
    <3>1. [task.worker EXCEPT !.at = a].call = task.worker.call
      BY <1>1 DEF Workers
    <3> QED BY <2>1, <2>3, <3>1
  <2>4. CASE ClosedError(who)
    BY <1>8, <2>3, <2>4 DEF ClosedError
  <2>5. CASE DeliveryFails(who)
    BY <1>8, <2>3, <2>5 DEF DeliveryFails
  <2>6. CASE task' = [task EXCEPT ![who].at = "post"] /\ UNCHANGED <<feedvars, tools, torn>>
    BY <1>8, <2>3, <2>6
  <2>7. CASE task' = [task EXCEPT ![who].at = "status", ![who].try = @ + 1] /\ UNCHANGED <<feedvars, tools, torn>>
    <3>1. task' = [task EXCEPT !.worker = [task.worker EXCEPT !.at = "status", !.try = @ + 1]]
      BY <1>8, <2>7
    <3>2. [task.worker EXCEPT !.at = "status", !.try = @ + 1].call = task.worker.call
      BY <1>1, WorkerTries
    <3> QED BY <2>1, <2>7, <3>1, <3>2
  <2> QED BY <1>5, <2>2, <2>4, <2>5, <2>6, <2>7
<1>9. CASE who = "consumer"
  <2>1. /\ task.consumer.todo # << >> /\ task.consumer.call = Head(task.consumer.todo)
        /\ task.consumer.at \in {"post", "status"}
    BY <1>1, <1>2, <1>9 DEF TasksTyped, Classified
  <2>2. ASSUME NEW t, task' = [task EXCEPT !.consumer = t], UNCHANGED <<log, over, feed, handed>>,
               tools'.queue = tools.queue, tools'.replayed = tools.replayed,
               \/ t = Reader
               \/ t.todo = task.consumer.todo /\ t.keep = task.consumer.keep /\ t.call = task.consumer.call
               \/ /\ task.consumer.call \notin Waiting' /\ t.at = "classify"
                  /\ t.todo = Tail(task.consumer.todo) /\ t.keep = task.consumer.keep
        PROVE OrderInv'
    <3>1. task'.consumer = t /\ task'.worker = task.worker
      BY <1>1, <2>2 DEF TasksTyped
    <3>2. QueuesGoOn
      BY <2>2, <3>1 DEF QueuesGoOn
    <3>3. ClassifiedGoOn
      BY <2>1, <2>2, <3>1, NewTasksFacts DEF ClassifiedGoOn
    <3> QED BY <1>7, <2>2, <3>2, <3>3 DEF feedvars
  <2>3. CASE Delivered(who) /\ task[who].call \notin Waiting'
    <3>1. task' = [task EXCEPT !.consumer = NextToDo(task.consumer)] /\ UNCHANGED <<log, over, feed, handed, tools>>
      BY <1>9, <2>3 DEF Delivered, feedvars
    <3>2. /\ NextToDo(task.consumer).at = "classify" /\ NextToDo(task.consumer).keep = task.consumer.keep
          /\ NextToDo(task.consumer).todo = Tail(task.consumer.todo)
      BY <1>1, <2>1, NextToDoFacts
    <3> QED BY <1>9, <2>2, <2>3, <3>1, <3>2
  <2>4. CASE ClosedError(who)
    <3>1. /\ task' = [task EXCEPT !.consumer = Reader] /\ UNCHANGED <<log, over, feed, handed>>
          /\ tools' = [tools EXCEPT !.aborted = TRUE]
      BY <1>9, <2>4 DEF ClosedError, feedvars
    <3>2. tools'.queue = tools.queue /\ tools'.replayed = tools.replayed
      BY <1>1, <3>1
    <3> QED BY <2>2, <3>1, <3>2
  <2>5. CASE DeliveryFails(who)
    BY <1>6, <1>9, <2>5 DEF DeliveryFails
  <2>6. CASE task' = [task EXCEPT ![who].at = "post"] /\ UNCHANGED <<feedvars, tools, torn>>
    <3>1. task' = [task EXCEPT !.consumer = [task.consumer EXCEPT !.at = "post"]] /\ UNCHANGED <<log, over, feed, handed, tools>>
      BY <1>9, <2>6 DEF feedvars
    <3> QED BY <1>1, <2>2, <3>1, ConsumerAt
  <2>7. CASE task' = [task EXCEPT ![who].at = "status", ![who].try = @ + 1] /\ UNCHANGED <<feedvars, tools, torn>>
    <3>1. /\ task' = [task EXCEPT !.consumer = [task.consumer EXCEPT !.at = "status", !.try = @ + 1]]
          /\ UNCHANGED <<log, over, feed, handed, tools>>
      BY <1>9, <2>7 DEF feedvars
    <3> QED BY <1>1, <2>2, <3>1, ConsumerTries
  <2> QED BY <1>5, <2>3, <2>4, <2>5, <2>6, <2>7
<1> QED BY <1>8, <1>9

\* The observation stops with an error, or the report of a decision is lost.
LEMMA FailuresInOrder ==
  ASSUME TurnInv, OrderInv, ClassifyFails \/ ReapWorker \/ Crash \/ ReportLost
  PROVE OrderInv'
<1>1. CASE ClassifyFails \/ ReapWorker \/ Crash
  <2>1. TurnFails /\ UNCHANGED <<content, remote, ledger>>
    BY <1>1 DEF ClassifyFails, ReapWorker, Crash
  <2> QED BY <2>1, FailInOrder DEF Waiting
<1>2. CASE ReportLost
  <2>1. PICK c \in Calls : c = task.consumer.call
    BY <1>2 DEF ReportLost, TurnInv, Typed, TasksTyped, Approves
  <2>2. /\ TurnFails /\ UNCHANGED <<content, decided>> /\ remote' \in {remote, Settled(c)}
        /\ task.consumer.at = "decided" /\ ledger' = [ledger EXCEPT ![c] = "unknown"]
    BY <1>2, <2>1 DEF ReportLost
  <2>3. UNCHANGED <<log, over>> /\ Asking(c)
    BY <2>1, <2>2 DEF TurnFails, StopTurn, Asking, Approves
  <2>4. \A d \in Calls : ledger'[d] \in {ledger[d], "unknown"}
    BY <2>2 DEF TurnInv, Typed, CallsTyped
  <2>5. remote' = remote \/ (remote[c].status = "asked"
           /\ remote' = [remote EXCEPT ![c].status = "settled", ![c].approval = decided[c]])
    BY <2>2 DEF Settled
  <2>6. \A d \in Calls : remote'[d] = remote[d] \/ (remote[d].status = "asked" /\ remote'[d].status = "settled")
    BY <2>5 DEF TurnInv, Typed, CallsTyped
  <2>7. \A d \in Calls : remote[d].approval = "decline" => remote'[d].approval = "decline"
    BY <2>6 DEF TurnInv, Declined
  <2> QED BY <2>2, <2>4, <2>6, <2>7, FailInOrder DEF Waiting
<1> QED BY <1>1, <1>2

\* A new observation begins with nothing.
LEMMA ObserveInOrder ==
  ASSUME TurnInv, OrderInv, Observe
  PROVE OrderInv'
<1>1. /\ UNCHANGED <<log, over, content, remote>> /\ task' = NewTasks
      /\ tools' = NewTools(LastSeq(log)) /\ ledger' = [c \in Calls |-> "unknown"]
  BY DEF Observe
<1>2. Queues' /\ Classified'
  BY <1>1, NewInOrder DEF NewTools
<1>3. Batches'
  BY <1>1, BatchesKeep DEF OrderInv, Waiting
<1>4. Ledgers'
  BY <1>1 DEF Ledgers
<1> QED BY <1>2, <1>3, <1>4 DEF OrderInv

\* To ask about a call, or not, moves none.
LEMMA AskingInOrder ==
  ASSUME TurnInv, tools' = tools,
         \/ UNCHANGED task
         \/ \E c \in Calls : task' = [task EXCEPT !.consumer = [Reader EXCEPT !.at = "ask", !.call = c]]
  PROVE QueuesGoOn /\ ClassifiedGoOn /\ task'.worker = task.worker
<1>1. CASE UNCHANGED task
  BY <1>1 DEF QueuesGoOn, ClassifiedGoOn
<1>2. CASE \E c \in Calls : task' = [task EXCEPT !.consumer = [Reader EXCEPT !.at = "ask", !.call = c]]
  <2>1. PICK c \in Calls : task' = [task EXCEPT !.consumer = [Reader EXCEPT !.at = "ask", !.call = c]]
    BY <1>2
  <2> DEFINE t == [Reader EXCEPT !.at = "ask", !.call = c]
  <2>2. t.todo = << >> /\ t.keep = << >> /\ t.at = "ask"
    BY DEF Reader
  <2> HIDE DEF t
  <2>3. task' = [task EXCEPT !.consumer = t]
    BY <2>1 DEF t
  <2>4. task'.worker = task.worker /\ task'.consumer = t
    BY <2>3 DEF TurnInv, Typed, TasksTyped
  <2> QED BY <2>2, <2>4 DEF QueuesGoOn, ClassifiedGoOn
<1> QED BY <1>1, <1>2

\* The approval snapshot: what it makes terminal is closed or declined.
LEMMA ReconnectInOrder ==
  ASSUME TurnInv, OrderInv, Reconnect
  PROVE OrderInv'
<1>1. /\ UNCHANGED <<log, over, content, remote, tools>> /\ Feeding
      /\ ledger' = [c \in Calls |->
           CASE remote[c].approval = "accept" -> "approved"
             [] remote[c].approval = "decline" -> "terminal"
             [] c \in Asks /\ remote[c].status = "closed" -> "terminal"
             [] OTHER -> ledger[c]]
      /\ \/ UNCHANGED task
         \/ \E c \in Calls : task' = [task EXCEPT !.consumer = [Reader EXCEPT !.at = "ask", !.call = c]]
  BY DEF Reconnect, Reading, FeedReplay, Consumer
<1>2. task'.worker = task.worker /\ QueuesGoOn /\ ClassifiedGoOn
  BY <1>1, AskingInOrder
<1>3. \A c \in Calls : ledger'[c] = "terminal" => ledger[c] = "terminal"
        \/ remote[c].approval = "decline" \/ (c \in Asks /\ remote[c].status = "closed")
  BY <1>1
<1>4. LedgersGoOn
  <2>1. \A c \in Calls : remote[c].approval = "decline" => c \in Asks
    BY DEF TurnInv, Declined
  <2>2. \A c \in Calls : ledger'[c] = "consumed" => ledger[c] = "consumed"
    BY <1>1
  <2>3. \A c : Published(c)' <=> Published(c)
    BY <1>1 DEF Published, BatchOf
  <2>4. \A c \in Calls : c \in Waiting' => c \in Waiting
    BY <1>1 DEF Waiting
  <2> QED BY <1>1, <1>2, <1>3, <2>1, <2>2, <2>3, <2>4 DEF LedgersGoOn
<1> QED BY <1>1, <1>2, <1>4, OrderKeeps DEF Waiting

\* A call that is no longer pending and was not accepted is closed or declined.
LEMMA NotPendingFacts ==
  ASSUME TurnInv, NEW c \in Asks, remote[c].status \notin {"none", "asked"}, remote[c].approval # "accept"
  PROVE remote[c].status = "closed" \/ remote[c].approval = "decline"
<1>1. c \in Calls
  BY AsksAreCalls
<1>2. remote[c].status \in Statuses /\ remote[c].approval \in Decisions
  BY <1>1 DEF TurnInv, Typed, CallsTyped
<1>3. remote[c].status \in {"settled", "waiting", "received"} => remote[c].approval # "none"
  BY DEF TurnInv, Declined
<1> QED BY <1>2, <1>3 DEF Statuses, Decisions

\* A replayed request may say that its call is closed or declined.
LEMMA TakeAskInOrder ==
  ASSUME TurnInv, OrderInv, TakeAsk
  PROVE OrderInv'
<1>1. /\ UNCHANGED <<log, over, content, remote, tools>> /\ Feeding
      /\ content[feed'.cursor].kind = "ask"
  BY DEF TakeAsk, FeedNext, Reading
<1>2. Next(feed'.cursor) /\ feed'.cursor \in log
  BY NextEvent DEF TakeAsk, TurnInv, Typed
<1>3. PICK c \in Asks : c = content[feed'.cursor].calls[1]
  BY <1>1, <1>2 DEF TurnInv, Service
<1>4. c \in Calls /\ remote[c].status # "none"
  <2>1. AskOf(c, feed'.cursor) /\ c \in Calls
    BY <1>1, <1>2, <1>3, AsksAreCalls DEF AskOf
  <2> QED BY <1>2, <2>1 DEF TurnInv, Service
<1>5. \/ UNCHANGED <<task, ledger>>
      \/ task' = [task EXCEPT !.consumer = [Reader EXCEPT !.at = "ask", !.call = c]] /\ UNCHANGED ledger
      \/ /\ remote[c].status # "asked" /\ UNCHANGED task
         /\ ledger' = [ledger EXCEPT ![c] = IF remote[c].approval = "accept" THEN "approved" ELSE "terminal"]
  BY <1>3 DEF TakeAsk, Consumer
<1>6. task'.worker = task.worker /\ QueuesGoOn /\ ClassifiedGoOn
  BY <1>1, <1>4, <1>5, AskingInOrder
<1>7. LedgersGoOn
  <2>1. \A d \in Calls : ledger'[d] = ledger[d]
          \/ (d = c /\ remote[c].status # "asked" /\ (ledger'[d] = "approved" \/ (ledger'[d] = "terminal" /\ remote[c].approval # "accept")))
    BY <1>4, <1>5 DEF TurnInv, Typed, CallsTyped
  <2>2. remote[c].status # "asked" /\ remote[c].approval # "accept" =>
          remote[c].status = "closed" \/ remote[c].approval = "decline"
    BY <1>4, NotPendingFacts
  <2>3. \A d : Published(d)' <=> Published(d)
    BY <1>1 DEF Published, BatchOf
  <2>4. \A d \in Calls : d \in Waiting' => d \in Waiting
    BY <1>1 DEF Waiting
  <2> QED BY <1>1, <1>6, <2>1, <2>2, <2>3, <2>4 DEF LedgersGoOn
<1> QED BY <1>1, <1>6, <1>7, OrderKeeps DEF Waiting

\* What the report closes here is closed or declined at the service.
LEMMA ReportInOrder ==
  ASSUME TurnInv, OrderInv, ReportDecision
  PROVE OrderInv'
<1>1. PICK c \in Calls : c = task.consumer.call
  BY DEF ReportDecision, TurnInv, Typed, TasksTyped, Approves
<1>2. /\ Feeding /\ task.consumer.at = "decided" /\ task' = [task EXCEPT !.consumer = Reader]
      /\ remote' = Settled(c)
      /\ ledger' = IF NotPending(c) THEN [ledger EXCEPT ![c] = "terminal"] ELSE RecordDecision(c, decided[c])
      /\ UNCHANGED <<log, over, feed, content, decided, tools>>
  BY <1>1 DEF ReportDecision, Consumer, feedvars
<1>3. Asking(c) /\ c \in Asks /\ remote[c].status # "none" /\ decided[c] \in {"accept", "decline"}
  <2>1. Asking(c)
    BY <1>1, <1>2 DEF Asking, Approves
  <2>2. decided[c] # "none" /\ decided[c] \in Decisions
    BY <1>1, <1>2 DEF TurnInv, Declined, Typed, CallsTyped
  <2> QED BY <2>1, <2>2 DEF TurnInv, Declined, Decisions
<1>4. /\ remote[c].status = "asked" => remote' = [remote EXCEPT ![c].status = "settled", ![c].approval = decided[c]]
      /\ remote[c].status # "asked" => remote' = remote
  BY <1>2 DEF Settled
<1>5. /\ remote[c].status = "asked" => remote'[c].status = "settled" /\ remote'[c].approval = decided[c]
      /\ remote[c].status # "asked" => remote'[c] = remote[c]
      /\ \A d \in Calls : d # c => remote'[d] = remote[d]
  BY <1>4 DEF TurnInv, Typed, CallsTyped
<1>6. /\ \A d \in Calls : d # c => ledger'[d] = ledger[d]
      /\ ledger'[c] = "approved" \/ (ledger'[c] = "terminal" /\ (NotPending(c) \/ decided[c] = "decline"))
  BY <1>2, <1>3 DEF RecordDecision, TurnInv, Typed, CallsTyped
<1>7. ledger'[c] = "terminal" => remote'[c].status = "closed" \/ remote'[c].approval = "decline"
  <2>1. CASE remote[c].status = "asked"
    BY <1>3, <1>5, <1>6, <2>1 DEF NotPending
  <2>2. CASE NotPending(c)
    BY <1>5, <2>2 DEF NotPending
  <2>3. CASE remote[c].status # "asked" /\ decided[c] = "decline"
    <3>1. remote[c].approval # "accept"
      BY <2>3 DEF TurnInv, Declined
    <3> QED BY <1>3, <1>5, <2>3, <3>1, NotPendingFacts
  <2> QED BY <1>6, <2>1, <2>2, <2>3
<1>8. \A d \in Calls : remote[d].approval = "decline" => remote'[d].approval = "decline"
  <2>1. remote[c].status = "asked" => remote[c].approval = "none"
    BY DEF TurnInv, Declined
  <2> QED BY <1>5, <2>1
<1>9. /\ Waiting' \subseteq Waiting
      /\ \A d \in Calls : remote[d].status = "closed" => remote'[d].status = "closed"
  BY <1>5 DEF Waiting
<1>10. task'.worker = task.worker /\ task'.consumer = Reader
  BY <1>2 DEF TurnInv, Typed, TasksTyped
<1>11. QueuesGoOn /\ ClassifiedGoOn
  BY <1>2, <1>10, NewTasksFacts DEF QueuesGoOn, ClassifiedGoOn
<1>12. LedgersGoOn
  <2>1. \A d : Published(d)' <=> Published(d)
    BY <1>2 DEF Published, BatchOf
  <2>2. /\ \A d \in Calls : ledger'[d] = "terminal" => ledger[d] = "terminal"
             \/ (d \in Asks /\ (remote'[d].status = "closed" \/ remote'[d].approval = "decline"))
        /\ \A d \in Calls : ledger'[d] = "consumed" => ledger[d] = "consumed"
    BY <1>3, <1>6, <1>7
  <2> QED BY <1>2, <1>8, <1>9, <1>10, <2>1, <2>2 DEF LedgersGoOn
<1> QED BY <1>2, <1>9, <1>11, <1>12, OrderKeeps

\* The calls of a batch wait only behind calls of the same batch.
LEMMA OwnBatch ==
  ASSUME TurnInv, Batches, NEW n \in log, content[n].kind = "batch"
  PROVE content[n].calls \in Seq(Calls) /\ InLine(Overdue, {}, content[n].calls)
<1> DEFINE cs == content[n].calls
<1>1. cs \in Seq(Calls) /\ IsInjective(cs) /\ log \in SUBSET Int
  BY DEF TurnInv, Typed, FeedTyped, Event, Service
<1>2. InLine(Overdue, {}, cs)
  <2> SUFFICES ASSUME NEW j \in DOMAIN cs, NEW c \in Calls, <<c, cs[j]>> \in Overdue
               PROVE \E i \in DOMAIN cs : i < j /\ cs[i] = c
    BY DEF InLine
  <2> DEFINE d == cs[j]
  <2>1. c \in Waiting /\ Precedes(c, d) /\ d \in Calls /\ d \in Range(cs)
    BY <1>1 DEF Overdue, Range
  <2>2. PICK e \in log, f \in log : \E i \in DOMAIN content[e].calls, k \in DOMAIN content[f].calls :
           /\ content[e].kind = "batch" /\ content[e].calls[i] = c
           /\ content[f].kind = "batch" /\ content[f].calls[k] = d
           /\ e < f \/ (e = f /\ i < k)
    BY <2>1 DEF Precedes
  <2>3. BatchOf(c, e) /\ BatchOf(d, f) /\ BatchOf(d, n) /\ content[f].kind = "batch"
    <3>1. c \in Range(content[e].calls) /\ d \in Range(content[f].calls)
      BY <2>2 DEF Range
    <3> QED BY <2>1, <2>2, <3>1 DEF BatchOf
  <2>4. f = n
    BY <2>1, <2>3 DEF TurnInv, Service
  <2>5. f <= e
    BY <2>1, <2>3 DEF Batches
  <2>6. e = n
    BY <1>1, <2>2, <2>4, <2>5
  <2>7. PICK i \in DOMAIN cs, k \in DOMAIN cs : cs[i] = c /\ cs[k] = cs[j] /\ (n < n \/ i < k)
    BY <2>2, <2>4, <2>6
  <2>8. k = j
    BY <1>1, <2>7 DEF IsInjective
  <2> QED BY <1>1, <2>7, <2>8
<1> QED BY <1>1, <1>2

\* A batch goes to the end of the queue, or of what is replayed.
LEMMA TakeBatchInOrder ==
  ASSUME TurnInv, OrderInv, TakeBatch
  PROVE OrderInv'
<1> USE DEF OrderInv
<1>1. /\ UNCHANGED <<log, over, content, remote, task, ledger>> /\ Feeding /\ Feeding'
      /\ content[feed'.cursor].kind = "batch"
      /\ LET cs == content[feed'.cursor].calls IN
           \/ tools' = [tools EXCEPT !.replayed = @ \o cs]
           \/ tools' = [tools EXCEPT !.queue = @ \o cs]
  <2>1. Next(feed'.cursor)
    BY NextEvent DEF TakeBatch, TurnInv, Typed
  <2> QED BY <2>1 DEF TakeBatch, FeedNext, Reading, Next, Feeding
<1>2. feed'.cursor \in log
  BY NextEvent DEF TakeBatch, TurnInv, Typed
<1>3. PICK cs : cs = content[feed'.cursor].calls
  OBVIOUS
<1>4. cs \in Seq(Calls) /\ InLine(Overdue, {}, cs)
  BY <1>1, <1>2, <1>3, OwnBatch
<1>5. tools.replayed \in Seq(Calls) /\ tools.queue \in Seq(Calls)
  BY LineFacts
<1>6. Overdue' = Overdue /\ Waiting' = Waiting
  BY <1>1, OverdueShrinks DEF Waiting, Overdue, Precedes
<1>7. InLine(Overdue, {}, tools.replayed \o cs)
  BY <1>4, <1>5, InLineConcat DEF Queues
<1>8. InLine(Overdue, {task.worker.call}, tools.queue \o cs)
  <2>1. InLine(Overdue, {task.worker.call}, cs)
    BY <1>4, InLineKeeps
  <2> QED BY <1>4, <1>5, <2>1, InLineConcat DEF Queues
<1>9. \/ tools'.replayed = tools.replayed \o cs /\ tools'.queue = tools.queue
      \/ tools'.replayed = tools.replayed /\ tools'.queue = tools.queue \o cs
  BY <1>1, <1>3 DEF TurnInv, Typed, TasksTyped
<1>10. Queues'
  BY <1>1, <1>6, <1>7, <1>8, <1>9 DEF Queues
<1>11. Classified'
  BY <1>1, <1>6 DEF Classified
<1>12. Batches'
  BY <1>1, <1>6, BatchesKeep
<1>13. Ledgers'
  BY <1>1, <1>6 DEF Ledgers, Published, BatchOf
<1> QED BY <1>10, <1>11, <1>12, <1>13

\* A step that moves calls between the queues, with the service and the ledger as before.
LEMMA MoveInOrder ==
  ASSUME TurnInv, OrderInv, UNCHANGED <<log, over, content, remote>>,
         \A c \in Calls : ledger'[c] = "terminal" => ledger[c] = "terminal",
         \A c \in Calls : ledger'[c] = "consumed" =>
           Published(c) /\ (Feeding' /\ c \in Waiting => task'.worker.call = c),
         Overdue' = Overdue => Queues' /\ Classified'
  PROVE OrderInv'
<1>1. Overdue' = Overdue /\ Waiting' = Waiting
  BY DEF Waiting, Overdue, Precedes
<1>2. Batches'
  BY <1>1, BatchesKeep DEF OrderInv
<1>3. \A c : Published(c)' <=> Published(c)
  BY DEF Published, BatchOf
<1>4. Ledgers'
  BY <1>1, <1>3 DEF OrderInv, Ledgers
<1> QED BY <1>1, <1>2, <1>4 DEF OrderInv

\* What was replayed is classified in its order.
LEMMA CatchUpInOrder ==
  ASSUME TurnInv, OrderInv, CatchUp
  PROVE OrderInv'
<1> USE DEF OrderInv
<1> DEFINE t == [Reader EXCEPT !.at = "classify", !.todo = tools.replayed]
<1>1. /\ UNCHANGED <<log, over, content, remote, ledger, tools>> /\ Feeding
      /\ task' = [task EXCEPT !.consumer = t]
  BY DEF CatchUp, FeedCatchUp, Reading, Consumer
<1>2. t.at = "classify" /\ t.todo = tools.replayed /\ t.keep = << >>
  BY DEF Reader
<1> HIDE DEF t
<1>3. task'.consumer = t /\ task'.worker = task.worker
  BY <1>1 DEF TurnInv, Typed, TasksTyped
<1>4. ASSUME Overdue' = Overdue PROVE Queues' /\ Classified'
  <2>1. Range(<< >>) = {}
    BY RangeEmpty
  <2>2. Queues'
    BY <1>1, <1>3, <1>4 DEF Queues
  <2>3. InLine(Overdue, {}, << >>) /\ InLine(Overdue, Range(t.keep), t.todo)
    BY <1>2, <2>1, InLineEmpty DEF Queues
  <2> QED BY <1>2, <1>3, <1>4, <2>2, <2>3 DEF Classified
<1>5. \A c \in Calls : ledger'[c] = "consumed" =>
        Published(c) /\ (Feeding' /\ c \in Waiting => task'.worker.call = c)
  BY <1>1, <1>3 DEF Ledgers
<1> QED BY <1>1, <1>4, <1>5, MoveInOrder

\* A call that is skipped does not wait; one that is kept comes after those kept before.
LEMMA ClassifyInOrder ==
  ASSUME TurnInv, OrderInv, Classify
  PROVE OrderInv'
<1> USE DEF OrderInv
<1> DEFINE c == Head(task.consumer.todo)
           n == NextToDo(task.consumer)
           kept == Append(task.consumer.keep, c)
           t == [n EXCEPT !.keep = kept]
           p == [task.consumer EXCEPT !.at = "post", !.call = c, !.try = 0]
<1>1. /\ Feeding /\ task.consumer.todo # << >>
      /\ \/ remote[c].status # "waiting" /\ task' = [task EXCEPT !.consumer = n]
         \/ task' = [task EXCEPT !.consumer = [NextToDo(task.consumer) EXCEPT !.keep = Append(@, c)]]
         \/ task' = [task EXCEPT !.consumer = p]
      /\ UNCHANGED <<log, over, feed, content, remote, ledger, tools>>
  BY DEF Classify, Classifying, Consumer, feedvars, ReplayAction
<1>2. TasksTyped /\ task.consumer \in Consumers
  BY DEF TurnInv, Typed, TasksTyped
<1>3. /\ n \in Consumers /\ n.at = "classify" /\ n.keep = task.consumer.keep
      /\ n.todo = Tail(task.consumer.todo) /\ c \in Calls /\ Tail(task.consumer.todo) \in Seq(Calls)
  BY <1>1, <1>2, NextToDoFacts
<1>4. CallsGoOn /\ (Feeding' => Feeding)
  BY <1>1 DEF CallsGoOn
<1>5. CASE remote[c].status # "waiting" /\ task' = [task EXCEPT !.consumer = n]
  <2> HIDE DEF n, c
  <2>1. task'.consumer = n /\ task'.worker = task.worker
    BY <1>2, <1>5 DEF TasksTyped
  <2>2. Head(task.consumer.todo) \notin Waiting'
    BY <1>1, <1>5 DEF Waiting, c
  <2>3. QueuesGoOn /\ ClassifiedGoOn
    BY <1>1, <1>3, <2>1, <2>2 DEF QueuesGoOn, ClassifiedGoOn
  <2> QED BY <1>1, <1>4, <2>3, StepInOrder
<1>6. ASSUME NEW new, task' = [task EXCEPT !.consumer = new],
             InLine(Overdue, {}, new.keep), InLine(Overdue, Range(new.keep), new.todo),
             new.at \in {"post", "status"} => new.call = Head(new.todo)
      PROVE OrderInv'
  <2>1. task'.consumer = new /\ task'.worker = task.worker
    BY <1>2, <1>6 DEF TasksTyped
  <2>2. ASSUME Overdue' = Overdue PROVE Queues' /\ Classified'
    BY <1>1, <1>6, <2>1, <2>2 DEF Queues, Classified
  <2>3. \A d \in Calls : ledger'[d] = "consumed" =>
          Published(d) /\ (Feeding' /\ d \in Waiting => task'.worker.call = d)
    BY <1>1, <1>4, <2>1 DEF Ledgers
  <2> QED BY <1>1, <2>2, <2>3, MoveInOrder
<1>7. CASE task' = [task EXCEPT !.consumer = p]
  <2> HIDE DEF c
  <2>1. p.at = "post" /\ p.call = c /\ p.todo = task.consumer.todo /\ p.keep = task.consumer.keep
    BY <1>2 DEF Consumers
  <2>2. p.call = Head(p.todo)
    BY <2>1 DEF c
  <2> HIDE DEF p
  <2> QED BY <1>6, <1>7, <2>1, <2>2 DEF Classified
<1>8. CASE task' = [task EXCEPT !.consumer = [NextToDo(task.consumer) EXCEPT !.keep = Append(@, c)]]
  <2>1. task.consumer.keep \in Seq(Calls) /\ task.consumer.todo \in Seq(Calls) /\ task.consumer.todo # << >>
    BY <1>1, LineFacts
  <2>2. /\ \A d \in Calls : <<d, c>> \in Overdue => d \in Range(task.consumer.keep)
        /\ InLine(Overdue, Range(task.consumer.keep) \cup {c}, n.todo)
    BY <1>3, <2>1, InLineTail DEF Classified
  <2> HIDE DEF c
  <2>3. kept \in Seq(Calls) /\ Range(kept) = Range(task.consumer.keep) \cup {c}
    BY <1>3, <2>1, RangeAppend
  <2>4. InLine(Overdue, {}, kept)
    BY <1>3, <2>1, <2>2, InLineAppend DEF Classified
  <2>5. task' = [task EXCEPT !.consumer = t]
    BY <1>3, <1>8
  <2> HIDE DEF kept, n
  <2>6. t.at = "classify" /\ t.todo = n.todo /\ t.keep = kept
    BY <1>3 DEF Consumers
  <2> HIDE DEF t
  <2> QED BY <1>6, <2>2, <2>3, <2>4, <2>5, <2>6
<1> QED BY <1>1, <1>5, <1>7, <1>8

\* What still waits is queued behind what is queued.
LEMMA RecoveryInOrder ==
  ASSUME TurnInv, OrderInv, ExecuteRecovery
  PROVE OrderInv'
<1> USE DEF OrderInv
<1> DEFINE s == tools.queue \o task.consumer.keep
<1>1. /\ Feeding /\ task' = [task EXCEPT !.consumer = Reader]
      /\ tools' = [tools EXCEPT !.target = None, !.replayed = << >>, !.aborted = FALSE,
                                !.queue = @ \o task.consumer.keep]
      /\ UNCHANGED <<log, over, feed, content, remote, ledger>>
  BY DEF ExecuteRecovery, Classifying, Consumer, feedvars
<1>2. /\ TasksTyped /\ tools \in [target : Numbers, replayed : Seq(Calls), queue : Seq(Calls), aborted : BOOLEAN]
      /\ tools.queue \in Seq(Calls) /\ task.consumer.keep \in Seq(Calls)
  BY LineFacts DEF TurnInv, Typed, TasksTyped
<1>3. InLine(Overdue, {task.worker.call}, s)
  <2>1. InLine(Overdue, {task.worker.call}, task.consumer.keep)
    BY <1>2, InLineKeeps DEF Classified
  <2> QED BY <1>2, <2>1, InLineConcat DEF Queues
<1> HIDE DEF s
<1>4. tools'.queue = s /\ tools'.replayed = << >>
  BY <1>1, <1>2 DEF s
<1>5. task'.worker = task.worker /\ task'.consumer = Reader
  BY <1>1, <1>2 DEF TasksTyped
<1>6. ASSUME Overdue' = Overdue PROVE Queues' /\ Classified'
  <2>1. Queues'
    BY <1>3, <1>4, <1>5, <1>6, InLineEmpty DEF Queues
  <2>2. Classified'
    BY <1>5, NewTasksFacts, InLineEmpty DEF Classified
  <2> QED BY <2>1, <2>2
<1>7. \A c \in Calls : ledger'[c] = "consumed" =>
        Published(c) /\ (Feeding' /\ c \in Waiting => task'.worker.call = c)
  BY <1>1, <1>5 DEF Ledgers
<1> QED BY <1>1, <1>6, <1>7, MoveInOrder

\* The worker takes the first call of the queue, or drops one that does not wait.
LEMMA StartInOrder ==
  ASSUME TurnInv, OrderInv, StartCall
  PROVE OrderInv'
<1> USE DEF OrderInv
<1> DEFINE c == Head(tools.queue)
           w == [IdleWorker EXCEPT !.at = "run", !.call = c]
<1>1. /\ Feeding /\ task.worker.at = "idle" /\ tools.queue # << >>
      /\ \/ ledger[c] \in {"consumed", "terminal"} /\ UNCHANGED <<task, ledger>>
         \/ task' = [task EXCEPT !.worker = w] /\ ledger' = [ledger EXCEPT ![c] = "consumed"]
      /\ tools' = [tools EXCEPT !.queue = Tail(@)]
      /\ UNCHANGED <<log, over, feed, content, remote>>
  BY DEF StartCall, Worker, feedvars
<1>2. TasksTyped /\ tools.queue \in Seq(Calls) /\ task.worker.call = None
  BY <1>1 DEF TurnInv, Typed, TasksTyped, Placed
<1>3. c \in Calls /\ Tail(tools.queue) \in Seq(Calls) /\ Range(tools.queue) = {c} \cup Range(Tail(tools.queue))
  BY <1>1, <1>2, RangeTail
<1>4. /\ \A d \in Calls : <<d, c>> \in Overdue => d = None
      /\ InLine(Overdue, {None, c}, Tail(tools.queue))
  <2>1. /\ \A d \in Calls : <<d, c>> \in Overdue => d \in {None}
        /\ InLine(Overdue, {None} \cup {c}, Tail(tools.queue))
    BY <1>1, <1>2, InLineTail DEF Queues
  <2>2. {None} \cup {c} = {None, c}
    OBVIOUS
  <2> QED BY <2>1, <2>2
<1>5. tools'.queue = Tail(tools.queue) /\ tools'.replayed = tools.replayed
  BY <1>1, <1>2 DEF TasksTyped
<1> HIDE DEF c
<1>6. CASE ledger[c] \in {"consumed", "terminal"} /\ UNCHANGED <<task, ledger>>
  <2>1. c \notin Waiting
    <3>1. ledger[c] = "consumed" => c \notin Waiting
      BY <1>1, <1>2, <1>3, CallsAssumption DEF Ledgers
    <3>2. ledger[c] = "terminal" => c \notin Waiting
      BY <1>3 DEF Ledgers, Waiting, TurnInv, Declined
    <3> QED BY <1>6, <3>1, <3>2
  <2>2. InLine(Overdue, {None}, Tail(tools.queue))
    <3>1. \A d \in Calls, e \in Range(Tail(tools.queue)) :
            <<d, e>> \in Overdue => <<d, e>> \in Overdue /\ (d \in {None, c} => d \in {None})
      BY <2>1 DEF Overdue
    <3> HIDE DEF Overdue
    <3> QED BY <1>3, <1>4, <3>1, InLineKeeps
  <2>3. ASSUME Overdue' = Overdue PROVE Queues' /\ Classified'
    BY <1>2, <1>5, <1>6, <2>2, <2>3 DEF Queues, Classified
  <2>4. \A d \in Calls : ledger'[d] = "consumed" =>
          Published(d) /\ (Feeding' /\ d \in Waiting => task'.worker.call = d)
    BY <1>1, <1>6 DEF Ledgers
  <2> QED BY <1>1, <1>6, <2>3, <2>4, MoveInOrder
<1>7. CASE task' = [task EXCEPT !.worker = w] /\ ledger' = [ledger EXCEPT ![c] = "consumed"]
  <2>1. w.call = c
    BY DEF IdleWorker
  <2> HIDE DEF w
  <2>2. task'.worker.call = c /\ task'.consumer = task.consumer
    BY <1>2, <1>7, <2>1 DEF TasksTyped
  <2>3. InLine(Overdue, {c}, Tail(tools.queue))
    <3>1. \A d \in Calls, e \in Range(Tail(tools.queue)) :
            <<d, e>> \in Overdue => <<d, e>> \in Overdue /\ (d \in {None, c} => d \in {c})
      BY CallsAssumption
    <3> QED BY <1>3, <1>4, <3>1, InLineKeeps
  <2>4. \A d \in Calls : <<d, c>> \notin Overdue
    BY <1>4, CallsAssumption
  <2>5. ASSUME Overdue' = Overdue PROVE Queues' /\ Classified'
    BY <1>5, <2>2, <2>3, <2>4, <2>5 DEF Queues, Classified
  <2>6. Published(c)
    <3>1. Given(c)
      BY <1>3 DEF TurnInv, Placed
    <3> QED BY <3>1 DEF Given, Published
  <2>7. \A d \in Calls : ledger'[d] = IF d = c THEN "consumed" ELSE ledger[d]
    BY <1>7 DEF TurnInv, Typed, CallsTyped
  <2>8. \A d \in Calls : ledger'[d] = "consumed" =>
          Published(d) /\ (Feeding' /\ d \in Waiting => task'.worker.call = d)
    <3>1. \A d \in Calls : d # c /\ ledger[d] = "consumed" => Published(d) /\ d \notin Waiting
      BY <1>1, <1>2, CallsAssumption DEF Ledgers
    <3> QED BY <2>2, <2>6, <2>7, <3>1
  <2>9. \A d \in Calls : ledger'[d] = "terminal" => ledger[d] = "terminal"
    BY <2>7
  <2> QED BY <1>1, <2>5, <2>8, <2>9, MoveInOrder
<1> QED BY <1>1, <1>6, <1>7

\* The order is kept by every step of the specification.
LEMMA EveryStepInOrder ==
  ASSUME TurnInv, OrderInv, TurnNext
  PROVE OrderInv'
<1>1. CASE ConsumerStep
  BY <1>1, QuietInOrder, TakeAskInOrder, TakeBatchInOrder, TakeEndInOrder, ReportInOrder, CatchUpInOrder,
     ClassifyInOrder, RecoveryInOrder, FailuresInOrder, DeliverInOrder, ObserveInOrder
     DEF ConsumerStep, Takes, Approving, Catching, Delivers
<1>2. CASE WorkerStep
  BY <1>2, StartInOrder, WorkInOrder, DeliverInOrder DEF WorkerStep, Delivers
<1>3. CASE ServiceStep
  <2>1. CASE PublishText \/ PublishAsk \/ PublishBatch \/ PublishEnd
    <3>1. TurnInv' /\ Brought
      BY <2>1, TextKeeps, AskKeeps, BatchKeeps, EndKeeps
    <3> QED BY <3>1, PublishOrder
  <2> QED BY <1>3, <2>1, CloseInOrder DEF ServiceStep
<1>4. CASE TroubleStep
  BY <1>4, ReconnectInOrder, FailuresInOrder, WorkInOrder, DeliverInOrder DEF TroubleStep
<1> QED BY <1>1, <1>2, <1>3, <1>4 DEF TurnNext

\* It is kept when nothing changes.
LEMMA StutterInOrder ==
  ASSUME TurnInv, OrderInv, UNCHANGED turnvars
  PROVE OrderInv'
<1>1. UNCHANGED <<log, over, feed, content, remote, ledger, task, tools>>
  BY DEF turnvars, toolvars, feedvars
<1>2. CallsGoOn /\ (Feeding' => Feeding) /\ QueuesGoOn /\ ClassifiedGoOn
  BY <1>1 DEF CallsGoOn, Feeding, QueuesGoOn, ClassifiedGoOn
<1> QED BY <1>1, <1>2, StepInOrder

\* Nothing waits in the beginning.
LEMMA InitInOrder ==
  ASSUME TurnInit
  PROVE OrderInv
<1>1. /\ log = {} /\ over = FALSE /\ remote = [c \in Calls |-> NewCall] /\ task = NewTasks
      /\ tools = NewTools(None) /\ ledger = [c \in Calls |-> "unknown"]
  BY DEF TurnInit
<1>2. Waiting = {} /\ Overdue = {}
  BY <1>1 DEF Waiting, Overdue, NewCall
<1>3. Batches
  BY <1>1 DEF Batches
<1>4. tools.queue = << >> /\ tools.replayed = << >>
  BY <1>1 DEF NewTools
<1>5. Queues /\ Classified
  BY <1>1, <1>2, <1>4, NewTasksFacts, InLineEmpty DEF Queues, Classified
<1>6. Ledgers
  BY <1>1 DEF Ledgers
<1> QED BY <1>3, <1>5, <1>6 DEF OrderInv

\* The client has the calls in the order in which the service brought them, and
\* drops none that waits: in the queues, the classification and the ledger.
THEOREM OrderInvariant == TurnSpec => []OrderInv
<1>1. TurnInit => OrderInv
  BY InitInOrder
<1>2. TurnInv /\ OrderInv /\ [TurnNext]_turnvars => OrderInv'
  BY EveryStepInOrder, StutterInOrder
<1> QED BY <1>1, <1>2, TurnInvariant, PTL DEF TurnSpec

\* No call runs before an earlier call of the turn has its answer, whatever is
\* replayed, classified or reconnected on the way.
THEOREM CallsInOrder == TurnSpec => []InOrder
<1>1. TurnInv /\ OrderInv => InOrder
  <2> SUFFICES ASSUME TurnInv, OrderInv, task.worker.at = "run", NEW c \in Waiting
               PROVE ~Precedes(c, task.worker.call)
    BY DEF InOrder
  <2>1. c \in Calls /\ task.worker.call \in Calls
    BY DEF Waiting, TurnInv, Typed, TasksTyped
  <2> QED BY <2>1 DEF OrderInv, Queues, Overdue
<1> QED BY <1>1, OrderInvariant, TurnInvariant, PTL
=============================================================================
