------------------------------ MODULE TurnFeed ------------------------------
(***************************************************************************)
(* What TurnEventStream promises the owner of a turn, without saying how:  *)
(* the events of the turn in order, each once, and around them the phases  *)
(* of recovery it reports (on_recovery_status).  While history is replayed *)
(* nothing newer than the frozen target is handed over, and "caught_up" is *)
(* reported only when the history is complete.                             *)
(*                                                                         *)
(* TurnStream implements this specification; ToolTurn is built upon it.    *)
(***************************************************************************)
EXTENDS Integers, Sequences, FiniteSets, SequencesExt, FiniteSetsExt

CONSTANT MaxSeq   \* bound: the largest event number of the turn

None == -1

VARIABLES
  log,      \* event numbers the service has published
  over,     \* the last of them is terminal
  feed,     \* what the owner knows of the stream
  handed    \* event numbers handed to the owner

feedvars == <<log, over, feed, handed>>

LastSeq(events) == IF events = {} THEN 0 ELSE Max(events)

NewFeed == [cursor |-> 0, phase |-> "none", target |-> None, skipped |-> FALSE, ended |-> "no"]

FeedInit == log \in {1..n : n \in 0..MaxSeq} /\ over = FALSE /\ feed = NewFeed /\ handed = << >>

Feeding == feed.ended = "no"
Unseen  == {e \in log : e > feed.cursor}

FeedPublish ==
  /\ ~over
  /\ \E e \in 1..MaxSeq : e > LastSeq(log) /\ log' = log \cup {e}
  /\ over' \in BOOLEAN
  /\ UNCHANGED <<feed, handed>>

\* The connection is lost, or recovery is given up for a control probe.
FeedBreak ==
  /\ Feeding
  /\ \E phase \in {"reconnecting", "closed"} : feed' = [feed EXCEPT !.phase = phase]
  /\ UNCHANGED <<log, over, handed>>

\* A target is frozen: what is published by now counts as history.
FeedReplay ==
  /\ Feeding
  /\ \E n \in Unseen \cup {feed.cursor} :
       feed' = [feed EXCEPT !.target = n, !.phase = "replaying"]
  /\ UNCHANGED <<log, over, handed>>

\* A turn nobody has seen is submitted again: its history is empty.
FeedRestart ==
  /\ Feeding
  /\ feed' = [feed EXCEPT !.target = feed.cursor]
  /\ UNCHANGED <<log, over, handed>>

FeedCatchUp ==
  /\ Feeding /\ feed.target # None
  /\ feed.skipped \/ \A e \in Unseen : e > feed.target
  /\ feed' = [feed EXCEPT !.target = None, !.phase = "caught_up"]
  /\ UNCHANGED <<log, over, handed>>

\* The next event is handed over; after an announced gap it may be any later one.
FeedNext ==
  /\ Feeding
  /\ \E e \in Unseen :
       /\ feed.skipped \/ e = Min(Unseen)
       /\ feed.target = None \/ e <= feed.target
       /\ feed' = [feed EXCEPT !.cursor = e]
       /\ handed' = Append(handed, e)
  /\ UNCHANGED <<log, over>>

\* The service announces that events are gone.
FeedGap ==
  /\ Feeding
  /\ \E e \in Unseen \cup {feed.cursor} :
       \/ feed' = [feed EXCEPT !.cursor = e, !.skipped = TRUE]
       \/ \E n \in log : n >= e /\ feed' = [feed EXCEPT !.cursor = e, !.skipped = TRUE,
                                              !.target = n, !.phase = "replaying"]
  /\ UNCHANGED <<log, over, handed>>

\* The stream ends: settled after the terminal event, else it failed.
FeedEnd ==
  /\ Feeding
  /\ \E how \in {"settled", "failed"} :
       /\ how = "settled" => over /\ Unseen = {} /\ handed # << >> /\ Last(handed) = LastSeq(log)
       /\ feed' = [feed EXCEPT !.ended = how,
                     !.phase = IF @ \in {"reconnecting", "replaying"} THEN "closed" ELSE @]
  /\ UNCHANGED <<log, over, handed>>

FeedNextStep ==
  \/ FeedPublish \/ FeedBreak \/ FeedReplay \/ FeedRestart \/ FeedCatchUp \/ FeedNext
  \/ FeedGap \/ FeedEnd

FeedSpec == FeedInit /\ [][FeedNextStep]_feedvars
=============================================================================
