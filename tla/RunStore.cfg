CONSTANTS
  r1 = r1 r2 = r2 r3 = r3 s1 = s1 k1 = k1 x1 = x1 x2 = x2
  t1 = t1 t2 = t2 t3 = t3 w1 = w1 w2 = w2 b1 = b1 q1 = q1
  NoCoord = NoCoord NoCommand = NoCommand NoDecision = NoDecision NoRemote = NoRemote
  Commands <- Rivals
  Targets <- TwoTargets
  Writers = {w1, w2}
  Bodies = {b1}
  Requests = {q1}
  MaxSequence = 4
  MaxRevision = 2
SPECIFICATION Spec
CHECK_DEADLOCK FALSE
INVARIANTS TypeOK LogReplaysToSnapshot OutboxMatchesLog AckedIsDurable
INVARIANTS IdentitiesUnique RetiredStaysGone
PROPERTY HistoryIsFinal
