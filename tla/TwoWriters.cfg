CONSTANTS
  turn1 = turn1 turn2 = turn2 local1 = local1 review1 = review1
  k1 = k1 k2 = k2 x1 = x1
  NoCoord = NoCoord NoCommand = NoCommand NoDecision = NoDecision NoRemote = NoRemote
  Stop = Stop Nobody = Nobody
  Commands <- TwoTurns
  Reviews = {}
  Callers = {k1, k2}
  MaxLoops = 3
  MaxSequence = 9
  MaxRevision = 1
  Budget <- StopAmongThree
SPECIFICATION Spec
CHECK_DEADLOCK FALSE
INVARIANT OneActiveRun
