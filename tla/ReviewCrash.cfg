CONSTANTS
  turn1 = turn1 turn2 = turn2 local1 = local1 review1 = review1
  k1 = k1 k2 = k2 x1 = x1
  NoCoord = NoCoord NoCommand = NoCommand NoDecision = NoDecision NoRemote = NoRemote
  Stop = Stop Nobody = Nobody
  Commands <- OneReview
  Reviews = {review1}
  Callers = {k1}
  MaxLoops = 3
  MaxSequence = 9
  MaxRevision = 1
  Budget <- OneCrash
SPECIFICATION FairSpec
CHECK_DEADLOCK FALSE
PROPERTY UncertainIsSettled
