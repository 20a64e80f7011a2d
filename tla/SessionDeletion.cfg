CONSTANTS
  p1 = p1 p2 = p2 root = root kid = kid
  Nobody = Nobody NoIntent = NoIntent NoControl = NoControl
  Procs = {p1, p2}
  Root = root
  Kids = {kid}
  MaxRequests = 2
  DeletionBudget = 3
SPECIFICATION FairDeletionSpec
CHECK_DEADLOCK FALSE
INVARIANTS DeletionTypeOK DeletedStaysGone RemoteFirst IntentRemains
PROPERTY DeletionFinishes
