CONSTANTS
  p1 = p1 p2 = p2 root = root kid = kid
  Nobody = Nobody NoIntent = NoIntent NoControl = NoControl
  Procs = {p1}
  Root = root
  Kids = {kid}
  MaxRequests = 1
  DeletionBudget = 0
SPECIFICATION DeletionSpec
CHECK_DEADLOCK FALSE
INVARIANT KidsDeletedToo
