CONSTANTS
  MaxSeq = 4
  MaxRequests = 4
  StreamBudget <- Troubles
SPECIFICATION FairStreamSpec
CHECK_DEADLOCK FALSE
INVARIANTS StreamTypeOK EachEventOnce 
PROPERTIES KeepsFeed StreamEnds
