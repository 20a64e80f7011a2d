CONSTANTS
  c1 = c1
  c2 = c2
  Calls <- TwoCalls
  Asks <- OneAsk
  MaxSeq = 4
  MaxRounds = 1
  TurnBudget <- Troubles
SPECIFICATION FairTurnSpec
CHECK_DEADLOCK FALSE
INVARIANTS TurnTypeOK RerunOnlyIfTorn ResultsAgree DeclinedNeverRuns InOrder
PROPERTIES CallsAnswered
