CONSTANTS
  c1 = c1 c2 = c2 c3 = c3
  Callers = {c1, c2, c3}
  QueueLimit = 2
  ApprovalBudget <- Bothers
SPECIFICATION ApprovalSpec
CHECK_DEADLOCK FALSE
INVARIANT QueueConsistent
PROPERTY RequestsAnswered
