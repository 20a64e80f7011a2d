CONSTANTS
  manual1 = manual1 safe1 = safe1 k1 = k1 k2 = k2
  NoRow = NoRow NoPayload = NoPayload session = session
  Effects <- Both
  Tasks = {k1, k2}
  Budget <- Troubles
  MaxGrants = 3
SPECIFICATION Spec
CHECK_DEADLOCK FALSE
SYMMETRY Symmetric
INVARIANTS TypeOK PerformedOnce OutcomesAgree
