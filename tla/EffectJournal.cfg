CONSTANTS
  manual1 = manual1 safe1 = safe1 x1 = x1 x2 = x2 f1 = f1 f2 = f2
  call1 = call1 p1 = p1 p2 = p2 NoRow = NoRow NoPayload = NoPayload
  Effects <- Intents
  Coords = {x1, x2}
  Calls = {call1}
  Payloads = {p1, p2}
  MaxGrants = 3
SPECIFICATION Spec
CHECK_DEADLOCK FALSE
INVARIANTS TypeOK GrantedOnce EvidenceRemains
PROPERTY EvidenceIsFinal
