SPECIFICATION Spec
CONSTANTS
  Alert = {a1, a2}
  Session = {s1, s2}
  NoSession = NoSession
  NoAlert = NoAlert
  Refresher = {f1}
  InboxMax = 1
  QueueMax = 2
  BatchMax = 2
  MaxAttempts = 1
  OrdersPaid = TRUE
SYMMETRY Symmetry
INVARIANTS
  TypeOK
  QueueIsOwn
