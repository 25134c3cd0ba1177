SPECIFICATION Spec
CONSTANTS
  Alert = {a1}
  Session = {s1}
  NoSession = NoSession
  NoAlert = NoAlert
  Refresher = {f1}
  InboxMax = 1
  QueueMax = 1
  BatchMax = 1
  MaxAttempts = 2
  OrdersPaid = TRUE
INVARIANTS
  NoLostWakeup
