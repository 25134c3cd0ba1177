SPECIFICATION Spec
CONSTANTS
  Alert = {a1}
  Session = {s1, s2}
  NoSession = NoSession
  NoAlert = NoAlert
  Refresher = {f1}
  InboxMax = 1
  QueueMax = 1
  BatchMax = 1
  MaxAttempts = 2
  OrdersPaid = FALSE
INVARIANTS
  NeverUnderNextAccount
