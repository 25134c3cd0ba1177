SPECIFICATION UpdSpec
CONSTANTS
  MaxVersion = 1
  MaxAsked = 0
  MaxChecks = 1
  MaxDownloads = 1
  MaxUnread = 1
INVARIANTS
  RetryAfterFailure
CHECK_DEADLOCK FALSE
