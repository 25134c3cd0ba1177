SPECIFICATION FairSpec
CONSTANTS
  Host = {h1}
  Job = {j1, j2}
  Req = {r1}
  NoJob = NoJob
  NoHost = NoHost
  MaxConcurrent = 1
  Intervals = {"daily", "weekly"}
  Failures = {"failed"}
INVARIANTS
  SafetyInv
  OneCheckPerHost
PROPERTIES
  DueIsTried
