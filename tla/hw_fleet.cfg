SPECIFICATION FairSpec
CONSTANTS
  Host = {h1, h2}
  Job = {j1, j2, j3}
  Req = {}
  NoJob = NoJob
  NoHost = NoHost
  MaxConcurrent = 1
  Intervals = {"off"}
  Failures = {"sudo", "canceled", "failed"}
INVARIANTS
  TypeOK
  QueuedIsLive
  RunningIsOwned
  PendingIsQueued
  RunAccounting
  AtMostMaxConcurrent
PROPERTIES
  ImplementsFleetRun
