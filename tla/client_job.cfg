SPECIFICATION ExecSpec
CONSTANTS
  Job = {j1}
  ExecHost = {h1, h2}
  NoJob = NoJob
  MaxQueue = 2
PROPERTIES JobEnds
CHECK_DEADLOCK FALSE
