SPECIFICATION OrdFairSpec
CONSTANTS
  Code = {o1}
  NoCode = NoCode
  Caller = {c1}
  Poller = {p1, p2}
PROPERTIES
  WaitingEnds
