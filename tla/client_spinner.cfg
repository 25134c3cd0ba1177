SPECIFICATION HwSyncSpec
CONSTANTS
  HwCall = {r1}
  Snapshot = {s1, s2}
  Nobody = Nobody
  Other = Other
  MaxEvents = 2
  MaxOther = 1
PROPERTIES SpinnerEnds
CHECK_DEADLOCK FALSE
