SPECIFICATION Spec
CONSTANTS
  Moving = {"terminals", "screen", "exec", "files", "signin", "imports"}
  MaxVersion = 2
  MaxAsked = 1
  MaxChecks = 2
  MaxDownloads = 1
  MaxUnread = 1
  Window = {w1, w2}
  NoWindow = NoWindow
  a = a
  b = b
  Flow = {f1, f2}
  Host = {a, b}
  NoHost = NoHost
  NoFlow = NoFlow
  Via <- MCVia
  Attempts = 2
  MaxTyped = 1
  HostId = {h1}
  Server = {h1}
  NoServer = NoServer
  Name = {n1, n2}
  Gone = Gone
  Tab = {t1, t2}
  NoTab = NoTab
  MaxTabs = 2
  MaxNonce = 1
  MaxOpening = 1
  HwCall = {r1, r2}
  Snapshot = {v1}
  Nobody = Nobody
  Other = Other
  MaxEvents = 2
  MaxOther = 1
  Task = {"importConfig"}
  Slot = {s1, s2}
  Job = {j1}
  ExecHost = {x1, x2}
  NoJob = NoJob
  MaxQueue = 2
  Dir = {d1, d2}
  NoDir = NoDir
  FileName = {g1}
  Load = {l1, l2}
  Work = {k1}
  Email = {m1, m2}
  NoEmail = NoEmail
  MaxReplacing = 2
  Req = {q1, q2}
  MaxOps = 2
  MaxFaults = 1
  MaxTold = 0
  Path = {p1, p2}
  Usual = p1
  Entry = {e1}
  NoData = NoData
  MaxPolls = 2
  MaxTicks = 1
  MaxAlerts = 2
  Cap = 1
  MaxFeed = 2
  MaxDrops = 1
  Code = {o1, o2}
  NoCode = NoCode
  Caller = {c1, c2}
  Poller = {p1, p2, p3}
SYMMETRY Symmetry
INVARIANTS
  ClientTypeOK
  ActiveIsOpen TitlesDiffer CommandRunsOnce
  ButtonComesBack OneRequestPerDialog
  DoneShowsAll LimitOfShownEmail ImportsWhatWasShown
PROPERTIES
  NeverOverwritesListed
CHECK_DEADLOCK FALSE
