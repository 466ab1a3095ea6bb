SPECIFICATION FairSpec
CONSTANTS
  d1 = d1
  t1 = t1
  t2 = t2
  NoTask = NoTask
  Devices <- OneDevice
  Tasks <- OneTask
  Ops <- ScanOps
  Reports <- NoReports
  WriteFails = FALSE
  Signals = FALSE
PROPERTY SuspendGoesOn
