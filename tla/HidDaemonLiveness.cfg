SPECIFICATION FairSpec
CONSTANTS
  d1 = d1
  t1 = t1
  t2 = t2
  NoTask = NoTask
  Devices <- OneDevice
  Tasks <- TwoTasks
  Ops <- LiveOps
  Reports <- UnplugOnly
  WriteFails = TRUE
  Signals = TRUE
PROPERTIES
  OpsComplete
  Reconnects
  ShutdownCompletes
