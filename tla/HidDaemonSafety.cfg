SPECIFICATION Spec
CONSTANTS
  d1 = d1
  t1 = t1
  t2 = t2
  NoTask = NoTask
  Devices <- OneDevice
  Tasks <- TwoTasks
  Ops <- EveryOp
  Reports <- UnplugOnly
  WriteFails = TRUE
  Signals = FALSE
SYMMETRY TaskSymmetry
INVARIANTS
  TypeOK
  RadioExclusiveUnlessRaced
  SuspendedIsOff
  NoLostWakeup
  FlagsEnd
