SPECIFICATION Spec
CONSTANTS
  Reads <- MCReads
  PartialTimeout = 1
  MaxWire = 7
  MaxTime = 3
INVARIANTS
  TypeOK
  ParsesWire
  HeldIsPartial
  TimerFromHead
PROPERTIES
  SilenceCleans
