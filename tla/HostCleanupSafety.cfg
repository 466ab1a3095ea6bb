CONSTANTS
  Callers <- MCCallers
  Early <- MCEarly
  Cancellable <- MCCancellable
SPECIFICATION Spec
\* Every call may be over: nothing is left to do.
CHECK_DEADLOCK FALSE
INVARIANTS
  TypeOK
  ReturnMeansClosed
  NobodyLeavesItOpen
  InputGone
PROPERTIES
  NoCommandAfterClose
