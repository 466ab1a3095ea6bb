SPECIFICATION Spec
CONSTANTS
  Users = {u1, u2}
  WarmupRetries = 3
SYMMETRY UserSymmetry
INVARIANTS
  TypeOK
  PinHeld
  PinNotLeft
  EvictsNoUser
  WarmIsOurs
PROPERTIES
  GivesUpThawed
  RefusedByOthers
