SPECIFICATION Spec
CONSTANTS
  Addrs = {b, a1, a2}
  Bystander = b
  Removers = {r1}
  Pollers = {p1}
  MaxLines = 4
  MaxJobs = 3
  MaxTime = 1
VIEW LiveView
SYMMETRY Symmetry
INVARIANTS
  TypeOK
  BystanderListed
  BystanderBonded
  RemovedLeavesNothing
  SleepsOnlyEmpty
  ListingIsCurrent
