CONSTANTS
  b1 = b1  b2 = b2  c1 = c1  c2 = c2
  NoLink = NoLink
  May <- MCMay
  BleLinks <- MCBleLinks
  ClassicLinks <- MCClassicLinks
  Starts <- MCBothStarts
  Setups <- MCAllSetups
SPECIFICATION FairSpec
\* The host task may be over and every link down.
CHECK_DEADLOCK FALSE
INVARIANTS
  TypeOK
  RadioAlone
  HandlersEnd
  ServesWinner
  LossNoticed
PROPERTIES
  DrainEnds
  ImplementsLife
