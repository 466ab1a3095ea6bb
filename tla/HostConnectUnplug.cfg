CONSTANTS
  b1 = b1  b2 = b2  c1 = c1  c2 = c2
  NoLink = NoLink
  May <- MCOneEach
  BleLinks <- MCBleLinks
  ClassicLinks <- MCClassicLinks
  Starts <- MCNew
  Setups <- MCMixed
SPECIFICATION Spec
PROPERTY UnplugNamesSender
\* The host task may be over and every link down.
CHECK_DEADLOCK FALSE
