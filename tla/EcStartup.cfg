SPECIFICATION ClocksSpec
CONSTANTS
  MaxEepBuf = 208
  Kinds <- MCKinds
  Rings <- MCRings
  Wirings <- MCWirings
  Way <- MCWay
  Skews <- MCSkews
  TopTime = 512
INVARIANTS TypeOK KnownAsItIs PlacesAreKnown EepromIsBack
CHECK_DEADLOCK FALSE
