SPECIFICATION Spec
CONSTANTS
  MaxEepBuf = 256
  MaxData = 3
  MaxSegments = 4
  Devices <- MCDevices
  Rings <- MCRings
  MaxBuf = 2
  MaxCycles = 2
  MaxUpdates = 1
  MaxLosses = 1
INVARIANTS TypeOK CounterTells
CHECK_DEADLOCK FALSE
