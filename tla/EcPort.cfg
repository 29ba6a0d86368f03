SPECIFICATION Spec
CONSTANTS
  Callers = {c1, c2}
  MaxBuf = 3
  Commands = {"LRWDC"}
  Slaves = 2
  MaxCalls = 4
  MaxSends = 2
  MaxFaults = 1
SYMMETRY Symmetry
INVARIANTS TypeOK AnswerIsOwn CutIsBridged IndexHeldOnce
CHECK_DEADLOCK FALSE
