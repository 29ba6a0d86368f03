SPECIFICATION Spec
CONSTANTS
  Params = {p1, p2}
  Values = {0, 1}
  Any = Any
  MaxItems = 2
  Statuses = {busy, applied, persisted}
  ApplyDone = applied
  PersistDone = persisted
INVARIANT LoggingDoesNotUndo
