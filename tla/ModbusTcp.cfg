SPECIFICATION FairSpec
CONSTANTS
  Values = {0, 1}
  Idle = Idle
  None = None
  Failed = Failed
  Retries = 1
  TidSpace = 3
  Chunks = {9, 40}
  MaxExchanges = 4
INVARIANTS TypeOK LeavesNothing
PROPERTIES KeepsPromise CallEndsWhileOpen
