SPECIFICATION FairSpec
CONSTANTS
  Timeouts = {0, 1, 5, 7, 13, 26}
  MaxTimeouts = {0, 5}
  DefaultTimeout = 5
  TicksPerMs = 10
  IntMax = 127
INVARIANTS HandshakeSafe StatusFromDevice CappedWaitIsExact
PROPERTY CallReturns
