SPECIFICATION Spec
CONSTANTS
  Creators = {t1}
  MaxInFlight = 1
  MaxRequests = 2
  SleepStates = {2, 4}
  None = None
INVARIANTS ResourcesSafe SettledAgrees
PROPERTIES DeviceFollows CreateReturns
