SPECIFICATION Spec
CONSTANTS
  Ioctls = {i1, i2}
  Forwards = {}
  Plains = {}
  Starts = {s1}
  Stops = {}
  Remove = rm
INVARIANT RemoveWaitsForRequests
