SPECIFICATION FairSpec
CONSTANTS
  Ioctls = {i1, i2, i3}
  Forwards = {}
  Plains = {p1}
  Starts = {s1}
  Stops = {t1}
  Remove = rm
INVARIANTS TypeOK Accounting DrainedUpToRefusals
PROPERTIES RemoveCompletes ImplementsDrain
