SPECIFICATION Spec
CONSTANTS
  Contexts = {c1, c2}
  Endpoints = {e1}
  EpOf <- MCEpOf
INVARIANTS TypeOK NothingInFlight
PROPERTY CallsReturn
