SPECIFICATION Spec
CONSTANTS
  NSlots = 2
  Models = {m1, m2}
  Nodes = {n1, n2, n3, n4}
  None = None
  Configurations <- MCConfigurations
SYMMETRY MCSymmetry
INVARIANTS ListsSafe ExactScan SeenIsKept ConfigsAsTheyAre ConfigsAreFreed
