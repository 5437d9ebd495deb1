SPECIFICATION Spec
CONSTANTS
  Requests = {r1}
  Lengths = {4}
  MaxTransferSize = 2
  PacketSize = 1
  MaxChunks = 2
  AllocationFails = FALSE
INVARIANT FreedOnce
