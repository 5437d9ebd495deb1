SPECIFICATION FairSpec
CONSTANTS
  Requests = {r1, r2}
  Lengths = {0, 6}
  MaxTransferSize = 2
  PacketSize = 1
  MaxChunks = 3
  AllocationFails = TRUE
INVARIANTS EndpointSafe OrderKept DataSafe
PROPERTY TransferEnds
