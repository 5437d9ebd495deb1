SPECIFICATION HandleSpec
CONSTANTS
  Threads = {t1}
  Pool = {a1, a2}
  Ops = {"set_configuration", "get_descriptor", "set_interface", "get_interface", "claim_interface", "release_interface", "reset_device"}
  Files = {h1, f1}
  Handles = {h1}
  Configs = {1, 200}
  Interfaces = {0, 1}
  InterfacesOf <- MCInterfacesOf
  AltsOf <- MCAltsOf
  Alts = {0, 1}
  None = None
  Header = 24
  NumConfigurations = 200
  Packets <- MCPackets
  Transfers <- MCTransfers
SYMMETRY MCSymmetry
INVARIANTS HandleTypeOK ClosedFilesHoldNothing MemorySafe CacheSafe
INVARIANTS HandleAgrees HandleNotStuck ControlArrives TransferArrives
PROPERTY ImplementsClaims
