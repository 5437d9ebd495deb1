SPECIFICATION Spec
CONSTANTS
  Threads = {t1, t2}
  Pool = {a1, a2, a3}
  Ops = {"set_configuration", "claim_interface", "reset_device"}
  Files = {f1, f2}
  Configs = {1}
  Interfaces = {0}
  InterfacesOf <- MCInterfacesOf
  AltsOf <- MCAltsOf
  Alts = {0, 1}
  None = None
INVARIANT ExclusiveClaim
