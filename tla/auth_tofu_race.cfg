CONSTANTS
  k1 = k1
  k2 = k2
  d1 = d1
  d2 = d2
  p1 = p1
  p2 = p2
  Keys = {k1, k2}
  NoKey = NoKey
  Sessions = {d1, d2}
  Pairing = {}
  Base = Base
  KeysOf <- MCKeysOf
  Knows <- MCKnows
  TempPassword = FALSE
  Policies = {"Tofu"}
  Window = 0
  ReadFaults = FALSE
  CliOps = {}
  Serial = FALSE
SPECIFICATION Spec
INVARIANTS SingleOwner
