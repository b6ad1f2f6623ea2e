CONSTANTS
  k1 = k1
  k2 = k2
  d1 = d1
  d2 = d2
  p1 = p1
  p2 = p2
  Keys = {k1, k2}
  NoKey = NoKey
  Sessions = {p1, p2}
  Pairing = {p1, p2}
  Base = Base
  KeysOf <- MCKeysOf
  Knows <- MCKnows
  TempPassword = TRUE
  Policies = {"Tofu"}
  Window = 0
  ReadFaults = FALSE
  CliOps = {"revoke", "passwd"}
  Serial = FALSE
SPECIFICATION Spec
INVARIANTS NoStrangerVaulted GuessBudget ExhaustedWormholeNotified
