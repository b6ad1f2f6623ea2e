SPECIFICATION MCSpec
CONSTANTS
  a = a
  host = host  other = other
  alias = alias
  k1 = k1  k2 = k2
  NoNode = NoNode  NoKey = NoKey  NoCode = NoCode
  Codes = {a}
  MaxEnables = 2
  Nodes = {host}
  Others = {other}
  Host = host
  Aliases = {alias}
  Keys = {k1, k2}
  Policies = {"Strict", "Tofu", "AcceptAll"}
  MaxPolls = 2
  MaxDials = 3
  MaxPrompts = 2
INVARIANT ResourcesReleased
PROPERTIES HostKeysHold TicketRecovered
PROPERTIES NoResurrection BurnedCodeDies ActiveCodeResolves ConnectSettles
CHECK_DEADLOCK FALSE
