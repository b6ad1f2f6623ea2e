SPECIFICATION FairSpec
CHECK_DEADLOCK FALSE
CONSTANTS
  p = p
  r = r
  s = s
  g = g
  h = h
  q = q
  a = a
  b = b
  Puts = {p, r, s}
  Gets = {g, h}
  Asks = {q}
  Recursive = {r, s, h}
  Paths = {a, b}
  Dest <- MCDest
  Sizes = {0, 2}
  Together = {{p, r}, {s}, {g}, {h}, {q}}
  MaxShells = 2
  Window = 1
  Absent = Absent
  Nobody = Nobody
  Torn = Torn
INVARIANTS
  WholeFiles
  TransfersSound
PROPERTIES
  PutsKeepOld
  TransfersEnd
