SPECIFICATION SideSpec
CHECK_DEADLOCK FALSE
CONSTANTS
  x = x
  y = y
  z = z
  Sides = {x, y}
  Kinds = {"metadata", "transfer", "unknown"}
INVARIANT NeverEarly
