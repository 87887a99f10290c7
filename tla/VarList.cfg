SPECIFICATION Spec
CONSTANTS
  Nodes = {a, b, c, d}
  Addrs = {1, 2, 3, 4}
  Null = Null
INVARIANT CountIsNumber
CHECK_DEADLOCK FALSE
