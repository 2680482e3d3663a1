SPECIFICATION Spec
CONSTANTS
  MaxRows = 2
  Heights = {1, 3}
  Conns = {k1, k2}
CHECK_DEADLOCK FALSE
INVARIANT RightContact
