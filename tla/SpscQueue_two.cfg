CONSTANTS
  Capacity = 2
  Wrap = 4
  Producers = {p1, p2}
  Items = {x, y}
  Raw = Raw
SPECIFICATION Spec
PROPERTY AcceptedIsQueued
CHECK_DEADLOCK FALSE
