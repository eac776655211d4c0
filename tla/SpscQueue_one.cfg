CONSTANTS
  Capacity = 4
  Wrap = 8
  Producers = {p1}
  Items = {x, y}
  Raw = Raw
SPECIFICATION Spec
INVARIANTS TypeOK SlotsUsedWell NothingLeaks
PROPERTIES ImplementsBoundedFifo AcceptedIsQueued
CHECK_DEADLOCK FALSE
