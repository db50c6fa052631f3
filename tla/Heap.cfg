SPECIFICATION Spec
CONSTANTS
  Event <- FourEvents
  initial_capacity = 1
  MIN_CAPACITY = 2
  Unset = Unset
  MaxPushes = 6
INVARIANTS
  HeapOrder
PROPERTIES
  ServesInOrder
