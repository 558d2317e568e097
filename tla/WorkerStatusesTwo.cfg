SPECIFICATION Spec
CONSTANTS
  Workers = {1, 2}
  SlotCount = 2
  MAX_ORDERS = 4
INVARIANTS WrittenIsKept
CHECK_DEADLOCK FALSE
