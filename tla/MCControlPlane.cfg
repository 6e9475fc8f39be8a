SPECIFICATION Spec
CONSTANTS
  Agents = {a1, a2}
  Names = {n1}
  MaxAttempts = 2
  MaxBeats = 2
  MaxRestarts = 1
SYMMETRY Symmetry
INVARIANTS
  TypeOK
  RowHasOneHolder
  InventoryIsOneReport
PROPERTY
  InventoryInOrder
CHECK_DEADLOCK FALSE
