\* A command on a chip of every family, after another or with one call of it going wrong.
SPECIFICATION Spec
CONSTANTS
  Types <- AllTypes
  Connects = {"normal", "under_reset", "hot-plug"}
  Garbage <- LockOrErase
  MaxEvents = 2
INVARIANTS
  SuccessMeansWritten
  TidyAfterSuccess
  FailsForAReason
  DetachedClean
PROPERTIES
  OnlyTheAskedPages
CHECK_DEADLOCK FALSE
