SPECIFICATION Spec
CONSTANTS
  Uses <- LoadsOnly
  Comparators = 1
  DataWatches = 1
  MaxFaults = 0
  MaxSessions = 2
INVARIANTS
  BlocksTakeTheirOwn
CHECK_DEADLOCK FALSE
