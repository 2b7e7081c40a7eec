SPECIFICATION Spec
CONSTANTS
  Uses <- AllUses
  Comparators = 2
  DataWatches = 2
  MaxFaults = 1
  MaxSessions = 2
INVARIANTS
  BreakpointsAreGdbs
  CallServedOnce
  
PROPERTIES
  FlashHoldsTheDownload
  InterruptEndsTheWait
CHECK_DEADLOCK FALSE
