\* Every board, any succession of sessions, any commands failing.
SPECIFICATION Spec
INVARIANTS
  UnderResetStopsAtVector
  NormalHasReset
  PinLetGo
  CatchAccountedFor
  FailsForAReason
  StoppedForAReason
PROPERTIES
  LookingDisturbsNothing
