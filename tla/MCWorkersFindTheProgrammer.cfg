\* What every thread asserts, violated when Disconnect comes first.
SPECIFICATION Spec
CONSTANTS
  Files <- TwoFiles
  Hex <- OneHex
  MaxThreads = 2
  MaxConnects = 2
INVARIANT WorkersFindTheProgrammer
CHECK_DEADLOCK FALSE
