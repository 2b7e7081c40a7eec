\* Two threads, two connections, a file of each kind.
SPECIFICATION Spec
CONSTANTS
  Files <- TwoFiles
  Hex <- OneHex
  MaxThreads = 2
  MaxConnects = 2
INVARIANTS
  OneAtATime
  FlashedIsTheFile
PROPERTY ButtonsComeBack
CHECK_DEADLOCK FALSE
