\* Every operation in any order, on every kind of programmer.
SPECIFICATION Spec
CONSTANT
  TraceBuffer = 1
INVARIANTS
  StepIsOneInstruction
  MaskedForAReason
  TraceAccountedFor
PROPERTIES
  WrongForAReason
