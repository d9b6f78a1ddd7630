SPECIFICATION Spec
CONSTANTS
  F = F  C = C  S = S  S2 = S2
  Threads <- TwoReaders
  Fibonacci = {F}
  Collatz = {C}
  Reader = {S, S2}
  IntMax = 127
  Arg <- TwoReadersArg
  Item <- Numbers
  MaxSent = 3
  WriterCloses = FALSE
INVARIANTS
  QueuesSound
  SignalsBlocked
  SumIsBest
  NumberPerIteration
  SequencesRight
PROPERTIES
  ImplementsPool
CHECK_DEADLOCK FALSE
