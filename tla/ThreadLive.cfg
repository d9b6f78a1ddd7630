SPECIFICATION FairSpec
CONSTANTS
  F = F  C = C  S = S  S2 = S2
  Threads <- TwoReaders
  Fibonacci = {}
  Collatz = {F, C}
  Reader = {S, S2}
  IntMax = 3
  Arg <- TwoReadersEndless
  Item = {0}
  MaxSent = 1
  WriterCloses = TRUE
INVARIANTS
  TypeOK
PROPERTIES
  ReadyRuns
  SentIsRead
CHECK_DEADLOCK FALSE
