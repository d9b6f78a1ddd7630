SPECIFICATION FairSpec
CONSTANTS
  None = None
  Battle = {"A", "B", "C", "G", "H", "M"}
  Root = "A"
  Left <- FourLeft
  Right <- FourRight
  Agent <- FourAgent
  Real = {"0", "1", "2", "3"}
  Number <- Numbers
  Boosted <- FileBoosted
  Files <- MCFiles
  Garbage <- Leftovers
  MaxFailures = 2
INVARIANTS
  TypeOK
  OneOwner
  PingPong
  HealthInBounds
  DoubleElimination
  OutcomeFixed
  NoChampionAfterFailure
PROPERTIES
  Terminates
CHECK_DEADLOCK FALSE
