SPECIFICATION Spec
CONSTANTS
  q1 = q1  q2 = q2
  Build = "PROCESS"
  Request = {q1}
  First = q1
  Movies <- Six
  Matches <- SixFourNone
  Scores = {0, 1}
  Threshold = {2, 4}
  MaxForkFailures = 2
INVARIANTS
  ShortOutputSorted
  NothingLost
  NoneAtWork
CHECK_DEADLOCK FALSE
