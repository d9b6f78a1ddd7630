SPECIFICATION Spec
CONSTANTS
  q1 = q1  q2 = q2
  Build = "PROCESS"
  Request = {q1}
  First = q1
  Movies <- Nine
  Matches <- All
  Scores = {0, 1}
  Threshold = {2, 4}
  MaxForkFailures = 0
INVARIANTS
  OutputSorted
CHECK_DEADLOCK FALSE
