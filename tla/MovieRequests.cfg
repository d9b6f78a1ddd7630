SPECIFICATION FairSpec
CONSTANTS
  q1 = q1  q2 = q2
  Build = "THREAD"
  Request = {q1, q2}
  First = q1
  Movies <- Five
  Matches <- AllAndFew
  Scores = {0, 1}
  Threshold = {1, 3}
  MaxForkFailures = 0
INVARIANTS
  TypeOK
  RangesPartition
  DoneRangesOrdered
  OutputSorted
  AllOrNone
PROPERTIES
  Answered
CHECK_DEADLOCK FALSE
