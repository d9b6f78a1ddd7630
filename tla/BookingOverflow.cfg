SPECIFICATION Spec
CONSTANTS
  R = R  W = W  V = V
  r1 = r1  r2 = r2  w1 = w1  w2 = w2  v1 = v1
  u1 = u1  u2 = u2
  None = None
  Home <- MCHome
  ReadServer = {}
  WriteServer = {W}
  Conn = {w1}
  Id = {u1}
  FirstRecord <- OneUser
  Change <- Extreme
  IdNumber <- MCIdNumber
  Oddity = {}
  MaxPipeline = 1
  MaxResets = 0
  MaxTotal = 3
  IntMax = 15
INVARIANTS
  RecordWithinLimits
