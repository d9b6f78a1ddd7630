SPECIFICATION Spec
CONSTANTS
  R = R  W = W  V = V
  r1 = r1  r2 = r2  w1 = w1  w2 = w2  v1 = v1
  u1 = u1  u2 = u2
  None = None
  Home <- MCHome
  ReadServer = {R}
  WriteServer = {W}
  Conn = {r1, r2, w1, w2}
  Id = {u1}
  FirstRecord <- OneUser
  Change <- OneMoreOrLess
  IdNumber <- MCIdNumber
  Oddity = {"exit", "fragment"}
  MaxPipeline = 1
  MaxResets = 0
  MaxTotal = 1
  IntMax = 7
INVARIANTS
  TypeOK
  SessionInv
  MutualExclusion
  LocksBackedBySessions
PROPERTIES
  RefusedOnlyWhenInUse
SYMMETRY Twins
