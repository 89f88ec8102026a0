SPECIFICATION FairSpec
CONSTANTS
  w1 = w1 w2 = w2 w3 = w3 c1 = c1 c2 = c2 r1 = r1 r2 = r2 x1 = x1 t1 = t1 f1 = f1 k1 = k1
  None = None
  Worker = {w1, w2}
  Event = {c1, r1, x1, t1}
  KindOf <- Kinds
  CallId = {k1}
  CallOf <- OneId
  Limit = 2
  MaxAttempts = 2
  MaxActive = 1
  Retained = 2
  MaxFaults = 1
  MaxCalls = 0
PROPERTIES EventuallyDone
