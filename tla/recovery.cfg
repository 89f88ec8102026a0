SPECIFICATION FairSpec
CONSTANTS
  p1 = p1 p2 = p2 c1 = c1 c2 = c2 e1 = e1 e2 = e2 r1 = r1 r2 = r2
  f = f g = g a = a b = b d = d t1 = t1 t2 = t2
  Absent = Absent None = None
  Proc = {p1, p2}
  Candidate = {c1}
  Payload <- UpdateOrNoOp
  Evidence = {e1}
  Report = {r1}
  Path = {f, g}
  Bytes = {a, b}
  Stamped <- MCStamped
  Checkout <- BothPresent
  MaxOps = 3
  MaxEdits = 1
  MaxCrash = 1
PROPERTIES CrashRecovered LockReleased
