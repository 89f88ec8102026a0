SPECIFICATION Spec
CONSTANTS
  p1 = p1 p2 = p2 c1 = c1 c2 = c2 e1 = e1 e2 = e2 r1 = r1 r2 = r2
  f = f g = g a = a b = b d = d t1 = t1 t2 = t2
  Absent = Absent None = None
  Proc = {p1}
  Candidate = {c1, c2}
  Payload <- TwoUpdates
  Evidence = {e1}
  Report = {r1}
  Path = {f, g}
  Bytes = {a, b, d}
  Stamped <- MCStamped
  Checkout <- BothPresent
  MaxOps = 6
  MaxEdits = 0
  MaxCrash = 2
PROPERTIES NoLostUpdate
