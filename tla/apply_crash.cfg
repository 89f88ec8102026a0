SPECIFICATION Spec
CONSTANTS
  p1 = p1 p2 = p2 c1 = c1 c2 = c2 e1 = e1 e2 = e2 r1 = r1 r2 = r2
  f = f g = g a = a b = b d = d t1 = t1 t2 = t2
  Absent = Absent None = None
  Proc = {p1, p2}
  Candidate = {c1}
  Payload <- AllKinds
  Evidence = {e1, e2}
  Report = {r1, r2}
  Path = {f, g}
  Bytes = {a, b, t1, t2}
  Stamped <- MCStamped
  Checkout <- OneOrBoth
  MaxOps = 4
  MaxEdits = 1
  MaxCrash = 1
SYMMETRY Symmetry
INVARIANTS TypeOK CallsConsistent ArtifactOrder ReceiptEvidence ReceiptWitnessed EventOrder ApprovalEvidence
PROPERTIES ChainAppendOnly WritesAuthorized FinalForever ImplementsProtocol
