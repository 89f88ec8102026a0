SPECIFICATION FairSpec
CONSTANTS
    Proc = {p1, p2}
    c1 = c1  c2 = c2  s1 = s1  s2 = s2
    Candidate = {c1, c2}
    Requests = 2
    Session = {s1, s2}
    SessionOf <- MCSessionOf
    Early = {c1, 1, 2}
    Matches <- MCMatches
    MaxTrouble = 2
INVARIANTS PurgedStaysGone OnlySealed ReceiptTruthful
PROPERTY EventuallyPurged
CHECK_DEADLOCK FALSE
