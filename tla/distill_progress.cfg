SPECIFICATION FairSpec
CONSTANTS
  w1 = w1 w2 = w2 i1 = i1 i2 = i2 s1 = s1 s2 = s2 e1 = e1 e2 = e2 e3 = e3
  None = None
  Worker = {w1, w2}
  WorkerId = {i1, i2}
  OwnerOf <- Shared
  Session = {s1}
  Event = {e1}
  SessionOf <- OneSession
  LineOf <- Lines
  Legacy = {e1}
  MaxAttempts = 2
  Limit = 2
  MaxFaults = 1
  MaxCalls = 2
INVARIANTS DeadLetters NothingResurrected
PROPERTIES ImplementsLifecycle EventuallySettled
