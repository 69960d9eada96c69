SPECIFICATION Spec
CONSTANTS
  p1 = p1  p2 = p2
  w1 = w1  w2 = w2
  running = running  ended = ended
  Process = {p1, p2}
  Writer = {w1, w2}
  ProcessOf <- MCProcessOf
  Creator = w1
  Content = {running, ended}
  Terminal = {ended}
  None = None
  MaxVersion = 3
INVARIANTS
  SkippedIsStored
PROPERTY ImplementsStore
CHECK_DEADLOCK FALSE
