SPECIFICATION Spec
CONSTANTS
  w1 = w1  w2 = w2  r1 = r1  r2 = r2
  Jobs = {j1}
  Workers = {w1}
  Runs = {r1}
  Host <- OneRun
  Prefetch = 1
  Copies = {c1, c2}
  NoCopy = NoCopy
  NoMessage = NoMessage
  MaxAttempts = 2
  CancelRequests = {x1}
  MaxCrashes = 0
  Environments = {{"clientCancels"}}
SYMMETRY CopySymmetry
CHECK_DEADLOCK FALSE
INVARIANT NotCancelledAndCompleted
