SPECIFICATION Spec
CONSTANTS
  \* Worker w1 runs all the time; w2 stops, comes back, and may be late with a heartbeat.
  Workers = {w1, w2}
  Fitting = {w1, w2}
  Unstable = {w2}
  MaxStarts = 1
  Dispatches = {q1, q2}
  NoWorker = NoWorker
  KeyIds = {k1}
  KeyRequests = {q1, q2, q3, q4}
  NoRecord = NoRecord
  Executions = {e1, e2}
  MaxRetries = 1
CHECK_DEADLOCK FALSE
INVARIANTS TypesOK ChoicesAreRight SerialUseIsExact
  FailureIsExhaustive OpenIsPooled
PROPERTIES IndexFollowsWorkers EndedIsRefused BrowsersAreClosed
