SPECIFICATION Spec
CONSTANTS
  w1 = w1  w2 = w2  r1 = r1  r2 = r2
  Jobs = {j1}
  Workers = {w1}
  Runs = {r1}
  Host <- OneRun
  Prefetch = 1
  Copies = {c1, c2, c3}
  NoCopy = NoCopy
  NoMessage = NoMessage
  MaxAttempts = 2
  CancelRequests = {x1}
  MaxCrashes = 1
  Environments = {
    {"scrapeFails", "earlyDeliveries", "cacheHits", "dependencyFails", "watchdogFires", "workerDies"},
    {"scrapeFails", "earlyDeliveries", "dependencyFails", "workerDies"},
    {"scrapeFails", "cacheHits", "dependencyFails", "clientCancels"},
    {"scrapeFails", "cacheHits", "earlyDeliveries"},
    {"scrapeFails", "earlyDeliveries"}}
SYMMETRY CopySymmetry
CHECK_DEADLOCK FALSE
INVARIANTS TypeOK SettledIsReported DeadLetterIsReported OneMessagePerJob SettledAgrees OneEventPerJob
PROPERTIES ImplementsRetryQueue CancellationHolds StatusFollows
