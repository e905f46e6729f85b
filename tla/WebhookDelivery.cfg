SPECIFICATION FairSpec
CONSTANTS
  w1 = w1  w2 = w2  r1 = r1  r2 = r2  r3 = r3
  EventIds = {e1}
  Workers = {w1, w2}
  Runs = {r1, r2, r3}
  Host <- TwoAndOne
  Copies = {c1, c2, c3, c4}
  NoCopy = NoCopy
  NoMessage = NoMessage
  MaxAttempts = 2
  MaxCrashes = 1
CHECK_DEADLOCK FALSE
INVARIANTS TypeOK NoEventIsLost PostsAreBounded
PROPERTIES ImplementsRetryQueue EveryEventSettles
