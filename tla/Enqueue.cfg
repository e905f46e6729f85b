SPECIFICATION Spec
CONSTANTS
  Requests = {q1, q2, q3}
  Keys = {k1}
  NoKey = NoKey
  None = None
  Refused = Refused
  Enabled = {"cacheHits", "targetGone", "dependencyFails", "keysExpire"}
SYMMETRY Symmetry
CHECK_DEADLOCK FALSE
INVARIANTS TypeOK MessageHasRecord AnswersAreReadable AnsweredIsAtWork OneJobPerKey
