SPECIFICATION Spec
CONSTANTS
  None = None
  s1 = s1  v1 = v1  w1 = w1  w2 = w2  p1 = p1  p2 = p2  p3 = p3
  Services = {s1}
  Segment <- OneSegment
  ProxyUrls = {p1, p2, p3}
  Pools <- OnePool
  EnvLists <- EnvOrNone
  Executions = {e1}
  Options <- SomeOptions
  Admins = {a1, a2}
  NoPolicy = None
  RequestTimeout = 1
  WaitTimeout = 2
  Interval = 2
  AdaptiveIntervals <- TwoSteps
  LongestDelay = 2
  SdkJobs = {j1, j2}
  NoSdkJob = None
  Callers = {k1, a1}
  WithKey = {k1}
  CallerRequests = {1, 2, 3, 4}
  Window = 2
  Slowest = 2
  GlobalLimit = 1
  KeyLimits = {1}
  NoRecord = None
  Unlimited = Nothing
  LastTick = 4
  Workers = {w1, w2}
  RoutedJobs = {j1}
  NoWorker = None
  MaxAttempts = 2
  MaxStarts <- OneRestarts
  IndexedJobs = {j1, j2}
  Writes = {v1, v2, a1}
  ApiWrites = {v1}
  Overviews = {1, 2}
  MaxRecords = 2
  PageJobs = {j1, j2}
  NoPageJob = None
  PageLists = {v1, v2}
  LastPage = 2
  Reruns = 1
  Words = {v1, w1}
  Blank = Blank
  Upper <- UpperCase
  Ints = {1}
  Choices = {v1, w1}
  Absent = None
  OtherType = Other
  DispatchedJobs = {j1, j2}
  NotDispatched = None
  MaxPolls = 2
  Tasks = {v1, v2}
  Kinds = {"overview", "keys"}
  PageServices = {s1, s2}
  Listed = {s1}
  FormTexts = {"", "p"}
  NoService = None
  NoPagePolicy = Nothing
  Hour = 2
  HalfDay = 2
  MaxBuckets = 2
  Default <- TwoBuckets
  NotGiven = None
  Offsets = {0, 1, 2}
  Nows = {24, 27}
  Age = 18
  NotCounted = None
CHECK_DEADLOCK FALSE
INVARIANT DocumentedOrder
