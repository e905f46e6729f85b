------------------------------- MODULE Services -------------------------------
(***************************************************************************)
(* Components that share no state, checked in one run like those of        *)
(* Components: the initial state picks one of them, which alone has a      *)
(* state and takes steps.  None of them needs fairness.                    *)
(***************************************************************************)
EXTENDS Integers, FiniteSets, Sequences

CONSTANTS
  None,  \* the value of the variables of a component that is not at work
  \* ProxyPolicies
  Services, Segment, ProxyUrls, Pools, EnvLists, Executions, Options, Admins, NoPolicy,
  \* SdkClient
  RequestTimeout, WaitTimeout, Interval, AdaptiveIntervals, LongestDelay, SdkJobs, NoSdkJob,
  \* RateLimit
  Callers, WithKey, CallerRequests, Window, Slowest, GlobalLimit, KeyLimits, NoRecord, Unlimited,
  LastTick,
  \* Routing
  Workers, RoutedJobs, NoWorker, MaxAttempts, MaxStarts,
  \* JobIndex
  IndexedJobs, Writes, ApiWrites, Overviews, MaxRecords,
  \* JobsPage
  PageJobs, NoPageJob, PageLists, LastPage, Reruns,
  \* Dispatcher
  Words, Blank, Upper, Ints, Choices, Absent, OtherType, DispatchedJobs, NotDispatched, MaxPolls,
  \* DashboardSession
  Tasks, Kinds,
  \* ProxyPage
  PageServices, Listed, FormTexts, NoService, NoPagePolicy,
  \* TimeSeries
  Hour, HalfDay, MaxBuckets, Default, NotGiven, Offsets, Nows, Age, NotCounted

VARIABLES
  component,
  \* ProxyPolicies: administrators, workers and the policies in Redis
  proxyEnv, policy, listed, turns, adminRequest, resolvePc, resolveJob, chosen, proxy,
  moments, moved,
  \* SdkClient: a call of the Node SDK
  sdkPc, options, elapsed, deadline, aborted, pollCount, answer, sdkJob, status,
  storedResults, reserved,
  \* RateLimit: requests of one caller of the public API
  clock, caller, record, bucket, limitPc, arrived, limit, admitted,
  \* Routing: the queues of workers that may be restarted
  allowed, starts, consumed, heartbeat, declared, routedJob, routeStep, queue, holder,
  attempt,
  \* JobIndex: the list of jobs and the overview
  jobOf, writePc, version, index, overviewRequest, ids, overviewShown, cache, finished,
  promised, trimmed, overlapped, lateRequests,
  \* JobsPage: the jobs page of the dashboard
  address, navigation, selected, fetchedJob, jobRequest, missed, result, resultRequest,
  jobsPage, shownPage, pagedJobs, totalPages, loadingJobs, lists, crossed, reloaded, rerun,
  \* Dispatcher: its dispatcher page
  field, form, editing, editor, refused, touched, submit, lastJobId, lastResult, polls,
  answered, used,
  \* DashboardSession: what its pages share
  session, admin, shown, revealed, stored, busy, task, taskStep, load, signedOut, lateTasks,
  \* ProxyPage: its proxy page
  settings, global, retyped, selectedService, service, dirty, typed, saving,
  \* TimeSeries: the charts of the overview
  timeframe, lookback, askedAt, updatedAt, changeAt, before, after, seriesPc, counted

proxiesVars == <<proxyEnv, policy, listed, turns, adminRequest, resolvePc, resolveJob,
  chosen, proxy, moments, moved>>
sdkVars == <<sdkPc, options, elapsed, deadline, aborted, pollCount, answer, sdkJob, status,
  storedResults, reserved>>
limiterVars == <<clock, caller, record, bucket, limitPc, arrived, limit, admitted>>
routeVars == <<allowed, starts, consumed, heartbeat, declared, routedJob, routeStep, queue,
  holder, attempt>>
indexVars == <<jobOf, writePc, version, index, overviewRequest, ids, overviewShown, cache,
  finished, promised, trimmed, overlapped, lateRequests>>
pageVars == <<address, navigation, selected, fetchedJob, jobRequest, missed, result,
  resultRequest, jobsPage, shownPage, pagedJobs, totalPages, loadingJobs, lists, crossed,
  reloaded, rerun>>
dispatchVars == <<field, form, editing, editor, refused, touched, submit, lastJobId,
  lastResult, polls, answered, used>>
sessionVars == <<session, admin, shown, revealed, stored, busy, task, taskStep, load,
  signedOut, lateTasks>>
settingsVars == <<settings, global, retyped, selectedService, service, dirty, typed,
  saving>>
seriesVars == <<timeframe, lookback, askedAt, updatedAt, changeAt, before, after, seriesPc,
  counted>>
vars == <<component, proxiesVars, sdkVars, limiterVars, routeVars, indexVars, pageVars,
  dispatchVars, sessionVars, settingsVars, seriesVars>>

Proxies == INSTANCE ProxyPolicies WITH
  env <- proxyEnv, request <- adminRequest, pc <- resolvePc, job <- resolveJob,
  Urls <- ProxyUrls

Sdk == INSTANCE SdkClient WITH
  Jobs <- SdkJobs, NoJob <- NoSdkJob, pc <- sdkPc, job <- sdkJob, stored <- storedResults

Limiter == INSTANCE RateLimit WITH
  Requests <- CallerRequests, now <- clock, pc <- limitPc

Route == INSTANCE Routing WITH
  Jobs <- RoutedJobs, job <- routedJob, step <- routeStep

Index == INSTANCE JobIndex WITH
  Jobs <- IndexedJobs, pc <- writePc, request <- overviewRequest, shown <- overviewShown,
  late <- lateRequests

Page == INSTANCE JobsPage WITH
  Jobs <- PageJobs, NoJob <- NoPageJob, Lists <- PageLists

Dispatch == INSTANCE Dispatcher WITH
  Jobs <- DispatchedJobs, NoJob <- NotDispatched, result <- lastResult

Session == INSTANCE DashboardSession WITH
  step <- taskStep, late <- lateTasks

Settings == INSTANCE ProxyPage WITH
  Services <- PageServices, NoPolicy <- NoPagePolicy, selected <- selectedService,
  Texts <- FormTexts

Series == INSTANCE TimeSeries WITH
  now <- askedAt, pc <- seriesPc

ASSUME ServiceAssumption ==
  /\ Proxies!ProxyAssumption
  /\ Sdk!SdkAssumption
  /\ Limiter!RateLimitAssumption
  /\ Route!RoutingAssumption
  /\ Index!IndexAssumption
  /\ Page!JobsPageAssumption
  /\ Dispatch!DispatcherAssumption
  /\ Session!SessionAssumption
  /\ Settings!ProxyPageAssumption
  /\ Series!TimeSeriesAssumption

-----------------------------------------------------------------------------
\* Its variables hold nothing while another component is at work.
NoProxies ==
  /\ proxyEnv = None /\ policy = None /\ listed = None /\ turns = None
  /\ adminRequest = None /\ resolvePc = None /\ resolveJob = None /\ chosen = None
  /\ proxy = None /\ moments = None /\ moved = None
NoSdk ==
  /\ sdkPc = None /\ options = None /\ elapsed = None /\ deadline = None /\ aborted = None
  /\ pollCount = None /\ answer = None /\ sdkJob = None /\ status = None
  /\ storedResults = None /\ reserved = None
NoLimiter ==
  /\ clock = None /\ caller = None /\ record = None /\ bucket = None /\ limitPc = None
  /\ arrived = None /\ limit = None /\ admitted = None
NoRoute ==
  /\ allowed = None /\ starts = None /\ consumed = None /\ heartbeat = None
  /\ declared = None /\ routedJob = None /\ routeStep = None /\ queue = None
  /\ holder = None /\ attempt = None
NoIndex ==
  /\ jobOf = None /\ writePc = None /\ version = None /\ index = None
  /\ overviewRequest = None /\ ids = None /\ overviewShown = None /\ cache = None
  /\ finished = None /\ promised = None /\ trimmed = None /\ overlapped = None
  /\ lateRequests = None
NoPage ==
  /\ address = None /\ navigation = None /\ selected = None /\ fetchedJob = None
  /\ jobRequest = None /\ missed = None /\ result = None /\ resultRequest = None
  /\ jobsPage = None /\ shownPage = None /\ pagedJobs = None /\ totalPages = None
  /\ loadingJobs = None /\ lists = None /\ crossed = None /\ reloaded = None
  /\ rerun = None
NoDispatch ==
  /\ field = None /\ form = None /\ editing = None /\ editor = None /\ refused = None
  /\ touched = None /\ submit = None /\ lastJobId = None /\ lastResult = None
  /\ polls = None /\ answered = None /\ used = None
NoSession ==
  /\ session = None /\ admin = None /\ shown = None /\ revealed = None /\ stored = None
  /\ busy = None /\ task = None /\ taskStep = None /\ load = None /\ signedOut = None
  /\ lateTasks = None
NoSettings ==
  /\ settings = None /\ global = None /\ retyped = None /\ selectedService = None
  /\ service = None /\ dirty = None /\ typed = None /\ saving = None
NoSeries ==
  /\ timeframe = None /\ lookback = None /\ askedAt = None /\ updatedAt = None
  /\ changeAt = None /\ before = None /\ after = None /\ seriesPc = None /\ counted = None

Init ==
  /\ component \in {"proxies", "sdk", "limiter", "routing", "index", "jobs page",
       "dispatcher", "session", "proxy page", "series"}
  /\ IF component = "proxies" THEN Proxies!Init ELSE NoProxies
  /\ IF component = "sdk" THEN Sdk!Init ELSE NoSdk
  /\ IF component = "limiter" THEN Limiter!Init ELSE NoLimiter
  /\ IF component = "routing" THEN Route!Init ELSE NoRoute
  /\ IF component = "index" THEN Index!Init ELSE NoIndex
  /\ IF component = "jobs page" THEN Page!Init ELSE NoPage
  /\ IF component = "dispatcher" THEN Dispatch!Init ELSE NoDispatch
  /\ IF component = "session" THEN Session!Init ELSE NoSession
  /\ IF component = "proxy page" THEN Settings!Init ELSE NoSettings
  /\ IF component = "series" THEN Series!Init ELSE NoSeries

InProxies == component = "proxies"
  /\ UNCHANGED <<component, sdkVars, limiterVars, routeVars, indexVars, pageVars,
       dispatchVars, sessionVars, settingsVars, seriesVars>>
InSdk == component = "sdk"
  /\ UNCHANGED <<component, proxiesVars, limiterVars, routeVars, indexVars, pageVars,
       dispatchVars, sessionVars, settingsVars, seriesVars>>
InLimiter == component = "limiter"
  /\ UNCHANGED <<component, proxiesVars, sdkVars, routeVars, indexVars, pageVars,
       dispatchVars, sessionVars, settingsVars, seriesVars>>
InRoute == component = "routing"
  /\ UNCHANGED <<component, proxiesVars, sdkVars, limiterVars, indexVars, pageVars,
       dispatchVars, sessionVars, settingsVars, seriesVars>>
InIndex == component = "index"
  /\ UNCHANGED <<component, proxiesVars, sdkVars, limiterVars, routeVars, pageVars,
       dispatchVars, sessionVars, settingsVars, seriesVars>>
InPage == component = "jobs page"
  /\ UNCHANGED <<component, proxiesVars, sdkVars, limiterVars, routeVars, indexVars,
       dispatchVars, sessionVars, settingsVars, seriesVars>>
InDispatch == component = "dispatcher"
  /\ UNCHANGED <<component, proxiesVars, sdkVars, limiterVars, routeVars, indexVars,
       pageVars, sessionVars, settingsVars, seriesVars>>
InSession == component = "session"
  /\ UNCHANGED <<component, proxiesVars, sdkVars, limiterVars, routeVars, indexVars,
       pageVars, dispatchVars, settingsVars, seriesVars>>
InSettings == component = "proxy page"
  /\ UNCHANGED <<component, proxiesVars, sdkVars, limiterVars, routeVars, indexVars,
       pageVars, dispatchVars, sessionVars, seriesVars>>
InSeries == component = "series"
  /\ UNCHANGED <<component, proxiesVars, sdkVars, limiterVars, routeVars, indexVars,
       pageVars, dispatchVars, sessionVars, settingsVars>>

Next ==
  \/ InProxies /\ Proxies!Next
  \/ InSdk /\ Sdk!Next
  \/ InLimiter /\ Limiter!Next
  \/ InRoute /\ Route!Next
  \/ InIndex /\ Index!Next
  \/ InPage /\ Page!Next
  \/ InDispatch /\ Dispatch!Next
  \/ InSession /\ Session!Next
  \/ InSettings /\ Settings!Next
  \/ InSeries /\ Series!Next

Spec == Init /\ [][Next]_vars

-----------------------------------------------------------------------------
\* The variables of the component at work keep their types.
TypesOK ==
  /\ component = "proxies" => Proxies!TypeOK
  /\ component = "sdk" => Sdk!TypeOK
  /\ component = "limiter" => Limiter!TypeOK
  /\ component = "routing" => Route!TypeOK
  /\ component = "index" => Index!TypeOK
  /\ component = "jobs page" => Page!TypeOK
  /\ component = "dispatcher" => Dispatch!TypeOK
  /\ component = "session" => Session!TypeOK
  /\ component = "proxy page" => Settings!TypeOK
  /\ component = "series" => Series!TypeOK

\* A job goes out through the source of proxies that the code's order gives it at some
\* moment of the resolution, unless both policies that concern it changed meanwhile.
SourceWasRight == component = "proxies" => Proxies!SourceWasRight

\* A job goes out through the source of proxies that the documentation gives it.
DocumentedOrder == component = "proxies" => Proxies!DocumentedOrder

\* A wait of the SDK ends soon after its timeout.
WaitIsBounded == component = "sdk" => Sdk!WaitIsBounded

\* An aborted wait of the SDK asks for nothing more.
AbortedAsksNoMore == [][component = "sdk" => Sdk!AbortedStep]_vars

\* The public API admits no caller more often than its limit allows.
AdmittedPerMinute == component = "limiter" => Limiter!AdmittedPerMinute

\* A job reaches a worker that may process it and no queue that nobody declared, and one
\* for a worker waits where that worker takes jobs from.
JobsFindWorkers ==
  component = "routing" => Route!RightWorkerGetsIt /\ Route!TargetConsumesIt

\* A job is in the list once, and the overview shows what an operation of the API wrote
\* before it was asked for.
ListsShowWrites ==
  component = "index" => Index!SavedIsListedOnce /\ Index!WriteIsShown

\* What a page of the dashboard shows belongs together: the list (unless requests for it
\* crossed, or a re-run loaded another page), the selected job and its result; the
\* dispatched job and its result, and what the editor names and what is sent; and the
\* forms on proxies and the policies they are about.
PagesAgree ==
  /\ component = "jobs page" => Page!SettledPageAgrees
  /\ component = "dispatcher" => Dispatch!EditorIsSent /\ Dispatch!ResultIsOfLastJob
  /\ component = "proxy page" => Settings!FormIsDraftOrPolicy

\* The dashboard forgets a session that is signed out, and is never busy with nothing.
SignedOutForgets ==
  component = "session" => Session!SignedOutForgets /\ Session!NothingStaysBusy

\* The charts count every job that is recent enough in its own bucket, unless local time
\* changed or was repeated in that bucket, or changed between the job and the request.
JobsAreCharted == component = "series" => Series!JobsAreCharted
=============================================================================
