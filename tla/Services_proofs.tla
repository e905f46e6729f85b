--------------------------- MODULE Services_proofs ---------------------------
(***************************************************************************)
(* Proofs about the components of Services, for every value of their       *)
(* constants: what each of them keeps, put together.                       *)
(***************************************************************************)
EXTENDS ServicesApi_proofs, ServicesJobs_proofs, ServicesClients_proofs

\* The invariant of the component at work
Inv ==
  /\ component = "proxies" => ProxiesInv
  /\ component = "sdk" => SdkInv
  /\ component = "limiter" => LimitInv
  /\ component = "routing" => RouteInv
  /\ component = "index" => IndexInv
  /\ component = "jobs page" => PageInv
  /\ component = "dispatcher" => DispatchInv
  /\ component = "session" => SessionInv
  /\ component = "proxy page" => SettingsInv
  /\ component = "series" => SeriesInv

LEMMA InitKept == Init => Inv
<1> SUFFICES ASSUME Init PROVE Inv
  OBVIOUS
<1>1. /\ component = "proxies" => Proxies!Init
      /\ component = "sdk" => Sdk!Init
      /\ component = "limiter" => Limiter!Init
      /\ component = "routing" => Route!Init
      /\ component = "index" => Index!Init
      /\ component = "jobs page" => Page!Init
  BY DEF Init
<1>2. /\ component = "dispatcher" => Dispatch!Init
      /\ component = "session" => Session!Init
      /\ component = "proxy page" => Settings!Init
      /\ component = "series" => Series!Init
  BY DEF Init
<1> QED
  BY <1>1, <1>2, ProxiesInit, SdkInit, LimitInit, RouteInit, IndexInit, PageInit, DispatchInit,
     SessionInit, SettingsInit, SeriesInit DEF Inv

\* Every step is a step of one component, and the others stutter.
LEMMA Steps ==
  ASSUME [Next]_vars
  PROVE  /\ component' = component
         /\ [Proxies!Next]_(Proxies!vars) /\ [Sdk!Next]_(Sdk!vars)
         /\ [Limiter!Next]_(Limiter!vars) /\ [Route!Next]_(Route!vars)
         /\ [Index!Next]_(Index!vars) /\ [Page!Next]_(Page!vars)
         /\ [Dispatch!Next]_(Dispatch!vars) /\ [Session!Next]_(Session!vars)
         /\ [Settings!Next]_(Settings!vars) /\ [Series!Next]_(Series!vars)
<1> USE DEF Next, vars, InProxies, InSdk, InLimiter, InRoute, InIndex, InPage, InDispatch,
            InSession, InSettings, InSeries
<1>1. component' = component
  OBVIOUS
<1>2. [Proxies!Next]_(Proxies!vars)
  BY DEF proxiesVars, Proxies!vars
<1>3. [Sdk!Next]_(Sdk!vars)
  BY DEF sdkVars, Sdk!vars, Sdk!clientVars, Sdk!apiVars
<1>4. [Limiter!Next]_(Limiter!vars)
  BY DEF limiterVars, Limiter!vars
<1>5. [Route!Next]_(Route!vars)
  BY DEF routeVars, Route!vars
<1>6. [Index!Next]_(Index!vars)
  BY DEF indexVars, Index!vars, Index!writeVars, Index!overviewVars
<1>7. [Page!Next]_(Page!vars)
  BY DEF pageVars, Page!vars, Page!detailVars, Page!listVars
<1>8. [Dispatch!Next]_(Dispatch!vars)
  BY DEF dispatchVars, Dispatch!vars, Dispatch!formVars, Dispatch!jobVars
<1>9. [Session!Next]_(Session!vars)
  BY DEF sessionVars, Session!vars, Session!pageVars
<1>10. [Settings!Next]_(Settings!vars)
  BY DEF settingsVars, Settings!vars, Settings!serviceVars
<1>11. [Series!Next]_(Series!vars)
  BY DEF seriesVars, Series!vars, Series!inputs
<1> QED
  BY <1>1, <1>2, <1>3, <1>4, <1>5, <1>6, <1>7, <1>8, <1>9, <1>10, <1>11

LEMMA NextKept == Inv /\ [Next]_vars => Inv'
<1> SUFFICES ASSUME Inv, [Next]_vars PROVE Inv'
  OBVIOUS
<1> USE Steps
<1>1. component' = "proxies" => ProxiesInv'
  BY ProxiesNext DEF Inv
<1>2. component' = "sdk" => SdkInv'
  BY SdkNext DEF Inv
<1>3. component' = "limiter" => LimitInv'
  BY LimitNext DEF Inv
<1>4. component' = "routing" => RouteInv'
  BY RouteNext DEF Inv
<1>5. component' = "index" => IndexInv'
  BY IndexNext DEF Inv
<1>6. component' = "jobs page" => PageInv'
  BY PageNext DEF Inv
<1>7. component' = "dispatcher" => DispatchInv'
  BY DispatchNext DEF Inv
<1>8. component' = "session" => SessionInv'
  BY SessionNext DEF Inv
<1>9. component' = "proxy page" => SettingsInv'
  BY SettingsNext DEF Inv
<1>10. component' = "series" => SeriesInv'
  BY SeriesNext DEF Inv
<1> QED
  BY <1>1, <1>2, <1>3, <1>4, <1>5, <1>6, <1>7, <1>8, <1>9, <1>10 DEF Inv

LEMMA Inductive == Spec => []Inv
BY InitKept, NextKept, PTL DEF Spec

-----------------------------------------------------------------------------
\* Whichever component runs keeps its types.
THEOREM TypesCorrect == Spec => []TypesOK
<1>1. Inv => TypesOK
  BY DEF Inv, TypesOK, ProxiesInv, SdkInv, LimitInv, RouteInv, IndexInv, PageInv, DispatchInv,
         SessionInv, SettingsInv, SeriesInv
<1> QED
  BY <1>1, Inductive, PTL

\* The source of proxies that a job settles on is the one that the code's order of them
\* gives it at a moment of its resolution, unless two policies changed meanwhile
\* (resolveForJob).
THEOREM SourcesWereRight == Spec => []SourceWasRight
<1>1. Inv => SourceWasRight
  BY DEF Inv, SourceWasRight, ProxiesInv
<1> QED
  BY <1>1, Inductive, PTL

\* A wait of the SDK outlives its timeout by a request and one more request or sleep.
THEOREM WaitsAreBounded == Spec => []WaitIsBounded
<1>1. Inv => WaitIsBounded
  BY SdkBounded DEF Inv, WaitIsBounded
<1> QED
  BY <1>1, Inductive, PTL

\* Once a call has seen the abort it asks for no status or result and does not sleep.
THEOREM AbortsAreFinal == Spec => AbortedAsksNoMore
<1>1. Inv /\ Inv' /\ [Next]_vars => [component = "sdk" => Sdk!AbortedStep]_vars
  BY SdkAborted, Steps DEF Inv
<1> QED
  BY <1>1, Inductive, PTL DEF AbortedAsksNoMore, Spec

\* A window of the rate limit admits no more requests of a caller than the highest limit
\* that was applied allows in the buckets that the window can touch.
THEOREM AdmissionsAreLimited == Spec => []AdmittedPerMinute
<1>1. Inv => AdmittedPerMinute
  BY LimitHolds DEF Inv, AdmittedPerMinute
<1> QED
  BY <1>1, Inductive, PTL

\* A job is never processed by a worker that must not, never sent to a queue that nobody
\* declared, and one with a target waits where that worker takes jobs from.
THEOREM JobsAreRouted == Spec => []JobsFindWorkers
<1>1. Inv => JobsFindWorkers
  BY RouteServes DEF Inv, JobsFindWorkers
<1> QED
  BY <1>1, Inductive, PTL

\* A saved job is in the list once, and an overview shows what the API wrote before.
THEOREM WritesAreShown == Spec => []ListsShowWrites
<1>1. Inv => ListsShowWrites
  BY IndexShows DEF Inv, ListsShowWrites
<1> QED
  BY <1>1, Inductive, PTL

\* What the pages of the dashboard show belongs together: the selected job and its detail
\* and result, unless the request for the job was refused; the list and the page that was
\* asked for last, unless requests for it crossed (after a re-run or cancellation that is
\* the page it was clicked on, whichever is displayed); what the JSON editor names and what
\* is sent, for every text, number and table, where what it omits or gives in another
\* type is sent as the form has it; the last job and its result; and the forms on proxies
\* and their policies or drafts.
THEOREM PagesAreRight == Spec => []PagesAgree
<1>1. Inv => PagesAgree
  BY PageAgrees DEF Inv, PagesAgree, DispatchInv, SettingsInv
<1> QED
  BY <1>1, Inductive, PTL

\* After a sign-out only handlers that were under way then put anything back, and no flag
\* stays set when no handler is under way.
THEOREM SessionsAreForgotten == Spec => []SignedOutForgets
<1>1. Inv => SignedOutForgets
  BY SessionForgets DEF Inv, SignedOutForgets, SessionInv
<1> QED
  BY <1>1, Inductive, PTL

\* The time series count a job in the bucket it falls into, for every lookback, length of
\* the hour and half day, and local time, with a change of it at any moment: when neither
\* the bucket of the job nor that of the request holds the change or repeated times, and
\* the change is not between them, or is by full hours and the buckets are hours.
THEOREM ChartsAreRight == Spec => []JobsAreCharted
<1>1. Inv => JobsAreCharted
  BY SeriesCharted DEF Inv, JobsAreCharted
<1> QED
  BY <1>1, Inductive, PTL
=============================================================================
