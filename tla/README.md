# A TLA+ model of Crawlix

Crawlix takes scrape jobs over HTTP, queues them in RabbitMQ, runs them on
workers, keeps their records and results in Redis, and reports every finished
job by webhook. This directory specifies the parts of it in which several
actors write shared state, model-checks them with TLC, and proves the
properties that matter most with TLAPS. Paths below are relative to the
repository.

Contents: [the system](#1-the-system), [the plan](#2-the-plan),
[modules and code](#3-modules-and-code), [runs](#4-runs),
[bounds](#5-bounds), [fairness](#6-fairness), [proofs](#7-proofs),
[where the code disagrees with its documentation](#8-disagreements),
[what is not modelled](#9-not-modelled).

## 1. The system

### Processes and shared state

* **API** (`apps/api`, NestJS): accepts jobs, retries and cancel requests, lists
  jobs and workers, manages API keys and proxy policies. Any number of requests
  run concurrently; they interleave at every `await`.
* **Workers** (`apps/worker`): each consumes job queues with a prefetch of
  `WORKER_CONCURRENCY`, runs several jobs concurrently in one event loop, and
  also dispatches webhooks.
* **Redis**: one JSON document per job record and per result, an index of job
  ids, idempotency keys with a TTL, worker heartbeats with a TTL, API keys, proxy
  policies, round-robin counters. A record is changed by `GET`, patch, `SET`;
  there are no transactions.
* **RabbitMQ**: a queue per routing strategy (`http`, `playwright`), one more per
  worker for targeted jobs, each with a delayed retry queue (message TTL and
  dead-letter exchange) and a dead-letter queue; and the same trio for webhooks.
* **Dashboard** (`apps/web`, React): handlers, effects and requests of one browser
  tab, which interleave with each other and with the answers of the API.
* **Callers** that use the Node SDK (`packages/sdk-node`). The webhook receiver,
  the scraped sites and browsers are outside.

### Components

| Component | State | Operations | What is hard | What makes it correct |
|---|---|---|---|---|
| Job life cycle (`queue-consumer`, `job-processor`, both `job-store`s, `jobs.service` cancel) | record, result, queues, deliveries, threads | enqueue, deliver, watchdog race, process, retry, dead-letter, ack, cancel, bootstrap | awaits between reads and writes of one record; a watchdog that abandons but does not stop; crashes; redelivery | no published job leaves the queues unreported; attempts end; a cancelled job stays cancelled; every job leaves the queues |
| Webhook delivery (`webhook-dispatcher`, `webhook-event`) | webhook queues, POSTs under way | enqueue, POST with abort timer, retry, dead-letter, ack | a POST that timed out may still be processed; crash between retry and ack | no event is lost; a bounded number of POSTs |
| Enqueue (`jobs.service` enqueue and retry, `scrape-cache`, `queue-publisher`) | idempotency keys, records, results | create, retry, API-side cache hit | parallel writes, partial failure without rollback, concurrent requests with one key | an answered job exists and is at work; one job per key |
| Worker registry and heartbeat | heartbeat keys, worker index, rotation counters | heartbeat, shutdown, list with clean-up, choose | expiry; clean-up racing a heartbeat; concurrent choices | live workers are listed, dead ones are not; round robin is even |
| Routing of targeted jobs | per-worker, per-strategy queues | route, subscribe, retry, restart | publication and restart race; `auto` jobs | a job is only sent where a queue exists, and only a worker that may take it gets it |
| API keys and rate limit (`api-key.service`, rate-limit middleware) | key records, key list, in-memory buckets | create, validate, revoke, delete, count | read-modify-write of one record by every request; the clock is read before an await | an ended key is refused, uses are counted; a limit holds per minute |
| Scraper (`packages/scraper`) | strategy plan, attempts, browsers, idle timers | plan, execute with fallback and retries, launch, reuse, close | launches and closings are awaits | every allowed strategy is tried the right number of times; every browser is closed |
| Job index, lists, overview cache, time series | Redis list, in-memory cache | save, trim, list, compute, invalidate, bucket | four commands per update without a transaction; invalidation during a computation; local time that changes | every recent job listed once; no stale overview after an operation; each job in its own bucket |
| Proxy policy (both services) | policies, their index, rotation | save, delete, resolve, take a turn | two reads with a change in between | the source a job uses was right at some moment |
| Node SDK | its clock and options | create, poll, wait for the result, abort | a deadline looked at between requests only; a record others write | a wait ends soon after its timeout; an abort stops it |
| Dashboard session and pages | what is loaded, selected, typed, under way | sign in and out, load, select, dispatch, save | answers out of order, effects, transitions, a poll every few seconds | what is shown belongs together; nothing is left after a sign-out |
| Runtime configuration | environment | read, validate, start | validated values are read a second time, unvalidated | a process that runs has values its services assume (not modelled, see section 9) |
| Health, logging, observability; documentation; deployment | | | | not modelled |

### How they interact

`POST /jobs` → record and key in Redis → message in RabbitMQ → a worker's
`handleMessage` → `process()` → the scraper → record and result in Redis →
webhook message in RabbitMQ → some worker's dispatcher → the receiver. Clients
poll the record meanwhile, and `POST /jobs/:id/cancel` writes it from the side.
Heartbeats tell the API which workers exist, which decides the queue of a
targeted job. Before it scrapes, a worker resolves the proxy of the job from
policies that the dashboard changes.

`PROJECT.json` lists the hazards of this code, each at its line, with the
properties that cover it.

## 2. The plan

| Order | Module | State |
|---|---|---|
| 1 | `JobStore`, `JobLifecycle`, abstract `RetryQueue` | written, checked; safety and refinement proved |
| 2 | `WebhookDelivery`, implementing the same `RetryQueue` | written, checked; safety and refinement proved |
| 3 | `Enqueue` | written, checked, all its invariants proved |
| 4 | `WorkerRegistry`, `Routing` | written, checked; safety proved |
| 5 | `ApiKeys`, `RateLimit` | written, checked, proved |
| 6 | `Scraper` | written, checked; safety proved |
| 7 | `JobIndex`, `TimeSeries` | written, checked, proved |
| 8 | `ProxyPolicies`, `SdkClient` | written, checked, proved |
| 9 | `DashboardSession`, `JobsPage`, `Dispatcher`, `ProxyPage` | written, checked, proved |
| 10 | Composition of `Enqueue` with `JobLifecycle` over the shared record | left |
| 11 | Status fields of the heartbeat (`worker-heartbeat.service.ts:124`), the lazily opened channel (`queue-publisher.service.ts:37`), payloads that are not JSON | left |

Every invariant and every action property that the passing runs check is stated by
a theorem; liveness is left to TLC. With item 10 it is to be proved that what `Enqueue`
saves before it publishes is what `JobLifecycle` starts from.

Composition. `JobLifecycle` and `WebhookDelivery` both refine `RetryQueue`, so
whatever holds of that queue holds of both. Modules that share no state are
checked together: in `Components` and `Services` the initial state picks a
component, and only that one takes steps, so that TLC explores the sum of their
state spaces and not the product. Both have the constants of all their components
and assume of them what each component assumes (`ComponentAssumption`,
`ServiceAssumption`), so that their invariants, which the runs check, are also what
the theorems state.

`MCJobLifecycle`, `MCEnqueue`, `MCWebhookDelivery` and `MCServices` give those constants
of the module they are named after that a configuration cannot write down.

## 3. Modules and code

A step of a model is the code between two awaits. `PROJECT.json` maps every
definition to its lines.

### JobStore

The job record, reduced to `status` and `stage`, and what `updateStatus` and
`updateProgress` do to a record that was read. URL, options, progress numbers and
time stamps are data that no property tells apart.

### JobLifecycle

*State.* `record`, `result`: Redis. `queue[c]`, `body[c]`: for each message copy,
where the broker has it (`free`, `ready`, `delayed`, `unacked`, `dead`) and which
attempt of which job it carries. `pc`: the next step of each thread. `seen`: the
record that the `GET` of a thread's unfinished update returned; `hitSeen` is a
second one, since a cache hit runs two updates in parallel. `msg`, `held`,
`outcome`: what a delivery is about, the copy to acknowledge, and what `process()`
has answered. `events`: webhook messages per job and status. `channel`, `ignored`:
whether a worker's consumer has its channel, and the deliveries that came before.

*Threads.* `Handler(r)` is `handleMessage` of one delivery, `Process(r)` the
`process()` it started (which outlives it when the watchdog fires), `Cancel(x)` one
cancel request.

*Steps.* `After` gives the straight-line order of the awaits; `RecordGet`,
`RecordSet`, `SaveResult` and `EnqueueEvent` are the four kinds of step that
threads share. The branches have actions of their own: `Read` (the cancelled job),
`Lookup` (cache, strategy restriction), `Scrape`, the `Hit...` actions for the
`Promise.all` of a cache hit, `Settle` and `WatchdogFires` for the race,
`OnFailure`, `SendRetry`, `SendDeadLetter`, `Ack`. `Throw` and `HitFails` let every
call to Redis or RabbitMQ be refused. `Crash` kills a worker at any point and
redelivers what it held. `Ignore` and `Bootstrapped` are the window in
`onApplicationBootstrap` between `channel.consume` and the assignment of
`this.channel`.

*`enabled`* is the set of events that a behaviour lets happen, chosen at the start from
the constant `Environments` and never changed. A property about fewer faults names
them in its hypothesis (`OneWriter`, `OnlyScrapesFail`), so one run covers several sets,
and the proofs hold for all of them.

*Abstractions.* The queue is a bag (order is lost by the retry queue anyway). The
prefetch is counted per worker; RabbitMQ counts it per consumer, which allows more
concurrency. A Redis failure in the catch block of `handleMessage` is an unhandled
rejection, that is `Crash`; so is the end of a worker that shuts down while it
handles deliveries. Jobs have a webhook URL. Publishing failures are in `Enqueue`.

### RetryQueue

What a queue with delayed retries promises, without a consumer: a delivery ends
only in an acknowledgement; only resolved deliveries are acknowledged; a delivery
is resolved by success, by a retry with the next attempt, or by a dead letter after
the last. Both consumers are shown, and proved, to implement it
(`ImplementsRetryQueue`), with `resolved` mapped to the copies held by handlers that
have come to their `ack`.

### WebhookDelivery

The dispatcher, with the receiver split off: whether it *processed* a POST and
whether the dispatcher *saw* a 2xx answer (`delivered`) are different facts. `late`
counts POSTs whose sender gave up or died and which the receiver may still process.
There is no prefetch in that channel: `Runs` are only slots. Between `sendToQueue` and
`ack` there is no await, so nothing else happens in a worker between them (`AtAwait`),
but its connection may end there. A crash also stands for a shutdown, which does not
wait for deliveries.

### Enqueue

One request per job, so a job is named after its request. `pc` follows
`enqueueFromInput` and `retry` await by await; `todo` holds the branches of the
`Promise.all` of a cache hit. The Redis commands of those branches go out in list
order on one connection (`Earlier`); the event goes to RabbitMQ at any time. `Fail`
is a refused call or the death of the API: nothing is rolled back.
`overlapped` and `expired` are history variables: keys whose requests were in
flight together and keys whose entry reached its TTL.

### WorkerRegistry and Routing

`WorkerRegistry` has the heartbeat (`SADD`, `SET EX`), the shutdown (`DEL`, `SREM`)
with a heartbeat possibly still under way, `listWorkers` (`SMEMBERS`, `GET`s, `SREM`
of the missing) and the `INCR` of the rotation. Time is left out: the key of an
unstable worker may expire at any moment. Workers start up and indexed.

`Routing` follows one job from `getWorkerById` and the strategy check of the API to
its end: the queue it is published to, a shared one or one of a worker; the
declaration and consumption of queues when a worker starts, possibly with other
strategies than the last time under the same id; the retry and dead-letter queues
that the worker computes from the message; and the worker's own check. A message
sent to a queue that nobody declared is dropped, as RabbitMQ does.

### ApiKeys and RateLimit

`ApiKeys`: `create`, `validate` (which writes the record back to count the use),
`revoke` and `delete`, each a read and one or two writes. `overlapped` records that
two requests had a key in hand together.

`RateLimit`: one bucket of the middleware. The time is read when the request
arrives, the bucket is looked at after the key was validated, so a bucket may be
opened by a request whose time is older than that of the one before. `admitted` is
when a request went on to its handler.

### Scraper

`StrategyPlan` is the pure function from the requested strategy, the default and
the allowed strategies to a primary and a fallback. `execute` is attempts, fallback
and backoff; the outcome of an attempt is a choice, and it may hang. The pool has
one entry (entries share nothing), a fleet of all browsers ever launched, and an
idle timer; `getBrowser` and `closeBrowser` are split at their awaits. `raced`
records that two launches, or two closings of one browser, overlapped.

### JobIndex and TimeSeries

`JobIndex`: every record write is `SET`, `LREM`, `LPUSH`, `LTRIM`, each a step, by
requests of the API (which clear the overview cache when their operation ends well)
and by workers (which do not). Records are versions: the number of the `SET` that
wrote them. The list is a function from places, and an `LREM` leaves its place free:
only order and number of the entries tell. An overview looks into the cache, reads the
list, then the records, and is cached; `late` are those that computed while an operation ended, `promised` what
had ended when one was asked for.

`TimeSeries`: the layout of the buckets of an hour, half a day and a day, the lookback
with its limits, and the bucket a job is counted in. The local time of the API's host
changes at one moment, forward or back. `local` and `dateOf` are the two directions of
the conversion as `Date` makes it: `dateOf` takes a local time that occurs twice for
its first occurrence, and one that is skipped for as much later. `getBucketStart`
follows the code call by call, since `setMinutes` and `setHours` each convert there and
back.

### ProxyPolicies

Policies of the cluster and of services, saved and deleted by two commands each (the
value and the index set), and `resolveForJob` of a worker: forced proxies of the
environment, the service's policy, the cluster's, the job's own URL, the
environment's list, and the rotation counter. `moments` collects what was right at
each moment of a resolution, `moved` the scopes that changed meanwhile. Two services
may have the same key segment (`Segment`), and one may even be called `global`.

### SdkClient

`createAndWait` and `createAndWaitAdaptive`: the create request, the loop of
`waitForCompletionInternal`, the wait for the result, the deadline, the timeout of
each request and the abort signal, in ticks. `resolveAdaptiveInterval` is defined by
what it picks, without its sorting. The API behind it may take a status back from
`failed` or `timeout`, as a retry does, and stores the result after the status.

### DashboardSession, JobsPage, Dispatcher, ProxyPage

`DashboardSession` is the session provider: every handler is a task that posts,
applies the answer and starts its loads; tasks overlap, and no task is stopped by a
sign-out. `JobsPage`: the list with its page, the selection and the address of the
page (which follow each other through a transition and an effect), the requests for
the selected job and its result, which are cancelled, and those for the list, which
are not. A re-run or a cancellation reloads the page it was clicked on (`rerun.page`,
from the closure), whichever is displayed by then; `reloaded` remembers that page.
`Dispatcher`: the form and the JSON editor over one payload, the submission and the
polling of the last job's result. A behaviour follows one field of the form, of any of
the eight kinds (`Fields`), through its conversions: `Applied` from JSON to the control
(url trimmed, method in upper case, numbers truncated, targets emptied when omitted),
`buildFullPayload` from the control to the payload (texts trimmed, blank ones, blank
rows and unreadable numbers left out), and `Sent`, where `handleCreateJob` trims the
url. `Valid` is what `applyPayloadFromJson` does not refuse: a number, text or method
of another type is ignored, everything else of another type refuses the whole text. A
text is a word, or none, with or without spaces around it, a number an integral part
with or without a fraction, a table of headers or form data the keys of its rows.
`ProxyPage`: the two forms on policies, the drafts in them, each `typed` for one
service, and the settings that are loaded anew every ten seconds. React runs
an effect with the commit that triggers it; that is why effects are part of the
action that changes what they depend on.

## 4. Runs

| Run | What it checks |
|---|---|
| `JobLifecycle` | One job and one worker with every fault at once: scrapes fail, calls are refused, the watchdog fires, a cache hit, early deliveries, and a crash at any step; the same without a watchdog and a cache; a cancel request among cache hits and refused calls; and twice only the scrape fails, with and without cache hits. Types, `SettledIsReported` (nothing is lost), `DeadLetterIsReported`, `OneMessagePerJob`, `SettledAgrees` (record and result agree), `CancellationHolds`, `OneEventPerJob`, `StatusFollows` (an announced job keeps its status, and `failed` is taken back only for another attempt), refinement of `RetryQueue`. |
| `JobLifecycle_live` | Every published job is reported and leaves the queues although every `process()` may hang. |
| `WebhookDelivery` | No event lost, at most `MaxAttempts * 2^crashes` POSTs, every event settled, refinement of `RetryQueue`. |
| `Enqueue` | Three requests with one key, or none, manual retries among them: a message has a record, an answer can be read and is at work, one job per key. |
| `Components` | `WorkerRegistry`: the dead are not listed, the running are again, rotation is even (`ChoicesAreRight`, `IndexFollowsWorkers`). `ApiKeys`: uses are exact, ended keys refused. `Scraper`: failures are exhaustive, open browsers pooled and closed in the end. |
| `Services` | The other ten components. `SourceWasRight` (`ProxyPolicies`), `WaitIsBounded`, `AbortedAsksNoMore` (`SdkClient`), `AdmittedPerMinute` (`RateLimit`), `JobsFindWorkers` (`Routing`), `ListsShowWrites` (`JobIndex`), `JobsAreCharted` (`TimeSeries`), `PagesAgree` (`JobsPage`, `Dispatcher`, `ProxyPage`), `SignedOutForgets` (`DashboardSession`). |
| `JobLifecycle_doc_polling`, `_doc_cancelled`, `_doc_startup`, `_doc_failed`, `Enqueue_doc_retries`, `Services_doc_proxy` | A sentence of the documentation or the code that the code does not keep: see section 8. |

Each property of a passing run has a mutant in `PROJECT.json`: a plausible bug in a
definition that makes TLC find the property violated. Mutated forms stand right
before the definition they change, under a comment that begins with "Mutation".

Some properties carry a condition, which is part of what they say, because the code
gives no guarantee beyond it:

* `SettledAgrees` is about jobs whose record one actor writes at a time (`OneWriter`), and
  `OneEventPerJob` about behaviours in which only scrapes fail: a watchdog that fires
  after the result was stored does produce a second event. `CancellationHolds` excepts
  a call that is refused while the worker reports the cancellation, and a watchdog.
  `StatusFollows` is about behaviours in which only scrapes fail and nothing is cached;
  it does not say that `failed` is final, as the documentation does (section 8).
* `OneJobPerKey` is for requests of a key that do not overlap, since the key is
  written without `NX`.
* `SerialUseIsExact`, `EndedIsRefused`, `OpenIsPooled` and `SavedIsListedOnce` are for
  keys, browsers and jobs on which no two read-modify-writes overlapped.
* `SourceWasRight` means right by the order of `resolveForJob`, which is not the
  documented one (section 8), and excepts a resolution during which both of its
  policies changed. `WriteIsShown` excepts an overview computed while an operation
  ended. `AdmittedPerMinute` allows for the buckets that one minute can touch.
  `TargetConsumesIt`, in `JobsFindWorkers`, is for jobs with a strategy of their own:
  an `auto` job may be sent to a target that does not consume its queue.
* `JobsAreCharted` excepts jobs and requests in whose own bucket local time changed or
  was repeated (`Regular`), and across a change it is for hours only, if local time
  changes by full hours: a job in the second of two equal hours is counted in the
  bucket of the first, and a job of a day before the change in none.
* `SettledPageAgrees`, in `PagesAgree`, excepts the job whose request was refused and
  the list when two requests for it crossed; after a re-run or a cancellation the list
  shown is that of the page it was clicked on, which need not be the page whose number
  is displayed.
* `EditorIsSent`, in `PagesAgree`, is for what the editor names: options it omits and
  numbers or texts of another type are sent as the form has them from before.
* `SignedOutForgets` excepts what requests under way at the sign-out put back (`late`).

Those exceptions are real behaviours of the code; the history variables that delimit
them (`overlapped`, `late`, `moved`, `raced`, `crossed`, `reloaded`) make sure that nothing else is
excepted. Where a property excepts exactly the race of a hazard, `PROJECT.json` does not
name it under that hazard, and says so there.

## 5. Bounds

* `MaxAttempts = 2`: one attempt that is retried and one that is the last. More
  repeat the first kind.
* `MaxCrashes = 1` gives a crash at every step, recovery included. Two runs of one
  worker (`JobLifecycle_live`) let an abandoned `process()` overlap the next attempt.
  `WebhookDelivery` has a worker with two deliveries, which a crash may bring back
  together, and a second worker on which a retry can go on meanwhile.
* `Copies` is the largest number of messages the instance can have at once, so that
  no send ever waits for one: with one delivery at a time a job needs 2 (its message
  and the retry sent before the acknowledgement) and one more per crash.
* One job in the runs of `JobLifecycle`: jobs share nothing but the prefetch of their
  worker and the cache, whose hits are a choice of the model. The theorems are for
  every set of jobs and runs.
* Three requests in `Enqueue`: the creator, an overlapping or later one with the
  same key, and a manual retry or a third reader. Four in `ApiKeys`: two uses, a
  revocation and a deletion.
* Two workers, of which one is unstable with one restart, and two requests in
  `WorkerRegistry`: a rotation needs two. Two executions with `MaxRetries = 1` in
  `Scraper`: races in the pool need two.
* `Services`: two administrators and a resolution, which is what it takes to change
  both policies between its reads; an SDK timeout of two ticks with requests of one
  and sleeps of up to two; four requests of one caller within two windows; two
  starts of one worker and one of another; three record writes, one of them of the
  API, two overviews and a list of two; two requests for the list of jobs and two
  pages; two handlers under way in the dashboard; two words, one the upper case of
  the other, and an empty one, each with and without spaces, one integral part of numbers,
  two polls and two dispatched jobs in the dispatcher (numbers are below 10^21, from
  where `String` writes an exponent); hours of two ticks and half days of two hours, so
  that a day of the model has eight ticks, local time ahead by 0, 1 or 2 ticks before
  and after the change (so it changes by half an hour or an hour, forward and back, or not
  at all), requests at two times (one of them not at the start of any bucket), jobs and
  changes up to 18 ticks earlier, more than the two buckets of a day that the answer has.
  A second change of local time within that span is left out.
* Copies are interchangeable model values (`CopySymmetry`), the requests of `Enqueue`
  as well. TLC's symmetry is not sound for liveness;
  `JobLifecycle_live` instead takes the specification `FairSpecInOrder`, in which the
  first message is a fixed copy and the first delivery goes to a fixed run. Every
  behaviour is one of these up to the names of copies and runs, which neither the
  fairness nor the properties mention singly.
* Deadlock is not checked: a system whose jobs are all settled stops.

## 6. Fairness

* `JobLifecycle`: weak fairness of each handler (an event loop runs callbacks that
  are ready, the watchdog timer included), of the retry queue's TTL and of the end
  of bootstrap. **Not** of `process()`: a page may hang for ever. Cancel requests
  and the API are unfair.
* `WebhookDelivery`: weak fairness of the dispatcher, whose abort timer ends every
  fetch, and of the TTL. The receiver is unfair.
* `WorkerRegistry`: a running worker's timer fires and its commands complete; Redis
  expires what nobody renews. Requests are unfair.
* `Scraper`: the idle timer fires and `browser.close()` returns. Executions may
  hang.
* The components of `Services` need none: their properties are about what may never
  happen.

`JobLifecycle_live` lets the worker have its channel before the job is published;
`JobLifecycle_doc_startup` shows what happens without that assumption.

## 7. Proofs

Eight modules hold proofs, and every invariant and action property of the passing runs
has its theorem. None of the theorems bounds a set or a number that the runs bound.

**`JobLifecycle_proofs`** holds for every set of jobs, workers, runs, copies and
cancel requests, every number of attempts and crashes, and every choice of
`Environments`. It assumes `LifecycleAssumption` (each run belongs to a worker; the numbers are
natural, prefetch and attempts positive; `NoCopy` is no copy) and
`NoMessageAssumption` (`NoMessage` is no message).

* `Inductive`: `Spec => []IInv`. `SettledIsReported` alone is not inductive: whether
  an acknowledgement may remove the last copy depends on what the handler did
  before. `IInv` adds, in the order in which they are needed:
  * `CopiesCarryMessages`, `HandlersHoldCopies`, `IgnoredAreUnheld`: who holds which
    delivery, each by one actor only;
  * `ProcessReports`, `HandlerReports`: what has been stored and announced by the
    time each thread reaches each step (on a cache hit only as long as no branch of
    the `Promise.all` was refused);
  * `AcksAreCovered`: at `ack`, the job is reported or a *later attempt* of it is
    live. The order on attempts is essential. With "another copy is live" two
    handlers of one job, both at `ack` after a redelivery, could each rely on the
    other's copy and both acknowledge. With later attempts the relation is
    well-founded: the handler with the highest attempt must rely on a report or on a
    copy that nobody is acknowledging, and `AckIInv` carries that down by
    transitivity in one step.
* `TypeCorrect`, `NoJobIsLost` (`SettledIsReported`) and `DeadLettersAreReported`
  follow from it.
* `Implements`: every step of the consumer is a step of `RetryQueue` or a stutter,
  under the invariant. Steps of `process()`, of cancel requests and of handlers
  between their broker calls stutter; a crash makes the held deliveries ready again.
* `OneAtATime` (`OneMessagePerJob`) needs one more conjunct, `CopiesArePublished`: the
  API's publication is the first message of a job.
* `CancellationIsKept` (`CancellationHolds`) rests on `Orderly` (what does not happen in
  an environment that leaves a fault out, and which reads belong to an update),
  `SavedFirst` (nobody acts for a job that is not saved) and `AnswersOnce` (a
  `process()` has one answer).
* `SettledRecords` (`SettledAgrees`) follows the one writer of a record through its
  steps: `WritesAgree` says at each of them what record and result are and what the
  read under way returned, and that a published job is pending or agrees.
* `AnnouncedOnce` (`OneEventPerJob`): `EventsAreCounted` fixes the number of events of a
  job at every step, 0 until the step that announces it and 1 from then on.
* `StatusIsFollowed` (`StatusFollows`): `StatusIsKnown` is the status that each step of
  an attempt finds, and `EventsAreCounted` says that nothing was announced before the
  steps that still change it.

The conditions of these four are hypotheses inside the properties, so the theorems are
about every environment and say something about those that meet them.

Each action has a lemma. Steps that leave the broker alone go through `QuietStep`,
and those of `process()` through `ProcessStep`, which ask only what the two threads
of the run must have reported.

**`WebhookDelivery_proofs`**: `TypeCorrect`, `EventsAreKept` (`NoEventIsLost`) and
`Implements`, by the same argument on attempts; `DeliveryAssumption` includes that
there are finitely many runs, which the count of late POSTs at a crash needs.
`PostsBounded` (`PostsAreBounded`) counts by naming: every copy of an event is in a
*line*, a set of crashes. A retry continues the line of its delivery, and a crash adds
itself to the line of each delivery it brings back. `PostsAreOnLines` says that no two
active copies of an event are in one line, and that no two POSTs have the same line and attempt; there are `2^crashes` lines and
`MaxAttempts` attempts. Two deliveries that one crash brings back must not have been
in one line, which holds because a worker cannot take the retry while it has yet to
acknowledge the delivery (`AtAwait`): were there an await between `sendToQueue` and
`ack`, a crash could do more than double the POSTs.

**`Enqueue_proofs`** holds for every set of requests and keys and every choice of its
constant `Enabled`, under `EnqueueAssumption` (the special values are distinct). Its invariant
consists of `Written` (what a request has written by each step), `JobsAreKept` (a job
with a record was sent or completed, or its request goes on or failed),
`NamedAreReadable` (a job that a key or a reader leads to can be read),
`OverlapsAreNoted` (the history variable is right) and `KeysLeadToJobs` (until
something overlaps or expires, the key leads to the job that is published or
answered, and a request that creates one has found none). The theorems are
`TypeCorrect`, `MessagesHaveRecords`, `AnswersCanBeRead`, `AnswersAreAtWork` and
`KeysAreIdempotent`: all invariants that the run checks.

**`Components_proofs`** states the properties of the run `Components` as that run checks
them. `Steps` shows that a step of `Components` is a step of one component, of which the
other two stutter, so the invariant of each is proved from its own actions.

* `TypesCorrect`; the absent record of a key is assumed to be no record.
* `ChoicesCorrect` (`ChoicesAreRight`): a worker that is off has no heartbeat under way, so
  its key cannot come back (`StaysGone`); and while all requests find the same `n` workers,
  after `t` rounds and `p` more turns the first `p` of them have had `t + 1` turns and
  the others `t` (`TurnsFollow`). The list a choice is made from has each of the workers
  found once (`SortedList`).
* `SerialUseExact` and `EndedAreRefused`: a request that is alone with its key still holds
  what is stored.
* `FailuresExhaust` (`FailureIsExhaustive`): the tries of an execution with each strategy are
  determined by its plan, its attempt and the strategy it is at (`TriesAreCounted`).
* `BrowsersArePooled` (`OpenIsPooled`): as long as nothing overlapped, the pool holds what is
  open or being closed, and nothing while a browser is launched (`PoolIsKept`).

**`ServicesApi_proofs`, `ServicesJobs_proofs` and `ServicesClients_proofs`** prove an
invariant of each component of `Services`, and **`Services_proofs`** puts them together
(`Inv`, again by a lemma `Steps`) and states the theorems:

* `AdmissionsAreLimited` (`AdmittedPerMinute`). A bucket counts, and the requests it
  counted are not recorded. `CountsAreKept` says that each request that was counted can
  be given the end of a bucket and a place below its limit, no two the same, and that
  the present bucket holds the highest places; a window then injects into the places
  of the buckets that it touches.
* `WritesAreShown` (`ListsShowWrites`): a computation during which no operation ends owes
  exactly what had ended when it began, and so does a cache it fills
  (`ComputedIsFresh`); a job on which no two updates overlap is on no place of the list
  between `LREM` and `LPUSH`, and on one otherwise, unless it was trimmed (`ListIsKept`).
* `ChartsAreRight` (`JobsAreCharted`): for a regular date the code's detour over local
  times ends at the start of the local hour, half day or day that the date is in
  (`RegularStart`, with `HourFirst` for the full hour that half days take first), and
  then the starts of the job and of the request lie on one grid of whole buckets
  (`SameGrid`), so that the job's is one of the answer's if it is not too old. The
  lemmas under them are about division: rounding down to a multiple of a length leaves
  a remainder below it, and two multiples less than a length apart are equal. The
  theorem has the conditions of the property and no others, for every length, lookback,
  pair of offsets and moment of change.
* `JobsAreRouted` (`JobsFindWorkers`): a worker consumes every queue of its strategies,
  which exist, or none (`SubscribedToAll`); a heartbeat says what its start allows
  (`BeatsAreTrue`), and so a target allowed the strategy of its job and does until it is
  restarted (`TargetsWereAsked`); hence the queues a message may be sent to exist
  (`QueuesExist`), and a worker has in hand what it consumes (`HeldIsConsumed`).
* `SourcesWereRight` (`SourceWasRight`): between its two reads a resolution has noted what
  the cluster's policy said when the service's was seen not to be in force
  (`MomentsAreNoted`); only if both changed may neither note be the source chosen.
* `WaitsAreBounded` and `AbortsAreFinal` (`AbortedAsksNoMore`): bounds on the deadline of
  each request and sleep. That `resolveAdaptiveInterval` picks one of the caller's
  intervals, whatever their order, is the lemma `IntervalIsAStep`, which finds the
  first and the last step by well-foundedness of the naturals.
* `PagesAreRight` (`PagesAgree`): the detail shown is of the selected job unless a request
  for it is under way (`DetailFollows`), the list is of the page asked for or reloaded
  unless requests crossed (`ListFollows`); for each kind of field, what `Applied` and then
  `Sent` make of a value is its `Meaning`; and a form holds the draft for the service it
  names or the policy that is loaded. The exceptions are those of section 4.
* `SessionsAreForgotten` (`SignedOutForgets`): each flag is held by a task that will reset
  it (`FlagsAreHeld`), and after a sign-out only tasks that are late by its definition
  are under way (`OnlyLateTasks`).
* `TypesCorrect`, for all ten.

`ComponentAssumption` and `ServiceAssumption`, the conjunctions of what the components
assume of their constants, are evaluated by TLC in every run of these modules. All
listed theorems but `Inductive` state a property that a run checks.

Only model-checked: liveness (`EveryJobSettles`, `EveryEventSettles`,
`IndexFollowsWorkers`, `BrowsersAreClosed`), which is out of the prover's reach, and the
counterexamples of section 8.

## 8. Disagreements

Six runs end in a counterexample, each against a sentence of the repository:

* `JobLifecycle_doc_polling`. On a cache hit the worker runs `updateStatus` and
  `updateProgress` under one `Promise.all` (`job-processor.service.ts:144`). Both
  read the record before either writes it, so the second write restores status
  `processing`; a client polling for a final status never sees one
  (`sdk/polling.mdx:17`).
* `JobLifecycle_doc_cancelled`. `cancel` tests the status in one read and writes it
  later (`jobs.service.ts:396`). A worker that starts in between completes a job
  that is stored and announced as cancelled "before processing started"
  (`jobs.service.ts:418`).
* `JobLifecycle_doc_startup`. Deliveries that arrive while a worker still awaits
  `channel.consume` of its other queues are dropped by `handleMessage` without an
  acknowledgement (`queue-consumer.service.ts:162`). They stay with that worker,
  unhandled, until its channel closes (`worker/index.mdx:6`).
* `JobLifecycle_doc_failed`. `process()` stores status `failed` at the end of every failed
  attempt (`job-processor.service.ts:312-324`), and `handleMessage` sets it back to
  `queued` while attempts are left (`queue-consumer.service.ts:246-253`). `failed` is
  documented as a status at which the SDK stops (`sdk/polling.mdx:17-22`, and
  `TERMINAL_STATUSES`, `sdk-node/src/client.ts:44`), and `job.failed` as "Failed after all
  retries" (`sdk/webhooks.mdx:96`): a client that polls in between gives up a job that
  may still complete.
* `Enqueue_doc_retries`. The idempotency key is saved before the message is
  published and stays when publishing fails (`jobs.service.ts:346`). The repeated
  request is answered with a job that is on no queue (`api/jobs.mdx:55`).
* `Services_doc_proxy`. `resolveForJob` goes by what the environment forces, the policy of
  the service, that of the cluster, the job's own `proxyUrl`, and the environment's list
  if `useProxy` is true (`proxy-policy.service.ts:110-153` of the worker). The documented
  order is another (`api/jobs.mdx:225-229`, `worker/runtime.mdx:105-109`): none if
  `useProxy` is false, then the job's `proxyUrl`, then the environment's, else none. A job
  that opts out may go out through a proxy, and one with a proxy of its own through
  another.

## 9. Not modelled

* A message that is not JSON (`queue-consumer.service.ts:169-204`): it is
  dead-lettered at once.
* The composition of `Enqueue` with `JobLifecycle`: the first takes a published
  message as the end, the second as the beginning.
* `status` and `currentJobId` of the heartbeat, single fields of a worker that handles
  several jobs; only the dashboard shows them.
* The runtime configuration (`packages/config`, both `main.ts`): a start reads and checks
  independent values in one step, and a model of that restates the checks. One thing it
  met in reading: `PORT` comes before `API_PORT` and `WORKER_PORT` (`index.ts:473` and
  `498`), where `README.md:316-319` gives the reverse priority.
* The connection and channel that `QueuePublisherService` opens at the first publish:
  `Enqueue` only knows that a publish may be refused.
* A cancelled job is announced by the API and again by the worker that skips it
  (`job-processor.service.ts:85`): events are counted in `JobLifecycle`, but no
  property bounds those of cancelled jobs.
* A key derived by `autoIdempotencyKey` leads to the earlier job until it expires,
  also when that job failed: `SdkClient` models it, without a property.
* Two administrators who save and delete one policy at once can leave it stored and
  not listed: `ProxyPolicies` has the steps, without a property.
* Overview, workers and keys pages of the dashboard, the UI package: they render what
  the session provider holds. Health checks, logging, observability: reports that
  nothing reads. The documentation site and deployment scripts.
* HTML extraction, HTTP and page I/O: an attempt is its outcome. (A browser is
  launched with its proxy only if the pool key is exactly `proxy`, which it never is,
  `scraper/src/index.ts:358`; that needs no model.)
* Validation of requests, hashing, signatures, dates and texts: data.
