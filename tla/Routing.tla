------------------------------- MODULE Routing --------------------------------
(***************************************************************************)
(* Which queue a job is put on and which worker takes it from there.  Each *)
(* strategy has a shared queue and one per worker id, each with a retry    *)
(* queue and a dead-letter queue.  The API reads the heartbeat of a target *)
(* and publishes awaits later; the worker subscribes, when it starts, to   *)
(* the queues of the strategies it allows, and sends failed jobs to the    *)
(* queues it computes from the message.  A message sent to a queue that    *)
(* does not exist is dropped.                                              *)
(***************************************************************************)
EXTENDS Naturals

CONSTANTS
  Workers,      \* worker ids; in a container a restarted worker keeps its own
  Jobs,
  NoWorker,     \* a job for whichever worker comes first
  MaxAttempts,  \* QUEUE_MAX_ATTEMPTS
  MaxStarts     \* bound on the starts of each worker id

RoutingAssumption ==
  NoWorker \notin Workers /\ MaxAttempts \in Nat \ {0} /\ MaxStarts \in [Workers -> Nat]

Strategies == {"auto", "http", "cloudscraper", "playwright"}
RoutingStrategies == {"http", "playwright"}   \* also WorkerAllowedStrategy

Queues == [kind : {"work", "retry", "dead"}, strategy : RoutingStrategies,
           target : Workers \cup {NoWorker}]

\* Mutation of resolveRoutingStrategy: everything but plain http needs a browser.
resolveRoutingStrategyBrowser(strategy) == IF strategy = "http" THEN "http" ELSE "playwright"

resolveRoutingStrategy(strategy) == IF strategy = "playwright" THEN "playwright" ELSE "http"

\* createStrategyQueueNames
Queue(kind, strategy, target) == [kind |-> kind, strategy |-> strategy, target |-> target]
QueuesOf(strategy, target) == {Queue(k, strategy, target) : k \in {"work", "retry", "dead"}}

\* isStrategyAllowed of the worker, supportsStrategy of the registry
Allows(allowed, strategy) ==
  strategy = "auto" \/ (IF strategy = "cloudscraper" THEN "http" ELSE strategy) \in allowed

VARIABLES
  allowed,    \* WORKER_ALLOWED_STRATEGIES of each worker, empty when it is down
  starts,     \* how often it was started
  consumed,   \* the queues it is subscribed to
  heartbeat,  \* Redis: allowed strategies and start number of its last heartbeat
  declared,   \* RabbitMQ: queues that exist
  job,        \* strategy and target of each job, and the target's start when looked at
  step,       \* how far each job has come
  queue,      \* the queue its message is in, or was delivered from
  holder,     \* the worker that has it in hand
  attempt

vars == <<allowed, starts, consumed, heartbeat, declared, job, step, queue, holder, attempt>>

Gone == [allowed |-> {}, start |-> 0]   \* no heartbeat

TypeOK ==
  /\ allowed \in [Workers -> SUBSET RoutingStrategies]
  /\ starts \in [Workers -> Nat] /\ \A w \in Workers : starts[w] <= MaxStarts[w]
  /\ consumed \in [Workers -> SUBSET Queues]
  /\ heartbeat \in [Workers -> [allowed : SUBSET RoutingStrategies, start : Nat]]
  /\ declared \in SUBSET Queues
  /\ job \in [Jobs -> [strategy : Strategies, target : Workers \cup {NoWorker}, start : Nat]]
  /\ step \in [Jobs -> {"new", "checked", "rejected", "queued", "held", "done", "dropped"}]
  /\ queue \in [Jobs -> Queues]
  /\ holder \in [Jobs -> Workers \cup {NoWorker}]
  /\ attempt \in [Jobs -> 1..MaxAttempts]

Init ==
  /\ allowed = [w \in Workers |-> {}]
  /\ starts = [w \in Workers |-> 0]
  /\ consumed = [w \in Workers |-> {}]
  /\ heartbeat = [w \in Workers |-> Gone]
  /\ declared = {}
  /\ job \in [Jobs -> [strategy : Strategies, target : Workers \cup {NoWorker}, start : {0}]]
  /\ step = [j \in Jobs |-> "new"]
  /\ queue = [j \in Jobs |-> Queue("work", "http", NoWorker)]
  /\ holder = [j \in Jobs |-> NoWorker]
  /\ attempt = [j \in Jobs |-> 1]

Strategy(j) == resolveRoutingStrategy(job[j].strategy)

\* The queue of a kind that API and worker compute for a job
QueueFor(kind, j) == Queue(kind, Strategy(j), job[j].target)

Goto(j, s) == step' = [step EXCEPT ![j] = s]

Send(j, q) ==
  /\ Goto(j, IF q \in declared' THEN "queued" ELSE "dropped")
  /\ queue' = [queue EXCEPT ![j] = q]
  /\ holder' = [holder EXCEPT ![j] = NoWorker]

workerVars == <<allowed, starts, consumed, heartbeat>>
jobVars == <<job, step, queue, holder, attempt>>

-----------------------------------------------------------------------------
(* The API: enqueueFromInput, for a new job or the manual retry of one,    *)
(* which passes the target that was chosen for it then                     *)

\* Mutation of EnsureWorkerSupports: any worker that is alive will do.
EnsureWorkerIsAlive(j) == heartbeat[job[j].target].start # 0

EnsureWorkerSupports(j) ==
  LET seen == heartbeat[job[j].target] IN seen.start # 0 /\ Allows(seen.allowed, job[j].strategy)

CheckTarget(j) ==
  LET w == job[j].target IN
  /\ step[j] = "new"
  /\ IF w = NoWorker
     THEN Goto(j, "checked") /\ UNCHANGED job
     ELSE /\ job' = [job EXCEPT ![j].start = heartbeat[w].start]
          /\ Goto(j, IF EnsureWorkerSupports(j) THEN "checked" ELSE "rejected")
  /\ UNCHANGED <<workerVars, declared, queue, holder, attempt>>

\* The first publish declares the shared queues, each publish those of its target.
Publish(j) ==
  /\ step[j] = "checked"
  /\ declared' = declared \cup QueuesOf(Strategy(j), job[j].target)
                   \cup UNION {QueuesOf(s, NoWorker) : s \in RoutingStrategies}
  /\ Send(j, QueueFor("work", j))
  /\ UNCHANGED <<workerVars, job, attempt>>

-----------------------------------------------------------------------------
(* The worker                                                              *)

\* Declares the queues of its strategies and subscribes, before or after its first
\* heartbeat.
Start(w) ==
  /\ allowed[w] = {} /\ starts[w] < MaxStarts[w]
  /\ \E S \in SUBSET RoutingStrategies \ {{}} : allowed' = [allowed EXCEPT ![w] = S]
  /\ starts' = [starts EXCEPT ![w] = @ + 1]
  /\ UNCHANGED <<consumed, heartbeat, declared, jobVars>>

Subscribe(w) ==
  /\ allowed[w] # {} /\ consumed[w] = {}
  /\ declared' = declared \cup UNION {QueuesOf(s, t) : s \in allowed[w], t \in {w, NoWorker}}
  /\ consumed' = [consumed EXCEPT ![w] =
                    {Queue("work", s, t) : s \in allowed[w], t \in {w, NoWorker}}]
  /\ UNCHANGED <<allowed, starts, heartbeat, jobVars>>

Beat(w) ==
  /\ allowed[w] # {}
  /\ heartbeat' = [heartbeat EXCEPT ![w] = [allowed |-> allowed[w], start |-> starts[w]]]
  /\ UNCHANGED <<allowed, starts, consumed, declared, jobVars>>

\* Stopped or crashed: what it has not acknowledged goes back to its queue.
Stop(w) ==
  /\ allowed[w] # {}
  /\ allowed' = [allowed EXCEPT ![w] = {}] /\ consumed' = [consumed EXCEPT ![w] = {}]
  /\ step' = [j \in Jobs |-> IF holder[j] = w THEN "queued" ELSE step[j]]
  /\ holder' = [j \in Jobs |-> IF holder[j] = w THEN NoWorker ELSE holder[j]]
  /\ UNCHANGED <<starts, heartbeat, declared, job, queue, attempt>>

\* The key is deleted or expires.
Forget(w) ==
  /\ allowed[w] = {} /\ heartbeat[w] # Gone
  /\ heartbeat' = [heartbeat EXCEPT ![w] = Gone]
  /\ UNCHANGED <<allowed, starts, consumed, declared, jobVars>>

Deliver(w, j) ==
  /\ step[j] = "queued" /\ queue[j] \in consumed[w]
  /\ Goto(j, "held") /\ holder' = [holder EXCEPT ![j] = w]
  /\ UNCHANGED <<workerVars, declared, job, queue, attempt>>

\* The worker's own check fails the attempt like any error.
Succeed(w, j) ==
  /\ holder[j] = w /\ Allows(allowed[w], job[j].strategy)
  /\ Goto(j, "done") /\ holder' = [holder EXCEPT ![j] = NoWorker]
  /\ UNCHANGED <<workerVars, declared, job, queue, attempt>>

Fail(w, j) ==
  /\ holder[j] = w
  /\ UNCHANGED <<workerVars, declared, job>>
  /\ IF attempt[j] < MaxAttempts
     THEN Send(j, QueueFor("retry", j)) /\ attempt' = [attempt EXCEPT ![j] = @ + 1]
     ELSE Send(j, QueueFor("dead", j)) /\ UNCHANGED attempt

\* The delay is over: the retry queue dead-letters to the queue it was declared with.
Return(j) ==
  /\ step[j] = "queued" /\ queue[j].kind = "retry"
  /\ UNCHANGED <<workerVars, declared, job, attempt>>
  /\ Send(j, [queue[j] EXCEPT !.kind = "work"])

Next ==
  \/ \E j \in Jobs : CheckTarget(j) \/ Publish(j) \/ Return(j)
  \/ \E w \in Workers : Start(w) \/ Subscribe(w) \/ Beat(w) \/ Stop(w) \/ Forget(w)
  \/ \E w \in Workers, j \in Jobs : Deliver(w, j) \/ Succeed(w, j) \/ Fail(w, j)

Spec == Init /\ [][Next]_vars

-----------------------------------------------------------------------------
\* A worker is handed only jobs for it or for anyone, of strategies it allows, in
\* every attempt and after every restart with other strategies; so its own check
\* never fails, and no message is sent to a queue that does not exist
\* (resolveRoutingStrategy, getRoutingQueues and the subscriptions agree).
RightWorkerGetsIt ==
  \A j \in Jobs :
    /\ step[j] # "dropped"
    /\ holder[j] # NoWorker => /\ job[j].target \in {holder[j], NoWorker}
                               /\ Allows(allowed[holder[j]], job[j].strategy)

\* A job with a strategy of its own that was accepted for a worker waits on a queue
\* that worker takes jobs from, as long as it is not restarted.  (An auto job goes to
\* the http queue, whether or not its target takes http jobs.)
TargetConsumesIt ==
  \A j \in Jobs : LET w == job[j].target IN
    /\ step[j] = "queued" /\ queue[j].kind = "work" /\ job[j].strategy # "auto"
    /\ w # NoWorker /\ consumed[w] # {} /\ starts[w] = job[j].start
    => queue[j] \in consumed[w]
=============================================================================
