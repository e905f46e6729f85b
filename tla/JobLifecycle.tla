---------------------------- MODULE JobLifecycle ----------------------------
(***************************************************************************)
(* A scrape job from the API's first write to its last acknowledgement:    *)
(* the API saves the record and publishes the message, RabbitMQ delivers   *)
(* it to a worker, handleMessage races process() against a watchdog, and   *)
(* every failure goes through the delayed retry queue until the attempts   *)
(* run out and the message is dead-lettered.  Cancel requests of the API   *)
(* write the same record meanwhile.                                        *)
(*                                                                         *)
(* An await is where steps of different actors interleave.  The actors     *)
(* that await are threads:                                                 *)
(*   - Handler(r), the consumer's handleMessage for one delivery           *)
(*   - Process(r), the processor's process() that Handler(r) started.  It  *)
(*     is not stopped when the watchdog rejects and may outlive Handler(r) *)
(*   - Cancel(x), one POST /jobs/:id/cancel                                *)
(* A thread's pc is the step it performs next, and seen is the record that *)
(* a GET of its current update returned.                                   *)
(***************************************************************************)
EXTENDS Naturals, FiniteSets, JobStore

CONSTANTS
  Jobs,           \* job ids the API creates
  Workers,        \* worker processes
  Runs,           \* slots in which a worker can run handleMessage and process()
  Host,           \* the worker each run belongs to
  Prefetch,       \* WORKER_CONCURRENCY, unacknowledged deliveries per worker
  Copies,         \* message copies the broker can hold at one time
  NoCopy,         \* a handler that holds no copy
  NoMessage,      \* the body of an unused copy
  MaxAttempts,    \* RABBITMQ_MAX_DELIVERY_ATTEMPTS
  CancelRequests, \* cancel requests, each made at most once
  MaxCrashes,     \* bound on worker crashes
  Environments    \* the sets of the events below that can happen in one behaviour

Events == {"scrapeFails", "dependencyFails", "watchdogFires", "cacheHits",
           "earlyDeliveries", "clientCancels", "workerDies"}

ASSUME LifecycleAssumption ==
  /\ Host \in [Runs -> Workers]
  /\ Prefetch \in Nat \ {0}
  /\ MaxAttempts \in Nat \ {0}
  /\ MaxCrashes \in Nat
  /\ Environments \subseteq SUBSET Events
  /\ NoCopy \notin Copies

Message == [job : Jobs, attempt : 1..MaxAttempts]

ASSUME NoMessageAssumption == NoMessage \notin Message

Handler(r) == <<"handler", r>>
Process(r) == <<"process", r>>
Cancel(x)  == <<"cancel", x>>

Handlers  == {Handler(r) : r \in Runs}
Processes == {Process(r) : r \in Runs}
Cancels   == {Cancel(x) : x \in CancelRequests}
Threads   == Handlers \cup Processes \cup Cancels

HandlerSteps == {"free", "await", "requeue", "requeueStage", "retry",
                 "giveUp", "giveUpStage", "giveUpResult", "giveUpEvent",
                 "deadLetter", "ack"}

ProcessSteps == {"off", "read", "skipResult", "skipEvent", "begin", "fetching",
                 "lookup", "hit", "hitProgress", "hitResult", "hitEvent",
                 "hitStatus", "hitFinish", "proxy", "scrape", "stage",
                 "complete", "finish", "saveResult", "notify", "wrapUp",
                 "return", "fail", "failFinish", "failResult", "raise"}

CancelSteps == {"idle", "cancel", "cancelStage", "cancelResult", "cancelEvent",
                "done"}

\* What handleMessage learns of process(): still running, returned, rejected.
Outcome == {"none", "ok", "threw"}

VARIABLES
  enabled,   \* the events that can happen
  submit,    \* progress of the API's enqueue of a job
  record,    \* Redis: the job record
  result,    \* Redis: the status of the stored result
  events,    \* webhook messages enqueued per job and terminal status
  queue,     \* broker: where each message copy is
  body,      \* broker: the message each copy carries
  pc,        \* next step of each thread
  seen,      \* the record read by a thread's unfinished update
  hitSeen,   \* the record read by the second update of a cache hit
  msg,       \* the message a run was started for
  held,      \* the copy a run's handler has to acknowledge
  outcome,   \* what process() has answered
  cancels,   \* the job each cancel request is about
  crashes,   \* worker crashes so far
  channel,   \* whether a worker's consumer has its channel yet
  ignored    \* deliveries that came before it: neither handled nor acknowledged

apiVars    == <<enabled, submit, cancels>>
redisVars  == <<record, result>>
brokerVars == <<queue, body>>
runVars    == <<msg, held, outcome, hitSeen>>
workerVars == <<crashes, channel, ignored>>
vars == <<apiVars, redisVars, events, brokerVars, pc, seen, runVars, workerVars>>

TypeOK ==
  /\ enabled \in SUBSET Events
  /\ submit \in [Jobs -> {"new", "saved", "published"}]
  /\ record \in [Jobs -> RecordOrNull]
  /\ result \in [Jobs -> Terminal \cup {"none"}]
  /\ events \in [Jobs -> [Terminal -> Nat]]
  /\ queue \in [Copies -> {"free", "ready", "delayed", "unacked", "dead"}]
  /\ body \in [Copies -> Message \cup {NoMessage}]
  /\ pc \in [Threads -> HandlerSteps \cup ProcessSteps \cup CancelSteps]
  /\ \A r \in Runs : /\ pc[Handler(r)] \in HandlerSteps
                     /\ pc[Process(r)] \in ProcessSteps
  /\ \A x \in CancelRequests : pc[Cancel(x)] \in CancelSteps
  /\ seen \in [Threads -> RecordOrNull]
  /\ hitSeen \in [Runs -> RecordOrNull]
  /\ msg \in [Runs -> Message \cup {NoMessage}]
  /\ held \in [Runs -> Copies \cup {NoCopy}]
  /\ outcome \in [Runs -> Outcome]
  /\ cancels \in [CancelRequests -> Jobs]
  /\ crashes \in 0..MaxCrashes
  /\ channel \in [Workers -> BOOLEAN]
  /\ ignored \in [Workers -> SUBSET Copies]

\* Without early deliveries a worker counts as started once it has its channel.
HasChannelAtStart == "earlyDeliveries" \notin enabled

Init ==
  /\ enabled \in Environments
  /\ submit = [j \in Jobs |-> "new"]
  /\ record = [j \in Jobs |-> NoRecord]
  /\ result = [j \in Jobs |-> "none"]
  /\ events = [j \in Jobs |-> [s \in Terminal |-> 0]]
  /\ queue = [c \in Copies |-> "free"]
  /\ body = [c \in Copies |-> NoMessage]
  /\ pc = [t \in Threads |-> IF t \in Handlers THEN "free"
                            ELSE IF t \in Processes THEN "off" ELSE "idle"]
  /\ seen = [t \in Threads |-> NoRecord]
  /\ hitSeen = [r \in Runs |-> NoRecord]
  /\ msg = [r \in Runs |-> NoMessage]
  /\ held = [r \in Runs |-> NoCopy]
  /\ outcome = [r \in Runs |-> "none"]
  /\ cancels \in [CancelRequests -> Jobs]
  /\ crashes = 0
  /\ channel = [w \in Workers |-> HasChannelAtStart]
  /\ ignored = [w \in Workers |-> {}]

Goto(t, step) == pc' = [pc EXCEPT ![t] = step]

-----------------------------------------------------------------------------
(* Steps that several threads take: an update of the record is a GET and a *)
(* SET, a result is one SET, a webhook event one message.                  *)

\* Steps that call updateStatus, with the status they write
StatusSteps == {"begin", "complete", "fail", "requeue", "giveUp", "cancel"}
NewStatus(step) ==
  CASE step = "begin" -> "processing"
    [] step = "requeue" -> "queued"
    [] step = "complete" -> "completed"
    [] step = "cancel" -> "cancelled"
    [] OTHER -> "failed"

\* Steps that call updateProgress, with the stage they write
StageSteps == {"fetching", "stage", "finish", "failFinish", "requeueStage",
               "giveUpStage", "cancelStage"}
NewStage(step) ==
  CASE step = "fetching" -> "fetching"
    [] step = "stage" -> "extracting"
    [] step = "requeueStage" -> "queued"
    [] OTHER -> "completed"

\* patchRecord({proxy...}) changes none of the fields kept here, and still
\* writes the whole record back.
UpdateSteps == StatusSteps \cup StageSteps \cup {"proxy"}
Patched(existing, step) ==
  CASE step \in StatusSteps -> updateStatus(existing, NewStatus(step))
    [] step \in StageSteps -> updateProgress(existing, NewStage(step))
    [] OTHER -> existing

\* Steps that save a result or enqueue a webhook event, with its status
ResultSteps == {"skipResult", "hitResult", "saveResult", "failResult",
                "giveUpResult", "cancelResult"}
EventSteps == {"skipEvent", "hitEvent", "notify", "giveUpEvent", "cancelEvent"}
ReportedStatus(step) ==
  CASE step \in {"skipResult", "skipEvent", "cancelResult", "cancelEvent"} -> "cancelled"
    [] step \in {"hitResult", "hitEvent", "saveResult", "notify"} -> "completed"
    [] OTHER -> "failed"

\* The step that follows in the straight-line parts of the threads
After ==
  [begin        |-> "fetching",     fetching     |-> "lookup",
   proxy        |-> "scrape",       stage        |-> "scrape",
   complete     |-> "finish",       finish       |-> "saveResult",
   saveResult   |-> "notify",       notify       |-> "wrapUp",
   fail         |-> "failFinish",   failFinish   |-> "failResult",
   failResult   |-> "raise",
   skipResult   |-> "skipEvent",    skipEvent    |-> "return",
   hit          |-> "hitProgress",  hitProgress  |-> "hitResult",
   hitResult    |-> "hitEvent",     hitEvent     |-> "hitStatus",
   hitStatus    |-> "hitFinish",
   requeue      |-> "requeueStage", requeueStage |-> "retry",
   giveUp       |-> "giveUpStage",  giveUpStage  |-> "giveUpResult",
   giveUpResult |-> "giveUpEvent",  giveUpEvent  |-> "deadLetter",
   cancel       |-> "cancelStage",  cancelStage  |-> "cancelResult",
   cancelResult |-> "cancelEvent",  cancelEvent  |-> "done"]

RecordGet(t, j) ==
  /\ pc[t] \in UpdateSteps
  /\ seen[t] = NoRecord
  /\ seen' = [seen EXCEPT ![t] = record[j]]
  /\ UNCHANGED <<apiVars, redisVars, events, brokerVars, pc, runVars, workerVars>>

RecordSet(t, j) ==
  /\ pc[t] \in UpdateSteps
  /\ seen[t] # NoRecord
  /\ record' = [record EXCEPT ![j] = Patched(seen[t], pc[t])]
  /\ seen' = [seen EXCEPT ![t] = NoRecord]
  /\ Goto(t, After[pc[t]])
  /\ UNCHANGED <<apiVars, result, events, brokerVars, runVars, workerVars>>

SaveResult(t, j) ==
  /\ pc[t] \in ResultSteps
  /\ result' = [result EXCEPT ![j] = ReportedStatus(pc[t])]
  /\ Goto(t, After[pc[t]])
  /\ UNCHANGED <<apiVars, record, events, brokerVars, seen, runVars, workerVars>>

EnqueueEvent(t, j) ==
  /\ pc[t] \in EventSteps
  /\ events' = [events EXCEPT ![j][ReportedStatus(pc[t])] = @ + 1]
  /\ Goto(t, After[pc[t]])
  /\ UNCHANGED <<apiVars, redisVars, brokerVars, seen, runVars, workerVars>>

ThreadStep(t, j) ==
  RecordGet(t, j) \/ RecordSet(t, j) \/ SaveResult(t, j) \/ EnqueueEvent(t, j)

-----------------------------------------------------------------------------
(* The API *)

SaveRecord(j) ==
  /\ submit[j] = "new"
  /\ submit' = [submit EXCEPT ![j] = "saved"]
  /\ record' = [record EXCEPT ![j] = NewRecord]
  /\ UNCHANGED <<enabled, cancels, result, events, brokerVars, pc, seen, runVars, workerVars>>

\* A copy enters a queue; used by every sendToQueue.
Send(c, where, m) ==
  /\ queue[c] = "free"
  /\ queue' = [queue EXCEPT ![c] = where]
  /\ body' = [body EXCEPT ![c] = m]

Publish(j, c) ==
  /\ submit[j] = "saved"
  /\ submit' = [submit EXCEPT ![j] = "published"]
  /\ Send(c, "ready", [job |-> j, attempt |-> 1])
  /\ UNCHANGED <<enabled, cancels, redisVars, events, pc, seen, runVars, workerVars>>

\* The request is dropped unless the record it reads is queued.
CancelRead(x) ==
  LET j == cancels[x] IN
  /\ "clientCancels" \in enabled
  /\ pc[Cancel(x)] = "idle"
  /\ record[j] # NoRecord
  /\ Goto(Cancel(x), IF record[j].status = "queued" THEN "cancel" ELSE "done")
  /\ UNCHANGED <<apiVars, redisVars, events, brokerVars, seen, runVars, workerVars>>

\* Redis or RabbitMQ refuses one of the calls and the request ends with an error.
CancelFails(x) ==
  /\ "dependencyFails" \in enabled
  /\ pc[Cancel(x)] \notin {"idle", "done"}
  /\ Goto(Cancel(x), "done")
  /\ seen' = [seen EXCEPT ![Cancel(x)] = NoRecord]
  /\ UNCHANGED <<apiVars, redisVars, events, brokerVars, runVars, workerVars>>

-----------------------------------------------------------------------------
(* handleMessage: one delivery *)

\* onApplicationBootstrap awaits channel.consume for every queue before it sets
\* the field that handleMessage tests: what the broker delivers meanwhile is left
\* unacknowledged, until the channel closes.
Unacked(w) == {held[r] : r \in {q \in Runs : Host[q] = w}} \cup ignored[w]

HasCapacity(w) == Cardinality(Unacked(w) \ {NoCopy}) < Prefetch

Ignore(w, c) ==
  /\ ~channel[w]
  /\ HasCapacity(w)
  /\ queue[c] = "ready"
  /\ queue' = [queue EXCEPT ![c] = "unacked"]
  /\ ignored' = [ignored EXCEPT ![w] = @ \cup {c}]
  /\ UNCHANGED <<apiVars, redisVars, events, body, pc, seen, runVars, crashes, channel>>

Bootstrapped(w) ==
  /\ ~channel[w]
  /\ channel' = [channel EXCEPT ![w] = TRUE]
  /\ UNCHANGED <<apiVars, redisVars, events, brokerVars, pc, seen, runVars, crashes, ignored>>

\* A run is free for another delivery when neither its handler nor a process()
\* the watchdog gave up on is still using it.
Deliver(r, c) ==
  /\ pc[Handler(r)] = "free" /\ pc[Process(r)] = "off"
  /\ channel[Host[r]] /\ HasCapacity(Host[r])
  /\ queue[c] = "ready"
  /\ queue' = [queue EXCEPT ![c] = "unacked"]
  /\ held' = [held EXCEPT ![r] = c]
  /\ msg' = [msg EXCEPT ![r] = body[c]]
  /\ outcome' = [outcome EXCEPT ![r] = "none"]
  /\ hitSeen' = [hitSeen EXCEPT ![r] = NoRecord]
  /\ pc' = [pc EXCEPT ![Handler(r)] = "await", ![Process(r)] = "read"]
  /\ UNCHANGED <<apiVars, redisVars, events, body, seen, workerVars>>

\* Mutations of OnFailure: one attempt too many; the report left out.
OnFailureOffByOne(r) ==
  Goto(Handler(r), IF msg[r].attempt <= MaxAttempts THEN "requeue" ELSE "giveUp")

OnFailureUnreported(r) ==
  Goto(Handler(r), IF msg[r].attempt < MaxAttempts THEN "requeue" ELSE "deadLetter")

\* The catch block: another attempt, or the end of the job.
OnFailure(r) ==
  Goto(Handler(r), IF msg[r].attempt < MaxAttempts THEN "requeue" ELSE "giveUp")

\* Mutation of Settle: a success is handled like a failure.
SettleRetries(r) ==
  /\ pc[Handler(r)] = "await"
  /\ outcome[r] \in {"ok", "threw"} /\ OnFailure(r)
  /\ UNCHANGED <<apiVars, redisVars, events, brokerVars, seen, runVars, workerVars>>

\* process() settled before the watchdog.
Settle(r) ==
  /\ pc[Handler(r)] = "await"
  /\ \/ outcome[r] = "ok" /\ Goto(Handler(r), "ack")
     \/ outcome[r] = "threw" /\ OnFailure(r)
  /\ UNCHANGED <<apiVars, redisVars, events, brokerVars, seen, runVars, workerVars>>

\* Mutations of WatchdogFires: the delivery is acknowledged; there is no watchdog.
WatchdogAcks(r) ==
  /\ "watchdogFires" \in enabled
  /\ pc[Handler(r)] = "await" /\ outcome[r] = "none"
  /\ Goto(Handler(r), "ack")
  /\ UNCHANGED <<apiVars, redisVars, events, brokerVars, seen, runVars, workerVars>>

NoWatchdog(r) == r \notin Runs

\* The watchdog rejects first; nothing stops process().
WatchdogFires(r) ==
  /\ "watchdogFires" \in enabled
  /\ pc[Handler(r)] = "await"
  /\ outcome[r] = "none"
  /\ OnFailure(r)
  /\ UNCHANGED <<apiVars, redisVars, events, brokerVars, seen, runVars, workerVars>>

\* The next attempt goes to the retry queue, then the delivery is acknowledged.
SendRetry(r, c) ==
  /\ pc[Handler(r)] = "retry"
  /\ Send(c, "delayed", [msg[r] EXCEPT !.attempt = @ + 1])
  /\ Goto(Handler(r), "ack")
  /\ UNCHANGED <<apiVars, redisVars, events, seen, runVars, workerVars>>

SendDeadLetter(r, c) ==
  /\ pc[Handler(r)] = "deadLetter"
  /\ Send(c, "dead", msg[r])
  /\ Goto(Handler(r), "ack")
  /\ UNCHANGED <<apiVars, redisVars, events, seen, runVars, workerVars>>

\* Mutation of Ack: the delivery is returned to the queue instead.
AckRequeues(r) ==
  /\ pc[Handler(r)] = "ack"
  /\ queue' = [queue EXCEPT ![held[r]] = "ready"]
  /\ held' = [held EXCEPT ![r] = NoCopy]
  /\ Goto(Handler(r), "free")
  /\ UNCHANGED <<apiVars, redisVars, events, body, seen, msg, outcome, hitSeen, workerVars>>

Ack(r) ==
  /\ pc[Handler(r)] = "ack"
  /\ queue' = [queue EXCEPT ![held[r]] = "free"]
  /\ body' = [body EXCEPT ![held[r]] = NoMessage]
  /\ held' = [held EXCEPT ![r] = NoCopy]
  /\ Goto(Handler(r), "free")
  /\ UNCHANGED <<apiVars, redisVars, events, seen, msg, outcome, hitSeen, workerVars>>

\* The retry queue's message TTL runs out and its dead-letter exchange puts the
\* message back on the queue it came from.
RetryExpires(c) ==
  /\ queue[c] = "delayed"
  /\ queue' = [queue EXCEPT ![c] = "ready"]
  /\ UNCHANGED <<apiVars, redisVars, events, body, pc, seen, runVars, workerVars>>

\* Mutation of Crash: deliveries were acknowledged on arrival (noAck) and are lost.
CrashLoses(w) ==
  /\ "workerDies" \in enabled
  /\ crashes < MaxCrashes
  /\ crashes' = crashes + 1
  /\ LET dead == {r \in Runs : Host[r] = w}
         gone == {Handler(r) : r \in dead} \cup {Process(r) : r \in dead}
         lost == {held[r] : r \in dead} \cup ignored[w]
     IN /\ queue' = [c \in Copies |-> IF c \in lost THEN "free" ELSE queue[c]]
        /\ held' = [r \in Runs |-> IF r \in dead THEN NoCopy ELSE held[r]]
        /\ pc' = [t \in Threads |-> IF t \notin gone THEN pc[t]
                                   ELSE IF t \in Handlers THEN "free" ELSE "off"]
        /\ seen' = [t \in Threads |-> IF t \in gone THEN NoRecord ELSE seen[t]]
  /\ channel' = [channel EXCEPT ![w] = HasChannelAtStart]
  /\ ignored' = [ignored EXCEPT ![w] = {}]
  /\ UNCHANGED <<apiVars, redisVars, events, body, msg, outcome, hitSeen>>

\* A worker dies, of itself or of a rejection in handleMessage's catch block that
\* nothing handles.  The broker puts its unacknowledged deliveries back,
\* the ignored ones included, and the worker starts again.
Crash(w) ==
  /\ "workerDies" \in enabled
  /\ crashes < MaxCrashes
  /\ crashes' = crashes + 1
  /\ LET dead == {r \in Runs : Host[r] = w}
         gone == {Handler(r) : r \in dead} \cup {Process(r) : r \in dead}
         back == {held[r] : r \in dead} \cup ignored[w]
     IN /\ queue' = [c \in Copies |-> IF c \in back THEN "ready" ELSE queue[c]]
        /\ held' = [r \in Runs |-> IF r \in dead THEN NoCopy ELSE held[r]]
        /\ pc' = [t \in Threads |-> IF t \notin gone THEN pc[t]
                                   ELSE IF t \in Handlers THEN "free" ELSE "off"]
        /\ seen' = [t \in Threads |-> IF t \in gone THEN NoRecord ELSE seen[t]]
  /\ channel' = [channel EXCEPT ![w] = HasChannelAtStart]
  /\ ignored' = [ignored EXCEPT ![w] = {}]
  /\ UNCHANGED <<apiVars, redisVars, events, body, msg, outcome, hitSeen>>

-----------------------------------------------------------------------------
(* process(): one attempt at the job *)

\* Mutation of Read: the cancelled record is not looked at.
ReadIgnoresCancelled(r) ==
  /\ pc[Process(r)] = "read"
  /\ Goto(Process(r), "begin")
  /\ UNCHANGED <<apiVars, redisVars, events, brokerVars, seen, runVars, workerVars>>

\* A job the record shows as cancelled is not scraped.
Read(r) ==
  /\ pc[Process(r)] = "read"
  /\ Goto(Process(r), IF record[msg[r].job].status = "cancelled"
                      THEN "skipResult" ELSE "begin")
  /\ UNCHANGED <<apiVars, redisVars, events, brokerVars, seen, runVars, workerVars>>

Lookup(r) ==
  /\ pc[Process(r)] = "lookup"
  /\ \/ Goto(Process(r), "proxy")
     \/ "cacheHits" \in enabled /\ Goto(Process(r), "hit")
     \/ "scrapeFails" \in enabled /\ Goto(Process(r), "raise") \* strategy not allowed
  /\ UNCHANGED <<apiVars, redisVars, events, brokerVars, seen, runVars, workerVars>>

\* On a cache hit both updates run under one Promise.all on one connection: the
\* two GETs go out before either SET.
HitGetStatus(r) ==
  /\ pc[Process(r)] = "hit"
  /\ seen' = [seen EXCEPT ![Process(r)] = record[msg[r].job]]
  /\ Goto(Process(r), "hitProgress")
  /\ UNCHANGED <<apiVars, redisVars, events, brokerVars, runVars, workerVars>>

HitGetProgress(r) ==
  /\ pc[Process(r)] = "hitProgress"
  /\ hitSeen' = [hitSeen EXCEPT ![r] = record[msg[r].job]]
  /\ Goto(Process(r), "hitResult")
  /\ UNCHANGED <<apiVars, redisVars, events, brokerVars, seen, msg, held, outcome, workerVars>>

HitSetStatus(r) ==
  /\ pc[Process(r)] = "hitStatus"
  /\ record' = IF seen[Process(r)] = NoRecord THEN record
               ELSE [record EXCEPT ![msg[r].job] = updateStatus(seen[Process(r)], "completed")]
  /\ seen' = [seen EXCEPT ![Process(r)] = NoRecord]
  /\ Goto(Process(r), "hitFinish")
  /\ UNCHANGED <<apiVars, result, events, brokerVars, runVars, workerVars>>

HitSetProgress(r) ==
  /\ pc[Process(r)] = "hitFinish"
  /\ record' = IF hitSeen[r] = NoRecord THEN record
               ELSE [record EXCEPT ![msg[r].job] = updateProgress(hitSeen[r], "completed")]
  /\ hitSeen' = [hitSeen EXCEPT ![r] = NoRecord]
  /\ Goto(Process(r), IF outcome[r] = "none" THEN "wrapUp" ELSE "off")
  /\ UNCHANGED <<apiVars, result, events, brokerVars, seen, msg, held, outcome, workerVars>>

HitBranches == {"hit", "hitProgress", "hitResult", "hitEvent", "hitStatus"}

\* Mutation of HitFails: the refused call goes unnoticed.
HitFailsSilently(r) ==
  /\ "dependencyFails" \in enabled
  /\ pc[Process(r)] \in HitBranches
  /\ Goto(Process(r), After[pc[Process(r)]])
  /\ UNCHANGED <<apiVars, redisVars, events, brokerVars, seen, runVars, workerVars>>

\* One call of that Promise.all is refused and process() rejects; its branch
\* ends there (a SET whose GET failed is not made) and the others go on.
HitFails(r) ==
  /\ "dependencyFails" \in enabled
  /\ pc[Process(r)] \in HitBranches
  /\ outcome' = [outcome EXCEPT ![r] = "threw"]
  /\ seen' = [seen EXCEPT ![Process(r)] = IF pc[Process(r)] = "hitStatus" THEN NoRecord ELSE @]
  /\ Goto(Process(r), After[pc[Process(r)]])
  /\ UNCHANGED <<apiVars, redisVars, events, brokerVars, msg, held, hitSeen, workerVars>>

\* scraper.execute reports a stage, or ends: completed, failed, or by throwing
\* (the strict playwright mode included).
Scrape(r) ==
  /\ pc[Process(r)] = "scrape"
  /\ \/ Goto(Process(r), "stage")
     \/ Goto(Process(r), "complete")
     \/ "scrapeFails" \in enabled /\ Goto(Process(r), "fail")
     \/ "scrapeFails" \in enabled /\ Goto(Process(r), "raise")
  /\ UNCHANGED <<apiVars, redisVars, events, brokerVars, seen, runVars, workerVars>>

\* The last awaits of a success, scrapeCache.set and markIdle(true), are wrapUp.
Return(r) ==
  /\ pc[Process(r)] \in {"wrapUp", "return"}
  /\ outcome' = [outcome EXCEPT ![r] = "ok"]
  /\ Goto(Process(r), "off")
  /\ UNCHANGED <<apiVars, redisVars, events, brokerVars, seen, msg, held, hitSeen, workerVars>>

\* process() throws, or a call to Redis or RabbitMQ it awaits is refused.
Throw(r) ==
  /\ \/ pc[Process(r)] = "raise"
     \/ /\ "dependencyFails" \in enabled
        /\ pc[Process(r)] \notin {"off", "return", "scrape"} \cup HitBranches
  /\ outcome' = [outcome EXCEPT ![r] = "threw"]
  /\ seen' = [seen EXCEPT ![Process(r)] = NoRecord]
  /\ hitSeen' = [hitSeen EXCEPT ![r] = NoRecord]
  /\ Goto(Process(r), "off")
  /\ UNCHANGED <<apiVars, redisVars, events, brokerVars, msg, held, workerVars>>

-----------------------------------------------------------------------------
ApiNext ==
  \/ \E j \in Jobs : SaveRecord(j) \/ \E c \in Copies : Publish(j, c)
  \/ \E x \in CancelRequests :
        CancelRead(x) \/ ThreadStep(Cancel(x), cancels[x]) \/ CancelFails(x)

HandlerNext(r) ==
  \/ \E c \in Copies : Deliver(r, c) \/ SendRetry(r, c) \/ SendDeadLetter(r, c)
  \/ Settle(r) \/ WatchdogFires(r) \/ ThreadStep(Handler(r), msg[r].job) \/ Ack(r)

ProcessNext(r) ==
  \/ Read(r) \/ Lookup(r) \/ Scrape(r) \/ Return(r) \/ Throw(r)
  \/ ThreadStep(Process(r), msg[r].job)
  \/ HitGetStatus(r) \/ HitGetProgress(r) \/ HitSetStatus(r) \/ HitSetProgress(r)
  \/ HitFails(r)

Next ==
  \/ ApiNext
  \/ \E r \in Runs : HandlerNext(r) \/ ProcessNext(r)
  \/ \E c \in Copies : RetryExpires(c)
  \/ \E w \in Workers : Bootstrapped(w) \/ Crash(w) \/ \E c \in Copies : Ignore(w, c)

Spec == Init /\ [][Next]_vars

-----------------------------------------------------------------------------
(* What the delivery of jobs promises *)

\* A message of job j is waiting, delayed or being handled.
Live(j) == \E c \in Copies : /\ queue[c] \in {"ready", "delayed", "unacked"}
                            /\ body[c].job = j

Settled(j) == submit[j] = "published" /\ ~Live(j)

Reported(j) == result[j] # "none" /\ \E s \in Terminal : events[j][s] > 0

\* No job leaves the queues unreported: when the last message of a published job
\* has been acknowledged, a result is stored and a webhook event was enqueued,
\* whatever crashed, timed out or failed on the way.
SettledIsReported == \A j \in Jobs : Settled(j) => Reported(j)

\* Only a message whose attempts are used up is dead-lettered, and not before the
\* failure was stored and announced.
DeadLetterIsReported ==
  \A c \in Copies : queue[c] = "dead" =>
     /\ body[c].attempt = MaxAttempts
     /\ result[body[c].job] # "none"
     /\ events[body[c].job]["failed"] > 0

\* Until a worker crashes a job has one message: a retry is sent only in the place
\* of the delivery that failed, so two workers never handle the same job.
Pending(c) ==
  \/ queue[c] \in {"ready", "delayed"}
  \/ queue[c] = "unacked" /\ \A r \in Runs : held[r] = c => pc[Handler(r)] # "ack"

OneMessagePerJob ==
  crashes = 0 =>
    \A c, d \in Copies : Pending(c) /\ Pending(d) /\ body[c].job = body[d].job => c = d

\* The consumer implements the abstract queue: it acknowledges a delivery only once
\* process() succeeded, the next attempt is queued or the dead letter is.
Broker == INSTANCE RetryQueue WITH
  Ids <- Jobs,
  published <- {j \in Jobs : submit[j] = "published"},
  resolved <- {held[r] : r \in {q \in Runs : pc[Handler(q)] = "ack"}}

ImplementsRetryQueue == Broker!Spec

\* No process() works for job j.
AtRest(j) == \A r \in Runs : msg[r] # NoMessage /\ msg[r].job = j => pc[Process(r)] = "off"

\* One actor at a time writes the record of a job: nobody cancels it, the watchdog and
\* the cache leave it alone, and no job is handled twice at once because a worker died.
OneWriter ==
  /\ enabled \subseteq {"scrapeFails", "dependencyFails", "earlyDeliveries", "workerDies"}
  /\ crashes = 0 \/ \A r, s \in Runs : r = s

\* Then a job that has left the queues is at rest, with a record that says what the
\* stored result says, whatever was refused and whenever the worker died.
Agrees(j) == AtRest(j) /\ record[j] = [status |-> result[j], stage |-> "completed"]

SettledAgrees == OneWriter => \A j \in Jobs : Settled(j) => Agrees(j)

\* One webhook event per job, when nothing is cancelled and only the scrape fails:
\* an attempt that will be retried announces nothing.
EventCount(j) == events[j]["completed"] + events[j]["failed"] + events[j]["cancelled"]

OnlyScrapesFail == enabled \subseteq {"scrapeFails", "cacheHits", "earlyDeliveries"}

OneEventPerJob == OnlyScrapesFail => \A j \in Jobs : Settled(j) => EventCount(j) = 1

\* Nothing undoes a cancellation: if a job is cancelled while none of its runs is
\* past the check of the record and no request is about to write an older one, its
\* status stays, unless a call is refused while the worker reports the cancellation
\* (the job is then queued again like any failure), or the watchdog gives up meanwhile.
Untouched(j) ==
  /\ record[j].status = "cancelled"
  /\ \A x \in CancelRequests : cancels[x] = j => seen[Cancel(x)].status \in {"none", "cancelled"}
  /\ \A r \in Runs : msg[r] # NoMessage /\ msg[r].job = j =>
        /\ pc[Handler(r)] \in {"free", "await", "ack"}
        /\ pc[Process(r)] \in {"off", "read", "skipResult", "skipEvent", "return"}
        /\ pc[Handler(r)] = "await" => outcome[r] # "threw"

CancellationStep ==
  "watchdogFires" \notin enabled => \A j \in Jobs : Untouched(j) =>
     Untouched(j)' \/ \E r \in Runs : outcome[r] = "none" /\ outcome'[r] = "threw"

CancellationHolds == [][CancellationStep]_vars

\* The status changes a client can see when only the scrape fails.  What is final is what
\* was announced: a job with an event keeps its status.  failed alone is not final (the
\* docs say it is, FailedIsFinal below): process() writes it at the end of every attempt
\* that failed, and handleMessage takes it back, unannounced, while attempts are left.
\* (A cache hit that writes the status twice at once is SettledIsTerminal below.)
Follows == [queued     |-> {"processing"},
            processing |-> {"completed", "failed", "queued"},
            failed     |-> {"queued"},
            completed  |-> {}]

TriedAgain(j) == \E r \in Runs : /\ msg[r].job = j /\ pc[Handler(r)] = "requeue"
                                 /\ msg[r].attempt < MaxAttempts

StatusStep ==
  enabled \subseteq {"scrapeFails", "earlyDeliveries"} =>
     \A j \in Jobs : record[j] # NoRecord /\ record'[j].status # record[j].status =>
        /\ record'[j].status \in Follows[record[j].status]
        /\ EventCount(j) = 0
        /\ record[j].status = "failed" => TriedAgain(j)

StatusFollows == [][StatusStep]_vars

\* The consumer and the broker go on; process() need not: it may hang for ever.
Fairness == /\ \A r \in Runs : WF_vars(HandlerNext(r))
            /\ \A c \in Copies : WF_vars(RetryExpires(c))
            /\ \A w \in Workers : WF_vars(Bootstrapped(w))

FairSpec == Spec /\ Fairness

\* Every published job leaves the queues, even if every process() hangs.
EveryJobSettles == \A j \in Jobs : submit[j] = "published" ~> Settled(j)

-----------------------------------------------------------------------------
(* What the documentation says of a job and the code does not keep *)

\* "The helper stops when the job reaches one of these statuses" (sdk/polling.mdx):
\* a job that has left the queues shows one of them to whoever polls it.
SettledIsTerminal ==
  \A j \in Jobs : Settled(j) /\ AtRest(j) => record[j].status \in Terminal

\* failed is among these statuses, and TERMINAL_STATUSES of the SDK (client.ts): a job a
\* client was shown as failed stays so.
FailedIsFinal ==
  [][\A j \in Jobs : record[j].status = "failed" => record'[j].status = "failed"]_vars

\* "Job was cancelled before processing started." (jobs.service.ts): no scrape of a
\* job announced with these words completes.
NotCancelledAndCompleted ==
  \A j \in Jobs : ~(events[j]["cancelled"] > 0 /\ events[j]["completed"] > 0)

-----------------------------------------------------------------------------
(* The inductive invariant behind SettledIsReported and DeadLetterIsReported *)

\* A copy that is in use carries a message.
CopiesCarryMessages == \A c \in Copies : queue[c] # "free" => body[c] \in Message

\* An active handler holds one copy, its own, and works on that copy's message.
HandlersHoldCopies ==
  \A r \in Runs :
     /\ held[r] = NoCopy <=> pc[Handler(r)] = "free"
     /\ held[r] # NoCopy => queue[held[r]] = "unacked" /\ body[held[r]] = msg[r]
     /\ \A s \in Runs : held[r] = held[s] /\ held[r] # NoCopy => r = s

\* An ignored delivery is one worker's, and no handler's.
IgnoredAreUnheld ==
  \A w \in Workers : \A c \in ignored[w] :
     /\ queue[c] = "unacked"
     /\ \A r \in Runs : held[r] # c
     /\ \A v \in Workers : c \in ignored[v] => v = w

\* Whoever acts for a run knows its message.
RunsHaveMessages ==
  \A r \in Runs : pc[Process(r)] # "off" \/ outcome[r] # "none" => msg[r] \in Message

\* process() reports what it did before it returns.  On a cache hit a rejected
\* branch may have skipped the report, but then process() has rejected.
ProcessReports ==
  \A r \in Runs : LET j == msg[r].job IN
     /\ pc[Process(r)] \in {"notify", "skipEvent"} => result[j] # "none"
     /\ pc[Process(r)] \in {"wrapUp", "return"} => Reported(j)
     /\ outcome[r] = "ok" => Reported(j)
     /\ outcome[r] = "none" =>
          /\ pc[Process(r)] = "hitEvent" => result[j] # "none"
          /\ pc[Process(r)] \in {"hitStatus", "hitFinish"} => Reported(j)

\* The handler retries while attempts are left and reports before it gives up.
HandlerReports ==
  \A r \in Runs : LET j == msg[r].job IN
     /\ pc[Handler(r)] \in {"requeue", "requeueStage", "retry"} => msg[r].attempt < MaxAttempts
     /\ pc[Handler(r)] \in {"giveUp", "giveUpStage", "giveUpResult", "giveUpEvent", "deadLetter"}
          => msg[r].attempt = MaxAttempts
     /\ pc[Handler(r)] \in {"giveUpEvent", "deadLetter"} => result[j] # "none"
     /\ pc[Handler(r)] = "deadLetter" => events[j]["failed"] > 0

\* A delivery is acknowledged when the job is reported or a later attempt is live.
\* Without the order on attempts two handlers could each rely on the other's copy.
LaterAttempt(m) == \E c \in Copies : /\ queue[c] \in {"ready", "delayed", "unacked"}
                                    /\ body[c].job = m.job
                                    /\ body[c].attempt > m.attempt

AcksAreCovered ==
  \A r \in Runs : pc[Handler(r)] = "ack" => Reported(msg[r].job) \/ LaterAttempt(msg[r])

IInv == /\ TypeOK
        /\ CopiesCarryMessages
        /\ HandlersHoldCopies
        /\ IgnoredAreUnheld
        /\ RunsHaveMessages
        /\ ProcessReports
        /\ HandlerReports
        /\ AcksAreCovered
        /\ DeadLetterIsReported
        /\ SettledIsReported

\* With OneMessagePerJob: a message is of a job that was published.
CopiesArePublished == \A c \in Copies : queue[c] # "free" => submit[body[c].job] = "published"

\* What cannot happen has not happened.
NothingElseHappens ==
  /\ "workerDies" \notin enabled => crashes = 0
  /\ "clientCancels" \notin enabled => \A x \in CancelRequests : pc[Cancel(x)] = "idle"
  /\ "cacheHits" \notin enabled =>
       \A r \in Runs : pc[Process(r)] \notin HitBranches \cup {"hitFinish"}

\* A record that was read is the one an update under way writes back.
ReadsAreOfUpdates ==
  \A r \in Runs :
     /\ seen[Handler(r)] # NoRecord => pc[Handler(r)] \in UpdateSteps
     /\ seen[Process(r)] # NoRecord => pc[Process(r)] \in UpdateSteps \cup (HitBranches \ {"hit"})

\* process() is awaited, unless the watchdog gave up on it or a branch of its Promise.all
\* was refused.
ProcessesAreAwaited ==
  "watchdogFires" \notin enabled /\ ("cacheHits" \notin enabled \/ "dependencyFails" \notin enabled)
    => \A r \in Runs : pc[Process(r)] # "off" => pc[Handler(r)] = "await" /\ outcome[r] = "none"

Orderly == NothingElseHappens /\ ReadsAreOfUpdates /\ ProcessesAreAwaited

\* Behind CancellationHolds.  Nobody acts for a job that is not saved, and process() has
\* one answer, but for the branches of a Promise.all that go on when one is refused.
SavedFirst ==
  \A j \in Jobs : submit[j] = "new" =>
     /\ record[j] = NoRecord
     /\ \A x \in CancelRequests : cancels[x] = j => pc[Cancel(x)] \in {"idle", "done"}
     /\ \A r \in Runs : msg[r] # NoMessage => msg[r].job # j

AnswersOnce ==
  \A r \in Runs : pc[Process(r)] \notin {"off", "hitFinish"} \cup HitBranches => outcome[r] = "none"

\* Behind SettledAgrees.  What the only writer of a record has read is what it is.
ReadsAreCurrent ==
  \A r \in Runs : \A t \in {Handler(r), Process(r)} :
     seen[t] # NoRecord => seen[t] = record[msg[r].job]

NoneCancelled ==
  /\ \A j \in Jobs : record[j].status # "cancelled"
  /\ \A r \in Runs : pc[Process(r)] \notin {"skipResult", "skipEvent", "return"}

\* Each step finds in the record what the steps before it wrote.
RecordsFollow ==
  \A r \in Runs : LET j == msg[r].job IN
     /\ pc[Process(r)] = "finish" => record[j].status = "completed"
     /\ pc[Process(r)] = "saveResult" => record[j] = [status |-> "completed", stage |-> "completed"]
     /\ (\/ pc[Process(r)] \in {"notify", "wrapUp"}
         \/ pc[Handler(r)] = "await" /\ outcome[r] = "ok"
         \/ pc[Handler(r)] \in {"giveUpEvent", "deadLetter"})
          => record[j] = [status |-> result[j], stage |-> "completed"]
     /\ pc[Handler(r)] = "giveUpStage" => record[j].status = "failed"
     /\ pc[Handler(r)] = "giveUpResult" => record[j] = [status |-> "failed", stage |-> "completed"]

\* A published job is pending or has its last word.
PendingOrAgrees ==
  \A j \in Jobs : submit[j] = "published" =>
     Agrees(j) \/ \E c \in Copies : Pending(c) /\ body[c].job = j

WritesAgree ==
  OneWriter => ReadsAreCurrent /\ NoneCancelled /\ RecordsFollow /\ PendingOrAgrees

\* Behind OneEventPerJob: a pending message has announced its job if its handler is past
\* the announcement, and a job without one is announced.
Announced(c) ==
  \E r \in Runs : /\ held[r] = c
                  /\ \/ pc[Process(r)] \in {"hitStatus", "hitFinish", "wrapUp", "return"}
                     \/ pc[Handler(r)] = "await" /\ outcome[r] = "ok"
                     \/ pc[Handler(r)] = "deadLetter"

EventsAreCounted ==
  OnlyScrapesFail =>
    \A j \in Jobs :
       /\ submit[j] # "published" => EventCount(j) = 0
       /\ \A c \in Copies : Pending(c) /\ body[c].job = j =>
             EventCount(j) = IF Announced(c) THEN 1 ELSE 0
       /\ submit[j] = "published" /\ (\A c \in Copies : ~(Pending(c) /\ body[c].job = j))
             => EventCount(j) = 1

\* Behind StatusFollows: the status that each step of an attempt finds.
StatusIsKnown ==
  enabled \subseteq {"scrapeFails", "earlyDeliveries"} =>
    /\ \A j \in Jobs : submit[j] = "saved" => record[j].status = "queued"
    /\ \A c \in Copies : Pending(c) /\ (\A r \in Runs : held[r] # c) =>
          record[body[c].job].status = "queued"
    /\ \A r \in Runs : LET status == record[msg[r].job].status IN
          /\ pc[Process(r)] \in {"read", "begin"} => status = "queued"
          /\ pc[Process(r)] \in {"fetching", "lookup", "proxy", "scrape", "stage", "complete", "fail"}
               => status = "processing"
          /\ pc[Process(r)] \in {"failFinish", "failResult"} => status = "failed"
          /\ (\/ pc[Process(r)] = "raise"
              \/ pc[Handler(r)] = "await" /\ outcome[r] = "threw"
              \/ pc[Handler(r)] \in {"requeue", "giveUp"})
               => status \in {"processing", "failed"}
          /\ pc[Handler(r)] \in {"requeueStage", "retry"} => status = "queued"
=============================================================================
