------------------------------ MODULE SdkClient ------------------------------
(***************************************************************************)
(* One caller of the Node SDK: createAndWait and createAndWaitAdaptive     *)
(* create a job and poll it until its status is terminal, then poll its    *)
(* result, under a deadline and an abort signal.                           *)
(*                                                                         *)
(* The deadline is looked at between requests and sleeps, never during     *)
(* them; a request has a timeout of its own; createJob does not take the   *)
(* signal.  The API behind it is what the SDK can see: a status that may   *)
(* leave a terminal value again while a retry runs, a result stored later  *)
(* than the status, and a job that is answered again for its idempotency   *)
(* key.  Time is in ticks.                                                 *)
(***************************************************************************)
EXTENDS Integers, Sequences

CONSTANTS
  RequestTimeout,   \* timeoutMs of the client
  WaitTimeout,      \* timeoutMs of the wait
  Interval,         \* intervalMs, for fixed polling
  AdaptiveIntervals,\* adaptiveIntervals as the caller gives them, not empty
  LongestDelay,     \* no request and no sleep is longer than this
  Jobs,             \* ids of the jobs the API creates
  NoJob             \* no job is created, or the key is free

TERMINAL_STATUSES == {"completed", "failed", "cancelled", "timeout"}
Status == {"queued", "processing"} \cup TERMINAL_STATUSES

Steps == DOMAIN AdaptiveIntervals

AtLeast(low, n) == IF n < low THEN low ELSE n

\* normalizeAdaptiveIntervals: neither negative starts nor sleeps of no length
AfterMs(i) == AtLeast(0, AdaptiveIntervals[i].afterMs)
IntervalMs(i) == AtLeast(1, AdaptiveIntervals[i].intervalMs)

SdkAssumption ==
  /\ RequestTimeout \in Nat \ {0} /\ WaitTimeout \in Nat /\ Interval \in Nat
  /\ Steps # {}
  /\ AdaptiveIntervals \in Seq([afterMs : Int, intervalMs : Int])
  /\ LongestDelay \in Nat /\ RequestTimeout <= LongestDelay /\ Interval <= LongestDelay
  /\ \A i \in Steps : IntervalMs(i) <= LongestDelay
  /\ NoJob \notin Jobs

\* The order in which resolveAdaptiveInterval meets the steps: sorted by afterMs,
\* equal ones as they were given.
Before(i, j) == AfterMs(i) < AfterMs(j) \/ (AfterMs(i) = AfterMs(j) /\ i <= j)
FirstOf(S) == CHOOSE i \in S : \A j \in S : Before(i, j)
LastOf(S)  == CHOOSE i \in S : \A j \in S : Before(j, i)

resolveAdaptiveInterval(elapsedMs) ==
  LET reached == {i \in Steps : AfterMs(i) <= elapsedMs}
  IN  IntervalMs(IF reached = {} THEN FirstOf(Steps) ELSE LastOf(reached))

VARIABLES
  pc,         \* what the call awaits
  options,    \* pollingMode, fetchResultOnCompleted and autoIdempotencyKey
  elapsed,    \* ticks since startedAt, or since createJob began
  deadline,   \* when the request gives up or the sleep ends
  aborted,    \* options.signal.aborted
  pollCount,  \* status requests answered
  answer,     \* how the call ended
  job,        \* the job createJob was answered with
  status,     \* API: status of each job
  stored,     \* API: jobs whose result can be read
  reserved    \* API: the job of the idempotency key

clientVars == <<options, aborted, pollCount, job>>
apiVars == <<status, stored, reserved>>
vars == <<pc, elapsed, deadline, answer, clientVars, apiVars>>

Requests == {"create", "job", "result"}
Sleeps == {"sleep", "sleepResult"}
Waiting == {"check", "job", "result"} \cup Sleeps

TypeOK ==
  /\ pc \in {"idle", "create"} \cup Waiting
  /\ options \in [adaptive : BOOLEAN, fetchResult : BOOLEAN, autoKey : BOOLEAN]
  /\ elapsed \in Nat /\ deadline \in Nat /\ pollCount \in Nat
  /\ aborted \in BOOLEAN
  /\ answer \in {"none", "record", "result", "PollingTimeout", "Timeout", "Http", "Abort"}
  /\ job \in Jobs \cup {NoJob}
  /\ status \in [Jobs -> Status \cup {"none"}]
  /\ stored \in SUBSET Jobs
  /\ reserved \in Jobs \cup {NoJob}

Init ==
  /\ pc = "idle" /\ elapsed = 0 /\ deadline = 0 /\ answer = "none"
  /\ options \in [adaptive : BOOLEAN, fetchResult : BOOLEAN, autoKey : BOOLEAN]
  /\ aborted = FALSE /\ pollCount = 0 /\ job = NoJob
  /\ status = [j \in Jobs |-> "none"]
  /\ stored = {} /\ reserved = NoJob

-----------------------------------------------------------------------------
(* The client                                                              *)

\* The next request or sleep begins now and lasts at most for the given time.
Await(step, duration) ==
  /\ pc' = step /\ deadline' = elapsed + duration
  /\ UNCHANGED <<elapsed, answer>>

Ends(how) == pc' = "idle" /\ answer' = how /\ UNCHANGED <<elapsed, deadline>>

createAndWait ==
  /\ pc = "idle" /\ answer' = "none"
  /\ pc' = "create" /\ elapsed' = 0 /\ deadline' = RequestTimeout
  /\ aborted' = FALSE /\ pollCount' = 0 /\ job' = NoJob
  /\ UNCHANGED <<options, apiVars>>

\* The API answers POST /jobs: with the job of the key, or with a new one.
Created ==
  /\ pc = "create"
  /\ \E j \in Jobs :
       /\ job' = j
       /\ IF options.autoKey /\ reserved # NoJob
          THEN j = reserved /\ UNCHANGED <<status, reserved>>
          ELSE /\ status[j] = "none"
               /\ status' = [status EXCEPT ![j] = "queued"]
               /\ reserved' = IF options.autoKey THEN j ELSE reserved
  /\ pc' = "check" /\ elapsed' = 0 /\ deadline' = 0
  /\ UNCHANGED <<answer, options, aborted, pollCount, stored>>

\* Mutation of Check: the abort is left to the requests and sleeps.
CheckTimeOnly ==
  /\ pc = "check"
  /\ IF elapsed >= WaitTimeout THEN Ends("PollingTimeout") ELSE Await("job", RequestTimeout)
  /\ UNCHANGED <<clientVars, apiVars>>

\* The top of waitForCompletionInternal's loop
Check ==
  /\ pc = "check"
  /\ IF aborted THEN Ends("Abort")
     ELSE IF elapsed >= WaitTimeout THEN Ends("PollingTimeout")
     ELSE Await("job", RequestTimeout)
  /\ UNCHANGED <<clientVars, apiVars>>

NextInterval == IF options.adaptive THEN resolveAdaptiveInterval(elapsed) ELSE Interval

JobAnswered ==
  /\ pc = "job"
  /\ pollCount' = pollCount + 1
  /\ IF status[job] \notin TERMINAL_STATUSES THEN Await("sleep", NextInterval)
     ELSE IF status[job] = "completed" /\ options.fetchResult
          THEN Await("result", RequestTimeout)
     ELSE Ends("record")
  /\ UNCHANGED <<options, aborted, job, apiVars>>

ResultAnswered ==
  /\ pc = "result"
  /\ IF job \in stored THEN Ends("result")
     ELSE IF elapsed >= WaitTimeout THEN Ends("PollingTimeout")
     ELSE Await("sleepResult", NextInterval)
  /\ UNCHANGED <<clientVars, apiVars>>

\* The API answers an error, or the request cannot be made.
RequestFails ==
  /\ pc \in Requests /\ Ends("Http")
  /\ UNCHANGED <<clientVars, apiVars>>

RequestTimesOut ==
  /\ pc \in Requests /\ elapsed = deadline /\ Ends("Timeout")
  /\ UNCHANGED <<clientVars, apiVars>>

Wake ==
  /\ pc \in Sleeps /\ elapsed = deadline
  /\ IF pc = "sleep" THEN Await("check", 0) ELSE Await("result", RequestTimeout)
  /\ UNCHANGED <<clientVars, apiVars>>

\* Listened to by every request and sleep of the wait, but not by createJob.
Abort ==
  /\ pc \notin {"idle", "check"} /\ ~aborted
  /\ aborted' = TRUE
  /\ IF pc = "create" THEN UNCHANGED <<pc, elapsed, deadline, answer>> ELSE Ends("Abort")
  /\ UNCHANGED <<options, pollCount, job, apiVars>>

\* Mutation of Tick: a request has no timer.
TickUntimed ==
  /\ pc \in Requests \/ (pc \in Sleeps /\ elapsed < deadline)
  /\ elapsed' = elapsed + 1
  /\ UNCHANGED <<pc, deadline, answer, clientVars, apiVars>>

Tick ==
  /\ pc \in Requests \cup Sleeps /\ elapsed < deadline
  /\ elapsed' = elapsed + 1
  /\ UNCHANGED <<pc, deadline, answer, clientVars, apiVars>>

-----------------------------------------------------------------------------
(* The API and the workers, as far as the requests can tell                *)

\* A failed attempt shows a terminal status until its retry runs.
Work(j) ==
  /\ status[j] \in {"queued", "processing", "failed", "timeout"}
  /\ \E s \in Status \ {"queued"} : status' = [status EXCEPT ![j] = s]
  /\ UNCHANGED <<pc, elapsed, deadline, answer, clientVars, stored, reserved>>

\* The result is stored after the status, and expires.
ResultChanges(j) ==
  /\ status[j] = "completed"
  /\ stored' = IF j \in stored THEN stored \ {j} ELSE stored \cup {j}
  /\ UNCHANGED <<pc, elapsed, deadline, answer, clientVars, status, reserved>>

KeyExpires ==
  /\ reserved # NoJob /\ reserved' = NoJob
  /\ UNCHANGED <<pc, elapsed, deadline, answer, clientVars, status, stored>>

Next ==
  \/ createAndWait \/ Created \/ Check \/ JobAnswered \/ ResultAnswered
  \/ RequestFails \/ RequestTimesOut \/ Wake \/ Abort \/ Tick
  \/ \E j \in Jobs : Work(j) \/ ResultChanges(j)
  \/ KeyExpires

Spec == Init /\ [][Next]_vars

-----------------------------------------------------------------------------
\* A wait outlives its timeout by no more than the request it is in, and one
\* more request or sleep (waitForCompletionInternal looks at the clock only at
\* the top of the loop and after an empty result).
WaitIsBounded ==
  pc \in Waiting => elapsed <= WaitTimeout + RequestTimeout + LongestDelay

\* After the abort no status or result is asked for, and the wait ends with the
\* abort even when it came while createJob was under way, whose job stays.
AbortedStep == aborted /\ aborted' => pc' \notin {"job", "result"} \cup Sleeps
AbortedAsksNoMore == [][AbortedStep]_vars
=============================================================================
