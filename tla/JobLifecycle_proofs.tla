------------------------ MODULE JobLifecycle_proofs -------------------------
(***************************************************************************)
(* Proofs about JobLifecycle, for every set of jobs, workers, runs and     *)
(* copies, every number of attempts and every choice of what can fail.     *)
(***************************************************************************)
EXTENDS JobLifecycle, TLAPS

USE LifecycleAssumption, NoMessageAssumption

\* Threads of different actors are different, and each is in its own set.
LEMMA ThreadNames ==
  /\ \A r, s \in Runs : /\ Handler(r) # Process(s)
                        /\ Handler(r) = Handler(s) => r = s
                        /\ Process(r) = Process(s) => r = s
  /\ \A r \in Runs, x \in CancelRequests : Cancel(x) # Handler(r) /\ Cancel(x) # Process(r)
  /\ \A r \in Runs : /\ Handler(r) \in Handlers /\ Handler(r) \notin Processes
                     /\ Process(r) \in Processes /\ Process(r) \notin Handlers
                     /\ Handler(r) \in Threads /\ Process(r) \in Threads
  /\ \A x, y \in CancelRequests : Cancel(x) = Cancel(y) => x = y
  /\ \A x \in CancelRequests : /\ Cancel(x) \in Threads
                               /\ Cancel(x) \notin Handlers /\ Cancel(x) \notin Processes
  /\ \A t \in Threads : \/ \E r \in Runs : t = Handler(r) \/ t = Process(r)
                        \/ \E x \in CancelRequests : t = Cancel(x)
BY DEF Handler, Process, Cancel, Handlers, Processes, Cancels, Threads

THEOREM InitIInv == Init => IInv
<1> SUFFICES ASSUME Init PROVE IInv
  OBVIOUS
<1>1. TypeOK
  BY ThreadNames DEF Init, TypeOK, RecordOrNull, Outcome, HandlerSteps, ProcessSteps, CancelSteps,
     HasChannelAtStart
<1>2. \A r \in Runs : pc[Handler(r)] = "free" /\ pc[Process(r)] = "off"
  BY ThreadNames DEF Init
<1>3. CopiesCarryMessages /\ DeadLetterIsReported /\ SettledIsReported
  BY DEF Init, CopiesCarryMessages, DeadLetterIsReported, SettledIsReported, Settled
<1>4. /\ HandlersHoldCopies /\ IgnoredAreUnheld /\ RunsHaveMessages /\ ProcessReports
      /\ HandlerReports /\ AcksAreCovered
  BY <1>2 DEF Init, HandlersHoldCopies, IgnoredAreUnheld, RunsHaveMessages, ProcessReports,
     HandlerReports, AcksAreCovered
<1> QED
  BY <1>1, <1>3, <1>4 DEF IInv

LEMMA RecordGetIInv ==
  ASSUME IInv, NEW t \in Threads, NEW j \in Jobs, RecordGet(t, j)
  PROVE IInv'
<1>1. TypeOK'
  BY DEF IInv, TypeOK, RecordGet, apiVars, redisVars, brokerVars, runVars, workerVars
<1> QED
  BY <1>1 DEF IInv, RecordGet, apiVars, redisVars, brokerVars, runVars, workerVars,
     CopiesCarryMessages, HandlersHoldCopies, IgnoredAreUnheld, RunsHaveMessages, ProcessReports,
     HandlerReports, AcksAreCovered, DeadLetterIsReported, SettledIsReported,
     Settled, Live, Reported, LaterAttempt

\* Where the straight-line steps lead.
LEMMA AfterUpdate ==
  ASSUME NEW step \in UpdateSteps
  PROVE /\ step = "requeue" => After[step] = "requeueStage"
        /\ step = "requeueStage" => After[step] = "retry"
        /\ step = "giveUp" => After[step] = "giveUpStage"
        /\ step = "giveUpStage" => After[step] = "giveUpResult"
        /\ step \in HandlerSteps => step \in {"requeue", "requeueStage", "giveUp", "giveUpStage"}
        /\ step \in ProcessSteps => After[step] \in {"fetching", "lookup", "scrape", "finish",
                                      "saveResult", "failFinish", "failResult"}
        /\ step \in CancelSteps => After[step] \in {"cancelStage", "cancelResult"}
BY DEF UpdateSteps, StatusSteps, StageSteps, After, HandlerSteps, ProcessSteps, CancelSteps

LEMMA PatchedType ==
  ASSUME NEW existing \in RecordOrNull, existing # NoRecord, NEW step
  PROVE Patched(existing, step) \in Record
BY DEF Patched, RecordOrNull, NoRecord, Record, updateStatus, updateProgress, NewStatus,
   NewStage, Status, Stage

LEMMA RecordSetIInv ==
  ASSUME IInv, NEW t \in Threads, NEW j \in Jobs, RecordSet(t, j)
  PROVE IInv'
<1> USE DEF RecordSet, Goto, apiVars, brokerVars, runVars, workerVars
<1>1. TypeOK'
  BY PatchedType, AfterUpdate, ThreadNames
  DEF IInv, TypeOK, RecordOrNull, HandlerSteps, ProcessSteps, CancelSteps
<1>2. \A r \in Runs :
        /\ pc'[Handler(r)] = pc[Handler(r)]
           \/ /\ pc[Handler(r)] \in {"requeue", "requeueStage"}
              /\ pc'[Handler(r)] \in {"requeueStage", "retry"}
           \/ /\ pc[Handler(r)] \in {"giveUp", "giveUpStage"}
              /\ pc'[Handler(r)] \in {"giveUpStage", "giveUpResult"}
        /\ pc'[Process(r)] = pc[Process(r)]
           \/ /\ pc[Process(r)] \in UpdateSteps
              /\ pc'[Process(r)] \in {"fetching", "lookup", "scrape", "finish", "saveResult",
                                     "failFinish", "failResult"}
  BY AfterUpdate, ThreadNames DEF IInv, TypeOK
<1> QED
  BY <1>1, <1>2 DEF IInv, UpdateSteps, StatusSteps, StageSteps,
     CopiesCarryMessages, HandlersHoldCopies, IgnoredAreUnheld, RunsHaveMessages, ProcessReports,
     HandlerReports, AcksAreCovered, DeadLetterIsReported, SettledIsReported,
     Settled, Live, Reported, LaterAttempt


\* A message that a handler or process() works on is one.
LEMMA ActiveRun ==
  ASSUME IInv, NEW r \in Runs
  PROVE /\ pc[Handler(r)] # "free" => /\ msg[r] \in Message /\ held[r] \in Copies
                                      /\ queue[held[r]] = "unacked" /\ body[held[r]] = msg[r]
        /\ pc[Process(r)] # "off" => msg[r] \in Message
        /\ msg[r] \in Message => msg[r].job \in Jobs /\ msg[r].attempt \in 1..MaxAttempts
BY DEF IInv, TypeOK, HandlersHoldCopies, CopiesCarryMessages, RunsHaveMessages, Message

\* A step that leaves the broker alone and takes no report back preserves the
\* invariant if the two threads of every run keep to what they have to report.
LEMMA QuietStep ==
  ASSUME IInv, TypeOK',
         UNCHANGED <<submit, queue, body, held, msg, ignored>>,
         \A j \in Jobs : result[j] # "none" => result'[j] # "none",
         \A j \in Jobs, s \in Terminal : events'[j][s] >= events[j][s],
         \A r \in Runs : /\ pc'[Handler(r)] = "free" <=> pc[Handler(r)] = "free"
                         /\ pc'[Handler(r)] = "ack" => pc[Handler(r)] = "ack" \/ outcome[r] = "ok",
         RunsHaveMessages', ProcessReports', HandlerReports'
  PROVE  IInv'
<1>1. \A j \in Jobs : Reported(j) => Reported(j)'
  <2> SUFFICES ASSUME NEW j \in Jobs, NEW s \in Terminal, result[j] # "none", events[j][s] > 0
               PROVE  events'[j][s] > 0 /\ result'[j] # "none"
    BY DEF Reported
  <2> QED
    BY DEF IInv, TypeOK
<1>2. CopiesCarryMessages' /\ HandlersHoldCopies' /\ IgnoredAreUnheld'
  BY DEF IInv, CopiesCarryMessages, HandlersHoldCopies, IgnoredAreUnheld
<1>3. AcksAreCovered'
  BY <1>1, ActiveRun DEF IInv, AcksAreCovered, LaterAttempt, ProcessReports
<1>4. SettledIsReported'
  BY <1>1 DEF IInv, SettledIsReported, Settled, Live
<1>5. DeadLetterIsReported'
  <2> SUFFICES ASSUME NEW c \in Copies, queue[c] = "dead"
               PROVE  /\ body[c].attempt = MaxAttempts
                      /\ result'[body[c].job] # "none"
                      /\ events'[body[c].job]["failed"] > 0
    BY DEF DeadLetterIsReported
  <2>1. body[c] \in Message /\ body[c].job \in Jobs
    BY DEF IInv, CopiesCarryMessages, Message
  <2> QED
    BY <2>1 DEF IInv, TypeOK, DeadLetterIsReported, Terminal
<1> QED
  BY <1>2, <1>3, <1>4, <1>5 DEF IInv

\* What a step of Goto may change.
LEMMA GotoPc ==
  ASSUME TypeOK, NEW t \in Threads, NEW step, Goto(t, step)
  PROVE  \A u \in Threads : pc'[u] = IF u = t THEN step ELSE pc[u]
BY DEF Goto, TypeOK

LEMMA AfterReport ==
  ASSUME NEW step \in ResultSteps \cup EventSteps
  PROVE /\ ReportedStatus(step) \in Terminal
        /\ step \in HandlerSteps => \/ step = "giveUpResult" /\ After[step] = "giveUpEvent"
                                    \/ step = "giveUpEvent" /\ After[step] = "deadLetter"
        /\ step \in ProcessSteps =>
              \/ step \in ResultSteps /\ After[step] \in {"skipEvent", "hitEvent", "notify", "raise"}
              \/ step = "skipEvent" /\ After[step] = "return"
              \/ step = "hitEvent" /\ After[step] = "hitStatus"
              \/ step = "notify" /\ After[step] = "wrapUp"
        /\ step \in CancelSteps => After[step] \in {"cancelEvent", "done"}
<1>1. step \in HandlerSteps => step \in {"giveUpResult", "giveUpEvent"}
  BY DEF ResultSteps, EventSteps, HandlerSteps
<1>2. step \in CancelSteps => step \in {"cancelResult", "cancelEvent"}
  BY DEF ResultSteps, EventSteps, CancelSteps
<1>3. step \in ProcessSteps => step \in {"skipResult", "hitResult", "saveResult", "failResult",
                                         "skipEvent", "hitEvent", "notify"}
  BY DEF ResultSteps, EventSteps, ProcessSteps
<1>4. ReportedStatus(step) \in Terminal
  BY DEF ReportedStatus, Terminal
<1> QED
  BY <1>1, <1>2, <1>3, <1>4 DEF After, ResultSteps

LEMMA SaveResultIInv ==
  ASSUME IInv,
         NEW t \in Threads, NEW j \in Jobs, SaveResult(t, j),
         \A r \in Runs : t \in {Handler(r), Process(r)} => j = msg[r].job
  PROVE  IInv'
<1> USE DEF SaveResult, apiVars, brokerVars, runVars, workerVars
<1>1. \A u \in Threads : pc'[u] = IF u = t THEN After[pc[t]] ELSE pc[u]
  BY GotoPc DEF IInv
<1>2. \A i \in Jobs : result'[i] = IF i = j THEN ReportedStatus(pc[t]) ELSE result[i]
  BY DEF IInv, TypeOK
<1>3. ReportedStatus(pc[t]) \in Terminal /\ ReportedStatus(pc[t]) # "none"
  BY AfterReport DEF Terminal
<1>4. TypeOK'
  BY <1>1, <1>3, AfterReport, ThreadNames DEF IInv, TypeOK, Goto, HandlerSteps, ProcessSteps, CancelSteps
<1>5. \A r \in Runs : /\ \/ pc'[Handler(r)] = pc[Handler(r)]
                         \/ pc[Handler(r)] = "giveUpResult" /\ pc'[Handler(r)] = "giveUpEvent" /\ j = msg[r].job
                      /\ \/ pc'[Process(r)] = pc[Process(r)]
                         \/ /\ pc[Process(r)] \in ResultSteps /\ j = msg[r].job
                            /\ pc'[Process(r)] \in {"skipEvent", "hitEvent", "notify", "raise"}
  BY <1>1, AfterReport, ThreadNames DEF IInv, TypeOK, ResultSteps, EventSteps
<1>6. ProcessReports' /\ RunsHaveMessages' /\ HandlerReports'
  BY <1>2, <1>3, <1>5 DEF IInv, ProcessReports, RunsHaveMessages, HandlerReports, Reported, ResultSteps
<1>7. \A k \in Jobs, s \in Terminal : events'[k][s] >= events[k][s]
  BY DEF IInv, TypeOK
<1> QED
  BY <1>2, <1>3, <1>4, <1>5, <1>6, <1>7, QuietStep

LEMMA EnqueueEventIInv ==
  ASSUME IInv,
         NEW t \in Threads, NEW j \in Jobs, EnqueueEvent(t, j),
         \A r \in Runs : t \in {Handler(r), Process(r)} => j = msg[r].job
  PROVE  IInv'
<1> USE DEF EnqueueEvent, apiVars, redisVars, brokerVars, runVars, workerVars
<1>1. \A u \in Threads : pc'[u] = IF u = t THEN After[pc[t]] ELSE pc[u]
  BY GotoPc DEF IInv
<1>2. ReportedStatus(pc[t]) \in Terminal
  BY AfterReport
<1>3. events[j] \in [Terminal -> Nat]
  BY DEF IInv, TypeOK
<1>4. /\ events' \in [Jobs -> [Terminal -> Nat]]
      /\ events'[j][ReportedStatus(pc[t])] > 0
      /\ \A k \in Jobs, s \in Terminal : events'[k][s] >= events[k][s]
  BY <1>2, <1>3 DEF IInv, TypeOK
<1>5. TypeOK'
  BY <1>1, <1>4, AfterReport, ThreadNames DEF IInv, TypeOK, Goto, HandlerSteps, ProcessSteps, CancelSteps
<1>6. \A r \in Runs : /\ \/ pc'[Handler(r)] = pc[Handler(r)]
                         \/ /\ pc[Handler(r)] = "giveUpEvent" /\ pc'[Handler(r)] = "deadLetter"
                            /\ j = msg[r].job /\ ReportedStatus(pc[t]) = "failed"
                      /\ \/ pc'[Process(r)] = pc[Process(r)]
                         \/ /\ j = msg[r].job
                            /\ \/ pc[Process(r)] = "skipEvent" /\ pc'[Process(r)] = "return"
                               \/ pc[Process(r)] = "hitEvent" /\ pc'[Process(r)] = "hitStatus"
                               \/ pc[Process(r)] = "notify" /\ pc'[Process(r)] = "wrapUp"
  BY <1>1, AfterReport, ThreadNames DEF IInv, TypeOK, ResultSteps, EventSteps, ReportedStatus
<1>7. \A r \in Runs : j = msg[r].job /\ result[j] # "none" => Reported(j)'
  BY <1>2, <1>4 DEF Reported
<1>8. \A k \in Jobs : Reported(k) => Reported(k)'
  BY <1>4 DEF Reported, IInv, TypeOK
<1>9. ProcessReports' /\ RunsHaveMessages' /\ HandlerReports'
  <2>1. RunsHaveMessages'
    BY <1>6 DEF IInv, RunsHaveMessages
  <2>2. ProcessReports'
    <3> SUFFICES ASSUME NEW r \in Runs, pc'[Process(r)] # "off" \/ outcome[r] # "none"
                 PROVE  ProcessReports!(r)'
      BY DEF ProcessReports
    <3> QED
      BY <1>6, <1>7, <1>8, ActiveRun DEF IInv, ProcessReports, RunsHaveMessages
  <2>3. HandlerReports'
    BY <1>4, <1>6, <1>8, ActiveRun DEF IInv, TypeOK, HandlerReports, Terminal
  <2> QED
    BY <2>1, <2>2, <2>3
<1> QED
  BY <1>4, <1>5, <1>6, <1>9, QuietStep

\* A step of process() that writes neither a result nor an event, and where it
\* leads nothing has been reported that is not.
LEMMA ProcessStep ==
  ASSUME IInv, TypeOK', NEW r \in Runs, NEW step,
         pc[Process(r)] # "off", Goto(Process(r), step),
         UNCHANGED <<submit, result, events, queue, body, held, msg, ignored>>,
         \A s \in Runs : s # r => outcome'[s] = outcome[s],
         /\ step \in {"notify", "skipEvent"} => result[msg[r].job] # "none"
         /\ step \in {"wrapUp", "return"} \/ outcome'[r] = "ok" => Reported(msg[r].job)
         /\ outcome'[r] = "none" => /\ step = "hitEvent" => result[msg[r].job] # "none"
                                    /\ step \in {"hitStatus", "hitFinish"} => Reported(msg[r].job)
  PROVE  IInv'
<1>1. \A u \in Threads : pc'[u] = IF u = Process(r) THEN step ELSE pc[u]
  BY GotoPc, ThreadNames DEF IInv
<1>2. \A s \in Runs : /\ pc'[Handler(s)] = pc[Handler(s)]
                      /\ pc'[Process(s)] = IF s = r THEN step ELSE pc[Process(s)]
  BY <1>1, ThreadNames
<1>3. RunsHaveMessages' /\ HandlerReports'
  BY <1>2 DEF IInv, RunsHaveMessages, HandlerReports
<1>4. ProcessReports'
  BY <1>2 DEF IInv, ProcessReports, Reported
<1>5. \A k \in Jobs, s \in Terminal : events'[k][s] >= events[k][s]
  BY DEF IInv, TypeOK
<1> QED
  BY <1>2, <1>3, <1>4, <1>5, QuietStep

LEMMA ProcessIInv ==
  ASSUME IInv, NEW r \in Runs,
         Read(r) \/ Lookup(r) \/ Scrape(r) \/ Return(r) \/ Throw(r)
  PROVE  IInv'
<1> USE DEF apiVars, redisVars, brokerVars, runVars, workerVars
<1>1. CASE Read(r)
  <2> PICK step \in {"skipResult", "begin"} : Goto(Process(r), step)
    BY <1>1 DEF Read
  <2>1. TypeOK'
    BY <1>1, ThreadNames DEF IInv, TypeOK, Read, Goto, ProcessSteps
  <2> QED
    BY <1>1, <2>1, ProcessStep DEF Read, IInv, ProcessReports
<1>2. CASE Lookup(r)
  <2> PICK step \in {"proxy", "hit", "raise"} : Goto(Process(r), step)
    BY <1>2 DEF Lookup
  <2>1. TypeOK'
    BY <1>2, ThreadNames DEF IInv, TypeOK, Lookup, Goto, ProcessSteps
  <2> QED
    BY <1>2, <2>1, ProcessStep DEF Lookup, IInv, ProcessReports
<1>3. CASE Scrape(r)
  <2> PICK step \in {"stage", "complete", "fail", "raise"} : Goto(Process(r), step)
    BY <1>3 DEF Scrape
  <2>1. TypeOK'
    BY <1>3, ThreadNames DEF IInv, TypeOK, Scrape, Goto, ProcessSteps
  <2> QED
    BY <1>3, <2>1, ProcessStep DEF Scrape, IInv, ProcessReports
<1>4. CASE Return(r)
  <2>1. TypeOK'
    BY <1>4, ThreadNames DEF IInv, TypeOK, Return, Goto, ProcessSteps, Outcome
  <2>2. outcome' = [outcome EXCEPT ![r] = "ok"] /\ Reported(msg[r].job)
    BY <1>4 DEF Return, IInv, ProcessReports
  <2> QED
    BY <1>4, <2>1, <2>2, ProcessStep DEF Return, IInv, TypeOK
<1>5. CASE Throw(r)
  <2>1. TypeOK'
    BY <1>5, ThreadNames DEF IInv, TypeOK, Throw, Goto, ProcessSteps, Outcome, RecordOrNull
  <2>2. pc[Process(r)] # "off"
    BY <1>5 DEF Throw
  <2>3. outcome' = [outcome EXCEPT ![r] = "threw"] /\ outcome'[r] = "threw"
    BY <1>5 DEF Throw, IInv, TypeOK
  <2> QED
    BY <1>5, <2>1, <2>2, <2>3, ProcessStep DEF Throw, IInv, TypeOK
<1> QED
  BY <1>1, <1>2, <1>3, <1>4, <1>5

LEMMA HitIInv ==
  ASSUME IInv, NEW r \in Runs,
         \/ HitGetStatus(r) \/ HitGetProgress(r) \/ HitSetStatus(r) \/ HitSetProgress(r)
         \/ HitFails(r)
  PROVE  IInv'
<1> USE DEF apiVars, redisVars, brokerVars, runVars, workerVars
<1>1. CASE HitGetStatus(r)
  <2>1. TypeOK'
    BY <1>1, ActiveRun, ThreadNames DEF IInv, TypeOK, HitGetStatus, Goto, ProcessSteps
  <2> QED
    BY <1>1, <2>1, ProcessStep DEF HitGetStatus, IInv, ProcessReports
<1>2. CASE HitGetProgress(r)
  <2>1. TypeOK'
    BY <1>2, ActiveRun, ThreadNames DEF IInv, TypeOK, HitGetProgress, Goto, ProcessSteps
  <2> QED
    BY <1>2, <2>1, ProcessStep DEF HitGetProgress, IInv, ProcessReports
<1>3. CASE HitSetStatus(r)
  <2>1. updateStatus(seen[Process(r)], "completed") \in Record \/ seen[Process(r)] = NoRecord
    <3>1. seen[Process(r)] \in RecordOrNull
      BY ThreadNames DEF IInv, TypeOK
    <3> QED
      BY <3>1 DEF updateStatus, RecordOrNull, Record, Status
  <2>2. TypeOK'
    <3>1. record' \in [Jobs -> RecordOrNull]
      BY <1>3, <2>1 DEF IInv, TypeOK, HitSetStatus, RecordOrNull
    <3>2. seen' \in [Threads -> RecordOrNull]
      BY <1>3 DEF IInv, TypeOK, HitSetStatus, RecordOrNull
    <3> QED
      BY <1>3, <3>1, <3>2, ThreadNames DEF IInv, TypeOK, HitSetStatus, Goto, ProcessSteps
  <2> QED
    BY <1>3, <2>2, ProcessStep DEF HitSetStatus, IInv, ProcessReports
<1>4. CASE HitSetProgress(r)
  <2> hitSeen[r] \in RecordOrNull
    BY DEF IInv, TypeOK
  <2>1. updateProgress(hitSeen[r], "completed") \in Record \/ hitSeen[r] = NoRecord
    BY DEF updateProgress, RecordOrNull, Record, Stage
  <2>2. TypeOK'
    BY <1>4, <2>1, ThreadNames DEF IInv, TypeOK, HitSetProgress, Goto, ProcessSteps, RecordOrNull
  <2>3. CASE outcome[r] = "none"
    BY <1>4, <2>2, <2>3, ProcessStep DEF HitSetProgress, IInv, ProcessReports
  <2>4. CASE outcome[r] # "none"
    BY <1>4, <2>2, <2>4, ProcessStep DEF HitSetProgress, IInv, ProcessReports
  <2> QED
    BY <2>3, <2>4
<1>5. CASE HitFails(r)
  <2>1. PICK step \in {"hitProgress", "hitResult", "hitEvent", "hitStatus", "hitFinish"} :
          Goto(Process(r), step) /\ pc[Process(r)] # "off"
    BY <1>5 DEF HitFails, HitBranches, After
  <2>2. TypeOK'
    BY <1>5, <2>1, ThreadNames DEF IInv, TypeOK, HitFails, Goto, ProcessSteps, Outcome, RecordOrNull
  <2>3. outcome'[r] = "threw" /\ \A s \in Runs : s # r => outcome'[s] = outcome[s]
    BY <1>5 DEF HitFails, IInv, TypeOK
  <2>4. UNCHANGED <<submit, result, events, queue, body, held, msg, ignored>>
    BY <1>5 DEF HitFails
  <2> QED
    BY <2>1, <2>2, <2>3, <2>4, ProcessStep
<1> QED
  BY <1>1, <1>2, <1>3, <1>4, <1>5

LEMMA AwaitIInv ==
  ASSUME IInv, NEW r \in Runs, Settle(r) \/ WatchdogFires(r)
  PROVE  IInv'
<1> USE DEF Settle, WatchdogFires, OnFailure, apiVars, redisVars, brokerVars, runVars, workerVars
<1>1. PICK step \in {"ack", "requeue", "giveUp"} :
        /\ Goto(Handler(r), step)
        /\ step = "ack" => outcome[r] = "ok"
        /\ step = "requeue" => msg[r].attempt < MaxAttempts
        /\ step = "giveUp" => ~(msg[r].attempt < MaxAttempts)
  OBVIOUS
<1>2. TypeOK'
  BY <1>1, ThreadNames DEF IInv, TypeOK, Goto, HandlerSteps
<1>3. \A u \in Threads : pc'[u] = IF u = Handler(r) THEN step ELSE pc[u]
  BY <1>1, GotoPc, ThreadNames DEF IInv
<1>4. \A s \in Runs : /\ pc'[Handler(s)] = IF s = r THEN step ELSE pc[Handler(s)]
                      /\ pc'[Process(s)] = pc[Process(s)]
  BY <1>3, ThreadNames
<1>5. msg[r].attempt \in 1..MaxAttempts /\ pc[Handler(r)] = "await"
  BY ActiveRun
<1>6. RunsHaveMessages' /\ HandlerReports'
  BY <1>1, <1>4, <1>5 DEF IInv, RunsHaveMessages, HandlerReports
<1>7. ProcessReports'
  BY <1>4 DEF IInv, ProcessReports, Reported
<1>8. \A k \in Jobs, s \in Terminal : events'[k][s] >= events[k][s]
  BY DEF IInv, TypeOK
<1> QED
  BY <1>1, <1>2, <1>4, <1>5, <1>6, <1>7, <1>8, QuietStep

LEMMA CancelIInv ==
  ASSUME IInv, NEW x \in CancelRequests, CancelRead(x) \/ CancelFails(x)
  PROVE  IInv'
<1> USE DEF CancelRead, CancelFails, apiVars, redisVars, brokerVars, runVars, workerVars
<1>1. PICK step \in {"cancel", "done"} : Goto(Cancel(x), step)
  OBVIOUS
<1>2. \A u \in Threads : pc'[u] = IF u = Cancel(x) THEN step ELSE pc[u]
  BY <1>1, GotoPc, ThreadNames DEF IInv
<1>3. \A s \in Runs : pc'[Handler(s)] = pc[Handler(s)] /\ pc'[Process(s)] = pc[Process(s)]
  BY <1>2, ThreadNames
<1>4. \A y \in CancelRequests : pc'[Cancel(y)] \in CancelSteps
  BY <1>2, ThreadNames DEF IInv, TypeOK, CancelSteps
<1>5. pc' \in [Threads -> HandlerSteps \cup ProcessSteps \cup CancelSteps]
  BY <1>1 DEF Goto, IInv, TypeOK, CancelSteps
<1>6. seen' \in [Threads -> RecordOrNull]
  BY DEF IInv, TypeOK, RecordOrNull
<1>7. UNCHANGED <<enabled, submit, cancels, record, result, events, queue, body, msg, held, outcome,
                  hitSeen, crashes, channel, ignored>>
  OBVIOUS
<1>8. TypeOK'
  BY <1>3, <1>4, <1>5, <1>6, <1>7 DEF IInv, TypeOK
<1>9. RunsHaveMessages' /\ HandlerReports' /\ ProcessReports'
  BY <1>3 DEF IInv, RunsHaveMessages, HandlerReports, ProcessReports, Reported
<1>10. \A k \in Jobs, s \in Terminal : events'[k][s] >= events[k][s]
  BY DEF IInv, TypeOK
<1> QED
  BY <1>3, <1>8, <1>9, <1>10, QuietStep

LEMMA SaveRecordIInv ==
  ASSUME IInv, NEW j \in Jobs, SaveRecord(j)
  PROVE  IInv'
<1> USE DEF SaveRecord, brokerVars, runVars, workerVars
<1>1. TypeOK'
  BY DEF IInv, TypeOK, NewRecord, RecordOrNull, Record, Status, Stage
<1>2. SettledIsReported'
  BY DEF IInv, TypeOK, SettledIsReported, Settled, Live, Reported
<1> QED
  BY <1>1, <1>2 DEF IInv, CopiesCarryMessages, HandlersHoldCopies, IgnoredAreUnheld,
     RunsHaveMessages, ProcessReports, HandlerReports, AcksAreCovered, LaterAttempt, DeadLetterIsReported, Reported

-----------------------------------------------------------------------------
(* Steps that change a queue *)

\* A message that is sent takes a free copy; it is live unless it is a dead letter.
LEMMA SendCopy ==
  ASSUME IInv, NEW c \in Copies, NEW where \in {"ready", "delayed", "dead"},
         NEW m \in Message, Send(c, where, m)
  PROVE  /\ queue' \in [Copies -> {"free", "ready", "delayed", "unacked", "dead"}]
         /\ body' \in [Copies -> Message \cup {NoMessage}]
         /\ queue[c] = "free" /\ queue'[c] = where /\ body'[c] = m
         /\ \A d \in Copies : d # c => queue'[d] = queue[d] /\ body'[d] = body[d]
         /\ CopiesCarryMessages'
         /\ \A r \in Runs : held[r] # c
         /\ ignored' = ignored /\ held' = held => IgnoredAreUnheld'
         /\ \A j \in Jobs : Live(j) => Live(j)'
         /\ where # "dead" => Live(m.job)'
         /\ \A n \in Message : LaterAttempt(n) => LaterAttempt(n)'
<1>1. /\ queue' \in [Copies -> {"free", "ready", "delayed", "unacked", "dead"}]
      /\ body' \in [Copies -> Message \cup {NoMessage}]
      /\ queue[c] = "free" /\ queue'[c] = where /\ body'[c] = m
      /\ \A d \in Copies : d # c => queue'[d] = queue[d] /\ body'[d] = body[d]
  BY DEF IInv, TypeOK, Send
<1>2. ignored' = ignored /\ held' = held => IgnoredAreUnheld'
  BY <1>1 DEF IInv, TypeOK, IgnoredAreUnheld
<1> QED
  BY <1>1, <1>2 DEF IInv, CopiesCarryMessages, HandlersHoldCopies, Live, LaterAttempt

LEMMA PublishIInv ==
  ASSUME IInv, NEW j \in Jobs, NEW c \in Copies, Publish(j, c)
  PROVE  IInv'
<1> DEFINE m == [job |-> j, attempt |-> 1]
<1> USE DEF Publish, redisVars, runVars, workerVars
<1>1. m \in Message /\ m.job = j /\ Send(c, "ready", m)
  BY DEF Message
<1>2. TypeOK'
  BY <1>1, SendCopy DEF IInv, TypeOK
<1>3. HandlersHoldCopies' /\ DeadLetterIsReported'
  <2>1. HandlersHoldCopies'
    BY <1>1, SendCopy DEF IInv, TypeOK, HandlersHoldCopies
  <2>2. DeadLetterIsReported'
    BY <1>1, SendCopy DEF IInv, DeadLetterIsReported
  <2> QED
    BY <2>1, <2>2
<1>4. AcksAreCovered'
  BY <1>1, SendCopy, ActiveRun DEF IInv, AcksAreCovered, Reported
<1>5. SettledIsReported'
  BY <1>1, SendCopy DEF IInv, TypeOK, SettledIsReported, Settled, Reported
<1>6. RunsHaveMessages' /\ ProcessReports' /\ HandlerReports'
  BY DEF IInv, RunsHaveMessages, ProcessReports, HandlerReports, Reported
<1> QED
  BY <1>1, <1>2, <1>3, <1>4, <1>5, <1>6, SendCopy DEF IInv

LEMMA SendIInv ==
  ASSUME IInv, NEW r \in Runs, NEW c \in Copies, SendRetry(r, c) \/ SendDeadLetter(r, c)
  PROVE  IInv'
<1> USE DEF redisVars, apiVars, runVars, workerVars
<1>1. PICK where \in {"delayed", "dead"}, m \in Message :
        /\ Send(c, where, m) /\ m.job = msg[r].job
        /\ where = "delayed" => m.attempt > msg[r].attempt
        /\ where = "dead" => Reported(m.job) /\ m.attempt = MaxAttempts /\ events[m.job]["failed"] > 0
  <2>1. CASE SendRetry(r, c)
    <3>1. msg[r] \in Message /\ msg[r].attempt \in 1..MaxAttempts /\ msg[r].attempt < MaxAttempts
      BY <2>1, ActiveRun DEF SendRetry, IInv, HandlerReports
    <3>2. [msg[r] EXCEPT !.attempt = @ + 1] \in Message
      BY <3>1 DEF Message
    <3> QED
      BY <2>1, <3>1, <3>2 DEF SendRetry, Message
  <2>2. CASE SendDeadLetter(r, c)
    <3>1. msg[r] \in Message
      BY <2>2, ActiveRun DEF SendDeadLetter
    <3>2. /\ msg[r].attempt = MaxAttempts /\ result[msg[r].job] # "none"
          /\ events[msg[r].job]["failed"] > 0
      BY <2>2 DEF SendDeadLetter, IInv, HandlerReports
    <3> QED
      BY <2>2, <3>1, <3>2 DEF SendDeadLetter, Reported, Terminal
  <2> QED
    BY <2>1, <2>2
<1>2. UNCHANGED <<enabled, submit, cancels, record, result, events, seen, msg, held, outcome,
                  hitSeen, crashes, channel, ignored>>
  BY DEF SendRetry, SendDeadLetter
<1>3. /\ pc[Handler(r)] \in {"retry", "deadLetter"} /\ Goto(Handler(r), "ack")
      /\ msg[r] \in Message
  BY ActiveRun DEF SendRetry, SendDeadLetter
<1>4. \A s \in Runs : /\ pc'[Handler(s)] = IF s = r THEN "ack" ELSE pc[Handler(s)]
                      /\ pc'[Process(s)] = pc[Process(s)]
  BY <1>3, GotoPc, ThreadNames DEF IInv
<1>5. TypeOK'
  BY <1>1, <1>2, <1>3, SendCopy, ThreadNames DEF IInv, TypeOK, Goto, HandlerSteps
<1>6. RunsHaveMessages' /\ ProcessReports' /\ HandlerReports'
  BY <1>2, <1>4 DEF IInv, RunsHaveMessages, ProcessReports, HandlerReports, Reported
<1>7. HandlersHoldCopies'
  <2>1. \A s \in Runs : held[s] # NoCopy => held[s] \in Copies /\ held[s] # c
    BY <1>1, SendCopy DEF IInv, TypeOK
  <2>2. \A d \in Copies : d # c => queue'[d] = queue[d] /\ body'[d] = body[d]
    BY <1>1, SendCopy
  <2> QED
    BY <1>2, <1>3, <1>4, <2>1, <2>2 DEF IInv, HandlersHoldCopies
<1>8. AcksAreCovered'
  <2>1. where = "delayed" => LaterAttempt(msg[r])'
    BY <1>1, <1>2, SendCopy DEF LaterAttempt
  <2> QED
    BY <1>1, <1>2, <1>3, <1>4, <2>1, SendCopy, ActiveRun DEF IInv, AcksAreCovered, Reported
<1>9. DeadLetterIsReported'
  BY <1>1, <1>2, SendCopy DEF IInv, DeadLetterIsReported, Reported
<1>10. SettledIsReported'
  BY <1>1, <1>2, SendCopy DEF IInv, SettledIsReported, Settled, Reported
<1>11. IgnoredAreUnheld'
  BY <1>1, <1>2, SendCopy
<1> QED
  BY <1>1, <1>5, <1>6, <1>7, <1>8, <1>9, <1>10, <1>11, SendCopy DEF IInv

LEMMA DeliverIInv ==
  ASSUME IInv, NEW r \in Runs, NEW c \in Copies, Deliver(r, c)
  PROVE  IInv'
<1>1. /\ UNCHANGED <<enabled, submit, cancels, record, result, events, body, seen, crashes, channel, ignored>>
      /\ queue[c] = "ready" /\ queue' = [queue EXCEPT ![c] = "unacked"]
      /\ held' = [held EXCEPT ![r] = c] /\ msg' = [msg EXCEPT ![r] = body[c]]
      /\ outcome' = [outcome EXCEPT ![r] = "none"]
      /\ hitSeen' = [hitSeen EXCEPT ![r] = NoRecord]
  BY DEF Deliver, apiVars, redisVars, workerVars
<1>2. body[c] \in Message
  BY <1>1 DEF IInv, CopiesCarryMessages
<1>3. \A s \in Runs : /\ pc'[Handler(s)] = IF s = r THEN "await" ELSE pc[Handler(s)]
                      /\ pc'[Process(s)] = IF s = r THEN "read" ELSE pc[Process(s)]
  BY ThreadNames DEF IInv, TypeOK, Deliver
<1>4. TypeOK'
  <2>1. pc' \in [Threads -> HandlerSteps \cup ProcessSteps \cup CancelSteps]
    BY DEF Deliver, IInv, TypeOK, HandlerSteps, ProcessSteps
  <2>2. \A x \in CancelRequests : pc'[Cancel(x)] = pc[Cancel(x)]
    BY ThreadNames DEF Deliver, IInv, TypeOK
  <2> QED
    BY <1>1, <1>2, <1>3, <2>1, <2>2 DEF IInv, TypeOK, HandlerSteps, ProcessSteps, RecordOrNull, Outcome
<1>5. \A s \in Runs : held[s] # c
  BY <1>1 DEF IInv, HandlersHoldCopies
<1>6. /\ held'[r] = c /\ msg'[r] = body[c] /\ outcome'[r] = "none"
      /\ \A s \in Runs : s # r => held'[s] = held[s] /\ msg'[s] = msg[s] /\ outcome'[s] = outcome[s]
      /\ \A d \in Copies : queue'[d] = IF d = c THEN "unacked" ELSE queue[d]
  BY <1>1 DEF IInv, TypeOK
<1>7. CopiesCarryMessages' /\ DeadLetterIsReported' /\ SettledIsReported'
  BY <1>1, <1>6 DEF IInv, CopiesCarryMessages, DeadLetterIsReported, SettledIsReported,
     Settled, Live, Reported
<1>8. \A s \in Runs : s # r => /\ pc'[Handler(s)] = pc[Handler(s)] /\ pc'[Process(s)] = pc[Process(s)]
                               /\ held'[s] = held[s] /\ msg'[s] = msg[s] /\ outcome'[s] = outcome[s]
  BY <1>3, <1>6
<1>9. pc'[Handler(r)] = "await" /\ pc'[Process(r)] = "read"
  BY <1>3
<1>10. HandlersHoldCopies'
  <2>1. \A s \in Runs : held[s] # NoCopy => held[s] \in Copies
    BY DEF IInv, TypeOK
  <2>2. c # NoCopy
    OBVIOUS
  <2>3. \A s \in Runs : held'[s] = NoCopy <=> pc'[Handler(s)] = "free"
    BY <1>6, <1>8, <1>9, <2>2 DEF IInv, HandlersHoldCopies
  <2>4. \A s \in Runs : held'[s] # NoCopy => queue'[held'[s]] = "unacked" /\ body[held'[s]] = msg'[s]
    BY <1>5, <1>6, <1>8, <2>1 DEF IInv, HandlersHoldCopies
  <2>5. \A s, q \in Runs : held'[s] = held'[q] /\ held'[s] # NoCopy => s = q
    BY <1>5, <1>6, <1>8 DEF IInv, HandlersHoldCopies
  <2> QED
    BY <1>1, <2>3, <2>4, <2>5 DEF HandlersHoldCopies
<1>11. RunsHaveMessages' /\ HandlerReports' /\ ProcessReports'
  <2>1. RunsHaveMessages'
    BY <1>2, <1>3, <1>6 DEF IInv, RunsHaveMessages
  <2>2. HandlerReports'
    BY <1>1, <1>8, <1>9 DEF IInv, HandlerReports
  <2>3. ProcessReports'
    BY <1>1, <1>6, <1>8, <1>9 DEF IInv, ProcessReports, Reported
  <2> QED
    BY <2>1, <2>2, <2>3
<1>12. AcksAreCovered'
  BY <1>1, <1>3, <1>6 DEF IInv, AcksAreCovered, LaterAttempt, Reported
<1>13. IgnoredAreUnheld'
  BY <1>1, <1>6 DEF IInv, TypeOK, IgnoredAreUnheld
<1> QED
  BY <1>4, <1>7, <1>10, <1>11, <1>12, <1>13 DEF IInv

\* A delivery that comes before the channel is set stays live: it is nobody's.
LEMMA IgnoreIInv ==
  ASSUME IInv, NEW w \in Workers, NEW c \in Copies, Ignore(w, c)
  PROVE  IInv'
<1>1. /\ UNCHANGED <<enabled, submit, cancels, record, result, events, body, pc, seen, msg, held, outcome,
                     hitSeen, crashes, channel>>
      /\ queue[c] = "ready" /\ queue' = [queue EXCEPT ![c] = "unacked"]
      /\ ignored' = [ignored EXCEPT ![w] = @ \cup {c}]
  BY DEF Ignore, apiVars, redisVars, runVars
<1>2. TypeOK'
  BY <1>1 DEF IInv, TypeOK
<1>3. \A d \in Copies : queue'[d] = IF d = c THEN "unacked" ELSE queue[d]
  BY <1>1 DEF IInv, TypeOK
<1>4. CopiesCarryMessages' /\ DeadLetterIsReported' /\ SettledIsReported'
  BY <1>1, <1>3 DEF IInv, CopiesCarryMessages, DeadLetterIsReported, SettledIsReported,
     Settled, Live, Reported
<1>5. \A s \in Runs : held[s] # NoCopy => held[s] \in Copies /\ held[s] # c
  BY <1>1 DEF IInv, TypeOK, HandlersHoldCopies
<1>6. HandlersHoldCopies'
  BY <1>1, <1>3, <1>5 DEF IInv, HandlersHoldCopies
<1>7. IgnoredAreUnheld'
  <2>1. \A v \in Workers : c \notin ignored[v]
    BY <1>1 DEF IInv, IgnoredAreUnheld
  <2>2. \A v \in Workers : ignored[v] \subseteq Copies
    BY DEF IInv, TypeOK
  <2>3. \A v \in Workers : ignored'[v] = IF v = w THEN ignored[v] \cup {c} ELSE ignored[v]
    BY <1>1 DEF IInv, TypeOK
  <2>4. \A s \in Runs : held'[s] # c
    BY <1>1, <1>5
  <2> QED
    BY <1>1, <1>3, <2>1, <2>2, <2>3, <2>4 DEF IInv, IgnoredAreUnheld
<1>8. RunsHaveMessages' /\ HandlerReports' /\ ProcessReports'
  BY <1>1 DEF IInv, RunsHaveMessages, HandlerReports, ProcessReports, Reported
<1>9. AcksAreCovered'
  BY <1>1, <1>3 DEF IInv, AcksAreCovered, LaterAttempt, Reported
<1> QED
  BY <1>2, <1>4, <1>6, <1>7, <1>8, <1>9 DEF IInv

LEMMA BootstrappedIInv ==
  ASSUME IInv, NEW w \in Workers, Bootstrapped(w)
  PROVE  IInv'
<1>1. /\ UNCHANGED <<enabled, submit, cancels, record, result, events, queue, body, pc, seen, msg, held,
                     outcome, hitSeen, crashes, ignored>>
      /\ channel' = [channel EXCEPT ![w] = TRUE]
  BY DEF Bootstrapped, apiVars, redisVars, brokerVars, runVars
<1>2. TypeOK'
  BY <1>1 DEF IInv, TypeOK
<1> QED
  BY <1>1, <1>2 DEF IInv, CopiesCarryMessages, HandlersHoldCopies, IgnoredAreUnheld,
     RunsHaveMessages, ProcessReports, HandlerReports, AcksAreCovered, DeadLetterIsReported,
     SettledIsReported, Settled, Live, Reported, LaterAttempt

\* The acknowledged copy is gone, and a later attempt is another copy.
LEMMA AckIInv ==
  ASSUME IInv, NEW r \in Runs, Ack(r)
  PROVE  IInv'
<1> USE DEF Ack, apiVars, redisVars, workerVars
<1> DEFINE c == held[r]
<1>1. /\ UNCHANGED <<enabled, submit, cancels, record, result, events, seen, msg, outcome,
                     hitSeen, crashes, channel, ignored>>
      /\ queue' = [queue EXCEPT ![c] = "free"] /\ body' = [body EXCEPT ![c] = NoMessage]
      /\ held' = [held EXCEPT ![r] = NoCopy]
      /\ pc[Handler(r)] = "ack" /\ Goto(Handler(r), "free")
  OBVIOUS
<1>2. /\ c \in Copies /\ queue[c] = "unacked" /\ body[c] = msg[r]
      /\ msg[r] \in Message /\ msg[r].job \in Jobs /\ msg[r].attempt \in 1..MaxAttempts
  BY <1>1, ActiveRun
<1>3. \A s \in Runs : /\ pc'[Handler(s)] = IF s = r THEN "free" ELSE pc[Handler(s)]
                      /\ pc'[Process(s)] = pc[Process(s)]
                      /\ held'[s] = IF s = r THEN NoCopy ELSE held[s]
  BY <1>1, GotoPc, ThreadNames DEF IInv, TypeOK
<1>4. /\ queue'[c] = "free" /\ body'[c] = NoMessage
      /\ \A d \in Copies : d # c => queue'[d] = queue[d] /\ body'[d] = body[d]
  BY <1>1, <1>2 DEF IInv, TypeOK
<1>5. TypeOK'
  BY <1>1, <1>2, ThreadNames DEF IInv, TypeOK, Goto, HandlerSteps
<1>6. CopiesCarryMessages' /\ DeadLetterIsReported'
  BY <1>1, <1>4 DEF IInv, CopiesCarryMessages, DeadLetterIsReported
<1>7. HandlersHoldCopies'
  <2>1. \A s \in Runs : s # r => held[s] # c
    BY <1>2 DEF IInv, HandlersHoldCopies
  <2>2. \A s \in Runs : held[s] # NoCopy => held[s] \in Copies
    BY DEF IInv, TypeOK
  <2> HIDE DEF c
  <2> QED
    BY <1>1, <1>3, <1>4, <2>1, <2>2 DEF IInv, HandlersHoldCopies
<1>8. RunsHaveMessages' /\ HandlerReports' /\ ProcessReports'
  BY <1>1, <1>3 DEF IInv, RunsHaveMessages, HandlerReports, ProcessReports, Reported
<1>9. \A s \in Runs, m \in Message :
        LaterAttempt(m) => \/ LaterAttempt(m)'
                           \/ m.job = msg[r].job /\ m.attempt < msg[r].attempt
  BY <1>2, <1>4 DEF LaterAttempt
<1>10. \A m \in Message : m.attempt \in Nat
  BY DEF Message
<1>11. Reported(msg[r].job) \/ LaterAttempt(msg[r])'
  BY <1>1, <1>2, <1>9 DEF IInv, AcksAreCovered
<1>12. AcksAreCovered'
  <2> SUFFICES ASSUME NEW s \in Runs, s # r, pc[Handler(s)] = "ack", ~Reported(msg[s].job)
               PROVE  LaterAttempt(msg[s])'
    BY <1>1, <1>3 DEF AcksAreCovered, Reported
  <2>1. msg[s] \in Message /\ LaterAttempt(msg[s])
    BY ActiveRun DEF IInv, AcksAreCovered
  <2>2. CASE msg[s].job = msg[r].job /\ msg[s].attempt < msg[r].attempt
    <3>1. LaterAttempt(msg[r])'
      BY <1>11, <2>2
    <3>2. PICK d \in Copies : /\ queue'[d] \in {"ready", "delayed", "unacked"}
                              /\ body'[d].job = msg[r].job /\ body'[d].attempt > msg[r].attempt
      BY <3>1, <1>1 DEF LaterAttempt
    <3>3. body'[d] \in Message
      BY <1>6, <3>2 DEF CopiesCarryMessages
    <3>4. body'[d].attempt > msg[s].attempt
      BY <1>2, <1>10, <2>1, <2>2, <3>2, <3>3
    <3> QED
      BY <1>1, <2>2, <3>2, <3>4 DEF LaterAttempt
  <2> QED
    BY <1>1, <1>9, <2>1, <2>2
<1>13. SettledIsReported'
  <2> SUFFICES ASSUME NEW j \in Jobs, Settled(j)', ~Reported(j)
               PROVE  FALSE
    BY <1>1 DEF SettledIsReported, Reported
  <2>1. Live(j)
    BY <1>1 DEF IInv, SettledIsReported, Settled
  <2>2. j = msg[r].job
    BY <1>2, <1>4, <2>1 DEF Live, Settled
  <2>3. Live(j)'
    BY <1>1, <1>11, <2>2 DEF LaterAttempt, Live
  <2> QED
    BY <2>3 DEF Settled
<1>14. IgnoredAreUnheld'
  <2>1. \A w \in Workers : ignored'[w] = ignored[w] /\ c \notin ignored[w] /\ ignored[w] \subseteq Copies
    BY <1>1 DEF IInv, TypeOK, IgnoredAreUnheld
  <2>2. \A d \in Copies : d # NoCopy
    OBVIOUS
  <2> HIDE DEF c
  <2> QED
    BY <1>3, <1>4, <2>1, <2>2 DEF IInv, IgnoredAreUnheld
<1> QED
  BY <1>5, <1>6, <1>7, <1>8, <1>12, <1>13, <1>14 DEF IInv

LEMMA RetryExpiresIInv ==
  ASSUME IInv, NEW c \in Copies, RetryExpires(c)
  PROVE  IInv'
<1>1. /\ UNCHANGED <<enabled, submit, cancels, record, result, events, body, pc, seen, msg, held, outcome,
                     hitSeen, crashes, channel, ignored>>
      /\ queue[c] = "delayed" /\ queue' = [queue EXCEPT ![c] = "ready"]
  BY DEF RetryExpires, apiVars, redisVars, runVars, workerVars
<1>2. TypeOK'
  BY <1>1 DEF IInv, TypeOK
<1>3. \A d \in Copies : queue'[d] = IF d = c THEN "ready" ELSE queue[d]
  BY <1>1 DEF IInv, TypeOK
<1>4. CopiesCarryMessages' /\ DeadLetterIsReported' /\ SettledIsReported'
  BY <1>1, <1>3 DEF IInv, CopiesCarryMessages, DeadLetterIsReported, SettledIsReported,
     Settled, Live, Reported
<1>5. HandlersHoldCopies'
  <2>1. \A s \in Runs : held[s] # NoCopy => held[s] \in Copies
    BY DEF IInv, TypeOK
  <2> QED
    BY <1>1, <1>3, <2>1 DEF IInv, HandlersHoldCopies
<1>6. RunsHaveMessages' /\ HandlerReports' /\ ProcessReports'
  BY <1>1 DEF IInv, RunsHaveMessages, HandlerReports, ProcessReports, Reported
<1>7. AcksAreCovered'
  BY <1>1, <1>3 DEF IInv, AcksAreCovered, LaterAttempt, Reported
<1>8. IgnoredAreUnheld'
  BY <1>1, <1>3 DEF IInv, TypeOK, IgnoredAreUnheld
<1> QED
  BY <1>2, <1>4, <1>5, <1>6, <1>7, <1>8 DEF IInv

\* What a crashed worker held is live again, with the attempt it had.
LEMMA CrashIInv ==
  ASSUME IInv, NEW w \in Workers, Crash(w)
  PROVE  IInv'
<1> DEFINE dead == {r \in Runs : Host[r] = w}
           gone == {Handler(r) : r \in dead} \cup {Process(r) : r \in dead}
           back == {held[r] : r \in dead} \cup ignored[w]
<1>1. /\ UNCHANGED <<enabled, submit, cancels, record, result, events, body, msg, outcome, hitSeen>>
      /\ crashes < MaxCrashes /\ crashes' = crashes + 1
      /\ queue' = [c \in Copies |-> IF c \in back THEN "ready" ELSE queue[c]]
      /\ held' = [r \in Runs |-> IF r \in dead THEN NoCopy ELSE held[r]]
      /\ pc' = [t \in Threads |-> IF t \notin gone THEN pc[t]
                                 ELSE IF t \in Handlers THEN "free" ELSE "off"]
      /\ seen' = [t \in Threads |-> IF t \in gone THEN NoRecord ELSE seen[t]]
      /\ channel' = [channel EXCEPT ![w] = HasChannelAtStart]
      /\ ignored' = [ignored EXCEPT ![w] = {}]
  BY DEF Crash, apiVars, redisVars
<1>2. /\ \A r \in Runs : /\ Handler(r) \in gone <=> r \in dead
                         /\ Process(r) \in gone <=> r \in dead
      /\ \A x \in CancelRequests : Cancel(x) \notin gone
  BY ThreadNames
<1>3. \A r \in Runs : /\ pc'[Handler(r)] = IF r \in dead THEN "free" ELSE pc[Handler(r)]
                      /\ pc'[Process(r)] = IF r \in dead THEN "off" ELSE pc[Process(r)]
                      /\ held'[r] = IF r \in dead THEN NoCopy ELSE held[r]
  <2> HIDE DEF gone, dead, back
  <2> QED
    BY <1>1, <1>2, ThreadNames
<1>4. \A c \in Copies : /\ c \in back => queue[c] = "unacked" /\ queue'[c] = "ready"
                        /\ c \notin back => queue'[c] = queue[c]
  <2>1. \A c \in Copies : c \in back => queue[c] = "unacked"
    BY DEF IInv, HandlersHoldCopies, IgnoredAreUnheld
  <2> HIDE DEF gone, dead, back
  <2> QED
    BY <1>1, <2>1
<1>5. \A r \in Runs \ dead : held[r] # NoCopy => held[r] \in Copies /\ held[r] \notin back
  BY DEF IInv, TypeOK, HandlersHoldCopies, IgnoredAreUnheld
<1>11. IgnoredAreUnheld'
  <2>1. \A v \in Workers : ignored'[v] = IF v = w THEN {} ELSE ignored[v]
    BY <1>1 DEF IInv, TypeOK
  <2>2. \A v \in Workers \ {w} : \A c \in ignored[v] : c \in Copies /\ c \notin back /\ c # NoCopy
    BY DEF IInv, TypeOK, IgnoredAreUnheld
  <2> HIDE DEF dead, gone, back
  <2> QED
    BY <1>3, <1>4, <2>1, <2>2 DEF IInv, IgnoredAreUnheld
<1> HIDE DEF dead, gone, back
<1>6. TypeOK'
  <2>1. pc' \in [Threads -> HandlerSteps \cup ProcessSteps \cup CancelSteps]
    BY <1>1 DEF IInv, TypeOK, HandlerSteps, ProcessSteps
  <2>2. \A r \in Runs : pc'[Handler(r)] \in HandlerSteps /\ pc'[Process(r)] \in ProcessSteps
    BY <1>3 DEF IInv, TypeOK, HandlerSteps, ProcessSteps
  <2>3. \A x \in CancelRequests : pc'[Cancel(x)] \in CancelSteps
    BY <1>1, <1>2, ThreadNames DEF IInv, TypeOK
  <2>4. crashes' \in 0..MaxCrashes
    BY <1>1 DEF IInv, TypeOK
  <2>5. queue' \in [Copies -> {"free", "ready", "delayed", "unacked", "dead"}]
    BY <1>1 DEF IInv, TypeOK
  <2>6. held' \in [Runs -> Copies \cup {NoCopy}]
    BY <1>1 DEF IInv, TypeOK
  <2>7. seen' \in [Threads -> RecordOrNull]
    BY <1>1 DEF IInv, TypeOK, RecordOrNull
  <2>8. channel' \in [Workers -> BOOLEAN] /\ ignored' \in [Workers -> SUBSET Copies]
    BY <1>1 DEF IInv, TypeOK, HasChannelAtStart
  <2> QED
    BY <1>1, <2>1, <2>2, <2>3, <2>4, <2>5, <2>6, <2>7, <2>8 DEF IInv, TypeOK
<1>7. CopiesCarryMessages' /\ DeadLetterIsReported' /\ SettledIsReported'
  BY <1>1, <1>4 DEF IInv, CopiesCarryMessages, DeadLetterIsReported, SettledIsReported,
     Settled, Live, Reported
<1>8. HandlersHoldCopies'
  BY <1>1, <1>3, <1>4, <1>5 DEF IInv, HandlersHoldCopies
<1>9. RunsHaveMessages' /\ HandlerReports' /\ ProcessReports'
  <2>1. UNCHANGED <<result, events, msg, outcome>>
    BY <1>1
  <2>2. RunsHaveMessages'
    BY <1>3, <2>1 DEF IInv, RunsHaveMessages
  <2>3. HandlerReports'
    BY <1>3, <2>1 DEF IInv, HandlerReports
  <2>4. ProcessReports'
    BY <1>3, <2>1 DEF IInv, ProcessReports, Reported
  <2> QED
    BY <2>2, <2>3, <2>4
<1>10. AcksAreCovered'
  BY <1>1, <1>3, <1>4 DEF IInv, AcksAreCovered, LaterAttempt, Reported
<1> QED
  BY <1>6, <1>7, <1>8, <1>9, <1>10, <1>11 DEF IInv

-----------------------------------------------------------------------------
LEMMA StutterIInv ==
  ASSUME IInv, UNCHANGED vars
  PROVE  IInv'
<1>1. UNCHANGED <<enabled, submit, cancels, record, result, events, queue, body, pc, seen, msg, held,
                  outcome, hitSeen, crashes, channel, ignored>>
  BY DEF vars, apiVars, redisVars, brokerVars, runVars, workerVars
<1>2. TypeOK'
  BY <1>1 DEF IInv, TypeOK
<1> QED
  BY <1>1, <1>2 DEF IInv, CopiesCarryMessages, HandlersHoldCopies, IgnoredAreUnheld,
     RunsHaveMessages, ProcessReports,
     HandlerReports, AcksAreCovered, DeadLetterIsReported, SettledIsReported, Settled, Live,
     Reported, LaterAttempt

\* A thread's update, result or event is about the job of its message or request.
LEMMA ThreadStepIInv ==
  ASSUME IInv, NEW t \in Threads, NEW j, ThreadStep(t, j),
         \/ \E r \in Runs : t \in {Handler(r), Process(r)} /\ j = msg[r].job
         \/ \E x \in CancelRequests : t = Cancel(x) /\ j = cancels[x]
  PROVE  IInv'
<1>1. pc[t] \in UpdateSteps \cup ResultSteps \cup EventSteps
  BY DEF ThreadStep, RecordGet, RecordSet, SaveResult, EnqueueEvent
<1>2. pc[t] # "free" /\ pc[t] # "off"
  BY <1>1 DEF UpdateSteps, StatusSteps, StageSteps, ResultSteps, EventSteps
<1>3. j \in Jobs
  BY <1>2, ActiveRun DEF IInv, TypeOK
<1>4. \A r \in Runs : t \in {Handler(r), Process(r)} => j = msg[r].job
  BY ThreadNames
<1> QED
  BY <1>3, <1>4, RecordGetIInv, RecordSetIInv, SaveResultIInv, EnqueueEventIInv DEF ThreadStep

LEMMA NextIInv ==
  ASSUME IInv, [Next]_vars
  PROVE  IInv'
<1>1. CASE ApiNext
  BY <1>1, SaveRecordIInv, PublishIInv, CancelIInv, ThreadStepIInv, ThreadNames DEF ApiNext
<1>2. ASSUME NEW r \in Runs, HandlerNext(r)
      PROVE  IInv'
  BY <1>2, DeliverIInv, SendIInv, AwaitIInv, AckIInv, ThreadStepIInv, ThreadNames DEF HandlerNext
<1>3. ASSUME NEW r \in Runs, ProcessNext(r)
      PROVE  IInv'
  BY <1>3, ProcessIInv, HitIInv, ThreadStepIInv, ThreadNames DEF ProcessNext
<1>4. CASE UNCHANGED vars
  BY <1>4, StutterIInv
<1> QED
  BY <1>1, <1>2, <1>3, <1>4, RetryExpiresIInv, CrashIInv, BootstrappedIInv, IgnoreIInv DEF Next

\* The delivery state of every job, in every reachable state.
THEOREM Inductive == Spec => []IInv
<1>1. IInv /\ [Next]_vars => IInv'
  BY NextIInv
<1> QED
  BY InitIInv, <1>1, PTL DEF Spec

\* Every variable keeps its type; in particular no attempt exceeds MaxAttempts.
THEOREM TypeCorrect == Spec => []TypeOK
<1>1. IInv => TypeOK
  BY DEF IInv
<1> QED
  BY Inductive, <1>1, PTL

\* No job leaves the queues unreported, whatever crashes, times out or fails.
THEOREM NoJobIsLost == Spec => []SettledIsReported
<1>1. IInv => SettledIsReported
  BY DEF IInv
<1> QED
  BY Inductive, <1>1, PTL

\* A message in the dead-letter queue has used up its attempts, and its job's
\* failure is stored and announced.
THEOREM DeadLettersAreReported == Spec => []DeadLetterIsReported
<1>1. IInv => DeadLetterIsReported
  BY DEF IInv
<1> QED
  BY Inductive, <1>1, PTL

-----------------------------------------------------------------------------
(* The consumer implements the retry queue                                 *)

Published == {j \in Jobs : submit[j] = "published"}
Resolved == {held[r] : r \in {q \in Runs : pc[Handler(q)] = "ack"}}

LEMMA InitRefines == Init => Broker!Init
BY ThreadNames DEF Init, Broker!Init

\* A step that moves no message, and no handler to or from its acknowledgement, is none
\* of the queue's.
LEMMA QuietRefines ==
  ASSUME UNCHANGED <<submit, queue, body, held>>,
         \A r \in Runs : pc'[Handler(r)] = "ack" <=> pc[Handler(r)] = "ack"
  PROVE  UNCHANGED Broker!vars
BY DEF Broker!vars

\* Where a handler may go by a step of Goto that is not its acknowledgement.
LEMMA GotoRefines ==
  ASSUME IInv, NEW t \in Threads, NEW step, Goto(t, step), pc[t] # "ack", step # "ack",
         UNCHANGED <<submit, queue, body, held>>
  PROVE  UNCHANGED Broker!vars
<1>1. \A r \in Runs : pc'[Handler(r)] = "ack" <=> pc[Handler(r)] = "ack"
  BY GotoPc, ThreadNames DEF IInv
<1> QED
  BY <1>1, QuietRefines

LEMMA ThreadStepRefines ==
  ASSUME IInv, NEW t \in Threads, NEW j, ThreadStep(t, j)
  PROVE  UNCHANGED Broker!vars
<1> USE DEF apiVars, redisVars, brokerVars, runVars, workerVars
<1>1. CASE RecordGet(t, j)
  BY <1>1, QuietRefines DEF RecordGet
<1>2. ASSUME RecordSet(t, j) \/ SaveResult(t, j) \/ EnqueueEvent(t, j)
      PROVE  UNCHANGED Broker!vars
  <2>1. pc[t] # "ack" /\ After[pc[t]] # "ack"
    BY <1>2 DEF RecordSet, SaveResult, EnqueueEvent, UpdateSteps, StatusSteps, StageSteps,
       ResultSteps, EventSteps, After
  <2>2. Goto(t, After[pc[t]]) /\ UNCHANGED <<submit, queue, body, held>>
    BY <1>2 DEF RecordSet, SaveResult, EnqueueEvent
  <2> QED
    BY <2>1, <2>2, GotoRefines
<1> QED
  BY <1>1, <1>2 DEF ThreadStep

LEMMA ProcessRefines ==
  ASSUME IInv, NEW r \in Runs, ProcessNext(r)
  PROVE  UNCHANGED Broker!vars
<1> USE DEF apiVars, redisVars, brokerVars, runVars, workerVars
<1>1. CASE ThreadStep(Process(r), msg[r].job)
  BY <1>1, ThreadStepRefines, ThreadNames
<1>2. ASSUME NEW step, Goto(Process(r), step), UNCHANGED <<submit, queue, body, held>>
      PROVE  UNCHANGED Broker!vars
  <2>1. \A s \in Runs : pc'[Handler(s)] = pc[Handler(s)]
    BY <1>2, GotoPc, ThreadNames DEF IInv
  <2> QED
    BY <1>2, <2>1, QuietRefines
<1>3. CASE Read(r) \/ Lookup(r) \/ Scrape(r) \/ Return(r) \/ Throw(r)
  BY <1>2, <1>3 DEF Read, Lookup, Scrape, Return, Throw
<1>4. CASE HitGetStatus(r) \/ HitGetProgress(r) \/ HitSetStatus(r) \/ HitSetProgress(r) \/ HitFails(r)
  BY <1>2, <1>4 DEF HitGetStatus, HitGetProgress, HitSetStatus, HitSetProgress, HitFails
<1> QED
  BY <1>1, <1>3, <1>4 DEF ProcessNext

\* A handler that goes to its acknowledgement resolves the copy it holds.
LEMMA Resolves ==
  ASSUME IInv, NEW r \in Runs, pc[Handler(r)] \notin {"free", "ack"},
         Goto(Handler(r), "ack"), held' = held
  PROVE  /\ held[r] \in Copies /\ queue[held[r]] = "unacked" /\ body[held[r]] = msg[r]
         /\ held[r] \notin Resolved
         /\ Resolved' = Resolved \cup {held[r]}
<1>1. \A s \in Runs : pc'[Handler(s)] = IF s = r THEN "ack" ELSE pc[Handler(s)]
  BY GotoPc, ThreadNames DEF IInv
<1>2. /\ held[r] \in Copies /\ queue[held[r]] = "unacked" /\ body[held[r]] = msg[r]
  BY ActiveRun
<1>3. \A s \in Runs : held[s] = held[r] => s = r
  BY <1>2 DEF IInv, HandlersHoldCopies
<1> QED
  BY <1>1, <1>2, <1>3 DEF Resolved

LEMMA HandlerRefines ==
  ASSUME IInv, NEW r \in Runs, HandlerNext(r)
  PROVE  [Broker!Next]_(Broker!vars)
<1> USE DEF apiVars, redisVars, brokerVars, runVars, workerVars
<1>1. ASSUME NEW c \in Copies, Deliver(r, c) PROVE Broker!Take(c)
  <2>1. Resolved' = Resolved
    <3>1. \A s \in Runs : pc'[Handler(s)] = IF s = r THEN "await" ELSE pc[Handler(s)]
      BY <1>1, ThreadNames DEF Deliver, IInv, TypeOK
    <3>2. held' = [held EXCEPT ![r] = c] /\ pc[Handler(r)] = "free"
      BY <1>1 DEF Deliver
    <3>3. \A s \in Runs : pc[Handler(s)] = "ack" => held'[s] = held[s]
      BY <3>2 DEF IInv, TypeOK
    <3>4. \A s \in Runs : pc'[Handler(s)] = "ack" <=> pc[Handler(s)] = "ack"
      BY <3>1, <3>2
    <3> QED
      BY <3>3, <3>4 DEF Resolved
  <2> QED
    BY <1>1, <2>1 DEF Deliver, Resolved, Broker!Take, Broker!Move
<1>2. ASSUME NEW d \in Copies, SendRetry(r, d)
      PROVE  \E c \in Copies : Broker!Retry(c, d)
  <2>1. msg[r].attempt < MaxAttempts
    BY <1>2 DEF SendRetry, IInv, HandlerReports
  <2>2. pc[Handler(r)] \notin {"free", "ack"} /\ Goto(Handler(r), "ack") /\ held' = held
    BY <1>2 DEF SendRetry
  <2> PICK c \in Copies : c = held[r]
    BY <2>2, Resolves
  <2>3. Broker!Retry(c, d)
    BY <1>2, <2>1, <2>2, Resolves
    DEF SendRetry, Send, Resolved, Broker!Retry, Broker!Resolve, Broker!Send, Broker!Move
  <2> QED
    BY <2>3
<1>3. ASSUME NEW d \in Copies, SendDeadLetter(r, d)
      PROVE  \E c \in Copies : Broker!DeadLetter(c, d)
  <2>1. msg[r].attempt = MaxAttempts
    BY <1>3 DEF SendDeadLetter, IInv, HandlerReports
  <2>2. pc[Handler(r)] \notin {"free", "ack"} /\ Goto(Handler(r), "ack") /\ held' = held
    BY <1>3 DEF SendDeadLetter
  <2> PICK c \in Copies : c = held[r]
    BY <2>2, Resolves
  <2>3. Broker!DeadLetter(c, d)
    BY <1>3, <2>1, <2>2, Resolves
    DEF SendDeadLetter, Send, Resolved, Broker!DeadLetter, Broker!Resolve, Broker!Send, Broker!Move
  <2> QED
    BY <2>3
<1>4. ASSUME Settle(r), outcome[r] = "ok" PROVE \E c \in Copies : Broker!Succeed(c)
  <2>1. /\ pc[Handler(r)] \notin {"free", "ack"} /\ Goto(Handler(r), "ack") /\ held' = held
        /\ UNCHANGED <<submit, queue, body>>
    BY <1>4 DEF Settle
  <2> PICK c \in Copies : c = held[r]
    BY <2>1, Resolves
  <2>2. Broker!Succeed(c)
    BY <2>1, Resolves DEF Resolved, Broker!Succeed, Broker!Resolve
  <2> QED
    BY <2>2
<1>5. ASSUME (Settle(r) /\ outcome[r] # "ok") \/ WatchdogFires(r) PROVE UNCHANGED Broker!vars
  <2> PICK step \in {"requeue", "giveUp"} : Goto(Handler(r), step)
    BY <1>5 DEF Settle, WatchdogFires, OnFailure
  <2>1. pc[Handler(r)] = "await" /\ UNCHANGED <<submit, queue, body, held>>
    BY <1>5 DEF Settle, WatchdogFires
  <2> QED
    BY <2>1, GotoRefines, ThreadNames
<1>6. CASE ThreadStep(Handler(r), msg[r].job)
  BY <1>6, ThreadStepRefines, ThreadNames
<1>7. ASSUME Ack(r) PROVE \E c \in Copies : Broker!Ack(c)
  <2>1. \A s \in Runs : pc'[Handler(s)] = IF s = r THEN "free" ELSE pc[Handler(s)]
    BY <1>7, GotoPc, ThreadNames DEF Ack, IInv
  <2>2. /\ held[r] \in Copies /\ queue[held[r]] = "unacked"
        /\ \A s \in Runs : held[s] = held[r] => s = r
    BY <1>7, ActiveRun DEF Ack, IInv, HandlersHoldCopies
  <2> PICK c \in Copies : c = held[r]
    BY <2>2
  <2>3. Resolved' = Resolved \ {c} /\ c \in Resolved
    <3>1. pc[Handler(r)] = "ack" /\ \A s \in Runs \ {r} : held'[s] = held[s]
      BY <1>7 DEF Ack, IInv, TypeOK
    <3>2. \A d : d \in Resolved' <=> \E s \in Runs \ {r} : pc[Handler(s)] = "ack" /\ d = held[s]
      BY <2>1, <3>1 DEF Resolved
    <3> QED
      BY <2>2, <3>1, <3>2 DEF Resolved
  <2>4. Broker!Ack(c)
    BY <1>7, <2>2, <2>3 DEF Ack, Resolved, Broker!Ack, Broker!Move
  <2> QED
    BY <2>4
<1> QED
  BY <1>1, <1>2, <1>3, <1>4, <1>5, <1>6, <1>7 DEF HandlerNext, Broker!Next

LEMMA WorkerRefines ==
  ASSUME IInv, NEW w \in Workers, Bootstrapped(w) \/ Crash(w) \/ \E c \in Copies : Ignore(w, c)
  PROVE  [Broker!Next]_(Broker!vars)
<1> USE DEF apiVars, redisVars, brokerVars, runVars, workerVars
<1>1. CASE Bootstrapped(w)
  BY <1>1, QuietRefines DEF Bootstrapped
<1>2. ASSUME NEW c \in Copies, Ignore(w, c) PROVE Broker!Take(c)
  BY <1>2 DEF Ignore, Broker!Take, Broker!Move
<1>3. ASSUME Crash(w) PROVE \E lost \in SUBSET Copies : Broker!Redeliver(lost)
  <2> DEFINE dead == {r \in Runs : Host[r] = w}
             back == {held[r] : r \in dead} \cup ignored[w]
  <2> PICK lost \in SUBSET Copies : lost = back \cap Copies
    OBVIOUS
  <2>1. \A c \in lost : queue[c] = "unacked"
    BY DEF IInv, HandlersHoldCopies, IgnoredAreUnheld
  <2>2. queue' = [c \in Copies |-> IF c \in lost THEN "ready" ELSE queue[c]]
    BY <1>3 DEF Crash
  <2>3. Resolved' = Resolved \ lost
    <3>1. held' = [r \in Runs |-> IF r \in dead THEN NoCopy ELSE held[r]]
      BY <1>3 DEF Crash
    <3>2. \A r \in Runs : pc'[Handler(r)] = IF r \in dead THEN "free" ELSE pc[Handler(r)]
      BY <1>3, ThreadNames DEF Crash
    <3>3. \A c : c \in Resolved' <=> \E r \in Runs \ dead : pc[Handler(r)] = "ack" /\ c = held[r]
      BY <3>1, <3>2 DEF Resolved
    <3>4. \A r \in Runs : pc[Handler(r)] = "ack" => /\ held[r] \in Copies /\ held[r] \notin ignored[w]
                                                  /\ \A s \in Runs : held[s] = held[r] => s = r
      BY ActiveRun DEF IInv, HandlersHoldCopies, IgnoredAreUnheld
    <3>5. \A c : c \in Resolved \ lost <=> \E r \in Runs \ dead : pc[Handler(r)] = "ack" /\ c = held[r]
      BY <3>4 DEF Resolved
    <3> QED
      BY <3>3, <3>5
  <2>4. UNCHANGED <<submit, body>>
    BY <1>3 DEF Crash
  <2>5. Broker!Redeliver(lost)
    BY <2>1, <2>2, <2>3, <2>4 DEF Broker!Redeliver, Resolved
  <2> QED
    BY <2>5
<1> QED
  BY <1>1, <1>2, <1>3 DEF Broker!Next

LEMMA ApiRefines ==
  ASSUME IInv, ApiNext
  PROVE  [Broker!Next]_(Broker!vars)
<1> USE DEF apiVars, redisVars, brokerVars, runVars, workerVars
<1>1. ASSUME NEW j \in Jobs, SaveRecord(j) PROVE UNCHANGED Broker!vars
  <2>1. Published' = Published
    BY <1>1 DEF SaveRecord, Published, IInv, TypeOK
  <2> QED
    BY <1>1, <2>1 DEF SaveRecord, Published, Broker!vars
<1>2. ASSUME NEW j \in Jobs, NEW c \in Copies, Publish(j, c) PROVE Broker!Publish(c, j)
  <2>1. Published' = Published \cup {j} /\ j \notin Published
    BY <1>2 DEF Publish, Published, IInv, TypeOK
  <2> QED
    BY <1>2, <2>1 DEF Publish, Send, Published, Broker!Publish, Broker!Send, Broker!Move
<1>3. ASSUME NEW x \in CancelRequests, CancelRead(x) \/ CancelFails(x)
      PROVE  UNCHANGED Broker!vars
  <2> PICK step : Goto(Cancel(x), step)
    BY <1>3 DEF CancelRead, CancelFails
  <2>1. \A r \in Runs : pc'[Handler(r)] = pc[Handler(r)]
    BY GotoPc, ThreadNames DEF IInv
  <2> QED
    BY <1>3, <2>1, QuietRefines DEF CancelRead, CancelFails
<1>4. ASSUME NEW x \in CancelRequests, ThreadStep(Cancel(x), cancels[x])
      PROVE  UNCHANGED Broker!vars
  BY <1>4, ThreadStepRefines, ThreadNames
<1> QED
  BY <1>1, <1>2, <1>3, <1>4 DEF ApiNext, Broker!Next

LEMMA StepRefines == IInv /\ [Next]_vars => [Broker!Next]_(Broker!vars)
<1> SUFFICES ASSUME IInv, [Next]_vars PROVE [Broker!Next]_(Broker!vars)
  OBVIOUS
<1>1. ASSUME NEW c \in Copies, RetryExpires(c) PROVE Broker!Expire(c)
  BY <1>1 DEF RetryExpires, Broker!Expire, Broker!Move, apiVars, redisVars, runVars, workerVars
<1>2. CASE UNCHANGED vars
  BY <1>2, QuietRefines DEF vars, apiVars, brokerVars, runVars
<1>3. CASE \E c \in Copies : RetryExpires(c)
  BY <1>1, <1>3 DEF Broker!Next
<1> QED
  BY <1>2, <1>3, ApiRefines, HandlerRefines, ProcessRefines, WorkerRefines DEF Next

\* The consumer implements the abstract retry queue: it acknowledges a delivery only
\* once process() succeeded, its next attempt is queued or its dead letter is, and a
\* worker that dies gives back what it had, what it ignored included (handleMessage).
THEOREM Implements == Spec => ImplementsRetryQueue
<1> QED
  BY InitRefines, StepRefines, Inductive, PTL DEF Spec, ImplementsRetryQueue, Broker!Spec

-----------------------------------------------------------------------------
(* One message per job                                                     *)

\* A step that brings no message into a queue keeps a job's message the only one.
LEMMA FewerPending ==
  ASSUME OneMessagePerJob, crashes' = crashes,
         \A c \in Copies : Pending(c)' => Pending(c) /\ body'[c] = body[c]
  PROVE  OneMessagePerJob'
BY DEF OneMessagePerJob

LEMMA QuietOne ==
  ASSUME OneMessagePerJob, CopiesArePublished, UNCHANGED <<submit, queue, body, held, crashes>>,
         \A r \in Runs : pc[Handler(r)] = "ack" => pc'[Handler(r)] = "ack"
  PROVE  OneMessagePerJob' /\ CopiesArePublished'
<1>1. \A c \in Copies : Pending(c)' => Pending(c) /\ body'[c] = body[c]
  BY DEF Pending
<1> QED
  BY <1>1, FewerPending DEF CopiesArePublished

LEMMA GotoOne ==
  ASSUME IInv, OneMessagePerJob, CopiesArePublished, NEW t \in Threads, NEW step, Goto(t, step),
         \A r \in Runs : t = Handler(r) => pc[t] # "ack",
         UNCHANGED <<submit, queue, body, held, crashes>>
  PROVE  OneMessagePerJob' /\ CopiesArePublished'
<1>1. \A r \in Runs : pc[Handler(r)] = "ack" => pc'[Handler(r)] = "ack"
  BY GotoPc, ThreadNames DEF IInv
<1> QED
  BY <1>1, QuietOne

LEMMA ThreadStepOne ==
  ASSUME IInv, OneMessagePerJob, CopiesArePublished, NEW t \in Threads, NEW j, ThreadStep(t, j)
  PROVE  OneMessagePerJob' /\ CopiesArePublished'
<1> USE DEF apiVars, redisVars, brokerVars, runVars, workerVars
<1>1. CASE RecordGet(t, j)
  BY <1>1, QuietOne DEF RecordGet
<1>2. ASSUME RecordSet(t, j) \/ SaveResult(t, j) \/ EnqueueEvent(t, j)
      PROVE  OneMessagePerJob' /\ CopiesArePublished'
  <2>1. pc[t] # "ack"
    BY <1>2 DEF RecordSet, SaveResult, EnqueueEvent, UpdateSteps, StatusSteps, StageSteps,
       ResultSteps, EventSteps
  <2>2. Goto(t, After[pc[t]]) /\ UNCHANGED <<submit, queue, body, held, crashes>>
    BY <1>2 DEF RecordSet, SaveResult, EnqueueEvent
  <2> QED
    BY <2>1, <2>2, GotoOne
<1> QED
  BY <1>1, <1>2 DEF ThreadStep

\* The message that a handler sends takes the place of the one it will acknowledge.
LEMMA SendOne ==
  ASSUME IInv, OneMessagePerJob, CopiesArePublished, NEW r \in Runs, NEW c \in Copies,
         SendRetry(r, c) \/ SendDeadLetter(r, c)
  PROVE  OneMessagePerJob' /\ CopiesArePublished'
<1> USE DEF apiVars, redisVars, brokerVars, runVars, workerVars, SendRetry, SendDeadLetter, Send
<1>1. /\ held[r] \in Copies /\ queue[held[r]] = "unacked" /\ body[held[r]] = msg[r]
      /\ msg[r] \in Message /\ \A s \in Runs : held[s] = held[r] => s = r
  BY ActiveRun DEF IInv, HandlersHoldCopies
<1>2. \A s \in Runs : pc'[Handler(s)] = IF s = r THEN "ack" ELSE pc[Handler(s)]
  BY GotoPc, ThreadNames DEF IInv
<1>3. Pending(held[r])
  BY <1>1 DEF Pending
<1>4. /\ queue[c] = "free" /\ c # held[r]
      /\ \A d \in Copies \ {c} : queue'[d] = queue[d] /\ body'[d] = body[d]
      /\ body'[c].job = msg[r].job
      /\ UNCHANGED <<submit, held, crashes>>
  BY <1>1 DEF IInv, TypeOK, Message
<1>5. \A d \in Copies : Pending(d)' => d = c \/ (d # held[r] /\ Pending(d))
  <2> SUFFICES ASSUME NEW d \in Copies, Pending(d)', d # c
               PROVE  d # held[r] /\ Pending(d)
    OBVIOUS
  <2>1. d # held[r]
    BY <1>1, <1>2, <1>4 DEF Pending
  <2> QED
    BY <1>2, <1>4, <2>1 DEF Pending
<1>6. OneMessagePerJob'
  <2> SUFFICES ASSUME crashes = 0, NEW a \in Copies, NEW b \in Copies, Pending(a)', Pending(b)',
                      body'[a].job = body'[b].job
               PROVE  a = b
    BY <1>4 DEF OneMessagePerJob
  <2>1. \A d \in Copies \ {c} : Pending(d)' => body'[d].job # msg[r].job
    BY <1>1, <1>3, <1>4, <1>5 DEF OneMessagePerJob
  <2>2. CASE a # c /\ b # c
    BY <1>4, <1>5, <2>2 DEF OneMessagePerJob
  <2> QED
    BY <1>4, <2>1, <2>2
<1>7. CopiesArePublished'
  BY <1>1, <1>4 DEF CopiesArePublished
<1> QED
  BY <1>6, <1>7

LEMMA HandlerOne ==
  ASSUME IInv, OneMessagePerJob, CopiesArePublished, NEW r \in Runs, HandlerNext(r)
  PROVE  OneMessagePerJob' /\ CopiesArePublished'
<1> USE DEF apiVars, redisVars, brokerVars, runVars, workerVars
<1>1. ASSUME NEW c \in Copies, Deliver(r, c) PROVE OneMessagePerJob' /\ CopiesArePublished'
  <2>1. \A s \in Runs : pc'[Handler(s)] = IF s = r THEN "await" ELSE pc[Handler(s)]
    BY <1>1, ThreadNames DEF Deliver, IInv, TypeOK
  <2>2. /\ queue' = [queue EXCEPT ![c] = "unacked"] /\ queue[c] = "ready"
        /\ held' = [held EXCEPT ![r] = c] /\ pc[Handler(r)] = "free"
        /\ UNCHANGED <<submit, body, crashes>>
    BY <1>1 DEF Deliver
  <2>3. \A d \in Copies : Pending(d)' => Pending(d)
    BY <2>1, <2>2 DEF Pending, IInv, TypeOK
  <2> QED
    BY <2>2, <2>3, FewerPending DEF CopiesArePublished, IInv, TypeOK
<1>2. CASE \E c \in Copies : SendRetry(r, c) \/ SendDeadLetter(r, c)
  BY <1>2, SendOne
<1>3. CASE Settle(r) \/ WatchdogFires(r)
  <2> PICK step : Goto(Handler(r), step)
    BY <1>3 DEF Settle, WatchdogFires, OnFailure
  <2>1. pc[Handler(r)] = "await" /\ UNCHANGED <<submit, queue, body, held, crashes>>
    BY <1>3 DEF Settle, WatchdogFires
  <2> QED
    BY <2>1, GotoOne, ThreadNames
<1>4. CASE ThreadStep(Handler(r), msg[r].job)
  BY <1>4, ThreadStepOne, ThreadNames
<1>5. ASSUME Ack(r) PROVE OneMessagePerJob' /\ CopiesArePublished'
  <2>1. \A s \in Runs : pc'[Handler(s)] = IF s = r THEN "free" ELSE pc[Handler(s)]
    BY <1>5, GotoPc, ThreadNames DEF Ack, IInv
  <2>2. /\ held[r] \in Copies /\ pc[Handler(r)] = "ack"
        /\ queue' = [queue EXCEPT ![held[r]] = "free"]
        /\ body' = [body EXCEPT ![held[r]] = NoMessage]
        /\ held' = [held EXCEPT ![r] = NoCopy]
        /\ UNCHANGED <<submit, crashes>>
    BY <1>5, ActiveRun DEF Ack
  <2>3. \A d \in Copies : queue'[d] # "free" => d # held[r] /\ queue'[d] = queue[d] /\ body'[d] = body[d]
    BY <2>2 DEF IInv, TypeOK
  <2>4. \A d \in Copies : Pending(d)' => Pending(d)
    <3> SUFFICES ASSUME NEW d \in Copies, Pending(d)' PROVE Pending(d)
      OBVIOUS
    <3>1. queue'[d] # "free"
      BY DEF Pending
    <3>2. d # held[r] /\ queue'[d] = queue[d]
      BY <2>3, <3>1
    <3>3. \A s \in Runs : held[s] = d => s # r /\ held'[s] = d /\ pc'[Handler(s)] = pc[Handler(s)]
      BY <2>1, <2>2, <3>2 DEF IInv, TypeOK
    <3> QED
      BY <3>2, <3>3 DEF Pending
  <2> QED
    BY <2>2, <2>3, <2>4, FewerPending DEF CopiesArePublished, Pending
<1> QED
  BY <1>1, <1>2, <1>3, <1>4, <1>5 DEF HandlerNext

LEMMA ProcessOne ==
  ASSUME IInv, OneMessagePerJob, CopiesArePublished, NEW r \in Runs, ProcessNext(r)
  PROVE  OneMessagePerJob' /\ CopiesArePublished'
<1> USE DEF apiVars, redisVars, brokerVars, runVars, workerVars
<1>1. CASE ThreadStep(Process(r), msg[r].job)
  BY <1>1, ThreadStepOne, ThreadNames
<1>2. ASSUME NEW step, Goto(Process(r), step), UNCHANGED <<submit, queue, body, held, crashes>>
      PROVE  OneMessagePerJob' /\ CopiesArePublished'
  BY <1>2, GotoOne, ThreadNames
<1>3. CASE Read(r) \/ Lookup(r) \/ Scrape(r) \/ Return(r) \/ Throw(r)
  BY <1>2, <1>3 DEF Read, Lookup, Scrape, Return, Throw
<1>4. CASE HitGetStatus(r) \/ HitGetProgress(r) \/ HitSetStatus(r) \/ HitSetProgress(r) \/ HitFails(r)
  BY <1>2, <1>4 DEF HitGetStatus, HitGetProgress, HitSetStatus, HitSetProgress, HitFails
<1> QED
  BY <1>1, <1>3, <1>4 DEF ProcessNext

LEMMA ApiOne ==
  ASSUME IInv, OneMessagePerJob, CopiesArePublished, ApiNext
  PROVE  OneMessagePerJob' /\ CopiesArePublished'
<1> USE DEF apiVars, redisVars, brokerVars, runVars, workerVars
<1>1. ASSUME NEW j \in Jobs, SaveRecord(j) PROVE OneMessagePerJob' /\ CopiesArePublished'
  <2>1. \A c \in Copies : Pending(c)' => Pending(c)
    BY <1>1 DEF SaveRecord, Pending
  <2> QED
    BY <1>1, <2>1, FewerPending DEF SaveRecord, CopiesArePublished, IInv, TypeOK, CopiesCarryMessages, Message
<1>2. ASSUME NEW j \in Jobs, NEW c \in Copies, Publish(j, c)
      PROVE  OneMessagePerJob' /\ CopiesArePublished'
  <2>1. /\ queue[c] = "free" /\ queue'[c] = "ready" /\ body'[c].job = j
        /\ \A d \in Copies \ {c} : queue'[d] = queue[d] /\ body'[d] = body[d]
        /\ submit[j] = "saved" /\ submit' = [submit EXCEPT ![j] = "published"]
        /\ UNCHANGED <<pc, held, crashes>>
    BY <1>2 DEF Publish, Send, IInv, TypeOK
  <2>2. \A d \in Copies \ {c} : Pending(d)' => Pending(d) /\ body'[d].job # j
    BY <2>1 DEF Pending, CopiesArePublished
  <2>3. OneMessagePerJob'
    BY <2>1, <2>2 DEF OneMessagePerJob
  <2>4. CopiesArePublished'
    BY <2>1 DEF CopiesArePublished, IInv, TypeOK, CopiesCarryMessages, Message
  <2> QED
    BY <2>3, <2>4
<1>3. ASSUME NEW x \in CancelRequests, CancelRead(x) \/ CancelFails(x)
      PROVE  OneMessagePerJob' /\ CopiesArePublished'
  <2> PICK step : Goto(Cancel(x), step)
    BY <1>3 DEF CancelRead, CancelFails
  <2> QED
    BY <1>3, GotoOne, ThreadNames DEF CancelRead, CancelFails
<1>4. ASSUME NEW x \in CancelRequests, ThreadStep(Cancel(x), cancels[x])
      PROVE  OneMessagePerJob' /\ CopiesArePublished'
  BY <1>4, ThreadStepOne, ThreadNames
<1> QED
  BY <1>1, <1>2, <1>3, <1>4 DEF ApiNext

LEMMA WorkerOne ==
  ASSUME IInv, OneMessagePerJob, CopiesArePublished, NEW w \in Workers,
         Bootstrapped(w) \/ Crash(w) \/ \E c \in Copies : Ignore(w, c)
  PROVE  OneMessagePerJob' /\ CopiesArePublished'
<1> USE DEF apiVars, redisVars, brokerVars, runVars, workerVars
<1>1. CASE Bootstrapped(w)
  BY <1>1, QuietOne DEF Bootstrapped
<1>2. ASSUME NEW c \in Copies, Ignore(w, c) PROVE OneMessagePerJob' /\ CopiesArePublished'
  <2>1. /\ queue' = [queue EXCEPT ![c] = "unacked"] /\ queue[c] = "ready"
        /\ UNCHANGED <<submit, body, pc, held, crashes>>
    BY <1>2 DEF Ignore
  <2>2. \A d \in Copies : Pending(d)' => Pending(d)
    BY <2>1 DEF Pending, IInv, TypeOK
  <2> QED
    BY <2>1, <2>2, FewerPending DEF CopiesArePublished, IInv, TypeOK
<1>3. CASE Crash(w)
  <2>1. crashes' # 0
    BY <1>3 DEF Crash, IInv, TypeOK
  <2>2. \A c \in Copies : queue'[c] # "free" => queue[c] # "free"
    BY <1>3 DEF Crash, IInv, TypeOK, HandlersHoldCopies, IgnoredAreUnheld
  <2>3. UNCHANGED <<submit, body>>
    BY <1>3 DEF Crash
  <2> QED
    BY <2>1, <2>2, <2>3 DEF OneMessagePerJob, CopiesArePublished
<1> QED
  BY <1>1, <1>2, <1>3

LEMMA NextOne ==
  ASSUME IInv, OneMessagePerJob, CopiesArePublished, [Next]_vars
  PROVE  OneMessagePerJob' /\ CopiesArePublished'
<1>1. ASSUME NEW c \in Copies, RetryExpires(c) PROVE OneMessagePerJob' /\ CopiesArePublished'
  <2>1. /\ queue' = [queue EXCEPT ![c] = "ready"] /\ queue[c] = "delayed"
        /\ UNCHANGED <<submit, body, pc, held, crashes>>
    BY <1>1 DEF RetryExpires, apiVars, runVars, workerVars
  <2>2. \A d \in Copies : Pending(d)' => Pending(d)
    BY <2>1 DEF Pending, IInv, TypeOK
  <2> QED
    BY <2>1, <2>2, FewerPending DEF CopiesArePublished, IInv, TypeOK
<1>2. CASE UNCHANGED vars
  BY <1>2, QuietOne DEF vars, apiVars, brokerVars, runVars, workerVars
<1> QED
  BY <1>1, <1>2, ApiOne, HandlerOne, ProcessOne, WorkerOne DEF Next

\* Until a worker crashes a job has one message, so no two workers handle it: a retry
\* takes the place of the delivery that failed, also when the watchdog gave up on a run
\* that goes on (handleMessage: the retry is sent, then the delivery is acknowledged).
THEOREM OneAtATime == Spec => []OneMessagePerJob
<1>1. Init => OneMessagePerJob /\ CopiesArePublished
  BY DEF Init, OneMessagePerJob, CopiesArePublished, Pending
<1>2. IInv /\ OneMessagePerJob /\ CopiesArePublished /\ [Next]_vars
        => OneMessagePerJob' /\ CopiesArePublished'
  BY NextOne
<1> QED
  BY <1>1, <1>2, Inductive, PTL DEF Spec

-----------------------------------------------------------------------------
(* What cannot happen, and what a thread holds on to                       *)

\* The step that follows each update and report.
LEMMA AfterEach ==
  /\ After["begin"] = "fetching" /\ After["fetching"] = "lookup" /\ After["proxy"] = "scrape"
  /\ After["stage"] = "scrape" /\ After["complete"] = "finish" /\ After["finish"] = "saveResult"
  /\ After["saveResult"] = "notify" /\ After["notify"] = "wrapUp"
  /\ After["fail"] = "failFinish" /\ After["failFinish"] = "failResult"
  /\ After["failResult"] = "raise"
  /\ After["skipResult"] = "skipEvent" /\ After["skipEvent"] = "return"
  /\ After["hit"] = "hitProgress" /\ After["hitProgress"] = "hitResult"
  /\ After["hitResult"] = "hitEvent" /\ After["hitEvent"] = "hitStatus"
  /\ After["hitStatus"] = "hitFinish"
  /\ After["requeue"] = "requeueStage" /\ After["requeueStage"] = "retry"
  /\ After["giveUp"] = "giveUpStage" /\ After["giveUpStage"] = "giveUpResult"
  /\ After["giveUpResult"] = "giveUpEvent" /\ After["giveUpEvent"] = "deadLetter"
  /\ After["cancel"] = "cancelStage" /\ After["cancelStage"] = "cancelResult"
  /\ After["cancelResult"] = "cancelEvent" /\ After["cancelEvent"] = "done"
BY DEF After

\* Which of these are whose.
LEMMA WhoseStep ==
  ASSUME NEW step \in UpdateSteps \cup ResultSteps \cup EventSteps
  PROVE  /\ step \in HandlerSteps =>
              step \in {"requeue", "requeueStage", "giveUp", "giveUpStage", "giveUpResult",
                        "giveUpEvent"}
         /\ step \in ProcessSteps =>
              step \in {"begin", "fetching", "proxy", "stage", "complete", "finish", "fail",
                        "failFinish", "skipResult", "hitResult", "saveResult", "failResult",
                        "skipEvent", "hitEvent", "notify"}
         /\ step \in CancelSteps =>
              step \in {"cancel", "cancelStage", "cancelResult", "cancelEvent"}
BY DEF UpdateSteps, StatusSteps, StageSteps, ResultSteps, EventSteps, HandlerSteps, ProcessSteps,
   CancelSteps

\* What a step of one thread leaves alone, and where the thread goes.
LEMMA ThreadMoves ==
  ASSUME IInv, NEW t \in Threads, NEW j, ThreadStep(t, j)
  PROVE  /\ UNCHANGED <<enabled, submit, cancels, queue, body, hitSeen, msg, held, outcome,
                        crashes, channel, ignored>>
         /\ pc[t] \in UpdateSteps \cup ResultSteps \cup EventSteps
         /\ \A u \in Threads \ {t} : pc'[u] = pc[u] /\ seen'[u] = seen[u]
         /\ \/ pc'[t] = pc[t] /\ pc[t] \in UpdateSteps
            \/ pc'[t] = After[pc[t]] /\ (seen'[t] = NoRecord \/ (seen'[t] = seen[t] /\ pc[t] \notin UpdateSteps))
<1> USE DEF apiVars, brokerVars, runVars, workerVars
<1>0. /\ pc = [u \in Threads |-> pc[u]] /\ seen = [u \in Threads |-> seen[u]]
  BY DEF IInv, TypeOK
<1>1. CASE RecordGet(t, j)
  BY <1>0, <1>1 DEF RecordGet, redisVars
<1>2. CASE RecordSet(t, j)
  <2>1. /\ pc[t] \in UpdateSteps /\ pc' = [pc EXCEPT ![t] = After[pc[t]]]
        /\ seen' = [seen EXCEPT ![t] = NoRecord]
    BY <1>2 DEF RecordSet, Goto
  <2>2. UNCHANGED <<enabled, submit, cancels, queue, body, hitSeen, msg, held, outcome, crashes,
                    channel, ignored>>
    BY <1>2 DEF RecordSet
  <2> QED
    BY <1>0, <2>1, <2>2
<1>3. pc[t] \in ResultSteps \cup EventSteps => pc[t] \notin UpdateSteps
  BY DEF ResultSteps, EventSteps, UpdateSteps, StatusSteps, StageSteps
<1>4. CASE SaveResult(t, j)
  BY <1>0, <1>3, <1>4 DEF SaveResult, Goto
<1>5. CASE EnqueueEvent(t, j)
  BY <1>0, <1>3, <1>5 DEF EnqueueEvent, redisVars, Goto
<1> QED
  BY <1>1, <1>2, <1>4, <1>5 DEF ThreadStep

LEMMA ThreadOrderly ==
  ASSUME IInv, Orderly, NEW t \in Threads, NEW j, ThreadStep(t, j)
  PROVE  Orderly'
<1> USE ThreadMoves, ThreadNames
<1>1. NothingElseHappens'
  <2>1. ASSUME NEW x \in CancelRequests, pc[Cancel(x)] = "idle" PROVE pc'[Cancel(x)] = "idle"
    BY <2>1, WhoseStep DEF IInv, TypeOK, CancelSteps
  <2>2. ASSUME NEW r \in Runs, pc[Process(r)] \notin HitBranches \cup {"hitFinish"}
        PROVE  pc'[Process(r)] \notin HitBranches \cup {"hitFinish"}
    <3>1. CASE t = Process(r)
      <4>1. pc[t] \in {"begin", "fetching", "proxy", "stage", "complete", "finish", "fail",
                       "failFinish", "skipResult", "saveResult", "failResult", "skipEvent", "notify"}
        BY <2>2, <3>1, WhoseStep DEF IInv, TypeOK, HitBranches
      <4> QED
        BY <2>2, <3>1, <4>1, AfterEach DEF HitBranches
    <3> QED
      BY <2>2, <3>1
  <2> QED
    BY <2>1, <2>2 DEF Orderly, NothingElseHappens
<1>2. ReadsAreOfUpdates'
  <2> SUFFICES ASSUME NEW r \in Runs
               PROVE  /\ seen'[Handler(r)] # NoRecord => pc'[Handler(r)] \in UpdateSteps
                      /\ seen'[Process(r)] # NoRecord
                           => pc'[Process(r)] \in UpdateSteps \cup (HitBranches \ {"hit"})
    BY DEF ReadsAreOfUpdates
  <2>1. /\ seen[Handler(r)] # NoRecord => pc[Handler(r)] \in UpdateSteps
        /\ seen[Process(r)] # NoRecord => pc[Process(r)] \in UpdateSteps \cup (HitBranches \ {"hit"})
    BY DEF Orderly, ReadsAreOfUpdates
  <2>2. CASE t = Handler(r)
    BY <2>1, <2>2
  <2>3. CASE t = Process(r)
    BY <2>1, <2>3, WhoseStep, AfterEach DEF IInv, TypeOK, HitBranches
  <2> QED
    BY <2>1, <2>2, <2>3
<1>3. ProcessesAreAwaited'
  <2> SUFFICES ASSUME NEW r \in Runs, pc'[Process(r)] # "off",
                      pc[Process(r)] # "off" => pc[Handler(r)] = "await" /\ outcome[r] = "none"
               PROVE  pc'[Handler(r)] = "await" /\ outcome'[r] = "none"
    BY DEF Orderly, ProcessesAreAwaited
  <2>1. t = Handler(r) => pc[Handler(r)] # "await"
    BY WhoseStep DEF IInv, TypeOK
  <2>2. t = Process(r) => pc[Process(r)] # "off"
    BY WhoseStep DEF IInv, TypeOK
  <2> QED
    BY <2>1, <2>2
<1> QED
  BY <1>1, <1>2, <1>3 DEF Orderly

\* A step of process() that is none of the updates and reports.
LEMMA ProcessOrderly ==
  ASSUME IInv, Orderly, NEW r \in Runs,
         \/ Read(r) \/ Lookup(r) \/ Scrape(r) \/ Return(r) \/ Throw(r)
         \/ HitGetStatus(r) \/ HitGetProgress(r) \/ HitSetStatus(r) \/ HitSetProgress(r)
         \/ HitFails(r)
  PROVE  Orderly'
<1> USE DEF apiVars, redisVars, brokerVars, runVars, workerVars
<1>0. /\ pc = [u \in Threads |-> pc[u]] /\ seen = [u \in Threads |-> seen[u]]
      /\ outcome = [s \in Runs |-> outcome[s]]
  BY DEF IInv, TypeOK
<1>1. PICK step : /\ Goto(Process(r), step)
                  /\ step \in HitBranches \cup {"hitFinish"} =>
                       "cacheHits" \in enabled \/ pc[Process(r)] \in HitBranches
                  /\ UNCHANGED <<enabled, crashes>> /\ pc[Process(r)] # "off"
  BY AfterEach DEF Read, Lookup, Scrape, Return, Throw, HitGetStatus, HitGetProgress, HitSetStatus,
     HitSetProgress, HitFails, HitBranches
<1>2. \A u \in Threads : pc'[u] = IF u = Process(r) THEN step ELSE pc[u]
  BY <1>0, <1>1 DEF Goto
<1>3. /\ \A u \in Threads \ {Process(r)} : seen'[u] = seen[u]
      /\ seen'[Process(r)] # NoRecord => step \in HitBranches \ {"hit"}
      /\ \A s \in Runs \ {r} : outcome'[s] = outcome[s]
      /\ \/ step = "off"
         \/ outcome'[r] = outcome[r]
         \/ "dependencyFails" \in enabled /\ pc[Process(r)] \in HitBranches
  <2>1. pc'[Process(r)] = step
    BY <1>2, ThreadNames
  <2>2. seen[Process(r)] # NoRecord => pc[Process(r)] \in UpdateSteps \cup (HitBranches \ {"hit"})
    BY DEF Orderly, ReadsAreOfUpdates
  <2>3. pc[Process(r)] \in {"read", "lookup", "scrape", "wrapUp", "return", "hitFinish"}
          => pc[Process(r)] \notin UpdateSteps \cup HitBranches
    BY DEF HitBranches, UpdateSteps, StatusSteps, StageSteps
  <2>4. CASE Read(r) \/ Lookup(r) \/ Scrape(r) \/ HitSetProgress(r)
    BY <1>0, <2>2, <2>3, <2>4 DEF Read, Lookup, Scrape, HitSetProgress
  <2>5. CASE Return(r) \/ Throw(r)
    BY <1>0, <1>1, <2>1, <2>2, <2>3, <2>5, ThreadNames DEF Return, Throw, Goto
  <2>6. CASE HitGetStatus(r) \/ HitGetProgress(r) \/ HitSetStatus(r)
    BY <1>0, <2>1, <2>2, <2>3, <2>6, ThreadNames DEF HitGetStatus, HitGetProgress, HitSetStatus, HitBranches, Goto
  <2>7. CASE HitFails(r)
    BY <1>0, <2>1, <2>2, <2>3, <2>7, AfterEach, ThreadNames DEF HitFails, HitBranches, Goto
  <2> QED
    BY <2>4, <2>5, <2>6, <2>7
<1>4. NothingElseHappens'
  BY <1>1, <1>2, ThreadNames DEF Orderly, NothingElseHappens
<1>5. ReadsAreOfUpdates'
  BY <1>2, <1>3, ThreadNames DEF Orderly, ReadsAreOfUpdates
<1>6. ProcessesAreAwaited'
  BY <1>1, <1>2, <1>3, ThreadNames DEF Orderly, ProcessesAreAwaited, NothingElseHappens
<1> QED
  BY <1>4, <1>5, <1>6 DEF Orderly

LEMMA HandlerOrderly ==
  ASSUME IInv, Orderly, NEW r \in Runs, HandlerNext(r)
  PROVE  Orderly'
<1> USE DEF apiVars, redisVars, brokerVars, runVars, workerVars
<1>0. /\ pc = [u \in Threads |-> pc[u]] /\ outcome = [s \in Runs |-> outcome[s]]
  BY DEF IInv, TypeOK
<1>1. ASSUME NEW c \in Copies, Deliver(r, c) PROVE Orderly'
  <2>1. /\ \A u \in Threads : pc'[u] = IF u = Handler(r) THEN "await"
                                       ELSE IF u = Process(r) THEN "read" ELSE pc[u]
        /\ \A s \in Runs : outcome'[s] = IF s = r THEN "none" ELSE outcome[s]
        /\ pc[Handler(r)] = "free" /\ pc[Process(r)] = "off"
        /\ UNCHANGED <<enabled, crashes, seen>>
    BY <1>0, <1>1, ThreadNames DEF Deliver
  <2>2. {"free", "off"} \cap (UpdateSteps \cup HitBranches) = {}
    BY DEF UpdateSteps, StatusSteps, StageSteps, HitBranches
  <2>3. NothingElseHappens'
    BY <2>1, ThreadNames DEF Orderly, NothingElseHappens, HitBranches
  <2>4. ReadsAreOfUpdates'
    BY <2>1, <2>2, ThreadNames DEF Orderly, ReadsAreOfUpdates
  <2>5. ProcessesAreAwaited'
    BY <2>1, ThreadNames DEF Orderly, ProcessesAreAwaited
  <2> QED
    BY <2>3, <2>4, <2>5 DEF Orderly
<1>2. CASE ThreadStep(Handler(r), msg[r].job)
  BY <1>2, ThreadOrderly, ThreadNames
<1>3. ASSUME NEW step, Goto(Handler(r), step), UNCHANGED <<enabled, crashes, seen, outcome>>,
             pc[Handler(r)] \in {"await", "retry", "deadLetter", "ack"},
             pc[Handler(r)] = "await" => outcome[r] # "none" \/ "watchdogFires" \in enabled
      PROVE  Orderly'
  <2>1. \A u \in Threads : pc'[u] = IF u = Handler(r) THEN step ELSE pc[u]
    BY <1>0, <1>3 DEF Goto
  <2>2. {"await", "retry", "deadLetter", "ack"} \cap UpdateSteps = {}
    BY DEF UpdateSteps, StatusSteps, StageSteps
  <2>3. NothingElseHappens'
    BY <1>3, <2>1, ThreadNames DEF Orderly, NothingElseHappens
  <2>4. ReadsAreOfUpdates'
    BY <1>3, <2>1, <2>2, ThreadNames DEF Orderly, ReadsAreOfUpdates
  <2>5. ProcessesAreAwaited'
    BY <1>3, <2>1, ThreadNames DEF Orderly, ProcessesAreAwaited
  <2> QED
    BY <2>3, <2>4, <2>5 DEF Orderly
<1>4. CASE \E c \in Copies : SendRetry(r, c) \/ SendDeadLetter(r, c)
  BY <1>3, <1>4 DEF SendRetry, SendDeadLetter
<1>5. CASE Settle(r) \/ WatchdogFires(r)
  BY <1>3, <1>5 DEF Settle, WatchdogFires, OnFailure
<1>6. CASE Ack(r)
  BY <1>3, <1>6 DEF Ack
<1> QED
  BY <1>1, <1>2, <1>4, <1>5, <1>6 DEF HandlerNext

LEMMA ApiOrderly ==
  ASSUME IInv, Orderly, ApiNext
  PROVE  Orderly'
<1> USE DEF apiVars, redisVars, brokerVars, runVars, workerVars
<1>1. CASE \E j \in Jobs : SaveRecord(j) \/ \E c \in Copies : Publish(j, c)
  BY <1>1 DEF SaveRecord, Publish, Orderly, NothingElseHappens, ReadsAreOfUpdates, ProcessesAreAwaited
<1>2. ASSUME NEW x \in CancelRequests, ThreadStep(Cancel(x), cancels[x]) PROVE Orderly'
  BY <1>2, ThreadOrderly, ThreadNames
<1>3. ASSUME NEW x \in CancelRequests, CancelRead(x) \/ CancelFails(x) PROVE Orderly'
  <2>1. /\ \A u \in Threads \ {Cancel(x)} : pc'[u] = pc[u] /\ seen'[u] = seen[u]
        /\ "clientCancels" \in enabled \/ pc[Cancel(x)] # "idle"
        /\ UNCHANGED <<enabled, crashes, outcome>>
    BY <1>3 DEF CancelRead, CancelFails, Goto, IInv, TypeOK
  <2> QED
    BY <2>1, ThreadNames DEF Orderly, NothingElseHappens, ReadsAreOfUpdates, ProcessesAreAwaited
<1> QED
  BY <1>1, <1>2, <1>3 DEF ApiNext

LEMMA WorkerOrderly ==
  ASSUME IInv, Orderly, NEW w \in Workers, Bootstrapped(w) \/ Crash(w) \/ \E c \in Copies : Ignore(w, c)
  PROVE  Orderly'
<1> USE DEF apiVars, redisVars, brokerVars, runVars, workerVars
<1>1. CASE Bootstrapped(w) \/ \E c \in Copies : Ignore(w, c)
  BY <1>1 DEF Bootstrapped, Ignore, Orderly, NothingElseHappens, ReadsAreOfUpdates, ProcessesAreAwaited
<1>2. CASE Crash(w)
  <2>1. /\ \A r \in Runs : LET t == Handler(r) IN
              \/ pc'[t] = pc[t] /\ seen'[t] = seen[t] /\ Host[r] # w
              \/ pc'[t] = "free" /\ seen'[t] = NoRecord /\ Host[r] = w
        /\ \A r \in Runs : LET t == Process(r) IN
              \/ pc'[t] = pc[t] /\ seen'[t] = seen[t] /\ Host[r] # w
              \/ pc'[t] = "off" /\ seen'[t] = NoRecord /\ Host[r] = w
        /\ \A x \in CancelRequests : pc'[Cancel(x)] = pc[Cancel(x)]
    BY <1>2, ThreadNames DEF Crash
  <2>2. "workerDies" \in enabled /\ UNCHANGED <<enabled, outcome>>
    BY <1>2 DEF Crash
  <2> QED
    BY <2>1, <2>2 DEF Orderly, NothingElseHappens, ReadsAreOfUpdates, ProcessesAreAwaited, HitBranches
<1> QED
  BY <1>1, <1>2

LEMMA NextOrderly ==
  ASSUME IInv, Orderly, [Next]_vars
  PROVE  Orderly'
<1>1. ASSUME NEW r \in Runs, ProcessNext(r) PROVE Orderly'
  BY <1>1, ThreadOrderly, ProcessOrderly, ThreadNames DEF ProcessNext
<1>2. CASE (\E c \in Copies : RetryExpires(c)) \/ UNCHANGED vars
  BY <1>2 DEF RetryExpires, vars, apiVars, redisVars, brokerVars, runVars, workerVars,
     Orderly, NothingElseHappens, ReadsAreOfUpdates, ProcessesAreAwaited
<1> QED
  BY <1>1, <1>2, HandlerOrderly, ApiOrderly, WorkerOrderly DEF Next

LEMMA InitOrderly == Init => Orderly
BY ThreadNames DEF Init, Orderly, NothingElseHappens, ReadsAreOfUpdates, ProcessesAreAwaited, HitBranches

-----------------------------------------------------------------------------
(* A cancellation holds                                                    *)

LEMMA ThreadSaved ==
  ASSUME IInv, SavedFirst, AnswersOnce, NEW t \in Threads, NEW j \in Jobs, ThreadStep(t, j),
         submit[j] # "new"
  PROVE  SavedFirst' /\ AnswersOnce'
<1> USE ThreadMoves, ThreadNames
<1>1. \A i \in Jobs \ {j} : record'[i] = record[i]
  BY DEF ThreadStep, RecordGet, RecordSet, SaveResult, EnqueueEvent, redisVars, IInv, TypeOK
<1>2. \A x \in CancelRequests : pc[Cancel(x)] \in {"idle", "done"} => pc'[Cancel(x)] = pc[Cancel(x)]
  BY WhoseStep DEF IInv, TypeOK, CancelSteps
<1>3. SavedFirst'
  BY <1>1, <1>2 DEF SavedFirst
<1>4. ASSUME NEW r \in Runs, pc'[Process(r)] \notin {"off", "hitFinish"} \cup HitBranches
      PROVE  pc[Process(r)] \notin {"off", "hitFinish"} \cup HitBranches
  <2>1. CASE t = Process(r)
    <3>1. pc[t] \in {"begin", "fetching", "proxy", "stage", "complete", "finish", "fail",
                     "failFinish", "skipResult", "hitResult", "saveResult", "failResult",
                     "skipEvent", "hitEvent", "notify"}
      BY <2>1, WhoseStep DEF IInv, TypeOK
    <3>2. pc'[t] = pc[t] \/ pc'[t] = After[pc[t]]
      OBVIOUS
    <3> QED
      BY <1>4, <2>1, <3>1, <3>2, AfterEach DEF HitBranches
  <2> QED
    BY <1>4, <2>1
<1> QED
  BY <1>3, <1>4 DEF AnswersOnce

LEMMA ProcessSaved ==
  ASSUME IInv, SavedFirst, AnswersOnce, NEW r \in Runs, ProcessNext(r)
  PROVE  SavedFirst' /\ AnswersOnce'
<1> USE ThreadNames DEF apiVars, redisVars, brokerVars, runVars, workerVars
<1>0. pc = [u \in Threads |-> pc[u]] /\ outcome = [s \in Runs |-> outcome[s]]
  BY DEF IInv, TypeOK
<1>1. CASE ThreadStep(Process(r), msg[r].job)
  <2>1. pc[Process(r)] # "off"
    BY <1>1, ThreadMoves, WhoseStep DEF IInv, TypeOK
  <2>2. msg[r] \in Message /\ msg[r].job \in Jobs
    BY <2>1, ActiveRun
  <2>3. submit[msg[r].job] # "new"
    BY <2>2, NoMessageAssumption DEF SavedFirst
  <2> QED
    BY <1>1, <2>2, <2>3, ThreadSaved
<1>2. ASSUME NEW step, Goto(Process(r), step), UNCHANGED <<submit, cancels, msg>>,
             pc[Process(r)] # "off",
             \A j \in Jobs : j # msg[r].job => record'[j] = record[j],
             \A s \in Runs \ {r} : outcome'[s] = outcome[s],
             \/ step \in {"off", "hitFinish"} \cup HitBranches
             \/ outcome'[r] = "none"
      PROVE  SavedFirst' /\ AnswersOnce'
  <2>1. \A u \in Threads : pc'[u] = IF u = Process(r) THEN step ELSE pc[u]
    BY <1>0, <1>2 DEF Goto
  <2>2. msg[r] \in Message
    BY <1>2, ActiveRun
  <2>3. SavedFirst'
    BY <1>2, <2>1, <2>2, NoMessageAssumption DEF SavedFirst
  <2> QED
    BY <1>2, <2>1, <2>3 DEF AnswersOnce
<1>3. CASE Read(r) \/ Lookup(r) \/ Scrape(r)
  <2>1. outcome[r] = "none"
    BY <1>3 DEF AnswersOnce, Read, Lookup, Scrape, HitBranches
  <2> QED
    BY <1>2, <1>3, <2>1 DEF Read, Lookup, Scrape
<1>4. CASE Return(r) \/ Throw(r)
  BY <1>0, <1>2, <1>4 DEF Return, Throw
<1>5. CASE HitGetStatus(r) \/ HitGetProgress(r) \/ HitSetStatus(r)
  <2> PICK step \in {"hitProgress", "hitResult", "hitFinish"} : Goto(Process(r), step)
    BY <1>5 DEF HitGetStatus, HitGetProgress, HitSetStatus
  <2> QED
    BY <1>2, <1>5 DEF HitGetStatus, HitGetProgress, HitSetStatus, HitBranches, IInv, TypeOK
<1>6. CASE HitSetProgress(r)
  BY <1>2, <1>6 DEF HitSetProgress, IInv, TypeOK
<1>7. CASE HitFails(r)
  BY <1>0, <1>2, <1>7, AfterEach DEF HitFails, HitBranches
<1> QED
  BY <1>1, <1>3, <1>4, <1>5, <1>6, <1>7 DEF ProcessNext

LEMMA HandlerSaved ==
  ASSUME IInv, CopiesArePublished, SavedFirst, AnswersOnce, NEW r \in Runs, HandlerNext(r)
  PROVE  SavedFirst' /\ AnswersOnce'
<1> USE ThreadNames DEF apiVars, redisVars, brokerVars, runVars, workerVars
<1>0. pc = [u \in Threads |-> pc[u]] /\ outcome = [s \in Runs |-> outcome[s]]
  BY DEF IInv, TypeOK
<1>1. ASSUME NEW c \in Copies, Deliver(r, c) PROVE SavedFirst' /\ AnswersOnce'
  <2>1. /\ submit[body[c].job] = "published"
        /\ \A s \in Runs : msg'[s] = IF s = r THEN body[c] ELSE msg[s]
        /\ \A s \in Runs : outcome'[s] = IF s = r THEN "none" ELSE outcome[s]
        /\ \A s \in Runs \ {r} : pc'[Process(s)] = pc[Process(s)]
        /\ \A x \in CancelRequests : pc'[Cancel(x)] = pc[Cancel(x)]
        /\ UNCHANGED <<submit, record, cancels>>
    BY <1>0, <1>1 DEF Deliver, CopiesArePublished, IInv, TypeOK
  <2> QED
    BY <2>1 DEF SavedFirst, AnswersOnce
<1>2. CASE ThreadStep(Handler(r), msg[r].job)
  <2>1. pc[Handler(r)] # "free"
    BY <1>2, ThreadMoves, WhoseStep DEF IInv, TypeOK
  <2>2. msg[r] \in Message /\ msg[r].job \in Jobs
    BY <2>1, ActiveRun
  <2>3. submit[msg[r].job] # "new"
    BY <2>2, NoMessageAssumption DEF SavedFirst
  <2> QED
    BY <1>2, <2>2, <2>3, ThreadSaved
<1>3. ASSUME NEW step, Goto(Handler(r), step), UNCHANGED <<submit, record, cancels, msg, outcome>>
      PROVE  SavedFirst' /\ AnswersOnce'
  <2>1. /\ \A s \in Runs : pc'[Process(s)] = pc[Process(s)]
        /\ \A x \in CancelRequests : pc'[Cancel(x)] = pc[Cancel(x)]
    BY <1>0, <1>3 DEF Goto
  <2>2. SavedFirst'
    BY <1>3, <2>1 DEF SavedFirst
  <2>3. AnswersOnce'
    BY <1>3, <2>1 DEF AnswersOnce
  <2> QED
    BY <2>2, <2>3
<1>4. CASE \/ \E c \in Copies : SendRetry(r, c) \/ SendDeadLetter(r, c)
           \/ Settle(r) \/ WatchdogFires(r) \/ Ack(r)
  BY <1>3, <1>4 DEF SendRetry, SendDeadLetter, Settle, WatchdogFires, OnFailure, Ack
<1> QED
  BY <1>1, <1>2, <1>4 DEF HandlerNext

LEMMA NextSaved ==
  ASSUME IInv, CopiesArePublished, SavedFirst, AnswersOnce, [Next]_vars
  PROVE  SavedFirst' /\ AnswersOnce'
<1> USE ThreadNames DEF apiVars, redisVars, brokerVars, runVars, workerVars
<1>0. pc = [u \in Threads |-> pc[u]]
  BY DEF IInv, TypeOK
<1>1. CASE \E j \in Jobs : SaveRecord(j) \/ \E c \in Copies : Publish(j, c)
  BY <1>1 DEF SaveRecord, Publish, SavedFirst, AnswersOnce, IInv, TypeOK
<1>2. ASSUME NEW x \in CancelRequests, CancelRead(x) \/ CancelFails(x)
      PROVE  SavedFirst' /\ AnswersOnce'
  BY <1>0, <1>2 DEF CancelRead, CancelFails, Goto, SavedFirst, AnswersOnce
<1>3. ASSUME NEW x \in CancelRequests, ThreadStep(Cancel(x), cancels[x])
      PROVE  SavedFirst' /\ AnswersOnce'
  <2>1. cancels[x] \in Jobs /\ Cancel(x) \in Threads
    BY DEF IInv, TypeOK
  <2>2. pc[Cancel(x)] \in UpdateSteps \cup ResultSteps \cup EventSteps
    BY <1>3, <2>1, ThreadMoves
  <2>3. pc[Cancel(x)] \notin {"idle", "done"}
    BY <2>2 DEF UpdateSteps, StatusSteps, StageSteps, ResultSteps, EventSteps
  <2>4. submit[cancels[x]] # "new"
    BY <2>1, <2>3 DEF SavedFirst
  <2>5. \A r \in Runs : Cancel(x) \notin {Handler(r), Process(r)}
    OBVIOUS
  <2> QED
    BY <1>3, <2>1, <2>4, <2>5, ThreadSaved
<1>4. ASSUME NEW w \in Workers, Bootstrapped(w) \/ \E c \in Copies : Ignore(w, c)
      PROVE  SavedFirst' /\ AnswersOnce'
  BY <1>4 DEF Bootstrapped, Ignore, SavedFirst, AnswersOnce
<1>5. ASSUME NEW w \in Workers, Crash(w) PROVE SavedFirst' /\ AnswersOnce'
  <2>1. /\ \A r \in Runs : pc'[Process(r)] \in {pc[Process(r)], "off"}
        /\ \A x \in CancelRequests : pc'[Cancel(x)] = pc[Cancel(x)]
        /\ UNCHANGED <<submit, record, cancels, msg, outcome>>
    BY <1>5 DEF Crash
  <2> QED
    BY <2>1 DEF SavedFirst, AnswersOnce
<1>6. CASE (\E c \in Copies : RetryExpires(c)) \/ UNCHANGED vars
  BY <1>6 DEF RetryExpires, vars, SavedFirst, AnswersOnce
<1> QED
  BY <1>1, <1>2, <1>3, <1>4, <1>5, <1>6, HandlerSaved, ProcessSaved DEF Next, ApiNext

LEMMA InitSaved == Init => SavedFirst /\ AnswersOnce
BY ThreadNames DEF Init, SavedFirst, AnswersOnce

\* What the invariants below and the actions rest on.
Background == OneMessagePerJob /\ CopiesArePublished /\ SavedFirst /\ AnswersOnce /\ Orderly

LEMMA AlwaysBackground == Spec => []Background
<1>1. Init => Background
  BY InitSaved, InitOrderly
  DEF Init, Background, OneMessagePerJob, CopiesArePublished, Pending
<1>2. IInv /\ Background /\ [Next]_vars => Background'
  BY NextOne, NextSaved, NextOrderly DEF Background
<1> QED
  BY <1>1, <1>2, Inductive, PTL DEF Spec

\* A run of job j that has not got past the check of the record.
Waits(r) ==
  /\ pc[Handler(r)] \in {"free", "await", "ack"}
  /\ pc[Process(r)] \in {"off", "read", "skipResult", "skipEvent", "return"}
  /\ pc[Handler(r)] = "await" => outcome[r] # "threw"

LEMMA ThreadUntouched ==
  ASSUME IInv, NEW j \in Jobs, Untouched(j), NEW t \in Threads, NEW i \in Jobs, ThreadStep(t, i),
         \A r \in Runs : t \in {Handler(r), Process(r)} => i = msg[r].job /\ msg[r] # NoMessage,
         \A x \in CancelRequests : t = Cancel(x) => i = cancels[x]
  PROVE  Untouched(j)'
<1> USE ThreadMoves, ThreadNames
<1>0. /\ pc = [u \in Threads |-> pc[u]] /\ seen = [u \in Threads |-> seen[u]]
      /\ record = [k \in Jobs |-> record[k]] /\ seen[t] \in RecordOrNull
  BY DEF IInv, TypeOK
<1>1. CASE i # j
  <2>1. record'[j] = record[j]
    BY <1>0, <1>1 DEF ThreadStep, RecordGet, RecordSet, SaveResult, EnqueueEvent, redisVars
  <2>2. \A x \in CancelRequests : cancels[x] = j => seen'[Cancel(x)] = seen[Cancel(x)]
    BY <1>1
  <2>3. \A r \in Runs : msg[r] # NoMessage /\ msg[r].job = j =>
           pc'[Handler(r)] = pc[Handler(r)] /\ pc'[Process(r)] = pc[Process(r)]
    BY <1>1
  <2> QED
    BY <2>1, <2>2, <2>3 DEF Untouched
<1>2. CASE i = j
  <2>1. ASSUME NEW r \in Runs PROVE t # Handler(r)
    <3>1. t = Handler(r) => pc[t] \in {"free", "await", "ack"}
      BY <1>2 DEF Untouched
    <3>2. pc[t] \notin {"free", "await", "ack"}
      BY DEF UpdateSteps, StatusSteps, StageSteps, ResultSteps, EventSteps
    <3> QED
      BY <3>1, <3>2
  <2>2. ASSUME NEW r \in Runs, t = Process(r)
        PROVE  pc[t] \in {"skipResult", "skipEvent"} /\ pc'[t] \in {"skipEvent", "return"}
    <3>1. pc[t] \in {"off", "read", "skipResult", "skipEvent", "return"}
      BY <1>2, <2>2 DEF Untouched
    <3>2. pc[t] \in UpdateSteps \cup ResultSteps \cup EventSteps
      OBVIOUS
    <3>3. pc[t] \in {"skipResult", "skipEvent"}
      BY <3>1, <3>2 DEF UpdateSteps, StatusSteps, StageSteps, ResultSteps, EventSteps
    <3>4. pc[t] \notin UpdateSteps
      BY <3>3 DEF UpdateSteps, StatusSteps, StageSteps
    <3>5. pc'[t] = After[pc[t]]
      BY <3>4
    <3> QED
      BY <3>3, <3>5, AfterEach
  <2>3. \A x \in CancelRequests : t = Cancel(x) => seen[t].status \in {"none", "cancelled"}
    BY <1>2 DEF Untouched
  <2>4. seen[t] # NoRecord /\ pc[t] \in UpdateSteps
          => seen[t].status = "cancelled" /\ pc[t] \in {"cancel", "cancelStage"}
    <3> SUFFICES ASSUME seen[t] # NoRecord, pc[t] \in UpdateSteps
                 PROVE  seen[t].status = "cancelled" /\ pc[t] \in {"cancel", "cancelStage"}
      OBVIOUS
    <3>1. \A r \in Runs : t # Process(r)
      BY <2>2 DEF UpdateSteps, StatusSteps, StageSteps
    <3>2. PICK x \in CancelRequests : t = Cancel(x)
      BY <2>1, <3>1
    <3>3. seen[t].status # "none"
      BY <1>0 DEF RecordOrNull, Record, Status, NoRecord
    <3>4. pc[t] \in CancelSteps
      BY <3>2 DEF IInv, TypeOK
    <3>5. pc[t] \in {"cancel", "cancelStage"}
      BY <3>4 DEF UpdateSteps, StatusSteps, StageSteps, CancelSteps
    <3> QED
      BY <2>3, <3>2, <3>3, <3>5
  <2>5. record'[j].status = "cancelled"
    <3>1. CASE RecordSet(t, i)
      <4>1. Patched(seen[t], pc[t]).status = "cancelled"
        BY <1>0, <2>4, <3>1 DEF RecordSet, Patched, updateStatus, updateProgress, NewStatus, NewStage,
           StatusSteps, StageSteps, RecordOrNull, Record, NoRecord
      <4> QED
        BY <1>0, <1>2, <3>1, <4>1 DEF RecordSet
    <3> QED
      BY <3>1 DEF Untouched, ThreadStep, RecordGet, SaveResult, EnqueueEvent, redisVars
  <2>6. seen'[t] \in {seen[t], record[j], NoRecord}
    BY <1>0, <1>2 DEF ThreadStep, RecordGet, RecordSet, SaveResult, EnqueueEvent
  <2>7. \A x \in CancelRequests : cancels[x] = j => seen'[Cancel(x)].status \in {"none", "cancelled"}
    BY <2>6 DEF Untouched, NoRecord
  <2>8. \A r \in Runs : msg[r] # NoMessage /\ msg[r].job = j => Waits(r)'
    BY <2>1, <2>2 DEF Untouched, Waits
  <2> QED
    BY <2>5, <2>7, <2>8 DEF Untouched, Waits
<1> QED
  BY <1>1, <1>2

\* A step that only runs take, none of job j past the check.
LEMMA RunsUntouched ==
  ASSUME NEW j \in Jobs, Untouched(j), record'[j] = record[j],
         \A x \in CancelRequests : cancels'[x] = cancels[x] /\ seen'[Cancel(x)] = seen[Cancel(x)],
         \A r \in Runs : msg'[r] # NoMessage /\ msg'[r].job = j => Waits(r)'
  PROVE  Untouched(j)'
BY DEF Untouched, Waits

LEMMA HandlerUntouched ==
  ASSUME IInv, "watchdogFires" \notin enabled, NEW j \in Jobs, Untouched(j),
         NEW r \in Runs, HandlerNext(r)
  PROVE  Untouched(j)'
<1> USE ThreadNames DEF apiVars, redisVars, brokerVars, runVars, workerVars
<1>0. /\ pc = [u \in Threads |-> pc[u]]
      /\ \A s \in Runs : msg[s] # NoMessage /\ msg[s].job = j => Waits(s)
  BY DEF IInv, TypeOK, Untouched, Waits
<1>1. ASSUME NEW c \in Copies, Deliver(r, c) PROVE Untouched(j)'
  <2>1. Waits(r)' /\ \A s \in Runs \ {r} : msg'[s] = msg[s] /\ (Waits(s) => Waits(s)')
    BY <1>0, <1>1 DEF Deliver, Waits, IInv, TypeOK
  <2> QED
    BY <1>0, <1>1, <2>1, RunsUntouched DEF Deliver
<1>2. CASE ThreadStep(Handler(r), msg[r].job)
  <2>1. pc[Handler(r)] # "free"
    BY <1>2, ThreadMoves, WhoseStep DEF IInv, TypeOK
  <2>2. msg[r] # NoMessage /\ msg[r].job \in Jobs
    BY <2>1, ActiveRun, NoMessageAssumption
  <2> QED
    BY <1>2, <2>2, ThreadUntouched
<1>3. ASSUME NEW step, Goto(Handler(r), step), UNCHANGED <<record, cancels, msg, outcome, seen>>,
             Waits(r) => step \in {"ack", "free"}
      PROVE  Untouched(j)'
  <2>1. \A s \in Runs : Waits(s) => Waits(s)'
    BY <1>0, <1>3 DEF Goto, Waits
  <2> QED
    BY <1>0, <1>3, <2>1, RunsUntouched
<1>4. CASE \/ \E c \in Copies : SendRetry(r, c) \/ SendDeadLetter(r, c)
           \/ Settle(r) \/ Ack(r)
  BY <1>3, <1>4 DEF SendRetry, SendDeadLetter, Settle, OnFailure, Ack, Waits
<1> QED
  BY <1>1, <1>2, <1>4 DEF HandlerNext, WatchdogFires

LEMMA ProcessUntouched ==
  ASSUME IInv, AnswersOnce, NEW j \in Jobs, Untouched(j), NEW r \in Runs, ProcessNext(r),
         ~(outcome[r] = "none" /\ outcome'[r] = "threw")
  PROVE  Untouched(j)'
<1> USE ThreadNames DEF apiVars, redisVars, brokerVars, runVars, workerVars
<1>0. /\ pc = [u \in Threads |-> pc[u]] /\ outcome = [s \in Runs |-> outcome[s]]
      /\ record = [k \in Jobs |-> record[k]] /\ seen = [u \in Threads |-> seen[u]]
      /\ \A s \in Runs : msg[s] # NoMessage /\ msg[s].job = j => Waits(s)
  BY DEF IInv, TypeOK, Untouched, Waits
<1>1. CASE ThreadStep(Process(r), msg[r].job)
  <2>1. pc[Process(r)] # "off"
    BY <1>1, ThreadMoves, WhoseStep DEF IInv, TypeOK
  <2>2. msg[r] # NoMessage /\ msg[r].job \in Jobs
    BY <2>1, ActiveRun, NoMessageAssumption
  <2> QED
    BY <1>1, <2>2, ThreadUntouched
<1>2. ASSUME NEW step, Goto(Process(r), step), UNCHANGED <<cancels, msg>>, pc[Process(r)] # "off",
             \A i \in Jobs : i # msg[r].job => record'[i] = record[i],
             \A u \in Threads \ {Process(r)} : seen'[u] = seen[u],
             \A s \in Runs \ {r} : outcome'[s] = outcome[s],
             msg[r].job = j =>
               /\ step \in {"off", "skipResult"} /\ record' = record
               /\ outcome'[r] # "threw"
      PROVE  Untouched(j)'
  <2>1. msg[r] # NoMessage /\ msg[r].job \in Jobs
    BY <1>2, ActiveRun, NoMessageAssumption
  <2>2. \A s \in Runs : msg[s] # NoMessage /\ msg[s].job = j => Waits(s)'
    BY <1>0, <1>2, <2>1 DEF Goto, Waits
  <2>3. record'[j] = record[j]
    BY <1>2
  <2>4. \A x \in CancelRequests : seen'[Cancel(x)] = seen[Cancel(x)]
    BY <1>2
  <2> QED
    BY <1>2, <2>2, <2>3, <2>4, RunsUntouched
<1>3. pc[Process(r)] # "off" => msg[r] # NoMessage
  BY ActiveRun, NoMessageAssumption
<1>4. pc[Process(r)] # "off" /\ msg[r].job = j
        => /\ pc[Process(r)] \in {"read", "skipResult", "skipEvent", "return"}
           /\ outcome[r] = "none" /\ record[j].status = "cancelled"
  BY <1>0, <1>3 DEF Waits, AnswersOnce, HitBranches, Untouched
<1>5. CASE Read(r)
  BY <1>2, <1>4, <1>5 DEF Read
<1>6. CASE Lookup(r) \/ Scrape(r)
  BY <1>2, <1>4, <1>6 DEF Lookup, Scrape
<1>7. CASE Return(r) \/ Throw(r)
  <2>1. msg[r].job = j => outcome'[r] # "threw"
    BY <1>0, <1>4, <1>7 DEF Return, Throw
  <2> QED
    BY <1>0, <1>2, <1>4, <1>7, <2>1 DEF Return, Throw
<1>8. CASE HitGetStatus(r) \/ HitGetProgress(r) \/ HitSetStatus(r) \/ HitSetProgress(r) \/ HitFails(r)
  <2>1. pc[Process(r)] # "off" /\ msg[r].job # j
    BY <1>4, <1>8 DEF HitGetStatus, HitGetProgress, HitSetStatus, HitSetProgress, HitFails, HitBranches
  <2> QED
    BY <1>0, <1>2, <1>8, <2>1 DEF HitGetStatus, HitGetProgress, HitSetStatus, HitSetProgress, HitFails
<1> QED
  BY <1>1, <1>5, <1>6, <1>7, <1>8 DEF ProcessNext

LEMMA NextUntouched ==
  ASSUME IInv, SavedFirst, AnswersOnce, [Next]_vars
  PROVE  CancellationStep
<1> SUFFICES ASSUME "watchdogFires" \notin enabled, NEW j \in Jobs, Untouched(j),
                    \A r \in Runs : ~(outcome[r] = "none" /\ outcome'[r] = "threw")
             PROVE  Untouched(j)'
  BY DEF CancellationStep
<1> USE ThreadNames DEF apiVars, redisVars, brokerVars, runVars, workerVars
<1>0. \A s \in Runs : msg[s] # NoMessage /\ msg[s].job = j => Waits(s)
  BY DEF Untouched, Waits
<1>1. CASE \E i \in Jobs : SaveRecord(i) \/ \E c \in Copies : Publish(i, c)
  <2>1. submit[j] # "new"
    BY DEF SavedFirst, Untouched, NoRecord
  <2>2. record'[j] = record[j] /\ UNCHANGED <<cancels, seen, pc, msg, outcome>>
    BY <1>1, <2>1 DEF SaveRecord, Publish, IInv, TypeOK
  <2> QED
    BY <2>2 DEF Untouched
<1>2. ASSUME NEW x \in CancelRequests, CancelRead(x) \/ CancelFails(x) PROVE Untouched(j)'
  <2>1. /\ \A y \in CancelRequests : seen'[Cancel(y)] = seen[Cancel(y)] \/ seen'[Cancel(y)] = NoRecord
        /\ \A t \in Threads \ {Cancel(x)} : pc'[t] = pc[t]
        /\ UNCHANGED <<record, cancels, msg, outcome>>
    BY <1>2 DEF CancelRead, CancelFails, Goto, IInv, TypeOK
  <2> QED
    BY <2>1 DEF Untouched, NoRecord
<1>3. ASSUME NEW x \in CancelRequests, ThreadStep(Cancel(x), cancels[x]) PROVE Untouched(j)'
  <2>1. cancels[x] \in Jobs /\ Cancel(x) \in Threads
    BY DEF IInv, TypeOK
  <2>2. /\ \A r \in Runs : Cancel(x) \notin {Handler(r), Process(r)}
        /\ \A y \in CancelRequests : Cancel(x) = Cancel(y) => cancels[x] = cancels[y]
    OBVIOUS
  <2> QED
    BY <1>3, <2>1, <2>2, ThreadUntouched
<1>4. ASSUME NEW w \in Workers, Bootstrapped(w) \/ \E c \in Copies : Ignore(w, c)
      PROVE  Untouched(j)'
  BY <1>4 DEF Bootstrapped, Ignore, Untouched
<1>5. ASSUME NEW w \in Workers, Crash(w) PROVE Untouched(j)'
  <2>1. /\ \A r \in Runs : \/ /\ pc'[Process(r)] = pc[Process(r)] /\ pc'[Handler(r)] = pc[Handler(r)]
                           \/ /\ pc'[Process(r)] = "off" /\ pc'[Handler(r)] = "free"
        /\ \A x \in CancelRequests : seen'[Cancel(x)] = seen[Cancel(x)]
        /\ UNCHANGED <<record, cancels, msg, outcome>>
    BY <1>5 DEF Crash
  <2> QED
    BY <2>1 DEF Untouched
<1>6. CASE (\E c \in Copies : RetryExpires(c)) \/ UNCHANGED vars
  BY <1>6 DEF RetryExpires, vars, Untouched
<1> QED
  BY <1>1, <1>2, <1>3, <1>4, <1>5, <1>6, HandlerUntouched, ProcessUntouched DEF Next, ApiNext

\* A cancellation is not undone: no worker that has yet to look at the record scrapes the
\* job, and no update writes an older record over it (process and cancel).
THEOREM CancellationIsKept == Spec => CancellationHolds
<1>1. IInv /\ Background /\ [Next]_vars => CancellationStep
  BY NextUntouched DEF Background
<1> QED
  BY <1>1, AlwaysBackground, Inductive, PTL DEF Spec, CancellationHolds

-----------------------------------------------------------------------------
(* Each job has one writer, when it is cancelled by nobody and its process() is awaited. *)

Alone ==
  /\ "watchdogFires" \notin enabled /\ "clientCancels" \notin enabled
  /\ "cacheHits" \notin enabled \/ "dependencyFails" \notin enabled
  /\ crashes = 0 \/ \A r, s \in Runs : r = s

\* A delivery whose message is still pending.
Working(r) == pc[Handler(r)] \notin {"free", "ack"}

LEMMA WorkingHolds ==
  ASSUME IInv, NEW r \in Runs, Working(r)
  PROVE  /\ held[r] \in Copies /\ Pending(held[r]) /\ body[held[r]] = msg[r]
         /\ queue[held[r]] = "unacked"
         /\ msg[r] \in Message /\ msg[r].job \in Jobs
BY ActiveRun DEF Working, Pending, IInv, HandlersHoldCopies

LEMMA Exclusive ==
  ASSUME IInv, OneMessagePerJob, Alone, NEW r \in Runs, NEW s \in Runs, Working(r), Working(s),
         msg[r].job = msg[s].job
  PROVE  r = s
<1>1. CASE crashes = 0
  <2>1. /\ held[r] \in Copies /\ Pending(held[r]) /\ body[held[r]] = msg[r]
        /\ held[s] \in Copies /\ Pending(held[s]) /\ body[held[s]] = msg[s]
    BY WorkingHolds
  <2>2. held[r] = held[s]
    BY <1>1, <2>1 DEF OneMessagePerJob
  <2> QED
    BY <2>1, <2>2 DEF IInv, HandlersHoldCopies, TypeOK
<1> QED
  BY <1>1 DEF Alone

\* A process() that works is awaited.
LEMMA Awaited ==
  ASSUME Alone, Orderly, NEW r \in Runs, pc[Process(r)] # "off"
  PROVE  pc[Handler(r)] = "await" /\ outcome[r] = "none" /\ Working(r)
BY DEF Alone, Orderly, ProcessesAreAwaited, Working

\* What such a run holds on to when it does not work.
LEMMA NotWorking ==
  ASSUME Alone, Orderly, NEW r \in Runs, ~Working(r)
  PROVE  /\ pc[Process(r)] = "off" /\ pc[Handler(r)] \in {"free", "ack"}
         /\ seen[Process(r)] = NoRecord /\ seen[Handler(r)] = NoRecord
<1>1. pc[Process(r)] = "off"
  BY Awaited
<1>2. {"free", "ack", "off"} \cap (UpdateSteps \cup HitBranches) = {}
  BY DEF UpdateSteps, StatusSteps, StageSteps, HitBranches
<1> QED
  BY <1>1, <1>2 DEF Working, Orderly, ReadsAreOfUpdates

\* A step of one run, which goes on with its delivery: what it leaves alone.
RunStep(r) ==
  /\ Working(r) /\ Working(r)'
  /\ UNCHANGED <<enabled, submit, cancels, queue, body, msg, held, crashes>>
  /\ \A u \in Threads \ {Handler(r), Process(r)} : pc'[u] = pc[u] /\ seen'[u] = seen[u]
  /\ \A s \in Runs \ {r} : outcome'[s] = outcome[s]
  /\ \A j \in Jobs \ {msg[r].job} :
        record'[j] = record[j] /\ result'[j] = result[j] /\ events'[j] = events[j]

LEMMA IsRunStep ==
  ASSUME IInv, Orderly, Alone, NEW r \in Runs,
         \/ ThreadStep(Handler(r), msg[r].job)
         \/ Settle(r) /\ outcome[r] = "threw"
         \/ ProcessNext(r)
  PROVE  RunStep(r)
<1> USE ThreadNames DEF apiVars, redisVars, brokerVars, runVars, workerVars
<1>0. /\ pc = [u \in Threads |-> pc[u]] /\ seen = [u \in Threads |-> seen[u]]
      /\ record = [k \in Jobs |-> record[k]] /\ result = [k \in Jobs |-> result[k]]
      /\ events = [k \in Jobs |-> events[k]] /\ outcome = [s \in Runs |-> outcome[s]]
  BY DEF IInv, TypeOK
<1>1. ASSUME NEW t \in {Handler(r), Process(r)}, ThreadStep(t, msg[r].job) PROVE RunStep(r)
  <2>1. Working(r)
    <3>1. pc[t] \in UpdateSteps \cup ResultSteps \cup EventSteps
      BY <1>1, ThreadMoves
    <3>2. pc[t] \notin {"free", "ack", "off"}
      BY <3>1 DEF UpdateSteps, StatusSteps, StageSteps, ResultSteps, EventSteps
    <3> QED
      BY <3>2, Awaited DEF Working
  <2>2. Working(r)'
    <3>1. CASE t = Handler(r)
      <4>1. pc[t] \in {"requeue", "requeueStage", "giveUp", "giveUpStage", "giveUpResult",
                       "giveUpEvent"}
        BY <1>1, <3>1, ThreadMoves, WhoseStep DEF IInv, TypeOK
      <4>2. pc'[t] = pc[t] \/ pc'[t] = After[pc[t]]
        BY <1>1, ThreadMoves
      <4> QED
        BY <3>1, <4>1, <4>2, AfterEach DEF Working
    <3>2. CASE t = Process(r)
      BY <1>1, <2>1, <3>2, ThreadMoves DEF Working
    <3> QED
      BY <3>1, <3>2
  <2>3. \A k \in Jobs \ {msg[r].job} :
           record'[k] = record[k] /\ result'[k] = result[k] /\ events'[k] = events[k]
    BY <1>0, <1>1 DEF ThreadStep, RecordGet, RecordSet, SaveResult, EnqueueEvent
  <2> QED
    BY <1>1, <2>1, <2>2, <2>3, ThreadMoves DEF RunStep
<1>2. CASE Settle(r) /\ outcome[r] = "threw"
  <2> PICK step \in {"requeue", "giveUp"} : Goto(Handler(r), step)
    BY <1>2 DEF Settle, OnFailure
  <2> QED
    BY <1>0, <1>2 DEF Settle, RunStep, Working, Goto
<1>3. ASSUME pc[Process(r)] # "off", NEW step, Goto(Process(r), step),
             UNCHANGED <<enabled, submit, cancels, queue, body, msg, held, crashes, result, events>>,
             \A u \in Threads \ {Process(r)} : seen'[u] = seen[u],
             \A s \in Runs \ {r} : outcome'[s] = outcome[s],
             \A j \in Jobs \ {msg[r].job} : record'[j] = record[j]
      PROVE  RunStep(r)
  <2>1. Working(r) /\ Working(r)'
    BY <1>0, <1>3, Awaited DEF Goto, Working
  <2> QED
    BY <1>0, <1>3, <2>1 DEF RunStep, Goto
<1>4. CASE Read(r) \/ Lookup(r) \/ Scrape(r) \/ Return(r) \/ Throw(r)
  BY <1>0, <1>3, <1>4 DEF Read, Lookup, Scrape, Return, Throw
<1>5. CASE HitGetStatus(r) \/ HitGetProgress(r) \/ HitSetStatus(r) \/ HitSetProgress(r) \/ HitFails(r)
  BY <1>0, <1>3, <1>5
  DEF HitGetStatus, HitGetProgress, HitSetStatus, HitSetProgress, HitFails, HitBranches
<1> QED
  BY <1>1, <1>2, <1>4, <1>5 DEF ProcessNext

\* Then the pending copies are the same, and another run of that job does not work.
LEMMA AfterRunStep ==
  ASSUME IInv, OneMessagePerJob, Orderly, Alone, NEW r \in Runs, RunStep(r)
  PROVE  /\ \A c \in Copies : Pending(c)' <=> Pending(c)
         /\ \A s \in Runs \ {r} : msg[s].job = msg[r].job => ~Working(s)
         /\ \A s \in Runs \ {r} : pc'[Handler(s)] = pc[Handler(s)] /\ pc'[Process(s)] = pc[Process(s)]
                                 /\ seen'[Handler(s)] = seen[Handler(s)]
                                 /\ seen'[Process(s)] = seen[Process(s)]
<1>1. \A s \in Runs \ {r} : msg[s].job = msg[r].job => ~Working(s)
  BY Exclusive DEF RunStep
<1>2. \A s \in Runs \ {r} : /\ pc'[Handler(s)] = pc[Handler(s)] /\ pc'[Process(s)] = pc[Process(s)]
                            /\ seen'[Handler(s)] = seen[Handler(s)]
                            /\ seen'[Process(s)] = seen[Process(s)]
  BY ThreadNames DEF RunStep
<1>3. \A c \in Copies : Pending(c)' <=> Pending(c)
  BY <1>2 DEF RunStep, Working, Pending
<1> QED
  BY <1>1, <1>2, <1>3

-----------------------------------------------------------------------------
(* What the records say                                                    *)

\* The conjuncts of WritesAgree that are about one run.
RunAgrees(r) == LET j == msg[r].job IN
  /\ \A t \in {Handler(r), Process(r)} : seen[t] # NoRecord => seen[t] = record[j]
  /\ pc[Process(r)] \notin {"skipResult", "skipEvent", "return"}
  /\ pc[Process(r)] = "finish" => record[j].status = "completed"
  /\ pc[Process(r)] = "saveResult" => record[j] = [status |-> "completed", stage |-> "completed"]
  /\ (\/ pc[Process(r)] \in {"notify", "wrapUp"}
      \/ pc[Handler(r)] = "await" /\ outcome[r] = "ok"
      \/ pc[Handler(r)] \in {"giveUpEvent", "deadLetter"})
       => record[j] = [status |-> result[j], stage |-> "completed"]
  /\ pc[Handler(r)] = "giveUpStage" => record[j].status = "failed"
  /\ pc[Handler(r)] = "giveUpResult" => record[j] = [status |-> "failed", stage |-> "completed"]

LEMMA WritesAgreeByRun ==
  (ReadsAreCurrent /\ NoneCancelled /\ RecordsFollow)
    <=> (\A r \in Runs : RunAgrees(r)) /\ \A j \in Jobs : record[j].status # "cancelled"
BY DEF ReadsAreCurrent, NoneCancelled, RecordsFollow, RunAgrees

LEMMA OneWriterIsAlone == OneWriter => Alone /\ "cacheHits" \notin enabled
BY DEF OneWriter, Alone

\* A run that does not work owes nothing.
LEMMA RestingAgrees ==
  ASSUME NEW r \in Runs, pc[Process(r)] = "off", pc[Handler(r)] \in {"free", "ack"},
         seen[Process(r)] = NoRecord, seen[Handler(r)] = NoRecord
  PROVE  RunAgrees(r)
BY DEF RunAgrees

\* A step of one run preserves what is said of the others.
LEMMA RunStepAgrees ==
  ASSUME IInv, OneMessagePerJob, Orderly, OneWriter, WritesAgree, NEW r \in Runs, RunStep(r),
         RunAgrees(r)', record'[msg[r].job].status # "cancelled"
  PROVE  WritesAgree'
<1> USE OneWriterIsAlone
<1>1. ASSUME NEW s \in Runs \ {r} PROVE RunAgrees(s)'
  <2>1. CASE Working(s)
    <3>1. msg[s].job \in Jobs \ {msg[r].job}
      BY <2>1, AfterRunStep, WorkingHolds
    <3>2. /\ record'[msg[s].job] = record[msg[s].job] /\ result'[msg[s].job] = result[msg[s].job]
          /\ msg'[s] = msg[s] /\ outcome'[s] = outcome[s]
      BY <3>1 DEF RunStep
    <3>3. RunAgrees(s)
      BY WritesAgreeByRun DEF WritesAgree
    <3> QED
      BY <3>2, <3>3, AfterRunStep DEF RunAgrees
  <2>2. CASE ~Working(s)
    BY <2>2, NotWorking, AfterRunStep DEF RunAgrees
  <2> QED
    BY <2>1, <2>2
<1>2. ASSUME NEW j \in Jobs PROVE record'[j].status # "cancelled"
  <2>1. record[j].status # "cancelled"
    BY WritesAgreeByRun DEF WritesAgree
  <2>2. j # msg[r].job => record'[j] = record[j]
    BY DEF RunStep
  <2> QED
    BY <2>1, <2>2
<1>3. PendingOrAgrees'
  <2> SUFFICES ASSUME NEW j \in Jobs, submit[j] = "published"
               PROVE  Agrees(j)' \/ \E c \in Copies : Pending(c)' /\ body'[c].job = j
    BY DEF PendingOrAgrees, RunStep
  <2>1. CASE j = msg[r].job
    BY <2>1, WorkingHolds, AfterRunStep DEF RunStep
  <2>2. CASE \E c \in Copies : Pending(c) /\ body[c].job = j
    BY <2>2, AfterRunStep DEF RunStep
  <2>3. CASE Agrees(j) /\ j # msg[r].job
    BY <2>3, AfterRunStep DEF Agrees, AtRest, RunStep
  <2> QED
    BY <2>1, <2>2, <2>3 DEF WritesAgree, PendingOrAgrees
<1>4. \A s \in Runs : RunAgrees(s)'
  BY <1>1
<1>5. ReadsAreCurrent' /\ NoneCancelled' /\ RecordsFollow'
  BY <1>2, <1>4 DEF ReadsAreCurrent, NoneCancelled, RecordsFollow, RunAgrees
<1> QED
  BY <1>3, <1>5 DEF WritesAgree

\* What an update writes when it read the record as it is.
LEMMA PatchedWrites ==
  ASSUME NEW existing \in RecordOrNull, existing # NoRecord, NEW step \in UpdateSteps,
         step # "cancel", existing.status # "cancelled"
  PROVE  /\ Patched(existing, step).status # "cancelled"
         /\ step = "complete" => Patched(existing, step).status = "completed"
         /\ step = "giveUp" => Patched(existing, step).status = "failed"
         /\ step \in {"finish", "giveUpStage"} =>
              Patched(existing, step) = [status |-> existing.status, stage |-> "completed"]
<1>1. existing \in Record
  BY DEF RecordOrNull
<1> QED
  BY <1>1 DEF Patched, updateStatus, updateProgress, NewStatus, NewStage, StatusSteps, StageSteps,
     UpdateSteps, Record

LEMMA ThreadAgrees ==
  ASSUME IInv, OneMessagePerJob, Orderly, OneWriter, WritesAgree, NEW r \in Runs,
         NEW t \in {Handler(r), Process(r)}, ThreadStep(t, msg[r].job)
  PROVE  WritesAgree'
<1> DEFINE j == msg[r].job
<1> USE OneWriterIsAlone, ThreadNames
<1>0. /\ seen = [u \in Threads |-> seen[u]] /\ record = [k \in Jobs |-> record[k]]
      /\ result = [k \in Jobs |-> result[k]] /\ pc = [u \in Threads |-> pc[u]]
      /\ seen[t] \in RecordOrNull
  BY DEF IInv, TypeOK
<1>1. RunStep(r)
  BY IsRunStep DEF ProcessNext
<1>2. Working(r) /\ j \in Jobs /\ msg' = msg /\ outcome' = outcome
  BY <1>1, WorkingHolds, ThreadMoves DEF RunStep
<1>3. /\ RunAgrees(r) /\ record[j].status # "cancelled"
      /\ ReadsAreOfUpdates /\ "cacheHits" \notin enabled
      /\ pc[Process(r)] \notin HitBranches \cup {"hitFinish"}
  BY <1>2, WritesAgreeByRun DEF WritesAgree, Orderly, NothingElseHappens
<1>4. \/ t = Handler(r) /\ pc[Process(r)] = "off" /\ seen[Process(r)] = NoRecord
      \/ t = Process(r) /\ pc[Handler(r)] = "await" /\ seen[Handler(r)] = NoRecord
  <2>1. pc[t] \notin {"await", "off"}
    BY ThreadMoves DEF UpdateSteps, StatusSteps, StageSteps, ResultSteps, EventSteps
  <2>2. {"await", "off"} \cap (UpdateSteps \cup HitBranches) = {}
    BY DEF UpdateSteps, StatusSteps, StageSteps, HitBranches
  <2> QED
    BY <1>3, <2>1, <2>2, Awaited DEF ReadsAreOfUpdates
<1>5. /\ t = Handler(r) => pc[t] \in {"requeue", "requeueStage", "giveUp", "giveUpStage",
                                      "giveUpResult", "giveUpEvent"}
      /\ t = Process(r) => pc[t] \in {"begin", "fetching", "proxy", "stage", "complete", "finish",
                                      "fail", "failFinish", "saveResult", "failResult", "notify"}
  BY <1>3, ThreadMoves, WhoseStep DEF IInv, TypeOK, RunAgrees, HitBranches
<1>6. \A u \in {Handler(r), Process(r)} \ {t} : pc'[u] = pc[u] /\ seen'[u] = seen[u]
  BY ThreadMoves
<1>7. CASE RecordGet(t, j)
  <2>1. pc'[t] = pc[t] /\ seen'[t] = record[j] /\ record' = record /\ result' = result
    BY <1>0, <1>7 DEF RecordGet, redisVars
  <2>2. RunAgrees(r)'
    BY <1>2, <1>3, <1>6, <2>1 DEF RunAgrees
  <2> QED
    BY <1>1, <1>3, <2>1, <2>2, RunStepAgrees
<1>8. CASE RecordSet(t, j)
  <2>1. /\ pc'[t] = After[pc[t]] /\ seen'[t] = NoRecord /\ pc[t] \in UpdateSteps
        /\ record'[j] = Patched(record[j], pc[t]) /\ result' = result
        /\ record[j] \in RecordOrNull /\ record[j] # NoRecord
    BY <1>0, <1>2, <1>3, <1>8 DEF RecordSet, Goto, RunAgrees
  <2>2. /\ record'[j].status # "cancelled"
        /\ pc[t] = "complete" => record'[j].status = "completed"
        /\ pc[t] = "giveUp" => record'[j].status = "failed"
        /\ pc[t] \in {"finish", "giveUpStage"} =>
             record'[j] = [status |-> record[j].status, stage |-> "completed"]
    <3>1. pc[t] # "cancel"
      BY <1>4, <1>5
    <3> QED
      BY <1>3, <2>1, <3>1, PatchedWrites
  <2>3. CASE t = Handler(r)
    <3>1. pc[t] \in {"requeue", "requeueStage", "giveUp", "giveUpStage"}
      BY <1>5, <2>1, <2>3 DEF UpdateSteps, StatusSteps, StageSteps
    <3>2. RunAgrees(r)'
      BY <1>2, <1>3, <1>4, <1>6, <2>1, <2>2, <2>3, <3>1, AfterEach DEF RunAgrees
    <3> QED
      BY <1>1, <2>2, <3>2, RunStepAgrees
  <2>4. CASE t = Process(r)
    <3>1. pc[t] \in {"begin", "fetching", "proxy", "stage", "complete", "finish", "fail", "failFinish"}
      BY <1>5, <2>1, <2>4 DEF UpdateSteps, StatusSteps, StageSteps
    <3>2. outcome[r] = "none"
      BY <3>1, <2>4, Awaited
    <3>3. RunAgrees(r)'
      BY <1>2, <1>3, <1>4, <1>6, <2>1, <2>2, <2>4, <3>1, <3>2, AfterEach DEF RunAgrees
    <3> QED
      BY <1>1, <2>2, <3>3, RunStepAgrees
  <2> QED
    BY <2>3, <2>4
<1>9. CASE SaveResult(t, j)
  <2>1. /\ pc'[t] = After[pc[t]] /\ seen' = seen /\ record' = record
        /\ result'[j] = ReportedStatus(pc[t])
    BY <1>0, <1>2, <1>9 DEF SaveResult, Goto
  <2>2. pc[t] \in {"saveResult", "failResult", "giveUpResult"}
    BY <1>5, <1>9 DEF SaveResult, ResultSteps
  <2>3. RunAgrees(r)'
    BY <1>2, <1>3, <1>4, <1>5, <1>6, <2>1, <2>2, AfterEach, Awaited DEF RunAgrees, ReportedStatus
  <2> QED
    BY <1>1, <1>3, <2>1, <2>3, RunStepAgrees
<1>10. CASE EnqueueEvent(t, j)
  <2>1. pc'[t] = After[pc[t]] /\ seen' = seen /\ record' = record /\ result' = result
    BY <1>0, <1>10 DEF EnqueueEvent, Goto, redisVars
  <2>2. pc[t] \in {"notify", "giveUpEvent"}
    BY <1>5, <1>10 DEF EnqueueEvent, EventSteps
  <2>3. RunAgrees(r)'
    BY <1>2, <1>3, <1>4, <1>5, <1>6, <2>1, <2>2, AfterEach, Awaited DEF RunAgrees
  <2> QED
    BY <1>1, <1>3, <2>1, <2>3, RunStepAgrees
<1> QED
  BY <1>7, <1>8, <1>9, <1>10 DEF ThreadStep

LEMMA ProcessAgrees ==
  ASSUME IInv, OneMessagePerJob, Orderly, OneWriter, WritesAgree, NEW r \in Runs, ProcessNext(r)
  PROVE  WritesAgree'
<1> DEFINE j == msg[r].job
<1> USE OneWriterIsAlone, ThreadNames DEF apiVars, redisVars, brokerVars, runVars, workerVars
<1>0. /\ pc = [u \in Threads |-> pc[u]] /\ outcome = [s \in Runs |-> outcome[s]]
      /\ seen = [u \in Threads |-> seen[u]]
  BY DEF IInv, TypeOK
<1>1. RunStep(r)
  BY IsRunStep
<1>2. Working(r) /\ j \in Jobs
  BY <1>1, WorkingHolds DEF RunStep
<1>3. /\ RunAgrees(r) /\ record[j].status # "cancelled"
      /\ pc[Process(r)] \notin HitBranches \cup {"hitFinish"}
  BY <1>2, WritesAgreeByRun DEF WritesAgree, Orderly, NothingElseHappens
<1>4. CASE ThreadStep(Process(r), msg[r].job)
  BY <1>4, ThreadAgrees
<1>5. ASSUME NEW step, Goto(Process(r), step), UNCHANGED <<record, result, msg, held>>,
             pc[Process(r)] # "off",
             \A t \in Threads \ {Process(r)} : seen'[t] = seen[t],
             seen'[Process(r)] \in {seen[Process(r)], NoRecord},
             step \notin {"skipResult", "skipEvent", "return", "finish", "saveResult", "notify",
                          "wrapUp"},
             outcome'[r] = "ok" => pc[Process(r)] = "wrapUp"
      PROVE  WritesAgree'
  <2>1. pc[Handler(r)] = "await"
    BY <1>5, Awaited
  <2>2. RunAgrees(r)'
    BY <1>0, <1>3, <1>5, <2>1 DEF RunAgrees, Goto
  <2> QED
    BY <1>1, <1>3, <1>5, <2>2, RunStepAgrees
<1>6. CASE Read(r)
  BY <1>3, <1>5, <1>6, Awaited DEF Read
<1>7. CASE Lookup(r) \/ Scrape(r)
  BY <1>5, <1>7, Awaited DEF Lookup, Scrape
<1>8. CASE Return(r) \/ Throw(r)
  <2>1. pc[Process(r)] # "return"
    BY <1>3 DEF RunAgrees
  <2>2. pc[Process(r)] # "off"
    BY <1>8 DEF Return, Throw
  <2>3. seen'[Process(r)] \in {seen[Process(r)], NoRecord}
    BY <1>0, <1>8 DEF Return, Throw
  <2>4. outcome'[r] = "ok" => pc[Process(r)] = "wrapUp"
    BY <1>0, <1>8, <2>1 DEF Return, Throw
  <2> QED
    BY <1>0, <1>5, <1>8, <2>2, <2>3, <2>4 DEF Return, Throw
<1>9. ~(HitGetStatus(r) \/ HitGetProgress(r) \/ HitSetStatus(r) \/ HitSetProgress(r) \/ HitFails(r))
  BY <1>3 DEF HitGetStatus, HitGetProgress, HitSetStatus, HitSetProgress, HitFails, HitBranches
<1> QED
  BY <1>4, <1>6, <1>7, <1>8, <1>9 DEF ProcessNext

\* A step that keeps every run and loses no pending message.
LEMMA KeptAgrees ==
  ASSUME IInv, Orderly, OneWriter, WritesAgree,
         \A r \in Runs : RunAgrees(r)',
         \A j \in Jobs : record'[j].status # "cancelled",
         \A j \in Jobs : submit'[j] = "published" =>
            \/ submit[j] = "published" /\ (Agrees(j) => Agrees(j)')
            \/ \E c \in Copies : Pending(c)' /\ body'[c].job = j,
         \A c \in Copies, j \in Jobs : Pending(c) /\ body[c].job = j =>
            \/ Pending(c)' /\ body'[c] = body[c]
            \/ Agrees(j)'
            \/ \E d \in Copies : Pending(d)' /\ body'[d].job = j
  PROVE  WritesAgree'
<1>1. ReadsAreCurrent' /\ NoneCancelled' /\ RecordsFollow'
  BY DEF ReadsAreCurrent, NoneCancelled, RecordsFollow, RunAgrees
<1>2. PendingOrAgrees'
  <2> SUFFICES ASSUME NEW j \in Jobs, submit'[j] = "published"
               PROVE  Agrees(j)' \/ \E c \in Copies : Pending(c)' /\ body'[c].job = j
    BY DEF PendingOrAgrees
  <2>1. CASE Agrees(j)
    BY <2>1
  <2>2. ASSUME NEW c \in Copies, Pending(c), body[c].job = j
        PROVE  Agrees(j)' \/ \E d \in Copies : Pending(d)' /\ body'[d].job = j
    BY <2>2
  <2> QED
    BY <2>1, <2>2 DEF WritesAgree, PendingOrAgrees
<1> QED
  BY <1>1, <1>2 DEF WritesAgree

\* The handler is about to acknowledge: the job has its last word or another message.
LEMMA LeavesAgrees ==
  ASSUME IInv, OneMessagePerJob, Orderly, OneWriter, WritesAgree, NEW r \in Runs,
         Working(r), pc[Process(r)] = "off", Goto(Handler(r), "ack"),
         UNCHANGED <<enabled, submit, crashes, record, result, msg, held, outcome, seen>>,
         \A d \in Copies : queue[d] # "free" => queue'[d] = queue[d] /\ body'[d] = body[d],
         \/ record[msg[r].job] = [status |-> result[msg[r].job], stage |-> "completed"]
         \/ \E c \in Copies : queue'[c] = "delayed" /\ body'[c].job = msg[r].job
  PROVE  WritesAgree'
<1> USE ThreadNames, OneWriterIsAlone
<1>0. pc = [u \in Threads |-> pc[u]]
  BY DEF IInv, TypeOK
<1>1. \A s \in Runs : /\ pc'[Handler(s)] = IF s = r THEN "ack" ELSE pc[Handler(s)]
                      /\ pc'[Process(s)] = pc[Process(s)]
  BY <1>0 DEF Goto
<1>2. /\ held[r] \in Copies /\ body[held[r]] = msg[r] /\ msg[r].job \in Jobs
  BY WorkingHolds
<1>3. \A s \in Runs : RunAgrees(s)
  BY WritesAgreeByRun DEF WritesAgree
<1>4. ASSUME NEW s \in Runs PROVE RunAgrees(s)'
  <2>1. CASE s = r
    <3>1. seen[Process(r)] = NoRecord
      BY DEF Orderly, ReadsAreOfUpdates, UpdateSteps, StatusSteps, StageSteps, HitBranches
    <3> QED
      BY <1>1, <1>3, <2>1, <3>1 DEF RunAgrees
  <2>2. CASE s # r
    BY <1>1, <1>3, <2>2 DEF RunAgrees
  <2> QED
    BY <2>1, <2>2
<1>5. \A j \in Jobs : record'[j].status # "cancelled"
  BY DEF WritesAgree, NoneCancelled
<1>6. \A j \in Jobs : Agrees(j) => Agrees(j)'
  BY <1>1 DEF Agrees, AtRest
<1>7. ASSUME NEW j \in Jobs, j = msg[r].job
      PROVE  Agrees(j)' \/ \E d \in Copies : Pending(d)' /\ body'[d].job = j
  <2>1. CASE \E c \in Copies : queue'[c] = "delayed" /\ body'[c].job = msg[r].job
    BY <1>7, <2>1 DEF Pending
  <2>2. CASE record[msg[r].job] = [status |-> result[msg[r].job], stage |-> "completed"]
    <3>1. AtRest(j)
      BY <1>7, Exclusive, Awaited DEF AtRest
    <3> QED
      BY <1>6, <1>7, <2>2, <3>1 DEF Agrees
  <2> QED
    BY <2>1, <2>2
<1>8. ASSUME NEW c \in Copies, Pending(c), c # held[r] PROVE Pending(c)' /\ body'[c] = body[c]
  <2>1. queue[c] # "free"
    BY <1>8 DEF Pending
  <2> QED
    BY <1>1, <1>8, <2>1 DEF Pending
<1> QED
  BY <1>2, <1>4, <1>5, <1>6, <1>7, <1>8, KeptAgrees

LEMMA HandlerAgrees ==
  ASSUME IInv, OneMessagePerJob, Orderly, OneWriter, WritesAgree, NEW r \in Runs, HandlerNext(r)
  PROVE  WritesAgree'
<1> USE OneWriterIsAlone, ThreadNames DEF apiVars, redisVars, brokerVars, runVars, workerVars
<1>0. pc = [u \in Threads |-> pc[u]] /\ outcome = [s \in Runs |-> outcome[s]]
  BY DEF IInv, TypeOK
<1>1. \A s \in Runs : RunAgrees(s)
  BY WritesAgreeByRun DEF WritesAgree
<1>2. \A j \in Jobs : record[j].status # "cancelled"
  BY DEF WritesAgree, NoneCancelled
<1>3. pc[Handler(r)] # "await" => pc[Process(r)] = "off"
  BY Awaited
<1>4. ASSUME NEW c \in Copies, Deliver(r, c) PROVE WritesAgree'
  <2>1. /\ pc[Handler(r)] = "free" /\ pc[Process(r)] = "off" /\ queue[c] = "ready"
        /\ \A s \in Runs : pc'[Handler(s)] = IF s = r THEN "await" ELSE pc[Handler(s)]
        /\ \A s \in Runs : pc'[Process(s)] = IF s = r THEN "read" ELSE pc[Process(s)]
        /\ \A s \in Runs : msg'[s] = IF s = r THEN body[c] ELSE msg[s]
        /\ \A s \in Runs : held'[s] = IF s = r THEN c ELSE held[s]
        /\ \A s \in Runs : outcome'[s] = IF s = r THEN "none" ELSE outcome[s]
        /\ \A d \in Copies : queue'[d] = IF d = c THEN "unacked" ELSE queue[d]
        /\ UNCHANGED <<enabled, submit, record, result, body, seen, crashes>>
    BY <1>0, <1>4 DEF Deliver, IInv, TypeOK
  <2>2. seen[Process(r)] = NoRecord /\ seen[Handler(r)] = NoRecord
    BY <2>1, NotWorking DEF Working
  <2>3. \A s \in Runs : RunAgrees(s)'
    <3>1. RunAgrees(r)'
      BY <2>1, <2>2 DEF RunAgrees
    <3>2. \A s \in Runs \ {r} : RunAgrees(s)'
      BY <1>1, <2>1 DEF RunAgrees
    <3> QED
      BY <3>1, <3>2
  <2>4. Pending(c)'
    BY <2>1 DEF Pending, IInv, HandlersHoldCopies
  <2>5. \A d \in Copies : Pending(d) => Pending(d)'
    BY <2>1, <2>4 DEF Pending
  <2>6. ASSUME NEW j \in Jobs, j # body[c].job, Agrees(j) PROVE Agrees(j)'
    BY <2>1, <2>6 DEF Agrees, AtRest
  <2> QED
    BY <1>2, <2>1, <2>3, <2>4, <2>5, <2>6, KeptAgrees
<1>5. CASE ThreadStep(Handler(r), msg[r].job)
  BY <1>5, ThreadAgrees
<1>6. CASE Settle(r) /\ outcome[r] = "threw"
  <2>1. RunStep(r)
    BY <1>6, IsRunStep
  <2> PICK step \in {"requeue", "giveUp"} : Goto(Handler(r), step)
    BY <1>6 DEF Settle, OnFailure
  <2>2. pc[Process(r)] = "off"
    BY <1>6, Awaited
  <2>3. RunAgrees(r)'
    BY <1>0, <1>1, <1>6, <2>2 DEF RunAgrees, Settle, Goto
  <2>4. record' = record /\ msg[r].job \in Jobs
    BY <1>6, <2>1, WorkingHolds DEF Settle, RunStep
  <2> QED
    BY <1>2, <2>1, <2>3, <2>4, RunStepAgrees
<1>7. CASE Settle(r) /\ outcome[r] = "ok"
  <2>1. pc[Process(r)] = "off" /\ Working(r)
    BY <1>7, Awaited DEF Settle, Working
  <2>2. record[msg[r].job] = [status |-> result[msg[r].job], stage |-> "completed"]
    <3>1. RunAgrees(r) /\ pc[Handler(r)] = "await" /\ outcome[r] = "ok"
      BY <1>1, <1>7 DEF Settle
    <3> QED
      BY <3>1 DEF RunAgrees
  <2> QED
    BY <1>7, <2>1, <2>2, LeavesAgrees DEF Settle
<1>8. ASSUME NEW c \in Copies, SendRetry(r, c) PROVE WritesAgree'
  <2>1. Working(r) /\ pc[Process(r)] = "off"
    BY <1>3, <1>8 DEF SendRetry, Working
  <2>2. /\ queue[c] = "free" /\ queue'[c] = "delayed" /\ body'[c].job = msg[r].job
        /\ \A d \in Copies \ {c} : queue'[d] = queue[d] /\ body'[d] = body[d]
    BY <1>8, <2>1, WorkingHolds DEF SendRetry, Send, IInv, TypeOK, Message
  <2> QED
    BY <1>8, <2>1, <2>2, LeavesAgrees DEF SendRetry
<1>9. ASSUME NEW c \in Copies, SendDeadLetter(r, c) PROVE WritesAgree'
  <2>1. Working(r) /\ pc[Process(r)] = "off"
    BY <1>3, <1>9 DEF SendDeadLetter, Working
  <2>2. \A d \in Copies : queue[d] # "free" => queue'[d] = queue[d] /\ body'[d] = body[d]
    BY <1>9 DEF SendDeadLetter, Send, IInv, TypeOK
  <2>3. record[msg[r].job] = [status |-> result[msg[r].job], stage |-> "completed"]
    <3>1. RunAgrees(r) /\ pc[Handler(r)] = "deadLetter"
      BY <1>1, <1>9 DEF SendDeadLetter
    <3> QED
      BY <3>1 DEF RunAgrees
  <2> QED
    BY <1>9, <2>1, <2>2, <2>3, LeavesAgrees DEF SendDeadLetter
<1>10. CASE Ack(r)
  <2>1. /\ pc[Handler(r)] = "ack" /\ held[r] \in Copies
        /\ \A s \in Runs : pc'[Handler(s)] = IF s = r THEN "free" ELSE pc[Handler(s)]
        /\ \A s \in Runs : pc'[Process(s)] = pc[Process(s)]
        /\ \A s \in Runs : held'[s] = IF s = r THEN NoCopy ELSE held[s]
        /\ \A d \in Copies \ {held[r]} : queue'[d] = queue[d] /\ body'[d] = body[d]
        /\ UNCHANGED <<enabled, submit, record, result, seen, msg, outcome, crashes>>
    <3>1. pc[Handler(r)] = "ack" /\ held[r] \in Copies
      BY <1>10, ActiveRun DEF Ack
    <3>2. /\ \A s \in Runs : pc'[Handler(s)] = IF s = r THEN "free" ELSE pc[Handler(s)]
          /\ \A s \in Runs : pc'[Process(s)] = pc[Process(s)]
      BY <1>0, <1>10 DEF Ack, Goto
    <3>3. /\ \A s \in Runs : held'[s] = IF s = r THEN NoCopy ELSE held[s]
          /\ \A d \in Copies \ {held[r]} : queue'[d] = queue[d] /\ body'[d] = body[d]
      BY <1>10 DEF Ack, IInv, TypeOK
    <3> QED
      BY <1>10, <3>1, <3>2, <3>3 DEF Ack
  <2>2. ASSUME NEW s \in Runs PROVE RunAgrees(s)'
    BY <1>1, <1>3, <2>1 DEF RunAgrees
  <2>3. ASSUME NEW d \in Copies, Pending(d) PROVE Pending(d)' /\ body'[d] = body[d]
    <3>1. d # held[r]
      BY <2>1, <2>3, ActiveRun DEF Pending
    <3> QED
      BY <2>1, <2>3, <3>1 DEF Pending
  <2>4. \A j \in Jobs : Agrees(j) => Agrees(j)'
    BY <2>1 DEF Agrees, AtRest
  <2> QED
    BY <1>2, <2>1, <2>2, <2>3, <2>4, KeptAgrees
<1>11. ~WatchdogFires(r)
  BY DEF WatchdogFires, Alone
<1> QED
  BY <1>4, <1>5, <1>6, <1>7, <1>8, <1>9, <1>10, <1>11 DEF HandlerNext, Settle

LEMMA ApiAgrees ==
  ASSUME IInv, CopiesArePublished, SavedFirst, Orderly, OneWriter, WritesAgree, ApiNext
  PROVE  WritesAgree'
<1> USE OneWriterIsAlone, ThreadNames DEF apiVars, redisVars, brokerVars, runVars, workerVars
<1>1. \A s \in Runs : RunAgrees(s)
  BY WritesAgreeByRun DEF WritesAgree
<1>2. \A j \in Jobs : record[j].status # "cancelled"
  BY DEF WritesAgree, NoneCancelled
<1>3. ASSUME NEW i \in Jobs, SaveRecord(i) PROVE WritesAgree'
  <2>1. /\ submit[i] = "new" /\ \A j \in Jobs \ {i} : submit'[j] = submit[j] /\ record'[j] = record[j]
        /\ submit'[i] = "saved" /\ record'[i].status # "cancelled"
        /\ UNCHANGED <<queue, body, pc, seen, msg, held, outcome, result>>
    BY <1>3 DEF SaveRecord, IInv, TypeOK, NewRecord
  <2>2. ASSUME NEW s \in Runs PROVE RunAgrees(s)'
    <3>1. CASE Working(s)
      <4>1. msg[s].job \in Jobs \ {i}
        BY <2>1, <3>1, WorkingHolds, NoMessageAssumption DEF SavedFirst
      <4> QED
        BY <1>1, <2>1, <4>1 DEF RunAgrees
    <3>2. CASE ~Working(s)
      BY <2>1, <3>2, NotWorking DEF RunAgrees
    <3> QED
      BY <3>1, <3>2
  <2>3. \A c \in Copies : Pending(c) => Pending(c)'
    BY <2>1 DEF Pending
  <2>4. \A j \in Jobs \ {i} : Agrees(j) => Agrees(j)'
    BY <2>1 DEF Agrees, AtRest
  <2>5. \A j \in Jobs : record'[j].status # "cancelled"
    BY <1>2, <2>1
  <2> QED
    BY <2>1, <2>2, <2>3, <2>4, <2>5, KeptAgrees
<1>4. ASSUME NEW i \in Jobs, NEW c \in Copies, Publish(i, c) PROVE WritesAgree'
  <2>1. /\ queue[c] = "free" /\ queue'[c] = "ready" /\ body'[c].job = i
        /\ \A d \in Copies \ {c} : queue'[d] = queue[d] /\ body'[d] = body[d]
        /\ \A j \in Jobs \ {i} : submit'[j] = submit[j]
        /\ UNCHANGED <<record, pc, seen, msg, held, outcome, result>>
    BY <1>4 DEF Publish, Send, IInv, TypeOK
  <2>2. \A s \in Runs : RunAgrees(s)'
    BY <1>1, <2>1 DEF RunAgrees
  <2>3. /\ Pending(c)' /\ \A d \in Copies : Pending(d) => Pending(d)' /\ d # c
    BY <2>1 DEF Pending
  <2>4. \A j \in Jobs : Agrees(j) => Agrees(j)'
    BY <2>1 DEF Agrees, AtRest
  <2> QED
    BY <1>2, <2>1, <2>2, <2>3, <2>4, KeptAgrees
<1>5. ASSUME NEW x \in CancelRequests
      PROVE  ~(CancelRead(x) \/ ThreadStep(Cancel(x), cancels[x]) \/ CancelFails(x))
  <2>1. "clientCancels" \notin enabled /\ pc[Cancel(x)] = "idle"
    BY DEF OneWriter, Orderly, NothingElseHappens
  <2>2. "idle" \notin UpdateSteps \cup ResultSteps \cup EventSteps
    BY DEF UpdateSteps, StatusSteps, StageSteps, ResultSteps, EventSteps
  <2> QED
    BY <2>1, <2>2 DEF CancelRead, CancelFails, ThreadStep, RecordGet, RecordSet, SaveResult, EnqueueEvent
<1> QED
  BY <1>3, <1>4, <1>5 DEF ApiNext

\* A step that touches no run and keeps every copy where it is, or puts it back.
LEMMA OthersAgree ==
  ASSUME IInv, Orderly, OneWriter, WritesAgree,
         \/ \E w \in Workers : Bootstrapped(w) \/ Crash(w) \/ \E c \in Copies : Ignore(w, c)
         \/ \E c \in Copies : RetryExpires(c)
         \/ UNCHANGED vars
  PROVE  WritesAgree'
<1> USE OneWriterIsAlone, ThreadNames DEF apiVars, redisVars, brokerVars, runVars, workerVars
<1>1. \A s \in Runs : RunAgrees(s)
  BY WritesAgreeByRun DEF WritesAgree
<1>2. \A j \in Jobs : record[j].status # "cancelled"
  BY DEF WritesAgree, NoneCancelled
<1>3. ASSUME UNCHANGED <<submit, record, result, body, pc, seen, msg, held, outcome>>,
             \A d \in Copies : Pending(d) => Pending(d)'
      PROVE  WritesAgree'
  <2>1. \A s \in Runs : RunAgrees(s)'
    BY <1>1, <1>3 DEF RunAgrees
  <2>2. \A j \in Jobs : Agrees(j) => Agrees(j)'
    BY <1>3 DEF Agrees, AtRest
  <2> QED
    BY <1>2, <1>3, <2>1, <2>2, KeptAgrees
<1>4. ASSUME NEW w \in Workers, NEW c \in Copies, Ignore(w, c) PROVE WritesAgree'
  <2>1. \A d \in Copies : Pending(d) => Pending(d)'
    BY <1>4 DEF Ignore, Pending, IInv, TypeOK, HandlersHoldCopies
  <2> QED
    BY <1>3, <1>4, <2>1 DEF Ignore
<1>5. CASE \/ \E w \in Workers : Bootstrapped(w)
           \/ \E c \in Copies : RetryExpires(c)
           \/ UNCHANGED vars
  BY <1>3, <1>5 DEF Bootstrapped, RetryExpires, vars, Pending, IInv, TypeOK
<1>6. ASSUME NEW w \in Workers, Crash(w) PROVE WritesAgree'
  <2>1. /\ \A s \in Runs :
              \/ /\ pc'[Handler(s)] = pc[Handler(s)] /\ pc'[Process(s)] = pc[Process(s)]
                 /\ seen'[Handler(s)] = seen[Handler(s)] /\ seen'[Process(s)] = seen[Process(s)]
                 /\ held'[s] = held[s]
              \/ /\ pc'[Handler(s)] = "free" /\ pc'[Process(s)] = "off"
                 /\ seen'[Handler(s)] = NoRecord /\ seen'[Process(s)] = NoRecord
                 /\ held'[s] = NoCopy
        /\ UNCHANGED <<submit, record, result, body, msg, outcome>>
    BY <1>6 DEF Crash
  <2>2. \A d \in Copies : queue[d] \in {"ready", "delayed", "unacked"}
                            => queue'[d] = queue[d] \/ queue'[d] = "ready"
    BY <1>6 DEF Crash
  <2>3. ASSUME NEW s \in Runs PROVE RunAgrees(s)'
    BY <1>1, <2>1 DEF RunAgrees
  <2>4. \A d \in Copies : Pending(d) => Pending(d)'
    BY <2>1, <2>2 DEF Pending
  <2>5. \A j \in Jobs : Agrees(j) => Agrees(j)'
    BY <2>1 DEF Agrees, AtRest
  <2> QED
    BY <1>2, <2>1, <2>3, <2>4, <2>5, KeptAgrees
<1> QED
  BY <1>4, <1>5, <1>6

\* No step changes what can happen or takes a crash back.
LEMMA StepGoesOn ==
  ASSUME IInv, [Next]_vars
  PROVE  enabled' = enabled /\ (crashes' = 0 => crashes = 0)
<1> USE DEF apiVars, redisVars, brokerVars, runVars, workerVars
<1>1. \A t \in Threads : \A j : ThreadStep(t, j) => UNCHANGED <<enabled, crashes>>
  BY ThreadMoves
<1>2. CASE ApiNext
  BY <1>1, <1>2, ThreadNames DEF ApiNext, SaveRecord, Publish, CancelRead, CancelFails
<1>3. ASSUME NEW r \in Runs, HandlerNext(r) PROVE UNCHANGED <<enabled, crashes>>
  BY <1>1, <1>3, ThreadNames DEF HandlerNext, Deliver, SendRetry, SendDeadLetter, Settle,
     WatchdogFires, Ack
<1>4. ASSUME NEW r \in Runs, ProcessNext(r) PROVE UNCHANGED <<enabled, crashes>>
  BY <1>1, <1>4, ThreadNames DEF ProcessNext, Read, Lookup, Scrape, Return, Throw, HitGetStatus,
     HitGetProgress, HitSetStatus, HitSetProgress, HitFails
<1>5. CASE (\E c \in Copies : RetryExpires(c)) \/ UNCHANGED vars
  BY <1>5 DEF RetryExpires, vars
<1>6. ASSUME NEW w \in Workers, Bootstrapped(w) \/ Crash(w) \/ \E c \in Copies : Ignore(w, c)
      PROVE  enabled' = enabled /\ (crashes' = 0 => crashes = 0)
  BY <1>6 DEF Bootstrapped, Crash, Ignore, IInv, TypeOK
<1> QED
  BY <1>2, <1>3, <1>4, <1>5, <1>6 DEF Next

LEMMA NextAgrees ==
  ASSUME IInv, OneMessagePerJob, CopiesArePublished, SavedFirst, Orderly, WritesAgree, [Next]_vars
  PROVE  WritesAgree'
<1>1. OneWriter' => OneWriter
  <2>1. enabled' = enabled /\ (crashes' = 0 => crashes = 0)
    BY StepGoesOn
  <2> QED
    BY <2>1 DEF OneWriter
<1>2. CASE ~OneWriter'
  BY <1>2 DEF WritesAgree
<1>3. CASE OneWriter
  BY <1>3, ApiAgrees, HandlerAgrees, ProcessAgrees, OthersAgree DEF Next
<1> QED
  BY <1>1, <1>2, <1>3

LEMMA InitAgrees == Init => WritesAgree
BY ThreadNames DEF Init, WritesAgree, ReadsAreCurrent, NoneCancelled, RecordsFollow, PendingOrAgrees,
   NoRecord

LEMMA AlwaysAgrees == Spec => []WritesAgree
<1>1. IInv /\ Background /\ WritesAgree /\ [Next]_vars => WritesAgree'
  BY NextAgrees DEF Background
<1> QED
  BY <1>1, InitAgrees, AlwaysBackground, Inductive, PTL DEF Spec

\* A job that leaves the queues is at rest with a record that says what its result says:
\* no update of the record or its stage is lost between its processor and the consumer,
\* whichever calls were refused, and when the only run of a worker died (handleMessage).
THEOREM SettledRecords == Spec => []SettledAgrees
<1>1. WritesAgree => SettledAgrees
  BY DEF WritesAgree, SettledAgrees, PendingOrAgrees, Pending, Settled, Live
<1> QED
  BY <1>1, AlwaysAgrees, PTL

-----------------------------------------------------------------------------
(* One event per job                                                       *)

\* The handler of a run is past the announcement of the job's end.
Announces(r) ==
  \/ pc[Process(r)] \in {"hitStatus", "hitFinish", "wrapUp", "return"}
  \/ pc[Handler(r)] = "await" /\ outcome[r] = "ok"
  \/ pc[Handler(r)] = "deadLetter"

LEMMA AnnouncedByRun == \A c : Announced(c) <=> \E r \in Runs : held[r] = c /\ Announces(r)
BY DEF Announced, Announces

LEMMA OnlyScrapesIsAlone ==
  ASSUME IInv, Orderly, OnlyScrapesFail
  PROVE  Alone /\ crashes = 0 /\ "dependencyFails" \notin enabled
BY DEF OnlyScrapesFail, Orderly, NothingElseHappens, Alone

\* A working run has announced its job once if it is past the announcement.
LEMMA CountOfRun ==
  ASSUME IInv, Orderly, OnlyScrapesFail, EventsAreCounted, NEW r \in Runs, Working(r)
  PROVE  EventCount(msg[r].job) = IF Announces(r) THEN 1 ELSE 0
<1>1. Announced(held[r]) <=> Announces(r)
  BY WorkingHolds DEF Announced, Announces, IInv, HandlersHoldCopies, TypeOK
<1> QED
  BY <1>1, WorkingHolds DEF EventsAreCounted

LEMMA RunStepCounts ==
  ASSUME IInv, OneMessagePerJob, CopiesArePublished, Orderly, OnlyScrapesFail, EventsAreCounted,
         NEW r \in Runs, RunStep(r), NEW j \in Jobs, j = msg[r].job,
         EventCount(j)' = IF Announces(r)' THEN 1 ELSE 0
  PROVE  EventsAreCounted'
<1> USE OnlyScrapesIsAlone
<1>1. /\ Working(r) /\ held[r] \in Copies /\ Pending(held[r]) /\ body[held[r]] = msg[r]
      /\ submit[j] = "published" /\ \A s \in Runs : held[s] = held[r] => s = r
  BY WorkingHolds DEF RunStep, CopiesArePublished, Pending, IInv, HandlersHoldCopies, TypeOK
<1>2. UNCHANGED <<submit, body, held>> /\ \A c \in Copies : Pending(c)' <=> Pending(c)
  BY AfterRunStep DEF RunStep
<1>3. \A k \in Jobs \ {j} : EventCount(k)' = EventCount(k)
  BY DEF RunStep, EventCount
<1>4. \A c \in Copies : Pending(c) /\ body[c].job = j => c = held[r]
  BY <1>1 DEF OneMessagePerJob
<1>5. \A s \in Runs \ {r} : Announces(s)' <=> Announces(s)
  BY AfterRunStep DEF RunStep, Announces
<1>6. \A c \in Copies \ {held[r]} : Announced(c)' <=> Announced(c)
  BY <1>1, <1>2, <1>5 DEF Announced, Announces
<1>7. Announced(held[r])' <=> Announces(r)'
  BY <1>1, <1>2 DEF Announced, Announces
<1>8. ASSUME NEW c \in Copies, NEW k \in Jobs, Pending(c)', body'[c].job = k
      PROVE  EventCount(k)' = IF Announced(c)' THEN 1 ELSE 0
  <2>1. CASE c = held[r]
    BY <1>1, <1>2, <1>7, <1>8, <2>1
  <2>2. CASE c # held[r]
    BY <1>2, <1>3, <1>4, <1>6, <1>8, <2>2 DEF EventsAreCounted
  <2> QED
    BY <2>1, <2>2
<1>9. ASSUME NEW k \in Jobs
      PROVE  /\ submit'[k] # "published" => EventCount(k)' = 0
             /\ submit'[k] = "published" /\ (\A c \in Copies : ~(Pending(c)' /\ body'[c].job = k))
                  => EventCount(k)' = 1
  <2>1. CASE k = j
    BY <1>1, <1>2, <2>1
  <2>2. CASE k # j
    BY <1>2, <1>3, <2>2 DEF EventsAreCounted
  <2> QED
    BY <2>1, <2>2
<1> QED
  BY <1>8, <1>9 DEF EventsAreCounted

\* A step that announces nothing: pending messages stay, or their job has been announced,
\* and new ones are of jobs that have not.
LEMMA QuietCounts ==
  ASSUME OnlyScrapesFail, EventsAreCounted, events' = events,
         \A j \in Jobs : submit'[j] # "published" => submit[j] # "published",
         \A j \in Jobs : submit'[j] = "published" =>
            submit[j] = "published" \/ \E c \in Copies : Pending(c)' /\ body'[c].job = j,
         \A c \in Copies, j \in Jobs : Pending(c)' /\ body'[c].job = j =>
            \/ Pending(c) /\ body[c].job = j /\ (Announced(c)' <=> Announced(c))
            \/ EventCount(j) = 0 /\ ~Announced(c)',
         \A c \in Copies, j \in Jobs : Pending(c) /\ body[c].job = j =>
            EventCount(j) = 1 \/ \E d \in Copies : Pending(d)' /\ body'[d].job = j
  PROVE  EventsAreCounted'
<1>1. \A j \in Jobs : EventCount(j)' = EventCount(j)
  BY DEF EventCount
<1>2. ASSUME NEW c \in Copies, NEW k \in Jobs, Pending(c)', body'[c].job = k
      PROVE  EventCount(k)' = IF Announced(c)' THEN 1 ELSE 0
  BY <1>1, <1>2 DEF EventsAreCounted
<1>3. ASSUME NEW k \in Jobs
      PROVE  /\ submit'[k] # "published" => EventCount(k)' = 0
             /\ submit'[k] = "published" /\ (\A c \in Copies : ~(Pending(c)' /\ body'[c].job = k))
                  => EventCount(k)' = 1
  BY <1>1 DEF EventsAreCounted
<1> QED
  BY <1>2, <1>3 DEF EventsAreCounted

\* One more event of a job that had none.
LEMMA EventAdded ==
  ASSUME IInv, NEW t \in Threads, NEW j \in Jobs, EnqueueEvent(t, j)
  PROVE  EventCount(j)' = EventCount(j) + 1
<1>1. ReportedStatus(pc[t]) \in {"completed", "failed", "cancelled"}
  BY DEF ReportedStatus
<1>2. events[j] \in [Terminal -> Nat]
  BY DEF IInv, TypeOK
<1>3. events'[j] = [events[j] EXCEPT ![ReportedStatus(pc[t])] = @ + 1]
  BY DEF EnqueueEvent, IInv, TypeOK
<1> QED
  BY <1>1, <1>2, <1>3 DEF EventCount, Terminal

LEMMA ThreadCounts ==
  ASSUME IInv, OneMessagePerJob, CopiesArePublished, Orderly, OnlyScrapesFail, EventsAreCounted,
         NEW r \in Runs, NEW t \in {Handler(r), Process(r)}, ThreadStep(t, msg[r].job)
  PROVE  EventsAreCounted'
<1> USE OnlyScrapesIsAlone, ThreadNames
<1> DEFINE j == msg[r].job
<1>1. RunStep(r)
  BY IsRunStep DEF ProcessNext
<1>2. /\ Working(r) /\ j \in Jobs /\ outcome' = outcome /\ msg' = msg
      /\ \A u \in Threads \ {t} : pc'[u] = pc[u]
  BY <1>1, WorkingHolds, ThreadMoves DEF RunStep
<1>3. EventCount(j) = IF Announces(r) THEN 1 ELSE 0
  BY <1>2, CountOfRun
<1>4. /\ pc[t] \in UpdateSteps \cup ResultSteps \cup EventSteps
      /\ t = Handler(r) => pc[t] \in {"requeue", "requeueStage", "giveUp", "giveUpStage",
                                      "giveUpResult", "giveUpEvent"}
      /\ t = Process(r) => pc[t] \in {"begin", "fetching", "proxy", "stage", "complete", "finish",
                                      "fail", "failFinish", "skipResult", "hitResult", "saveResult",
                                      "failResult", "skipEvent", "hitEvent", "notify"}
  BY ThreadMoves, WhoseStep DEF IInv, TypeOK
<1>5. /\ t = Handler(r) => pc[Process(r)] = "off"
      /\ t = Process(r) => pc[Handler(r)] = "await" /\ outcome[r] = "none"
  <2>1. pc[t] \notin {"await", "off"}
    BY <1>4
  <2> QED
    BY <2>1, Awaited
<1>6. ~Announces(r)
  BY <1>4, <1>5 DEF Announces
<1>7. CASE RecordGet(t, j) \/ RecordSet(t, j) \/ SaveResult(t, j)
  <2>1. events' = events /\ pc[t] \notin EventSteps /\ pc'[t] \in {pc[t], After[pc[t]]}
    BY <1>7, ThreadMoves
    DEF RecordGet, RecordSet, SaveResult, UpdateSteps, StatusSteps, StageSteps, ResultSteps, EventSteps
  <2>2. EventCount(j)' = EventCount(j)
    BY <1>2, <2>1 DEF EventCount
  <2>3. pc'[t] \notin {"hitStatus", "hitFinish", "wrapUp", "return", "deadLetter", "await"}
    BY <1>4, <2>1, AfterEach DEF EventSteps
  <2>4. ~Announces(r)'
    BY <1>2, <1>5, <2>3 DEF Announces
  <2> QED
    BY <1>1, <1>2, <1>3, <1>6, <2>2, <2>4, RunStepCounts
<1>8. CASE EnqueueEvent(t, j)
  <2>1. EventCount(j)' = 1
    BY <1>2, <1>3, <1>6, <1>8, EventAdded
  <2>2. pc[t] \in {"giveUpEvent", "skipEvent", "hitEvent", "notify"} /\ pc'[t] = After[pc[t]]
    BY <1>4, <1>8 DEF EnqueueEvent, EventSteps, Goto, IInv, TypeOK
  <2>3. Announces(r)'
    BY <1>4, <2>2, AfterEach DEF Announces
  <2> QED
    BY <1>1, <1>2, <2>1, <2>3, RunStepCounts
<1> QED
  BY <1>7, <1>8 DEF ThreadStep

LEMMA ProcessCounts ==
  ASSUME IInv, OneMessagePerJob, CopiesArePublished, Orderly, OnlyScrapesFail, EventsAreCounted,
         NEW r \in Runs, ProcessNext(r)
  PROVE  EventsAreCounted'
<1> USE OnlyScrapesIsAlone, ThreadNames DEF apiVars, redisVars, brokerVars, runVars, workerVars
<1>0. pc = [u \in Threads |-> pc[u]] /\ outcome = [s \in Runs |-> outcome[s]]
  BY DEF IInv, TypeOK
<1>1. RunStep(r)
  BY IsRunStep
<1>2. /\ Working(r) /\ msg[r].job \in Jobs
      /\ EventCount(msg[r].job) = IF Announces(r) THEN 1 ELSE 0
  BY <1>1, WorkingHolds, CountOfRun DEF RunStep
<1>3. CASE ThreadStep(Process(r), msg[r].job)
  BY <1>3, ThreadCounts
<1>4. ASSUME pc[Process(r)] # "off", NEW step, Goto(Process(r), step), events' = events,
             outcome'[r] \in {"none", "ok", "threw"},
             \/ pc[Process(r)] \in {"hitStatus", "hitFinish", "wrapUp", "return"}
             \/ outcome'[r] # "ok",
             pc[Process(r)] \in {"hitStatus", "hitFinish", "wrapUp", "return"}
               <=> step \in {"hitStatus", "hitFinish", "wrapUp", "return"} \/ outcome'[r] = "ok"
      PROVE  EventsAreCounted'
  <2>1. pc[Handler(r)] = "await" /\ outcome[r] = "none" /\ pc'[Handler(r)] = "await"
    BY <1>0, <1>4, Awaited DEF Goto
  <2>2. Announces(r)' <=> Announces(r)
    BY <1>0, <1>4, <2>1 DEF Announces, Goto
  <2> PICK j \in Jobs : j = msg[r].job
    BY <1>2
  <2>3. EventCount(j)' = EventCount(j)
    BY <1>4 DEF EventCount
  <2> QED
    BY <1>1, <1>2, <2>2, <2>3, RunStepCounts
<1>5. CASE Read(r) \/ Lookup(r) \/ Scrape(r) \/ HitGetStatus(r) \/ HitGetProgress(r) \/ HitSetStatus(r)
  BY <1>4, <1>5, Awaited DEF Read, Lookup, Scrape, HitGetStatus, HitGetProgress, HitSetStatus
<1>6. CASE Return(r)
  BY <1>0, <1>4, <1>6 DEF Return
<1>7. CASE Throw(r)
  BY <1>0, <1>4, <1>7 DEF Throw
<1>8. CASE HitSetProgress(r)
  BY <1>4, <1>8, Awaited DEF HitSetProgress
<1>9. ~HitFails(r)
  BY DEF HitFails
<1> QED
  BY <1>3, <1>5, <1>6, <1>7, <1>8, <1>9 DEF ProcessNext

LEMMA HandlerCounts ==
  ASSUME IInv, OneMessagePerJob, CopiesArePublished, Orderly, OnlyScrapesFail, EventsAreCounted,
         NEW r \in Runs, HandlerNext(r)
  PROVE  EventsAreCounted'
<1> USE OnlyScrapesIsAlone, ThreadNames DEF apiVars, redisVars, brokerVars, runVars, workerVars
<1>0. pc = [u \in Threads |-> pc[u]] /\ outcome = [s \in Runs |-> outcome[s]]
  BY DEF IInv, TypeOK
<1>1. pc[Handler(r)] # "await" => pc[Process(r)] = "off"
  BY Awaited
<1>2. \A s \in Runs : held[s] # NoCopy => held[s] \in Copies /\ queue[held[s]] = "unacked"
  BY DEF IInv, HandlersHoldCopies, TypeOK
<1>3. ASSUME NEW c \in Copies, Deliver(r, c) PROVE EventsAreCounted'
  <2>1. /\ pc[Handler(r)] = "free" /\ pc[Process(r)] = "off" /\ queue[c] = "ready"
        /\ \A s \in Runs : pc'[Handler(s)] = IF s = r THEN "await" ELSE pc[Handler(s)]
        /\ \A s \in Runs : pc'[Process(s)] = IF s = r THEN "read" ELSE pc[Process(s)]
        /\ \A s \in Runs : held'[s] = IF s = r THEN c ELSE held[s]
        /\ \A s \in Runs : outcome'[s] = IF s = r THEN "none" ELSE outcome[s]
        /\ \A d \in Copies : queue'[d] = IF d = c THEN "unacked" ELSE queue[d]
        /\ UNCHANGED <<submit, body, events>>
    BY <1>0, <1>3 DEF Deliver, IInv, TypeOK
  <2>2. held[r] = NoCopy
    BY <2>1 DEF IInv, HandlersHoldCopies
  <2>3. ~Announces(r)' /\ \A s \in Runs \ {r} : Announces(s)' <=> Announces(s)
    BY <2>1 DEF Announces
  <2>4. /\ \A d \in Copies : Announced(d)' <=> Announced(d)
        /\ \A d \in Copies : Pending(d)' <=> Pending(d)
    <3>1. \A s \in Runs : held[s] # c
      BY <1>2, <2>1
    <3>2. \A d \in Copies : Announced(d)' <=> Announced(d)
      BY <2>1, <2>2, <2>3, <3>1 DEF Announced, Announces
    <3>3. \A d \in Copies \ {c} : Pending(d)' <=> Pending(d)
      BY <2>1, <2>2 DEF Pending
    <3>4. Pending(c)' /\ Pending(c)
      BY <2>1, <3>1 DEF Pending
    <3> QED
      BY <3>2, <3>3, <3>4
  <2> QED
    BY <2>1, <2>4, QuietCounts
<1>4. CASE ThreadStep(Handler(r), msg[r].job)
  BY <1>4, ThreadCounts
<1>5. CASE Settle(r) /\ outcome[r] = "threw"
  <2>1. RunStep(r)
    BY <1>5, IsRunStep
  <2> PICK step \in {"requeue", "giveUp"} : Goto(Handler(r), step)
    BY <1>5 DEF Settle, OnFailure
  <2>2. pc[Process(r)] = "off"
    BY <1>5, Awaited
  <2>3. ~Announces(r) /\ ~Announces(r)'
    BY <1>0, <1>5, <2>2 DEF Announces, Settle, Goto
  <2> PICK j \in Jobs : j = msg[r].job
    BY <2>1, WorkingHolds DEF RunStep
  <2>4. EventCount(j)' = EventCount(j)
    BY <1>5 DEF EventCount, Settle
  <2>5. EventCount(j) = 0
    BY <2>1, <2>3, CountOfRun DEF RunStep
  <2> QED
    BY <2>1, <2>3, <2>4, <2>5, RunStepCounts
\* The handler is about to acknowledge, once the job is announced or retried.
<1>6. ASSUME Working(r), pc[Process(r)] = "off", Goto(Handler(r), "ack"),
             UNCHANGED <<submit, events, held, outcome>>,
             \A d \in Copies : queue[d] # "free" => queue'[d] = queue[d] /\ body'[d] = body[d],
             \A d \in Copies : queue[d] = "free" /\ queue'[d] \in {"ready", "delayed", "unacked"}
                => ~Announces(r) /\ body'[d].job = msg[r].job,
             \/ Announces(r)
             \/ \E c \in Copies : queue'[c] = "delayed" /\ body'[c].job = msg[r].job
      PROVE  EventsAreCounted'
  <2>1. \A s \in Runs : /\ pc'[Handler(s)] = IF s = r THEN "ack" ELSE pc[Handler(s)]
                        /\ pc'[Process(s)] = pc[Process(s)]
    BY <1>0, <1>6 DEF Goto
  <2>2. /\ held[r] \in Copies /\ body[held[r]] = msg[r] /\ msg[r].job \in Jobs
        /\ \A s \in Runs : held[s] = held[r] => s = r
        /\ EventCount(msg[r].job) = IF Announces(r) THEN 1 ELSE 0
    BY <1>6, WorkingHolds, CountOfRun DEF IInv, HandlersHoldCopies, TypeOK
  <2>3. \A s \in Runs \ {r} : Announces(s)' <=> Announces(s)
    BY <1>6, <2>1 DEF Announces
  <2>4. \A c \in Copies \ {held[r]} : Announced(c)' <=> Announced(c)
    BY <1>6, <2>3 DEF Announced, Announces
  <2>5. ASSUME NEW c \in Copies, c # held[r], Pending(c) PROVE Pending(c)' /\ body'[c] = body[c]
    <3>1. queue[c] # "free"
      BY <2>5 DEF Pending
    <3> QED
      BY <1>6, <2>1, <2>5, <3>1 DEF Pending
  <2>6. ASSUME NEW c \in Copies, c = held[r] PROVE ~Pending(c)'
    <3>1. queue[c] = "unacked"
      BY <1>6, <2>6, WorkingHolds
    <3>2. queue'[c] = "unacked" /\ held'[r] = c /\ pc'[Handler(r)] = "ack"
      BY <1>6, <2>1, <2>6, <3>1
    <3> QED
      BY <3>2 DEF Pending
  <2>7. ASSUME NEW c \in Copies, NEW j \in Jobs, Pending(c)', body'[c].job = j
        PROVE  \/ Pending(c) /\ body[c].job = j /\ (Announced(c)' <=> Announced(c))
               \/ EventCount(j) = 0 /\ ~Announced(c)'
    <3>1. c # held[r]
      BY <2>6, <2>7
    <3>2. CASE queue[c] = "free"
      <4>1. queue'[c] \in {"ready", "delayed", "unacked"}
        BY <2>7 DEF Pending
      <4>2. ~Announces(r) /\ j = msg[r].job
        BY <1>6, <2>7, <3>2, <4>1
      <4>3. ~Announced(c)
        BY <1>2, <3>2, LifecycleAssumption DEF Announced
      <4> QED
        BY <2>2, <2>4, <3>1, <4>2, <4>3
    <3>3. CASE queue[c] # "free"
      BY <1>6, <2>1, <2>4, <2>7, <3>1, <3>3 DEF Pending
    <3> QED
      BY <3>2, <3>3
  <2>8. ASSUME NEW c \in Copies, NEW j \in Jobs, Pending(c), body[c].job = j
        PROVE  EventCount(j) = 1 \/ \E d \in Copies : Pending(d)' /\ body'[d].job = j
    <3>1. CASE c = held[r]
      BY <1>6, <2>2, <2>8, <3>1 DEF Pending
    <3>2. CASE c # held[r]
      BY <2>5, <2>8, <3>2
    <3> QED
      BY <3>1, <3>2
  <2> QED
    BY <1>6, <2>7, <2>8, QuietCounts
<1>7. CASE Settle(r) /\ outcome[r] = "ok"
  <2>1. pc[Process(r)] = "off" /\ Working(r)
    BY <1>7, Awaited DEF Settle, Working
  <2>2. Announces(r)
    BY <1>7 DEF Announces, Settle
  <2> QED
    BY <1>6, <1>7, <2>1, <2>2 DEF Settle
<1>8. ASSUME NEW c \in Copies, SendRetry(r, c) PROVE EventsAreCounted'
  <2>1. Working(r) /\ pc[Process(r)] = "off" /\ ~Announces(r)
    BY <1>1, <1>8 DEF SendRetry, Working, Announces
  <2>2. /\ queue[c] = "free" /\ queue'[c] = "delayed" /\ body'[c].job = msg[r].job
        /\ \A d \in Copies \ {c} : queue'[d] = queue[d] /\ body'[d] = body[d]
    BY <1>8, <2>1, WorkingHolds DEF SendRetry, Send, IInv, TypeOK, Message
  <2> QED
    BY <1>6, <1>8, <2>1, <2>2 DEF SendRetry
<1>9. ASSUME NEW c \in Copies, SendDeadLetter(r, c) PROVE EventsAreCounted'
  <2>1. Working(r) /\ pc[Process(r)] = "off" /\ Announces(r)
    BY <1>1, <1>9 DEF SendDeadLetter, Working, Announces
  <2>2. /\ queue[c] = "free" /\ queue'[c] = "dead"
        /\ \A d \in Copies \ {c} : queue'[d] = queue[d] /\ body'[d] = body[d]
    BY <1>9, <2>1, WorkingHolds DEF SendDeadLetter, Send, IInv, TypeOK
  <2> QED
    BY <1>6, <1>9, <2>1, <2>2 DEF SendDeadLetter
<1>10. CASE Ack(r)
  <2>1. /\ pc[Handler(r)] = "ack" /\ held[r] \in Copies
        /\ \A s \in Runs : held[s] = held[r] => s = r
    BY <1>10, ActiveRun DEF Ack, IInv, HandlersHoldCopies, TypeOK
  <2>2. /\ \A s \in Runs : pc'[Handler(s)] = IF s = r THEN "free" ELSE pc[Handler(s)]
        /\ \A s \in Runs : pc'[Process(s)] = pc[Process(s)]
    BY <1>0, <1>10 DEF Ack, Goto
  <2>3. /\ \A s \in Runs : held'[s] = IF s = r THEN NoCopy ELSE held[s]
        /\ queue'[held[r]] = "free"
        /\ \A d \in Copies \ {held[r]} : queue'[d] = queue[d] /\ body'[d] = body[d]
        /\ UNCHANGED <<submit, events, outcome>>
    BY <1>10, <2>1 DEF Ack, IInv, TypeOK
  <2>4. ~Pending(held[r])
    BY <1>2, <2>1 DEF Pending, IInv, HandlersHoldCopies
  <2>5. ASSUME NEW c \in Copies, c # held[r]
        PROVE  (Pending(c)' <=> Pending(c)) /\ (Announced(c)' <=> Announced(c))
    BY <2>2, <2>3, <2>5 DEF Pending, Announced
  <2>6. \A c \in Copies : Pending(c)' => c # held[r]
    BY <2>3 DEF Pending
  <2>7. \A c \in Copies : Pending(c) => c # held[r]
    BY <2>4
  <2> QED
    BY <2>3, <2>5, <2>6, <2>7, QuietCounts
<1>11. ~WatchdogFires(r)
  BY DEF WatchdogFires, Alone
<1> QED
  BY <1>3, <1>4, <1>5, <1>7, <1>8, <1>9, <1>10, <1>11 DEF HandlerNext, Settle

LEMMA OthersCount ==
  ASSUME IInv, CopiesArePublished, Orderly, OnlyScrapesFail, EventsAreCounted,
         \/ ApiNext
         \/ \E w \in Workers : Bootstrapped(w) \/ Crash(w) \/ \E c \in Copies : Ignore(w, c)
         \/ \E c \in Copies : RetryExpires(c)
         \/ UNCHANGED vars
  PROVE  EventsAreCounted'
<1> USE ThreadNames DEF apiVars, redisVars, brokerVars, runVars, workerVars
<1>1. \A s \in Runs : held[s] # NoCopy => held[s] \in Copies /\ queue[held[s]] = "unacked"
  BY DEF IInv, HandlersHoldCopies, TypeOK
<1>2. ASSUME NEW i \in Jobs, SaveRecord(i) PROVE EventsAreCounted'
  <2>1. /\ submit[i] = "new" /\ submit'[i] = "saved" /\ \A j \in Jobs \ {i} : submit'[j] = submit[j]
        /\ UNCHANGED <<queue, body, pc, held, outcome, events>>
    BY <1>2 DEF SaveRecord, IInv, TypeOK
  <2>2. \A c \in Copies : (Pending(c)' <=> Pending(c)) /\ (Announced(c)' <=> Announced(c))
    BY <2>1 DEF Pending, Announced
  <2> QED
    BY <2>1, <2>2, QuietCounts
<1>3. ASSUME NEW i \in Jobs, NEW c \in Copies, Publish(i, c) PROVE EventsAreCounted'
  <2>1. /\ queue[c] = "free" /\ queue'[c] = "ready" /\ body'[c].job = i /\ submit[i] = "saved"
        /\ \A d \in Copies \ {c} : queue'[d] = queue[d] /\ body'[d] = body[d]
        /\ \A j \in Jobs \ {i} : submit'[j] = submit[j]
        /\ submit'[i] = "published"
        /\ UNCHANGED <<pc, held, outcome, events>>
    BY <1>3 DEF Publish, Send, IInv, TypeOK
  <2>2. /\ \A d \in Copies : Announced(d)' <=> Announced(d)
        /\ \A d \in Copies \ {c} : Pending(d)' <=> Pending(d)
        /\ Pending(c)' /\ ~Pending(c) /\ ~Announced(c)
    BY <1>1, <2>1 DEF Pending, Announced
  <2>3. EventCount(i) = 0
    BY <2>1 DEF EventsAreCounted
  <2> QED
    BY <2>1, <2>2, <2>3, QuietCounts
<1>4. ASSUME NEW x \in CancelRequests
      PROVE  ~(CancelRead(x) \/ ThreadStep(Cancel(x), cancels[x]) \/ CancelFails(x))
  <2>1. "clientCancels" \notin enabled /\ pc[Cancel(x)] = "idle"
    BY DEF OnlyScrapesFail, Orderly, NothingElseHappens
  <2>2. "idle" \notin UpdateSteps \cup ResultSteps \cup EventSteps
    BY DEF UpdateSteps, StatusSteps, StageSteps, ResultSteps, EventSteps
  <2> QED
    BY <2>1, <2>2 DEF CancelRead, CancelFails, ThreadStep, RecordGet, RecordSet, SaveResult, EnqueueEvent
<1>5. ASSUME UNCHANGED <<submit, body, pc, held, outcome, events>>,
             \A d \in Copies :
                \/ queue'[d] = queue[d]
                \/ queue[d] \in {"ready", "delayed"} /\ queue'[d] \in {"ready", "unacked"}
      PROVE  EventsAreCounted'
  <2>1. \A c \in Copies : (Pending(c)' <=> Pending(c)) /\ (Announced(c)' <=> Announced(c))
    BY <1>1, <1>5 DEF Pending, Announced
  <2> QED
    BY <1>5, <2>1, QuietCounts
<1>6. CASE \E w \in Workers : Bootstrapped(w) \/ \E c \in Copies : Ignore(w, c)
  BY <1>5, <1>6 DEF Bootstrapped, Ignore, IInv, TypeOK
<1>7. CASE (\E c \in Copies : RetryExpires(c)) \/ UNCHANGED vars
  BY <1>5, <1>7 DEF RetryExpires, vars, IInv, TypeOK
<1>8. \A w \in Workers : ~Crash(w)
  BY DEF Crash, OnlyScrapesFail
<1> QED
  BY <1>2, <1>3, <1>4, <1>6, <1>7, <1>8 DEF ApiNext

LEMMA NextCounts ==
  ASSUME IInv, OneMessagePerJob, CopiesArePublished, Orderly, EventsAreCounted, [Next]_vars
  PROVE  EventsAreCounted'
<1>1. OnlyScrapesFail' <=> OnlyScrapesFail
  BY StepGoesOn DEF OnlyScrapesFail
<1>2. CASE ~OnlyScrapesFail
  BY <1>1, <1>2 DEF EventsAreCounted
<1>3. CASE OnlyScrapesFail
  BY <1>3, HandlerCounts, ProcessCounts, OthersCount DEF Next
<1> QED
  BY <1>2, <1>3

LEMMA InitCounts == Init => EventsAreCounted
BY DEF Init, EventsAreCounted, EventCount, Pending, Terminal

\* A job is announced exactly once, whatever number of attempts it took, when only
\* scrapes fail: by process() on success, by handleMessage when the attempts run out.
THEOREM AnnouncedOnce == Spec => []OneEventPerJob
<1>1. IInv /\ Background /\ EventsAreCounted /\ [Next]_vars => EventsAreCounted'
  BY NextCounts DEF Background
<1>2. EventsAreCounted => OneEventPerJob
  BY DEF EventsAreCounted, OneEventPerJob, Settled, Live, Pending
<1> QED
  BY <1>1, <1>2, InitCounts, AlwaysBackground, Inductive, PTL DEF Spec

-----------------------------------------------------------------------------
(* The status a client sees                                                *)

OnlyScrapesMiss == enabled \subseteq {"scrapeFails", "earlyDeliveries"}

LEMMA OnlyMissesIsAlone ==
  ASSUME IInv, Orderly, OnlyScrapesMiss
  PROVE  OneWriter /\ Alone /\ crashes = 0 /\ {"dependencyFails", "cacheHits"} \cap enabled = {}
BY DEF OnlyScrapesMiss, OneWriter, Orderly, NothingElseHappens, Alone

\* The conjunct of StatusIsKnown that is about one run.
RunKnown(r) == LET status == record[msg[r].job].status IN
  /\ pc[Process(r)] \in {"read", "begin"} => status = "queued"
  /\ pc[Process(r)] \in {"fetching", "lookup", "proxy", "scrape", "stage", "complete", "fail"}
       => status = "processing"
  /\ pc[Process(r)] \in {"failFinish", "failResult"} => status = "failed"
  /\ (\/ pc[Process(r)] = "raise"
      \/ pc[Handler(r)] = "await" /\ outcome[r] = "threw"
      \/ pc[Handler(r)] \in {"requeue", "giveUp"})
       => status \in {"processing", "failed"}
  /\ pc[Handler(r)] \in {"requeueStage", "retry"} => status = "queued"

Unheld(c) == \A r \in Runs : held[r] # c

LEMMA KnownByRun ==
  OnlyScrapesMiss =>
    (StatusIsKnown <=>
       /\ \A j \in Jobs : submit[j] = "saved" => record[j].status = "queued"
       /\ \A c \in Copies : Pending(c) /\ Unheld(c) => record[body[c].job].status = "queued"
       /\ \A r \in Runs : RunKnown(r))
BY DEF OnlyScrapesMiss, StatusIsKnown, RunKnown, Unheld

\* The same of the next state.
LEMMA KnownAfter ==
  ASSUME \A j \in Jobs : submit'[j] = "saved" => record'[j].status = "queued",
         \A c \in Copies : Pending(c)' /\ Unheld(c)' => record'[body'[c].job].status = "queued",
         \A r \in Runs : RunKnown(r)'
  PROVE  StatusIsKnown'
BY DEF StatusIsKnown, RunKnown, Unheld

LEMMA RestingKnown ==
  ASSUME NEW r \in Runs, pc'[Process(r)] = "off", pc'[Handler(r)] \in {"free", "ack"}
  PROVE  RunKnown(r)'
BY DEF RunKnown

LEMMA RunStepKnown ==
  ASSUME IInv, OneMessagePerJob, CopiesArePublished, Orderly, OnlyScrapesMiss, StatusIsKnown,
         NEW r \in Runs, RunStep(r), RunKnown(r)'
  PROVE  StatusIsKnown'
<1> USE OnlyMissesIsAlone, KnownByRun
<1>1. /\ msg[r].job \in Jobs /\ submit[msg[r].job] = "published"
      /\ held[r] \in Copies /\ Pending(held[r]) /\ body[held[r]] = msg[r]
  BY WorkingHolds DEF RunStep, CopiesArePublished, Pending
<1>2. \A j \in Jobs \ {msg[r].job} : record'[j] = record[j]
  BY DEF RunStep
<1>3. \A j \in Jobs : submit'[j] = "saved" => record'[j].status = "queued"
  BY <1>1, <1>2 DEF RunStep
<1>4. ASSUME NEW c \in Copies, Pending(c)', Unheld(c)'
      PROVE  record'[body'[c].job].status = "queued"
  <2>1. Pending(c) /\ Unheld(c) /\ body'[c] = body[c]
    BY <1>4, AfterRunStep DEF RunStep, Unheld
  <2>2. body[c].job # msg[r].job
    BY <1>1, <2>1 DEF OneMessagePerJob, Unheld
  <2>3. body[c].job \in Jobs
    BY <2>1 DEF Pending, IInv, CopiesCarryMessages, Message
  <2> QED
    BY <1>2, <2>1, <2>2, <2>3
<1>5. ASSUME NEW s \in Runs \ {r} PROVE RunKnown(s)'
  <2>1. CASE Working(s)
    <3>1. msg[s].job \in Jobs \ {msg[r].job}
      BY <2>1, AfterRunStep, WorkingHolds
    <3>2. /\ record'[msg[s].job] = record[msg[s].job] /\ msg'[s] = msg[s] /\ outcome'[s] = outcome[s]
      BY <1>2, <3>1 DEF RunStep
    <3> QED
      BY <3>2, AfterRunStep DEF RunKnown
  <2>2. CASE ~Working(s)
    BY <2>2, NotWorking, AfterRunStep, RestingKnown
  <2> QED
    BY <2>1, <2>2
<1> QED
  BY <1>3, <1>4, <1>5, KnownAfter

\* What an update does to the status.
LEMMA PatchedStatus ==
  ASSUME NEW existing \in RecordOrNull, existing # NoRecord, NEW step \in UpdateSteps
  PROVE  /\ step \in StatusSteps => Patched(existing, step).status = NewStatus(step)
         /\ step \notin StatusSteps => Patched(existing, step).status = existing.status
<1>1. existing \in Record
  BY DEF RecordOrNull
<1> QED
  BY <1>1 DEF Patched, updateStatus, updateProgress, Record, StatusSteps, StageSteps, NewStatus

\* A run that is about to write the status has not announced its job.
LEMMA UnannouncedIsUncounted ==
  ASSUME IInv, OneMessagePerJob, CopiesArePublished, Orderly, OnlyScrapesMiss, EventsAreCounted,
         NEW r \in Runs, Working(r),
         \/ /\ pc[Process(r)] \in {"begin", "complete", "fail"}
            /\ pc[Handler(r)] = "await" /\ outcome[r] = "none"
         \/ pc[Process(r)] = "off" /\ pc[Handler(r)] \in {"requeue", "giveUp"}
  PROVE  EventCount(msg[r].job) = 0
<1>1. /\ msg[r].job \in Jobs /\ held[r] \in Copies /\ Pending(held[r])
      /\ body[held[r]].job = msg[r].job
  BY OnlyMissesIsAlone, WorkingHolds
<1>2. ~Announced(held[r])
  BY <1>1 DEF Announced, IInv, HandlersHoldCopies
<1>3. OnlyScrapesFail
  BY DEF OnlyScrapesFail, OnlyScrapesMiss
<1> QED
  BY <1>1, <1>2, <1>3 DEF EventsAreCounted

LEMMA ThreadKnown ==
  ASSUME IInv, OneMessagePerJob, CopiesArePublished, Orderly, WritesAgree, OnlyScrapesMiss,
         StatusIsKnown, EventsAreCounted, NEW r \in Runs, NEW t \in {Handler(r), Process(r)},
         ThreadStep(t, msg[r].job)
  PROVE  StatusIsKnown' /\ StatusStep
<1> DEFINE j == msg[r].job
<1> USE OnlyMissesIsAlone, ThreadNames
<1>0. /\ seen = [u \in Threads |-> seen[u]] /\ record = [k \in Jobs |-> record[k]]
      /\ pc = [u \in Threads |-> pc[u]] /\ seen[t] \in RecordOrNull
  BY DEF IInv, TypeOK
<1>1. RunStep(r)
  BY IsRunStep DEF ProcessNext
<1>2. /\ Working(r) /\ j \in Jobs /\ msg' = msg /\ outcome' = outcome
      /\ \A u \in Threads \ {t} : pc'[u] = pc[u]
      /\ \A k \in Jobs \ {j} : record'[k] = record[k]
  BY <1>1, WorkingHolds, ThreadMoves DEF RunStep
<1>3. RunKnown(r) /\ (seen[t] # NoRecord => seen[t] = record[j])
  BY KnownByRun DEF WritesAgree, ReadsAreCurrent
<1>4. /\ pc[t] \in UpdateSteps \cup ResultSteps \cup EventSteps
      /\ t = Handler(r) => pc[t] \in {"requeue", "requeueStage", "giveUp", "giveUpStage",
                                      "giveUpResult", "giveUpEvent"}
      /\ t = Process(r) => pc[t] \in {"begin", "fetching", "proxy", "stage", "complete", "finish",
                                      "fail", "failFinish", "skipResult", "hitResult", "saveResult",
                                      "failResult", "skipEvent", "hitEvent", "notify"}
  BY ThreadMoves, WhoseStep DEF IInv, TypeOK
<1>5. /\ t = Handler(r) => pc[Process(r)] = "off"
      /\ t = Process(r) => pc[Handler(r)] = "await" /\ outcome[r] = "none"
  <2>1. pc[t] \notin {"await", "off"}
    BY <1>4
  <2> QED
    BY <2>1, Awaited
<1>6. ASSUME record' = record, pc'[t] = pc[t] \/ (pc'[t] = After[pc[t]] /\ pc[t] \notin UpdateSteps)
      PROVE  StatusIsKnown' /\ StatusStep
  <2>1. RunKnown(r)'
    BY <1>2, <1>3, <1>4, <1>5, <1>6, AfterEach
    DEF RunKnown, ResultSteps, EventSteps
  <2>2. StatusStep
    BY <1>6 DEF StatusStep
  <2> QED
    BY <1>1, <2>1, <2>2, RunStepKnown
<1>7. CASE RecordGet(t, j) \/ SaveResult(t, j) \/ EnqueueEvent(t, j)
  <2>1. record' = record
    BY <1>7 DEF RecordGet, SaveResult, EnqueueEvent, redisVars
  <2>2. pc'[t] = pc[t] \/ (pc'[t] = After[pc[t]] /\ pc[t] \notin UpdateSteps)
    BY <1>0, <1>7 DEF RecordGet, SaveResult, EnqueueEvent, Goto, UpdateSteps, StatusSteps, StageSteps,
       ResultSteps, EventSteps
  <2> QED
    BY <1>6, <2>1, <2>2
<1>8. CASE RecordSet(t, j)
  <2>1. /\ pc'[t] = After[pc[t]] /\ pc[t] \in UpdateSteps
        /\ record'[j] = Patched(record[j], pc[t])
        /\ record[j] \in RecordOrNull /\ record[j] # NoRecord
    BY <1>0, <1>2, <1>3, <1>8 DEF RecordSet, Goto
  <2>2. /\ t = Handler(r) => pc[t] \in {"requeue", "requeueStage", "giveUp", "giveUpStage"}
        /\ t = Process(r) => pc[t] \in {"begin", "fetching", "proxy", "stage", "complete", "finish",
                                        "fail", "failFinish"}
    BY <1>4, <2>1 DEF UpdateSteps, StatusSteps, StageSteps
  <2>3. /\ pc[t] = "begin" => record'[j].status = "processing"
        /\ pc[t] = "complete" => record'[j].status = "completed"
        /\ pc[t] \in {"fail", "giveUp"} => record'[j].status = "failed"
        /\ pc[t] = "requeue" => record'[j].status = "queued"
        /\ pc[t] \in {"fetching", "proxy", "stage", "finish", "failFinish", "requeueStage", "giveUpStage"}
             => record'[j].status = record[j].status
    BY <2>1, PatchedStatus DEF StatusSteps, NewStatus
  <2>4. RunKnown(r)'
    <3>1. CASE t = Handler(r)
      BY <1>2, <1>3, <1>5, <2>1, <2>2, <2>3, <3>1, AfterEach DEF RunKnown
    <3>2. CASE t = Process(r)
      BY <1>2, <1>3, <1>5, <2>1, <2>2, <2>3, <3>2, AfterEach DEF RunKnown
    <3> QED
      BY <3>1, <3>2
  <2>5. StatusStep
    <3> SUFFICES ASSUME NEW k \in Jobs, record'[k].status # record[k].status
                 PROVE  /\ record'[k].status \in Follows[record[k].status]
                        /\ EventCount(k) = 0
                        /\ record[k].status = "failed" => TriedAgain(k)
      BY DEF StatusStep
    <3>1. k = j
      BY <1>2
    <3>2. \/ record[j].status = "queued" /\ record'[j].status = "processing"
          \/ record[j].status = "processing" /\ record'[j].status \in {"completed", "failed", "queued"}
          \/ record[j].status = "failed" /\ record'[j].status = "queued" /\ pc[t] = "requeue"
      BY <1>3, <1>4, <2>2, <2>3, <3>1 DEF RunKnown
    <3>3. pc[t] \in {"begin", "complete", "fail", "requeue", "giveUp"}
      BY <2>2, <2>3, <3>1
    <3>4. EventCount(j) = 0
      <4>1. CASE t = Handler(r)
        BY <1>2, <1>4, <1>5, <3>3, <4>1, UnannouncedIsUncounted
      <4>2. CASE t = Process(r)
        BY <1>2, <1>4, <1>5, <3>3, <4>2, UnannouncedIsUncounted
      <4> QED
        BY <4>1, <4>2
    <3>5. pc[t] = "requeue" => TriedAgain(j)
      BY <2>2 DEF TriedAgain, IInv, HandlerReports
    <3> QED
      BY <3>1, <3>2, <3>4, <3>5 DEF Follows
  <2> QED
    BY <1>1, <2>4, <2>5, RunStepKnown
<1> QED
  BY <1>7, <1>8 DEF ThreadStep

LEMMA ProcessKnown ==
  ASSUME IInv, OneMessagePerJob, CopiesArePublished, Orderly, WritesAgree, OnlyScrapesMiss,
         StatusIsKnown, EventsAreCounted, NEW r \in Runs, ProcessNext(r)
  PROVE  StatusIsKnown' /\ StatusStep
<1> USE OnlyMissesIsAlone, ThreadNames DEF apiVars, redisVars, brokerVars, runVars, workerVars
<1>0. pc = [u \in Threads |-> pc[u]] /\ outcome = [s \in Runs |-> outcome[s]]
  BY DEF IInv, TypeOK
<1>1. RunStep(r)
  BY IsRunStep
<1>2. RunKnown(r)
  BY KnownByRun
<1>3. CASE ThreadStep(Process(r), msg[r].job)
  BY <1>3, ThreadKnown
<1>4. ASSUME UNCHANGED <<record, msg>>, pc[Process(r)] # "off", NEW step, Goto(Process(r), step),
             RunKnown(r) /\ pc[Handler(r)] = "await" /\ outcome[r] = "none" =>
               /\ step = "begin" => pc[Process(r)] = "read"
               /\ step \in {"proxy", "scrape", "stage", "complete", "fail"} =>
                    record[msg[r].job].status = "processing"
               /\ step = "raise" \/ outcome'[r] = "threw" =>
                    record[msg[r].job].status \in {"processing", "failed"}
               /\ step \notin {"read", "fetching", "lookup", "failFinish", "failResult"}
      PROVE  StatusIsKnown' /\ StatusStep
  <2>1. pc[Handler(r)] = "await" /\ outcome[r] = "none"
    BY <1>4, Awaited
  <2>2. /\ pc'[Process(r)] = step /\ pc'[Handler(r)] = "await" /\ msg' = msg /\ record' = record
        /\ step = "begin" => pc[Process(r)] = "read"
        /\ step \in {"proxy", "scrape", "stage", "complete", "fail"} =>
             record[msg[r].job].status = "processing"
        /\ step = "raise" \/ outcome'[r] = "threw" =>
             record[msg[r].job].status \in {"processing", "failed"}
        /\ step \notin {"read", "fetching", "lookup", "failFinish", "failResult"}
    BY <1>0, <1>2, <1>4, <2>1 DEF Goto
  <2>3. RunKnown(r)'
    BY <1>2, <2>2 DEF RunKnown
  <2>4. StatusStep
    BY <1>4 DEF StatusStep
  <2> QED
    BY <1>1, <2>3, <2>4, RunStepKnown
<1>5. CASE Read(r)
  <2> PICK step \in {"skipResult", "begin"} : Goto(Process(r), step)
    BY <1>5 DEF Read
  <2> QED
    BY <1>4, <1>5 DEF Read
<1>6. CASE Lookup(r) \/ Scrape(r)
  <2> PICK step \in {"proxy", "hit", "raise", "stage", "complete", "fail"} : Goto(Process(r), step)
    BY <1>6 DEF Lookup, Scrape
  <2>1. record[msg[r].job].status = "processing" /\ UNCHANGED <<record, msg, outcome>>
    BY <1>2, <1>6 DEF Lookup, Scrape, RunKnown
  <2> QED
    BY <1>4, <1>6, <2>1 DEF Lookup, Scrape
<1>7. CASE Return(r)
  BY <1>0, <1>4, <1>7 DEF Return
<1>8. CASE Throw(r)
  <2>1. pc[Process(r)] = "raise"
    BY <1>8 DEF Throw
  <2>2. record[msg[r].job].status \in {"processing", "failed"}
    BY <1>2, <2>1 DEF RunKnown
  <2> QED
    BY <1>4, <1>8, <2>1, <2>2 DEF Throw
<1>9. ~(HitGetStatus(r) \/ HitGetProgress(r) \/ HitSetStatus(r) \/ HitSetProgress(r) \/ HitFails(r))
  BY DEF HitGetStatus, HitGetProgress, HitSetStatus, HitSetProgress, HitFails, HitBranches, Orderly,
     NothingElseHappens
<1> QED
  BY <1>3, <1>5, <1>6, <1>7, <1>8, <1>9 DEF ProcessNext

LEMMA HandlerKnown ==
  ASSUME IInv, OneMessagePerJob, CopiesArePublished, Orderly, WritesAgree, OnlyScrapesMiss,
         StatusIsKnown, EventsAreCounted, NEW r \in Runs, HandlerNext(r)
  PROVE  StatusIsKnown' /\ StatusStep
<1> USE OnlyMissesIsAlone, ThreadNames DEF apiVars, redisVars, brokerVars, runVars, workerVars
<1>0. pc = [u \in Threads |-> pc[u]] /\ outcome = [s \in Runs |-> outcome[s]]
  BY DEF IInv, TypeOK
<1>1. /\ \A j \in Jobs : submit[j] = "saved" => record[j].status = "queued"
      /\ \A c \in Copies : Pending(c) /\ Unheld(c) => record[body[c].job].status = "queued"
      /\ \A s \in Runs : RunKnown(s)
  BY KnownByRun
<1>2. pc[Handler(r)] # "await" => pc[Process(r)] = "off"
  BY Awaited
<1>3. CASE ThreadStep(Handler(r), msg[r].job)
  BY <1>3, ThreadKnown
<1>4. ASSUME NEW c \in Copies, Deliver(r, c) PROVE StatusIsKnown' /\ StatusStep
  <2>1. /\ pc[Handler(r)] = "free" /\ pc[Process(r)] = "off" /\ queue[c] = "ready"
        /\ \A s \in Runs : pc'[Handler(s)] = IF s = r THEN "await" ELSE pc[Handler(s)]
        /\ \A s \in Runs : pc'[Process(s)] = IF s = r THEN "read" ELSE pc[Process(s)]
        /\ \A s \in Runs : msg'[s] = IF s = r THEN body[c] ELSE msg[s]
        /\ \A s \in Runs : held'[s] = IF s = r THEN c ELSE held[s]
        /\ \A s \in Runs : outcome'[s] = IF s = r THEN "none" ELSE outcome[s]
        /\ \A d \in Copies : queue'[d] = IF d = c THEN "unacked" ELSE queue[d]
        /\ UNCHANGED <<submit, record, body>>
    BY <1>0, <1>4 DEF Deliver, IInv, TypeOK
  <2>2. held[r] = NoCopy /\ Unheld(c) /\ Pending(c)
    BY <2>1 DEF IInv, HandlersHoldCopies, Unheld, Pending
  <2>3. RunKnown(r)'
    BY <1>1, <2>1, <2>2 DEF RunKnown
  <2>4. ASSUME NEW s \in Runs \ {r} PROVE RunKnown(s)'
    BY <1>1, <2>1 DEF RunKnown
  <2>5. ASSUME NEW d \in Copies, Pending(d)', Unheld(d)' PROVE record'[body'[d].job].status = "queued"
    <3>1. d # c
      BY <2>1, <2>5 DEF Unheld
    <3>2. Unheld(d) /\ Pending(d)
      BY <2>1, <2>2, <2>5, <3>1 DEF Unheld, Pending
    <3> QED
      BY <1>1, <2>1, <3>2
  <2>6. StatusStep
    BY <2>1 DEF StatusStep
  <2> QED
    BY <1>1, <2>1, <2>3, <2>4, <2>5, <2>6, KnownAfter
<1>5. CASE Settle(r) /\ outcome[r] = "threw"
  <2>1. RunStep(r)
    BY <1>5, IsRunStep
  <2> PICK step \in {"requeue", "giveUp"} : Goto(Handler(r), step)
    BY <1>5 DEF Settle, OnFailure
  <2>2. pc[Process(r)] = "off" /\ RunKnown(r)
    BY <1>1, <1>5, Awaited
  <2>3. RunKnown(r)'
    BY <1>0, <1>5, <2>2 DEF RunKnown, Settle, Goto
  <2>4. StatusStep
    BY <1>5 DEF StatusStep, Settle
  <2> QED
    BY <2>1, <2>3, <2>4, RunStepKnown
\* The handler is about to acknowledge; a message it sent is of a job that is queued.
<1>6. ASSUME Working(r), pc[Process(r)] = "off", Goto(Handler(r), "ack"),
             UNCHANGED <<submit, record, msg, held, outcome>>,
             \A d \in Copies : queue[d] # "free" => queue'[d] = queue[d] /\ body'[d] = body[d],
             \A d \in Copies : queue[d] = "free" /\ queue'[d] \in {"ready", "delayed", "unacked"}
                => body'[d].job = msg[r].job /\ pc[Handler(r)] = "retry"
      PROVE  StatusIsKnown' /\ StatusStep
  <2>1. \A s \in Runs : /\ pc'[Handler(s)] = IF s = r THEN "ack" ELSE pc[Handler(s)]
                        /\ pc'[Process(s)] = pc[Process(s)]
    BY <1>0, <1>6 DEF Goto
  <2>2. RunKnown(r)'
    BY <1>6, <2>1, RestingKnown
  <2>3. ASSUME NEW s \in Runs \ {r} PROVE RunKnown(s)'
    BY <1>1, <1>6, <2>1 DEF RunKnown
  <2>4. ASSUME NEW c \in Copies, Pending(c)', Unheld(c)' PROVE record'[body'[c].job].status = "queued"
    <3>1. CASE queue[c] = "free"
      <4>1. body'[c].job = msg[r].job /\ pc[Handler(r)] = "retry"
        BY <1>6, <2>4, <3>1 DEF Pending
      <4>2. RunKnown(r)
        BY <1>1
      <4> QED
        BY <1>6, <4>1, <4>2 DEF RunKnown
    <3>2. CASE queue[c] # "free"
      <4>1. Unheld(c) /\ Pending(c) /\ body'[c] = body[c]
        BY <1>6, <2>4, <3>2 DEF Unheld, Pending
      <4> QED
        BY <1>1, <1>6, <4>1
    <3> QED
      BY <3>1, <3>2
  <2>5. StatusStep
    BY <1>6 DEF StatusStep
  <2> QED
    BY <1>1, <1>6, <2>2, <2>3, <2>4, <2>5, KnownAfter
<1>7. CASE Settle(r) /\ outcome[r] = "ok"
  <2>1. pc[Process(r)] = "off" /\ Working(r)
    BY <1>7, Awaited DEF Settle, Working
  <2> QED
    BY <1>6, <1>7, <2>1 DEF Settle
<1>8. ASSUME NEW c \in Copies, SendRetry(r, c) PROVE StatusIsKnown' /\ StatusStep
  <2>1. Working(r) /\ pc[Process(r)] = "off"
    BY <1>2, <1>8 DEF SendRetry, Working
  <2>2. /\ queue[c] = "free" /\ body'[c].job = msg[r].job
        /\ \A d \in Copies \ {c} : queue'[d] = queue[d] /\ body'[d] = body[d]
    BY <1>8, <2>1, WorkingHolds DEF SendRetry, Send, IInv, TypeOK, Message
  <2> QED
    BY <1>6, <1>8, <2>1, <2>2 DEF SendRetry
<1>9. ASSUME NEW c \in Copies, SendDeadLetter(r, c) PROVE StatusIsKnown' /\ StatusStep
  <2>1. Working(r) /\ pc[Process(r)] = "off"
    BY <1>2, <1>9 DEF SendDeadLetter, Working
  <2>2. /\ queue[c] = "free" /\ queue'[c] = "dead"
        /\ \A d \in Copies \ {c} : queue'[d] = queue[d] /\ body'[d] = body[d]
    BY <1>9 DEF SendDeadLetter, Send, IInv, TypeOK
  <2> QED
    BY <1>6, <1>9, <2>1, <2>2 DEF SendDeadLetter
<1>10. CASE Ack(r)
  <2>1. pc[Handler(r)] = "ack" /\ held[r] \in Copies
    BY <1>10, ActiveRun DEF Ack
  <2>2. /\ \A s \in Runs : pc'[Handler(s)] = IF s = r THEN "free" ELSE pc[Handler(s)]
        /\ \A s \in Runs : pc'[Process(s)] = pc[Process(s)]
    BY <1>0, <1>10 DEF Ack, Goto
  <2>3. /\ \A s \in Runs : held'[s] = IF s = r THEN NoCopy ELSE held[s]
        /\ queue'[held[r]] = "free"
        /\ \A d \in Copies \ {held[r]} : queue'[d] = queue[d] /\ body'[d] = body[d]
        /\ UNCHANGED <<submit, record, msg, outcome>>
    BY <1>10, <2>1 DEF Ack, IInv, TypeOK
  <2>4. RunKnown(r)'
    BY <1>2, <2>1, <2>2, RestingKnown
  <2>5. ASSUME NEW s \in Runs \ {r} PROVE RunKnown(s)'
    BY <1>1, <2>2, <2>3 DEF RunKnown
  <2>6. ASSUME NEW c \in Copies, Pending(c)', Unheld(c)' PROVE record'[body'[c].job].status = "queued"
    <3>1. c # held[r]
      BY <2>3, <2>6 DEF Pending
    <3>2. Unheld(c) /\ Pending(c) /\ body'[c] = body[c]
      BY <2>3, <2>6, <3>1 DEF Unheld, Pending
    <3> QED
      BY <1>1, <2>3, <3>2
  <2>7. StatusStep
    BY <2>3 DEF StatusStep
  <2> QED
    BY <1>1, <2>3, <2>4, <2>5, <2>6, <2>7, KnownAfter
<1>11. ~WatchdogFires(r)
  BY DEF WatchdogFires, Alone
<1> QED
  BY <1>3, <1>4, <1>5, <1>7, <1>8, <1>9, <1>10, <1>11 DEF HandlerNext, Settle

LEMMA OthersKnown ==
  ASSUME IInv, CopiesArePublished, SavedFirst, Orderly, OnlyScrapesMiss, StatusIsKnown,
         \/ ApiNext
         \/ \E w \in Workers : Bootstrapped(w) \/ Crash(w) \/ \E c \in Copies : Ignore(w, c)
         \/ \E c \in Copies : RetryExpires(c)
         \/ UNCHANGED vars
  PROVE  StatusIsKnown' /\ StatusStep
<1> USE OnlyMissesIsAlone, ThreadNames DEF apiVars, redisVars, brokerVars, runVars, workerVars
<1>1. /\ \A j \in Jobs : submit[j] = "saved" => record[j].status = "queued"
      /\ \A c \in Copies : Pending(c) /\ Unheld(c) => record[body[c].job].status = "queued"
      /\ \A s \in Runs : RunKnown(s)
  BY KnownByRun
<1>2. ASSUME NEW i \in Jobs, SaveRecord(i) PROVE StatusIsKnown' /\ StatusStep
  <2>1. /\ submit[i] = "new" /\ record[i] = NoRecord /\ record'[i].status = "queued"
        /\ \A j \in Jobs \ {i} : submit'[j] = submit[j] /\ record'[j] = record[j]
        /\ UNCHANGED <<queue, body, pc, msg, held, outcome>>
    BY <1>2 DEF SaveRecord, IInv, TypeOK, NewRecord, SavedFirst
  <2>2. ASSUME NEW s \in Runs PROVE RunKnown(s)'
    <3>1. CASE Working(s)
      <4>1. msg[s].job \in Jobs \ {i}
        BY <2>1, <3>1, WorkingHolds, NoMessageAssumption DEF SavedFirst
      <4> QED
        BY <1>1, <2>1, <4>1 DEF RunKnown
    <3>2. CASE ~Working(s)
      BY <2>1, <3>2, NotWorking, RestingKnown
    <3> QED
      BY <3>1, <3>2
  <2>3. ASSUME NEW c \in Copies, Pending(c)', Unheld(c)' PROVE record'[body'[c].job].status = "queued"
    <3>1. Pending(c) /\ Unheld(c) /\ body' = body
      BY <2>1, <2>3 DEF Pending, Unheld
    <3>2. body[c].job \in Jobs
      BY <3>1 DEF Pending, IInv, CopiesCarryMessages, Message
    <3> QED
      BY <1>1, <2>1, <3>1, <3>2
  <2>4. StatusStep
    BY <2>1 DEF StatusStep
  <2>5. \A j \in Jobs : submit'[j] = "saved" => record'[j].status = "queued"
    BY <1>1, <2>1
  <2> QED
    BY <2>2, <2>3, <2>4, <2>5, KnownAfter
<1>3. ASSUME NEW i \in Jobs, NEW c \in Copies, Publish(i, c) PROVE StatusIsKnown' /\ StatusStep
  <2>1. /\ queue[c] = "free" /\ body'[c].job = i /\ submit[i] = "saved"
        /\ \A d \in Copies \ {c} : queue'[d] = queue[d] /\ body'[d] = body[d]
        /\ \A j \in Jobs \ {i} : submit'[j] = submit[j]
        /\ submit'[i] = "published"
        /\ UNCHANGED <<record, pc, msg, held, outcome>>
    BY <1>3 DEF Publish, Send, IInv, TypeOK
  <2>2. \A s \in Runs : RunKnown(s)'
    BY <1>1, <2>1 DEF RunKnown
  <2>3. ASSUME NEW d \in Copies, Pending(d)', Unheld(d)' PROVE record'[body'[d].job].status = "queued"
    <3>1. CASE d = c
      BY <1>1, <2>1, <3>1
    <3>2. CASE d # c
      <4>1. Pending(d) /\ Unheld(d) /\ body'[d] = body[d]
        BY <2>1, <2>3, <3>2 DEF Pending, Unheld
      <4> QED
        BY <1>1, <2>1, <4>1
    <3> QED
      BY <3>1, <3>2
  <2>4. StatusStep
    BY <2>1 DEF StatusStep
  <2>5. \A j \in Jobs : submit'[j] = "saved" => record'[j].status = "queued"
    BY <1>1, <2>1
  <2> QED
    BY <2>2, <2>3, <2>4, <2>5, KnownAfter
<1>4. ASSUME NEW x \in CancelRequests
      PROVE  ~(CancelRead(x) \/ ThreadStep(Cancel(x), cancels[x]) \/ CancelFails(x))
  <2>1. "clientCancels" \notin enabled /\ pc[Cancel(x)] = "idle"
    BY DEF Alone, Orderly, NothingElseHappens
  <2>2. "idle" \notin UpdateSteps \cup ResultSteps \cup EventSteps
    BY DEF UpdateSteps, StatusSteps, StageSteps, ResultSteps, EventSteps
  <2> QED
    BY <2>1, <2>2 DEF CancelRead, CancelFails, ThreadStep, RecordGet, RecordSet, SaveResult, EnqueueEvent
<1>5. ASSUME UNCHANGED <<submit, record, body, pc, msg, held, outcome>>,
             \A d \in Copies :
                \/ queue'[d] = queue[d]
                \/ queue[d] \in {"ready", "delayed"} /\ queue'[d] \in {"ready", "unacked"}
      PROVE  StatusIsKnown' /\ StatusStep
  <2>1. \A s \in Runs : RunKnown(s)'
    BY <1>1, <1>5 DEF RunKnown
  <2>2. \A c \in Copies : Pending(c)' /\ Unheld(c)' => Pending(c) /\ Unheld(c)
    BY <1>5 DEF Pending, Unheld
  <2>3. StatusStep
    BY <1>5 DEF StatusStep
  <2> QED
    BY <1>1, <1>5, <2>1, <2>2, <2>3, KnownAfter
<1>6. CASE \E w \in Workers : Bootstrapped(w) \/ \E c \in Copies : Ignore(w, c)
  BY <1>5, <1>6 DEF Bootstrapped, Ignore, IInv, TypeOK
<1>7. CASE (\E c \in Copies : RetryExpires(c)) \/ UNCHANGED vars
  BY <1>5, <1>7 DEF RetryExpires, vars, IInv, TypeOK
<1>8. \A w \in Workers : ~Crash(w)
  BY DEF Crash, OnlyScrapesMiss
<1> QED
  BY <1>2, <1>3, <1>4, <1>6, <1>7, <1>8 DEF ApiNext

LEMMA NextKnown ==
  ASSUME IInv, OneMessagePerJob, CopiesArePublished, SavedFirst, Orderly, WritesAgree,
         StatusIsKnown, EventsAreCounted, [Next]_vars
  PROVE  StatusIsKnown' /\ StatusStep
<1>1. OnlyScrapesMiss' <=> OnlyScrapesMiss
  BY StepGoesOn DEF OnlyScrapesMiss
<1>2. CASE ~OnlyScrapesMiss
  BY <1>1, <1>2 DEF StatusIsKnown, StatusStep, OnlyScrapesMiss
<1>3. CASE OnlyScrapesMiss
  BY <1>3, HandlerKnown, ProcessKnown, OthersKnown DEF Next
<1> QED
  BY <1>2, <1>3

LEMMA InitKnown == Init => StatusIsKnown
BY ThreadNames DEF Init, StatusIsKnown, Pending

\* When only scrapes fail, whoever polls a job sees it go from queued to processing and
\* on, back to queued for the next attempt, even after failed, and sees nothing change
\* once its webhook event was enqueued (process and handleMessage write the record in turn).
THEOREM StatusIsFollowed == Spec => StatusFollows
<1>1. IInv /\ Background /\ WritesAgree /\ StatusIsKnown /\ EventsAreCounted /\ [Next]_vars
        => StatusIsKnown' /\ EventsAreCounted' /\ StatusStep
  BY NextKnown, NextCounts DEF Background
<1> QED
  BY <1>1, InitKnown, InitCounts, AlwaysBackground, AlwaysAgrees, Inductive, PTL DEF Spec, StatusFollows
=============================================================================
