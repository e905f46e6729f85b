------------------------- MODULE ServicesJobs_proofs -------------------------
(***************************************************************************)
(* What the components of Services that a job passes on its way keep: the  *)
(* queues of workers and the proxies.  Services_proofs puts them together  *)
(* with the others.                                                        *)
(***************************************************************************)
EXTENDS Services, FiniteSetTheorems, SequenceTheorems, TLAPS

-----------------------------------------------------------------------------
(* Routing: the queues of workers that may be restarted                    *)

\* A worker is subscribed to all queues of its strategies, which exist, or to none.
SubscribedToAll ==
  \A w \in Workers :
    /\ allowed[w] = {} => consumed[w] = {}
    /\ consumed[w] # {} =>
         consumed[w] = {Route!Queue("work", s, t) : s \in allowed[w], t \in {w, NoWorker}}

\* A heartbeat says what its start of the worker allows.
BeatsAreTrue ==
  \A w \in Workers :
    /\ heartbeat[w].start <= starts[w]
    /\ allowed[w] # {} /\ heartbeat[w].start = starts[w] => heartbeat[w].allowed = allowed[w]
    /\ allowed[w] # {} => starts[w] # 0

Accepted(j) == routeStep[j] \in {"checked", "queued", "held", "done"}

\* The target of an accepted job allowed its strategy, and does until it is restarted.
TargetsWereAsked ==
  \A j \in RoutedJobs : \A w \in Workers :
    Accepted(j) /\ routedJob[j].target = w =>
      /\ routedJob[j].start # 0 /\ routedJob[j].start <= starts[w]
      /\ allowed[w] # {} /\ routedJob[j].start = starts[w] => Route!Allows(allowed[w], routedJob[j].strategy)

\* A message is in a queue of its job's strategy and target, and the queues it may be sent
\* to exist.
QueuesExist ==
  \A j \in RoutedJobs :
    /\ routeStep[j] # "dropped"
    /\ routeStep[j] \in {"queued", "held"} =>
         /\ queue[j] = Route!QueueFor(queue[j].kind, j)
         /\ Route!QueuesOf(Route!Strategy(j), routedJob[j].target) \subseteq declared

\* A worker has a message in hand that it is subscribed to.
HeldIsConsumed ==
  \A j \in RoutedJobs :
    /\ routeStep[j] = "held" <=> holder[j] # NoWorker
    /\ holder[j] # NoWorker => queue[j] \in consumed[holder[j]]

RouteInv == Route!TypeOK /\ SubscribedToAll /\ BeatsAreTrue /\ TargetsWereAsked /\ QueuesExist /\ HeldIsConsumed

LEMMA StrategiesRoute ==
  ASSUME NEW s \in Route!Strategies
  PROVE  Route!resolveRoutingStrategy(s) \in Route!RoutingStrategies
BY DEF Route!resolveRoutingStrategy, Route!RoutingStrategies

LEMMA QueuesAreQueues ==
  ASSUME NEW k \in {"work", "retry", "dead"}, NEW s \in Route!RoutingStrategies, NEW t \in
         Workers \cup {NoWorker}
  PROVE  /\ Route!Queue(k, s, t) \in Route!Queues
         /\ Route!QueuesOf(s, t) \subseteq Route!Queues
         /\ Route!Queue(k, s, t) \in Route!QueuesOf(s, t)
         /\ Route!Queue(k, s, t).kind = k
         /\ Route!Queue(k, s, t).strategy = s
         /\ Route!Queue(k, s, t).target = t
BY DEF Route!Queue, Route!Queues, Route!QueuesOf

LEMMA RouteInit == Route!Init => RouteInv
<1> SUFFICES ASSUME Route!Init PROVE RouteInv
  OBVIOUS
<1>1. NoWorker \notin Workers /\ MaxAttempts \in Nat \ {0} /\ MaxStarts \in [Workers -> Nat]
  BY ServiceAssumption DEF ServiceAssumption, Route!RoutingAssumption
<1>2. Route!TypeOK
  <2>1. "http" \in Route!RoutingStrategies
    BY DEF Route!RoutingStrategies
  <2> QED
    BY <1>1, <2>1 DEF Route!Init, Route!TypeOK, Route!Gone, Route!Queue, Route!Queues
<1>3. SubscribedToAll /\ BeatsAreTrue
  BY DEF Route!Init, SubscribedToAll, BeatsAreTrue, Route!Gone
<1>4. TargetsWereAsked /\ QueuesExist /\ HeldIsConsumed
  BY DEF Route!Init, TargetsWereAsked, QueuesExist, HeldIsConsumed, Accepted
<1> QED
  BY <1>2, <1>3, <1>4 DEF RouteInv

\* A message goes to another queue of its job.
LEMMA SendKeeps ==
  ASSUME RouteInv, NEW j \in RoutedJobs, NEW k \in {"work", "retry", "dead"}, Route!Send(j,
         Route!QueueFor(k, j)),
         Accepted(j), UNCHANGED <<Route!workerVars, routedJob>>,
         attempt' \in [RoutedJobs -> 1..MaxAttempts],
         declared \subseteq declared', declared' \subseteq Route!Queues,
         Route!QueuesOf(Route!Strategy(j), routedJob[j].target) \subseteq declared'
  PROVE  RouteInv'
<1> USE DEF RouteInv
<1>1. /\ Route!Strategy(j) \in Route!RoutingStrategies
      /\ routedJob[j].target \in Workers \cup {NoWorker}
      /\ Route!QueueFor(k, j) \in Route!Queues
      /\ Route!QueueFor(k, j) \in declared'
      /\ Route!QueueFor(k, j).kind = k
  <2>1. /\ Route!Strategy(j) \in Route!RoutingStrategies
        /\ routedJob[j].target \in Workers \cup {NoWorker}
    BY StrategiesRoute DEF Route!TypeOK, Route!Strategy
  <2> QED
    BY <2>1, QueuesAreQueues DEF Route!QueueFor
<1>2. /\ routeStep' = [routeStep EXCEPT ![j] = "queued"]
      /\ queue' = [queue EXCEPT ![j] = Route!QueueFor(k, j)]
      /\ holder' = [holder EXCEPT ![j] = NoWorker]
  BY <1>1 DEF Route!Send, Route!Goto
<1>3. /\ routeStep'[j] = "queued" /\ queue'[j] = Route!QueueFor(k, j) /\ holder'[j] = NoWorker
      /\ \A i \in RoutedJobs \ {j} :
           routeStep'[i] = routeStep[i] /\ queue'[i] = queue[i] /\ holder'[i] = holder[i]
  BY <1>2 DEF Route!TypeOK
<1>4. Route!TypeOK'
  BY <1>1, <1>2 DEF Route!TypeOK, Route!workerVars
<1>5. SubscribedToAll' /\ BeatsAreTrue'
  BY DEF SubscribedToAll, BeatsAreTrue, Route!workerVars
<1>6. TargetsWereAsked'
  BY <1>3 DEF TargetsWereAsked, Accepted, Route!workerVars
<1>7. QueuesExist'
  <2>1. \A i \in RoutedJobs :
          Route!Strategy(i)' = Route!Strategy(i) /\ routedJob'[i] = routedJob[i]
    BY DEF Route!Strategy
  <2> QED
    BY <1>1, <1>3, <2>1 DEF QueuesExist, Route!QueueFor
<1>8. HeldIsConsumed'
  BY <1>3 DEF HeldIsConsumed, Route!workerVars
<1> QED
  BY <1>4, <1>5, <1>6, <1>7, <1>8

\* A job takes a step that no worker notices, or one in the hand of its worker.
LEMMA JobMoves ==
  ASSUME RouteInv, NEW j \in RoutedJobs, UNCHANGED <<Route!workerVars, declared, queue,
         attempt>>,
         Route!TypeOK', \A i \in RoutedJobs \ {j} : /\ routedJob'[i] = routedJob[i] /\ routeStep'[i] = routeStep[i]
                                                    /\ holder'[i] = holder[i],
         routedJob'[j].strategy = routedJob[j].strategy, routedJob'[j].target = routedJob[j].target,
         \/ routeStep[j] = "new" /\ routeStep'[j] \in {"checked", "rejected"} /\ holder' = holder
         \/ routedJob'[j].start = routedJob[j].start /\ Accepted(j) /\ routeStep'[j] = "done" /\ holder'[j] = NoWorker
         \/ routedJob'[j].start = routedJob[j].start /\ routeStep[j] = "queued" /\ routeStep'[j] = "held"
            /\ holder'[j] # NoWorker /\ queue[j] \in consumed[holder'[j]],
         routeStep[j] = "new" /\ routeStep'[j] = "checked" =>
           \A w \in Workers : routedJob[j].target = w =>
             /\ routedJob'[j].start # 0 /\ routedJob'[j].start <= starts[w]
             /\ allowed[w] # {} /\ routedJob'[j].start = starts[w] => Route!Allows(allowed[w], routedJob[j].strategy)
  PROVE  RouteInv'
<1> USE DEF RouteInv
<1>1. SubscribedToAll' /\ BeatsAreTrue'
  BY DEF SubscribedToAll, BeatsAreTrue, Route!workerVars
<1>2. TargetsWereAsked'
  BY DEF TargetsWereAsked, Accepted, Route!workerVars
<1>3. QueuesExist'
  <2>1. \A i \in RoutedJobs :
          Route!Strategy(i)' = Route!Strategy(i) /\ routedJob'[i].target = routedJob[i].target
    BY DEF Route!Strategy
  <2>2. \A i \in RoutedJobs :
          routeStep'[i] \in {"queued", "held"} => routeStep[i] \in {"queued", "held"}
    OBVIOUS
  <2>3. \A i \in RoutedJobs : routeStep'[i] # "dropped"
    BY DEF QueuesExist
  <2> QED
    BY <2>1, <2>2, <2>3 DEF QueuesExist, Route!QueueFor
<1>4. HeldIsConsumed'
  BY DEF HeldIsConsumed, Route!workerVars
<1> QED
  BY <1>1, <1>2, <1>3, <1>4

LEMMA RouteJobs ==
  ASSUME RouteInv, NEW j \in RoutedJobs,
         \/ Route!CheckTarget(j) \/ Route!Publish(j) \/ Route!Return(j)
         \/ \E w \in Workers : Route!Deliver(w, j) \/ Route!Succeed(w, j) \/ Route!Fail(w, j)
  PROVE  RouteInv'
<1>0. NoWorker \notin Workers /\ MaxAttempts \in Nat \ {0} /\ MaxStarts \in [Workers -> Nat]
  BY ServiceAssumption DEF ServiceAssumption, Route!RoutingAssumption
<1>1. CASE Route!CheckTarget(j)
  <2> DEFINE w == routedJob[j].target
  <2>1. CASE w = NoWorker
    <3>1. /\ routeStep' = [routeStep EXCEPT ![j] = "checked"]
          /\ UNCHANGED <<routedJob, holder>>
          /\ routeStep[j] = "new"
          /\ UNCHANGED <<Route!workerVars, declared, queue, attempt>>
      BY <1>1, <2>1 DEF Route!CheckTarget, Route!Goto
    <3>2. Route!TypeOK'
      BY <3>1 DEF RouteInv, Route!TypeOK, Route!workerVars
    <3>3. routeStep'[j] = "checked" /\ \A i \in RoutedJobs \ {j} : routeStep'[i] = routeStep[i]
      BY <3>1 DEF RouteInv, Route!TypeOK
    <3> QED
      BY <1>0, <2>1, <3>1, <3>2, <3>3, JobMoves
  <2>2. CASE w # NoWorker
    <3>1. /\ w \in Workers /\ heartbeat[w].start \in Nat
      BY <2>2 DEF RouteInv, Route!TypeOK
    <3>2. /\ routedJob' = [routedJob EXCEPT ![j].start = heartbeat[w].start]
          /\ routeStep[j] = "new"
          /\ routeStep' = [routeStep EXCEPT ![j] = IF Route!EnsureWorkerSupports(j) THEN "checked" ELSE "rejected"]
          /\ UNCHANGED <<Route!workerVars, declared, queue, holder, attempt>>
      BY <1>1, <2>2 DEF Route!CheckTarget, Route!Goto
    <3>3. Route!TypeOK'
      <4>1. routedJob' \in [RoutedJobs -> [strategy : Route!Strategies, target : Workers \cup {NoWorker}, start : Nat]]
        BY <3>1, <3>2 DEF RouteInv, Route!TypeOK
      <4> QED
        BY <3>2, <4>1 DEF RouteInv, Route!TypeOK, Route!workerVars
    <3>4. /\ routedJob'[j].strategy = routedJob[j].strategy
          /\ routedJob'[j].target = w
          /\ routedJob'[j].start = heartbeat[w].start
          /\ routeStep'[j] = IF Route!EnsureWorkerSupports(j) THEN "checked" ELSE "rejected"
          /\ \A i \in RoutedJobs \ {j} :
               routedJob'[i] = routedJob[i] /\ routeStep'[i] = routeStep[i] /\ holder'[i] = holder[i]
      BY <3>1, <3>2 DEF RouteInv, Route!TypeOK
    <3>5. Route!EnsureWorkerSupports(j) =>
            /\ heartbeat[w].start # 0 /\ heartbeat[w].start <= starts[w]
            /\ allowed[w] # {} /\ heartbeat[w].start = starts[w] => Route!Allows(allowed[w], routedJob[j].strategy)
      BY <3>1 DEF RouteInv, BeatsAreTrue, Route!EnsureWorkerSupports
    <3> HIDE DEF w
    <3>6. w = routedJob[j].target
      BY DEF w
    <3> QED
      BY <3>2, <3>3, <3>4, <3>5, <3>6, JobMoves
  <2> QED
    BY <2>1, <2>2
<1>2. CASE Route!Publish(j)
  <2>1. /\ Route!Strategy(j) \in Route!RoutingStrategies
        /\ routedJob[j].target \in Workers \cup {NoWorker}
    BY StrategiesRoute DEF RouteInv, Route!TypeOK, Route!Strategy
  <2>2. /\ Route!QueuesOf(Route!Strategy(j), routedJob[j].target) \subseteq Route!Queues
        /\ UNION {Route!QueuesOf(s, NoWorker) : s \in Route!RoutingStrategies} \subseteq Route!Queues
    BY <2>1, QueuesAreQueues
  <2>3. /\ declared \subseteq declared' /\ declared' \subseteq Route!Queues
        /\ Route!QueuesOf(Route!Strategy(j), routedJob[j].target) \subseteq declared'
    BY <1>2, <2>2 DEF Route!Publish, RouteInv, Route!TypeOK
  <2>4. Accepted(j) /\ attempt' \in [RoutedJobs -> 1..MaxAttempts]
    BY <1>2 DEF Route!Publish, Accepted, RouteInv, Route!TypeOK
  <2> QED
    BY <1>2, <2>3, <2>4, SendKeeps DEF Route!Publish
<1>3. CASE Route!Return(j)
  <2>1. /\ queue[j] = Route!QueueFor("retry", j)
        /\ Route!QueuesOf(Route!Strategy(j), routedJob[j].target) \subseteq declared
    BY <1>3 DEF Route!Return, RouteInv, QueuesExist
  <2>2. [queue[j] EXCEPT !.kind = "work"] = Route!QueueFor("work", j)
    BY <2>1 DEF Route!QueueFor, Route!Queue
  <2>3. /\ Accepted(j)
        /\ attempt' \in [RoutedJobs -> 1..MaxAttempts]
        /\ declared \subseteq Route!Queues
    BY <1>3 DEF Route!Return, Accepted, RouteInv, Route!TypeOK
  <2> QED
    BY <1>3, <2>1, <2>2, <2>3, SendKeeps DEF Route!Return
<1>4. ASSUME NEW w \in Workers, Route!Deliver(w, j) PROVE RouteInv'
  <2>1. /\ routeStep' = [routeStep EXCEPT ![j] = "held"] /\ holder' = [holder EXCEPT ![j] = w]
        /\ routeStep[j] = "queued" /\ queue[j] \in consumed[w]
        /\ UNCHANGED <<Route!workerVars, declared, routedJob, queue, attempt>>
    BY <1>4 DEF Route!Deliver, Route!Goto
  <2>2. Route!TypeOK'
    BY <2>1 DEF RouteInv, Route!TypeOK, Route!workerVars
  <2>3. /\ routeStep'[j] = "held" /\ holder'[j] = w
        /\ \A i \in RoutedJobs \ {j} : routeStep'[i] = routeStep[i] /\ holder'[i] = holder[i]
    BY <2>1 DEF RouteInv, Route!TypeOK
  <2> QED
    BY <1>0, <2>1, <2>2, <2>3, JobMoves
<1>5. ASSUME NEW w \in Workers, Route!Succeed(w, j) PROVE RouteInv'
  <2>1. /\ routeStep' = [routeStep EXCEPT ![j] = "done"]
        /\ holder' = [holder EXCEPT ![j] = NoWorker]
        /\ UNCHANGED <<Route!workerVars, declared, routedJob, queue, attempt>>
    BY <1>5 DEF Route!Succeed, Route!Goto
  <2>2. routeStep[j] = "held"
    BY <1>0, <1>5 DEF Route!Succeed, RouteInv, HeldIsConsumed
  <2>3. Route!TypeOK'
    BY <2>1 DEF RouteInv, Route!TypeOK, Route!workerVars
  <2>4. /\ routeStep'[j] = "done" /\ holder'[j] = NoWorker
        /\ \A i \in RoutedJobs \ {j} : routeStep'[i] = routeStep[i] /\ holder'[i] = holder[i]
    BY <2>1 DEF RouteInv, Route!TypeOK
  <2>5. Accepted(j)
    BY <2>2 DEF Accepted
  <2> QED
    BY <2>1, <2>2, <2>3, <2>4, <2>5, JobMoves
<1>6. ASSUME NEW w \in Workers, Route!Fail(w, j) PROVE RouteInv'
  <2>1. routeStep[j] = "held" /\ Accepted(j)
    BY <1>0, <1>6 DEF Route!Fail, RouteInv, HeldIsConsumed, Accepted
  <2>2. /\ Route!QueuesOf(Route!Strategy(j), routedJob[j].target) \subseteq declared
        /\ declared \subseteq Route!Queues
    BY <2>1 DEF RouteInv, QueuesExist, Route!TypeOK
  <2>3. attempt' \in [RoutedJobs -> 1..MaxAttempts]
    BY <1>0, <1>6 DEF Route!Fail, RouteInv, Route!TypeOK
  <2>4. \E k \in {"retry", "dead"} : Route!Send(j, Route!QueueFor(k, j))
    BY <1>6 DEF Route!Fail
  <2>5. UNCHANGED <<Route!workerVars, declared, routedJob>>
    BY <1>6 DEF Route!Fail
  <2> QED
    BY <2>1, <2>2, <2>3, <2>4, <2>5, SendKeeps
<1> QED
  BY <1>1, <1>2, <1>3, <1>4, <1>5, <1>6

LEMMA RouteWorkers ==
  ASSUME RouteInv, NEW w \in Workers, Route!Start(w) \/ Route!Subscribe(w) \/ Route!Beat(w) \/
         Route!Stop(w) \/ Route!Forget(w)
  PROVE  RouteInv'
<1>0. NoWorker \notin Workers /\ MaxAttempts \in Nat \ {0} /\ MaxStarts \in [Workers -> Nat]
  BY ServiceAssumption DEF ServiceAssumption, Route!RoutingAssumption
<1> USE DEF RouteInv
<1>7. ASSUME UNCHANGED Route!jobVars, declared \subseteq declared' PROVE QueuesExist'
  <2>1. \A i \in RoutedJobs : Route!Strategy(i)' = Route!Strategy(i)
    BY <1>7 DEF Route!Strategy, Route!jobVars
  <2> QED
    BY <1>7, <2>1 DEF QueuesExist, Route!QueueFor, Route!jobVars
<1>1. CASE Route!Start(w)
  <2>1. PICK S \in SUBSET Route!RoutingStrategies \ {{}} : allowed' = [allowed EXCEPT ![w] = S]
    BY <1>1 DEF Route!Start
  <2>2. /\ allowed[w] = {} /\ starts[w] < MaxStarts[w] /\ starts' = [starts EXCEPT ![w] = @ + 1]
        /\ UNCHANGED <<consumed, heartbeat, declared, Route!jobVars>>
    BY <1>1 DEF Route!Start
  <2>3. Route!TypeOK'
    <3>1. starts' \in [Workers -> Nat] /\ \A v \in Workers : starts'[v] <= MaxStarts[v]
      BY <1>0, <2>2 DEF Route!TypeOK
    <3>2. allowed' \in [Workers -> SUBSET Route!RoutingStrategies]
      BY <2>1 DEF Route!TypeOK
    <3> QED
      BY <2>2, <3>1, <3>2 DEF Route!TypeOK, Route!jobVars
  <2>4. /\ allowed'[w] = S /\ starts'[w] = starts[w] + 1 /\ starts[w] \in Nat
        /\ \A v \in Workers \ {w} : allowed'[v] = allowed[v] /\ starts'[v] = starts[v]
    BY <2>1, <2>2 DEF Route!TypeOK
  <2>5. SubscribedToAll'
    BY <2>2, <2>4 DEF SubscribedToAll
  <2>6. BeatsAreTrue'
    <3>1. heartbeat[w].start \in Nat
      BY DEF Route!TypeOK
    <3> QED
      BY <2>2, <2>4, <3>1 DEF BeatsAreTrue
  <2>7. TargetsWereAsked'
    <3>1. \A j \in RoutedJobs : routedJob[j].start \in Nat
      BY DEF Route!TypeOK
    <3>2. \A v \in Workers : starts[v] \in Nat
      BY DEF Route!TypeOK
    <3> QED
      BY <2>2, <2>4, <3>1, <3>2 DEF TargetsWereAsked, Accepted, Route!jobVars
  <2>8. HeldIsConsumed'
    BY <2>2 DEF HeldIsConsumed, Route!jobVars
  <2> QED
    BY <1>7, <2>2, <2>3, <2>5, <2>6, <2>7, <2>8
<1>2. CASE Route!Subscribe(w)
  <2> DEFINE Q == {Route!Queue("work", s, t) : s \in allowed[w], t \in {w, NoWorker}}
  <2>1. /\ consumed' = [consumed EXCEPT ![w] = Q] /\ consumed[w] = {} /\ allowed[w] # {}
        /\ declared' = declared \cup UNION {Route!QueuesOf(s, t) : s \in allowed[w], t \in {w, NoWorker}}
        /\ UNCHANGED <<allowed, starts, heartbeat, Route!jobVars>>
    BY <1>2 DEF Route!Subscribe
  <2>2. \A s \in allowed[w], t \in {w, NoWorker} :
          Route!Queue("work", s, t) \in Route!Queues /\ Route!QueuesOf(s, t) \subseteq Route!Queues
    BY QueuesAreQueues DEF Route!TypeOK
  <2>3. Q \subseteq Route!Queues
    BY <2>2
  <2>4. Route!TypeOK'
    <3>1. consumed' \in [Workers -> SUBSET Route!Queues]
      BY <2>1, <2>3 DEF Route!TypeOK
    <3>2. declared' \subseteq Route!Queues
      BY <2>1, <2>2 DEF Route!TypeOK
    <3> QED
      BY <2>1, <3>1, <3>2 DEF Route!TypeOK, Route!jobVars
  <2>5. consumed'[w] = Q /\ \A v \in Workers \ {w} : consumed'[v] = consumed[v]
    BY <2>1 DEF Route!TypeOK
  <2>6. SubscribedToAll'
    BY <2>1, <2>5 DEF SubscribedToAll
  <2>7. BeatsAreTrue' /\ TargetsWereAsked'
    BY <2>1 DEF BeatsAreTrue, TargetsWereAsked, Accepted, Route!jobVars
  <2>8. HeldIsConsumed'
    <3>1. \A j \in RoutedJobs : holder[j] # w
      BY <1>0, <2>1 DEF HeldIsConsumed
    <3>2. \A j \in RoutedJobs : holder[j] \in Workers \cup {NoWorker}
      BY DEF Route!TypeOK
    <3> QED
      BY <2>1, <2>5, <3>1, <3>2 DEF HeldIsConsumed, Route!jobVars
  <2> QED
    BY <1>7, <2>1, <2>4, <2>6, <2>7, <2>8
<1>3. CASE Route!Beat(w)
  <2>1. /\ heartbeat' = [heartbeat EXCEPT ![w] = [allowed |-> allowed[w], start |-> starts[w]]]
        /\ UNCHANGED <<allowed, starts, consumed, declared, Route!jobVars>>
    BY <1>3 DEF Route!Beat
  <2>2. Route!TypeOK'
    BY <2>1 DEF Route!TypeOK, Route!jobVars
  <2>3. /\ heartbeat'[w].allowed = allowed[w]
        /\ heartbeat'[w].start = starts[w]
        /\ starts[w] \in Nat
        /\ \A v \in Workers \ {w} : heartbeat'[v] = heartbeat[v]
    BY <2>1 DEF Route!TypeOK
  <2>4. BeatsAreTrue'
    BY <2>1, <2>3 DEF BeatsAreTrue
  <2>5. SubscribedToAll' /\ TargetsWereAsked' /\ HeldIsConsumed'
    BY <2>1 DEF SubscribedToAll, TargetsWereAsked, Accepted, HeldIsConsumed, Route!jobVars
  <2> QED
    BY <1>7, <2>1, <2>2, <2>4, <2>5
<1>4. CASE Route!Stop(w)
  <2>1. /\ allowed' = [allowed EXCEPT ![w] = {}] /\ consumed' = [consumed EXCEPT ![w] = {}]
        /\ UNCHANGED <<starts, heartbeat, declared, routedJob, queue, attempt>>
    BY <1>4 DEF Route!Stop
  <2>2. /\ routeStep' = [j \in RoutedJobs |-> IF holder[j] = w THEN "queued" ELSE routeStep[j]]
        /\ holder' = [j \in RoutedJobs |-> IF holder[j] = w THEN NoWorker ELSE holder[j]]
    BY <1>4 DEF Route!Stop
  <2>3. Route!TypeOK'
    BY <2>1, <2>2 DEF Route!TypeOK
  <2>4. /\ allowed'[w] = {} /\ consumed'[w] = {}
        /\ \A v \in Workers \ {w} : allowed'[v] = allowed[v] /\ consumed'[v] = consumed[v]
    BY <2>1 DEF Route!TypeOK
  <2>5. \A j \in RoutedJobs : /\ routeStep'[j] = IF holder[j] = w THEN "queued" ELSE routeStep[j]
                              /\ holder'[j] = IF holder[j] = w THEN NoWorker ELSE holder[j]
                              /\ holder[j] = w => routeStep[j] = "held"
                              /\ holder[j] \in Workers \cup {NoWorker}
    BY <1>0, <2>2 DEF HeldIsConsumed, Route!TypeOK
  <2>6. SubscribedToAll'
    BY <2>4 DEF SubscribedToAll
  <2>7. BeatsAreTrue'
    BY <2>1, <2>4 DEF BeatsAreTrue
  <2>8. TargetsWereAsked'
    BY <2>1, <2>4, <2>5 DEF TargetsWereAsked, Accepted
  <2>9. QueuesExist'
    <3>1. \A i \in RoutedJobs : Route!Strategy(i)' = Route!Strategy(i)
      BY <2>1 DEF Route!Strategy
    <3> QED
      BY <2>1, <2>5, <3>1 DEF QueuesExist, Route!QueueFor
  <2>10. HeldIsConsumed'
    BY <1>0, <2>1, <2>4, <2>5 DEF HeldIsConsumed
  <2> QED
    BY <2>3, <2>6, <2>7, <2>8, <2>9, <2>10
<1>5. CASE Route!Forget(w)
  <2>1. /\ heartbeat' = [heartbeat EXCEPT ![w] = Route!Gone] /\ allowed[w] = {}
        /\ UNCHANGED <<allowed, starts, consumed, declared, Route!jobVars>>
    BY <1>5 DEF Route!Forget
  <2>2. Route!TypeOK'
    BY <2>1 DEF Route!TypeOK, Route!Gone, Route!jobVars
  <2>3. BeatsAreTrue'
    BY <2>1 DEF BeatsAreTrue, Route!TypeOK, Route!Gone
  <2>4. SubscribedToAll' /\ TargetsWereAsked' /\ HeldIsConsumed'
    BY <2>1 DEF SubscribedToAll, TargetsWereAsked, Accepted, HeldIsConsumed, Route!jobVars
  <2> QED
    BY <1>7, <2>1, <2>2, <2>3, <2>4
<1> QED
  BY <1>1, <1>2, <1>3, <1>4, <1>5

LEMMA RouteNext == RouteInv /\ [Route!Next]_(Route!vars) => RouteInv'
<1>1. RouteInv /\ UNCHANGED Route!vars => RouteInv'
  <2> SUFFICES ASSUME RouteInv, UNCHANGED Route!vars PROVE RouteInv'
    OBVIOUS
  <2>1. Route!TypeOK' /\ SubscribedToAll' /\ BeatsAreTrue' /\ HeldIsConsumed'
    BY DEF RouteInv, Route!TypeOK, SubscribedToAll, BeatsAreTrue, HeldIsConsumed, Route!vars
  <2>2. TargetsWereAsked'
    BY DEF RouteInv, TargetsWereAsked, Accepted, Route!vars
  <2>3. QueuesExist'
    BY DEF RouteInv, QueuesExist, Route!QueueFor, Route!Strategy, Route!vars
  <2> QED
    BY <2>1, <2>2, <2>3 DEF RouteInv
<1> QED
  BY <1>1, RouteJobs, RouteWorkers DEF Route!Next

LEMMA RouteServes == RouteInv => Route!RightWorkerGetsIt /\ Route!TargetConsumesIt
<1> SUFFICES ASSUME RouteInv PROVE Route!RightWorkerGetsIt /\ Route!TargetConsumesIt
  OBVIOUS
<1>0. NoWorker \notin Workers
  BY ServiceAssumption DEF ServiceAssumption, Route!RoutingAssumption
<1>1. ASSUME NEW j \in RoutedJobs, holder[j] # NoWorker
      PROVE  /\ routedJob[j].target \in {holder[j], NoWorker}
             /\ Route!Allows(allowed[holder[j]], routedJob[j].strategy)
  <2> DEFINE w == holder[j]
  <2>1. /\ w \in Workers
        /\ queue[j] \in consumed[w]
        /\ routeStep[j] = "held"
        /\ routedJob[j].strategy \in Route!Strategies
    BY <1>1 DEF RouteInv, HeldIsConsumed, Route!TypeOK
  <2>2. PICK s \in allowed[w], t \in {w, NoWorker} : queue[j] = Route!Queue("work", s, t)
    BY <2>1 DEF RouteInv, SubscribedToAll
  <2>3. s = Route!Strategy(j) /\ t = routedJob[j].target
    <3>1. queue[j].strategy = s /\ queue[j].target = t
      BY <2>2 DEF Route!Queue
    <3>2. queue[j] = Route!Queue(queue[j].kind, Route!Strategy(j), routedJob[j].target)
      BY <2>1 DEF RouteInv, QueuesExist, Route!QueueFor
    <3>3. queue[j].strategy = Route!Strategy(j) /\ queue[j].target = routedJob[j].target
      BY <3>2 DEF Route!Queue
    <3> QED
      BY <3>1, <3>3
  <2>4. Route!Allows(allowed[w], routedJob[j].strategy)
    BY <2>1, <2>2, <2>3 DEF Route!Allows, Route!Strategy, Route!resolveRoutingStrategy,
       Route!Strategies
  <2> QED
    BY <2>2, <2>3, <2>4
<1>2. ASSUME NEW j \in RoutedJobs, NEW w \in Workers, routedJob[j].target = w, routeStep[j] =
             "queued",
             queue[j].kind = "work", routedJob[j].strategy # "auto", consumed[w] # {}, starts[w] = routedJob[j].start
      PROVE  queue[j] \in consumed[w]
  <2>1. queue[j] = Route!Queue("work", Route!Strategy(j), w)
    BY <1>2 DEF RouteInv, QueuesExist, Route!QueueFor
  <2>2. /\ consumed[w] = {Route!Queue("work", s, t) : s \in allowed[w], t \in {w, NoWorker}}
        /\ allowed[w] # {} /\ routedJob[j].strategy \in Route!Strategies
    BY <1>2 DEF RouteInv, SubscribedToAll, Route!TypeOK
  <2>3. Route!Allows(allowed[w], routedJob[j].strategy)
    BY <1>2, <2>2 DEF RouteInv, TargetsWereAsked, Accepted
  <2>4. Route!Strategy(j) \in allowed[w]
    BY <1>2, <2>2, <2>3 DEF Route!Allows, Route!Strategy, Route!resolveRoutingStrategy,
       Route!Strategies
  <2> QED
    BY <2>1, <2>2, <2>4
<1>3. \A j \in RoutedJobs :
        routedJob[j].target \in Workers \cup {NoWorker} /\ routeStep[j] # "dropped"
  BY DEF RouteInv, Route!TypeOK, QueuesExist
<1> QED
  BY <1>0, <1>1, <1>2, <1>3 DEF Route!RightWorkerGetsIt, Route!TargetConsumesIt

-----------------------------------------------------------------------------
(* ProxyPolicies: administrators, workers and the policies in Redis        *)

\* The cardinality of FiniteSets, under its name in the component
LEMMA SameScopes ==
  ASSUME NEW S
  PROVE  Proxies!Cardinality(S) = Cardinality(S)
BY DEF Proxies!Cardinality, Proxies!IsFiniteSet, Cardinality, IsFiniteSet

\* The source that ReadGlobal would settle on now
WithoutService(e) ==
  IF Proxies!InForce(policy["global"]) THEN Proxies!Source("global", policy["global"].proxies)
                                       ELSE Proxies!WithoutPolicy(resolveJob[e].options)

\* A resolution has noted what is right now.  Between its two reads the policy of the
\* service was seen not to be in force, and what the cluster's said then is noted too.
MomentsAreNoted ==
  \A e \in Executions :
    /\ IsFiniteSet(moved[e])
    /\ Proxies!Under(e) => ~Proxies!EnvForced /\ Proxies!Right(policy, e) \in moments[e]
    /\ resolvePc[e] = "global" =>
                /\ Proxies!InForce(policy[Proxies!Scope(e)]) => Proxies!Scope(e) \in moved[e] \/ Proxies!Scope(e) = "global"
                /\ "global" \notin moved[e] => WithoutService(e) \in moments[e]

\* selectProxy gets a pool that is not empty.
PoolsAreFilled == \A e \in Executions : resolvePc[e] = "select" => chosen[e].proxies # <<>>

ProxiesInv == Proxies!TypeOK /\ PoolsAreFilled /\ MomentsAreNoted /\ Proxies!SourceWasRight

\* Two policies have changed when two different scopes have.
LEMMA TwoScopes ==
  ASSUME NEW S, IsFiniteSet(S), NEW a \in S, NEW b \in S, a # b
  PROVE  ~(Cardinality(S) < 2)
<1>1. IsFiniteSet({a}) /\ Cardinality({a}) = 1
  BY FS_Singleton
<1>2. Cardinality({a} \cup {b}) = 2
  BY <1>1, FS_AddElement
<1>3. {a} \cup {b} \in SUBSET S
  OBVIOUS
<1>4. Cardinality({a} \cup {b}) <= Cardinality(S)
  BY <1>3, FS_Subset
<1>5. Cardinality(S) \in Nat
  BY FS_CardinalityType
<1> QED
  BY <1>2, <1>4, <1>5

LEMMA ScopesExist == Proxies!TypeOK => \A e \in Executions : Proxies!Scope(e) \in Proxies!Scopes /\ "global" \in Proxies!Scopes
BY DEF Proxies!TypeOK, Proxies!Scope, Proxies!Scopes, Proxies!Jobs

\* Whatever the policies hold, what they say of a job is a source.
LEMMA RightIsSource ==
  ASSUME Proxies!TypeOK, NEW e \in Executions, NEW p \in [Proxies!Scopes -> Proxies!Policy
         \cup {NoPolicy}]
  PROVE  /\ Proxies!Right(p, e) \in Proxies!Sources
         /\ Proxies!WithoutPolicy(resolveJob[e].options) \in Proxies!Sources
<1>1. /\ Proxies!Scope(e) \in Proxies!Scopes
      /\ "global" \in Proxies!Scopes
      /\ Proxies!Scopes \subseteq Proxies!Counters
      /\ "env" \in Proxies!Counters
  BY ScopesExist DEF Proxies!Counters
<1>2. \A k \in Proxies!Scopes : Proxies!InForce(p[k]) => p[k].proxies \in Pools
  BY DEF Proxies!InForce, Proxies!Policy
<1>3. proxyEnv.proxyUrls \in EnvLists
  BY DEF Proxies!TypeOK, Proxies!Environments, Proxies!readScraperConfig
<1>4. \A k \in Proxies!Counters, l \in Pools \cup EnvLists :
        Proxies!Source(k, l) \in Proxies!Sources
  BY DEF Proxies!Source, Proxies!Sources
<1>5. Proxies!WithoutPolicy(resolveJob[e].options) \in Proxies!Sources
  <2>1. /\ Proxies!OwnUrl \in Proxies!Sources
        /\ Proxies!Direct \in Proxies!Sources
        /\ Proxies!Source("env", proxyEnv.proxyUrls) \in Proxies!Sources
    BY <1>1, <1>3, <1>4 DEF Proxies!Sources
  <2>2. resolveJob[e].options.proxyUrl \in BOOLEAN
    BY ServiceAssumption DEF ServiceAssumption, Proxies!ProxyAssumption, Proxies!TypeOK,
       Proxies!Jobs
  <2> QED
    BY <2>1, <2>2 DEF Proxies!WithoutPolicy
<1> QED
  BY <1>1, <1>2, <1>3, <1>4, <1>5 DEF Proxies!Right

LEMMA ProxiesInit == Proxies!Init => ProxiesInv
<1> SUFFICES ASSUME Proxies!Init PROVE ProxiesInv
  OBVIOUS
<1>1. IsFiniteSet({})
  BY FS_EmptySet
<1>2. /\ policy \in [Proxies!Scopes -> Proxies!Policy \cup {NoPolicy}]
      /\ \A a \in Admins :
           "global" \in Proxies!Scopes /\ adminRequest[a] = [step |-> "idle", scope |-> "global"]
      /\ Proxies!Direct \in Proxies!Sources
  BY DEF Proxies!Init, Proxies!Scopes, Proxies!Sources
<1>3. Proxies!TypeOK
  BY <1>2 DEF Proxies!Init, Proxies!TypeOK, Proxies!Scopes
<1> QED
  BY <1>1, <1>3 DEF Proxies!Init, ProxiesInv, PoolsAreFilled, MomentsAreNoted,
     Proxies!SourceWasRight, Proxies!Under

\* Every variable keeps its type.
LEMMA ProxiesTypes ==
  ASSUME Proxies!TypeOK, PoolsAreFilled, [Proxies!Next]_(Proxies!vars)
  PROVE  Proxies!TypeOK'
<1> USE DEF Proxies!TypeOK
<1> DEFINE Answer(e, s) == s \in Proxies!Sources /\ Proxies!Settle(e, s)
<1>1. ASSUME NEW e \in Executions, NEW s, Answer(e, s)
      PROVE  /\ chosen' \in [Executions -> Proxies!Sources]
             /\ resolvePc' \in [Executions -> {"idle", "service", "global", "select", "done"}]
  BY <1>1 DEF Proxies!Settle, Proxies!Goto
<1>2. \A e \in Executions : /\ Proxies!Right(policy, e) \in Proxies!Sources
                            /\ Proxies!WithoutPolicy(resolveJob[e].options) \in Proxies!Sources
  BY RightIsSource
<1>3. \A k \in Proxies!Scopes :
        Proxies!InForce(policy[k]) => Proxies!Source(k, policy[k].proxies) \in Proxies!Sources
  BY DEF Proxies!InForce, Proxies!Policy, Proxies!Source, Proxies!Sources, Proxies!Counters
<1>4. ASSUME NEW e \in Executions, Proxies!Resolve(e) PROVE Proxies!TypeOK'
  <2>1. CASE Proxies!EnvForced
    <3>1. Proxies!Right(policy, e) = Proxies!Source("env", proxyEnv.proxyUrls)
      BY <2>1 DEF Proxies!Right
    <3>2. Answer(e, Proxies!Source("env", proxyEnv.proxyUrls))
      BY <1>2, <1>4, <2>1, <3>1 DEF Proxies!Resolve
    <3> QED
      BY <1>1, <1>2, <1>4, <3>2 DEF Proxies!Resolve
  <2>2. CASE ~Proxies!EnvForced
    BY <1>2, <1>4, <2>2 DEF Proxies!Resolve, Proxies!Goto
  <2> QED
    BY <2>1, <2>2
<1>5. ASSUME NEW e \in Executions, Proxies!ReadService(e) PROVE Proxies!TypeOK'
  <2>1. CASE Proxies!InForce(policy[Proxies!Scope(e)])
    <3>1. Answer(e, Proxies!Source(Proxies!Scope(e), policy[Proxies!Scope(e)].proxies))
      BY <1>3, <1>5, <2>1, ScopesExist DEF Proxies!ReadService
    <3> QED
      BY <1>1, <1>5, <3>1 DEF Proxies!ReadService
  <2>2. CASE ~Proxies!InForce(policy[Proxies!Scope(e)])
    BY <1>5, <2>2 DEF Proxies!ReadService, Proxies!Goto
  <2> QED
    BY <2>1, <2>2
<1>6. ASSUME NEW e \in Executions, Proxies!ReadGlobal(e) PROVE Proxies!TypeOK'
  <2>1. Answer(e, IF Proxies!InForce(policy["global"]) THEN Proxies!Source("global", policy["global"].proxies)
                                                       ELSE Proxies!WithoutPolicy(resolveJob[e].options))
    BY <1>2, <1>3, <1>6, ScopesExist DEF Proxies!ReadGlobal
  <2> QED
    BY <1>1, <1>6, <2>1 DEF Proxies!ReadGlobal
<1>7. ASSUME NEW e \in Executions, Proxies!Select(e) PROVE Proxies!TypeOK'
  <2> DEFINE size == Len(chosen[e].proxies)
  <2> DEFINE turn == (turns[chosen[e].source] % size) + 1
  <2>1. UNCHANGED <<proxyEnv, policy, listed, adminRequest, resolveJob, chosen, moments, moved>>
    BY <1>7 DEF Proxies!Select
  <2>2. resolvePc' \in [Executions -> {"idle", "service", "global", "select", "done"}]
    BY <1>7 DEF Proxies!Select, Proxies!Goto
  <2>3. turns' \in [Proxies!Counters -> Nat]
    BY <1>7 DEF Proxies!Select
  <2>4. chosen[e].proxies \in Seq(ProxyUrls) /\ chosen[e].source \in Proxies!Counters
    <3>1. Proxies!Direct.proxies \in Seq(ProxyUrls) /\ Proxies!OwnUrl.proxies \in Seq(ProxyUrls)
      BY DEF Proxies!Direct, Proxies!OwnUrl, Proxies!Source
    <3>2. chosen[e].proxies # <<>>
      BY <1>7 DEF Proxies!Select, PoolsAreFilled
    <3>3. Proxies!Direct.proxies = <<>> /\ Proxies!OwnUrl.proxies = <<>>
      BY DEF Proxies!Direct, Proxies!OwnUrl, Proxies!Source
    <3> QED
      BY <3>2, <3>3, ServiceAssumption DEF ServiceAssumption, Proxies!ProxyAssumption,
         Proxies!Sources
  <2>5. size \in Nat \ {0}
    BY <1>7, <2>4, LenProperties, EmptySeq DEF Proxies!Select, PoolsAreFilled
  <2>6. turn \in Nat
    <3> HIDE DEF size
    <3>1. turns[chosen[e].source] \in Nat
      BY <2>4
    <3> QED
      BY <2>5, <3>1
  <2>7. proxy' \in [Executions -> Nat]
    <3>1. proxy' = [proxy EXCEPT ![e] = 1] \/ proxy' = [proxy EXCEPT ![e] = turn]
      BY <1>7 DEF Proxies!Select
    <3> QED
      BY <2>6, <3>1
  <2> QED
    BY <2>1, <2>2, <2>3, <2>7
<1>8. ASSUME NEW a \in Admins, NEW k \in Proxies!Scopes, NEW p \in Proxies!Policy \cup
             {NoPolicy},
             NEW s \in {"add", "remove"}, Proxies!Store(k, p), Proxies!Step(a, s, k),
             UNCHANGED <<proxyEnv, listed, turns, resolvePc, resolveJob, chosen, proxy>>
      PROVE  Proxies!TypeOK'
  <2>1. policy' \in [Proxies!Scopes -> Proxies!Policy \cup {NoPolicy}]
    BY <1>8 DEF Proxies!Store
  <2>2. \A e \in Executions : Proxies!Right(policy', e) \in Proxies!Sources
    BY <2>1, RightIsSource
  <2>3. /\ moments' \in [Executions -> SUBSET Proxies!Sources]
        /\ moved' \in [Executions -> SUBSET Proxies!Scopes]
    BY <1>8, <2>2 DEF Proxies!Store
  <2> QED
    BY <1>8, <2>1, <2>3 DEF Proxies!Step
<1>9. ASSUME NEW a \in Admins, Proxies!AddToIndex(a) \/ Proxies!RemoveFromIndex(a)
      PROVE Proxies!TypeOK'
  <2>1. adminRequest[a].scope \in Proxies!Scopes
    OBVIOUS
  <2> QED
    BY <1>9, <2>1 DEF Proxies!AddToIndex, Proxies!RemoveFromIndex, Proxies!Step
<1>10. CASE UNCHANGED Proxies!vars
  BY <1>10 DEF Proxies!vars
<1> QED
  BY <1>4, <1>5, <1>6, <1>7, <1>8, <1>9, <1>10 DEF Proxies!Next, Proxies!Upsert, Proxies!Delete

\* A policy changes: every resolution under way notes what is right from now on.
LEMMA StoreKeeps ==
  ASSUME ProxiesInv, Proxies!TypeOK', NEW k \in Proxies!Scopes, NEW p \in Proxies!Policy \cup
         {NoPolicy}, Proxies!Store(k, p),
         UNCHANGED <<proxyEnv, resolvePc, resolveJob, chosen>>
  PROVE  ProxiesInv'
<1> USE DEF ProxiesInv, Proxies!Store
<1>1. Proxies!TypeOK'
  OBVIOUS
<1>2. \A e \in Executions : IsFiniteSet(moved[e]) => IsFiniteSet(moved[e] \cup {k})
  BY FS_AddElement
<1>3. \A e \in Executions :
        Proxies!Under(e)' = Proxies!Under(e) /\ Proxies!EnvForced' = Proxies!EnvForced
                            /\ Proxies!Scope(e)' = Proxies!Scope(e)
                            /\ Proxies!Right(policy, e)' = Proxies!Right(policy', e)
  BY DEF Proxies!Under, Proxies!EnvForced, Proxies!Scope, Proxies!Right, Proxies!InForce,
     Proxies!WithoutPolicy, Proxies!Source, Proxies!TypeOK
<1>4. \A e \in Executions :
        IF Proxies!Under(e) THEN /\ moments'[e] = moments[e] \cup {Proxies!Right(policy', e)}
                                 /\ moved'[e] = moved[e] \cup {k}
                            ELSE moments'[e] = moments[e] /\ moved'[e] = moved[e]
  BY DEF Proxies!TypeOK
<1>5. ASSUME NEW e \in Executions, resolvePc[e] = "global"
      PROVE /\ Proxies!InForce(policy'[Proxies!Scope(e)]) => Proxies!Scope(e) \in moved'[e] \/ Proxies!Scope(e) = "global"
            /\ "global" \notin moved'[e] => WithoutService(e)' \in moments'[e]
  <2>1. Proxies!Under(e)
    BY <1>5 DEF Proxies!Under
  <2>2. Proxies!Scope(e) # k => policy'[Proxies!Scope(e)] = policy[Proxies!Scope(e)]
    BY ScopesExist DEF Proxies!TypeOK
  <2>3. "global" # k => policy'["global"] = policy["global"]
    BY ScopesExist DEF Proxies!TypeOK
  <2>4. "global" # k => WithoutService(e)' = WithoutService(e)
    BY <2>3 DEF WithoutService, Proxies!InForce, Proxies!Source, Proxies!WithoutPolicy
  <2> QED
    BY <1>4, <1>5, <2>1, <2>2, <2>4 DEF MomentsAreNoted
<1>6. MomentsAreNoted'
  BY <1>2, <1>3, <1>4, <1>5 DEF MomentsAreNoted, Proxies!Under
<1>7. Proxies!SourceWasRight'
  BY <1>4 DEF Proxies!SourceWasRight, Proxies!Under
<1>8. PoolsAreFilled'
  BY DEF PoolsAreFilled
<1> QED
  BY <1>1, <1>6, <1>7, <1>8

\* One execution takes a step of its resolution; policies stay.
LEMMA ResolveKeeps ==
  ASSUME ProxiesInv, Proxies!TypeOK', NEW e \in Executions, Proxies!Resolve(e) \/
         Proxies!ReadService(e) \/ Proxies!ReadGlobal(e) \/ Proxies!Select(e)
  PROVE  ProxiesInv'
<1> USE DEF ProxiesInv, Proxies!Goto, Proxies!Settle
<1>1. Proxies!TypeOK'
  OBVIOUS
<1>2. UNCHANGED <<proxyEnv, policy, resolveJob, moved>>
  BY DEF Proxies!Resolve, Proxies!ReadService, Proxies!ReadGlobal, Proxies!Select
<1>3. \A d \in Executions :
        d # e => resolvePc'[d] = resolvePc[d] /\ chosen'[d] = chosen[d] /\ moments'[d] = moments[d]
  BY DEF Proxies!TypeOK, Proxies!Resolve, Proxies!ReadService, Proxies!ReadGlobal,
     Proxies!Select
<1>4. \A d \in Executions :
        Proxies!EnvForced' = Proxies!EnvForced /\ Proxies!Scope(d)' = Proxies!Scope(d)
                            /\ Proxies!Right(policy, d)' = Proxies!Right(policy, d)
                            /\ WithoutService(d)' = WithoutService(d)
  BY <1>2 DEF Proxies!EnvForced, Proxies!Scope, Proxies!Right, Proxies!InForce,
     Proxies!WithoutPolicy, WithoutService, Proxies!Source
<1>9. PoolsAreFilled'
  BY DEF PoolsAreFilled, Proxies!TypeOK, Proxies!Resolve, Proxies!ReadService,
     Proxies!ReadGlobal, Proxies!Select
<1>5. CASE Proxies!Resolve(e)
  <2>1. moments'[e] = {Proxies!Right(policy, e)}
    BY <1>5 DEF Proxies!Resolve, Proxies!TypeOK
  <2>2. CASE Proxies!EnvForced
    <3>1. /\ Proxies!Right(policy, e) = Proxies!Source("env", proxyEnv.proxyUrls)
          /\ Proxies!Source("env", proxyEnv.proxyUrls).proxies # <<>>
      BY <2>2 DEF Proxies!Right, Proxies!EnvForced, Proxies!Source
    <3>2. chosen'[e] = Proxies!Right(policy, e) /\ resolvePc'[e] = "select"
      BY <1>5, <2>2, <3>1 DEF Proxies!Resolve, Proxies!TypeOK
    <3> QED
      BY <1>1, <1>2, <1>3, <1>4, <1>9, <2>1, <3>2 DEF MomentsAreNoted, Proxies!SourceWasRight,
         Proxies!Under
  <2>3. CASE ~Proxies!EnvForced
    <3>1. resolvePc'[e] = "service"
      BY <1>5, <2>3 DEF Proxies!Resolve, Proxies!TypeOK
    <3> QED
      BY <1>1, <1>2, <1>3, <1>4, <1>9, <2>1, <2>3, <3>1 DEF MomentsAreNoted,
         Proxies!SourceWasRight, Proxies!Under
  <2> QED
    BY <2>2, <2>3
<1>6. CASE Proxies!ReadService(e)
  <2>1. moments' = moments /\ ~Proxies!EnvForced /\ Proxies!Right(policy, e) \in moments[e]
    BY <1>6 DEF Proxies!ReadService, MomentsAreNoted, Proxies!Under
  <2>2. CASE Proxies!InForce(policy[Proxies!Scope(e)])
    <3>1. Proxies!Right(policy, e) = Proxies!Source(Proxies!Scope(e), policy[Proxies!Scope(e)].proxies)
      BY <2>1, <2>2 DEF Proxies!Right
    <3>2. chosen'[e] = Proxies!Right(policy, e) /\ resolvePc'[e] \in {"select", "done"}
      BY <1>6, <2>2, <3>1 DEF Proxies!ReadService, Proxies!TypeOK
    <3> QED
      BY <1>1, <1>2, <1>3, <1>4, <1>9, <2>1, <3>2 DEF MomentsAreNoted, Proxies!SourceWasRight,
         Proxies!Under
  <2>3. CASE ~Proxies!InForce(policy[Proxies!Scope(e)])
    <3>1. Proxies!Right(policy, e) = WithoutService(e)
      BY <2>1, <2>3 DEF Proxies!Right, WithoutService
    <3>2. resolvePc'[e] = "global"
      BY <1>6, <2>3 DEF Proxies!ReadService, Proxies!TypeOK
    <3> QED
      BY <1>1, <1>2, <1>3, <1>4, <1>9, <2>1, <2>3, <3>1, <3>2 DEF MomentsAreNoted,
         Proxies!SourceWasRight, Proxies!Under
  <2> QED
    BY <2>2, <2>3
<1>7. CASE Proxies!ReadGlobal(e)
  <2>1. /\ moments' = moments /\ ~Proxies!EnvForced /\ Proxies!Right(policy, e) \in moments[e]
        /\ resolvePc[e] = "global" /\ IsFiniteSet(moved[e])
    BY <1>7 DEF Proxies!ReadGlobal, MomentsAreNoted, Proxies!Under
  <2>2. chosen'[e] = WithoutService(e) /\ resolvePc'[e] \in {"select", "done"}
    BY <1>7 DEF Proxies!ReadGlobal, WithoutService, Proxies!TypeOK
  <2>3. ASSUME Cardinality(moved[e]) < 2 PROVE WithoutService(e) \in moments[e]
    <3>1. CASE ~Proxies!InForce(policy[Proxies!Scope(e)])
      BY <2>1, <3>1 DEF Proxies!Right, WithoutService
    <3>2. CASE Proxies!InForce(policy[Proxies!Scope(e)]) /\ Proxies!Scope(e) = "global"
      BY <2>1, <3>2 DEF Proxies!Right, WithoutService
    <3>3. CASE Proxies!InForce(policy[Proxies!Scope(e)]) /\ Proxies!Scope(e) # "global"
      <4>1. Proxies!Scope(e) \in moved[e]
        BY <2>1, <3>3 DEF MomentsAreNoted
      <4>2. "global" \notin moved[e]
        BY <2>1, <2>3, <3>3, <4>1, TwoScopes
      <4> QED
        BY <2>1, <4>2 DEF MomentsAreNoted
    <3> QED
      BY <3>1, <3>2, <3>3
  <2> QED
    BY <1>1, <1>2, <1>3, <1>4, <1>9, <2>1, <2>2, <2>3, SameScopes DEF MomentsAreNoted,
       Proxies!SourceWasRight, Proxies!Under
<1>8. CASE Proxies!Select(e)
  <2>1. resolvePc[e] = "select" /\ resolvePc'[e] = "done" /\ UNCHANGED <<chosen, moments>>
    BY <1>8 DEF Proxies!Select, Proxies!TypeOK
  <2> QED
    BY <1>1, <1>2, <1>3, <1>4, <1>9, <2>1 DEF MomentsAreNoted, Proxies!SourceWasRight,
       Proxies!Under
<1> QED
  BY <1>5, <1>6, <1>7, <1>8

LEMMA ProxiesNext == ProxiesInv /\ [Proxies!Next]_(Proxies!vars) => ProxiesInv'
<1> SUFFICES ASSUME ProxiesInv, [Proxies!Next]_(Proxies!vars) PROVE ProxiesInv'
  OBVIOUS
<1>0. Proxies!TypeOK'
  BY ProxiesTypes DEF ProxiesInv
<1>1. ASSUME NEW a \in Admins, NEW k \in Proxies!Scopes, Proxies!Delete(a, k) PROVE ProxiesInv'
  BY <1>0, <1>1, StoreKeeps DEF Proxies!Delete
<1>2. ASSUME NEW a \in Admins, NEW k \in Proxies!Scopes, NEW p \in Proxies!Policy,
             Proxies!Upsert(a, k, p)
      PROVE ProxiesInv'
  BY <1>0, <1>2, StoreKeeps DEF Proxies!Upsert
<1>3. CASE UNCHANGED <<proxyEnv, policy, resolvePc, resolveJob, chosen, moments, moved>>
  BY <1>0, <1>3 DEF ProxiesInv, PoolsAreFilled, MomentsAreNoted, Proxies!SourceWasRight,
     Proxies!Under, Proxies!EnvForced, Proxies!Scope, Proxies!Right, Proxies!InForce,
     Proxies!WithoutPolicy, WithoutService, Proxies!Source
<1>4. ASSUME NEW a \in Admins, Proxies!AddToIndex(a) \/ Proxies!RemoveFromIndex(a)
      PROVE UNCHANGED <<proxyEnv, policy, resolvePc, resolveJob, chosen, moments, moved>>
  BY <1>4 DEF Proxies!AddToIndex, Proxies!RemoveFromIndex
<1> QED
  BY <1>0, <1>1, <1>2, <1>3, <1>4, ResolveKeeps DEF Proxies!Next, Proxies!vars
==============================================================================
