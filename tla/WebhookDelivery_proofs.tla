----------------------- MODULE WebhookDelivery_proofs -----------------------
(***************************************************************************)
(* Proofs about WebhookDelivery, for every set of events, workers, runs    *)
(* and copies, and every number of attempts and crashes.                   *)
(***************************************************************************)
EXTENDS WebhookDelivery, FiniteSetTheorems, TLAPS

USE DeliveryAssumption, NoEventMessageAssumption

LEMMA InitIInv == Init => IInv
BY DEF Init, IInv, TypeOK, Steps, CopiesCarryEvents, RunsHoldCopies, AcksAreCovered,
   NoEventIsLost

\* A run that is at work knows its message, and holds the copy that carries it.
LEMMA ActiveRun ==
  ASSUME IInv, NEW r \in Runs, pc[r] # "free"
  PROVE  /\ held[r] \in Copies
         /\ queue[held[r]] = "unacked" /\ body[held[r]] = msg[r]
         /\ msg[r] \in Message /\ msg[r].job \in EventIds /\ msg[r].attempt \in 1..MaxAttempts
         /\ msg[r].job \in published
BY DEF IInv, TypeOK, RunsHoldCopies, CopiesCarryEvents, Message

LEMMA UnseenType ==
  ASSUME NEW e, NEW R \in SUBSET Runs
  PROVE  Unseen(e, R) \in Nat
<1>1. IsFiniteSet({r \in R : pc[r] = "posting" /\ msg[r].job = e})
  BY FS_Subset
<1> QED
  BY <1>1, FS_CardinalityType DEF Unseen

-----------------------------------------------------------------------------
(* Types                                                                   *)

LEMMA TypeStep == IInv /\ [Next]_vars => TypeOK'
<1> SUFFICES ASSUME IInv, [Next]_vars PROVE TypeOK'
  OBVIOUS
<1> USE DEF IInv, TypeOK, Goto, Send, Steps, Message, brokerVars, runVars, receiverVars
<1>1. ASSUME NEW e \in EventIds, ReceiveLate(e) PROVE TypeOK'
  BY <1>1 DEF ReceiveLate
<1>2. ASSUME NEW e \in EventIds, NEW c \in Copies, Publish(e, c) PROVE TypeOK'
  BY <1>2 DEF Publish
<1>3. ASSUME NEW r \in Runs, NEW c \in Copies, Deliver(r, c) PROVE TypeOK'
  BY <1>3 DEF Deliver, CopiesCarryEvents
<1>4. ASSUME NEW r \in Runs, Receive(r) PROVE TypeOK'
  BY <1>4, ActiveRun DEF Receive
<1>5. ASSUME NEW r \in Runs, Answered(r) \/ Failed(r) PROVE TypeOK'
  BY <1>5, ActiveRun DEF Answered, Failed
<1>6. ASSUME NEW r \in Runs, NEW c \in Copies, Retry(r, c) PROVE TypeOK'
  <2>1. [msg[r] EXCEPT !.attempt = @ + 1] \in Message
    BY <1>6, ActiveRun DEF Retry
  <2> QED
    BY <1>6, <2>1 DEF Retry
<1>7. ASSUME NEW r \in Runs, NEW c \in Copies, GiveUp(r, c) PROVE TypeOK'
  BY <1>7, ActiveRun DEF GiveUp
<1>8. ASSUME NEW r \in Runs, Ack(r) PROVE TypeOK'
  BY <1>8 DEF Ack
<1>9. ASSUME NEW c \in Copies, RetryExpires(c) PROVE TypeOK'
  BY <1>9 DEF RetryExpires
<1>10. ASSUME NEW w \in Workers, Crash(w) PROVE TypeOK'
  <2> DEFINE dead == {r \in Runs : Host[r] = w}
  <2>1. \A e \in EventIds : Unseen(e, dead) \in Nat
    BY UnseenType
  <2>2. late' \in [EventIds -> Nat]
    BY <1>10, <2>1 DEF Crash
  <2>3. crashes' \in 0..MaxCrashes
    BY <1>10 DEF Crash
  <2>4. /\ queue' \in [Copies -> {"free", "ready", "delayed", "unacked", "dead"}]
        /\ held' \in [Runs -> Copies \cup {NoCopy}] /\ pc' \in [Runs -> Steps]
    BY <1>10 DEF Crash
  <2> QED
    BY <1>10, <2>2, <2>3, <2>4 DEF Crash
<1>11. CASE UNCHANGED vars
  BY <1>11 DEF vars
<1> QED
  BY <1>1, <1>2, <1>3, <1>4, <1>5, <1>6, <1>7, <1>8, <1>9, <1>10, <1>11 DEF Next, RunNext

-----------------------------------------------------------------------------
(* Copies and the runs that hold them                                      *)

LEMMA HoldStep == IInv /\ [Next]_vars => CopiesCarryEvents' /\ RunsHoldCopies'
<1> SUFFICES ASSUME IInv, [Next]_vars PROVE CopiesCarryEvents' /\ RunsHoldCopies'
  OBVIOUS
<1> USE DEF IInv, TypeOK, CopiesCarryEvents, RunsHoldCopies, Goto, Send, brokerVars, runVars, receiverVars
<1>1. ASSUME NEW e \in EventIds, ReceiveLate(e) PROVE CopiesCarryEvents' /\ RunsHoldCopies'
  BY <1>1 DEF ReceiveLate
<1>2. ASSUME NEW e \in EventIds, NEW c \in Copies, Publish(e, c) PROVE CopiesCarryEvents' /\ RunsHoldCopies'
  BY <1>2 DEF Publish, Message
<1>3. ASSUME NEW r \in Runs, NEW c \in Copies, Deliver(r, c) PROVE CopiesCarryEvents' /\ RunsHoldCopies'
  BY <1>3 DEF Deliver
<1>4. ASSUME NEW r \in Runs, Receive(r) \/ Answered(r) \/ Failed(r)
      PROVE CopiesCarryEvents' /\ RunsHoldCopies'
  BY <1>4 DEF Receive, Answered, Failed
<1>5. ASSUME NEW r \in Runs, NEW c \in Copies, Retry(r, c) PROVE CopiesCarryEvents' /\ RunsHoldCopies'
  <2>1. /\ [msg[r] EXCEPT !.attempt = @ + 1] \in Message
        /\ [msg[r] EXCEPT !.attempt = @ + 1].job \in published
    BY <1>5, ActiveRun DEF Retry, Message
  <2> QED
    BY <1>5, <2>1 DEF Retry
<1>6. ASSUME NEW r \in Runs, NEW c \in Copies, GiveUp(r, c) PROVE CopiesCarryEvents' /\ RunsHoldCopies'
  BY <1>6, ActiveRun DEF GiveUp
<1>7. ASSUME NEW r \in Runs, Ack(r) PROVE CopiesCarryEvents' /\ RunsHoldCopies'
  BY <1>7, ActiveRun DEF Ack
<1>8. ASSUME NEW c \in Copies, RetryExpires(c) PROVE CopiesCarryEvents' /\ RunsHoldCopies'
  BY <1>8 DEF RetryExpires
<1>9. ASSUME NEW w \in Workers, Crash(w) PROVE CopiesCarryEvents' /\ RunsHoldCopies'
  <2>1. \A c \in Copies : queue'[c] = queue[c] \/ (queue[c] = "unacked" /\ queue'[c] = "ready")
    BY <1>9 DEF Crash
  <2>2. CopiesCarryEvents'
    BY <1>9, <2>1 DEF Crash
  <2>3. RunsHoldCopies'
    BY <1>9 DEF Crash
  <2> QED
    BY <2>2, <2>3
<1>10. CASE UNCHANGED vars
  BY <1>10 DEF vars
<1> QED
  BY <1>1, <1>2, <1>3, <1>4, <1>5, <1>6, <1>7, <1>8, <1>9, <1>10 DEF Next, RunNext

-----------------------------------------------------------------------------
(* No event is lost                                                        *)

\* A step that takes no message out of a queue, and no event out of the delivered
\* ones, keeps everything that was covered covered.
LEMMA CoverStep ==
  ASSUME IInv, CopiesCarryEvents',
         published \subseteq published', delivered \subseteq delivered',
         \A c \in Copies : queue[c] # "free" => body'[c] = body[c],
         \A c \in Copies : queue[c] \in {"ready", "delayed", "unacked"}
                              => queue'[c] \in {"ready", "delayed", "unacked"},
         \A c \in Copies : queue[c] = "dead" => queue'[c] = "dead",
         \A e \in published' \ published : Live(e)',
         \A r \in Runs : pc'[r] = "ack" =>
            \/ pc[r] = "ack" /\ msg'[r] = msg[r]
            \/ (msg[r].job \in delivered \/ Dead(msg[r].job) \/ LaterAttempt(msg[r]))'
  PROVE  AcksAreCovered' /\ NoEventIsLost'
<1>1. \A e \in EventIds : /\ Live(e) => Live(e)'
                          /\ Dead(e) => Dead(e)'
  BY DEF Live, Dead
<1>2. \A r \in Runs : pc[r] = "ack" /\ msg'[r] = msg[r] =>
        (msg[r].job \in delivered \/ Dead(msg[r].job) \/ LaterAttempt(msg[r]))'
  <2> TAKE r \in Runs
  <2> HAVE pc[r] = "ack" /\ msg'[r] = msg[r]
  <2>1. CASE msg[r].job \in delivered
    BY <2>1
  <2>2. CASE Dead(msg[r].job)
    BY <2>2 DEF Dead
  <2>3. CASE LaterAttempt(msg[r])
    BY <2>3 DEF LaterAttempt
  <2> QED
    BY <2>1, <2>2, <2>3 DEF IInv, AcksAreCovered
<1>3. AcksAreCovered'
  BY <1>2 DEF AcksAreCovered
<1>4. NoEventIsLost'
  <2> SUFFICES ASSUME NEW e \in published'
               PROVE  Live(e)' \/ e \in delivered' \/ Dead(e)'
    BY DEF NoEventIsLost
  <2>1. CASE e \in published
    BY <1>1, <2>1 DEF IInv, TypeOK, NoEventIsLost
  <2> QED
    BY <2>1
<1> QED
  BY <1>3, <1>4

\* The acknowledged message is covered by what the run did before.
LEMMA AckCovers ==
  ASSUME IInv, NEW r \in Runs, Ack(r)
  PROVE  AcksAreCovered' /\ NoEventIsLost'
<1> USE DEF Ack, Goto, receiverVars
<1> DEFINE c == held[r]
           Queued == {"ready", "delayed", "unacked"}
<1>1. /\ c \in Copies /\ queue[c] = "unacked" /\ body[c] = msg[r]
      /\ msg[r].job \in EventIds /\ msg[r].attempt \in 1..MaxAttempts
  BY ActiveRun
<1>2. \A d \in Copies \ {c} : queue'[d] = queue[d] /\ body'[d] = body[d]
  BY DEF IInv, TypeOK
<1>3. \A e : Dead(e) => Dead(e)'
  BY <1>1, <1>2 DEF Dead
<1>4. \A d \in Copies : queue[d] \in Queued => body[d] \in Message /\ body[d].attempt \in Nat
  BY DEF IInv, CopiesCarryEvents, Message
<1>5. LaterAttempt(msg[r]) =>
        \E d \in Copies \ {c} : /\ queue'[d] \in Queued /\ body'[d].job = msg[r].job
                                /\ body'[d].attempt > msg[r].attempt /\ body'[d].attempt \in Nat
  BY <1>1, <1>2, <1>4 DEF LaterAttempt
<1>6. AcksAreCovered'
  <2> SUFFICES ASSUME NEW s \in Runs, pc'[s] = "ack"
               PROVE  msg[s].job \in delivered \/ Dead(msg[s].job)' \/ LaterAttempt(msg[s])'
    BY DEF AcksAreCovered
  <2>1. s # r /\ pc[s] = "ack"
    BY DEF IInv, TypeOK
  <2>2. msg[s].attempt \in Nat
    BY <2>1, ActiveRun
  <2>3. CASE LaterAttempt(msg[s])
    <3> PICK d \in Copies : /\ queue[d] \in Queued /\ body[d].job = msg[s].job
                            /\ body[d].attempt > msg[s].attempt
      BY <2>3 DEF LaterAttempt
    <3>1. CASE d # c
      BY <1>2, <3>1 DEF LaterAttempt
    <3>2. CASE d = c
      <4>1. msg[r].job = msg[s].job /\ msg[r].attempt > msg[s].attempt
        BY <1>1, <3>2
      <4>2. LaterAttempt(msg[r]) => LaterAttempt(msg[s])'
        BY <1>1, <1>5, <2>2, <4>1 DEF LaterAttempt
      <4> QED
        BY <1>3, <4>1, <4>2 DEF IInv, AcksAreCovered
    <3> QED
      BY <3>1, <3>2
  <2> QED
    BY <1>3, <2>1, <2>3 DEF IInv, AcksAreCovered
<1>7. NoEventIsLost'
  <2> SUFFICES ASSUME NEW e \in published
               PROVE  Live(e)' \/ e \in delivered \/ Dead(e)'
    BY DEF NoEventIsLost
  <2>1. CASE Live(e)
    <3> PICK d \in Copies : queue[d] \in Queued /\ body[d].job = e
      BY <2>1 DEF Live
    <3>1. CASE d # c
      BY <1>2, <3>1 DEF Live
    <3>2. CASE d = c
      <4>1. e = msg[r].job
        BY <1>1, <3>2
      <4>2. LaterAttempt(msg[r]) => Live(e)'
        BY <1>5, <4>1 DEF Live
      <4> QED
        BY <1>3, <4>1, <4>2 DEF IInv, AcksAreCovered
    <3> QED
      BY <3>1, <3>2
  <2> QED
    BY <1>3, <2>1 DEF IInv, NoEventIsLost
<1> QED
  BY <1>6, <1>7

LEMMA CoveredStep == IInv /\ [Next]_vars => AcksAreCovered' /\ NoEventIsLost'
<1> SUFFICES ASSUME IInv, [Next]_vars PROVE AcksAreCovered' /\ NoEventIsLost'
  OBVIOUS
<1>0. CopiesCarryEvents'
  BY HoldStep
<1> USE DEF Goto, Send, brokerVars, runVars, receiverVars
<1>1. ASSUME NEW e \in EventIds, ReceiveLate(e) PROVE AcksAreCovered' /\ NoEventIsLost'
  BY <1>0, <1>1, CoverStep DEF ReceiveLate
<1>2. ASSUME NEW e \in EventIds, NEW c \in Copies, Publish(e, c) PROVE AcksAreCovered' /\ NoEventIsLost'
  <2>1. Live(e)'
    BY <1>2 DEF Publish, Live, IInv, TypeOK
  <2> QED
    BY <1>0, <1>2, <2>1, CoverStep DEF Publish, IInv, TypeOK
<1>3. ASSUME NEW r \in Runs, NEW c \in Copies, Deliver(r, c) PROVE AcksAreCovered' /\ NoEventIsLost'
  BY <1>0, <1>3, CoverStep DEF Deliver, IInv, TypeOK
<1>4. ASSUME NEW r \in Runs, Receive(r) \/ Failed(r) PROVE AcksAreCovered' /\ NoEventIsLost'
  BY <1>0, <1>4, CoverStep DEF Receive, Failed, IInv, TypeOK
<1>5. ASSUME NEW r \in Runs, Answered(r) PROVE AcksAreCovered' /\ NoEventIsLost'
  BY <1>0, <1>5, CoverStep DEF Answered, IInv, TypeOK
<1>6. ASSUME NEW r \in Runs, NEW c \in Copies, Retry(r, c) PROVE AcksAreCovered' /\ NoEventIsLost'
  <2>1. /\ queue' = [queue EXCEPT ![c] = "delayed"] /\ queue[c] = "free"
        /\ body' = [body EXCEPT ![c] = [msg[r] EXCEPT !.attempt = @ + 1]]
        /\ pc' = [pc EXCEPT ![r] = "ack"]
        /\ UNCHANGED <<published, delivered, msg>>
    BY <1>6 DEF Retry
  <2>2. msg[r] \in Message /\ msg[r].attempt \in 1..MaxAttempts
    BY <1>6, ActiveRun DEF Retry
  <2>3. LaterAttempt(msg[r])'
    BY <2>1, <2>2 DEF LaterAttempt, Message, IInv, TypeOK
  <2> QED
    BY <1>0, <2>1, <2>3, CoverStep DEF IInv, TypeOK
<1>7. ASSUME NEW r \in Runs, NEW c \in Copies, GiveUp(r, c) PROVE AcksAreCovered' /\ NoEventIsLost'
  <2>1. Dead(msg[r].job)'
    BY <1>7 DEF GiveUp, Dead, IInv, TypeOK
  <2> QED
    BY <1>0, <1>7, <2>1, CoverStep DEF GiveUp, IInv, TypeOK
<1>8. ASSUME NEW r \in Runs, Ack(r) PROVE AcksAreCovered' /\ NoEventIsLost'
  BY <1>8, AckCovers
<1>9. ASSUME NEW c \in Copies, RetryExpires(c) PROVE AcksAreCovered' /\ NoEventIsLost'
  BY <1>0, <1>9, CoverStep DEF RetryExpires, IInv, TypeOK
<1>10. ASSUME NEW w \in Workers, Crash(w) PROVE AcksAreCovered' /\ NoEventIsLost'
  <2>1. \A c \in Copies : queue'[c] = queue[c] \/ (queue[c] = "unacked" /\ queue'[c] = "ready")
    BY <1>10 DEF Crash, IInv, TypeOK, RunsHoldCopies
  <2>2. \A r \in Runs : pc'[r] = "ack" => pc[r] = "ack"
    BY <1>10 DEF Crash
  <2>3. UNCHANGED <<published, body, msg, delivered>>
    BY <1>10 DEF Crash
  <2> QED
    BY <1>0, <2>1, <2>2, <2>3, CoverStep
<1>11. CASE UNCHANGED vars
  BY <1>0, <1>11, CoverStep DEF vars
<1> QED
  BY <1>1, <1>2, <1>3, <1>4, <1>5, <1>6, <1>7, <1>8, <1>9, <1>10, <1>11 DEF Next, RunNext

\* The inductive invariant holds in every reachable state.
THEOREM Inductive == Spec => []IInv
<1>1. IInv /\ [Next]_vars => IInv'
  BY TypeStep, HoldStep, CoveredStep DEF IInv
<1> QED
  BY <1>1, InitIInv, PTL DEF Spec

\* Every variable of the dispatcher keeps its type; no event is ever queued with an
\* attempt beyond MaxAttempts (handleMessage of webhook-dispatcher.service.ts).
THEOREM TypeCorrect == Spec => []TypeOK
<1>1. IInv => TypeOK
  BY DEF IInv
<1> QED
  BY <1>1, Inductive, PTL

\* An event that has left the queues was answered with a 2xx or is a dead letter,
\* whatever failed and whoever died (the order of sendToQueue and ack in handleMessage).
THEOREM EventsAreKept == Spec => []NoEventIsLost
<1>1. IInv => NoEventIsLost
  BY DEF IInv
<1> QED
  BY <1>1, Inductive, PTL

-----------------------------------------------------------------------------
(* The dispatcher implements the retry queue                               *)

Resolved == {held[r] : r \in {q \in Runs : pc[q] = "ack"}}

LEMMA InitRefines == Init => Broker!Init
BY DEF Init, Broker!Init

LEMMA StepRefines == IInv /\ [Next]_vars => [Broker!Next]_(Broker!vars)
<1> SUFFICES ASSUME IInv, [Next]_vars PROVE [Broker!Next]_(Broker!vars)
  OBVIOUS
<1> USE DEF IInv, TypeOK, RunsHoldCopies, Goto, Send, brokerVars, runVars, receiverVars
<1>1. ASSUME NEW e \in EventIds, ReceiveLate(e) PROVE UNCHANGED Broker!vars
  BY <1>1 DEF ReceiveLate, Broker!vars
<1>2. ASSUME NEW e \in EventIds, NEW c \in Copies, Publish(e, c) PROVE Broker!Publish(c, e)
  BY <1>2 DEF Publish, Broker!Publish, Broker!Send, Broker!Move
<1>3. ASSUME NEW r \in Runs, NEW c \in Copies, Deliver(r, c) PROVE Broker!Take(c)
  <2>1. Resolved' = Resolved
    BY <1>3 DEF Deliver, Resolved
  <2> QED
    BY <1>3, <2>1 DEF Deliver, Resolved, Broker!Take, Broker!Move
<1>4. ASSUME NEW r \in Runs, Receive(r) \/ Failed(r) PROVE UNCHANGED Broker!vars
  BY <1>4 DEF Receive, Failed, Broker!vars
<1>5. ASSUME NEW r \in Runs, pc[r] # "free", pc[r] # "ack", pc' = [pc EXCEPT ![r] = "ack"], held' = held
      PROVE  /\ Resolved' = Resolved \cup {held[r]}
             /\ held[r] \notin Resolved /\ queue[held[r]] = "unacked" /\ held[r] \in Copies
  BY <1>5, ActiveRun DEF Resolved
<1>6. ASSUME NEW r \in Runs, Answered(r) PROVE \E c \in Copies : Broker!Succeed(c)
  <2> PICK c \in Copies : c = held[r]
    BY <1>6, ActiveRun DEF Answered
  <2> QED
    BY <1>5, <1>6 DEF Answered, Resolved, Broker!Succeed, Broker!Resolve
<1>7. ASSUME NEW r \in Runs, NEW d \in Copies, Retry(r, d)
      PROVE  \E c \in Copies : Broker!Retry(c, d)
  <2> PICK c \in Copies : c = held[r]
    BY <1>7, ActiveRun DEF Retry
  <2>1. Broker!Retry(c, d)
    BY <1>5, <1>7, ActiveRun DEF Retry, Resolved, Broker!Retry, Broker!Resolve, Broker!Send, Broker!Move
  <2> QED
    BY <2>1
<1>8. ASSUME NEW r \in Runs, NEW d \in Copies, GiveUp(r, d)
      PROVE  \E c \in Copies : Broker!DeadLetter(c, d)
  <2> PICK c \in Copies : c = held[r]
    BY <1>8, ActiveRun DEF GiveUp
  <2>1. msg[r].attempt = MaxAttempts
    BY <1>8, ActiveRun DEF GiveUp
  <2>2. Broker!DeadLetter(c, d)
    BY <1>5, <1>8, <2>1, ActiveRun
    DEF GiveUp, Resolved, Broker!DeadLetter, Broker!Resolve, Broker!Send, Broker!Move
  <2> QED
    BY <2>2
<1>9. ASSUME NEW r \in Runs, Ack(r) PROVE \E c \in Copies : Broker!Ack(c)
  <2> PICK c \in Copies : c = held[r]
    BY <1>9, ActiveRun DEF Ack
  <2>1. Resolved' = Resolved \ {c} /\ c \in Resolved
    BY <1>9, ActiveRun DEF Ack, Resolved
  <2>2. Broker!Ack(c)
    BY <1>9, <2>1, ActiveRun DEF Ack, Resolved, Broker!Ack, Broker!Move
  <2> QED
    BY <2>2
<1>10. ASSUME NEW c \in Copies, RetryExpires(c) PROVE Broker!Expire(c)
  BY <1>10 DEF RetryExpires, Broker!Expire, Broker!Move
<1>11. ASSUME NEW w \in Workers, Crash(w)
       PROVE  \E lost \in SUBSET Copies : Broker!Redeliver(lost)
  <2> DEFINE dead == {r \in Runs : Host[r] = w}
             back == {held[r] : r \in dead}
  <2> PICK lost \in SUBSET Copies : lost = back \cap Copies
    OBVIOUS
  <2>1. \A c \in lost : queue[c] = "unacked"
    OBVIOUS
  <2>2. queue' = [c \in Copies |-> IF c \in lost THEN "ready" ELSE queue[c]]
    BY <1>11 DEF Crash
  <2>3. Resolved' = Resolved \ lost
    <3>1. /\ held' = [r \in Runs |-> IF r \in dead THEN NoCopy ELSE held[r]]
          /\ pc' = [r \in Runs |-> IF r \in dead THEN "free" ELSE pc[r]]
      BY <1>11 DEF Crash
    <3>2. \A c : c \in Resolved' <=> \E r \in Runs \ dead : pc[r] = "ack" /\ c = held[r]
      BY <3>1 DEF Resolved
    <3>3. \A c : c \in Resolved \ lost <=> \E r \in Runs \ dead : pc[r] = "ack" /\ c = held[r]
      BY ActiveRun DEF Resolved
    <3> QED
      BY <3>2, <3>3
  <2>4. UNCHANGED <<published, body>>
    BY <1>11 DEF Crash
  <2>5. Broker!Redeliver(lost)
    BY <2>1, <2>2, <2>3, <2>4 DEF Broker!Redeliver, Resolved
  <2> QED
    BY <2>5
<1>12. CASE UNCHANGED vars
  BY <1>12 DEF vars, Broker!vars
<1> HIDE DEF IInv, TypeOK, RunsHoldCopies, Goto, Send, brokerVars, runVars, receiverVars
<1> QED
  BY <1>1, <1>2, <1>3, <1>4, <1>6, <1>7, <1>8, <1>9, <1>10, <1>11, <1>12
  DEF Next, RunNext, Broker!Next

\* The dispatcher implements the abstract retry queue: it acknowledges a delivery only
\* once it was answered, its next attempt is queued or its dead letter is, and a worker
\* that dies gives back what it had (handleMessage and onModuleDestroy).
THEOREM Implements == Spec => ImplementsRetryQueue
<1>1. Spec => [][IInv /\ [Next]_vars]_vars
  BY Inductive, PTL DEF Spec
<1> QED
  BY InitRefines, StepRefines, Inductive, PTL DEF Spec, ImplementsRetryQueue, Broker!Spec
-----------------------------------------------------------------------------
(* The number of POSTs                                                     *)

\* There are as many lines as sets of crashes.
LEMMA SlotsCount ==
  ASSUME TypeOK
  PROVE  /\ IsFiniteSet(Slots) /\ Cardinality(Slots) = MaxAttempts * 2^crashes
         /\ Cardinality(Slots) \in Nat
<1>1. crashes \in Nat
  BY DEF TypeOK
<1>2. IsFiniteSet(1..crashes) /\ Cardinality(1..crashes) = crashes
  BY <1>1, FS_Interval
<1>3. IsFiniteSet(1..MaxAttempts) /\ Cardinality(1..MaxAttempts) = MaxAttempts
  BY FS_Interval
<1>4. IsFiniteSet(Lines) /\ Cardinality(Lines) = 2^crashes /\ Cardinality(Lines) \in Nat
  BY <1>2, FS_SUBSET, FS_CardinalityType DEF Lines
<1>5. IsFiniteSet(Slots) /\ Cardinality(Slots) = Cardinality(Lines) * MaxAttempts
  BY <1>3, <1>4, FS_Product DEF Slots
<1> QED
  BY <1>4, <1>5

LEMMA InitPosts == Init => PostsAreOnLines
<1> SUFFICES ASSUME Init PROVE PostsAreOnLines
  OBVIOUS
<1>1. ASSUME NEW e \in EventIds
      PROVE  \E line \in [Copies -> Lines], made \in SUBSET Slots : Ordered(e, line, made)
  <2>1. Ordered(e, [c \in Copies |-> {}], {})
    BY FS_EmptySet DEF Init, Ordered, Active
  <2>2. [c \in Copies |-> {}] \in [Copies -> Lines]
    BY DEF Lines
  <2> QED
    BY <2>1, <2>2
<1> QED
  BY <1>1 DEF PostsAreOnLines

\* A copy that a run holds, not yet to acknowledge it, is active.
LEMMA HeldIsActive ==
  ASSUME IInv, NEW r \in Runs, pc[r] \notin {"free", "ack"}
  PROVE  Active(msg[r].job, held[r])
BY ActiveRun DEF Active, IInv, RunsHoldCopies

\* A step without a POST keeps the lines of an event, if it makes no copy of it active.
LEMMA LinesKept ==
  ASSUME NEW e \in EventIds, NEW line, NEW made, Ordered(e, line, made),
         posts'[e] = posts[e], e \notin published' => e \notin published,
         \A c \in Copies : Active(e, c)' =>
            Active(e, c) /\ body'[c] = body[c] /\ (queue'[c] # "unacked" => queue[c] # "unacked"),
         \A r \in Runs : pc'[r] # "free" /\ msg'[r].job = e =>
            pc[r] # "free" /\ msg'[r] = msg[r] /\ held'[r] = held[r]
  PROVE  Ordered(e, line, made)'
BY DEF Ordered

\* The first message of an event may be in any line, as nothing was posted before.
LEMMA PublishOrders ==
  ASSUME IInv, NEW e \in EventIds, NEW f \in EventIds, NEW c \in Copies, Publish(f, c),
         NEW line, NEW made, Ordered(e, line, made)
  PROVE  Ordered(e, line, made)'
<1> USE DEF IInv, TypeOK, Publish, Send, runVars, receiverVars
<1>1. \A d \in Copies \ {c} : queue'[d] = queue[d] /\ body'[d] = body[d]
  OBVIOUS
<1>2. body'[c] = [job |-> f, attempt |-> 1] /\ queue'[c] = "ready" /\ queue[c] = "free"
  OBVIOUS
<1>3. \A d \in Copies \ {c} : Active(e, d)' <=> Active(e, d)
  BY <1>1 DEF Active
<1>4. CASE e # f
  <2>1. ~Active(e, c)'
    BY <1>2, <1>4 DEF Active
  <2> QED
    BY <1>1, <1>3, <1>4, <2>1, LinesKept
<1>5. CASE e = f
  <2>1. \A d \in Copies : ~Active(e, d)
    BY <1>5 DEF Active, CopiesCarryEvents
  <2>2. \A d \in Copies : Active(e, d)' => d = c
    BY <1>3, <2>1
  <2>3. \A r \in Runs : pc[r] # "free" => msg[r].job # e
    BY <1>5, ActiveRun
  <2>4. made = {} /\ Cardinality(made) = posts[e]
    BY <1>5 DEF Ordered
  <2> QED
    BY <1>5, <2>2, <2>3, <2>4 DEF Ordered
<1> QED
  BY <1>4, <1>5

\* A POST is the attempt of its message in the line of its copy.
LEMMA DeliverOrders ==
  ASSUME IInv, NEW r \in Runs, NEW c \in Copies, Deliver(r, c), NEW e, e = body[c].job,
         NEW line \in [Copies -> Lines], NEW made \in SUBSET Slots, Ordered(e, line, made)
  PROVE  \E more \in SUBSET Slots : Ordered(e, line, more)'
<1> PICK slot : slot = <<line[c], body[c].attempt>>
  OBVIOUS
<1>1. /\ queue[c] = "ready" /\ pc[r] = "free" /\ AtAwait(Host[r])
      /\ queue' = [queue EXCEPT ![c] = "unacked"] /\ held' = [held EXCEPT ![r] = c]
      /\ msg' = [msg EXCEPT ![r] = body[c]] /\ posts' = [posts EXCEPT ![e] = @ + 1]
      /\ pc' = [pc EXCEPT ![r] = "posting"]
      /\ body' = body /\ published' = published /\ crashes' = crashes
  BY DEF Deliver, Goto
<1>2. /\ body[c] \in Message /\ e \in published /\ e \in EventIds /\ body[c].attempt \in 1..MaxAttempts
      /\ \A s \in Runs : held[s] # c
  BY <1>1 DEF IInv, TypeOK, CopiesCarryEvents, RunsHoldCopies, Message
<1>3. /\ queue \in [Copies -> {"free", "ready", "delayed", "unacked", "dead"}]
      /\ held \in [Runs -> Copies \cup {NoCopy}] /\ pc \in [Runs -> Steps]
      /\ msg \in [Runs -> Message \cup {NoMessage}] /\ posts \in [EventIds -> Nat]
  BY DEF IInv, TypeOK
<1>4. Active(e, c)
  BY <1>1, <1>2 DEF Active
<1>5. \A d \in Copies : Active(e, d)' <=> Active(e, d)
  <2>1. c \in Copies /\ Active(e, c)'
    BY <1>1, <1>2, <1>3 DEF Active
  <2>2. ASSUME NEW d \in Copies \ {c} PROVE Active(e, d)' <=> Active(e, d)
    BY <1>1, <1>3, <2>2 DEF Active, IInv, RunsHoldCopies
  <2> QED
    BY <1>4, <2>1, <2>2
<1>6. made \cup {slot} \in SUBSET Slots
  BY <1>2 DEF Slots
<1>7. Cardinality(made \cup {slot}) = posts'[e]
  <2>1. slot \notin made
    BY <1>1, <1>2, <1>4 DEF Ordered
  <2>2. IsFiniteSet(made)
    <3>1. IsFiniteSet(Slots)
      BY SlotsCount DEF IInv
    <3> QED
      BY <3>1, FS_Subset
  <2>3. Cardinality(made \cup {slot}) = Cardinality(made) + 1
    BY <2>1, <2>2, FS_AddElement
  <2>4. Cardinality(made) = posts[e]
    BY DEF Ordered
  <2>5. posts'[e] = posts[e] + 1
    BY <1>1, <1>2, <1>3
  <2> QED
    BY <2>3, <2>4, <2>5
<1>8. \A d \in Copies, a \in 1..MaxAttempts : Active(e, d)' /\ <<line[d], a>> \in made \cup {slot} =>
        a <= body'[d].attempt /\ (queue'[d] # "unacked" => a # body'[d].attempt)
  <2> SUFFICES ASSUME NEW d \in Copies, NEW a \in 1..MaxAttempts, Active(e, d),
                      <<line[d], a>> \in made \cup {slot}
               PROVE  a <= body[d].attempt /\ (queue'[d] # "unacked" => a # body[d].attempt)
    BY <1>1, <1>5
  <2>1. CASE d = c
    BY <1>1, <1>2, <1>3, <1>4, <2>1 DEF Ordered
  <2>2. CASE d # c
    <3>1. line[d] # line[c]
      BY <1>4, <2>2 DEF Ordered
    <3>2. <<line[d], a>> \in made
      BY <3>1
    <3> QED
      BY <1>1, <1>3, <2>2, <3>2 DEF Ordered
  <2> QED
    BY <2>1, <2>2
<1>9. \A q, s \in Runs : /\ Host[q] = Host[s] /\ pc'[q] # "free" /\ pc'[s] # "free"
                         /\ msg'[q].job = e /\ msg'[s].job = e /\ line[held'[q]] = line[held'[s]]
                         => q = s
  <2>1. ASSUME NEW s \in Runs \ {r}, Host[s] = Host[r], pc[s] # "free", msg[s].job = e,
               line[held[s]] = line[c]
        PROVE  FALSE
    <3>1. pc[s] # "ack"
      BY <1>1, <2>1 DEF AtAwait
    <3>2. Active(e, held[s]) /\ held[s] \in Copies
      BY <2>1, <3>1, HeldIsActive, ActiveRun
    <3> QED
      BY <1>2, <1>4, <2>1, <3>2 DEF Ordered
  <2>2. /\ pc'[r] = "posting" /\ held'[r] = c
        /\ \A s \in Runs \ {r} : pc'[s] = pc[s] /\ held'[s] = held[s] /\ msg'[s] = msg[s]
    BY <1>1, <1>3
  <2> QED
    BY <2>1, <2>2 DEF Ordered
<1>10. Ordered(e, line, made \cup {slot})'
  BY <1>1, <1>2, <1>5, <1>7, <1>8, <1>9 DEF Ordered
<1> QED
  BY <1>6, <1>10

\* A retry continues the line of its delivery, which is not active any more.
LEMMA RetryOrders ==
  ASSUME IInv, NEW r \in Runs, NEW c \in Copies, Retry(r, c), NEW e, e = msg[r].job,
         NEW line \in [Copies -> Lines], NEW made, Ordered(e, line, made)
  PROVE  \E newLine \in [Copies -> Lines] : Ordered(e, newLine, made)'
<1> PICK h : h = held[r]
  OBVIOUS
<1> PICK newLine : newLine = [line EXCEPT ![c] = line[h]]
  OBVIOUS
<1>1. /\ queue[c] = "free" /\ pc[r] = "failed" /\ AtAwait(Host[r])
      /\ queue' = [queue EXCEPT ![c] = "delayed"]
      /\ body' = [body EXCEPT ![c] = [msg[r] EXCEPT !.attempt = @ + 1]]
      /\ pc' = [pc EXCEPT ![r] = "ack"]
      /\ held' = held /\ msg' = msg /\ posts' = posts /\ published' = published
  BY DEF Retry, Send, Goto
<1>2. /\ h \in Copies /\ queue[h] = "unacked" /\ body[h] = msg[r] /\ h # c
      /\ msg[r] \in Message /\ msg[r].attempt \in 1..MaxAttempts
      /\ Active(e, h)
  BY <1>1, ActiveRun, HeldIsActive
<1>3. /\ queue \in [Copies -> {"free", "ready", "delayed", "unacked", "dead"}]
      /\ body \in [Copies -> Message \cup {NoMessage}]
      /\ held \in [Runs -> Copies \cup {NoCopy}] /\ pc \in [Runs -> Steps]
  BY DEF IInv, TypeOK
<1>4. /\ queue'[c] = "delayed" /\ body'[c].job = e /\ body'[c].attempt = msg[r].attempt + 1
      /\ \A d \in Copies \ {c} : queue'[d] = queue[d] /\ body'[d] = body[d]
      /\ newLine[c] = line[h] /\ \A d \in Copies \ {c} : newLine[d] = line[d]
  BY <1>1, <1>2, <1>3 DEF Message
<1>5. ~Active(e, h)'
  BY <1>1, <1>2, <1>3 DEF Active
<1>6. ASSUME NEW d \in Copies, d # c, Active(e, d)'
      PROVE  Active(e, d) /\ d # h
  <2>1. d # h
    BY <1>5, <1>6 DEF Active
  <2>2. \A s \in Runs : held[s] = d => pc[s] # "ack"
    BY <1>1, <1>3, <1>6, <2>1 DEF Active
  <2>3. queue[d] \in {"ready", "delayed", "unacked"} /\ body[d].job = e
    BY <1>4, <1>6 DEF Active
  <2> QED
    BY <2>1, <2>2, <2>3 DEF Active
<1>7. ASSUME NEW d \in Copies, NEW a \in 1..MaxAttempts, Active(e, d)', <<newLine[d], a>> \in made
      PROVE  a <= body'[d].attempt /\ (queue'[d] # "unacked" => a # body'[d].attempt)
  <2>1. CASE d = c
    <3>1. a <= msg[r].attempt
      BY <1>2, <1>4, <1>7, <2>1 DEF Ordered
    <3> QED
      BY <1>2, <1>4, <2>1, <3>1
  <2>2. CASE d # c
    BY <1>4, <1>6, <1>7, <2>2 DEF Ordered
  <2> QED
    BY <2>1, <2>2
<1>8. ASSUME NEW d \in Copies, NEW b \in Copies, Active(e, d)', Active(e, b)', newLine[d] = newLine[b]
      PROVE  d = b
  <2>1. ASSUME NEW x \in Copies, x # c, Active(e, x)' PROVE line[x] # line[h]
    BY <1>2, <1>6, <2>1 DEF Ordered
  <2> QED
    BY <1>4, <1>6, <1>8, <2>1 DEF Ordered
<1>9. \A q, s \in Runs : /\ Host[q] = Host[s] /\ pc'[q] # "free" /\ pc'[s] # "free"
                         /\ msg'[q].job = e /\ msg'[s].job = e
                         /\ newLine[held'[q]] = newLine[held'[s]]
                         => q = s
  <2>1. \A s \in Runs : pc'[s] # "free" => pc[s] # "free"
    BY <1>1, <1>3
  <2>2. \A s \in Runs : pc[s] # "free" => held[s] \in Copies \ {c}
    BY <1>1, ActiveRun
  <2> QED
    BY <1>1, <1>4, <2>1, <2>2 DEF Ordered
<1>10. Ordered(e, newLine, made)'
  BY <1>1, <1>7, <1>8, <1>9 DEF Ordered
<1>11. newLine \in [Copies -> Lines]
  BY <1>2
<1> QED
  BY <1>10, <1>11

\* A crash opens a new line for every delivery that it brings back.
LEMMA CrashOrders ==
  ASSUME IInv, NEW w \in Workers, Crash(w), NEW e \in EventIds,
         NEW line \in [Copies -> Lines], NEW made \in SUBSET Slots, Ordered(e, line, made)
  PROVE  \E newLine \in [Copies -> Lines'] : Ordered(e, newLine, made)'
<1> DEFINE dead == {r \in Runs : Host[r] = w}
           back == {held[r] : r \in dead}
<1> PICK newLine :
       newLine = [c \in Copies |-> IF c \in back THEN line[c] \cup {crashes + 1} ELSE line[c]]
  OBVIOUS
<1>1. /\ crashes' = crashes + 1 /\ crashes \in Nat
      /\ queue' = [c \in Copies |-> IF c \in back THEN "ready" ELSE queue[c]]
      /\ held' = [r \in Runs |-> IF r \in dead THEN NoCopy ELSE held[r]]
      /\ pc' = [r \in Runs |-> IF r \in dead THEN "free" ELSE pc[r]]
      /\ body' = body /\ msg' = msg /\ posts' = posts /\ published' = published
  BY DEF Crash, IInv, TypeOK
<1>2. newLine \in [Copies -> Lines']
  BY <1>1 DEF Lines
<1>3. \A c \in Copies : crashes + 1 \notin line[c]
  BY <1>1 DEF Lines
<1>4. \A a : \A c \in Copies \cap back : <<newLine[c], a>> \notin made
  <2>1. \A x, a : <<x, a>> \in made => x \in Lines
    BY DEF Slots
  <2>2. \A c \in Copies \cap back : newLine[c] \notin Lines
    BY <1>1 DEF Lines
  <2> QED
    BY <2>1, <2>2
<1>5. ASSUME NEW c \in Copies \cap back
      PROVE  \E r \in Runs : Host[r] = w /\ held[r] = c /\ pc[r] # "free" /\ body[c] = msg[r]
  <2> PICK r \in dead : held[r] = c
    BY <1>5
  <2> QED
    BY DEF IInv, RunsHoldCopies
<1>6. ASSUME NEW c \in Copies, c \notin back, Active(e, c)' PROVE Active(e, c)
  <2>1. queue'[c] = queue[c] /\ body'[c] = body[c]
    BY <1>1, <1>6
  <2>2. \A r \in Runs : held[r] = c => r \notin dead
    BY <1>6
  <2>3. \A r \in Runs : held[r] = c => pc[r] # "ack"
    BY <1>1, <1>6, <2>2 DEF Active
  <2> QED
    BY <1>6, <2>1, <2>3 DEF Active
<1>7. ASSUME NEW c \in Copies, NEW a \in 1..MaxAttempts, Active(e, c)', <<newLine[c], a>> \in made
      PROVE  a <= body'[c].attempt /\ (queue'[c] # "unacked" => a # body'[c].attempt)
  <2>1. c \notin back
    BY <1>4, <1>7
  <2>2. queue'[c] = queue[c] /\ newLine[c] = line[c]
    BY <1>1, <2>1
  <2> QED
    BY <1>1, <1>6, <1>7, <2>1, <2>2 DEF Ordered
<1>8. ASSUME NEW c \in Copies, NEW d \in Copies, Active(e, c)', Active(e, d)', newLine[c] = newLine[d]
      PROVE  c = d
  <2>1. CASE c \in back /\ d \in back
    <3>1. /\ line[c] \cup {crashes + 1} = line[d] \cup {crashes + 1}
          /\ crashes + 1 \notin line[c] /\ crashes + 1 \notin line[d]
      BY <1>3, <1>8, <2>1
    <3>5. line[c] = line[d]
      BY <3>1
    <3>2. body[c].job = e /\ body[d].job = e
      BY <1>1, <1>8 DEF Active
    <3>3. PICK r \in Runs : Host[r] = w /\ held[r] = c /\ pc[r] # "free" /\ body[c] = msg[r]
      BY <1>5, <2>1
    <3>4. PICK s \in Runs : Host[s] = w /\ held[s] = d /\ pc[s] # "free" /\ body[d] = msg[s]
      BY <1>5, <2>1
    <3> QED
      BY <3>2, <3>3, <3>4, <3>5 DEF Ordered
  <2>2. CASE c \notin back /\ d \notin back
    <3>1. line[c] = line[d]
      BY <1>8, <2>2
    <3> QED
      BY <1>6, <1>8, <2>2, <3>1 DEF Ordered
  <2> QED
    BY <1>3, <1>8, <2>1, <2>2
<1>9. \A q, s \in Runs : /\ Host[q] = Host[s] /\ pc'[q] # "free" /\ pc'[s] # "free"
                         /\ msg'[q].job = e /\ msg'[s].job = e
                         /\ newLine[held'[q]] = newLine[held'[s]]
                         => q = s
  <2>1. ASSUME NEW s \in Runs, pc'[s] # "free"
        PROVE  pc[s] # "free" /\ held'[s] = held[s] /\ newLine[held[s]] = line[held[s]]
    <3>1. s \notin dead /\ pc[s] # "free" /\ held'[s] = held[s]
      BY <1>1, <2>1
    <3>2. held[s] \in Copies /\ held[s] \notin back
      BY <3>1, ActiveRun DEF IInv, RunsHoldCopies
    <3> QED
      BY <3>1, <3>2
  <2>2. msg' = msg
    BY <1>1
  <2>3. ASSUME NEW s \in Runs, pc'[s] # "free"
        PROVE  pc[s] # "free" /\ newLine[held'[s]] = line[held[s]]
    BY <2>1, <2>3
  <2> TAKE q, s \in Runs
  <2> HAVE /\ Host[q] = Host[s] /\ pc'[q] # "free" /\ pc'[s] # "free"
           /\ msg'[q].job = e /\ msg'[s].job = e
           /\ newLine[held'[q]] = newLine[held'[s]]
  <2>4. line[held[q]] = line[held[s]]
    BY <2>3
  <2>5. pc[q] # "free" /\ pc[s] # "free" /\ msg[q].job = e /\ msg[s].job = e
    BY <2>2, <2>3
  <2> QED
    BY <2>4, <2>5 DEF Ordered
<1>10. Ordered(e, newLine, made)'
  BY <1>1, <1>7, <1>8, <1>9 DEF Ordered
<1> QED
  BY <1>2, <1>10

\* The other steps of a run and of the broker
LEMMA QuietOrders ==
  ASSUME IInv, NEW e \in EventIds, NEW line, NEW made, Ordered(e, line, made),
         \/ UNCHANGED vars
         \/ \E f \in EventIds : ReceiveLate(f)
         \/ \E c \in Copies : RetryExpires(c)
         \/ \E r \in Runs : \/ Receive(r) \/ Answered(r) \/ Failed(r) \/ Ack(r)
                           \/ \E c \in Copies : GiveUp(r, c)
  PROVE  Ordered(e, line, made)'
<1> USE DEF IInv, TypeOK, RunsHoldCopies, Goto, Send, brokerVars, runVars, receiverVars, Active
<1>1. CASE UNCHANGED vars
  BY <1>1, LinesKept DEF vars
<1>2. ASSUME NEW f \in EventIds, ReceiveLate(f) PROVE Ordered(e, line, made)'
  BY <1>2, LinesKept DEF ReceiveLate
<1>3. ASSUME NEW c \in Copies, RetryExpires(c) PROVE Ordered(e, line, made)'
  BY <1>3, LinesKept DEF RetryExpires
<1>4. ASSUME NEW r \in Runs, Receive(r) PROVE Ordered(e, line, made)'
  BY <1>4, LinesKept DEF Receive
<1>5. ASSUME NEW r \in Runs, Answered(r) \/ Failed(r) PROVE Ordered(e, line, made)'
  BY <1>5, LinesKept DEF Answered, Failed
<1>6. ASSUME NEW r \in Runs, Ack(r) PROVE Ordered(e, line, made)'
  BY <1>6, LinesKept DEF Ack
<1>7. ASSUME NEW r \in Runs, NEW c \in Copies, GiveUp(r, c) PROVE Ordered(e, line, made)'
  BY <1>7, LinesKept DEF GiveUp
<1> QED
  BY <1>1, <1>2, <1>3, <1>4, <1>5, <1>6, <1>7

LEMMA NextPosts == IInv /\ PostsAreOnLines /\ [Next]_vars => PostsAreOnLines'
<1> SUFFICES ASSUME IInv, PostsAreOnLines, [Next]_vars PROVE PostsAreOnLines'
  OBVIOUS
<1> DEFINE Kept(e) == \E line \in [Copies -> Lines'], made \in SUBSET Slots' : Ordered(e, line, made)'
<1>1. ASSUME NEW e \in EventIds PROVE Kept(e)
  <2> PICK line \in [Copies -> Lines], made \in SUBSET Slots : Ordered(e, line, made)
    BY DEF PostsAreOnLines
  <2>1. ASSUME UNCHANGED crashes, Ordered(e, line, made)' PROVE Kept(e)
    BY <2>1 DEF Lines, Slots
  <2>2. ASSUME NEW r \in Runs, NEW c \in Copies, Deliver(r, c) PROVE Kept(e)
    <3>1. UNCHANGED crashes
      BY <2>2 DEF Deliver
    <3>2. CASE e = body[c].job
      <4>1. \E more \in SUBSET Slots : Ordered(e, line, more)'
        BY <2>2, <3>2, DeliverOrders
      <4> QED
        BY <3>1, <4>1 DEF Lines, Slots
    <3>3. CASE e # body[c].job
      <4>1. Ordered(e, line, made)'
        BY <2>2, <3>3, LinesKept DEF Deliver, Goto, IInv, TypeOK, RunsHoldCopies, CopiesCarryEvents,
           Message, Active
      <4> QED
        BY <2>1, <3>1, <4>1
    <3> QED
      BY <3>2, <3>3
  <2>3. ASSUME NEW r \in Runs, NEW c \in Copies, Retry(r, c) PROVE Kept(e)
    <3>1. UNCHANGED crashes
      BY <2>3 DEF Retry
    <3>2. CASE e = msg[r].job
      <4>1. \E newLine \in [Copies -> Lines] : Ordered(e, newLine, made)'
        BY <2>3, <3>2, RetryOrders
      <4> QED
        BY <3>1, <4>1 DEF Lines, Slots
    <3>3. CASE e # msg[r].job
      <4>1. /\ \A d \in Copies \ {c} : queue'[d] = queue[d] /\ body'[d] = body[d]
            /\ body'[c].job # e
        BY <2>3, <3>3, ActiveRun DEF Retry, Send, IInv, TypeOK, Message
      <4>2. \A d \in Copies : Active(e, d)' => Active(e, d) /\ d # c
        BY <2>3, <4>1 DEF Retry, Goto, Active, IInv, TypeOK
      <4>3. Ordered(e, line, made)'
        BY <2>3, <4>1, <4>2, LinesKept DEF Retry, Goto, IInv, TypeOK
      <4> QED
        BY <2>1, <3>1, <4>3
    <3> QED
      BY <3>2, <3>3
  <2>4. ASSUME NEW w \in Workers, Crash(w) PROVE Kept(e)
    <3>1. made \in SUBSET Slots'
      BY <2>4 DEF Crash, Slots, Lines, IInv, TypeOK
    <3> QED
      BY <2>4, <3>1, CrashOrders
  <2>5. ASSUME NEW f \in EventIds, NEW c \in Copies, Publish(f, c) PROVE Kept(e)
    <3>1. UNCHANGED crashes
      BY <2>5 DEF Publish
    <3> QED
      BY <2>1, <2>5, <3>1, PublishOrders
  <2>6. ASSUME \/ UNCHANGED vars
               \/ \E f \in EventIds : ReceiveLate(f)
               \/ \E c \in Copies : RetryExpires(c)
               \/ \E r \in Runs : \/ Receive(r) \/ Answered(r) \/ Failed(r) \/ Ack(r)
                                 \/ \E c \in Copies : GiveUp(r, c)
        PROVE  Kept(e)
    <3>1. UNCHANGED crashes
      BY <2>6 DEF vars, ReceiveLate, RetryExpires, Receive, Answered, Failed, Ack, GiveUp
    <3>2. Ordered(e, line, made)'
      BY <2>6, QuietOrders
    <3> QED
      BY <2>1, <3>1, <3>2
  <2> QED
    BY <2>2, <2>3, <2>4, <2>5, <2>6 DEF Next, RunNext
<1> QED
  BY <1>1 DEF PostsAreOnLines

\* An event is posted at most MaxAttempts times, and at most twice as often for every
\* crash, however many workers handle it and whichever of them dies between the retry and
\* the acknowledgement (handleMessage: no await is between them, so a worker leaves one
\* delivery at most with its retry sent).
THEOREM PostsBounded == Spec => []PostsAreBounded
<1>1. IInv /\ PostsAreOnLines /\ [Next]_vars => PostsAreOnLines'
  BY NextPosts
<1>2. IInv /\ PostsAreOnLines => PostsAreBounded
  <2> SUFFICES ASSUME IInv, PostsAreOnLines, NEW e \in EventIds
               PROVE  posts[e] <= MaxAttempts * 2^crashes
    BY DEF PostsAreBounded
  <2>1. PICK made \in SUBSET Slots : Cardinality(made) = posts[e]
    BY DEF PostsAreOnLines, Ordered
  <2>2. IsFiniteSet(Slots) /\ Cardinality(Slots) = MaxAttempts * 2^crashes
    BY SlotsCount DEF IInv
  <2> QED
    BY <2>1, <2>2, FS_Subset
<1> QED
  BY <1>1, <1>2, InitPosts, Inductive, PTL DEF Spec

=============================================================================
