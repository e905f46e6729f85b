-------------------------- MODULE WebhookDelivery ---------------------------
(***************************************************************************)
(* The delivery of webhook events: the API and the workers put an event on *)
(* the webhook queue, and the dispatcher of some worker POSTs it to the    *)
(* receiver.  Only a 2xx answer within the timeout counts as delivered;    *)
(* everything else goes through the delayed retry queue until the attempts *)
(* run out.                                                                *)
(*                                                                         *)
(* The receiver is not part of the system.  What a request does there and  *)
(* what the dispatcher learns of it are different things: a request that   *)
(* timed out, or whose sender died, may still be processed, and later.     *)
(*                                                                         *)
(* Unlike the job consumer the dispatcher sets no prefetch, so a worker    *)
(* handles as many deliveries at once as there are.                        *)
(***************************************************************************)
EXTENDS Naturals, FiniteSets

CONSTANTS
  EventIds,     \* events the API and the workers enqueue
  Workers,      \* worker processes
  Runs,         \* slots in which a dispatcher can run handleMessage
  Host,         \* the worker each run belongs to
  Copies,       \* message copies the broker can hold at one time
  NoCopy,       \* a run that holds no copy
  NoMessage,    \* the body of an unused copy
  MaxAttempts,  \* RABBITMQ_WEBHOOK_MAX_DELIVERY_ATTEMPTS
  MaxCrashes    \* bound on worker crashes

ASSUME DeliveryAssumption ==
  /\ Host \in [Runs -> Workers]
  /\ MaxAttempts \in Nat \ {0}
  /\ MaxCrashes \in Nat
  /\ NoCopy \notin Copies
  /\ IsFiniteSet(Runs)

Message == [job : EventIds, attempt : 1..MaxAttempts]

ASSUME NoEventMessageAssumption == NoMessage \notin Message

\* A run waits for the answer to its POST; the receiver has processed it; the
\* attempt failed, and the message is retried or given up; the delivery is to be
\* acknowledged.
Steps == {"free", "posting", "processed", "failed", "ack"}

VARIABLES
  published,  \* events enqueued so far
  queue,      \* broker: where each copy is
  body,       \* broker: the message each copy carries
  pc,         \* next step of each run
  held,       \* the copy a run has to acknowledge
  msg,        \* the message a run is about
  late,       \* per event, abandoned POSTs the receiver may still process
  posts,      \* per event, POSTs made
  received,   \* per event, POSTs the receiver processed
  delivered,  \* events the dispatcher saw a 2xx answer for
  crashes     \* worker crashes so far

brokerVars   == <<queue, body>>
runVars      == <<pc, held, msg>>
receiverVars == <<late, received>>
vars == <<published, brokerVars, runVars, receiverVars, posts, delivered, crashes>>

TypeOK ==
  /\ published \subseteq EventIds
  /\ queue \in [Copies -> {"free", "ready", "delayed", "unacked", "dead"}]
  /\ body \in [Copies -> Message \cup {NoMessage}]
  /\ pc \in [Runs -> Steps]
  /\ held \in [Runs -> Copies \cup {NoCopy}]
  /\ msg \in [Runs -> Message \cup {NoMessage}]
  /\ late \in [EventIds -> Nat]
  /\ posts \in [EventIds -> Nat]
  /\ received \in [EventIds -> Nat]
  /\ delivered \subseteq EventIds
  /\ crashes \in 0..MaxCrashes

Init ==
  /\ published = {}
  /\ queue = [c \in Copies |-> "free"]
  /\ body = [c \in Copies |-> NoMessage]
  /\ pc = [r \in Runs |-> "free"]
  /\ held = [r \in Runs |-> NoCopy]
  /\ msg = [r \in Runs |-> NoMessage]
  /\ late = [e \in EventIds |-> 0]
  /\ posts = [e \in EventIds |-> 0]
  /\ received = [e \in EventIds |-> 0]
  /\ delivered = {}
  /\ crashes = 0

Goto(r, step) == pc' = [pc EXCEPT ![r] = step]

\* A copy enters a queue; used by every sendToQueue.
Send(c, where, m) ==
  /\ queue[c] = "free"
  /\ queue' = [queue EXCEPT ![c] = where]
  /\ body' = [body EXCEPT ![c] = m]

\* handleMessage does not await between what it sends and the ack, so nothing else
\* happens in a worker between them, except its end.
AtAwait(w) == \A r \in Runs : Host[r] = w => pc[r] # "ack"

-----------------------------------------------------------------------------
\* enqueueFromResult and publishFromResult.  Every call makes a new eventId.
Publish(e, c) ==
  /\ e \notin published
  /\ published' = published \cup {e}
  /\ Send(c, "ready", [job |-> e, attempt |-> 1])
  /\ UNCHANGED <<runVars, receiverVars, posts, delivered, crashes>>

\* The message is taken and its POST goes out.
Deliver(r, c) ==
  /\ AtAwait(Host[r])
  /\ pc[r] = "free"
  /\ queue[c] = "ready"
  /\ queue' = [queue EXCEPT ![c] = "unacked"]
  /\ held' = [held EXCEPT ![r] = c]
  /\ msg' = [msg EXCEPT ![r] = body[c]]
  /\ posts' = [posts EXCEPT ![body[c].job] = @ + 1]
  /\ Goto(r, "posting")
  /\ UNCHANGED <<published, body, receiverVars, delivered, crashes>>

\* The receiver processes the request and answers, if in time and with what is open.
Receive(r) ==
  /\ pc[r] = "posting"
  /\ received' = [received EXCEPT ![msg[r].job] = @ + 1]
  /\ Goto(r, "processed")
  /\ UNCHANGED <<published, brokerVars, held, msg, late, posts, delivered, crashes>>

\* ... or processes a request whose sender is no longer waiting.
ReceiveLate(e) ==
  /\ late[e] > 0
  /\ late' = [late EXCEPT ![e] = @ - 1]
  /\ received' = [received EXCEPT ![e] = @ + 1]
  /\ UNCHANGED <<published, brokerVars, runVars, posts, delivered, crashes>>

\* Mutation of Answered: an answer is a delivery, whatever its status.
AnsweredAnyStatus(r) ==
  /\ AtAwait(Host[r])
  /\ pc[r] \in {"posting", "processed"}
  /\ delivered' = IF pc[r] = "processed" THEN delivered \cup {msg[r].job} ELSE delivered
  /\ Goto(r, "ack")
  /\ UNCHANGED <<published, brokerVars, held, msg, receiverVars, posts, crashes>>

\* A 2xx answer arrives.
Answered(r) ==
  /\ AtAwait(Host[r])
  /\ pc[r] = "processed"
  /\ delivered' = delivered \cup {msg[r].job}
  /\ Goto(r, "ack")
  /\ UNCHANGED <<published, brokerVars, held, msg, receiverVars, posts, crashes>>

\* Mutation of Failed: nothing ends a fetch without an answer.
FailedNoTimeout(r) ==
  /\ AtAwait(Host[r])
  /\ pc[r] = "processed"
  /\ Goto(r, "failed")
  /\ UNCHANGED <<published, brokerVars, held, msg, receiverVars, posts, delivered, crashes>>

\* The answer is not a 2xx, the connection breaks, or the timer aborts the fetch.
Failed(r) ==
  /\ AtAwait(Host[r])
  /\ pc[r] \in {"posting", "processed"}
  /\ late' = IF pc[r] = "posting" THEN [late EXCEPT ![msg[r].job] = @ + 1] ELSE late
  /\ Goto(r, "failed")
  /\ UNCHANGED <<published, brokerVars, held, msg, received, posts, delivered, crashes>>

\* Mutations of Retry: one attempt too many; the attempt number is not raised.
RetryOffByOne(r, c) ==
  /\ AtAwait(Host[r])
  /\ pc[r] = "failed"
  /\ msg[r].attempt <= MaxAttempts
  /\ Send(c, "delayed", [msg[r] EXCEPT !.attempt = @ + 1])
  /\ Goto(r, "ack")
  /\ UNCHANGED <<published, held, msg, receiverVars, posts, delivered, crashes>>

RetrySameAttempt(r, c) ==
  /\ AtAwait(Host[r])
  /\ pc[r] = "failed"
  /\ msg[r].attempt < MaxAttempts
  /\ Send(c, "delayed", msg[r])
  /\ Goto(r, "ack")
  /\ UNCHANGED <<published, held, msg, receiverVars, posts, delivered, crashes>>

Retry(r, c) ==
  /\ AtAwait(Host[r])
  /\ pc[r] = "failed"
  /\ msg[r].attempt < MaxAttempts
  /\ Send(c, "delayed", [msg[r] EXCEPT !.attempt = @ + 1])
  /\ Goto(r, "ack")
  /\ UNCHANGED <<published, held, msg, receiverVars, posts, delivered, crashes>>

\* Mutation of GiveUp: the last attempt is not made.
GiveUpEarly(r, c) ==
  /\ AtAwait(Host[r])
  /\ pc[r] = "failed"
  /\ msg[r].attempt >= MaxAttempts - 1
  /\ Send(c, "dead", msg[r])
  /\ Goto(r, "ack")
  /\ UNCHANGED <<published, held, msg, receiverVars, posts, delivered, crashes>>

GiveUp(r, c) ==
  /\ AtAwait(Host[r])
  /\ pc[r] = "failed"
  /\ msg[r].attempt >= MaxAttempts
  /\ Send(c, "dead", msg[r])
  /\ Goto(r, "ack")
  /\ UNCHANGED <<published, held, msg, receiverVars, posts, delivered, crashes>>

Ack(r) ==
  /\ pc[r] = "ack"
  /\ queue' = [queue EXCEPT ![held[r]] = "free"]
  /\ body' = [body EXCEPT ![held[r]] = NoMessage]
  /\ held' = [held EXCEPT ![r] = NoCopy]
  /\ Goto(r, "free")
  /\ UNCHANGED <<published, msg, receiverVars, posts, delivered, crashes>>

\* The message's expiration runs out in the retry queue.
RetryExpires(c) ==
  /\ queue[c] = "delayed"
  /\ queue' = [queue EXCEPT ![c] = "ready"]
  /\ UNCHANGED <<published, body, runVars, receiverVars, posts, delivered, crashes>>

\* Requests of the runs in R that the receiver has not seen
Unseen(e, R) == Cardinality({r \in R : pc[r] = "posting" /\ msg[r].job = e})

\* A worker dies, or is shut down while it handles deliveries: onModuleDestroy
\* closes the channel and does not wait for them.
Crash(w) ==
  /\ crashes < MaxCrashes
  /\ crashes' = crashes + 1
  /\ LET dead == {r \in Runs : Host[r] = w}
         back == {held[r] : r \in dead}
     IN /\ queue' = [c \in Copies |-> IF c \in back THEN "ready" ELSE queue[c]]
        /\ held' = [r \in Runs |-> IF r \in dead THEN NoCopy ELSE held[r]]
        /\ pc' = [r \in Runs |-> IF r \in dead THEN "free" ELSE pc[r]]
        /\ late' = [e \in EventIds |-> late[e] + Unseen(e, dead)]
  /\ UNCHANGED <<published, body, msg, received, posts, delivered>>

-----------------------------------------------------------------------------
RunNext(r) ==
  \/ \E c \in Copies : Deliver(r, c) \/ Retry(r, c) \/ GiveUp(r, c)
  \/ Answered(r) \/ Failed(r) \/ Ack(r)

Next ==
  \/ \E e \in EventIds : ReceiveLate(e) \/ \E c \in Copies : Publish(e, c)
  \/ \E r \in Runs : Receive(r) \/ RunNext(r)
  \/ \E c \in Copies : RetryExpires(c)
  \/ \E w \in Workers : Crash(w)

Spec == Init /\ [][Next]_vars

\* The dispatcher goes on and its timer ends every fetch; the receiver may never
\* process a request.
Fairness == /\ \A r \in Runs : WF_vars(RunNext(r))
            /\ \A c \in Copies : WF_vars(RetryExpires(c))

FairSpec == Spec /\ Fairness

-----------------------------------------------------------------------------
Live(e) == \E c \in Copies : /\ queue[c] \in {"ready", "delayed", "unacked"}
                            /\ body[c].job = e

Dead(e) == \E c \in Copies : queue[c] = "dead" /\ body[c].job = e

\* An event that has left the queues was answered with a 2xx or is in the dead-letter
\* queue, whatever failed or crashed on the way.
NoEventIsLost == \A e \in published : Live(e) \/ e \in delivered \/ Dead(e)

\* "Maximum delivery attempts before dead-letter" (sdk/webhooks.mdx): the receiver gets
\* an event at most that often, and at most twice as often for every worker crash,
\* each of which can leave a retry and bring its delivery back.
PostsAreBounded == \A e \in EventIds : posts[e] <= MaxAttempts * 2^crashes

\* The dispatcher implements the abstract queue.
Broker == INSTANCE RetryQueue WITH
  Ids <- EventIds,
  resolved <- {held[r] : r \in {q \in Runs : pc[q] = "ack"}}

ImplementsRetryQueue == Broker!Spec

\* Every event is settled, though the receiver never answers.
EveryEventSettles == \A e \in EventIds : e \in published ~> e \in delivered \/ Dead(e)

-----------------------------------------------------------------------------
(* The inductive invariant behind NoEventIsLost and ImplementsRetryQueue *)

\* A copy that is in use carries a message about an event that was enqueued.
CopiesCarryEvents ==
  \A c \in Copies : queue[c] # "free" => body[c] \in Message /\ body[c].job \in published

\* A run that is at work holds one copy, its own, and works on that copy's message.
RunsHoldCopies ==
  \A r \in Runs :
     /\ held[r] = NoCopy <=> pc[r] = "free"
     /\ held[r] # NoCopy => queue[held[r]] = "unacked" /\ body[held[r]] = msg[r]
     /\ \A s \in Runs : held[r] = held[s] /\ held[r] # NoCopy => r = s

\* A delivery is acknowledged when its event was delivered, is dead or is queued with a
\* later attempt.  (Without the order on attempts two runs could each rely on the
\* other's copy.)
LaterAttempt(m) == \E c \in Copies : /\ queue[c] \in {"ready", "delayed", "unacked"}
                                    /\ body[c].job = m.job
                                    /\ body[c].attempt > m.attempt

AcksAreCovered ==
  \A r \in Runs : pc[r] = "ack" =>
     msg[r].job \in delivered \/ Dead(msg[r].job) \/ LaterAttempt(msg[r])

IInv == /\ TypeOK
        /\ CopiesCarryEvents
        /\ RunsHoldCopies
        /\ AcksAreCovered
        /\ NoEventIsLost

(* Behind PostsAreBounded.  Every copy of an event is in a line: its first message is in
   some line, a retry continues that of its delivery, and a crash opens one for every
   delivery it brings back.  So a line is a set of crashes, and two POSTs of an event
   are not of one line and one attempt. *)
Lines == SUBSET (1..crashes)
Slots == Lines \X (1..MaxAttempts)

\* Copy c will be posted, or retried.
Active(e, c) == /\ queue[c] \in {"ready", "delayed", "unacked"} /\ body[c].job = e
                /\ \A r \in Runs : held[r] = c => pc[r] # "ack"

\* What has been made of an event's POSTs, and the line of each of its copies
Ordered(e, line, made) ==
  /\ Cardinality(made) = posts[e]
  /\ e \notin published => made = {}
  /\ \A c \in Copies, a \in 1..MaxAttempts : Active(e, c) /\ <<line[c], a>> \in made =>
       a <= body[c].attempt /\ (queue[c] # "unacked" => a # body[c].attempt)
  /\ \A c, d \in Copies : Active(e, c) /\ Active(e, d) /\ line[c] = line[d] => c = d
  /\ \A r, s \in Runs : /\ Host[r] = Host[s] /\ pc[r] # "free" /\ pc[s] # "free"
                        /\ msg[r].job = e /\ msg[s].job = e /\ line[held[r]] = line[held[s]]
                        => r = s

PostsAreOnLines ==
  \A e \in EventIds : \E line \in [Copies -> Lines], made \in SUBSET Slots : Ordered(e, line, made)
=============================================================================
