--------------------------- MODULE WorkerRegistry ---------------------------
(***************************************************************************)
(* Which workers the API takes to be alive, and which of them it sends a   *)
(* targeted job to.  A worker adds its id to an index and writes a key     *)
(* with a TTL, every ten seconds and at both ends of a job; when it shuts  *)
(* down it deletes both, while a heartbeat may still be under way.  The    *)
(* API reads the index, then each key, and takes ids whose key is gone out *)
(* of the index.  Every Redis command is a step.                           *)
(*                                                                         *)
(* Time is left out: a key may expire whenever nothing has just written    *)
(* it, as it does for a worker whose event loop is busy for 30 seconds.    *)
(***************************************************************************)
EXTENDS Integers, FiniteSets, SequencesExt

CONSTANTS
  Workers,      \* worker ids (host name and pid)
  Fitting,      \* workers with the service or host name and the strategy asked for
  Requests,     \* jobs to be dispatched by name, each once
  None,         \* no worker
  Unstable,     \* workers that stop, or whose heartbeat may be late
  MaxStarts     \* bound on restarts

\* What the model takes for granted of its constants
RegistryAssumption ==
  /\ IsFiniteSet(Workers) /\ IsFiniteSet(Requests)
  /\ Fitting \subseteq Workers /\ Unstable \subseteq Workers
  /\ None \notin Workers
  /\ MaxStarts \in Nat

VARIABLES
  phase,     \* the worker process: it runs, deletes its key and its id, and closes
  starts,    \* restarts so far
  beat,      \* the next command of a worker's heartbeat
  alive,     \* Redis: workers whose heartbeat key exists
  index,     \* Redis: the set of worker ids
  rotation,  \* Redis: the round-robin counter of the name
  pc,        \* next step of each request
  unread,    \* ids a request has yet to read the key of
  missing,   \* ids it read no key of and has yet to remove
  listed,    \* workers it read a key of
  chosen,    \* the worker it dispatches to
  gone       \* history, until it is done: workers that were gone when it began

workerVars  == <<phase, starts, beat>>
requestVars == <<pc, unread, missing, listed, chosen, gone>>
vars == <<workerVars, alive, index, rotation, requestVars>>

TypeOK ==
  /\ phase \in [Workers -> {"off", "up", "delete", "remove", "closing"}]
  /\ starts \in 0..MaxStarts
  /\ beat \in [Workers -> {"none", "add", "set"}]
  /\ alive \subseteq Workers /\ index \subseteq Workers
  /\ rotation \in Nat
  /\ pc \in [Requests -> {"idle", "read", "done"}]
  /\ unread \in [Requests -> SUBSET Workers]
  /\ missing \in [Requests -> SUBSET Workers]
  /\ listed \in [Requests -> SUBSET Workers]
  /\ chosen \in [Requests -> Fitting \cup {None}]
  /\ gone \in [Requests -> SUBSET Workers]

Init ==
  /\ phase = [w \in Workers |-> "up"]
  /\ starts = 0
  /\ beat = [w \in Workers |-> "none"]
  /\ alive = Workers /\ index = Workers /\ rotation = 0
  /\ pc = [q \in Requests |-> "idle"]
  /\ unread = [q \in Requests |-> {}]
  /\ missing = [q \in Requests |-> {}]
  /\ listed = [q \in Requests |-> {}]
  /\ chosen = [q \in Requests |-> None]
  /\ gone = [q \in Requests |-> {}]

-----------------------------------------------------------------------------
(* The worker: writeHeartbeat, and onModuleDestroy beside it *)

\* Bootstrap writes the first heartbeat.
Start(w) ==
  /\ phase[w] = "off" /\ starts < MaxStarts
  /\ phase' = [phase EXCEPT ![w] = "up"]
  /\ starts' = starts + 1
  /\ beat' = [beat EXCEPT ![w] = "add"]
  /\ gone' = [q \in Requests |-> gone[q] \ {w}]
  /\ UNCHANGED <<alive, index, rotation, pc, unread, missing, listed, chosen>>

\* The timer, or markProcessing and markIdle of a job, which go on while the process
\* shuts down.
Beat(w) ==
  /\ phase[w] # "off" /\ beat[w] = "none"
  /\ beat' = [beat EXCEPT ![w] = "add"]
  /\ UNCHANGED <<phase, starts, alive, index, rotation, requestVars>>

\* Mutation of AddToIndex: the id is added at bootstrap only.
AddToIndexOnce(w) ==
  /\ beat[w] = "add"
  /\ index' = IF w \in alive THEN index ELSE index \cup {w}
  /\ beat' = [beat EXCEPT ![w] = "set"]
  /\ UNCHANGED <<phase, starts, alive, rotation, requestVars>>

AddToIndex(w) ==
  /\ beat[w] = "add"
  /\ index' = index \cup {w}
  /\ beat' = [beat EXCEPT ![w] = "set"]
  /\ UNCHANGED <<phase, starts, alive, rotation, requestVars>>

SetKey(w) ==
  /\ beat[w] = "set"
  /\ alive' = alive \cup {w}
  /\ beat' = [beat EXCEPT ![w] = "none"]
  /\ UNCHANGED <<phase, starts, index, rotation, requestVars>>

\* The process is told to end.  The timer is cleared; a heartbeat goes on.
Shutdown(w) ==
  /\ w \in Unstable
  /\ phase[w] = "up"
  /\ phase' = [phase EXCEPT ![w] = "delete"]
  /\ UNCHANGED <<starts, beat, alive, index, rotation, requestVars>>

DeleteKey(w) ==
  /\ phase[w] = "delete"
  /\ alive' = alive \ {w}
  /\ phase' = [phase EXCEPT ![w] = "remove"]
  /\ UNCHANGED <<starts, beat, index, rotation, requestVars>>

RemoveFromIndex(w) ==
  /\ phase[w] = "remove"
  /\ index' = index \ {w}
  /\ phase' = [phase EXCEPT ![w] = "closing"]
  /\ UNCHANGED <<starts, beat, alive, rotation, requestVars>>

\* The process ends: with onModuleDestroy done, or by dying before.
Exit(w) ==
  /\ w \in Unstable
  /\ phase[w] # "off"
  /\ phase' = [phase EXCEPT ![w] = "off"]
  /\ beat' = [beat EXCEPT ![w] = "none"]
  /\ UNCHANGED <<starts, alive, index, rotation, requestVars>>

\* Mutation of Expire: the key is written without a TTL.
ExpireNever(w) == w \notin Workers

Expire(w) ==
  /\ w \in Unstable
  /\ w \in alive
  /\ alive' = alive \ {w}
  /\ UNCHANGED <<workerVars, index, rotation, requestVars>>

-----------------------------------------------------------------------------
(* The API: resolveWorkerByServiceName, resolveWorkerByHostname *)

Gone(w) == phase[w] = "off" /\ w \notin alive

\* SMEMBERS
Members(q) ==
  /\ pc[q] = "idle"
  /\ unread' = [unread EXCEPT ![q] = index]
  /\ gone' = [gone EXCEPT ![q] = {w \in Workers : Gone(w)}]
  /\ pc' = [pc EXCEPT ![q] = "read"]
  /\ UNCHANGED <<workerVars, alive, index, rotation, missing, listed, chosen>>

\* Mutation of ReadKey: the members are taken to be alive.
ReadKeyNot(q, w) ==
  /\ pc[q] = "read" /\ w \in unread[q]
  /\ unread' = [unread EXCEPT ![q] = @ \ {w}]
  /\ listed' = [listed EXCEPT ![q] = @ \cup {w}]
  /\ UNCHANGED <<workerVars, alive, index, rotation, pc, missing, chosen, gone>>

\* GET, for all members at once under a Promise.all
ReadKey(q, w) ==
  /\ pc[q] = "read" /\ w \in unread[q]
  /\ unread' = [unread EXCEPT ![q] = @ \ {w}]
  /\ \/ /\ w \in alive
        /\ listed' = [listed EXCEPT ![q] = @ \cup {w}]
        /\ UNCHANGED missing
     \/ /\ w \notin alive
        /\ missing' = [missing EXCEPT ![q] = @ \cup {w}]
        /\ UNCHANGED listed
  /\ UNCHANGED <<workerVars, alive, index, rotation, pc, chosen, gone>>

\* SREM of an id whose key was gone
RemoveMissing(q, w) ==
  /\ pc[q] = "read" /\ w \in missing[q]
  /\ index' = index \ {w}
  /\ missing' = [missing EXCEPT ![q] = @ \ {w}]
  /\ UNCHANGED <<workerVars, alive, rotation, pc, unread, listed, chosen, gone>>

\* Some fixed order of the ids (localeCompare)
Sorted(S) == SetToSeq(S)

Candidates(q) == Sorted(listed[q] \cap Fitting)

\* Mutation of Choose: with several workers the counter is only read.
ChooseWithoutIncr(q) ==
  /\ pc[q] = "read" /\ unread[q] = {} /\ missing[q] = {}
  /\ pc' = [pc EXCEPT ![q] = "done"]
  /\ LET n == Len(Candidates(q)) IN
       chosen' = IF n = 0 THEN chosen
                 ELSE [chosen EXCEPT ![q] = Candidates(q)[1 + (rotation % n)]]
  /\ gone' = [gone EXCEPT ![q] = {}]
  /\ UNCHANGED <<workerVars, alive, index, rotation, unread, missing, listed>>

\* No candidate is an error, one is taken, several take turns: INCR answers with the
\* number of this turn.
Choose(q) ==
  /\ pc[q] = "read" /\ unread[q] = {} /\ missing[q] = {}
  /\ pc' = [pc EXCEPT ![q] = "done"]
  /\ LET n == Len(Candidates(q)) IN
       /\ rotation' = IF n > 1 THEN rotation + 1 ELSE rotation
       /\ chosen' = IF n = 0 THEN chosen
                    ELSE [chosen EXCEPT ![q] = Candidates(q)[IF n = 1 THEN 1 ELSE 1 + (rotation % n)]]
  /\ gone' = [gone EXCEPT ![q] = {}]
  /\ UNCHANGED <<workerVars, alive, index, unread, missing, listed>>

-----------------------------------------------------------------------------
WorkerNext(w) ==
  \/ Start(w) \/ Beat(w) \/ Shutdown(w) \/ Exit(w)
  \/ AddToIndex(w) \/ SetKey(w) \/ DeleteKey(w) \/ RemoveFromIndex(w)

RequestNext(q) ==
  \/ Members(q) \/ Choose(q)
  \/ \E w \in Workers : ReadKey(q, w) \/ RemoveMissing(q, w)

Next ==
  \/ \E w \in Workers : WorkerNext(w) \/ Expire(w)
  \/ \E q \in Requests : RequestNext(q)

Spec == Init /\ [][Next]_vars

\* A running worker's timer fires and its commands are made; Redis expires a key that
\* nobody writes again.
Fairness ==
  \A w \in Workers : /\ WF_vars(Beat(w) /\ phase[w] = "up") /\ WF_vars(AddToIndex(w)) /\ WF_vars(SetKey(w))
                     /\ WF_vars(Expire(w) /\ phase[w] = "off")

FairSpec == Spec /\ Fairness

-----------------------------------------------------------------------------
\* A job is not sent to a worker that was gone when its request began and was not
\* started since.
GoneIsNotListed == \A q \in Requests : listed[q] \cap gone[q] = {}

\* Service-name round robin (README): requests that found the same workers spread over
\* them evenly, concurrent ones too.
Turns(S, w) == Cardinality({q \in Requests : listed[q] \cap Fitting = S /\ chosen[q] = w})

\* All requests that had a choice found the same workers.
SameChoice(S) ==
  \A q \in Requests : pc[q] = "done" /\ Cardinality(listed[q] \cap Fitting) > 1
                        => listed[q] \cap Fitting = S

RotationIsEven ==
  \A S \in SUBSET Fitting :
     SameChoice(S) => \A v, w \in S : Turns(S, v) - Turns(S, w) <= 1

\* A running worker that an API request took out of the index by mistake, between the
\* two commands of a heartbeat, is listed again.
RunningIsListed ==
  \A w \in Workers : phase[w] = "up" ~> (w \in index /\ w \in alive) \/ phase[w] # "up"

\* A worker that is gone, however it went and whatever heartbeat was under way, stops
\* being taken for alive unless it is started again.
GoneIsForgotten == \A w \in Unstable : phase[w] = "off" ~> w \notin alive \/ phase[w] # "off"

-----------------------------------------------------------------------------
(* The inductive invariant of WorkerRegistry, with what it adds to TypeOK *)

\* Behind GoneIsNotListed: a worker that is gone stays so until it is started, since it
\* has no heartbeat under way that could write its key again.
StaysGone ==
  /\ \A w \in Workers : phase[w] = "off" => beat[w] = "none"
  /\ \A q \in Requests : pc[q] = "idle" => listed[q] = {}
  /\ \A q \in Requests : \A w \in gone[q] : Gone(w)

\* Behind RotationIsEven: who has not chosen has had no turn, and after t rounds and p
\* turns of n workers the first p of them have had t + 1, the others t.
TurnsFollow ==
  /\ \A q \in Requests : pc[q] # "done" => chosen[q] = None
  /\ \A S \in SUBSET Fitting : LET n == Cardinality(S) IN
       n > 1 /\ SameChoice(S) =>
         \E t \in 0..rotation, p \in 0..(n - 1) :
            /\ rotation = n * t + p
            /\ \A i \in 1..n : Turns(S, Sorted(S)[i]) = IF i <= p THEN t + 1 ELSE t

IInv == TypeOK /\ StaysGone /\ GoneIsNotListed /\ TurnsFollow
=============================================================================
