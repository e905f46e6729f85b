------------------------------ MODULE Enqueue -------------------------------
(***************************************************************************)
(* POST /jobs and POST /jobs/:id/retry: what the API writes to Redis and   *)
(* RabbitMQ for a request, one await at a time, while other requests do    *)
(* the same, possibly with the same idempotency key.  A request that fails *)
(* leaves behind what it has written: nothing is rolled back.              *)
(*                                                                         *)
(* A request creates at most one job, so the job is named after it.        *)
(***************************************************************************)
CONSTANTS
  Requests,   \* requests, each made at most once
  Keys,       \* idempotency keys
  NoKey,      \* a request without one
  None,       \* no job
  Refused,    \* an error answer, or none because the API died
  Enabled     \* which of the events below can happen

Events == {"cacheHits", "targetGone", "dependencyFails", "keysExpire"}

ASSUME EnqueueAssumption ==
  /\ NoKey \notin Keys
  /\ None \notin Requests /\ Refused \notin Requests /\ None # Refused
  /\ Enabled \subseteq Events

Steps == {"idle", "load", "key", "existing", "lookup", "target", "record",
          "saveKey", "publish", "hit", "respond", "done"}

\* The writes a cache hit makes under one Promise.all
Branches == {"record", "result", "key", "event"}

VARIABLES
  key,        \* the request's idempotency key
  origin,     \* the job a manual retry is about
  pc,         \* next step of each request
  found,      \* the job a request read under its key
  todo,       \* branches of a cache hit that are not done
  answer,     \* the job in the request's answer
  keyJob,     \* Redis: the job saved under each key
  record,     \* Redis: the status the API saved each job's record with
  results,    \* Redis: jobs with a stored result
  announced,  \* jobs whose event the API put on the webhook queue
  published,  \* jobs whose message is, or was, on a queue
  overlapped, \* history: keys of requests that were in flight together
  expired     \* history: keys whose entry has expired

inputs  == <<key, origin>>
history == <<overlapped, expired>>
redis   == <<keyJob, record, results>>
vars == <<inputs, pc, found, todo, answer, redis, announced, published, history>>

TypeOK ==
  /\ key \in [Requests -> Keys \cup {NoKey}]
  /\ origin \in [Requests -> Requests \cup {None}]
  /\ pc \in [Requests -> Steps]
  /\ found \in [Requests -> Requests \cup {None}]
  /\ todo \in [Requests -> SUBSET Branches]
  /\ answer \in [Requests -> Requests \cup {None, Refused}]
  /\ keyJob \in [Keys -> Requests \cup {None}]
  /\ record \in [Requests -> {"none", "queued", "completed"}]
  /\ results \subseteq Requests /\ announced \subseteq Requests /\ published \subseteq Requests
  /\ overlapped \subseteq Keys /\ expired \subseteq Keys

\* retry() passes on everything but the idempotency key.
Init ==
  /\ key \in [Requests -> Keys \cup {NoKey}]
  /\ origin \in [Requests -> Requests \cup {None}]
  /\ \A q \in Requests : origin[q] # q /\ (origin[q] # None => key[q] = NoKey)
  /\ pc = [q \in Requests |-> "idle"]
  /\ found = [q \in Requests |-> None]
  /\ todo = [q \in Requests |-> {}]
  /\ answer = [q \in Requests |-> None]
  /\ keyJob = [k \in Keys |-> None]
  /\ record = [q \in Requests |-> "none"]
  /\ results = {} /\ announced = {} /\ published = {}
  /\ overlapped = {} /\ expired = {}

InFlight(q) == pc[q] \notin {"idle", "done"}
SameKey(p, q) == key[p] = key[q] /\ key[p] # NoKey

Goto(q, step) == pc' = [pc EXCEPT ![q] = step]
Answer(q, j) == Goto(q, "done") /\ answer' = [answer EXCEPT ![q] = j]

-----------------------------------------------------------------------------
Begin(q) ==
  /\ pc[q] = "idle"
  /\ Goto(q, IF origin[q] # None THEN "load" ELSE IF key[q] # NoKey THEN "key" ELSE "lookup")
  /\ overlapped' = overlapped \cup {key[p] : p \in {r \in Requests \ {q} : InFlight(r) /\ SameKey(q, r)}}
  /\ UNCHANGED <<inputs, found, todo, answer, redis, announced, published, expired>>

\* retry(): the job has to exist.
Load(q) ==
  /\ pc[q] = "load"
  /\ \/ record[origin[q]] # "none" /\ Goto(q, "lookup") /\ UNCHANGED answer
     \/ record[origin[q]] = "none" /\ Answer(q, Refused)
  /\ UNCHANGED <<inputs, found, todo, redis, announced, published, history>>

\* getIdempotentJob: the key's job id, then that job's record.
ReadKey(q) ==
  /\ pc[q] = "key"
  /\ found' = [found EXCEPT ![q] = keyJob[key[q]]]
  /\ Goto(q, IF keyJob[key[q]] = None THEN "lookup" ELSE "existing")
  /\ UNCHANGED <<inputs, todo, answer, redis, announced, published, history>>

ReadExisting(q) ==
  /\ pc[q] = "existing"
  /\ \/ record[found[q]] # "none" /\ Answer(q, found[q])
     \/ record[found[q]] = "none" /\ Goto(q, "lookup") /\ UNCHANGED answer
  /\ UNCHANGED <<inputs, found, todo, redis, announced, published, history>>

\* The page's cache entry: a hit, or a miss, or the request does not use the cache.
Lookup(q) ==
  /\ pc[q] = "lookup"
  /\ \/ Goto(q, "target") /\ UNCHANGED todo
     \/ /\ "cacheHits" \in Enabled
        /\ Goto(q, "hit")
        /\ todo' = [todo EXCEPT ![q] = IF key[q] = NoKey THEN Branches \ {"key"} ELSE Branches]
  /\ UNCHANGED <<inputs, found, answer, redis, announced, published, history>>

\* A worker that is targeted has to be active and to support the strategy.
ResolveTarget(q) ==
  /\ pc[q] = "target"
  /\ \/ Goto(q, "record") /\ UNCHANGED answer
     \/ "targetGone" \in Enabled /\ Answer(q, Refused)
  /\ UNCHANGED <<inputs, found, todo, redis, announced, published, history>>

\* Mutations of SaveRecord: a status only the worker may give; the message is sent
\* before the record is saved.
SaveRecordProcessing(q) ==
  /\ pc[q] = "record"
  /\ record' = [record EXCEPT ![q] = "processing"]
  /\ Goto(q, IF key[q] = NoKey THEN "publish" ELSE "saveKey")
  /\ UNCHANGED <<inputs, found, todo, answer, keyJob, results, announced, published, history>>

SaveRecordLate(q) ==
  /\ pc[q] = "record"
  /\ Goto(q, IF key[q] = NoKey THEN "publish" ELSE "saveKey")
  /\ published' = published \cup {q}
  /\ UNCHANGED <<inputs, found, todo, answer, redis, announced, history>>

SaveRecord(q) ==
  /\ pc[q] = "record"
  /\ record' = [record EXCEPT ![q] = "queued"]
  /\ Goto(q, IF key[q] = NoKey THEN "publish" ELSE "saveKey")
  /\ UNCHANGED <<inputs, found, todo, answer, keyJob, results, announced, published, history>>

\* Mutation of SaveIdempotentJob: the key is not saved.
SaveIdempotentJobNot(q) ==
  /\ pc[q] = "saveKey"
  /\ Goto(q, "publish")
  /\ UNCHANGED <<inputs, found, todo, answer, redis, announced, published, history>>

SaveIdempotentJob(q) ==
  /\ pc[q] = "saveKey"
  /\ keyJob' = [keyJob EXCEPT ![key[q]] = q]
  /\ Goto(q, "publish")
  /\ UNCHANGED <<inputs, found, todo, answer, record, results, announced, published, history>>

\* Mutation of Publish: the request is answered before the message is sent.
PublishNot(q) ==
  /\ pc[q] = "publish"
  /\ Goto(q, "respond")
  /\ UNCHANGED <<inputs, found, todo, answer, redis, announced, published, history>>

Publish(q) ==
  /\ pc[q] = "publish"
  /\ published' = published \cup {q}
  /\ Goto(q, "respond")
  /\ UNCHANGED <<inputs, found, todo, answer, redis, announced, history>>

Respond(q) ==
  /\ pc[q] = "respond"
  /\ Answer(q, q)
  /\ UNCHANGED <<inputs, found, todo, redis, announced, published, history>>

\* A call is refused or the API dies; what is written stays.
Fail(q) ==
  /\ "dependencyFails" \in Enabled
  /\ InFlight(q) /\ pc[q] # "hit"
  /\ Answer(q, Refused)
  /\ UNCHANGED <<inputs, found, todo, redis, announced, published, history>>

-----------------------------------------------------------------------------
(* A cache hit makes its writes under one Promise.all.  Those to Redis go   *)
(* out on one connection, in the order of the list.                         *)

Earlier == {<<"record", "result">>, <<"record", "key">>, <<"result", "key">>}

\* Mutation of Due: the writes are made in any order.
DueInAnyOrder(q, b) == b \in todo[q]

Due(q, b) == b \in todo[q] /\ \A a \in todo[q] : <<a, b>> \notin Earlier

HitBranch(q, b) ==
  /\ pc[q] = "hit"
  /\ Due(q, b)
  /\ todo' = [todo EXCEPT ![q] = @ \ {b}]
  /\ record' = IF b = "record" THEN [record EXCEPT ![q] = "completed"] ELSE record
  /\ results' = IF b = "result" THEN results \cup {q} ELSE results
  /\ keyJob' = IF b = "key" THEN [keyJob EXCEPT ![key[q]] = q] ELSE keyJob
  /\ announced' = IF b = "event" THEN announced \cup {q} ELSE announced
  /\ UNCHANGED <<inputs, pc, found, answer, published, history>>

\* One of them is refused: the request fails at once, the other branches go on.
HitFails(q, b) ==
  /\ "dependencyFails" \in Enabled
  /\ pc[q] = "hit"
  /\ Due(q, b)
  /\ todo' = [todo EXCEPT ![q] = @ \ {b}]
  /\ answer' = [answer EXCEPT ![q] = Refused]
  /\ UNCHANGED <<inputs, pc, found, redis, announced, published, history>>

HitDone(q) ==
  /\ pc[q] = "hit"
  /\ todo[q] = {}
  /\ Answer(q, IF answer[q] = None THEN q ELSE Refused)
  /\ UNCHANGED <<inputs, found, todo, redis, announced, published, history>>

\* The key's entry reaches its TTL.
KeyExpires(k) ==
  /\ "keysExpire" \in Enabled
  /\ keyJob[k] # None
  /\ keyJob' = [keyJob EXCEPT ![k] = None]
  /\ expired' = expired \cup {k}
  /\ UNCHANGED <<inputs, pc, found, todo, answer, record, results, announced, published, overlapped>>

-----------------------------------------------------------------------------
RequestNext(q) ==
  \/ Begin(q) \/ Load(q) \/ ReadKey(q) \/ ReadExisting(q) \/ Lookup(q)
  \/ ResolveTarget(q) \/ SaveRecord(q) \/ SaveIdempotentJob(q) \/ Publish(q)
  \/ Respond(q) \/ Fail(q) \/ HitDone(q)
  \/ \E b \in Branches : HitBranch(q, b) \/ HitFails(q, b)

Next == (\E q \in Requests : RequestNext(q)) \/ (\E k \in Keys : KeyExpires(k))

Spec == Init /\ [][Next]_vars

-----------------------------------------------------------------------------
\* A worker that takes the message finds the job's record: without one process()
\* would scrape the page and no status would ever be seen.
MessageHasRecord == \A q \in published : record[q] # "none"

\* The job an answer names can be read: it has a record, and a result if the record
\* says completed.  For a job whose own request failed the result may be missing.
AnswersAreReadable ==
  \A q \in Requests : answer[q] \in Requests =>
     /\ record[answer[q]] # "none"
     /\ record[answer[q]] = "completed" =>
           answer[q] \in results \/ answer[answer[q]] = Refused

\* The job an answer names is on its way to a worker or completed; or its own request
\* is still being handled, or failed.
AnsweredIsAtWork ==
  \A q \in Requests : LET j == answer[q] IN j \in Requests =>
     \/ j \in published \/ record[j] = "completed"
     \/ InFlight(j) \/ answer[j] = Refused

\* Requests with one key, made one after the other while the key's entry lives, create
\* one job between them, whichever of them failed.
OneJobPerKey ==
  \A p, q \in Requests :
     SameKey(p, q) /\ key[p] \notin overlapped \cup expired =>
        /\ p \in published /\ q \in published => p = q
        /\ answer[p] \in Requests /\ answer[q] \in Requests => answer[p] = answer[q]

\* "provide Idempotency-Key to make client retries safe" (api/jobs.mdx): the job that
\* a repeated request is answered with is one that runs.
RetriesAreSafe ==
  \A q \in Requests : LET j == answer[q] IN
     j \in Requests /\ ~InFlight(j) => j \in published \/ record[j] = "completed"

-----------------------------------------------------------------------------
(* The inductive invariant behind the four properties above                  *)

\* What a request has written, by its next step.
Written ==
  \A q \in Requests :
     /\ pc[q] \in {"idle", "load", "key", "existing", "lookup", "target", "record"}
          => record[q] = "none" /\ answer[q] = None
     /\ pc[q] \in {"saveKey", "publish", "respond"} => record[q] = "queued" /\ answer[q] = None
     /\ pc[q] = "hit" =>
          /\ answer[q] \in {None, Refused}
          /\ "record" \in todo[q] => record[q] = "none" /\ "result" \in todo[q]
          /\ "record" \notin todo[q] => record[q] = "completed" \/ answer[q] = Refused
          /\ "result" \notin todo[q] => q \in results \/ answer[q] = Refused
          /\ "key" \in todo[q] => key[q] # NoKey
          /\ record[q] # "queued"
     /\ pc[q] = "done" => answer[q] # None
     /\ pc[q] \in {"key", "existing", "saveKey"} => key[q] # NoKey
     /\ pc[q] = "existing" => found[q] # None
     /\ pc[q] = "load" => origin[q] # None
     /\ origin[q] # None => key[q] = NoKey

\* A job with a record was sent or completed, or its request goes on or failed.
JobsAreKept ==
  \A j \in Requests :
     /\ pc[j] = "respond" => j \in published
     /\ record[j] # "none" =>
          j \in published \/ record[j] = "completed" \/ InFlight(j) \/ answer[j] = Refused

Readable(j) == record[j] = "completed" => j \in results \/ answer[j] = Refused

\* A job that a key leads to is readable as soon as it has a record.
NamedAreReadable ==
  \A j \in Requests :
     /\ pc[j] # "hit" => Readable(j)
     /\ (\E k \in Keys : keyJob[k] = j) \/ (\E q \in Requests : found[q] = j) =>
          /\ pc[j] \in {"publish", "respond", "hit", "done"}
          /\ pc[j] = "hit" => "result" \notin todo[j]

\* Requests of one key that are in flight together are in the history.
OverlapsAreNoted ==
  \A p, q \in Requests :
     p # q /\ SameKey(p, q) /\ InFlight(p) /\ InFlight(q) => key[p] \in overlapped

Undecided(q) == \/ pc[q] \in {"lookup", "target", "record", "saveKey"}
                \/ pc[q] = "hit" /\ "key" \in todo[q]

Decided(q) == \/ pc[q] \in {"publish", "respond"}
              \/ pc[q] = "hit" /\ "key" \notin todo[q] /\ answer[q] = None

\* While nothing overlaps or expires, the key leads to the job that is published or
\* answered, and a request that creates one has found none.
KeysLeadToJobs ==
  \A q \in Requests : key[q] \in Keys \ (overlapped \cup expired) =>
     /\ q \in published \/ Decided(q) => keyJob[key[q]] = q
     /\ answer[q] \in Requests => keyJob[key[q]] = answer[q]
     /\ pc[q] = "existing" => found[q] = keyJob[key[q]]
     /\ Undecided(q) => \A p \in Requests : SameKey(p, q) =>
           p \notin published /\ answer[p] \notin Requests

IInv == /\ TypeOK
        /\ Written
        /\ JobsAreKept
        /\ NamedAreReadable
        /\ OverlapsAreNoted
        /\ KeysLeadToJobs
        /\ MessageHasRecord
        /\ AnswersAreReadable
=============================================================================
