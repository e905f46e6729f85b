------------------------------- MODULE JobIndex -------------------------------
(***************************************************************************)
(* The list of jobs in Redis, latest written first, and the overview that  *)
(* the API computes from it and caches.  saveRecord of either service is   *)
(* four commands: SET, LREM, LPUSH, LTRIM.  The API clears its cache when  *)
(* an operation that wrote ends well; a worker's writes clear nothing.  An *)
(* overview reads the list, then the records, and is cached after that.    *)
(***************************************************************************)
EXTENDS Naturals, FiniteSets, Functions

CONSTANTS
  Jobs,
  Writes,       \* record writes, each once
  ApiWrites,    \* those of the API
  Overviews,    \* requests for the overview, numbered as they come
  MaxRecords    \* REDIS_JOB_INDEX_MAX_RECORDS

IndexAssumption == ApiWrites \subseteq Writes /\ Overviews \subseteq Nat /\ MaxRecords \in Nat \ {0}

VARIABLES
  jobOf,       \* the job that each write is about
  pc,          \* next command of each write
  version,     \* SETs of each job so far, the last of which is what GET answers
  index,       \* Redis: the list, a job for each place; one that is removed leaves a gap
  request,     \* next step of each overview request
  ids,         \* what its LRANGE answered, until the records are read
  shown,       \* version of each job it answers with, 0 for a job that is missing
  cache,       \* the API's overviewCache
  finished,    \* history: latest version of each job an API operation ended with
  promised,    \* history: `finished` when each request, or the cached one, began
  trimmed,     \* history: jobs that were cut off the list
  overlapped,  \* history: jobs that two writes were about at the same time
  late         \* history: requests that were computing when the cache was cleared

writeVars == <<jobOf, pc, version, index, trimmed, overlapped>>
overviewVars == <<request, ids, shown, promised>>
vars == <<writeVars, overviewVars, cache, finished, late>>

Versions == [Jobs -> Nat]
NothingCached == [valid |-> FALSE, shown |-> [j \in Jobs |-> 0], late |-> FALSE]

TypeOK ==
  /\ jobOf \in [Writes -> Jobs]
  /\ pc \in [Writes -> {"set", "lrem", "lpush", "ltrim", "clear", "done"}]
  /\ version \in Versions
  /\ DOMAIN index \subseteq Nat /\ Range(index) \subseteq Jobs
  /\ request \in [Overviews -> {"idle", "lrange", "mget", "store", "done"}]
  /\ ids \in [Overviews -> SUBSET Jobs]
  /\ shown \in [Overviews -> Versions]
  /\ cache \in [valid : BOOLEAN, shown : Versions, late : BOOLEAN]
  /\ finished \in Versions
  /\ promised \in [Overviews -> Versions]
  /\ trimmed \subseteq Jobs /\ overlapped \subseteq Jobs
  /\ late \subseteq Overviews

Init ==
  /\ jobOf \in [Writes -> Jobs]
  /\ pc = [w \in Writes |-> "set"]
  /\ version = [j \in Jobs |-> 0]
  /\ index = <<>>
  /\ request = [o \in Overviews |-> "idle"]
  /\ ids = [o \in Overviews |-> {}]
  /\ shown = [o \in Overviews |-> [j \in Jobs |-> 0]]
  /\ cache = NothingCached
  /\ finished = [j \in Jobs |-> 0]
  /\ promised = [o \in Overviews |-> [j \in Jobs |-> 0]]
  /\ trimmed = {} /\ overlapped = {} /\ late = {}

-----------------------------------------------------------------------------
(* saveRecord                                                              *)

Goto(w, step) == pc' = [pc EXCEPT ![w] = step]

UnderWay(j) == {w \in Writes : jobOf[w] = j /\ pc[w] \in {"lrem", "lpush", "ltrim"}}

SetRecord(w) ==
  LET j == jobOf[w] IN
  /\ pc[w] = "set"
  /\ version' = [version EXCEPT ![j] = @ + 1]
  /\ overlapped' = IF UnderWay(j) # {} THEN overlapped \cup {j} ELSE overlapped
  /\ Goto(w, "lrem")
  /\ UNCHANGED <<jobOf, index, trimmed, overviewVars, cache, finished, late>>

\* Mutation of Lrem: the entry is left where it is.
LremNot(w) ==
  /\ pc[w] = "lrem" /\ Goto(w, "lpush")
  /\ UNCHANGED <<index, overlapped, jobOf, version, trimmed, overviewVars, cache,
                 finished, late>>

\* Whatever overlapping writes left behind is removed by one that is alone.
Lrem(w) ==
  LET j == jobOf[w] IN
  /\ pc[w] = "lrem"
  /\ index' = Restrict(index, {i \in DOMAIN index : index[i] # j})
  /\ overlapped' = IF UnderWay(j) = {w} THEN overlapped \ {j} ELSE overlapped
  /\ Goto(w, "lpush")
  /\ UNCHANGED <<jobOf, version, trimmed, overviewVars, cache, finished, late>>

Lpush(w) ==
  LET j == jobOf[w] IN
  /\ pc[w] = "lpush"
  /\ index' = [i \in {0} \cup {k + 1 : k \in DOMAIN index} |-> IF i = 0 THEN j ELSE index[i - 1]]
  /\ trimmed' = trimmed \ {j}
  /\ Goto(w, "ltrim")
  /\ UNCHANGED <<jobOf, version, overlapped, overviewVars, cache, finished, late>>

Ltrim(w) ==
  /\ pc[w] = "ltrim"
  /\ index' = Restrict(index, {i \in DOMAIN index :
                                Cardinality({k \in DOMAIN index : k < i}) < MaxRecords})
  /\ trimmed' = trimmed \cup (Range(index) \ Range(index'))
  /\ Goto(w, IF w \in ApiWrites THEN "clear" ELSE "done")
  /\ UNCHANGED <<jobOf, version, overlapped, overviewVars, cache, finished, late>>

Computing == {o \in Overviews : request[o] \in {"lrange", "mget", "store"}}

\* Mutation of Clear: cancel and enqueueFromInput leave the cache alone.
ClearNot(w) ==
  /\ pc[w] = "clear" /\ Goto(w, "done")
  /\ finished' = [finished EXCEPT ![jobOf[w]] = version[jobOf[w]]]
  /\ late' = late \cup Computing
  /\ UNCHANGED <<cache, jobOf, version, index, trimmed, overlapped, overviewVars>>

\* invalidateOverviewCache, after the other awaits of the operation
Clear(w) ==
  /\ pc[w] = "clear" /\ Goto(w, "done")
  /\ cache' = NothingCached
  /\ finished' = [finished EXCEPT ![jobOf[w]] = version[jobOf[w]]]
  /\ late' = late \cup Computing
  /\ UNCHANGED <<jobOf, version, index, trimmed, overlapped, overviewVars>>

\* The webhook event or the publish after the write is refused: nothing is cleared.
Throws(w) ==
  /\ pc[w] = "clear" /\ Goto(w, "done")
  /\ UNCHANGED <<jobOf, version, index, trimmed, overlapped, overviewVars, cache,
                 finished, late>>

-----------------------------------------------------------------------------
(* getOrSetOverviewCache around getOverviewData                            *)

Step(o, step) == request' = [request EXCEPT ![o] = step]

Lookup(o) ==
  /\ request[o] = "idle" /\ \A p \in Overviews : p < o => request[p] # "idle"
  /\ promised' = [promised EXCEPT ![o] = finished]
  /\ IF cache.valid
     THEN /\ Step(o, "done") /\ shown' = [shown EXCEPT ![o] = cache.shown]
          /\ late' = IF cache.late THEN late \cup {o} ELSE late
     ELSE Step(o, "lrange") /\ UNCHANGED <<shown, late>>
  /\ UNCHANGED <<writeVars, ids, cache, finished>>

Lrange(o) ==
  /\ request[o] = "lrange" /\ Step(o, "mget")
  /\ ids' = [ids EXCEPT ![o] = Range(index)]
  /\ UNCHANGED <<writeVars, shown, promised, cache, finished, late>>

Mget(o) ==
  /\ request[o] = "mget" /\ Step(o, "store")
  /\ shown' = [shown EXCEPT ![o] = [j \in Jobs |-> IF j \in ids[o] THEN version[j] ELSE 0]]
  /\ ids' = [ids EXCEPT ![o] = {}]
  /\ UNCHANGED <<writeVars, promised, cache, finished, late>>

\* Workers and queue depths are read too before the value is cached and answered.
StoreInCache(o) ==
  /\ request[o] = "store" /\ Step(o, "done")
  /\ cache' = [valid |-> TRUE, shown |-> shown[o], late |-> o \in late]
  /\ UNCHANGED <<writeVars, ids, shown, promised, finished, late>>

\* OVERVIEW_CACHE_TTL_MS is over: pruned, or not looked at.
CacheExpires ==
  /\ cache.valid /\ cache' = NothingCached
  /\ UNCHANGED <<writeVars, overviewVars, finished, late>>

Next ==
  \/ \E w \in Writes : SetRecord(w) \/ Lrem(w) \/ Lpush(w) \/ Ltrim(w) \/ Clear(w) \/ Throws(w)
  \/ \E o \in Overviews : Lookup(o) \/ Lrange(o) \/ Mget(o) \/ StoreInCache(o)
  \/ CacheExpires

Spec == Init /\ [][Next]_vars

-----------------------------------------------------------------------------
Entries(j) == {i \in DOMAIN index : index[i] = j}

\* A job that was written is in the list once when no write of it is under way, unless
\* it was cut off the end or two writes of it overlapped (and none alone came after).
SavedIsListedOnce ==
  \A j \in Jobs : version[j] # 0 /\ UnderWay(j) = {} /\ j \notin trimmed \cup overlapped
    => Cardinality(Entries(j)) = 1

\* An overview asked for after an API operation ended shows nothing older of that job,
\* unless it was computed, there or for the cache, while an operation ended.
WriteIsShown ==
  \A o \in Overviews, j \in Jobs :
    request[o] = "done" /\ o \notin late /\ shown[o][j] # 0 => shown[o][j] >= promised[o][j]
=============================================================================
