------------------------------ MODULE RateLimit ------------------------------
(***************************************************************************)
(* The rate limit of the public API: one bucket per caller, an API key     *)
(* header or an address, counts requests until it is reset.  The clock is  *)
(* read first; a request with a key is then validated, and only after that *)
(* await is the bucket looked at, with the time read before it.            *)
(***************************************************************************)
EXTENDS Naturals, FiniteSets

CONSTANTS
  Callers,      \* values of the API key header, and addresses
  WithKey,      \* those that are a header
  Requests,     \* 1..n, in the order in which they arrive
  Window,       \* the 60_000 ms of a bucket, in ticks
  Slowest,      \* validate() answers within this time
  GlobalLimit,  \* PUBLIC_API_RATE_LIMIT_PER_MINUTE
  KeyLimits,    \* what rateLimit of a key record may be
  NoRecord,     \* validate() refuses the key
  Unlimited,    \* rateLimit is null
  LastTick      \* bound on the clock

RateLimitAssumption ==
  /\ WithKey \subseteq Callers
  /\ Window \in Nat \ {0} /\ Slowest \in Nat /\ GlobalLimit \in Nat
  /\ KeyLimits \subseteq Nat \ {0} /\ LastTick \in Nat

VARIABLES
  now,       \* Date.now()
  caller,    \* who sends the requests; callers share nothing
  record,    \* rateLimit of the record that validate() finds
  bucket,    \* the caller's entry of the Map, count 0 when it has none
  pc,        \* next step of each request
  arrived,   \* the time it read
  limit,     \* the limit it is held to
  admitted   \* when it went on to the handler

vars == <<now, caller, record, bucket, pc, arrived, limit, admitted>>

RecordLimits == KeyLimits \cup {Unlimited, NoRecord}

TypeOK ==
  /\ now \in 0..LastTick
  /\ record \in RecordLimits
  /\ bucket \in [count : Nat, resetAt : Nat]
  /\ pc \in [Requests -> {"new", "validate", "admitted", "refused"}]
  /\ caller \in Callers
  /\ arrived \in [Requests -> 0..LastTick]
  /\ limit \in [Requests -> KeyLimits \cup {GlobalLimit, Unlimited}]
  /\ admitted \in [Requests -> 0..LastTick]

Init ==
  /\ now = 0
  /\ record \in RecordLimits
  /\ bucket = [count |-> 0, resetAt |-> 0]
  /\ pc = [q \in Requests |-> "new"]
  /\ caller \in Callers
  /\ arrived = [q \in Requests |-> 0]
  /\ limit = [q \in Requests |-> GlobalLimit]
  /\ admitted = [q \in Requests |-> 0]

Goto(q, step) == pc' = [pc EXCEPT ![q] = step]

\* Mutation of Bucket: the end of the bucket is taken for its begin.
BucketEarly(time) ==
  IF bucket.count = 0 \/ bucket.resetAt <= time + Window
  THEN [count |-> 0, resetAt |-> time + Window] ELSE bucket

\* The bucket of a request that read this time: a new one once the old is over.
Bucket(time) ==
  IF bucket.count = 0 \/ bucket.resetAt <= time
  THEN [count |-> 0, resetAt |-> time + Window] ELSE bucket

Admit(q) == Goto(q, "admitted") /\ admitted' = [admitted EXCEPT ![q] = now]

\* A refused request is counted as well.
Count(q, time, allowed) ==
  /\ bucket' = [Bucket(time) EXCEPT !.count = @ + 1]
  /\ limit' = [limit EXCEPT ![q] = allowed]
  /\ IF bucket'.count > allowed THEN Goto(q, "refused") /\ UNCHANGED admitted ELSE Admit(q)

\* Without a key nothing is awaited.
Arrive(q) ==
  /\ pc[q] = "new" /\ \A p \in Requests : p < q => pc[p] # "new"
  /\ arrived' = [arrived EXCEPT ![q] = now]
  /\ IF caller \in WithKey
     THEN Goto(q, "validate") /\ UNCHANGED <<bucket, limit, admitted>>
     ELSE Count(q, now, GlobalLimit)
  /\ UNCHANGED <<now, caller, record>>

\* A key without a limit is not counted.  One that is refused is held to the global
\* limit here, and stopped by the guard of the handler later.
Validated(q) ==
  /\ pc[q] = "validate"
  /\ IF record = Unlimited
     THEN Admit(q) /\ limit' = [limit EXCEPT ![q] = Unlimited] /\ UNCHANGED bucket
     ELSE Count(q, arrived[q], IF record = NoRecord THEN GlobalLimit ELSE record)
  /\ UNCHANGED <<now, caller, record, arrived>>

Tick ==
  /\ now < LastTick
  /\ \A q \in Requests : pc[q] = "validate" => now < arrived[q] + Slowest
  /\ now' = now + 1
  /\ UNCHANGED <<caller, record, bucket, pc, arrived, limit, admitted>>

\* The key is revoked or deleted.
RecordEnds ==
  /\ record # NoRecord /\ record' = NoRecord
  /\ UNCHANGED <<now, caller, bucket, pc, arrived, limit, admitted>>

Next ==
  \/ \E q \in Requests : Arrive(q) \/ Validated(q)
  \/ Tick
  \/ RecordEnds

Spec == Init /\ [][Next]_vars

-----------------------------------------------------------------------------
\* The buckets that the admissions of one window may come from: two when the time is
\* fresh, and one more for every window that a validation may take.
BucketsPerWindow == 2 + ((Slowest + Window - 1) \div Window)

Counted(q) == pc[q] = "admitted" /\ limit[q] # Unlimited

\* However requests arrive and however late they are validated, no caller with a limit
\* is let through more often in a window than its limit (the highest it was held to)
\* allows in the buckets that window can touch (use() compares the time it read before the await).
AdmittedPerMinute ==
  \A from \in 0..now :
    LET inWindow == {q \in Requests : Counted(q) /\ from <= admitted[q] /\ admitted[q] < from + Window}
    IN  inWindow # {} =>
          \E q \in inWindow : Cardinality(inWindow) <= BucketsPerWindow * limit[q]
=============================================================================
