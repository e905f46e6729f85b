------------------------------- MODULE TimeSeries -------------------------------
(***************************************************************************)
(* GET /jobs/overview/time-series: recent jobs counted in buckets of an    *)
(* hour, half a day or a day.  A bucket starts at a local time of the      *)
(* API's host; the buckets of the answer are laid out from the last one    *)
(* backwards in steps of constant length, and a job is counted in the one  *)
(* whose start is exactly the start of the job's own bucket.               *)
(*                                                                         *)
(* Local time changes at one moment, which may lie before, between or      *)
(* after the times that matter; a second change among them is left out.    *)
(* Each job is counted by itself, so one is enough.                        *)
(***************************************************************************)
EXTENDS Integers

CONSTANTS
  Hour,        \* units of time in an hour
  HalfDay,     \* hours in half a day: 12
  MaxBuckets,  \* MAX_TIME_SERIES_LOOKBACK_BUCKETS
  Default,     \* defaultLookbackBuckets, of each time frame
  NotGiven,    \* a lookback that is not a finite number
  Offsets,     \* by which local time may be ahead
  Nows,        \* when requests are made
  Age,         \* bound on the age of a job, and of the change of local time
  NotCounted

Timeframes == {"hour", "12h", "day"}

TimeSeriesAssumption ==
  /\ {Hour, HalfDay, MaxBuckets} \subseteq Nat \ {0}
  /\ Default \in [Timeframes -> 1..MaxBuckets]
  /\ Offsets \cup Nows \subseteq Int /\ Age \in Nat

VARIABLES
  timeframe, lookback,  \* the query
  now,                  \* the time of the request
  updatedAt,            \* of the job
  changeAt,             \* when local time changes
  before, after,        \* by how much it is ahead until then, and from then on
  pc,
  counted               \* the start of the bucket that the job is counted in

inputs == <<timeframe, lookback, now, updatedAt, changeAt, before, after>>
vars == <<inputs, pc, counted>>

TypeOK ==
  /\ timeframe \in Timeframes /\ lookback \in Int \cup {NotGiven}
  /\ {now, updatedAt, changeAt} \subseteq Int
  /\ {before, after} \subseteq Offsets
  /\ pc \in {"asked", "answered"}
  /\ counted \in Int \cup {NotCounted}

Init ==
  /\ timeframe \in Timeframes /\ lookback \in {NotGiven} \cup -1..(MaxBuckets + 1)
  /\ now \in Nows /\ updatedAt \in (now - Age)..now
  /\ changeAt \in (now - Age)..(now + 1) /\ before \in Offsets /\ after \in Offsets
  /\ pc = "asked" /\ counted = NotCounted

-----------------------------------------------------------------------------
(* Local time, as Date has it                                              *)

local(date) == date + (IF date < changeAt THEN before ELSE after)

\* The date of a local time: the first one if the local time is repeated; if it is
\* skipped, it is counted on from the time before the change.
dateOf(time) ==
  IF time - before >= changeAt /\ time - after >= changeAt THEN time - after ELSE time - before

\* setMinutes(0, 0, 0)
atFullHour(date) == dateOf(local(date) - (local(date) % Hour))

-----------------------------------------------------------------------------
\* getTimeSeriesSettings: the length of a bucket
bucketMs ==
  CASE timeframe = "hour" -> Hour
    [] timeframe = "12h" -> HalfDay * Hour
    [] OTHER -> 2 * (HalfDay * Hour)

safeLookbackBuckets ==
  CASE lookback = NotGiven -> Default[timeframe]
    [] lookback < 1 -> 1
    [] lookback > MaxBuckets -> MaxBuckets
    [] OTHER -> lookback

\* getBucketStart: setHours keeps the minutes, which are not 0 any more if the full hour
\* was skipped.
getBucketStart(date) ==
  CASE timeframe = "hour" -> atFullHour(date)
    [] timeframe = "12h" -> LET time == local(atFullHour(date)) IN
                              dateOf(time - (time % bucketMs) + (time % Hour))
    [] OTHER -> dateOf(local(date) - (local(date) % bucketMs))

endBucket == getBucketStart(now)
startBucket == endBucket - (safeLookbackBuckets - 1) * bucketMs

\* Mutation of Buckets: the loop ends before the last one.
BucketsButLast == {startBucket + i * bucketMs : i \in 0..(safeLookbackBuckets - 2)}

\* The starts of the buckets of the answer
Buckets == {startBucket + i * bucketMs : i \in 0..(safeLookbackBuckets - 1)}

\* A job whose bucket is not one of them is left out.
getOverviewTimeSeries ==
  /\ pc = "asked" /\ pc' = "answered"
  /\ LET bucket == getBucketStart(updatedAt) IN
     counted' = IF bucket \in Buckets THEN bucket ELSE NotCounted
  /\ UNCHANGED inputs

Next == getOverviewTimeSeries

Spec == Init /\ [][Next]_vars

-----------------------------------------------------------------------------
\* Since the local hour, half day or day of a date began, local time has not changed and
\* no local time was a repeated one.
Regular(date) ==
  LET began == date - (local(date) % bucketMs) IN
  date < changeAt \/ (began >= changeAt /\ began + after - before >= changeAt)

\* A job is counted in the one bucket that its last update falls into, if the answer
\* goes back so far, wherever the host's days begin.  That is not so when the local time
\* of the job or of the request was changed or repeated within its own bucket, nor
\* across a change: there a job of an earlier day or half day is in no bucket of the
\* answer, while one of an earlier hour still is (if local time changes by full hours).
JobsAreCharted ==
  /\ pc = "answered" /\ Regular(updatedAt) /\ Regular(now)
  /\ \/ updatedAt < changeAt <=> now < changeAt
     \/ timeframe = "hour" /\ (after - before) % Hour = 0
  =>
    LET fallsInto == {b \in Buckets : b <= updatedAt /\ updatedAt < b + bucketMs} IN
    /\ updatedAt >= startBucket => fallsInto # {}
    /\ IF fallsInto = {} THEN counted = NotCounted ELSE fallsInto = {counted}
=============================================================================
