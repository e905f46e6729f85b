------------------------- MODULE ServicesApi_proofs --------------------------
(***************************************************************************)
(* What each of the components of Services that belong to the API keeps:   *)
(* its invariant holds at the beginning and is kept by its steps.          *)
(* Services_proofs puts them together.                                     *)
(***************************************************************************)
EXTENDS Services, FiniteSetTheorems, TLAPS

\* The cardinality of FiniteSets, under its name in each component
LEMMA SameSets ==
  ASSUME NEW S
  PROVE  Limiter!Cardinality(S) = Cardinality(S) /\ Index!Cardinality(S) = Cardinality(S)
BY DEF Limiter!Cardinality, Limiter!IsFiniteSet, Index!Cardinality, Index!IsFiniteSet, Cardinality,
       IsFiniteSet

-----------------------------------------------------------------------------
(* RateLimit: requests of one caller of the public API                     *)

\* A request is looked at within the time that a validation may take.
RequestsAreOnTime ==
  /\ \A q \in CallerRequests :
       arrived[q] <= clock /\ (limitPc[q] = "validate" => clock <= arrived[q] + Slowest)
  /\ bucket.resetAt <= clock + Window

\* Two limits are applied to a caller: the global one and that of its first record.
TwoLimits ==
  \E r \in Limiter!RecordLimits :
    /\ record \in {r, NoRecord}
    /\ \A q \in CallerRequests : limit[q] \in {GlobalLimit, Unlimited} \cup ({r} \cap KeyLimits)

\* The bucket of every request that was counted, named by its end, and the place of the
\* request in it.  Buckets end a window or more after each other.
Placed(end, place) ==
  \A q \in CallerRequests : Limiter!Counted(q) =>
    /\ place[q] \in 1..limit[q]
    /\ admitted[q] < end[q] + Slowest /\ end[q] <= admitted[q] + Window
    /\ bucket.count > 0
    /\ IF end[q] = bucket.resetAt THEN place[q] <= bucket.count
       ELSE end[q] + Window <= bucket.resetAt
    /\ \A p \in CallerRequests : p # q /\ Limiter!Counted(p) =>
         \/ end[p] = end[q] /\ place[p] # place[q]
         \/ end[p] + Window <= end[q]
         \/ end[q] + Window <= end[p]

CountsAreKept ==
  \E end \in [CallerRequests -> Nat], place \in [CallerRequests -> Nat] : Placed(end, place)

LimitInv == Limiter!TypeOK /\ RequestsAreOnTime /\ TwoLimits /\ CountsAreKept

LEMMA LimitConstants ==
  /\ WithKey \subseteq Callers
  /\ Window \in Nat \ {0} /\ Slowest \in Nat /\ GlobalLimit \in Nat
  /\ KeyLimits \subseteq Nat \ {0} /\ LastTick \in Nat
BY ServiceAssumption DEF ServiceAssumption, Limiter!RateLimitAssumption

LEMMA LimitInit == Limiter!Init => LimitInv
<1> SUFFICES ASSUME Limiter!Init PROVE LimitInv
  OBVIOUS
<1>1. Limiter!TypeOK
  BY LimitConstants DEF Limiter!Init, Limiter!TypeOK
<1>2. RequestsAreOnTime
  BY LimitConstants DEF Limiter!Init, RequestsAreOnTime
<1>3. TwoLimits
  BY DEF Limiter!Init, TwoLimits
<1>4. CountsAreKept
  <2>1. Placed([q \in CallerRequests |-> 0], [q \in CallerRequests |-> 0])
    BY DEF Limiter!Init, Placed, Limiter!Counted
  <2>2. [q \in CallerRequests |-> 0] \in [CallerRequests -> Nat]
    OBVIOUS
  <2> QED
    BY <2>1, <2>2 DEF CountsAreKept
<1> QED
  BY <1>1, <1>2, <1>3, <1>4 DEF LimitInv

\* What the bucket is after a request that read this time
LEMMA BucketIsCounted ==
  ASSUME Limiter!TypeOK, NEW q \in CallerRequests, NEW time \in Nat, NEW most \in Nat,
         Limiter!Count(q, time, most)
  PROVE  /\ bucket' \in [count : Nat, resetAt : Nat] /\ bucket'.count > 0
         /\ time < bucket'.resetAt
         /\ \/ bucket'.resetAt = bucket.resetAt /\ bucket'.count = bucket.count + 1
               /\ bucket.count > 0
            \/ bucket'.resetAt = time + Window /\ bucket'.count = 1
               /\ (bucket.count = 0 \/ bucket.resetAt <= time)
<1>1. bucket \in [count : Nat, resetAt : Nat] /\ Window \in Nat \ {0}
  BY LimitConstants DEF Limiter!TypeOK
<1>2. bucket' = [Limiter!Bucket(time) EXCEPT !.count = @ + 1]
  BY DEF Limiter!Count
<1>3. CASE bucket.count = 0 \/ bucket.resetAt <= time
  <2>1. bucket' = [count |-> 1, resetAt |-> time + Window]
    BY <1>1, <1>2, <1>3 DEF Limiter!Bucket
  <2> QED
    BY <1>1, <1>3, <2>1
<1>4. CASE ~(bucket.count = 0 \/ bucket.resetAt <= time)
  <2>1. bucket' = [bucket EXCEPT !.count = @ + 1]
    BY <1>2, <1>4 DEF Limiter!Bucket
  <2>2. bucket'.count = bucket.count + 1 /\ bucket'.resetAt = bucket.resetAt
        /\ bucket' \in [count : Nat, resetAt : Nat]
    BY <1>1, <2>1
  <2> QED
    BY <1>1, <1>4, <2>2
<1> QED
  BY <1>3, <1>4

LEMMA CountKeeps ==
  ASSUME Limiter!TypeOK, RequestsAreOnTime, TwoLimits, CountsAreKept, UNCHANGED <<clock,
         record>>,
         NEW q \in CallerRequests, limitPc[q] \in {"new", "validate"},
         NEW time \in Nat, time <= clock, clock <= time + Slowest,
         NEW most \in Nat, Limiter!Count(q, time, most)
  PROVE  CountsAreKept'
<1>1. /\ Window \in Nat \ {0} /\ Slowest \in Nat /\ clock \in Nat
      /\ bucket \in [count : Nat, resetAt : Nat] /\ bucket.resetAt <= clock + Window
      /\ admitted \in [CallerRequests -> Nat]
      /\ \A p \in CallerRequests : admitted[p] \in Nat
  BY LimitConstants DEF Limiter!TypeOK, RequestsAreOnTime
<1>2. PICK end \in [CallerRequests -> Nat], place \in [CallerRequests -> Nat] : Placed(end, place)
  BY DEF CountsAreKept
<1>3. /\ bucket' \in [count : Nat, resetAt : Nat] /\ bucket'.count > 0
      /\ time < bucket'.resetAt
      /\ \/ bucket'.resetAt = bucket.resetAt /\ bucket'.count = bucket.count + 1
            /\ bucket.count > 0
         \/ bucket'.resetAt = time + Window /\ bucket'.count = 1
            /\ (bucket.count = 0 \/ bucket.resetAt <= time)
  BY BucketIsCounted
<1>4. /\ \A p \in CallerRequests \ {q} : /\ limitPc'[p] = limitPc[p] /\ limit'[p] = limit[p]
                                 /\ admitted'[p] = admitted[p]
      /\ \A p \in CallerRequests \ {q} : Limiter!Counted(p)' <=> Limiter!Counted(p)
  BY DEF Limiter!Count, Limiter!Admit, Limiter!Goto, Limiter!Counted, Limiter!TypeOK
<1>5. \A p \in CallerRequests \ {q} : Limiter!Counted(p)' =>
        /\ place[p] \in 1..limit'[p]
        /\ admitted'[p] < end[p] + Slowest /\ end[p] <= admitted'[p] + Window
        /\ bucket'.count > 0
        /\ IF end[p] = bucket'.resetAt
           THEN place[p] < bucket'.count /\ bucket'.resetAt = bucket.resetAt
           ELSE end[p] + Window <= bucket'.resetAt
  <2> TAKE p \in CallerRequests \ {q}
  <2> HAVE Limiter!Counted(p)'
  <2>1. /\ place[p] \in 1..limit[p]
        /\ admitted[p] < end[p] + Slowest /\ end[p] <= admitted[p] + Window
        /\ bucket.count > 0
        /\ IF end[p] = bucket.resetAt THEN place[p] <= bucket.count
           ELSE end[p] + Window <= bucket.resetAt
    BY <1>2, <1>4 DEF Placed
  <2>2. end[p] \in Nat /\ place[p] \in Nat
    OBVIOUS
  <2> QED
    BY <1>1, <1>3, <1>4, <2>1, <2>2
<1>6. \A p, s \in CallerRequests \ {q} : p # s /\ Limiter!Counted(p)' /\ Limiter!Counted(s)' =>
        \/ end[p] = end[s] /\ place[p] # place[s]
        \/ end[p] + Window <= end[s]
        \/ end[s] + Window <= end[p]
  BY <1>2, <1>4 DEF Placed
<1>7. CASE ~Limiter!Counted(q)'
  <2>1. Placed(end, place)'
    BY <1>4, <1>5, <1>6, <1>7, <1>3 DEF Placed
  <2> QED
    BY <2>1 DEF CountsAreKept
<1>8. CASE Limiter!Counted(q)'
  <2>1. admitted'[q] = clock /\ limit'[q] = most /\ bucket'.count <= most
    BY <1>8, <1>3 DEF Limiter!Count, Limiter!Admit, Limiter!Goto, Limiter!Counted,
       Limiter!TypeOK
  <2>2. PICK e2 \in [CallerRequests -> Nat], p2 \in [CallerRequests -> Nat] :
          /\ e2[q] = bucket'.resetAt /\ p2[q] = bucket'.count
          /\ \A p \in CallerRequests \ {q} : e2[p] = end[p] /\ p2[p] = place[p]
    <3> DEFINE x == [end EXCEPT ![q] = bucket'.resetAt]
    <3> DEFINE y == [place EXCEPT ![q] = bucket'.count]
    <3>1. /\ x \in [CallerRequests -> Nat] /\ y \in [CallerRequests -> Nat]
          /\ x[q] = bucket'.resetAt /\ y[q] = bucket'.count
          /\ \A p \in CallerRequests \ {q} : x[p] = end[p] /\ y[p] = place[p]
      BY <1>3
    <3> QED
      BY <3>1
  <2>3. /\ p2[q] \in 1..limit'[q]
        /\ admitted'[q] < e2[q] + Slowest /\ e2[q] <= admitted'[q] + Window
    BY <1>1, <1>3, <2>1, <2>2
  <2>4. \A p \in CallerRequests \ {q} : Limiter!Counted(p)' =>
          \/ e2[p] = e2[q] /\ p2[p] # p2[q]
          \/ e2[p] + Window <= e2[q]
    BY <1>3, <1>5, <2>2
  <2>5. ASSUME NEW p \in CallerRequests, Limiter!Counted(p)'
        PROVE  /\ p2[p] \in 1..limit'[p]
               /\ admitted'[p] < e2[p] + Slowest /\ e2[p] <= admitted'[p] + Window
               /\ bucket'.count > 0
               /\ IF e2[p] = bucket'.resetAt THEN p2[p] <= bucket'.count
                  ELSE e2[p] + Window <= bucket'.resetAt
    <3>1. CASE p = q
      BY <1>3, <2>2, <2>3, <3>1
    <3>2. CASE p # q
      <4>1. place[p] \in Nat
        OBVIOUS
      <4> QED
        BY <1>3, <1>5, <2>2, <2>5, <3>2, <4>1
    <3> QED
      BY <3>1, <3>2
  <2>6. ASSUME NEW p \in CallerRequests, NEW s \in CallerRequests, p # s, Limiter!Counted(p)',
               Limiter!Counted(s)'
        PROVE  \/ e2[p] = e2[s] /\ p2[p] # p2[s]
               \/ e2[p] + Window <= e2[s]
               \/ e2[s] + Window <= e2[p]
    BY <1>6, <2>2, <2>4, <2>6
  <2>7. Placed(e2, p2)'
    BY <2>5, <2>6 DEF Placed
  <2> QED
    BY <2>2, <2>7 DEF CountsAreKept
<1> QED
  BY <1>7, <1>8

LEMMA LimitNext == LimitInv /\ [Limiter!Next]_(Limiter!vars) => LimitInv'
<1> SUFFICES ASSUME LimitInv, [Limiter!Next]_(Limiter!vars) PROVE LimitInv'
  OBVIOUS
<1> USE DEF LimitInv
<1>0. /\ Window \in Nat \ {0} /\ Slowest \in Nat /\ GlobalLimit \in Nat /\ clock \in Nat
      /\ LastTick \in Nat /\ KeyLimits \subseteq Nat
      /\ \A q \in CallerRequests : arrived[q] \in Nat
  BY LimitConstants DEF Limiter!TypeOK
\* A request that is counted
<1>1. ASSUME NEW q \in CallerRequests, limitPc[q] \in {"new", "validate"},
             NEW time \in Nat, time <= clock, clock <= time + Slowest,
             NEW most \in Nat, most \in KeyLimits \cup {GlobalLimit},
             Limiter!Count(q, time, most), UNCHANGED <<clock, caller, record>>,
             arrived' \in [CallerRequests -> 0..LastTick], \A p \in CallerRequests : arrived'[p] <= clock,
             \A p \in CallerRequests \ {q} : arrived'[p] = arrived[p],
             most = GlobalLimit \/ (most = record /\ record # NoRecord)
      PROVE  LimitInv'
  <2>1. bucket' \in [count : Nat, resetAt : Nat] /\ bucket'.resetAt <= clock + Window
    BY <1>0, <1>1, BucketIsCounted DEF RequestsAreOnTime
  <2>2. /\ limitPc' \in [CallerRequests -> {"new", "validate", "admitted", "refused"}]
        /\ limitPc'[q] \in {"admitted", "refused"}
        /\ \A p \in CallerRequests \ {q} : limitPc'[p] = limitPc[p]
        /\ admitted' \in [CallerRequests -> 0..LastTick]
        /\ limit' = [limit EXCEPT ![q] = most]
    BY <1>1 DEF Limiter!Count, Limiter!Admit, Limiter!Goto, Limiter!TypeOK
  <2>3. Limiter!TypeOK'
    BY <1>1, <2>1, <2>2 DEF Limiter!TypeOK
  <2>4. RequestsAreOnTime'
    BY <1>1, <2>1, <2>2 DEF RequestsAreOnTime
  <2>5. TwoLimits'
    <3>1. PICK r \in Limiter!RecordLimits :
            /\ record \in {r, NoRecord}
            /\ \A p \in CallerRequests :
                 limit[p] \in {GlobalLimit, Unlimited} \cup ({r} \cap KeyLimits)
      BY DEF TwoLimits
    <3>2. most = GlobalLimit \/ most = r
      BY <1>1, <3>1
    <3>3. \A p \in CallerRequests : limit'[p] \in {GlobalLimit, Unlimited} \cup ({r} \cap KeyLimits)
      BY <1>1, <2>2, <3>1, <3>2 DEF Limiter!TypeOK
    <3> QED
      BY <1>1, <3>1, <3>3 DEF TwoLimits
  <2>6. CountsAreKept'
    BY <1>1, CountKeeps
  <2> QED
    BY <2>3, <2>4, <2>5, <2>6
\* A step that counts nothing
<1>2. ASSUME UNCHANGED <<bucket, admitted, limit>>,
             \A q \in CallerRequests : Limiter!Counted(q)' <=> Limiter!Counted(q)
      PROVE  CountsAreKept'
  BY <1>2 DEF CountsAreKept, Placed
<1>3. ASSUME NEW q \in CallerRequests, Limiter!Arrive(q) PROVE LimitInv'
  <2>1. /\ limitPc[q] = "new" /\ arrived' = [arrived EXCEPT ![q] = clock]
        /\ UNCHANGED <<clock, caller, record>>
    BY <1>3 DEF Limiter!Arrive
  <2>2. /\ arrived' \in [CallerRequests -> 0..LastTick] /\ \A p \in CallerRequests : arrived'[p] <= clock
        /\ \A p \in CallerRequests \ {q} : arrived'[p] = arrived[p]
        /\ arrived'[q] = clock
    BY <1>0, <2>1 DEF Limiter!TypeOK, RequestsAreOnTime
  <2>3. CASE caller \in WithKey
    <3>1. Limiter!Goto(q, "validate") /\ UNCHANGED <<bucket, limit, admitted>>
      BY <1>3, <2>3 DEF Limiter!Arrive
    <3>2. Limiter!TypeOK'
      BY <2>1, <2>2, <3>1 DEF Limiter!TypeOK, Limiter!Goto
    <3>3. RequestsAreOnTime'
      BY <1>0, <2>1, <2>2, <3>1 DEF Limiter!TypeOK, Limiter!Goto, RequestsAreOnTime
    <3>4. TwoLimits'
      BY <2>1, <3>1 DEF TwoLimits
    <3>5. \A p \in CallerRequests : Limiter!Counted(p)' <=> Limiter!Counted(p)
      BY <2>1, <3>1 DEF Limiter!Counted, Limiter!Goto, Limiter!TypeOK
    <3> QED
      BY <1>2, <3>1, <3>2, <3>3, <3>4, <3>5
  <2>4. CASE caller \notin WithKey
    <3>1. Limiter!Count(q, clock, GlobalLimit)
      BY <1>3, <2>4 DEF Limiter!Arrive
    <3> QED
      BY <1>0, <1>1, <2>1, <2>2, <3>1
  <2> QED
    BY <2>3, <2>4
<1>4. ASSUME NEW q \in CallerRequests, Limiter!Validated(q) PROVE LimitInv'
  <2>1. /\ limitPc[q] = "validate" /\ UNCHANGED <<clock, caller, record, arrived>>
    BY <1>4 DEF Limiter!Validated
  <2>2. CASE record = Unlimited
    <3>1. Limiter!Admit(q) /\ limit' = [limit EXCEPT ![q] = Unlimited] /\ UNCHANGED bucket
      BY <1>4, <2>2 DEF Limiter!Validated
    <3>2. /\ limitPc' = [limitPc EXCEPT ![q] = "admitted"]
          /\ admitted' = [admitted EXCEPT ![q] = clock]
      BY <3>1 DEF Limiter!Admit, Limiter!Goto
    <3>3. Limiter!TypeOK'
      BY <2>1, <3>1, <3>2 DEF Limiter!TypeOK
    <3>4. RequestsAreOnTime'
      BY <2>1, <3>1, <3>2 DEF Limiter!TypeOK, RequestsAreOnTime
    <3>5. TwoLimits'
      BY <2>1, <3>1 DEF Limiter!TypeOK, TwoLimits
    <3>6. ~Limiter!Counted(q) /\ ~Limiter!Counted(q)' /\ \A p \in CallerRequests \ {q} :
            (Limiter!Counted(p)' <=> Limiter!Counted(p)) /\ limit'[p] = limit[p] /\ admitted'[p] = admitted[p]
      BY <2>1, <3>1, <3>2 DEF Limiter!Counted, Limiter!TypeOK
    <3>7. CountsAreKept'
      BY <3>1, <3>6 DEF CountsAreKept, Placed
    <3> QED
      BY <3>3, <3>4, <3>5, <3>7
  <2>3. CASE record # Unlimited
    <3> DEFINE most == IF record = NoRecord THEN GlobalLimit ELSE record
    <3>1. Limiter!Count(q, arrived[q], most)
      BY <1>4, <2>3 DEF Limiter!Validated
    <3>2. most \in Nat /\ most \in KeyLimits \cup {GlobalLimit}
          /\ (most = GlobalLimit \/ (most = record /\ record # NoRecord))
      BY <1>0, <2>3 DEF Limiter!TypeOK, Limiter!RecordLimits
    <3>3. arrived[q] <= clock /\ clock <= arrived[q] + Slowest
          /\ \A p \in CallerRequests : arrived[p] <= clock
      BY <2>1 DEF RequestsAreOnTime
    <3>4. arrived' \in [CallerRequests -> 0..LastTick] /\ arrived' = arrived
      BY <2>1 DEF Limiter!TypeOK
    <3> HIDE DEF most
    <3> QED
      BY <1>0, <1>1, <2>1, <3>1, <3>2, <3>3, <3>4
  <2> QED
    BY <2>2, <2>3
<1>5. CASE Limiter!Tick
  <2>1. /\ clock < LastTick /\ clock' = clock + 1
        /\ UNCHANGED <<caller, record, bucket, limitPc, arrived, limit, admitted>>
        /\ \A q \in CallerRequests : limitPc[q] = "validate" => clock < arrived[q] + Slowest
    BY <1>5 DEF Limiter!Tick
  <2>2. Limiter!TypeOK'
    BY <1>0, <2>1 DEF Limiter!TypeOK
  <2>3. RequestsAreOnTime'
    <3>1. bucket.resetAt \in Nat /\ bucket.resetAt <= clock + Window
      BY DEF Limiter!TypeOK, RequestsAreOnTime
    <3> QED
      BY <1>0, <2>1, <3>1 DEF RequestsAreOnTime
  <2> QED
    BY <1>2, <2>1, <2>2, <2>3 DEF TwoLimits, Limiter!Counted
<1>6. CASE Limiter!RecordEnds
  <2>1. /\ record' = NoRecord
        /\ UNCHANGED <<clock, caller, bucket, limitPc, arrived, limit, admitted>>
    BY <1>6 DEF Limiter!RecordEnds
  <2>2. Limiter!TypeOK' /\ RequestsAreOnTime' /\ TwoLimits'
    BY <2>1 DEF Limiter!TypeOK, RequestsAreOnTime, TwoLimits, Limiter!RecordLimits
  <2> QED
    BY <1>2, <2>1, <2>2 DEF Limiter!Counted
<1>7. CASE UNCHANGED Limiter!vars
  BY <1>2, <1>7 DEF Limiter!vars, Limiter!TypeOK, RequestsAreOnTime, TwoLimits, Limiter!Counted
<1> QED
  BY <1>3, <1>4, <1>5, <1>6, <1>7 DEF Limiter!Next

\* Numbers that are a length or more apart are rounded down to different multiples of it.
LEMMA ApartOnes ==
  ASSUME NEW L \in Nat \ {0}, NEW x \in Nat, NEW y \in Nat, x + L <= y
  PROVE  x \div L + 1 <= y \div L /\ x \div L \in Nat /\ y \div L \in Nat
<1> DEFINE p == x \div L
<1> DEFINE q == y \div L
<1>1. p \in Nat /\ q \in Nat /\ L * p <= x /\ x < L * p + L /\ L * q <= y /\ y < L * q + L
  OBVIOUS
<1> HIDE DEF p, q
<1>2. p + 1 <= q
  <2> SUFFICES ASSUME q <= p PROVE FALSE
    BY <1>1
  <2>1. L * q <= L * p
    BY <1>1
  <2> QED
    BY <1>1, <2>1
<1> QED
  BY <1>1, <1>2 DEF p, q

\* and a number that is small enough to one that is
LEMMA FewOnes ==
  ASSUME NEW L \in Nat \ {0}, NEW x \in Nat, NEW s \in Nat, x + 2 <= 2 * L + s
  PROVE  x \div L \in Nat /\ (s + L - 1) \div L \in Nat
         /\ x \div L + 1 <= 2 + ((s + L - 1) \div L)
<1> DEFINE p == x \div L
<1> DEFINE d == (s + L - 1) \div L
<1>0. s + L - 1 \in Nat
  OBVIOUS
<1>1. /\ p \in Nat /\ L * p <= x
      /\ d \in Nat /\ s + L - 1 < L * d + L
  BY <1>0
<1> HIDE DEF p, d
<1>2. x < L * d + 2 * L
  BY <1>1
<1>3. p + 1 <= 2 + d
  <2> SUFFICES ASSUME d + 2 <= p PROVE FALSE
    BY <1>1
  <2>1. L * (d + 2) <= L * p
    BY <1>1
  <2>2. L * (d + 2) = L * d + 2 * L
    BY <1>1
  <2> QED
    BY <1>1, <1>2, <2>1, <2>2
<1> QED
  BY <1>1, <1>3 DEF p, d

LEMMA ProductsGrow ==
  ASSUME NEW M \in Nat, NEW p \in Nat, NEW q \in Nat, p <= q
  PROVE  p * M <= q * M /\ p * M \in Nat /\ q * M \in Nat
OBVIOUS

LEMMA LimitHolds == LimitInv => Limiter!AdmittedPerMinute
<1> SUFFICES ASSUME LimitInv, NEW from \in 0..clock
             PROVE  LET inWindow == {q \in CallerRequests :
                                       Limiter!Counted(q) /\ from <= admitted[q] /\ admitted[q] < from + Window}
                    IN  inWindow # {} =>
                          \E q \in inWindow :
                            Limiter!Cardinality(inWindow) <= Limiter!BucketsPerWindow * limit[q]
  BY DEF Limiter!AdmittedPerMinute
<1> DEFINE inWindow ==
      {q \in CallerRequests : Limiter!Counted(q) /\ from <= admitted[q] /\ admitted[q] < from + Window}
<1> SUFFICES ASSUME inWindow # {}
             PROVE  \E q \in inWindow :
                      Limiter!Cardinality(inWindow) <= Limiter!BucketsPerWindow * limit[q]
  OBVIOUS
<1>0. /\ Window \in Nat \ {0} /\ Slowest \in Nat /\ GlobalLimit \in Nat /\ from \in Nat
      /\ KeyLimits \subseteq Nat
  BY LimitConstants DEF LimitInv, Limiter!TypeOK
<1>1. \E q \in inWindow :
        limit[q] \in Nat /\ \A p \in inWindow : limit[p] \in Nat /\ limit[p] <= limit[q]
  <2>1. PICK r \in Limiter!RecordLimits : \A q \in CallerRequests :
          limit[q] \in {GlobalLimit, Unlimited} \cup ({r} \cap KeyLimits)
    BY DEF LimitInv, TwoLimits
  <2>2. \A q \in inWindow : limit[q] \in Nat /\ limit[q] \in {GlobalLimit, r}
    BY <1>0, <2>1 DEF Limiter!Counted
  <2>3. CASE \A q \in inWindow : limit[q] = GlobalLimit
    BY <1>0, <2>3
  <2>4. CASE \A q \in inWindow : limit[q] = r
    BY <2>2, <2>4
  <2>5. CASE \E q, p \in inWindow : limit[q] = r /\ limit[p] = GlobalLimit
    BY <2>2, <2>5
  <2> QED
    BY <2>2, <2>3, <2>4, <2>5
<1>2. PICK top \in inWindow :
        limit[top] \in Nat /\ \A p \in inWindow : limit[p] \in Nat /\ limit[p] <= limit[top]
  BY <1>1
<1> DEFINE M == limit[top]
<1> DEFINE B == Limiter!BucketsPerWindow
<1>3. PICK end \in [CallerRequests -> Nat], place \in [CallerRequests -> Nat] : Placed(end, place)
  BY DEF LimitInv, CountsAreKept
<1> DEFINE x(q) == end[q] + Slowest - from - 1
<1> DEFINE f == [q \in inWindow |-> (x(q) \div Window) * M + place[q]]
<1>4. ASSUME NEW q \in inWindow
      PROVE  /\ x(q) \in Nat /\ x(q) + 2 <= 2 * Window + Slowest
             /\ place[q] \in 1..M
  <2>1. /\ place[q] \in 1..limit[q]
        /\ admitted[q] < end[q] + Slowest /\ end[q] <= admitted[q] + Window
        /\ from <= admitted[q] /\ admitted[q] < from + Window
    BY <1>3 DEF Placed
  <2>2. admitted[q] \in Nat /\ end[q] \in Nat /\ limit[q] \in Nat /\ limit[q] <= M
    BY <1>2 DEF LimitInv, Limiter!TypeOK
  <2> QED
    BY <1>0, <1>2, <2>1, <2>2
<1>5. B \in Nat /\ M \in Nat /\ \A q \in inWindow :
        x(q) \div Window \in Nat /\ x(q) \div Window + 1 <= B
  <2>1. ASSUME NEW q \in inWindow
        PROVE  B \in Nat /\ x(q) \div Window \in Nat /\ x(q) \div Window + 1 <= B
    <3> DEFINE y == x(q)
    <3>1. y \in Nat /\ y + 2 <= 2 * Window + Slowest
      BY <1>4
    <3> HIDE DEF y
    <3>2. /\ y \div Window \in Nat /\ (Slowest + Window - 1) \div Window \in Nat
          /\ y \div Window + 1 <= 2 + ((Slowest + Window - 1) \div Window)
      BY <1>0, <3>1, FewOnes
    <3> QED
      BY <3>2 DEF y, Limiter!BucketsPerWindow
  <2> QED
    BY <1>2, <2>1
<1>6. ASSUME NEW q \in inWindow PROVE f[q] \in 1..(B * M)
  <2> DEFINE k == x(q) \div Window
  <2>1. k \in Nat /\ k + 1 <= B /\ f[q] = k * M + place[q] /\ place[q] \in 1..M
    BY <1>4, <1>5
  <2> HIDE DEF k, f, M, B
  <2>2. (k + 1) * M <= B * M /\ k * M \in Nat /\ B * M \in Nat
    <3>1. k + 1 \in Nat /\ B \in Nat /\ M \in Nat
      BY <1>5, <2>1
    <3> QED
      BY <2>1, <3>1, ProductsGrow
  <2>3. (k + 1) * M = k * M + M
    BY <1>5, <2>1
  <2> QED
    BY <1>5, <2>1, <2>2, <2>3
<1>7. ASSUME NEW p \in inWindow, NEW q \in inWindow, end[p] + Window <= end[q]
      PROVE  f[p] < f[q]
  <2> DEFINE k == x(p) \div Window
  <2> DEFINE l == x(q) \div Window
  <2>1. /\ k \in Nat /\ f[p] = k * M + place[p] /\ place[p] \in 1..M
        /\ l \in Nat /\ f[q] = l * M + place[q] /\ place[q] \in 1..M
    BY <1>4, <1>5
  <2>2. k + 1 <= l
    <3> DEFINE y == x(p)
    <3> DEFINE z == x(q)
    <3>1. y \in Nat /\ z \in Nat
      BY <1>4
    <3>2. y + Window <= z
      BY <1>0, <1>7
    <3> HIDE DEF y, z
    <3>3. y \div Window + 1 <= z \div Window
      BY <1>0, <3>1, <3>2, ApartOnes
    <3> QED
      BY <3>3 DEF y, z
  <2> HIDE DEF k, l, f, M
  <2>3. (k + 1) * M <= l * M /\ k * M \in Nat /\ l * M \in Nat
    BY <1>5, <2>1, <2>2, ProductsGrow
  <2>4. (k + 1) * M = k * M + M
    BY <1>5, <2>1
  <2> QED
    BY <1>5, <2>1, <2>3, <2>4
<1>8. ASSUME NEW p \in inWindow, NEW q \in inWindow, p # q PROVE f[p] # f[q]
  <2>1. \/ end[p] = end[q] /\ place[p] # place[q]
        \/ end[p] + Window <= end[q]
        \/ end[q] + Window <= end[p]
    BY <1>3, <1>8 DEF Placed
  <2>2. CASE end[p] = end[q] /\ place[p] # place[q]
    <3> DEFINE k == x(p) \div Window
    <3>1. k \in Nat /\ f[p] = k * M + place[p] /\ f[q] = k * M + place[q]
      BY <1>5, <2>2
    <3>2. place[p] \in Nat /\ place[q] \in Nat
      BY <1>4, <1>5
    <3> HIDE DEF k, f, M
    <3>3. k * M \in Nat
      BY <1>5, <3>1
    <3> QED
      BY <2>2, <3>1, <3>2, <3>3
  <2>3. f[p] \in Nat /\ f[q] \in Nat
    <3> HIDE DEF f
    <3>1. B * M \in Nat
      BY <1>5
    <3> QED
      BY <1>6, <3>1
  <2> HIDE DEF f
  <2> QED
    BY <1>7, <2>1, <2>2, <2>3
<1>9. f \in Injection(inWindow, 1..(B * M))
  <2>1. f \in [inWindow -> 1..(B * M)]
    BY <1>6
  <2> HIDE DEF f
  <2> QED
    BY <1>8, <2>1 DEF Injection, IsInjective
<1>10. B * M \in Nat
  <2> HIDE DEF B, M
  <2> QED
    BY <1>5
<1>11. IsFiniteSet(1..(B * M)) /\ Cardinality(1..(B * M)) = B * M
  <2> DEFINE n == B * M
  <2>1. n \in Nat
    BY <1>10
  <2> HIDE DEF n
  <2>2. IsFiniteSet(1..n) /\ Cardinality(1..n) = IF 1 > n THEN 0 ELSE n - 1 + 1
    <3>1. 1 \in Int /\ n \in Int
      BY <2>1
    <3> QED
      BY <3>1, FS_Interval
  <2>3. Cardinality(1..n) = n
    BY <2>1, <2>2
  <2> QED
    BY <2>2, <2>3 DEF n
<1> HIDE DEF f, inWindow, M, B
<1>12. Limiter!Cardinality(inWindow) <= B * M
  BY <1>9, <1>11, FS_Injection, SameSets
<1> QED
  BY <1>2, <1>12 DEF M, B

-----------------------------------------------------------------------------
(* JobIndex: the list of jobs and the overview                             *)

NotOlder(versions, since) == \A j \in IndexedJobs : versions[j] # 0 => versions[j] >= since[j]

\* No operation ends while a request that is not late computes, so it owes what has
\* ended by now, and a cache filled by such a request does.
ComputedIsFresh ==
  /\ \A j \in IndexedJobs : finished[j] <= version[j]
  /\ \A o \in Index!Computing \ lateRequests : promised[o] = finished
  /\ \A o \in Overviews \ lateRequests :
       overviewRequest[o] \in {"store", "done"} => NotOlder(overviewShown[o], promised[o])
  /\ cache.valid /\ ~cache.late => NotOlder(cache.shown, finished)

ListedOnce(j) == \E i \in DOMAIN index : Index!Entries(j) = {i}

\* The list as a write of a job leaves it that was alone: LREM removes every entry of
\* the job, LPUSH adds one, which only LTRIM removes, and notes that.
ListIsKept ==
  \A j \in IndexedJobs \ overlapped :
    /\ \A v, w \in Index!UnderWay(j) : v = w
    /\ \A w \in Index!UnderWay(j) : /\ writePc[w] = "lpush" => Index!Entries(j) = {}
                                    /\ writePc[w] = "ltrim" /\ j \notin trimmed => ListedOnce(j)
    /\ version[j] # 0 /\ Index!UnderWay(j) = {} /\ j \notin trimmed => ListedOnce(j)

IndexInv == Index!TypeOK /\ ComputedIsFresh /\ ListIsKept

LEMMA IndexTypes ==
  ASSUME Index!TypeOK, [Index!Next]_(Index!vars)
  PROVE  Index!TypeOK'
<1> USE DEF Index!TypeOK, Index!writeVars, Index!overviewVars, Index!Goto, Index!Step,
   Index!Versions
<1>1. ASSUME NEW w \in Writes, Index!SetRecord(w) PROVE Index!TypeOK'
  BY <1>1 DEF Index!SetRecord
<1>2. ASSUME NEW w \in Writes, Index!Lrem(w) PROVE Index!TypeOK'
  BY <1>2 DEF Index!Lrem, Index!Restrict, Index!Range
<1>3. ASSUME NEW w \in Writes, Index!Lpush(w) PROVE Index!TypeOK'
  <2>1. DOMAIN index' \subseteq Nat /\ Index!Range(index)' \subseteq IndexedJobs
    <3>1. DOMAIN index' = {0} \cup {k + 1 : k \in DOMAIN index}
      BY <1>3 DEF Index!Lpush
    <3>2. \A i \in DOMAIN index' : index'[i] = IF i = 0 THEN jobOf[w] ELSE index[i - 1]
      BY <1>3 DEF Index!Lpush
    <3>3. jobOf[w] \in IndexedJobs /\ \A k \in DOMAIN index : k \in Nat /\ index[k] \in IndexedJobs
      BY DEF Index!Range
    <3>4. ASSUME NEW i \in DOMAIN index' PROVE i \in Nat /\ index'[i] \in IndexedJobs
      <4>1. CASE i = 0
        BY <3>2, <3>3, <4>1
      <4>2. CASE i # 0
        <5>1. PICK k \in DOMAIN index : i = k + 1
          BY <3>1, <4>2
        <5>2. k \in Nat /\ i - 1 = k
          BY <3>3, <5>1
        <5> QED
          BY <3>2, <3>3, <4>2, <5>1, <5>2
      <4> QED
        BY <4>1, <4>2
    <3> QED
      BY <3>4 DEF Index!Range
  <2> QED
    BY <1>3, <2>1 DEF Index!Lpush
<1>4. ASSUME NEW w \in Writes, Index!Ltrim(w) PROVE Index!TypeOK'
  <2>1. DOMAIN index' \subseteq DOMAIN index /\ Index!Range(index)' \subseteq Index!Range(index)
    BY <1>4 DEF Index!Ltrim, Index!Restrict, Index!Range
  <2> HIDE DEF Index!TypeOK
  <2>2. trimmed' \subseteq IndexedJobs
    BY <1>4, <2>1 DEF Index!Ltrim, Index!TypeOK
  <2> QED
    BY <1>4, <2>1, <2>2 DEF Index!Ltrim, Index!TypeOK
<1>5. ASSUME NEW w \in Writes, Index!Clear(w) \/ Index!Throws(w) PROVE Index!TypeOK'
  <2>1. finished' \in Index!Versions /\ lateRequests' \subseteq Overviews
    BY <1>5 DEF Index!Clear, Index!Throws, Index!Computing
  <2>2. cache' \in [valid : BOOLEAN, shown : Index!Versions, late : BOOLEAN]
    <3>1. Index!NothingCached \in [valid : BOOLEAN, shown : Index!Versions, late : BOOLEAN]
      <4>1. [j \in IndexedJobs |-> 0] \in Index!Versions
        OBVIOUS
      <4> HIDE DEF Index!Versions
      <4> QED
        BY <4>1 DEF Index!NothingCached
    <3>2. cache' = Index!NothingCached \/ cache' = cache
      BY <1>5 DEF Index!Clear, Index!Throws
    <3> QED
      BY <3>1, <3>2
  <2> QED
    BY <1>5, <2>1, <2>2 DEF Index!Clear, Index!Throws
<1>6. ASSUME NEW o \in Overviews, Index!Lookup(o) PROVE Index!TypeOK'
  BY <1>6 DEF Index!Lookup
<1>7. ASSUME NEW o \in Overviews, Index!Lrange(o) PROVE Index!TypeOK'
  BY <1>7 DEF Index!Lrange
<1>11. ASSUME NEW o \in Overviews, Index!Mget(o) PROVE Index!TypeOK'
  <2>1. [j \in IndexedJobs |-> IF j \in ids[o] THEN version[j] ELSE 0] \in Index!Versions
    OBVIOUS
  <2>2. overviewShown' \in [Overviews -> Index!Versions]
    BY <1>11, <2>1 DEF Index!Mget
  <2> QED
    BY <1>11, <2>2 DEF Index!Mget
<1>8. ASSUME NEW o \in Overviews, Index!StoreInCache(o) PROVE Index!TypeOK'
  BY <1>8 DEF Index!StoreInCache
<1>9. CASE Index!CacheExpires
  BY <1>9 DEF Index!CacheExpires, Index!NothingCached
<1>10. CASE UNCHANGED Index!vars
  BY <1>10 DEF Index!vars
<1> QED
  BY <1>1, <1>2, <1>3, <1>4, <1>5, <1>6, <1>7, <1>8, <1>9, <1>10, <1>11 DEF Index!Next

LEMMA FreshKept ==
  ASSUME Index!TypeOK, ComputedIsFresh, [Index!Next]_(Index!vars)
  PROVE  ComputedIsFresh'
<1>0. /\ jobOf \in [Writes -> IndexedJobs]
      /\ version \in [IndexedJobs -> Nat] /\ finished \in [IndexedJobs -> Nat]
      /\ overviewRequest \in [Overviews -> {"idle", "lrange", "mget", "store", "done"}]
      /\ overviewShown \in [Overviews -> [IndexedJobs -> Nat]]
      /\ promised \in [Overviews -> [IndexedJobs -> Nat]]
      /\ cache.shown \in [IndexedJobs -> Nat]
  BY DEF Index!TypeOK, Index!Versions
<1> USE <1>0 DEF ComputedIsFresh, Index!Computing, NotOlder, Index!Goto, Index!Step,
   Index!writeVars, Index!overviewVars
<1>1. ASSUME NEW w \in Writes, Index!SetRecord(w) PROVE ComputedIsFresh'
  BY <1>1 DEF Index!SetRecord
<1>2. ASSUME NEW w \in Writes, Index!Lrem(w) \/ Index!Lpush(w) \/ Index!Ltrim(w) \/
             Index!Throws(w)
      PROVE ComputedIsFresh'
  <2>1. UNCHANGED <<jobOf, version, finished, overviewRequest, overviewShown, promised, cache,
                    lateRequests>>
    BY <1>2 DEF Index!Lrem, Index!Lpush, Index!Ltrim, Index!Throws
  <2> QED
    BY <2>1
<1>3. ASSUME NEW w \in Writes, Index!Clear(w) PROVE ComputedIsFresh'
  BY <1>3 DEF Index!Clear, Index!NothingCached
<1>4. ASSUME NEW o \in Overviews, Index!Lookup(o) PROVE ComputedIsFresh'
  BY <1>4 DEF Index!Lookup
<1>5. ASSUME NEW o \in Overviews, Index!Lrange(o) PROVE ComputedIsFresh'
  BY <1>5 DEF Index!Lrange
<1>6. ASSUME NEW o \in Overviews, Index!Mget(o) PROVE ComputedIsFresh'
  BY <1>6 DEF Index!Mget
<1>7. ASSUME NEW o \in Overviews, Index!StoreInCache(o) PROVE ComputedIsFresh'
  BY <1>7 DEF Index!StoreInCache
<1>8. CASE Index!CacheExpires
  BY <1>8 DEF Index!CacheExpires, Index!NothingCached
<1>9. CASE UNCHANGED Index!vars
  BY <1>9 DEF Index!vars
<1> QED
  BY <1>1, <1>2, <1>3, <1>4, <1>5, <1>6, <1>7, <1>8, <1>9 DEF Index!Next

\* What a write does to the entries of each job
LEMMA EntriesRemoved ==
  ASSUME NEW w \in Writes, Index!Lrem(w), Index!TypeOK
  PROVE  /\ Index!Entries(jobOf[w])' = {}
         /\ \A j \in IndexedJobs \ {jobOf[w]} : Index!Entries(j)' = Index!Entries(j)
BY DEF Index!Lrem, Index!Entries, Index!Restrict

LEMMA EntriesPushed ==
  ASSUME NEW w \in Writes, Index!Lpush(w), Index!TypeOK, NEW j \in IndexedJobs
  PROVE  Index!Entries(j)' = {i + 1 : i \in Index!Entries(j)} \cup (IF j = jobOf[w] THEN {0} ELSE {})
<1>1. \A i \in DOMAIN index : i \in Nat
  BY DEF Index!TypeOK
<1>2. DOMAIN index' = {0} \cup {k + 1 : k \in DOMAIN index}
  BY DEF Index!Lpush
<1>3. \A i \in DOMAIN index' : index'[i] = IF i = 0 THEN jobOf[w] ELSE index[i - 1]
  BY DEF Index!Lpush
<1>4. ASSUME NEW i \in DOMAIN index PROVE i + 1 \in DOMAIN index' /\ index'[i + 1] = index[i]
  <2>1. i + 1 \in DOMAIN index' /\ i \in Nat
    BY <1>1, <1>2
  <2>2. i + 1 # 0 /\ (i + 1) - 1 = i
    BY <2>1
  <2> QED
    BY <1>3, <2>1, <2>2
<1>5. 0 \in DOMAIN index' /\ index'[0] = jobOf[w]
  BY <1>2, <1>3
<1> QED
  BY <1>2, <1>4, <1>5 DEF Index!Entries

LEMMA EntriesTrimmed ==
  ASSUME NEW w \in Writes, Index!Ltrim(w), Index!TypeOK, NEW j \in IndexedJobs
  PROVE  /\ Index!Entries(j)' \subseteq Index!Entries(j)
         /\ Index!Entries(j) # {} /\ Index!Entries(j)' = {} => j \in trimmed'
         /\ trimmed \subseteq trimmed'
<1>1. DOMAIN index' \subseteq DOMAIN index /\ \A i \in DOMAIN index' : index'[i] = index[i]
  BY DEF Index!Ltrim, Index!Restrict
<1>2. trimmed' = trimmed \cup (Index!Range(index) \ Index!Range(index'))
  BY DEF Index!Ltrim
<1> QED
  BY <1>1, <1>2 DEF Index!Entries, Index!Range

\* A step that changes neither the writes nor the list
LEMMA ListUnchanged ==
  ASSUME ListIsKept, UNCHANGED Index!writeVars
  PROVE  ListIsKept'
BY DEF ListIsKept, ListedOnce, Index!UnderWay, Index!Entries, Index!writeVars

LEMMA ListKept ==
  ASSUME Index!TypeOK, ListIsKept, [Index!Next]_(Index!vars)
  PROVE  ListIsKept'
<1> USE DEF Index!Goto
<1>1. ASSUME NEW w \in Writes, Index!SetRecord(w) PROVE ListIsKept'
  <2>1. \A j \in IndexedJobs :
          Index!Entries(j)' = Index!Entries(j) /\ (ListedOnce(j) => ListedOnce(j)')
    BY <1>1 DEF Index!SetRecord, Index!Entries, ListedOnce
  <2>2. \A j \in IndexedJobs \ {jobOf[w]} :
          Index!UnderWay(j)' = Index!UnderWay(j) /\ version'[j] = version[j]
    BY <1>1 DEF Index!SetRecord, Index!UnderWay, Index!TypeOK
  <2>3. Index!UnderWay(jobOf[w])' = Index!UnderWay(jobOf[w]) \cup {w} /\ writePc'[w] = "lrem"
    BY <1>1 DEF Index!SetRecord, Index!UnderWay, Index!TypeOK
  <2>4. /\ \A j \in IndexedJobs \ overlapped' : j \notin overlapped
        /\ jobOf[w] \notin overlapped' => Index!UnderWay(jobOf[w]) = {}
        /\ UNCHANGED <<jobOf, trimmed>> /\ \A v \in Writes \ {w} : writePc'[v] = writePc[v]
    BY <1>1 DEF Index!SetRecord, Index!TypeOK
  <2>5. \A j \in IndexedJobs : Index!UnderWay(j) \subseteq Writes
    BY DEF Index!UnderWay
  <2>6. \A j \in IndexedJobs \ {jobOf[w]} : w \notin Index!UnderWay(j)'
    BY <1>1 DEF Index!UnderWay, Index!SetRecord
  <2> QED
    BY <2>1, <2>2, <2>3, <2>4, <2>5, <2>6 DEF ListIsKept
<1>2. ASSUME NEW w \in Writes, Index!Lrem(w) PROVE ListIsKept'
  <2>1. \A j \in IndexedJobs \ {jobOf[w]} :
          Index!Entries(j)' = Index!Entries(j) /\ (ListedOnce(j) => ListedOnce(j)')
    BY <1>2, EntriesRemoved DEF ListedOnce, Index!Entries
  <2>2. \A j \in IndexedJobs : Index!UnderWay(j)' = Index!UnderWay(j)
    BY <1>2 DEF Index!Lrem, Index!UnderWay, Index!TypeOK
  <2>3. /\ \A j \in IndexedJobs \ {jobOf[w]} : j \notin overlapped' => j \notin overlapped
        /\ jobOf[w] \notin overlapped' => jobOf[w] \notin overlapped \/ Index!UnderWay(jobOf[w]) = {w}
        /\ UNCHANGED <<jobOf, trimmed, version>>
        /\ \A v \in Writes \ {w} : writePc'[v] = writePc[v]
        /\ writePc'[w] = "lpush"
    BY <1>2 DEF Index!Lrem, Index!TypeOK
  <2>4. /\ w \in Index!UnderWay(jobOf[w])
        /\ \A j \in IndexedJobs \ {jobOf[w]} : w \notin Index!UnderWay(j)
    BY <1>2 DEF Index!UnderWay, Index!Lrem
  <2>5. Index!Entries(jobOf[w])' = {}
    BY <1>2, EntriesRemoved
  <2>6. \A j \in IndexedJobs : Index!UnderWay(j) \subseteq Writes
    BY DEF Index!UnderWay
  <2> QED
    BY <2>1, <2>2, <2>3, <2>4, <2>5, <2>6 DEF ListIsKept
<1>3. ASSUME NEW w \in Writes, Index!Lpush(w) PROVE ListIsKept'
  <2>1. \A j \in IndexedJobs \ {jobOf[w]} :
          (Index!Entries(j) = {} => Index!Entries(j)' = {}) /\ (ListedOnce(j) => ListedOnce(j)')
    <3> TAKE j \in IndexedJobs \ {jobOf[w]}
    <3>1. /\ Index!Entries(j)' = {i + 1 : i \in Index!Entries(j)}
          /\ Index!Entries(j)' \subseteq DOMAIN index'
      BY <1>3, EntriesPushed DEF Index!Entries
    <3>2. ASSUME NEW i \in DOMAIN index, Index!Entries(j) = {i} PROVE ListedOnce(j)'
      <4>1. Index!Entries(j)' = {i + 1}
        BY <3>1, <3>2
      <4> QED
        BY <3>1, <4>1 DEF ListedOnce
    <3> QED
      BY <3>1, <3>2 DEF ListedOnce
  <2>2. Index!Entries(jobOf[w]) = {} => ListedOnce(jobOf[w])'
    <3> SUFFICES ASSUME Index!Entries(jobOf[w]) = {} PROVE ListedOnce(jobOf[w])'
      OBVIOUS
    <3>1. jobOf[w] \in IndexedJobs /\ jobOf' = jobOf
      BY <1>3 DEF Index!TypeOK, Index!Lpush
    <3>2. Index!Entries(jobOf[w])' = {0}
      BY <1>3, <3>1, EntriesPushed
    <3>3. Index!Entries(jobOf[w])' \subseteq DOMAIN index'
      BY DEF Index!Entries
    <3> QED
      BY <3>2, <3>3 DEF ListedOnce
  <2>3. \A j \in IndexedJobs : Index!UnderWay(j)' = Index!UnderWay(j)
    BY <1>3 DEF Index!Lpush, Index!UnderWay, Index!TypeOK
  <2>4. /\ trimmed' = trimmed \ {jobOf[w]}
        /\ UNCHANGED <<jobOf, overlapped, version>>
        /\ \A v \in Writes \ {w} : writePc'[v] = writePc[v]
        /\ writePc[w] = "lpush" /\ writePc'[w] = "ltrim"
    BY <1>3 DEF Index!Lpush, Index!TypeOK
  <2>5. /\ w \in Index!UnderWay(jobOf[w])
        /\ \A j \in IndexedJobs \ {jobOf[w]} : w \notin Index!UnderWay(j)
    BY <1>3 DEF Index!UnderWay, Index!Lpush
  <2>6. \A j \in IndexedJobs : Index!UnderWay(j) \subseteq Writes
    BY DEF Index!UnderWay
  <2> QED
    BY <2>1, <2>2, <2>3, <2>4, <2>5, <2>6 DEF ListIsKept
<1>4. ASSUME NEW w \in Writes, Index!Ltrim(w) PROVE ListIsKept'
  <2>1. \A j \in IndexedJobs : /\ Index!Entries(j) = {} => Index!Entries(j)' = {}
                               /\ ListedOnce(j) => ListedOnce(j)' \/ j \in trimmed'
                               /\ trimmed \subseteq trimmed'
    <3> TAKE j \in IndexedJobs
    <3>1. /\ Index!Entries(j)' \subseteq Index!Entries(j)
          /\ Index!Entries(j) # {} /\ Index!Entries(j)' = {} => j \in trimmed'
          /\ trimmed \subseteq trimmed' /\ Index!Entries(j)' \subseteq DOMAIN index'
      BY <1>4, EntriesTrimmed DEF Index!Entries
    <3> QED
      BY <3>1 DEF ListedOnce
  <2>2. /\ UNCHANGED <<jobOf, overlapped, version>>
        /\ \A v \in Writes \ {w} : writePc'[v] = writePc[v]
        /\ writePc[w] = "ltrim" /\ writePc'[w] \in {"clear", "done"}
    BY <1>4 DEF Index!Ltrim, Index!TypeOK
  <2>3. \A j \in IndexedJobs \ {jobOf[w]} : Index!UnderWay(j)' = Index!UnderWay(j)
    BY <2>2 DEF Index!UnderWay
  <2>4. /\ Index!UnderWay(jobOf[w])' = Index!UnderWay(jobOf[w]) \ {w}
        /\ w \in Index!UnderWay(jobOf[w])
    BY <2>2 DEF Index!UnderWay
  <2>5. \A j \in IndexedJobs : Index!UnderWay(j) \subseteq Writes
    BY DEF Index!UnderWay
  <2>6. \A j \in IndexedJobs \ {jobOf[w]} : w \notin Index!UnderWay(j)
    BY DEF Index!UnderWay
  <2> QED
    BY <2>1, <2>2, <2>3, <2>4, <2>5, <2>6 DEF ListIsKept
<1>5. ASSUME NEW w \in Writes, Index!Clear(w) \/ Index!Throws(w) PROVE ListIsKept'
  <2>1. \A j \in IndexedJobs :
          Index!Entries(j)' = Index!Entries(j) /\ ListedOnce(j)' = ListedOnce(j)
    BY <1>5 DEF Index!Clear, Index!Throws, Index!Entries, ListedOnce
  <2>2. /\ UNCHANGED <<jobOf, version, trimmed, overlapped>>
        /\ \A v \in Writes \ {w} : writePc'[v] = writePc[v]
        /\ writePc[w] = "clear" /\ writePc'[w] = "done"
    BY <1>5 DEF Index!Clear, Index!Throws, Index!TypeOK
  <2>3. \A j \in IndexedJobs : Index!UnderWay(j)' = Index!UnderWay(j) /\ w \notin Index!UnderWay(j) /\ Index!UnderWay(j) \subseteq Writes
    BY <2>2 DEF Index!UnderWay
  <2> QED
    BY <2>1, <2>2, <2>3 DEF ListIsKept
<1>6. ASSUME NEW o \in Overviews, Index!Lookup(o) \/ Index!Lrange(o) \/ Index!Mget(o) \/
             Index!StoreInCache(o)
      PROVE  ListIsKept'
  BY <1>6, ListUnchanged DEF Index!Lookup, Index!Lrange, Index!Mget, Index!StoreInCache
<1>7. CASE Index!CacheExpires \/ UNCHANGED Index!vars
  BY <1>7, ListUnchanged DEF Index!CacheExpires, Index!vars
<1> QED
  BY <1>1, <1>2, <1>3, <1>4, <1>5, <1>6, <1>7 DEF Index!Next

LEMMA IndexInit == Index!Init => IndexInv
<1> SUFFICES ASSUME Index!Init PROVE IndexInv
  OBVIOUS
<1>1. Index!TypeOK
  BY DEF Index!Init, Index!TypeOK, Index!NothingCached, Index!Versions, Index!Range
<1>2. ComputedIsFresh
  BY DEF Index!Init, ComputedIsFresh, Index!Computing, Index!NothingCached, NotOlder
<1>3. ListIsKept
  BY DEF Index!Init, ListIsKept, Index!UnderWay
<1> QED
  BY <1>1, <1>2, <1>3 DEF IndexInv

LEMMA IndexNext == IndexInv /\ [Index!Next]_(Index!vars) => IndexInv'
BY IndexTypes, FreshKept, ListKept DEF IndexInv

LEMMA IndexShows == IndexInv => Index!SavedIsListedOnce /\ Index!WriteIsShown
<1> SUFFICES ASSUME IndexInv PROVE Index!SavedIsListedOnce /\ Index!WriteIsShown
  OBVIOUS
<1>1. Index!WriteIsShown
  BY DEF IndexInv, Index!TypeOK, Index!Versions, ComputedIsFresh, NotOlder, Index!WriteIsShown
<1>2. ASSUME NEW j \in IndexedJobs, version[j] # 0, Index!UnderWay(j) = {}, j \notin trimmed
             \cup overlapped
      PROVE  Index!Cardinality(Index!Entries(j)) = 1
  <2>1. PICK i \in DOMAIN index : Index!Entries(j) = {i}
    BY <1>2 DEF IndexInv, ListIsKept, ListedOnce
  <2> QED
    BY <2>1, FS_Singleton, SameSets
<1> QED
  BY <1>1, <1>2 DEF Index!SavedIsListedOnce

-----------------------------------------------------------------------------
(* TimeSeries: the charts of the overview                                  *)

\* The answer counts the job where it belongs, by its own bucket.
OwnBucketIsCounted ==
  seriesPc = "answered" =>
    counted = IF Series!getBucketStart(updatedAt) \in Series!Buckets
              THEN Series!getBucketStart(updatedAt) ELSE NotCounted

SeriesInv == Series!TypeOK /\ updatedAt <= askedAt /\ OwnBucketIsCounted

LEMMA SeriesConstants ==
  /\ Hour \in Nat \ {0} /\ HalfDay \in Nat \ {0} /\ MaxBuckets \in Nat \ {0}
  /\ HalfDay * Hour \in Nat \ {0}
  /\ Default \in [Series!Timeframes -> 1..MaxBuckets]
  /\ Offsets \subseteq Int /\ Nows \subseteq Int /\ Age \in Nat
<1>1. Hour \in Nat \ {0} /\ HalfDay \in Nat \ {0} /\ MaxBuckets \in Nat \ {0}
  BY ServiceAssumption DEF ServiceAssumption, Series!TimeSeriesAssumption
<1>2. HalfDay * Hour \in Nat \ {0}
  BY <1>1
<1> QED
  BY <1>1, <1>2, ServiceAssumption DEF ServiceAssumption, Series!TimeSeriesAssumption

LEMMA LengthsAreRight ==
  ASSUME Series!TypeOK
  PROVE  Series!bucketMs \in Nat \ {0} /\ Series!safeLookbackBuckets \in Nat \ {0}
<1>1. Series!bucketMs \in Nat \ {0}
  <2>1. 2 * (HalfDay * Hour) \in Nat \ {0}
    BY SeriesConstants
  <2> QED
    BY <2>1, SeriesConstants DEF Series!bucketMs
<1>2. Default[timeframe] \in Nat \ {0}
  BY SeriesConstants DEF Series!TypeOK
<1>3. Series!safeLookbackBuckets \in Nat \ {0}
  BY <1>2, SeriesConstants DEF Series!TypeOK, Series!safeLookbackBuckets
<1> QED
  BY <1>1, <1>3

LEMMA TimesAreIntegers ==
  ASSUME Series!TypeOK
  PROVE  /\ updatedAt \in Int /\ askedAt \in Int /\ changeAt \in Int
         /\ before \in Int /\ after \in Int
BY SeriesConstants DEF Series!TypeOK

LEMMA SeriesInit == Series!Init => SeriesInv
<1> SUFFICES ASSUME Series!Init PROVE SeriesInv
  OBVIOUS
<1>1. /\ askedAt \in Int /\ Age \in Nat
      /\ updatedAt \in (askedAt - Age)..askedAt /\ changeAt \in (askedAt - Age)..(askedAt + 1)
  BY SeriesConstants DEF Series!Init
<1>2. updatedAt \in Int /\ updatedAt <= askedAt /\ changeAt \in Int
  BY <1>1
<1>3. lookback \in Int \cup {NotGiven}
  BY SeriesConstants DEF Series!Init
<1> QED
  BY <1>1, <1>2, <1>3 DEF Series!Init, SeriesInv, Series!TypeOK, OwnBucketIsCounted

-----------------------------------------------------------------------------
(* Rounding down to a multiple of a length                                 *)

LEMMA RoundedDown ==
  ASSUME NEW L \in Nat \ {0}, NEW x \in Int
  PROVE  x % L \in 0..(L - 1) /\ \E q \in Int : x - (x % L) = q * L
<1>1. x % L \in 0..(L - 1) /\ x \div L \in Int /\ x = L * (x \div L) + (x % L)
  OBVIOUS
<1>2. x - (x % L) = (x \div L) * L
  <2> DEFINE q == x \div L
  <2> DEFINE r == x % L
  <2>1. q \in Int /\ r \in Int /\ x = L * q + r
    BY <1>1
  <2> HIDE DEF q, r
  <2>2. x - r = q * L
    BY <2>1
  <2> QED
    BY <2>2 DEF q, r
<1> QED
  BY <1>1, <1>2

LEMMA Monotone ==
  ASSUME NEW L \in Nat, NEW p \in Int, NEW q \in Int, p <= q
  PROVE  p * L <= q * L /\ p * L \in Int /\ q * L \in Int
OBVIOUS

\* Two multiples of a length that an instant is between are the same.
LEMMA OneMultiple ==
  ASSUME NEW L \in Nat \ {0}, NEW p \in Int, NEW q \in Int, NEW x \in Int,
         p * L <= x, x < q * L + L
  PROVE  p <= q
<1> SUFFICES ASSUME q + 1 <= p PROVE FALSE
  OBVIOUS
<1>1. (q + 1) * L <= p * L /\ (q + 1) * L \in Int /\ p * L \in Int
  BY Monotone
<1>2. (q + 1) * L = q * L + L
  OBVIOUS
<1> QED
  BY <1>1, <1>2

\* There is only one remainder.
LEMMA OneRemainder ==
  ASSUME NEW L \in Nat \ {0}, NEW q \in Int, NEW r \in 0..(L - 1)
  PROVE  (q * L + r) % L = r
<1> DEFINE x == q * L + r
<1>1. q * L \in Int /\ x \in Int
  OBVIOUS
<1>2. x = q * L + r
  OBVIOUS
<1> HIDE DEF x
<1>3. x % L \in 0..(L - 1) /\ \E p \in Int : x - (x % L) = p * L
  BY <1>1, RoundedDown
<1>4. PICK p \in Int : x - (x % L) = p * L
  BY <1>3
<1>5. p * L \in Int
  OBVIOUS
<1>6. q <= p
  <2>1. q * L <= x /\ x < p * L + L
    BY <1>1, <1>2, <1>3, <1>4, <1>5
  <2> QED
    BY <1>1, <2>1, OneMultiple
<1>7. p <= q
  <2>1. p * L <= x /\ x < q * L + L
    BY <1>1, <1>2, <1>3, <1>4, <1>5
  <2> QED
    BY <1>1, <2>1, OneMultiple
<1>8. p = q
  BY <1>6, <1>7
<1>9. x % L = r
  <2>1. PICK rest : rest = x % L
    OBVIOUS
  <2>2. rest \in Int /\ x - rest = q * L
    BY <1>3, <1>4, <1>8, <2>1
  <2>3. rest = r
    BY <1>1, <1>2, <2>2
  <2> QED
    BY <2>1, <2>3
<1> QED
  BY <1>9 DEF x

\* Half a day consists of hours: rounding down to the hour first makes no difference.
LEMMA HourFirst ==
  ASSUME NEW H \in Nat \ {0}, NEW K \in Nat \ {0}, NEW x \in Int, K * H \in Nat \ {0}
  PROVE  /\ x % H <= x % (K * H)
         /\ (x - (x % H)) % H = 0
         /\ (x - (x % H)) % (K * H) = (x % (K * H)) - (x % H)
<1> DEFINE L == K * H
<1> DEFINE r == x % H
<1> DEFINE s == x % L
<1>1. L \in Nat \ {0} /\ L = K * H
  OBVIOUS
<1> HIDE DEF L
<1>2. r \in 0..(H - 1) /\ \E q \in Int : x - r = q * H
  BY RoundedDown
<1>3. s \in 0..(L - 1) /\ \E p \in Int : x - s = p * L
  BY <1>1, RoundedDown
<1> HIDE DEF r, s
<1>4. PICK q \in Int : x - r = q * H
  BY <1>2
<1>5. PICK p \in Int : x - s = p * L
  BY <1>3
<1> DEFINE m == q - p * K
<1>6. p * K \in Int /\ m \in Int /\ q * H \in Int /\ p * L \in Int
  BY <1>1
<1>7. m * H = s - r
  <2>1. m * H = q * H - (p * K) * H
    BY <1>6
  <2>2. (p * K) * H = p * L
    BY <1>1
  <2> QED
    BY <1>1, <1>2, <1>3, <1>4, <1>5, <1>6, <2>1, <2>2
<1> HIDE DEF m
<1>8. r <= s
  <2>1. 0 * H <= s /\ s < m * H + H /\ s \in Int
    BY <1>1, <1>2, <1>3, <1>7
  <2>2. 0 <= m
    BY <1>6, <2>1, OneMultiple
  <2>3. 0 * H <= m * H
    BY <1>6, <2>2, Monotone
  <2> QED
    BY <1>1, <1>2, <1>3, <1>7, <2>3
<1>9. (x - r) % H = 0
  <2>1. 0 \in 0..(H - 1) /\ q * H + 0 = x - r
    BY <1>4, <1>6
  <2>2. (q * H + 0) % H = 0
    BY <2>1, OneRemainder
  <2> QED
    BY <2>1, <2>2
<1>10. (x - r) % L = s - r
  <2>1. s - r \in 0..(L - 1) /\ p * L + (s - r) = x - r
    BY <1>1, <1>2, <1>3, <1>5, <1>6, <1>8
  <2>2. (p * L + (s - r)) % L = s - r
    BY <1>1, <2>1, OneRemainder
  <2> QED
    BY <2>1, <2>2
<1> QED
  BY <1>8, <1>9, <1>10, Zenon DEF r, s, L

-----------------------------------------------------------------------------
(* The start of a bucket                                                   *)

\* By how much local time is ahead at a date
Ahead(date) == IF date < changeAt THEN before ELSE after

LEMMA LocalIsAhead ==
  ASSUME Series!TypeOK, NEW date \in Int
  PROVE  /\ Ahead(date) \in Int /\ Series!local(date) = date + Ahead(date)
         /\ Series!local(date) \in Int
BY TimesAreIntegers DEF Ahead, Series!local

LEMMA DateIsInteger ==
  ASSUME Series!TypeOK, NEW time \in Int
  PROVE  Series!dateOf(time) \in Int
BY TimesAreIntegers DEF Series!dateOf

LEMMA FullHourIsInteger ==
  ASSUME Series!TypeOK, NEW date \in Int
  PROVE  Series!atFullHour(date) \in Int
<1>1. Series!local(date) \in Int /\ Hour \in Nat \ {0}
  BY LocalIsAhead, SeriesConstants
<1>2. Series!local(date) % Hour \in Int
  BY <1>1
<1>3. Series!local(date) - (Series!local(date) % Hour) \in Int
  BY <1>1, <1>2
<1> QED
  BY <1>3, DateIsInteger DEF Series!atFullHour

LEMMA StartIsInteger ==
  ASSUME Series!TypeOK, NEW date \in Int
  PROVE  Series!getBucketStart(date) \in Int
<1> DEFINE start(time) == time - (time % Series!bucketMs) + (time % Hour)
<1> DEFINE midnight(time) == time - (time % Series!bucketMs)
<1>1. Series!bucketMs \in Nat \ {0} /\ Hour \in Nat \ {0}
  BY LengthsAreRight, SeriesConstants
<1>2. ASSUME NEW time \in Int PROVE start(time) \in Int /\ midnight(time) \in Int
  <2>1. time % Series!bucketMs \in Int /\ time % Hour \in Int
    BY <1>1
  <2> QED
    BY <2>1
<1>3. Series!local(date) \in Int /\ Series!atFullHour(date) \in Int
  BY LocalIsAhead, FullHourIsInteger
<1>4. Series!local(Series!atFullHour(date)) \in Int
  BY <1>3, LocalIsAhead
<1>5. Series!getBucketStart(date) \in {Series!atFullHour(date),
        Series!dateOf(start(Series!local(Series!atFullHour(date)))),
        Series!dateOf(midnight(Series!local(date)))}
  BY DEF Series!getBucketStart
<1>6. /\ Series!dateOf(start(Series!local(Series!atFullHour(date)))) \in Int
      /\ Series!dateOf(midnight(Series!local(date))) \in Int
  BY <1>2, <1>3, <1>4, DateIsInteger
<1> QED
  BY <1>3, <1>5, <1>6

\* Within the bucket of a regular date no local time is skipped or repeated.
LEMMA RegularDates ==
  ASSUME Series!TypeOK, NEW date \in Int, Series!Regular(date), NEW time \in Int,
         Series!local(date) - (Series!local(date) % Series!bucketMs) <= time,
         time <= Series!local(date)
  PROVE  Series!dateOf(time) = time - Ahead(date) /\ Series!local(time - Ahead(date)) = time
<1> DEFINE r == Series!local(date) % Series!bucketMs
<1>1. Series!bucketMs \in Nat \ {0} /\ Series!local(date) \in Int
  BY LengthsAreRight, LocalIsAhead
<1>2. r \in Int
  BY <1>1
<1>3. /\ date < changeAt \/ (date - r >= changeAt /\ (date - r) + after - before >= changeAt)
      /\ Series!local(date) - r <= time
  BY DEF Series!Regular
<1> HIDE DEF r
<1>4. CASE date < changeAt
  <2>1. Ahead(date) = before /\ time - before < changeAt
    BY <1>4, TimesAreIntegers DEF Ahead, Series!local
  <2> QED
    BY <2>1, TimesAreIntegers DEF Series!dateOf, Series!local
<1>5. CASE ~(date < changeAt)
  <2>1. Ahead(date) = after /\ Series!local(date) = date + after
    BY <1>5 DEF Ahead, Series!local
  <2>2. time - after >= changeAt /\ time - before >= changeAt
    BY <1>2, <1>3, <1>5, <2>1, TimesAreIntegers
  <2> QED
    BY <2>1, <2>2, TimesAreIntegers DEF Series!dateOf, Series!local
<1> QED
  BY <1>4, <1>5

\* The bucket of a regular date starts as long before it as its local time says.
LEMMA RegularStart ==
  ASSUME Series!TypeOK, NEW date \in Int, Series!Regular(date)
  PROVE  Series!getBucketStart(date) = date - (Series!local(date) % Series!bucketMs)
<1> DEFINE l == Series!local(date)
<1> DEFINE L == Series!bucketMs
<1> DEFINE a == Ahead(date)
<1>1. L \in Nat \ {0} /\ l \in Int /\ a \in Int /\ l = date + a /\ Hour \in Nat \ {0}
  BY LengthsAreRight, LocalIsAhead, SeriesConstants
<1>2. l % L \in 0..(L - 1) /\ l % Hour \in 0..(Hour - 1)
  BY <1>1
<1>3. ASSUME NEW time \in Int, l - (l % L) <= time, time <= l
      PROVE  Series!dateOf(time) = time - a /\ Series!local(time - a) = time
  BY <1>3, RegularDates
<1> HIDE DEF l, L, a
<1>4. /\ l - (l % L) \in Int /\ l - (l % L) <= l /\ (l - (l % L)) - a = date - (l % L)
      /\ Series!dateOf(l - (l % L)) = (l - (l % L)) - a
  <2>1. l - (l % L) \in Int /\ l - (l % L) <= l /\ (l - (l % L)) - a = date - (l % L)
    BY <1>1, <1>2
  <2> QED
    BY <1>3, <2>1
<1>5. CASE timeframe = "hour"
  <2>1. L = Hour
    BY <1>5 DEF L, Series!bucketMs
  <2> QED
    BY <1>4, <1>5, <2>1 DEF l, L, Series!getBucketStart, Series!atFullHour
<1>6. CASE timeframe = "12h"
  <2>1. L = HalfDay * Hour
    BY <1>6 DEF L, Series!bucketMs
  <2>2. /\ l % Hour <= l % L
        /\ (l - (l % Hour)) % Hour = 0
        /\ (l - (l % Hour)) % L = (l % L) - (l % Hour)
    BY <1>1, <2>1, HourFirst, SeriesConstants
  <2> DEFINE full == l - (l % Hour)
  <2>3. full \in Int /\ l - (l % L) <= full /\ full <= l
    BY <1>1, <1>2, <2>2
  <2>4. full - (full % L) + (full % Hour) = l - (l % L)
    <3>1. PICK r, s : r = l % Hour /\ s = l % L
      OBVIOUS
    <3>2. /\ r \in Int /\ s \in Int
          /\ full = l - r /\ full % Hour = 0 /\ full % L = s - r
      BY <1>2, <2>2, <3>1
    <3>3. full - (s - r) + 0 = l - s
      BY <1>1, <3>2
    <3> QED
      BY <3>1, <3>2, <3>3
  <2>5. Series!dateOf(full) = full - a /\ Series!local(full - a) = full
    BY <1>3, <2>3
  <2>6. Series!atFullHour(date) = full - a
    BY <2>5 DEF Series!atFullHour, l
  <2>7. Series!getBucketStart(date) =
          Series!dateOf(Series!local(full - a) - (Series!local(full - a) % L) + (Series!local(full - a) % Hour))
    BY <1>6, <2>6 DEF Series!getBucketStart, L
  <2>8. Series!getBucketStart(date) = Series!dateOf(l - (l % L))
    BY <2>4, <2>5, <2>7
  <2> QED
    BY <1>4, <2>8 DEF l, L
<1>7. CASE timeframe = "day"
  BY <1>4, <1>7 DEF l, L, Series!getBucketStart
<1> QED
  BY <1>5, <1>6, <1>7 DEF Series!TypeOK, Series!Timeframes

\* It is a multiple of the length of a bucket in local time.
LEMMA StartsAreMultiples ==
  ASSUME Series!TypeOK, NEW date \in Int, Series!Regular(date)
  PROVE  LET b == Series!getBucketStart(date) IN
         /\ b \in Int /\ b <= date /\ date < b + Series!bucketMs
         /\ \E q \in Int : b + Ahead(date) = q * Series!bucketMs
<1> DEFINE L == Series!bucketMs
<1> DEFINE a == Ahead(date)
<1> DEFINE r == (date + a) % L
<1>1. L \in Nat \ {0} /\ a \in Int /\ date + a \in Int
  BY LengthsAreRight, LocalIsAhead
<1>2. r \in 0..(L - 1) /\ \E q \in Int : (date + a) - r = q * L
  <2> HIDE DEF L, a
  <2> QED
    BY <1>1, RoundedDown
<1>3. Series!getBucketStart(date) = date - r
  BY RegularStart, LocalIsAhead
<1> HIDE DEF L, r, a
<1>4. date - r \in Int /\ date - r <= date /\ date < (date - r) + L
  BY <1>1, <1>2
<1>5. PICK q \in Int : (date + a) - r = q * L
  BY <1>2
<1>6. (date - r) + a = q * L
  BY <1>1, <1>2, <1>5
<1> QED
  BY <1>3, <1>4, <1>6 DEF L, a

LEMMA SeriesNext == SeriesInv /\ [Series!Next]_(Series!vars) => SeriesInv'
<1> SUFFICES ASSUME SeriesInv, [Series!Next]_(Series!vars) PROVE SeriesInv'
  OBVIOUS
<1>1. /\ Series!getBucketStart(updatedAt) \in Int
      /\ updatedAt \in Int
  BY StartIsInteger, TimesAreIntegers DEF SeriesInv
<1>2. UNCHANGED Series!inputs
  BY DEF Series!Next, Series!getOverviewTimeSeries, Series!vars
<1>3. UNCHANGED <<Series!getBucketStart(updatedAt), Series!Buckets>>
  BY <1>2 DEF Series!inputs, Series!Buckets, Series!startBucket, Series!endBucket,
     Series!safeLookbackBuckets, Series!getBucketStart, Series!atFullHour, Series!dateOf,
     Series!local, Series!bucketMs
<1>4. CASE Series!getOverviewTimeSeries
  <2>1. /\ seriesPc' = "answered"
        /\ counted' = IF Series!getBucketStart(updatedAt) \in Series!Buckets
                      THEN Series!getBucketStart(updatedAt) ELSE NotCounted
    BY <1>4 DEF Series!getOverviewTimeSeries
  <2>2. counted' \in Int \cup {NotCounted}
    BY <1>1, <2>1
  <2>3. Series!TypeOK'
    BY <1>2, <2>1, <2>2 DEF SeriesInv, Series!TypeOK, Series!inputs
  <2>4. OwnBucketIsCounted'
    BY <1>3, <2>1 DEF OwnBucketIsCounted
  <2> QED
    BY <1>2, <2>3, <2>4 DEF SeriesInv, Series!inputs
<1>5. CASE UNCHANGED Series!vars
  <2>1. Series!TypeOK'
    BY <1>5 DEF Series!vars, Series!inputs, SeriesInv, Series!TypeOK
  <2>2. OwnBucketIsCounted'
    BY <1>3, <1>5 DEF Series!vars, SeriesInv, OwnBucketIsCounted
  <2> QED
    BY <1>2, <2>1, <2>2 DEF SeriesInv, Series!inputs
<1> QED
  BY <1>4, <1>5 DEF Series!Next

\* A change of local time by full hours moves no start of an hour.
LEMMA SameGrid ==
  ASSUME Series!TypeOK,
         \/ updatedAt < changeAt <=> askedAt < changeAt
         \/ timeframe = "hour" /\ (after - before) % Hour = 0
  PROVE  \E e \in Int : Ahead(updatedAt) - Ahead(askedAt) = e * Series!bucketMs
<1>1. Series!bucketMs \in Nat \ {0} /\ Hour \in Nat \ {0} /\ before \in Int /\ after \in Int
  BY LengthsAreRight, SeriesConstants, TimesAreIntegers
<1>2. CASE updatedAt < changeAt <=> askedAt < changeAt
  <2>1. Ahead(updatedAt) - Ahead(askedAt) = 0 * Series!bucketMs
    BY <1>1, <1>2 DEF Ahead
  <2> QED
    BY <2>1
<1>3. CASE timeframe = "hour" /\ (after - before) % Hour = 0
  <2>1. Series!bucketMs = Hour /\ after - before \in Int
    BY <1>1, <1>3 DEF Series!bucketMs
  <2>2. PICK d \in Int : (after - before) - ((after - before) % Hour) = d * Hour
    BY <1>1, <2>1, RoundedDown
  <2>3. after - before = d * Hour
    BY <1>1, <1>3, <2>2
  <2>4. /\ -d \in Int /\ before - after = (-d) * Hour
        /\ 0 \in Int /\ after - after = 0 * Hour /\ before - before = 0 * Hour
    BY <1>1, <2>3
  <2>5. Ahead(updatedAt) \in {before, after} /\ Ahead(askedAt) \in {before, after}
    BY DEF Ahead
  <2> QED
    BY <2>1, <2>3, <2>4, <2>5
<1> QED
  BY <1>2, <1>3

LEMMA SeriesCharted == SeriesInv => Series!JobsAreCharted
<1> SUFFICES ASSUME SeriesInv, seriesPc = "answered",
                    Series!Regular(updatedAt), Series!Regular(askedAt),
                    \/ updatedAt < changeAt <=> askedAt < changeAt
                    \/ timeframe = "hour" /\ (after - before) % Hour = 0
             PROVE  LET fallsInto == {c \in Series!Buckets : c <= updatedAt /\ updatedAt < c + Series!bucketMs} IN
                    /\ updatedAt >= Series!startBucket => fallsInto # {}
                    /\ IF fallsInto = {} THEN counted = NotCounted ELSE fallsInto = {counted}
  BY DEF Series!JobsAreCharted
<1> DEFINE fallsInto == {c \in Series!Buckets : c <= updatedAt /\ updatedAt < c + Series!bucketMs}
<1> DEFINE L == Series!bucketMs
<1> DEFINE n == Series!safeLookbackBuckets
<1> DEFINE b == Series!getBucketStart(updatedAt)
<1> DEFINE offset == Ahead(askedAt)
<1>1. /\ L \in Nat \ {0} /\ n \in Nat \ {0}
      /\ updatedAt \in Int /\ offset \in Int /\ askedAt \in Int
      /\ updatedAt <= askedAt
  BY LengthsAreRight, TimesAreIntegers, LocalIsAhead DEF SeriesInv
<1>2. Ahead(updatedAt) \in Int /\ \E e \in Int : Ahead(updatedAt) - offset = e * L
  BY <1>1, SameGrid, LocalIsAhead DEF SeriesInv
<1>3. counted = IF b \in Series!Buckets THEN b ELSE NotCounted
  BY DEF SeriesInv, OwnBucketIsCounted
<1>4. /\ b \in Int /\ b <= updatedAt /\ updatedAt < b + L
      /\ \E q \in Int : b + Ahead(updatedAt) = q * L
  BY <1>1, StartsAreMultiples DEF SeriesInv
<1>5. /\ Series!endBucket \in Int /\ askedAt < Series!endBucket + L
      /\ \E q \in Int : Series!endBucket + offset = q * L
  BY <1>1, StartsAreMultiples DEF SeriesInv, Series!endBucket
<1>6. /\ Series!Buckets = {Series!startBucket + i * L : i \in 0..(n - 1)}
      /\ Series!startBucket = Series!endBucket - (n - 1) * L
  BY DEF Series!Buckets, Series!startBucket
<1> HIDE DEF L, n, b, offset
<1>7. PICK own \in Int : b + offset = own * L
  <2>1. PICK e \in Int : Ahead(updatedAt) - offset = e * L
    BY <1>2
  <2>2. PICK q \in Int : b + Ahead(updatedAt) = q * L
    BY <1>4
  <2>3. e * L \in Int /\ q * L \in Int /\ (q - e) * L = q * L - e * L /\ q - e \in Int
    BY <1>1
  <2>4. b + offset = (q - e) * L
    BY <1>1, <1>2, <1>4, <2>1, <2>2, <2>3
  <2> QED
    BY <2>3, <2>4
<1>8. PICK last \in Int : Series!endBucket + offset = last * L
  BY <1>5
<1>9. Series!startBucket \in Int /\ \A i \in 0..(n - 1) :
        i * L \in Int /\ (Series!startBucket + i * L) + offset = (last - (n - 1) + i) * L
  <2>1. (n - 1) * L \in Int
    BY <1>1
  <2>2. Series!startBucket \in Int /\ Series!startBucket + offset = (last - (n - 1)) * L
    BY <1>1, <1>5, <1>6, <1>8, <2>1
  <2>3. ASSUME NEW i \in 0..(n - 1)
        PROVE  i * L \in Int /\ (Series!startBucket + i * L) + offset = (last - (n - 1) + i) * L
    <3>1. i * L \in Int
      BY <1>1
    <3>2. (Series!startBucket + i * L) + offset = (Series!startBucket + offset) + i * L
      BY <1>1, <2>2, <3>1
    <3>3. (last - (n - 1)) * L + i * L = (last - (n - 1) + i) * L
      BY <1>1
    <3> QED
      BY <2>2, <3>1, <3>2, <3>3
  <2> QED
    BY <2>2, <2>3
<1>10. \A c \in fallsInto : c = b
  <2> TAKE c \in fallsInto
  <2>1. PICK i \in 0..(n - 1) : c = Series!startBucket + i * L
    BY <1>6
  <2> DEFINE k == last - (n - 1) + i
  <2>2. k \in Int /\ c \in Int /\ c + offset = k * L
    BY <1>1, <1>9, <2>1
  <2>3. c <= updatedAt /\ updatedAt < c + L
    BY DEF L
  <2> HIDE DEF k
  <2>4. /\ k * L <= updatedAt + offset /\ updatedAt + offset < own * L + L
        /\ own * L <= updatedAt + offset /\ updatedAt + offset < k * L + L
    BY <1>1, <1>4, <1>7, <2>2, <2>3
  <2>5. k <= own /\ own <= k
    BY <1>1, <2>2, <2>4, OneMultiple
  <2>6. k = own
    BY <2>2, <2>5
  <2> QED
    BY <1>1, <1>4, <1>7, <2>2, <2>6
<1>11. b \in Series!Buckets => b \in fallsInto
  BY <1>4 DEF L
<1>12. updatedAt >= Series!startBucket => b \in Series!Buckets
  <2> SUFFICES ASSUME updatedAt >= Series!startBucket PROVE b \in Series!Buckets
    OBVIOUS
  <2> DEFINE first == last - (n - 1)
  <2>0. first \in Int
    BY <1>1
  <2>1. Series!startBucket + offset = first * L
    <3>1. 0 \in 0..(n - 1) /\ 0 * L = 0
      BY <1>1
    <3> QED
      BY <1>1, <1>9, <3>1
  <2> HIDE DEF first
  <2>2. first * L <= updatedAt + offset /\ updatedAt + offset < own * L + L
    BY <1>1, <1>4, <1>7, <1>9, <2>1
  <2>3. own * L <= updatedAt + offset /\ updatedAt + offset < last * L + L
    BY <1>1, <1>4, <1>5, <1>7, <1>8
  <2>4. first <= own /\ own <= last
    BY <1>1, <2>0, <2>2, <2>3, OneMultiple
  <2>5. own - first \in 0..(n - 1)
    BY <1>1, <2>4 DEF first
  <2>6. (Series!startBucket + (own - first) * L) + offset = (last - (n - 1) + (own - first)) * L
    BY <1>9, <2>5
  <2>7. last - (n - 1) + (own - first) = own
    BY <1>1 DEF first
  <2>8. b = Series!startBucket + (own - first) * L
    BY <1>1, <1>4, <1>7, <1>9, <2>0, <2>5, <2>6, <2>7
  <2> QED
    BY <1>6, <2>5, <2>8
<1> QED
  BY <1>3, <1>10, <1>11, <1>12
==============================================================================
