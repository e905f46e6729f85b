----------------------- MODULE ServicesClients_proofs ------------------------
(***************************************************************************)
(* What the clients of the API among the components of Services keep: the  *)
(* Node SDK and the pages of the dashboard.  Services_proofs puts them     *)
(* together with the others.                                               *)
(***************************************************************************)
EXTENDS Services, WellFoundedInduction, TLAPS

-----------------------------------------------------------------------------
(* SdkClient: a call of the Node SDK                                       *)

-----------------------------------------------------------------------------
(* Sdk!resolveAdaptiveInterval picks one of the caller's intervals             *)

LEMMA Smallest ==
  ASSUME NEW S \in SUBSET Nat, S # {}
  PROVE  \E m \in S : \A n \in S : m <= n
<1> DEFINE R == {ss \in Nat \X Nat : ss[1] < ss[2]}
<1>1. IsWellFoundedOn(R, Nat)
  BY NatLessThanWellFounded DEF OpToRel
<1> HIDE DEF R
<1>2. PICK m \in S : \A n \in S : ~(<<n, m>> \in R)
  BY <1>1, WFMin
<1>3. ASSUME NEW n \in S PROVE m <= n
  <2>1. m \in Nat /\ n \in Nat
    OBVIOUS
  <2>2. ~(n < m)
    BY <1>2, <2>1 DEF R
  <2> QED
    BY <2>1, <2>2
<1> QED
  BY <1>3

\* A set of steps has an earliest and a latest one, whatever the caller's order.
LEMMA Earliest ==
  ASSUME NEW S \in SUBSET Nat, S # {}, \A i \in S : Sdk!AfterMs(i) \in Nat
  PROVE  \E i \in S : \A j \in S : Sdk!Before(i, j)
<1> DEFINE Starts == {Sdk!AfterMs(i) : i \in S}
<1>1. PICK m \in Starts : \A n \in Starts : m <= n
  <2>1. Starts \in SUBSET Nat /\ Starts # {}
    OBVIOUS
  <2> HIDE DEF Starts
  <2> QED
    BY <2>1, Smallest
<1> DEFINE T == {i \in S : Sdk!AfterMs(i) = m}
<1>2. PICK i \in T : \A j \in T : i <= j
  <2>1. T \in SUBSET Nat /\ T # {}
    BY <1>1
  <2> HIDE DEF T
  <2> QED
    BY <2>1, Smallest
<1>3. ASSUME NEW j \in S PROVE Sdk!Before(i, j)
  <2>1. m <= Sdk!AfterMs(j) /\ Sdk!AfterMs(i) = m /\ Sdk!AfterMs(j) \in Nat /\ m \in Nat
    BY <1>1, <1>2
  <2>2. CASE m = Sdk!AfterMs(j)
    BY <1>2, <2>1, <2>2 DEF Sdk!Before
  <2>3. CASE m < Sdk!AfterMs(j)
    BY <2>1, <2>3 DEF Sdk!Before
  <2> QED
    BY <2>1, <2>2, <2>3
<1> QED
  BY <1>2, <1>3

LEMMA Latest ==
  ASSUME NEW n \in Nat, NEW S \in SUBSET (1..n), S # {},
         NEW t \in Nat, \A i \in S : Sdk!AfterMs(i) \in 0..t
  PROVE  \E i \in S : \A j \in S : Sdk!Before(j, i)
<1> DEFINE Ages == {t - Sdk!AfterMs(i) : i \in S}
<1>1. PICK m \in Ages : \A k \in Ages : m <= k
  <2>1. \A i \in S : t - Sdk!AfterMs(i) \in Nat
    OBVIOUS
  <2>2. Ages \in SUBSET Nat /\ Ages # {}
    BY <2>1
  <2> HIDE DEF Ages
  <2> QED
    BY <2>2, Smallest
<1> DEFINE T == {i \in S : t - Sdk!AfterMs(i) = m}
<1> DEFINE Places == {n - i : i \in T}
<1>2. PICK p \in Places : \A k \in Places : p <= k
  <2>1. T # {}
    BY <1>1
  <2>2. \A i \in T : i \in 1..n /\ n - i \in Nat
    OBVIOUS
  <2>3. Places \in SUBSET Nat /\ Places # {}
    BY <2>1, <2>2
  <2> HIDE DEF Places
  <2> QED
    BY <2>3, Smallest
<1>3. PICK i \in T : p = n - i
  BY <1>2
<1>4. ASSUME NEW j \in S PROVE Sdk!Before(j, i)
  <2>1. m <= t - Sdk!AfterMs(j) /\ t - Sdk!AfterMs(i) = m
    BY <1>1, <1>3
  <2>2. Sdk!AfterMs(j) \in Nat /\ Sdk!AfterMs(i) \in Nat /\ i \in Nat /\ j \in Nat
    OBVIOUS
  <2>3. Sdk!AfterMs(j) <= Sdk!AfterMs(i)
    BY <2>1, <2>2
  <2>4. CASE Sdk!AfterMs(j) = Sdk!AfterMs(i)
    <3>1. j \in T
      BY <2>1, <2>4
    <3>2. n - i <= n - j
      BY <1>2, <1>3, <3>1
    <3> QED
      BY <2>2, <2>4, <3>2 DEF Sdk!Before
  <2>5. CASE Sdk!AfterMs(j) < Sdk!AfterMs(i)
    BY <2>5 DEF Sdk!Before
  <2> QED
    BY <2>2, <2>3, <2>4, <2>5
<1> QED
  BY <1>3, <1>4

LEMMA StepsAreTyped ==
  ASSUME Sdk!SdkAssumption, NEW i \in Sdk!Steps
  PROVE  Sdk!AfterMs(i) \in Nat /\ Sdk!IntervalMs(i) \in 1..LongestDelay
<1> DEFINE S == [afterMs : Int, intervalMs : Int]
<1>1. AdaptiveIntervals[i] \in S
  <2>1. AdaptiveIntervals \in Seq(S)
    BY DEF Sdk!SdkAssumption
  <2> HIDE DEF S
  <2> QED
    BY <2>1 DEF Sdk!Steps
<1>2. AdaptiveIntervals[i].afterMs \in Int /\ AdaptiveIntervals[i].intervalMs \in Int
  BY <1>1
<1>3. LongestDelay \in Nat /\ Sdk!IntervalMs(i) <= LongestDelay
  BY DEF Sdk!SdkAssumption
<1> QED
  BY <1>2, <1>3 DEF Sdk!AfterMs, Sdk!IntervalMs, Sdk!AtLeast

\* Whatever has elapsed, the interval is that of one of the steps, never zero.
LEMMA IntervalIsAStep ==
  ASSUME Sdk!SdkAssumption, NEW t \in Nat
  PROVE  \E i \in Sdk!Steps : Sdk!resolveAdaptiveInterval(t) = Sdk!IntervalMs(i)
<1> DEFINE n == Len(AdaptiveIntervals)
           reached == {i \in Sdk!Steps : Sdk!AfterMs(i) <= t}
<1>1. n \in Nat /\ Sdk!Steps = 1..n /\ Sdk!Steps # {}
  BY DEF Sdk!SdkAssumption, Sdk!Steps
<1>2. \A i \in Sdk!Steps : Sdk!AfterMs(i) \in Nat
  BY StepsAreTyped
<1>3. Sdk!FirstOf(Sdk!Steps) \in Sdk!Steps
  <2>1. Sdk!Steps \in SUBSET Nat
    BY <1>1
  <2>2. \E i \in Sdk!Steps : \A j \in Sdk!Steps : Sdk!Before(i, j)
    BY <1>1, <1>2, <2>1, Earliest
  <2> QED
    BY <2>2 DEF Sdk!FirstOf
<1>4. reached # {} => Sdk!LastOf(reached) \in reached
  <2>1. reached \in SUBSET (1..n) /\ \A i \in reached : Sdk!AfterMs(i) \in 0..t
    BY <1>1, <1>2
  <2>2. reached # {} => \E i \in reached : \A j \in reached : Sdk!Before(j, i)
    <3> HIDE DEF reached, n
    <3> QED
      BY <1>1, <2>1, Latest
  <2> QED
    BY <2>2 DEF Sdk!LastOf
<1> QED
  BY <1>3, <1>4 DEF Sdk!resolveAdaptiveInterval

LEMMA IntervalIsShort ==
  ASSUME Sdk!SdkAssumption, NEW t \in Nat
  PROVE  Sdk!resolveAdaptiveInterval(t) \in 1..LongestDelay
<1>1. PICK i \in Sdk!Steps : Sdk!resolveAdaptiveInterval(t) = Sdk!IntervalMs(i)
  BY IntervalIsAStep
<1> QED
  BY <1>1, StepsAreTyped

-----------------------------------------------------------------------------
(* The deadline of what the call awaits                                    *)

\* A status is asked for before the timeout, the sleep after an empty result begins
\* before it, and every other wait follows one of these.
DeadlinesAreNear ==
  /\ sdkPc = "check" => elapsed <= WaitTimeout + RequestTimeout + LongestDelay
  /\ sdkPc \in Sdk!Requests \cup Sdk!Sleeps => elapsed <= deadline
  /\ sdkPc = "job" => deadline <= WaitTimeout + RequestTimeout
  /\ sdkPc \in {"sleep", "result"} => deadline <= WaitTimeout + RequestTimeout + LongestDelay
  /\ sdkPc = "sleepResult" => deadline <= WaitTimeout + LongestDelay

\* The abort is not seen only while createJob is under way and right after it.
AbortIsSeen == sdkPc \notin {"idle", "create", "check"} => ~aborted

SdkInv == Sdk!TypeOK /\ DeadlinesAreNear /\ AbortIsSeen

LEMMA SdkInit == Sdk!Init => SdkInv
<1> SUFFICES ASSUME Sdk!Init PROVE SdkInv
  OBVIOUS
<1>1. Sdk!TypeOK
  BY DEF Sdk!Init, Sdk!TypeOK
<1>2. DeadlinesAreNear /\ AbortIsSeen
  BY DEF Sdk!Init, DeadlinesAreNear, AbortIsSeen, Sdk!Waiting, Sdk!Requests, Sdk!Sleeps
<1> QED
  BY <1>1, <1>2 DEF SdkInv

LEMMA NextIntervalIsShort ==
  ASSUME Sdk!SdkAssumption, Sdk!TypeOK PROVE Sdk!NextInterval \in 0..LongestDelay
BY IntervalIsShort DEF Sdk!SdkAssumption, Sdk!TypeOK, Sdk!NextInterval

LEMMA SdkNext == ASSUME SdkInv, [Sdk!Next]_(Sdk!vars) PROVE SdkInv'
<1>1. /\ RequestTimeout \in Nat /\ WaitTimeout \in Nat /\ LongestDelay \in Nat
      /\ RequestTimeout <= LongestDelay
  BY ServiceAssumption DEF ServiceAssumption, Sdk!SdkAssumption
<1>2. Sdk!NextInterval \in Nat /\ Sdk!NextInterval <= LongestDelay
  BY <1>1, NextIntervalIsShort, ServiceAssumption DEF ServiceAssumption, SdkInv
<1>0. Sdk!TypeOK'
  <2> USE DEF SdkInv, Sdk!TypeOK, Sdk!Waiting, Sdk!Requests, Sdk!Sleeps, Sdk!Await, Sdk!Ends,
     Sdk!clientVars, Sdk!apiVars
  <2>1. CASE Sdk!createAndWait
    BY <1>1, <2>1 DEF Sdk!createAndWait
  <2>2. CASE Sdk!Created
    <3>1. PICK j \in SdkJobs :
            /\ sdkJob' = j
            /\ \/ UNCHANGED <<status, reserved>>
               \/ status' = [status EXCEPT ![j] = "queued"] /\ reserved' \in {reserved, j}
      BY <2>2 DEF Sdk!Created
    <3>2. status' \in [SdkJobs -> Sdk!Status \cup {"none"}]
      BY <3>1 DEF Sdk!Status
    <3> QED
      BY <2>2, <3>1, <3>2 DEF Sdk!Created
  <2>3. CASE Sdk!Check \/ Sdk!JobAnswered \/ Sdk!ResultAnswered \/ Sdk!Wake
    BY <1>1, <1>2, <2>3 DEF Sdk!Check, Sdk!JobAnswered, Sdk!ResultAnswered, Sdk!Wake
  <2>4. CASE Sdk!RequestFails \/ Sdk!RequestTimesOut \/ Sdk!Tick
    BY <2>4 DEF Sdk!RequestFails, Sdk!RequestTimesOut, Sdk!Tick
  <2>7. CASE Sdk!Abort
    <3>1. /\ aborted' = TRUE
          /\ UNCHANGED <<options, pollCount, sdkJob, status, storedResults, reserved>>
          /\ UNCHANGED <<sdkPc, elapsed, deadline, answer>> \/ Sdk!Ends("Abort")
      BY <2>7 DEF Sdk!Abort
    <3>2. aborted' \in BOOLEAN
      BY <3>1
    <3> QED
      BY <3>1, <3>2
  <2>5. CASE \E j \in SdkJobs : Sdk!Work(j) \/ Sdk!ResultChanges(j)
    BY <2>5 DEF Sdk!Work, Sdk!ResultChanges
  <2>6. CASE Sdk!KeyExpires \/ UNCHANGED Sdk!vars
    BY <2>6 DEF Sdk!KeyExpires, Sdk!vars
  <2> QED
    BY <2>1, <2>2, <2>3, <2>4, <2>5, <2>6, <2>7 DEF Sdk!Next
<1> SUFFICES ASSUME Sdk!TypeOK' PROVE DeadlinesAreNear' /\ AbortIsSeen'
  BY <1>0 DEF SdkInv
<1>20. /\ sdkPc \in {"idle", "create"} \cup Sdk!Waiting /\ elapsed \in Nat /\ deadline \in Nat
       /\ DeadlinesAreNear /\ AbortIsSeen
  BY DEF SdkInv, Sdk!TypeOK
<1> USE <1>1, <1>20 DEF DeadlinesAreNear, AbortIsSeen, Sdk!Waiting, Sdk!Requests, Sdk!Sleeps,
   Sdk!Await, Sdk!Ends,
        Sdk!clientVars, Sdk!apiVars
<1>3. CASE Sdk!createAndWait
  BY <1>3 DEF Sdk!createAndWait
<1>4. CASE Sdk!Created
  BY <1>4 DEF Sdk!Created
<1>5. CASE Sdk!Check
  BY <1>5 DEF Sdk!Check
<1>6. CASE Sdk!JobAnswered
  BY <1>2, <1>6 DEF Sdk!JobAnswered
<1>7. CASE Sdk!ResultAnswered
  BY <1>2, <1>7 DEF Sdk!ResultAnswered
<1>8. CASE Sdk!RequestFails \/ Sdk!RequestTimesOut
  BY <1>8 DEF Sdk!RequestFails, Sdk!RequestTimesOut
<1>9. CASE Sdk!Wake
  BY <1>9 DEF Sdk!Wake
<1>10. CASE Sdk!Abort
  BY <1>10 DEF Sdk!Abort
<1>11. CASE Sdk!Tick
  BY <1>11 DEF Sdk!Tick
<1>12. ASSUME NEW j \in SdkJobs, Sdk!Work(j) \/ Sdk!ResultChanges(j)
       PROVE DeadlinesAreNear' /\ AbortIsSeen'
  BY <1>12 DEF Sdk!Work, Sdk!ResultChanges
<1>13. CASE Sdk!KeyExpires
  BY <1>13 DEF Sdk!KeyExpires
<1>14. CASE UNCHANGED Sdk!vars
  BY <1>14 DEF Sdk!vars
<1> QED
  BY <1>3, <1>4, <1>5, <1>6, <1>7, <1>8, <1>9, <1>10, <1>11, <1>12, <1>13, <1>14 DEF Sdk!Next

\* What the invariant says of the deadlines bounds the wait.
LEMMA SdkBounded == SdkInv => Sdk!WaitIsBounded
BY ServiceAssumption DEF ServiceAssumption, Sdk!SdkAssumption, SdkInv, Sdk!TypeOK,
   DeadlinesAreNear, Sdk!WaitIsBounded, Sdk!Waiting, Sdk!Requests, Sdk!Sleeps

LEMMA SdkAborted == SdkInv /\ SdkInv' => Sdk!AbortedStep
BY DEF SdkInv, AbortIsSeen, Sdk!AbortedStep, Sdk!Sleeps

-----------------------------------------------------------------------------
(* JobsPage: the jobs page of the dashboard                                *)

\* What is shown of a job is of the selected one, or is asked for.
DetailFollows ==
  /\ address # NoPageJob => selected = address
  /\ ~resultRequest => result \in {selected, NoPageJob}
  /\ ~jobRequest /\ ~missed /\ selected # NoPageJob => selected \in pagedJobs \/ fetchedJob = selected

AskedPage == IF reloaded = 0 THEN jobsPage ELSE reloaded

\* Unless requests for the list crossed there is one at most, for the page that was asked
\* for last, and the list is of that page when there is none.
ListFollows ==
  ~crossed =>
    /\ \A l \in PageLists : lists[l] \in {0, AskedPage}
    /\ \A k, l \in PageLists : lists[k] # 0 /\ lists[l] # 0 => k = l
    /\ Page!Free = PageLists => shownPage \in {AskedPage, 0}

PageInv == Page!TypeOK /\ DetailFollows /\ ListFollows

LEMMA LoadTypes ==
  ASSUME Page!TypeOK, NEW page \in 1..LastPage, Page!LoadJobs(page)
  PROVE  lists' \in [PageLists -> 0..LastPage] /\ loadingJobs' \in BOOLEAN
<1>1. PICK l \in Page!Free : lists' = [lists EXCEPT ![l] = page] /\ loadingJobs' = TRUE
  BY DEF Page!LoadJobs
<1>2. loadingJobs' \in BOOLEAN
  BY <1>1
<1>3. LastPage \in Nat
  BY ServiceAssumption DEF ServiceAssumption, Page!JobsPageAssumption
<1> QED
  BY <1>1, <1>2, <1>3 DEF Page!TypeOK, Page!Free

LEMMA PageTypes ==
  ASSUME Page!TypeOK, [Page!Next]_(Page!vars)
  PROVE  Page!TypeOK'
<1>0. NoPageJob \notin PageJobs /\ LastPage \in Nat \ {0} /\ Reruns \in Nat
  BY ServiceAssumption DEF ServiceAssumption, Page!JobsPageAssumption
<1> USE DEF Page!TypeOK, Page!detailVars, Page!listVars, Page!NoNavigation
<1>1. ASSUME NEW j \in PageJobs \cup {NoPageJob}, Page!Select(j) PROVE Page!TypeOK'
  <2>1. /\ navigation' = [pending |-> TRUE, to |-> j] /\ result' = NoPageJob
        /\ UNCHANGED <<address, Page!listVars, rerun>>
    BY <1>1 DEF Page!Select
  <2>2. CASE j = selected
    BY <1>1, <2>1, <2>2 DEF Page!Select
  <2>3. CASE j # selected
    <3>1. /\ selected' \in PageJobs \cup {NoPageJob} /\ fetchedJob' = NoPageJob
          /\ jobRequest' \in BOOLEAN /\ missed' \in BOOLEAN /\ resultRequest' \in BOOLEAN
      BY <1>1, <2>3 DEF Page!Select
    <3> QED
      BY <2>1, <3>1
  <2> QED
    BY <2>2, <2>3
<1>2. ASSUME NEW job \in PageJobs \cup {NoPageJob}, NEW rows \in SUBSET PageJobs,
             Page!RefetchJob(job, rows)
      PROVE  /\ jobRequest' \in BOOLEAN
             /\ missed' \in BOOLEAN
             /\ fetchedJob' \in PageJobs \cup {NoPageJob}
  BY <1>2 DEF Page!RefetchJob
<1>3. CASE Page!Navigated
  <2>1. selected' \in PageJobs \cup {NoPageJob} /\ address' \in PageJobs \cup {NoPageJob}
    BY <1>3 DEF Page!Navigated
  <2>2. /\ jobRequest' \in BOOLEAN /\ missed' \in BOOLEAN /\ resultRequest' \in BOOLEAN
        /\ fetchedJob' \in PageJobs \cup {NoPageJob}
    BY <1>2, <1>3, <2>1 DEF Page!Navigated
  <2> QED
    BY <1>3, <2>1, <2>2 DEF Page!Navigated
<1>4. CASE Page!JobAnswered
  <2>1. /\ jobRequest' \in BOOLEAN
        /\ missed' \in BOOLEAN
        /\ fetchedJob' \in PageJobs \cup {NoPageJob}
    BY <1>4 DEF Page!JobAnswered
  <2> QED
    BY <1>4, <2>1 DEF Page!JobAnswered
<1>5. CASE Page!ResultAnswered
  <2>1. resultRequest' \in BOOLEAN /\ result' \in PageJobs \cup {NoPageJob}
    BY <1>5 DEF Page!ResultAnswered
  <2> QED
    BY <1>5, <2>1 DEF Page!ResultAnswered
<1>6. CASE Page!Turn
  <2>1. jobsPage' \in 1..LastPage
    BY <1>0, <1>6 DEF Page!Turn
  <2>2. /\ crossed' \in BOOLEAN /\ reloaded' = 0 /\ 0 \in 0..LastPage
        /\ lists' \in [PageLists -> 0..LastPage] /\ loadingJobs' \in BOOLEAN
    BY <1>0, <1>6, <2>1, LoadTypes DEF Page!Turn
  <2> QED
    BY <1>6, <2>1, <2>2 DEF Page!Turn
<1>7. CASE Page!Refresh
  <2>1. /\ crossed' \in BOOLEAN /\ reloaded' = 0 /\ 0 \in 0..LastPage
        /\ lists' \in [PageLists -> 0..LastPage] /\ loadingJobs' \in BOOLEAN
    BY <1>0, <1>7, LoadTypes DEF Page!Refresh
  <2> QED
    BY <1>7, <2>1 DEF Page!Refresh
<1>8. ASSUME NEW l \in PageLists, NEW rows \in SUBSET PageJobs, NEW page \in 0..LastPage,
             NEW pages \in 1..LastPage, Page!ShowList(l, rows, page, pages)
      PROVE  Page!TypeOK'
  <2>1. lists' \in [PageLists -> 0..LastPage] /\ loadingJobs' \in BOOLEAN
    <3>1. lists' = [lists EXCEPT ![l] = 0] /\ loadingJobs' = FALSE
      BY <1>8 DEF Page!ShowList
    <3>2. 0 \in 0..LastPage
      BY <1>0
    <3>3. lists' \in [PageLists -> 0..LastPage]
      BY <3>1, <3>2
    <3> QED
      BY <3>1, <3>3
  <2>2. /\ jobRequest' \in BOOLEAN
        /\ missed' \in BOOLEAN
        /\ fetchedJob' \in PageJobs \cup {NoPageJob}
    BY <1>2, <1>8 DEF Page!ShowList
  <2> QED
    BY <1>8, <2>1, <2>2 DEF Page!ShowList
<1>9. ASSUME NEW l \in PageLists, Page!ListAnswered(l) \/ Page!ListFails(l) PROVE Page!TypeOK'
  <2>1. /\ lists[l] \in 0..LastPage
        /\ {} \in SUBSET PageJobs
        /\ 0 \in 0..LastPage
        /\ 1 \in 1..LastPage
    BY <1>0
  <2> QED
    BY <1>8, <1>9, <2>1 DEF Page!ListAnswered, Page!ListFails
<1>10. CASE Page!Rerun
  BY <1>0, <1>10 DEF Page!Rerun
<1>11. CASE Page!Posted
  <2>1. /\ crossed' \in BOOLEAN /\ reloaded' \in 0..LastPage
        /\ lists' \in [PageLists -> 0..LastPage] /\ loadingJobs' \in BOOLEAN
    BY <1>0, <1>11, LoadTypes DEF Page!Posted
  <2> QED
    BY <1>11, <2>1 DEF Page!Posted
<1>12. CASE UNCHANGED Page!vars
  BY <1>12 DEF Page!vars
<1> QED
  BY <1>1, <1>3, <1>4, <1>5, <1>6, <1>7, <1>9, <1>10, <1>11, <1>12 DEF Page!Next,
     Page!openJobDetail, Page!Back

LEMMA RefetchFollows ==
  ASSUME NEW job, NEW rows, Page!RefetchJob(job, rows)
  PROVE  ~jobRequest' /\ ~missed' /\ job # NoPageJob => job \in rows
BY DEF Page!RefetchJob

LEMMA DetailKept ==
  ASSUME Page!TypeOK, DetailFollows, [Page!Next]_(Page!vars)
  PROVE  DetailFollows'
<1> USE DEF DetailFollows
<1>1. ASSUME NEW j \in PageJobs \cup {NoPageJob}, Page!Select(j) PROVE DetailFollows'
  <2>1. result' = NoPageJob /\ UNCHANGED <<address, pagedJobs>>
    BY <1>1 DEF Page!Select, Page!listVars
  <2>2. CASE j = selected
    BY <1>1, <2>1, <2>2 DEF Page!Select
  <2>3. CASE j # selected
    <3>1. /\ selected' = IF address # NoPageJob THEN address ELSE j
          /\ jobRequest' = (selected' \notin pagedJobs \cup {NoPageJob})
      BY <1>1, <2>3 DEF Page!Select
    <3> QED
      BY <2>1, <3>1
  <2> QED
    BY <2>2, <2>3
<1>2. CASE Page!Navigated
  <2>1. /\ selected' = IF address' # NoPageJob THEN address' ELSE selected
        /\ UNCHANGED <<result, pagedJobs>>
    BY <1>2 DEF Page!Navigated, Page!listVars
  <2>2. CASE selected' = selected
    BY <1>2, <2>1, <2>2 DEF Page!Navigated
  <2>3. CASE selected' # selected
    <3>1. Page!RefetchJob(selected', pagedJobs) /\ resultRequest' = TRUE
      BY <1>2, <2>3 DEF Page!Navigated
    <3> QED
      BY <2>1, <3>1, RefetchFollows
  <2> QED
    BY <2>2, <2>3
<1>3. CASE Page!JobAnswered
  <2>1. UNCHANGED <<address, selected, result, resultRequest, pagedJobs>>
    BY <1>3 DEF Page!JobAnswered, Page!listVars
  <2>2. fetchedJob' = selected \/ missed' = TRUE
    BY <1>3 DEF Page!JobAnswered
  <2> QED
    BY <2>1, <2>2
<1>4. CASE Page!ResultAnswered
  BY <1>4 DEF Page!ResultAnswered, Page!listVars
<1>5. CASE Page!Turn \/ Page!Refresh \/ Page!Rerun \/ Page!Posted
  BY <1>5 DEF Page!Turn, Page!Refresh, Page!Rerun, Page!Posted, Page!detailVars, Page!listVars
<1>6. ASSUME NEW l \in PageLists, Page!ListAnswered(l) \/ Page!ListFails(l) PROVE DetailFollows'
  <2>1. /\ Page!RefetchJob(selected, pagedJobs')
        /\ UNCHANGED <<address, selected, result, resultRequest>>
    BY <1>6 DEF Page!ListAnswered, Page!ListFails, Page!ShowList
  <2> QED
    BY <2>1, RefetchFollows
<1>7. CASE UNCHANGED Page!vars
  BY <1>7 DEF Page!vars, Page!detailVars, Page!listVars
<1> QED
  BY <1>1, <1>2, <1>3, <1>4, <1>5, <1>6, <1>7 DEF Page!Next, Page!openJobDetail, Page!Back

\* A request for the list is alone, or it has crossed another.
LEMMA LoadFollows ==
  ASSUME Page!TypeOK, NEW page \in 1..LastPage, Page!LoadJobs(page), Page!Free = PageLists
  PROVE  /\ \A l \in PageLists : lists'[l] \in {0, page}
         /\ \A k, l \in PageLists : lists'[k] # 0 /\ lists'[l] # 0 => k = l
         /\ Page!Free' # PageLists
<1>1. PICK l \in Page!Free : lists' = [lists EXCEPT ![l] = page]
  BY DEF Page!LoadJobs
<1>2. l \in PageLists /\ lists'[l] = page /\ \A k \in PageLists \ {l} : lists'[k] = 0
  BY <1>1 DEF Page!TypeOK, Page!Free
<1>3. page # 0
  OBVIOUS
<1> QED
  BY <1>2, <1>3 DEF Page!Free

LEMMA ListsKept ==
  ASSUME Page!TypeOK, ListFollows, [Page!Next]_(Page!vars)
  PROVE  ListFollows'
<1>1. CASE Page!Turn
  <2>1. /\ jobsPage' \in 1..LastPage
        /\ Page!LoadJobs(jobsPage')
        /\ crossed' = (Page!Free # PageLists)
        /\ AskedPage' = jobsPage'
    BY <1>1, PageTypes DEF Page!Turn, Page!TypeOK, AskedPage
  <2> QED
    BY <2>1, LoadFollows DEF ListFollows
<1>2. CASE Page!Refresh
  <2>1. /\ jobsPage \in 1..LastPage /\ Page!LoadJobs(jobsPage) /\ crossed' = (crossed \/ Page!Free # PageLists)
        /\ AskedPage' = jobsPage
    BY <1>2 DEF Page!Refresh, Page!TypeOK, AskedPage
  <2> QED
    BY <2>1, LoadFollows DEF ListFollows
<1>3. CASE Page!Posted
  <2>1. /\ rerun.page \in 1..LastPage /\ Page!LoadJobs(rerun.page)
        /\ crossed' = (crossed \/ Page!Free # PageLists)
    BY <1>3 DEF Page!Posted, Page!TypeOK
  <2>2. AskedPage' = rerun.page
    BY <1>3, <2>1 DEF Page!Posted, Page!TypeOK, AskedPage
  <2> QED
    BY <2>1, <2>2, LoadFollows DEF ListFollows
<1>4. ASSUME NEW l \in PageLists, Page!ListAnswered(l) \/ Page!ListFails(l) PROVE ListFollows'
  <2>1. /\ lists' = [lists EXCEPT ![l] = 0] /\ UNCHANGED <<AskedPage, crossed>> /\ lists[l] # 0
        /\ shownPage' \in {lists[l], 0}
    BY <1>4 DEF Page!ListAnswered, Page!ListFails, Page!ShowList, AskedPage
  <2>2. lists'[l] = 0 /\ \A k \in PageLists \ {l} : lists'[k] = lists[k]
    BY <2>1 DEF Page!TypeOK
  <2> QED
    BY <2>1, <2>2 DEF ListFollows
<1>5. CASE UNCHANGED Page!listVars
  BY <1>5 DEF ListFollows, AskedPage, Page!Free, Page!listVars
<1>6. ASSUME NEW j \in PageJobs \cup {NoPageJob}, Page!Select(j) PROVE UNCHANGED Page!listVars
  BY <1>6 DEF Page!Select
<1>7. ASSUME Page!Navigated \/ Page!JobAnswered \/ Page!ResultAnswered \/ Page!Rerun
      PROVE UNCHANGED Page!listVars
  BY <1>7 DEF Page!Navigated, Page!JobAnswered, Page!ResultAnswered, Page!Rerun
<1> QED
  BY <1>1, <1>2, <1>3, <1>4, <1>5, <1>6, <1>7 DEF Page!Next, Page!openJobDetail, Page!Back,
     Page!vars

LEMMA PageInit == Page!Init => PageInv
<1> SUFFICES ASSUME Page!Init PROVE PageInv
  OBVIOUS
<1>0. NoPageJob \notin PageJobs /\ LastPage \in Nat \ {0} /\ Reruns \in Nat
  BY ServiceAssumption DEF ServiceAssumption, Page!JobsPageAssumption
<1>1. PICK first \in PageLists : lists = [l \in PageLists |-> IF l = first THEN 1 ELSE 0]
  BY DEF Page!Init
<1>2. Page!TypeOK
  <2>1. lists \in [PageLists -> 0..LastPage]
    BY <1>0, <1>1
  <2>2. {jobRequest, missed, resultRequest, loadingJobs, crossed} \subseteq BOOLEAN
    BY DEF Page!Init
  <2> QED
    BY <1>0, <2>1, <2>2 DEF Page!Init, Page!TypeOK, Page!NoNavigation
<1>3. DetailFollows
  BY DEF Page!Init, DetailFollows
<1>4. ListFollows
  <2>1. lists[first] = 1 /\ \A l \in PageLists \ {first} : lists[l] = 0
    BY <1>1
  <2> QED
    BY <2>1 DEF Page!Init, ListFollows, AskedPage, Page!Free
<1> QED
  BY <1>2, <1>3, <1>4 DEF PageInv

LEMMA PageNext == PageInv /\ [Page!Next]_(Page!vars) => PageInv'
BY PageTypes, DetailKept, ListsKept DEF PageInv

LEMMA PageAgrees == PageInv => Page!SettledPageAgrees
<1> SUFFICES ASSUME PageInv PROVE Page!SettledPageAgrees
  OBVIOUS
<1>1. /\ address # NoPageJob => selected = address
      /\ ~resultRequest => result \in {selected, NoPageJob}
      /\ ~jobRequest /\ ~missed /\ selected # NoPageJob => Page!SelectedJob = selected
  BY DEF PageInv, DetailFollows, Page!SelectedJob
<1>2. Page!Free = PageLists /\ ~crossed => shownPage \in {AskedPage, 0}
  BY DEF PageInv, ListFollows
<1> QED
  BY <1>1, <1>2 DEF Page!SettledPageAgrees, AskedPage

-----------------------------------------------------------------------------
(* Dispatcher: its dispatcher page                                         *)

DispatchInv == Dispatch!TypeOK /\ Dispatch!EditorIsSent /\ Dispatch!ResultIsOfLastJob

\* What is sent when the control of the field is c
SentOf(c) == IF field = "url" THEN Dispatch!trim(c) ELSE Dispatch!buildFullPayload(c)

LEMMA DispatchConstants ==
  /\ Upper \in [Words \cup {Blank} -> Words \cup {Blank}]
  /\ \A w \in Words \cup {Blank} : Upper[Upper[w]] = Upper[w]
  /\ Absent # OtherType
  /\ \A given \in Dispatch!Texts \cup Dispatch!Numerals \cup Choices \cup Dispatch!Tables :
       given \notin {Absent, OtherType}
  /\ NotDispatched \notin DispatchedJobs /\ MaxPolls \in Nat \ {0}
BY ServiceAssumption DEF ServiceAssumption, Dispatch!DispatcherAssumption

\* The conversions of texts stay among the texts, and capitals are not changed again.
LEMMA Converted ==
  /\ Dispatch!Empty \in Dispatch!Texts
  /\ \A t \in Dispatch!Texts :
       /\ Dispatch!trim(t) \in Dispatch!Texts
       /\ Dispatch!toUpperCase(t) \in Dispatch!Texts
       /\ t.word \in Words \cup {Blank}
       /\ Dispatch!trim(t).word = t.word
       /\ Dispatch!toUpperCase(t).word = Upper[t.word]
<1>1. Dispatch!Empty \in Dispatch!Texts
  BY DEF Dispatch!Empty, Dispatch!Texts
<1>2. ASSUME NEW t \in Dispatch!Texts
      PROVE  /\ Dispatch!trim(t) \in Dispatch!Texts
             /\ t.word \in Words \cup {Blank}
             /\ Dispatch!trim(t).word = t.word
  BY DEF Dispatch!Texts, Dispatch!trim
<1>3. ASSUME NEW t \in Dispatch!Texts
      PROVE  /\ Dispatch!toUpperCase(t) \in Dispatch!Texts
             /\ Dispatch!toUpperCase(t).word = Upper[t.word]
  BY DispatchConstants DEF Dispatch!Texts, Dispatch!toUpperCase
<1> QED
  BY <1>1, <1>2, <1>3

LEMMA Truncated ==
  \A n \in Dispatch!Numerals :
    /\ Dispatch!trunc(n) \in Dispatch!Numerals
    /\ Dispatch!trunc(n).int = n.int
BY DEF Dispatch!Numerals, Dispatch!trunc

\* A text that is trimmed, and absent when nothing is left
Trimmed(w) == IF w = Blank THEN Absent ELSE [word |-> w, spaces |-> FALSE]

LEMMA TrimmedIsAbsentOrText ==
  ASSUME NEW t \in Dispatch!Texts
  PROVE  Dispatch!OrAbsent(Dispatch!trim(t), Dispatch!Empty) = Trimmed(t.word)
<1>1. [word |-> t.word, spaces |-> FALSE].word = t.word
  OBVIOUS
<1>2. Dispatch!Empty.word = Blank
  BY DEF Dispatch!Empty
<1>3. Dispatch!trim(t) = Dispatch!Empty <=> t.word = Blank
  BY <1>1, <1>2 DEF Dispatch!trim, Dispatch!Empty
<1> QED
  BY <1>3 DEF Dispatch!OrAbsent, Dispatch!trim, Trimmed

LEMMA TextIsMeant ==
  ASSUME field \in {"target", "text", "method"}, NEW value \in Dispatch!Texts
  PROVE  Dispatch!Meaning(value) =
           Trimmed(IF field = "method" THEN Upper[value.word] ELSE value.word)
<1>1. CASE field = "method"
  BY <1>1 DEF Dispatch!Meaning, Trimmed
<1>2. CASE field \in {"target", "text"}
  BY <1>2 DEF Dispatch!Meaning, Trimmed
<1> QED
  BY <1>1, <1>2

LEMMA TextIsSent ==
  ASSUME field \in {"target", "text", "method"}, NEW c \in Dispatch!Texts
  PROVE  SentOf(c) = Trimmed(c.word) /\ Dispatch!buildFullPayload(c) = Trimmed(c.word)
BY TrimmedIsAbsentOrText DEF SentOf, Dispatch!buildFullPayload

\* What a control contributes to the payload may stand in the editor.
LEMMA PayloadIsWritten ==
  ASSUME field \in Dispatch!Fields, NEW c \in Dispatch!Controls(field)
  PROVE  Dispatch!buildFullPayload(c) \in Dispatch!Written(field)
<1> USE DEF Dispatch!buildFullPayload, Dispatch!Written, Dispatch!Controls, Dispatch!Values,
            Dispatch!OrAbsent
<1>1. CASE field \in {"url", "choice", "worker"}
  BY <1>1
<1>2. CASE field \in {"target", "text"}
  <2>1. Dispatch!trim(c) \in Dispatch!Texts
    BY <1>2, Converted
  <2> QED
    BY <1>2, <2>1
<1>3. CASE field = "method"
  <2>1. c \in Dispatch!Texts
    BY <1>3, Converted
  <2>2. Dispatch!trim(c) \in Dispatch!Texts
    BY <2>1, Converted
  <2> QED
    BY <1>3, <2>2
<1>4. CASE field = "number"
  <2>1. CASE c = Absent
    BY <1>4, <2>1
  <2>2. CASE c \in Dispatch!Numerals
    BY <1>4, <2>2, Truncated, DispatchConstants
  <2> QED
    BY <1>4, <2>1, <2>2
<1>5. CASE field = "table"
  <2>1. c \ {Blank} \in Dispatch!Tables
    BY <1>5 DEF Dispatch!Tables
  <2> QED
    BY <1>5, <2>1
<1> QED
  BY <1>1, <1>2, <1>3, <1>4, <1>5 DEF Dispatch!Fields

\* What a control is set to is one of its values.
LEMMA AppliedIsControl ==
  ASSUME field \in Dispatch!Fields, form \in Dispatch!Controls(field),
         NEW value \in Dispatch!Written(field)
  PROVE  Dispatch!Applied(value) \in Dispatch!Controls(field)
<1> USE DEF Dispatch!Applied, Dispatch!Written, Dispatch!Controls, Dispatch!Values
<1>1. CASE value \in {Absent, OtherType}
  BY <1>1, Converted
<1>2. CASE value \notin {Absent, OtherType}
  <2>1. CASE field \in {"choice", "worker", "target", "text", "table"}
    BY <1>2, <2>1 DEF Dispatch!Taken
  <2>2. CASE field \in {"url", "method"}
    BY <1>2, <2>2, Converted DEF Dispatch!Taken
  <2>3. CASE field = "number"
    BY <1>2, <2>3, Truncated DEF Dispatch!Taken
  <2> QED
    BY <2>1, <2>2, <2>3 DEF Dispatch!Fields
<1> QED
  BY <1>1, <1>2

\* Opening the editor: what the form contributes is what is sent.
LEMMA ShownIsSent ==
  ASSUME field \in Dispatch!Fields, NEW c \in Dispatch!Controls(field),
         NEW value, value = Dispatch!buildFullPayload(c)
  PROVE  /\ value \notin {Absent, OtherType} => SentOf(c) = Dispatch!Meaning(value)
         /\ value = Absent /\ field \in {"worker", "target"} => SentOf(c) = Absent
<1> USE DEF SentOf, Dispatch!Meaning
<1>1. CASE field \in {"url", "choice"}
  BY <1>1 DEF Dispatch!buildFullPayload, Dispatch!trim
<1>2. CASE field = "worker"
  BY <1>2 DEF Dispatch!buildFullPayload, Dispatch!OrAbsent
<1>3. CASE field \in {"target", "text"}
  <2>1. c \in Dispatch!Texts
    BY <1>3 DEF Dispatch!Controls, Dispatch!Values
  <2>2. value = Trimmed(c.word) /\ SentOf(c) = value
    BY <1>3, <2>1, TextIsSent
  <2>3. ASSUME value # Absent PROVE value \in Dispatch!Texts /\ value.word = c.word
    <3>1. value = Dispatch!trim(c)
      BY <2>2, <2>3 DEF Trimmed, Dispatch!trim
    <3> QED
      BY <2>1, <3>1, Converted
  <2>4. ASSUME value # Absent PROVE Dispatch!Meaning(value) = Trimmed(c.word)
    BY <1>3, <2>3, <2>4, TextIsMeant
  <2> HIDE DEF SentOf, Dispatch!Meaning
  <2> QED
    BY <2>2, <2>4
<1>4. CASE field = "method"
  <2>1. PICK t \in Dispatch!Texts : c = Dispatch!toUpperCase(t)
    BY <1>4 DEF Dispatch!Controls
  <2>2. t.word \in Words \cup {Blank} /\ c.word = Upper[t.word] /\ c \in Dispatch!Texts
    BY <2>1, Converted
  <2>3. Upper[c.word] = c.word
    BY <2>2, DispatchConstants
  <2>4. value = Trimmed(c.word) /\ SentOf(c) = value
    BY <1>4, <2>2, TextIsSent
  <2>5. ASSUME value # Absent PROVE value \in Dispatch!Texts /\ value.word = c.word
    <3>1. value = Dispatch!trim(c)
      BY <2>4, <2>5 DEF Trimmed, Dispatch!trim
    <3> QED
      BY <2>2, <3>1, Converted
  <2>6. ASSUME value # Absent PROVE Dispatch!Meaning(value) = Trimmed(c.word)
    BY <1>4, <2>3, <2>5, <2>6, TextIsMeant
  <2> HIDE DEF SentOf, Dispatch!Meaning
  <2> QED
    BY <1>4, <2>4, <2>6
<1>5. CASE field = "number"
  <2>1. c = Absent \/ c \in Dispatch!Numerals
    BY <1>5 DEF Dispatch!Controls
  <2>2. value = IF c = Absent THEN Absent ELSE Dispatch!trunc(c)
    BY <1>5 DEF Dispatch!buildFullPayload
  <2>3. SentOf(c) = value
    BY <1>5, <2>2 DEF Dispatch!buildFullPayload
  <2>4. ASSUME value # Absent PROVE Dispatch!Meaning(value) = Dispatch!trunc(c)
    <3>1. value.int = c.int
      BY <2>1, <2>2, <2>4, Truncated
    <3> QED
      BY <1>5, <3>1 DEF Dispatch!trunc
  <2> HIDE DEF SentOf, Dispatch!Meaning
  <2> QED
    BY <1>5, <2>2, <2>3, <2>4
<1>6. CASE field = "table"
  BY <1>6 DEF Dispatch!buildFullPayload, Dispatch!OrAbsent
<1> QED
  BY <1>1, <1>2, <1>3, <1>4, <1>5, <1>6 DEF Dispatch!Fields

\* Typing: what is accepted is sent as it is meant.
LEMMA TypedIsSent ==
  ASSUME field \in Dispatch!Fields, NEW value \in Dispatch!Written(field),
         Dispatch!Valid(value), NEW c, c = Dispatch!Applied(value)
  PROVE  /\ value \notin {Absent, OtherType} => SentOf(c) = Dispatch!Meaning(value)
         /\ value = Absent /\ field \in {"worker", "target"} => SentOf(c) = Absent
<1>1. ASSUME value \notin {Absent, OtherType} PROVE SentOf(c) = Dispatch!Meaning(value)
  <2>1. c = Dispatch!Taken(value) /\ value \in Dispatch!Values(field)
    BY <1>1 DEF Dispatch!Applied, Dispatch!Written
  <2>2. CASE field \in {"choice", "worker", "table"}
    BY <2>1, <2>2 DEF SentOf, Dispatch!Taken, Dispatch!Meaning, Dispatch!buildFullPayload,
       Dispatch!OrAbsent
  <2>3. CASE field = "number"
    <3>1. c = Dispatch!trunc(value) /\ value \in Dispatch!Numerals
      BY <2>1, <2>3 DEF Dispatch!Taken, Dispatch!Values
    <3>2. c \in Dispatch!Numerals /\ c.int = value.int
      BY <3>1, Truncated
    <3>3. c # Absent
      BY <3>2, DispatchConstants
    <3>4. Dispatch!trunc(c) = [int |-> value.int, fraction |-> FALSE]
      BY <3>2 DEF Dispatch!trunc
    <3> QED
      BY <2>3, <3>3, <3>4 DEF SentOf, Dispatch!Meaning, Dispatch!buildFullPayload
  <2>4. CASE field \in {"url", "target", "text"}
    <3>1. value \in Dispatch!Texts
      BY <2>1, <2>4 DEF Dispatch!Values
    <3>2. CASE field = "url"
      <4>1. c.word = value.word
        BY <2>1, <3>1, <3>2, Converted DEF Dispatch!Taken
      <4> QED
        BY <3>2, <4>1 DEF SentOf, Dispatch!Meaning, Dispatch!trim
    <3>3. CASE field \in {"target", "text"}
      <4>1. c = value
        BY <2>1, <3>3 DEF Dispatch!Taken
      <4> QED
        BY <3>1, <3>3, <4>1, TextIsSent, TextIsMeant
    <3> QED
      BY <2>4, <3>2, <3>3
  <2>5. CASE field = "method"
    <3>1. value \in Dispatch!Texts
      BY <2>1, <2>5 DEF Dispatch!Values
    <3>2. c = Dispatch!toUpperCase(value)
      BY <2>1, <2>5 DEF Dispatch!Taken
    <3>3. c \in Dispatch!Texts /\ c.word = Upper[value.word]
      BY <3>1, <3>2, Converted
    <3> QED
      BY <2>5, <3>1, <3>3, TextIsSent, TextIsMeant
  <2> QED
    BY <2>2, <2>3, <2>4, <2>5 DEF Dispatch!Fields
<1>2. ASSUME value = Absent, field \in {"worker", "target"} PROVE SentOf(c) = Absent
  <2>1. c = Dispatch!Empty
    BY <1>2 DEF Dispatch!Applied
  <2>2. Dispatch!Empty.word = Blank
    BY DEF Dispatch!Empty
  <2>3. Dispatch!trim(c) = Dispatch!Empty
    BY <2>1, <2>2 DEF Dispatch!trim, Dispatch!Empty
  <2> QED
    BY <1>2, <2>1, <2>3 DEF SentOf, Dispatch!buildFullPayload, Dispatch!OrAbsent
<1> QED
  BY <1>1, <1>2

LEMMA DispatchTypes ==
  ASSUME Dispatch!TypeOK, [Dispatch!Next]_(Dispatch!vars)
  PROVE  Dispatch!TypeOK'
<1> USE DEF Dispatch!formVars, Dispatch!jobVars
<1>1. ASSUME NEW c \in Dispatch!Controls(field), Dispatch!Touch(c) PROVE Dispatch!TypeOK'
  <2>1. /\ field' = field /\ form' \in Dispatch!Controls(field)
        /\ editor' \in Dispatch!Written(field)
    BY <1>1, PayloadIsWritten DEF Dispatch!Touch, Dispatch!TypeOK
  <2>2. touched' \in BOOLEAN
    BY <1>1 DEF Dispatch!Touch, Dispatch!TypeOK
  <2> QED
    BY <1>1, <2>1, <2>2 DEF Dispatch!Touch, Dispatch!TypeOK
<1>2. CASE Dispatch!ToggleEditor
  <2>1. /\ {editing', refused', touched'} \subseteq BOOLEAN
        /\ editor' \in Dispatch!Written(field)
    BY <1>2, PayloadIsWritten DEF Dispatch!ToggleEditor, Dispatch!TypeOK
  <2> QED
    BY <1>2, <2>1 DEF Dispatch!ToggleEditor, Dispatch!TypeOK
<1>3. ASSUME NEW value \in Dispatch!Written(field), NEW restIsValid \in BOOLEAN,
             Dispatch!Type(value, restIsValid)
      PROVE  Dispatch!TypeOK'
  <2>1. /\ form' \in Dispatch!Controls(field)
        /\ refused' \in BOOLEAN /\ touched' \in BOOLEAN
    BY <1>3, AppliedIsControl DEF Dispatch!Type, Dispatch!TypeOK
  <2> QED
    BY <1>3, <2>1 DEF Dispatch!Type, Dispatch!TypeOK
<1>4. CASE Dispatch!onSubmit \/ Dispatch!NotCreated
  BY <1>4 DEF Dispatch!onSubmit, Dispatch!NotCreated, Dispatch!TypeOK
<1>5. ASSUME NEW j \in DispatchedJobs, Dispatch!Created(j) PROVE Dispatch!TypeOK'
  <2>1. answered' = FALSE /\ polls' = 1 /\ 1 \in 0..MaxPolls
    BY <1>5, DispatchConstants DEF Dispatch!Created
  <2> QED
    BY <1>5, <2>1 DEF Dispatch!Created, Dispatch!TypeOK
<1>6. CASE Dispatch!PollAgain
  BY <1>6, DispatchConstants DEF Dispatch!PollAgain, Dispatch!TypeOK
<1>7. CASE Dispatch!PollAnswered
  <2>1. answered' \in BOOLEAN /\ polls' \in 0..MaxPolls
    BY <1>7, DispatchConstants DEF Dispatch!PollAnswered, Dispatch!TypeOK
  <2> QED
    BY <1>7, <2>1 DEF Dispatch!PollAnswered, Dispatch!TypeOK
<1>8. CASE Dispatch!PollFails
  BY <1>8, DispatchConstants DEF Dispatch!PollFails, Dispatch!TypeOK
<1>9. CASE UNCHANGED Dispatch!vars
  BY <1>9 DEF Dispatch!TypeOK, Dispatch!vars
<1> QED
  BY <1>1, <1>2, <1>3, <1>4, <1>5, <1>6, <1>7, <1>8, <1>9 DEF Dispatch!Next

\* Where the editor agrees with the form, EditorIsSent holds.
LEMMA AgreementShows ==
  Dispatch!EditorIsSent <=>
    (~refused /\ ~touched =>
       /\ editor \notin {Absent, OtherType} => SentOf(form) = Dispatch!Meaning(editor)
       /\ editor = Absent /\ field \in {"worker", "target"} => SentOf(form) = Absent)
BY DEF Dispatch!EditorIsSent, Dispatch!Sent, SentOf

LEMMA DispatchInit == Dispatch!Init => DispatchInv
<1> SUFFICES ASSUME Dispatch!Init PROVE DispatchInv
  OBVIOUS
<1>1. field \in Dispatch!Fields /\ form \in Dispatch!Controls(field)
  <2>1. field \in Dispatch!Fields
    BY DEF Dispatch!Init
  <2>2. {} \in Dispatch!Tables
    BY DEF Dispatch!Tables
  <2>3. CASE field \in {"url", "worker", "target", "text", "table"}
    BY <2>2, <2>3, Converted DEF Dispatch!Init, Dispatch!Controls, Dispatch!Values
  <2>4. CASE field \in {"choice", "number", "method"}
    BY <2>4 DEF Dispatch!Init
  <2> QED
    BY <2>1, <2>3, <2>4 DEF Dispatch!Fields
<1>2. editor = Dispatch!buildFullPayload(form)
  BY DEF Dispatch!Init
<1>3. Dispatch!TypeOK
  <2>1. {editing, refused, touched, answered} \subseteq BOOLEAN
    BY DEF Dispatch!Init
  <2>2. polls \in 0..MaxPolls
    BY DispatchConstants DEF Dispatch!Init
  <2> QED
    BY <1>1, <1>2, <2>1, <2>2, PayloadIsWritten DEF Dispatch!Init, Dispatch!TypeOK
<1>4. Dispatch!EditorIsSent
  BY <1>1, <1>2, ShownIsSent, AgreementShows
<1> QED
  BY <1>3, <1>4 DEF DispatchInv, Dispatch!Init, Dispatch!ResultIsOfLastJob

LEMMA DispatchNext == DispatchInv /\ [Dispatch!Next]_(Dispatch!vars) => DispatchInv'
<1> SUFFICES ASSUME DispatchInv, [Dispatch!Next]_(Dispatch!vars) PROVE DispatchInv'
  OBVIOUS
<1>1. Dispatch!TypeOK'
  BY DispatchTypes DEF DispatchInv
<1>2. Dispatch!EditorIsSent'
  <2> USE DEF Dispatch!formVars
  <2>0. field \in Dispatch!Fields /\ form \in Dispatch!Controls(field)
    BY DEF DispatchInv, Dispatch!TypeOK
  <2>1. ASSUME NEW c \in Dispatch!Controls(field), Dispatch!Touch(c)
        PROVE  Dispatch!EditorIsSent'
    <3>1. CASE editing
      BY <2>1, <3>1 DEF Dispatch!Touch, Dispatch!EditorIsSent
    <3>2. CASE ~editing
      <4>1. PICK value : value = Dispatch!buildFullPayload(c)
        OBVIOUS
      <4>2. /\ value \notin {Absent, OtherType} => SentOf(c) = Dispatch!Meaning(value)
            /\ value = Absent /\ field \in {"worker", "target"} => SentOf(c) = Absent
        BY <2>0, <4>1, ShownIsSent
      <4>3. editor' = value /\ form' = c /\ field' = field
        BY <2>1, <3>2, <4>1 DEF Dispatch!Touch
      <4>4. SentOf(form)' = SentOf(c) /\ Dispatch!Meaning(editor)' = Dispatch!Meaning(value)
        BY <4>3 DEF SentOf, Dispatch!Meaning, Dispatch!buildFullPayload
      <4> QED
        BY <4>2, <4>3, <4>4 DEF Dispatch!EditorIsSent, Dispatch!Sent, SentOf
    <3> QED
      BY <3>1, <3>2 DEF DispatchInv, Dispatch!TypeOK
  <2>2. CASE Dispatch!ToggleEditor
    <3>1. PICK value, c : value = Dispatch!buildFullPayload(c) /\ c = form
      OBVIOUS
    <3>2. /\ value \notin {Absent, OtherType} => SentOf(c) = Dispatch!Meaning(value)
          /\ value = Absent /\ field \in {"worker", "target"} => SentOf(c) = Absent
      BY <2>0, <3>1, ShownIsSent
    <3>3. editor' = value /\ form' = c /\ field' = field
      BY <2>2, <3>1 DEF Dispatch!ToggleEditor
    <3>4. SentOf(form)' = SentOf(c) /\ Dispatch!Meaning(editor)' = Dispatch!Meaning(value)
      BY <3>3 DEF SentOf, Dispatch!Meaning, Dispatch!buildFullPayload
    <3> QED
      BY <3>2, <3>3, <3>4 DEF Dispatch!EditorIsSent, Dispatch!Sent, SentOf
  <2>3. ASSUME NEW value \in Dispatch!Written(field), NEW restIsValid \in BOOLEAN,
               Dispatch!Type(value, restIsValid)
        PROVE  Dispatch!EditorIsSent'
    <3>1. CASE restIsValid /\ Dispatch!Valid(value)
      <4>1. PICK c : c = Dispatch!Applied(value)
        OBVIOUS
      <4>2. /\ value \notin {Absent, OtherType} => SentOf(c) = Dispatch!Meaning(value)
            /\ value = Absent /\ field \in {"worker", "target"} => SentOf(c) = Absent
        BY <2>0, <3>1, <4>1, TypedIsSent
      <4>3. editor' = value /\ form' = c /\ field' = field
        BY <2>3, <3>1, <4>1 DEF Dispatch!Type
      <4>4. SentOf(form)' = SentOf(c) /\ Dispatch!Meaning(editor)' = Dispatch!Meaning(value)
        BY <4>3 DEF SentOf, Dispatch!Meaning, Dispatch!buildFullPayload
      <4> QED
        BY <4>2, <4>3, <4>4 DEF Dispatch!EditorIsSent, Dispatch!Sent, SentOf
    <3>2. CASE ~(restIsValid /\ Dispatch!Valid(value))
      BY <2>3, <3>2 DEF Dispatch!Type, Dispatch!EditorIsSent
    <3> QED
      BY <3>1, <3>2
  <2>4. CASE UNCHANGED Dispatch!formVars
    BY <2>4 DEF Dispatch!EditorIsSent, DispatchInv, Dispatch!Sent, Dispatch!Meaning,
       Dispatch!buildFullPayload
  <2>5. ASSUME \/ Dispatch!onSubmit \/ Dispatch!NotCreated \/ Dispatch!PollAgain
               \/ Dispatch!PollAnswered \/ Dispatch!PollFails \/ UNCHANGED Dispatch!vars
               \/ \E j \in DispatchedJobs : Dispatch!Created(j)
        PROVE  UNCHANGED Dispatch!formVars
    BY <2>5 DEF Dispatch!onSubmit, Dispatch!NotCreated, Dispatch!PollAgain,
       Dispatch!PollAnswered, Dispatch!PollFails, Dispatch!Created, Dispatch!vars
  <2> QED
    BY <2>1, <2>2, <2>3, <2>4, <2>5 DEF Dispatch!Next
<1>3. Dispatch!ResultIsOfLastJob'
  <2> USE DEF Dispatch!ResultIsOfLastJob
  <2>1. ASSUME NEW j \in DispatchedJobs, Dispatch!Created(j) PROVE ~answered'
    BY <2>1 DEF Dispatch!Created
  <2>2. CASE Dispatch!PollAnswered
    BY <2>2 DEF Dispatch!PollAnswered
  <2>3. CASE UNCHANGED <<lastJobId, lastResult, answered>>
    BY <2>3 DEF DispatchInv
  <2>4. ASSUME \/ \E c \in Dispatch!Controls(field) : Dispatch!Touch(c)
               \/ Dispatch!ToggleEditor \/ Dispatch!onSubmit \/ Dispatch!NotCreated
               \/ Dispatch!PollAgain \/ Dispatch!PollFails \/ UNCHANGED Dispatch!vars
               \/ \E value \in Dispatch!Written(field), restIsValid \in BOOLEAN :
                    Dispatch!Type(value, restIsValid)
        PROVE  UNCHANGED <<lastJobId, lastResult, answered>>
    BY <2>4 DEF Dispatch!Touch, Dispatch!ToggleEditor, Dispatch!Type, Dispatch!onSubmit,
       Dispatch!NotCreated, Dispatch!PollAgain, Dispatch!PollFails, Dispatch!vars,
       Dispatch!jobVars
  <2> QED
    BY <2>1, <2>2, <2>3, <2>4 DEF Dispatch!Next
<1> QED
  BY <1>1, <1>2, <1>3 DEF DispatchInv

-----------------------------------------------------------------------------
(* DashboardSession: what its pages share                                  *)

\* A handler is at a step as long as it is under way, and only a handler that loads has
\* requests for data.
TasksAreOrderly ==
  \A t \in Tasks :
    /\ task[t] = "none" <=> taskStep[t] = "none"
    /\ task[t] \in {"poll", "refresh"} => taskStep[t] = "load"
    /\ \A k \in Kinds : load[t][k] # "none" => taskStep[t] = "load"

\* A flag that is set belongs to a handler under way, or to data that is being loaded.
\* Both the interval and the button set the one for refreshing, and none is
\* set for a sign-out.
FlagsAreHeld ==
  /\ \A h \in busy \cap Session!Handlers :
       h \notin {"logout", "poll"} /\ \E t \in Tasks : task[t] = h \/ (h = "refresh" /\ task[t] = "poll")
  /\ \A k \in busy \cap Kinds : \E t \in Tasks : load[t][k] # "none"

\* After a sign-out only a sign-in may be started, which is no sign-out any more once it is
\* answered, and a reload may ask who is signed in; all else was under way at that moment.
OnlyLateTasks ==
  signedOut =>
    /\ ~admin
    /\ \A t \in Tasks :
         \/ task[t] \in {"login", "bootstrap"} /\ taskStep[t] \in {"post", "posted"}
         \/ Session!UnderWay(t) \subseteq lateTasks

SessionInv ==
  Session!TypeOK /\ TasksAreOrderly /\ FlagsAreHeld /\ OnlyLateTasks /\ Session!SignedOutForgets

LEMMA HandlersAreNoKinds ==
  /\ \A k \in Kinds : k \notin Session!Handlers
  /\ "none" \notin Session!Handlers /\ "none" \notin Kinds
  /\ Session!Handlers = {"bootstrap", "refresh", "poll", "login", "logout", "job", "createKey",
                         "endKey", "policy"}
BY ServiceAssumption DEF ServiceAssumption, Session!SessionAssumption, Session!AllKinds,
   Session!Handlers, Session!Loads

LEMMA LoadsAreKinds == \A h : Session!LoadsOf(h) \subseteq Kinds /\ Session!LoadsOf("none") = {}
BY DEF Session!LoadsOf

LEMMA NoLoads == Session!LoadsOf("logout") = {}
BY DEF Session!LoadsOf, Session!Loads

LEMMA SessionInit == Session!Init => SessionInv
<1> SUFFICES ASSUME Session!Init PROVE SessionInv
  OBVIOUS
<1>1. PICK t \in Tasks : /\ task = [s \in Tasks |-> IF s = t THEN "bootstrap" ELSE "none"]
                         /\ taskStep = [s \in Tasks |-> IF s = t THEN "post" ELSE "none"]
  BY DEF Session!Init
<1>2. Session!TypeOK
  BY <1>1, HandlersAreNoKinds DEF Session!Init, Session!TypeOK, Session!NoLoad
<1>3. TasksAreOrderly
  BY <1>1 DEF Session!Init, TasksAreOrderly, Session!NoLoad
<1>4. FlagsAreHeld
  BY <1>1, HandlersAreNoKinds DEF Session!Init, FlagsAreHeld
<1> QED
  BY <1>2, <1>3, <1>4 DEF Session!Init, SessionInv, OnlyLateTasks, Session!SignedOutForgets

LEMMA SessionTypes ==
  ASSUME Session!TypeOK, TasksAreOrderly, [Session!Next]_(Session!vars)
  PROVE  Session!TypeOK'
<1> USE DEF Session!pageVars
<1>1. ASSUME NEW t \in Tasks, NEW kinds, Session!StartLoads(t, kinds)
      PROVE  /\ task' \in [Tasks -> Session!Handlers \cup {"none"}]
             /\ taskStep' \in [Tasks -> {"none", "post", "posted", "load"}]
             /\ load' \in [Tasks -> [Kinds -> {"none", "asked", "data"}]]
  BY <1>1 DEF Session!StartLoads, Session!TypeOK
<1>2. ASSUME NEW t \in Tasks, Session!Proceed(t)
      PROVE  /\ task' \in [Tasks -> Session!Handlers \cup {"none"}]
             /\ taskStep' \in [Tasks -> {"none", "post", "posted", "load"}]
             /\ load' \in [Tasks -> [Kinds -> {"none", "asked", "data"}]]
             /\ busy' \subseteq Session!Handlers \cup Kinds
  <2>1. busy' \subseteq Session!Handlers \cup Kinds
    BY <1>2, LoadsAreKinds DEF Session!Proceed, Session!TypeOK
  <2> QED
    BY <1>1, <1>2, <2>1 DEF Session!Proceed
<1>3. \A t \in Tasks : Session!UnderWay(t) \subseteq Kinds \cup {"key"}
  BY LoadsAreKinds DEF Session!UnderWay
<1>4. ASSUME NEW t \in Tasks, Session!Reload(t) PROVE Session!TypeOK'
  <2>1. session' \in BOOLEAN
    BY <1>4 DEF Session!Reload, Session!TypeOK
  <2>2. /\ task' \in [Tasks -> Session!Handlers \cup {"none"}]
        /\ taskStep' \in [Tasks -> {"none", "post", "posted", "load"}]
        /\ load' \in [Tasks -> [Kinds -> {"none", "asked", "data"}]]
    BY <1>4, HandlersAreNoKinds DEF Session!Reload, Session!Opened, Session!NoLoad
  <2>3. admin' = FALSE /\ shown' = {} /\ busy' = {"bootstrap"} /\ revealed' = stored
        /\ UNCHANGED <<stored, signedOut, lateTasks>>
    BY <1>4 DEF Session!Reload, Session!Opened
  <2> QED
    BY <2>1, <2>2, <2>3, HandlersAreNoKinds DEF Session!TypeOK
<1>5. CASE Session!SessionExpires
  BY <1>5 DEF Session!SessionExpires, Session!TypeOK
<1>6. CASE Session!handleDismissNewApiKey
  BY <1>6 DEF Session!handleDismissNewApiKey, Session!TypeOK
<1>7. ASSUME NEW t \in Tasks, NEW h \in Session!Handlers, Session!Begin(t, h)
      PROVE Session!TypeOK'
  BY <1>7, HandlersAreNoKinds DEF Session!Begin, Session!TypeOK, Session!Flags
<1>8. ASSUME NEW t \in Tasks, NEW h \in Session!Handlers, Session!BeginLoads(t, h)
      PROVE Session!TypeOK'
  BY <1>8, HandlersAreNoKinds, LoadsAreKinds DEF Session!BeginLoads, Session!TypeOK
<1>9. ASSUME NEW t \in Tasks, Session!Served(t) PROVE Session!TypeOK'
  <2>1. session' \in BOOLEAN
    BY <1>9 DEF Session!Served
  <2> QED
    BY <1>9, <2>1 DEF Session!Served, Session!TypeOK
<1>10. ASSUME NEW t \in Tasks, Session!SignedIn(t) PROVE Session!TypeOK'
  BY <1>2, <1>10 DEF Session!SignedIn, Session!TypeOK
<1>11. ASSUME NEW t \in Tasks, Session!KeyCreated(t) PROVE Session!TypeOK'
  BY <1>2, <1>11 DEF Session!KeyCreated, Session!TypeOK
<1>12. ASSUME NEW t \in Tasks, Session!Done(t) PROVE Session!TypeOK'
  BY <1>2, <1>12 DEF Session!Done, Session!TypeOK
<1>13. ASSUME NEW t \in Tasks, Session!Rejected(t) PROVE Session!TypeOK'
  BY <1>1, <1>13 DEF Session!Rejected, Session!TypeOK
<1>14. ASSUME NEW t \in Tasks, Session!LoggedOut(t) PROVE Session!TypeOK'
  <2>1. /\ Session!StartLoads(t, {})
        /\ lateTasks' = UNION {Session!UnderWay(s) : s \in Tasks \ {t}}
    BY <1>14 DEF Session!LoggedOut
  <2>2. lateTasks' \subseteq Kinds \cup {"key"}
    BY <1>3, <2>1
  <2>3. /\ shown' \subseteq Kinds
        /\ {session, admin, revealed, stored, signedOut}' \subseteq BOOLEAN
    BY <1>14 DEF Session!LoggedOut, Session!TypeOK
  <2>4. busy' \subseteq Session!Handlers \cup Kinds
    BY <1>14 DEF Session!LoggedOut, Session!TypeOK
  <2> QED
    BY <1>1, <2>1, <2>2, <2>3, <2>4 DEF Session!TypeOK
<1>15. ASSUME NEW t \in Tasks, NEW k \in Kinds, Session!LoadServed(t, k) PROVE Session!TypeOK'
  BY <1>15 DEF Session!LoadServed, Session!TypeOK
<1>16. ASSUME NEW t \in Tasks, NEW k \in Kinds, Session!Loaded(t, k) PROVE Session!TypeOK'
  BY <1>16 DEF Session!Loaded, Session!LoadEnds, Session!TypeOK
<1>17. ASSUME NEW t \in Tasks, NEW k \in Kinds, Session!NotLoaded(t, k) PROVE Session!TypeOK'
  BY <1>17 DEF Session!NotLoaded, Session!LoadEnds, Session!TypeOK
<1>18. CASE UNCHANGED Session!vars
  BY <1>18 DEF Session!vars, Session!TypeOK
<1> QED
  BY <1>4, <1>5, <1>6, <1>7, <1>8, <1>9, <1>10, <1>11, <1>12, <1>13, <1>14, <1>15, <1>16,
     <1>17, <1>18, HandlersAreNoKinds DEF Session!Next

LEMMA SessionOrder ==
  ASSUME Session!TypeOK, TasksAreOrderly, [Session!Next]_(Session!vars)
  PROVE  TasksAreOrderly'
<1> USE DEF Session!pageVars
<1> USE DEF Session!TypeOK, TasksAreOrderly
<1>1. ASSUME NEW t \in Tasks, NEW kinds, Session!StartLoads(t, kinds), task[t] \notin {"none",
             "poll", "refresh"}
      PROVE  TasksAreOrderly'
  BY <1>1 DEF Session!StartLoads
<1>2. ASSUME NEW t \in Tasks, Session!Reload(t) PROVE TasksAreOrderly'
  BY <1>2 DEF Session!Reload, Session!Opened, Session!NoLoad
<1>3. CASE Session!SessionExpires \/ Session!handleDismissNewApiKey
  BY <1>3 DEF Session!SessionExpires, Session!handleDismissNewApiKey
<1>4. ASSUME NEW t \in Tasks, NEW h \in {"login", "logout", "job", "createKey", "endKey",
             "policy"},
             Session!Begin(t, h)
      PROVE  TasksAreOrderly'
  BY <1>4 DEF Session!Begin
<1>5. ASSUME NEW t \in Tasks, NEW h \in {"poll", "refresh"}, Session!BeginLoads(t, h)
      PROVE TasksAreOrderly'
  BY <1>5 DEF Session!BeginLoads
<1>6. ASSUME NEW t \in Tasks, Session!Served(t) PROVE TasksAreOrderly'
  BY <1>6 DEF Session!Served
<1>7. ASSUME NEW t \in Tasks, Session!SignedIn(t) \/ Session!KeyCreated(t) \/ Session!Done(t)
             \/ Session!Rejected(t) \/ Session!LoggedOut(t)
      PROVE  TasksAreOrderly'
  BY <1>1, <1>7 DEF Session!SignedIn, Session!KeyCreated, Session!Done, Session!Rejected,
     Session!LoggedOut, Session!Proceed
<1>8. ASSUME NEW t \in Tasks, NEW k \in Kinds, Session!LoadServed(t, k) PROVE TasksAreOrderly'
  BY <1>8 DEF Session!LoadServed
<1>9. ASSUME NEW t \in Tasks, NEW k \in Kinds, Session!Loaded(t, k) \/ Session!NotLoaded(t, k)
      PROVE TasksAreOrderly'
  <2>1. Session!LoadEnds(t, k) /\ load[t][k] # "none"
    BY <1>9 DEF Session!Loaded, Session!NotLoaded
  <2>2. CASE \A other \in Kinds \ {k} : load[t][other] = "none"
    BY <2>1, <2>2 DEF Session!LoadEnds
  <2>3. CASE ~ \A other \in Kinds \ {k} : load[t][other] = "none"
    BY <2>1, <2>3 DEF Session!LoadEnds
  <2> QED
    BY <2>2, <2>3
<1>10. CASE UNCHANGED Session!vars
  BY <1>10 DEF Session!vars
<1> QED
  BY <1>2, <1>3, <1>4, <1>5, <1>6, <1>7, <1>8, <1>9, <1>10 DEF Session!Next

LEMMA SessionFlags ==
  ASSUME Session!TypeOK, TasksAreOrderly, FlagsAreHeld, [Session!Next]_(Session!vars)
  PROVE  FlagsAreHeld'
<1> USE DEF Session!pageVars
<1> USE DEF Session!TypeOK, TasksAreOrderly, FlagsAreHeld
<1>1. ASSUME NEW t \in Tasks, Session!Proceed(t), task[t] \notin {"none", "poll", "refresh"},
             taskStep[t] # "load"
      PROVE  FlagsAreHeld'
  <2>1. \A k \in busy' \cap Kinds : \E s \in Tasks : load'[s][k] # "none"
    <3> TAKE k \in busy' \cap Kinds
    <3>1. CASE k \in Session!LoadsOf(task[t])
      BY <1>1, <3>1 DEF Session!Proceed, Session!StartLoads
    <3>2. CASE k \notin Session!LoadsOf(task[t])
      <4>1. k \in busy
        BY <1>1, <3>2 DEF Session!Proceed
      <4>2. PICK s \in Tasks : load[s][k] # "none"
        BY <4>1
      <4>3. s # t
        BY <1>1, <4>2
      <4> QED
        BY <1>1, <4>2, <4>3 DEF Session!Proceed, Session!StartLoads
    <3> QED
      BY <3>1, <3>2
  <2>2. \A h \in busy' \cap Session!Handlers :
          h \notin {"logout", "poll"} /\ \E s \in Tasks : task'[s] = h \/ (h = "refresh" /\ task'[s] = "poll")
    <3> TAKE h \in busy' \cap Session!Handlers
    <3>1. h \in busy
      BY <1>1, HandlersAreNoKinds, LoadsAreKinds DEF Session!Proceed
    <3>2. PICK s \in Tasks : task[s] = h \/ (h = "refresh" /\ task[s] = "poll")
      BY <3>1
    <3>3. CASE s # t
      BY <1>1, <3>1, <3>2, <3>3 DEF Session!Proceed, Session!StartLoads
    <3>4. CASE s = t
      <4>1. task[t] = h
        BY <1>1, <3>2, <3>4
      <4>2. Session!LoadsOf(task[t]) # {}
        BY <1>1, <4>1, HandlersAreNoKinds, LoadsAreKinds DEF Session!Proceed
      <4> QED
        BY <1>1, <3>1, <4>1, <4>2 DEF Session!Proceed, Session!StartLoads
    <3> QED
      BY <3>3, <3>4
  <2> QED
    BY <2>1, <2>2
<1>2. ASSUME NEW t \in Tasks, Session!Reload(t) PROVE FlagsAreHeld'
  BY <1>2, HandlersAreNoKinds DEF Session!Reload, Session!Opened
<1>3. CASE Session!SessionExpires \/ Session!handleDismissNewApiKey
  BY <1>3 DEF Session!SessionExpires, Session!handleDismissNewApiKey
<1>4. ASSUME NEW t \in Tasks, NEW h \in {"login", "logout", "job", "createKey", "endKey",
             "policy"},
             Session!Begin(t, h)
      PROVE  FlagsAreHeld'
  <2>1. task[t] = "none" /\ task' = [task EXCEPT ![t] = h] /\ UNCHANGED load
        /\ busy' = busy \cup (Session!Flags \cap {h})
    BY <1>4 DEF Session!Begin
  <2>2. \A f \in busy' \cap Session!Handlers :
          f \notin {"logout", "poll"} /\ \E s \in Tasks : task'[s] = f \/ (f = "refresh" /\ task'[s] = "poll")
    BY <2>1, HandlersAreNoKinds DEF Session!Flags
  <2>3. busy' \cap Kinds = busy \cap Kinds
    BY <2>1, HandlersAreNoKinds
  <2> QED
    BY <2>1, <2>2, <2>3
<1>5. ASSUME NEW t \in Tasks, NEW h \in {"poll", "refresh"}, Session!BeginLoads(t, h)
      PROVE FlagsAreHeld'
  <2>1. task[t] = "none" /\ task' = [task EXCEPT ![t] = h]
        /\ load' = [load EXCEPT ![t] = [k \in Kinds |-> IF k \in Session!LoadsOf(h) THEN "asked" ELSE "none"]]
        /\ busy' = busy \cup {"refresh"} \cup (Session!LoadsOf(h) \ {"overview"})
    BY <1>5 DEF Session!BeginLoads
  <2>2. \A f \in busy' \cap Session!Handlers :
          f \notin {"logout", "poll"} /\ \E s \in Tasks : task'[s] = f \/ (f = "refresh" /\ task'[s] = "poll")
    BY <2>1, HandlersAreNoKinds, LoadsAreKinds
  <2>3. \A k \in busy' \cap Kinds : \E s \in Tasks : load'[s][k] # "none"
    <3> TAKE k \in busy' \cap Kinds
    <3>1. CASE k \in Session!LoadsOf(h)
      BY <2>1, <3>1
    <3>2. CASE k \notin Session!LoadsOf(h)
      <4>1. k \in busy
        BY <2>1, <3>2, HandlersAreNoKinds
      <4>2. PICK s \in Tasks : load[s][k] # "none"
        BY <4>1
      <4>3. s # t
        BY <2>1, <4>2
      <4> QED
        BY <2>1, <4>2, <4>3
    <3> QED
      BY <3>1, <3>2
  <2> QED
    BY <2>2, <2>3
<1>6. ASSUME NEW t \in Tasks, Session!Served(t) PROVE FlagsAreHeld'
  BY <1>6 DEF Session!Served
<1>7. ASSUME NEW t \in Tasks, Session!SignedIn(t) \/ Session!KeyCreated(t) \/ Session!Done(t)
      PROVE FlagsAreHeld'
  BY <1>1, <1>7 DEF Session!SignedIn, Session!KeyCreated, Session!Done
<1>8. ASSUME NEW t \in Tasks, Session!Rejected(t) \/ Session!LoggedOut(t) PROVE FlagsAreHeld'
  <2>1. /\ task[t] \notin {"none", "poll", "refresh"} /\ taskStep[t] # "load"
        /\ task' = [task EXCEPT ![t] = "none"] /\ load' = [load EXCEPT ![t] = Session!NoLoad]
        /\ busy' \subseteq busy /\ (task[t] = "logout" \/ task[t] \notin busy')
    BY <1>8 DEF Session!Rejected, Session!LoggedOut, Session!StartLoads, Session!NoLoad
  <2>2. \A k \in busy' \cap Kinds : \E s \in Tasks : load'[s][k] # "none"
    BY <2>1
  <2>3. \A h \in busy' \cap Session!Handlers :
          h \notin {"logout", "poll"} /\ \E s \in Tasks : task'[s] = h \/ (h = "refresh" /\ task'[s] = "poll")
    BY <2>1
  <2> QED
    BY <2>2, <2>3
<1>9. ASSUME NEW t \in Tasks, NEW k \in Kinds, Session!LoadServed(t, k) PROVE FlagsAreHeld'
  BY <1>9 DEF Session!LoadServed
<1>10. ASSUME NEW t \in Tasks, NEW k \in Kinds, Session!Loaded(t, k) \/ Session!NotLoaded(t, k)
       PROVE FlagsAreHeld'
  <2> DEFINE last == \A other \in Kinds \ {k} : load[t][other] = "none"
  <2>1. Session!LoadEnds(t, k) /\ load[t][k] # "none" /\ task[t] # "none"
    BY <1>10 DEF Session!Loaded, Session!NotLoaded
  <2>2. /\ busy' = busy \ ({k} \cup IF ~last THEN {}
                                 ELSE IF task[t] = "poll" THEN {"refresh"} ELSE {task[t]})
        /\ load' = [load EXCEPT ![t][k] = "none"]
        /\ task' = [task EXCEPT ![t] = IF last THEN "none" ELSE @]
    BY <2>1 DEF Session!LoadEnds
  <2> HIDE DEF last
  <2>3. \A other \in busy' \cap Kinds : \E s \in Tasks : load'[s][other] # "none"
    BY <2>2
  <2>4. \A h \in busy' \cap Session!Handlers :
          h \notin {"logout", "poll"} /\ \E s \in Tasks : task'[s] = h \/ (h = "refresh" /\ task'[s] = "poll")
    <3>1. CASE last
      <4> TAKE h \in busy' \cap Session!Handlers
      <4>1. h \in busy /\ h # task[t] /\ (task[t] = "poll" => h # "refresh")
        BY <2>2, <3>1, HandlersAreNoKinds
      <4>2. PICK s \in Tasks : task[s] = h \/ (h = "refresh" /\ task[s] = "poll")
        BY <4>1
      <4>3. s # t
        BY <4>1, <4>2
      <4>4. task'[s] = task[s]
        BY <2>2, <4>3
      <4> QED
        BY <4>1, <4>2, <4>4
    <3>2. CASE ~last
      BY <2>2, <3>2, HandlersAreNoKinds
    <3> QED
      BY <3>1, <3>2
  <2> QED
    BY <2>3, <2>4
<1>11. CASE UNCHANGED Session!vars
  BY <1>11 DEF Session!vars
<1> QED
  BY <1>2, <1>3, <1>4, <1>5, <1>6, <1>7, <1>8, <1>9, <1>10, <1>11 DEF Session!Next

LEMMA SessionLate ==
  ASSUME Session!TypeOK, TasksAreOrderly, OnlyLateTasks, Session!SignedOutForgets,
         [Session!Next]_(Session!vars)
  PROVE  OnlyLateTasks' /\ Session!SignedOutForgets'
<1> USE DEF Session!pageVars
<1> USE DEF Session!TypeOK, TasksAreOrderly, OnlyLateTasks, Session!SignedOutForgets
<1>1. ASSUME NEW t \in Tasks, Session!StartLoads(t, {}) 
      PROVE  Session!UnderWay(t)' = {} /\ \A s \in Tasks \ {t} : /\ Session!UnderWay(s)' = Session!UnderWay(s)
                                                               /\ task'[s] = task[s]
                                                               /\ taskStep'[s] = taskStep[s]
  BY <1>1 DEF Session!StartLoads, Session!UnderWay, Session!LoadsOf
<1>2. ASSUME NEW t \in Tasks, Session!Reload(t)
      PROVE OnlyLateTasks' /\ Session!SignedOutForgets'
  BY <1>2 DEF Session!Reload, Session!Opened, Session!UnderWay, Session!LoadsOf
<1>3. CASE Session!SessionExpires \/ Session!handleDismissNewApiKey
  BY <1>3 DEF Session!SessionExpires, Session!handleDismissNewApiKey, Session!UnderWay
<1>4. ASSUME NEW t \in Tasks, NEW h \in {"login", "logout", "job", "createKey", "endKey",
             "policy"},
             Session!Begin(t, h)
      PROVE  OnlyLateTasks' /\ Session!SignedOutForgets'
  <2>1. admin \/ h = "login"
    BY <1>4 DEF Session!Begin, Session!MayStart
  <2> QED
    BY <1>4, <2>1 DEF Session!Begin, Session!UnderWay
<1>5. ASSUME NEW t \in Tasks, NEW h \in {"poll", "refresh"}, Session!BeginLoads(t, h)
      PROVE  OnlyLateTasks' /\ Session!SignedOutForgets'
  <2>1. admin
    BY <1>5 DEF Session!BeginLoads, Session!MayStart
  <2> QED
    BY <1>5, <2>1 DEF Session!BeginLoads
<1>6. ASSUME NEW t \in Tasks, Session!Served(t)
      PROVE OnlyLateTasks' /\ Session!SignedOutForgets'
  BY <1>6 DEF Session!Served, Session!UnderWay
<1>7. ASSUME NEW t \in Tasks, Session!SignedIn(t)
      PROVE OnlyLateTasks' /\ Session!SignedOutForgets'
  BY <1>7 DEF Session!SignedIn
<1>8. ASSUME NEW t \in Tasks, Session!KeyCreated(t) \/ Session!Done(t)
      PROVE OnlyLateTasks' /\ Session!SignedOutForgets'
  <2>1. /\ Session!StartLoads(t, Session!LoadsOf(task[t])) /\ taskStep[t] # "load"
        /\ task[t] \in {"createKey", "job", "endKey", "policy"}
        /\ UNCHANGED <<admin, shown, signedOut, lateTasks>>
        /\ revealed' \/ stored' => revealed \/ stored \/ task[t] = "createKey"
    BY <1>8 DEF Session!KeyCreated, Session!Done, Session!Proceed
  <2>2. \A s \in Tasks \ {t} : /\ Session!UnderWay(s)' = Session!UnderWay(s)
                              /\ task'[s] = task[s] /\ taskStep'[s] = taskStep[s]
    BY <2>1 DEF Session!StartLoads, Session!UnderWay
  <2>3. Session!UnderWay(t)' \subseteq Session!UnderWay(t)
    BY <2>1, LoadsAreKinds DEF Session!StartLoads, Session!UnderWay
  <2>4. task[t] = "createKey" => "key" \in Session!UnderWay(t)
    BY <2>1 DEF Session!UnderWay
  <2> QED
    BY <2>1, <2>2, <2>3, <2>4
<1>9. ASSUME NEW t \in Tasks, Session!Rejected(t)
      PROVE OnlyLateTasks' /\ Session!SignedOutForgets'
  BY <1>1, <1>9 DEF Session!Rejected
<1>10. ASSUME NEW t \in Tasks, Session!LoggedOut(t)
       PROVE OnlyLateTasks' /\ Session!SignedOutForgets'
  <2>1. /\ Session!StartLoads(t, {})
        /\ lateTasks' = UNION {Session!UnderWay(s) : s \in Tasks \ {t}}
        /\ shown' = shown \cap {"series"} /\ ~revealed' /\ ~stored' /\ ~admin'
    BY <1>10 DEF Session!LoggedOut
  <2>2. \A s \in Tasks : Session!UnderWay(s)' \subseteq lateTasks'
    BY <1>1, <2>1
  <2> QED
    BY <2>1, <2>2
<1>11. ASSUME NEW t \in Tasks, NEW k \in Kinds, Session!LoadServed(t, k)
       PROVE  OnlyLateTasks' /\ Session!SignedOutForgets'
  <2>1. \A s \in Tasks : Session!UnderWay(s)' = Session!UnderWay(s)
    <3> TAKE s \in Tasks
    <3>1. task'[s] = task[s] /\ taskStep'[s] = taskStep[s]
      BY <1>11 DEF Session!LoadServed
    <3>2. \A j \in Kinds : load'[s][j] # "none" <=> load[s][j] # "none"
      BY <1>11 DEF Session!LoadServed
    <3> QED
      BY <3>1, <3>2 DEF Session!UnderWay
  <2> QED
    BY <1>11, <2>1 DEF Session!LoadServed
<1>12. ASSUME NEW t \in Tasks, NEW k \in Kinds, Session!Loaded(t, k) \/ Session!NotLoaded(t, k)
       PROVE  OnlyLateTasks' /\ Session!SignedOutForgets'
  <2>1. /\ Session!LoadEnds(t, k) /\ load[t][k] # "none" /\ taskStep[t] = "load"
        /\ shown' \subseteq shown \cup {k}
        /\ UNCHANGED <<admin, revealed, stored, signedOut, lateTasks>>
    BY <1>12 DEF Session!Loaded, Session!NotLoaded
  <2>2. k \in Session!UnderWay(t)
    BY <2>1 DEF Session!UnderWay
  <2>3. Session!UnderWay(t)' \subseteq Session!UnderWay(t)
    BY <2>1 DEF Session!LoadEnds, Session!UnderWay, Session!LoadsOf
  <2>4. \A s \in Tasks \ {t} : /\ Session!UnderWay(s)' = Session!UnderWay(s)
                              /\ task'[s] = task[s] /\ taskStep'[s] = taskStep[s]
    BY <2>1 DEF Session!LoadEnds, Session!UnderWay
  <2> QED
    BY <2>1, <2>2, <2>3, <2>4
<1>13. CASE UNCHANGED Session!vars
  BY <1>13 DEF Session!vars, Session!UnderWay
<1> QED
  BY <1>2, <1>3, <1>4, <1>5, <1>6, <1>7, <1>8, <1>9, <1>10, <1>11, <1>12, <1>13 DEF Session!Next

LEMMA SessionNext == SessionInv /\ [Session!Next]_(Session!vars) => SessionInv'
BY SessionTypes, SessionOrder, SessionFlags, SessionLate DEF SessionInv

LEMMA SessionForgets == SessionInv => Session!NothingStaysBusy
<1> SUFFICES ASSUME SessionInv, \A t \in Tasks : task[t] = "none" PROVE busy = {}
  BY DEF Session!NothingStaysBusy
<1>1. busy \subseteq Session!Handlers \cup Kinds
  BY DEF SessionInv, Session!TypeOK
<1>2. busy \cap Session!Handlers = {}
  BY HandlersAreNoKinds DEF SessionInv, FlagsAreHeld
<1>3. busy \cap Kinds = {}
  BY DEF SessionInv, FlagsAreHeld, TasksAreOrderly
<1> QED
  BY <1>1, <1>2, <1>3

-----------------------------------------------------------------------------
(* ProxyPage: its proxy page                                               *)

SettingsInv == Settings!TypeOK /\ Settings!FormIsDraftOrPolicy

\* What the API answers has a form for each name.
LEMMA AnswersFill ==
  ASSUME NEW of \in Settings!Settings \cup {Settings!NoSettings}, NEW name \in PageServices
         \cup {NoService}
  PROVE  /\ of \in Settings!Settings
         /\ Settings!Completed(name, of) \in PageServices \cup {NoService}
         /\ Settings!FormOf(Settings!PolicyOf(Settings!Completed(name, of), of)) \in Settings!Forms
         /\ Settings!FormOf(of.policies["global"]) \in Settings!Forms
<1>1. "" \in FormTexts /\ NoService \notin PageServices /\ Listed \subseteq PageServices
  BY ServiceAssumption DEF ServiceAssumption, Settings!ProxyPageAssumption
<1>2. of \in Settings!Settings
  <2>1. [k \in {"global"} \cup PageServices |-> NoPagePolicy] \in [{"global"} \cup PageServices -> Settings!Policies]
    BY DEF Settings!Policies
  <2> HIDE DEF Settings!Policies
  <2>2. Settings!NoSettings \in Settings!Settings
    BY <2>1 DEF Settings!NoSettings, Settings!Settings
  <2> QED
    BY <2>2
<1>3. \A p \in Settings!Policies : Settings!FormOf(p) \in Settings!Forms
  BY <1>1 DEF Settings!FormOf, Settings!Policies, Settings!EmptyForm, Settings!Forms
<1>4. Settings!Completed(name, of) \in PageServices \cup {NoService}
  <2>1. of.available = <<>> \/ \E s \in Listed : of.available = <<s>>
    BY <1>2 DEF Settings!Settings
  <2>2. ASSUME NEW s \in Listed, of.available = <<s>> PROVE Head(of.available) = s
    BY <2>2
  <2> QED
    BY <1>1, <2>1, <2>2 DEF Settings!Completed
<1>5. \A k \in {"global"} \cup PageServices : of.policies[k] \in Settings!Policies
  BY <1>2 DEF Settings!Settings
<1>6. NoPagePolicy \in Settings!Policies
  BY DEF Settings!Policies
<1> QED
  BY <1>2, <1>3, <1>4, <1>5, <1>6 DEF Settings!PolicyOf

LEMMA FillKeeps ==
  ASSUME SettingsInv, NEW name \in PageServices \cup {NoService}, NEW of \in Settings!Settings
         \cup {Settings!NoSettings},
         NEW isDirty \in BOOLEAN, Settings!Fill(name, isDirty, of),
         isDirty => dirty /\ name = selectedService
  PROVE  /\ selectedService' \in PageServices \cup {NoService}
         /\ dirty' \in BOOLEAN
         /\ service' \in Settings!Forms
         /\ dirty' => typed = [for |-> selectedService', form |-> service'] /\ selectedService' # NoService
         /\ ~dirty' => service' = Settings!FormOf(Settings!PolicyOf(selectedService', of))
<1>1. /\ selectedService' = Settings!Completed(name, of) /\ dirty' = isDirty
      /\ service' = IF isDirty THEN service ELSE Settings!FormOf(Settings!PolicyOf(selectedService', of))
  BY DEF Settings!Fill
<1>2. /\ selectedService' \in PageServices \cup {NoService}
      /\ Settings!FormOf(Settings!PolicyOf(selectedService', of)) \in Settings!Forms
  BY <1>1, AnswersFill
<1>3. isDirty => /\ selectedService' = selectedService /\ selectedService # NoService
                /\ typed = [for |-> selectedService, form |-> service]
  BY <1>1 DEF SettingsInv, Settings!FormIsDraftOrPolicy, Settings!Completed
<1> QED
  BY <1>1, <1>2, <1>3 DEF SettingsInv, Settings!TypeOK

LEMMA ShowKeeps ==
  ASSUME SettingsInv, NEW new \in Settings!Settings \cup {Settings!NoSettings}, NEW isDirty
         \in BOOLEAN,
         Settings!Show(new, isDirty), isDirty => dirty, saving' \in Settings!SavingHandlers
  PROVE  SettingsInv'
<1>1. /\ settings' = new /\ Settings!Fill(selectedService, isDirty, new) /\ UNCHANGED typed
      /\ selectedService \in PageServices \cup {NoService}
  BY DEF Settings!Show, SettingsInv, Settings!TypeOK
<1>2. /\ selectedService' \in PageServices \cup {NoService}
      /\ dirty' \in BOOLEAN
      /\ service' \in Settings!Forms
      /\ dirty' => typed = [for |-> selectedService', form |-> service'] /\ selectedService' # NoService
      /\ ~dirty' => service' = Settings!FormOf(Settings!PolicyOf(selectedService', new))
  BY <1>1, FillKeeps
<1>3. new \in Settings!Settings /\ Settings!FormOf(new.policies["global"]) \in Settings!Forms
  BY <1>1, AnswersFill
<1>4. /\ global' \in Settings!Forms /\ retyped' \in BOOLEAN
      /\ ~retyped' => global' = Settings!FormOf(new.policies["global"])
  <2>1. CASE {settings.policies["global"], new.policies["global"]} = {NoPagePolicy}
    <3>1. new.policies["global"] = settings.policies["global"]
      BY <2>1
    <3> QED
      BY <2>1, <3>1 DEF Settings!Show, SettingsInv, Settings!TypeOK,
         Settings!FormIsDraftOrPolicy
  <2>2. CASE {settings.policies["global"], new.policies["global"]} # {NoPagePolicy}
    <3>1. global' = Settings!FormOf(new.policies["global"]) /\ retyped' = FALSE
      BY <2>2 DEF Settings!Show
    <3> QED
      BY <1>3, <3>1
  <2> QED
    BY <2>1, <2>2
<1>5. typed' \in Settings!Drafts
  BY <1>1 DEF SettingsInv, Settings!TypeOK
<1>6. Settings!TypeOK'
  BY <1>1, <1>2, <1>3, <1>4, <1>5 DEF Settings!TypeOK
<1>7. Settings!FormIsDraftOrPolicy'
  BY <1>1, <1>2, <1>4 DEF Settings!FormIsDraftOrPolicy
<1> QED
  BY <1>6, <1>7 DEF SettingsInv

LEMMA SettingsInit == Settings!Init => SettingsInv
<1> SUFFICES ASSUME Settings!Init PROVE SettingsInv
  OBVIOUS
<1>0. "" \in FormTexts /\ NoService \notin PageServices /\ Listed \subseteq PageServices
  BY ServiceAssumption DEF ServiceAssumption, Settings!ProxyPageAssumption
<1>1. /\ settings \in Settings!Settings
      /\ selectedService \in PageServices \cup {NoService}
      /\ service \in Settings!Forms
      /\ global \in Settings!Forms
  BY AnswersFill DEF Settings!Init
<1>2. typed \in Settings!Drafts /\ retyped \in BOOLEAN /\ dirty \in BOOLEAN
  BY <1>0 DEF Settings!Init, Settings!EmptyForm, Settings!Forms, Settings!Drafts
<1>3. Settings!TypeOK
  BY <1>1, <1>2 DEF Settings!Init, Settings!TypeOK, Settings!SavingHandlers
<1>4. Settings!FormIsDraftOrPolicy
  BY DEF Settings!Init, Settings!FormIsDraftOrPolicy
<1> QED
  BY <1>3, <1>4 DEF SettingsInv

LEMMA SettingsNext == SettingsInv /\ [Settings!Next]_(Settings!vars) => SettingsInv'
<1> SUFFICES ASSUME SettingsInv, [Settings!Next]_(Settings!vars) PROVE SettingsInv'
  OBVIOUS
<1>0. /\ NoService \notin PageServices
      /\ settings \in Settings!Settings
      /\ dirty \in BOOLEAN
      /\ Settings!SavingHandlers = {"none", "global", "service"}
  BY ServiceAssumption DEF ServiceAssumption, Settings!ProxyPageAssumption, SettingsInv,
     Settings!TypeOK, Settings!SavingHandlers
<1>1. CASE Settings!Refreshed
  <2>1. PICK new \in Settings!Settings \cup {Settings!NoSettings} : Settings!Show(new, dirty)
    BY <1>1 DEF Settings!Refreshed
  <2>2. saving' \in Settings!SavingHandlers
    BY <1>1 DEF Settings!Refreshed, SettingsInv, Settings!TypeOK
  <2> QED
    BY <1>0, <2>1, <2>2, ShowKeeps
<1>2. CASE Settings!Saved
  <2>1. PICK new \in Settings!Settings \cup {Settings!NoSettings} : Settings!Show(new, dirty /\ saving = "global")
    BY <1>2 DEF Settings!Saved
  <2>2. saving' \in Settings!SavingHandlers /\ (dirty /\ saving = "global") \in BOOLEAN
    BY <1>0, <1>2 DEF Settings!Saved
  <2> QED
    BY <2>1, <2>2, ShowKeeps
<1>3. CASE Settings!UseGlobal
  <2>1. global' = Settings!FormOf(settings.policies["global"]) /\ retyped' = FALSE
        /\ UNCHANGED <<settings, selectedService, service, dirty, typed, saving>>
    BY <1>3 DEF Settings!UseGlobal, Settings!serviceVars
  <2>2. global' \in Settings!Forms /\ retyped' \in BOOLEAN
    BY <1>0, <2>1, AnswersFill DEF SettingsInv, Settings!TypeOK
  <2> QED
    BY <2>1, <2>2 DEF SettingsInv, Settings!TypeOK, Settings!FormIsDraftOrPolicy
<1>4. ASSUME NEW new \in Settings!Forms, Settings!EditGlobal(new) PROVE SettingsInv'
  <2>1. /\ global' = new
        /\ retyped' = TRUE
        /\ UNCHANGED <<settings, selectedService, service, dirty, typed, saving>>
    BY <1>4 DEF Settings!EditGlobal, Settings!serviceVars
  <2>2. retyped' \in BOOLEAN
    BY <2>1
  <2> QED
    BY <2>1, <2>2 DEF SettingsInv, Settings!TypeOK, Settings!FormIsDraftOrPolicy
<1>5. ASSUME NEW new \in Settings!Forms, Settings!EditService(new) PROVE SettingsInv'
  <2>1. /\ service' = new /\ typed' = [for |-> selectedService, form |-> new]
        /\ dirty' = TRUE /\ selectedService # NoService
        /\ UNCHANGED <<settings, global, retyped, selectedService, saving>>
    BY <1>5 DEF Settings!EditService
  <2>2. dirty' \in BOOLEAN /\ typed' \in Settings!Drafts
    BY <2>1 DEF Settings!Drafts, SettingsInv, Settings!TypeOK
  <2> QED
    BY <2>1, <2>2 DEF SettingsInv, Settings!TypeOK, Settings!FormIsDraftOrPolicy
<1>6. ASSUME NEW name \in PageServices \cup {NoService}, Settings!SelectService(name)
      PROVE SettingsInv'
  <2>1. /\ Settings!Fill(name, FALSE, settings)
        /\ UNCHANGED <<settings, global, retyped, typed, saving>>
    BY <1>6 DEF Settings!SelectService
  <2>2. /\ selectedService' \in PageServices \cup {NoService}
        /\ dirty' \in BOOLEAN
        /\ service' \in Settings!Forms
        /\ dirty' => typed = [for |-> selectedService', form |-> service'] /\ selectedService' # NoService
        /\ ~dirty' => service' = Settings!FormOf(Settings!PolicyOf(selectedService', settings))
    BY <1>0, <2>1, FillKeeps
  <2> QED
    BY <2>1, <2>2 DEF SettingsInv, Settings!TypeOK, Settings!FormIsDraftOrPolicy
<1>7. ASSUME NEW name \in PageServices, Settings!UseService(name) PROVE SettingsInv'
  <2>1. /\ selectedService' = name
        /\ dirty' = FALSE
        /\ service' = Settings!FormOf(settings.policies[name])
        /\ UNCHANGED <<settings, global, retyped, typed, saving>>
    BY <1>7 DEF Settings!UseService
  <2>2. /\ Settings!PolicyOf(name, settings) = settings.policies[name]
        /\ Settings!Completed(name, settings) = name
    BY <1>0 DEF Settings!PolicyOf, Settings!Completed
  <2>3. service' \in Settings!Forms /\ dirty' \in BOOLEAN
    BY <1>0, <2>1, <2>2, AnswersFill
  <2>4. ~dirty' => service' = Settings!FormOf(Settings!PolicyOf(selectedService', settings))
    BY <2>1, <2>2
  <2> QED
    BY <2>1, <2>3, <2>4 DEF SettingsInv, Settings!TypeOK, Settings!FormIsDraftOrPolicy
<1>8. ASSUME NEW handler \in Settings!SavingHandlers \ {"none"}, Settings!Save(handler)
      PROVE SettingsInv'
  BY <1>8 DEF Settings!Save, Settings!serviceVars, SettingsInv, Settings!TypeOK,
     Settings!FormIsDraftOrPolicy
<1>9. CASE UNCHANGED Settings!vars
  BY <1>9 DEF Settings!vars, Settings!serviceVars, SettingsInv, Settings!TypeOK,
     Settings!FormIsDraftOrPolicy
<1> QED
  BY <1>1, <1>2, <1>3, <1>4, <1>5, <1>6, <1>7, <1>8, <1>9 DEF Settings!Next
==============================================================================
