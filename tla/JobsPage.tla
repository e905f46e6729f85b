------------------------------- MODULE JobsPage -------------------------------
(***************************************************************************)
(* The dashboard's list of jobs with the detail of the selected one.       *)
(*                                                                         *)
(* Every answer is applied when it comes.  The requests for the selected   *)
(* job and for its result are cancelled when the selection changes; those  *)
(* for the list are not.  The address of the page also holds the selected  *)
(* job: a click sets the selection at once and the address in a transition *)
(* that commits later, and after each commit an effect makes the selection *)
(* follow the address.  An effect runs with the commit that triggers it.   *)
(* A re-run or a cancellation loads the page again that was displayed when *)
(* it was clicked, even if another one is displayed by then.               *)
(***************************************************************************)
EXTENDS Naturals, FiniteSets

CONSTANTS
  Jobs,
  NoJob,
  Lists,      \* requests for the list that may be under way at once
  LastPage,   \* the largest totalPages of an answer
  Reruns      \* bound on clicks on re-run and cancel

JobsPageAssumption == NoJob \notin Jobs /\ LastPage \in Nat \ {0} /\ Reruns \in Nat

VARIABLES
  address,     \* searchParams.get("jobId")
  navigation,  \* the address a transition is about to commit
  selected,    \* selectedJobId
  fetchedJob,  \* the job that was fetched because the list does not have it
  jobRequest,  \* the uncancelled request for it is under way
  missed,      \* the last one was refused or failed
  result,      \* the job that selectedResult is of
  resultRequest,  \* loadingResult: the uncancelled request for it is under way
  jobsPage,    \* the page that is asked for
  shownPage,   \* the page that pagedJobs is of, 0 for none
  pagedJobs,
  totalPages,
  loadingJobs,
  lists,       \* requests for the list: the page each is about, 0 when it is not used
  crossed,     \* history: two requests for the list were under way since the page was turned
  reloaded,    \* history: the page that was asked for last instead of the displayed one, or 0
  rerun        \* step, page and job of onRetry or onCancel, and how many there were

detailVars == <<address, navigation, selected, fetchedJob, jobRequest, missed, result, resultRequest>>
listVars == <<jobsPage, shownPage, pagedJobs, totalPages, loadingJobs, lists, crossed,
              reloaded>>
vars == <<detailVars, listVars, rerun>>

TypeOK ==
  /\ {address, selected, fetchedJob, result} \subseteq Jobs \cup {NoJob}
  /\ navigation \in [pending : BOOLEAN, to : Jobs \cup {NoJob}]
  /\ {jobRequest, missed, resultRequest, loadingJobs, crossed} \subseteq BOOLEAN
  /\ jobsPage \in 1..LastPage /\ totalPages \in 1..LastPage /\ {shownPage, reloaded} \subseteq 0..LastPage
  /\ pagedJobs \subseteq Jobs
  /\ lists \in [Lists -> 0..LastPage]
  /\ rerun \in [step : {"none", "post"}, page : 1..LastPage, count : 0..Reruns]

NoNavigation == [pending |-> FALSE, to |-> NoJob]

Init ==
  /\ address \in Jobs \cup {NoJob} /\ selected = address
  /\ navigation = NoNavigation
  /\ fetchedJob = NoJob /\ result = NoJob
  /\ jobRequest = (selected # NoJob) /\ resultRequest = (selected # NoJob)
  /\ missed = FALSE
  /\ jobsPage = 1 /\ shownPage = 0 /\ pagedJobs = {} /\ totalPages = 1
  /\ loadingJobs = TRUE /\ crossed = FALSE /\ reloaded = 0
  /\ \E first \in Lists : lists = [l \in Lists |-> IF l = first THEN 1 ELSE 0]
  /\ rerun = [step |-> "none", page |-> 1, count |-> 0]

-----------------------------------------------------------------------------
(* The detail                                                              *)

\* The effect on the selection or the list: nothing is fetched for a job on the list.
RefetchJob(job, rows) ==
  LET needed == job # NoJob /\ job \notin rows IN
  /\ jobRequest' = needed
  /\ fetchedJob' = IF needed THEN fetchedJob ELSE NoJob
  /\ missed' = FALSE

\* A click selects a job of the list, or none: nothing needs to be fetched.  After that
\* commit the selection follows the address as it still is, and starts its requests anew.
Select(job) ==
  /\ navigation' = [pending |-> TRUE, to |-> job]
  /\ result' = NoJob
  /\ IF job = selected
     THEN UNCHANGED <<selected, fetchedJob, jobRequest, missed, resultRequest>>
     ELSE /\ selected' = IF address # NoJob THEN address ELSE job
          /\ fetchedJob' = NoJob /\ missed' = FALSE
          /\ jobRequest' = (selected' \notin pagedJobs \cup {NoJob})
          /\ resultRequest' = (selected' # NoJob)
  /\ UNCHANGED <<address, listVars, rerun>>

openJobDetail(job) == job \in pagedJobs /\ Select(job)

\* "Back to Queue"
Back == selected # NoJob /\ Select(NoJob)

\* Mutation of Navigated: the selection does not follow.
NavigatedOnly ==
  /\ navigation.pending /\ navigation' = NoNavigation /\ address' = navigation.to
  /\ UNCHANGED <<selected, fetchedJob, jobRequest, missed, result, resultRequest, listVars, rerun>>

\* The transition commits; a selection that differs from a job in the address follows.
Navigated ==
  /\ navigation.pending /\ navigation' = NoNavigation
  /\ address' = navigation.to
  /\ selected' = IF address' # NoJob THEN address' ELSE selected
  /\ IF selected' = selected
     THEN UNCHANGED <<fetchedJob, jobRequest, missed, resultRequest>>
     ELSE RefetchJob(selected', pagedJobs) /\ resultRequest' = TRUE
  /\ UNCHANGED <<result, listVars, rerun>>

JobAnswered ==
  /\ jobRequest /\ jobRequest' = FALSE
  /\ \/ fetchedJob' = selected /\ missed' = FALSE
     \/ UNCHANGED fetchedJob /\ missed' = TRUE      \* an answer that is not ok
     \/ fetchedJob' = NoJob /\ missed' = TRUE       \* no answer
  /\ UNCHANGED <<address, navigation, selected, result, resultRequest, listVars, rerun>>

\* Mutation of ResultAnswered: an answer that is not ok changes nothing.
ResultAnsweredOk ==
  /\ resultRequest /\ resultRequest' = FALSE
  /\ result' \in {selected, result}
  /\ UNCHANGED <<address, navigation, selected, fetchedJob, jobRequest, missed, listVars, rerun>>

\* Any text of a result is shown; without one, and on every error, there is none.
ResultAnswered ==
  /\ resultRequest /\ resultRequest' = FALSE
  /\ result' \in {selected, NoJob}
  /\ UNCHANGED <<address, navigation, selected, fetchedJob, jobRequest, missed, listVars, rerun>>

-----------------------------------------------------------------------------
(* The list                                                                *)

Free == {l \in Lists : lists[l] = 0}

\* loadJobs for a page
LoadJobs(page) ==
  \E l \in Free : /\ lists' = [lists EXCEPT ![l] = page]
                  /\ loadingJobs' = TRUE

\* Mutation of Turn: the button to the next page is never disabled.
TurnFreely ==
  /\ ~loadingJobs
  /\ jobsPage' \in {jobsPage - 1, jobsPage + 1} \ {0}
  /\ LoadJobs(jobsPage')
  /\ crossed' = (Free # Lists) /\ reloaded' = 0
  /\ UNCHANGED <<detailVars, shownPage, pagedJobs, totalPages, rerun>>

\* Both buttons are disabled while a list is loading.
Turn ==
  /\ ~loadingJobs
  /\ \/ jobsPage > 1 /\ jobsPage' = jobsPage - 1
     \/ jobsPage < totalPages /\ jobsPage' = jobsPage + 1
  /\ LoadJobs(jobsPage')
  /\ crossed' = (Free # Lists) /\ reloaded' = 0
  /\ UNCHANGED <<detailVars, shownPage, pagedJobs, totalPages, rerun>>

\* refreshNonce changes.
Refresh ==
  /\ LoadJobs(jobsPage)
  /\ crossed' = (crossed \/ Free # Lists) /\ reloaded' = 0
  /\ UNCHANGED <<detailVars, jobsPage, shownPage, pagedJobs, totalPages, rerun>>

\* A new list triggers the effect on the selected job again.
ShowList(l, rows, page, pages) ==
  /\ pagedJobs' = rows /\ shownPage' = page /\ totalPages' = pages
  /\ lists' = [lists EXCEPT ![l] = 0] /\ loadingJobs' = FALSE
  /\ RefetchJob(selected, rows)
  /\ UNCHANGED <<address, navigation, selected, result, resultRequest, jobsPage, crossed, reloaded,
                 rerun>>

ListAnswered(l) ==
  /\ lists[l] # 0
  /\ \E rows \in SUBSET Jobs, pages \in 1..LastPage : ShowList(l, rows, lists[l], pages)

ListFails(l) == lists[l] # 0 /\ ShowList(l, {}, 0, 1)

SelectedJob == IF selected \in pagedJobs THEN selected ELSE fetchedJob

\* onRetry and onCancel keep the loadJobs of the page they were clicked on.  Only
\* one of them is waited for here; the buttons allow one for each job.
Rerun ==
  /\ selected # NoJob /\ SelectedJob # NoJob
  /\ rerun.step = "none" /\ rerun.count < Reruns
  /\ rerun' = [step |-> "post", page |-> jobsPage, count |-> rerun.count + 1]
  /\ UNCHANGED <<detailVars, listVars>>

Posted ==
  /\ rerun.step = "post" /\ rerun' = [rerun EXCEPT !.step = "none"]
  /\ LoadJobs(rerun.page)
  /\ crossed' = (crossed \/ Free # Lists)
  /\ reloaded' = IF rerun.page = jobsPage THEN 0 ELSE rerun.page
  /\ UNCHANGED <<detailVars, jobsPage, shownPage, pagedJobs, totalPages>>

Next ==
  \/ \E j \in Jobs : openJobDetail(j)
  \/ Back \/ Navigated \/ JobAnswered \/ ResultAnswered
  \/ Turn \/ Refresh \/ Rerun \/ Posted
  \/ \E l \in Lists : ListAnswered(l) \/ ListFails(l)

Spec == Init /\ [][Next]_vars

-----------------------------------------------------------------------------
\* Once everything the page asked for is answered, its parts belong together: the
\* selection is the job of the address, if there is one, the job and the result in the
\* detail are those of the selection, and the list is of the page that is displayed, or
\* after a re-run or cancellation of the page that it was clicked on.  (Not the job when
\* its request was refused, and not the list when two requests for it were under way
\* together: their answers may come in any order.)
SettledPageAgrees ==
  /\ address # NoJob => selected = address
  /\ ~resultRequest => result \in {selected, NoJob}
  /\ ~jobRequest /\ ~missed /\ selected # NoJob => SelectedJob = selected
  /\ Free = Lists /\ ~crossed => shownPage \in {IF reloaded = 0 THEN jobsPage ELSE reloaded, 0}
=============================================================================
