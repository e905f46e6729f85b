------------------------------ MODULE Scraper -------------------------------
(***************************************************************************)
(* scraper.execute: the strategies a job is tried with and how often, and  *)
(* the pool of browsers that the executions of one worker share.  The pool *)
(* keeps one browser per proxy; what is modelled is the entry of one of    *)
(* them, and entries share nothing.  A browser is launched by the first    *)
(* execution that finds none, closed when nobody has asked for it during   *)
(* the idle timeout, and closed at shutdown.  Launching and closing are    *)
(* awaits: other executions run meanwhile.                                 *)
(***************************************************************************)
EXTENDS Naturals, Sequences

CONSTANTS
  Executions,  \* calls of execute() on one worker
  MaxRetries   \* SCRAPER_MAX_RETRIES, or the job's own

ScraperAssumption == MaxRetries \in Nat

VARIABLES
  plan,      \* the strategies of each execution
  pc,        \* its next step
  attempt,   \* retries so far
  using,     \* the browser its page is open in
  tries,     \* history: how often it used each strategy
  fleet,     \* the browsers ever launched, by number
  pool,      \* the number of the browser in the pool
  armed,     \* its idle timer is running
  disposed,  \* the worker is shutting down
  raced      \* history: two launches, or two closings of one browser, overlapped

executionVars == <<plan, pc, attempt, using, tries>>
poolVars == <<fleet, pool, armed, raced>>
vars == <<executionVars, poolVars, disposed>>

NoBrowser == 0

Strategy == {"http", "playwright"}
Requested == Strategy \cup {"auto", "cloudscraper"}

Normal(requested) == IF requested = "cloudscraper" THEN "http" ELSE requested

NoPlan == [primary |-> "none", fallback |-> "none"]

AutoPrimary(default, allowed) ==
  IF Normal(default) \in allowed THEN Normal(default)
  ELSE IF "http" \in allowed THEN "http" ELSE "playwright"

\* Only auto falls back, and only from http to playwright.
StrategyPlan(requested, default, allowed) ==
  IF allowed = {} \/ Normal(requested) \notin allowed \cup {"auto"} THEN NoPlan
  ELSE IF Normal(requested) # "auto"
       THEN [primary |-> Normal(requested), fallback |-> "none"]
       ELSE LET primary == AutoPrimary(default, allowed) IN
            [primary |-> primary,
             fallback |-> IF primary = "http" /\ "playwright" \in allowed
                          THEN "playwright" ELSE "none"]

Plans == {StrategyPlan(r, d, a) : r \in Requested, d \in Requested, a \in SUBSET Strategy}

TypeOK ==
  /\ plan \in [Executions -> Plans]
  /\ pc \in [Executions -> {"idle", "http", "browser", "launch", "page", "backoff",
                            "completed", "failed"}]
  /\ attempt \in [Executions -> 0..MaxRetries]
  /\ using \in [Executions -> 0..Len(fleet)]
  /\ tries \in [Executions -> [Strategy -> 0..(MaxRetries + 1)]]
  /\ fleet \in Seq([open : BOOLEAN, closes : Nat])
  /\ pool \in 0..Len(fleet)
  /\ armed \in BOOLEAN /\ disposed \in BOOLEAN /\ raced \in BOOLEAN

Init ==
  /\ plan \in [Executions -> Plans]
  /\ pc = [e \in Executions |-> "idle"]
  /\ attempt = [e \in Executions |-> 0]
  /\ using = [e \in Executions |-> NoBrowser]
  /\ tries = [e \in Executions |-> [s \in Strategy |-> 0]]
  /\ fleet = <<>> /\ pool = NoBrowser /\ armed = FALSE
  /\ disposed = FALSE /\ raced = FALSE

Goto(e, step) == pc' = [pc EXCEPT ![e] = step]

Try(e, s) ==
  /\ Goto(e, IF s = "http" THEN "http" ELSE "browser")
  /\ tries' = [tries EXCEPT ![e][s] = @ + 1]

-----------------------------------------------------------------------------
(* execute() *)

Begin(e) ==
  /\ pc[e] = "idle"
  /\ \/ plan[e] # NoPlan /\ Try(e, plan[e].primary)
     \/ plan[e] = NoPlan /\ Goto(e, "failed") /\ UNCHANGED tries
  /\ UNCHANGED <<plan, attempt, using, poolVars, disposed>>

Succeeds(e) ==
  /\ \/ pc[e] = "http"
     \/ pc[e] = "page" /\ fleet[using[e]].open /\ fleet[using[e]].closes = 0
  /\ Goto(e, "completed")
  /\ using' = [using EXCEPT ![e] = NoBrowser]
  /\ UNCHANGED <<plan, attempt, tries, poolVars, disposed>>

\* Mutation of Again: the fallback is tried after the last attempt only.
AgainFirst(e, s) ==
  IF attempt[e] = MaxRetries /\ s = plan[e].primary /\ plan[e].fallback # "none"
  THEN Try(e, plan[e].fallback)
  ELSE /\ Goto(e, IF attempt[e] = MaxRetries THEN "failed" ELSE "backoff")
       /\ UNCHANGED tries

\* After strategy s failed: the fallback, another attempt after a delay, or the end.
Again(e, s) ==
  IF s = plan[e].primary /\ plan[e].fallback # "none"
  THEN Try(e, plan[e].fallback)
  ELSE /\ Goto(e, IF attempt[e] = MaxRetries THEN "failed" ELSE "backoff")
       /\ UNCHANGED tries

\* The site, the network, a timeout, a launch, or the browser closed under the page.
Fails(e) ==
  /\ pc[e] \in {"http", "browser", "launch", "page"}
  /\ Again(e, IF pc[e] = "http" THEN "http" ELSE "playwright")
  /\ using' = [using EXCEPT ![e] = NoBrowser]
  /\ UNCHANGED <<plan, attempt, poolVars, disposed>>

Backoff(e) ==
  /\ pc[e] = "backoff"
  /\ attempt' = [attempt EXCEPT ![e] = @ + 1]
  /\ Try(e, plan[e].primary)
  /\ UNCHANGED <<plan, using, poolVars, disposed>>

-----------------------------------------------------------------------------
(* The pool: getBrowser, resetIdleTimer, closeBrowser, destroy *)

\* Mutation of GetBrowser: the pool is not looked at.
GetBrowserAnew(e) ==
  /\ pc[e] = "browser"
  /\ Goto(e, "launch")
  /\ raced' = (raced \/ \E f \in Executions : pc[f] = "launch")
  /\ UNCHANGED <<plan, attempt, using, tries, fleet, pool, armed, disposed>>

GetBrowser(e) ==
  /\ pc[e] = "browser"
  /\ \/ /\ pool # NoBrowser
        /\ using' = [using EXCEPT ![e] = pool]
        /\ armed' = TRUE
        /\ Goto(e, "page")
        /\ UNCHANGED raced
     \/ /\ pool = NoBrowser
        /\ Goto(e, "launch")
        /\ raced' = (raced \/ \E f \in Executions : pc[f] = "launch")
        /\ UNCHANGED <<using, armed>>
  /\ UNCHANGED <<plan, attempt, tries, fleet, pool, disposed>>

\* Mutation of Launch: the idle timer is not started.
LaunchUntimed(e) ==
  /\ pc[e] = "launch"
  /\ fleet' = Append(fleet, [open |-> TRUE, closes |-> 0])
  /\ pool' = Len(fleet')
  /\ using' = [using EXCEPT ![e] = Len(fleet')]
  /\ Goto(e, "page")
  /\ UNCHANGED <<plan, attempt, tries, armed, raced, disposed>>

\* chromium.launch() answers.
Launch(e) ==
  /\ pc[e] = "launch"
  /\ fleet' = Append(fleet, [open |-> TRUE, closes |-> 0])
  /\ pool' = Len(fleet')
  /\ armed' = TRUE
  /\ using' = [using EXCEPT ![e] = Len(fleet')]
  /\ Goto(e, "page")
  /\ UNCHANGED <<plan, attempt, tries, raced, disposed>>

\* closeBrowser up to its await: the browser stays in the pool.
BeginClose ==
  IF pool = NoBrowser THEN UNCHANGED <<fleet, raced>>
  ELSE /\ fleet' = [fleet EXCEPT ![pool].closes = @ + 1]
       /\ raced' = (raced \/ fleet[pool].closes > 0)

\* The timer fires, whether a page is open or not.
IdleTimeout ==
  /\ armed
  /\ armed' = FALSE
  /\ BeginClose
  /\ UNCHANGED <<executionVars, pool, disposed>>

Dispose ==
  /\ ~disposed
  /\ disposed' = TRUE
  /\ BeginClose
  /\ UNCHANGED <<executionVars, pool, armed>>

\* The rest of closeBrowser: whatever the pool holds by now is dropped, and its timer.
EndClose(b) ==
  /\ fleet[b].closes > 0
  /\ fleet' = [fleet EXCEPT ![b] = [open |-> FALSE, closes |-> @.closes - 1]]
  /\ pool' = NoBrowser
  /\ armed' = FALSE
  /\ UNCHANGED <<executionVars, raced, disposed>>

-----------------------------------------------------------------------------
Closes == \E b \in DOMAIN fleet : EndClose(b)

Next ==
  \/ \E e \in Executions : \/ Begin(e) \/ Succeeds(e) \/ Fails(e) \/ Backoff(e)
                           \/ GetBrowser(e) \/ Launch(e)
  \/ IdleTimeout \/ Dispose \/ Closes

Spec == Init /\ [][Next]_vars

\* Timers fire and close() returns; an execution may hang.
Fairness == WF_vars(IdleTimeout) /\ WF_vars(Closes)

FairSpec == Spec /\ Fairness

-----------------------------------------------------------------------------
\* process() lets a job through that its worker allows: it has a plan, of strategies
\* the worker allows, and nothing but auto is tried with another strategy.
Allowed(requested, allowed) == requested = "auto" \/ Normal(requested) \in allowed

PlansAreAllowed ==
  \A r \in Requested, d \in Requested, a \in SUBSET Strategy \ {{}} :
     LET p == StrategyPlan(r, d, a) IN
     /\ Allowed(r, a) <=> p # NoPlan
     /\ p # NoPlan => p.primary \in a /\ p.fallback \in a \cup {"none"}
     /\ r # "auto" /\ p # NoPlan => p.primary = Normal(r) /\ p.fallback = "none"

\* A job that fails was tried with every strategy of its plan once in each of the
\* MaxRetries + 1 attempts, and none is ever tried more often than attempts began.
FailureIsExhaustive ==
  \A e \in Executions :
     /\ \A s \in Strategy : tries[e][s] <= attempt[e] + 1
     /\ pc[e] = "failed" =>
          \A s \in Strategy : tries[e][s] =
             IF s \in {plan[e].primary, plan[e].fallback} THEN MaxRetries + 1 ELSE 0

\* An open browser is the one in the pool, unless two launches or two closings of a
\* browser overlapped: then one may be left that nothing closes, not even shutdown.
OpenIsPooled ==
  ~raced => \A b \in DOMAIN fleet : fleet[b].open => pool = b

\* And all of them are closed in the end, whatever hangs in their pages.
BrowsersAreClosed ==
  (fleet # <<>> /\ ~raced) ~> (raced \/ \A b \in DOMAIN fleet : ~fleet[b].open)

-----------------------------------------------------------------------------
(* The inductive invariant of Scraper, with what it adds to TypeOK *)

\* Behind FailureIsExhaustive: each attempt tries the primary strategy, then the
\* fallback, and the next begins when both have failed.
Current(e) == CASE pc[e] = "http" -> "http"
                [] pc[e] \in {"browser", "launch", "page"} -> "playwright"
                [] OTHER -> "none"

Tried(e, s) == IF pc[e] = "idle" \/ (s = plan[e].fallback /\ Current(e) = plan[e].primary)
               THEN attempt[e] ELSE attempt[e] + 1

TriesAreCounted ==
  \A e \in Executions :
     /\ pc[e] = "idle" => attempt[e] = 0
     /\ pc[e] = "failed" => plan[e] = NoPlan \/ attempt[e] = MaxRetries
     /\ pc[e] = "backoff" => attempt[e] < MaxRetries
     /\ plan[e] = NoPlan => pc[e] \in {"idle", "failed"} /\ attempt[e] = 0
     /\ Current(e) # "none" => Current(e) \in {plan[e].primary, plan[e].fallback}
     /\ \A s \in Strategy :
           \/ pc[e] = "completed" /\ tries[e][s] <= attempt[e] + 1
           \/ tries[e][s] = IF s \in {plan[e].primary, plan[e].fallback} THEN Tried(e, s) ELSE 0

\* Behind OpenIsPooled: as long as nothing overlapped the pool holds what is open or
\* being closed, and nothing while a browser is launched.
PoolIsKept ==
  /\ \A e \in Executions : pc[e] = "page" => using[e] # NoBrowser
  /\ ~raced =>
       /\ \A b \in DOMAIN fleet : fleet[b].closes > 0 => pool = b /\ fleet[b].closes = 1
       /\ \A e, f \in Executions : pc[e] = "launch" /\ pc[f] = "launch" => e = f
       /\ (\E e \in Executions : pc[e] = "launch") => pool = NoBrowser

IInv == TypeOK /\ TriesAreCounted /\ PoolIsKept /\ OpenIsPooled
=============================================================================
