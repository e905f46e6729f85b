------------------------------ MODULE Components ------------------------------
(***************************************************************************)
(* Components that share no state, checked in one run: the initial state   *)
(* picks one of them, and only that one takes steps.                       *)
(***************************************************************************)
EXTENDS Naturals, FiniteSets, Sequences

CONSTANTS
  Workers, Fitting, Unstable, MaxStarts, Dispatches, NoWorker,  \* of WorkerRegistry
  KeyIds, KeyRequests, NoRecord,                                \* of ApiKeys
  Executions, MaxRetries                                        \* of Scraper

VARIABLES component,
  \* WorkerRegistry
  phase, starts, beat, alive, index, rotation, regPc, unread, missing, listed, chosen, gone,
  \* ApiKeys
  made, record, entries, op, keyOf, keyPc, seen, accepted, ended, overlapped,
  \* Scraper
  plan, runPc, attempt, using, tries, fleet, pool, armed, disposed, raced

registryVars == <<phase, starts, beat, alive, index, rotation, regPc, unread, missing,
                  listed, chosen, gone>>
keyVars == <<made, record, entries, op, keyOf, keyPc, seen, accepted, ended, overlapped>>
scraperVars == <<plan, runPc, attempt, using, tries, fleet, pool, armed, disposed, raced>>
vars == <<component, registryVars, keyVars, scraperVars>>

Registry == INSTANCE WorkerRegistry WITH
  Requests <- Dispatches, None <- NoWorker, pc <- regPc

Keys == INSTANCE ApiKeys WITH Keys <- KeyIds, Requests <- KeyRequests, pc <- keyPc

Pool == INSTANCE Scraper WITH pc <- runPc

ASSUME ComponentAssumption ==
  Registry!RegistryAssumption /\ Keys!ApiKeysAssumption /\ Pool!ScraperAssumption

\* The components that are not picked rest in one of their initial states.
Resting ==
  /\ component # "keys" => op = [q \in KeyRequests |-> "validate"]
  /\ component # "scraper" => plan = [e \in Executions |-> Pool!NoPlan]

Init ==
  /\ component \in {"registry", "keys", "scraper"}
  /\ Registry!Init /\ Keys!Init /\ Pool!Init
  /\ Resting

InRegistry == component = "registry" /\ UNCHANGED <<component, keyVars, scraperVars>>
InKeys     == component = "keys"     /\ UNCHANGED <<component, registryVars, scraperVars>>
InScraper  == component = "scraper"  /\ UNCHANGED <<component, registryVars, keyVars>>

Next ==
  \/ Registry!Next /\ InRegistry
  \/ Keys!Next /\ InKeys
  \/ Pool!Next /\ InScraper

\* The fairness of WorkerRegistry and of Scraper
Fairness ==
  /\ \A w \in Workers :
        /\ WF_vars(InRegistry /\ Registry!Beat(w) /\ phase[w] = "up")
        /\ WF_vars(InRegistry /\ Registry!AddToIndex(w))
        /\ WF_vars(InRegistry /\ Registry!SetKey(w))
        /\ WF_vars(InRegistry /\ Registry!Expire(w) /\ phase[w] = "off")
  /\ WF_vars(InScraper /\ Pool!IdleTimeout)
  /\ WF_vars(InScraper /\ Pool!Closes)

Spec == Init /\ [][Next]_vars /\ Fairness

-----------------------------------------------------------------------------
\* Every variable of the component at work keeps its type; the others rest.
TypesOK == /\ component = "registry" => Registry!TypeOK
           /\ component = "keys" => Keys!TypeOK
           /\ component = "scraper" => Pool!TypeOK

\* A job for several workers is not sent to one that was gone when its request began, and
\* requests that found the same workers take turns.
ChoicesAreRight ==
  component = "registry" => Registry!GoneIsNotListed /\ Registry!RotationIsEven

\* A running worker is listed, or will be, and a worker that is gone is forgotten (the
\* heartbeat, its expiry, its removal, and the clean-up of listWorkers).
IndexFollowsWorkers ==
  component = "registry" => Registry!RunningIsListed /\ Registry!GoneIsForgotten

\* The record of an API key says what its requests did to it, one by one.  (Not of a key
\* on which two requests overlapped: the later write is all that is left of both.)
SerialUseIsExact == component = "keys" => Keys!SerialUseIsExact

\* A key that was revoked or deleted is not accepted again.  (A key on which two requests
\* overlapped may be: the write of the other one brings the record back as it was read.)
EndedIsRefused == Keys!EndedIsRefused

\* A scrape fails after MaxRetries + 1 attempts with each strategy of its plan.
FailureIsExhaustive == component = "scraper" => Pool!FailureIsExhaustive

\* No browser is open that the pool has lost, unless launches or closings overlapped.
OpenIsPooled == component = "scraper" => Pool!OpenIsPooled

\* A browser is closed in the end.
BrowsersAreClosed == component = "scraper" => Pool!BrowsersAreClosed
=============================================================================
