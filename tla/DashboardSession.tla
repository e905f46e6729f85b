--------------------------- MODULE DashboardSession ---------------------------
(***************************************************************************)
(* What the pages of the dashboard share: who is signed in, the data that  *)
(* was loaded, and the API key that was just created, which is also kept   *)
(* in the session storage of the browser tab.                              *)
(*                                                                         *)
(* Every handler is a task: it posts, applies the answer, then starts its  *)
(* loads together and ends when all of them have ended.  Nothing stops a   *)
(* task but a reload of the page, and a call that fails answers null.      *)
(***************************************************************************)
EXTENDS Naturals, FiniteSets

CONSTANTS
  Tasks,  \* handlers that may be under way at once
  Kinds   \* what is loaded: a part of AllKinds

AllKinds == {"overview", "keys", "proxy", "series"}

SessionAssumption == Kinds \subseteq AllKinds

\* The loads of each handler; `job` stands for retry, cancel and create, `endKey` for
\* the revocation and the deletion of an API key, `policy` for the four on proxies.
Loads ==
  [bootstrap |-> AllKinds, refresh |-> AllKinds, poll |-> AllKinds \ {"keys"},
   login |-> AllKinds \ {"series"}, logout |-> {}, job |-> {"overview"},
   createKey |-> {"keys"}, endKey |-> {"keys"}, policy |-> {"proxy"}]

Handlers == DOMAIN Loads
LoadsOf(handler) == IF handler = "none" THEN {} ELSE Loads[handler] \cap Kinds

VARIABLES
  session,    \* the API knows the session of the cookie
  admin,      \* admin is not null
  shown,      \* the data that is not empty
  revealed,   \* newApiKeyValue is not null
  stored,     \* and is in the session storage
  busy,       \* the flags of handlers and loads that are set
  task,       \* the handler of each task
  step,       \* its next step
  load,       \* its requests for data
  signedOut,  \* history: the last sign-in was ended by handleLogout
  late        \* history: what tasks under way at that moment were about to show

pageVars == <<shown, revealed, stored, busy>>
vars == <<session, admin, pageVars, task, step, load, signedOut, late>>

NoLoad == [k \in Kinds |-> "none"]

TypeOK ==
  /\ {session, admin, revealed, stored, signedOut} \subseteq BOOLEAN
  /\ shown \subseteq Kinds
  /\ busy \subseteq Handlers \cup Kinds
  /\ task \in [Tasks -> Handlers \cup {"none"}]
  /\ step \in [Tasks -> {"none", "post", "posted", "load"}]
  /\ load \in [Tasks -> [Kinds -> {"none", "asked", "data"}]]
  /\ late \subseteq Kinds \cup {"key"}

\* The page is opened: the bootstrap effect asks who is signed in.
Opened(t) ==
  /\ task' = [s \in Tasks |-> IF s = t THEN "bootstrap" ELSE "none"]
  /\ step' = [s \in Tasks |-> IF s = t THEN "post" ELSE "none"]
  /\ load' = [s \in Tasks |-> NoLoad]
  /\ admin' = FALSE /\ shown' = {} /\ busy' = {"bootstrap"}

Init ==
  /\ session \in BOOLEAN /\ admin = FALSE
  /\ shown = {} /\ revealed = FALSE /\ stored = FALSE /\ busy = {"bootstrap"}
  /\ \E t \in Tasks :
       /\ task = [s \in Tasks |-> IF s = t THEN "bootstrap" ELSE "none"]
       /\ step = [s \in Tasks |-> IF s = t THEN "post" ELSE "none"]
  /\ load = [s \in Tasks |-> NoLoad]
  /\ signedOut = FALSE /\ late = {}

-----------------------------------------------------------------------------
(* Tasks                                                                   *)

\* Requests that the page gave up may still be served.
Reload(t) ==
  /\ Opened(t)
  /\ \/ session' = session
     \/ \E s \in Tasks : task[s] \in {"login", "logout"} /\ session' = (task[s] = "login")
  /\ revealed' = stored                  \* the effect on the stored key
  /\ UNCHANGED <<stored, signedOut, late>>

SessionExpires ==
  /\ session /\ session' = FALSE
  /\ UNCHANGED <<admin, pageVars, task, step, load, signedOut, late>>

StartLoads(t, kinds) ==
  /\ step' = [step EXCEPT ![t] = IF kinds = {} THEN "none" ELSE "load"]
  /\ task' = [task EXCEPT ![t] = IF kinds = {} THEN "none" ELSE @]
  /\ load' = [load EXCEPT ![t] = [k \in Kinds |-> IF k \in kinds THEN "asked" ELSE "none"]]

\* The first thing a handler does, and whether its button or timer allows it.
MayStart(handler) ==
  CASE handler = "login" -> ~admin /\ busy \cap {"bootstrap", "login"} = {}
    [] handler \in {"createKey", "policy"} -> admin /\ busy \cap {"bootstrap", handler} = {}
    [] handler = "poll" -> admin
    [] OTHER -> handler # "bootstrap" /\ admin /\ "bootstrap" \notin busy

Flags == {"login", "createKey", "endKey", "policy"}

Begin(t, handler) ==
  /\ task[t] = "none" /\ MayStart(handler)
  /\ task' = [task EXCEPT ![t] = handler]
  /\ step' = [step EXCEPT ![t] = "post"]
  /\ busy' = busy \cup (Flags \cap {handler})
  /\ UNCHANGED <<session, admin, shown, revealed, stored, load, signedOut, late>>

\* setRefreshing and the loads at once: the interval and the refresh button
BeginLoads(t, handler) ==
  /\ task[t] = "none" /\ MayStart(handler)
  /\ task' = [task EXCEPT ![t] = handler]
  /\ step' = [step EXCEPT ![t] = "load"]
  /\ load' = [load EXCEPT ![t] = [k \in Kinds |->
                IF k \in LoadsOf(handler) THEN "asked" ELSE "none"]]
  /\ busy' = busy \cup {"refresh"} \cup (LoadsOf(handler) \ {"overview"})
  /\ UNCHANGED <<session, admin, shown, revealed, stored, signedOut, late>>

\* The API serves a post: it signs in or out, or requires a session.
Served(t) ==
  /\ step[t] = "post" /\ step' = [step EXCEPT ![t] = "posted"]
  /\ session \/ task[t] \in {"login", "logout"}
  /\ session' = (task[t] # "logout")
  /\ UNCHANGED <<admin, pageVars, task, load, signedOut, late>>

\* The answer of a post starts the loads of its handler.
Proceed(t) ==
  /\ StartLoads(t, LoadsOf(task[t]))
  /\ busy' = (busy \ (IF LoadsOf(task[t]) = {} THEN {task[t]} ELSE {}))
               \cup (LoadsOf(task[t]) \ {"overview"})

SignedIn(t) ==
  /\ step[t] = "posted" /\ task[t] \in {"bootstrap", "login"}
  /\ admin' = TRUE /\ signedOut' = FALSE
  /\ Proceed(t)
  /\ UNCHANGED <<session, shown, revealed, stored, late>>

KeyCreated(t) ==
  /\ step[t] = "posted" /\ task[t] = "createKey"
  /\ revealed' = TRUE /\ stored' = TRUE
  /\ Proceed(t)
  /\ UNCHANGED <<session, admin, shown, signedOut, late>>

\* Cancel, the end of a key and the proxy handlers load whatever the answer is.
Done(t) ==
  /\ step[t] \in {"post", "posted"} /\ task[t] \in {"job", "endKey", "policy"}
  /\ Proceed(t)
  /\ UNCHANGED <<session, admin, shown, revealed, stored, signedOut, late>>

\* Mutation of Rejected: the flag stays set.
RejectedSilently(t) ==
  /\ step[t] \in {"post", "posted"} /\ task[t] \in {"bootstrap", "login", "job", "createKey"}
  /\ StartLoads(t, {})
  /\ UNCHANGED <<session, admin, pageVars, signedOut, late>>

\* A null answer ends the handler.
Rejected(t) ==
  /\ step[t] \in {"post", "posted"} /\ task[t] \in {"bootstrap", "login", "job", "createKey"}
  /\ StartLoads(t, {})
  /\ busy' = busy \ {task[t]}
  /\ UNCHANGED <<session, admin, shown, revealed, stored, signedOut, late>>

UnderWay(t) ==
  IF step[t] = "load"
  THEN {k \in Kinds : load[t][k] # "none"}
  ELSE LoadsOf(task[t]) \cup IF task[t] = "createKey" THEN {"key"} ELSE {}

\* Mutation of LoggedOut: the new key stays in the session storage.
LoggedOutOfPage(t) ==
  /\ task[t] = "logout" /\ step[t] \in {"post", "posted"}
  /\ admin' = FALSE /\ shown' = shown \cap {"series"}
  /\ revealed' = FALSE
  /\ signedOut' = TRUE /\ late' = UNION {UnderWay(s) : s \in Tasks \ {t}}
  /\ StartLoads(t, {})
  /\ UNCHANGED <<session, stored, busy>>

\* After the answer, whatever it is, everything but the time series is cleared.
LoggedOut(t) ==
  /\ task[t] = "logout" /\ step[t] \in {"post", "posted"}
  /\ admin' = FALSE /\ shown' = shown \cap {"series"}
  /\ revealed' = FALSE /\ stored' = FALSE
  /\ signedOut' = TRUE /\ late' = UNION {UnderWay(s) : s \in Tasks \ {t}}
  /\ StartLoads(t, {})
  /\ UNCHANGED <<session, busy>>

LoadServed(t, k) ==
  /\ load[t][k] = "asked" /\ session
  /\ load' = [load EXCEPT ![t][k] = "data"]
  /\ UNCHANGED <<session, admin, pageVars, task, step, signedOut, late>>

\* The last load ends the handler.
LoadEnds(t, k) ==
  LET last == \A other \in Kinds \ {k} : load[t][other] = "none" IN
  /\ load' = [load EXCEPT ![t][k] = "none"]
  /\ step' = [step EXCEPT ![t] = IF last THEN "none" ELSE @]
  /\ task' = [task EXCEPT ![t] = IF last THEN "none" ELSE @]
  /\ busy' = busy \ ({k} \cup IF ~last THEN {} ELSE IF task[t] = "poll" THEN {"refresh"} ELSE {task[t]})

Loaded(t, k) ==
  /\ load[t][k] = "data" /\ LoadEnds(t, k)
  /\ shown' = shown \cup {k}
  /\ UNCHANGED <<session, admin, revealed, stored, signedOut, late>>

\* A null answer empties the keys and the proxy settings and leaves the others.
NotLoaded(t, k) ==
  /\ load[t][k] # "none" /\ LoadEnds(t, k)
  /\ shown' = shown \ ({k} \cap {"keys", "proxy"})
  /\ UNCHANGED <<session, admin, revealed, stored, signedOut, late>>

handleDismissNewApiKey ==
  /\ revealed /\ admin /\ "bootstrap" \notin busy
  /\ revealed' = FALSE /\ stored' = FALSE
  /\ UNCHANGED <<session, admin, shown, busy, task, step, load, signedOut, late>>

Next ==
  \/ SessionExpires \/ handleDismissNewApiKey
  \/ \E t \in Tasks :
       \/ Reload(t)
       \/ \E h \in {"login", "logout", "job", "createKey", "endKey", "policy"} : Begin(t, h)
       \/ \E h \in {"poll", "refresh"} : BeginLoads(t, h)
       \/ Served(t) \/ SignedIn(t) \/ KeyCreated(t) \/ Done(t) \/ Rejected(t) \/ LoggedOut(t)
       \/ \E k \in Kinds : LoadServed(t, k) \/ Loaded(t, k) \/ NotLoaded(t, k)

Spec == Init /\ [][Next]_vars

-----------------------------------------------------------------------------
\* After a sign-out nothing of the session is left in the page or in the session storage
\* of the tab, except what handlers that were under way at that moment have put there
\* since, and the time series, which is not cleared (handleLogout and the loads).
SignedOutForgets ==
  signedOut => /\ shown \subseteq late \cup {"series"}
               /\ revealed \/ stored => "key" \in late

\* When no handler is under way no flag is set: no button stays disabled and no
\* spinner turns for ever, whatever failed and whichever handlers overlapped.
NothingStaysBusy == (\A t \in Tasks : task[t] = "none") => busy = {}
=============================================================================
