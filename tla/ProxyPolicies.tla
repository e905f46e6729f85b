---------------------------- MODULE ProxyPolicies ----------------------------
(***************************************************************************)
(* The proxy policies that administrators store in Redis and the proxy     *)
(* that a worker resolves from them for each job.                          *)
(*                                                                         *)
(* A policy is for the whole cluster or for one worker service.  Saving    *)
(* and deleting are two Redis commands each, the value and the index set   *)
(* that lists it.  A worker reads the policy of its service, then the      *)
(* cluster's, then takes its turn in the pool: three commands, between     *)
(* which policies change.  Texts are trimmed and validated before they     *)
(* come here; a pool is a sequence of distinct proxies.                    *)
(***************************************************************************)
EXTENDS Naturals, FiniteSets, Sequences

CONSTANTS
  Services,     \* service names that administrators type and workers report
  Segment,      \* sanitizeRedisSegment: the key segment of each service name
  Urls,         \* of proxies
  Pools,        \* proxy lists an administrator saves
  EnvLists,     \* what SCRAPER_PROXY_URLS of the workers may hold
  Executions,   \* jobs that workers process
  Options,      \* proxy options of a job
  Admins,       \* requests of the dashboard's proxy page
  NoPolicy      \* what GET answers without a policy

ProxyAssumption ==
  /\ Options \subseteq [useProxy : BOOLEAN, proxyUrl : BOOLEAN]
  /\ Pools \cup EnvLists \subseteq Seq(Urls)

\* A list of proxies in the environment forces their use, flag or no flag.
readScraperConfig(urls, flag) == [proxyUrls |-> urls, forceProxy |-> urls # <<>> \/ flag]

Scopes == {"global"} \cup {Segment[s] : s \in Services}

\* createProxyPoolRoundRobinKey: a counter for each scope and one for the environment
Counters == Scopes \cup {"env"}

Policy == [enabled : BOOLEAN, proxies : Pools \cup {<<>>}]

\* A resolution ends with a pool to take a proxy of, the URL of the job, or nothing.
Source(source, proxies) == [source |-> source, proxies |-> proxies]
Direct == Source("direct", <<>>)
OwnUrl == Source("job", <<>>)

VARIABLES
  env,       \* the runtime configuration of the workers
  policy,    \* Redis: the stored policies
  listed,    \* Redis: the index set of their keys
  turns,     \* Redis: the rotation counters
  request,   \* what each administrator's request is about to do, and on which scope
  pc,        \* next step of each resolution
  job,       \* the service of the worker that resolves it and the options of the job
  chosen,    \* the source it settled on
  proxy,     \* its place in the pool
  moments,   \* what was right at some moment of the resolution so far
  moved      \* the scopes whose policy changed meanwhile

vars == <<env, policy, listed, turns, request, pc, job, chosen, proxy, moments, moved>>

Jobs == [service : Services, options : Options]
Sources == {Direct, OwnUrl} \cup
           [source : Counters, proxies : Pools \cup EnvLists]

Environments == {readScraperConfig(urls, flag) : urls \in EnvLists, flag \in BOOLEAN}

TypeOK ==
  /\ env \in Environments
  /\ policy \in [Scopes -> Policy \cup {NoPolicy}]
  /\ listed \in SUBSET Scopes
  /\ turns \in [Counters -> Nat]
  /\ request \in [Admins -> [step : {"idle", "add", "remove", "done"}, scope : Scopes]]
  /\ pc \in [Executions -> {"idle", "service", "global", "select", "done"}]
  /\ job \in [Executions -> Jobs]
  /\ chosen \in [Executions -> Sources]
  /\ proxy \in [Executions -> Nat]
  /\ moments \in [Executions -> SUBSET Sources]
  /\ moved \in [Executions -> SUBSET Scopes]

Init ==
  /\ env \in Environments
  /\ policy \in [Scopes -> {p \in Policy : p.enabled <=> p.proxies # <<>>} \cup {NoPolicy}]
  /\ listed = {k \in Scopes : policy[k] # NoPolicy}
  /\ turns = [k \in Counters |-> 0]
  /\ request = [a \in Admins |-> [step |-> "idle", scope |-> "global"]]
  /\ pc = [e \in Executions |-> "idle"]
  /\ job \in [Executions -> Jobs]
  /\ chosen = [e \in Executions |-> Direct]
  /\ proxy = [e \in Executions |-> 0]
  /\ moments = [e \in Executions |-> {}]
  /\ moved = [e \in Executions |-> {}]

-----------------------------------------------------------------------------
(* Resolution, resolveForJob of the worker                                 *)

InForce(p) == p # NoPolicy /\ p.enabled /\ p.proxies # <<>>

Scope(e) == Segment[job[e].service]

\* resolveForJob once no policy applies
WithoutPolicy(options) ==
  CASE options.proxyUrl -> OwnUrl
    [] ~options.proxyUrl /\ options.useProxy /\ env.proxyUrls # <<>> -> Source("env", env.proxyUrls)
    [] OTHER -> Direct

EnvForced == env.forceProxy /\ env.proxyUrls # <<>>

\* What the stored policies p say of an execution, all read at once.
Right(p, e) ==
  CASE EnvForced -> Source("env", env.proxyUrls)
    [] ~EnvForced /\ InForce(p[Scope(e)]) -> Source(Scope(e), p[Scope(e)].proxies)
    [] ~EnvForced /\ ~InForce(p[Scope(e)]) /\ InForce(p["global"]) ->
         Source("global", p["global"].proxies)
    [] OTHER -> WithoutPolicy(job[e].options)

Under(e) == pc[e] \in {"service", "global"}

Goto(e, step) == pc' = [pc EXCEPT ![e] = step]

\* A pool is drawn from in the next step; anything else is the answer.
Settle(e, source) ==
  /\ chosen' = [chosen EXCEPT ![e] = source]
  /\ Goto(e, IF source.proxies # <<>> THEN "select" ELSE "done")

Resolve(e) ==
  /\ pc[e] = "idle"
  /\ moments' = [moments EXCEPT ![e] = {Right(policy, e)}]
  /\ IF EnvForced THEN Settle(e, Source("env", env.proxyUrls))
                  ELSE Goto(e, "service") /\ UNCHANGED chosen
  /\ UNCHANGED <<env, policy, listed, turns, request, job, proxy, moved>>

\* Mutation of ReadService: a policy of the service that is off hides the cluster's.
ReadServiceOnly(e) ==
  /\ pc[e] = "service"
  /\ LET p == policy[Scope(e)] IN
       IF p # NoPolicy
       THEN Settle(e, IF InForce(p) THEN Source(Scope(e), p.proxies)
                                    ELSE WithoutPolicy(job[e].options))
       ELSE Goto(e, "global") /\ UNCHANGED chosen
  /\ UNCHANGED <<env, policy, listed, turns, request, job, proxy, moments, moved>>

ReadService(e) ==
  /\ pc[e] = "service"
  /\ LET p == policy[Scope(e)] IN
       IF InForce(p) THEN Settle(e, Source(Scope(e), p.proxies))
                     ELSE Goto(e, "global") /\ UNCHANGED chosen
  /\ UNCHANGED <<env, policy, listed, turns, request, job, proxy, moments, moved>>

ReadGlobal(e) ==
  /\ pc[e] = "global"
  /\ LET p == policy["global"] IN
       Settle(e, IF InForce(p) THEN Source("global", p.proxies)
                               ELSE WithoutPolicy(job[e].options))
  /\ UNCHANGED <<env, policy, listed, turns, request, job, proxy, moments, moved>>

\* selectProxy: INCR is atomic; a pool of one has no turns.
Select(e) ==
  /\ pc[e] = "select"
  /\ LET size == Len(chosen[e].proxies)
         counter == chosen[e].source
     IN IF size = 1
        THEN proxy' = [proxy EXCEPT ![e] = 1] /\ UNCHANGED turns
        ELSE /\ turns' = [turns EXCEPT ![counter] = @ + 1]
             /\ proxy' = [proxy EXCEPT ![e] = (turns[counter] % size) + 1]
  /\ Goto(e, "done")
  /\ UNCHANGED <<env, policy, listed, request, job, chosen, moments, moved>>

-----------------------------------------------------------------------------
(* Administration, upsertPolicy and deletePolicy of the API                *)

\* A policy changes, and with it what is right for every resolution under way.
Store(k, p) ==
  /\ policy' = [policy EXCEPT ![k] = p]
  /\ moments' = [e \in Executions |->
                   IF Under(e) THEN moments[e] \cup {Right(policy', e)} ELSE moments[e]]
  /\ moved' = [e \in Executions |-> IF Under(e) THEN moved[e] \cup {k} ELSE moved[e]]

Step(a, step, k) == request' = [request EXCEPT ![a] = [step |-> step, scope |-> k]]

\* An enabled policy has a pool that is not empty, any other has none.
Upsert(a, k, p) ==
  /\ request[a].step = "idle"
  /\ p.enabled <=> p.proxies # <<>>
  /\ Store(k, p) /\ Step(a, "add", k)
  /\ UNCHANGED <<env, listed, turns, pc, job, chosen, proxy>>

AddToIndex(a) ==
  /\ request[a].step = "add"
  /\ listed' = listed \cup {request[a].scope} /\ Step(a, "done", request[a].scope)
  /\ UNCHANGED <<env, policy, turns, pc, job, chosen, proxy, moments, moved>>

Delete(a, k) ==
  /\ request[a].step = "idle"
  /\ Store(k, NoPolicy) /\ Step(a, "remove", k)
  /\ UNCHANGED <<env, listed, turns, pc, job, chosen, proxy>>

RemoveFromIndex(a) ==
  /\ request[a].step = "remove"
  /\ listed' = listed \ {request[a].scope} /\ Step(a, "done", request[a].scope)
  /\ UNCHANGED <<env, policy, turns, pc, job, chosen, proxy, moments, moved>>

Next ==
  \/ \E e \in Executions : Resolve(e) \/ ReadService(e) \/ ReadGlobal(e) \/ Select(e)
  \/ \E a \in Admins, k \in Scopes :
       Delete(a, k) \/ \E p \in Policy : Upsert(a, k, p)
  \/ \E a \in Admins : AddToIndex(a) \/ RemoveFromIndex(a)

Spec == Init /\ [][Next]_vars

-----------------------------------------------------------------------------
\* The source a job settles on was the right one at some moment of its
\* resolution, by the order of resolveForJob (not that of the documentation,
\* DocumentedOrder), unless both policies that concern it changed meanwhile: then a
\* job can go out directly although a policy was in force all the time
\* (resolveForJob reads them one after the other).
SourceWasRight ==
  \A e \in Executions :
    pc[e] \in {"select", "done"} /\ Cardinality(moved[e]) < 2 => chosen[e] \in moments[e]

\* What the documentation says of the options of a job: a job that opts out of
\* proxies uses none; any other uses its own URL, or else the proxies of the
\* environment if there are any.  (It knows of no policies and nothing forced.)
DocumentedOrder ==
  \A e \in Executions : pc[e] = "done" =>
    chosen[e] = LET options == job[e].options IN
      CASE ~options.useProxy -> Direct
        [] options.useProxy /\ options.proxyUrl -> OwnUrl
        [] options.useProxy /\ ~options.proxyUrl /\ env.proxyUrls # <<>> ->
             Source("env", env.proxyUrls)
        [] OTHER -> Direct
=============================================================================
