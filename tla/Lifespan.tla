------------------------------ MODULE Lifespan ------------------------------
(***************************************************************************)
(* The life of a broker process: what main.py's lifespan reads, checks and *)
(* opens before the first request, what it closes after the last one, and  *)
(* what health.py says in between.                                         *)
(*                                                                         *)
(* The configuration comes from three places: the real environment, .env   *)
(* and the registry file, whose ${VAR} are filled from the first two.  A   *)
(* step of the startup that raises ends the process, and the container is  *)
(* started again.                                                          *)
(***************************************************************************)
EXTENDS Integers, Sequences, FiniteSets

CONSTANTS
    Vars,         \* names of environment variables
    Values,       \* what they may be set to; "" and Blank among them
    Blank,        \* white space only
    Absent,       \* not set; no credential; no registry file
    Default,      \* Default[v]: the default of class Settings
    Deployments,  \* the configurations considered
    Requests,     \* slots for requests in flight
    MaxFaults     \* bound: crashes, outages, failed closes, stops by the operator

\* A route names the variable its api_key refers to, if any; base_url is well
\* formed, or what is left of one (an empty host, say).
Route == [name: STRING, base_url: {"url", "broken"}, key: Vars \cup {Absent}]

\* refs are the ${VAR} of the whole registry file, comments included.
Deployment == [env: [Vars -> Values \cup {Absent}], dotenv: [Vars -> Values \cup {Absent}],
               registry: [refs: SUBSET Vars, routes: SUBSET Route] \cup {Absent}]

ASSUME VarsAssumption ==
    {"AUTH_MODE", "AUTH_JWT_SECRET", "AUTH_OIDC_JWKS_URL", "RATE_LIMIT_BACKEND"} \subseteq Vars
ASSUME ValuesAssumption == "" \in Values /\ Blank \in Values /\ Absent \notin Values
ASSUME DefaultAssumption == Default \in [Vars -> Values]
ASSUME DeploymentsAssumption ==
    \A d \in Deployments :
        /\ d.env \in [Vars -> Values \cup {Absent}]
        /\ d.dotenv \in [Vars -> Values \cup {Absent}]
        /\ d.registry # Absent =>
             /\ d.registry.refs \subseteq Vars
             \* a route's key is expanded from a reference in the file
             /\ \A r \in d.registry.routes : r.key = Absent \/ r.key \in d.registry.refs
ASSUME BoundsAssumption == MaxFaults \in Nat

VARIABLES
    deployment,  \* chosen once
    at,          \* "down", "starting", "serving", "draining", "closing", "stopped"
    step,        \* which step of the startup, or of the shutdown, is next
    osenv,       \* os.environ of the process
    routes,      \* registry._registry: the routes, each with its credential
    backend,     \* ratelimit._backend
    open,        \* which module globals hold a live pool, client or task
    sweep,       \* the reaper task: "off", "asleep", "sweeping"
    req,         \* req[q]: the request in slot q
    deps,        \* which of Postgres and redis answer
    faults

process == <<step, osenv, routes, backend, open, sweep, req>>
vars == <<deployment, at, process, deps, faults>>

Deps == {"postgres", "redis"}

Idle == [pc |-> "idle"]
Request == {Idle} \cup [pc: {"working"}]
           \cup [pc: {"ask_postgres", "ask_redis", "ok", "degraded"}, failed: SUBSET Deps,
                 wasUp: SUBSET Deps, wasDown: SUBSET Deps]

\* MUTANT of StartOrder: the database first.
StartOrderDbFirst == <<"env", "db", "auth", "registry", "limiter", "cache", "upstream", "reaper">>

\* lifespan, up to the yield
StartOrder == <<"env", "auth", "registry", "db", "limiter", "cache", "upstream", "reaper">>

\* MUTANT of StopOrder: the database first.
StopOrderDbFirst == <<"db", "upstream", "cache", "reaper">>

\* lifespan, after the yield
StopOrder == <<"reaper", "upstream", "cache", "db">>

TypeOK ==
    /\ deployment \in Deployments
    /\ at \in {"down", "starting", "serving", "draining", "closing", "stopped"}
    /\ step \in 1 .. 8
    /\ osenv \in [Vars -> Values \cup {Absent}]
    /\ backend \in {"redis", "memory"}
    /\ open \subseteq {"db", "cache", "upstream", "reaper"}
    /\ sweep \in {"off", "asleep", "sweeping"}
    /\ req \in [Requests -> Request]
    /\ deps \subseteq Deps
    /\ faults \in Nat
    /\ sweep # "off" <=> "reaper" \in open

\* What a process that has ended leaves of itself, and a new one begins with.
NoProcess ==
    /\ step' = 1 /\ osenv' = deployment.env /\ routes' = {} /\ backend' = "redis"
    /\ open' = {} /\ sweep' = "off" /\ req' = [q \in Requests |-> Idle]

Init ==
    /\ deployment \in Deployments
    /\ at = "down"
    /\ step = 1 /\ osenv = deployment.env /\ routes = {} /\ backend = "redis"
    /\ open = {} /\ sweep = "off" /\ req = [q \in Requests |-> Idle]
    /\ deps \in SUBSET Deps
    /\ faults = 0

----------------------------------------------------------------------------
(* Configuration *)

\* MUTANT of Loaded: .env wins.
LoadedOver(v) == IF deployment.dotenv[v] # Absent THEN deployment.dotenv[v] ELSE osenv[v]

\* load_env_file: a variable that is set, even to "", is left alone.
Loaded(v) == IF osenv[v] # Absent THEN osenv[v] ELSE deployment.dotenv[v]

\* get_settings, and os.environ for the registry
Setting(v) == IF osenv[v] = Absent THEN Default[v] ELSE osenv[v]

\* validate_auth_config
AuthIsConfigured ==
    /\ Setting("AUTH_MODE") \in {"dev", "hs256", "oidc"}
    /\ Setting("AUTH_MODE") = "hs256" => Setting("AUTH_JWT_SECRET") # ""
    /\ Setting("AUTH_MODE") = "oidc" => Setting("AUTH_OIDC_JWKS_URL") # ""

\* MUTANT of Missing: os.environ[name], as it is.
MissingUnset(refs) == {v \in refs : osenv[v] = Absent}

\* _expand_env: unset or empty; white space passes.
Missing(refs) == {v \in refs : osenv[v] \in {Absent, ""}}

\* Registry.from_file, up to its ValueErrors
RegistryIsUsable ==
    /\ deployment.registry # Absent
    /\ Missing(deployment.registry.refs) = {}
    /\ \A r \in deployment.registry.routes : r.base_url = "url"
    /\ deployment.registry.routes # {}

\* (spec.get("api_key") or "").strip() or None
Credential(r) == IF r.key = Absent \/ osenv[r.key] \in {"", Blank} THEN Absent ELSE osenv[r.key]

----------------------------------------------------------------------------
(* Startup *)

Boot ==
    /\ at = "down"
    /\ at' = "starting"
    /\ NoProcess
    /\ UNCHANGED <<deployment, deps, faults>>

Due(name) == at = "starting" /\ step <= Len(StartOrder) /\ StartOrder[step] = name

\* The startup goes on, and after its last step the first request is taken.
GoOn == /\ at' = IF step = Len(StartOrder) THEN "serving" ELSE "starting"
        /\ step' = IF step = Len(StartOrder) THEN 1 ELSE step + 1
        /\ UNCHANGED <<deployment, req, deps, faults>>

\* An exception in lifespan: nothing is closed, the process exits.
Die == at' = "down" /\ NoProcess /\ UNCHANGED <<deployment, deps, faults>>

LoadEnv ==
    /\ Due("env")
    /\ osenv' = [v \in Vars |-> Loaded(v)]
    /\ GoOn
    /\ UNCHANGED <<routes, backend, open, sweep>>

ValidateAuth ==
    /\ Due("auth")
    /\ IF AuthIsConfigured THEN GoOn /\ UNCHANGED <<osenv, routes, backend, open, sweep>>
                           ELSE Die

LoadRegistry ==
    /\ Due("registry")
    /\ IF RegistryIsUsable
         THEN /\ routes' = {[name |-> r.name, api_key |-> Credential(r)] :
                              r \in deployment.registry.routes}
              /\ GoOn
              /\ UNCHANGED <<osenv, backend, open, sweep>>
         ELSE Die

\* asyncpg.create_pool opens a first connection.
ConnectDb ==
    /\ Due("db")
    /\ IF "postgres" \in deps
         THEN /\ open' = open \cup {"db"}
              /\ GoOn
              /\ UNCHANGED <<osenv, routes, backend, sweep>>
         ELSE Die

\* ratelimit.configure
ConfigureLimiter ==
    /\ Due("limiter")
    /\ IF Setting("RATE_LIMIT_BACKEND") \in {"redis", "memory"}
         THEN /\ backend' = Setting("RATE_LIMIT_BACKEND")
              /\ GoOn
              /\ UNCHANGED <<osenv, routes, open, sweep>>
         ELSE Die

\* cache.connect sets its client, then pings.
ConnectCache ==
    /\ Due("cache")
    /\ IF backend = "memory" THEN GoOn /\ UNCHANGED <<osenv, routes, backend, open, sweep>>
       ELSE IF "redis" \in deps
         THEN /\ open' = open \cup {"cache"}
              /\ GoOn
              /\ UNCHANGED <<osenv, routes, backend, sweep>>
         ELSE Die

ConnectUpstream ==
    /\ Due("upstream")
    /\ open' = open \cup {"upstream"}
    /\ GoOn
    /\ UNCHANGED <<osenv, routes, backend, sweep>>

StartReaper ==
    /\ Due("reaper")
    /\ open' = open \cup {"reaper"}
    /\ sweep' = "asleep"
    /\ GoOn
    /\ UNCHANGED <<osenv, routes, backend>>

----------------------------------------------------------------------------
(* Serving *)

\* A step of the serving process that leaves its set-up as it is.
Running == UNCHANGED <<deployment, at, step, osenv, routes, backend, open, deps, faults>>

\* The reaper calls db.pool() and holds a connection until its statement ends.
BeginSweep == sweep = "asleep" /\ sweep' = "sweeping" /\ Running /\ UNCHANGED req
EndSweep == sweep = "sweeping" /\ sweep' = "asleep" /\ Running /\ UNCHANGED req

\* Any handler: it may use the pool, the upstream client and the limiter.
BeginRequest(q) ==
    /\ at = "serving" /\ req[q] = Idle
    /\ req' = [req EXCEPT ![q] = [pc |-> "working"]]
    /\ Running /\ UNCHANGED sweep

\* GET /ready; wasUp and wasDown are history.
BeginReady(q) ==
    /\ at = "serving" /\ req[q] = Idle
    /\ req' = [req EXCEPT ![q] = [pc |-> "ask_postgres", failed |-> {},
                                  wasUp |-> deps, wasDown |-> Deps \ deps]]
    /\ Running /\ UNCHANGED sweep

AskPostgres(q) ==
    /\ req[q].pc = "ask_postgres"
    /\ req' = [req EXCEPT ![q].pc = "ask_redis", ![q].failed = {"postgres"} \ deps]
    /\ Running /\ UNCHANGED sweep

\* MUTANT of Verdict: the last check decides.
VerdictOfLast(failed) == IF "redis" \in failed THEN "degraded" ELSE "ok"

Verdict(failed) == IF failed = {} THEN "ok" ELSE "degraded"

\* Redis is asked only if the limiter counts there.
AskRedis(q) ==
    /\ req[q].pc = "ask_redis"
    /\ LET failed == req[q].failed \cup
                       (IF Setting("RATE_LIMIT_BACKEND") = "redis" THEN {"redis"} \ deps ELSE {})
       IN  req' = [req EXCEPT ![q].pc = Verdict(failed), ![q].failed = failed]
    /\ Running /\ UNCHANGED sweep

EndRequest(q) ==
    /\ req[q].pc \in {"working", "ok", "degraded"}
    /\ req' = [req EXCEPT ![q] = Idle]
    /\ Running /\ UNCHANGED sweep

----------------------------------------------------------------------------
(* Shutdown *)

Fault == faults < MaxFaults /\ faults' = faults + 1

\* SIGTERM: uvicorn takes no more requests and waits for those in flight.
AskStop ==
    /\ at = "serving" /\ Fault
    /\ at' = "draining"
    /\ UNCHANGED <<deployment, process, deps>>

Drained ==
    /\ at = "draining" /\ \A q \in Requests : req[q] = Idle
    /\ at' = "closing"
    /\ UNCHANGED <<deployment, process, deps, faults>>

Closing(name) == at = "closing" /\ StopOrder[step] = name

\* One thing is closed; each disconnect is a no-op on what was never opened.
Closed(name) ==
    /\ open' = open \ {name}
    /\ at' = IF step = Len(StopOrder) THEN "stopped" ELSE "closing"
    /\ step' = IF step = Len(StopOrder) THEN 1 ELSE step + 1
    /\ UNCHANGED <<deployment, osenv, routes, backend, req, deps, faults>>

\* MUTANT of StopReaper: the task is cancelled and not waited for.
StopReaperNoWait == Closing("reaper") /\ Closed("reaper") /\ UNCHANGED sweep

\* Cancels the task, in its sleep or in its statement, and waits for its end.
StopReaper == Closing("reaper") /\ sweep' = "off" /\ Closed("reaper")

Disconnect(name) == Closing(name) /\ Closed(name) /\ UNCHANGED sweep

\* pool.close() waits until every connection has been released.
DisconnectDb == sweep # "sweeping" /\ Disconnect("db")

\* A close raises: the rest is skipped, and the process ends.
CloseFails == at = "closing" /\ Fault /\ at' = "down" /\ NoProcess /\ UNCHANGED <<deployment, deps>>

\* docker start, after a docker stop
StartAgain ==
    /\ at = "stopped"
    /\ at' = "down"
    /\ UNCHANGED <<deployment, process, deps, faults>>

\* At any moment the process may be killed.
Crash ==
    /\ at \in {"starting", "serving", "draining", "closing"} /\ Fault
    /\ at' = "down" /\ NoProcess
    /\ UNCHANGED <<deployment, deps>>

\* What the checks in flight have witnessed (history) when ds is up.
Witnessing(ds) ==
    req' = [q \in Requests |->
              IF req[q].pc \in {"ask_postgres", "ask_redis"}
                THEN [req[q] EXCEPT !.wasUp = @ \cup ds, !.wasDown = @ \cup (Deps \ ds)]
                ELSE req[q]]

DepFails(d) ==
    /\ d \in deps /\ Fault
    /\ deps' = deps \ {d} /\ Witnessing(deps')
    /\ UNCHANGED <<deployment, at, step, osenv, routes, backend, open, sweep>>

DepRecovers(d) ==
    /\ d \in Deps \ deps
    /\ deps' = deps \cup {d} /\ Witnessing(deps')
    /\ UNCHANGED <<deployment, at, step, osenv, routes, backend, open, sweep, faults>>

----------------------------------------------------------------------------
Startup ==
    \/ Boot
    \/ LoadEnv \/ ValidateAuth \/ LoadRegistry \/ ConnectDb
    \/ ConfigureLimiter \/ ConnectCache \/ ConnectUpstream \/ StartReaper

Serve(q) == AskPostgres(q) \/ AskRedis(q) \/ EndRequest(q)

Shutdown == Drained \/ StopReaper \/ Disconnect("upstream") \/ Disconnect("cache") \/ DisconnectDb

Next ==
    \/ Startup \/ Shutdown
    \/ BeginSweep \/ EndSweep
    \/ \E q \in Requests : BeginRequest(q) \/ BeginReady(q) \/ Serve(q)
    \/ AskStop \/ StartAgain \/ CloseFails \/ Crash
    \/ \E d \in Deps : DepFails(d) \/ DepRecovers(d)

\* The interpreter goes on, requests and statements end, docker restarts what
\* died, and an outage does not last.
Spec ==
    /\ Init /\ [][Next]_vars
    /\ WF_vars(Startup) /\ WF_vars(Shutdown) /\ WF_vars(EndSweep)
    /\ \A q \in Requests : WF_vars(Serve(q))
    /\ \A d \in Deps : WF_vars(DepRecovers(d))

----------------------------------------------------------------------------
(* Properties *)

\* What the operator has said: the environment, else .env, else the default.
Said(v) == IF deployment.env[v] # Absent THEN deployment.env[v] ELSE deployment.dotenv[v]
Meant(v) == IF Said(v) = Absent THEN Default[v] ELSE Said(v)

\* A process that serves does so with the settings the operator gave, wherever
\* they were given, and sends every upstream the key its route refers to; only
\* one of white space gets through the checks, and is then not sent at all.
ServesAsConfigured ==
    at \in {"serving", "draining"} =>
        /\ Meant("AUTH_MODE") \in {"dev", "hs256", "oidc"}
        /\ Meant("AUTH_MODE") = "hs256" => Meant("AUTH_JWT_SECRET") # ""
        /\ Meant("AUTH_MODE") = "oidc" => Meant("AUTH_OIDC_JWKS_URL") # ""
        /\ backend = Meant("RATE_LIMIT_BACKEND")
        /\ \A r \in deployment.registry.routes :
             \E s \in routes :
               /\ s.name = r.name
               /\ s.api_key = IF r.key = Absent \/ Said(r.key) = Blank THEN Absent
                                                                      ELSE Said(r.key)
               /\ r.key # Absent => Said(r.key) # ""

\* main.py:36-40: a wrong authentication or registry stops the process before it
\* has opened anything.  A wrong RATE_LIMIT_BACKEND is found only once the
\* database pool is open, and stops the process before anything else is opened.
OpensOnlyIfConfigured ==
    /\ open # {} => AuthIsConfigured /\ RegistryIsUsable
    /\ open \ {"db"} # {} => Setting("RATE_LIMIT_BACKEND") \in {"redis", "memory"}

\* Nothing is used before it is opened or after it is closed: not by a request,
\* and not by the reaper, which nobody waits for but the shutdown itself.  A
\* shutdown that ran to its end has closed whatever the startup opened.
OpenWhileInUse ==
    /\ sweep = "sweeping" => "db" \in open
    /\ \A q \in Requests : req[q] # Idle =>
         /\ {"db", "upstream"} \subseteq open
         /\ backend = "redis" => "cache" \in open
    /\ at = "stopped" => open = {} /\ sweep = "off"

Hard == IF backend = "redis" THEN Deps ELSE {"postgres"}

\* /ready asks one dependency after the other: "ok" means that each was up at
\* some moment of the request, "degraded" that one was down.
ReadyIsTrue ==
    \A q \in Requests :
        /\ req[q].pc = "ok" => Hard \subseteq req[q].wasUp
        /\ req[q].pc = "degraded" => Hard \cap req[q].wasDown # {}

\* The deployments that are meant to work: a variable that is set is set to
\* something, and everything that is referred to is set.
Sound ==
    /\ \/ Meant("AUTH_MODE") = "dev"
       \/ Meant("AUTH_MODE") = "hs256" /\ Meant("AUTH_JWT_SECRET") # ""
       \/ Meant("AUTH_MODE") = "oidc" /\ Meant("AUTH_OIDC_JWKS_URL") # ""
    /\ Meant("RATE_LIMIT_BACKEND") \in {"redis", "memory"}
    /\ deployment.registry # Absent
    /\ deployment.registry.routes # {}
    /\ \A v \in deployment.registry.refs : Said(v) \notin {Absent, ""}
    /\ \A r \in deployment.registry.routes : r.base_url = "url"

\* A sound deployment ends up serving, whatever failed at first, unless it is
\* stopped; a shutdown comes to an end.
SoundDeploymentsServe ==
    /\ Sound => <>[](at \in {"serving", "stopped"})
    /\ at = "draining" ~> at \in {"stopped", "down"}

=============================================================================
