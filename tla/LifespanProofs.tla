--------------------------- MODULE LifespanProofs ---------------------------
(***************************************************************************)
(* Theorems about Lifespan, for any deployments and requests and any       *)
(* number of faults.                                                       *)
(***************************************************************************)
EXTENDS Lifespan, TLAPS

\* The set-up is complete; it is taken down in "closing".
Up == at \in {"serving", "draining", "closing"}

\* Step n of the startup has been taken.
Began(n) == Up \/ (at = "starting" /\ step > n)

\* Step n of the shutdown has been taken.
Finished(n) == at = "closing" /\ step > n

StepsFit ==
    /\ at = "closing" => step \in 1 .. 4
    /\ at \in {"down", "serving", "draining", "stopped"} => step = 1

\* What is open follows from where the startup or the shutdown stands.
OpenFits ==
    /\ "db" \in open <=> Began(4)
    /\ "cache" \in open <=> Began(6) /\ ~Finished(3) /\ backend = "redis"
    /\ "upstream" \in open <=> Began(7) /\ ~Finished(2)
    /\ "reaper" \in open <=> Up /\ ~Finished(1)

Credentials == {[name |-> r.name, api_key |-> Credential(r)] : r \in deployment.registry.routes}

\* What has been read and checked stays as it was read and checked.
ConfigFits ==
    /\ at = "starting" /\ step = 1 => osenv = deployment.env
    /\ Began(1) => osenv = [v \in Vars |-> Said(v)]
    /\ Began(2) => AuthIsConfigured
    /\ Began(3) => RegistryIsUsable /\ routes = Credentials
    /\ Began(5) => backend = Setting("RATE_LIMIT_BACKEND")

\* Only a process that serves has requests, and a check of /ready has witnessed
\* how the dependencies stand, and stood when it asked them.
ChecksFit ==
    /\ at \notin {"serving", "draining"} => \A q \in Requests : req[q] = Idle
    /\ \A q \in Requests :
         /\ req[q].pc \in {"ask_postgres", "ask_redis"} =>
              deps \subseteq req[q].wasUp /\ Deps \ deps \subseteq req[q].wasDown
         /\ req[q].pc = "ask_redis" =>
              /\ req[q].failed \subseteq {"postgres"} \cap req[q].wasDown
              /\ {"postgres"} \ req[q].failed \subseteq req[q].wasUp

LifeInv == TypeOK /\ StepsFit /\ OpenFits /\ ConfigFits /\ ChecksFit /\ ReadyIsTrue

----------------------------------------------------------------------------
(* Steps *)

\* The numbers of the steps of the startup.
LEMMA DueSteps ==
    ASSUME step \in 1 .. 8
    PROVE  /\ Due("env") => at = "starting" /\ step = 1
           /\ Due("auth") => at = "starting" /\ step = 2
           /\ Due("registry") => at = "starting" /\ step = 3
           /\ Due("db") => at = "starting" /\ step = 4
           /\ Due("limiter") => at = "starting" /\ step = 5
           /\ Due("cache") => at = "starting" /\ step = 6
           /\ Due("upstream") => at = "starting" /\ step = 7
           /\ Due("reaper") => at = "starting" /\ step = 8
BY DEF Due, StartOrder

\* After the eighth step the process serves.
LEMMA GoOnSteps ==
    ASSUME step \in 1 .. 8, GoOn
    PROVE  /\ at' = IF step = 8 THEN "serving" ELSE "starting"
           /\ step' = IF step = 8 THEN 1 ELSE step + 1
           /\ UNCHANGED <<deployment, req, deps, faults>>
<1>1. Len(StartOrder) = 8
  BY DEF StartOrder
<1>2. QED
  BY <1>1 DEF GoOn

\* The same for the shutdown, which ends with the fourth.
LEMMA ClosingSteps ==
    ASSUME step \in 1 .. 4
    PROVE  /\ Closing("reaper") => at = "closing" /\ step = 1
           /\ Closing("upstream") => at = "closing" /\ step = 2
           /\ Closing("cache") => at = "closing" /\ step = 3
           /\ Closing("db") => at = "closing" /\ step = 4
BY DEF Closing, StopOrder

LEMMA ClosedSteps ==
    ASSUME step \in 1 .. 4, NEW name, Closed(name)
    PROVE  /\ open' = open \ {name}
           /\ at' = IF step = 4 THEN "stopped" ELSE "closing"
           /\ step' = IF step = 4 THEN 1 ELSE step + 1
           /\ UNCHANGED <<deployment, osenv, routes, backend, req, deps, faults>>
<1>1. Len(StopOrder) = 4
  BY DEF StopOrder
<1>2. QED
  BY <1>1 DEF Closed

\* What the step of the startup that is due does, when it does not raise.
Advance ==
    /\ at = "starting"
    /\ at' = IF step = 8 THEN "serving" ELSE "starting"
    /\ step' = IF step = 8 THEN 1 ELSE step + 1
    /\ UNCHANGED <<deployment, req, deps, faults>>
    /\ IF step = 1 THEN osenv' = [v \in Vars |-> Loaded(v)] ELSE osenv' = osenv
    /\ step = 2 => AuthIsConfigured
    /\ IF step = 3 THEN RegistryIsUsable /\ routes' = Credentials ELSE routes' = routes
    /\ IF step = 5 THEN backend' = Setting("RATE_LIMIT_BACKEND") /\ backend' \in {"redis", "memory"}
                   ELSE backend' = backend
    /\ open' = CASE step = 4 -> open \cup {"db"}
                 [] step = 6 -> IF backend = "memory" THEN open ELSE open \cup {"cache"}
                 [] step = 7 -> open \cup {"upstream"}
                 [] step = 8 -> open \cup {"reaper"}
                 [] OTHER -> open
    /\ sweep' = IF step = 8 THEN "asleep" ELSE sweep

\* A step of the startup raises, or goes on to the next.
LEMMA StartupSteps ==
    ASSUME step \in 1 .. 8, Startup
    PROVE  Boot \/ Die \/ Advance
<1>1. CASE Boot
  BY <1>1
<1>2. CASE LoadEnv
  <2>1. Due("env") /\ GoOn
    BY <1>2 DEF LoadEnv
  <2>2. QED
    BY <1>2, <2>1, DueSteps, GoOnSteps DEF LoadEnv, Advance
<1>3. CASE ValidateAuth
  <2>1. CASE AuthIsConfigured
    <3>1. Due("auth") /\ GoOn /\ UNCHANGED <<osenv, routes, backend, open, sweep>>
      BY <1>3, <2>1 DEF ValidateAuth
    <3>2. QED
      BY <2>1, <3>1, DueSteps, GoOnSteps DEF Advance
  <2>2. CASE ~AuthIsConfigured
    BY <1>3, <2>2 DEF ValidateAuth
  <2>3. QED
    BY <2>1, <2>2
<1>4. CASE LoadRegistry
  <2>1. CASE RegistryIsUsable
    <3>1. Due("registry") /\ GoOn /\ routes' = Credentials /\ UNCHANGED <<osenv, backend, open, sweep>>
      BY <1>4, <2>1 DEF LoadRegistry, Credentials
    <3>2. QED
      BY <2>1, <3>1, DueSteps, GoOnSteps DEF Advance
  <2>2. CASE ~RegistryIsUsable
    BY <1>4, <2>2 DEF LoadRegistry
  <2>3. QED
    BY <2>1, <2>2
<1>5. CASE ConnectDb
  <2>1. CASE "postgres" \in deps
    <3>1. Due("db") /\ GoOn
      BY <1>5, <2>1 DEF ConnectDb
    <3>2. QED
      BY <1>5, <2>1, <3>1, DueSteps, GoOnSteps DEF ConnectDb, Advance
  <2>2. CASE "postgres" \notin deps
    BY <1>5, <2>2 DEF ConnectDb
  <2>3. QED
    BY <2>1, <2>2
<1>6. CASE ConfigureLimiter
  <2> DEFINE value == Setting("RATE_LIMIT_BACKEND")
  <2>1. CASE value \in {"redis", "memory"}
    <3>1. Due("limiter") /\ GoOn /\ backend' = value /\ UNCHANGED <<osenv, routes, open, sweep>>
      BY <1>6, <2>1 DEF ConfigureLimiter
    <3>2. QED
      BY <2>1, <3>1, DueSteps, GoOnSteps DEF Advance
  <2>2. CASE value \notin {"redis", "memory"}
    BY <1>6, <2>2 DEF ConfigureLimiter
  <2>3. QED
    BY <2>1, <2>2
<1>7. CASE ConnectCache
  <2>1. CASE backend = "memory"
    <3>1. Due("cache") /\ GoOn /\ UNCHANGED <<osenv, routes, backend, open, sweep>>
      BY <1>7, <2>1 DEF ConnectCache
    <3>2. QED
      BY <2>1, <3>1, DueSteps, GoOnSteps DEF Advance
  <2>2. CASE backend # "memory" /\ "redis" \in deps
    <3>1. Due("cache") /\ GoOn /\ open' = open \cup {"cache"} /\ UNCHANGED <<osenv, routes, backend, sweep>>
      BY <1>7, <2>2 DEF ConnectCache
    <3>2. QED
      BY <2>2, <3>1, DueSteps, GoOnSteps DEF Advance
  <2>3. CASE backend # "memory" /\ "redis" \notin deps
    BY <1>7, <2>3 DEF ConnectCache
  <2>4. QED
    BY <2>1, <2>2, <2>3
<1>8. CASE ConnectUpstream
  <2>1. Due("upstream") /\ GoOn
    BY <1>8 DEF ConnectUpstream
  <2>2. QED
    BY <1>8, <2>1, DueSteps, GoOnSteps DEF ConnectUpstream, Advance
<1>9. CASE StartReaper
  <2>1. Due("reaper") /\ GoOn
    BY <1>9 DEF StartReaper
  <2>2. QED
    BY <1>9, <2>1, DueSteps, GoOnSteps DEF StartReaper, Advance
<1>10. QED
  BY <1>1, <1>2, <1>3, <1>4, <1>5, <1>6, <1>7, <1>8, <1>9 DEF Startup

\* What a step of the closing does.
Close ==
    /\ at = "closing"
    /\ at' = IF step = 4 THEN "stopped" ELSE "closing"
    /\ step' = IF step = 4 THEN 1 ELSE step + 1
    /\ UNCHANGED <<deployment, osenv, routes, backend, req, deps, faults>>
    /\ open' = CASE step = 1 -> open \ {"reaper"}
                 [] step = 2 -> open \ {"upstream"}
                 [] step = 3 -> open \ {"cache"}
                 [] step = 4 -> open \ {"db"}
    /\ sweep' = IF step = 1 THEN "off" ELSE sweep

LEMMA ShutdownSteps ==
    ASSUME at = "closing" => step \in 1 .. 4, Shutdown
    PROVE  Drained \/ Close
<1>1. CASE Drained
  BY <1>1
<1>2. ASSUME NEW name, Closing(name)
      PROVE  step \in 1 .. 4
  BY <1>2 DEF Closing
<1>3. CASE StopReaper
  <2>1. Closing("reaper") /\ Closed("reaper") /\ sweep' = "off" /\ step \in 1 .. 4
    BY <1>2, <1>3 DEF StopReaper
  <2>2. QED
    BY <2>1, ClosingSteps, ClosedSteps DEF Close
<1>4. CASE Disconnect("upstream")
  <2>1. Closing("upstream") /\ Closed("upstream") /\ sweep' = sweep /\ step \in 1 .. 4
    BY <1>2, <1>4 DEF Disconnect
  <2>2. QED
    BY <2>1, ClosingSteps, ClosedSteps DEF Close
<1>5. CASE Disconnect("cache")
  <2>1. Closing("cache") /\ Closed("cache") /\ sweep' = sweep /\ step \in 1 .. 4
    BY <1>2, <1>5 DEF Disconnect
  <2>2. QED
    BY <2>1, ClosingSteps, ClosedSteps DEF Close
<1>6. CASE DisconnectDb
  <2>1. Closing("db") /\ Closed("db") /\ sweep' = sweep /\ step \in 1 .. 4
    BY <1>2, <1>6 DEF DisconnectDb, Disconnect
  <2>2. QED
    BY <2>1, ClosingSteps, ClosedSteps DEF Close
<1>7. QED
  BY <1>1, <1>3, <1>4, <1>5, <1>6 DEF Shutdown

\* What ends a process, or begins one, at once.
Restart ==
    /\ at' \in {"down", "starting"}
    /\ NoProcess
    /\ UNCHANGED <<deployment, deps>>
    /\ faults' \in {faults, faults + 1}

\* Every step of the process is one of these.
LEMMA LifeSteps ==
    ASSUME TypeOK, StepsFit, [Next]_vars
    PROVE  \/ Restart
           \/ Advance
           \/ Close
           \/ Drained \/ AskStop \/ StartAgain
           \/ BeginSweep \/ EndSweep
           \/ \E q \in Requests : BeginRequest(q) \/ BeginReady(q) \/ Serve(q)
           \/ \E d \in Deps : DepFails(d) \/ DepRecovers(d)
           \/ UNCHANGED vars
<1>1. step \in 1 .. 8 /\ faults \in Nat /\ (at = "closing" => step \in 1 .. 4)
  BY DEF TypeOK, StepsFit
<1>2. Boot \/ Die \/ CloseFails \/ Crash => Restart
  BY DEF Boot, Die, CloseFails, Crash, Fault, Restart
<1>3. CASE Startup
  BY <1>1, <1>2, <1>3, StartupSteps
<1>4. CASE Shutdown
  BY <1>1, <1>4, ShutdownSteps
<1>5. QED
  BY <1>2, <1>3, <1>4 DEF Next

\* A request of /ready.
Check == [pc: {"ask_postgres", "ask_redis", "ok", "degraded"}, failed: SUBSET Deps,
          wasUp: SUBSET Deps, wasDown: SUBSET Deps]

LEMMA TypeStep ==
    ASSUME LifeInv, [Next]_vars
    PROVE  TypeOK'
<1> USE DEF LifeInv, TypeOK
<1>1. CASE Restart
  BY <1>1, DeploymentsAssumption DEF Restart, NoProcess, Request
<1>2. CASE Advance
  <2>1. osenv' \in [Vars -> Values \cup {Absent}]
    BY <1>2, DeploymentsAssumption DEF Advance, Loaded
  <2>2. open' \subseteq {"db", "cache", "upstream", "reaper"} /\ (sweep' # "off" <=> "reaper" \in open')
    BY <1>2 DEF Advance
  <2>3. QED
    BY <1>2, <2>1, <2>2 DEF Advance
<1>3. CASE Close
  <2>1. open' \subseteq {"db", "cache", "upstream", "reaper"} /\ (sweep' # "off" <=> "reaper" \in open')
    BY <1>3 DEF Close, StepsFit
  <2>2. QED
    BY <1>3, <2>1 DEF Close, StepsFit
<1>4. CASE Drained \/ AskStop \/ StartAgain
  <2>1. at' \in {"closing", "draining", "down"} /\ faults' \in {faults, faults + 1}
    BY <1>4 DEF Drained, AskStop, StartAgain, Fault
  <2>2. UNCHANGED <<deployment, step, osenv, routes, backend, open, sweep, req, deps>>
    BY <1>4 DEF Drained, AskStop, StartAgain, process
  <2>3. QED
    BY <2>1, <2>2
<1>5. CASE BeginSweep \/ EndSweep
  BY <1>5 DEF BeginSweep, EndSweep, Running
<1>6. ASSUME NEW q \in Requests, BeginRequest(q) \/ BeginReady(q) \/ Serve(q)
      PROVE  TypeOK'
  <2>1. \E x \in Request : req' = [req EXCEPT ![q] = x]
    <3>1. req[q] \in Request
      OBVIOUS
    <3>2. CASE BeginRequest(q)
      <4>1. [pc |-> "working"] \in Request
        BY DEF Request
      <4>2. QED
        BY <3>2, <4>1 DEF BeginRequest
    <3>3. CASE BeginReady(q)
      <4>1. [pc |-> "ask_postgres", failed |-> {}, wasUp |-> deps, wasDown |-> Deps \ deps] \in Request
        BY DEF Request
      <4>2. QED
        BY <3>3, <4>1 DEF BeginReady
    <3>4. CASE AskPostgres(q)
      <4> DEFINE x == [req[q] EXCEPT !.pc = "ask_redis", !.failed = {"postgres"} \ deps]
      <4>1. x \in Request
        <5>1. req[q].pc = "ask_postgres"
          BY <3>4 DEF AskPostgres
        <5>2. req[q] \in Check
          BY <3>1, <5>1 DEF Request, Idle, Check
        <5>3. x \in Check
          BY <5>2 DEF Check, Deps
        <5>4. QED
          BY <5>3 DEF Check, Request
      <4>2. req' = [req EXCEPT ![q] = x]
        BY <3>4 DEF AskPostgres
      <4>3. QED
        BY <4>1, <4>2
    <3>5. ASSUME NEW failed \in SUBSET Deps, req[q].pc = "ask_redis",
                 req' = [req EXCEPT ![q].pc = Verdict(failed), ![q].failed = failed]
          PROVE  \E x \in Request : req' = [req EXCEPT ![q] = x]
      <4> DEFINE x == [req[q] EXCEPT !.pc = Verdict(failed), !.failed = failed]
      <4>1. x \in Request
        <5>1. req[q] \in Check
          BY <3>1, <3>5 DEF Request, Idle, Check
        <5>2. Verdict(failed) \in {"ok", "degraded"}
          BY DEF Verdict
        <5>3. x \in Check
          BY <5>1, <5>2 DEF Check
        <5>4. QED
          BY <5>3 DEF Check, Request
      <4>2. req' = [req EXCEPT ![q] = x]
        BY <3>5
      <4>3. QED
        BY <4>1, <4>2
    <3>6. CASE AskRedis(q)
      <4> DEFINE failed == req[q].failed \cup
                   (IF Setting("RATE_LIMIT_BACKEND") = "redis" THEN {"redis"} \ deps ELSE {})
      <4>1. failed \in SUBSET Deps
        BY <3>1, <3>6 DEF AskRedis, Request, Idle, Deps
      <4>2. QED
        BY <3>5, <3>6, <4>1 DEF AskRedis
    <3>7. CASE EndRequest(q)
      BY <3>7 DEF EndRequest, Request
    <3>8. QED
      BY <1>6, <3>2, <3>3, <3>4, <3>6, <3>7 DEF Serve
  <2>2. UNCHANGED <<deployment, at, step, osenv, routes, backend, open, sweep, deps, faults>>
    BY <1>6 DEF BeginRequest, BeginReady, Serve, AskPostgres, AskRedis, EndRequest, Running
  <2>3. QED
    BY <2>1, <2>2
<1>7. ASSUME NEW d \in Deps, DepFails(d) \/ DepRecovers(d)
      PROVE  TypeOK'
  <2>1. deps' \subseteq Deps /\ faults' \in Nat /\ Witnessing(deps')
    BY <1>7 DEF DepFails, DepRecovers, Fault
  <2>2. req' \in [Requests -> Request]
    <3>1. ASSUME NEW q \in Requests
          PROVE  req'[q] \in Request
      <4>1. req[q] \in Request
        OBVIOUS
      <4>2. CASE req[q].pc \in {"ask_postgres", "ask_redis"}
        <5>1. req[q].wasUp \in SUBSET Deps /\ req[q].wasDown \in SUBSET Deps
          BY <4>1, <4>2 DEF Request, Idle
        <5>2. [req[q] EXCEPT !.wasUp = @ \cup deps', !.wasDown = @ \cup (Deps \ deps')] \in Request
          BY <2>1, <4>1, <4>2, <5>1 DEF Request, Idle
        <5>3. QED
          BY <2>1, <4>2, <5>2 DEF Witnessing
      <4>3. CASE req[q].pc \notin {"ask_postgres", "ask_redis"}
        BY <2>1, <4>1, <4>3 DEF Witnessing
      <4>4. QED
        BY <4>2, <4>3
    <3>2. QED
      BY <2>1, <3>1 DEF Witnessing
  <2>3. UNCHANGED <<deployment, at, step, osenv, routes, backend, open, sweep>>
    BY <1>7 DEF DepFails, DepRecovers
  <2>4. QED
    BY <2>1, <2>2, <2>3
<1>8. CASE UNCHANGED vars
  BY <1>8 DEF vars, process
<1>9. QED
  BY <1>1, <1>2, <1>3, <1>4, <1>5, <1>6, <1>7, <1>8, LifeSteps

----------------------------------------------------------------------------
(* The order of startup and shutdown *)

\* The other steps leave the set-up of the process as it is.
LEMMA RunningSteps ==
    ASSUME \/ BeginSweep \/ EndSweep
           \/ \E q \in Requests : BeginRequest(q) \/ BeginReady(q) \/ Serve(q)
           \/ \E d \in Deps : DepFails(d) \/ DepRecovers(d)
           \/ UNCHANGED vars
    PROVE  UNCHANGED <<deployment, at, step, osenv, routes, backend, open>>
BY DEF BeginSweep, EndSweep, BeginRequest, BeginReady, Serve, AskPostgres, AskRedis, EndRequest,
       Running, DepFails, DepRecovers, vars, process

\* Nor do the steps from one phase of the process to the next.
LEMMA PhaseSteps ==
    ASSUME Drained \/ AskStop \/ StartAgain
    PROVE  /\ \/ at = "draining" /\ at' = "closing" /\ \A q \in Requests : req[q] = Idle
              \/ at = "serving" /\ at' = "draining"
              \/ at = "stopped" /\ at' = "down"
           /\ UNCHANGED <<deployment, step, osenv, routes, backend, open, sweep, req, deps>>
BY DEF Drained, AskStop, StartAgain, process

LEMMA OrderStep ==
    ASSUME LifeInv, [Next]_vars
    PROVE  StepsFit' /\ OpenFits'
<1> USE DEF LifeInv, StepsFit, OpenFits, Up, Began, Finished
<1>1. step \in 1 .. 8 /\ backend \in {"redis", "memory"}
  BY DEF TypeOK
<1>2. CASE Restart
  BY <1>2 DEF Restart, NoProcess
<1>3. CASE Advance
  BY <1>1, <1>3 DEF Advance
<1>4. CASE Close
  BY <1>1, <1>4 DEF Close
<1>5. CASE Drained \/ AskStop \/ StartAgain
  BY <1>1, <1>5, PhaseSteps
<1>6. CASE UNCHANGED <<deployment, at, step, osenv, routes, backend, open>>
  BY <1>6
<1>7. QED
  BY <1>2, <1>3, <1>4, <1>5, <1>6, LifeSteps, RunningSteps

LEMMA ConfigStep ==
    ASSUME LifeInv, [Next]_vars
    PROVE  ConfigFits'
<1> USE DEF LifeInv, ConfigFits, Up, Began
<1>1. step \in 1 .. 8
  BY DEF TypeOK
<1>2. ASSUME osenv' = osenv, deployment' = deployment
      PROVE  /\ AuthIsConfigured' <=> AuthIsConfigured
             /\ RegistryIsUsable' <=> RegistryIsUsable
             /\ Credentials' = Credentials
             /\ Setting("RATE_LIMIT_BACKEND")' = Setting("RATE_LIMIT_BACKEND")
             /\ [v \in Vars |-> Said(v)]' = [v \in Vars |-> Said(v)]
  <2>1. AuthIsConfigured' <=> AuthIsConfigured
    BY <1>2 DEF AuthIsConfigured, Setting
  <2>2. RegistryIsUsable' <=> RegistryIsUsable
    BY <1>2 DEF RegistryIsUsable, Missing
  <2>3. Credentials' = Credentials
    BY <1>2 DEF Credentials, Credential
  <2>4. Setting("RATE_LIMIT_BACKEND")' = Setting("RATE_LIMIT_BACKEND")
    BY <1>2 DEF Setting
  <2>5. [v \in Vars |-> Said(v)]' = [v \in Vars |-> Said(v)]
    BY <1>2 DEF Said
  <2>6. QED
    BY <2>1, <2>2, <2>3, <2>4, <2>5
<1>3. CASE Restart
  BY <1>3 DEF Restart, NoProcess
<1>4. CASE Advance
  <2>1. CASE step = 1
    <3>1. osenv' = [v \in Vars |-> Said(v)]
      BY <1>4, <2>1 DEF Advance, Loaded, Said
    <3>2. deployment' = deployment /\ at' = "starting" /\ step' = 2
      BY <1>4, <2>1 DEF Advance
    <3>3. QED
      BY <3>1, <3>2 DEF Said
  <2>2. CASE step # 1
    <3>1. osenv' = osenv /\ deployment' = deployment
      BY <1>4, <2>2 DEF Advance
    <3>2. QED
      BY <1>1, <1>2, <1>4, <2>2, <3>1 DEF Advance
  <2>3. QED
    BY <2>1, <2>2
<1>5. CASE Close
  BY <1>1, <1>2, <1>5 DEF Close
<1>6. CASE Drained \/ AskStop \/ StartAgain
  BY <1>1, <1>2, <1>6, PhaseSteps
<1>7. CASE UNCHANGED <<deployment, at, step, osenv, routes, backend, open>>
  BY <1>2, <1>7
<1>8. QED
  BY <1>3, <1>4, <1>5, <1>6, <1>7, LifeSteps, RunningSteps

----------------------------------------------------------------------------
(* Requests of /ready *)

\* What a single request has to satisfy, while the process serves.
Truthful(x) ==
    /\ x.pc \in {"ask_postgres", "ask_redis"} =>
         deps \subseteq x.wasUp /\ Deps \ deps \subseteq x.wasDown
    /\ x.pc = "ask_redis" =>
         /\ x.failed \subseteq {"postgres"} \cap x.wasDown
         /\ {"postgres"} \ x.failed \subseteq x.wasUp
    /\ x.pc = "ok" => Hard \subseteq x.wasUp
    /\ x.pc = "degraded" => Hard \cap x.wasDown # {}

Asking == at \in {"serving", "draining"}

LEMMA ChecksAreTruthful ==
    ChecksFit /\ ReadyIsTrue <=> /\ ~Asking => \A q \in Requests : req[q] = Idle
                                 /\ \A q \in Requests : Truthful(req[q])
BY DEF ChecksFit, ReadyIsTrue, Truthful, Asking

\* It is enough to show it of each request after a step.
LEMMA ChecksStayTruthful ==
    ASSUME ~Asking' => \A q \in Requests : req'[q] = Idle, \A q \in Requests : Truthful(req[q])'
    PROVE  ChecksFit' /\ ReadyIsTrue'
BY DEF ChecksFit, ReadyIsTrue, Truthful, Asking

\* Idle requests satisfy it whatever the dependencies do.
LEMMA IdleIsTruthful ==
    ASSUME ~Asking', \A q \in Requests : req'[q] = Idle
    PROVE  ChecksFit' /\ ReadyIsTrue'
BY DEF ChecksFit, ReadyIsTrue, Asking, Idle

\* A request that asks is one of a process that serves, and counts where it says.
LEMMA AskingServes ==
    ASSUME LifeInv, NEW q \in Requests, req[q] # Idle
    PROVE  Asking /\ backend = Setting("RATE_LIMIT_BACKEND") /\ backend \in {"redis", "memory"}
BY DEF LifeInv, TypeOK, ChecksFit, ConfigFits, Began, Up, Asking

LEMMA CheckStep ==
    ASSUME LifeInv, [Next]_vars
    PROVE  ChecksFit' /\ ReadyIsTrue'
<1>1. /\ ~Asking => \A q \in Requests : req[q] = Idle
      /\ \A q \in Requests : Truthful(req[q])
      /\ req \in [Requests -> Request] /\ deps \subseteq Deps
  BY ChecksAreTruthful DEF LifeInv, TypeOK
<1>2. CASE Restart
  <2>1. ~Asking' /\ \A q \in Requests : req'[q] = Idle
    BY <1>2 DEF Restart, NoProcess, Asking
  <2>2. QED
    BY <2>1, IdleIsTruthful
<1>3. ASSUME Advance \/ Close \/ Drained \/ AskStop \/ StartAgain, ~Asking \/ ~Asking'
      PROVE  ChecksFit' /\ ReadyIsTrue'
  <2>1. req' = req
    BY <1>3, PhaseSteps DEF Advance, Close
  <2>2. \A q \in Requests : req'[q] = Idle
    BY <1>1, <1>3, <2>1, PhaseSteps DEF Asking, Advance, Close
  <2>3. Truthful(Idle)'
    BY DEF Truthful, Idle
  <2>4. \A q \in Requests : Truthful(req[q])'
    BY <2>2, <2>3
  <2>5. QED
    BY <2>2, <2>4, ChecksStayTruthful
<1>4. CASE Advance \/ Close
  <2>1. ~Asking
    BY <1>4 DEF Advance, Close, Asking
  <2>2. QED
    BY <1>3, <1>4, <2>1
<1>5. CASE Drained \/ AskStop \/ StartAgain
  <2>1. CASE ~Asking \/ ~Asking'
    BY <1>3, <1>5, <2>1
  <2>2. CASE Asking /\ Asking'
    <3>1. UNCHANGED <<backend, req, deps>>
      BY <1>5, PhaseSteps
    <3>2. \A q \in Requests : Truthful(req[q])'
      BY <1>1, <3>1 DEF Truthful, Hard
    <3>3. QED
      BY <2>2, <3>2, ChecksStayTruthful
  <2>3. QED
    BY <2>1, <2>2
<1>6. CASE BeginSweep \/ EndSweep \/ UNCHANGED vars
  <2>1. UNCHANGED <<at, backend, req, deps>>
    BY <1>6 DEF BeginSweep, EndSweep, Running, vars, process
  <2>2. \A q \in Requests : Truthful(req[q])'
    BY <1>1, <2>1 DEF Truthful, Hard
  <2>3. QED
    BY <1>1, <2>1, <2>2, ChecksStayTruthful DEF Asking
<1>7. ASSUME NEW q \in Requests, BeginRequest(q) \/ BeginReady(q) \/ Serve(q)
      PROVE  ChecksFit' /\ ReadyIsTrue'
  <2>1. UNCHANGED <<at, osenv, backend, deps>> /\ Asking
    <3>1. UNCHANGED <<at, osenv, backend, deps>>
      BY <1>7 DEF BeginRequest, BeginReady, Serve, AskPostgres, AskRedis, EndRequest, Running
    <3>2. CASE BeginRequest(q) \/ BeginReady(q)
      BY <3>1, <3>2 DEF BeginRequest, BeginReady, Asking
    <3>3. CASE Serve(q)
      BY <3>1, <3>3, AskingServes DEF Serve, AskPostgres, AskRedis, EndRequest, Idle
    <3>4. QED
      BY <1>7, <3>1, <3>2, <3>3
  <2>2. \A p \in Requests \ {q} : req'[p] = req[p]
    BY <1>1, <1>7 DEF BeginRequest, BeginReady, Serve, AskPostgres, AskRedis, EndRequest
  <2>3. Truthful(req[q])'
    <3>1. CASE BeginRequest(q)
      BY <1>1, <3>1 DEF BeginRequest, Truthful
    <3>2. CASE BeginReady(q)
      BY <1>1, <2>1, <3>2 DEF BeginReady, Truthful
    <3>3. CASE AskPostgres(q)
      <4>1. req[q].pc = "ask_postgres" /\ req[q] \in Check
        BY <1>1, <3>3 DEF AskPostgres, Request, Idle, Check
      <4>2. req'[q] = [req[q] EXCEPT !.pc = "ask_redis", !.failed = {"postgres"} \ deps]
        BY <1>1, <3>3 DEF AskPostgres
      <4>3. deps \subseteq req[q].wasUp /\ Deps \ deps \subseteq req[q].wasDown
        BY <1>1, <4>1 DEF Truthful
      <4>4. /\ req'[q].pc = "ask_redis" /\ req'[q].failed = {"postgres"} \ deps
            /\ req'[q].wasUp = req[q].wasUp /\ req'[q].wasDown = req[q].wasDown
        BY <4>1, <4>2 DEF Check
      <4>5. QED
        BY <2>1, <4>3, <4>4 DEF Truthful, Deps
    <3>4. CASE AskRedis(q)
      <4> DEFINE failed == req[q].failed \cup
                   (IF Setting("RATE_LIMIT_BACKEND") = "redis" THEN {"redis"} \ deps ELSE {})
      <4>1. req[q].pc = "ask_redis" /\ req[q] \in Check /\ req[q] # Idle
        BY <1>1, <3>4 DEF AskRedis, Request, Idle, Check
      <4>2. req'[q] = [req[q] EXCEPT !.pc = Verdict(failed), !.failed = failed]
        BY <1>1, <3>4 DEF AskRedis
      <4>3. /\ deps \subseteq req[q].wasUp /\ Deps \ deps \subseteq req[q].wasDown
            /\ req[q].failed \subseteq {"postgres"} \cap req[q].wasDown
            /\ {"postgres"} \ req[q].failed \subseteq req[q].wasUp
        BY <1>1, <4>1 DEF Truthful
      <4>4. /\ req'[q].pc = Verdict(failed)
            /\ req'[q].wasUp = req[q].wasUp /\ req'[q].wasDown = req[q].wasDown
        BY <4>1, <4>2 DEF Check
      <4>5. failed = req[q].failed \cup (IF backend = "redis" THEN {"redis"} \ deps ELSE {})
        BY <4>1, AskingServes
      <4>6. Hard = (IF backend = "redis" THEN Deps ELSE {"postgres"}) /\ Hard' = Hard
        BY <2>1 DEF Hard
      <4> HIDE DEF failed
      <4>7. CASE failed = {}
        <5>1. Hard \subseteq req[q].wasUp
          BY <4>3, <4>5, <4>6, <4>7 DEF Deps
        <5>2. req'[q].pc = "ok"
          BY <4>4, <4>7 DEF Verdict
        <5>3. QED
          BY <4>4, <4>6, <5>1, <5>2 DEF Truthful
      <4>8. CASE failed # {}
        <5>1. Hard \cap req[q].wasDown # {}
          BY <4>3, <4>5, <4>6, <4>8 DEF Deps
        <5>2. req'[q].pc = "degraded"
          BY <4>4, <4>8 DEF Verdict
        <5>3. QED
          BY <4>4, <4>6, <5>1, <5>2 DEF Truthful
      <4>9. QED
        BY <4>7, <4>8
    <3>5. CASE EndRequest(q)
      BY <1>1, <3>5 DEF EndRequest, Truthful, Idle
    <3>6. QED
      BY <1>7, <3>1, <3>2, <3>3, <3>4, <3>5 DEF Serve
  <2>4. \A p \in Requests : Truthful(req[p])'
    BY <1>1, <2>1, <2>2, <2>3 DEF Truthful, Hard
  <2>5. QED
    BY <2>1, <2>4, ChecksStayTruthful DEF Asking
<1>8. ASSUME NEW d \in Deps, DepFails(d) \/ DepRecovers(d)
      PROVE  ChecksFit' /\ ReadyIsTrue'
  <2>1. /\ deps' \subseteq Deps /\ Witnessing(deps') /\ UNCHANGED <<at, backend>>
        /\ deps' \subseteq deps \cup {d} /\ deps \ {d} \subseteq deps'
    BY <1>1, <1>8 DEF DepFails, DepRecovers
  <2>2. ASSUME NEW q \in Requests
        PROVE  Truthful(req[q])' /\ (req[q] = Idle => req'[q] = Idle)
    <3>1. CASE req[q].pc \in {"ask_postgres", "ask_redis"}
      <4>1. req[q] \in Check /\ req[q] # Idle
        BY <1>1, <3>1 DEF Request, Idle, Check
      <4>2. req'[q] = [req[q] EXCEPT !.wasUp = @ \cup deps', !.wasDown = @ \cup (Deps \ deps')]
        BY <2>1, <3>1 DEF Witnessing
      <4>3. /\ req'[q].pc = req[q].pc /\ req'[q].failed = req[q].failed
            /\ req'[q].wasUp = req[q].wasUp \cup deps'
            /\ req'[q].wasDown = req[q].wasDown \cup (Deps \ deps')
        BY <4>1, <4>2 DEF Check
      <4>4. Truthful(req[q])
        BY <1>1
      <4>5. QED
        BY <3>1, <4>1, <4>3, <4>4 DEF Truthful
    <3>2. CASE req[q].pc \notin {"ask_postgres", "ask_redis"}
      <4>1. req'[q] = req[q]
        BY <2>1, <3>2 DEF Witnessing
      <4>2. QED
        BY <1>1, <2>1, <3>2, <4>1 DEF Truthful, Hard
    <3>3. QED
      BY <3>1, <3>2
  <2>3. QED
    BY <1>1, <2>1, <2>2, ChecksStayTruthful DEF Asking
<1>9. QED
  BY <1>2, <1>4, <1>5, <1>6, <1>7, <1>8, LifeSteps DEF LifeInv

----------------------------------------------------------------------------
(* Theorems *)

LEMMA LifeBegins == Init => LifeInv
<1> SUFFICES ASSUME Init
             PROVE  LifeInv
  OBVIOUS
<1>1. TypeOK
  BY DeploymentsAssumption DEF Init, TypeOK, Request, Deps
<1>2. StepsFit /\ OpenFits /\ ConfigFits
  BY DEF Init, StepsFit, OpenFits, ConfigFits, Began, Finished, Up
<1>3. ChecksFit /\ ReadyIsTrue
  BY DEF Init, ChecksFit, ReadyIsTrue, Idle
<1>4. QED
  BY <1>1, <1>2, <1>3 DEF LifeInv

\* What is open, read and witnessed agrees with how far the startup or the
\* shutdown has come (main.py, lifespan).
THEOREM LifeInvariance == Spec => []LifeInv
<1>1. Init => LifeInv
  BY LifeBegins
<1>2. LifeInv /\ [Next]_vars => LifeInv'
  BY TypeStep, OrderStep, ConfigStep, CheckStep DEF LifeInv
<1>3. QED
  BY <1>1, <1>2, PTL DEF Spec

\* Types, and that the reaper's task lives exactly while it is open.
THEOREM LifeTypeCorrect == Spec => []TypeOK
<1>1. LifeInv => TypeOK
  BY DEF LifeInv
<1>2. QED
  BY <1>1, LifeInvariance, PTL

\* A serving process has the settings that its operator gave, and a credential
\* for every route that refers to one (config.py, registry.py).
THEOREM AlwaysServesAsConfigured == Spec => []ServesAsConfigured
<1>1. LifeInv => ServesAsConfigured
  <2> SUFFICES ASSUME LifeInv, at \in {"serving", "draining"}
               PROVE  ServesAsConfigured
    BY DEF ServesAsConfigured
  <2> USE DEF LifeInv
  <2>1. /\ osenv = [v \in Vars |-> Said(v)] /\ AuthIsConfigured
        /\ RegistryIsUsable /\ routes = Credentials /\ backend = Setting("RATE_LIMIT_BACKEND")
    BY DEF ConfigFits, Began, Up
  <2>2. \A v \in Vars : osenv[v] = Said(v) /\ Setting(v) = Meant(v)
    BY <2>1 DEF Setting, Meant
  <2>3. /\ Meant("AUTH_MODE") \in {"dev", "hs256", "oidc"}
        /\ Meant("AUTH_MODE") = "hs256" => Meant("AUTH_JWT_SECRET") # ""
        /\ Meant("AUTH_MODE") = "oidc" => Meant("AUTH_OIDC_JWKS_URL") # ""
        /\ backend = Meant("RATE_LIMIT_BACKEND")
    BY <2>1, <2>2, VarsAssumption DEF AuthIsConfigured
  <2>4. ASSUME NEW r \in deployment.registry.routes
        PROVE  \E s \in routes :
                 /\ s.name = r.name
                 /\ s.api_key = IF r.key = Absent \/ Said(r.key) = Blank THEN Absent
                                                                        ELSE Said(r.key)
                 /\ r.key # Absent => Said(r.key) # ""
    <3> DEFINE s == [name |-> r.name, api_key |-> Credential(r)]
    <3>1. s \in routes
      BY <2>1 DEF Credentials
    <3>2. ASSUME r.key # Absent
          PROVE  osenv[r.key] = Said(r.key) /\ Said(r.key) \notin {Absent, ""}
      <4>1. r.key \in deployment.registry.refs /\ deployment.registry.refs \subseteq Vars
        BY <2>1, <3>2, DeploymentsAssumption DEF TypeOK, RegistryIsUsable
      <4>2. osenv[r.key] \notin {Absent, ""}
        BY <2>1, <4>1 DEF RegistryIsUsable, Missing
      <4>3. QED
        BY <2>2, <4>1, <4>2
    <3>3. Credential(r) = IF r.key = Absent \/ Said(r.key) = Blank THEN Absent ELSE Said(r.key)
      BY <3>2 DEF Credential
    <3>4. QED
      BY <3>1, <3>2, <3>3
  <2>5. QED
    BY <2>3, <2>4 DEF ServesAsConfigured
<1>2. QED
  BY <1>1, LifeInvariance, PTL

\* A wrong authentication or registry stops the process before it opens anything,
\* a wrong RATE_LIMIT_BACKEND before it opens more than the database pool
\* (main.py:36-40).
THEOREM OpensNoMoreThanConfigured == Spec => []OpensOnlyIfConfigured
<1>1. ASSUME LifeInv, open # {}
      PROVE  AuthIsConfigured /\ RegistryIsUsable
  <2>1. Began(4)
    <3>1. "db" \in open \/ "cache" \in open \/ "upstream" \in open \/ "reaper" \in open
      BY <1>1 DEF LifeInv, TypeOK
    <3>2. Began(4) \/ Began(6) \/ Began(7) \/ Up
      BY <1>1, <3>1 DEF LifeInv, OpenFits
    <3>3. QED
      BY <1>1, <3>2 DEF LifeInv, TypeOK, Began
  <2>2. QED
    BY <1>1, <2>1 DEF LifeInv, TypeOK, ConfigFits, Began
<1>2. ASSUME LifeInv, open \ {"db"} # {}
      PROVE  Setting("RATE_LIMIT_BACKEND") \in {"redis", "memory"}
  <2>1. Began(6) \/ Began(7) \/ Up
    <3>1. "cache" \in open \/ "upstream" \in open \/ "reaper" \in open
      BY <1>2 DEF LifeInv, TypeOK
    <3>2. QED
      BY <1>2, <3>1 DEF LifeInv, OpenFits
  <2>2. Began(5)
    BY <1>2, <2>1 DEF LifeInv, TypeOK, Began
  <2>3. QED
    BY <1>2, <2>2 DEF LifeInv, TypeOK, ConfigFits
<1>3. QED
  BY <1>1, <1>2, LifeInvariance, PTL DEF OpensOnlyIfConfigured

\* Nothing is used before it is open or after it is closed, and a shutdown that
\* ran to its end leaves nothing open (main.py, lifespan).
THEOREM UsedOnlyWhileOpen == Spec => []OpenWhileInUse
<1>1. LifeInv => OpenWhileInUse
  <2> SUFFICES ASSUME LifeInv
               PROVE  OpenWhileInUse
    OBVIOUS
  <2>1. sweep = "sweeping" => "db" \in open
    BY DEF LifeInv, TypeOK, OpenFits, Began
  <2>2. ASSUME NEW q \in Requests, req[q] # Idle
        PROVE  {"db", "upstream"} \subseteq open /\ (backend = "redis" => "cache" \in open)
    <3>1. at \in {"serving", "draining"}
      BY <2>2, AskingServes DEF Asking
    <3>2. QED
      BY <3>1 DEF LifeInv, OpenFits, Began, Up, Finished
  <2>3. ASSUME at = "stopped"
        PROVE  open = {} /\ sweep = "off"
    BY <2>3 DEF LifeInv, TypeOK, OpenFits, Began, Up
  <2>4. QED
    BY <2>1, <2>2, <2>3 DEF OpenWhileInUse
<1>2. QED
  BY <1>1, LifeInvariance, PTL

\* "ok" and "degraded" were true of each dependency at a moment of the request
\* (health.py).
THEOREM ReadyIsAlwaysTrue == Spec => []ReadyIsTrue
<1>1. LifeInv => ReadyIsTrue
  BY DEF LifeInv
<1>2. QED
  BY <1>1, LifeInvariance, PTL

\* Why the startup of a sound deployment may end: a crash, or a dependency that
\* it is about to open and that does not answer.
OnlyOutagesStopSound ==
    Sound /\ at = "starting" /\ at' = "down" =>
        \/ faults' = faults + 1
        \/ step = 4 /\ "postgres" \notin deps
        \/ step = 6 /\ "redis" \notin deps /\ Meant("RATE_LIMIT_BACKEND") = "redis"

\* The checks of the startup pass a deployment that is sound, when they come to
\* it.
LEMMA SoundPasses ==
    ASSUME LifeInv, Sound
    PROVE  /\ Began(1) => AuthIsConfigured
           /\ Began(1) => RegistryIsUsable
           /\ Began(1) => Setting("RATE_LIMIT_BACKEND") \in {"redis", "memory"}
           /\ Began(5) => backend = Meant("RATE_LIMIT_BACKEND")
<1>1. Began(5) => Began(1) /\ backend = Setting("RATE_LIMIT_BACKEND")
  BY DEF LifeInv, TypeOK, ConfigFits, Began
<1> SUFFICES ASSUME Began(1)
             PROVE  /\ AuthIsConfigured /\ RegistryIsUsable
                    /\ Setting("RATE_LIMIT_BACKEND") \in {"redis", "memory"}
                    /\ Setting("RATE_LIMIT_BACKEND") = Meant("RATE_LIMIT_BACKEND")
  BY <1>1
<1>2. \A v \in Vars : osenv[v] = Said(v) /\ Setting(v) = Meant(v)
  <2>1. osenv = [v \in Vars |-> Said(v)]
    BY DEF LifeInv, ConfigFits
  <2>2. QED
    BY <2>1 DEF Setting, Meant
<1>3. AuthIsConfigured
  BY <1>2, VarsAssumption DEF Sound, AuthIsConfigured
<1>4. RegistryIsUsable
  <2>1. deployment.registry # Absent /\ deployment.registry.refs \subseteq Vars
    BY DeploymentsAssumption DEF Sound, LifeInv, TypeOK
  <2>2. \A v \in deployment.registry.refs : osenv[v] \notin {Absent, ""}
    BY <1>2, <2>1 DEF Sound
  <2>3. QED
    BY <2>2 DEF Sound, RegistryIsUsable, Missing
<1>5. QED
  BY <1>2, <1>3, <1>4, VarsAssumption DEF Sound

\* A deployment in which what is set is set to something, and what is referred
\* to is set, is never refused: its startup ends only by a crash, or because
\* Postgres, or redis if the limiter counts there, is down (main.py, lifespan).
\* This is the safe half of SoundDeploymentsServe.
THEOREM SoundStartsAreNeverRefused == Spec => [][OnlyOutagesStopSound]_vars
<1>1. LifeInv /\ [Next]_vars => [OnlyOutagesStopSound]_vars
  <2> SUFFICES ASSUME LifeInv, Next, Sound, at = "starting", at' = "down"
               PROVE  \/ faults' = faults + 1
                      \/ step = 4 /\ "postgres" \notin deps
                      \/ step = 6 /\ "redis" \notin deps /\ Meant("RATE_LIMIT_BACKEND") = "redis"
    BY DEF OnlyOutagesStopSound
  <2>1. step \in 1 .. 8 /\ backend \in {"redis", "memory"}
    BY DEF LifeInv, TypeOK
  <2>2. CASE Startup
    <3>1. ~GoOn
      BY <2>1, GoOnSteps
    <3>2. ~Boot /\ ~LoadEnv /\ ~ConnectUpstream /\ ~StartReaper
      BY <3>1 DEF Boot, LoadEnv, ConnectUpstream, StartReaper
    <3>3. CASE ValidateAuth
      <4>1. ~AuthIsConfigured /\ Began(1)
        BY <2>1, <3>1, <3>3, DueSteps DEF ValidateAuth, Began
      <4>2. QED
        BY <4>1, SoundPasses
    <3>4. CASE LoadRegistry
      <4>1. ~RegistryIsUsable /\ Began(1)
        BY <2>1, <3>1, <3>4, DueSteps DEF LoadRegistry, Began
      <4>2. QED
        BY <4>1, SoundPasses
    <3>5. CASE ConnectDb
      BY <2>1, <3>1, <3>5, DueSteps DEF ConnectDb
    <3>6. CASE ConfigureLimiter
      <4>1. Setting("RATE_LIMIT_BACKEND") \notin {"redis", "memory"} /\ Began(1)
        BY <2>1, <3>1, <3>6, DueSteps DEF ConfigureLimiter, Began
      <4>2. QED
        BY <4>1, SoundPasses
    <3>7. CASE ConnectCache
      <4>1. step = 6 /\ backend # "memory" /\ "redis" \notin deps
        BY <2>1, <3>1, <3>7, DueSteps DEF ConnectCache
      <4>2. backend = Meant("RATE_LIMIT_BACKEND")
        BY <4>1, SoundPasses DEF Began
      <4>3. QED
        BY <2>1, <4>1, <4>2
    <3>8. QED
      BY <2>2, <3>2, <3>3, <3>4, <3>5, <3>6, <3>7 DEF Startup
  <2>3. CASE CloseFails \/ Crash
    BY <2>3 DEF CloseFails, Crash, Fault
  <2>4. CASE Shutdown
    BY <2>4 DEF Shutdown, Drained, StopReaper, DisconnectDb, Disconnect, Closing
  <2>5. CASE BeginSweep \/ EndSweep
    BY <2>5 DEF BeginSweep, EndSweep, Running
  <2>6. ASSUME NEW q \in Requests, BeginRequest(q) \/ BeginReady(q) \/ Serve(q)
        PROVE  FALSE
    BY <2>6 DEF BeginRequest, BeginReady, Serve, AskPostgres, AskRedis, EndRequest, Running
  <2>7. CASE AskStop \/ StartAgain
    BY <2>7 DEF AskStop, StartAgain
  <2>8. ASSUME NEW d \in Deps, DepFails(d) \/ DepRecovers(d)
        PROVE  FALSE
    BY <2>8 DEF DepFails, DepRecovers
  <2>9. QED
    BY <2>2, <2>3, <2>4, <2>5, <2>6, <2>7, <2>8 DEF Next
<1>2. QED
  BY <1>1, LifeInvariance, PTL DEF Spec

=============================================================================
