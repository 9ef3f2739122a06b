----------------------------- MODULE DataPlane -----------------------------
(***************************************************************************)
(* A /v1 request between its key and its upstream, in a deployment without *)
(* redis: the limiter counts in the memory of each process (ratelimit.py), *)
(* the body is read and rewritten (routers/chat.py, upstream.py), and vLLM *)
(* serves it, perhaps from the prefix cache that all tenants share.        *)
(*                                                                         *)
(* require_key is ApiKeys' subject, the relay and the bill are ChatRelay's.*)
(***************************************************************************)
EXTENDS Integers, FiniteSets

CONSTANTS
    Keys,
    Owner,       \* Owner[k]: the user of key k, as require_key returns it
    Brokers,
    Requests,    \* each sent once
    Routes,      \* Routes[m]: the route of public model m
    Bodies,      \* the JSON objects that callers may send
    NoBody,      \* a body that is not a JSON object
    List,        \* no POST at all, but GET /v1/models
    Own,         \* values a caller may put into cache_salt itself, tenants' salts
                 \* among them: tenant_cache_salt is no secret
    None,        \* no cache_salt
    Limit, WindowTime,
    MaxTime, MaxLives  \* bounds: the last instant; how often a broker starts

Models == DOMAIN Routes
UpstreamModels == {Routes[m].upstream_model : m \in Models}
Upstreams == {Routes[m].base_url : m \in Models}
OnlyVllm(at) == \A m \in Models : Routes[m].base_url = at => Routes[m].kind = "vllm"
Users == {Owner[k] : k \in Keys}

ASSUME KeysAssumption == IsFiniteSet(Requests) /\ Keys = DOMAIN Owner
\* A route: two public names may share one upstream, and one model of it.  A body:
\* usage is the caller's own stream_options.include_usage, cache_salt its own as well.
ASSUME RoutesAssumption == \A m \in Models :
    Routes[m] = [kind |-> Routes[m].kind, base_url |-> Routes[m].base_url,
                 upstream_model |-> Routes[m].upstream_model]
ASSUME BodiesAssumption == \A x \in Bodies :
    /\ x = [model |-> x.model, prompt |-> x.prompt, stream |-> x.stream, usage |-> x.usage,
            cache_salt |-> x.cache_salt]
    /\ x.stream \in BOOLEAN /\ x.usage \in BOOLEAN /\ x.cache_salt \in Own \cup {None}
ASSUME BoundsAssumption == /\ Limit \in Nat /\ WindowTime \in Nat \ {0}
                           /\ MaxTime \in Nat /\ MaxLives \in Nat \ {0}

VARIABLES
    now,       \* int(time.time()), which does not go back
    life,      \* life[b]: how often process b has been started
    counters,  \* counters[b][k, w]: _counters of b; 0 if there is no entry
    req,       \* req[r]: where request r stands
    prefixes   \* the prompts in the prefix cache of each upstream, with their salts

vars == <<now, life, counters, req, prefixes>>

Windows == 0 .. (MaxTime \div WindowTime)
Window(t) == t \div WindowTime

New == [pc |-> "new"]

\* tenant_cache_salt: a digest of the user id, another one for every user
Salt(u) == [tenant |-> u]
Salts == Own \cup {None} \cup {Salt(u) : u \in Users}
Prompts == {x.prompt : x \in Bodies}
Payload == [model: UpstreamModels, prompt: Prompts, salt: Salts, stream: BOOLEAN,
            usage: BOOLEAN]

\* user is history: who sent the prompt.
Prefix == [at: Upstreams, model: UpstreamModels, prompt: Prompts, salt: Salts, user: Users]

Life == Brokers \X (1 .. MaxLives)

\* by: the process, and which life of it.  shared: history, who had sent the
\* prefix that the upstream found in its cache.
Request ==
    {New}
    \cup [pc: {"keyed"}, by: Life, key: Keys, ask: Bodies \cup {NoBody, List}]
    \cup [pc: {"admitted"}, by: Life, key: Keys, at: Nat, ask: Bodies \cup {NoBody}]
    \cup [pc: {"refused", "listed", "bad_request", "not_found", "failed"},
          by: Life, key: Keys, at: Nat]
    \cup [pc: {"sent", "answered"}, by: Life, key: Keys, at: Nat, model: Models,
          payload: Payload, shared: SUBSET Users]

\* Every variable has its type, and a process remembers the counts of one
\* window only, "so this cannot grow without bound" (ratelimit.py:28).
TypeOK ==
    /\ now \in Nat
    /\ life \in [Brokers -> 1 .. MaxLives]
    /\ counters \in [Brokers -> [Keys \X Windows -> Nat]]
    /\ req \in [Requests -> Request]
    /\ prefixes \subseteq Prefix
    /\ \A b \in Brokers, kw, lx \in Keys \X Windows :
         counters[b][kw] > 0 /\ counters[b][lx] > 0 => kw[2] = lx[2]
    \* metering needs the usage of a stream, whatever the caller's own options
    /\ \A r \in Requests : req[r].pc = "sent" /\ req[r].payload.stream => req[r].payload.usage

NoCounts == [kw \in Keys \X Windows |-> 0]

Init ==
    /\ now = 0
    /\ life = [b \in Brokers |-> 1]
    /\ counters = [b \in Brokers |-> NoCounts]
    /\ req = [r \in Requests |-> New]
    /\ prefixes = {}

----------------------------------------------------------------------------
(* Key and rate limit *)

\* require_key has let the key through.
Arrive(r, b, k, ask) ==
    /\ req[r] = New
    /\ req' = [req EXCEPT ![r] = [pc |-> "keyed", by |-> <<b, life[b]>>, key |-> k, ask |-> ask]]
    /\ UNCHANGED <<now, life, counters, prefixes>>

\* MUTANT of Current: nothing is dropped.
CurrentAndStale(count, w) == count

\* MUTANT of Current: <= for <.
CurrentEmptied(count, w) == [kw \in Keys \X Windows |-> IF kw[2] <= w THEN 0 ELSE count[kw]]

\* The counters without those of older windows.
Current(count, w) == [kw \in Keys \X Windows |-> IF kw[2] < w THEN 0 ELSE count[kw]]

\* MUTANT of TooMany: one request more.
TooManyLate(count) == count > Limit + 1

TooMany(count) == count > Limit

\* A request that is over, with what the properties ask of it.
Over(r, how, t) == [pc |-> how, by |-> req[r].by, key |-> req[r].key, at |-> t]

\* check: no await between reading the clock and the decision.
Check(r) ==
    /\ req[r].pc = "keyed"
    /\ LET b == req[r].by[1]
           kw == <<req[r].key, Window(now)>>
           count == Current(counters[b], kw[2])[kw] + 1
       IN  /\ counters' = [counters EXCEPT ![b] = [Current(@, kw[2]) EXCEPT ![kw] = count]]
           /\ req' = [req EXCEPT ![r] =
                IF TooMany(count) THEN Over(r, "refused", now)
                ELSE IF @.ask = List THEN Over(r, "listed", now)
                ELSE [pc |-> "admitted", by |-> @.by, key |-> @.key, at |-> now, ask |-> @.ask]]
    /\ UNCHANGED <<now, life, prefixes>>

----------------------------------------------------------------------------
(* The body and the upstream *)

\* MUTANT of SaltFor: setdefault.
SaltForUnlessGiven(route, x, u) ==
    IF route.kind = "vllm" /\ x.cache_salt = None THEN Salt(u) ELSE x.cache_salt

\* The tenant's salt replaces the caller's, where the upstream is a vLLM.
SaltFor(route, x, u) == IF route.kind = "vllm" THEN Salt(u) ELSE x.cache_salt

\* build_payload
BuildPayload(route, x, u) ==
    [model |-> route.upstream_model, prompt |-> x.prompt, salt |-> SaltFor(route, x, u),
     stream |-> x.stream, usage |-> x.stream \/ x.usage]

\* The rest of the body arrives; it is no object, or names no model, or goes to
\* the upstream.
ReadBody(r) ==
    /\ req[r].pc = "admitted"
    /\ LET x == req[r].ask
       IN  req' = [req EXCEPT ![r] =
             IF x = NoBody THEN Over(r, "bad_request", @.at)
             ELSE IF x.model \notin Models THEN Over(r, "not_found", @.at)
             ELSE [pc |-> "sent", by |-> @.by, key |-> @.key, at |-> @.at, model |-> x.model,
                   payload |-> BuildPayload(Routes[x.model], x, Owner[@.key]),
                   shared |-> {}]]
    /\ UNCHANGED <<now, life, counters, prefixes>>

\* The upstream (external) reuses a prefix with the same model, salt and text,
\* whoever it is from, and keeps this one.
Answer(r) ==
    /\ req[r].pc = "sent"
    /\ LET p == req[r].payload
           sent(u) == [at |-> Routes[req[r].model].base_url, model |-> p.model,
                       prompt |-> p.prompt, salt |-> p.salt, user |-> u]
       IN  /\ req' = [req EXCEPT ![r].pc = "answered",
                                 ![r].shared = {u \in Users : sent(u) \in prefixes}]
           /\ prefixes' = prefixes \cup {sent(Owner[req[r].key])}
    /\ UNCHANGED <<now, life, counters>>

\* The caller goes away before its body is complete, or the upstream refuses,
\* cannot be reached, or its answer is lost.
Fails(r) ==
    /\ req[r].pc \in {"admitted", "sent"}
    /\ req' = [req EXCEPT ![r] = Over(r, "failed", @.at)]
    /\ UNCHANGED <<now, life, counters, prefixes>>

----------------------------------------------------------------------------
(* Processes and time *)

\* A process is started again: its counters are gone, and so are its requests;
\* one that had not been counted may as well never have come.
Restart(b) ==
    /\ life[b] < MaxLives
    /\ life' = [life EXCEPT ![b] = @ + 1]
    /\ counters' = [counters EXCEPT ![b] = NoCounts]
    /\ req' = [r \in Requests |->
                 IF req[r].pc = "keyed" /\ req[r].by[1] = b THEN New
                 ELSE IF req[r].pc \in {"admitted", "sent"} /\ req[r].by[1] = b
                   THEN Over(r, "failed", req[r].at)
                 ELSE req[r]]
    /\ UNCHANGED <<now, prefixes>>

Tick ==
    /\ now < MaxTime
    /\ now' = now + 1
    /\ UNCHANGED <<life, counters, req, prefixes>>

Next ==
    \/ \E r \in Requests :
         \/ \E b \in Brokers, k \in Keys, ask \in Bodies \cup {NoBody, List} : Arrive(r, b, k, ask)
         \/ Check(r) \/ ReadBody(r) \/ Answer(r) \/ Fails(r)
    \/ \E b \in Brokers : Restart(b)
    \/ Tick

Spec == Init /\ [][Next]_vars

----------------------------------------------------------------------------
(* Properties *)

Admitted == {r \in Requests : req[r].pc \notin {"new", "keyed", "refused"}}

\* Who is sent to an upstream is admitted, and in one life of one process no
\* key is admitted more than Limit times a window, whatever its requests turn
\* out to be: "counters are per-process, so with more than one worker the real
\* limit is N x this value" (config.py:52) and they "reset on restart".
QuotaPerLife == INSTANCE WindowQuota WITH
    Keys <- Keys \X Life,
    granted <- {[req |-> r, key |-> <<req[r].key, req[r].by>>, window |-> Window(req[r].at)] :
                  r \in Admitted}

ImplementsQuotaPerLife == QuotaPerLife!Spec

\* A client that saves its requests up for the turn of the window gets no more
\* than twice the limit within the length of a window, even so.
BurstIsBounded ==
    \A k \in Keys, l \in Life, t \in 0 .. MaxTime :
        Cardinality({r \in Admitted : /\ req[r].key = k /\ req[r].by = l
                                      /\ req[r].at \in t .. t + WindowTime - 1}) <= 2 * Limit

\* On an upstream that only vLLM routes lead to, nobody is served from a prefix
\* that another tenant sent, even under another public name of the same model, or
\* with a cache_salt of the caller's own in the body, be it another tenant's.  An
\* upstream that a route of another kind leads to as well is left out: that route
\* passes the caller's cache_salt on as it is.
TenantsShareNoPrefix ==
    \A r \in Requests :
        req[r].pc = "answered" /\ OnlyVllm(Routes[req[r].model].base_url) =>
            req[r].shared \subseteq {Owner[req[r].key]}

=============================================================================
