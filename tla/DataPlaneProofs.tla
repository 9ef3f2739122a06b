-------------------------- MODULE DataPlaneProofs --------------------------
(***************************************************************************)
(* Proofs about DataPlane, for any keys, processes, routes, bodies and     *)
(* limits.                                                                 *)
(***************************************************************************)
EXTENDS DataPlane, Division, FiniteSetTheorems, TLAPS

USE KeysAssumption, RoutesAssumption, BodiesAssumption, BoundsAssumption

----------------------------------------------------------------------------
(* The invariants *)

\* The parts of TypeOK.
Types ==
    /\ now \in Nat
    /\ life \in [Brokers -> 1 .. MaxLives]
    /\ counters \in [Brokers -> [Keys \X Windows -> Nat]]
    /\ req \in [Requests -> Request]
    /\ prefixes \subseteq Prefix

OneWindow ==
    \A b \in Brokers, kw, lx \in Keys \X Windows :
        counters[b][kw] > 0 /\ counters[b][lx] > 0 => kw[2] = lx[2]

Metered ==
    \A r \in Requests : req[r].pc = "sent" /\ req[r].payload.stream => req[r].payload.usage

\* Where only vLLM routes lead, everything is kept under the salt of who sent it.
PrefixesFit == \A c \in prefixes : OnlyVllm(c.at) => c.salt = Salt(c.user)

\* A request to a vLLM carries the salt of its tenant.
Salted(x) == Routes[x.model].kind = "vllm" => x.payload.salt = Salt(Owner[x.key])

\* What is so of a request wherever it stands: its life has begun, and goes on
\* until it is counted; it was decided in the past; it is metered and salted; and
\* it shared no prefix.
Fits(x) ==
    /\ x.pc # "new" => x.by[2] <= life[x.by[1]]
    /\ x.pc = "keyed" => x.by[2] = life[x.by[1]]
    /\ x.pc \notin {"new", "keyed", "refused"} => x.at <= now
    /\ x.pc \in {"sent", "answered"} => Salted(x)
    /\ x.pc = "sent" /\ x.payload.stream => x.payload.usage
    /\ x.pc = "answered" /\ OnlyVllm(Routes[x.model].base_url) => x.shared \subseteq {Owner[x.key]}

RequestsFit == \A r \in Requests : Fits(req[r])

\* Counts are of windows that have begun.
CountsHaveBegun ==
    \A b \in Brokers, kw \in Keys \X Windows : counters[b][kw] > 0 => kw[2] <= Window(now)

AdmittedIn(k, l, w) ==
    {r \in Admitted : req[r].key = k /\ req[r].by = l /\ Window(req[r].at) = w}

\* From the window now on, a process remembers all it has admitted in this life.
AdmissionsAreCounted ==
    \A b \in Brokers, k \in Keys, w \in Windows :
        w >= Window(now) =>
            Cardinality(AdmittedIn(k, <<b, life[b]>>, w)) <= counters[b][<<k, w>>]

QuotaKept ==
    \A k \in Keys, l \in Life, w \in Nat : Cardinality(AdmittedIn(k, l, w)) <= Limit

PlaneInv == TypeOK /\ now <= MaxTime /\ CountsHaveBegun /\ RequestsFit /\ PrefixesFit

CountInv == PlaneInv /\ AdmissionsAreCounted /\ QuotaKept

----------------------------------------------------------------------------
(* Windows and requests *)

\* The window of an instant up to the last is one of the windows, and windows do
\* not go back.
LEMMA WindowFacts ==
    ASSUME NEW t \in Nat
    PROVE  /\ Window(t) \in Nat
           /\ t <= MaxTime => Window(t) \in Windows
           /\ \A s \in Nat : s <= t => Window(s) <= Window(t)
<1>1. Window(t) \in Nat
  BY DivFacts DEF Window
<1>2. t <= MaxTime => Window(t) \in Windows
  BY <1>1, DivMono, DivFacts DEF Window, Windows
<1>3. \A s \in Nat : s <= t => Window(s) <= Window(t)
  BY DivMono DEF Window
<1>4. QED
  BY <1>1, <1>2, <1>3

\* Windows are numbers.
LEMMA WindowsAreNumbers == Windows \subseteq Nat
BY DivFacts DEF Windows

OverPcs == {"refused", "listed", "bad_request", "not_found", "failed"}

\* What a request holds, by where it stands.
LEMMA Kinds ==
    ASSUME TypeOK, NEW r \in Requests
    PROVE  /\ req[r].pc \in {"new", "keyed", "admitted", "sent", "answered"} \cup OverPcs
           /\ req[r].pc = "new" => req[r] = New
           /\ req[r].pc = "keyed" =>
                req[r] \in [pc: {"keyed"}, by: Life, key: Keys, ask: Bodies \cup {NoBody, List}]
           /\ req[r].pc = "admitted" =>
                req[r] \in [pc: {"admitted"}, by: Life, key: Keys, at: Nat, ask: Bodies \cup {NoBody}]
           /\ req[r].pc \in OverPcs => req[r] \in [pc: OverPcs, by: Life, key: Keys, at: Nat]
           /\ req[r].pc \in {"sent", "answered"} =>
                req[r] \in [pc: {"sent", "answered"}, by: Life, key: Keys, at: Nat, model: Models,
                            payload: Payload, shared: SUBSET Users]
<1>1. req[r] \in Request
  BY DEF TypeOK
<1>2. QED
  BY <1>1 DEF Request, New, OverPcs

\* Who is admitted has a key, a life and a time.
LEMMA AdmittedFields ==
    ASSUME TypeOK, NEW r \in Admitted
    PROVE  r \in Requests /\ req[r].key \in Keys /\ req[r].by \in Life /\ req[r].at \in Nat
BY Kinds DEF Admitted, OverPcs

\* A finished request keeps what properties ask of it.
LEMMA OverFields ==
    ASSUME NEW r \in Requests, NEW how \in OverPcs, NEW t \in Nat,
           req[r].by \in Life, req[r].key \in Keys
    PROVE  Over(r, how, t) \in Request
BY DEF Over, Request, OverPcs

\* TypeOK is its parts, now and after a step.
LEMMA TypeParts ==
    /\ TypeOK <=> Types /\ OneWindow /\ Metered
    /\ TypeOK' <=> Types' /\ OneWindow' /\ Metered'
BY Zenon DEF TypeOK, Types, OneWindow, Metered

\* Nothing is dropped or added where the counters stay.
LEMMA OneWindowStays ==
    ASSUME OneWindow, UNCHANGED counters
    PROVE  OneWindow'
<1>1. counters' = counters
  OBVIOUS
<1>2. \A b \in Brokers : \A kw \in Keys \X Windows : \A lx \in Keys \X Windows :
        counters[b][kw] > 0 /\ counters[b][lx] > 0 => kw[2] = lx[2]
  BY DEF OneWindow
<1>3. \A b \in Brokers : \A kw \in Keys \X Windows : \A lx \in Keys \X Windows :
        counters'[b][kw] > 0 /\ counters'[b][lx] > 0 => kw[2] = lx[2]
  BY <1>1, <1>2
<1>4. QED
  BY <1>3 DEF OneWindow

\* Requests that fit are metered.
LEMMA FitsMetered == (RequestsFit => Metered) /\ (RequestsFit' => Metered')
BY Zenon DEF RequestsFit, Fits, Metered

\* Every owner is a user.
LEMMA OwnersAreUsers == \A k \in Keys : Owner[k] \in Users
BY DEF Users

----------------------------------------------------------------------------
(* The steps keep PlaneInv *)

\* A request that goes nowhere unfit leaves all requests fit.
LEMMA GoKeeps ==
    ASSUME PlaneInv, NEW r \in Requests, NEW x \in Request, Fits(x),
           req' = [req EXCEPT ![r] = x], UNCHANGED <<now, life>>
    PROVE  req' \in [Requests -> Request] /\ RequestsFit'
<1>1. req \in [Requests -> Request]
  BY DEF PlaneInv, TypeOK
<1>2. \A q \in Requests : Fits(req'[q])
  BY <1>1 DEF PlaneInv, RequestsFit
<1>3. QED
  BY <1>1, <1>2 DEF RequestsFit, Fits, Salted

\* The rest, where neither counters nor prefixes change.
LEMMA RestKeeps ==
    ASSUME PlaneInv, req' \in [Requests -> Request], RequestsFit',
           UNCHANGED <<now, life, counters, prefixes>>
    PROVE  PlaneInv'
<1>1. Types /\ OneWindow
  BY TypeParts DEF PlaneInv
<1>2. TypeOK'
  BY <1>1, TypeParts, FitsMetered, OneWindowStays DEF Types
<1>3. QED
  BY <1>2 DEF PlaneInv, CountsHaveBegun, PrefixesFit

LEMMA ArriveKeeps ==
    ASSUME PlaneInv, NEW r \in Requests, NEW b \in Brokers, NEW k \in Keys,
           NEW ask \in Bodies \cup {NoBody, List}, Arrive(r, b, k, ask)
    PROVE  PlaneInv'
<1> DEFINE x == [pc |-> "keyed", by |-> <<b, life[b]>>, key |-> k, ask |-> ask]
<1>1. life[b] \in 1 .. MaxLives
  BY DEF PlaneInv, TypeOK
<1>2. x \in Request
  BY <1>1 DEF Request, Life
<1>3. Fits(x)
  BY <1>1 DEF Fits
<1>4. req' = [req EXCEPT ![r] = x]
  BY DEF Arrive
<1> HIDE DEF x
<1>5. QED
  BY <1>2, <1>3, <1>4, GoKeeps, RestKeeps DEF Arrive

\* The payload is of the types it should be, metered and salted.
LEMMA PayloadFits ==
    ASSUME NEW x \in Bodies, NEW k \in Keys, x.model \in Models
    PROVE  LET p == BuildPayload(Routes[x.model], x, Owner[k])
           IN  /\ p \in Payload
               /\ p.stream => p.usage
               /\ Routes[x.model].kind = "vllm" => p.salt = Salt(Owner[k])
<1> DEFINE salt == SaltFor(Routes[x.model], x, Owner[k])
<1>1. Owner[k] \in Users
  BY OwnersAreUsers
<1>2. x.stream \in BOOLEAN /\ x.usage \in BOOLEAN /\ x.cache_salt \in Own \cup {None}
  OBVIOUS
<1>3. (x.stream \/ x.usage) \in BOOLEAN
  OBVIOUS
<1>4. salt \in Salts
  BY <1>1, <1>2 DEF SaltFor, Salts
<1>5. Routes[x.model].kind = "vllm" => salt = Salt(Owner[k])
  BY DEF SaltFor
<1>7. Routes[x.model].upstream_model \in UpstreamModels /\ x.prompt \in Prompts
  BY DEF UpstreamModels, Prompts
<1>8. BuildPayload(Routes[x.model], x, Owner[k])
        = [model |-> Routes[x.model].upstream_model, prompt |-> x.prompt, salt |-> salt,
           stream |-> x.stream, usage |-> x.stream \/ x.usage]
  BY DEF BuildPayload
<1> HIDE DEF salt
<1>9. BuildPayload(Routes[x.model], x, Owner[k]) \in Payload
  BY <1>2, <1>3, <1>4, <1>7, <1>8 DEF Payload
<1>10. QED
  BY <1>5, <1>8, <1>9

LEMMA ReadBodyKeeps ==
    ASSUME PlaneInv, NEW r \in Requests, ReadBody(r)
    PROVE  PlaneInv'
<1> DEFINE x == req[r].ask
<1>1. /\ req[r] \in [pc: {"admitted"}, by: Life, key: Keys, at: Nat, ask: Bodies \cup {NoBody}]
      /\ Fits(req[r])
  BY Kinds DEF PlaneInv, ReadBody, RequestsFit
<1>2. CASE \E how \in OverPcs : req' = [req EXCEPT ![r] = Over(r, how, req[r].at)]
  <2>1. PICK how \in OverPcs : req' = [req EXCEPT ![r] = Over(r, how, req[r].at)]
    BY <1>2
  <2>2. Over(r, how, req[r].at) \in Request
    BY <1>1, OverFields
  <2>3. Fits(Over(r, how, req[r].at))
    BY <1>1 DEF Fits, Over, OverPcs
  <2>4. QED
    BY <2>1, <2>2, <2>3, GoKeeps, RestKeeps DEF ReadBody
<1>3. CASE x # NoBody /\ x.model \in Models
  <2> DEFINE p == BuildPayload(Routes[x.model], x, Owner[req[r].key])
             y == [pc |-> "sent", by |-> req[r].by, key |-> req[r].key, at |-> req[r].at,
                   model |-> x.model, payload |-> p, shared |-> {}]
  <2>1. x \in Bodies /\ req[r].key \in Keys
    BY <1>1, <1>3
  <2>2. /\ p \in Payload /\ (p.stream => p.usage)
        /\ Routes[x.model].kind = "vllm" => p.salt = Salt(Owner[req[r].key])
    BY <1>3, <2>1, PayloadFits
  <2>3. req' = [req EXCEPT ![r] = y]
    BY <1>1, <1>3 DEF ReadBody
  <2> HIDE DEF p
  <2>4. y \in Request
    BY <1>1, <1>3, <2>2 DEF Request
  <2>5. Fits(y)
    BY <1>1, <2>2 DEF Fits, Salted
  <2> HIDE DEF y
  <2>6. QED
    BY <2>3, <2>4, <2>5, GoKeeps, RestKeeps DEF ReadBody
<1>4. x = NoBody \/ x.model \notin Models =>
        \E how \in {"bad_request", "not_found"} : req' = [req EXCEPT ![r] = Over(r, how, req[r].at)]
  BY <1>1 DEF ReadBody
<1>5. QED
  BY <1>2, <1>3, <1>4 DEF OverPcs

LEMMA FailsKeeps ==
    ASSUME PlaneInv, NEW r \in Requests, Fails(r)
    PROVE  PlaneInv'
<1>1. req[r].by \in Life /\ req[r].key \in Keys /\ req[r].at \in Nat /\ Fits(req[r])
  BY Kinds DEF PlaneInv, Fails, RequestsFit
<1>2. Over(r, "failed", req[r].at) \in Request
  BY <1>1, OverFields DEF OverPcs
<1>3. Fits(Over(r, "failed", req[r].at))
  BY <1>1 DEF Fits, Over, Fails
<1>4. req' = [req EXCEPT ![r] = Over(r, "failed", req[r].at)]
  BY DEF Fails
<1>5. QED
  BY <1>2, <1>3, <1>4, GoKeeps, RestKeeps DEF Fails

\* vLLM: what is found under a tenant's salt is the tenant's own.
LEMMA AnswerKeeps ==
    ASSUME PlaneInv, NEW r \in Requests, Answer(r)
    PROVE  PlaneInv'
<1> DEFINE p == req[r].payload
           u == Owner[req[r].key]
           at == Routes[req[r].model].base_url
           sent(v) == [at |-> at, model |-> p.model, prompt |-> p.prompt, salt |-> p.salt,
                       user |-> v]
           hits == {v \in Users : sent(v) \in prefixes}
           c0 == sent(u)
           y == [req[r] EXCEPT !.pc = "answered", !.shared = hits]
<1>1. /\ req[r] \in [pc: {"sent", "answered"}, by: Life, key: Keys, at: Nat, model: Models,
                      payload: Payload, shared: SUBSET Users]
      /\ req[r].pc = "sent" /\ Fits(req[r]) /\ Salted(req[r])
  BY Kinds DEF PlaneInv, Answer, RequestsFit, Fits
<1>2. u \in Users /\ p \in Payload
  BY <1>1, OwnersAreUsers
<1>3. hits \subseteq Users
  OBVIOUS
<1>4. ASSUME OnlyVllm(at)
      PROVE  p.salt = Salt(u) /\ hits \subseteq {u}
  <2>1. p.salt = Salt(u)
    BY <1>1, <1>4 DEF OnlyVllm, Salted
  <2>2. ASSUME NEW v \in hits
        PROVE  v = u
    <3>1. sent(v).at = at /\ sent(v).salt = p.salt /\ sent(v).user = v
      OBVIOUS
    <3>2. p.salt = Salt(v)
      BY <1>4, <3>1 DEF PlaneInv, PrefixesFit
    <3>3. Salt(v).tenant = v /\ Salt(u).tenant = u
      BY DEF Salt
    <3>4. QED
      BY <2>1, <3>2, <3>3
  <2>3. QED
    BY <2>1, <2>2
<1>5. c0 \in Prefix /\ c0.at = at /\ c0.salt = p.salt /\ c0.user = u
  <2>1. at \in Upstreams
    BY <1>1 DEF Upstreams
  <2>2. QED
    BY <1>1, <1>2, <2>1 DEF Prefix, Payload
<1>6. prefixes' = prefixes \cup {c0}
  BY DEF Answer
<1>7. req' = [req EXCEPT ![r] = y]
  BY <1>1 DEF Answer, PlaneInv, TypeOK
<1> HIDE DEF c0, hits, sent
<1>8. y \in [pc: {"answered"}, by: Life, key: Keys, at: Nat, model: Models,
             payload: Payload, shared: SUBSET Users]
      /\ y.by = req[r].by /\ y.key = req[r].key /\ y.at = req[r].at /\ y.model = req[r].model
      /\ y.payload = req[r].payload /\ y.shared = hits
  BY <1>1, <1>3
<1> HIDE DEF y
<1>9. y \in Request /\ Fits(y)
  <2>1. OnlyVllm(Routes[y.model].base_url) => y.shared \subseteq {Owner[y.key]}
    BY <1>4, <1>8
  <2>2. QED
    BY <1>1, <1>8, <2>1 DEF Request, Fits, Salted
<1>10. req' \in [Requests -> Request] /\ RequestsFit'
  BY <1>7, <1>9, GoKeeps DEF Answer
<1>11. PrefixesFit' /\ prefixes' \subseteq Prefix
  BY <1>4, <1>5, <1>6 DEF PlaneInv, PrefixesFit, TypeOK
<1>12. Types /\ OneWindow
  BY TypeParts DEF PlaneInv
<1>13. TypeOK'
  <2>1. Types' /\ OneWindow'
    BY <1>10, <1>11, <1>12, OneWindowStays DEF Types, Answer
  <2>2. QED
    BY <1>10, <2>1, TypeParts, FitsMetered
<1>14. QED
  BY <1>10, <1>11, <1>13 DEF PlaneInv, CountsHaveBegun, Answer

\* Request r is counted: with key k, by process b, in window w.  The counts of
\* older windows go, its own goes up, and that is all.
CountedAs(r, b, k, w) ==
    /\ b \in Brokers /\ k \in Keys /\ w \in Windows /\ w \in Nat
    /\ req[r].pc = "keyed" /\ req[r].by \in Life
    /\ counters[b] \in [Keys \X Windows -> Nat]
    /\ counters' \in [Brokers -> [Keys \X Windows -> Nat]]
    /\ counters'[b][<<k, w>>] = counters[b][<<k, w>>] + 1
    /\ \A lx \in Keys \X Windows : lx # <<k, w>> =>
         counters'[b][lx] = IF lx[2] < w THEN 0 ELSE counters[b][lx]
    /\ \A c \in Brokers : c # b => counters'[c] = counters[c]

\* What a check does to the counters.
LEMMA CheckCounts ==
    ASSUME PlaneInv, NEW r \in Requests, Check(r)
    PROVE  CountedAs(r, req[r].by[1], req[r].key, Window(now))
<1> DEFINE b == req[r].by[1]
           w == Window(now)
           k == req[r].key
<1> DEFINE cur == Current(counters[b], w)
           new == [cur EXCEPT ![<<k, w>>] = cur[<<k, w>>] + 1]
<1>1. /\ req[r] \in [pc: {"keyed"}, by: Life, key: Keys, ask: Bodies \cup {NoBody, List}]
      /\ now \in Nat /\ now <= MaxTime /\ counters \in [Brokers -> [Keys \X Windows -> Nat]]
  BY Kinds DEF PlaneInv, TypeOK, Check
<1>2. b \in Brokers /\ k \in Keys /\ w \in Windows /\ w \in Nat
  BY <1>1, WindowFacts DEF Life
<1>3. counters[b] \in [Keys \X Windows -> Nat]
  BY <1>1, <1>2
<1> HIDE DEF b, w, k
<1>4. /\ cur \in [Keys \X Windows -> Nat]
      /\ \A lx \in Keys \X Windows : cur[lx] = IF lx[2] < w THEN 0 ELSE counters[b][lx]
  BY <1>3 DEF Current
<1>5. counters' = [counters EXCEPT ![b] = new]
  BY DEF Check, b, w, k
<1>6. <<k, w>> \in Keys \X Windows /\ <<k, w>>[2] = w
  BY <1>2
<1>7. cur[<<k, w>>] = counters[b][<<k, w>>]
  BY <1>2, <1>4, <1>6
<1> HIDE DEF cur
<1>8. /\ new \in [Keys \X Windows -> Nat] /\ new[<<k, w>>] = counters[b][<<k, w>>] + 1
      /\ \A lx \in Keys \X Windows : lx # <<k, w>> => new[lx] = cur[lx]
  BY <1>3, <1>4, <1>6, <1>7
<1> HIDE DEF new
<1>9. /\ counters' \in [Brokers -> [Keys \X Windows -> Nat]] /\ counters'[b] = new
      /\ \A c \in Brokers : c # b => counters'[c] = counters[c]
  BY <1>1, <1>2, <1>5, <1>8
<1>10. /\ counters'[b][<<k, w>>] = counters[b][<<k, w>>] + 1
       /\ \A lx \in Keys \X Windows : lx # <<k, w>> =>
            counters'[b][lx] = IF lx[2] < w THEN 0 ELSE counters[b][lx]
  BY <1>4, <1>8, <1>9
<1>11. QED
  <2>1. CountedAs(r, b, k, w)
    BY <1>1, <1>2, <1>3, <1>9, <1>10 DEF CountedAs
  <2>2. QED
    BY <2>1 DEF b, k, w

\* And how it decides.
LEMMA CheckDecides ==
    ASSUME PlaneInv, NEW r \in Requests, Check(r)
    PROVE  \E x \in Request :
             /\ req' = [req EXCEPT ![r] = x] /\ x.pc # "new"
             /\ x.by = req[r].by /\ x.key = req[r].key /\ x.at = now
             /\ x.pc \in {"refused", "listed", "admitted"}
             /\ x.pc = "refused" <=> counters[req[r].by[1]][<<req[r].key, Window(now)>>] + 1 > Limit
<1> DEFINE b == req[r].by[1]
           kw == <<req[r].key, Window(now)>>
           count == Current(counters[b], Window(now))[kw] + 1
           go == [pc |-> "admitted", by |-> req[r].by, key |-> req[r].key, at |-> now,
                  ask |-> req[r].ask]
<1>1. /\ req[r] \in [pc: {"keyed"}, by: Life, key: Keys, ask: Bodies \cup {NoBody, List}]
      /\ now \in Nat /\ req \in [Requests -> Request]
  BY Kinds DEF PlaneInv, TypeOK, Check
<1>2. count = counters[b][kw] + 1
  <2>1. kw \in Keys \X Windows /\ kw[2] = Window(now) /\ Window(now) \in Nat
    BY <1>1, WindowFacts DEF PlaneInv
  <2> HIDE DEF kw
  <2>2. QED
    BY <2>1 DEF Current
<1> HIDE DEF count
<1>3. req' = [req EXCEPT ![r] = IF TooMany(count) THEN Over(r, "refused", now)
                                ELSE IF req[r].ask = List THEN Over(r, "listed", now) ELSE go]
  BY <1>1 DEF Check, count
<1>4. CASE TooMany(count)
  <2>1. Over(r, "refused", now) \in Request
    BY <1>1, OverFields DEF OverPcs
  <2>2. count > Limit /\ req' = [req EXCEPT ![r] = Over(r, "refused", now)]
    BY <1>3, <1>4 DEF TooMany
  <2>3. QED
    BY <1>2, <2>1, <2>2 DEF Over
<1>5. CASE ~TooMany(count) /\ req[r].ask = List
  <2>1. Over(r, "listed", now) \in Request
    BY <1>1, OverFields DEF OverPcs
  <2>2. ~(count > Limit) /\ req' = [req EXCEPT ![r] = Over(r, "listed", now)]
    BY <1>3, <1>5 DEF TooMany
  <2>3. QED
    BY <1>2, <2>1, <2>2 DEF Over
<1>6. CASE ~TooMany(count) /\ req[r].ask # List
  <2>1. go \in Request
    BY <1>1, <1>6 DEF Request
  <2>2. ~(count > Limit) /\ req' = [req EXCEPT ![r] = go]
    BY <1>3, <1>6 DEF TooMany
  <2>3. QED
    BY <1>2, <2>1, <2>2
<1>7. QED
  BY <1>4, <1>5, <1>6

LEMMA CheckKeeps ==
    ASSUME PlaneInv, NEW r \in Requests, Check(r)
    PROVE  PlaneInv'
<1> DEFINE b == req[r].by[1]
           k == req[r].key
           w == Window(now)
<1>0. CountedAs(r, b, k, w) /\ w = Window(now)
  BY CheckCounts
<1> HIDE DEF b, k, w
<1>1. /\ b \in Brokers /\ w \in Nat
      /\ counters' \in [Brokers -> [Keys \X Windows -> Nat]]
      /\ \A lx \in Keys \X Windows : lx # <<k, w>> =>
           counters'[b][lx] = IF lx[2] < w THEN 0 ELSE counters[b][lx]
      /\ \A c \in Brokers : c # b => counters'[c] = counters[c]
  BY <1>0 DEF CountedAs
<1>2. PICK x \in Request :
        /\ req' = [req EXCEPT ![r] = x] /\ x.by = req[r].by /\ x.at = now
        /\ x.pc \in {"refused", "listed", "admitted"}
  BY CheckDecides
<1>3. Fits(req[r]) /\ req[r].pc = "keyed" /\ now \in Nat
  BY DEF PlaneInv, RequestsFit, Check, TypeOK
<1>4. Fits(x)
  BY <1>2, <1>3 DEF Fits
<1>5. req' \in [Requests -> Request] /\ RequestsFit'
  BY <1>2, <1>4, GoKeeps DEF Check
<1>6. Types /\ OneWindow /\ CountsHaveBegun /\ PrefixesFit
  BY TypeParts DEF PlaneInv
<1>7. \A lx \in Keys \X Windows : lx[2] \in Nat /\ (counters[b][lx] > 0 => lx[2] <= w)
  BY <1>0, <1>1, <1>6, WindowsAreNumbers DEF CountsHaveBegun
<1>8. \A lx \in Keys \X Windows : counters'[b][lx] > 0 => lx[2] = w
  <2> SUFFICES ASSUME NEW lx \in Keys \X Windows, counters'[b][lx] > 0
               PROVE  lx[2] = w
    OBVIOUS
  <2>1. CASE lx = <<k, w>>
    BY <2>1
  <2>2. CASE lx # <<k, w>>
    <3>1. counters'[b][lx] = IF lx[2] < w THEN 0 ELSE counters[b][lx]
      BY <1>1, <2>2
    <3>2. ~(lx[2] < w) /\ counters[b][lx] > 0
      BY <3>1
    <3>3. lx[2] \in Nat /\ lx[2] <= w
      BY <1>7, <3>2
    <3>4. \A i, j \in Nat : i <= j /\ ~(i < j) => i = j
      OBVIOUS
    <3>5. QED
      BY <1>1, <3>2, <3>3, <3>4, Zenon
  <2>3. QED
    BY <2>1, <2>2
<1>9. OneWindow'
  <2>1. \A c \in Brokers : \A kx \in Keys \X Windows : \A lx \in Keys \X Windows :
          counters[c][kx] > 0 /\ counters[c][lx] > 0 => kx[2] = lx[2]
    BY <1>6 DEF OneWindow
  <2>2. \A c \in Brokers : \A kx \in Keys \X Windows : \A lx \in Keys \X Windows :
          counters'[c][kx] > 0 /\ counters'[c][lx] > 0 => kx[2] = lx[2]
    BY <1>1, <1>8, <2>1
  <2>3. QED
    BY <2>2 DEF OneWindow
<1>10. CountsHaveBegun'
  <2>1. \A c \in Brokers : \A lx \in Keys \X Windows : counters'[c][lx] > 0 => lx[2] <= w
    <3> SUFFICES ASSUME NEW c \in Brokers, NEW lx \in Keys \X Windows, counters'[c][lx] > 0
                 PROVE  lx[2] <= w
      OBVIOUS
    <3>1. CASE c = b
      BY <1>1, <1>8, <3>1
    <3>2. CASE c # b
      BY <1>0, <1>1, <1>6, <3>2 DEF CountsHaveBegun
    <3>3. QED
      BY <3>1, <3>2
  <2>2. Window(now)' = w
    BY <1>0 DEF Check, Window
  <2>3. QED
    BY <2>1, <2>2, Zenon DEF CountsHaveBegun
<1>11. Types' /\ PrefixesFit'
  BY <1>1, <1>5, <1>6 DEF Types, PrefixesFit, Check
<1>12. TypeOK'
  BY <1>5, <1>9, <1>11, TypeParts, FitsMetered
<1>13. QED
  BY <1>5, <1>10, <1>11, <1>12 DEF PlaneInv, Check

LEMMA TickKeeps ==
    ASSUME PlaneInv, Tick
    PROVE  PlaneInv'
<1>1. now \in Nat /\ now' = now + 1 /\ now' <= MaxTime
      /\ UNCHANGED <<life, counters, req, prefixes>>
  BY DEF PlaneInv, TypeOK, Tick
<1>2. Types /\ OneWindow /\ CountsHaveBegun /\ PrefixesFit /\ RequestsFit
  BY TypeParts DEF PlaneInv
<1>3. RequestsFit'
  <2>1. \A r \in Requests : r \in Admitted => req[r].at \in Nat
    BY AdmittedFields DEF PlaneInv
  <2>2. ASSUME NEW r \in Requests
        PROVE  Fits(req[r])'
    BY <1>1, <1>2, <2>1 DEF RequestsFit, Fits, Salted, Admitted
  <2>3. QED
    BY <2>2 DEF RequestsFit
<1>4. CountsHaveBegun'
  <2>1. Window(now) \in Nat /\ Window(now') \in Nat /\ Window(now) <= Window(now')
    BY <1>1, WindowFacts
  <2>2. ASSUME NEW b \in Brokers, NEW kw \in Keys \X Windows, counters[b][kw] > 0
        PROVE  kw[2] <= Window(now')
    <3>1. kw[2] <= Window(now) /\ kw[2] \in Nat
      BY <1>2, <2>2, WindowsAreNumbers DEF CountsHaveBegun
    <3>2. QED
      BY <2>1, <3>1
  <2>3. Window(now)' = Window(now')
    BY DEF Window
  <2>4. QED
    BY <1>1, <2>2, <2>3 DEF CountsHaveBegun
<1>5. Types' /\ PrefixesFit' /\ OneWindow'
  <2>1. Types'
    <3>1. now' \in Nat
      BY <1>1
    <3>2. QED
      BY <1>1, <1>2, <3>1 DEF Types
  <2>2. PrefixesFit'
    BY <1>1, <1>2 DEF PrefixesFit
  <2>3. QED
    BY <1>1, <1>2, <2>1, <2>2, OneWindowStays
<1>6. TypeOK'
  BY <1>3, <1>5, TypeParts, FitsMetered
<1>7. QED
  BY <1>1, <1>3, <1>4, <1>5, <1>6 DEF PlaneInv

LEMMA RestartKeeps ==
    ASSUME PlaneInv, NEW b \in Brokers, Restart(b)
    PROVE  PlaneInv'
<1>1. Types /\ OneWindow /\ CountsHaveBegun /\ PrefixesFit /\ RequestsFit
  BY TypeParts DEF PlaneInv
<1>2. /\ life' \in [Brokers -> 1 .. MaxLives] /\ life'[b] = life[b] + 1 /\ life[b] \in Nat
      /\ \A c \in Brokers : c # b => life'[c] = life[c]
  BY <1>1 DEF Types, Restart
<1>3. \A c \in Brokers : life[c] \in Nat /\ life'[c] \in Nat /\ life[c] <= life'[c]
  BY <1>1, <1>2 DEF Types
<1>4. ASSUME NEW r \in Requests
      PROVE  req'[r] \in Request /\ Fits(req[r])'
  <2>1. Fits(req[r]) /\ req[r] \in Request /\ UNCHANGED now
    BY <1>1 DEF RequestsFit, Types, Restart
  <2>2. CASE req[r].pc = "keyed" /\ req[r].by[1] = b
    <3>1. req'[r] = New
      BY <2>2 DEF Restart
    <3>2. QED
      BY <3>1 DEF New, Request, Fits
  <2>3. CASE req[r].pc \in {"admitted", "sent"} /\ req[r].by[1] = b
    <3>1. req'[r] = Over(r, "failed", req[r].at)
      BY <2>3 DEF Restart
    <3>2. req[r].by \in Life /\ req[r].key \in Keys /\ req[r].at \in Nat
      BY <2>3, Kinds DEF PlaneInv
    <3>3. req'[r] \in Request
      BY <3>1, <3>2, OverFields DEF OverPcs
    <3>4. req'[r].pc = "failed" /\ req'[r].by = req[r].by /\ req'[r].at = req[r].at
      BY <3>1 DEF Over
    <3>5. req[r].by[2] <= life'[req[r].by[1]]
      BY <1>2, <1>3, <2>1, <2>3, <3>2 DEF Fits, Life
    <3>6. QED
      BY <2>1, <2>3, <3>3, <3>4, <3>5 DEF Fits
  <2>4. CASE ~(req[r].pc \in {"keyed", "admitted", "sent"} /\ req[r].by[1] = b)
    <3>1. req'[r] = req[r]
      BY <2>4 DEF Restart
    <3>2. req[r].pc # "new" => req[r].by \in Life
      BY Kinds DEF PlaneInv, OverPcs
    <3>3. req[r].pc # "new" => req[r].by[2] <= life'[req[r].by[1]]
      BY <1>2, <1>3, <2>1, <3>2 DEF Fits, Life
    <3>4. req[r].pc = "keyed" => req[r].by[2] = life'[req[r].by[1]]
      BY <1>2, <2>1, <2>4, <3>2 DEF Fits, Life
    <3>5. QED
      BY <2>1, <3>1, <3>3, <3>4 DEF Fits, Salted
  <2>5. QED
    BY <2>2, <2>3, <2>4
<1>5. req' \in [Requests -> Request] /\ RequestsFit'
  BY <1>4 DEF RequestsFit, Restart
<1>6. counters' = [counters EXCEPT ![b] = NoCounts] /\ NoCounts \in [Keys \X Windows -> Nat]
      /\ \A kw \in Keys \X Windows : NoCounts[kw] = 0
  BY DEF Restart, NoCounts
<1>7. counters' \in [Brokers -> [Keys \X Windows -> Nat]]
      /\ \A c \in Brokers, kw \in Keys \X Windows : counters'[c][kw] > 0 =>
           counters'[c][kw] = counters[c][kw]
  BY <1>1, <1>6 DEF Types
<1>8. OneWindow'
  <2>1. \A c \in Brokers : \A kx \in Keys \X Windows : \A lx \in Keys \X Windows :
          counters[c][kx] > 0 /\ counters[c][lx] > 0 => kx[2] = lx[2]
    BY <1>1 DEF OneWindow
  <2>2. \A c \in Brokers : \A kx \in Keys \X Windows : \A lx \in Keys \X Windows :
          counters'[c][kx] > 0 /\ counters'[c][lx] > 0 => kx[2] = lx[2]
    BY <1>7, <2>1
  <2>3. QED
    BY <2>2 DEF OneWindow
<1>9. CountsHaveBegun'
  <2>1. \A c \in Brokers, kw \in Keys \X Windows : counters'[c][kw] > 0 => kw[2] <= Window(now)
    BY <1>1, <1>7 DEF CountsHaveBegun
  <2>2. now' = now
    BY DEF Restart
  <2>3. QED
    BY <2>1, <2>2 DEF CountsHaveBegun
<1>10. Types' /\ PrefixesFit'
  BY <1>1, <1>2, <1>5, <1>7 DEF Types, PrefixesFit, Restart
<1>11. TypeOK'
  BY <1>5, <1>8, <1>10, TypeParts, FitsMetered
<1>12. QED
  BY <1>5, <1>9, <1>10, <1>11 DEF PlaneInv, Restart

\* PlaneInv holds in every reachable state.
THEOREM PlaneInvariance == Spec => []PlaneInv
<1>1. Init => PlaneInv
  <2> SUFFICES ASSUME Init
               PROVE  PlaneInv
    OBVIOUS
  <2>1. NoCounts \in [Keys \X Windows -> Nat] /\ \A kw \in Keys \X Windows : NoCounts[kw] = 0
    BY DEF NoCounts
  <2>2. Types
    BY <2>1 DEF Init, Types, Request, Prefix
  <2>3. RequestsFit
    BY DEF Init, RequestsFit, Fits, New
  <2>4. \A b \in Brokers, kw \in Keys \X Windows : counters[b][kw] = 0
    BY <2>1 DEF Init
  <2>5. OneWindow /\ CountsHaveBegun
    BY <2>4 DEF OneWindow, CountsHaveBegun
  <2>6. QED
    BY <2>2, <2>3, <2>5, TypeParts, FitsMetered DEF PlaneInv, PrefixesFit, Init
<1>2. PlaneInv /\ [Next]_vars => PlaneInv'
  <2> SUFFICES ASSUME PlaneInv, [Next]_vars
               PROVE  PlaneInv'
    OBVIOUS
  <2>1. ASSUME NEW r \in Requests, NEW b \in Brokers, NEW k \in Keys,
               NEW ask \in Bodies \cup {NoBody, List}, Arrive(r, b, k, ask)
        PROVE  PlaneInv'
    BY <2>1, ArriveKeeps
  <2>2. ASSUME NEW r \in Requests, Check(r) \/ ReadBody(r) \/ Answer(r) \/ Fails(r)
        PROVE  PlaneInv'
    BY <2>2, CheckKeeps, ReadBodyKeeps, AnswerKeeps, FailsKeeps
  <2>3. ASSUME NEW b \in Brokers, Restart(b)
        PROVE  PlaneInv'
    BY <2>3, RestartKeeps
  <2>4. CASE Tick
    BY <2>4, TickKeeps
  <2>5. CASE UNCHANGED vars
    <3>1. req' \in [Requests -> Request] /\ RequestsFit'
      BY <2>5 DEF vars, PlaneInv, TypeOK, RequestsFit, Fits, Salted
    <3>2. QED
      BY <2>5, <3>1, RestKeeps DEF vars
  <2>6. QED
    BY <2>1, <2>2, <2>3, <2>4, <2>5 DEF Next
<1>3. QED
  BY <1>1, <1>2, PTL DEF Spec

\* Every variable has its type, a process remembers the counts of one window, and
\* a stream is sent with its usage asked for.
THEOREM PlaneTypeCorrect == Spec => []TypeOK
<1>1. PlaneInv => TypeOK
  BY DEF PlaneInv
<1>2. QED
  BY <1>1, PlaneInvariance, PTL

\* build_payload (upstream.py): with the salt of its tenant on every request to a
\* vLLM, no prefix that one tenant sent serves another, whatever cache_salt they
\* put into their bodies, on an upstream that only vLLM routes lead to.
THEOREM TenantsNeverShareAPrefix == Spec => []TenantsShareNoPrefix
<1>1. PlaneInv => TenantsShareNoPrefix
  BY DEF PlaneInv, RequestsFit, Fits, TenantsShareNoPrefix
<1>2. QED
  BY <1>1, PlaneInvariance, PTL

----------------------------------------------------------------------------
(* Who is admitted *)

\* What is so of q's admission still is.
Kept(q) == req'[q].key = req[q].key /\ req'[q].by = req[q].by /\ req'[q].at = req[q].at

\* Nobody is admitted anew, and nothing about those admitted is forgotten.
SameAdmitted == Admitted' = Admitted /\ \A q \in Admitted : Kept(q)

\* r alone is admitted anew, with key k, by life l, in window w.
AdmitsOne(r, k, l, w) ==
    /\ r \in Requests \ Admitted /\ Admitted' = Admitted \cup {r}
    /\ \A q \in Admitted : Kept(q)
    /\ req'[r].key = k /\ req'[r].by = l /\ Window(req'[r].at) = w

\* Whoever is admitted stays so while one request goes on.
LEMMA GoSame ==
    ASSUME PlaneInv, NEW r \in Requests, NEW x, req' = [req EXCEPT ![r] = x],
           \/ r \notin Admitted /\ x.pc \in {"new", "keyed", "refused"}
           \/ /\ r \in Admitted /\ x.pc \notin {"new", "keyed", "refused"}
              /\ x.key = req[r].key /\ x.by = req[r].by /\ x.at = req[r].at
    PROVE  SameAdmitted
<1>1. req'[r] = x /\ \A q \in Requests : q # r => req'[q] = req[q]
  BY DEF PlaneInv, TypeOK
<1>2. \A q \in Requests : q \in Admitted' <=> q \in Admitted
  BY <1>1 DEF Admitted
<1>3. Admitted \subseteq Requests /\ Admitted' \subseteq Requests
  BY DEF Admitted
<1>4. \A q \in Admitted : Kept(q)
  BY <1>1, <1>3 DEF Kept, Admitted
<1>5. QED
  BY <1>2, <1>3, <1>4 DEF SameAdmitted

\* Every step but a check admits nobody.
LEMMA OthersAdmitNobody ==
    ASSUME PlaneInv, [Next]_vars, \A r \in Requests : ~Check(r)
    PROVE  SameAdmitted
<1>1. ASSUME NEW r \in Requests, NEW b \in Brokers, NEW k \in Keys,
             NEW ask \in Bodies \cup {NoBody, List}, Arrive(r, b, k, ask)
      PROVE  SameAdmitted
  <2>1. r \notin Admitted
    BY <1>1 DEF Arrive, Admitted, New
  <2>2. QED
    BY <1>1, <2>1, GoSame DEF Arrive
<1>2. ASSUME NEW r \in Requests, req[r].pc \in {"admitted", "sent"},
             NEW how \in OverPcs \ {"refused"}, req' = [req EXCEPT ![r] = Over(r, how, req[r].at)]
      PROVE  SameAdmitted
  <2>1. r \in Admitted
    BY <1>2 DEF Admitted
  <2>2. /\ Over(r, how, req[r].at).pc \notin {"new", "keyed", "refused"}
        /\ Over(r, how, req[r].at).key = req[r].key /\ Over(r, how, req[r].at).by = req[r].by
        /\ Over(r, how, req[r].at).at = req[r].at
    BY <1>2 DEF Over, OverPcs
  <2>3. QED
    BY <1>2, <2>1, <2>2, GoSame
<1>3. ASSUME NEW r \in Requests, ReadBody(r)
      PROVE  SameAdmitted
  <2> DEFINE x == req[r].ask
             y == [pc |-> "sent", by |-> req[r].by, key |-> req[r].key, at |-> req[r].at,
                   model |-> x.model,
                   payload |-> BuildPayload(Routes[x.model], x, Owner[req[r].key]), shared |-> {}]
  <2>1. req[r].pc = "admitted" /\ r \in Admitted
    BY <1>3 DEF ReadBody, Admitted
  <2>2. CASE \E how \in {"bad_request", "not_found"} : req' = [req EXCEPT ![r] = Over(r, how, req[r].at)]
    BY <1>2, <2>1, <2>2 DEF OverPcs
  <2>3. CASE req' = [req EXCEPT ![r] = y]
    BY <2>1, <2>3, GoSame
  <2>4. req \in [Requests -> Request]
    BY DEF PlaneInv, TypeOK
  <2>5. QED
    BY <1>3, <2>2, <2>3, <2>4 DEF ReadBody
<1>4. ASSUME NEW r \in Requests, Answer(r)
      PROVE  SameAdmitted
  <2> DEFINE p == req[r].payload
             sent(v) == [at |-> Routes[req[r].model].base_url, model |-> p.model,
                         prompt |-> p.prompt, salt |-> p.salt, user |-> v]
             hits == {v \in Users : sent(v) \in prefixes}
             y == [req[r] EXCEPT !.pc = "answered", !.shared = hits]
  <2>1. /\ req[r] \in [pc: {"sent", "answered"}, by: Life, key: Keys, at: Nat, model: Models,
                        payload: Payload, shared: SUBSET Users]
        /\ r \in Admitted /\ req \in [Requests -> Request]
    BY <1>4, Kinds DEF PlaneInv, TypeOK, Answer, Admitted
  <2>2. req' = [req EXCEPT ![r] = y]
    BY <1>4, <2>1 DEF Answer
  <2> HIDE DEF hits
  <2>3. y.pc = "answered" /\ y.key = req[r].key /\ y.by = req[r].by /\ y.at = req[r].at
    BY <2>1
  <2> HIDE DEF y
  <2>4. QED
    BY <2>1, <2>2, <2>3, GoSame
<1>5. ASSUME NEW r \in Requests, Fails(r)
      PROVE  SameAdmitted
  BY <1>2, <1>5 DEF Fails, OverPcs
<1>6. ASSUME NEW b \in Brokers, Restart(b)
      PROVE  SameAdmitted
  <2>1. ASSUME NEW q \in Requests
        PROVE  (q \in Admitted' <=> q \in Admitted) /\ (q \in Admitted => Kept(q))
    <3>1. CASE req[q].pc = "keyed" /\ req[q].by[1] = b
      <4>1. req'[q] = New
        BY <1>6, <3>1 DEF Restart
      <4>2. QED
        BY <3>1, <4>1 DEF Admitted, New
    <3>2. CASE req[q].pc \in {"admitted", "sent"} /\ req[q].by[1] = b
      <4>1. req'[q] = Over(q, "failed", req[q].at)
        BY <1>6, <3>2 DEF Restart
      <4>2. QED
        BY <3>2, <4>1 DEF Admitted, Over, Kept
    <3>3. CASE ~(req[q].pc \in {"keyed", "admitted", "sent"} /\ req[q].by[1] = b)
      <4>1. req'[q] = req[q]
        BY <1>6, <3>3 DEF Restart
      <4>2. QED
        BY <4>1 DEF Admitted, Kept
    <3>4. QED
      BY <3>1, <3>2, <3>3
  <2>2. Admitted \subseteq Requests /\ Admitted' \subseteq Requests
    BY DEF Admitted
  <2>3. QED
    BY <2>1, <2>2 DEF SameAdmitted
<1>7. CASE UNCHANGED req
  BY <1>7 DEF SameAdmitted, Admitted, Kept
<1>8. QED
  BY <1>1, <1>3, <1>4, <1>5, <1>6, <1>7 DEF Next, Tick, vars

\* A check admits its request, and nobody else, if its count is within the limit.
LEMMA CheckAdmits ==
    ASSUME PlaneInv, NEW r \in Requests, Check(r), ~SameAdmitted
    PROVE  /\ AdmitsOne(r, req[r].key, req[r].by, Window(now))
           /\ counters[req[r].by[1]][<<req[r].key, Window(now)>>] + 1 <= Limit
<1>1. PICK x \in Request :
        /\ req' = [req EXCEPT ![r] = x]
        /\ x.by = req[r].by /\ x.key = req[r].key /\ x.at = now
        /\ x.pc \in {"refused", "listed", "admitted"}
        /\ x.pc = "refused" <=> counters[req[r].by[1]][<<req[r].key, Window(now)>>] + 1 > Limit
  BY CheckDecides
<1>2. req[r].pc = "keyed" /\ r \notin Admitted
  BY DEF Check, Admitted
<1>3. x.pc # "refused"
  BY <1>1, <1>2, GoSame
<1>4. counters[req[r].by[1]][<<req[r].key, Window(now)>>] \in Nat
  BY CheckCounts DEF CountedAs
<1>5. counters[req[r].by[1]][<<req[r].key, Window(now)>>] + 1 <= Limit
  BY <1>1, <1>3, <1>4
<1>6. req'[r] = x /\ \A q \in Requests : q # r => req'[q] = req[q]
  BY <1>1 DEF PlaneInv, TypeOK
<1>7. Admitted' = Admitted \cup {r}
  BY <1>1, <1>3, <1>6 DEF Admitted
<1>8. \A q \in Admitted : Kept(q)
  BY <1>2, <1>6 DEF Admitted, Kept
<1>9. QED
  BY <1>1, <1>2, <1>5, <1>6, <1>7, <1>8 DEF AdmitsOne

\* So the admitted of a window stay the same, or one comes to them.
LEMMA AdmittedInStays ==
    ASSUME SameAdmitted, NEW k, NEW l, NEW w
    PROVE  AdmittedIn(k, l, w)' = AdmittedIn(k, l, w)
BY DEF SameAdmitted, AdmittedIn, Kept, Window

LEMMA AdmittedInGrows ==
    ASSUME NEW r, NEW k, NEW l, NEW w, AdmitsOne(r, k, l, w), NEW k2, NEW l2, NEW w2
    PROVE  AdmittedIn(k2, l2, w2)' = IF k2 = k /\ l2 = l /\ w2 = w
                                      THEN AdmittedIn(k, l, w) \cup {r}
                                      ELSE AdmittedIn(k2, l2, w2)
<1>1. \A q : q \in AdmittedIn(k2, l2, w2)' <=>
        q \in Admitted' /\ req'[q].key = k2 /\ req'[q].by = l2 /\ Window(req'[q].at) = w2
  BY DEF AdmittedIn, Window
<1>2. \A q : q \in AdmittedIn(k2, l2, w2)' <=>
        q \in AdmittedIn(k2, l2, w2) \/ (q = r /\ k2 = k /\ l2 = l /\ w2 = w)
  BY <1>1 DEF AdmitsOne, AdmittedIn, Kept, Window
<1>3. QED
  BY <1>2

\* The admitted of a window are finitely many.
LEMMA AdmittedAreFinite ==
    ASSUME NEW k, NEW l, NEW w
    PROVE  IsFiniteSet(AdmittedIn(k, l, w)) /\ Cardinality(AdmittedIn(k, l, w)) \in Nat
<1>1. AdmittedIn(k, l, w) \in SUBSET Requests
  BY DEF AdmittedIn, Admitted
<1>2. IsFiniteSet(AdmittedIn(k, l, w))
  BY <1>1, FS_Subset
<1>3. QED
  BY <1>2, FS_CardinalityType

----------------------------------------------------------------------------
(* The quota *)

\* Lives and windows only go on, and a life ends in no check.
LEMMA LivesGoOn ==
    ASSUME PlaneInv, [Next]_vars
    PROVE  /\ \A b \in Brokers : life'[b] = life[b] \/ life'[b] = life[b] + 1
           /\ now \in Nat /\ now' \in Nat /\ now <= now'
           /\ \A r \in Requests : Check(r) => UNCHANGED <<life, now>>
<1>1. Types
  BY TypeParts DEF PlaneInv
<1>2. \A r \in Requests : Check(r) => UNCHANGED <<life, now>>
  BY DEF Check
<1>3. \A b \in Brokers : life'[b] = life[b] \/ life'[b] = life[b] + 1
  <2>1. ASSUME NEW c \in Brokers, Restart(c)
        PROVE  \A b \in Brokers : life'[b] = life[b] \/ life'[b] = life[b] + 1
    BY <1>1, <2>1 DEF Restart, Types
  <2>2. (\A c \in Brokers : ~Restart(c)) => UNCHANGED life
    BY DEF Next, Arrive, Check, ReadBody, Answer, Fails, Tick, vars
  <2>3. QED
    BY <2>1, <2>2
<1>4. UNCHANGED now \/ now' = now + 1
  BY DEF Next, Arrive, Check, ReadBody, Answer, Fails, Restart, Tick, vars
<1>5. QED
  BY <1>1, <1>2, <1>3, <1>4 DEF Types

\* In one life, what a process has counted in the window now or a later one it
\* does not forget.
LEMMA CountsLast ==
    ASSUME PlaneInv, [Next]_vars, NEW b \in Brokers, life'[b] = life[b],
           NEW k \in Keys, NEW w \in Windows, w >= Window(now)
    PROVE  /\ counters[b][<<k, w>>] \in Nat /\ counters'[b][<<k, w>>] \in Nat
           /\ counters[b][<<k, w>>] <= counters'[b][<<k, w>>]
<1>1. Types
  BY TypeParts DEF PlaneInv
<1>2. counters[b][<<k, w>>] \in Nat /\ <<k, w>> \in Keys \X Windows /\ <<k, w>>[2] = w
      /\ w \in Nat /\ Window(now) \in Nat
  BY <1>1, WindowsAreNumbers, WindowFacts DEF Types
<1>3. ASSUME NEW r \in Requests, Check(r)
      PROVE  \/ counters'[b][<<k, w>>] = counters[b][<<k, w>>]
             \/ counters'[b][<<k, w>>] = counters[b][<<k, w>>] + 1
  <2> DEFINE c == req[r].by[1]
             j == req[r].key
             v == Window(now)
  <2>1. CountedAs(r, c, j, v) /\ ~(w < v)
    BY <1>2, <1>3, CheckCounts
  <2> HIDE DEF c, j, v
  <2>2. CASE c = b /\ <<k, w>> = <<j, v>>
    BY <2>1, <2>2 DEF CountedAs
  <2>3. CASE c = b /\ <<k, w>> # <<j, v>>
    BY <1>2, <2>1, <2>3 DEF CountedAs
  <2>4. CASE c # b
    BY <2>1, <2>4 DEF CountedAs
  <2>5. QED
    BY <2>2, <2>3, <2>4
<1>4. ASSUME NEW c \in Brokers, Restart(c)
      PROVE  counters'[b] = counters[b]
  <2>1. life'[c] = life[c] + 1 /\ life[c] \in Nat
    BY <1>1, <1>4 DEF Restart, Types
  <2>2. c # b
    BY <2>1
  <2>3. QED
    BY <1>1, <1>4, <2>2 DEF Restart, Types
<1>5. (\A r \in Requests : ~Check(r)) /\ (\A c \in Brokers : ~Restart(c)) => UNCHANGED counters
  BY DEF Next, Arrive, ReadBody, Answer, Fails, Tick, vars
<1>6. \/ counters'[b][<<k, w>>] = counters[b][<<k, w>>]
      \/ counters'[b][<<k, w>>] = counters[b][<<k, w>>] + 1
  BY <1>3, <1>4, <1>5
<1>7. QED
  BY <1>2, <1>6

\* A life that has not begun has admitted nobody.
LEMMA FutureIsEmpty ==
    ASSUME PlaneInv, NEW b \in Brokers, NEW n \in Nat, life[b] < n, NEW k, NEW w
    PROVE  AdmittedIn(k, <<b, n>>, w) = {}
<1>1. ASSUME NEW q \in AdmittedIn(k, <<b, n>>, w)
      PROVE  FALSE
  <2>1. q \in Requests /\ req[q].by = <<b, n>> /\ req[q].pc # "new"
    BY <1>1 DEF AdmittedIn, Admitted
  <2>2. req[q].by[2] <= life[req[q].by[1]]
    BY <2>1 DEF PlaneInv, RequestsFit, Fits
  <2>3. n <= life[b]
    BY <2>1, <2>2
  <2>4. life[b] \in Nat
    BY DEF PlaneInv, TypeOK
  <2>5. QED
    BY <2>3, <2>4
<1>2. QED
  BY <1>1

\* Who is admitted was counted before, in the life of the process that goes on.
LEMMA AdmittedOneIsCounted ==
    ASSUME CountInv, NEW r \in Requests, Check(r), ~SameAdmitted
    PROVE  LET b == req[r].by[1]
               k == req[r].key
               w == Window(now)
           IN  /\ b \in Brokers /\ k \in Keys /\ w \in Windows
               /\ req[r].by = <<b, life[b]>> /\ req[r].by \in Life
               /\ AdmitsOne(r, k, <<b, life[b]>>, w)
               /\ Cardinality(AdmittedIn(k, <<b, life[b]>>, w)) < Limit
               /\ Cardinality(AdmittedIn(k, <<b, life[b]>>, w)) < counters'[b][<<k, w>>]
<1> DEFINE b == req[r].by[1]
           k == req[r].key
           w == Window(now)
           A == AdmittedIn(k, <<b, life[b]>>, w)
<1>1. CountedAs(r, b, k, w)
  BY CheckCounts DEF CountInv
<1>2. AdmitsOne(r, k, req[r].by, w) /\ counters[b][<<k, w>>] + 1 <= Limit
  BY CheckAdmits DEF CountInv
<1>3. b \in Brokers /\ k \in Keys /\ w \in Windows /\ w \in Nat
      /\ counters[b][<<k, w>>] \in Nat /\ counters'[b][<<k, w>>] = counters[b][<<k, w>>] + 1
      /\ req[r].pc = "keyed" /\ req[r].by \in Life
  BY <1>1 DEF CountedAs
<1>4. req[r].by = <<b, life[b]>>
  <2>1. req[r].by[2] = life[b]
    BY <1>3 DEF CountInv, PlaneInv, RequestsFit, Fits
  <2>2. QED
    BY <1>3, <2>1 DEF Life
<1>5. Cardinality(A) <= counters[b][<<k, w>>]
  <2>1. w >= Window(now)
    BY <1>3
  <2> HIDE DEF b, k, w
  <2>2. QED
    BY <1>3, <2>1 DEF CountInv, AdmissionsAreCounted
<1>6. Cardinality(A) \in Nat
  BY AdmittedAreFinite
<1> HIDE DEF A
<1>7. Cardinality(A) < Limit /\ Cardinality(A) < counters'[b][<<k, w>>]
  BY <1>2, <1>3, <1>5, <1>6
<1>8. QED
  BY <1>2, <1>3, <1>4, <1>7 DEF A

\* There is room for one more.
LEMMA OneMore ==
    ASSUME NEW S, NEW x, IsFiniteSet(S), NEW n \in Nat, Cardinality(S) < n
    PROVE  Cardinality(S \cup {x}) <= n
<1>1. Cardinality(S) \in Nat
  BY FS_CardinalityType
<1>2. Cardinality(S \cup {x}) = IF x \in S THEN Cardinality(S) ELSE Cardinality(S) + 1
  BY FS_AddElement
<1>3. QED
  BY <1>1, <1>2

LEMMA QuotaStep ==
    ASSUME CountInv, [Next]_vars
    PROVE  QuotaKept'
<1>0. QuotaKept /\ PlaneInv
  BY DEF CountInv
<1>1. ASSUME NEW k \in Keys, NEW l \in Life, NEW w \in Nat
      PROVE  Cardinality(AdmittedIn(k, l, w)') <= Limit
  <2>1. CASE SameAdmitted
    BY <1>0, <2>1, AdmittedInStays DEF QuotaKept
  <2>2. CASE ~SameAdmitted
    <3>1. PICK r \in Requests : Check(r)
      BY <1>0, <2>2, OthersAdmitNobody
    <3> DEFINE j == req[r].key
               m == <<req[r].by[1], life[req[r].by[1]]>>
               v == Window(now)
    <3>2. AdmitsOne(r, j, m, v) /\ Cardinality(AdmittedIn(j, m, v)) < Limit
      BY <2>2, <3>1, AdmittedOneIsCounted
    <3> HIDE DEF j, m, v
    <3>3. CASE k = j /\ l = m /\ w = v
      <4>1. AdmittedIn(k, l, w)' = AdmittedIn(k, l, w) \cup {r}
        BY <3>2, <3>3, AdmittedInGrows
      <4>2. IsFiniteSet(AdmittedIn(k, l, w))
        BY AdmittedAreFinite
      <4>3. Cardinality(AdmittedIn(k, l, w) \cup {r}) <= Limit
        BY <3>2, <3>3, <4>2, OneMore
      <4>4. QED
        BY <4>1, <4>3
    <3>4. CASE ~(k = j /\ l = m /\ w = v)
      <4>1. AdmittedIn(k, l, w)' = AdmittedIn(k, l, w)
        BY <3>2, <3>4, AdmittedInGrows
      <4>2. QED
        BY <1>0, <4>1 DEF QuotaKept
    <3>5. QED
      BY <3>3, <3>4
  <2>3. QED
    BY <2>1, <2>2
<1>2. QED
  BY <1>1 DEF QuotaKept

LEMMA AdmissionsStep ==
    ASSUME CountInv, [Next]_vars, TypeOK'
    PROVE  AdmissionsAreCounted'
<1>0. AdmissionsAreCounted /\ PlaneInv
  BY DEF CountInv
<1>1. ASSUME NEW b \in Brokers, NEW k \in Keys, NEW w \in Windows, w >= Window(now'),
             NEW n, n = life'[b]
      PROVE  Cardinality(AdmittedIn(k, <<b, n>>, w)') <= counters'[b][<<k, w>>]
  <2>1. w >= Window(now) /\ w \in Nat
    <3>1. Window(now) <= Window(now') /\ Window(now) \in Nat /\ Window(now') \in Nat
      BY <1>0, LivesGoOn, WindowFacts
    <3>2. w \in Nat
      BY WindowsAreNumbers
    <3>3. QED
      BY <1>1, <3>1, <3>2
  <2> DEFINE A == AdmittedIn(k, <<b, n>>, w)
  <2>2. IsFiniteSet(A) /\ Cardinality(A) \in Nat
    BY AdmittedAreFinite
  <2>3. counters'[b][<<k, w>>] \in Nat
    BY DEF TypeOK
  <2>4. CASE n = life[b]
    <3>1. Cardinality(A) <= counters[b][<<k, w>>]
      BY <1>0, <2>1, <2>4 DEF AdmissionsAreCounted
    <3>2. counters[b][<<k, w>>] \in Nat /\ counters[b][<<k, w>>] <= counters'[b][<<k, w>>]
      BY <1>0, <1>1, <2>1, <2>4, CountsLast
    <3>3. Cardinality(A) <= counters'[b][<<k, w>>]
      BY <2>2, <2>3, <3>1, <3>2
    <3>4. CASE A' = A
      BY <3>3, <3>4
    <3>5. CASE A' # A
      <4>1. ~SameAdmitted
        BY <3>5, AdmittedInStays
      <4>2. PICK r \in Requests : Check(r)
        BY <1>0, <4>1, OthersAdmitNobody
      <4> DEFINE j == req[r].key
                 c == req[r].by[1]
                 m == <<c, life[c]>>
                 v == Window(now)
      <4>3. /\ AdmitsOne(r, j, m, v)
            /\ Cardinality(AdmittedIn(j, m, v)) < counters'[c][<<j, v>>]
        BY <4>1, <4>2, AdmittedOneIsCounted
      <4>4. m[1] = c
        OBVIOUS
      <4> HIDE DEF j, c, m, v
      <4>5. k = j /\ <<b, n>> = m /\ w = v /\ A' = A \cup {r}
        <5>1. \A l : AdmittedIn(k, l, w)' = IF k = j /\ l = m /\ w = v
                                             THEN AdmittedIn(j, m, v) \cup {r}
                                             ELSE AdmittedIn(k, l, w)
          BY <4>3, AdmittedInGrows
        <5>2. A' = IF k = j /\ <<b, n>> = m /\ w = v THEN AdmittedIn(j, m, v) \cup {r} ELSE A
          BY <5>1, Zenon
        <5>3. k = j /\ <<b, n>> = m /\ w = v
          BY <3>5, <5>2
        <5>4. A' = AdmittedIn(j, m, v) \cup {r}
          BY <5>2, <5>3
        <5>5. QED
          BY <5>3, <5>4
      <4>6. b = c
        BY <4>4, <4>5
      <4>7. Cardinality(A) < counters'[b][<<k, w>>]
        BY <4>3, <4>5, <4>6
      <4>8. Cardinality(A \cup {r}) <= counters'[b][<<k, w>>]
        BY <2>2, <2>3, <4>7, OneMore
      <4>9. QED
        BY <4>5, <4>8
    <3>6. QED
      BY <3>4, <3>5
  <2>5. CASE n = life[b] + 1
    <3>1. life[b] \in Nat /\ n \in Nat /\ life[b] < n
      BY <1>0, <2>5 DEF PlaneInv, TypeOK
    <3>2. \A r \in Requests : ~Check(r)
      BY <1>0, <1>1, <3>1, LivesGoOn
    <3>3. SameAdmitted
      BY <1>0, <3>2, OthersAdmitNobody
    <3>4. A = {}
      BY <1>0, <3>1, FutureIsEmpty
    <3>5. A' = {}
      BY <3>3, <3>4, AdmittedInStays
    <3>6. Cardinality(A') = 0
      BY <3>5, FS_EmptySet, Zenon
    <3>7. QED
      BY <2>3, <3>6
  <2>6. QED
    BY <1>0, <1>1, <2>4, <2>5, LivesGoOn
<1>2. ASSUME NEW b \in Brokers, NEW k \in Keys, NEW w \in Windows, w >= Window(now')
      PROVE  Cardinality({q \in Admitted' : /\ req'[q].key = k /\ req'[q].by = <<b, life'[b]>>
                                            /\ Window(req'[q].at) = w}) <= counters'[b][<<k, w>>]
  <2>1. PICK n : n = life'[b]
    OBVIOUS
  <2>2. Cardinality(AdmittedIn(k, <<b, n>>, w)') <= counters'[b][<<k, w>>]
    BY <1>1, <1>2, <2>1
  <2>3. AdmittedIn(k, <<b, n>>, w)'
          = {q \in Admitted' : /\ req'[q].key = k /\ req'[q].by = <<b, life'[b]>>
                               /\ Window(req'[q].at) = w}
    BY <2>1 DEF AdmittedIn, Window
  <2>4. QED
    BY <2>2, <2>3
<1>3. QED
  BY <1>2 DEF AdmissionsAreCounted, AdmittedIn, Window

\* CountInv holds in every reachable state.
THEOREM CountInvariance == Spec => []CountInv
<1>1. Init => AdmissionsAreCounted /\ QuotaKept
  <2> SUFFICES ASSUME Init
               PROVE  AdmissionsAreCounted /\ QuotaKept
    OBVIOUS
  <2>1. Admitted = {}
    BY DEF Init, Admitted, New
  <2>2. \A k, l, w : AdmittedIn(k, l, w) = {}
    BY <2>1 DEF AdmittedIn
  <2>3. Cardinality({}) = 0
    BY FS_EmptySet
  <2>4. \A k, l, w : Cardinality(AdmittedIn(k, l, w)) = 0
    BY <2>2, <2>3, Zenon
  <2>5. \A b \in Brokers, kw \in Keys \X Windows : counters[b][kw] \in Nat
    BY DEF Init, NoCounts
  <2>6. QED
    BY <2>4, <2>5 DEF AdmissionsAreCounted, QuotaKept
<1>2. PlaneInv /\ PlaneInv' /\ AdmissionsAreCounted /\ QuotaKept /\ [Next]_vars
        => (AdmissionsAreCounted /\ QuotaKept)'
  <2> SUFFICES ASSUME PlaneInv, PlaneInv', AdmissionsAreCounted, QuotaKept, [Next]_vars
               PROVE  AdmissionsAreCounted' /\ QuotaKept'
    OBVIOUS
  <2>1. CountInv /\ TypeOK'
    BY DEF CountInv, PlaneInv
  <2>2. QED
    BY <2>1, QuotaStep, AdmissionsStep
<1>3. QED
  BY <1>1, <1>2, PlaneInvariance, PTL DEF Spec, CountInv

\* ratelimit.check in memory: within the length of a window a key is admitted at
\* most twice the limit by one life of a process, wherever the windows turn.
THEOREM BurstsAreBounded == Spec => []BurstIsBounded
<1>1. CountInv => BurstIsBounded
  <2> SUFFICES ASSUME CountInv, NEW k \in Keys, NEW l \in Life, NEW t \in 0 .. MaxTime
               PROVE  Cardinality({r \in Admitted : /\ req[r].key = k /\ req[r].by = l
                                                    /\ req[r].at \in t .. t + WindowTime - 1})
                        <= 2 * Limit
    BY DEF BurstIsBounded
  <2> DEFINE B == {r \in Admitted : /\ req[r].key = k /\ req[r].by = l
                                    /\ req[r].at \in t .. t + WindowTime - 1}
             v == Window(t)
             A1 == AdmittedIn(k, l, v)
             A2 == AdmittedIn(k, l, v + 1)
  <2>1. v \in Nat /\ v + 1 \in Nat /\ t \in Nat
    BY WindowFacts
  <2>2. Window(t + WindowTime) = v + 1
    <3>1. v \in Nat /\ WindowTime * v <= t /\ t < WindowTime * v + WindowTime
      BY <2>1, DivFacts DEF Window
    <3>2. WindowTime * (v + 1) = WindowTime * v + WindowTime /\ WindowTime * v \in Nat
      BY <3>1
    <3> HIDE DEF v
    <3>3. WindowTime * (v + 1) <= t + WindowTime /\ t + WindowTime < WindowTime * (v + 1) + WindowTime
      BY <2>1, <3>1, <3>2
    <3>4. t + WindowTime \in Nat /\ v + 1 \in Nat
      BY <2>1
    <3>5. (t + WindowTime) \div WindowTime = v + 1
      BY <3>3, <3>4, DivUnique
    <3>6. QED
      BY <3>5 DEF Window
  <2>3. B \subseteq A1 \cup A2
    <3> SUFFICES ASSUME NEW r \in B
                 PROVE  r \in A1 \cup A2
      OBVIOUS
    <3>1. /\ r \in Admitted /\ req[r].key = k /\ req[r].by = l /\ req[r].at \in Nat
          /\ t <= req[r].at /\ req[r].at <= t + WindowTime
      BY AdmittedFields DEF CountInv, PlaneInv
    <3>2. v <= Window(req[r].at) /\ Window(req[r].at) <= v + 1 /\ Window(req[r].at) \in Nat
      <4>1. t + WindowTime \in Nat
        BY <2>1
      <4>2. QED
        BY <2>1, <2>2, <3>1, <4>1, WindowFacts
    <3> HIDE DEF v
    <3>3. Window(req[r].at) = v \/ Window(req[r].at) = v + 1
      BY <2>1, <3>2
    <3>4. QED
      BY <3>1, <3>3 DEF AdmittedIn
  <2>4. IsFiniteSet(A1) /\ IsFiniteSet(A2) /\ Cardinality(A1) \in Nat /\ Cardinality(A2) \in Nat
    BY AdmittedAreFinite
  <2>5. Cardinality(A1) <= Limit /\ Cardinality(A2) <= Limit
    BY <2>1 DEF CountInv, QuotaKept
  <2> HIDE DEF A1, A2, B
  <2>6. IsFiniteSet(A1 \cup A2) /\ IsFiniteSet(A1 \cap A2)
    BY <2>4, FS_Union, FS_Subset
  <2>7. Cardinality(A1 \cup A2) = Cardinality(A1) + Cardinality(A2) - Cardinality(A1 \cap A2)
    BY <2>4, FS_Union
  <2>8. Cardinality(A1 \cap A2) \in Nat /\ Cardinality(A1 \cup A2) \in Nat
    BY <2>6, FS_CardinalityType
  <2>9. IsFiniteSet(B) /\ Cardinality(B) <= Cardinality(A1 \cup A2)
    BY <2>3, <2>6, FS_Subset
  <2>10. Cardinality(B) \in Nat
    BY <2>9, FS_CardinalityType
  <2>11. Cardinality(B) <= 2 * Limit
    BY <2>4, <2>5, <2>7, <2>8, <2>9, <2>10
  <2>12. QED
    BY <2>11 DEF B
<1>2. QED
  BY <1>1, CountInvariance, PTL

----------------------------------------------------------------------------
(* The refinement of WindowQuota *)

\* What QuotaPerLife takes for granted requests.
Grant(r) == [req |-> r, key |-> <<req[r].key, req[r].by>>, window |-> Window(req[r].at)]

Granted == {Grant(r) : r \in Admitted}

\* The grants of a key in a window are no more than its admissions.
LEMMA GrantsAreAdmissions ==
    ASSUME NEW k, NEW l, NEW w
    PROVE  LET G == {g \in Granted : g.key = <<k, l>> /\ g.window = w}
           IN  /\ IsFiniteSet(G)
               /\ Cardinality(G) <= Cardinality(AdmittedIn(k, l, w))
<1> DEFINE G == {g \in Granted : g.key = <<k, l>> /\ g.window = w}
           A == AdmittedIn(k, l, w)
           f == [g \in G |-> g.req]
<1>1. ASSUME NEW g \in G
      PROVE  g.req \in A /\ g = Grant(g.req)
  <2>1. PICK r \in Admitted : g = Grant(r)
    BY DEF Granted
  <2>2. g.req = r /\ g.key = <<req[r].key, req[r].by>> /\ g.window = Window(req[r].at)
    BY <2>1 DEF Grant
  <2>3. req[r].key = k /\ req[r].by = l
    BY <2>2
  <2>4. QED
    BY <2>1, <2>2, <2>3 DEF AdmittedIn
<1>2. \A g, h \in G : g.req = h.req => g = h
  BY <1>1
<1>3. IsFiniteSet(A)
  BY AdmittedAreFinite
<1> HIDE DEF G, A
<1>4. f \in Injection(G, A)
  <2>1. f \in [G -> A] /\ \A g, h \in G : f[g] = f[h] => g = h
    BY <1>1, <1>2
  <2> HIDE DEF f
  <2>2. QED
    BY <2>1 DEF Injection, IsInjective
<1>5. IsFiniteSet(G) /\ Cardinality(G) <= Cardinality(A)
  BY <1>3, <1>4, FS_Injection
<1>6. QED
  BY <1>5 DEF G, A

\* An admission is a grant, and every other step a stutter.
LEMMA GrantStep ==
    ASSUME CountInv, [Next]_vars
    PROVE  [QuotaPerLife!Next]_Granted
<1>0. PlaneInv
  BY DEF CountInv
<1>1. CASE SameAdmitted
  <2>1. \A q \in Admitted : Grant(q)' = Grant(q)
    BY <1>1 DEF SameAdmitted, Kept, Grant, Window
  <2>2. Admitted' = Admitted
    BY <1>1 DEF SameAdmitted
  <2>3. Granted' = Granted
    BY <2>1, <2>2 DEF Granted
  <2>4. QED
    BY <2>3
<1>2. CASE ~SameAdmitted
  <2>1. PICK r \in Requests : Check(r)
    BY <1>0, <1>2, OthersAdmitNobody
  <2>2. PICK k \in Keys, l \in Life, w \in Windows :
          /\ k = req[r].key /\ l = <<req[r].by[1], life[req[r].by[1]]>> /\ w = Window(now)
    BY <1>2, <2>1, AdmittedOneIsCounted
  <2>3. AdmitsOne(r, k, l, w) /\ Cardinality(AdmittedIn(k, l, w)) < Limit
    BY <1>2, <2>1, <2>2, AdmittedOneIsCounted
  <2> DEFINE G == {g \in Granted : g.key = <<k, l>> /\ g.window = w}
  <2>4. \A g \in Granted : g.req # r
    BY <2>3 DEF Granted, Grant, AdmitsOne
  <2>5. Cardinality(G) < Limit
    <3>1. IsFiniteSet(G) /\ Cardinality(G) <= Cardinality(AdmittedIn(k, l, w))
      BY GrantsAreAdmissions
    <3>2. Cardinality(AdmittedIn(k, l, w)) \in Nat
      BY AdmittedAreFinite
    <3> HIDE DEF G
    <3>3. Cardinality(G) \in Nat
      BY <3>1, FS_CardinalityType
    <3>4. QED
      BY <2>3, <3>1, <3>2, <3>3
  <2>6. Granted' = Granted \cup {[req |-> r, key |-> <<k, l>>, window |-> w]}
    <3>1. \A q \in Admitted : Grant(q)' = Grant(q)
      BY <2>3 DEF AdmitsOne, Kept, Grant, Window
    <3>2. Grant(r)' = [req |-> r, key |-> <<k, l>>, window |-> w]
      BY <2>3 DEF AdmitsOne, Grant, Window
    <3>3. Admitted' = Admitted \cup {r}
      BY <2>3 DEF AdmitsOne
    <3>4. QED
      BY <3>1, <3>2, <3>3 DEF Granted
  <2>7. <<k, l>> \in Keys \X Life
    OBVIOUS
  <2>8. QuotaPerLife!Cardinality(G) = Cardinality(G)
    BY DEF QuotaPerLife!Cardinality, Cardinality
  <2>9. QuotaPerLife!Grant(r, <<k, l>>, w)
    BY <2>4, <2>5, <2>6, <2>8 DEF QuotaPerLife!Grant, QuotaPerLife!Granted, Granted, Grant
  <2>10. QED
    BY <2>7, <2>9 DEF QuotaPerLife!Next
<1>3. QED
  BY <1>1, <1>2

\* ratelimit.check in memory implements the quota, for each life of each process:
\* it grants one request at a time, never one twice and never beyond the limit.
THEOREM QuotaPerLifeIsImplemented == Spec => ImplementsQuotaPerLife
<1>1. Init => QuotaPerLife!Init
  BY DEF Init, Admitted, New, QuotaPerLife!Init
<1>2. CountInv /\ [Next]_vars => [QuotaPerLife!Next]_Granted
  BY GrantStep
<1>3. QED
  BY <1>1, <1>2, CountInvariance, PTL
     DEF Spec, ImplementsQuotaPerLife, QuotaPerLife!Spec, Granted, Grant
=============================================================================
