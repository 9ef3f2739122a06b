------------------------- MODULE ControlAuthProofs -------------------------
(***************************************************************************)
(* Proofs about ControlAuth, for any keys, tokens, settings, requests and  *)
(* cache sizes, and any number of faults.                                  *)
(***************************************************************************)
EXTENDS ControlAuth, FiniteSetTheorems, TLAPS

USE TokensAssumption, NamesAssumption, BoundsAssumption

(***************************************************************************)
(* The invariant.                                                          *)
(***************************************************************************)

WaitingPcs == {"look_up", "fetch", "refresh", "fetched", "refreshed", "decode"}

\* What a request under way may rely on.  Whatever answer it has got is younger
\* than its arrival, so it holds every key that was published all along.
UnderWay(x) ==
    /\ config.mode = "oidc" /\ x.token \in Tokens
    /\ x.known \subseteq Published
    /\ x.calm => idp
    /\ x.pc \in {"fetched", "refreshed"} => x.set \subseteq fresh /\ x.known \subseteq x.set
    /\ x.pc = "decode" => x.token.kid \in fresh

\* An accepted request, as CallersAreVouchedFor says.
VouchedFor(x) ==
    /\ x.token # NoToken
    /\ x.user = x.token.sub
    /\ Acceptable(x.token, x.when)
    /\ config.mode = "hs256" => x.token.by = Secret

\* A token that had to be accepted, unless the provider was out of reach or had
\* just sent an empty key set.
Good(x) ==
    /\ config.mode = "oidc" /\ x.token # NoToken
    /\ x.token.by = x.token.kid /\ x.token.by \in x.known
    /\ Acceptable(x.token, x.when)

\* What is so of a request wherever it stands.
Fits(x) ==
    /\ x.pc \in WaitingPcs => UnderWay(x)
    /\ x.pc = "accepted" /\ config.mode # "dev" => VouchedFor(x)
    /\ x.pc \in {"unauthorized", "unavailable"} /\ Good(x) =>
         x.pc = "unavailable" /\ (~x.calm \/ x.when <= barren)

RequestsFit == \A r \in Requests : Fits(req[r])

\* An empty key set is used no longer than it may be.
BarrenFits == setCache # NoToken /\ setCache.keys = {} => setCache.until <= barren

AuthInv == TypeOK /\ Published \subseteq fresh /\ RequestsFit /\ BarrenFits

----------------------------------------------------------------------------
(* Requests *)

\* A request that goes nowhere unfit leaves all requests fit.
LEMMA GoKeeps ==
    ASSUME AuthInv, NEW r \in Requests, NEW x \in Request, Go(r, x), Fits(x),
           UNCHANGED <<config, key, idp, fresh>>, barren' \in Int, barren' >= barren
    PROVE  req' \in [Requests -> Request] /\ RequestsFit'
<1>1. req \in [Requests -> Request]
  BY DEF AuthInv, TypeOK
<1>2. req' \in [Requests -> Request]
  BY <1>1 DEF Go
<1>3. ASSUME NEW q \in Requests
      PROVE  Fits(req'[q])
  BY <1>1 DEF AuthInv, RequestsFit, Go
<1>4. ASSUME NEW q \in Requests
      PROVE  Fits(req[q])'
  <2>1. Fits(req'[q]) /\ req'[q] \in Request
    BY <1>2, <1>3
  <2>2. req'[q].pc = "unavailable" => req'[q].when \in Nat
    BY <2>1 DEF Request, New
  <2>3. barren \in Int
    BY DEF AuthInv, TypeOK
  <2>4. req'[q].pc = "unavailable" /\ req'[q].when <= barren => req'[q].when <= barren'
    BY <2>2, <2>3
  <2>5. QED
    BY <2>1, <2>4 DEF Fits, UnderWay, VouchedFor, Good, Acceptable, Published
<1>5. QED
  BY <1>2, <1>4 DEF RequestsFit

\* The caches as they are.
LEMMA CachesNow ==
    ASSUME AuthInv
    PROVE  /\ keyCache \subseteq fresh /\ Cardinality(keyCache) <= MaxCached
           /\ setCache \in [keys: SUBSET fresh, until: Nat] \cup {NoToken}
           /\ fresh \subseteq Keys /\ now \in Nat /\ config \in Config
           /\ req \in [Requests -> Request]
           /\ barren \in Int
BY DEF AuthInv, TypeOK

\* The other variables of a step of a request, which change no key.
LEMMA StepKeeps ==
    ASSUME AuthInv, req' \in [Requests -> Request], RequestsFit', Elsewhere,
           keyCache' \subseteq fresh, Cardinality(keyCache') <= MaxCached,
           setCache' \in {setCache, NoToken}
    PROVE  AuthInv'
BY CachesNow DEF AuthInv, TypeOK, Elsewhere, Published, BarrenFits

\* What lru_cache remembers is the new key and some of the old ones, not too many.
LEMMA RememberKeeps ==
    ASSUME AuthInv, NEW k \in fresh, Remember(k)
    PROVE  keyCache' \subseteq fresh /\ Cardinality(keyCache') <= MaxCached
<1>1. PICK kept \in SUBSET keyCache :
        /\ Cardinality(kept \cup {k}) =
             IF Cardinality(keyCache \cup {k}) <= MaxCached
               THEN Cardinality(keyCache \cup {k}) ELSE MaxCached
        /\ keyCache' = kept \cup {k}
  BY DEF Remember
<1>2. keyCache \subseteq fresh
  BY DEF AuthInv, TypeOK
<1>3. Cardinality(keyCache') <= MaxCached
  BY <1>1
<1>4. QED
  BY <1>1, <1>2, <1>3

\* A request under way has all its fields, with their types.
LEMMA Fields ==
    ASSUME AuthInv, NEW r \in Requests, req[r].pc \in WaitingPcs
    PROVE  /\ req[r] \in [pc: WaitingPcs, token: Tokens, user: Subjects \cup {DevUser, NoToken},
                           set: SUBSET Keys, known: SUBSET Keys, calm: BOOLEAN, when: Nat]
           /\ UnderWay(req[r])
           /\ req[r].token \in Token
<1>1. req[r] \in Request /\ Fits(req[r])
  BY DEF AuthInv, TypeOK, RequestsFit
<1>2. req[r] # New
  BY DEF New, WaitingPcs
<1>3. UnderWay(req[r])
  BY <1>1 DEF Fits
<1>4. QED
  BY <1>1, <1>2, <1>3 DEF Request, UnderWay, WaitingPcs

----------------------------------------------------------------------------
(* The steps *)

\* Whoever arrives is answered at once, or is under way with nothing yet.
LEMMA ArriveKeeps ==
    ASSUME AuthInv, NEW r \in Requests, NEW t \in Tokens \cup {NoToken},
           NEW dev \in Subjects \cup {NoToken}, Arrive(r, t, dev)
    PROVE  AuthInv'
<1> DEFINE x == [pc |-> "look_up", token |-> t, user |-> NoToken, set |-> {},
                 known |-> Published, calm |-> idp, when |-> now]
<1>1. /\ x \in Request
      /\ x \in [pc: WaitingPcs, token: Tokens \cup {NoToken}, user: {NoToken},
                set: SUBSET Keys, known: SUBSET Keys, calm: BOOLEAN, when: Nat]
  BY CachesNow DEF Request, Published, AuthInv, TypeOK, WaitingPcs
<1> HIDE DEF x
<1>2. config \in Config /\ now \in Nat
  BY CachesNow
<1>3. CASE config.mode = "dev"
  <2> DEFINE y == [x EXCEPT !.pc = "accepted", !.user = IF dev = NoToken THEN DevUser ELSE dev]
  <2>1. Go(r, y)
    BY <1>3 DEF Arrive, x
  <2>2. y \in Request
    BY <1>1 DEF Request
  <2>3. Fits(y)
    BY <1>3 DEF Fits, WaitingPcs, x
  <2> HIDE DEF y
  <2>4. req' \in [Requests -> Request] /\ RequestsFit'
    BY <2>1, <2>2, <2>3, CachesNow, GoKeeps DEF Arrive, Elsewhere
  <2>5. QED
    BY <2>4, CachesNow, StepKeeps DEF Arrive
<1>4. CASE config.mode # "dev" /\ t = NoToken
  <2> DEFINE y == [x EXCEPT !.pc = "unauthorized"]
  <2>1. Go(r, y)
    BY <1>4 DEF Arrive, x
  <2>2. y \in Request
    BY <1>1 DEF Request
  <2>3. Fits(y)
    BY <1>4 DEF Fits, WaitingPcs, Good, x
  <2> HIDE DEF y
  <2>4. req' \in [Requests -> Request] /\ RequestsFit'
    BY <2>1, <2>2, <2>3, CachesNow, GoKeeps DEF Arrive, Elsewhere
  <2>5. QED
    BY <2>4, CachesNow, StepKeeps DEF Arrive
<1>5. CASE config.mode = "oidc" /\ t # NoToken
  <2>1. Go(r, x)
    BY <1>5 DEF Arrive, x
  <2>2. Fits(x)
    BY <1>5 DEF Fits, WaitingPcs, UnderWay, x
  <2>3. req' \in [Requests -> Request] /\ RequestsFit'
    BY <2>1, <2>2, <1>1, CachesNow, GoKeeps DEF Arrive, Elsewhere
  <2>4. QED
    BY <2>3, CachesNow, StepKeeps DEF Arrive
<1>6. CASE config.mode = "hs256" /\ t # NoToken /\ Decodes(t, Secret)
  <2> DEFINE y == [x EXCEPT !.pc = "accepted", !.user = t.sub]
  <2>1. Go(r, y)
    BY <1>6 DEF Arrive, x
  <2>2. t \in Token /\ t.sub \in Subjects
    BY <1>6 DEF Decodes, Token
  <2>3. y \in Request
    BY <1>1, <2>2 DEF Request
  <2>4. Fits(y)
    BY <1>6 DEF Fits, WaitingPcs, VouchedFor, Acceptable, Decodes, Signed, x
  <2> HIDE DEF y
  <2>5. req' \in [Requests -> Request] /\ RequestsFit'
    BY <2>1, <2>3, <2>4, CachesNow, GoKeeps DEF Arrive, Elsewhere
  <2>6. QED
    BY <2>5, CachesNow, StepKeeps DEF Arrive
<1>7. CASE config.mode = "hs256" /\ t # NoToken /\ ~Decodes(t, Secret)
  <2> DEFINE y == [x EXCEPT !.pc = "unauthorized"]
  <2>1. Go(r, y)
    BY <1>7 DEF Arrive, x
  <2>2. y \in Request
    BY <1>1 DEF Request
  <2>3. Fits(y)
    BY <1>7 DEF Fits, WaitingPcs, Good, x
  <2> HIDE DEF y
  <2>4. req' \in [Requests -> Request] /\ RequestsFit'
    BY <2>1, <2>2, <2>3, CachesNow, GoKeeps DEF Arrive, Elsewhere
  <2>5. QED
    BY <2>4, CachesNow, StepKeeps DEF Arrive
<1>8. QED
  BY <1>2, <1>3, <1>4, <1>5, <1>6, <1>7 DEF Config

\* A key that is found is one the provider has published.
LEMMA LookUpKeeps ==
    ASSUME AuthInv, NEW r \in Requests, LookUp(r)
    PROVE  AuthInv'
<1> DEFINE k == req[r].token.kid
           found == [req[r] EXCEPT !.pc = "decode"]
           none == [req[r] EXCEPT !.pc = "unavailable", !.when = now]
           due == [req[r] EXCEPT !.pc = IF InUse THEN AfterMiss ELSE "fetch"]
<1>1. req[r].pc \in WaitingPcs /\ req[r].pc = "look_up"
  BY DEF LookUp, WaitingPcs
<1>2. /\ req[r] \in [pc: WaitingPcs, token: Tokens, user: Subjects \cup {DevUser, NoToken},
                      set: SUBSET Keys, known: SUBSET Keys, calm: BOOLEAN, when: Nat]
      /\ UnderWay(req[r])
  BY <1>1, Fields
<1>3. found \in Request /\ due \in Request /\ none \in Request
  BY <1>2, CachesNow DEF Request, WaitingPcs, AfterMiss
<1>4. CASE Go(r, found) /\ k \in keyCache /\ UNCHANGED keyCache
  <2>1. Fits(found)
    BY <1>2, <1>4, CachesNow DEF Fits, UnderWay, WaitingPcs
  <2> HIDE DEF found
  <2>2. req' \in [Requests -> Request] /\ RequestsFit'
    BY <1>3, <1>4, <2>1, CachesNow, GoKeeps DEF LookUp, Elsewhere
  <2>3. QED
    BY <1>4, <2>2, CachesNow, StepKeeps DEF LookUp
<1>5. CASE Go(r, found) /\ InUse /\ k \in setCache.keys /\ Remember(k)
  <2>1. k \in fresh
    BY <1>5, CachesNow DEF InUse
  <2>2. Fits(found)
    BY <1>2, <2>1 DEF Fits, UnderWay, WaitingPcs
  <2> HIDE DEF found
  <2>3. req' \in [Requests -> Request] /\ RequestsFit'
    BY <1>3, <1>5, <2>2, CachesNow, GoKeeps DEF LookUp, Elsewhere
  <2>4. keyCache' \subseteq fresh /\ Cardinality(keyCache') <= MaxCached
    BY <1>5, <2>1, RememberKeeps
  <2>5. QED
    BY <2>3, <2>4, CachesNow, StepKeeps DEF LookUp
<1>6. CASE Go(r, due) /\ UNCHANGED keyCache
  <2>1. Fits(due)
    BY <1>2 DEF Fits, UnderWay, WaitingPcs, AfterMiss
  <2> HIDE DEF due
  <2>2. req' \in [Requests -> Request] /\ RequestsFit'
    BY <1>3, <1>6, <2>1, CachesNow, GoKeeps DEF LookUp, Elsewhere
  <2>3. QED
    BY <1>6, <2>2, CachesNow, StepKeeps DEF LookUp
<1>7. CASE Go(r, none) /\ InUse /\ setCache.keys = {} /\ UNCHANGED keyCache
  <2>1. now <= barren
    BY <1>7, CachesNow DEF InUse, AuthInv, BarrenFits
  <2>2. Fits(none)
    BY <1>2, <2>1 DEF Fits, WaitingPcs
  <2> HIDE DEF none
  <2>3. req' \in [Requests -> Request] /\ RequestsFit'
    BY <1>3, <1>7, <2>2, CachesNow, GoKeeps DEF LookUp, Elsewhere
  <2>4. QED
    BY <1>7, <2>3, CachesNow, StepKeeps DEF LookUp
<1>8. QED
  BY <1>4, <1>5, <1>6, <1>7 DEF LookUp

\* The answer holds what is published now, hence what was all along.
LEMMA FetchKeeps ==
    ASSUME AuthInv, NEW r \in Requests, Fetch(r)
    PROVE  AuthInv'
<1> DEFINE y == [req[r] EXCEPT !.pc = IF req[r].pc = "fetch" THEN "fetched" ELSE "refreshed",
                               !.set = Published]
<1>1. req[r].pc \in WaitingPcs
  BY DEF Fetch, WaitingPcs
<1>2. /\ req[r] \in [pc: WaitingPcs, token: Tokens, user: Subjects \cup {DevUser, NoToken},
                      set: SUBSET Keys, known: SUBSET Keys, calm: BOOLEAN, when: Nat]
      /\ UnderWay(req[r])
  BY <1>1, Fields
<1>3. y \in Request
  BY <1>2 DEF Request, WaitingPcs, Published
<1>4. Fits(y)
  BY <1>2 DEF Fits, UnderWay, WaitingPcs, AuthInv
<1>5. Go(r, y)
  BY DEF Fetch
<1> HIDE DEF y
<1>6. req' \in [Requests -> Request] /\ RequestsFit'
  BY <1>3, <1>4, <1>5, CachesNow, GoKeeps DEF Fetch, Elsewhere
<1>7. QED
  BY <1>6, CachesNow, StepKeeps DEF Fetch

\* The provider is out of reach, and the request has seen it.
LEMMA FetchFailsKeeps ==
    ASSUME AuthInv, NEW r \in Requests, FetchFails(r)
    PROVE  AuthInv'
<1> DEFINE y == [req[r] EXCEPT !.pc = "unavailable", !.when = now]
<1>1. req[r].pc \in WaitingPcs
  BY DEF FetchFails, WaitingPcs
<1>2. /\ req[r] \in [pc: WaitingPcs, token: Tokens, user: Subjects \cup {DevUser, NoToken},
                      set: SUBSET Keys, known: SUBSET Keys, calm: BOOLEAN, when: Nat]
      /\ UnderWay(req[r])
  BY <1>1, Fields
<1>3. y \in Request
  BY <1>2, CachesNow DEF Request
<1>4. Fits(y)
  BY <1>2 DEF Fits, UnderWay, WaitingPcs, FetchFails
<1>5. Go(r, y)
  BY DEF FetchFails
<1> HIDE DEF y
<1>6. req' \in [Requests -> Request] /\ RequestsFit'
  BY <1>3, <1>4, <1>5, CachesNow, GoKeeps DEF FetchFails, Elsewhere
<1>7. QED
  BY <1>6, CachesNow, StepKeeps DEF FetchFails

\* An answer that lacks the key says that the key was not published all along.
LEMMA StoreKeeps ==
    ASSUME AuthInv, NEW r \in Requests, Store(r)
    PROVE  AuthInv'
<1> DEFINE k == req[r].token.kid
           found == [req[r] EXCEPT !.pc = "decode", !.set = {}]
           missed == [req[r] EXCEPT !.when = now, !.set = {},
                        !.pc = IF req[r].pc = "fetched" /\ req[r].set # {}
                                 THEN AfterMiss ELSE "unavailable"]
<1>1. req[r].pc \in WaitingPcs
  BY DEF Store, WaitingPcs
<1>2. /\ req[r] \in [pc: WaitingPcs, token: Tokens, user: Subjects \cup {DevUser, NoToken},
                      set: SUBSET Keys, known: SUBSET Keys, calm: BOOLEAN, when: Nat]
      /\ UnderWay(req[r])
  BY <1>1, Fields
<1>3. found \in Request /\ missed \in Request
  BY <1>2, CachesNow DEF Request, WaitingPcs, AfterMiss
<1>4. req[r].set \subseteq fresh /\ req[r].known \subseteq req[r].set
  BY <1>2 DEF UnderWay, Store
<1>5. /\ setCache' \in [keys: SUBSET fresh, until: Nat]
      /\ barren' \in Int /\ barren' >= barren /\ barren' <= now' + Lifespan
      /\ BarrenFits'
  <2>1. barren \in Int /\ now \in Nat /\ barren <= now + Lifespan /\ now' = now
    BY DEF AuthInv, TypeOK, Store
  <2>2. QED
    BY <1>4, <2>1, CachesNow DEF Store, BarrenFits
<1>6. ASSUME k \in req[r].set
      PROVE  /\ req' \in [Requests -> Request] /\ RequestsFit'
             /\ keyCache' \subseteq fresh /\ Cardinality(keyCache') <= MaxCached
  <2>1. Go(r, found) /\ Remember(k) /\ k \in fresh
    BY <1>4, <1>6 DEF Store
  <2>2. Fits(found)
    BY <1>2, <2>1 DEF Fits, UnderWay, WaitingPcs
  <2> HIDE DEF found
  <2>3. req' \in [Requests -> Request] /\ RequestsFit'
    BY <1>3, <1>5, <2>1, <2>2, CachesNow, GoKeeps DEF Store
  <2>4. keyCache' \subseteq fresh /\ Cardinality(keyCache') <= MaxCached
    BY <2>1, RememberKeeps
  <2>5. QED
    BY <2>3, <2>4
<1>7. ASSUME k \notin req[r].set
      PROVE  /\ req' \in [Requests -> Request] /\ RequestsFit'
             /\ keyCache' \subseteq fresh /\ Cardinality(keyCache') <= MaxCached
  <2>1. Go(r, missed) /\ UNCHANGED keyCache
    BY <1>7 DEF Store
  <2>2. ~Good(missed)
    BY <1>2, <1>4, <1>7 DEF Good
  <2>3. Fits(missed)
    BY <1>2, <2>2 DEF Fits, UnderWay, WaitingPcs, AfterMiss
  <2> HIDE DEF missed
  <2>4. req' \in [Requests -> Request] /\ RequestsFit'
    BY <1>3, <1>5, <2>1, <2>3, CachesNow, GoKeeps DEF Store
  <2>5. QED
    BY <2>1, <2>4, CachesNow
<1>8. Published' = Published
  BY DEF Store, Published
<1>9. QED
  BY <1>5, <1>6, <1>7, <1>8 DEF AuthInv, TypeOK, Store

\* A good token decodes, and one that does not is not good.
LEMMA DecodeKeeps ==
    ASSUME AuthInv, NEW r \in Requests, Decode(r)
    PROVE  AuthInv'
<1> DEFINE k == req[r].token.kid
           yes == [req[r] EXCEPT !.pc = "accepted", !.user = req[r].token.sub, !.when = now,
                                 !.known = {}, !.calm = TRUE]
           no == [req[r] EXCEPT !.pc = "unauthorized", !.when = now]
<1>1. req[r].pc \in WaitingPcs /\ req[r].pc = "decode"
  BY DEF Decode, WaitingPcs
<1>2. /\ req[r] \in [pc: WaitingPcs, token: Tokens, user: Subjects \cup {DevUser, NoToken},
                      set: SUBSET Keys, known: SUBSET Keys, calm: BOOLEAN, when: Nat]
      /\ UnderWay(req[r]) /\ req[r].token \in Token
  BY <1>1, Fields
<1>3. CASE Decodes(req[r].token, k)
  <2>1. Go(r, yes)
    BY <1>3 DEF Decode, Verdict
  <2>2. req[r].token.sub \in Subjects
    BY <1>2, <1>3 DEF Decodes, Token
  <2>3. yes \in Request
    BY <1>2, <2>2, CachesNow DEF Request
  <2>4. Fits(yes)
    BY <1>2, <1>3 DEF Fits, UnderWay, WaitingPcs, VouchedFor, Acceptable, Decodes
  <2> HIDE DEF yes
  <2>5. req' \in [Requests -> Request] /\ RequestsFit'
    BY <2>1, <2>3, <2>4, CachesNow, GoKeeps DEF Decode, Elsewhere
  <2>6. QED
    BY <2>5, CachesNow, StepKeeps DEF Decode
<1>4. CASE ~Decodes(req[r].token, k)
  <2>1. Go(r, no)
    BY <1>4 DEF Decode, Verdict
  <2>2. no \in Request
    BY <1>2, CachesNow DEF Request
  <2>3. ~Good(no)
    BY <1>2, <1>4 DEF Good, Acceptable, Decodes, Signed
  <2>4. Fits(no)
    BY <2>3, <1>2 DEF Fits, WaitingPcs
  <2> HIDE DEF no
  <2>5. req' \in [Requests -> Request] /\ RequestsFit'
    BY <2>1, <2>2, <2>4, CachesNow, GoKeeps DEF Decode, Elsewhere
  <2>6. QED
    BY <2>5, CachesNow, StepKeeps DEF Decode
<1>5. QED
  BY <1>3, <1>4

\* A retired key is no longer known to have been there all along, and an outage
\* is remembered by all who are under way.
LEMMA LivingKeeps ==
    ASSUME AuthInv, NEW published \in SUBSET Published, NEW up \in BOOLEAN, up => idp,
           Living(published, up), Published' = published, idp' = up,
           UNCHANGED <<config, fresh, barren>>
    PROVE  req' \in [Requests -> Request] /\ RequestsFit'
<1>1. ASSUME NEW r \in Requests
      PROVE  req'[r] \in Request /\ Fits(req[r])'
  <2>1. req[r] \in Request /\ Fits(req[r])
    BY DEF AuthInv, TypeOK, RequestsFit
  <2>2. CASE Waiting(r)
    <3> DEFINE y == [req[r] EXCEPT !.known = @ \cap published, !.calm = @ /\ up]
    <3>1. req'[r] = y
      BY <2>2 DEF Living
    <3>2. req[r].pc \in WaitingPcs
      BY <2>2 DEF Waiting, WaitingPcs
    <3>3. /\ req[r] \in [pc: WaitingPcs, token: Tokens, user: Subjects \cup {DevUser, NoToken},
                          set: SUBSET Keys, known: SUBSET Keys, calm: BOOLEAN, when: Nat]
          /\ UnderWay(req[r])
      BY <3>2, Fields
    <3>4. y \in Request
      BY <3>3 DEF Request, WaitingPcs
    <3>5. req'[r].pc = req[r].pc /\ req'[r].token = req[r].token /\ req'[r].set = req[r].set
          /\ req'[r].known = req[r].known \cap published /\ (req'[r].calm => up)
      BY <3>1, <3>3
    <3> HIDE DEF y
    <3>6. UnderWay(req[r])'
      BY <3>3, <3>5 DEF UnderWay
    <3>7. Fits(req[r])'
      BY <3>2, <3>5, <3>6 DEF Fits, WaitingPcs
    <3>8. QED
      BY <3>1, <3>4, <3>7
  <2>3. CASE ~Waiting(r)
    <3>1. req'[r] = req[r] /\ req[r].pc \notin WaitingPcs
      BY <2>3 DEF Living, Waiting, WaitingPcs
    <3>2. QED
      BY <2>1, <3>1 DEF Fits, VouchedFor, Good, Acceptable
  <2>4. QED
    BY <2>2, <2>3
<1>2. req' = [r \in Requests |-> req'[r]]
  BY DEF Living
<1>3. QED
  BY <1>1, <1>2 DEF RequestsFit

\* Started again, a process has forgotten all keys, and its requests come again.
LEMMA RestartKeeps ==
    ASSUME AuthInv, Restart
    PROVE  AuthInv'
<1>1. ASSUME NEW r \in Requests
      PROVE  req'[r] \in Request /\ Fits(req[r])'
  <2>1. req[r] \in Request /\ Fits(req[r])
    BY DEF AuthInv, TypeOK, RequestsFit
  <2>2. CASE Waiting(r)
    <3>1. req'[r] = New
      BY <2>2 DEF Restart
    <3>2. QED
      BY <3>1 DEF New, Request, Fits, WaitingPcs
  <2>3. CASE ~Waiting(r)
    <3>1. req'[r] = req[r] /\ req[r].pc \notin WaitingPcs
      BY <2>3 DEF Restart, Waiting, WaitingPcs
    <3>2. QED
      BY <2>1, <3>1 DEF Restart, Fits, VouchedFor, Good, Acceptable
  <2>4. QED
    BY <2>2, <2>3
<1>2. req' \in [Requests -> Request] /\ RequestsFit'
  BY <1>1 DEF Restart, RequestsFit
<1>3. Cardinality(keyCache') <= MaxCached
  BY FS_EmptySet DEF Restart
<1>4. Published' = Published /\ Published \subseteq Keys
  BY DEF Published, Restart
<1>5. QED
  BY <1>2, <1>3, <1>4 DEF AuthInv, TypeOK, BarrenFits, Restart

\* The provider's own steps, and time.
LEMMA WorldKeeps ==
    ASSUME AuthInv,
           Outage \/ Recovery \/ Tick \/ \E k \in Keys : Publish(k) \/ Retire(k)
    PROVE  AuthInv'
<1>0. Published \subseteq fresh /\ Published \subseteq Keys /\ TypeOK
  BY DEF AuthInv, Published
<1>1. ASSUME NEW k \in Keys, Publish(k)
      PROVE  AuthInv'
  <2>1. Published' = Published \cup {k}
    BY <1>0, <1>1 DEF Publish, Published, TypeOK
  <2>2. RequestsFit'
    BY <1>1, <2>1 DEF AuthInv, RequestsFit, Fits, UnderWay, VouchedFor, Good, Acceptable, Publish
  <2>3. QED
    BY <1>0, <1>1, <2>1, <2>2 DEF AuthInv, TypeOK, BarrenFits, Publish
<1>2. ASSUME NEW k \in Keys, Retire(k)
      PROVE  AuthInv'
  <2>1. Published' = Published \ {k}
    BY <1>0, <1>2 DEF Retire, Published, TypeOK
  <2>2. idp \in BOOLEAN
    BY <1>0 DEF TypeOK
  <2>3. req' \in [Requests -> Request] /\ RequestsFit'
    BY <1>2, <2>1, <2>2, LivingKeeps DEF Retire
  <2>4. QED
    BY <1>0, <1>2, <2>1, <2>3 DEF AuthInv, TypeOK, BarrenFits, Retire
<1>3. CASE Outage
  <2>1. Published' = Published
    BY <1>3 DEF Outage, Published
  <2>2. req' \in [Requests -> Request] /\ RequestsFit'
    BY <1>3, <2>1, LivingKeeps DEF Outage
  <2>3. TypeOK'
    <3>1. idp' \in BOOLEAN
      BY <1>3 DEF Outage
    <3>2. faults' \in Nat
      BY <1>0, <1>3 DEF TypeOK, Outage
    <3>3. UNCHANGED <<config, now, key, keyCache, setCache, fresh, barren>>
      BY <1>3 DEF Outage
    <3>4. QED
      BY <1>0, <2>2, <3>1, <3>2, <3>3 DEF TypeOK
  <2>4. QED
    BY <1>0, <1>3, <2>1, <2>2, <2>3 DEF AuthInv, BarrenFits, Outage
<1>4. CASE Recovery
  <2>1. Published' = Published
    BY <1>4 DEF Recovery, Published
  <2>2. RequestsFit'
    BY <1>4, <2>1 DEF AuthInv, RequestsFit, Fits, UnderWay, VouchedFor, Good, Acceptable, Recovery
  <2>3. QED
    BY <1>0, <1>4, <2>1, <2>2 DEF AuthInv, TypeOK, BarrenFits, Recovery
<1>5. CASE Tick
  <2>1. Published' = Published
    BY <1>5 DEF Tick, Published
  <2>2. RequestsFit'
    BY <1>5, <2>1 DEF AuthInv, RequestsFit, Fits, UnderWay, VouchedFor, Good, Acceptable, Tick
  <2>3. QED
    BY <1>0, <1>5, <2>1, <2>2 DEF AuthInv, TypeOK, BarrenFits, Tick
<1>6. QED
  BY <1>1, <1>2, <1>3, <1>4, <1>5

\* AuthInv holds in every reachable state.
THEOREM AuthInvariance == Spec => []AuthInv
<1>1. Init => AuthInv
  <2> SUFFICES ASSUME Init
               PROVE  AuthInv
    OBVIOUS
  <2>1. TypeOK
    <3>1. Cardinality(keyCache) <= MaxCached
      BY FS_EmptySet DEF Init
    <3>2. New \in Request
      BY DEF Request
    <3>3. QED
      BY <3>1, <3>2 DEF Init, TypeOK, Published
  <2>2. RequestsFit
    BY DEF Init, RequestsFit, Fits, WaitingPcs, New
  <2>3. QED
    BY <2>1, <2>2 DEF Init, AuthInv, BarrenFits
<1>2. AuthInv /\ [Next]_vars => AuthInv'
  <2> SUFFICES ASSUME AuthInv, [Next]_vars
               PROVE  AuthInv'
    OBVIOUS
  <2>1. ASSUME NEW r \in Requests, NEW t \in Tokens \cup {NoToken},
               NEW dev \in Subjects \cup {NoToken}, Arrive(r, t, dev)
        PROVE  AuthInv'
    BY <2>1, ArriveKeeps
  <2>2. ASSUME NEW r \in Requests,
               LookUp(r) \/ Fetch(r) \/ FetchFails(r) \/ Store(r) \/ Decode(r)
        PROVE  AuthInv'
    BY <2>2, LookUpKeeps, FetchKeeps, FetchFailsKeeps, StoreKeeps, DecodeKeeps
  <2>3. CASE Restart
    BY <2>3, RestartKeeps
  <2>4. CASE Outage \/ Recovery \/ Tick \/ \E k \in Keys : Publish(k) \/ Retire(k)
    BY <2>4, WorldKeeps
  <2>5. CASE UNCHANGED vars
    BY <2>5 DEF vars, AuthInv, TypeOK, RequestsFit, Fits, UnderWay, VouchedFor, Good,
                Acceptable, Published, BarrenFits
  <2>6. QED
    BY <2>1, <2>2, <2>3, <2>4, <2>5 DEF Next
<1>3. QED
  BY <1>1, <1>2, PTL DEF Spec

----------------------------------------------------------------------------
(* What follows *)

\* Every variable has its type, and the caches hold what was published only.
THEOREM AuthTypeCorrect == Spec => []TypeOK
<1>1. AuthInv => TypeOK
  BY DEF AuthInv
<1>2. QED
  BY <1>1, AuthInvariance, PTL

\* require_user (security.py): the caller is the subject of a token that was
\* acceptable when it was accepted, however long its key took to fetch.
THEOREM CallersAreAlwaysVouchedFor == Spec => []CallersAreVouchedFor
<1>1. AuthInv => CallersAreVouchedFor
  BY DEF AuthInv, RequestsFit, Fits, VouchedFor, CallersAreVouchedFor
<1>2. QED
  BY <1>1, AuthInvariance, PTL

\* _verify_oidc: a good token is refused only if the provider was out of reach or
\* an empty key set from it is still in use, and with a 503, whatever the threads
\* fetch, store and evict meanwhile.
THEOREM GoodTokensAreAlwaysAccepted == Spec => []GoodTokensAreAccepted
<1>1. AuthInv => GoodTokensAreAccepted
  BY DEF AuthInv, RequestsFit, Fits, Good, GoodTokensAreAccepted
<1>2. QED
  BY <1>1, AuthInvariance, PTL

\* Only Arrive and Decode accept, and only Decode in oidc mode.
LEMMA OnlyDecodeAccepts ==
    ASSUME AuthInv, [Next]_vars, NEW r \in Requests, config.mode = "oidc",
           req[r].pc # "accepted", req'[r].pc = "accepted"
    PROVE  Decode(r)
<1>1. req \in [Requests -> Request]
  BY CachesNow
<1>2. \A q \in Requests : \A x : Go(q, x) => req'[r] = IF q = r THEN x ELSE req[r]
  BY <1>1 DEF Go
<1>3. ASSUME NEW q \in Requests, NEW t, NEW dev, Arrive(q, t, dev)
      PROVE  FALSE
  BY <1>2, <1>3 DEF Arrive
<1>4. ASSUME NEW q \in Requests, LookUp(q) \/ Fetch(q) \/ FetchFails(q) \/ Store(q)
      PROVE  FALSE
  <2>1. req[q].pc \in WaitingPcs
    BY <1>4 DEF LookUp, Fetch, FetchFails, Store, WaitingPcs
  <2>2. req[q] \in [pc: WaitingPcs, token: Tokens, user: Subjects \cup {DevUser, NoToken},
                    set: SUBSET Keys, known: SUBSET Keys, calm: BOOLEAN, when: Nat]
    BY <2>1, Fields
  <2>3. \E pc \in WaitingPcs \cup {"unavailable"} : req'[q].pc = pc
    <3>1. CASE LookUp(q)
      <4>1. \E pc \in {"decode", "unavailable", AfterMiss, "fetch"} :
              req'[q] = [req[q] EXCEPT !.pc = pc] \/ req'[q] = [req[q] EXCEPT !.pc = pc, !.when = now]
        BY <1>1, <3>1 DEF LookUp, Go
      <4>2. QED
        BY <2>2, <4>1 DEF AfterMiss, WaitingPcs
    <3>2. CASE Fetch(q)
      BY <1>1, <2>2, <3>2 DEF Fetch, WaitingPcs, Go
    <3>3. CASE FetchFails(q)
      BY <1>1, <2>2, <3>3 DEF FetchFails, WaitingPcs, Go
    <3>4. CASE Store(q)
      <4>1. CASE req[q].token.kid \in req[q].set
        <5>1. Go(q, [req[q] EXCEPT !.pc = "decode", !.set = {}])
          BY <3>4, <4>1 DEF Store
        <5>2. req'[q].pc = "decode"
          BY <1>1, <2>2, <5>1 DEF Go
        <5>3. QED
          BY <5>2 DEF WaitingPcs
      <4>2. CASE req[q].token.kid \notin req[q].set
        <5>1. Go(q, [req[q] EXCEPT !.when = now, !.set = {},
                       !.pc = IF req[q].pc = "fetched" /\ req[q].set # {}
                                THEN AfterMiss ELSE "unavailable"])
          BY <3>4, <4>2 DEF Store
        <5>2. req'[q].pc \in {AfterMiss, "unavailable"}
          BY <1>1, <2>2, <5>1 DEF Go
        <5>3. QED
          BY <5>2 DEF WaitingPcs, AfterMiss
      <4>3. QED
        BY <4>1, <4>2
    <3>5. QED
      BY <1>4, <3>1, <3>2, <3>3, <3>4
  <2>4. q # r => req'[r] = req[r]
    BY <1>1, <1>4 DEF LookUp, Fetch, FetchFails, Store, Go
  <2>5. QED
    BY <2>3, <2>4 DEF WaitingPcs
<1>5. ASSUME NEW published, NEW up, Living(published, up)
      PROVE  FALSE
  <2>1. CASE Waiting(r)
    <3>1. req'[r] = [req[r] EXCEPT !.known = @ \cap published, !.calm = @ /\ up]
      BY <1>5, <2>1 DEF Living
    <3>2. req[r] \in [pc: WaitingPcs, token: Tokens, user: Subjects \cup {DevUser, NoToken},
                      set: SUBSET Keys, known: SUBSET Keys, calm: BOOLEAN, when: Nat]
      BY <2>1, Fields DEF Waiting, WaitingPcs
    <3>3. QED
      BY <3>1, <3>2
  <2>2. CASE ~Waiting(r)
    BY <1>5, <2>2 DEF Living
  <2>3. QED
    BY <2>1, <2>2
<1>6. ~Restart
  BY DEF Restart, New
<1>7. ASSUME NEW q \in Requests, Decode(q)
      PROVE  q = r
  BY <1>2, <1>7 DEF Decode, Verdict
<1>8. ~(Outage \/ Recovery \/ Tick \/ UNCHANGED vars \/ \E k \in Keys : Publish(k) \/ Retire(k))
  BY <1>5 DEF Outage, Recovery, Tick, vars, Publish, Retire
<1>9. QED
  BY <1>3, <1>4, <1>6, <1>7, <1>8 DEF Next

\* _verify_oidc: who is accepted has signed with the key the token names, and the
\* provider has published that key since this process was started.
THEOREM KeysAlwaysWerePublished == Spec => KeysWerePublished
<1>1. AuthInv /\ [Next]_vars =>
        [\A r \in Requests :
           req[r].pc # "accepted" /\ req'[r].pc = "accepted" /\ config.mode = "oidc" =>
             req[r].token.by = req[r].token.kid /\ req[r].token.by \in fresh]_vars
  <2> SUFFICES ASSUME AuthInv, [Next]_vars, NEW r \in Requests, config.mode = "oidc",
                      req[r].pc # "accepted", req'[r].pc = "accepted"
               PROVE  req[r].token.by = req[r].token.kid /\ req[r].token.by \in fresh
    OBVIOUS
  <2>1. Decode(r)
    BY OnlyDecodeAccepts
  <2>2. req[r].pc = "decode" /\ UnderWay(req[r])
    BY <2>1, Fields DEF Decode, WaitingPcs
  <2>3. Decodes(req[r].token, req[r].token.kid)
    <3>1. req \in [Requests -> Request]
      BY CachesNow
    <3>2. ASSUME ~Decodes(req[r].token, req[r].token.kid)
          PROVE  FALSE
      <4>1. req'[r] = [req[r] EXCEPT !.pc = "unauthorized", !.when = now]
        BY <2>1, <3>1, <3>2 DEF Decode, Verdict, Go
      <4>2. req[r] \in [pc: WaitingPcs, token: Tokens, user: Subjects \cup {DevUser, NoToken},
                        set: SUBSET Keys, known: SUBSET Keys, calm: BOOLEAN, when: Nat]
        BY <2>2, Fields DEF WaitingPcs
      <4>3. QED
        BY <4>1, <4>2
    <3>3. QED
      BY <3>2
  <2>4. QED
    BY <2>2, <2>3 DEF UnderWay, Decodes, Signed
<1>2. QED
  BY <1>1, AuthInvariance, PTL DEF Spec, KeysWerePublished
=============================================================================
