---------------------------- MODULE ControlAuth ----------------------------
(***************************************************************************)
(* Who calls the control plane: security.py, require_user.                 *)
(*                                                                         *)
(* In oidc mode a token is checked against the keys an identity provider   *)
(* publishes, rotates and retires.  They are fetched in worker threads by  *)
(* one PyJWKClient per process, which keeps every key it has found for     *)
(* ever and the last key set for a while; both are modelled from PyJWT     *)
(* 2.10.1, which requirements.txt pins.                                    *)
(***************************************************************************)
EXTENDS Integers, FiniteSets

CONSTANTS
    Keys,          \* signing keys of the provider; a kid names one of them
    Secret,        \* auth_jwt_secret
    Forged,        \* any other signature, or an algorithm that is not allowed
    Subjects,
    NoSubject,     \* no sub claim, or an empty one
    DevUser,       \* dev_user_id
    Never,         \* no exp claim
    NoToken,       \* no bearer token; no key set; no X-Dev-User
    Tokens,        \* the tokens that callers may present
    Configs,       \* the settings considered
    Requests,
    MaxCached,     \* keys remembered: 16 in the code
    Lifespan,      \* of the cached key set: 300 s in the code
    MaxTime, MaxFaults  \* bounds: the last instant; outages and restarts

\* A token names a key, is signed by one, and is meant for this audience, from
\* this issuer, or not.  nbf is the later of its nbf and iat claims, 0 if it has
\* neither: the provider's clock may be ahead of ours.
Token == [kid: Keys, by: Keys \cup {Secret, Forged}, sub: Subjects \cup {NoSubject},
          nbf: Nat, exp: Nat \cup {Never}, aud: BOOLEAN, iss: BOOLEAN]
Config == [mode: {"dev", "hs256", "oidc"}, audience: BOOLEAN, issuer: BOOLEAN]

ASSUME TokensAssumption == Tokens \subseteq Token /\ Configs \subseteq Config
ASSUME NamesAssumption == /\ Never \notin Int /\ NoSubject \notin Subjects
                          /\ NoToken \notin Tokens
                          /\ Secret # Forged /\ Secret \notin Keys /\ Forged \notin Keys
ASSUME BoundsAssumption == /\ MaxCached \in Nat \ {0} /\ Lifespan \in Nat
                           /\ MaxTime \in Nat /\ MaxFaults \in Nat

VARIABLES
    config,    \* the settings, fixed at startup
    now,
    key,       \* key[k]: "future", "published" or "retired" at the provider
    idp,       \* the provider answers
    keyCache,  \* lru_cache of get_signing_key: the keys found so far
    setCache,  \* JWKSetCache: the last key set and until when it is used
    req,       \* req[r]: where require_user stands for request r
    fresh,     \* history: the keys published at some moment since the process started
    barren,    \* history: until when the last empty key set to arrive may be used
    faults

vars == <<config, now, key, idp, keyCache, setCache, req, fresh, barren, faults>>

Published == {k \in Keys : key[k] = "published"}

New == [pc |-> "new"]

\* known: history, the keys published from the beginning of the request on.
\* calm: history, the provider has answered since.  set: a key set under way.
Request ==
    {New} \cup [pc: {"look_up", "fetch", "refresh", "fetched", "refreshed", "decode",
                     "accepted", "unauthorized", "unavailable"},
                token: Tokens \cup {NoToken},
                user: Subjects \cup {DevUser, NoToken}, set: SUBSET Keys,
                known: SUBSET Keys, calm: BOOLEAN, when: Nat]

TypeOK ==
    /\ config \in Configs
    /\ now \in Nat
    /\ key \in [Keys -> {"future", "published", "retired"}]
    /\ idp \in BOOLEAN
    /\ keyCache \subseteq Keys /\ Cardinality(keyCache) <= MaxCached
    /\ setCache \in [keys: SUBSET Keys, until: Nat] \cup {NoToken}
    /\ req \in [Requests -> Request]
    /\ fresh \subseteq Keys
    /\ barren \in Int /\ barren <= now + Lifespan
    /\ faults \in Nat
    \* the caches hold only what the provider has published
    /\ keyCache \subseteq fresh
    /\ setCache # NoToken => setCache.keys \subseteq fresh

Init ==
    /\ config \in Configs
    /\ now = 0
    /\ key \in [Keys -> {"future", "published"}]
    /\ idp = TRUE
    /\ keyCache = {} /\ setCache = NoToken
    /\ req = [r \in Requests |-> New]
    /\ fresh = Published
    /\ barren = -1
    /\ faults = 0

----------------------------------------------------------------------------
(* Checking a token *)

\* MUTANT of Signed: the signature is taken on trust.
SignedOnTrust(t, k) == TRUE

\* jwt.decode with pinned algorithms
Signed(t, k) == t.by = k

\* MUTANT of Decodes: the token is read, its claims are not required.
DecodesExpired(t, k) == Signed(t, k) /\ (config.audience => t.aud) /\ (config.issuer => t.iss)

\* _decode_options, _decode_kwargs: exp and sub are required, aud and iss checked
\* if configured; what is not said there is PyJWT's default, which refuses a
\* token whose nbf or iat is to come, without leeway.
Decodes(t, k) ==
    /\ Signed(t, k)
    /\ t.exp # Never /\ t.exp > now
    /\ t.nbf <= now
    /\ t.sub # NoSubject
    /\ config.audience => t.aud
    /\ config.issuer => t.iss

\* Request r goes on to s with what in x changed; the process keeps its caches.
Go(r, x) == req' = [req EXCEPT ![r] = x]

Verdict(r, k) ==
    IF Decodes(req[r].token, k)
      THEN Go(r, [req[r] EXCEPT !.pc = "accepted", !.user = req[r].token.sub, !.when = now,
                                !.known = {}, !.calm = TRUE])
      ELSE Go(r, [req[r] EXCEPT !.pc = "unauthorized", !.when = now])

Elsewhere == UNCHANGED <<config, now, key, idp, fresh, barren, faults>>

\* A request arrives.  dev mode takes X-Dev-User for an answer and looks at no
\* token; no token is a 401; an HS256 token is checked at once.
Arrive(r, t, dev) ==
    /\ req[r] = New
    /\ LET x == [pc |-> "look_up", token |-> t, user |-> NoToken, set |-> {},
                 known |-> Published, calm |-> idp, when |-> now]
       IN  IF config.mode = "dev"
             THEN Go(r, [x EXCEPT !.pc = "accepted",
                                  !.user = IF dev = NoToken THEN DevUser ELSE dev])
           ELSE IF t = NoToken THEN Go(r, [x EXCEPT !.pc = "unauthorized"])
           ELSE IF config.mode = "oidc" THEN Go(r, x)
           ELSE IF Decodes(t, Secret)
             THEN Go(r, [x EXCEPT !.pc = "accepted", !.user = t.sub])
           ELSE Go(r, [x EXCEPT !.pc = "unauthorized"])
    /\ Elsewhere /\ UNCHANGED <<keyCache, setCache>>

----------------------------------------------------------------------------
(* _verify_oidc: get_signing_key_from_jwt, in a thread *)

\* MUTANT of Remember: a cache without a size.
RememberAll(k) == keyCache' = keyCache \cup {k}

\* lru_cache: one more key, and if there are too many, some older one goes.
Remember(k) ==
    \E kept \in SUBSET keyCache :
        /\ Cardinality(kept \cup {k}) =
             IF Cardinality(keyCache \cup {k}) <= MaxCached
               THEN Cardinality(keyCache \cup {k}) ELSE MaxCached
        /\ keyCache' = kept \cup {k}

\* MUTANT of AfterMiss: an unknown kid is not looked up again.
AfterMissGiveUp == "unavailable"

\* No kid in the key set: refresh it once.
AfterMiss == "refresh"

InUse == setCache # NoToken /\ now <= setCache.until

\* The kid is remembered, or in the key set still in use, or a fetch is due.  An
\* empty key set in use is an error of the client before anything is fetched.
LookUp(r) ==
    /\ req[r].pc = "look_up"
    /\ LET k == req[r].token.kid
       IN  \/ /\ k \in keyCache
              /\ Go(r, [req[r] EXCEPT !.pc = "decode"])
              /\ UNCHANGED keyCache
           \/ /\ k \notin keyCache /\ InUse /\ k \in setCache.keys
              /\ Remember(k)
              /\ Go(r, [req[r] EXCEPT !.pc = "decode"])
           \/ /\ k \notin keyCache /\ InUse /\ setCache.keys = {}
              /\ Go(r, [req[r] EXCEPT !.pc = "unavailable", !.when = now])
              /\ UNCHANGED keyCache
           \/ /\ k \notin keyCache /\ (InUse => setCache.keys # {} /\ k \notin setCache.keys)
              /\ Go(r, [req[r] EXCEPT !.pc = IF InUse THEN AfterMiss ELSE "fetch"])
              /\ UNCHANGED keyCache
    /\ Elsewhere /\ UNCHANGED setCache

\* The provider answers; the answer is under way while keys may change and
\* other threads fetch.
Fetch(r) ==
    /\ req[r].pc \in {"fetch", "refresh"} /\ idp
    /\ Go(r, [req[r] EXCEPT !.pc = IF req[r].pc = "fetch" THEN "fetched" ELSE "refreshed",
                            !.set = Published])
    /\ Elsewhere /\ UNCHANGED <<keyCache, setCache>>

\* fetch_data, finally: a failed fetch empties the cache of the key set; an
\* error of the client is not an InvalidTokenError, hence 503.
FetchFails(r) ==
    /\ req[r].pc \in {"fetch", "refresh"} /\ ~idp
    /\ setCache' = NoToken
    /\ Go(r, [req[r] EXCEPT !.pc = "unavailable", !.when = now])
    /\ Elsewhere /\ UNCHANGED keyCache

\* The key set is stored, whatever another thread has stored meanwhile.  A kid
\* that a refresh does not find, or an empty set, is an error of the client.
Store(r) ==
    /\ req[r].pc \in {"fetched", "refreshed"}
    /\ setCache' = [keys |-> req[r].set, until |-> now + Lifespan]
    /\ barren' = IF req[r].set = {} THEN now + Lifespan ELSE barren
    /\ LET k == req[r].token.kid
       IN  IF k \in req[r].set
             THEN /\ Remember(k)
                  /\ Go(r, [req[r] EXCEPT !.pc = "decode", !.set = {}])
             ELSE /\ Go(r, [req[r] EXCEPT !.when = now, !.set = {},
                              !.pc = IF req[r].pc = "fetched" /\ req[r].set # {}
                                       THEN AfterMiss ELSE "unavailable"])
                  /\ UNCHANGED keyCache
    /\ UNCHANGED <<config, now, key, idp, fresh, faults>>

\* Back in the event loop: the token may have expired while the key was fetched.
Decode(r) ==
    /\ req[r].pc = "decode"
    /\ Verdict(r, req[r].token.kid)
    /\ Elsewhere /\ UNCHANGED <<keyCache, setCache>>

----------------------------------------------------------------------------
(* The provider, the process and time *)

Waiting(r) == req[r].pc \in {"look_up", "fetch", "refresh", "fetched", "refreshed", "decode"}

\* What the requests under way have lived through (history).
Living(published, up) ==
    req' = [r \in Requests |->
              IF Waiting(r) THEN [req[r] EXCEPT !.known = @ \cap published, !.calm = @ /\ up]
                            ELSE req[r]]

Publish(k) ==
    /\ key[k] = "future"
    /\ key' = [key EXCEPT ![k] = "published"]
    /\ fresh' = fresh \cup {k}
    /\ UNCHANGED <<config, now, idp, keyCache, setCache, req, barren, faults>>

Retire(k) ==
    /\ key[k] = "published"
    /\ key' = [key EXCEPT ![k] = "retired"]
    /\ Living(Published \ {k}, idp)
    /\ UNCHANGED <<config, now, idp, keyCache, setCache, fresh, barren, faults>>

Outage ==
    /\ idp /\ faults < MaxFaults
    /\ idp' = FALSE /\ faults' = faults + 1
    /\ Living(Published, FALSE)
    /\ UNCHANGED <<config, now, key, keyCache, setCache, fresh, barren>>

Recovery == ~idp /\ idp' = TRUE
            /\ UNCHANGED <<config, now, key, keyCache, setCache, req, fresh, barren, faults>>

\* The process is started again; its clients try again.
Restart ==
    /\ faults < MaxFaults /\ faults' = faults + 1
    /\ keyCache' = {} /\ setCache' = NoToken /\ fresh' = Published
    /\ req' = [r \in Requests |-> IF Waiting(r) THEN New ELSE req[r]]
    /\ UNCHANGED <<config, now, key, idp, barren>>

Tick == now < MaxTime /\ now' = now + 1
        /\ UNCHANGED <<config, key, idp, keyCache, setCache, req, fresh, barren, faults>>

Next ==
    \/ \E r \in Requests :
         \/ \E t \in Tokens \cup {NoToken}, dev \in Subjects \cup {NoToken} : Arrive(r, t, dev)
         \/ LookUp(r) \/ Fetch(r) \/ FetchFails(r) \/ Store(r) \/ Decode(r)
    \/ \E k \in Keys : Publish(k) \/ Retire(k)
    \/ Outage \/ Recovery \/ Restart \/ Tick

Spec == Init /\ [][Next]_vars

----------------------------------------------------------------------------
(* Properties *)

\* Meant for us, in force, and with a subject.
Acceptable(t, when) ==
    /\ t.exp # Never /\ t.exp > when /\ t.nbf <= when /\ t.sub # NoSubject
    /\ config.audience => t.aud
    /\ config.issuer => t.iss

\* Outside dev mode the caller is the subject of a token that was acceptable
\* at the very moment it was accepted, however long its key took to fetch;
\* X-Dev-User counts for nothing.
CallersAreVouchedFor ==
    \A r \in Requests : req[r].pc = "accepted" /\ config.mode # "dev" =>
        /\ req[r].token # NoToken
        /\ req[r].user = req[r].token.sub
        /\ Acceptable(req[r].token, req[r].when)
        /\ config.mode = "hs256" => req[r].token.by = Secret

\* In oidc mode the token is signed by the key it names, and that key was
\* published at some moment since this process started.  It may have been
\* retired since: keys that were found are never forgotten, but a restart,
\* which forgets them, ends the trust in a key retired before it.
KeysWerePublished ==
    [][\A r \in Requests :
         req[r].pc # "accepted" /\ req'[r].pc = "accepted" /\ config.mode = "oidc" =>
           req[r].token.by = req[r].token.kid /\ req[r].token.by \in fresh]_vars

\* Rotation is followed: a good token, signed by a key that is published all
\* through the request, is refused only if the provider was out of reach, or if
\* an empty key set arrived from it no longer than Lifespan ago, and then with a
\* 503, never a 401 - whatever other threads fetch, store over each other or
\* evict.  Good includes that the token is in force by our clock when it is
\* decoded: one issued by a clock ahead of ours is a 401 until then.
GoodTokensAreAccepted ==
    \A r \in Requests :
        /\ req[r].pc \in {"unauthorized", "unavailable"}
        /\ config.mode = "oidc" /\ req[r].token # NoToken
        /\ req[r].token.by = req[r].token.kid /\ req[r].token.by \in req[r].known
        /\ Acceptable(req[r].token, req[r].when)
        => req[r].pc = "unavailable" /\ (~req[r].calm \/ req[r].when <= barren)

=============================================================================
