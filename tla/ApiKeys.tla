------------------------------ MODULE ApiKeys ------------------------------
(***************************************************************************)
(* The life of an API key.                                                 *)
(*                                                                         *)
(* Postgres holds the tables users, api_keys and usage (db/init.sql).  The *)
(* broker processes share them: the control plane creates, lists and       *)
(* revokes keys (routers/keys.py), a background task of each process       *)
(* sweeps expired keys (reaper.py), and every /v1 request looks its key up *)
(* (security.py, require_key) and may leave a usage row (metering.py).     *)
(*                                                                         *)
(* A handler is split at its awaits: what it read before an await it uses  *)
(* after it, and anything may happen in between.                           *)
(***************************************************************************)
EXTENDS Integers

CONSTANTS
    Keys,       \* API keys: a key, its hash and its row id are one thing
    Users,      \* subjects that require_user can return
    Brokers,    \* broker processes
    Calls,      \* slots for concurrent control-plane requests
    Requests,   \* /v1 requests, each sent once
    Lifetimes,  \* the expires_in_s a caller may ask for, in clock ticks
    NoExpiry,   \* expires_at IS NULL
    NoRow,      \* a SELECT that matched nothing; a row that does not exist
    MaxSkew,    \* how far a broker's clock may be from the database's
    MaxTime,    \* bound: the last instant of the database clock
    MaxFaults   \* bound: crashes, failed sweeps and failed statements

\* CreateKeyRequest.expires_in_s is at least one tick.
ASSUME LifetimesAssumption == Lifetimes \subseteq Nat \ {0}
ASSUME NoExpiryAssumption == NoExpiry \notin Int
ASSUME BoundsAssumption == MaxSkew \in Nat /\ MaxTime \in Nat /\ MaxFaults \in Nat

\* The columns of an api_keys row that anything depends on.
Row == [owner: Users, revoked: BOOLEAN, expires: Int \cup {NoExpiry}]

\* What require_key selects.
Found == [user: Users, revoked: BOOLEAN, expired: BOOLEAN]

ASSUME NoRowAssumption == NoRow \notin Row /\ NoRow \notin Found

VARIABLES
    now,      \* the database clock
    users,    \* the ids in table users
    apikeys,  \* table api_keys: apikeys[k] is a row, or NoRow
    usage,    \* table usage: [by |-> request, key |-> key]
    up,       \* up[b]: broker process b is serving
    sweep,    \* sweep[b]: where the reaper task of b stands
    call,     \* call[c]: the control-plane request in slot c
    req,      \* req[r]: where /v1 request r stands
    faults    \* how many faults have happened

tables == <<users, apikeys, usage>>
vars == <<now, users, apikeys, usage, up, sweep, call, req, faults>>

----------------------------------------------------------------------------
(* The tables *)

Exists(k) == apikeys[k] # NoRow

\* expires_at IS NOT NULL AND expires_at <= t
ExpiredBy(row, t) == row.expires # NoExpiry /\ row.expires <= t

\* A key the database itself would call unusable at this instant.
Dead(k) == Exists(k) /\ (apikeys[k].revoked \/ ExpiredBy(apikeys[k], now))
Live(k) == Exists(k) /\ ~Dead(k)

Standing(k) == IF ~Exists(k) THEN "absent" ELSE IF Dead(k) THEN "dead" ELSE "live"

\* MUTANT of Revoked: DELETE instead of UPDATE.
DeletedRows(ks) == [k \in Keys |-> IF k \in ks THEN NoRow ELSE apikeys[k]]

\* UPDATE api_keys SET revoked = true WHERE id IN ks
Revoked(ks) == [k \in Keys |-> IF k \in ks /\ Exists(k)
                                 THEN [apikeys[k] EXCEPT !.revoked = TRUE]
                                 ELSE apikeys[k]]

\* usage.key_id REFERENCES api_keys ON DELETE CASCADE
Cascaded == {u \in usage : apikeys'[u.key] # NoRow}

\* What GET /usage adds up for a user: the usage rows of the user's keys.
UsageOf(u) == {x \in usage : Exists(x.key) /\ apikeys[x.key].owner = u}

\* What a broker may read on its own clock.
BrokerClock == (now - MaxSkew) .. (now + MaxSkew)

----------------------------------------------------------------------------
(* Types *)

Sweep == [pc: {"off", "asleep", "sweeping"}, found: SUBSET Keys]

Idle == [pc |-> "idle"]

Call ==
    {Idle}
    \cup [pc: {"insert_user"}, at: Brokers, user: Users, key: Keys,
          life: Lifetimes \cup {NoExpiry}]
    \cup [pc: {"insert_key"}, at: Brokers, user: Users, key: Keys,
          expires: Int \cup {NoExpiry}]
    \cup [pc: {"created", "update", "revoked", "not_found"}, at: Brokers, user: Users,
          key: Keys]
    \cup [pc: {"select"}, at: Brokers, user: Users, gone: SUBSET Keys]
    \cup [pc: {"selected"}, at: Brokers, user: Users, gone: SUBSET Keys,
          rows: [Keys -> Row \cup {NoRow}]]
    \cup [pc: {"listed"}, at: Brokers, user: Users, gone: SUBSET Keys,
          keys: SUBSET Keys, revoked: SUBSET Keys]

New == [pc |-> "new"]

Request ==
    {New}
    \cup [pc: {"sent", "lost"}, at: Brokers, key: Keys, was: {"absent", "live", "dead"}]
    \cup [pc: {"looked", "admitted", "refused", "done"}, at: Brokers, key: Keys,
          was: {"absent", "live", "dead"}, row: Found \cup {NoRow}]

UsageRow == [by: Requests, key: Keys]

InFlight == {"sent", "looked", "admitted"}

\* Every variable has its type, the foreign keys of db/init.sql hold, and a
\* broker that is down runs no reaper, no handler and no request.
TypeOK ==
    /\ now \in Nat
    /\ users \subseteq Users
    /\ apikeys \in [Keys -> Row \cup {NoRow}]
    /\ usage \subseteq UsageRow
    /\ up \in [Brokers -> BOOLEAN]
    /\ sweep \in [Brokers -> Sweep]
    /\ call \in [Calls -> Call]
    /\ req \in [Requests -> Request]
    /\ faults \in Nat
    /\ \A k \in Keys : Exists(k) => apikeys[k].owner \in users
    /\ \A x \in usage : Exists(x.key)
    /\ \A b \in Brokers : up[b] <=> sweep[b].pc # "off"
    /\ \A c \in Calls : call[c] # Idle => up[call[c].at]
    /\ \A r \in Requests : req[r].pc \in InFlight => up[req[r].at]

----------------------------------------------------------------------------
(* A fresh deployment: no keys, perhaps a seeded user, every broker started,
   its reaper about to sweep for the first time. *)

Init ==
    /\ now = 0
    /\ users \in SUBSET Users
    /\ apikeys = [k \in Keys |-> NoRow]
    /\ usage = {}
    /\ up = [b \in Brokers |-> TRUE]
    /\ sweep = [b \in Brokers |-> [pc |-> "asleep", found |-> {}]]
    /\ call = [c \in Calls |-> Idle]
    /\ req = [r \in Requests |-> New]
    /\ faults = 0

----------------------------------------------------------------------------
(* POST /keys *)

\* secrets.token_urlsafe never repeats: no row has the key, no creator holds it.
Fresh(k) == /\ ~Exists(k)
            /\ \A d \in Calls : call[d].pc \in {"insert_user", "insert_key"} =>
                                  call[d].key # k

CreateKey(c, b, u, k, life) ==
    /\ call[c] = Idle
    /\ up[b]
    /\ Fresh(k)
    /\ call' = [call EXCEPT ![c] = [pc |-> "insert_user", at |-> b, user |-> u,
                                    key |-> k, life |-> life]]
    /\ UNCHANGED <<now, tables, up, sweep, req, faults>>

\* The first INSERT commits by itself; expires_at is then read off the
\* broker's clock and travels with the second INSERT.
InsertUser(c) ==
    /\ call[c].pc = "insert_user"
    /\ users' = users \cup {call[c].user}
    /\ \E t \in BrokerClock :
         LET expires == IF call[c].life = NoExpiry THEN NoExpiry ELSE t + call[c].life
         IN  /\ expires # NoExpiry => expires <= MaxTime
             /\ call' = [call EXCEPT ![c] =
                           [pc |-> "insert_key", at |-> call[c].at, user |-> call[c].user,
                            key |-> call[c].key, expires |-> expires]]
    /\ UNCHANGED <<now, apikeys, usage, up, sweep, req, faults>>

InsertKey(c) ==
    /\ call[c].pc = "insert_key"
    /\ call[c].user \in users           \* REFERENCES users (id)
    /\ apikeys' = [apikeys EXCEPT ![call[c].key] =
                     [owner |-> call[c].user, revoked |-> FALSE,
                      expires |-> call[c].expires]]
    /\ call' = [call EXCEPT ![c] = [pc |-> "created", at |-> call[c].at,
                                    user |-> call[c].user, key |-> call[c].key]]
    /\ UNCHANGED <<now, users, usage, up, sweep, req, faults>>

----------------------------------------------------------------------------
(* DELETE /keys/{key_id}: any user may name any key *)

RevokeKey(c, b, u, k) ==
    /\ call[c] = Idle
    /\ up[b]
    /\ call' = [call EXCEPT ![c] = [pc |-> "update", at |-> b, user |-> u, key |-> k]]
    /\ UNCHANGED <<now, tables, up, sweep, req, faults>>

\* MUTANT of Owned: the user_id predicate is forgotten.
OwnedByAnyone(u, k) == Exists(k)

\* WHERE id = $1 AND user_id = $2
Owned(u, k) == Exists(k) /\ apikeys[k].owner = u

\* Returns the reply: "UPDATE 0" is a 404; a key already revoked is updated again.
UpdateRevoked(c) ==
    /\ call[c].pc = "update"
    /\ LET hit == {k \in {call[c].key} : Owned(call[c].user, k)}
       IN  /\ apikeys' = Revoked(hit)
           /\ call' = [call EXCEPT ![c].pc = IF hit = {} THEN "not_found" ELSE "revoked"]
    /\ UNCHANGED <<now, users, usage, up, sweep, req, faults>>

----------------------------------------------------------------------------
(* GET /keys *)

\* gone is history: the caller's keys that were dead, by more than the clocks
\* may disagree, before the call was made.
ListKeys(c, b, u) ==
    /\ call[c] = Idle
    /\ up[b]
    /\ call' = [call EXCEPT ![c] =
                  [pc |-> "select", at |-> b, user |-> u,
                   gone |-> {k \in Keys : /\ Owned(u, k)
                                          /\ \/ apikeys[k].revoked
                                             \/ ExpiredBy(apikeys[k], now - MaxSkew)}]]
    /\ UNCHANGED <<now, tables, up, sweep, req, faults>>

SelectKeys(c) ==
    /\ call[c].pc = "select"
    /\ call' = [call EXCEPT ![c] =
                  [pc |-> "selected", at |-> call[c].at, user |-> call[c].user,
                   gone |-> call[c].gone,
                   rows |-> [k \in Keys |-> IF Owned(call[c].user, k) THEN apikeys[k]
                                                                      ELSE NoRow]]]
    /\ UNCHANGED <<now, tables, up, sweep, req, faults>>

\* MUTANT of ShownRevoked: the column as it is, before the reaper has swept.
ShownUnswept(row, t) == row.revoked

\* KeyInfo.revoked, computed from the fetched row and the broker's clock.
ShownRevoked(row, t) == row.revoked \/ ExpiredBy(row, t)

ReplyList(c) ==
    /\ call[c].pc = "selected"
    /\ LET rows == call[c].rows
           keys == {k \in Keys : rows[k] # NoRow}
       IN  \E t \in BrokerClock :
             call' = [call EXCEPT ![c] =
                        [pc |-> "listed", at |-> call[c].at, user |-> call[c].user,
                         gone |-> call[c].gone, keys |-> keys,
                         revoked |-> {k \in keys : ShownRevoked(rows[k], t)}]]
    /\ UNCHANGED <<now, tables, up, sweep, req, faults>>

Answered == {"created", "revoked", "not_found", "listed"}

\* The reply leaves, or is lost on its way: the broker keeps nothing of it.
EndCall(c) ==
    /\ call[c].pc \in Answered
    /\ call' = [call EXCEPT ![c] = Idle]
    /\ UNCHANGED <<now, tables, up, sweep, req, faults>>

\* A statement fails (500), or the client hangs up: the slot is free, what was
\* committed stays.
FailCall(c) ==
    /\ faults < MaxFaults
    /\ call[c].pc \in {"insert_user", "insert_key", "update", "select", "selected"}
    /\ call' = [call EXCEPT ![c] = Idle]
    /\ faults' = faults + 1
    /\ UNCHANGED <<now, tables, up, sweep, req>>

----------------------------------------------------------------------------
(* A /v1 request: require_key, then the handler *)

\* was is history: how the key stood when the request reached the broker.
SendRequest(r, b, k) ==
    /\ req[r] = New
    /\ up[b]
    /\ req' = [req EXCEPT ![r] = [pc |-> "sent", at |-> b, key |-> k, was |-> Standing(k)]]
    /\ UNCHANGED <<now, tables, up, sweep, call, faults>>

\* MUTANT of Selected: NOT (expires_at > now()), which takes NULL for expired.
SelectedNullExpired(k) ==
    IF ~Exists(k) THEN NoRow
    ELSE [user |-> apikeys[k].owner, revoked |-> apikeys[k].revoked,
          expired |-> ~(apikeys[k].expires # NoExpiry /\ apikeys[k].expires > now)]

\* SELECT ... WHERE key_hash = $1, with expired computed by the database.
Selected(k) ==
    IF ~Exists(k) THEN NoRow
    ELSE [user |-> apikeys[k].owner, revoked |-> apikeys[k].revoked,
          expired |-> ExpiredBy(apikeys[k], now)]

LookUp(r) ==
    /\ req[r].pc = "sent"
    /\ req' = [req EXCEPT ![r] = [pc |-> "looked", at |-> req[r].at, key |-> req[r].key,
                                  was |-> req[r].was, row |-> Selected(req[r].key)]]
    /\ UNCHANGED <<now, tables, up, sweep, call, faults>>

\* MUTANT of Accepts: expiry is left to the reaper.
AcceptsUnswept(row) == row # NoRow /\ ~row.revoked

\* The checks after the await; comparing the hash again cannot fail.
Accepts(row) == row # NoRow /\ ~row.revoked /\ ~row.expired

Decide(r) ==
    /\ req[r].pc = "looked"
    /\ req' = [req EXCEPT ![r].pc = IF Accepts(req[r].row) THEN "admitted" ELSE "refused"]
    /\ UNCHANGED <<now, tables, up, sweep, call, faults>>

\* metering.record: INSERT INTO usage; the key's row must exist.
RecordUsage(r) ==
    /\ req[r].pc = "admitted"
    /\ Exists(req[r].key)
    /\ usage' = usage \cup {[by |-> r, key |-> req[r].key]}
    /\ req' = [req EXCEPT ![r].pc = "done"]
    /\ UNCHANGED <<now, users, apikeys, up, sweep, call, faults>>

\* An admitted request that leaves no row: GET /v1/models, 429, 400, 404, an
\* upstream error, or an INSERT that failed and was only logged.
EndUnmetered(r) ==
    /\ req[r].pc = "admitted"
    /\ req' = [req EXCEPT ![r].pc = "done"]
    /\ UNCHANGED <<now, tables, up, sweep, call, faults>>

----------------------------------------------------------------------------
(* The reaper task of broker b *)

\* The UPDATE takes its snapshot and its now() when it starts ...
BeginSweep(b) ==
    /\ sweep[b].pc = "asleep"
    /\ sweep' = [sweep EXCEPT ![b] =
                   [pc |-> "sweeping",
                    found |-> {k \in Keys : /\ Exists(k)
                                            /\ ExpiredBy(apikeys[k], now)
                                            /\ ~apikeys[k].revoked}]]
    /\ UNCHANGED <<now, tables, up, call, req, faults>>

\* ... and commits later; the loop then sleeps.
CommitSweep(b) ==
    /\ sweep[b].pc = "sweeping"
    /\ apikeys' = Revoked(sweep[b].found)
    /\ usage' = Cascaded
    /\ sweep' = [sweep EXCEPT ![b] = [pc |-> "asleep", found |-> {}]]
    /\ UNCHANGED <<now, users, up, call, req, faults>>

\* MUTANT of FailSweep: a failed sweep ends the task.
FailSweepForGood(b) ==
    /\ faults < MaxFaults
    /\ sweep[b].pc = "sweeping"
    /\ sweep' = [sweep EXCEPT ![b] = [pc |-> "off", found |-> {}]]
    /\ faults' = faults + 1
    /\ UNCHANGED <<now, tables, up, call, req>>

\* Any exception is logged and the loop sleeps until the next try.
FailSweep(b) ==
    /\ faults < MaxFaults
    /\ sweep[b].pc = "sweeping"
    /\ sweep' = [sweep EXCEPT ![b] = [pc |-> "asleep", found |-> {}]]
    /\ faults' = faults + 1
    /\ UNCHANGED <<now, tables, up, call, req>>

----------------------------------------------------------------------------
(* Broker processes and time *)

\* A crash or a shutdown drops everything the process was doing; what was
\* committed stays.
Stop(b) ==
    /\ faults < MaxFaults
    /\ up[b]
    /\ up' = [up EXCEPT ![b] = FALSE]
    /\ sweep' = [sweep EXCEPT ![b] = [pc |-> "off", found |-> {}]]
    /\ call' = [c \in Calls |-> IF call[c] # Idle /\ call[c].at = b THEN Idle ELSE call[c]]
    /\ req' = [r \in Requests |->
                 IF req[r].pc \in InFlight /\ req[r].at = b
                   THEN [pc |-> "lost", at |-> b, key |-> req[r].key, was |-> req[r].was]
                   ELSE req[r]]
    /\ faults' = faults + 1
    /\ UNCHANGED <<now, tables>>

\* lifespan: reaper.start, which sweeps at once and then every interval.
Start(b) ==
    /\ ~up[b]
    /\ up' = [up EXCEPT ![b] = TRUE]
    /\ sweep' = [sweep EXCEPT ![b] = [pc |-> "asleep", found |-> {}]]
    /\ UNCHANGED <<now, tables, call, req, faults>>

Tick ==
    /\ now < MaxTime
    /\ now' = now + 1
    /\ UNCHANGED <<tables, up, sweep, call, req, faults>>

----------------------------------------------------------------------------
Handler(c) ==
    \/ InsertUser(c) \/ InsertKey(c) \/ UpdateRevoked(c)
    \/ SelectKeys(c) \/ ReplyList(c) \/ EndCall(c) \/ FailCall(c)

Caller(c, b, u) ==
    \/ \E k \in Keys, life \in Lifetimes \cup {NoExpiry} : CreateKey(c, b, u, k, life)
    \/ \E k \in Keys : RevokeKey(c, b, u, k)
    \/ ListKeys(c, b, u)

Inference(r) ==
    \/ \E b \in Brokers, k \in Keys : SendRequest(r, b, k)
    \/ LookUp(r) \/ Decide(r) \/ RecordUsage(r) \/ EndUnmetered(r)

Process(b) == BeginSweep(b) \/ CommitSweep(b) \/ FailSweep(b) \/ Stop(b) \/ Start(b)

Next ==
    \/ \E c \in Calls, b \in Brokers, u \in Users : Caller(c, b, u)
    \/ \E c \in Calls : Handler(c)
    \/ \E r \in Requests : Inference(r)
    \/ \E b \in Brokers : Process(b)
    \/ Tick

Spec == Init /\ [][Next]_vars

\* Time passes; the reaper loop keeps running, its statements end, and a broker
\* that stopped is restarted (docker-compose: restart: unless-stopped).
Fairness ==
    /\ WF_vars(Tick)
    /\ \A b \in Brokers : /\ WF_vars(BeginSweep(b))
                          /\ WF_vars(CommitSweep(b) \/ FailSweep(b))
                          /\ WF_vars(Start(b))

FairSpec == Spec /\ Fairness

----------------------------------------------------------------------------
(* The inductive invariant behind the properties *)

\* The key a creator is about to insert has no row, and no other creator has it.
CreatorsHoldFreshKeys ==
    \A c \in Calls : call[c].pc \in {"insert_user", "insert_key"} =>
        /\ ~Exists(call[c].key)
        /\ \A d \in Calls \ {c} : call[d].pc \in {"insert_user", "insert_key"} =>
                                    call[d].key # call[c].key

\* A sweep under way revokes only keys that have expired.
SweepsFindExpired ==
    \A b \in Brokers : \A k \in sweep[b].found : Exists(k) /\ ExpiredBy(apikeys[k], now)

\* What a listing fetched was in the table, and can only have been revoked since;
\* what was gone before the call is in it, revoked or long expired.
ListingsAreRows ==
    \A c \in Calls :
        /\ call[c].pc = "select" =>
             \A k \in call[c].gone :
               /\ Owned(call[c].user, k)
               /\ apikeys[k].revoked \/ ExpiredBy(apikeys[k], now - MaxSkew)
        /\ call[c].pc = "selected" =>
             /\ \A k \in Keys : call[c].rows[k] # NoRow =>
                  /\ Owned(call[c].user, k)
                  /\ call[c].rows[k].expires = apikeys[k].expires
                  /\ call[c].rows[k].revoked => apikeys[k].revoked
             /\ \A k \in call[c].gone :
                  /\ call[c].rows[k] # NoRow
                  /\ call[c].rows[k].revoked \/ ExpiredBy(call[c].rows[k], now - MaxSkew)

Rejects(row) == row # NoRow /\ (row.revoked \/ row.expired)

\* What a request knows of its key is still true: rows are never dropped and a
\* dead key stays dead, so the row it selected tells how the key stood then.
RequestsKnow ==
    \A r \in Requests :
        /\ req[r] # New =>
             /\ req[r].was = "dead" => Dead(req[r].key)
             /\ req[r].was = "live" => Exists(req[r].key)
        /\ req[r].pc = "looked" =>
             /\ Rejects(req[r].row) => Dead(req[r].key)
             /\ req[r].was = "dead" => Rejects(req[r].row)
             /\ req[r].was = "live" => req[r].row # NoRow

----------------------------------------------------------------------------
(* Properties *)

\* A key that was revoked or expired when a /v1 request reached a broker never
\* gets that request admitted: require_key asks the database every time and
\* checks expiry itself, so neither a cached grant nor a late sweep helps it.
DeadKeyNeverAdmitted ==
    \A r \in Requests : req[r].pc = "admitted" => req[r].was # "dead"

\* A request sent with a usable key is refused only when the key was revoked or
\* expired in the meantime: require_key raises no 401 on a live key.
RefusalsAreJust ==
    \A r \in Requests : req[r].pc = "refused" /\ req[r].was = "live" => Dead(req[r].key)

\* GET /keys shows the caller's own keys; a key shown as revoked is one that
\* require_key refuses, up to the difference of the clocks, and a key that was
\* dead before the call is not shown as usable.
ListIsTruthful ==
    \A c \in Calls : call[c].pc = "listed" =>
        /\ \A k \in call[c].keys : Owned(call[c].user, k)
        /\ call[c].revoked \subseteq call[c].keys
        /\ \A k \in call[c].revoked :
              apikeys[k].revoked \/ ExpiredBy(apikeys[k], now + MaxSkew)
        /\ call[c].gone \subseteq call[c].revoked

\* A dead key stays dead, whatever sweeps, revocations, failures and restarts
\* follow: nothing clears revoked, moves expires_at or reuses a key.
DeadStaysDead == [][\A k \in Keys : Dead(k) => Dead(k)']_vars

\* A key that has not expired is revoked by a DELETE /keys call of its owner
\* and by nothing else, the reaper included.
OnlyOwnerRevokesLive ==
    [][\A k \in Keys : Live(k) /\ Exists(k)' /\ apikeys'[k].revoked =>
         \E c \in Calls : call[c].pc = "update" /\ call[c].key = k
                           /\ call[c].user = apikeys[k].owner]_vars

\* What GET /usage adds up for a user never shrinks: the reaper revokes rather
\* than deletes, because deleting a key would cascade to its usage rows.
BillsOnlyGrow == [][\A u \in Users : UsageOf(u) \subseteq UsageOf(u)']_vars

\* Every key created with an expiry ends up revoked in the table, although the
\* session that should have revoked it is gone, the process that created it
\* crashed, or sweeps failed: this is the backstop the reaper is there for.
ExpiringKeysAreSwept ==
    \A k \in Keys : (Exists(k) /\ apikeys[k].expires # NoExpiry)
                      ~> (Exists(k) /\ apikeys[k].revoked)

InductiveInv ==
    /\ TypeOK
    /\ CreatorsHoldFreshKeys
    /\ SweepsFindExpired
    /\ ListingsAreRows
    /\ RequestsKnow
    /\ DeadKeyNeverAdmitted
    /\ RefusalsAreJust
    /\ ListIsTruthful

=============================================================================
