--------------------------- MODULE ApiKeysProofs ---------------------------
(***************************************************************************)
(* Proofs about ApiKeys, for any keys, users, brokers and bounds.          *)
(***************************************************************************)
EXTENDS ApiKeys, TLAPS

USE LifetimesAssumption, NoExpiryAssumption, NoRowAssumption, BoundsAssumption

(***************************************************************************)
(* Type correctness.                                                       *)
(***************************************************************************)

\* A lifetime is a number.
LEMMA LifetimeType == \A x \in Lifetimes : x \in Int
<1>1. ASSUME NEW x \in Lifetimes
      PROVE  x \in Int
  <2>1. x \in Nat \ {0}
    OBVIOUS
  <2>2. x \in Nat
    BY <2>1
  <2>3. QED
    BY <2>2
<1>2. QED
  BY <1>1

\* A revoked row is a row, and no row appears or disappears.
LEMMA RevokedType ==
    ASSUME apikeys \in [Keys -> Row \cup {NoRow}], NEW ks
    PROVE  /\ Revoked(ks) \in [Keys -> Row \cup {NoRow}]
           /\ \A k \in Keys : (Revoked(ks)[k] = NoRow) <=> (apikeys[k] = NoRow)
           /\ \A k \in Keys : apikeys[k] # NoRow =>
                 /\ Revoked(ks)[k].owner = apikeys[k].owner
                 /\ Revoked(ks)[k].expires = apikeys[k].expires
                 /\ Revoked(ks)[k].revoked = (apikeys[k].revoked \/ k \in ks)
<1>1. ASSUME NEW k \in Keys
      PROVE  /\ Revoked(ks)[k] \in Row \cup {NoRow}
             /\ (Revoked(ks)[k] = NoRow) <=> (apikeys[k] = NoRow)
             /\ apikeys[k] # NoRow =>
                 /\ Revoked(ks)[k].owner = apikeys[k].owner
                 /\ Revoked(ks)[k].expires = apikeys[k].expires
                 /\ Revoked(ks)[k].revoked = (apikeys[k].revoked \/ k \in ks)
  <2>1. CASE apikeys[k] = NoRow
    BY <2>1 DEF Revoked, Exists
  <2>2. CASE apikeys[k] # NoRow
    <3>1. apikeys[k] \in Row
      BY <2>2
    <3>2. CASE k \in ks
      <4>1. Revoked(ks)[k] = [apikeys[k] EXCEPT !.revoked = TRUE]
        BY <2>2, <3>2 DEF Revoked, Exists
      <4>2. Revoked(ks)[k] \in Row
        BY <4>1, <3>1 DEF Row
      <4>3. QED
        BY <4>1, <4>2, <3>1, <3>2, <2>2 DEF Row
    <3>3. CASE k \notin ks
      <4>1. Revoked(ks)[k] = apikeys[k]
        BY <3>3 DEF Revoked
      <4>2. QED
        BY <4>1, <3>1, <3>3, <2>2 DEF Row
    <3>4. QED
      BY <3>2, <3>3
  <2>3. QED
    BY <2>1, <2>2
<1>2. Revoked(ks) = [k \in Keys |-> Revoked(ks)[k]]
  BY DEF Revoked
<1>3. QED
  BY <1>1, <1>2

\* The initial state is well typed.
LEMMA TypeInit == Init => TypeOK
BY DEF Init, TypeOK, Sweep, Call, Idle, Request, New, UsageRow, Exists, InFlight

\* Nothing of the tables, the clock or the processes changes.
Quiet == UNCHANGED <<now, tables, up, sweep, faults>>

\* A step that only moves one call on keeps the types.
LEMMA CallStepType ==
    ASSUME TypeOK, Quiet, UNCHANGED req,
           NEW c \in Calls, NEW v \in Call, v # Idle => up[v.at],
           call' = [call EXCEPT ![c] = v]
    PROVE  TypeOK'
<1>1. call' \in [Calls -> Call]
  BY DEF TypeOK
<1>2. \A d \in Calls : call'[d] # Idle => up'[call'[d].at]
  BY DEF TypeOK, Quiet
<1>3. QED
  BY <1>1, <1>2 DEF TypeOK, Quiet, tables, Exists

\* A step that only moves one request on keeps the types.
LEMMA RequestStepType ==
    ASSUME TypeOK, Quiet, UNCHANGED call,
           NEW r \in Requests, NEW v \in Request, v.pc \in InFlight => up[v.at],
           req' = [req EXCEPT ![r] = v]
    PROVE  TypeOK'
<1>1. req' \in [Requests -> Request]
  BY DEF TypeOK
<1>2. \A q \in Requests : req'[q].pc \in InFlight => up'[req'[q].at]
  BY DEF TypeOK, Quiet
<1>3. QED
  BY <1>1, <1>2 DEF TypeOK, Quiet, tables, Exists

\* The control-plane actions keep the types.
LEMMA CallerType ==
    ASSUME TypeOK, NEW c \in Calls, NEW b \in Brokers, NEW u \in Users, Caller(c, b, u)
    PROVE  TypeOK'
<1>1. ASSUME NEW k \in Keys, NEW life \in Lifetimes \cup {NoExpiry},
             CreateKey(c, b, u, k, life)
      PROVE  TypeOK'
  <2> DEFINE v == [pc |-> "insert_user", at |-> b, user |-> u, key |-> k, life |-> life]
  <2>1. v \in Call /\ v.at = b
    BY DEF Call
  <2>2. QED
    BY <1>1, <2>1, CallStepType DEF CreateKey, Quiet
<1>2. ASSUME NEW k \in Keys, RevokeKey(c, b, u, k)
      PROVE  TypeOK'
  <2> DEFINE v == [pc |-> "update", at |-> b, user |-> u, key |-> k]
  <2>1. v \in Call /\ v.at = b
    BY DEF Call
  <2>2. QED
    BY <1>2, <2>1, CallStepType DEF RevokeKey, Quiet
<1>3. ASSUME ListKeys(c, b, u)
      PROVE  TypeOK'
  <2> DEFINE gone == {k \in Keys : /\ Owned(u, k)
                                   /\ \/ apikeys[k].revoked
                                      \/ ExpiredBy(apikeys[k], now - MaxSkew)}
             v == [pc |-> "select", at |-> b, user |-> u, gone |-> gone]
  <2>1. v \in Call /\ v.at = b
    BY DEF Call
  <2>2. QED
    BY <1>3, <2>1, CallStepType DEF ListKeys, Quiet
<1>4. QED
  BY <1>1, <1>2, <1>3 DEF Caller

\* Every await-to-await step of a control-plane handler keeps the types.
LEMMA HandlerType ==
    ASSUME TypeOK, NEW c \in Calls, Handler(c)
    PROVE  TypeOK'
<1> DEFINE m == call[c]
<1>0. m \in Call
  BY DEF TypeOK
<1>1. ASSUME InsertUser(c)
      PROVE  TypeOK'
  <2>1. /\ m.pc = "insert_user" /\ m.at \in Brokers /\ m.user \in Users /\ m.key \in Keys
        /\ m.life \in Lifetimes \cup {NoExpiry} /\ up[m.at]
    BY <1>1, <1>0 DEF InsertUser, Call, Idle, TypeOK
  <2>2. PICK t \in BrokerClock :
          call' = [call EXCEPT ![c] =
                     [pc |-> "insert_key", at |-> m.at, user |-> m.user, key |-> m.key,
                      expires |-> IF m.life = NoExpiry THEN NoExpiry ELSE t + m.life]]
    BY <1>1 DEF InsertUser
  <2>3. (IF m.life = NoExpiry THEN NoExpiry ELSE t + m.life) \in Int \cup {NoExpiry}
    <3>0. now \in Nat
      BY DEF TypeOK
    <3>1. t \in Int
      BY <3>0 DEF BrokerClock
    <3>2. m.life # NoExpiry => m.life \in Int
      BY <2>1, LifetimeType
    <3>3. m.life # NoExpiry => t + m.life \in Int
      BY <3>1, <3>2
    <3>4. QED
      BY <3>3
  <2>4. call' \in [Calls -> Call] /\ \A d \in Calls : call'[d] # Idle => up[call'[d].at]
    BY <2>1, <2>2, <2>3 DEF TypeOK, Call
  <2>5. users' = users \cup {m.user} /\ UNCHANGED <<now, apikeys, usage, up, sweep, req, faults>>
    BY <1>1 DEF InsertUser
  <2>6. QED
    BY <2>1, <2>4, <2>5 DEF TypeOK, Exists
<1>2. ASSUME InsertKey(c)
      PROVE  TypeOK'
  <2>1. /\ m.pc = "insert_key" /\ m.at \in Brokers /\ m.user \in Users /\ m.key \in Keys
        /\ m.expires \in Int \cup {NoExpiry} /\ up[m.at] /\ m.user \in users
    BY <1>2, <1>0 DEF InsertKey, Call, Idle, TypeOK
  <2> DEFINE row == [owner |-> m.user, revoked |-> FALSE, expires |-> m.expires]
             v == [pc |-> "created", at |-> m.at, user |-> m.user, key |-> m.key]
  <2>2. row \in Row /\ row # NoRow /\ row.owner \in users
    <3>1. row \in Row
      BY <2>1 DEF Row
    <3>2. QED
      BY <2>1, <3>1
  <2>3. v \in Call /\ up[v.at]
    BY <2>1 DEF Call
  <2>4. /\ apikeys' = [apikeys EXCEPT ![m.key] = row]
        /\ call' = [call EXCEPT ![c] = v]
        /\ UNCHANGED <<now, users, usage, up, sweep, req, faults>>
    BY <1>2 DEF InsertKey
  <2>5. call' \in [Calls -> Call] /\ \A d \in Calls : call'[d] # Idle => up[call'[d].at]
    BY <2>3, <2>4 DEF TypeOK
  <2>6. /\ apikeys' \in [Keys -> Row \cup {NoRow}]
        /\ \A k \in Keys : apikeys'[k] # NoRow => apikeys'[k].owner \in users
        /\ \A x \in usage : apikeys'[x.key] # NoRow
    BY <2>1, <2>2, <2>4 DEF TypeOK, Exists, UsageRow
  <2>7. QED
    BY <2>4, <2>5, <2>6 DEF TypeOK, Exists
<1>3. ASSUME UpdateRevoked(c)
      PROVE  TypeOK'
  <2>1. m.pc = "update" /\ m.at \in Brokers /\ m.user \in Users /\ m.key \in Keys /\ up[m.at]
    BY <1>3, <1>0 DEF UpdateRevoked, Call, Idle, TypeOK
  <2>2. PICK hit : /\ apikeys' = Revoked(hit)
                   /\ call' = [call EXCEPT ![c].pc = IF hit = {} THEN "not_found" ELSE "revoked"]
    BY <1>3 DEF UpdateRevoked
  <2>3. m \in [pc: {"created", "update", "revoked", "not_found"}, at: Brokers, user: Users,
               key: Keys]
    BY <2>1, <1>0 DEF Call, Idle
  <2>4. call'[c] \in Call /\ call'[c].at = m.at
    BY <2>2, <2>3 DEF Call, TypeOK
  <2>5. call' \in [Calls -> Call] /\ \A d \in Calls : call'[d] # Idle => up[call'[d].at]
    BY <2>1, <2>2, <2>4 DEF TypeOK
  <2>6. /\ apikeys' \in [Keys -> Row \cup {NoRow}]
        /\ \A k \in Keys : (apikeys'[k] = NoRow) <=> (apikeys[k] = NoRow)
        /\ \A k \in Keys : apikeys[k] # NoRow => apikeys'[k].owner = apikeys[k].owner
    BY <2>2, RevokedType DEF TypeOK
  <2>7. UNCHANGED <<now, users, usage, up, sweep, req, faults>>
    BY <1>3 DEF UpdateRevoked
  <2>8. QED
    BY <2>5, <2>6, <2>7 DEF TypeOK, Exists, UsageRow
<1>4. ASSUME SelectKeys(c)
      PROVE  TypeOK'
  <2>1. m.pc = "select" /\ m.at \in Brokers /\ m.user \in Users /\ m.gone \in SUBSET Keys /\ up[m.at]
    BY <1>4, <1>0 DEF SelectKeys, Call, Idle, TypeOK
  <2> DEFINE rows == [k \in Keys |-> IF Owned(m.user, k) THEN apikeys[k] ELSE NoRow]
             v == [pc |-> "selected", at |-> m.at, user |-> m.user, gone |-> m.gone,
                   rows |-> rows]
  <2>2. rows \in [Keys -> Row \cup {NoRow}]
    BY DEF TypeOK
  <2>3. v \in Call /\ up[v.at]
    BY <2>1, <2>2 DEF Call
  <2>4. QED
    BY <1>4, <2>3, CallStepType DEF SelectKeys, Quiet
<1>5. ASSUME ReplyList(c)
      PROVE  TypeOK'
  <2>1. m.pc = "selected" /\ m.at \in Brokers /\ m.user \in Users /\ m.gone \in SUBSET Keys /\ up[m.at]
    BY <1>5, <1>0 DEF ReplyList, Call, Idle, TypeOK
  <2> DEFINE keys == {k \in Keys : m.rows[k] # NoRow}
             v(t) == [pc |-> "listed", at |-> m.at, user |-> m.user, gone |-> m.gone,
                      keys |-> keys, revoked |-> {k \in keys : ShownRevoked(m.rows[k], t)}]
  <2>2. PICK t \in BrokerClock : call' = [call EXCEPT ![c] = v(t)]
    BY <1>5 DEF ReplyList
  <2>3. v(t) \in Call /\ v(t).at = m.at
    <3>1. keys \in SUBSET Keys /\ {k \in keys : ShownRevoked(m.rows[k], t)} \in SUBSET Keys
      OBVIOUS
    <3>2. QED
      BY <2>1, <3>1 DEF Call
  <2>4. Quiet /\ UNCHANGED req
    BY <1>5 DEF ReplyList, Quiet
  <2> HIDE DEF v
  <2>5. QED
    BY <2>1, <2>2, <2>3, <2>4, CallStepType
<1>6. ASSUME EndCall(c)
      PROVE  TypeOK'
  <2>1. Idle \in Call
    BY DEF Call
  <2>2. QED
    BY <1>6, <2>1, CallStepType DEF EndCall, Quiet
<1>7. ASSUME FailCall(c)
      PROVE  TypeOK'
  <2>1. Idle \in Call
    BY DEF Call
  <2>2. call' \in [Calls -> Call] /\ \A d \in Calls : call'[d] # Idle => up[call'[d].at]
    BY <1>7, <2>1 DEF FailCall, TypeOK
  <2>3. faults' \in Nat /\ UNCHANGED <<now, tables, up, sweep, req>>
    BY <1>7 DEF FailCall, TypeOK
  <2>4. QED
    BY <2>2, <2>3 DEF TypeOK, tables, Exists
<1>8. QED
  BY <1>1, <1>2, <1>3, <1>4, <1>5, <1>6, <1>7 DEF Handler

\* Every step of a /v1 request keeps the types.
LEMMA InferenceType ==
    ASSUME TypeOK, NEW r \in Requests, Inference(r)
    PROVE  TypeOK'
<1> DEFINE q == req[r]
<1>0. q \in Request
  BY DEF TypeOK
<1>1. ASSUME NEW b \in Brokers, NEW k \in Keys, SendRequest(r, b, k)
      PROVE  TypeOK'
  <2> DEFINE v == [pc |-> "sent", at |-> b, key |-> k, was |-> Standing(k)]
  <2>1. v \in Request /\ v.at = b
    BY DEF Request, Standing
  <2>2. QED
    BY <1>1, <2>1, RequestStepType DEF SendRequest, Quiet
<1>2. ASSUME LookUp(r)
      PROVE  TypeOK'
  <2>1. /\ q.pc = "sent" /\ q.at \in Brokers /\ q.key \in Keys
        /\ q.was \in {"absent", "live", "dead"} /\ up[q.at]
    BY <1>2, <1>0 DEF LookUp, Request, New, TypeOK, InFlight
  <2>2. Selected(q.key) \in Found \cup {NoRow}
    <3>1. CASE apikeys[q.key] = NoRow
      BY <3>1 DEF Selected, Exists
    <3>2. CASE apikeys[q.key] # NoRow
      <4>1. apikeys[q.key] \in Row
        BY <2>1, <3>2 DEF TypeOK
      <4>2. ExpiredBy(apikeys[q.key], now) \in BOOLEAN
        BY DEF ExpiredBy
      <4>3. QED
        BY <3>2, <4>1, <4>2 DEF Selected, Exists, Row, Found
    <3>3. QED
      BY <3>1, <3>2
  <2> DEFINE v == [pc |-> "looked", at |-> q.at, key |-> q.key, was |-> q.was,
                   row |-> Selected(q.key)]
  <2>3. v \in Request /\ up[v.at]
    BY <2>1, <2>2 DEF Request
  <2>4. QED
    BY <1>2, <2>3, RequestStepType DEF LookUp, Quiet
<1>3. ASSUME NEW pc \in {"admitted", "refused", "done"}, q.pc \in {"looked", "admitted"},
             req' = [req EXCEPT ![r].pc = pc]
      PROVE  /\ req' \in [Requests -> Request]
             /\ \A p \in Requests : req'[p].pc \in InFlight => up[req'[p].at]
  <2>1. q \in [pc: {"looked", "admitted", "refused", "done"}, at: Brokers, key: Keys,
               was: {"absent", "live", "dead"}, row: Found \cup {NoRow}]
    BY <1>3, <1>0 DEF Request, New
  <2>2. req'[r] \in Request /\ req'[r].at = q.at /\ up[q.at]
    BY <1>3, <2>1 DEF Request, TypeOK, InFlight
  <2>3. QED
    BY <1>3, <2>2 DEF TypeOK
<1>4. ASSUME Decide(r)
      PROVE  TypeOK'
  BY <1>3, <1>4 DEF Decide, TypeOK, tables, Exists
<1>5. ASSUME RecordUsage(r)
      PROVE  TypeOK'
  <2>1. q.key \in Keys /\ Exists(q.key)
    BY <1>5, <1>0 DEF RecordUsage, Request, New
  <2>2. [by |-> r, key |-> q.key] \in UsageRow
    BY <2>1 DEF UsageRow
  <2>3. QED
    BY <1>3, <1>5, <2>1, <2>2 DEF RecordUsage, TypeOK, Exists
<1>6. ASSUME EndUnmetered(r)
      PROVE  TypeOK'
  BY <1>3, <1>6 DEF EndUnmetered, TypeOK, tables, Exists
<1>7. QED
  BY <1>1, <1>2, <1>4, <1>5, <1>6 DEF Inference

\* The reaper's steps and the stops and starts of a broker keep the types.
LEMMA ProcessType ==
    ASSUME TypeOK, NEW b \in Brokers, Process(b)
    PROVE  TypeOK'
<1> DEFINE asleep == [pc |-> "asleep", found |-> {}]
<1>0. asleep \in Sweep /\ asleep.pc # "off"
  BY DEF Sweep
<1>1. ASSUME BeginSweep(b)
      PROVE  TypeOK'
  <2> DEFINE found == {k \in Keys : /\ Exists(k)
                                    /\ ExpiredBy(apikeys[k], now)
                                    /\ ~apikeys[k].revoked}
             v == [pc |-> "sweeping", found |-> found]
  <2>1. v \in Sweep /\ v.pc # "off"
    BY DEF Sweep
  <2>2. sweep' = [sweep EXCEPT ![b] = v] /\ sweep[b].pc = "asleep"
    BY <1>1 DEF BeginSweep
  <2> HIDE DEF v
  <2>3. sweep' \in [Brokers -> Sweep] /\ \A a \in Brokers : up[a] <=> sweep'[a].pc # "off"
    BY <2>1, <2>2 DEF TypeOK
  <2>4. QED
    BY <1>1, <2>3 DEF BeginSweep, TypeOK, tables, Exists
<1>2. ASSUME CommitSweep(b)
      PROVE  TypeOK'
  <2>1. /\ apikeys' = Revoked(sweep[b].found)
        /\ usage' = Cascaded
        /\ sweep' = [sweep EXCEPT ![b] = asleep]
        /\ sweep[b].pc = "sweeping"
        /\ UNCHANGED <<now, users, up, call, req, faults>>
    BY <1>2 DEF CommitSweep
  <2>2. /\ apikeys' \in [Keys -> Row \cup {NoRow}]
        /\ \A k \in Keys : (apikeys'[k] = NoRow) <=> (apikeys[k] = NoRow)
        /\ \A k \in Keys : apikeys[k] # NoRow => apikeys'[k].owner = apikeys[k].owner
    BY <2>1, RevokedType DEF TypeOK
  <2>3. usage' \subseteq UsageRow /\ \A x \in usage' : apikeys'[x.key] # NoRow
    BY <2>1 DEF TypeOK, Cascaded
  <2>4. sweep' \in [Brokers -> Sweep] /\ \A a \in Brokers : up[a] <=> sweep'[a].pc # "off"
    BY <1>0, <2>1 DEF TypeOK
  <2>5. QED
    BY <2>1, <2>2, <2>3, <2>4 DEF TypeOK, Exists
<1>3. ASSUME FailSweep(b)
      PROVE  TypeOK'
  <2>1. sweep' \in [Brokers -> Sweep] /\ \A a \in Brokers : up[a] <=> sweep'[a].pc # "off"
    BY <1>0, <1>3 DEF FailSweep, TypeOK
  <2>2. faults' \in Nat
    BY <1>3 DEF FailSweep, TypeOK
  <2>3. QED
    BY <1>3, <2>1, <2>2 DEF FailSweep, TypeOK, tables, Exists
<1>4. ASSUME Stop(b)
      PROVE  TypeOK'
  <2>1. /\ up' = [up EXCEPT ![b] = FALSE]
        /\ sweep' = [sweep EXCEPT ![b] = [pc |-> "off", found |-> {}]]
        /\ faults' = faults + 1
        /\ UNCHANGED <<now, tables>>
    BY <1>4 DEF Stop
  <2>2. /\ up' \in [Brokers -> BOOLEAN]
        /\ sweep' \in [Brokers -> Sweep]
        /\ \A a \in Brokers : up'[a] <=> sweep'[a].pc # "off"
    <3>1. [pc |-> "off", found |-> {}] \in Sweep
      BY DEF Sweep
    <3>2. QED
      BY <2>1, <3>1 DEF TypeOK
  <2>3. ASSUME NEW c \in Calls
        PROVE  call'[c] \in Call /\ (call'[c] # Idle => up'[call'[c].at])
    <3>1. call'[c] = IF call[c] # Idle /\ call[c].at = b THEN Idle ELSE call[c]
      BY <1>4 DEF Stop
    <3>2. CASE call[c] # Idle /\ call[c].at = b
      <4>1. Idle \in Call
        BY DEF Call
      <4>2. QED
        BY <3>1, <3>2, <4>1
    <3>3. CASE ~(call[c] # Idle /\ call[c].at = b)
      <4>1. call'[c] = call[c] /\ call[c] \in Call /\ (call[c] # Idle => up[call[c].at])
        BY <3>1, <3>3 DEF TypeOK
      <4>2. call[c] # Idle => call[c].at \in Brokers /\ call[c].at # b
        BY <3>3, <4>1 DEF Call
      <4>3. QED
        BY <2>1, <4>1, <4>2 DEF TypeOK
    <3>4. QED
      BY <3>2, <3>3
  <2>4. ASSUME NEW r \in Requests
        PROVE  req'[r] \in Request /\ (req'[r].pc \in InFlight => up'[req'[r].at])
    <3> DEFINE hit == req[r].pc \in InFlight /\ req[r].at = b
               v == [pc |-> "lost", at |-> b, key |-> req[r].key, was |-> req[r].was]
    <3>1. req'[r] = IF hit THEN v ELSE req[r]
      BY <1>4 DEF Stop
    <3>2. req[r] \in Request /\ (req[r].pc \in InFlight => up[req[r].at])
      BY DEF TypeOK
    <3>3. req[r].pc \in InFlight => /\ req[r].at \in Brokers /\ req[r].key \in Keys
                                    /\ req[r].was \in {"absent", "live", "dead"}
      BY <3>2 DEF Request, New, InFlight
    <3>4. CASE hit
      <4>1. v \in Request /\ v.pc \notin InFlight
        BY <3>3, <3>4 DEF Request, InFlight
      <4>2. QED
        BY <3>1, <3>4, <4>1
    <3>5. CASE ~hit
      <4>1. req'[r] = req[r]
        BY <3>1, <3>5
      <4>2. QED
        BY <2>1, <3>2, <3>3, <3>5, <4>1 DEF TypeOK
    <3>6. QED
      BY <3>4, <3>5
  <2>5. call' \in [Calls -> Call] /\ req' \in [Requests -> Request]
    <3>1. /\ call' = [c \in Calls |-> call'[c]]
          /\ req' = [r \in Requests |-> req'[r]]
      BY <1>4 DEF Stop
    <3>2. QED
      BY <2>3, <2>4, <3>1
  <2>6. faults' \in Nat
    BY <2>1 DEF TypeOK
  <2>7. QED
    BY <2>1, <2>2, <2>3, <2>4, <2>5, <2>6 DEF TypeOK, tables, Exists
<1>5. ASSUME Start(b)
      PROVE  TypeOK'
  <2>1. up' = [up EXCEPT ![b] = TRUE] /\ sweep' = [sweep EXCEPT ![b] = asleep]
    BY <1>5 DEF Start
  <2>2. /\ up' \in [Brokers -> BOOLEAN]
        /\ \A a \in Brokers : up[a] => up'[a]
    BY <2>1 DEF TypeOK
  <2>3. sweep' \in [Brokers -> Sweep] /\ \A a \in Brokers : up'[a] <=> sweep'[a].pc # "off"
    BY <1>0, <2>1 DEF TypeOK
  <2>4. \A c \in Calls : call[c] # Idle => up'[call[c].at]
    <3>1. \A c \in Calls : call[c] # Idle => call[c].at \in Brokers
      BY DEF TypeOK, Call
    <3>2. QED
      BY <2>2, <3>1 DEF TypeOK
  <2>5. \A r \in Requests : req[r].pc \in InFlight => up'[req[r].at]
    <3>1. \A r \in Requests : req[r].pc \in InFlight => req[r].at \in Brokers
      BY DEF TypeOK, Request, New, InFlight
    <3>2. QED
      BY <2>2, <3>1 DEF TypeOK
  <2>6. QED
    BY <1>5, <2>2, <2>3, <2>4, <2>5 DEF Start, TypeOK, tables, Exists
<1>6. QED
  BY <1>1, <1>2, <1>3, <1>4, <1>5 DEF Process

\* Every step keeps the types.
LEMMA TypeStep == TypeOK /\ [Next]_vars => TypeOK'
<1> SUFFICES ASSUME TypeOK, [Next]_vars
             PROVE  TypeOK'
  OBVIOUS
<1>1. CASE \E c \in Calls, b \in Brokers, u \in Users : Caller(c, b, u)
  BY <1>1, CallerType
<1>2. CASE \E c \in Calls : Handler(c)
  BY <1>2, HandlerType
<1>3. CASE \E r \in Requests : Inference(r)
  BY <1>3, InferenceType
<1>4. CASE \E b \in Brokers : Process(b)
  BY <1>4, ProcessType
<1>5. CASE Tick
  BY <1>5 DEF Tick, TypeOK, tables, Exists
<1>6. CASE UNCHANGED vars
  BY <1>6 DEF vars, TypeOK, Exists
<1>7. QED
  BY <1>1, <1>2, <1>3, <1>4, <1>5, <1>6 DEF Next

\* Every variable keeps its type, foreign keys are never broken, and a broker
\* that is down runs nothing.
THEOREM TypeCorrect == Spec => []TypeOK
<1>1. Init => TypeOK
  BY TypeInit
<1>2. TypeOK /\ [Next]_vars => TypeOK'
  BY TypeStep
<1>3. QED
  BY <1>1, <1>2, PTL DEF Spec

(***************************************************************************)
(* Rows endure: the one fact every property rests on.                      *)
(***************************************************************************)

\* The three ways a step can treat table api_keys.
TableStep ==
    \/ UNCHANGED apikeys
    \/ \E ks : apikeys' = Revoked(ks)
    \/ \E c \in Calls : InsertKey(c)

\* Each action treats table api_keys in one of these ways.
LEMMA TableSteps == [Next]_vars => TableStep
<1> SUFFICES ASSUME [Next]_vars
             PROVE  TableStep
  OBVIOUS
<1>1. ASSUME NEW c \in Calls, NEW b \in Brokers, NEW u \in Users, Caller(c, b, u)
      PROVE  TableStep
  BY <1>1 DEF Caller, CreateKey, RevokeKey, ListKeys, tables, TableStep
<1>2. ASSUME NEW c \in Calls, Handler(c)
      PROVE  TableStep
  <2>1. CASE UpdateRevoked(c)
    BY <2>1 DEF UpdateRevoked, TableStep
  <2>2. CASE ~UpdateRevoked(c)
    BY <1>2, <2>2 DEF Handler, InsertUser, SelectKeys, ReplyList, EndCall, FailCall,
                      tables, TableStep
  <2>3. QED
    BY <2>1, <2>2
<1>3. ASSUME NEW r \in Requests, Inference(r)
      PROVE  TableStep
  BY <1>3 DEF Inference, SendRequest, LookUp, Decide, RecordUsage, EndUnmetered, tables,
              TableStep
<1>4. ASSUME NEW b \in Brokers, Process(b)
      PROVE  TableStep
  BY <1>4 DEF Process, BeginSweep, CommitSweep, FailSweep, Stop, Start, tables, TableStep
<1>5. CASE Tick
  BY <1>5 DEF Tick, tables, TableStep
<1>6. CASE UNCHANGED vars
  BY <1>6 DEF vars, TableStep
<1>7. QED
  BY <1>1, <1>2, <1>3, <1>4, <1>5, <1>6 DEF Next

\* The database clock never goes back.
LEMMA ClockStep == TypeOK /\ [Next]_vars => now' \in Nat /\ now' >= now
<1> SUFFICES ASSUME TypeOK, [Next]_vars
             PROVE  now' \in Nat /\ now' >= now
  OBVIOUS
<1>0. now \in Nat
  BY DEF TypeOK
<1>1. ASSUME NEW c \in Calls, NEW b \in Brokers, NEW u \in Users, Caller(c, b, u)
      PROVE  now' = now
  BY <1>1 DEF Caller, CreateKey, RevokeKey, ListKeys
<1>2. ASSUME NEW c \in Calls, Handler(c)
      PROVE  now' = now
  BY <1>2 DEF Handler, InsertUser, InsertKey, UpdateRevoked, SelectKeys, ReplyList, EndCall,
              FailCall
<1>3. ASSUME NEW r \in Requests, Inference(r)
      PROVE  now' = now
  BY <1>3 DEF Inference, SendRequest, LookUp, Decide, RecordUsage, EndUnmetered
<1>4. ASSUME NEW b \in Brokers, Process(b)
      PROVE  now' = now
  BY <1>4 DEF Process, BeginSweep, CommitSweep, FailSweep, Stop, Start
<1>5. Tick \/ now' = now
  BY <1>1, <1>2, <1>3, <1>4 DEF Next, vars
<1>6. QED
  BY <1>0, <1>5 DEF Tick

\* A row keeps its owner and its expiry, and once revoked stays revoked.
Endures(k) ==
    Exists(k) => /\ Exists(k)'
                 /\ apikeys'[k].owner = apikeys[k].owner
                 /\ apikeys'[k].expires = apikeys[k].expires
                 /\ apikeys[k].revoked => apikeys'[k].revoked

\* No step drops a row, changes its owner or its expiry, or clears revoked.
LEMMA RowsEndure ==
    ASSUME TypeOK, CreatorsHoldFreshKeys, [Next]_vars, NEW k \in Keys
    PROVE  Endures(k)
<1>1. CASE UNCHANGED apikeys
  BY <1>1 DEF Endures, Exists
<1>2. ASSUME NEW ks, apikeys' = Revoked(ks)
      PROVE  Endures(k)
  <2>1. apikeys \in [Keys -> Row \cup {NoRow}]
    BY DEF TypeOK
  <2>2. apikeys[k] # NoRow =>
          /\ apikeys'[k] # NoRow
          /\ apikeys'[k].owner = apikeys[k].owner
          /\ apikeys'[k].expires = apikeys[k].expires
          /\ apikeys'[k].revoked = (apikeys[k].revoked \/ k \in ks)
    BY <1>2, <2>1, RevokedType
  <2>3. QED
    BY <2>2 DEF Endures, Exists
<1>3. ASSUME NEW c \in Calls, InsertKey(c)
      PROVE  Endures(k)
  <2>1. call[c].pc = "insert_key" /\ ~Exists(call[c].key)
    BY <1>3 DEF InsertKey, CreatorsHoldFreshKeys
  <2>2. Exists(k) => apikeys'[k] = apikeys[k]
    BY <1>3, <2>1 DEF InsertKey, TypeOK
  <2>3. QED
    BY <2>2 DEF Endures, Exists
<1>4. QED
  BY <1>1, <1>2, <1>3, TableSteps DEF TableStep

\* An expiry that has passed has passed for good.
LEMMA ExpiryPasses ==
    ASSUME NEW row \in Row, NEW s \in Int, NEW t \in Int, s <= t, ExpiredBy(row, s)
    PROVE  ExpiredBy(row, t)
<1>1. row.expires # NoExpiry /\ row.expires \in Int /\ row.expires <= s
  BY DEF ExpiredBy, Row
<1>2. row.expires <= t
  BY <1>1
<1>3. QED
  BY <1>1, <1>2 DEF ExpiredBy

\* A revoked or expired key is revoked or expired after the step as well.
LEMMA DeadEndures ==
    ASSUME TypeOK, CreatorsHoldFreshKeys, [Next]_vars, NEW k \in Keys, Dead(k)
    PROVE  Dead(k)'
<1>1. /\ Exists(k)' /\ apikeys'[k].expires = apikeys[k].expires
      /\ apikeys[k].revoked => apikeys'[k].revoked
  BY RowsEndure DEF Endures, Dead
<1>2. CASE apikeys[k].revoked
  BY <1>1, <1>2 DEF Dead
<1>3. CASE ExpiredBy(apikeys[k], now)
  <2>1. apikeys[k] \in Row /\ now \in Int /\ now' \in Int /\ now <= now'
    BY ClockStep DEF Dead, Exists, TypeOK
  <2>2. ExpiredBy(apikeys[k], now')
    BY <1>3, <2>1, ExpiryPasses
  <2>3. ExpiredBy(apikeys'[k], now')
    BY <1>1, <2>2 DEF ExpiredBy
  <2>4. QED
    BY <1>1, <2>3 DEF Dead
<1>4. QED
  BY <1>2, <1>3 DEF Dead

(***************************************************************************)
(* The conjuncts of the inductive invariant, one lemma each.               *)
(***************************************************************************)

Creating(m) == m.pc \in {"insert_user", "insert_key"}

\* While no call becomes a creator and no key appears, fresh keys stay fresh.
LEMMA FreshStays ==
    ASSUME CreatorsHoldFreshKeys, \A k \in Keys : Exists(k)' => Exists(k),
           \A c \in Calls : Creating(call'[c]) =>
             Creating(call[c]) /\ call'[c].key = call[c].key /\ call[c].key \in Keys
    PROVE  CreatorsHoldFreshKeys'
BY DEF CreatorsHoldFreshKeys, Creating

\* Creators go on holding keys that have no row and that nobody else holds.
LEMMA CreatorsStep ==
    ASSUME TypeOK, CreatorsHoldFreshKeys, [Next]_vars
    PROVE  CreatorsHoldFreshKeys'
<1>0. \A c \in Calls : call[c] \in Call /\ (Creating(call[c]) => call[c].key \in Keys)
  BY DEF TypeOK, Call, Idle, Creating
<1>1. ASSUME NEW c \in Calls, NEW b \in Brokers, NEW u \in Users, Caller(c, b, u)
      PROVE  CreatorsHoldFreshKeys'
  <2>1. ASSUME NEW k \in Keys, NEW life \in Lifetimes \cup {NoExpiry},
               CreateKey(c, b, u, k, life)
        PROVE  CreatorsHoldFreshKeys'
    <3> DEFINE v == [pc |-> "insert_user", at |-> b, user |-> u, key |-> k, life |-> life]
    <3>1. call' = [call EXCEPT ![c] = v] /\ UNCHANGED apikeys /\ Fresh(k)
      BY <2>1 DEF CreateKey, tables
    <3>2. v.pc = "insert_user" /\ v.key = k
      OBVIOUS
    <3> HIDE DEF v
    <3>3. call'[c] = v /\ \A d \in Calls \ {c} : call'[d] = call[d]
      BY <3>1 DEF TypeOK
    <3>4. QED
      BY <3>1, <3>2, <3>3 DEF CreatorsHoldFreshKeys, Fresh, Exists
  <2>2. ASSUME NEW v \in Call, ~Creating(v), call' = [call EXCEPT ![c] = v], UNCHANGED tables
        PROVE  CreatorsHoldFreshKeys'
    BY <1>0, <2>2, FreshStays DEF TypeOK, tables, Exists
  <2>3. ASSUME NEW k \in Keys, RevokeKey(c, b, u, k)
        PROVE  CreatorsHoldFreshKeys'
    <3> DEFINE v == [pc |-> "update", at |-> b, user |-> u, key |-> k]
    <3>1. v \in Call /\ ~Creating(v)
      BY DEF Call, Creating
    <3>2. QED
      BY <2>2, <2>3, <3>1 DEF RevokeKey
  <2>4. ASSUME ListKeys(c, b, u)
        PROVE  CreatorsHoldFreshKeys'
    <3> DEFINE gone == {k \in Keys : /\ Owned(u, k)
                                     /\ \/ apikeys[k].revoked
                                        \/ ExpiredBy(apikeys[k], now - MaxSkew)}
               v == [pc |-> "select", at |-> b, user |-> u, gone |-> gone]
    <3>1. v \in Call /\ ~Creating(v)
      BY DEF Call, Creating
    <3>2. QED
      BY <2>2, <2>4, <3>1 DEF ListKeys
  <2>5. QED
    BY <1>1, <2>1, <2>3, <2>4 DEF Caller
<1>2. ASSUME NEW c \in Calls, Handler(c)
      PROVE  CreatorsHoldFreshKeys'
  <2>1. ASSUME InsertUser(c)
        PROVE  CreatorsHoldFreshKeys'
    <3>1. Creating(call[c]) /\ UNCHANGED apikeys
      BY <2>1 DEF InsertUser, Creating
    <3>2. \A d \in Calls : Creating(call'[d]) =>
            Creating(call[d]) /\ call'[d].key = call[d].key
      BY <2>1, <3>1 DEF InsertUser, TypeOK
    <3>3. QED
      BY <1>0, <3>1, <3>2, FreshStays DEF Exists
  <2>2. ASSUME InsertKey(c)
        PROVE  CreatorsHoldFreshKeys'
    <3> DEFINE v == [pc |-> "created", at |-> call[c].at, user |-> call[c].user,
                     key |-> call[c].key]
    <3>1. /\ Creating(call[c]) /\ call' = [call EXCEPT ![c] = v]
          /\ \A k \in Keys : k # call[c].key => apikeys'[k] = apikeys[k]
      BY <2>2 DEF InsertKey, Creating, TypeOK
    <3>2. ~Creating(call'[c]) /\ \A d \in Calls \ {c} : call'[d] = call[d]
      BY <3>1 DEF TypeOK, Creating
    <3>3. \A d \in Calls \ {c} : Creating(call[d]) =>
            call[d].key # call[c].key /\ apikeys'[call[d].key] = apikeys[call[d].key]
      BY <1>0, <3>1 DEF CreatorsHoldFreshKeys, Creating
    <3>4. QED
      BY <3>2, <3>3 DEF CreatorsHoldFreshKeys, Creating, Exists
  <2>3. ASSUME NEW d \in Calls, ~Creating(call'[d]), \A e \in Calls \ {d} : call'[e] = call[e],
               \A k \in Keys : Exists(k)' => Exists(k)
        PROVE  CreatorsHoldFreshKeys'
    BY <1>0, <2>3, FreshStays
  <2>4. ASSUME UpdateRevoked(c)
        PROVE  CreatorsHoldFreshKeys'
    <3>1. \A k \in Keys : Exists(k)' => Exists(k)
      <4>1. PICK ks : apikeys' = Revoked(ks)
        BY <2>4 DEF UpdateRevoked
      <4>2. QED
        BY <4>1, RevokedType DEF TypeOK, Exists
    <3>2. call[c].pc = "update" /\ \A e \in Calls \ {c} : call'[e] = call[e]
      BY <2>4 DEF UpdateRevoked, TypeOK
    <3>3. call'[c].pc \in {"not_found", "revoked"}
      <4>1. call[c] \in [pc: {"created", "update", "revoked", "not_found"}, at: Brokers,
                         user: Users, key: Keys]
        BY <1>0, <3>2 DEF Call, Idle
      <4>2. QED
        BY <2>4, <4>1 DEF UpdateRevoked, TypeOK
    <3>4. QED
      BY <2>3, <3>1, <3>2, <3>3 DEF Creating
  <2>5. ASSUME SelectKeys(c)
        PROVE  CreatorsHoldFreshKeys'
    BY <2>3, <2>5 DEF SelectKeys, TypeOK, tables, Exists, Creating
  <2>6. ASSUME ReplyList(c)
        PROVE  CreatorsHoldFreshKeys'
    BY <2>3, <2>6 DEF ReplyList, TypeOK, tables, Exists, Creating
  <2>7. ASSUME EndCall(c) \/ FailCall(c)
        PROVE  CreatorsHoldFreshKeys'
    BY <2>3, <2>7 DEF EndCall, FailCall, TypeOK, tables, Exists, Creating, Idle
  <2>8. QED
    BY <1>2, <2>1, <2>2, <2>4, <2>5, <2>6, <2>7 DEF Handler
<1>3. ASSUME UNCHANGED <<call, apikeys>>
      PROVE  CreatorsHoldFreshKeys'
  BY <1>3 DEF CreatorsHoldFreshKeys, Exists
<1>4. ASSUME NEW r \in Requests, Inference(r)
      PROVE  CreatorsHoldFreshKeys'
  BY <1>3, <1>4 DEF Inference, SendRequest, LookUp, Decide, RecordUsage, EndUnmetered, tables
<1>5. ASSUME NEW b \in Brokers, Process(b)
      PROVE  CreatorsHoldFreshKeys'
  <2>1. ASSUME CommitSweep(b)
        PROVE  CreatorsHoldFreshKeys'
    <3>1. \A k \in Keys : Exists(k)' => Exists(k)
      BY <2>1, RevokedType DEF CommitSweep, TypeOK, Exists
    <3>2. UNCHANGED call
      BY <2>1 DEF CommitSweep
    <3>3. QED
      BY <1>0, <3>1, <3>2, FreshStays
  <2>2. ASSUME Stop(b)
        PROVE  CreatorsHoldFreshKeys'
    <3>1. \A c \in Calls : call'[c] = Idle \/ call'[c] = call[c]
      BY <2>2 DEF Stop
    <3>2. UNCHANGED apikeys
      BY <2>2 DEF Stop, tables
    <3>3. QED
      BY <1>0, <3>1, <3>2, FreshStays DEF Exists, Creating, Idle
  <2>3. QED
    BY <1>3, <1>5, <2>1, <2>2 DEF Process, BeginSweep, FailSweep, Start, tables
<1>6. QED
  BY <1>1, <1>2, <1>3, <1>4, <1>5 DEF Next, Tick, tables, vars

\* What RequestsKnow, DeadKeyNeverAdmitted and RefusalsAreJust say of a request.
Knows(m) ==
    /\ m # New => /\ m.was = "dead" => Dead(m.key)
                  /\ m.was = "live" => Exists(m.key)
    /\ m.pc = "looked" => /\ Rejects(m.row) => Dead(m.key)
                          /\ m.was = "dead" => Rejects(m.row)
                          /\ m.was = "live" => m.row # NoRow
    /\ m.pc = "admitted" => m.was # "dead"
    /\ m.pc = "refused" /\ m.was = "live" => Dead(m.key)

AllKnow == \A r \in Requests : Knows(req[r])

\* Request by request, this says what the two properties and RequestsKnow say.
LEMMA AllKnowMeans == AllKnow <=> RequestsKnow /\ DeadKeyNeverAdmitted /\ RefusalsAreJust
BY DEF AllKnow, Knows, RequestsKnow, DeadKeyNeverAdmitted, RefusalsAreJust, New

\* A request that does not move knows afterwards what it knew before.
LEMMA KnowledgeStays ==
    ASSUME TypeOK, CreatorsHoldFreshKeys, [Next]_vars,
           NEW r \in Requests, Knows(req[r]), req'[r] = req[r]
    PROVE  Knows(req[r])'
<1>1. req[r] # New => req[r].key \in Keys
  BY DEF TypeOK, Request
<1>2. \A k \in Keys : (Dead(k) => Dead(k)') /\ (Exists(k) => Exists(k)')
  BY DeadEndures, RowsEndure DEF Endures
<1>3. req[r].pc \in {"looked", "refused"} => req[r] # New
  BY DEF New
<1>4. QED
  BY <1>1, <1>2, <1>3 DEF Knows

\* What requests know of their keys remains true.
LEMMA RequestsStep ==
    ASSUME TypeOK, CreatorsHoldFreshKeys, AllKnow, [Next]_vars
    PROVE  AllKnow'
<1>1. ASSUME NEW r \in Requests, Inference(r), NEW q \in Requests
      PROVE  Knows(req[q])'
  <2> DEFINE m == req[r]
  <2>0. m \in Request /\ Knows(m)
    BY DEF TypeOK, AllKnow
  <2>1. ASSUME q # r
        PROVE  Knows(req[q])'
    <3>1. req'[q] = req[q]
      BY <1>1, <2>1 DEF Inference, SendRequest, LookUp, Decide, RecordUsage, EndUnmetered,
                        TypeOK
    <3>2. QED
      BY <3>1, KnowledgeStays DEF AllKnow
  <2>2. ASSUME q = r, NEW b \in Brokers, NEW k \in Keys, SendRequest(r, b, k)
        PROVE  Knows(req[q])'
    <3> DEFINE v == [pc |-> "sent", at |-> b, key |-> k, was |-> Standing(k)]
    <3>1. req'[r] = v /\ UNCHANGED <<now, apikeys>>
      BY <2>2 DEF SendRequest, TypeOK, tables
    <3>2. v.pc = "sent" /\ v.key = k /\ v.was = Standing(k)
      OBVIOUS
    <3> HIDE DEF v
    <3>3. (v.was = "dead" => Dead(k)) /\ (v.was = "live" => Exists(k))
      BY <3>2 DEF Standing
    <3>4. (Dead(k) => Dead(k)') /\ (Exists(k) => Exists(k)')
      BY <3>1 DEF Dead, Exists
    <3>5. QED
      BY <2>2, <3>1, <3>2, <3>3, <3>4 DEF Knows
  <2>3. ASSUME q = r, LookUp(r)
        PROVE  Knows(req[q])'
    <3>1. m.pc = "sent" /\ m # New /\ m.key \in Keys
      BY <2>0, <2>3 DEF LookUp, Request, New
    <3> DEFINE v == [pc |-> "looked", at |-> m.at, key |-> m.key, was |-> m.was,
                     row |-> Selected(m.key)]
    <3>2. req'[r] = v /\ UNCHANGED <<now, apikeys>>
      BY <2>3 DEF LookUp, TypeOK, tables
    <3>3. v.pc = "looked" /\ v.key = m.key /\ v.was = m.was /\ v.row = Selected(m.key)
      OBVIOUS
    <3> HIDE DEF v
    <3>4. /\ Rejects(Selected(m.key)) <=> Dead(m.key)
          /\ Exists(m.key) => Selected(m.key) # NoRow
      <4>1. CASE ~Exists(m.key)
        BY <4>1 DEF Selected, Rejects, Dead
      <4>2. CASE Exists(m.key)
        <5>1. apikeys[m.key] \in Row
          BY <3>1, <4>2 DEF TypeOK, Exists
        <5>2. Selected(m.key) = [user |-> apikeys[m.key].owner,
                                 revoked |-> apikeys[m.key].revoked,
                                 expired |-> ExpiredBy(apikeys[m.key], now)]
          BY <4>2 DEF Selected
        <5>3. Selected(m.key) \in Found
          BY <5>1, <5>2 DEF Found, Row, ExpiredBy
        <5>4. Selected(m.key) # NoRow
          BY <5>3
        <5>5. QED
          BY <4>2, <5>2, <5>4 DEF Rejects, Dead
      <4>3. QED
        BY <4>1, <4>2
    <3>5. \A k \in Keys : (Dead(k) <=> Dead(k)') /\ (Exists(k) <=> Exists(k)')
      BY <3>2 DEF Dead, Exists
    <3>6. (m.was = "dead" => Dead(m.key)) /\ (m.was = "live" => Exists(m.key))
      BY <2>0, <3>1 DEF Knows
    <3>7. QED
      BY <2>3, <3>1, <3>2, <3>3, <3>4, <3>5, <3>6 DEF Knows
  <2>4. ASSUME q = r, NEW pc \in {"admitted", "refused", "done"}, m.pc \in {"looked", "admitted"},
               req' = [req EXCEPT ![r].pc = pc], UNCHANGED <<now, apikeys>>,
               pc = "admitted" => m.pc = "looked" /\ Accepts(m.row),
               pc = "refused" => m.pc = "looked" /\ ~Accepts(m.row)
        PROVE  Knows(req[q])'
    <3>1. m \in [pc: {"looked", "admitted", "refused", "done"}, at: Brokers, key: Keys,
                 was: {"absent", "live", "dead"}, row: Found \cup {NoRow}]
      BY <2>0, <2>4 DEF Request, New
    <3>2. /\ req'[r].pc = pc /\ req'[r].key = m.key /\ req'[r].was = m.was
          /\ m # New /\ m.key \in Keys
      BY <2>4, <3>1 DEF TypeOK, New
    <3>3. m.row # NoRow => (Rejects(m.row) <=> ~Accepts(m.row))
      BY <3>1 DEF Rejects, Accepts, Found
    <3>4. \A k \in Keys : (Dead(k) <=> Dead(k)') /\ (Exists(k) <=> Exists(k)')
      BY <2>4 DEF Dead, Exists
    <3>5. /\ pc = "admitted" => m.was # "dead"
          /\ pc = "refused" /\ m.was = "live" => Dead(m.key)
      BY <2>0, <2>4, <3>3 DEF Knows, Rejects
    <3>6. pc # "looked" /\ (pc = "done" => pc \notin {"admitted", "refused"})
      OBVIOUS
    <3>7. QED
      BY <2>0, <2>4, <3>2, <3>4, <3>5, <3>6 DEF Knows
  <2>5. ASSUME q = r, Decide(r)
        PROVE  Knows(req[q])'
    BY <2>4, <2>5 DEF Decide, tables
  <2>6. ASSUME q = r, RecordUsage(r) \/ EndUnmetered(r)
        PROVE  Knows(req[q])'
    BY <2>4, <2>6 DEF RecordUsage, EndUnmetered, tables
  <2>7. QED
    BY <1>1, <2>1, <2>2, <2>3, <2>5, <2>6 DEF Inference
<1>2. ASSUME NEW b \in Brokers, Stop(b), NEW q \in Requests
      PROVE  Knows(req[q])'
  <2> DEFINE v == [pc |-> "lost", at |-> b, key |-> req[q].key, was |-> req[q].was]
  <2>1. /\ req'[q] = req[q] \/ (req[q].pc \in InFlight /\ req'[q] = v)
        /\ UNCHANGED <<now, apikeys>>
    BY <1>2 DEF Stop, tables
  <2>2. CASE req'[q] = req[q]
    BY <2>2, KnowledgeStays DEF AllKnow
  <2>3. CASE req[q].pc \in InFlight /\ req'[q] = v
    <3>1. /\ req'[q].pc = "lost" /\ req'[q].key = req[q].key /\ req'[q].was = req[q].was
          /\ req[q] # New /\ req[q].key \in Keys
      BY <2>3 DEF New, InFlight, TypeOK, Request
    <3>2. Knows(req[q])
      BY DEF AllKnow
    <3>3. \A k \in Keys : (Dead(k) => Dead(k)') /\ (Exists(k) => Exists(k)')
      BY <2>1 DEF Dead, Exists
    <3>4. QED
      BY <3>1, <3>2, <3>3 DEF Knows
  <2>4. QED
    BY <2>1, <2>2, <2>3
<1>3. ASSUME UNCHANGED req
      PROVE  AllKnow'
  BY <1>3, KnowledgeStays DEF AllKnow
<1>4. ASSUME NEW c \in Calls, NEW b \in Brokers, NEW u \in Users, Caller(c, b, u)
      PROVE  AllKnow'
  BY <1>3, <1>4 DEF Caller, CreateKey, RevokeKey, ListKeys
<1>5. ASSUME NEW c \in Calls, Handler(c)
      PROVE  AllKnow'
  BY <1>3, <1>5 DEF Handler, InsertUser, InsertKey, UpdateRevoked, SelectKeys, ReplyList,
                    EndCall, FailCall
<1>6. ASSUME NEW b \in Brokers, Process(b)
      PROVE  AllKnow'
  BY <1>2, <1>3, <1>6 DEF Process, BeginSweep, CommitSweep, FailSweep, Start, AllKnow
<1>7. QED
  BY <1>1, <1>3, <1>4, <1>5, <1>6 DEF Next, Tick, vars, AllKnow

\* A sweep under way has found only expired keys.
LEMMA SweepsStep ==
    ASSUME TypeOK, CreatorsHoldFreshKeys, SweepsFindExpired, [Next]_vars
    PROVE  SweepsFindExpired'
<1> SUFFICES ASSUME NEW a \in Brokers, NEW k \in sweep'[a].found
             PROVE  Exists(k)' /\ ExpiredBy(apikeys'[k], now')
  BY DEF SweepsFindExpired
<1>1. ASSUME k \in Keys, Exists(k), ExpiredBy(apikeys[k], now)
      PROVE  Exists(k)' /\ ExpiredBy(apikeys'[k], now')
  <2>1. Exists(k)' /\ apikeys'[k].expires = apikeys[k].expires
    BY <1>1, RowsEndure DEF Endures
  <2>2. apikeys[k] \in Row /\ now \in Int /\ now' \in Int /\ now <= now'
    BY <1>1, ClockStep DEF TypeOK, Exists
  <2>3. ExpiredBy(apikeys[k], now')
    BY <1>1, <2>2, ExpiryPasses
  <2>4. QED
    BY <2>1, <2>3 DEF ExpiredBy
<1>2. ASSUME k \in sweep[a].found
      PROVE  Exists(k)' /\ ExpiredBy(apikeys'[k], now')
  <2>1. sweep[a] \in Sweep
    BY DEF TypeOK
  <2>2. k \in Keys
    BY <1>2, <2>1 DEF Sweep
  <2>3. QED
    BY <1>1, <1>2, <2>2 DEF SweepsFindExpired
<1>3. CASE UNCHANGED sweep
  BY <1>2, <1>3
<1>4. ASSUME NEW b \in Brokers, Process(b)
      PROVE  Exists(k)' /\ ExpiredBy(apikeys'[k], now')
  <2>1. CASE a # b
    <3>1. sweep'[a] = sweep[a]
      BY <1>4, <2>1 DEF Process, BeginSweep, CommitSweep, FailSweep, Stop, Start, TypeOK
    <3>2. QED
      BY <1>2, <3>1
  <2>2. CASE a = b /\ BeginSweep(b)
    <3>1. sweep'[a].found = {x \in Keys : /\ Exists(x)
                                          /\ ExpiredBy(apikeys[x], now)
                                          /\ ~apikeys[x].revoked}
      BY <2>2 DEF BeginSweep, TypeOK
    <3>2. QED
      BY <1>1, <3>1
  <2>3. CASE a = b /\ ~BeginSweep(b)
    <3>1. sweep'[a].found = {}
      BY <1>4, <2>3 DEF Process, CommitSweep, FailSweep, Stop, Start, TypeOK
    <3>2. QED
      BY <3>1
  <2>4. QED
    BY <2>1, <2>2, <2>3
<1>5. ASSUME NEW c \in Calls, NEW b \in Brokers, NEW u \in Users, Caller(c, b, u)
      PROVE  UNCHANGED sweep
  BY <1>5 DEF Caller, CreateKey, RevokeKey, ListKeys
<1>6. ASSUME NEW c \in Calls, Handler(c)
      PROVE  UNCHANGED sweep
  BY <1>6 DEF Handler, InsertUser, InsertKey, UpdateRevoked, SelectKeys, ReplyList,
              EndCall, FailCall
<1>7. ASSUME NEW r \in Requests, Inference(r)
      PROVE  UNCHANGED sweep
  BY <1>7 DEF Inference, SendRequest, LookUp, Decide, RecordUsage, EndUnmetered
<1>8. QED
  BY <1>3, <1>4, <1>5, <1>6, <1>7 DEF Next, Tick, vars

\* What ListingsAreRows and ListIsTruthful say of a call.
Faithful(m) ==
    /\ m.pc = "select" =>
         \A k \in m.gone : /\ Owned(m.user, k)
                           /\ apikeys[k].revoked \/ ExpiredBy(apikeys[k], now - MaxSkew)
    /\ m.pc = "selected" =>
         /\ \A k \in Keys : m.rows[k] # NoRow =>
              /\ Owned(m.user, k)
              /\ m.rows[k].expires = apikeys[k].expires
              /\ m.rows[k].revoked => apikeys[k].revoked
         /\ \A k \in m.gone :
              /\ m.rows[k] # NoRow
              /\ m.rows[k].revoked \/ ExpiredBy(m.rows[k], now - MaxSkew)
    /\ m.pc = "listed" =>
         /\ \A k \in m.keys : Owned(m.user, k)
         /\ m.revoked \subseteq m.keys
         /\ \A k \in m.revoked : apikeys[k].revoked \/ ExpiredBy(apikeys[k], now + MaxSkew)
         /\ m.gone \subseteq m.revoked

AllFaithful == \A c \in Calls : Faithful(call[c])

\* Times keep their order when shifted alike.
LEMMA Shifted ==
    ASSUME NEW s \in Int, NEW t \in Int, NEW d \in Int, s <= t
    PROVE  /\ s + d \in Int /\ t + d \in Int /\ s + d <= t + d
           /\ s - d \in Int /\ t - d \in Int /\ s - d <= t - d
OBVIOUS

\* Call by call, this says what ListIsTruthful and ListingsAreRows say.
LEMMA AllFaithfulMeans == AllFaithful <=> ListingsAreRows /\ ListIsTruthful
BY DEF AllFaithful, Faithful, ListingsAreRows, ListIsTruthful

\* A call that does not move is as faithful after the step as before.
LEMMA FaithStays ==
    ASSUME TypeOK, CreatorsHoldFreshKeys, [Next]_vars,
           NEW c \in Calls, Faithful(call[c]), call'[c] = call[c]
    PROVE  Faithful(call[c])'
<1> DEFINE m == call[c]
<1>0. m \in Call /\ now \in Int /\ now' \in Int /\ now <= now' /\ MaxSkew \in Int
  BY ClockStep DEF TypeOK
<1>1. ASSUME NEW k \in Keys, Exists(k)
      PROVE  /\ Exists(k)' /\ apikeys'[k].owner = apikeys[k].owner
             /\ apikeys'[k].expires = apikeys[k].expires
             /\ apikeys[k].revoked => apikeys'[k].revoked
             /\ apikeys[k] \in Row
  BY <1>1, RowsEndure DEF Endures, TypeOK, Exists
<1>2. ASSUME NEW k \in Keys, Exists(k), NEW d \in Int, ExpiredBy(apikeys[k], now + d)
      PROVE  ExpiredBy(apikeys'[k], now' + d)
  <2>1. now + d \in Int /\ now' + d \in Int /\ now + d <= now' + d
    BY <1>0, Shifted
  <2>2. ExpiredBy(apikeys[k], now' + d)
    BY <1>1, <1>2, <2>1, ExpiryPasses
  <2>3. QED
    BY <1>1, <1>2, <2>2 DEF ExpiredBy
<1>3. ASSUME NEW row \in Row, ExpiredBy(row, now - MaxSkew)
      PROVE  ExpiredBy(row, now' - MaxSkew)
  <2>1. now - MaxSkew \in Int /\ now' - MaxSkew \in Int /\ now - MaxSkew <= now' - MaxSkew
    BY <1>0, Shifted
  <2>2. QED
    BY <1>3, <2>1, ExpiryPasses
<1>4. \A k \in Keys, u \in Users : Owned(u, k) => Owned(u, k)' /\ Exists(k)
  BY <1>1 DEF Owned
<1>5. CASE m.pc = "select"
  <2>1. m.gone \subseteq Keys /\ m.user \in Users
    BY <1>0, <1>5 DEF Call, Idle
  <2>2. ASSUME NEW k \in m.gone
        PROVE  /\ Owned(m.user, k)'
               /\ apikeys'[k].revoked \/ ExpiredBy(apikeys'[k], now' - MaxSkew)
    <3>1. Exists(k) /\ k \in Keys /\ (apikeys[k].revoked \/ ExpiredBy(apikeys[k], now - MaxSkew))
      BY <1>4, <1>5, <2>1 DEF Faithful
    <3>2. ExpiredBy(apikeys[k], now - MaxSkew) => ExpiredBy(apikeys'[k], now' - MaxSkew)
      BY <1>1, <1>3, <3>1 DEF ExpiredBy
    <3>3. apikeys'[k].owner = m.user /\ Exists(k)'
      BY <1>1, <1>5, <3>1 DEF Faithful, Owned
    <3>4. QED
      BY <1>1, <3>1, <3>2, <3>3 DEF Owned, Exists
  <2>3. QED
    BY <1>5, <2>2 DEF Faithful, Owned, Exists
<1>6. CASE m.pc = "selected"
  <2>1. m.gone \subseteq Keys /\ m.rows \in [Keys -> Row \cup {NoRow}] /\ m.user \in Users
    BY <1>0, <1>6 DEF Call, Idle
  <2>2. ASSUME NEW k \in Keys, m.rows[k] # NoRow
        PROVE  /\ apikeys'[k] # NoRow /\ apikeys'[k].owner = m.user
               /\ m.rows[k].expires = apikeys'[k].expires
               /\ m.rows[k].revoked => apikeys'[k].revoked
    BY <1>1, <1>6, <2>2 DEF Faithful, Owned, Exists
  <2>3. ASSUME NEW k \in m.gone
        PROVE  /\ m.rows[k] # NoRow
               /\ m.rows[k].revoked \/ ExpiredBy(m.rows[k], now' - MaxSkew)
    <3>1. m.rows[k] # NoRow /\ (m.rows[k].revoked \/ ExpiredBy(m.rows[k], now - MaxSkew))
      BY <1>6 DEF Faithful
    <3>2. m.rows[k] \in Row
      BY <2>1, <3>1
    <3>3. QED
      BY <1>3, <3>1, <3>2
  <2>4. QED
    BY <1>6, <2>2, <2>3 DEF Faithful, Owned, Exists
<1>7. CASE m.pc = "listed"
  <2>1. m.keys \subseteq Keys /\ m.revoked \subseteq Keys /\ m.user \in Users
    BY <1>0, <1>7 DEF Call, Idle
  <2>2. ASSUME NEW k \in m.keys
        PROVE  apikeys'[k] # NoRow /\ apikeys'[k].owner = m.user
    BY <1>1, <1>7, <2>1 DEF Faithful, Owned, Exists
  <2>3. ASSUME NEW k \in m.revoked
        PROVE  apikeys'[k].revoked \/ ExpiredBy(apikeys'[k], now' + MaxSkew)
    <3>1. k \in Keys /\ Exists(k) /\ (apikeys[k].revoked \/ ExpiredBy(apikeys[k], now + MaxSkew))
      BY <1>4, <1>7, <2>1 DEF Faithful
    <3>2. QED
      BY <1>0, <1>1, <1>2, <3>1
  <2>4. QED
    BY <1>7, <2>2, <2>3 DEF Faithful, Owned, Exists
<1>8. QED
  BY <1>5, <1>6, <1>7 DEF Faithful

\* Only these three kinds of call are said anything about.
Listing(m) == m.pc \in {"select", "selected", "listed"}

\* Listings remain faithful to the table.
LEMMA ListingsStep ==
    ASSUME TypeOK, CreatorsHoldFreshKeys, AllFaithful, [Next]_vars
    PROVE  AllFaithful'
<1>0. now \in Int /\ MaxSkew \in Int /\ apikeys \in [Keys -> Row \cup {NoRow}]
  BY DEF TypeOK
<1>1. ASSUME NEW d \in Calls, call'[d] = call[d]
      PROVE  Faithful(call[d])'
  BY <1>1, FaithStays DEF AllFaithful
<1>2. ASSUME NEW d \in Calls, ~Listing(call'[d])
      PROVE  Faithful(call[d])'
  BY <1>2 DEF Faithful, Listing
<1>3. ASSUME UNCHANGED call
      PROVE  AllFaithful'
  BY <1>1, <1>3 DEF AllFaithful
<1>4. ASSUME NEW c \in Calls, NEW b \in Brokers, NEW u \in Users, Caller(c, b, u),
             NEW d \in Calls
      PROVE  Faithful(call[d])'
  <2>1. CASE d # c
    BY <1>1, <1>4, <2>1 DEF Caller, CreateKey, RevokeKey, ListKeys, TypeOK
  <2>2. CASE d = c /\ ~ListKeys(c, b, u)
    BY <1>2, <1>4, <2>2 DEF Caller, CreateKey, RevokeKey, TypeOK, Listing
  <2>3. CASE d = c /\ ListKeys(c, b, u)
    <3> DEFINE gone == {k \in Keys : /\ Owned(u, k)
                                     /\ \/ apikeys[k].revoked
                                        \/ ExpiredBy(apikeys[k], now - MaxSkew)}
               v == [pc |-> "select", at |-> b, user |-> u, gone |-> gone]
    <3>1. call'[c] = v /\ UNCHANGED <<now, apikeys>>
      BY <2>3 DEF ListKeys, TypeOK, tables
    <3>2. v.pc = "select" /\ v.user = u /\ v.gone = gone
      OBVIOUS
    <3>3. \A k \in gone : /\ Owned(u, k)
                          /\ apikeys[k].revoked \/ ExpiredBy(apikeys[k], now - MaxSkew)
      OBVIOUS
    <3> HIDE DEF v, gone
    <3>4. QED
      BY <2>3, <3>1, <3>2, <3>3 DEF Faithful, Owned, Exists
  <2>4. QED
    BY <2>1, <2>2, <2>3
<1>5. ASSUME NEW c \in Calls, Handler(c), NEW d \in Calls
      PROVE  Faithful(call[d])'
  <2> DEFINE m == call[c]
  <2>0. m \in Call /\ Faithful(m)
    BY DEF TypeOK, AllFaithful
  <2>1. CASE d # c
    BY <1>1, <1>5, <2>1 DEF Handler, InsertUser, InsertKey, UpdateRevoked, SelectKeys,
                            ReplyList, EndCall, FailCall, TypeOK
  <2>2. ASSUME d = c, UpdateRevoked(c)
        PROVE  Faithful(call[d])'
    <3>1. m \in [pc: {"created", "update", "revoked", "not_found"}, at: Brokers,
                 user: Users, key: Keys]
      BY <2>0, <2>2 DEF UpdateRevoked, Call, Idle
    <3>2. call'[c].pc \in {"not_found", "revoked"}
      BY <2>2, <3>1 DEF UpdateRevoked, TypeOK
    <3>3. QED
      BY <1>2, <2>2, <3>2 DEF Listing
  <2>3. ASSUME d = c, InsertUser(c) \/ InsertKey(c) \/ EndCall(c) \/ FailCall(c)
        PROVE  Faithful(call[d])'
    BY <1>2, <2>3 DEF InsertUser, InsertKey, EndCall, FailCall, Idle, TypeOK, Listing
  <2>4. ASSUME d = c, SelectKeys(c)
        PROVE  Faithful(call[d])'
    <3>1. m.pc = "select" /\ m.gone \subseteq Keys /\ m.user \in Users
      BY <2>0, <2>4 DEF SelectKeys, Call, Idle
    <3> DEFINE rows == [k \in Keys |-> IF Owned(m.user, k) THEN apikeys[k] ELSE NoRow]
               v == [pc |-> "selected", at |-> m.at, user |-> m.user, gone |-> m.gone,
                     rows |-> rows]
    <3>2. call'[c] = v /\ UNCHANGED <<now, apikeys>>
      BY <2>4 DEF SelectKeys, TypeOK, tables
    <3>3. v.pc = "selected" /\ v.user = m.user /\ v.gone = m.gone /\ v.rows = rows
      OBVIOUS
    <3>4. \A k \in Keys : rows[k] # NoRow => Owned(m.user, k) /\ rows[k] = apikeys[k]
      OBVIOUS
    <3>5. \A k \in m.gone :
            /\ rows[k] # NoRow
            /\ rows[k].revoked \/ ExpiredBy(rows[k], now - MaxSkew)
      BY <2>0, <3>1 DEF Faithful, Owned, Exists
    <3> HIDE DEF v, rows
    <3>6. /\ call'[c].pc = "selected" /\ call'[c].user = m.user /\ call'[c].gone = m.gone
          /\ call'[c].rows = rows
      BY <3>2, <3>3
    <3>7. QED
      BY <2>4, <3>2, <3>4, <3>5, <3>6 DEF Faithful, Owned, Exists
  <2>5. ASSUME d = c, ReplyList(c)
        PROVE  Faithful(call[d])'
    <3>1. /\ m.pc = "selected" /\ m.gone \subseteq Keys /\ m.user \in Users
          /\ m.rows \in [Keys -> Row \cup {NoRow}]
      BY <2>0, <2>5 DEF ReplyList, Call, Idle
    <3> DEFINE keys == {k \in Keys : m.rows[k] # NoRow}
               shown(t) == {k \in keys : ShownRevoked(m.rows[k], t)}
               v(t) == [pc |-> "listed", at |-> m.at, user |-> m.user, gone |-> m.gone,
                        keys |-> keys, revoked |-> shown(t)]
    <3>2. PICK t \in BrokerClock : call' = [call EXCEPT ![c] = v(t)]
      BY <2>5 DEF ReplyList
    <3>3. UNCHANGED <<now, apikeys>>
      BY <2>5 DEF ReplyList, tables
    <3>4. /\ call'[c].pc = "listed" /\ call'[c].user = m.user /\ call'[c].gone = m.gone
          /\ call'[c].keys = keys /\ call'[c].revoked = shown(t)
      BY <3>2 DEF TypeOK
    <3>5. t \in Int /\ now - MaxSkew \in Int /\ now + MaxSkew \in Int
          /\ now - MaxSkew <= t /\ t <= now + MaxSkew
      BY <1>0, <3>2 DEF BrokerClock
    <3>6. \A k \in keys : Owned(m.user, k)
      BY <2>0, <3>1 DEF Faithful
    <3>7. ASSUME NEW k \in shown(t)
          PROVE  apikeys[k].revoked \/ ExpiredBy(apikeys[k], now + MaxSkew)
      <4>1. /\ k \in Keys /\ m.rows[k] \in Row
            /\ m.rows[k].expires = apikeys[k].expires
            /\ m.rows[k].revoked => apikeys[k].revoked
            /\ m.rows[k].revoked \/ ExpiredBy(m.rows[k], t)
        BY <2>0, <3>1 DEF Faithful, ShownRevoked
      <4>2. ExpiredBy(m.rows[k], t) => ExpiredBy(m.rows[k], now + MaxSkew)
        BY <3>5, <4>1, ExpiryPasses
      <4>3. QED
        BY <4>1, <4>2 DEF ExpiredBy
    <3>8. ASSUME NEW k \in m.gone
          PROVE  k \in shown(t)
      <4>1. /\ k \in Keys /\ m.rows[k] # NoRow
            /\ m.rows[k].revoked \/ ExpiredBy(m.rows[k], now - MaxSkew)
        BY <2>0, <3>1 DEF Faithful
      <4>2. m.rows[k] \in Row
        BY <3>1, <4>1
      <4>3. ExpiredBy(m.rows[k], now - MaxSkew) => ExpiredBy(m.rows[k], t)
        BY <3>5, <4>2, ExpiryPasses
      <4>4. QED
        BY <4>1, <4>3 DEF ShownRevoked
    <3>9. shown(t) \subseteq keys
      OBVIOUS
    <3> HIDE DEF v, keys, shown
    <3>10. QED
      BY <2>5, <3>3, <3>4, <3>6, <3>7, <3>8, <3>9 DEF Faithful, Owned, Exists
  <2>6. QED
    BY <1>5, <2>1, <2>2, <2>3, <2>4, <2>5 DEF Handler
<1>6. ASSUME NEW b \in Brokers, Process(b)
      PROVE  AllFaithful'
  <2>1. ASSUME Stop(b), NEW d \in Calls
        PROVE  Faithful(call[d])'
    <3>1. call'[d] = Idle \/ call'[d] = call[d]
      BY <2>1 DEF Stop
    <3>2. ~Listing(Idle)
      BY DEF Listing, Idle
    <3>3. QED
      BY <1>1, <1>2, <3>1, <3>2
  <2>2. QED
    BY <1>3, <1>6, <2>1 DEF Process, BeginSweep, CommitSweep, FailSweep, Start, AllFaithful
<1>7. ASSUME NEW r \in Requests, Inference(r)
      PROVE  AllFaithful'
  BY <1>3, <1>7 DEF Inference, SendRequest, LookUp, Decide, RecordUsage, EndUnmetered
<1>8. QED
  BY <1>3, <1>4, <1>5, <1>6, <1>7 DEF Next, Tick, vars, AllFaithful

(***************************************************************************)
(* The theorems.                                                           *)
(***************************************************************************)

\* The inductive invariant in the form in which the lemmas above preserve it.
LEMMA InductiveInvMeans ==
    InductiveInv <=> /\ TypeOK /\ CreatorsHoldFreshKeys /\ SweepsFindExpired
                     /\ AllKnow /\ AllFaithful
BY AllKnowMeans, AllFaithfulMeans DEF InductiveInv

\* InductiveInv holds at the start and every step keeps it.
THEOREM Invariance == Spec => []InductiveInv
<1> DEFINE Inv == /\ TypeOK /\ CreatorsHoldFreshKeys /\ SweepsFindExpired
                  /\ AllKnow /\ AllFaithful
<1>1. Init => Inv
  <2>1. ASSUME Init
        PROVE  CreatorsHoldFreshKeys /\ SweepsFindExpired /\ AllKnow /\ AllFaithful
    BY <2>1 DEF Init, CreatorsHoldFreshKeys, SweepsFindExpired, AllKnow, Knows, AllFaithful,
                Faithful, Idle, New
  <2>2. QED
    BY <2>1, TypeInit
<1>2. Inv /\ [Next]_vars => Inv'
  BY TypeStep, CreatorsStep, SweepsStep, RequestsStep, ListingsStep
<1>3. Inv => InductiveInv
  BY InductiveInvMeans
<1> HIDE DEF Inv
<1>4. QED
  BY <1>1, <1>2, <1>3, PTL DEF Spec

\* What GET /keys shows is true of the table, up to the difference of the clocks.
THEOREM ListsAreTruthful == Spec => []ListIsTruthful
<1>1. InductiveInv => ListIsTruthful
  BY DEF InductiveInv
<1>2. QED
  BY <1>1, Invariance, PTL

\* A request whose key was revoked or had expired when it arrived is never
\* admitted, for any number of brokers, requests, sweeps, failures and restarts.
THEOREM DeadKeysAreNeverAdmitted == Spec => []DeadKeyNeverAdmitted
<1>1. InductiveInv => DeadKeyNeverAdmitted
  BY DEF InductiveInv
<1>2. QED
  BY <1>1, Invariance, PTL

\* A request whose key was usable when it arrived is refused only if the key was
\* revoked or expired in the meantime.
THEOREM RefusalsAreAlwaysJust == Spec => []RefusalsAreJust
<1>1. InductiveInv => RefusalsAreJust
  BY DEF InductiveInv
<1>2. QED
  BY <1>1, Invariance, PTL

\* No step brings a revoked or expired key back to life.
THEOREM DeadKeysStayDead == Spec => DeadStaysDead
<1>1. InductiveInv /\ [Next]_vars => [\A k \in Keys : Dead(k) => Dead(k)']_vars
  BY DeadEndures DEF InductiveInv
<1>2. QED
  BY <1>1, Invariance, PTL DEF Spec, DeadStaysDead

\* A usage row once written stays on its owner's bill: no step drops the row,
\* the key it hangs on, or the key's owner.
THEOREM BillsNeverShrink == Spec => BillsOnlyGrow
<1>1. InductiveInv /\ [Next]_vars => [\A u \in Users : UsageOf(u) \subseteq UsageOf(u)']_vars
  <2> SUFFICES ASSUME InductiveInv, [Next]_vars, NEW u \in Users, NEW x \in UsageOf(u)
               PROVE  x \in UsageOf(u)'
    OBVIOUS
  <2>1. x \in usage /\ x.key \in Keys /\ Exists(x.key) /\ apikeys[x.key].owner = u
    BY DEF UsageOf, InductiveInv, TypeOK, UsageRow
  <2>2. Exists(x.key)' /\ apikeys'[x.key].owner = u
    BY <2>1, RowsEndure DEF InductiveInv, Endures
  <2>3. usage \subseteq usage' \/ usage' = Cascaded
    <3>1. ASSUME NEW c \in Calls, NEW b \in Brokers, NEW v \in Users, Caller(c, b, v)
          PROVE  UNCHANGED usage
      BY <3>1 DEF Caller, CreateKey, RevokeKey, ListKeys, tables
    <3>2. ASSUME NEW c \in Calls, Handler(c)
          PROVE  UNCHANGED usage
      BY <3>2 DEF Handler, InsertUser, InsertKey, UpdateRevoked, SelectKeys, ReplyList,
                  EndCall, FailCall, tables
    <3>3. ASSUME NEW r \in Requests, Inference(r)
          PROVE  usage \subseteq usage'
      BY <3>3 DEF Inference, SendRequest, LookUp, Decide, RecordUsage, EndUnmetered, tables
    <3>4. ASSUME NEW b \in Brokers, Process(b)
          PROVE  UNCHANGED usage \/ usage' = Cascaded
      BY <3>4 DEF Process, BeginSweep, CommitSweep, FailSweep, Stop, Start, tables
    <3>5. QED
      BY <3>1, <3>2, <3>3, <3>4 DEF Next, Tick, tables, vars
  <2>4. x \in usage'
    BY <2>1, <2>2, <2>3 DEF Cascaded, Exists
  <2>5. QED
    BY <2>2, <2>4 DEF UsageOf
<1>2. QED
  BY <1>1, Invariance, PTL DEF Spec, BillsOnlyGrow

\* A key that has not expired is revoked only by a call of its owner; in
\* particular no sweep revokes it, however the clocks of sweeps and calls race.
THEOREM OnlyOwnersRevoke == Spec => OnlyOwnerRevokesLive
<1>1. ASSUME InductiveInv, [Next]_vars, NEW k \in Keys, Live(k), apikeys'[k].revoked
      PROVE  \E c \in Calls : call[c].pc = "update" /\ call[c].key = k
                              /\ call[c].user = apikeys[k].owner
  <2>0. /\ Exists(k) /\ apikeys[k].revoked = FALSE /\ ~ExpiredBy(apikeys[k], now)
        /\ apikeys \in [Keys -> Row \cup {NoRow}]
    BY <1>1 DEF Live, Dead, InductiveInv, TypeOK, Row, Exists
  <2>1. apikeys'[k] # apikeys[k]
    BY <1>1, <2>0
  <2>2. ASSUME NEW ks, apikeys' = Revoked(ks)
        PROVE  k \in ks
    BY <1>1, <2>0, <2>2, RevokedType DEF Exists
  <2>3. ASSUME NEW c \in Calls, Handler(c)
        PROVE  call[c].pc = "update" /\ call[c].key = k /\ call[c].user = apikeys[k].owner
    <3>1. CASE InsertKey(c)
      <4>1. call[c].pc = "insert_key" /\ ~Exists(call[c].key)
        BY <1>1, <3>1 DEF InsertKey, InductiveInv, CreatorsHoldFreshKeys
      <4>2. apikeys'[k] = apikeys[k]
        BY <2>0, <3>1, <4>1 DEF InsertKey
      <4>3. QED
        BY <2>1, <4>2
    <3>2. CASE UpdateRevoked(c)
      <4>1. call[c].pc = "update"
        BY <3>2 DEF UpdateRevoked
      <4>2. k \in {x \in {call[c].key} : Owned(call[c].user, x)}
        BY <2>2, <3>2 DEF UpdateRevoked
      <4>3. QED
        BY <4>1, <4>2 DEF Owned
    <3>3. CASE ~InsertKey(c) /\ ~UpdateRevoked(c)
      BY <2>1, <2>3, <3>3 DEF Handler, InsertUser, SelectKeys, ReplyList, EndCall, FailCall,
                              tables
    <3>4. QED
      BY <3>1, <3>2, <3>3
  <2>4. ASSUME NEW b \in Brokers, Process(b)
        PROVE  FALSE
    <3>1. CASE CommitSweep(b)
      <4>1. k \in sweep[b].found
        BY <2>2, <3>1 DEF CommitSweep
      <4>2. ExpiredBy(apikeys[k], now)
        BY <1>1, <4>1 DEF InductiveInv, SweepsFindExpired
      <4>3. QED
        BY <2>0, <4>2
    <3>2. CASE ~CommitSweep(b)
      BY <2>1, <2>4, <3>2 DEF Process, BeginSweep, FailSweep, Stop, Start, tables
    <3>3. QED
      BY <3>1, <3>2
  <2>5. ASSUME NEW c \in Calls, NEW b \in Brokers, NEW u \in Users, Caller(c, b, u)
        PROVE  FALSE
    BY <2>1, <2>5 DEF Caller, CreateKey, RevokeKey, ListKeys, tables
  <2>6. ASSUME NEW r \in Requests, Inference(r)
        PROVE  FALSE
    BY <2>1, <2>6 DEF Inference, SendRequest, LookUp, Decide, RecordUsage, EndUnmetered, tables
  <2>7. QED
    BY <1>1, <2>1, <2>3, <2>4, <2>5, <2>6 DEF Next, Tick, tables, vars
<1>2. InductiveInv /\ [Next]_vars =>
        [\A k \in Keys : Live(k) /\ Exists(k)' /\ apikeys'[k].revoked =>
           \E c \in Calls : call[c].pc = "update" /\ call[c].key = k
                             /\ call[c].user = apikeys[k].owner]_vars
  BY <1>1
<1>3. QED
  BY <1>2, Invariance, PTL DEF Spec, OnlyOwnerRevokesLive

=============================================================================
