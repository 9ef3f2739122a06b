-------------------------- MODULE RateLimitProofs --------------------------
(***************************************************************************)
(* Proofs about RateLimit, for any limit, window, clocks and bounds.       *)
(***************************************************************************)
EXTENDS RateLimit, Division, FiniteSetTheorems, TLAPS

USE WindowAssumption, LimitAssumption, ClockAssumption, NoTTLAssumption,
    BoundsAssumption

\* A window of any instant up to the end is one of the windows; windows never go
\* back, and a window has not begun before its first second.
LEMMA WindowFacts ==
    ASSUME NEW b \in Brokers, NEW t \in Nat
    PROVE  /\ Ahead[b] \in Nat /\ Ahead[b] <= MaxAhead
           /\ Window(b, t) \in Nat
           /\ t <= MaxTime => Window(b, t) \in Windows
           /\ Window(b, t) * WindowTime <= t + MaxAhead
           /\ t < Window(b, t) * WindowTime + WindowTime
           /\ \A s \in Nat : t <= s => Window(b, t) <= Window(b, s)
<1>1. Ahead[b] \in Nat /\ Ahead[b] <= MaxAhead
  OBVIOUS
<1> DEFINE a == t + Ahead[b]
           q == Window(b, t)
<1>0. a \in Nat /\ q = a \div WindowTime
  BY <1>1 DEF Window
<1> HIDE DEF a
<1>2. /\ q \in Nat
      /\ WindowTime * q <= a /\ a < WindowTime * q + WindowTime
  <2>1. /\ a \div WindowTime \in Nat
        /\ WindowTime * (a \div WindowTime) <= a
        /\ a < WindowTime * (a \div WindowTime) + WindowTime
    BY <1>0, DivFacts
  <2>2. QED
    BY <1>0, <2>1
<1>3. \A s \in Nat : t <= s => q <= Window(b, s)
  <2>1. ASSUME NEW s \in Nat, t <= s
        PROVE  q <= Window(b, s)
    <3>1. s + Ahead[b] \in Nat /\ a <= s + Ahead[b]
      BY <1>1, <2>1 DEF a
    <3>2. QED
      BY <1>0, <3>1, DivMono DEF Window
  <2>2. QED
    BY <2>1
<1>4. t <= MaxTime => q \in Windows
  <2>1. ASSUME t <= MaxTime
        PROVE  q <= (MaxTime + MaxAhead) \div WindowTime
    <3>1. MaxTime + MaxAhead \in Nat /\ a <= MaxTime + MaxAhead
      BY <1>1, <2>1 DEF a
    <3>2. QED
      BY <1>0, <3>1, DivMono
  <2>2. (MaxTime + MaxAhead) \div WindowTime \in Nat
    <3>1. MaxTime + MaxAhead \in Nat
      OBVIOUS
    <3>2. QED
      BY <3>1, DivFacts
  <2>3. QED
    BY <1>2, <2>1, <2>2 DEF Windows
<1> HIDE DEF q
<1>5. q * WindowTime = WindowTime * q /\ WindowTime * q \in Nat
  BY <1>2
<1>6. q * WindowTime <= t + MaxAhead /\ t < q * WindowTime + WindowTime
  BY <1>1, <1>2, <1>5 DEF a
<1>7. QED
  BY <1>1, <1>2, <1>3, <1>4, <1>6 DEF q

(***************************************************************************)
(* Type correctness.                                                       *)
(***************************************************************************)

\* Windows are natural numbers.
LEMMA WindowsAreNat == Windows \subseteq Nat
BY DivFacts DEF Windows

\* What a call of check() holds in each state.
LEMMA CheckFields ==
    ASSUME check \in [Requests -> Check], NEW r \in Requests
    PROVE  /\ check[r].pc # "new" =>
                /\ check[r].at \in Brokers /\ check[r].key \in Keys
                /\ check[r].window \in Windows /\ check[r].window \in Nat
                /\ Named(r) \in Keys \X Windows
           /\ check[r].pc \in {"new", "incr", "expire", "counted", "admitted", "refused", "failed"}
           /\ check[r].pc = "new" => check[r] = New
           /\ check[r].pc = "incr" => check[r].start \in Nat
           /\ check[r].pc \in {"expire", "counted", "admitted", "failed", "refused"} =>
                check[r].ticket \in Nat
           /\ check[r].pc = "refused" => check[r].retry \in Nat
<1> DEFINE m == check[r]
<1>1. m \in Check
  OBVIOUS
<1>2. CASE m = New
  BY <1>2 DEF New
<1>3. CASE m \in [pc: {"incr"}, at: Brokers, key: Keys, window: Windows, start: Nat]
  BY <1>3, WindowsAreNat DEF Named
<1>4. CASE m \in [pc: {"expire", "counted", "admitted", "failed"}, at: Brokers, key: Keys,
                  window: Windows, ticket: Nat]
  BY <1>4, WindowsAreNat DEF Named
<1>5. CASE m \in [pc: {"refused"}, at: Brokers, key: Keys, window: Windows, ticket: Nat,
                  retry: Nat]
  BY <1>5, WindowsAreNat DEF Named
<1>6. QED
  BY <1>1, <1>2, <1>3, <1>4, <1>5 DEF Check

\* The initial state is well typed.
LEMMA TypeInit == Init => TypeOK
BY DEF Init, TypeOK, Bucket, Absent, Check, New

\* Every request that has been counted or refused carries these fields.
Ticket == [pc: {"expire", "counted", "admitted", "failed"}, at: Brokers, key: Keys,
           window: Windows, ticket: Nat]

\* A call past its INCR and not refused is such a record.
LEMMA TicketType ==
    ASSUME check \in [Requests -> Check], NEW r \in Requests,
           check[r].pc \in {"expire", "counted", "admitted", "failed"}
    PROVE  check[r] \in Ticket
<1>1. check[r] \in Check
  OBVIOUS
<1>2. QED
  BY <1>1 DEF Check, New, Ticket

\* INCR, EXPIRE and the passing of time keep buckets well formed.
LEMMA BucketStepType ==
    ASSUME TypeOK, ExpirersWait, [Next]_vars
    PROVE  /\ bucket' \in [Keys \X Windows -> Bucket]
           /\ now' \in 0 .. MaxTime /\ now <= now'
           /\ \A kw \in Keys \X Windows :
                bucket'[kw].deadline # NoTTL =>
                  bucket'[kw].count > 0 /\ bucket'[kw].deadline > now'
<1> DEFINE Good == /\ bucket' \in [Keys \X Windows -> Bucket]
                   /\ now' \in 0 .. MaxTime /\ now <= now'
                   /\ \A kw \in Keys \X Windows :
                        bucket'[kw].deadline # NoTTL =>
                          bucket'[kw].count > 0 /\ bucket'[kw].deadline > now'
<1>0. /\ now \in 0 .. MaxTime /\ now \in Int /\ MaxTime \in Int
      /\ bucket \in [Keys \X Windows -> Bucket]
      /\ check \in [Requests -> Check]
      /\ \A kw \in Keys \X Windows :
           bucket[kw].deadline # NoTTL => bucket[kw].count > 0 /\ bucket[kw].deadline > now
  BY DEF TypeOK
<1>1. ASSUME UNCHANGED <<now, bucket>>
      PROVE  Good
  BY <1>0, <1>1
<1>2. ASSUME NEW r \in Requests, Incr(r)
      PROVE  Good
  <2> DEFINE kw == Named(r)
  <2>1. kw \in Keys \X Windows /\ kw = <<kw[1], kw[2]>> /\ UNCHANGED now
    BY <1>0, <1>2, CheckFields DEF Incr, Named
  <2>2. bucket' = [bucket EXCEPT ![kw].count = bucket[kw].count + 1]
    BY <1>2, <2>1 DEF Incr, Counted
  <2> HIDE DEF kw
  <2>3. bucket[kw] \in Bucket
    BY <1>0, <2>1
  <2>4. /\ bucket'[kw].count = bucket[kw].count + 1
        /\ bucket'[kw].deadline = bucket[kw].deadline
        /\ bucket'[kw] \in Bucket
    BY <1>0, <2>1, <2>2, <2>3 DEF Bucket
  <2>5. \A x \in Keys \X Windows : x # kw => bucket'[x] = bucket[x]
    BY <1>0, <2>2
  <2>6. bucket[kw].count \in Nat /\ bucket'[kw].count > 0
    BY <2>3, <2>4 DEF Bucket
  <2>7. bucket' \in [Keys \X Windows -> Bucket]
    BY <1>0, <2>2, <2>4, <2>5
  <2>8. QED
    BY <1>0, <2>1, <2>4, <2>5, <2>6, <2>7
<1>3. ASSUME NEW r \in Requests, Expire(r)
      PROVE  Good
  <2> DEFINE kw == Named(r)
  <2>1. /\ kw \in Keys \X Windows /\ UNCHANGED now
        /\ bucket' = [bucket EXCEPT ![kw].deadline = now + TTL]
        /\ bucket[kw].count > 0
    BY <1>0, <1>3, CheckFields DEF Expire, ExpirersWait
  <2> HIDE DEF kw
  <2>2. now + TTL \in Int /\ now + TTL > now
    BY <1>0
  <2>3. bucket[kw] \in Bucket
    BY <1>0, <2>1
  <2>4. /\ bucket'[kw].count = bucket[kw].count
        /\ bucket'[kw].deadline = now + TTL
        /\ bucket'[kw] \in Bucket
    BY <1>0, <2>1, <2>2, <2>3 DEF Bucket
  <2>5. \A x \in Keys \X Windows : x # kw => bucket'[x] = bucket[x]
    BY <1>0, <2>1
  <2>6. bucket' \in [Keys \X Windows -> Bucket]
    BY <1>0, <2>1, <2>4, <2>5
  <2>7. QED
    BY <1>0, <2>1, <2>2, <2>4, <2>5, <2>6
<1>4. ASSUME Tick
      PROVE  Good
  <2>1. /\ now' = now + 1 /\ now < MaxTime
        /\ bucket' = [kw \in Keys \X Windows |->
                        IF bucket[kw].deadline # NoTTL /\ bucket[kw].deadline <= now + 1
                          THEN Absent ELSE bucket[kw]]
    BY <1>4 DEF Tick
  <2>2. now' \in 0 .. MaxTime /\ now <= now'
    BY <1>0, <2>1
  <2>3. Absent \in Bucket /\ Absent.deadline = NoTTL
    BY DEF Absent, Bucket
  <2>4. ASSUME NEW kw \in Keys \X Windows, bucket'[kw].deadline # NoTTL
        PROVE  bucket'[kw].count > 0 /\ bucket'[kw].deadline > now'
    <3>1. /\ bucket'[kw] = bucket[kw]
          /\ ~ (bucket[kw].deadline <= now + 1) /\ bucket[kw].deadline # NoTTL
      BY <2>1, <2>3, <2>4
    <3>2. bucket[kw].deadline \in Int
      BY <1>0, <3>1 DEF Bucket
    <3>3. QED
      BY <1>0, <2>1, <3>1, <3>2
  <2>5. QED
    BY <1>0, <2>1, <2>2, <2>3, <2>4
<1>5. ASSUME Next
      PROVE  Good
  <2>1. ASSUME NEW r \in Requests, Admit(r) \/ Refuse(r) \/ Fail(r)
        PROVE  Good
    BY <1>1, <2>1 DEF Admit, Refuse, Fail
  <2>2. ASSUME NEW r \in Requests, NEW b \in Brokers, NEW k \in Keys, Begin(r, b, k)
        PROVE  Good
    BY <1>1, <2>2 DEF Begin
  <2>3. QED
    BY <1>2, <1>3, <1>4, <1>5, <2>1, <2>2 DEF Next
<1>6. CASE UNCHANGED vars
  BY <1>1, <1>6 DEF vars
<1>7. QED
  BY <1>5, <1>6

(***************************************************************************)
(* What a step does to one call of check().                                *)
(***************************************************************************)

\* The call keeps its broker, key and window.
SameCall(r) == /\ check'[r].at = check[r].at
               /\ check'[r].key = check[r].key
               /\ check'[r].window = check[r].window

Begins(r) == /\ check[r].pc = "new"
             /\ check'[r].pc = "incr"
             /\ check'[r].at \in Brokers
             /\ check'[r].window = Window(check'[r].at, now)
             /\ check'[r].start = now
             /\ UNCHANGED <<now, bucket>>

Counts(r) == /\ check[r].pc = "incr"
             /\ check'[r].pc \in {"expire", "counted"}
             /\ check'[r].pc = "expire" <=> bucket[Named(r)].count + 1 = 1
             /\ check'[r].ticket = bucket[Named(r)].count + 1
             /\ bucket' = [bucket EXCEPT ![Named(r)].count = bucket[Named(r)].count + 1]
             /\ SameCall(r)
             /\ UNCHANGED now

Ends(r) == /\ check[r].pc \in {"incr", "expire", "counted"}
           /\ check'[r].pc \in {"counted", "admitted", "refused", "failed"}
           /\ check[r].pc = "incr" => check'[r].pc = "failed" /\ check'[r].ticket = 0
           /\ check[r].pc # "incr" => check'[r].ticket = check[r].ticket
           /\ check'[r].pc = "admitted" => ~Over(check[r].ticket)
           /\ check'[r].pc = "refused" =>
                /\ Over(check[r].ticket)
                /\ check'[r].retry = now + RetryAfter(check[r].at)
           /\ SameCall(r)
           /\ UNCHANGED now

\* The next state of r belongs to check, and every other call stays as it is.
LEMMA MoveType ==
    ASSUME check \in [Requests -> Check], NEW r \in Requests, NEW v \in Check,
           check' = [check EXCEPT ![r] = v]
    PROVE  /\ check' \in [Requests -> Check]
           /\ check'[r] = v
           /\ \A q \in Requests : q # r => check'[q] = check[q]
OBVIOUS

\* Calls begin, are counted and end in no other way, one at a time.
LEMMA CheckSteps ==
    ASSUME TypeOK, [Next]_vars
    PROVE  /\ check' \in [Requests -> Check]
           /\ \/ UNCHANGED check
              \/ \E r \in Requests :
                   /\ Begins(r) \/ Counts(r) \/ Ends(r)
                   /\ \A q \in Requests : q # r => check'[q] = check[q]
<1> DEFINE Good == /\ check' \in [Requests -> Check]
                   /\ \/ UNCHANGED check
                      \/ \E r \in Requests :
                           /\ Begins(r) \/ Counts(r) \/ Ends(r)
                           /\ \A q \in Requests : q # r => check'[q] = check[q]
<1>0. /\ check \in [Requests -> Check] /\ now \in Nat /\ now <= MaxTime
      /\ bucket \in [Keys \X Windows -> Bucket]
  BY DEF TypeOK
<1>1. ASSUME NEW r \in Requests, NEW b \in Brokers, NEW k \in Keys, Begin(r, b, k)
      PROVE  Good
  <2> DEFINE v == [pc |-> "incr", at |-> b, key |-> k, window |-> Window(b, now), start |-> now]
  <2>1. v \in Check
    BY <1>0, WindowFacts DEF Check
  <2>2. check' = [check EXCEPT ![r] = v] /\ check[r].pc = "new" /\ UNCHANGED <<now, bucket>>
    BY <1>1 DEF Begin, New
  <2>3. v.pc = "incr" /\ v.at = b /\ v.window = Window(b, now) /\ v.start = now
    OBVIOUS
  <2> HIDE DEF v
  <2>4. QED
    BY <1>0, <2>1, <2>2, <2>3, MoveType DEF Begins
<1>2. ASSUME NEW r \in Requests, Incr(r)
      PROVE  Good
  <2> DEFINE m == check[r]
             n == bucket[Named(r)].count + 1
             v == [pc |-> AfterIncr(n), at |-> m.at, key |-> m.key, window |-> m.window,
                   ticket |-> n]
  <2>1. /\ m.pc = "incr" /\ m.at \in Brokers /\ m.key \in Keys /\ m.window \in Windows
        /\ Named(r) \in Keys \X Windows /\ Named(r) = <<Named(r)[1], Named(r)[2]>>
    BY <1>0, <1>2, CheckFields DEF Incr, Named
  <2>2. n \in Nat
    <3>1. bucket[Named(r)] \in Bucket
      BY <1>0, <2>1
    <3>2. QED
      BY <3>1 DEF Bucket
  <2>3. Counted(Named(r)[1], Named(r)[2]) = n
    BY <2>1 DEF Counted
  <2>4. check' = [check EXCEPT ![r] = v] /\ bucket' = [bucket EXCEPT ![Named(r)].count = n]
        /\ UNCHANGED now
    BY <1>2, <2>3 DEF Incr
  <2>5. v \in Check
    BY <2>1, <2>2 DEF Check, AfterIncr
  <2>6. /\ v.pc = AfterIncr(n) /\ v.at = m.at /\ v.key = m.key /\ v.window = m.window
        /\ v.ticket = n
    OBVIOUS
  <2> HIDE DEF v
  <2>7. QED
    BY <1>0, <2>1, <2>4, <2>5, <2>6, MoveType DEF Counts, SameCall, AfterIncr
<1>3. ASSUME NEW r \in Requests, Expire(r) \/ Admit(r)
      PROVE  Good
  <2> DEFINE v == [check[r] EXCEPT !.pc = IF Expire(r) THEN "counted" ELSE "admitted"]
  <2>1. check[r] \in Ticket
    BY <1>0, <1>3, TicketType DEF Expire, Admit
  <2>2. v \in Ticket /\ v.ticket = check[r].ticket /\ v.at = check[r].at
        /\ v.key = check[r].key /\ v.window = check[r].window
        /\ v.pc = IF Expire(r) THEN "counted" ELSE "admitted"
    BY <2>1 DEF Ticket
  <2>3. check' = [check EXCEPT ![r] = v] /\ UNCHANGED now
    BY <1>3 DEF Expire, Admit
  <2>4. v \in Check
    BY <2>2 DEF Ticket, Check
  <2> HIDE DEF v
  <2>5. check[r].pc \in {"expire", "counted"} /\ (~Expire(r) => ~Over(check[r].ticket))
    BY <1>3 DEF Expire, Admit
  <2>6. QED
    BY <1>0, <2>2, <2>3, <2>4, <2>5, MoveType DEF Ends, SameCall
<1>4. ASSUME NEW r \in Requests, Refuse(r)
      PROVE  Good
  <2> DEFINE m == check[r]
             v == [pc |-> "refused", at |-> m.at, key |-> m.key, window |-> m.window,
                   ticket |-> m.ticket, retry |-> now + RetryAfter(m.at)]
  <2>1. m.pc = "counted" /\ check' = [check EXCEPT ![r] = v] /\ UNCHANGED now /\ Over(m.ticket)
    BY <1>4 DEF Refuse
  <2>2. m \in Ticket
    BY <1>0, <2>1, TicketType
  <2>3. RetryAfter(m.at) \in Nat
    <3>1. now + Ahead[m.at] \in Nat
      BY <1>0, <2>2, WindowFacts DEF Ticket
    <3>2. QED
      BY <3>1, NextMultiple DEF RetryAfter
  <2>4. now + RetryAfter(m.at) \in Nat
    BY <1>0, <2>3
  <2>5. v \in Check
    BY <2>2, <2>4 DEF Check, Ticket
  <2>6. /\ v.pc = "refused" /\ v.at = m.at /\ v.key = m.key /\ v.window = m.window
        /\ v.ticket = m.ticket /\ v.retry = now + RetryAfter(m.at)
    OBVIOUS
  <2> HIDE DEF v
  <2>7. QED
    BY <1>0, <2>1, <2>5, <2>6, MoveType DEF Ends, SameCall
<1>5. ASSUME NEW r \in Requests, Fail(r)
      PROVE  Good
  <2> DEFINE m == check[r]
             n == IF m.pc = "incr" THEN 0 ELSE m.ticket
             v == [pc |-> "failed", at |-> m.at, key |-> m.key, window |-> m.window,
                   ticket |-> n]
  <2>1. m.pc \in {"incr", "expire", "counted"} /\ check' = [check EXCEPT ![r] = v]
        /\ UNCHANGED now
    BY <1>5 DEF Fail
  <2>2. m.at \in Brokers /\ m.key \in Keys /\ m.window \in Windows /\ n \in Nat
    BY <1>0, <2>1, CheckFields
  <2>3. v \in Check
    BY <2>2 DEF Check
  <2>4. /\ v.pc = "failed" /\ v.at = m.at /\ v.key = m.key /\ v.window = m.window
        /\ v.ticket = n
    OBVIOUS
  <2> HIDE DEF v
  <2>5. QED
    BY <1>0, <2>1, <2>3, <2>4, MoveType DEF Ends, SameCall
<1>6. CASE Tick \/ UNCHANGED vars
  BY <1>0, <1>6 DEF Tick, vars
<1>7. QED
  BY <1>1, <1>2, <1>3, <1>4, <1>5, <1>6 DEF Next

\* faults only grows, and a step keeps the types.
LEMMA TypeStep ==
    ASSUME TypeOK, ExpirersWait, [Next]_vars
    PROVE  TypeOK'
<1>1. faults' \in Nat
  <2>1. faults' = faults \/ faults' = faults + 1
    BY DEF Next, vars, Begin, Incr, Expire, Admit, Refuse, Fail, Tick
  <2>2. QED
    BY <2>1 DEF TypeOK
<1>2. QED
  BY <1>1, BucketStepType, CheckSteps DEF TypeOK

\* A call that has begun keeps its name, and a ticket, once given, is kept; a
\* ticket is given only by an INCR.
LEMMA TicketsAreKept ==
    ASSUME TypeOK, [Next]_vars, NEW r \in Requests
    PROVE  /\ check[r].pc # "new" =>
                /\ check'[r].pc # "new"
                /\ SameCall(r)
                /\ Named(r)' = Named(r)
           /\ Ticketed(r) => Ticketed(r)' /\ check'[r].ticket = check[r].ticket
           /\ Ticketed(r)' => Ticketed(r) \/ Counts(r)
<1>0. check \in [Requests -> Check]
  BY DEF TypeOK
<1>1. CASE check'[r] = check[r]
  BY <1>1 DEF SameCall, Named, Ticketed
<1>2. CASE Begins(r)
  BY <1>2 DEF Begins, Ticketed
<1>3. CASE Counts(r)
  BY <1>3 DEF Counts, SameCall, Named, Ticketed
<1>4. CASE Ends(r)
  <2>1. check[r].pc = "incr" => check'[r].ticket = 0
    BY <1>4 DEF Ends
  <2>2. QED
    BY <1>4, <2>1 DEF Ends, SameCall, Named, Ticketed
<1>5. QED
  BY <1>1, <1>2, <1>3, <1>4, CheckSteps

\* The next call to be counted in a bucket gets its next number; otherwise no
\* bucket counts more after a step than before.
LEMMA CountsFollow ==
    ASSUME TypeOK, ExpirersWait, [Next]_vars, NEW kw \in Keys \X Windows
    PROVE  \/ bucket'[kw].count <= bucket[kw].count
           \/ \E r \in Requests : /\ Counts(r) /\ Named(r) = kw
                                  /\ bucket'[kw].count = bucket[kw].count + 1
                                  /\ bucket'[kw].deadline = bucket[kw].deadline
                                  /\ \A q \in Requests : q # r => check'[q] = check[q]
<1> DEFINE Good == \/ bucket'[kw].count <= bucket[kw].count
                   \/ \E r \in Requests : /\ Counts(r) /\ Named(r) = kw
                                  /\ bucket'[kw].count = bucket[kw].count + 1
                                  /\ bucket'[kw].deadline = bucket[kw].deadline
                                  /\ \A q \in Requests : q # r => check'[q] = check[q]
<1>0. /\ bucket \in [Keys \X Windows -> Bucket] /\ bucket[kw] \in Bucket
      /\ bucket[kw].count \in Nat
      /\ check \in [Requests -> Check]
  BY DEF TypeOK, Bucket
<1>1. CASE UNCHANGED bucket
  BY <1>0, <1>1
<1>2. ASSUME NEW r \in Requests, Counts(r), \A q \in Requests : q # r => check'[q] = check[q]
      PROVE  Good
  <2>1. bucket' = [bucket EXCEPT ![Named(r)].count = bucket[Named(r)].count + 1]
    BY <1>2 DEF Counts
  <2>2. CASE Named(r) = kw
    <3>1. bucket'[kw] = [bucket[kw] EXCEPT !.count = bucket[kw].count + 1]
      BY <1>0, <2>1, <2>2
    <3>2. QED
      BY <1>0, <1>2, <2>2, <3>1 DEF Bucket
  <2>3. CASE Named(r) # kw
    BY <1>0, <2>1, <2>3
  <2>4. QED
    BY <2>2, <2>3
<1>3. ASSUME NEW r \in Requests, Expire(r)
      PROVE  Good
  <2>1. bucket' = [bucket EXCEPT ![Named(r)].deadline = now + TTL]
    BY <1>3 DEF Expire
  <2>2. bucket'[kw].count = bucket[kw].count
    BY <1>0, <2>1 DEF Bucket
  <2>3. QED
    BY <1>0, <2>2
<1>4. CASE Tick
  <2>1. bucket'[kw] = Absent \/ bucket'[kw] = bucket[kw]
    BY <1>4 DEF Tick
  <2>2. Absent.count = 0
    BY DEF Absent
  <2>3. QED
    BY <1>0, <2>1, <2>2
<1>5. ASSUME NEW r \in Requests, Incr(r)
      PROVE  Good
  <2>1. check[r].pc = "incr" /\ check'[r].pc \in {"expire", "counted"}
    BY <1>0, <1>5 DEF Incr, AfterIncr
  <2>2. PICK q \in Requests : /\ Begins(q) \/ Counts(q) \/ Ends(q)
                              /\ \A x \in Requests : x # q => check'[x] = check[x]
    BY <2>1, CheckSteps
  <2>3. q = r
    BY <2>1, <2>2
  <2>4. Counts(r)
    BY <2>1, <2>2, <2>3 DEF Begins, Ends
  <2>5. QED
    BY <1>2, <2>2, <2>3, <2>4
<1>6. ASSUME NEW r \in Requests, Admit(r) \/ Refuse(r) \/ Fail(r)
      PROVE  Good
  BY <1>1, <1>6 DEF Admit, Refuse, Fail
<1>7. ASSUME NEW r \in Requests, NEW b \in Brokers, NEW k \in Keys, Begin(r, b, k)
      PROVE  Good
  BY <1>1, <1>7 DEF Begin
<1>8. QED
  BY <1>1, <1>3, <1>4, <1>5, <1>6, <1>7 DEF Next, vars

\* What a step does to one bucket: it gets its time to live, or it is dropped when
\* that is up, or it keeps it and loses no count.
LEMMA BucketsEndure ==
    ASSUME TypeOK, ExpirersWait, [Next]_vars, NEW kw \in Keys \X Windows
    PROVE  \/ \E r \in Requests : /\ check[r].pc = "expire" /\ check'[r].pc = "counted"
                                  /\ Named(r) = kw
                                  /\ bucket'[kw].deadline = now + TTL
                                  /\ bucket'[kw].count = bucket[kw].count
           \/ /\ bucket'[kw] = Absent
              /\ bucket[kw].deadline # NoTTL
              /\ bucket[kw].deadline <= now'
           \/ /\ bucket'[kw].deadline = bucket[kw].deadline
              /\ bucket'[kw].count >= bucket[kw].count
<1> DEFINE Good == \/ \E r \in Requests : /\ check[r].pc = "expire" /\ check'[r].pc = "counted"
                                  /\ Named(r) = kw
                                  /\ bucket'[kw].deadline = now + TTL
                                  /\ bucket'[kw].count = bucket[kw].count
                   \/ /\ bucket'[kw] = Absent
                      /\ bucket[kw].deadline # NoTTL
                      /\ bucket[kw].deadline <= now'
                   \/ /\ bucket'[kw].deadline = bucket[kw].deadline
                      /\ bucket'[kw].count >= bucket[kw].count
<1>0. /\ bucket \in [Keys \X Windows -> Bucket] /\ bucket[kw] \in Bucket
      /\ bucket[kw].count \in Nat
      /\ check \in [Requests -> Check]
  BY DEF TypeOK, Bucket
<1>1. CASE UNCHANGED bucket
  BY <1>0, <1>1
<1>2. ASSUME NEW r \in Requests, Incr(r)
      PROVE  Good
  <2>1. PICK n : bucket' = [bucket EXCEPT ![Named(r)].count = n]
    BY <1>2 DEF Incr
  <2>2. bucket'[kw].deadline = bucket[kw].deadline
    BY <1>0, <2>1 DEF Bucket
  <2>3. bucket'[kw].count >= bucket[kw].count
    <3>1. CASE Named(r) = kw
      <4>1. Named(r) = <<Named(r)[1], Named(r)[2]>>
        BY DEF Named
      <4>2. bucket' = [bucket EXCEPT ![kw].count = bucket[kw].count + 1]
        BY <1>2, <3>1, <4>1 DEF Incr, Counted
      <4>3. QED
        BY <1>0, <4>2 DEF Bucket
    <3>2. CASE Named(r) # kw
      BY <1>0, <2>1, <3>2
    <3>3. QED
      BY <3>1, <3>2
  <2>4. QED
    BY <2>2, <2>3
<1>3. ASSUME NEW r \in Requests, Expire(r)
      PROVE  Good
  <2>1. bucket' = [bucket EXCEPT ![Named(r)].deadline = now + TTL] /\ check[r].pc = "expire"
    BY <1>3 DEF Expire
  <2>2. check'[r].pc = "counted"
    <3>1. check[r] \in Ticket
      BY <1>0, <2>1, TicketType
    <3>2. QED
      BY <1>0, <1>3, <3>1 DEF Expire, Ticket
  <2>3. CASE Named(r) = kw
    BY <1>0, <2>1, <2>2, <2>3 DEF Bucket
  <2>4. CASE Named(r) # kw
    BY <1>0, <2>1, <2>4
  <2>5. QED
    BY <2>3, <2>4
<1>4. CASE Tick
  BY <1>0, <1>4 DEF Tick
<1>5. ASSUME NEW r \in Requests, Admit(r) \/ Refuse(r) \/ Fail(r)
      PROVE  Good
  BY <1>1, <1>5 DEF Admit, Refuse, Fail
<1>6. ASSUME NEW r \in Requests, NEW b \in Brokers, NEW k \in Keys, Begin(r, b, k)
      PROVE  Good
  BY <1>1, <1>6 DEF Begin
<1>7. QED
  BY <1>1, <1>2, <1>3, <1>4, <1>5, <1>6 DEF Next, vars

(***************************************************************************)
(* Tickets, whether or not INCRs are in time.                              *)
(***************************************************************************)

\* Who is about to set a time to live stays alone with a bucket that has none.
LEMMA ExpirersStep ==
    ASSUME TypeOK, ExpirersWait, [Next]_vars
    PROVE  ExpirersWait'
<1>0. /\ bucket \in [Keys \X Windows -> Bucket] /\ check \in [Requests -> Check]
      /\ \A kw \in Keys \X Windows :
           bucket[kw].deadline # NoTTL => bucket[kw].count > 0
      /\ \A kw \in Keys \X Windows : bucket[kw].count \in Nat
  BY DEF TypeOK, Bucket
<1>1. ASSUME NEW r \in Requests, check'[r].pc = "expire"
      PROVE  \/ check[r].pc = "expire" /\ check'[r] = check[r]
             \/ /\ Counts(r) /\ bucket[Named(r)].count = 0
                /\ \A q \in Requests : q # r => check'[q] = check[q]
  <2>1. CASE check'[r] = check[r]
    BY <1>1, <2>1
  <2>2. CASE check'[r] # check[r]
    <3>1. Counts(r) /\ \A q \in Requests : q # r => check'[q] = check[q]
      BY <1>1, <2>2, CheckSteps DEF Begins, Ends
    <3>2. Named(r) \in Keys \X Windows
      BY <1>0, <3>1, CheckFields DEF Counts
    <3>3. bucket[Named(r)].count \in Nat
      BY <1>0, <3>2
    <3>4. bucket[Named(r)].count + 1 = 1
      BY <1>1, <3>1 DEF Counts
    <3>5. bucket[Named(r)].count = 0
      BY <3>3, <3>4
    <3>6. QED
      BY <3>1, <3>5
  <2>3. QED
    BY <2>1, <2>2
<1>2. ASSUME NEW r \in Requests, check'[r].pc = "expire"
      PROVE  /\ Named(r)' = Named(r) /\ Named(r) \in Keys \X Windows
             /\ bucket'[Named(r)].count > 0
             /\ bucket'[Named(r)].deadline = NoTTL
  <2>1. check[r].pc # "new"
    BY <1>1, <1>2 DEF Counts
  <2>2. Named(r)' = Named(r) /\ Named(r) \in Keys \X Windows
    BY <1>0, <2>1, TicketsAreKept, CheckFields
  <2> DEFINE kw == Named(r)
  <2>3. CASE check[r].pc = "expire" /\ check'[r] = check[r]
    <3>1. /\ bucket[kw].count > 0 /\ bucket[kw].deadline = NoTTL
          /\ \A q \in Requests : check[q].pc = "expire" /\ Named(q) = kw => q = r
      BY <2>3 DEF ExpirersWait
    <3>2. bucket'[kw].deadline = bucket[kw].deadline /\ bucket'[kw].count >= bucket[kw].count
      BY <1>2, <2>2, <3>1, BucketsEndure
    <3>3. bucket'[kw].count \in Nat
      BY <2>2, BucketStepType DEF Bucket
    <3> HIDE DEF kw
    <3>4. bucket[kw].count \in Nat
      BY <1>0, <2>2 DEF kw
    <3>5. bucket'[kw].count > 0 /\ bucket'[kw].deadline = NoTTL
      BY <3>1, <3>2, <3>3, <3>4
    <3>6. QED
      BY <2>2, <3>5 DEF kw
  <2>4. CASE Counts(r) /\ bucket[kw].count = 0
    <3>1. bucket' = [bucket EXCEPT ![kw].count = 0 + 1] /\ bucket[kw].deadline = NoTTL
      BY <1>0, <2>2, <2>4 DEF Counts
    <3>2. bucket'[kw].count = 1 /\ bucket'[kw].deadline = NoTTL
      BY <1>0, <2>2, <3>1 DEF Bucket
    <3>3. QED
      BY <2>2, <3>2
  <2>5. QED
    BY <1>1, <1>2, <2>3, <2>4
<1>3. ASSUME NEW r \in Requests, check'[r].pc = "expire",
             NEW q \in Requests \ {r}, check'[q].pc = "expire"
      PROVE  Named(q)' # Named(r)'
  <2>1. Named(q)' = Named(q) /\ Named(r)' = Named(r)
    BY <1>2, <1>3
  <2>2. \A x \in Requests : check[x].pc = "expire" => bucket[Named(x)].count > 0
    BY DEF ExpirersWait
  <2>3. CASE check[r].pc = "expire" /\ check[q].pc = "expire"
    BY <2>1, <2>3 DEF ExpirersWait
  <2>4. CASE check[r].pc = "expire" /\ check[q].pc # "expire"
    <3>1. bucket[Named(q)].count = 0
      BY <1>1, <1>3, <2>4
    <3>2. bucket[Named(r)].count > 0
      BY <2>2, <2>4
    <3>3. QED
      BY <2>1, <3>1, <3>2
  <2>5. CASE check[r].pc # "expire"
    <3>1. bucket[Named(r)].count = 0 /\ check'[q] = check[q]
      BY <1>1, <1>3, <2>5
    <3>2. bucket[Named(q)].count > 0
      BY <1>3, <2>2, <3>1
    <3>3. QED
      BY <2>1, <3>1, <3>2
  <2>6. QED
    BY <2>3, <2>4, <2>5
<1>4. QED
  BY <1>2, <1>3 DEF ExpirersWait

\* The windows of calls under way have begun and remain so.
LEMMA WindowsStep ==
    ASSUME TypeOK, ExpirersWait, WindowsHaveBegun, [Next]_vars
    PROVE  WindowsHaveBegun'
<1>0. /\ check \in [Requests -> Check] /\ now \in Nat /\ now' \in Nat /\ now <= now'
  BY BucketStepType DEF TypeOK
<1>1. ASSUME NEW r \in Requests, check'[r].pc # "new"
      PROVE  check'[r].window <= Window(check'[r].at, now')
  <2>1. CASE check[r].pc # "new"
    <3>1. /\ check[r].at \in Brokers /\ check[r].window \in Nat
          /\ check[r].window <= Window(check[r].at, now)
      BY <1>0, <2>1, CheckFields DEF WindowsHaveBegun
    <3>2. check'[r].window = check[r].window /\ check'[r].at = check[r].at
      BY <2>1, TicketsAreKept DEF SameCall
    <3>3. /\ Window(check[r].at, now) \in Nat /\ Window(check[r].at, now') \in Nat
          /\ Window(check[r].at, now) <= Window(check[r].at, now')
      BY <1>0, <3>1, WindowFacts
    <3>4. QED
      BY <3>1, <3>2, <3>3
  <2>2. CASE check[r].pc = "new"
    <3>1. Begins(r)
      BY <1>1, <2>2, CheckSteps DEF Counts, Ends
    <3>2. /\ check'[r].at \in Brokers /\ check'[r].window = Window(check'[r].at, now)
          /\ now' = now
      BY <3>1 DEF Begins
    <3>3. Window(check'[r].at, now) \in Nat
      BY <1>0, <3>2, WindowFacts
    <3>4. QED
      BY <3>2, <3>3
  <2>3. QED
    BY <2>1, <2>2
<1>2. \A r \in Requests : check'[r].pc # "new" =>
        check'[r].window <= Window(check'[r].at, now')
  BY <1>1
<1>3. QED
  BY <1>2 DEF WindowsHaveBegun, Window

\* Every number up to the count of a bucket has been somebody's ticket.
LEMMA DenseStep ==
    ASSUME TypeOK, ExpirersWait, TicketsAreDense, [Next]_vars
    PROVE  TicketsAreDense'
<1>0. /\ check \in [Requests -> Check]
      /\ bucket \in [Keys \X Windows -> Bucket]
      /\ \A kw \in Keys \X Windows : bucket[kw].count \in Nat
      /\ \A kw \in Keys \X Windows : bucket'[kw].count \in Nat
  BY BucketStepType DEF TypeOK, Bucket
<1> DEFINE Had(kw, i) == \E q \in Requests : Ticketed(q) /\ Named(q) = kw /\ check[q].ticket = i
           Has(kw, i) == \E q \in Requests : Ticketed(q)' /\ Named(q)' = kw /\ check'[q].ticket = i
<1>1. ASSUME NEW kw, NEW i, Had(kw, i)
      PROVE  Has(kw, i)
  <2>1. PICK q \in Requests : Ticketed(q) /\ Named(q) = kw /\ check[q].ticket = i
    BY <1>1
  <2>2. check[q].pc # "new"
    BY <2>1 DEF Ticketed
  <2>3. Ticketed(q)' /\ Named(q)' = kw /\ check'[q].ticket = i
    BY <2>1, <2>2, TicketsAreKept
  <2>4. QED
    BY <2>3
<1>2. ASSUME NEW kw \in Keys \X Windows, NEW i \in 1 .. bucket[kw].count
      PROVE  Had(kw, i)
  <2>1. PICK k \in Keys, w \in Windows : kw = <<k, w>>
    OBVIOUS
  <2>2. i \in 1 .. bucket[k, w].count
    BY <1>2, <2>1
  <2>3. \E q \in Requests : Ticketed(q) /\ Named(q) = <<k, w>> /\ check[q].ticket = i
    BY <2>2, Zenon DEF TicketsAreDense
  <2>4. QED
    BY <2>1, <2>3, Zenon
<1>3. \A r \in Requests : Ticketed(r) => \A i \in 1 .. check[r].ticket : Had(Named(r), i)
  BY DEF TicketsAreDense
<1> HIDE DEF Had
<1>4. ASSUME NEW r \in Requests, Counts(r)
      PROVE  /\ Named(r)' = Named(r) /\ Named(r) \in Keys \X Windows
             /\ check'[r].ticket = bucket[Named(r)].count + 1
             /\ Ticketed(r)'
  <2>1. check[r].pc # "new" /\ check'[r].ticket = bucket[Named(r)].count + 1
        /\ check'[r].pc \in {"expire", "counted"}
    BY <1>4 DEF Counts
  <2>2. Named(r)' = Named(r) /\ Named(r) \in Keys \X Windows
    BY <1>0, <2>1, TicketsAreKept, CheckFields
  <2>3. bucket[Named(r)].count \in Nat
    BY <1>0, <2>2
  <2>4. check'[r].ticket > 0
    BY <2>1, <2>3
  <2>5. QED
    BY <2>1, <2>2, <2>4 DEF Ticketed
<1>5. ASSUME NEW r \in Requests, Counts(r), NEW i \in 1 .. (bucket[Named(r)].count + 1)
      PROVE  Has(Named(r), i)
  <2>1. bucket[Named(r)].count \in Nat /\ Named(r) \in Keys \X Windows
    BY <1>0, <1>4, <1>5
  <2>2. CASE i = bucket[Named(r)].count + 1
    BY <1>4, <1>5, <2>2
  <2>3. CASE i # bucket[Named(r)].count + 1
    <3>1. i \in 1 .. bucket[Named(r)].count
      BY <1>5, <2>1, <2>3
    <3>2. QED
      BY <1>1, <1>2, <2>1, <3>1
  <2>4. QED
    BY <2>2, <2>3
<1>6. ASSUME NEW kw \in Keys \X Windows, NEW i \in 1 .. bucket'[kw].count
      PROVE  Has(kw, i)
  <2>1. CASE bucket'[kw].count <= bucket[kw].count
    <3>1. i \in 1 .. bucket[kw].count
      BY <1>0, <1>6, <2>1
    <3>2. QED
      BY <1>1, <1>2, <3>1
  <2>2. ASSUME NEW r \in Requests, Counts(r), Named(r) = kw,
               bucket'[kw].count = bucket[kw].count + 1
        PROVE  Has(kw, i)
    BY <1>5, <1>6, <2>2
  <2>3. QED
    BY <2>1, <2>2, CountsFollow
<1>7. ASSUME NEW r \in Requests, Ticketed(r)', NEW i \in 1 .. check'[r].ticket
      PROVE  Has(Named(r)', i)
  <2>1. CASE Ticketed(r)
    <3>1. check[r].pc # "new"
      BY <2>1 DEF Ticketed
    <3>2. check'[r].ticket = check[r].ticket /\ Named(r)' = Named(r)
      BY <2>1, <3>1, TicketsAreKept
    <3>3. QED
      BY <1>1, <1>3, <1>7, <2>1, <3>2
  <2>2. CASE Counts(r)
    BY <1>4, <1>5, <1>7, <2>2
  <2>3. QED
    BY <1>7, <2>1, <2>2, TicketsAreKept
<1>8. QED
  BY <1>6, <1>7 DEF TicketsAreDense

\* A number that has been handed out is a number, and decisions agree with it.
LEMMA DecisionsStep ==
    ASSUME TypeOK, DecisionsFollowTickets, [Next]_vars
    PROVE  DecisionsFollowTickets'
<1>0. /\ check \in [Requests -> Check] /\ bucket \in [Keys \X Windows -> Bucket]
  BY DEF TypeOK
<1>1. ASSUME NEW r \in Requests
      PROVE  /\ check'[r].pc \in {"expire", "counted", "admitted", "refused"} => check'[r].ticket > 0
             /\ check'[r].pc = "admitted" => ~Over(check'[r].ticket)
             /\ check'[r].pc = "refused" => Over(check'[r].ticket)
  <2>1. CASE check'[r] = check[r]
    BY <2>1 DEF DecisionsFollowTickets
  <2>2. CASE Begins(r)
    BY <2>2 DEF Begins
  <2>3. CASE Counts(r)
    <3>1. Named(r) \in Keys \X Windows
      BY <1>0, <2>3, CheckFields DEF Counts
    <3>2. bucket[Named(r)].count \in Nat
      BY <1>0, <3>1 DEF Bucket
    <3>3. QED
      BY <2>3, <3>2 DEF Counts
  <2>4. CASE Ends(r)
    BY <2>4 DEF Ends, DecisionsFollowTickets
  <2>5. QED
    BY <2>1, <2>2, <2>3, <2>4, CheckSteps
<1>2. QED
  BY <1>1 DEF DecisionsFollowTickets, Over

\* The Retry-After of a refusal leads out of the window it refused.
LEMMA RetryStep ==
    ASSUME TypeOK, WindowsHaveBegun, RetryAfterLeavesTheWindow, [Next]_vars
    PROVE  RetryAfterLeavesTheWindow'
<1>0. check \in [Requests -> Check] /\ now \in Nat
  BY DEF TypeOK
<1>1. ASSUME NEW r \in Requests, check'[r].pc = "refused"
      PROVE  Window(check'[r].at, check'[r].retry) > check'[r].window
  <2>1. CASE check'[r] = check[r]
    BY <1>1, <2>1 DEF RetryAfterLeavesTheWindow
  <2>2. CASE check'[r] # check[r]
    <3> DEFINE b == check[r].at
               a == now + Ahead[b]
    <3>1. /\ check[r].pc # "new" /\ check'[r].at = b
          /\ check'[r].window = check[r].window
          /\ check'[r].retry = now + RetryAfter(b)
      BY <1>1, <2>2, CheckSteps DEF Begins, Counts, Ends, SameCall
    <3>2. /\ b \in Brokers /\ Ahead[b] \in Nat /\ a \in Nat
          /\ check[r].window \in Nat
          /\ check[r].window <= Window(b, now)
      <4>1. b \in Brokers /\ check[r].window \in Nat
        BY <1>0, <3>1, CheckFields
      <4>2. check[r].window <= Window(b, now)
        BY <3>1 DEF WindowsHaveBegun
      <4>3. Ahead[b] \in Nat
        BY <1>0, <4>1, WindowFacts
      <4>4. a \in Nat
        BY <1>0, <4>3
      <4>5. QED
        BY <4>1, <4>2, <4>3, <4>4
    <3>3. /\ RetryAfter(b) = WindowTime - (a % WindowTime)
          /\ Window(b, now) = a \div WindowTime
          /\ Window(b, now + RetryAfter(b)) = (now + RetryAfter(b) + Ahead[b]) \div WindowTime
      BY DEF RetryAfter, Window
    <3> HIDE DEF a
    <3>4. /\ WindowTime - (a % WindowTime) \in Nat
          /\ (a + (WindowTime - (a % WindowTime))) \div WindowTime = (a \div WindowTime) + 1
          /\ a \div WindowTime \in Nat
      <4>1. a \in Nat /\ WindowTime \in Nat \ {0}
        BY <3>2
      <4>2. QED
        BY <4>1, NextMultiple, DivFacts
    <3>5. now + RetryAfter(b) + Ahead[b] = a + (WindowTime - (a % WindowTime))
      BY <1>0, <3>2, <3>3, <3>4 DEF a
    <3>6. Window(b, now + RetryAfter(b)) = Window(b, now) + 1 /\ Window(b, now) \in Nat
      BY <3>3, <3>4, <3>5
    <3>7. QED
      BY <3>1, <3>2, <3>6
  <2>3. QED
    BY <2>1, <2>2
<1>2. \A r \in Requests : check'[r].pc = "refused" =>
        Window(check'[r].at, check'[r].retry) > check'[r].window
  BY <1>1
<1>3. QED
  BY <1>2 DEF RetryAfterLeavesTheWindow, Window

\* What holds of the counters in every reachable state, however late an INCR is.
THEOREM CountingInvariance == Spec => []CountingInv
<1>1. Init => CountingInv
  <2>1. ASSUME Init
        PROVE  /\ ExpirersWait /\ WindowsHaveBegun /\ TicketsAreDense
               /\ DecisionsFollowTickets /\ RetryAfterLeavesTheWindow
    <3>1. \A r \in Requests : check[r].pc = "new"
      BY <2>1 DEF Init, New
    <3>2. \A kw \in Keys \X Windows : bucket[kw].count = 0
      BY <2>1 DEF Init, Absent
    <3>3. TicketsAreDense
      <4>1. \A k \in Keys, w \in Windows : bucket[k, w].count = 0
        BY <3>2
      <4>2. 1 .. 0 = {}
        OBVIOUS
      <4>3. QED
        BY <3>1, <4>1, <4>2 DEF TicketsAreDense, Ticketed
    <3>4. QED
      BY <3>1, <3>3 DEF ExpirersWait, WindowsHaveBegun, DecisionsFollowTickets,
                        RetryAfterLeavesTheWindow
  <2>2. QED
    BY <2>1, TypeInit DEF CountingInv
<1>2. CountingInv /\ [Next]_vars => CountingInv'
  BY TypeStep, ExpirersStep, WindowsStep, DenseStep, DecisionsStep, RetryStep DEF CountingInv
<1>3. QED
  BY <1>1, <1>2, PTL DEF Spec

\* The limiter is well typed, and no bucket that redis holds is overdue.
THEOREM LimiterTypeCorrect == Spec => []TypeOK
<1>1. CountingInv => TypeOK
  BY DEF CountingInv
<1>2. QED
  BY <1>1, CountingInvariance, PTL

\* Whoever waits for Retry-After comes back in a later window.
THEOREM RetryAfterIsEnough == Spec => []RetryAfterLeavesTheWindow
<1>1. CountingInv => RetryAfterLeavesTheWindow
  BY DEF CountingInv
<1>2. QED
  BY <1>1, CountingInvariance, PTL

\* A refusal is earned by more than Limit requests that were counted before it
\* in its window: the tickets below its own were all handed out.
THEOREM RefusalsAreAlwaysEarned == Spec => []RefusalsAreEarned
<1>1. ASSUME CountingInv, NEW r \in Requests, check[r].pc = "refused"
      PROVE  Cardinality({q \in Of(check[r].key, check[r].window) : Ticketed(q)}) > Limit
  <2> DEFINE N == {q \in Of(check[r].key, check[r].window) : Ticketed(q)}
             n == check[r].ticket
             f == [i \in 1 .. n |-> CHOOSE q \in N : check[q].ticket = i]
  <2>1. check \in [Requests -> Check]
    BY <1>1 DEF CountingInv, TypeOK
  <2>2. n \in Nat /\ n > Limit /\ Ticketed(r)
    BY <1>1, <2>1, CheckFields DEF CountingInv, DecisionsFollowTickets, Over, Ticketed
  <2>3. \A i \in 1 .. n : \E q \in N : check[q].ticket = i
    <3>1. ASSUME NEW i \in 1 .. n
          PROVE  \E q \in N : check[q].ticket = i
      <4>1. PICK q \in Requests : Ticketed(q) /\ Named(q) = Named(r) /\ check[q].ticket = i
        BY <1>1, <2>2 DEF CountingInv, TicketsAreDense
      <4>2. q \in N
        BY <4>1 DEF Of, Named, Ticketed
      <4>3. QED
        BY <4>1, <4>2
    <3>2. QED
      BY <3>1
  <2>4. IsFiniteSet(N)
    <3>1. N \in SUBSET Requests
      BY DEF Of
    <3>2. QED
      BY <3>1, FS_Subset, RequestsAssumption
  <2> HIDE DEF N, n
  <2>5. \A i \in 1 .. n : f[i] \in N /\ check[f[i]].ticket = i
    BY <2>3
  <2>6. f \in Injection(1 .. n, N)
    <3>1. f \in [1 .. n -> N]
      BY <2>5
    <3>2. \A i, j \in 1 .. n : f[i] = f[j] => i = j
      BY <2>5
    <3> HIDE DEF f
    <3>3. QED
      BY <3>1, <3>2 DEF Injection, IsInjective
  <2>7. Cardinality(1 .. n) <= Cardinality(N)
    BY <2>4, <2>6, FS_Injection
  <2>8. Cardinality(1 .. n) = n
    <3>1. 1 \in Int /\ n \in Int /\ n > 0
      BY <2>2
    <3>2. QED
      BY <3>1, FS_Interval
  <2>9. Cardinality(N) \in Nat
    BY <2>4, FS_CardinalityType
  <2>10. Cardinality(N) > Limit
    BY <2>2, <2>7, <2>8, <2>9
  <2>11. QED
    BY <2>10 DEF N
<1>2. CountingInv => RefusalsAreEarned
  BY <1>1 DEF RefusalsAreEarned
<1>3. QED
  BY <1>2, CountingInvariance, PTL

(***************************************************************************)
(* What holds if INCRs are in time.                                        *)
(***************************************************************************)

\* The bounds on a bucket are numbers.
LEMMA EarliestType ==
    ASSUME NEW w \in Nat
    PROVE  /\ w * WindowTime \in Nat
           /\ Earliest(w) \in Int
           /\ Earliest(w) = w * WindowTime - MaxAhead + TTL
<1>1. w * WindowTime \in Nat
  OBVIOUS
<1>2. QED
  BY <1>1 DEF Earliest

\* An INCR stays punctual: time does not pass it by.
LEMMA PunctualStep ==
    ASSUME TypeOK, IncrsArePunctual, [Next]_vars
    PROVE  IncrsArePunctual'
<1>0. check \in [Requests -> Check] /\ now \in Nat
  BY DEF TypeOK
<1>1. ASSUME NEW r \in Requests, check'[r].pc = "incr"
      PROVE  /\ check'[r].window = Window(check'[r].at, check'[r].start)
             /\ check'[r].start <= now'
             /\ now' <= check'[r].start + MaxDelay
  <2>1. CASE check'[r] = check[r]
    <3>1. /\ check[r].window = Window(check[r].at, check[r].start)
          /\ check[r].start <= now /\ now <= check[r].start + MaxDelay
          /\ check[r].start \in Nat
      BY <1>0, <1>1, <2>1, CheckFields DEF IncrsArePunctual
    <3>2. now' = now \/ Tick
      BY DEF Next, vars, Begin, Incr, Expire, Admit, Refuse, Fail
    <3>3. Tick => now' = now + 1 /\ now < check[r].start + MaxDelay
      BY <1>1, <2>1 DEF Tick
    <3>4. QED
      BY <1>0, <2>1, <3>1, <3>2, <3>3
  <2>2. CASE check'[r] # check[r]
    <3>1. Begins(r)
      BY <1>1, <2>2, CheckSteps DEF Counts, Ends
    <3>2. QED
      BY <1>0, <3>1 DEF Begins
  <2>3. QED
    BY <2>1, <2>2
<1>2. \A r \in Requests : check'[r].pc = "incr" =>
        /\ check'[r].window = Window(check'[r].at, check'[r].start)
        /\ check'[r].start <= now'
        /\ now' <= check'[r].start + MaxDelay
  BY <1>1
<1>3. QED
  BY <1>2 DEF IncrsArePunctual, Window

\* A bucket gets its time to live after its window has begun, so it lasts.
LEMMA LastStep ==
    ASSUME TypeOK, ExpirersWait, WindowsHaveBegun, BucketsLast, [Next]_vars
    PROVE  BucketsLast'
<1>0. /\ check \in [Requests -> Check] /\ now \in Nat
  BY DEF TypeOK
<1>1. ASSUME NEW k \in Keys, NEW w \in Windows, bucket'[k, w].deadline # NoTTL
      PROVE  bucket'[k, w].deadline >= Earliest(w)
  <2>0. w \in Nat /\ <<k, w>> \in Keys \X Windows
    BY WindowsAreNat
  <2>1. ASSUME NEW r \in Requests, check[r].pc = "expire", Named(r) = <<k, w>>,
               bucket'[k, w].deadline = now + TTL
        PROVE  bucket'[k, w].deadline >= Earliest(w)
    <3>1. /\ check[r].at \in Brokers /\ check[r].window = w
          /\ w <= Window(check[r].at, now)
      BY <1>0, <2>1, CheckFields DEF WindowsHaveBegun, Named
    <3> DEFINE v == Window(check[r].at, now)
    <3>2. v \in Nat /\ v * WindowTime <= now + MaxAhead /\ w <= v
      BY <1>0, <3>1, WindowFacts
    <3> HIDE DEF v
    <3>3. w * WindowTime <= v * WindowTime /\ v * WindowTime \in Nat
      BY <2>0, <3>2
    <3>4. /\ w * WindowTime \in Nat
          /\ Earliest(w) = w * WindowTime - MaxAhead + TTL
      BY <2>0, EarliestType
    <3>5. now + TTL >= Earliest(w)
      BY <1>0, <3>2, <3>3, <3>4
    <3>6. QED
      BY <2>1, <3>5
  <2>2. Absent.deadline = NoTTL
    BY DEF Absent
  <2>3. QED
    BY <1>1, <2>0, <2>1, <2>2, BucketsEndure DEF BucketsLast
<1>2. QED
  BY <1>1 DEF BucketsLast, Earliest

\* A bucket is dropped no earlier than it may be, and otherwise forgets no ticket.
LEMMA CountedStep ==
    ASSUME TypeOK, ExpirersWait, BucketsLast, TicketsAreCounted, [Next]_vars
    PROVE  TicketsAreCounted'
<1>0. /\ check \in [Requests -> Check]
      /\ bucket \in [Keys \X Windows -> Bucket] /\ bucket' \in [Keys \X Windows -> Bucket]
      /\ now \in Nat /\ now' \in Nat /\ now <= now'
  BY BucketStepType DEF TypeOK
<1>1. ASSUME NEW r \in Requests, Ticketed(r)'
      PROVE  \/ check'[r].ticket <= bucket'[Named(r)'].count
             \/ now' >= Earliest(check'[r].window)
  <2>1. check[r].pc # "new"
    BY <1>1, TicketsAreKept DEF Ticketed, Counts
  <2> DEFINE kw == Named(r)
             w == check[r].window
  <2>2. /\ kw \in Keys \X Windows /\ kw = <<check[r].key, w>>
        /\ check[r].key \in Keys /\ w \in Windows /\ w \in Nat
        /\ Named(r)' = kw /\ check'[r].window = w
    BY <1>0, <2>1, CheckFields, TicketsAreKept DEF Named, SameCall
  <2>3. bucket[kw].count \in Nat /\ bucket'[kw].count \in Nat
        /\ bucket[kw].deadline \in Int \cup {NoTTL}
    BY <1>0, <2>2 DEF Bucket
  <2>4. Earliest(w) \in Int
    BY <2>2, EarliestType
  <2> HIDE DEF kw, w
  <2>5. CASE Ticketed(r)
    <3>1. /\ check'[r].ticket = check[r].ticket
          /\ check[r].ticket <= bucket[kw].count \/ now >= Earliest(w)
      BY <2>5, TicketsAreKept DEF TicketsAreCounted, kw, w
    <3>2. check[r].ticket \in Nat
      BY <1>0, <2>5, CheckFields DEF Ticketed
    <3>3. bucket[kw].deadline # NoTTL => bucket[kw].deadline >= Earliest(w)
      BY <2>2 DEF BucketsLast
    <3>4. bucket'[kw].count >= bucket[kw].count \/ now' >= Earliest(w)
      <4>1. \/ bucket'[kw].count = bucket[kw].count
            \/ bucket[kw].deadline # NoTTL /\ bucket[kw].deadline <= now'
            \/ bucket'[kw].count >= bucket[kw].count
        BY <2>2, BucketsEndure
      <4>2. QED
        BY <1>0, <2>3, <2>4, <3>3, <4>1
    <3>5. QED
      BY <1>0, <2>2, <2>3, <2>4, <3>1, <3>2, <3>4
  <2>6. CASE Counts(r)
    <3>1. /\ check'[r].ticket = bucket[kw].count + 1
          /\ bucket' = [bucket EXCEPT ![kw].count = bucket[kw].count + 1]
      BY <2>6 DEF Counts, kw
    <3>2. bucket'[kw].count = bucket[kw].count + 1
      <4>1. bucket[kw] \in Bucket
        BY <1>0, <2>2
      <4>2. QED
        BY <1>0, <2>2, <3>1, <4>1 DEF Bucket
    <3>3. QED
      BY <2>2, <2>3, <3>1, <3>2
  <2>7. QED
    BY <1>1, <2>5, <2>6, TicketsAreKept
<1>2. \A r \in Requests : Ticketed(r)' =>
             \/ check'[r].ticket <= bucket'[Named(r)'].count
             \/ now' >= Earliest(check'[r].window)
  BY <1>1
<1>3. QED
  BY <1>2 DEF TicketsAreCounted, Earliest

\* Redis executes a punctual INCR while the bucket of its window lasts.
LEMMA PunctualCount ==
    ASSUME TypeOK, TimelyIncr, IncrsArePunctual,
           NEW r \in Requests, check[r].pc = "incr"
    PROVE  now < Earliest(check[r].window)
<1> DEFINE m == check[r]
           w == check[r].window
<1>1. /\ m.at \in Brokers /\ m.start \in Nat /\ w \in Nat /\ now \in Nat
      /\ w = Window(m.at, m.start) /\ now <= m.start + MaxDelay
  <2>1. check \in [Requests -> Check] /\ now \in Nat
    BY DEF TypeOK
  <2>2. QED
    BY <2>1, CheckFields DEF IncrsArePunctual
<1>2. m.start < w * WindowTime + WindowTime
  BY <1>1, WindowFacts
<1>3. w * WindowTime \in Nat /\ Earliest(w) = w * WindowTime - MaxAhead + TTL
  BY <1>1, EarliestType
<1>4. WindowTime + MaxAhead + MaxDelay <= TTL
  BY DEF TimelyIncr
<1> HIDE DEF m, w
<1>5. now < Earliest(w)
  BY <1>1, <1>2, <1>3, <1>4
<1>6. QED
  BY <1>5 DEF w

\* Every new ticket is above all those its window has given out.
LEMMA DifferStep ==
    ASSUME TypeOK, ExpirersWait, TimelyInv, [Next]_vars
    PROVE  TicketsDiffer'
<1>0. check \in [Requests -> Check] /\ bucket \in [Keys \X Windows -> Bucket] /\ now \in Nat
  BY DEF TypeOK
<1>1. ASSUME NEW q \in Requests, NEW r \in Requests, Ticketed(q), Counts(r), Named(q) = Named(r)
      PROVE  check'[q].ticket # check'[r].ticket
  <2>1. check[r].pc = "incr" /\ check'[r].ticket = bucket[Named(r)].count + 1
    BY <1>1 DEF Counts
  <2>2. Named(r) \in Keys \X Windows /\ check[r].window \in Nat
    BY <1>0, <2>1, CheckFields
  <2>3. now < Earliest(check[r].window)
    BY <2>1, PunctualCount DEF TimelyInv
  <2>4. check[q].ticket \in Nat /\ check'[q].ticket = check[q].ticket
    BY <1>0, <1>1, CheckFields, TicketsAreKept DEF Ticketed
  <2>5. check[q].window = check[r].window
    BY <1>1 DEF Named
  <2>6. check[q].ticket <= bucket[Named(r)].count \/ now >= Earliest(check[r].window)
    BY <1>1, <2>5 DEF TimelyInv, TicketsAreCounted
  <2>7. bucket[Named(r)].count \in Nat /\ Earliest(check[r].window) \in Int
    BY <1>0, <2>2, EarliestType DEF Bucket
  <2>8. QED
    BY <1>0, <2>1, <2>3, <2>4, <2>6, <2>7
<1>2. ASSUME NEW q \in Requests, NEW r \in Requests,
             Ticketed(q)', Ticketed(r)', q # r, Named(q)' = Named(r)'
      PROVE  check'[q].ticket # check'[r].ticket
  <2>1. check[q].pc # "new" /\ check[r].pc # "new"
    BY <1>2, TicketsAreKept DEF Ticketed, Counts
  <2>2. Named(q) = Named(r)
    BY <1>2, <2>1, TicketsAreKept
  <2>3. CASE Ticketed(q) /\ Ticketed(r)
    BY <1>2, <2>2, <2>3, TicketsAreKept DEF TimelyInv, TicketsDiffer
  <2>4. CASE Ticketed(q) /\ Counts(r)
    BY <1>1, <2>2, <2>4
  <2>5. CASE Ticketed(r) /\ Counts(q)
    BY <1>1, <2>2, <2>5
  <2>6. ~ (Counts(q) /\ Counts(r))
    <3>1. ASSUME Counts(q), Counts(r)
          PROVE  FALSE
      <4>1. check'[q].pc # check[q].pc /\ check'[r].pc # check[r].pc
        BY <3>1 DEF Counts
      <4>2. check' # check
        BY <4>1
      <4>3. QED
        BY <1>2, <4>1, <4>2, CheckSteps
    <3>2. QED
      BY <3>1
  <2>7. QED
    BY <1>2, <2>3, <2>4, <2>5, <2>6, TicketsAreKept
<1>3. QED
  BY <1>2 DEF TicketsDiffer

\* What holds of tickets in every reachable state, if INCRs are in time.
THEOREM TimelyInvariance == TimelyIncr /\ Spec => [](CountingInv /\ TimelyInv)
<1>1. ASSUME TimelyIncr, Init
      PROVE  TimelyInv
  <2>1. \A r \in Requests : check[r].pc = "new"
    BY <1>1 DEF Init, New
  <2>2. \A k \in Keys, w \in Windows : bucket[k, w].deadline = NoTTL
    BY <1>1 DEF Init, Absent
  <2>3. QED
    BY <1>1, <2>1, <2>2 DEF TimelyInv, IncrsArePunctual, BucketsLast, TicketsAreCounted,
                            TicketsDiffer, Ticketed
<1>2. CountingInv /\ TimelyInv /\ [Next]_vars => TimelyInv'
  <2>1. ASSUME CountingInv, TimelyInv, [Next]_vars
        PROVE  TimelyInv'
    <3>1. TypeOK /\ ExpirersWait /\ WindowsHaveBegun
      BY <2>1 DEF CountingInv
    <3>2. TimelyIncr'
      BY <2>1 DEF TimelyInv, TimelyIncr
    <3>3. IncrsArePunctual'
      BY <2>1, <3>1, PunctualStep DEF TimelyInv
    <3>4. BucketsLast'
      BY <2>1, <3>1, LastStep DEF TimelyInv
    <3>5. TicketsAreCounted'
      BY <2>1, <3>1, CountedStep DEF TimelyInv
    <3>6. TicketsDiffer'
      BY <2>1, <3>1, DifferStep
    <3>7. QED
      BY <3>2, <3>3, <3>4, <3>5, <3>6 DEF TimelyInv
  <2>2. QED
    BY <2>1
<1>3. TimelyIncr /\ Init => TimelyInv
  BY <1>1
<1>4. QED
  BY <1>2, <1>3, CountingInvariance, PTL DEF Spec

\* No key is admitted more than Limit times in a window: the tickets of those
\* admitted are different numbers from 1 to Limit.
THEOREM QuotaIsKept == TimelyIncr /\ Spec => []QuotaHolds
<1>1. ASSUME CountingInv, TimelyInv, NEW k \in Keys, NEW w \in Windows
      PROVE  Cardinality(AdmittedIn(k, w)) <= Limit
  <2> DEFINE A == AdmittedIn(k, w)
             f == [r \in A |-> check[r].ticket]
  <2>1. /\ check \in [Requests -> Check]
        /\ \A r \in A : /\ r \in Requests /\ check[r].pc = "admitted"
                        /\ Named(r) = <<k, w>>
    BY <1>1 DEF CountingInv, TypeOK, AdmittedIn, Of, Named
  <2>2. \A r \in A : check[r].ticket \in 1 .. Limit /\ Ticketed(r)
    <3>1. ASSUME NEW r \in A
          PROVE  check[r].ticket \in 1 .. Limit /\ Ticketed(r)
      <4>1. check[r].ticket \in Nat
        BY <2>1, CheckFields
      <4>2. check[r].ticket > 0 /\ ~ (check[r].ticket > Limit)
        BY <1>1, <2>1 DEF CountingInv, DecisionsFollowTickets, Over
      <4>3. QED
        BY <2>1, <4>1, <4>2 DEF Ticketed
    <3>2. QED
      BY <3>1
  <2>3. \A q, r \in A : check[q].ticket = check[r].ticket => q = r
    BY <1>1, <2>1, <2>2 DEF TimelyInv, TicketsDiffer
  <2> HIDE DEF A
  <2>4. f \in Injection(A, 1 .. Limit)
    <3>1. f \in [A -> 1 .. Limit] /\ \A q, r \in A : f[q] = f[r] => q = r
      BY <2>2, <2>3
    <3> HIDE DEF f
    <3>2. QED
      BY <3>1 DEF Injection, IsInjective
  <2>5. IsFiniteSet(1 .. Limit) /\ Cardinality(1 .. Limit) = Limit
    <3>1. 1 \in Int /\ Limit \in Int /\ (1 > Limit => Limit = 0)
      OBVIOUS
    <3>2. QED
      BY <3>1, FS_Interval
  <2>6. Cardinality(A) <= Limit
    BY <2>4, <2>5, FS_Injection
  <2>7. QED
    BY <2>6 DEF A
<1>2. CountingInv /\ TimelyInv => QuotaHolds
  BY <1>1 DEF QuotaHolds
<1>3. QED
  BY <1>2, TimelyInvariance, PTL

(***************************************************************************)
(* The limiter implements the quota.                                       *)
(***************************************************************************)

\* The requests granted so far, as WindowQuota counts them.
Granted == {[req |-> r, key |-> check[r].key, window |-> check[r].window] :
              r \in {q \in Requests : check[q].pc = "admitted"}}

\* A grant is an admitted request, and each of these is granted once.
LEMMA GrantFacts ==
    /\ \A g \in Granted : /\ g.req \in Requests /\ check[g.req].pc = "admitted"
                          /\ g = [req |-> g.req, key |-> check[g.req].key,
                                  window |-> check[g.req].window]
                          /\ g.key = check[g.req].key /\ g.window = check[g.req].window
    /\ \A r \in Requests : check[r].pc = "admitted" =>
         [req |-> r, key |-> check[r].key, window |-> check[r].window] \in Granted
BY DEF Granted

\* A window has granted no more requests than it has admitted.
LEMMA GrantsAreAdmissions ==
    ASSUME NEW k, NEW w, IsFiniteSet(Requests)
    PROVE  /\ IsFiniteSet({g \in Granted : g.key = k /\ g.window = w})
           /\ Cardinality({g \in Granted : g.key = k /\ g.window = w})
                <= Cardinality(AdmittedIn(k, w))
<1> DEFINE G == {g \in Granted : g.key = k /\ g.window = w}
           A == AdmittedIn(k, w)
           f == [g \in G |-> g.req]
<1>1. \A g \in G : g.req \in A
  BY GrantFacts DEF AdmittedIn, Of
<1>2. \A g, h \in G : g.req = h.req => g = h
  BY GrantFacts
<1>3. IsFiniteSet(A)
  <2>1. A \in SUBSET Requests
    BY DEF AdmittedIn, Of
  <2>2. QED
    BY <2>1, FS_Subset
<1> HIDE DEF G, A
<1>4. f \in Injection(G, A)
  <2>1. f \in [G -> A] /\ \A g, h \in G : f[g] = f[h] => g = h
    BY <1>1, <1>2
  <2> HIDE DEF f
  <2>2. QED
    BY <2>1 DEF Injection, IsInjective
<1>5. IsFiniteSet(G) /\ Cardinality(G) <= Cardinality(A)
  BY <1>3, <1>4, FS_Injection
<1>6. QED
  BY <1>5 DEF G, A

\* A step admits one request that had not been admitted, or none.
LEMMA AdmitStep ==
    ASSUME TypeOK, [Next]_vars
    PROVE  \/ Granted' = Granted
           \/ \E r \in Requests :
                /\ check[r].pc = "counted" \/ check[r].pc = "expire"
                /\ check[r].key \in Keys /\ check[r].window \in Windows
                /\ check'[r].pc = "admitted" /\ SameCall(r)
                /\ \A q \in Requests : q # r => check'[q] = check[q]
<1>1. CASE UNCHANGED check
  BY <1>1 DEF Granted
<1>2. ASSUME NEW r \in Requests, Begins(r) \/ Counts(r) \/ Ends(r),
             \A q \in Requests : q # r => check'[q] = check[q],
             check'[r].pc # "admitted"
      PROVE  Granted' = Granted
  <2>1. check[r].pc # "admitted"
    BY <1>2 DEF Begins, Counts, Ends
  <2>2. {q \in Requests : check'[q].pc = "admitted"} = {q \in Requests : check[q].pc = "admitted"}
    BY <1>2, <2>1
  <2>3. \A q \in Requests : check[q].pc = "admitted" => check'[q] = check[q]
    BY <1>2, <2>1
  <2>4. QED
    BY <2>2, <2>3 DEF Granted
<1>3. ASSUME NEW r \in Requests, Begins(r) \/ Counts(r) \/ Ends(r),
             \A q \in Requests : q # r => check'[q] = check[q],
             check'[r].pc = "admitted"
      PROVE  /\ check[r].pc = "counted" \/ check[r].pc = "expire"
             /\ check[r].key \in Keys /\ check[r].window \in Windows
             /\ SameCall(r)
  <2>1. (check[r].pc = "counted" \/ check[r].pc = "expire") /\ SameCall(r)
    BY <1>3 DEF Begins, Counts, Ends
  <2>2. check[r].key \in Keys /\ check[r].window \in Windows
    BY <2>1, CheckFields DEF TypeOK
  <2>3. QED
    BY <2>1, <2>2
<1>4. QED
  BY <1>1, <1>2, <1>3, CheckSteps

\* Admitting a request that leaves the quota intact is granting it.
LEMMA GrantStep ==
    ASSUME TypeOK, IsFiniteSet(Requests), QuotaHolds', [Next]_vars
    PROVE  [Quota!Next]_Granted
<1>1. CASE Granted' = Granted
  BY <1>1
<1>2. ASSUME NEW r \in Requests,
             check[r].pc = "counted" \/ check[r].pc = "expire",
             NEW k \in Keys, NEW w \in Windows, check[r].key = k, check[r].window = w,
             check'[r].pc = "admitted", SameCall(r),
             \A q \in Requests : q # r => check'[q] = check[q]
      PROVE  Quota!Grant(r, k, w)
  <2> DEFINE A == AdmittedIn(k, w)
             G == {g \in Granted : g.key = k /\ g.window = w}
  <2>1. \A g \in Granted : g.req # r
    BY <1>2, GrantFacts
  <2>2. Cardinality(A) < Limit
    <3>1. A \in SUBSET Requests /\ r \notin A
      BY <1>2 DEF AdmittedIn, Of
    <3>2. AdmittedIn(k, w)' = A \cup {r}
      BY <1>2 DEF AdmittedIn, Of, SameCall
    <3>3. IsFiniteSet(A) /\ Cardinality(A) \in Nat
      BY <3>1, FS_Subset, FS_CardinalityType
    <3> HIDE DEF A
    <3>4. Cardinality(A \cup {r}) = Cardinality(A) + 1
      BY <3>1, <3>3, FS_AddElement
    <3>5. Cardinality(A \cup {r}) <= Limit
      <4>1. Cardinality(AdmittedIn(k, w)') <= Limit
        BY <1>2 DEF QuotaHolds
      <4>2. QED
        BY <3>2, <4>1
    <3>6. QED
      BY <3>3, <3>4, <3>5
  <2>3. Cardinality(G) < Limit
    <3>1. IsFiniteSet(G) /\ Cardinality(G) <= Cardinality(A)
      BY <1>2, GrantsAreAdmissions
    <3>2. IsFiniteSet(A)
      BY FS_Subset DEF AdmittedIn, Of
    <3> HIDE DEF G, A
    <3>3. Cardinality(G) \in Nat /\ Cardinality(A) \in Nat
      BY <3>1, <3>2, FS_CardinalityType
    <3>4. QED
      BY <2>2, <3>1, <3>3
  <2>4. Granted' = Granted \cup {[req |-> r, key |-> k, window |-> w]}
    <3>1. {q \in Requests : check'[q].pc = "admitted"}
            = {q \in Requests : check[q].pc = "admitted"} \cup {r}
      BY <1>2
    <3>2. \A q \in Requests : check[q].pc = "admitted" => check'[q] = check[q]
      BY <1>2
    <3>3. check'[r].key = k /\ check'[r].window = w
      BY <1>2 DEF SameCall
    <3>4. QED
      BY <1>2, <3>1, <3>2, <3>3 DEF Granted
  <2>5. Quota!Cardinality(G) = Cardinality(G)
    BY DEF Quota!Cardinality, Cardinality
  <2>6. QED
    BY <2>1, <2>3, <2>4, <2>5 DEF Quota!Grant, Quota!Granted, Granted
<1>3. CASE Granted' # Granted
  <2>1. PICK r \in Requests :
          /\ check[r].pc = "counted" \/ check[r].pc = "expire"
          /\ check[r].key \in Keys /\ check[r].window \in Windows
          /\ check'[r].pc = "admitted" /\ SameCall(r)
          /\ \A q \in Requests : q # r => check'[q] = check[q]
    BY <1>3, AdmitStep
  <2>2. PICK k \in Keys, w \in Windows : check[r].key = k /\ check[r].window = w
    BY <2>1
  <2>3. Quota!Grant(r, k, w)
    BY <1>2, <2>1, <2>2
  <2>4. QED
    BY <2>3 DEF Quota!Next
<1>4. QED
  BY <1>1, <1>3

\* The limiter implements the quota: it grants one request at a time, never the
\* same twice and never beyond the limit, and takes no grant back.
THEOREM QuotaIsImplemented == TimelyIncr /\ Spec => ImplementsQuota
<1>1. Init => Quota!Init
  BY DEF Init, New, Quota!Init
<1>2. CountingInv /\ QuotaHolds' /\ [Next]_vars => [Quota!Next]_Granted
  BY GrantStep, RequestsAssumption DEF CountingInv
<1>3. QED
  BY <1>1, <1>2, CountingInvariance, QuotaIsKept, PTL DEF Spec, ImplementsQuota, Quota!Spec, Granted

(***************************************************************************)
(* Leaks.                                                                  *)
(***************************************************************************)

\* Somebody is about to give bucket kw its time to live.
Expiring(kw) == \E r \in Requests : check[r].pc = "expire" /\ Named(r) = kw

LEMMA LeakedFacts ==
    ASSUME NEW kw
    PROVE  kw \in Leaked <=> /\ kw \in Keys \X Windows
                             /\ bucket[kw].count > 0 /\ bucket[kw].deadline = NoTTL
                             /\ ~Expiring(kw)
BY DEF Leaked, Expiring

LEMMA LeakedNextFacts ==
    ASSUME NEW kw, kw \in Leaked'
    PROVE  /\ kw \in Keys \X Windows
           /\ bucket'[kw].count > 0 /\ bucket'[kw].deadline = NoTTL
           /\ ~Expiring(kw)'
BY DEF Leaked, Expiring

\* A step of call r that neither was nor gets about to expire its bucket, or a
\* step of none, leaves who is expiring as it is.
LEMMA ExpiringStays ==
    ASSUME check \in [Requests -> Check], NEW kw, NEW r \in Requests,
           \A q \in Requests : q # r => check'[q] = check[q],
           Expiring(kw), check[r].pc = "expire" => Named(r) # kw
    PROVE  Expiring(kw)'
<1>1. PICK q \in Requests : check[q].pc = "expire" /\ Named(q) = kw
  BY DEF Expiring
<1>2. check'[q] = check[q]
  BY <1>1
<1>3. QED
  BY <1>1, <1>2 DEF Expiring, Named

\* A bucket leaks when a call fails that was about to expire it, and in no other
\* step.
LEMMA LeakSteps ==
    ASSUME TypeOK, [Next]_vars
    PROVE  \/ Leaked' \subseteq Leaked /\ faults' \in {faults, faults + 1}
           \/ \E kw : Leaked' \subseteq Leaked \cup {kw} /\ faults' = faults + 1
<1> DEFINE Good == \/ Leaked' \subseteq Leaked /\ faults' \in {faults, faults + 1}
                   \/ \E kw : Leaked' \subseteq Leaked \cup {kw} /\ faults' = faults + 1
<1>0. /\ check \in [Requests -> Check] /\ now \in Nat
      /\ bucket \in [Keys \X Windows -> Bucket]
  BY DEF TypeOK
\* Whoever leaked before is found by what it was before.
<1>1. ASSUME NEW r \in Requests, \A q \in Requests : q # r => check'[q] = check[q],
             UNCHANGED bucket
      PROVE  Leaked' \subseteq Leaked \cup {Named(r)}
             /\ (check[r].pc # "expire" => Leaked' \subseteq Leaked)
  <2>1. ASSUME NEW kw \in Leaked', kw \notin Leaked
        PROVE  check[r].pc = "expire" /\ Named(r) = kw
    <3>1. /\ kw \in Keys \X Windows /\ bucket[kw].count > 0 /\ bucket[kw].deadline = NoTTL
          /\ ~Expiring(kw)'
      BY <1>1, LeakedNextFacts
    <3>2. Expiring(kw)
      BY <2>1, <3>1, LeakedFacts
    <3>3. QED
      BY <1>0, <1>1, <3>1, <3>2, ExpiringStays
  <2>2. QED
    BY <2>1
<1>2. ASSUME NEW r \in Requests, NEW b \in Brokers, NEW k \in Keys, Begin(r, b, k)
      PROVE  Good
  <2>1. check[r].pc = "new" /\ UNCHANGED <<bucket, faults>>
        /\ \A q \in Requests : q # r => check'[q] = check[q]
    BY <1>0, <1>2 DEF Begin, New
  <2>2. QED
    BY <1>1, <2>1
<1>3. ASSUME NEW r \in Requests, Incr(r)
      PROVE  Good
  <2> DEFINE kr == Named(r)
             n == bucket[kr].count + 1
  <2>1. check[r].pc = "incr" /\ kr \in Keys \X Windows /\ kr = <<kr[1], kr[2]>> /\ faults' = faults
    BY <1>0, <1>3, CheckFields DEF Incr, Named
  <2>2. bucket[kr] \in Bucket /\ bucket[kr].count \in Nat /\ n \in Nat
    BY <1>0, <2>1 DEF Bucket
  <2>3. /\ bucket' = [bucket EXCEPT ![kr].count = n]
        /\ check' = [check EXCEPT ![r] = [pc |-> AfterIncr(n), at |-> check[r].at, key |-> check[r].key,
                                          window |-> check[r].window, ticket |-> n]]
    BY <1>3, <2>1 DEF Incr, Counted
  <2>4. /\ \A q \in Requests : q # r => check'[q] = check[q]
        /\ check'[r].pc = AfterIncr(n) /\ Named(r)' = kr
    BY <1>0, <2>3 DEF Named
  <2>5. /\ \A kw \in Keys \X Windows : kw # kr => bucket'[kw] = bucket[kw]
        /\ bucket'[kr].deadline = bucket[kr].deadline
    BY <1>0, <2>1, <2>2, <2>3 DEF Bucket
  <2>6. ASSUME NEW kw \in Leaked', kw \notin Leaked
        PROVE  FALSE
    <3>1. /\ kw \in Keys \X Windows /\ bucket'[kw].count > 0 /\ bucket'[kw].deadline = NoTTL
          /\ ~Expiring(kw)'
      BY LeakedNextFacts
    <3>2. ~Expiring(kw)
      BY <1>0, <2>1, <2>4, <3>1, ExpiringStays
    <3>3. bucket[kw].deadline = NoTTL
      BY <2>5, <3>1
    <3>4. bucket[kw].count = 0
      <4>1. bucket[kw].count \in Nat
        BY <1>0, <3>1 DEF Bucket
      <4>2. QED
        BY <2>6, <3>1, <3>2, <3>3, <4>1, LeakedFacts
    <3>5. kw = kr
      BY <2>5, <3>1, <3>4
    <3>6. Expiring(kw)'
      BY <2>4, <3>4, <3>5 DEF Expiring, AfterIncr
    <3>7. QED
      BY <3>1, <3>6
  <2>7. QED
    BY <2>1, <2>6
<1>4. ASSUME NEW r \in Requests, Expire(r)
      PROVE  Good
  <2> DEFINE kr == Named(r)
  <2>1. /\ check[r].pc = "expire" /\ kr \in Keys \X Windows /\ faults' = faults
        /\ bucket' = [bucket EXCEPT ![kr].deadline = now + TTL]
        /\ \A q \in Requests : q # r => check'[q] = check[q]
    BY <1>0, <1>4, CheckFields DEF Expire
  <2>2. bucket'[kr].deadline # NoTTL
    <3>1. bucket[kr] \in Bucket /\ now + TTL \in Int
      BY <1>0, <2>1
    <3>2. bucket'[kr].deadline = now + TTL
      BY <1>0, <2>1, <3>1 DEF Bucket
    <3>3. QED
      BY <3>1, <3>2
  <2>3. \A kw \in Keys \X Windows : kw # kr => bucket'[kw] = bucket[kw]
    BY <1>0, <2>1
  <2>4. ASSUME NEW kw \in Leaked', kw \notin Leaked
        PROVE  FALSE
    <3>1. /\ kw \in Keys \X Windows /\ bucket'[kw].count > 0 /\ bucket'[kw].deadline = NoTTL
          /\ ~Expiring(kw)'
      BY LeakedNextFacts
    <3>2. kw # kr /\ bucket'[kw] = bucket[kw]
      BY <2>2, <2>3, <3>1
    <3>3. Expiring(kw)
      BY <2>4, <3>1, <3>2, LeakedFacts
    <3>4. QED
      BY <1>0, <2>1, <3>1, <3>2, <3>3, ExpiringStays
  <2>5. QED
    BY <2>1, <2>4
<1>5. ASSUME NEW r \in Requests, Admit(r) \/ Refuse(r)
      PROVE  Good
  <2>1. check[r].pc = "counted" /\ UNCHANGED <<bucket, faults>>
        /\ \A q \in Requests : q # r => check'[q] = check[q]
    BY <1>0, <1>5 DEF Admit, Refuse
  <2>2. QED
    BY <1>1, <2>1
<1>6. ASSUME NEW r \in Requests, Fail(r)
      PROVE  Good
  <2>1. UNCHANGED bucket /\ faults' = faults + 1 /\ \A q \in Requests : q # r => check'[q] = check[q]
    BY <1>0, <1>6 DEF Fail
  <2>2. QED
    BY <1>1, <2>1
<1>7. CASE Tick
  <2>1. /\ UNCHANGED <<check, faults>>
        /\ \A kw \in Keys \X Windows : bucket'[kw] \in {bucket[kw], Absent}
    BY <1>7 DEF Tick
  <2>2. ASSUME NEW kw \in Leaked'
        PROVE  kw \in Leaked
    <3>1. /\ kw \in Keys \X Windows /\ bucket'[kw].count > 0 /\ bucket'[kw].deadline = NoTTL
          /\ ~Expiring(kw)'
      BY LeakedNextFacts
    <3>2. bucket'[kw] = bucket[kw]
      BY <2>1, <3>1 DEF Absent
    <3>3. ~Expiring(kw)
      BY <2>1, <3>1 DEF Expiring, Named
    <3>4. QED
      BY <3>1, <3>2, <3>3, LeakedFacts
  <2>3. QED
    BY <2>1, <2>2
<1>8. CASE UNCHANGED vars
  BY <1>8 DEF vars, Leaked, Named
<1>9. QED
  BY <1>2, <1>3, <1>4, <1>5, <1>6, <1>7, <1>8 DEF Next

\* A bucket that is never cleaned up is the work of a fault between INCR and
\* EXPIRE, and no fault leaks two (ratelimit.py:43).
THEOREM LeaksAreOnlyFaults == Spec => []LeaksAreFaults
<1> DEFINE LeakInv == IsFiniteSet(Leaked) /\ LeaksAreFaults
<1>1. Init => LeakInv
  <2>1. Init => Leaked = {} /\ faults = 0
    BY DEF Init, Leaked, Absent
  <2>2. QED
    BY <2>1, FS_EmptySet DEF LeaksAreFaults
<1>2. CountingInv /\ LeakInv /\ [Next]_vars => LeakInv'
  <2> SUFFICES ASSUME CountingInv, LeakInv, [Next]_vars
               PROVE  LeakInv'
    OBVIOUS
  <2>1. faults \in Nat /\ Cardinality(Leaked) \in Nat /\ Cardinality(Leaked) <= faults
    BY FS_CardinalityType DEF CountingInv, TypeOK, LeaksAreFaults
  <2>2. CASE Leaked' \subseteq Leaked /\ faults' \in {faults, faults + 1}
    <3>1. IsFiniteSet(Leaked') /\ Cardinality(Leaked') <= Cardinality(Leaked)
      BY <2>2, FS_Subset
    <3>2. Cardinality(Leaked') \in Nat
      BY <3>1, FS_CardinalityType
    <3>3. QED
      BY <2>1, <2>2, <3>1, <3>2 DEF LeaksAreFaults
  <2>3. ASSUME NEW kw, Leaked' \subseteq Leaked \cup {kw}, faults' = faults + 1
        PROVE  LeakInv'
    <3>1. IsFiniteSet(Leaked \cup {kw}) /\ Cardinality(Leaked \cup {kw}) <= Cardinality(Leaked) + 1
      <4>1. /\ IsFiniteSet(Leaked \cup {kw})
            /\ Cardinality(Leaked \cup {kw}) = IF kw \in Leaked THEN Cardinality(Leaked)
                                                               ELSE Cardinality(Leaked) + 1
        BY FS_AddElement
      <4>2. QED
        BY <2>1, <4>1
    <3>2. IsFiniteSet(Leaked') /\ Cardinality(Leaked') <= Cardinality(Leaked \cup {kw})
      BY <2>3, <3>1, FS_Subset
    <3>3. Cardinality(Leaked') \in Nat /\ Cardinality(Leaked \cup {kw}) \in Nat
      BY <3>1, <3>2, FS_CardinalityType
    <3>4. Cardinality(Leaked') <= faults'
      BY <2>1, <2>3, <3>1, <3>2, <3>3
    <3>5. QED
      BY <3>2, <3>4 DEF LeaksAreFaults
  <2>4. QED
    BY <2>2, <2>3, LeakSteps DEF CountingInv
<1>3. LeakInv => LeaksAreFaults
  OBVIOUS
<1> HIDE DEF LeakInv
<1>4. QED
  BY <1>1, <1>2, <1>3, CountingInvariance, PTL DEF Spec

=============================================================================
