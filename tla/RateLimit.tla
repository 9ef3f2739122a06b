----------------------------- MODULE RateLimit -----------------------------
(***************************************************************************)
(* The fixed-window limiter with its redis backend (ratelimit.py): one     *)
(* counter per key and window, shared by every broker process.             *)
(*                                                                         *)
(* check() reads the clock, then INCRs the window's bucket, then, if it    *)
(* was the first, sets the bucket's time to live, then decides.  Each step *)
(* is a round trip: other requests, other processes, failures and time     *)
(* come in between.                                                        *)
(***************************************************************************)
EXTENDS Integers, FiniteSets

CONSTANTS
    Keys,
    Brokers,
    Requests,    \* calls of check(), each made once
    Limit,       \* settings.rate_limit_per_min
    WindowTime,  \* the length of a window: 60 s in the code
    TTL,         \* the time to live of a bucket: 90 s in the code
    Ahead,       \* Ahead[b]: how far the clock of b is ahead of the slowest one
    MaxAhead,    \* the largest of these
    MaxDelay,    \* environment: the longest time from check() reading the clock
                 \* to redis executing its INCR
    NoTTL,       \* a bucket that does not expire
    MaxTime,     \* bound: the last instant
    MaxFaults    \* bound: lost replies, redis errors and crashes

ASSUME WindowAssumption == WindowTime \in Nat \ {0} /\ TTL \in Nat \ {0}
ASSUME LimitAssumption == Limit \in Nat
ASSUME ClockAssumption == MaxAhead \in Nat /\ Ahead \in [Brokers -> 0 .. MaxAhead]
ASSUME NoTTLAssumption == NoTTL \notin Int
ASSUME RequestsAssumption == IsFiniteSet(Requests)
ASSUME BoundsAssumption == MaxDelay \in Nat /\ MaxTime \in Nat /\ MaxFaults \in Nat

\* An INCR never reaches redis after the bucket its window began with is gone.
\* In the code: an INCR is less than 90 - 60 = 30 s under way, clock differences
\* included.  Nothing in the code enforces it.
TimelyIncr == WindowTime + MaxAhead + MaxDelay <= TTL

VARIABLES
    now,      \* true time
    bucket,   \* bucket[k, w]: redis key rl:k:w; a count of 0 means no such key
    check,    \* check[r]: where call r of check() stands
    faults

vars == <<now, bucket, check, faults>>

\* MUTANT of Window: the second, not the minute.
WindowOfOne(b, t) == t + Ahead[b]

\* int(time.time()) // 60 on the clock of b
Window(b, t) == (t + Ahead[b]) \div WindowTime

Windows == 0 .. ((MaxTime + MaxAhead) \div WindowTime)

Bucket == [count: Nat, deadline: Int \cup {NoTTL}]
Absent == [count |-> 0, deadline |-> NoTTL]

New == [pc |-> "new"]

Check ==
    {New}
    \cup [pc: {"incr"}, at: Brokers, key: Keys, window: Windows, start: Nat]
    \cup [pc: {"expire", "counted", "admitted", "failed"}, at: Brokers, key: Keys,
          window: Windows, ticket: Nat]
    \cup [pc: {"refused"}, at: Brokers, key: Keys, window: Windows, ticket: Nat,
          retry: Nat]

\* Every variable has its type; a bucket that redis still holds is not overdue.
TypeOK ==
    /\ now \in 0 .. MaxTime
    /\ bucket \in [Keys \X Windows -> Bucket]
    /\ check \in [Requests -> Check]
    /\ faults \in Nat
    /\ \A kw \in Keys \X Windows :
         bucket[kw].deadline # NoTTL => bucket[kw].count > 0 /\ bucket[kw].deadline > now

Init ==
    /\ now = 0
    /\ bucket = [kw \in Keys \X Windows |-> Absent]
    /\ check = [r \in Requests |-> New]
    /\ faults = 0

----------------------------------------------------------------------------
(* check(key_id, limit_per_min) *)

\* window = int(time.time()) // 60
Begin(r, b, k) ==
    /\ check[r] = New
    /\ check' = [check EXCEPT ![r] = [pc |-> "incr", at |-> b, key |-> k,
                                      window |-> Window(b, now), start |-> now]]
    /\ UNCHANGED <<now, bucket, faults>>

\* MUTANT of Counted: GET, then SET, as if two brokers never met.
CountedTwice(k, w) == IF bucket[k, w].count = 0 THEN 1 ELSE bucket[k, w].count

\* The reply of INCR: a missing key counts from 0.
Counted(k, w) == bucket[k, w].count + 1

\* f"rl:{key_id}:{window}"
Named(r) == <<check[r].key, check[r].window>>

\* MUTANT of AfterIncr: EXPIRE is left for the second request.
AfterIncrSecond(count) == IF count = 2 THEN "expire" ELSE "counted"

AfterIncr(count) == IF count = 1 THEN "expire" ELSE "counted"

\* Redis executes the INCR.
Incr(r) ==
    /\ check[r].pc = "incr"
    /\ LET kw == Named(r)
           count == Counted(kw[1], kw[2])
       IN  /\ bucket' = [bucket EXCEPT ![kw].count = count]
           /\ check' = [check EXCEPT ![r] =
                          [pc |-> AfterIncr(count), at |-> check[r].at,
                           key |-> check[r].key, window |-> check[r].window,
                           ticket |-> count]]
    /\ UNCHANGED <<now, faults>>

\* EXPIRE bucket 90
Expire(r) ==
    /\ check[r].pc = "expire"
    /\ bucket' = [bucket EXCEPT ![Named(r)].deadline = now + TTL]
    /\ check' = [check EXCEPT ![r].pc = "counted"]
    /\ UNCHANGED <<now, faults>>

\* MUTANTS of Over: one request too many, one too few.
OverLate(count) == count > Limit + 1
OverEarly(count) == count >= Limit

Over(count) == count > Limit

Admit(r) ==
    /\ check[r].pc = "counted"
    /\ ~Over(check[r].ticket)
    /\ check' = [check EXCEPT ![r].pc = "admitted"]
    /\ UNCHANGED <<now, bucket, faults>>

\* MUTANT of RetryAfter: the seconds into the window, not the seconds left of it.
RetryAfterElapsed(b) == (now + Ahead[b]) % WindowTime

\* Retry-After: 60 - int(time.time()) % 60
RetryAfter(b) == WindowTime - ((now + Ahead[b]) % WindowTime)

\* 429; the clock is read again for the header.
Refuse(r) ==
    /\ check[r].pc = "counted"
    /\ Over(check[r].ticket)
    /\ check' = [check EXCEPT ![r] =
                   [pc |-> "refused", at |-> check[r].at, key |-> check[r].key,
                    window |-> check[r].window, ticket |-> check[r].ticket,
                    retry |-> now + RetryAfter(check[r].at)]]
    /\ UNCHANGED <<now, bucket, faults>>

\* Redis is unreachable or the broker dies: before the INCR, after it with the
\* reply lost, or before the EXPIRE.  The call ends in an error; redis keeps
\* what it executed.
Fail(r) ==
    /\ faults < MaxFaults
    /\ check[r].pc \in {"incr", "expire", "counted"}
    /\ check' = [check EXCEPT ![r] =
                   [pc |-> "failed", at |-> check[r].at, key |-> check[r].key,
                    window |-> check[r].window,
                    ticket |-> IF check[r].pc = "incr" THEN 0 ELSE check[r].ticket]]
    /\ faults' = faults + 1
    /\ UNCHANGED <<now, bucket>>

\* Time passes, but no INCR is under way for longer than MaxDelay; redis drops
\* the buckets whose time is up.
Tick ==
    /\ now < MaxTime
    /\ \A r \in Requests : check[r].pc = "incr" => now < check[r].start + MaxDelay
    /\ now' = now + 1
    /\ bucket' = [kw \in Keys \X Windows |->
                    IF bucket[kw].deadline # NoTTL /\ bucket[kw].deadline <= now + 1
                      THEN Absent ELSE bucket[kw]]
    /\ UNCHANGED <<check, faults>>

Next ==
    \/ \E r \in Requests, b \in Brokers, k \in Keys : Begin(r, b, k)
    \/ \E r \in Requests : Incr(r) \/ Expire(r) \/ Admit(r) \/ Refuse(r) \/ Fail(r)
    \/ Tick

Spec == Init /\ [][Next]_vars

----------------------------------------------------------------------------
(* The inductive invariant behind the properties *)

\* Redis has executed the INCR of r.
Ticketed(r) == check[r].pc \in {"expire", "counted", "admitted", "refused", "failed"}
               /\ check[r].ticket > 0

\* Who is about to set a time to live is alone with a bucket that has none.
ExpirersWait ==
    \A r \in Requests : check[r].pc = "expire" =>
        /\ bucket[Named(r)].count > 0
        /\ bucket[Named(r)].deadline = NoTTL
        /\ \A q \in Requests \ {r} : check[q].pc = "expire" => Named(q) # Named(r)

\* A request is counted in a window that has begun on its broker's clock.
WindowsHaveBegun ==
    \A r \in Requests : check[r].pc # "new" =>
        check[r].window <= Window(check[r].at, now)

\* Tickets are numbers from 1 on, handed out without a gap; what was decided
\* agrees with them.
TicketsAreDense ==
    /\ \A k \in Keys, w \in Windows : \A i \in 1 .. bucket[k, w].count :
         \E q \in Requests : Ticketed(q) /\ Named(q) = <<k, w>> /\ check[q].ticket = i
    /\ \A r \in Requests : Ticketed(r) => \A i \in 1 .. check[r].ticket :
         \E q \in Requests : Ticketed(q) /\ Named(q) = Named(r) /\ check[q].ticket = i

DecisionsFollowTickets ==
    \A r \in Requests :
        /\ check[r].pc \in {"expire", "counted", "admitted", "refused"} => check[r].ticket > 0
        /\ check[r].pc = "admitted" => ~Over(check[r].ticket)
        /\ check[r].pc = "refused" => Over(check[r].ticket)

\* An INCR under way was named after its start, at most MaxDelay ago.
IncrsArePunctual ==
    \A r \in Requests : check[r].pc = "incr" =>
        /\ check[r].window = Window(check[r].at, check[r].start)
        /\ check[r].start <= now
        /\ now <= check[r].start + MaxDelay

\* The earliest a bucket of window w can expire.
Earliest(w) == w * WindowTime - MaxAhead + TTL

BucketsLast ==
    \A k \in Keys, w \in Windows :
        bucket[k, w].deadline # NoTTL => bucket[k, w].deadline >= Earliest(w)

\* Until then, the bucket has counted every ticket, so the next one is new.
TicketsAreCounted ==
    \A r \in Requests : Ticketed(r) =>
        \/ check[r].ticket <= bucket[Named(r)].count
        \/ now >= Earliest(check[r].window)

TicketsDiffer ==
    \A q, r \in Requests :
        (Ticketed(q) /\ Ticketed(r) /\ q # r /\ Named(q) = Named(r)) =>
            check[q].ticket # check[r].ticket

----------------------------------------------------------------------------
(* Properties *)

Of(k, w) == {r \in Requests : check[r].pc # "new" /\ check[r].key = k /\ check[r].window = w}

AdmittedIn(k, w) == {r \in Of(k, w) : check[r].pc = "admitted"}

\* No key is admitted more than Limit times in a window, however many brokers
\* serve it, whatever fails and however their requests interleave.  This needs
\* TimelyIncr.
QuotaHolds == \A k \in Keys, w \in Windows : Cardinality(AdmittedIn(k, w)) <= Limit

\* A 429 is earned: more than Limit requests of that key were counted in that
\* window, even when their callers got an error instead of an answer.
RefusalsAreEarned ==
    \A r \in Requests : check[r].pc = "refused" =>
        Cardinality({q \in Of(check[r].key, check[r].window) : Ticketed(q)}) > Limit

\* A client that waits for Retry-After comes back in a later window of the
\* broker that refused it, even if the window turned while it was being refused.
RetryAfterLeavesTheWindow ==
    \A r \in Requests : check[r].pc = "refused" =>
        Window(check[r].at, check[r].retry) > check[r].window

\* The buckets redis would keep for ever: no time to live, nobody about to set it.
Leaked == {kw \in Keys \X Windows :
             /\ bucket[kw].count > 0
             /\ bucket[kw].deadline = NoTTL
             /\ \A r \in Requests : check[r].pc = "expire" => Named(r) # kw}

\* A bucket leaks only through a fault between INCR and EXPIRE, one per fault.
LeaksAreFaults == Cardinality(Leaked) <= faults

\* ratelimit.py:43, "so the key always cleans itself up": every bucket has a
\* time to live, or the call that will set it is still running.
BucketsCleanUp == Leaked = {}

\* The requests admitted so far, as WindowQuota counts them.
Quota == INSTANCE WindowQuota WITH
           granted <- {[req |-> r, key |-> check[r].key, window |-> check[r].window] :
                         r \in {q \in Requests : check[q].pc = "admitted"}}

\* The limiter implements the quota: it grants one request at a time, never the
\* same one twice, never beyond the limit and never takes a grant back.
ImplementsQuota == Quota!Spec

\* What holds however late an INCR is ...
CountingInv ==
    /\ TypeOK
    /\ ExpirersWait
    /\ WindowsHaveBegun
    /\ TicketsAreDense
    /\ DecisionsFollowTickets
    /\ RetryAfterLeavesTheWindow

\* ... and what holds if it is in time.
TimelyInv ==
    /\ TimelyIncr
    /\ IncrsArePunctual
    /\ BucketsLast
    /\ TicketsAreCounted
    /\ TicketsDiffer

=============================================================================
