---------------------------- MODULE WindowQuota ----------------------------
(***************************************************************************)
(* What a fixed-window limiter promises: in each window a key is granted   *)
(* at most Limit requests.  How requests are counted is not said here;     *)
(* RateLimit.tla is shown to implement this.                               *)
(***************************************************************************)
EXTENDS Integers, FiniteSets

CONSTANTS Keys, Windows, Requests, Limit

VARIABLE granted    \* the requests granted so far, each with its key and window

Granted(k, w) == {g \in granted : g.key = k /\ g.window = w}

Init == granted = {}

\* One request is granted, once, while its window has room.
Grant(r, k, w) ==
    /\ \A g \in granted : g.req # r
    /\ Cardinality(Granted(k, w)) < Limit
    /\ granted' = granted \cup {[req |-> r, key |-> k, window |-> w]}

Next == \E r \in Requests, k \in Keys, w \in Windows : Grant(r, k, w)

Spec == Init /\ [][Next]_granted

=============================================================================
