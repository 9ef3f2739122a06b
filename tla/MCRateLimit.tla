---------------------------- MODULE MCRateLimit ----------------------------
(* Small instances of RateLimit for TLC.  WindowTime : TTL is 60 : 90. *)
EXTENDS RateLimit, TLC

CONSTANTS k1, k2, b1, b2, r1, r2, r3, r4

Symmetry == Permutations(Requests)

\* Two brokers on one clock, and b2 one tick ahead of b1.
SameClock == [b \in {b1, b2} |-> 0]
SecondAhead == [b \in {b1, b2} |-> IF b = b2 THEN 1 ELSE 0]

=============================================================================
