----------------------------- MODULE MCApiKeys -----------------------------
(* Small instances of ApiKeys for TLC. *)
EXTENDS ApiKeys, TLC

CONSTANTS k1, k2, u1, u2, b1, b2, c1, c2, r1, r2

\* Interchangeable keys, users, slots and requests, for the safety runs.
Symmetry == Permutations({k1, k2}) \cup Permutations({u1, u2})
            \cup Permutations({c1, c2}) \cup Permutations({r1, r2})

=============================================================================
