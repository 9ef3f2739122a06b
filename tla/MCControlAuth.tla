--------------------------- MODULE MCControlAuth ---------------------------
(* A small instance of ControlAuth for TLC. *)
EXTENDS ControlAuth, TLC

CONSTANTS k1, k2, s1, s2, r1, r2

T(kid, by, sub, nbf, aud) ==
    [kid |-> kid, by |-> by, sub |-> sub, nbf |-> nbf, exp |-> 2, aud |-> aud, iss |-> TRUE]

\* Good tokens of either key, which may expire under way, one of them from a clock
\* that is ahead; one for somebody else, and one signed with the secret, which is
\* good in hs256 mode only.
MCTokens == {T(k1, k1, s1, 0, TRUE), T(k2, k2, s1, 1, TRUE),
             T(k1, k1, s1, 0, FALSE), T(k1, Secret, s1, 0, TRUE)}

MCConfigs == {[mode |-> "dev", audience |-> FALSE, issuer |-> FALSE],
              [mode |-> "hs256", audience |-> FALSE, issuer |-> FALSE],
              [mode |-> "oidc", audience |-> TRUE, issuer |-> TRUE]}

Symmetry == Permutations({r1, r2})

=============================================================================
