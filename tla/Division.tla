----------------------------- MODULE Division ------------------------------
(***************************************************************************)
(* Facts about division with remainder, for the windows of the limiters.   *)
(***************************************************************************)
EXTENDS Integers, TLAPS

\* Division with remainder.
LEMMA DivFacts ==
    ASSUME NEW n \in Nat \ {0}, NEW a \in Nat
    PROVE  /\ a \div n \in Nat
           /\ n * (a \div n) <= a
           /\ a < n * (a \div n) + n
           /\ a % n = a - n * (a \div n)
OBVIOUS

\* The quotient is the only number with these bounds.
LEMMA DivUnique ==
    ASSUME NEW n \in Nat \ {0}, NEW a \in Nat, NEW q \in Nat, n * q <= a, a < n * q + n
    PROVE  a \div n = q
OBVIOUS

\* Different multiples of n are at least n apart.
LEMMA TimesMono ==
    ASSUME NEW n \in Nat \ {0}, NEW p \in Nat, NEW q \in Nat, p < q
    PROVE  n * p + n <= n * q
OBVIOUS

\* Division is monotonic.
LEMMA DivMono ==
    ASSUME NEW n \in Nat \ {0}, NEW a \in Nat, NEW b \in Nat, a <= b
    PROVE  a \div n <= b \div n
<1> DEFINE p == a \div n
           q == b \div n
<1>1. /\ p \in Nat /\ q \in Nat /\ n * p <= a /\ b < n * q + n
  BY DivFacts
<1>2. n * p \in Nat /\ n * q \in Nat
  BY <1>1
<1> HIDE DEF p, q
<1>3. ASSUME q < p
      PROVE  FALSE
  <2>1. n * q + n <= n * p
    BY <1>1, <1>3, TimesMono
  <2>2. QED
    BY <1>1, <1>2, <2>1
<1>4. p <= q
  BY <1>1, <1>3
<1>5. QED
  BY <1>4 DEF p, q

\* From a to the end of its window is at least one tick and leads into the next.
LEMMA NextMultiple ==
    ASSUME NEW n \in Nat \ {0}, NEW a \in Nat
    PROVE  /\ n - (a % n) \in Nat
           /\ (a + (n - (a % n))) \div n = (a \div n) + 1
<1> DEFINE q == a \div n
<1>1. /\ q \in Nat /\ n * q <= a /\ a < n * q + n /\ a % n = a - n * q
  BY DivFacts
<1> HIDE DEF q
<1>2. n * q \in Nat /\ n * (q + 1) = n * q + n
  BY <1>1
<1>3. a + (n - (a % n)) = n * q + n /\ n - (a % n) \in Nat
  BY <1>1, <1>2
<1>4. (n * q + n) \div n = q + 1
  BY <1>1, <1>2, DivUnique
<1>5. QED
  BY <1>3, <1>4 DEF q

=============================================================================
