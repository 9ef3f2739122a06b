-------------------------- MODULE ChatRelayProofs --------------------------
(***************************************************************************)
(* Proofs about the relay of a stream and its usage row.                   *)
(*                                                                         *)
(* The sniffer is a fold over a wire that httpx may cut anywhere; that it  *)
(* reads the same usage from every cut is an induction over the lines of   *)
(* the stream.  The library's induction theorems take an operator as a     *)
(* parameter, so the induction is done over sets of numbers (AllNumbers).  *)
(***************************************************************************)
EXTENDS ChatRelay, Division, SequenceTheorems, FiniteSetTheorems, WellFoundedInduction

----------------------------------------------------------------------------
(* Induction, and the folds the sniffer and the wire are defined by *)


\* A non-empty set of numbers has a least element.
LEMMA LeastNumber ==
    ASSUME NEW T, T \subseteq Nat, T # {}
    PROVE  \E x \in T : \A y \in T : x <= y
<1> DEFINE Less == {p \in Nat \X Nat : p[1] < p[2]}
<1>1. IsWellFoundedOn(Less, Nat)
  BY NatLessThanWellFounded DEF OpToRel
<1>2. \A x, y \in Nat : y < x => <<y, x>> \in Less
  OBVIOUS
<1> HIDE DEF Less
<1>3. \E x \in T : \A y \in T : ~(<<y, x>> \in Less)
  BY <1>1, WFMin
<1>4. PICK x \in T : \A y \in T : ~(<<y, x>> \in Less)
  BY <1>3
<1>5. ASSUME NEW y \in T
      PROVE  x <= y
  <2>1. x \in Nat /\ y \in Nat
    OBVIOUS
  <2>2. ~(y < x)
    BY <1>2, <1>4, <2>1, Zenon
  <2>3. QED
    BY <2>1, <2>2
<1>6. QED
  BY <1>5

\* Induction, as a fact about sets: a set of numbers that has 0 and with each
\* number the next has them all.
LEMMA AllNumbers ==
    ASSUME NEW T, 0 \in T, \A n \in Nat : n \in T => n + 1 \in T
    PROVE  Nat \subseteq T
<1> SUFFICES ASSUME Nat \ T # {}
             PROVE  FALSE
  OBVIOUS
<1>1. PICK n \in Nat \ T : \A y \in Nat \ T : n <= y
  BY LeastNumber
<1>2. n # 0 /\ n - 1 \in Nat
  BY <1>1
<1>3. n - 1 \in T
  BY <1>1, <1>2
<1>4. QED
  BY <1>2, <1>3

\* The greatest element, when it is known.
LEMMA MaxIs ==
    ASSUME NEW S, S \subseteq Nat, NEW x \in S, \A y \in S : y <= x
    PROVE  Max(S) = x
<1>1. \A z \in S : (\A y \in S : z >= y) => z = x
  <2> TAKE z \in S
  <2> HAVE \A y \in S : z >= y
  <2>1. z >= x /\ z <= x /\ z \in Nat /\ x \in Nat
    OBVIOUS
  <2>2. QED
    BY <2>1
<1>2. \A y \in S : x >= y
  <2> TAKE y \in S
  <2>1. y <= x /\ x \in Nat /\ y \in Nat
    OBVIOUS
  <2>2. QED
    BY <2>1
<1>3. QED
  BY <1>1, <1>2 DEF Max

\* A fold over the first n elements is one of the functions of which it is the
\* definition.
IsFold(f, n, base, seq) ==
    f = [s \in SUBSET (1 .. n) |->
           IF s = {} THEN base ELSE Sniff(f[s \ {Max(s)}], seq[Max(s)])]

LEMMA FoldExists ==
    ASSUME NEW n \in Nat, NEW base, NEW seq
    PROVE  \E f : IsFold(f, n, base, seq)
<1> DEFINE T == {m \in Nat : \E f : IsFold(f, m, base, seq)}
<1>1. 0 \in T
  <2> DEFINE f == [s \in SUBSET (1 .. 0) |-> base]
  <2>1. \A s \in SUBSET (1 .. 0) : s = {}
    OBVIOUS
  <2>2. IsFold(f, 0, base, seq)
    BY <2>1 DEF IsFold
  <2>3. QED
    BY <2>2
<1>2. ASSUME NEW m \in Nat, m \in T
      PROVE  m + 1 \in T
  <2>1. PICK g : IsFold(g, m, base, seq)
    BY <1>2
  <2> DEFINE f == [s \in SUBSET (1 .. m + 1) |->
                     IF m + 1 \in s THEN Sniff(g[s \ {m + 1}], seq[m + 1]) ELSE g[s]]
  <2>2. \A s \in SUBSET (1 .. m) : f[s] = g[s]
    OBVIOUS
  <2>3. ASSUME NEW s \in SUBSET (1 .. m + 1)
        PROVE  f[s] = IF s = {} THEN base ELSE Sniff(f[s \ {Max(s)}], seq[Max(s)])
    <3>1. CASE m + 1 \in s
      <4>1. Max(s) = m + 1
        <5>1. s \subseteq Nat /\ \A y \in s : y <= m + 1
          OBVIOUS
        <5>2. QED
          BY <3>1, <5>1, MaxIs
      <4>2. s \ {m + 1} \in SUBSET (1 .. m)
        OBVIOUS
      <4>3. QED
        BY <2>2, <3>1, <4>1, <4>2
    <3>2. CASE m + 1 \notin s
      <4>1. s \in SUBSET (1 .. m)
        BY <3>2
      <4>2. s \ {Max(s)} \in SUBSET (1 .. m)
        BY <4>1
      <4>3. g[s] = IF s = {} THEN base ELSE Sniff(g[s \ {Max(s)}], seq[Max(s)])
        BY <2>1, <4>1 DEF IsFold
      <4>4. QED
        BY <2>2, <4>1, <4>2, <4>3
    <3>3. QED
      BY <3>1, <3>2
  <2> HIDE DEF f
  <2>4. f = [s \in SUBSET (1 .. m + 1) |->
               IF s = {} THEN base ELSE Sniff(f[s \ {Max(s)}], seq[Max(s)])]
    BY <2>3 DEF f
  <2>5. IsFold(f, m + 1, base, seq)
    BY <2>4 DEF IsFold
  <2>6. QED
    BY <2>5
<1>3. Nat \subseteq T
  <2> HIDE DEF T
  <2>1. QED
    BY <1>1, <1>2, AllNumbers
<1>4. QED
  BY <1>3

LEMMA FoldIs ==
    ASSUME NEW base, NEW seq, DOMAIN seq = 1 .. Len(seq), Len(seq) \in Nat
    PROVE  \E f : IsFold(f, Len(seq), base, seq) /\ FoldLeft(Sniff, base, seq) = f[1 .. Len(seq)]
<1> DEFINE f == CHOOSE g : IsFold(g, Len(seq), base, seq)
<1>1. IsFold(f, Len(seq), base, seq)
  BY FoldExists
<1>2. FoldLeft(Sniff, base, seq) = f[1 .. Len(seq)]
  BY DEF FoldLeft, MapThenFoldSet, IsFold
<1>3. QED
  BY <1>1, <1>2

\* What FlattenSeq does with the first n sequences is defined by recursion too.
IsFlat(f, n, seqs) ==
    f = [i \in 1 .. n |-> IF i = 1 THEN seqs[i] ELSE f[i - 1] \o seqs[i]]

LEMMA FlatExists ==
    ASSUME NEW n \in Nat, NEW seqs
    PROVE  \E f : IsFlat(f, n, seqs)
<1> DEFINE T == {m \in Nat : \E f : IsFlat(f, m, seqs)}
<1>1. 0 \in T
  <2> DEFINE f == [i \in 1 .. 0 |-> <<>>]
  <2>1. IsFlat(f, 0, seqs)
    BY DEF IsFlat
  <2>2. QED
    BY <2>1
<1>2. ASSUME NEW m \in Nat, m \in T
      PROVE  m + 1 \in T
  <2>1. PICK g : IsFlat(g, m, seqs)
    BY <1>2
  <2> DEFINE f == [i \in 1 .. m + 1 |->
                     IF i <= m THEN g[i] ELSE IF i = 1 THEN seqs[i] ELSE g[i - 1] \o seqs[i]]
  <2>2. ASSUME NEW i \in 1 .. m + 1
        PROVE  f[i] = IF i = 1 THEN seqs[i] ELSE f[i - 1] \o seqs[i]
    <3>1. i # 1 => i - 1 \in 1 .. m /\ f[i - 1] = g[i - 1]
      OBVIOUS
    <3>2. CASE i <= m
      <4>1. g[i] = IF i = 1 THEN seqs[i] ELSE g[i - 1] \o seqs[i]
        <5>1. i \in 1 .. m
          BY <3>2
        <5>2. QED
          BY <2>1, <5>1 DEF IsFlat
      <4>2. QED
        BY <3>1, <3>2, <4>1
    <3>3. CASE ~(i <= m)
      BY <3>1, <3>3
    <3>4. QED
      BY <3>2, <3>3
  <2> HIDE DEF f
  <2>3. f = [i \in 1 .. m + 1 |-> IF i = 1 THEN seqs[i] ELSE f[i - 1] \o seqs[i]]
    BY <2>2 DEF f
  <2>4. IsFlat(f, m + 1, seqs)
    BY <2>3 DEF IsFlat
  <2>5. QED
    BY <2>4
<1>3. Nat \subseteq T
  <2> HIDE DEF T
  <2>1. QED
    BY <1>1, <1>2, AllNumbers
<1>4. QED
  BY <1>3

----------------------------------------------------------------------------
(* The wire *)

Half(h, line) == [half |-> h, of |-> line]

\* The symbols w are the first n lines of body.
Carries(w, body, n) ==
    /\ w \in Seq(Symbol)
    /\ Len(w) = 3 * n
    /\ \A i \in 1 .. n : /\ w[3 * i - 2] = Half(1, body[i])
                         /\ w[3 * i - 1] = Half(2, body[i])
                         /\ w[3 * i] = Newline

\* The three symbols of a line.
LEMMA HalvesCarry ==
    ASSUME NEW line \in Line
    PROVE  /\ Halves(line) \in Seq(Symbol)
           /\ Len(Halves(line)) = 3
           /\ Halves(line)[1] = Half(1, line)
           /\ Halves(line)[2] = Half(2, line)
           /\ Halves(line)[3] = Newline
<1>1. Half(1, line) \in Symbol /\ Half(2, line) \in Symbol /\ Newline \in Symbol
  BY DEF Half, Symbol
<1>2. Halves(line) = <<Half(1, line), Half(2, line), Newline>>
  BY DEF Halves, Half
<1> HIDE DEF Half, Newline, Symbol
<1>3. QED
  BY <1>1, <1>2

\* One more line after n lines.
LEMMA CarriesMore ==
    ASSUME NEW body \in Seq(Line), NEW n \in Nat, n + 1 <= Len(body),
           NEW w, Carries(w, body, n)
    PROVE  Carries(w \o Halves(body[n + 1]), body, n + 1)
<1> DEFINE line == body[n + 1]
           v == w \o Halves(line)
<1>1. line \in Line /\ n + 1 \in 1 .. Len(body)
  BY ElementOfSeq, LenProperties
<1> HIDE DEF line
<1>2. /\ Halves(line) \in Seq(Symbol) /\ Len(Halves(line)) = 3
      /\ Halves(line)[1] = Half(1, line) /\ Halves(line)[2] = Half(2, line)
      /\ Halves(line)[3] = Newline
  BY <1>1, HalvesCarry
<1>3. /\ v \in Seq(Symbol) /\ Len(v) = 3 * n + 3
      /\ \A i \in 1 .. 3 * n + 3 : v[i] = IF i <= 3 * n THEN w[i] ELSE Halves(line)[i - 3 * n]
  <2>1. w \in Seq(Symbol) /\ Len(w) = 3 * n
    BY DEF Carries
  <2>2. /\ v \in Seq(Symbol) /\ Len(v) = Len(w) + Len(Halves(line))
        /\ \A i \in 1 .. Len(w) + Len(Halves(line)) :
             v[i] = IF i <= Len(w) THEN w[i] ELSE Halves(line)[i - Len(w)]
    BY <1>2, <2>1, ConcatProperties
  <2>3. QED
    BY <1>2, <2>1, <2>2
<1> HIDE DEF v
<1>4. ASSUME NEW i \in 1 .. n + 1
      PROVE  v[3 * i - 2] = Half(1, body[i]) /\ v[3 * i - 1] = Half(2, body[i])
               /\ v[3 * i] = Newline
  <2>1. CASE i \in 1 .. n
    <3>1. /\ 3 * i - 2 \in 1 .. 3 * n + 3 /\ 3 * i - 1 \in 1 .. 3 * n + 3 /\ 3 * i \in 1 .. 3 * n + 3
          /\ 3 * i <= 3 * n
      BY <2>1
    <3>2. v[3 * i - 2] = w[3 * i - 2] /\ v[3 * i - 1] = w[3 * i - 1] /\ v[3 * i] = w[3 * i]
      BY <1>3, <3>1
    <3>3. QED
      BY <2>1, <3>2 DEF Carries
  <2>2. CASE i = n + 1
    <3>1. /\ 3 * i - 2 = 3 * n + 1 /\ 3 * i - 1 = 3 * n + 2 /\ 3 * i = 3 * n + 3
      BY <2>2
    <3>2. /\ v[3 * n + 1] = Halves(line)[1] /\ v[3 * n + 2] = Halves(line)[2]
          /\ v[3 * n + 3] = Halves(line)[3]
      BY <1>3
    <3>3. QED
      BY <1>2, <2>2, <3>1, <3>2 DEF line
  <2>3. QED
    BY <2>1, <2>2
<1>5. 3 * (n + 1) = 3 * n + 3
  OBVIOUS
<1>6. Carries(v, body, n + 1)
  BY <1>3, <1>4, <1>5 DEF Carries
<1>7. QED
  BY <1>6 DEF v, line

\* The wire of a stream carries all its lines.
LEMMA WireCarries ==
    ASSUME NEW body \in Seq(Line)
    PROVE  Carries(Wire(body), body, Len(body))
<1> DEFINE seqs == [i \in DOMAIN body |-> Halves(body[i])]
           k == Len(body)
<1>1. k \in Nat /\ DOMAIN body = 1 .. k
  BY LenProperties
<1>2. seqs \in Seq(Seq(Symbol)) /\ Len(seqs) = k /\ \A i \in 1 .. k : seqs[i] = Halves(body[i])
  <2>1. \A i \in 1 .. k : Halves(body[i]) \in Seq(Symbol)
    BY ElementOfSeq, HalvesCarry
  <2>2. seqs \in [1 .. k -> Seq(Symbol)]
    BY <1>1, <2>1
  <2>3. QED
    BY <1>1, <2>2, SeqDef, LenProperties
<1>3. CASE k = 0
  <2>1. Wire(body) = seqs
    BY <1>2, <1>3 DEF Wire, FlattenSeq
  <2>2. seqs = <<>>
    BY <1>2, <1>3, EmptySeq
  <2>3. <<>> \in Seq(Symbol) /\ Len(<<>>) = 0
    OBVIOUS
  <2>4. QED
    BY <1>3, <2>1, <2>2, <2>3 DEF Carries
<1>4. CASE k # 0
  <2> DEFINE f == CHOOSE g : IsFlat(g, k, seqs)
  <2>1. IsFlat(f, k, seqs)
    BY <1>1, FlatExists
  <2>2. Wire(body) = f[k]
    BY <1>2, <1>4 DEF Wire, FlattenSeq, IsFlat
  <2> HIDE DEF f, seqs
  <2>3. \A i \in 1 .. k : f[i] = IF i = 1 THEN seqs[i] ELSE f[i - 1] \o seqs[i]
    BY <2>1 DEF IsFlat
  <2> DEFINE T == {m \in Nat : m \in 1 .. k => Carries(f[m], body, m)}
  <2>4. 0 \in T
    OBVIOUS
  <2>5. ASSUME NEW m \in Nat, m \in T
        PROVE  m + 1 \in T
    <3> SUFFICES ASSUME m + 1 \in 1 .. k
                 PROVE  Carries(f[m + 1], body, m + 1)
      OBVIOUS
    <3>0. m + 1 <= Len(body)
      OBVIOUS
    <3>1. CASE m = 0
      <4>1. f[m + 1] = Halves(body[m + 1])
        BY <1>2, <2>3, <3>1
      <4>2. Carries(<<>>, body, m)
        BY <3>1 DEF Carries
      <4>3. Carries(<<>> \o Halves(body[m + 1]), body, m + 1)
        BY <3>0, <4>2, CarriesMore
      <4>4. <<>> \o Halves(body[m + 1]) = Halves(body[m + 1])
        <5>1. body[m + 1] \in Line
          BY ElementOfSeq
        <5>2. QED
          BY <5>1, HalvesCarry, ConcatEmptySeq
      <4>5. QED
        BY <3>1, <4>1, <4>3, <4>4
    <3>2. CASE m # 0
      <4>1. f[m + 1] = f[m] \o Halves(body[m + 1])
        <5>1. (m + 1) - 1 = m /\ m + 1 # 1 /\ m + 1 \in 1 .. k
          BY <3>2
        <5>2. f[m + 1] = f[(m + 1) - 1] \o seqs[m + 1]
          BY <2>3, <5>1
        <5>3. QED
          BY <1>2, <5>1, <5>2
      <4>2. Carries(f[m], body, m)
        BY <2>5, <3>2
      <4>3. Carries(f[m] \o Halves(body[m + 1]), body, m + 1)
        BY <3>0, <4>2, CarriesMore
      <4>4. QED
        BY <4>1, <4>3
    <3>3. QED
      BY <3>1, <3>2
  <2>6. Nat \subseteq T
    <3> HIDE DEF T
    <3>1. QED
      BY <2>4, <2>5, AllNumbers
  <2>7. k \in T
    BY <1>1, <2>6
  <2>8. QED
    BY <1>1, <1>4, <2>2, <2>7
<1>5. QED
  BY <1>3, <1>4

\* Where the newlines are.
LEMMA NewlineAt ==
    ASSUME NEW body \in Seq(Line), NEW j \in 1 .. Len(Wire(body))
    PROVE  /\ Wire(body)[j] = Newline <=> \E i \in 1 .. Len(body) : j = 3 * i
           /\ Wire(body)[j] \in Symbol
<1> DEFINE w == Wire(body)
           i == (j + 2) \div 3
<1>1. Carries(w, body, Len(body)) /\ Len(body) \in Nat
  BY WireCarries, LenProperties
<1> HIDE DEF w
<1>2. i \in 1 .. Len(body) /\ (j = 3 * i - 2 \/ j = 3 * i - 1 \/ j = 3 * i)
  BY <1>1 DEF w, Carries
<1> HIDE DEF i
<1>3. \A h : \A line : Half(h, line) = Newline => h = 0
  BY DEF Half, Newline
<1>4. CASE j = 3 * i
  BY <1>1, <1>2, <1>4 DEF w, Carries, Symbol
<1>5. CASE j # 3 * i
  <2>1. \A k \in 1 .. Len(body) : j # 3 * k
    BY <1>2, <1>5
  <2>2. w[j] = Half(1, body[i]) \/ w[j] = Half(2, body[i])
    BY <1>1, <1>2, <1>5 DEF Carries
  <2>3. w[j] # Newline
    BY <1>3, <2>2
  <2>4. w[j] \in Symbol
    <3>1. body[i] \in Line
      BY <1>2, ElementOfSeq
    <3>2. QED
      BY <2>2, <3>1 DEF Half, Symbol
  <2>5. QED
    BY <2>1, <2>3, <2>4 DEF w
<1>6. QED
  BY <1>4, <1>5

\* A piece of the wire.
LEMMA PieceOfWire ==
    ASSUME NEW body \in Seq(Line), NEW a \in Nat, NEW n \in Nat, a <= n, n <= Len(Wire(body))
    PROVE  /\ SubSeq(Wire(body), a + 1, n) \in Seq(Symbol)
           /\ Len(SubSeq(Wire(body), a + 1, n)) = n - a
           /\ \A i \in 1 .. n - a : SubSeq(Wire(body), a + 1, n)[i] = Wire(body)[a + i]
<1> DEFINE w == Wire(body)
<1>1. \A i \in a + 1 .. n : w[i] \in Symbol
  <2> TAKE i \in a + 1 .. n
  <2>1. i \in 1 .. Len(w)
    <3>1. Len(w) \in Nat
      BY WireCarries, LenProperties DEF Carries
    <3>2. QED
      BY <3>1
  <2>2. QED
    BY <2>1, NewlineAt
<1> HIDE DEF w
<1>2. /\ SubSeq(w, a + 1, n) \in Seq(Symbol)
      /\ Len(SubSeq(w, a + 1, n)) = IF a + 1 <= n THEN n - (a + 1) + 1 ELSE 0
      /\ \A i \in 1 .. n - (a + 1) + 1 : SubSeq(w, a + 1, n)[i] = w[(a + 1) + i - 1]
  <2>1. a + 1 \in Int /\ n \in Int
    OBVIOUS
  <2>2. QED
    BY <1>1, <2>1, SubSeqProperties
<1>3. Len(SubSeq(w, a + 1, n)) = n - a
  BY <1>2
<1>4. ASSUME NEW i \in 1 .. n - a
      PROVE  SubSeq(w, a + 1, n)[i] = w[a + i]
  <2>1. i \in 1 .. n - (a + 1) + 1 /\ (a + 1) + i - 1 = a + i
    OBVIOUS
  <2>2. QED
    BY <1>2, <2>1
<1>5. QED
  BY <1>2, <1>3, <1>4 DEF w

----------------------------------------------------------------------------
(* The sniffer on whole lines *)

\* What a line does to the sink.
Read(sink, line) == IF line.kind = "usage" THEN line.total ELSE sink

LEMMA LineDecodes ==
    ASSUME NEW line \in Line
    PROVE  Decoded(<<Half(1, line), Half(2, line)>>) = {line}
<1> DEFINE text == <<Half(1, line), Half(2, line)>>
<1>1. SubSeq(Halves(line), 1, 2) = text
  <2>1. Halves(line) = <<Half(1, line), Half(2, line), Newline>>
    BY DEF Halves, Half
  <2>2. Len(Halves(line)) = 3 /\ Halves(line)[1] = Half(1, line) /\ Halves(line)[2] = Half(2, line)
    BY HalvesCarry
  <2> HIDE DEF Half, Newline
  <2>3. \A k \in 1 .. 2 : Halves(line)[k] \in Symbol
    BY HalvesCarry, ElementOfSeq
  <2>4. /\ SubSeq(Halves(line), 1, 2) \in Seq(Symbol)
        /\ Len(SubSeq(Halves(line), 1, 2)) = 2
        /\ \A k \in 1 .. 2 : SubSeq(Halves(line), 1, 2)[k] = Halves(line)[k]
    BY <2>3, SubSeqProperties
  <2>5. /\ text \in Seq(Symbol) /\ Len(text) = 2
        /\ text[1] = Halves(line)[1] /\ text[2] = Halves(line)[2]
    BY <2>2, <2>3
  <2> HIDE DEF text
  <2>6. \A k \in 1 .. 2 : SubSeq(Halves(line), 1, 2)[k] = text[k]
    <3> TAKE k \in 1 .. 2
    <3>1. k = 1 \/ k = 2
      OBVIOUS
    <3>2. QED
      BY <2>4, <2>5, <3>1
  <2>7. QED
    BY <2>4, <2>5, <2>6, SeqEqual
<1>2. text[1].of = line
  BY DEF Half
<1> HIDE DEF text
<1>3. QED
  BY <1>1, <1>2 DEF Decoded, text

LEMMA SniffLine ==
    ASSUME NEW line \in Line, NEW sink
    PROVE  Sniff(Sniff(Sniff([line |-> <<>>, sink |-> sink], Half(1, line)), Half(2, line)), Newline)
             = [line |-> <<>>, sink |-> Read(sink, line)]
<1> DEFINE h1 == Half(1, line)
           h2 == Half(2, line)
<1>1. h1 # Newline /\ h2 # Newline
  BY DEF Half, Newline
<1>2. Decoded(<<h1, h2>>) = {line}
  BY LineDecodes
<1> HIDE DEF h1, h2
<1>3. Sniff([line |-> <<>>, sink |-> sink], h1) = [line |-> <<h1>>, sink |-> sink]
  BY <1>1 DEF Sniff
<1>4. Sniff([line |-> <<h1>>, sink |-> sink], h2) = [line |-> <<h1, h2>>, sink |-> sink]
  BY <1>1 DEF Sniff
<1>5. Updated(sink, <<h1, h2>>) = Read(sink, line)
  BY <1>2 DEF Updated, Read
<1>6. Sniff([line |-> <<h1, h2>>, sink |-> sink], Newline) = [line |-> <<>>, sink |-> Read(sink, line)]
  BY <1>5 DEF Sniff
<1>7. QED
  BY <1>3, <1>4, <1>6 DEF h1, h2

\* The sink holds the last usage report of the first n lines, if there is one.
SinkFits(body, n, sink) ==
    \/ sink = NoUsage /\ \A i \in 1 .. n : body[i].kind # "usage"
    \/ \E i \in 1 .. n : /\ body[i].kind = "usage" /\ sink = body[i].total
                         /\ \A j \in i + 1 .. n : body[j].kind # "usage"

LEMMA SinkFitsMore ==
    ASSUME NEW body \in Seq(Line), NEW n \in Nat, n + 1 <= Len(body), NEW sink, SinkFits(body, n, sink)
    PROVE  SinkFits(body, n + 1, Read(sink, body[n + 1]))
<1>1. CASE body[n + 1].kind = "usage"
  <2>1. n + 1 \in 1 .. n + 1 /\ \A j \in (n + 1) + 1 .. n + 1 : body[j].kind # "usage"
    OBVIOUS
  <2>2. Read(sink, body[n + 1]) = body[n + 1].total
    BY <1>1 DEF Read
  <2>3. QED
    BY <1>1, <2>1, <2>2 DEF SinkFits
<1>2. CASE body[n + 1].kind # "usage"
  <2>1. Read(sink, body[n + 1]) = sink
    BY <1>2 DEF Read
  <2>2. 1 .. n + 1 = (1 .. n) \cup {n + 1}
    OBVIOUS
  <2>3. CASE sink = NoUsage /\ \A i \in 1 .. n : body[i].kind # "usage"
    BY <1>2, <2>1, <2>2, <2>3 DEF SinkFits
  <2>4. CASE \E i \in 1 .. n : /\ body[i].kind = "usage" /\ sink = body[i].total
                               /\ \A j \in i + 1 .. n : body[j].kind # "usage"
    <3>1. PICK i \in 1 .. n : /\ body[i].kind = "usage" /\ sink = body[i].total
                              /\ \A j \in i + 1 .. n : body[j].kind # "usage"
      BY <2>4
    <3>2. \A j \in i + 1 .. n + 1 : body[j].kind # "usage"
      <4> TAKE j \in i + 1 .. n + 1
      <4>1. j \in i + 1 .. n \/ j = n + 1
        OBVIOUS
      <4>2. QED
        BY <1>2, <3>1, <4>1
    <3>3. i \in 1 .. n + 1
      OBVIOUS
    <3>4. QED
      BY <2>1, <3>1, <3>2, <3>3 DEF SinkFits
  <2>5. QED
    BY <2>3, <2>4 DEF SinkFits
<1>3. QED
  BY <1>1, <1>2

\* One step of the fold.
LEMMA FoldNext ==
    ASSUME NEW n \in Nat, NEW f, NEW base, NEW seq, IsFold(f, n, base, seq), NEW k \in Nat, k + 1 <= n
    PROVE  f[1 .. k + 1] = Sniff(f[1 .. k], seq[k + 1])
<1>1. 1 .. k + 1 \in SUBSET (1 .. n) /\ 1 .. k + 1 # {}
  <2>1. 1 \in 1 .. k + 1
    OBVIOUS
  <2>2. QED
    BY <2>1
<1>2. Max(1 .. k + 1) = k + 1
  <2>1. 1 .. k + 1 \subseteq Nat /\ k + 1 \in 1 .. k + 1 /\ \A y \in 1 .. k + 1 : y <= k + 1
    OBVIOUS
  <2>2. QED
    BY <2>1, MaxIs
<1>3. (1 .. k + 1) \ {k + 1} = 1 .. k
  OBVIOUS
<1>4. QED
  BY <1>1, <1>2, <1>3 DEF IsFold

\* Whole lines m + 1 .. n, parsed in one piece: the newline that ends the text
\* is the one the parser adds.
LEMMA SniffedLines ==
    ASSUME NEW body \in Seq(Line), NEW m \in Nat, NEW n \in Nat, m <= n, n <= Len(body),
           NEW text, Append(text, Newline) = SubSeq(Wire(body), 3 * m + 1, 3 * n),
           NEW sink, SinkFits(body, m, sink)
    PROVE  SinkFits(body, n, Sniffed(text, sink))
<1> DEFINE w == Wire(body)
           seq == Append(text, Newline)
           base == [line |-> <<>>, sink |-> sink]
           k == n - m
<1>1. Carries(w, body, Len(body)) /\ Len(body) \in Nat /\ k \in Nat
  BY WireCarries, LenProperties
<1>2. /\ seq \in Seq(Symbol) /\ Len(seq) = 3 * k
      /\ \A i \in 1 .. 3 * k : seq[i] = w[3 * m + i]
  <2>1. /\ 3 * m \in Nat /\ 3 * n \in Nat /\ 3 * m <= 3 * n /\ 3 * n <= Len(w)
        /\ 3 * n - 3 * m = 3 * k
    BY <1>1 DEF Carries
  <2> HIDE DEF k
  <2>2. /\ SubSeq(w, 3 * m + 1, 3 * n) \in Seq(Symbol)
        /\ Len(SubSeq(w, 3 * m + 1, 3 * n)) = 3 * n - 3 * m
        /\ \A i \in 1 .. 3 * n - 3 * m : SubSeq(w, 3 * m + 1, 3 * n)[i] = w[3 * m + i]
    BY <2>1, PieceOfWire
  <2>3. seq = SubSeq(w, 3 * m + 1, 3 * n)
    OBVIOUS
  <2> HIDE DEF seq, w
  <2>4. QED
    BY <2>1, <2>2, <2>3
<1> HIDE DEF seq, w
<1>3. PICK f : /\ IsFold(f, Len(seq), base, seq)
               /\ FoldLeft(Sniff, base, seq) = f[1 .. Len(seq)]
  <2>1. DOMAIN seq = 1 .. Len(seq) /\ Len(seq) \in Nat
    BY <1>2, LenProperties
  <2>2. QED
    BY <2>1, FoldIs
<1>4. f[1 .. 0] = base
  <2>1. 1 .. 0 = {} /\ {} \in SUBSET (1 .. Len(seq))
    OBVIOUS
  <2>2. QED
    BY <1>3, <2>1 DEF IsFold
<1> DEFINE At(i) == \E s : f[1 .. 3 * i] = [line |-> <<>>, sink |-> s] /\ SinkFits(body, m + i, s)
           T == {i \in Nat : i <= k => At(i)}
<1>5. 0 \in T
  <2>1. 3 * 0 = 0 /\ m + 0 = m
    OBVIOUS
  <2>2. At(0)
    BY <1>4, <2>1
  <2> HIDE DEF At
  <2>3. QED
    BY <2>2
<1>6. ASSUME NEW i \in Nat, i \in T
      PROVE  i + 1 \in T
  <2> HIDE DEF At
  <2> SUFFICES ASSUME i + 1 <= k
               PROVE  At(i + 1)
    OBVIOUS
  <2>0. At(i)
    BY <1>1, <1>6
  <2> HIDE DEF T
  <2>1. PICK s : f[1 .. 3 * i] = [line |-> <<>>, sink |-> s] /\ SinkFits(body, m + i, s)
    BY <2>0 DEF At
  <2> DEFINE line == body[m + i + 1]
  <2>2. m + i + 1 \in 1 .. Len(body) /\ line \in Line
    <3>1. m + i + 1 \in 1 .. Len(body)
      BY <1>1
    <3>2. QED
      BY <3>1, ElementOfSeq
  <2>3. seq[3 * i + 1] = Half(1, line) /\ seq[3 * i + 1 + 1] = Half(2, line) /\ seq[3 * i + 1 + 1 + 1] = Newline
    <3>1. /\ seq[3 * i + 1] = w[3 * (m + i + 1) - 2]
          /\ seq[3 * i + 1 + 1] = w[3 * (m + i + 1) - 1]
          /\ seq[3 * i + 1 + 1 + 1] = w[3 * (m + i + 1)]
      <4>1. 3 * i + 1 \in 1 .. 3 * k /\ 3 * i + 1 + 1 \in 1 .. 3 * k /\ 3 * i + 1 + 1 + 1 \in 1 .. 3 * k
        BY <1>1
      <4>2. /\ 3 * m + (3 * i + 1) = 3 * (m + i + 1) - 2
            /\ 3 * m + (3 * i + 1 + 1) = 3 * (m + i + 1) - 1
            /\ 3 * m + (3 * i + 1 + 1 + 1) = 3 * (m + i + 1)
        OBVIOUS
      <4>3. QED
        BY <1>2, <4>1, <4>2
    <3>2. QED
      BY <1>1, <2>2, <3>1 DEF Carries
  <2>4. /\ f[1 .. 3 * i + 1] = Sniff(f[1 .. 3 * i], seq[3 * i + 1])
        /\ f[1 .. 3 * i + 1 + 1] = Sniff(f[1 .. 3 * i + 1], seq[3 * i + 1 + 1])
        /\ f[1 .. 3 * i + 1 + 1 + 1] = Sniff(f[1 .. 3 * i + 1 + 1], seq[3 * i + 1 + 1 + 1])
    <3>1. /\ 3 * i \in Nat /\ 3 * i + 1 \in Nat /\ 3 * i + 1 + 1 \in Nat /\ Len(seq) \in Nat
          /\ 3 * i + 1 + 1 + 1 <= Len(seq) /\ 3 * i + 1 + 1 <= Len(seq) /\ 3 * i + 1 <= Len(seq)
      BY <1>1, <1>2
    <3> HIDE DEF base
    <3>2. f[1 .. 3 * i + 1] = Sniff(f[1 .. 3 * i], seq[3 * i + 1])
      BY <1>3, <3>1, FoldNext
    <3>3. f[1 .. 3 * i + 1 + 1] = Sniff(f[1 .. 3 * i + 1], seq[3 * i + 1 + 1])
      BY <1>3, <3>1, FoldNext
    <3>4. f[1 .. 3 * i + 1 + 1 + 1] = Sniff(f[1 .. 3 * i + 1 + 1], seq[3 * i + 1 + 1 + 1])
      BY <1>3, <3>1, FoldNext
    <3>5. QED
      BY <3>2, <3>3, <3>4
  <2>5. 3 * (i + 1) = 3 * i + 1 + 1 + 1 /\ m + (i + 1) = (m + i) + 1 /\ m + i + 1 = (m + i) + 1
    OBVIOUS
  <2>6. f[1 .. 3 * (i + 1)] = [line |-> <<>>, sink |-> Read(s, line)]
    <3> HIDE DEF line
    <3>1. f[1 .. 3 * i + 1 + 1 + 1] =
            Sniff(Sniff(Sniff([line |-> <<>>, sink |-> s], Half(1, line)), Half(2, line)), Newline)
      BY <2>1, <2>3, <2>4
    <3>2. QED
      BY <2>2, <2>5, <3>1, SniffLine
  <2>7. SinkFits(body, m + (i + 1), Read(s, line))
    <3>1. m + i \in Nat /\ (m + i) + 1 <= Len(body)
      BY <1>1
    <3>2. SinkFits(body, (m + i) + 1, Read(s, body[(m + i) + 1]))
      BY <2>1, <3>1, SinkFitsMore
    <3>3. QED
      BY <2>5, <3>2
  <2>8. QED
    BY <2>6, <2>7 DEF At
<1>7. k \in T
  <2> HIDE DEF T
  <2>1. Nat \subseteq T
    BY <1>5, <1>6, AllNumbers
  <2>2. QED
    BY <1>1, <2>1
<1>8. At(k)
  <2> HIDE DEF At
  <2>1. QED
    BY <1>1, <1>7
<1> HIDE DEF T
<1>9. m + k = n
  OBVIOUS
<1>10. Sniffed(text, sink) = f[1 .. 3 * k].sink
  BY <1>2, <1>3 DEF Sniffed, seq
<1>11. QED
  BY <1>8, <1>9, <1>10

----------------------------------------------------------------------------
(* The buffer *)

\* The symbols after the last whole line of the first n.
Rest(body, n) == SubSeq(Wire(body), 3 * (n \div 3) + 1, n)

\* A piece of a piece.
LEMMA PieceOfPiece ==
    ASSUME NEW body \in Seq(Line), NEW a \in Nat, NEW b \in Nat, NEW c \in Nat, NEW n \in Nat,
           a <= b, b <= c, c <= n, n <= Len(Wire(body))
    PROVE  SubSeq(SubSeq(Wire(body), a + 1, n), b - a + 1, c - a) = SubSeq(Wire(body), b + 1, c)
<1> DEFINE text == SubSeq(Wire(body), a + 1, n)
           piece == SubSeq(Wire(body), b + 1, c)
<1>1. /\ text \in Seq(Symbol) /\ Len(text) = n - a
      /\ \A i \in 1 .. n - a : text[i] = Wire(body)[a + i]
  <2>1. a <= n
    OBVIOUS
  <2>2. QED
    BY <2>1, PieceOfWire
<1>2. /\ piece \in Seq(Symbol) /\ Len(piece) = c - b
      /\ \A i \in 1 .. c - b : piece[i] = Wire(body)[b + i]
  <2>1. c <= Len(Wire(body))
    <3>1. Len(Wire(body)) \in Nat
      BY WireCarries, LenProperties DEF Carries
    <3>2. QED
      BY <3>1
  <2>2. QED
    BY <2>1, PieceOfWire
<1> HIDE DEF text, piece
<1> DEFINE from == b - a + 1
           to == c - a
<1>3. \A i \in from .. to : text[i] \in Symbol
  <2> TAKE i \in from .. to
  <2>1. i \in 1 .. Len(text)
    BY <1>1
  <2>2. QED
    BY <1>1, <2>1, ElementOfSeq
<1>4. /\ from \in Int /\ to \in Int /\ to - from + 1 = c - b
      /\ \A i \in 1 .. c - b : from + i - 1 \in 1 .. n - a /\ a + (from + i - 1) = b + i
      /\ (from <= to => to - from + 1 = c - b) /\ (~(from <= to) => c - b = 0)
  OBVIOUS
<1> HIDE DEF from, to
<1>5. /\ SubSeq(text, from, to) \in Seq(Symbol)
      /\ Len(SubSeq(text, from, to)) = IF from <= to THEN to - from + 1 ELSE 0
      /\ \A i \in 1 .. to - from + 1 : SubSeq(text, from, to)[i] = text[from + i - 1]
  BY <1>3, <1>4, SubSeqProperties
<1>6. Len(SubSeq(text, from, to)) = c - b
  BY <1>4, <1>5
<1>7. ASSUME NEW i \in 1 .. c - b
      PROVE  SubSeq(text, from, to)[i] = piece[i]
  <2>1. SubSeq(text, from, to)[i] = text[from + i - 1]
    BY <1>4, <1>5
  <2>2. text[from + i - 1] = Wire(body)[a + (from + i - 1)]
    BY <1>1, <1>4
  <2>3. QED
    BY <1>2, <1>4, <2>1, <2>2
<1>8. SubSeq(text, from, to) = piece
  BY <1>2, <1>5, <1>6, <1>7, SeqEqual
<1>9. QED
  BY <1>8 DEF text, piece, from, to

\* A piece that a newline ends.
LEMMA PieceAppended ==
    ASSUME NEW body \in Seq(Line), NEW a \in Nat, NEW n \in Nat, a <= n, n + 1 <= Len(Wire(body)),
           Wire(body)[n + 1] = Newline
    PROVE  Append(SubSeq(Wire(body), a + 1, n), Newline) = SubSeq(Wire(body), a + 1, n + 1)
<1> DEFINE short == SubSeq(Wire(body), a + 1, n)
           long == SubSeq(Wire(body), a + 1, n + 1)
<1>1. Len(Wire(body)) \in Nat
  BY WireCarries, LenProperties DEF Carries
<1>2. /\ short \in Seq(Symbol) /\ Len(short) = n - a
      /\ \A i \in 1 .. n - a : short[i] = Wire(body)[a + i]
  <2>1. n <= Len(Wire(body))
    BY <1>1
  <2>2. QED
    BY <2>1, PieceOfWire
<1>3. /\ long \in Seq(Symbol) /\ Len(long) = (n + 1) - a
      /\ \A i \in 1 .. (n + 1) - a : long[i] = Wire(body)[a + i]
  <2>1. n + 1 \in Nat /\ a <= n + 1
    OBVIOUS
  <2>2. QED
    BY <2>1, PieceOfWire
<1> HIDE DEF short, long
<1>4. /\ Append(short, Newline) \in Seq(Symbol)
      /\ Len(Append(short, Newline)) = Len(short) + 1
      /\ \A i \in 1 .. Len(short) : Append(short, Newline)[i] = short[i]
      /\ Append(short, Newline)[Len(short) + 1] = Newline
  <2>1. Newline \in Symbol
    BY DEF Symbol
  <2> HIDE DEF Newline
  <2>2. QED
    BY <1>2, <2>1, AppendProperties
<1>5. ASSUME NEW i \in 1 .. (n + 1) - a
      PROVE  Append(short, Newline)[i] = long[i]
  <2>1. CASE i \in 1 .. n - a
    BY <1>2, <1>3, <1>4, <2>1
  <2>2. CASE i = (n - a) + 1
    <3>1. a + i = n + 1
      BY <2>2
    <3>2. QED
      BY <1>2, <1>3, <1>4, <2>2, <3>1
  <2>3. i \in 1 .. n - a \/ i = (n - a) + 1
    OBVIOUS
  <2>4. QED
    BY <2>1, <2>2, <2>3
<1>6. Len(Append(short, Newline)) = Len(long)
  BY <1>2, <1>3, <1>4
<1>7. Append(short, Newline) = long
  BY <1>3, <1>4, <1>5, <1>6, SeqEqual
<1>8. QED
  BY <1>7 DEF short, long

\* What the sniffer reads does not depend on how httpx cuts the stream: after
\* the next chunk, of whatever length, the buffer is again what follows the last
\* whole line that arrived, and the sink is the last report up to that line.
THEOREM CutsDoNotMatter ==
    ASSUME NEW body \in Seq(Line), NEW p \in Nat, NEW g \in Nat, p <= g, g <= Len(Wire(body)),
           NEW sink, SinkFits(body, p \div 3, sink)
    PROVE  LET parsed == Buffered(Rest(body, p), SubSeq(Wire(body), p + 1, g), sink)
           IN  parsed.buffer = Rest(body, g) /\ SinkFits(body, g \div 3, parsed.sink)
<1> DEFINE w == Wire(body)
           a == p \div 3
           c == g \div 3
           text == SubSeq(w, 3 * a + 1, g)
           I == {i \in 1 .. Len(text) : text[i] = Newline}
           last == SelectLastInSeq(text, LAMBDA symbol : symbol = Newline)
<1>1. Carries(w, body, Len(body)) /\ Len(body) \in Nat /\ w \in Seq(Symbol)
  BY WireCarries, LenProperties DEF Carries
<1>2. /\ a \in Nat /\ 3 * a <= p /\ p < 3 * a + 3
      /\ c \in Nat /\ 3 * c <= g /\ g < 3 * c + 3
  OBVIOUS
<1>3. Rest(body, p) \o SubSeq(w, p + 1, g) = text
  <2>1. Len(w) \in Nat /\ g <= Len(w)
    BY <1>1, LenProperties
  <2> HIDE DEF w, a
  <2> DEFINE m == 3 * a + 1
  <2>2. m \in 1 .. Len(w) + 1 /\ p \in m - 1 .. Len(w) /\ g \in p .. Len(w)
    BY <1>2, <2>1
  <2> HIDE DEF m
  <2>3. SubSeq(w, m, p) \o SubSeq(w, p + 1, g) = SubSeq(w, m, g)
    BY <1>1, <2>2, ConcatAdjacentSubSeq
  <2>4. QED
    BY <2>3 DEF Rest, w, a, m
<1>4. /\ text \in Seq(Symbol) /\ Len(text) = g - 3 * a
      /\ \A i \in 1 .. g - 3 * a : text[i] = w[3 * a + i]
  <2> HIDE DEF a
  <2>1. 3 * a \in Nat /\ 3 * a <= g
    BY <1>2
  <2>2. QED
    BY <2>1, PieceOfWire
<1> HIDE DEF w, a, c, text
<1>5. Len(w) = 3 * Len(body) /\ g <= Len(w)
  BY <1>1 DEF Carries, w
<1>6. ASSUME NEW i \in 1 .. Len(text)
      PROVE  text[i] = Newline <=> \E j \in 1 .. Len(body) : 3 * a + i = 3 * j
  <2>1. 3 * a + i \in 1 .. Len(Wire(body)) /\ text[i] = Wire(body)[3 * a + i]
    BY <1>2, <1>4, <1>5 DEF w
  <2>2. QED
    BY <2>1, NewlineAt
<1> HIDE DEF I
<1>7. last = IF I # {} THEN Max(I) ELSE 0
  BY DEF SelectLastInSeq, I
<1> HIDE DEF last
<1>8. a <= c
  BY <1>2
<1>9. CASE a = c
  <2>1. I = {}
    <3> SUFFICES ASSUME NEW i \in 1 .. Len(text), text[i] = Newline
                 PROVE  FALSE
      BY DEF I
    <3>1. PICK j \in 1 .. Len(body) : 3 * a + i = 3 * j
      BY <1>6
    <3>2. i \in Int /\ 1 <= i /\ i < 3
      BY <1>2, <1>4, <1>9
    <3>3. j \in Int /\ a \in Int
      BY <1>2
    <3>4. QED
      BY <3>1, <3>2, <3>3
  <2>2. last = 0
    BY <1>7, <2>1
  <2>3. Buffered(Rest(body, p), SubSeq(w, p + 1, g), sink) = [buffer |-> text, sink |-> sink]
    BY <1>3, <2>2 DEF Buffered, last
  <2>4. text = Rest(body, g)
    BY <1>9 DEF Rest, text, c, w
  <2>5. QED
    BY <1>9, <2>3, <2>4 DEF a, c, w
<1>10. CASE a < c
  <2> DEFINE k == 3 * c - 3 * a
  <2>1. k \in I
    <3>1. k \in 1 .. Len(text) /\ c \in 1 .. Len(body) /\ 3 * a + k = 3 * c
      BY <1>1, <1>2, <1>4, <1>5, <1>10
    <3>2. QED
      BY <1>6, <3>1 DEF I
  <2>2. \A i \in I : i <= k
    <3> TAKE i \in I
    <3>1. i \in 1 .. Len(text) /\ text[i] = Newline
      BY DEF I
    <3>2. PICK j \in 1 .. Len(body) : 3 * a + i = 3 * j
      BY <1>6, <3>1
    <3>3. j <= c
      BY <1>2, <1>4, <3>1, <3>2
    <3>4. QED
      BY <1>2, <3>1, <3>2, <3>3
  <2>3. last = k
    <3>1. I \subseteq Nat
      BY DEF I
    <3> HIDE DEF k
    <3>2. Max(I) = k
      BY <2>1, <2>2, <3>1, MaxIs
    <3>3. QED
      BY <1>7, <2>1, <3>2
  <2>4. k # 0
    BY <1>2, <1>10
  <2> HIDE DEF k
  <2>5. Buffered(Rest(body, p), SubSeq(w, p + 1, g), sink)
          = [buffer |-> SubSeq(text, k + 1, Len(text)),
             sink |-> Sniffed(SubSeq(text, 1, k - 1), sink)]
    BY <1>3, <2>3, <2>4 DEF Buffered, last
  <2>6. SubSeq(text, k + 1, Len(text)) = Rest(body, g)
    <3>1. SubSeq(SubSeq(Wire(body), 3 * a + 1, g), 3 * c - 3 * a + 1, g - 3 * a)
            = SubSeq(Wire(body), 3 * c + 1, g)
      <4> DEFINE x == 3 * a
                 y == 3 * c
      <4>1. x \in Nat /\ y \in Nat /\ x <= y /\ y <= g /\ g <= g /\ g <= Len(Wire(body))
        BY <1>2, <1>10
      <4> HIDE DEF x, y
      <4>2. SubSeq(SubSeq(Wire(body), x + 1, g), y - x + 1, g - x) = SubSeq(Wire(body), y + 1, g)
        BY <4>1, PieceOfPiece
      <4>3. QED
        BY <4>2 DEF x, y
    <3>2. QED
      BY <1>4, <3>1 DEF k, text, w, Rest, c
  <2>7. SubSeq(text, 1, k - 1) = SubSeq(Wire(body), 3 * a + 1, 3 * c - 1)
    <3>1. SubSeq(SubSeq(Wire(body), 3 * a + 1, g), 3 * a - 3 * a + 1, (3 * c - 1) - 3 * a)
            = SubSeq(Wire(body), 3 * a + 1, 3 * c - 1)
      <4> DEFINE x == 3 * a
                 y == 3 * c - 1
      <4>1. x \in Nat /\ y \in Nat /\ x <= x /\ x <= y /\ y <= g /\ g <= Len(Wire(body))
        BY <1>2, <1>10
      <4> HIDE DEF x, y
      <4>2. SubSeq(SubSeq(Wire(body), x + 1, g), x - x + 1, y - x) = SubSeq(Wire(body), x + 1, y)
        BY <4>1, PieceOfPiece
      <4>3. QED
        BY <4>2 DEF x, y
    <3>2. 3 * a - 3 * a + 1 = 1 /\ (3 * c - 1) - 3 * a = k - 1
      BY <1>2 DEF k
    <3>3. QED
      BY <3>1, <3>2 DEF text, w
  <2>8. Append(SubSeq(text, 1, k - 1), Newline) = SubSeq(Wire(body), 3 * a + 1, 3 * c)
    <3> DEFINE d == 3 * c - 1
    <3>1. /\ 3 * a \in Nat /\ d \in Nat /\ 3 * a <= d /\ d + 1 = 3 * c /\ 3 * c <= Len(Wire(body))
      BY <1>2, <1>5, <1>10 DEF w
    <3>2. Wire(body)[3 * c] = Newline
      <4>1. c \in 1 .. Len(body)
        BY <1>1, <1>2, <1>5, <1>10
      <4>2. QED
        BY <1>1, <4>1 DEF Carries, w
    <3> HIDE DEF d
    <3>3. Append(SubSeq(Wire(body), 3 * a + 1, d), Newline) = SubSeq(Wire(body), 3 * a + 1, d + 1)
      BY <3>1, <3>2, PieceAppended
    <3>4. QED
      BY <2>7, <3>1, <3>3 DEF d
  <2>9. SinkFits(body, c, Sniffed(SubSeq(text, 1, k - 1), sink))
    <3>1. c <= Len(body)
      BY <1>1, <1>2, <1>5
    <3>2. SinkFits(body, a, sink)
      BY DEF a
    <3>3. QED
      BY <1>2, <1>8, <2>8, <3>1, <3>2, SniffedLines
  <2> DEFINE parsed == Buffered(Rest(body, p), SubSeq(Wire(body), p + 1, g), sink)
             rest == SubSeq(text, k + 1, Len(text))
             read == Sniffed(SubSeq(text, 1, k - 1), sink)
  <2> HIDE DEF parsed, rest, read
  <2>10. parsed.buffer = Rest(body, g) /\ parsed.sink = Sniffed(SubSeq(text, 1, k - 1), sink)
    <3>1. parsed = [buffer |-> rest, sink |-> read]
      BY <2>5 DEF w, parsed, rest, read
    <3>2. parsed.buffer = rest /\ parsed.sink = read
      BY <3>1
    <3>3. QED
      BY <2>6, <3>2 DEF rest, read
  <2>11. SinkFits(body, g \div 3, parsed.sink)
    BY <2>9, <2>10 DEF c
  <2>12. QED
    BY <2>10, <2>11 DEF parsed
<1>11. QED
  BY <1>2, <1>8, <1>9, <1>10

----------------------------------------------------------------------------
(* The invariant: where the sniffer stands in the stream, and what a row is *)
(* worth                                                                    *)

Sinks == Totals \cup {NoUsage}

\* What a sink must be worth when it is billed: all of a complete stream, and
\* of any other only what its caller was sent.
Worth(x, sent, sink) ==
    /\ x.how = "complete" => SinkFits(x.body, Len(x.body), sink)
    /\ x.stream => \E n \in 0 .. Len(x.body) : 3 * n <= sent /\ SinkFits(x.body, n, sink)

Bill(sink) == IF sink = NoUsage THEN 0 ELSE sink

\* Request x, whose caller was sent so many symbols, with its usage rows.
Fits(x, sent, bills) ==
    /\ x.pc \in {"new", "posted"} => sent = 0
    /\ x.pc = "streaming" =>
         /\ sent = x.got /\ x.got <= Len(Wire(x.body))
         /\ x.buffer = Rest(x.body, x.got)
         /\ SinkFits(x.body, x.got \div 3, x.sink)
    /\ x.pc = "yielding" =>
         /\ sent < x.got /\ x.got <= Len(Wire(x.body))
         /\ x.chunk = SubSeq(Wire(x.body), sent + 1, x.got)
         /\ x.buffer = Rest(x.body, sent)
         /\ SinkFits(x.body, sent \div 3, x.sink)
    /\ x.pc = "record" => Worth(x, sent, x.sink)
    /\ x.pc = "ended" /\ x.metered =>
         \E sink \in Sinks : bills = <<Bill(sink)>> /\ Worth(x, sent, sink)
    /\ ~(x.pc = "ended" /\ x.metered) => bills = <<>>

Lost == {r \in Requests :
           /\ req[r].pc = "ended" /\ ~req[r].metered
           /\ req[r].how \in {"answer", "complete", "error"}
           /\ req[r].how = "error" => req[r].stream
           /\ req[r].stream => client[r]}

RelayInv ==
    /\ TypeOK
    /\ \A r \in Requests : Fits(req[r], seen[r], rows[r])
    /\ IsFiniteSet(Lost) /\ Cardinality(Lost) <= faults

Hows == {"answer", "complete", "error", "cancelled"}

\* What is known of a request in each of its phases.
LEMMA RequestIs ==
    ASSUME NEW x \in Request
    PROVE  /\ x.pc \in {"new", "posted", "streaming", "yielding", "record", "ended"}
           /\ x.pc = "posted" => x.stream \in BOOLEAN
           /\ x.pc = "streaming" => /\ x.body \in Bodies /\ x.got \in Nat
                                    /\ x.buffer \in Seq(Symbol) /\ x.sink \in Sinks
           /\ x.pc = "yielding" => /\ x.body \in Bodies /\ x.got \in Nat
                                   /\ x.chunk \in Seq(Symbol)
                                   /\ x.buffer \in Seq(Symbol) /\ x.sink \in Sinks
           /\ x.pc = "record" => /\ x.how \in Hows /\ x.stream \in BOOLEAN
                                 /\ x.body \in Bodies \cup {<<>>} /\ x.sink \in Sinks
           /\ x.pc = "ended" => /\ x.how \in Hows \cup {"refused", "crashed"}
                                /\ x.stream \in BOOLEAN /\ x.metered \in BOOLEAN
                                /\ x.body \in Bodies \cup {<<>>}
BY DEF Request, New, Hows, Sinks

LEMMA BodyIs ==
    ASSUME NEW body \in Bodies \cup {<<>>}
    PROVE  /\ body \in Seq(Line) /\ Len(body) \in Nat
           /\ Wire(body) \in Seq(Symbol) /\ Len(Wire(body)) = 3 * Len(body)
<1>1. body \in Seq(Line)
  BY BodiesAssumption, EmptySeq
<1>2. QED
  BY <1>1, WireCarries, LenProperties DEF Carries

\* A request that leaves its phase ...
LEMMA EndedFits ==
    ASSUME NEW how \in Hows \cup {"refused", "crashed"}, NEW stream \in BOOLEAN,
           NEW body \in Bodies \cup {<<>>}, NEW sent
    PROVE  /\ Ended(how, stream, body, FALSE) \in Request
           /\ Fits(Ended(how, stream, body, FALSE), sent, <<>>)
<1>1. Ended(how, stream, body, FALSE) \in Request
  BY DEF Ended, Request, Hows
<1>2. QED
  BY <1>1 DEF Ended, Fits

LEMMA MeteredFits ==
    ASSUME NEW how \in Hows, NEW stream \in BOOLEAN, NEW body \in Bodies \cup {<<>>},
           NEW sink \in Sinks, NEW sent, Worth(ToRecord(how, stream, body, sink), sent, sink)
    PROVE  /\ Ended(how, stream, body, TRUE) \in Request
           /\ Fits(Ended(how, stream, body, TRUE), sent, <<Bill(sink)>>)
<1> DEFINE x == Ended(how, stream, body, TRUE)
           y == ToRecord(how, stream, body, sink)
<1>1. x \in Request
  BY DEF Ended, Request, Hows
<1>2. x.pc = "ended" /\ x.metered = TRUE
  BY DEF Ended
<1>3. x.how = y.how /\ x.stream = y.stream /\ x.body = y.body
  BY DEF Ended, ToRecord
<1> HIDE DEF x, y
<1>4. Worth(x, sent, sink)
  BY <1>3 DEF Worth, y
<1>5. Fits(x, sent, <<Bill(sink)>>)
  BY <1>2, <1>4 DEF Fits
<1>6. QED
  BY <1>1, <1>5 DEF x

LEMMA RecordFits ==
    ASSUME NEW how \in Hows, NEW stream \in BOOLEAN, NEW body \in Bodies \cup {<<>>},
           NEW sink \in Sinks, NEW sent,
           how = "complete" => SinkFits(body, Len(body), sink),
           stream => \E n \in 0 .. Len(body) : 3 * n <= sent /\ SinkFits(body, n, sink)
    PROVE  /\ ToRecord(how, stream, body, sink) \in Request
           /\ Fits(ToRecord(how, stream, body, sink), sent, <<>>)
<1> DEFINE x == ToRecord(how, stream, body, sink)
<1>1. x \in Request
  BY DEF ToRecord, Request, Hows, Sinks
<1>2. x.pc = "record" /\ x.how = how /\ x.stream = stream /\ x.body = body /\ x.sink = sink
  BY DEF ToRecord
<1> HIDE DEF x
<1>3. Worth(x, sent, x.sink)
  BY <1>2 DEF Worth
<1>4. Fits(x, sent, <<>>)
  BY <1>2, <1>3 DEF Fits
<1>5. QED
  BY <1>1, <1>4 DEF x

LEMMA StreamingFits ==
    ASSUME NEW body \in Bodies, NEW got \in Nat, got <= Len(Wire(body)),
           NEW sink \in Sinks, SinkFits(body, got \div 3, sink)
    PROVE  LET x == [pc |-> "streaming", body |-> body, got |-> got,
                     buffer |-> Rest(body, got), sink |-> sink]
           IN  x \in Request /\ Fits(x, got, <<>>)
<1> DEFINE buffer == Rest(body, got)
           x == [pc |-> "streaming", body |-> body, got |-> got, buffer |-> buffer, sink |-> sink]
<1>1. buffer \in Seq(Symbol)
  <2> DEFINE from == 3 * (got \div 3)
  <2>1. from \in Nat /\ from <= got /\ body \in Seq(Line)
    BY BodyIs
  <2> HIDE DEF from
  <2>2. SubSeq(Wire(body), from + 1, got) \in Seq(Symbol)
    BY <2>1, PieceOfWire
  <2>3. QED
    BY <2>2 DEF Rest, from
<1> HIDE DEF buffer
<1>2. x \in Request
  BY <1>1 DEF Request, Sinks
<1>3. /\ x.pc = "streaming" /\ x.body = body /\ x.got = got /\ x.buffer = buffer /\ x.sink = sink
  OBVIOUS
<1> HIDE DEF x
<1>4. Fits(x, got, <<>>)
  BY <1>3 DEF Fits, buffer
<1>5. QED
  BY <1>2, <1>4 DEF x, buffer

LEMMA YieldingFits ==
    ASSUME NEW body \in Bodies, NEW sent \in Nat, NEW got \in Nat, sent < got,
           got <= Len(Wire(body)), NEW buffer \in Seq(Symbol), buffer = Rest(body, sent),
           NEW sink \in Sinks, SinkFits(body, sent \div 3, sink)
    PROVE  LET x == [pc |-> "yielding", body |-> body, got |-> got,
                     chunk |-> SubSeq(Wire(body), sent + 1, got),
                     buffer |-> buffer, sink |-> sink]
           IN  x \in Request /\ Fits(x, sent, <<>>)
<1> DEFINE chunk == SubSeq(Wire(body), sent + 1, got)
           x == [pc |-> "yielding", body |-> body, got |-> got, chunk |-> chunk,
                 buffer |-> buffer, sink |-> sink]
<1>1. chunk \in Seq(Symbol)
  BY BodyIs, PieceOfWire
<1> HIDE DEF chunk
<1>2. x \in Request
  BY <1>1 DEF Request, Sinks
<1>3. /\ x.pc = "yielding" /\ x.body = body /\ x.got = got /\ x.chunk = chunk
      /\ x.buffer = buffer /\ x.sink = sink
  OBVIOUS
<1> HIDE DEF x
<1>4. Fits(x, sent, <<>>)
  BY <1>3 DEF Fits, chunk
<1>5. QED
  BY <1>2, <1>4 DEF x, chunk

----------------------------------------------------------------------------
(* Steps *)

LEMMA InitRelay == Init => RelayInv
<1> SUFFICES ASSUME Init
             PROVE  RelayInv
  OBVIOUS
<1>1. New \in Request
  BY DEF Request
<1>2. \A r \in Requests : req[r].pc = "new"
  BY DEF Init, New
<1>3. TypeOK
  <2>1. /\ req \in [Requests -> Request] /\ client \in [Requests -> BOOLEAN]
        /\ seen \in [Requests -> Nat] /\ rows \in [Requests -> Seq({0} \cup Totals)]
        /\ \A r \in Requests : rows[r] = <<>>
    BY <1>1, EmptySeq DEF Init
  <2>2. faults \in 0 .. MaxFaults
    BY FaultsAssumption DEF Init
  <2>3. QED
    BY <1>2, <2>1, <2>2 DEF TypeOK
<1>4. \A r \in Requests : Fits(req[r], seen[r], rows[r])
  BY <1>2 DEF Init, Fits
<1>5. Lost = {}
  BY <1>2 DEF Lost
<1>6. IsFiniteSet(Lost) /\ Cardinality(Lost) <= faults
  BY <1>5, FS_EmptySet DEF Init
<1>7. QED
  BY <1>3, <1>4, <1>6 DEF RelayInv

\* The relations in the type invariant follow from the rest.
LEMMA FitsTypes ==
    ASSUME NEW x \in Request, NEW sent \in Nat, NEW bills, Fits(x, sent, bills)
    PROVE  /\ bills # <<>> => x.pc = "ended"
           /\ x.pc \in {"streaming", "yielding"} => sent <= x.got /\ x.got <= Len(Wire(x.body))
<1>1. x.pc \in {"streaming", "yielding"} => x.got \in Nat
  BY RequestIs
<1>2. QED
  BY <1>1 DEF Fits

\* What the invariant says of one request.
LEMMA One ==
    ASSUME RelayInv, NEW r \in Requests
    PROVE  /\ req[r] \in Request /\ seen[r] \in Nat /\ client[r] \in BOOLEAN
           /\ rows[r] \in Seq({0} \cup Totals)
           /\ Fits(req[r], seen[r], rows[r])
           /\ ~(req[r].pc = "ended" /\ req[r].metered) => rows[r] = <<>>
<1>1. Fits(req[r], seen[r], rows[r])
  BY DEF RelayInv
<1>2. req[r] \in Request /\ seen[r] \in Nat /\ client[r] \in BOOLEAN
        /\ rows[r] \in Seq({0} \cup Totals)
  BY DEF RelayInv, TypeOK
<1>3. QED
  BY <1>1, <1>2 DEF Fits

\* One request moves.
LEMMA Moves ==
    ASSUME RelayInv, NEW r \in Requests,
           NEW x \in Request, NEW sent \in Nat, NEW bills \in Seq({0} \cup Totals),
           Fits(x, sent, bills),
           req' = [req EXCEPT ![r] = x], seen' = [seen EXCEPT ![r] = sent],
           rows' = [rows EXCEPT ![r] = bills],
           client' \in [Requests -> BOOLEAN], faults' \in 0 .. MaxFaults
    PROVE  TypeOK' /\ \A q \in Requests : Fits(req[q], seen[q], rows[q])'
<1>1. /\ req \in [Requests -> Request] /\ seen \in [Requests -> Nat]
      /\ rows \in [Requests -> Seq({0} \cup Totals)]
      /\ \A q \in Requests : Fits(req[q], seen[q], rows[q])
  BY DEF RelayInv, TypeOK
<1>2. /\ req' \in [Requests -> Request] /\ seen' \in [Requests -> Nat]
      /\ rows' \in [Requests -> Seq({0} \cup Totals)]
  BY <1>1
<1>3. ASSUME NEW q \in Requests
      PROVE  Fits(req'[q], seen'[q], rows'[q])
  <2>1. CASE q = r
    <3>1. req'[q] = x /\ seen'[q] = sent /\ rows'[q] = bills
      BY <1>1, <2>1
    <3>2. QED
      BY <3>1
  <2>2. CASE q # r
    <3>1. req'[q] = req[q] /\ seen'[q] = seen[q] /\ rows'[q] = rows[q]
      BY <1>1, <2>2
    <3>2. QED
      BY <1>1, <3>1
  <2>3. QED
    BY <2>1, <2>2
<1>4. TypeOK'
  <2>1. \A q \in Requests :
          /\ rows'[q] # <<>> => req'[q].pc = "ended"
          /\ req'[q].pc \in {"streaming", "yielding"} =>
               seen'[q] <= req'[q].got /\ req'[q].got <= Len(Wire(req'[q].body))
    <3> TAKE q \in Requests
    <3>1. req'[q] \in Request /\ seen'[q] \in Nat
      BY <1>2
    <3>2. QED
      BY <1>3, <3>1, FitsTypes
  <2>2. QED
    BY <1>2, <2>1 DEF TypeOK
<1>5. QED
  BY <1>3, <1>4

\* ... and nothing of it is lost.
LEMMA NotLost ==
    ASSUME RelayInv, NEW r \in Requests, NEW x, x.pc = "ended" => x.metered \/ ~(x.how \in {"answer", "complete", "error"})
               \/ (x.how = "error" /\ ~x.stream) \/ (x.stream /\ ~client'[r]),
           req' = [req EXCEPT ![r] = x],
           \A q \in Requests : q # r => client'[q] = client[q],
           faults' = faults
    PROVE  IsFiniteSet(Lost') /\ Cardinality(Lost') <= faults'
<1>1. req \in [Requests -> Request] /\ faults \in Nat /\ IsFiniteSet(Lost) /\ Cardinality(Lost) <= faults
  BY FaultsAssumption DEF RelayInv, TypeOK
<1>2. req'[r] = x /\ \A q \in Requests : q # r => req'[q] = req[q]
  BY <1>1
<1>3. Lost' \subseteq Lost
  BY <1>2 DEF Lost
<1>4. IsFiniteSet(Lost') /\ Cardinality(Lost') <= Cardinality(Lost)
  BY <1>1, <1>3, FS_Subset
<1>5. Cardinality(Lost') \in Nat /\ Cardinality(Lost) \in Nat
  BY <1>1, <1>4, FS_CardinalityType
<1>6. QED
  BY <1>1, <1>4, <1>5

\* The two together, for the steps that neither write a row nor fail.
LEMMA Steps ==
    ASSUME RelayInv, NEW r \in Requests,
           NEW x \in Request, NEW sent \in Nat, Fits(x, sent, <<>>),
           ~(req[r].pc = "ended"),
           x.pc = "ended" => ~(x.how \in {"answer", "complete", "error"})
               \/ (x.how = "error" /\ ~x.stream) \/ (x.stream /\ ~client'[r]),
           req' = [req EXCEPT ![r] = x], seen' = [seen EXCEPT ![r] = sent],
           rows' = rows, faults' = faults,
           client' = client \/ client' = [client EXCEPT ![r] = FALSE]
    PROVE  RelayInv'
<1>1. /\ rows \in [Requests -> Seq({0} \cup Totals)] /\ faults \in 0 .. MaxFaults
      /\ client \in [Requests -> BOOLEAN]
  BY DEF RelayInv, TypeOK
<1>2. rows[r] = <<>>
  BY One
<1>3. rows' = [rows EXCEPT ![r] = <<>>]
  BY <1>1, <1>2
<1>4. client' \in [Requests -> BOOLEAN] /\ \A q \in Requests : q # r => client'[q] = client[q]
  BY <1>1
<1>5. TypeOK' /\ \A q \in Requests : Fits(req[q], seen[q], rows[q])'
  BY <1>1, <1>3, <1>4, EmptySeq, Moves
<1>6. IsFiniteSet(Lost') /\ Cardinality(Lost') <= faults'
  BY <1>4, NotLost
<1>7. QED
  BY <1>5, <1>6 DEF RelayInv

\* A stream that stops where it stands is worth what its caller was sent.
LEMMA StreamWorth ==
    ASSUME NEW body \in Bodies, NEW sink, NEW p \in Nat, NEW sent \in Nat, p <= sent,
           p <= Len(Wire(body)), SinkFits(body, p \div 3, sink)
    PROVE  \E n \in 0 .. Len(body) : 3 * n <= sent /\ SinkFits(body, n, sink)
<1>1. Len(body) \in Nat /\ Len(Wire(body)) = 3 * Len(body)
  BY BodyIs
<1>2. p \div 3 \in 0 .. Len(body) /\ 3 * (p \div 3) <= sent
  BY <1>1
<1>3. QED
  BY <1>2

\* Nothing has been read of nothing.
LEMMA NothingRead ==
    ASSUME NEW body
    PROVE  SinkFits(body, 0, NoUsage)
BY DEF SinkFits

LEMMA RejectStep ==
    ASSUME RelayInv, NEW r \in Requests, Reject(r)
    PROVE  RelayInv'
<1> DEFINE x == Ended("refused", FALSE, <<>>, FALSE)
<1>1. req' = [req EXCEPT ![r] = x] /\ req[r] = New /\ UNCHANGED <<client, seen, rows, faults>>
  BY DEF Reject
<1>2. seen \in [Requests -> Nat] /\ seen' = [seen EXCEPT ![r] = seen[r]]
  BY <1>1 DEF RelayInv, TypeOK
<1>3. x \in Request /\ Fits(x, seen[r], <<>>)
  BY EndedFits DEF Hows
<1>4. x.how = "refused" /\ req[r].pc # "ended"
  BY <1>1 DEF Ended, New
<1> HIDE DEF x
<1>5. QED
  BY <1>1, <1>2, <1>3, <1>4, One, Steps

LEMMA PostStep ==
    ASSUME RelayInv, NEW r \in Requests, NEW stream \in BOOLEAN, Post(r, stream)
    PROVE  RelayInv'
<1> DEFINE x == [pc |-> "posted", stream |-> stream]
<1>1. req' = [req EXCEPT ![r] = x] /\ req[r] = New /\ UNCHANGED <<client, seen, rows, faults>>
  BY DEF Post
<1>2. seen \in [Requests -> Nat] /\ seen' = [seen EXCEPT ![r] = seen[r]]
  BY <1>1 DEF RelayInv, TypeOK
<1>3. req[r].pc = "new"
  BY <1>1 DEF New
<1>4. x \in Request /\ Fits(x, seen[r], <<>>) /\ x.pc # "ended"
  <2>1. seen[r] = 0
    BY <1>3, One DEF Fits
  <2>2. x \in Request
    BY DEF Request
  <2>3. x.pc = "posted"
    OBVIOUS
  <2> HIDE DEF x
  <2>4. QED
    BY <2>1, <2>2, <2>3 DEF Fits
<1> HIDE DEF x
<1>5. QED
  BY <1>1, <1>2, <1>3, <1>4, One, Steps

LEMMA AnswerErrorStep ==
    ASSUME RelayInv, NEW r \in Requests, AnswerError(r)
    PROVE  RelayInv'
<1> DEFINE x == Ended("error", FALSE, <<>>, FALSE)
<1>1. req' = [req EXCEPT ![r] = x] /\ req[r].pc = "posted" /\ UNCHANGED <<client, seen, rows, faults>>
  BY DEF AnswerError
<1>2. seen \in [Requests -> Nat] /\ seen' = [seen EXCEPT ![r] = seen[r]]
  BY <1>1 DEF RelayInv, TypeOK
<1>3. x \in Request /\ Fits(x, seen[r], <<>>)
  BY EndedFits DEF Hows
<1>4. x.how = "error" /\ ~x.stream
  BY DEF Ended
<1> HIDE DEF x
<1>5. QED
  BY <1>1, <1>2, <1>3, <1>4, One, Steps

\* Control goes to metering.record, and the caller was sent what it was sent.
LEMMA ToRecordStep ==
    ASSUME RelayInv, NEW r \in Requests, req[r].pc # "ended",
           NEW how \in Hows, NEW stream \in BOOLEAN, NEW body \in Bodies \cup {<<>>},
           NEW sink \in Sinks, NEW sent \in Nat,
           how = "complete" => SinkFits(body, Len(body), sink),
           stream => \E n \in 0 .. Len(body) : 3 * n <= sent /\ SinkFits(body, n, sink),
           req' = [req EXCEPT ![r] = ToRecord(how, stream, body, sink)],
           seen' = [seen EXCEPT ![r] = sent],
           rows' = rows, faults' = faults,
           client' = client \/ client' = [client EXCEPT ![r] = FALSE]
    PROVE  RelayInv'
<1> DEFINE x == ToRecord(how, stream, body, sink)
<1>1. x \in Request /\ Fits(x, sent, <<>>)
  BY RecordFits
<1>2. x.pc = "record" /\ req' = [req EXCEPT ![r] = x]
  BY DEF ToRecord
<1> HIDE DEF x
<1>3. QED
  BY <1>1, <1>2, Steps

LEMMA AnswerStep ==
    ASSUME RelayInv, NEW r \in Requests, Answer(r)
    PROVE  RelayInv'
<1>1. PICK usage \in Sinks : req' = [req EXCEPT ![r] = ToRecord("answer", FALSE, <<>>, usage)]
  BY DEF Answer, Sinks
<1>2. req[r].pc = "posted" /\ UNCHANGED <<client, seen, rows, faults>>
  BY DEF Answer
<1>3. seen[r] \in Nat /\ seen' = [seen EXCEPT ![r] = seen[r]]
  BY <1>2 DEF RelayInv, TypeOK
<1>4. "answer" \in Hows
  BY DEF Hows
<1>5. QED
  BY <1>1, <1>2, <1>3, <1>4, ToRecordStep

LEMMA StreamErrorStep ==
    ASSUME RelayInv, NEW r \in Requests, StreamError(r)
    PROVE  RelayInv'
<1>1. /\ req' = [req EXCEPT ![r] = ToRecord("error", TRUE, <<>>, NoUsage)]
      /\ req[r].pc = "posted" /\ UNCHANGED <<client, seen, rows, faults>>
  BY DEF StreamError
<1>2. seen[r] \in Nat /\ seen' = [seen EXCEPT ![r] = seen[r]]
  BY <1>1 DEF RelayInv, TypeOK
<1>3. \E n \in 0 .. Len(<<>>) : 3 * n <= seen[r] /\ SinkFits(<<>>, n, NoUsage)
  BY <1>2, NothingRead
<1>4. "error" \in Hows /\ NoUsage \in Sinks
  BY DEF Hows, Sinks
<1>5. QED
  BY <1>1, <1>2, <1>3, <1>4, ToRecordStep

LEMMA OpenStreamStep ==
    ASSUME RelayInv, NEW r \in Requests, OpenStream(r)
    PROVE  RelayInv'
<1>1. PICK body \in Bodies :
        req' = [req EXCEPT ![r] = [pc |-> "streaming", body |-> body, got |-> 0,
                                   buffer |-> <<>>, sink |-> NoUsage]]
  BY DEF OpenStream
<1>2. req[r].pc = "posted" /\ UNCHANGED <<client, seen, rows, faults>>
  BY DEF OpenStream
<1>3. seen[r] = 0 /\ seen' = [seen EXCEPT ![r] = 0]
  <2>1. seen[r] = 0
    BY <1>2, One DEF Fits
  <2>2. QED
    BY <1>2, <2>1 DEF RelayInv, TypeOK
<1> DEFINE x == [pc |-> "streaming", body |-> body, got |-> 0,
                 buffer |-> <<>>, sink |-> NoUsage]
<1>4. x \in Request /\ Fits(x, 0, <<>>)
  <2>1. NoUsage \in Sinks /\ 0 <= Len(Wire(body)) /\ 0 \div 3 = 0
    BY BodyIs DEF Sinks
  <2>2. Rest(body, 0) = <<>>
    <3>1. 3 * (0 \div 3) + 1 = 1
      OBVIOUS
    <3>2. SubSeq(Wire(body), 1, 0) = <<>>
      BY SubSeqEmpty
    <3>3. QED
      BY <3>1, <3>2 DEF Rest
  <2>3. SinkFits(body, 0 \div 3, NoUsage)
    BY <2>1, NothingRead
  <2>4. LET y == [pc |-> "streaming", body |-> body, got |-> 0,
                  buffer |-> Rest(body, 0), sink |-> NoUsage]
        IN  y \in Request /\ Fits(y, 0, <<>>)
    BY <2>1, <2>3, StreamingFits
  <2>5. QED
    BY <2>2, <2>4
<1>5. x.pc = "streaming" /\ req' = [req EXCEPT ![r] = x]
  BY <1>1
<1> HIDE DEF x
<1>6. seen[r] \in Nat /\ Fits(x, seen[r], <<>>) /\ seen' = [seen EXCEPT ![r] = seen[r]]
  BY <1>3, <1>4
<1>7. QED
  BY <1>2, <1>4, <1>5, <1>6, Steps

\* A stream that is being relayed.
LEMMA Streaming ==
    ASSUME RelayInv, NEW r \in Requests, req[r].pc = "streaming"
    PROVE  /\ req[r].body \in Bodies /\ req[r].got \in Nat /\ req[r].sink \in Sinks
           /\ req[r].buffer \in Seq(Symbol)
           /\ seen[r] = req[r].got /\ req[r].got <= Len(Wire(req[r].body))
           /\ req[r].buffer = Rest(req[r].body, req[r].got)
           /\ SinkFits(req[r].body, req[r].got \div 3, req[r].sink)
BY One, RequestIs DEF Fits

LEMMA Yielding ==
    ASSUME RelayInv, NEW r \in Requests, req[r].pc = "yielding"
    PROVE  /\ req[r].body \in Bodies /\ req[r].got \in Nat /\ req[r].sink \in Sinks
           /\ seen[r] \in Nat
           /\ seen[r] < req[r].got /\ req[r].got <= Len(Wire(req[r].body))
           /\ req[r].chunk = SubSeq(Wire(req[r].body), seen[r] + 1, req[r].got)
           /\ req[r].buffer = Rest(req[r].body, seen[r])
           /\ SinkFits(req[r].body, seen[r] \div 3, req[r].sink)
BY One, RequestIs DEF Fits

LEMMA ChunkStep ==
    ASSUME RelayInv, NEW r \in Requests, Chunk(r)
    PROVE  RelayInv'
<1>1. req[r].pc = "streaming" /\ UNCHANGED <<client, seen, rows, faults>>
  BY DEF Chunk
<1> DEFINE body == req[r].body
           got == req[r].got
<1>2. PICK n \in got + 1 .. Len(Wire(body)) :
        req' = [req EXCEPT ![r] = [pc |-> "yielding", body |-> body, got |-> n,
                                   chunk |-> SubSeq(Wire(body), got + 1, n),
                                   buffer |-> req[r].buffer, sink |-> req[r].sink]]
  BY DEF Chunk
<1>3. /\ body \in Bodies /\ got \in Nat /\ req[r].sink \in Sinks /\ req[r].buffer \in Seq(Symbol)
      /\ seen[r] = got /\ req[r].buffer = Rest(body, got)
      /\ SinkFits(body, got \div 3, req[r].sink)
  BY <1>1, Streaming
<1> HIDE DEF body, got
<1>4. Len(Wire(body)) \in Nat
  BY <1>3, BodyIs
<1>5. n \in Nat /\ got < n /\ n <= Len(Wire(body))
  BY <1>3, <1>4
<1> DEFINE x == [pc |-> "yielding", body |-> body, got |-> n,
                 chunk |-> SubSeq(Wire(body), got + 1, n),
                 buffer |-> req[r].buffer, sink |-> req[r].sink]
<1>6. x \in Request /\ Fits(x, got, <<>>)
  BY <1>3, <1>5, YieldingFits
<1>7. x.pc = "yielding" /\ req' = [req EXCEPT ![r] = x]
  BY <1>2
<1> HIDE DEF x
<1>8. seen' = [seen EXCEPT ![r] = got]
  BY <1>1, <1>3 DEF RelayInv, TypeOK
<1>9. QED
  BY <1>1, <1>3, <1>6, <1>7, <1>8, Steps

LEMMA ResumeStep ==
    ASSUME RelayInv, NEW r \in Requests, Resume(r)
    PROVE  RelayInv'
<1>1. req[r].pc = "yielding" /\ UNCHANGED <<client, rows, faults>>
  BY DEF Resume
<1> DEFINE body == req[r].body
           got == req[r].got
           parsed == Buffered(req[r].buffer, req[r].chunk, req[r].sink)
<1>2. /\ req' = [req EXCEPT ![r] = [pc |-> "streaming", body |-> body, got |-> got,
                                    buffer |-> parsed.buffer, sink |-> parsed.sink]]
      /\ seen' = [seen EXCEPT ![r] = got]
  BY DEF Resume
<1>3. /\ body \in Bodies /\ got \in Nat /\ seen[r] \in Nat /\ seen[r] < got
      /\ got <= Len(Wire(body))
      /\ req[r].chunk = SubSeq(Wire(body), seen[r] + 1, got)
      /\ req[r].buffer = Rest(body, seen[r])
      /\ SinkFits(body, seen[r] \div 3, req[r].sink)
  BY <1>1, Yielding
<1>4. parsed.buffer = Rest(body, got) /\ SinkFits(body, got \div 3, parsed.sink)
  <2> HIDE DEF body, got
  <2>1. body \in Seq(Line) /\ seen[r] <= got
    BY <1>3, BodyIs
  <2>2. LET new == Buffered(Rest(body, seen[r]), SubSeq(Wire(body), seen[r] + 1, got), req[r].sink)
        IN  new.buffer = Rest(body, got) /\ SinkFits(body, got \div 3, new.sink)
    BY <1>3, <2>1, CutsDoNotMatter
  <2>3. QED
    BY <1>3, <2>2
<1> HIDE DEF body, got, parsed
<1>5. parsed.sink \in Sinks
  <2>1. body \in Seq(Line) /\ Len(body) \in Nat /\ got \div 3 \in Nat /\ got \div 3 <= Len(body)
    BY <1>3, BodyIs
  <2>2. \A i \in 1 .. got \div 3 : body[i].kind = "usage" => body[i].total \in Totals
    <3> TAKE i \in 1 .. got \div 3
    <3>1. i \in 1 .. Len(body)
      BY <2>1
    <3>2. body[i] \in Line
      BY <2>1, <3>1, ElementOfSeq
    <3>3. QED
      BY <3>2 DEF Line
  <2>3. QED
    BY <1>4, <2>2 DEF SinkFits, Sinks
<1> DEFINE x == [pc |-> "streaming", body |-> body, got |-> got,
                 buffer |-> parsed.buffer, sink |-> parsed.sink]
<1>6. x \in Request /\ Fits(x, got, <<>>)
  <2>1. LET y == [pc |-> "streaming", body |-> body, got |-> got,
                  buffer |-> Rest(body, got), sink |-> parsed.sink]
        IN  y \in Request /\ Fits(y, got, <<>>)
    BY <1>3, <1>4, <1>5, StreamingFits
  <2>2. QED
    BY <1>4, <2>1
<1>7. x.pc = "streaming" /\ req' = [req EXCEPT ![r] = x]
  BY <1>2
<1> HIDE DEF x
<1>8. QED
  BY <1>1, <1>2, <1>3, <1>6, <1>7, Steps

LEMMA EndOfStreamStep ==
    ASSUME RelayInv, NEW r \in Requests, EndOfStream(r)
    PROVE  RelayInv'
<1>1. req[r].pc = "streaming" /\ UNCHANGED <<client, seen, rows, faults>>
  BY DEF EndOfStream
<1> DEFINE body == req[r].body
           got == req[r].got
           sink == req[r].sink
<1>2. /\ got = Len(Wire(body))
      /\ req' = [req EXCEPT ![r] = ToRecord("complete", TRUE, body, sink)]
  BY DEF EndOfStream
<1>3. /\ body \in Bodies /\ got \in Nat /\ sink \in Sinks /\ seen[r] = got
      /\ got <= Len(Wire(body)) /\ SinkFits(body, got \div 3, sink)
  BY <1>1, Streaming
<1>4. seen' = [seen EXCEPT ![r] = got]
  BY <1>1, <1>3 DEF RelayInv, TypeOK
<1> HIDE DEF body, got, sink
<1>5. SinkFits(body, Len(body), sink)
  <2>1. Len(body) \in Nat /\ Len(Wire(body)) = 3 * Len(body)
    BY <1>3, BodyIs
  <2>2. got \div 3 = Len(body)
    BY <1>2, <2>1
  <2>3. QED
    BY <1>3, <2>2
<1>6. \E n \in 0 .. Len(body) : 3 * n <= got /\ SinkFits(body, n, sink)
  BY <1>3, StreamWorth
<1>7. "complete" \in Hows
  BY DEF Hows
<1>8. QED
  BY <1>1, <1>2, <1>3, <1>4, <1>5, <1>6, <1>7, ToRecordStep

LEMMA BreakOffStep ==
    ASSUME RelayInv, NEW r \in Requests, BreakOff(r)
    PROVE  RelayInv'
<1>1. req[r].pc = "streaming" /\ UNCHANGED <<client, seen, rows, faults>>
  BY DEF BreakOff
<1> DEFINE body == req[r].body
           got == req[r].got
           sink == req[r].sink
<1>2. req' = [req EXCEPT ![r] = ToRecord("error", TRUE, body, sink)]
  BY DEF BreakOff
<1>3. /\ body \in Bodies /\ got \in Nat /\ sink \in Sinks /\ seen[r] = got
      /\ got <= Len(Wire(body)) /\ SinkFits(body, got \div 3, sink)
  BY <1>1, Streaming
<1>4. seen' = [seen EXCEPT ![r] = got]
  BY <1>1, <1>3 DEF RelayInv, TypeOK
<1> HIDE DEF body, got, sink
<1>5. \E n \in 0 .. Len(body) : 3 * n <= got /\ SinkFits(body, n, sink)
  BY <1>3, StreamWorth
<1>6. "error" \in Hows
  BY DEF Hows
<1>7. QED
  BY <1>1, <1>2, <1>3, <1>4, <1>5, <1>6, ToRecordStep

\* The caller of a plain request, or of one whose row is being written, hangs
\* up: the handler runs on.
LEMMA HangUpElsewhere ==
    ASSUME RelayInv, NEW r \in Requests, req[r].pc \in {"posted", "record"},
           UNCHANGED <<req, seen, rows, faults>>, client' = [client EXCEPT ![r] = FALSE]
    PROVE  RelayInv'
<1>1. /\ req \in [Requests -> Request] /\ seen \in [Requests -> Nat] /\ req[r] \in Request
      /\ seen[r] \in Nat
  BY DEF RelayInv, TypeOK
<1>2. req' = [req EXCEPT ![r] = req[r]] /\ seen' = [seen EXCEPT ![r] = seen[r]]
  BY <1>1
<1>3. Fits(req[r], seen[r], <<>>)
  <2>1. rows[r] = <<>> /\ Fits(req[r], seen[r], rows[r])
    BY One
  <2>2. QED
    BY <2>1
<1>4. QED
  BY <1>1, <1>2, <1>3, Steps

LEMMA HangUpStep ==
    ASSUME RelayInv, NEW r \in Requests, HangUp(r)
    PROVE  RelayInv'
<1>1. /\ req[r].pc \in {"posted", "streaming", "yielding", "record"}
      /\ client' = [client EXCEPT ![r] = FALSE] /\ UNCHANGED <<rows, faults>>
  BY DEF HangUp
<1>2. "cancelled" \in Hows /\ NoUsage \in Sinks
  BY DEF Hows, Sinks
<1>3. seen \in [Requests -> Nat] /\ seen[r] \in Nat /\ seen = [seen EXCEPT ![r] = seen[r]]
  BY DEF RelayInv, TypeOK
<1>4. CASE req[r].pc = "posted" /\ req[r].stream
  <2>1. /\ req' = [req EXCEPT ![r] = ToRecord("cancelled", TRUE, <<>>, NoUsage)]
        /\ UNCHANGED seen
    BY <1>4 DEF HangUp
  <2>2. \E n \in 0 .. Len(<<>>) : 3 * n <= seen[r] /\ SinkFits(<<>>, n, NoUsage)
    BY <1>3, NothingRead
  <2>3. QED
    BY <1>1, <1>2, <1>3, <1>4, <2>1, <2>2, ToRecordStep
<1>5. CASE req[r].pc \in {"streaming", "yielding"}
  <2> DEFINE body == req[r].body
             got == req[r].got
             sink == req[r].sink
  <2>1. /\ req' = [req EXCEPT ![r] = ToRecord("cancelled", TRUE, body, sink)]
        /\ seen' \in {seen, [seen EXCEPT ![r] = got]}
    BY <1>5 DEF HangUp
  <2>2. PICK sent \in {seen[r], got} : seen' = [seen EXCEPT ![r] = sent]
    BY <1>3, <2>1
  <2>3. /\ body \in Bodies /\ got \in Nat /\ sink \in Sinks
        /\ seen[r] <= got /\ got <= Len(Wire(body)) /\ SinkFits(body, seen[r] \div 3, sink)
    <3>1. CASE req[r].pc = "streaming"
      <4>1. /\ body \in Bodies /\ got \in Nat /\ sink \in Sinks
            /\ seen[r] = got /\ got <= Len(Wire(body)) /\ SinkFits(body, got \div 3, sink)
        BY <3>1, Streaming
      <4>2. QED
        BY <4>1
    <3>2. CASE req[r].pc = "yielding"
      BY <1>3, <3>2, Yielding
    <3>3. QED
      BY <1>5, <3>1, <3>2
  <2> HIDE DEF body, got, sink
  <2>4. sent \in Nat /\ seen[r] <= sent /\ seen[r] <= Len(Wire(body))
    <3>1. Len(Wire(body)) \in Nat
      BY <2>3, BodyIs
    <3>2. QED
      BY <1>3, <2>3, <3>1
  <2>5. \E n \in 0 .. Len(body) : 3 * n <= sent /\ SinkFits(body, n, sink)
    BY <1>3, <2>3, <2>4, StreamWorth
  <2>6. QED
    BY <1>1, <1>2, <1>5, <2>1, <2>2, <2>3, <2>4, <2>5, ToRecordStep
<1>6. CASE ~(req[r].pc = "posted" /\ req[r].stream) /\ req[r].pc \notin {"streaming", "yielding"}
  <2>1. UNCHANGED <<req, seen>>
    BY <1>6 DEF HangUp
  <2>2. QED
    BY <1>1, <1>6, <2>1, HangUpElsewhere
<1>7. QED
  BY <1>4, <1>5, <1>6

\* A request whose row is about to be written.
LEMMA Recording ==
    ASSUME RelayInv, NEW r \in Requests, req[r].pc = "record"
    PROVE  /\ req[r].how \in Hows /\ req[r].stream \in BOOLEAN
           /\ req[r].body \in Bodies \cup {<<>>} /\ req[r].sink \in Sinks
           /\ seen[r] \in Nat /\ rows[r] = <<>> /\ Worth(req[r], seen[r], req[r].sink)
BY One, RequestIs DEF Fits

LEMMA RecordStep ==
    ASSUME RelayInv, NEW r \in Requests, Record(r)
    PROVE  RelayInv'
<1>1. /\ req[r].pc = "record" /\ UNCHANGED <<client, seen, faults>>
      /\ rows' = [rows EXCEPT ![r] = Billed(r)]
      /\ req' = [req EXCEPT ![r] = After(r, TRUE)]
  BY DEF Record
<1> DEFINE how == req[r].how
           stream == req[r].stream
           body == req[r].body
           sink == req[r].sink
           x == Ended(how, stream, body, TRUE)
<1>2. /\ how \in Hows /\ stream \in BOOLEAN /\ body \in Bodies \cup {<<>>} /\ sink \in Sinks
      /\ seen[r] \in Nat /\ rows[r] = <<>> /\ Worth(req[r], seen[r], sink)
  BY <1>1, Recording
<1>3. req' = [req EXCEPT ![r] = x]
  BY <1>1 DEF After
<1>4. rows' = [rows EXCEPT ![r] = <<Bill(sink)>>] /\ <<Bill(sink)>> \in Seq({0} \cup Totals)
  <2>1. Billed(r) = <<Bill(sink)>>
    <3>1. Billed(r) = Append(<<>>, Bill(sink))
      BY <1>2 DEF Billed, Bill
    <3> HIDE DEF sink
    <3>2. QED
      BY <3>1
  <2>2. Bill(sink) \in {0} \cup Totals
    BY <1>2 DEF Bill, Sinks
  <2> HIDE DEF sink
  <2>3. QED
    BY <1>1, <2>1, <2>2
<1>5. Worth(ToRecord(how, stream, body, sink), seen[r], sink)
  <2>1. \E y : y = ToRecord(how, stream, body, sink)
    OBVIOUS
  <2>2. PICK y : y = ToRecord(how, stream, body, sink)
    BY <2>1
  <2>3. y.how = req[r].how /\ y.stream = req[r].stream /\ y.body = req[r].body
    BY <2>2 DEF ToRecord
  <2>4. Worth(y, seen[r], sink)
    BY <1>2, <2>3 DEF Worth
  <2>5. QED
    BY <2>2, <2>4
<1>6. x.pc = "ended" /\ x.metered
  BY DEF Ended
<1> HIDE DEF how, stream, body, sink
<1>7. x \in Request /\ Fits(x, seen[r], <<Bill(sink)>>)
  BY <1>2, <1>5, MeteredFits
<1> HIDE DEF x
<1>8. /\ seen' = [seen EXCEPT ![r] = seen[r]] /\ client' \in [Requests -> BOOLEAN]
      /\ faults' \in 0 .. MaxFaults
  BY <1>1 DEF RelayInv, TypeOK
<1>9. TypeOK' /\ \A q \in Requests : Fits(req[q], seen[q], rows[q])'
  BY <1>2, <1>3, <1>4, <1>7, <1>8, Moves
<1>10. IsFiniteSet(Lost') /\ Cardinality(Lost') <= faults'
  BY <1>1, <1>3, <1>6, NotLost
<1>11. QED
  BY <1>9, <1>10 DEF RelayInv

\* The row is not written: the request ends with what it knows.
LEMMA Unmetered ==
    ASSUME RelayInv, NEW r \in Requests, req[r].pc = "record",
           req' = [req EXCEPT ![r] = After(r, FALSE)]
    PROVE  \E x \in Request : /\ req' = [req EXCEPT ![r] = x]
                              /\ Fits(x, seen[r], <<>>)
                              /\ x.pc = "ended" /\ x.stream = req[r].stream
<1> DEFINE x == Ended(req[r].how, req[r].stream, req[r].body, FALSE)
<1>1. x \in Request /\ Fits(x, seen[r], <<>>)
  BY Recording, EndedFits
<1>2. x.pc = "ended" /\ x.stream = req[r].stream
  BY DEF Ended
<1>3. req' = [req EXCEPT ![r] = x]
  BY DEF After
<1> HIDE DEF x
<1>4. QED
  BY <1>1, <1>2, <1>3

LEMMA RecordCancelledStep ==
    ASSUME RelayInv, NEW r \in Requests, RecordCancelled(r)
    PROVE  RelayInv'
<1>1. /\ req[r].pc = "record" /\ req[r].stream /\ ~client[r]
      /\ req' = [req EXCEPT ![r] = After(r, FALSE)]
      /\ UNCHANGED <<client, seen, rows, faults>>
  BY DEF RecordCancelled
<1>2. PICK x \in Request : /\ req' = [req EXCEPT ![r] = x] /\ Fits(x, seen[r], <<>>)
                           /\ x.pc = "ended" /\ x.stream = req[r].stream
  BY <1>1, Unmetered
<1>3. seen[r] \in Nat /\ seen' = [seen EXCEPT ![r] = seen[r]]
  BY <1>1 DEF RelayInv, TypeOK
<1>4. QED
  BY <1>1, <1>2, <1>3, Steps

\* The one step that may lose a row that nobody gave up: it is a fault.
LEMMA RecordFailsStep ==
    ASSUME RelayInv, NEW r \in Requests, RecordFails(r)
    PROVE  RelayInv'
<1>1. /\ req[r].pc = "record" /\ req' = [req EXCEPT ![r] = After(r, FALSE)]
      /\ faults < MaxFaults /\ faults' = faults + 1
      /\ UNCHANGED <<client, seen, rows>>
  BY DEF RecordFails
<1>2. PICK x \in Request : req' = [req EXCEPT ![r] = x] /\ Fits(x, seen[r], <<>>)
  BY <1>1, Unmetered
<1>3. /\ req \in [Requests -> Request] /\ seen[r] \in Nat /\ seen' = [seen EXCEPT ![r] = seen[r]]
      /\ client' \in [Requests -> BOOLEAN] /\ faults \in Nat /\ faults' \in 0 .. MaxFaults
      /\ IsFiniteSet(Lost) /\ Cardinality(Lost) <= faults
  BY <1>1, FaultsAssumption DEF RelayInv, TypeOK
<1>4. rows' = [rows EXCEPT ![r] = <<>>]
  <2>1. rows[r] = <<>>
    BY <1>1, Recording
  <2>2. QED
    BY <1>1, <2>1 DEF RelayInv, TypeOK
<1>5. TypeOK' /\ \A q \in Requests : Fits(req[q], seen[q], rows[q])'
  BY <1>2, <1>3, <1>4, EmptySeq, Moves
<1>6. Lost' \subseteq Lost \cup {r}
  <2>1. \A q \in Requests : q # r => req'[q] = req[q] /\ client'[q] = client[q]
    BY <1>1, <1>3
  <2>2. QED
    BY <2>1 DEF Lost
<1>7. IsFiniteSet(Lost \cup {r}) /\ Cardinality(Lost \cup {r}) <= faults + 1
  <2>1. /\ IsFiniteSet(Lost \cup {r})
        /\ Cardinality(Lost \cup {r}) =
             IF r \in Lost THEN Cardinality(Lost) ELSE Cardinality(Lost) + 1
    BY <1>3, FS_AddElement
  <2>2. Cardinality(Lost) \in Nat
    BY <1>3, FS_CardinalityType
  <2>3. QED
    BY <1>3, <2>1, <2>2
<1>8. IsFiniteSet(Lost') /\ Cardinality(Lost') <= Cardinality(Lost \cup {r})
  BY <1>6, <1>7, FS_Subset
<1>9. Cardinality(Lost') \in Nat /\ Cardinality(Lost \cup {r}) \in Nat
  BY <1>7, <1>8, FS_CardinalityType
<1>10. Cardinality(Lost') <= faults'
  BY <1>1, <1>3, <1>7, <1>8, <1>9
<1>11. QED
  BY <1>5, <1>8, <1>10 DEF RelayInv

LEMMA CrashStep ==
    ASSUME RelayInv, Crash
    PROVE  RelayInv'
<1> DEFINE Active(r) == req[r].pc \in {"posted", "streaming", "yielding", "record"}
           x == Ended("crashed", FALSE, <<>>, FALSE)
<1>1. /\ req' = [r \in Requests |-> IF Active(r) THEN x ELSE req[r]]
      /\ faults < MaxFaults /\ faults' = faults + 1 /\ UNCHANGED <<client, seen, rows>>
  BY DEF Crash
<1>2. /\ req \in [Requests -> Request] /\ seen \in [Requests -> Nat]
      /\ client \in [Requests -> BOOLEAN] /\ rows \in [Requests -> Seq({0} \cup Totals)]
      /\ faults \in Nat /\ faults' \in 0 .. MaxFaults
      /\ IsFiniteSet(Lost) /\ Cardinality(Lost) <= faults
  BY <1>1, FaultsAssumption DEF RelayInv, TypeOK
<1>3. x \in Request /\ \A sent : Fits(x, sent, <<>>)
  BY EndedFits DEF Hows
<1>4. x.pc = "ended" /\ x.how = "crashed"
  BY DEF Ended
<1> HIDE DEF x
<1>5. ASSUME NEW r \in Requests
      PROVE  Fits(req'[r], seen'[r], rows'[r]) /\ req'[r] \in Request
  <2>1. CASE Active(r)
    <3>1. rows[r] = <<>> /\ req'[r] = x
      BY <1>1, <2>1, One
    <3>2. QED
      BY <1>1, <1>3, <3>1
  <2>2. CASE ~Active(r)
    <3>1. req'[r] = req[r] /\ seen'[r] = seen[r] /\ rows'[r] = rows[r]
      BY <1>1, <2>2
    <3>2. QED
      BY <3>1, One
  <2>3. QED
    BY <2>1, <2>2
<1>6. TypeOK'
  <2>1. /\ req' \in [Requests -> Request] /\ seen' \in [Requests -> Nat]
        /\ client' \in [Requests -> BOOLEAN] /\ rows' \in [Requests -> Seq({0} \cup Totals)]
    BY <1>1, <1>2, <1>5
  <2>2. \A q \in Requests :
          /\ rows'[q] # <<>> => req'[q].pc = "ended"
          /\ req'[q].pc \in {"streaming", "yielding"} =>
               seen'[q] <= req'[q].got /\ req'[q].got <= Len(Wire(req'[q].body))
    <3> TAKE q \in Requests
    <3>1. seen'[q] \in Nat
      BY <2>1
    <3>2. QED
      BY <1>5, <3>1, FitsTypes
  <2>3. QED
    BY <1>2, <2>1, <2>2 DEF TypeOK
<1>7. Lost' \subseteq Lost
  <2>1. ASSUME NEW r \in Requests, r \in Lost'
        PROVE  r \in Lost
    <3>1. req'[r].how # "crashed"
      BY <2>1 DEF Lost
    <3>2. req'[r] = req[r] /\ client'[r] = client[r]
      BY <1>1, <1>4, <3>1
    <3>3. QED
      BY <2>1, <3>2 DEF Lost
  <2>2. QED
    BY <2>1 DEF Lost
<1>8. IsFiniteSet(Lost') /\ Cardinality(Lost') <= Cardinality(Lost)
  BY <1>2, <1>7, FS_Subset
<1>9. Cardinality(Lost') \in Nat /\ Cardinality(Lost) \in Nat
  BY <1>2, <1>8, FS_CardinalityType
<1>10. Cardinality(Lost') <= faults'
  BY <1>1, <1>2, <1>8, <1>9
<1>11. QED
  BY <1>5, <1>6, <1>8, <1>10 DEF RelayInv

LEMMA StutterStep ==
    ASSUME RelayInv, UNCHANGED vars
    PROVE  RelayInv'
<1>1. UNCHANGED <<req, client, seen, rows, faults>>
  BY DEF vars
<1>2. TypeOK'
  BY <1>1 DEF RelayInv, TypeOK
<1>3. Lost' = Lost
  BY <1>1 DEF Lost
<1>4. QED
  BY <1>1, <1>2, <1>3 DEF RelayInv

----------------------------------------------------------------------------
(* What the invariant says *)

\* The last usage line decides.
LEMMA ReportedIs ==
    ASSUME NEW body \in Seq(Line), NEW sink \in Sinks, SinkFits(body, Len(body), sink)
    PROVE  Bill(sink) = Reported(body)
<1>1. Len(body) \in Nat /\ DOMAIN body = 1 .. Len(body)
  BY LenProperties
<1>2. CASE sink = NoUsage /\ \A i \in 1 .. Len(body) : body[i].kind # "usage"
  <2>1. Usages(body) = {}
    BY <1>1, <1>2 DEF Usages
  <2>2. QED
    BY <1>2, <2>1 DEF Bill, Reported
<1>3. CASE \E i \in 1 .. Len(body) : /\ body[i].kind = "usage" /\ sink = body[i].total
                                     /\ \A j \in i + 1 .. Len(body) : body[j].kind # "usage"
  <2>1. PICK i \in 1 .. Len(body) : /\ body[i].kind = "usage" /\ sink = body[i].total
                                    /\ \A j \in i + 1 .. Len(body) : body[j].kind # "usage"
    BY <1>3
  <2>2. i \in Usages(body) /\ Usages(body) \subseteq Nat
    BY <1>1, <2>1 DEF Usages
  <2>3. \A j \in Usages(body) : j <= i
    <3> TAKE j \in Usages(body)
    <3>1. j \in 1 .. Len(body) /\ body[j].kind = "usage"
      BY <1>1 DEF Usages
    <3>2. ~(j \in i + 1 .. Len(body))
      BY <2>1, <3>1
    <3>3. QED
      BY <1>1, <3>1, <3>2
  <2>4. \A k \in Usages(body) : (\A j \in Usages(body) : j <= k) => k = i
    <3> TAKE k \in Usages(body)
    <3> HAVE \A j \in Usages(body) : j <= k
    <3>1. k <= i /\ i <= k /\ k \in Nat /\ i \in Nat
      BY <2>2, <2>3
    <3>2. QED
      BY <3>1
  <2>5. (CHOOSE k \in Usages(body) : \A j \in Usages(body) : j <= k) = i
    BY <2>2, <2>3, <2>4
  <2>6. Reported(body) = sink
    BY <2>1, <2>2, <2>5 DEF Reported
  <2>7. sink # NoUsage
    <3>1. body[i] \in Line
      BY <1>1, ElementOfSeq
    <3>2. sink \in Totals
      BY <2>1, <3>1 DEF Line
    <3>3. QED
      BY <3>2, TotalsAssumption
  <2>8. QED
    BY <2>6, <2>7 DEF Bill
<1>4. QED
  BY <1>2, <1>3 DEF SinkFits

LEMMA RelayIsCompleteBilling == RelayInv => CompleteStreamsAreBilled
<1> SUFFICES ASSUME RelayInv, NEW r \in Requests,
                    req[r].pc = "ended", req[r].how = "complete", req[r].metered
             PROVE  rows[r] = <<Reported(req[r].body)>>
  BY DEF CompleteStreamsAreBilled
<1>1. PICK sink \in Sinks : rows[r] = <<Bill(sink)>> /\ Worth(req[r], seen[r], sink)
  BY One DEF Fits
<1>2. SinkFits(req[r].body, Len(req[r].body), sink)
  BY <1>1 DEF Worth
<1>3. req[r].body \in Seq(Line)
  BY One, RequestIs, BodyIs
<1>4. QED
  BY <1>1, <1>2, <1>3, ReportedIs

\* The same of the first n lines.
LEMMA PrefixReports ==
    ASSUME NEW body \in Seq(Line), NEW n \in 0 .. Len(body), NEW sink \in Sinks,
           SinkFits(body, n, sink)
    PROVE  Bill(sink) = Reported(SubSeq(body, 1, n))
<1> DEFINE prefix == SubSeq(body, 1, n)
<1>1. n \in Nat /\ n <= Len(body)
  BY LenProperties
<1>2. \A i \in 1 .. n : body[i] \in Line
  <2> TAKE i \in 1 .. n
  <2>1. i \in 1 .. Len(body)
    BY <1>1, LenProperties
  <2>2. QED
    BY <2>1, ElementOfSeq
<1>3. /\ prefix \in Seq(Line) /\ Len(prefix) = IF 1 <= n THEN n - 1 + 1 ELSE 0
      /\ \A i \in 1 .. n - 1 + 1 : prefix[i] = body[1 + i - 1]
  BY <1>1, <1>2, SubSeqProperties
<1> HIDE DEF prefix
<1>4. Len(prefix) = n /\ \A i \in 1 .. n : prefix[i] = body[i]
  <2>1. Len(prefix) = n
    BY <1>1, <1>3
  <2>2. ASSUME NEW i \in 1 .. n
        PROVE  prefix[i] = body[i]
    <3>1. i \in 1 .. n - 1 + 1 /\ 1 + i - 1 = i
      BY <1>1
    <3>2. QED
      BY <1>3, <3>1
  <2>3. QED
    BY <2>1, <2>2
<1>5. SinkFits(prefix, Len(prefix), sink)
  <2>1. CASE sink = NoUsage /\ \A i \in 1 .. n : body[i].kind # "usage"
    BY <1>4, <2>1 DEF SinkFits
  <2>2. CASE \E i \in 1 .. n : /\ body[i].kind = "usage" /\ sink = body[i].total
                               /\ \A j \in i + 1 .. n : body[j].kind # "usage"
    <3>1. PICK i \in 1 .. n : /\ body[i].kind = "usage" /\ sink = body[i].total
                              /\ \A j \in i + 1 .. n : body[j].kind # "usage"
      BY <2>2
    <3>2. \A j \in i + 1 .. n : prefix[j].kind # "usage"
      <4> TAKE j \in i + 1 .. n
      <4>1. j \in 1 .. n
        BY <1>1
      <4>2. QED
        BY <1>4, <3>1, <4>1
    <3>3. QED
      BY <1>4, <3>1, <3>2 DEF SinkFits
  <2>3. QED
    BY <2>1, <2>2 DEF SinkFits
<1>6. QED
  BY <1>3, <1>5, ReportedIs DEF prefix

LEMMA RelayIsSentBilling == RelayInv => BillsWereSent
<1> SUFFICES ASSUME RelayInv, NEW r \in Requests,
                    req[r].pc = "ended", req[r].stream, req[r].metered
             PROVE  \E n \in 0 .. Len(req[r].body) :
                        Sent(r, n) /\ rows[r] = <<Reported(SubSeq(req[r].body, 1, n))>>
  BY DEF BillsWereSent
<1> DEFINE body == req[r].body
<1>1. PICK sink \in Sinks : rows[r] = <<Bill(sink)>> /\ Worth(req[r], seen[r], sink)
  BY One DEF Fits
<1>2. PICK n \in 0 .. Len(body) : 3 * n <= seen[r] /\ SinkFits(body, n, sink)
  BY <1>1 DEF Worth
<1>3. body \in Seq(Line) /\ Len(body) \in Nat /\ seen[r] \in Nat
  BY One, RequestIs, BodyIs
<1>4. Bill(sink) = Reported(SubSeq(body, 1, n))
  BY <1>2, <1>3, PrefixReports
<1>5. Sent(r, n)
  BY <1>2, <1>3 DEF Sent
<1>6. QED
  BY <1>1, <1>4, <1>5

----------------------------------------------------------------------------
(* Theorems *)

\* The invariant of the relay: whatever the cut into chunks, the buffer is what
\* follows the last whole line that was parsed, the sink is the last report of
\* the lines before it, and a row is worth that sink.
THEOREM RelayInvariance == Spec => []RelayInv
<1>1. Init => RelayInv
  BY InitRelay
<1>2. RelayInv /\ [Next]_vars => RelayInv'
  <2> SUFFICES ASSUME RelayInv, [Next]_vars
               PROVE  RelayInv'
    OBVIOUS
  <2>1. ASSUME NEW r \in Requests, Reject(r) PROVE RelayInv'
    BY <2>1, RejectStep
  <2>2. ASSUME NEW r \in Requests, NEW stream \in BOOLEAN, Post(r, stream) PROVE RelayInv'
    BY <2>2, PostStep
  <2>3. ASSUME NEW r \in Requests, AnswerError(r) PROVE RelayInv'
    BY <2>3, AnswerErrorStep
  <2>4. ASSUME NEW r \in Requests, Answer(r) PROVE RelayInv'
    BY <2>4, AnswerStep
  <2>5. ASSUME NEW r \in Requests, StreamError(r) PROVE RelayInv'
    BY <2>5, StreamErrorStep
  <2>6. ASSUME NEW r \in Requests, OpenStream(r) PROVE RelayInv'
    BY <2>6, OpenStreamStep
  <2>7. ASSUME NEW r \in Requests, Chunk(r) PROVE RelayInv'
    BY <2>7, ChunkStep
  <2>8. ASSUME NEW r \in Requests, Resume(r) PROVE RelayInv'
    BY <2>8, ResumeStep
  <2>9. ASSUME NEW r \in Requests, EndOfStream(r) PROVE RelayInv'
    BY <2>9, EndOfStreamStep
  <2>10. ASSUME NEW r \in Requests, BreakOff(r) PROVE RelayInv'
    BY <2>10, BreakOffStep
  <2>11. ASSUME NEW r \in Requests, HangUp(r) PROVE RelayInv'
    BY <2>11, HangUpStep
  <2>12. ASSUME NEW r \in Requests, Record(r) PROVE RelayInv'
    BY <2>12, RecordStep
  <2>13. ASSUME NEW r \in Requests, RecordFails(r) PROVE RelayInv'
    BY <2>13, RecordFailsStep
  <2>14. ASSUME NEW r \in Requests, RecordCancelled(r) PROVE RelayInv'
    BY <2>14, RecordCancelledStep
  <2>15. CASE Crash
    BY <2>15, CrashStep
  <2>16. CASE UNCHANGED vars
    BY <2>16, StutterStep
  <2>17. QED
    BY <2>1, <2>2, <2>3, <2>4, <2>5, <2>6, <2>7, <2>8, <2>9, <2>10, <2>11, <2>12, <2>13,
       <2>14, <2>15, <2>16 DEF Next
<1>3. QED
  BY <1>1, <1>2, PTL DEF Spec

\* Type correctness; only an ended request has left a row, and the caller was
\* never sent more than has arrived.
THEOREM RelayTypeCorrect == Spec => []TypeOK
<1>1. RelayInv => TypeOK
  BY DEF RelayInv
<1>2. QED
  BY <1>1, RelayInvariance, PTL

\* A stream relayed to its end is billed once, for the usage it reported last,
\* whatever it reported and however it was cut into chunks.
THEOREM CompleteStreamsAlwaysBilled == Spec => []CompleteStreamsAreBilled
<1>1. QED
  BY RelayIsCompleteBilling, RelayInvariance, PTL

\* What a stream is billed is what some of the lines its caller was sent report.
THEOREM BillsWereAlwaysSent == Spec => []BillsWereSent
<1>1. QED
  BY RelayIsSentBilling, RelayInvariance, PTL

\* Rows that nobody gave up are lost to failed INSERTs only, at most one each.
THEOREM LostRowsAreAlwaysExplained == Spec => []LostRowsAreExplained
<1>1. RelayInv => LostRowsAreExplained
  BY DEF RelayInv, LostRowsAreExplained, Lost
<1>2. QED
  BY <1>1, RelayInvariance, PTL

=============================================================================
