-------------------------- MODULE TransmissionProofs --------------------------
(***************************************************************************)
(* What a transmission is made of, for every melody, sample rate, identifier  *)
(* and size of the reads: it is rendered in time, encoded as a whole, and its  *)
(* headers can be read back.                                                *)
(*                                                                         *)
(* Times are sums along sequences and numbers are sums of bits.  An operator  *)
(* that is defined by recursion is unfolded by showing, by induction over the *)
(* length, that the recursion has a solution, which CHOOSE then returns.      *)
(***************************************************************************)
EXTENDS OfflineJob, SequenceTheorems, FunctionTheorems, FiniteSetTheorems,
        WellFoundedInduction, TLAPS

-----------------------------------------------------------------------------
(* Exact times: division, the algorithm of Euclid, fractions in lowest terms.      *)

Positive == Nat \ {0}

(* Induction over the natural numbers, of a set that each number is in if all    *)
(* the smaller ones are.                                                     *)
LEMMA InductiveSet ==
  ASSUME NEW S, \A n \in Nat : (\A m \in 0 .. n - 1 : m \in S) => n \in S
  PROVE  \A n \in Nat : n \in S
<1> DEFINE missing == {n \in Nat : n \notin S}
<1> SUFFICES ASSUME missing # {} PROVE FALSE
  OBVIOUS
<1>1. missing \subseteq Nat
  OBVIOUS
<1> HIDE DEF missing
<1>2. PICK n \in missing : \A m \in missing : ~(<<m, n>> \in OpToRel(<, Nat))
  BY <1>1, NatLessThanWellFounded, WFMin, Zenon
<1>3. n \in Nat /\ \A m \in missing : ~(m < n)
  BY <1>1, <1>2 DEF OpToRel
<1>4. \A m \in 0 .. n - 1 : m \in S
  BY <1>3 DEF missing
<1> QED
  BY <1>2, <1>3, <1>4 DEF missing

(* Division, with the divisor a variable.                                     *)
LEMMA Quotient ==
  ASSUME NEW a \in Nat, NEW b \in Positive
  PROVE  /\ a \div b \in Nat
         /\ (a \div b) * b <= a
         /\ a < (a \div b) * b + b
BY DEF Positive

(* Of two products with a common factor the larger has the larger other one.    *)
LEMMA Cancel ==
  ASSUME NEW a \in Nat, NEW b \in Nat, NEW c \in Positive, a * c < b * c + c
  PROVE  a <= b
<1> SUFFICES ASSUME a >= b + 1 PROVE FALSE
  BY DEF Positive
<1>1. PICK d \in Nat : a = b + 1 + d
  <2>1. a - (b + 1) \in Nat /\ a = b + 1 + (a - (b + 1))
    OBVIOUS
  <2> QED
    BY <2>1
<1>2. a * c = b * c + c + d * c
  BY <1>1 DEF Positive
<1>3. d * c \in Nat /\ b * c \in Nat
  BY DEF Positive
<1> QED
  BY <1>2, <1>3 DEF Positive

(* A product grows with each of its factors.                                  *)
LEMMA Grow ==
  ASSUME NEW a \in Nat, NEW b \in Nat, NEW c \in Nat, a <= b
  PROVE  a * c <= b * c
<1>1. PICK d \in Nat : b = a + d
  <2>1. b - a \in Nat /\ b = a + (b - a)
    OBVIOUS
  <2> QED
    BY <2>1
<1>2. b * c = a * c + d * c
  BY <1>1
<1>3. d * c \in Nat /\ a * c \in Nat
  OBVIOUS
<1> QED
  BY <1>2, <1>3


(* Division with remainder, which SMT does not do for a divisor that is a     *)
(* variable.                                                                  *)
LEMMA Remainder ==
  ASSUME NEW a \in Nat, NEW b \in Positive
  PROVE  /\ a % b \in 0 .. b - 1
         /\ a = b * (a \div b) + (a % b)
         /\ a \div b \in Nat
BY DEF Positive

divides(d, n) == \E k \in Nat : n = d * k

common(a, b) == {d \in Positive : divides(d, a) /\ divides(d, b)}

(* What divides b and a divides b * q + a.                                    *)
LEMMA DivideSum ==
  ASSUME NEW d \in Positive, NEW a \in Nat, NEW b \in Nat, NEW q \in Nat,
         divides(d, a), divides(d, b)
  PROVE  divides(d, b * q + a)
<1>1. PICK k \in Nat : a = d * k
  BY DEF divides
<1>2. PICK l \in Nat : b = d * l
  BY DEF divides
<1>3. l * q \in Nat /\ l * q + k \in Nat
  OBVIOUS
<1>4. b * q = d * (l * q)
  BY <1>2 DEF Positive
<1>5. d * (l * q + k) = d * (l * q) + d * k
  BY <1>3 DEF Positive
<1> QED
  BY <1>1, <1>3, <1>4, <1>5 DEF divides

(* What divides b and b * q + a divides a.                                    *)
LEMMA DivideRest ==
  ASSUME NEW d \in Positive, NEW a \in Nat, NEW b \in Nat, NEW q \in Nat,
         divides(d, b * q + a), divides(d, b)
  PROVE  divides(d, a)
<1>1. PICK k \in Nat : b * q + a = d * k
  BY DEF divides
<1>2. PICK l \in Nat : b = d * l
  BY DEF divides
<1>3. l * q \in Nat /\ k - l * q \in Int
  OBVIOUS
<1>4. b * q = d * (l * q)
  BY <1>2 DEF Positive
<1>5. d * (k - l * q) = d * k - d * (l * q)
  BY <1>3 DEF Positive
<1>6. b * q \in Nat /\ a = d * (k - l * q)
  BY <1>1, <1>4, <1>5 DEF Positive
<1> DEFINE r == k - l * q
<1> HIDE DEF r
<1>7. r \in Int /\ a = d * r
  BY <1>3, <1>6 DEF r
<1>8. r >= 0
  BY <1>7 DEF Positive
<1> QED
  BY <1>7, <1>8 DEF divides

(* The step of the algorithm of Euclid keeps the common divisors.             *)
LEMMA SameDivisors ==
  ASSUME NEW a \in Nat, NEW b \in Positive
  PROVE  common(a, b) = common(b, a % b)
<1>1. a % b \in Nat /\ a = b * (a \div b) + (a % b) /\ a \div b \in Nat /\ b \in Nat
  BY Remainder DEF Positive
<1>2. ASSUME NEW d \in Positive, divides(d, b)
      PROVE  divides(d, a) <=> divides(d, a % b)
  <2>1. divides(d, a % b) => divides(d, b * (a \div b) + (a % b))
    BY <1>1, <1>2, DivideSum
  <2>2. divides(d, b * (a \div b) + (a % b)) => divides(d, a % b)
    BY <1>1, <1>2, DivideRest
  <2> QED
    BY <1>1, <2>1, <2>2
<1> QED
  BY <1>2, Zenon DEF common

greatestOf(S) == CHOOSE d \in S : \A e \in S : e <= d

(* The last step: b divides a, and no larger number divides b.                *)
LEMMA WholeDivisor ==
  ASSUME NEW a \in Nat, NEW b \in Positive, a % b = 0
  PROVE  greatestOf(common(a, b)) = b
<1>1. a = b * (a \div b) /\ a \div b \in Nat
  BY Remainder DEF Positive
<1>2. b \in common(a, b)
  <2>1. divides(b, a)
    BY <1>1 DEF divides
  <2>2. b = b * 1
    BY DEF Positive
  <2> QED
    BY <2>1, <2>2 DEF common, divides
<1>3. \A e \in common(a, b) : e <= b /\ e \in Nat
  <2> SUFFICES ASSUME NEW e \in Positive, divides(e, b) PROVE e <= b /\ e \in Nat
    BY DEF common
  <2>1. PICK k \in Nat : b = e * k
    BY DEF divides
  <2>2. k # 0
    BY <2>1 DEF Positive
  <2> QED
    BY <2>1, <2>2 DEF Positive
<1>4. greatestOf(common(a, b)) \in common(a, b) /\ \A e \in common(a, b) : e <= greatestOf(common(a, b))
  BY <1>2, <1>3 DEF greatestOf
<1> QED
  BY <1>2, <1>3, <1>4 DEF Positive

(* The recursion of gcd has a solution, so that its definition is one.          *)
LEMMA GcdUnfolds ==
  gcd = [pair \in Nat \X Nat |->
           IF pair[2] = 0 THEN pair[1] ELSE gcd[<<pair[2], pair[1] % pair[2]>>]]
<1> DEFINE G == [pair \in Nat \X Nat |->
                   IF pair[2] = 0 THEN pair[1] ELSE greatestOf(common(pair[1], pair[2]))]
           step(g) == [pair \in Nat \X Nat |->
                   IF pair[2] = 0 THEN pair[1] ELSE g[<<pair[2], pair[1] % pair[2]>>]]
<1>1. ASSUME NEW a \in Nat, NEW b \in Positive
      PROVE  G[<<a, b>>] = G[<<b, a % b>>]
  <2>1. a % b \in Nat /\ b \in Nat /\ b # 0
    BY Remainder DEF Positive
  <2>2. G[<<a, b>>] = greatestOf(common(a, b))
    BY <2>1
  <2>3. CASE a % b = 0
    BY <2>1, <2>2, <2>3, WholeDivisor
  <2>4. CASE a % b # 0
    <3>1. G[<<b, a % b>>] = greatestOf(common(b, a % b))
      BY <2>1, <2>4
    <3> QED
      BY <2>2, <3>1, SameDivisors
  <2> QED
    BY <2>3, <2>4
<1>2. G = step(G)
  <2>1. ASSUME NEW pair \in Nat \X Nat PROVE G[pair] = step(G)[pair]
    <3>1. PICK a \in Nat, b \in Nat : pair = <<a, b>>
      OBVIOUS
    <3> HIDE DEF G
    <3>2. b # 0 => G[<<a, b>>] = G[<<b, a % b>>]
      BY <1>1 DEF Positive
    <3>3. b = 0 => G[<<a, b>>] = a
      BY DEF G
    <3> QED
      BY <3>1, <3>2, <3>3
  <2> HIDE DEF G
  <2>2. G = [pair \in Nat \X Nat |-> G[pair]]
    BY DEF G
  <2> QED
    BY <2>1, <2>2, Zenon
<1> HIDE DEF G
<1>3. \E g : g = step(g)
  BY <1>2
<1>4. gcd = CHOOSE g : g = step(g)
  BY DEF gcd
<1> QED
  BY <1>3, <1>4, Zenon

(* A quotient by a divisor has no remainder.                                  *)
LEMMA ExactQuotient ==
  ASSUME NEW d \in Positive, NEW n \in Nat, divides(d, n)
  PROVE  n \div d \in Nat /\ n = d * (n \div d) /\ (n # 0 => n \div d # 0)
<1>1. PICK k \in Nat : n = d * k
  BY DEF divides
<1> DEFINE q == n \div d
<1>2. q \in Nat /\ q * d <= n /\ n < q * d + d
  BY Quotient
<1> HIDE DEF q
<1>3. k <= q
  <2>1. k * d < q * d + d
    BY <1>1, <1>2 DEF Positive
  <2> QED
    BY <1>2, <2>1, Cancel DEF Positive
<1>4. q <= k
  <2>1. q * d < k * d + d
    BY <1>1, <1>2 DEF Positive
  <2> QED
    BY <1>2, <2>1, Cancel DEF Positive
<1>5. q = k
  BY <1>2, <1>3, <1>4
<1> QED
  BY <1>1, <1>5 DEF q, Positive

(* Equal products with a common factor.                                       *)
LEMMA CancelEqual ==
  ASSUME NEW a \in Nat, NEW b \in Nat, NEW c \in Positive, a * c = b * c
  PROVE  a = b
<1>1. a * c < b * c + c /\ b * c < a * c + c
  BY DEF Positive
<1>2. a <= b /\ b <= a
  BY <1>1, Cancel
<1> QED
  BY <1>2

(* g divides a and b, and what makes a / b a fraction of q is at least b / g.     *)
reduces(g, a, b) ==
  /\ g \in Positive /\ divides(g, a) /\ divides(g, b)
  /\ \A q \in Nat, p \in Nat : a * q = b * p => divides(b \div g, q)

(* One more step of the algorithm.                                            *)
LEMMA ReducesStep ==
  ASSUME NEW a \in Nat, NEW b \in Positive, a % b # 0, NEW g, reduces(g, b, a % b)
  PROVE  reduces(g, a, b)
<1> DEFINE r == a % b
           k == a \div b
<1>1. r \in Nat /\ r # 0 /\ k \in Nat /\ a = b * k + r /\ b \in Nat
  <2>1. b \in Nat /\ b > 0
    BY DEF Positive
  <2>2. r \in 0 .. b - 1 /\ a = b * k + r /\ k \in Nat
    BY Remainder
  <2> QED
    BY <2>1, <2>2
<1>2. g \in Positive /\ divides(g, b) /\ divides(g, r)
  BY DEF reduces
<1>3. \A q \in Nat, p \in Nat : b * q = r * p => divides(r \div g, q)
  BY DEF reduces
<1> HIDE DEF r, k
<1>4. divides(g, a)
  BY <1>1, <1>2, DivideSum
<1> DEFINE bg == b \div g
           rg == r \div g
<1>5. bg \in Nat /\ b = g * bg /\ rg \in Positive /\ r = g * rg
  BY <1>1, <1>2, ExactQuotient DEF Positive
<1>6. \A q \in Nat, p \in Nat : b * q = r * p => divides(rg, q)
  BY <1>3
<1> HIDE DEF bg, rg
<1>7. ASSUME NEW q \in Nat, NEW p \in Nat, a * q = b * p
      PROVE  divides(bg, q)
  <2>1. a * q = (b * k) * q + r * q
    BY <1>1
  <2>2. (b * k) * q = b * (k * q) /\ k * q \in Nat
    BY <1>1
  <2> DEFINE m == p - k * q
  <2>3. m \in Int
    BY <2>2
  <2>4. b * m = b * p - b * (k * q)
    BY <1>1, <2>2
  <2>5. r * q \in Nat /\ b * p \in Nat /\ b * (k * q) \in Nat
    BY <1>1, <2>2
  <2>6. b * m = r * q
    BY <1>7, <2>1, <2>2, <2>4, <2>5
  <2> HIDE DEF m
  <2>7. m \in Nat
    BY <2>3, <2>5, <2>6 DEF Positive
  <2>8. divides(rg, m)
    BY <1>6, <2>6, <2>7
  <2>9. PICK t \in Nat : m = rg * t
    BY <2>8 DEF divides
  <2>10. b * m = (bg * t) * (g * rg)
    <3>1. b * m = (g * bg) * (rg * t)
      BY <1>5, <2>9
    <3>2. @ = (bg * t) * (g * rg)
      BY <1>2, <1>5, <2>9 DEF Positive
    <3> QED
      BY <3>1, <3>2
  <2>11. r * q = q * (g * rg)
    BY <1>1, <1>5
  <2>12. g * rg \in Positive /\ bg * t \in Nat
    BY <1>2, <1>5 DEF Positive
  <2>13. bg * t = q
    BY <2>6, <2>10, <2>11, <2>12, CancelEqual
  <2> QED
    BY <2>9, <2>13 DEF divides
<1> QED
  BY <1>2, <1>4, <1>7, Zenon DEF reduces, bg

(* What gcd returns divides both numbers and is the largest that does.        *)
LEMMA GcdReduces ==
  \A b \in Positive : \A a \in Nat : reduces(gcd[<<a, b>>], a, b)
<1> DEFINE S == {n \in Nat : n # 0 => \A a \in Nat : reduces(gcd[<<a, n>>], a, n)}
<1>1. ASSUME NEW b \in Nat, \A m \in 0 .. b - 1 : m \in S
      PROVE  b \in S
  <2> SUFFICES ASSUME b # 0, NEW a \in Nat PROVE reduces(gcd[<<a, b>>], a, b)
    OBVIOUS
  <2>1. b \in Positive
    BY DEF Positive
  <2>2. gcd[<<a, b>>] = gcd[<<b, a % b>>]
    BY GcdUnfolds
  <2>3. a % b \in 0 .. b - 1 /\ a = b * (a \div b) + (a % b) /\ a \div b \in Nat
    BY <2>1, Remainder
  <2>4. CASE a % b = 0
    <3>1. gcd[<<b, 0>>] = b
      BY GcdUnfolds
    <3>2. divides(b, a)
      <4>1. a = b * (a \div b)
        BY <2>3, <2>4
      <4> QED
        BY <2>3, <4>1 DEF divides
    <3>3. divides(b, b)
      <4>1. b = b * 1
        OBVIOUS
      <4> QED
        BY <4>1 DEF divides
    <3>4. b \div b = 1
      <4>1. b = b * (b \div b) /\ b \div b \in Nat
        BY <2>1, <3>3, ExactQuotient
      <4>2. 1 * b = (b \div b) * b
        BY <4>1
      <4> QED
        BY <2>1, <4>1, <4>2, CancelEqual
    <3>5. \A q \in Nat : divides(b \div b, q)
      <4>1. \A q \in Nat : q = 1 * q
        OBVIOUS
      <4> QED
        BY <3>4, <4>1 DEF divides
    <3>6. reduces(b, a, b)
      BY <2>1, <3>2, <3>3, <3>5 DEF reduces
    <3> QED
      BY <2>2, <2>4, <3>1, <3>6
  <2>5. CASE a % b # 0
    <3>1. a % b \in 0 .. b - 1 /\ a % b \in S
      BY <1>1, <2>3
    <3>2. reduces(gcd[<<b, a % b>>], b, a % b)
      BY <2>5, <3>1
    <3>3. reduces(gcd[<<b, a % b>>], a, b)
      BY <2>1, <2>5, <3>2, ReducesStep
    <3> QED
      BY <2>2, <3>3
  <2> QED
    BY <2>4, <2>5
<1> HIDE DEF S
<1>2. \A n \in Nat : n \in S
  BY <1>1, InductiveSet
<1> QED
  BY <1>2 DEF S, Positive

(* Durations.                                                                *)

(* A fraction that is equal to numerator / denominator.                        *)
equals(time, numerator, denominator) ==
  time.numerator * denominator = numerator * time.denominator

(* What Duration() returns is equal to the fraction it was given, in lowest   *)
(* terms.                                                                     *)
LEMMA DurationIs ==
  ASSUME NEW a \in Nat, NEW b \in Positive
  PROVE  /\ Duration(a, b) \in Durations
         /\ equals(Duration(a, b), a, b)
         /\ \A q \in Nat, p \in Nat : a * q = b * p => divides(Duration(a, b).denominator, q)
<1> DEFINE g == gcd[<<a, b>>]
           n == a \div g
           d == b \div g
<1>1. reduces(g, a, b)
  BY GcdReduces
<1>2. Duration(a, b) = [numerator |-> n, denominator |-> d]
  BY DEF Duration
<1> HIDE DEF g
<1>3. g \in Positive /\ divides(g, a) /\ divides(g, b)
  BY <1>1 DEF reduces
<1>4. n \in Nat /\ a = g * n /\ d \in Positive /\ b = g * d
  BY <1>3, ExactQuotient DEF Positive
<1>5. \A q \in Nat, p \in Nat : a * q = b * p => divides(d, q)
  BY <1>1 DEF reduces
<1> HIDE DEF n, d
<1>6. n * b = a * d
  BY <1>3, <1>4 DEF Positive
<1> QED
  BY <1>2, <1>4, <1>5, <1>6 DEF Durations, equals, Positive

(* Two numbers that divide each other are equal.                              *)
LEMMA DividesEachOther ==
  ASSUME NEW a \in Positive, NEW b \in Positive, divides(a, b), divides(b, a)
  PROVE  a = b
<1>1. ASSUME NEW c \in Positive, NEW e \in Positive, divides(c, e)
      PROVE  c <= e
  <2>1. PICK k \in Nat : e = c * k
    BY <1>1 DEF divides
  <2>2. k # 0
    BY <2>1 DEF Positive
  <2> QED
    BY <2>1, <2>2 DEF Positive
<1>2. a <= b /\ b <= a
  BY <1>1
<1> QED
  BY <1>2 DEF Positive

(* Durations of equal fractions are equal.                                     *)
LEMMA DurationIsCanonical ==
  ASSUME NEW a \in Nat, NEW b \in Positive, NEW c \in Nat, NEW d \in Positive, a * d = c * b
  PROVE  Duration(a, b) = Duration(c, d)
<1> DEFINE s == Duration(a, b)
           t == Duration(c, d)
<1>1. /\ s \in Durations /\ s.numerator * b = a * s.denominator
      /\ \A q \in Nat, p \in Nat : a * q = b * p => divides(s.denominator, q)
  BY DurationIs DEF equals
<1>2. /\ t \in Durations /\ t.numerator * d = c * t.denominator
      /\ \A q \in Nat, p \in Nat : c * q = d * p => divides(t.denominator, q)
  BY DurationIs DEF equals
<1> HIDE DEF s, t
<1> DEFINE sn == s.numerator
           sd == s.denominator
           tn == t.numerator
           td == t.denominator
<1>3. /\ s = [numerator |-> sn, denominator |-> sd] /\ sn \in Nat /\ sd \in Positive
      /\ t = [numerator |-> tn, denominator |-> td] /\ tn \in Nat /\ td \in Positive
  BY <1>1, <1>2 DEF Durations, Positive
<1>4. /\ sn * b = a * sd /\ tn * d = c * td
      /\ \A q \in Nat, p \in Nat : a * q = b * p => divides(sd, q)
      /\ \A q \in Nat, p \in Nat : c * q = d * p => divides(td, q)
  BY <1>1, <1>2
<1> HIDE DEF sn, sd, tn, td
<1>5. a * td = b * tn
  <2>1. (a * td) * d = (a * d) * td /\ (a * d) * td = (c * b) * td
    BY <1>3 DEF Positive
  <2>2. (c * b) * td = (c * td) * b /\ (c * td) * b = (tn * d) * b
    BY <1>3, <1>4 DEF Positive
  <2>3. (tn * d) * b = (b * tn) * d
    BY <1>3 DEF Positive
  <2>4. a * td \in Nat /\ b * tn \in Nat
    BY <1>3 DEF Positive
  <2> QED
    BY <2>1, <2>2, <2>3, <2>4, CancelEqual
<1>6. c * sd = d * sn
  <2>1. (c * sd) * b = (c * b) * sd /\ (c * b) * sd = (a * d) * sd
    BY <1>3 DEF Positive
  <2>2. (a * d) * sd = (a * sd) * d /\ (a * sd) * d = (sn * b) * d
    BY <1>3, <1>4 DEF Positive
  <2>3. (sn * b) * d = (d * sn) * b
    BY <1>3 DEF Positive
  <2>4. c * sd \in Nat /\ d * sn \in Nat
    BY <1>3 DEF Positive
  <2> QED
    BY <2>1, <2>2, <2>3, <2>4, CancelEqual
<1>7. sd = td
  <2>1. divides(sd, td) /\ divides(td, sd)
    BY <1>3, <1>4, <1>5, <1>6 DEF Positive
  <2> QED
    BY <1>3, <2>1, DividesEachOther
<1>8. sn = tn
  <2>1. sn * b = tn * b
    BY <1>3, <1>4, <1>5, <1>7 DEF Positive
  <2> QED
    BY <1>3, <2>1, CancelEqual
<1> QED
  BY <1>3, <1>7, <1>8 DEF s, t

(* plus() is that of fractions.                                               *)
LEMMA PlusIs ==
  ASSUME NEW left \in Durations, NEW right \in Durations
  PROVE  /\ left.denominator * right.denominator \in Positive
         /\ left.numerator * right.denominator + right.numerator * left.denominator \in Nat
         /\ plus(left, right) =
              Duration(left.numerator * right.denominator + right.numerator * left.denominator,
                       left.denominator * right.denominator)
<1> DEFINE a == left.numerator
           b == left.denominator
           c == right.numerator
           d == right.denominator
           g == gcd[<<b, d>>]
           l == d \div g
           r == b \div g
<1>1. a \in Nat /\ b \in Positive /\ c \in Nat /\ d \in Positive
  BY DEF Durations, Positive
<1>2. plus(left, right) = Duration(a * l + c * r, b * l)
  BY DEF plus
<1> HIDE DEF a, b, c, d
<1>3. reduces(g, b, d)
  BY <1>1, GcdReduces DEF Positive
<1> HIDE DEF g
<1>4. g \in Positive /\ divides(g, b) /\ divides(g, d)
  BY <1>3 DEF reduces
<1>5. l \in Positive /\ d = g * l
  BY <1>1, <1>4, ExactQuotient DEF Positive
<1>6. r \in Positive /\ b = g * r
  BY <1>1, <1>4, ExactQuotient DEF Positive
<1> HIDE DEF l, r
<1>7. b * d \in Positive /\ a * d + c * b \in Nat /\ a * l + c * r \in Nat /\ b * l \in Positive
  BY <1>1, <1>5, <1>6 DEF Positive
<1>8. (a * l + c * r) * (b * d) = (a * d + c * b) * (b * l)
  <2>1. (a * l) * (b * d) = (a * d) * (b * l)
    BY <1>1, <1>5 DEF Positive
  <2>2. r * d = b * l
    BY <1>4, <1>5, <1>6 DEF Positive
  <2>3. (c * r) * (b * d) = (c * b) * (r * d)
    BY <1>1, <1>6 DEF Positive
  <2> QED
    BY <1>1, <1>5, <1>6, <2>1, <2>2, <2>3 DEF Positive
<1> QED
  BY <1>2, <1>7, <1>8, DurationIsCanonical DEF a, b, c, d

(* times() is that of fractions.                                              *)
LEMMA TimesIs ==
  ASSUME NEW time \in Durations, NEW count \in Nat
  PROVE  /\ time.numerator * count \in Nat /\ time.denominator \in Positive
         /\ times(time, count) = Duration(time.numerator * count, time.denominator)
<1> DEFINE n == time.numerator
           d == time.denominator
<1>1. n \in Nat /\ d \in Positive /\ n * count \in Nat
  BY DEF Durations, Positive
<1> HIDE DEF n, d
<1>2. CASE count = 0
  <2>1. times(time, count) = Duration(0, 1) /\ n * count = 0
    BY <1>1, <1>2 DEF times, NoTime
  <2>2. 0 * d = 0 * 1 /\ 1 \in Positive
    BY <1>1 DEF Positive
  <2> QED
    BY <1>1, <2>1, <2>2, DurationIsCanonical DEF n, d
<1>3. CASE count # 0
  <2> DEFINE g == gcd[<<d, count>>]
             c == count \div g
             e == d \div g
  <2>1. times(time, count) = Duration(n * c, e)
    BY <1>3 DEF times, n, d
  <2>2. reduces(g, d, count)
    BY <1>1, <1>3, GcdReduces DEF Positive
  <2> HIDE DEF g
  <2>3. g \in Positive /\ divides(g, d) /\ divides(g, count)
    BY <2>2 DEF reduces
  <2>4. c \in Nat /\ count = g * c /\ e \in Positive /\ d = g * e
    BY <1>1, <2>3, ExactQuotient DEF Positive
  <2> HIDE DEF c, e
  <2>5. n * c \in Nat
    BY <1>1, <2>4
  <2>6. (n * c) * d = (n * count) * e
    BY <1>1, <2>3, <2>4 DEF Positive
  <2> QED
    BY <1>1, <2>1, <2>4, <2>5, <2>6, DurationIsCanonical DEF n, d
<1> QED
  BY <1>2, <1>3

(* dividedBy() is that of fractions.                                          *)
LEMMA DividedIs ==
  ASSUME NEW time \in Durations, NEW count \in Positive
  PROVE  /\ time.numerator \in Nat /\ time.denominator * count \in Positive
         /\ dividedBy(time, count) = Duration(time.numerator, time.denominator * count)
<1> DEFINE n == time.numerator
           d == time.denominator
           g == gcd[<<n, count>>]
           c == count \div g
           e == n \div g
<1>1. n \in Nat /\ d \in Positive /\ d * count \in Positive
  BY DEF Durations, Positive
<1>2. dividedBy(time, count) = Duration(e, d * c)
  BY DEF dividedBy
<1> HIDE DEF n, d
<1>3. reduces(g, n, count)
  BY <1>1, GcdReduces
<1> HIDE DEF g
<1>4. g \in Positive /\ divides(g, n) /\ divides(g, count)
  BY <1>3 DEF reduces
<1>5. c \in Positive /\ count = g * c /\ e \in Nat /\ n = g * e
  BY <1>1, <1>4, ExactQuotient DEF Positive
<1> HIDE DEF c, e
<1>6. d * c \in Positive
  BY <1>1, <1>5 DEF Positive
<1>7. e * (d * count) = n * (d * c)
  BY <1>1, <1>4, <1>5 DEF Positive
<1>8. Duration(e, d * c) = Duration(n, d * count)
  BY <1>1, <1>5, <1>6, <1>7, DurationIsCanonical
<1> QED
  BY <1>1, <1>2, <1>8 DEF n, d

(* A moment is rounded down to its frame, however the product is taken.         *)
LEMMA SampleCountIs ==
  ASSUME NEW time \in Durations, NEW rate \in Positive
  PROVE  LET frame == sampleCount(time, rate) IN
           /\ frame \in Nat
           /\ frame * time.denominator <= time.numerator * rate
           /\ time.numerator * rate < frame * time.denominator + time.denominator
<1> DEFINE n == time.numerator
           d == time.denominator
           g == gcd[<<d, rate>>]
           r == rate \div g
           e == d \div g
           k == n \div e
           m == n % e
           u == (m * r) \div e
           v == (m * r) % e
           frame == k * r + u
<1>1. n \in Nat /\ d \in Positive
  BY DEF Durations, Positive
<1>2. sampleCount(time, rate) = frame
  BY DEF sampleCount
<1> HIDE DEF n, d
<1>3. reduces(g, d, rate)
  BY <1>1, GcdReduces DEF Positive
<1> HIDE DEF g
<1>4. g \in Positive /\ divides(g, d) /\ divides(g, rate)
  BY <1>3 DEF reduces
<1>5. r \in Nat /\ rate = g * r
  BY <1>4, ExactQuotient DEF Positive
<1>6. e \in Positive /\ d = g * e
  BY <1>1, <1>4, ExactQuotient DEF Positive
<1> HIDE DEF r, e
<1>7. k \in Nat /\ m \in Nat /\ n = e * k + m
  <2>1. m \in 0 .. e - 1 /\ n = e * k + m /\ k \in Nat
    BY <1>1, <1>6, Remainder
  <2> QED
    BY <2>1
<1> HIDE DEF k, m
<1>8. u \in Nat /\ v \in Nat /\ v < e /\ m * r = e * u + v
  <2>1. m * r \in Nat
    BY <1>5, <1>7
  <2>2. v \in 0 .. e - 1 /\ m * r = e * u + v /\ u \in Nat
    BY <1>6, <2>1, Remainder
  <2> QED
    BY <1>6, <2>2 DEF Positive
<1> HIDE DEF u, v
<1>9. frame \in Nat
  BY <1>5, <1>7, <1>8
<1>10. n * r = e * frame + v
  <2>1. n * r = (e * k) * r + m * r
    BY <1>5, <1>6, <1>7 DEF Positive
  <2>2. e * frame = (e * k) * r + e * u
    BY <1>5, <1>6, <1>7, <1>8 DEF Positive
  <2> QED
    BY <1>5, <1>6, <1>7, <1>8, <2>1, <2>2 DEF Positive
<1> HIDE DEF frame
<1>11. n * rate = frame * d + g * v
  <2>1. n * rate = g * (n * r)
    BY <1>1, <1>4, <1>5 DEF Positive
  <2>2. @ = g * (e * frame) + g * v
    BY <1>4, <1>6, <1>8, <1>9, <1>10 DEF Positive
  <2>3. g * (e * frame) = frame * d
    BY <1>4, <1>6, <1>9 DEF Positive
  <2> QED
    BY <2>1, <2>2, <2>3
<1>12. g * v \in Nat /\ g * v < d
  <2>1. v + 1 <= e /\ g \in Nat /\ e \in Nat
    BY <1>4, <1>6, <1>8 DEF Positive
  <2>2. (v + 1) * g <= e * g
    BY <1>8, <2>1, Grow
  <2>3. (v + 1) * g = g * v + g /\ e * g = d /\ g * v \in Nat /\ g > 0
    BY <1>4, <1>6, <1>8 DEF Positive
  <2> QED
    BY <1>1, <2>1, <2>2, <2>3 DEF Positive
<1>13. frame * d \in Nat
  BY <1>1, <1>9 DEF Positive
<1> QED
  BY <1>1, <1>2, <1>9, <1>11, <1>12, <1>13 DEF n, d, Positive

-----------------------------------------------------------------------------
(* Sums of durations along a sequence.                                          *)

(* Fractions in lowest terms, which every operation on durations returns.       *)
Reduced == {Duration(a, b) : a \in Nat, b \in Positive}

(* A fraction in lowest terms is what Duration() makes of itself.             *)
LEMMA ReducedIs ==
  ASSUME NEW time \in Reduced
  PROVE  /\ time \in Durations
         /\ time.numerator \in Nat /\ time.denominator \in Positive
         /\ time = Duration(time.numerator, time.denominator)
<1>1. PICK a \in Nat, b \in Positive : time = Duration(a, b)
  BY DEF Reduced
<1>2. time \in Durations /\ time.numerator * b = a * time.denominator
  BY <1>1, DurationIs DEF equals
<1>3. time.numerator \in Nat /\ time.denominator \in Positive
  BY <1>2 DEF Durations, Positive
<1>4. Duration(time.numerator, time.denominator) = Duration(a, b)
  BY <1>2, <1>3, DurationIsCanonical
<1> QED
  BY <1>1, <1>2, <1>3, <1>4

(* The duration of nothing.                                                   *)
LEMMA NoTimeIs ==
  NoTime \in Reduced /\ NoTime.numerator = 0
<1>1. NoTime = Duration(0, 1)
  BY DEF NoTime
<1>2. 0 \in Nat /\ 1 \in Positive
  BY DEF Positive
<1>3. NoTime \in Durations /\ NoTime.numerator * 1 = 0 * NoTime.denominator
  BY <1>1, <1>2, DurationIs DEF equals
<1>4. NoTime.numerator = 0
  BY <1>3 DEF Durations
<1> QED
  BY <1>1, <1>2, <1>4 DEF Reduced

(* Sums are in lowest terms and commute.                                      *)
LEMMA PlusReduces ==
  ASSUME NEW s \in Durations, NEW t \in Durations
  PROVE  /\ plus(s, t) \in Reduced
         /\ plus(s, t) = plus(t, s)
<1> DEFINE a == s.numerator
           b == s.denominator
           c == t.numerator
           d == t.denominator
<1>1. /\ b * d \in Positive /\ a * d + c * b \in Nat
      /\ plus(s, t) = Duration(a * d + c * b, b * d)
  BY PlusIs
<1>2. plus(t, s) = Duration(c * b + a * d, d * b)
  BY PlusIs
<1>3. a \in Nat /\ b \in Positive /\ c \in Nat /\ d \in Positive
  BY DEF Durations, Positive
<1> HIDE DEF a, b, c, d
<1>4. c * b + a * d = a * d + c * b /\ d * b = b * d
  BY <1>3 DEF Positive
<1> QED
  BY <1>1, <1>2, <1>4 DEF Reduced

(* Nothing is added by no time.                                               *)
LEMMA PlusNothing ==
  ASSUME NEW t \in Reduced
  PROVE  plus(t, NoTime) = t /\ plus(NoTime, t) = t
<1> DEFINE a == t.numerator
           b == t.denominator
           e == NoTime.denominator
<1>1. t \in Durations /\ a \in Nat /\ b \in Positive /\ t = Duration(a, b)
  BY ReducedIs
<1>2. NoTime \in Durations /\ e \in Positive /\ NoTime.numerator = 0
  BY NoTimeIs, ReducedIs
<1>3. /\ b * e \in Positive /\ a * e + 0 * b \in Nat
      /\ plus(t, NoTime) = Duration(a * e + 0 * b, b * e)
  BY <1>1, <1>2, PlusIs
<1> HIDE DEF a, b, e
<1>4. (a * e + 0 * b) * b = a * (b * e)
  BY <1>1, <1>2 DEF Positive
<1>5. Duration(a * e + 0 * b, b * e) = Duration(a, b)
  BY <1>1, <1>3, <1>4, DurationIsCanonical
<1>6. plus(NoTime, t) = plus(t, NoTime)
  BY <1>1, <1>2, PlusReduces
<1> QED
  BY <1>1, <1>3, <1>5, <1>6

(* Durations can be added in any order: no rounding, no canonical form gets   *)
(* in the way.                                                                *)
LEMMA PlusAssociates ==
  ASSUME NEW r \in Durations, NEW s \in Durations, NEW t \in Durations
  PROVE  plus(plus(r, s), t) = plus(r, plus(s, t))
<1> DEFINE a == r.numerator
           b == r.denominator
           c == s.numerator
           d == s.denominator
           e == t.numerator
           f == t.denominator
           x == plus(r, s)
           y == plus(s, t)
           m == x.numerator
           n == x.denominator
           p == y.numerator
           q == y.denominator
<1>1. /\ a \in Nat /\ b \in Positive /\ c \in Nat /\ d \in Positive
      /\ e \in Nat /\ f \in Positive
  BY DEF Durations, Positive
<1>2. /\ b * d \in Positive /\ a * d + c * b \in Nat
      /\ x = Duration(a * d + c * b, b * d)
  BY PlusIs
<1>3. /\ d * f \in Positive /\ c * f + e * d \in Nat
      /\ y = Duration(c * f + e * d, d * f)
  BY PlusIs
<1> HIDE DEF a, b, c, d, e, f, x, y
<1>4. x \in Durations /\ m * (b * d) = (a * d + c * b) * n
  BY <1>2, DurationIs DEF equals
<1>5. y \in Durations /\ p * (d * f) = (c * f + e * d) * q
  BY <1>3, DurationIs DEF equals
<1>6. m \in Nat /\ n \in Positive /\ p \in Nat /\ q \in Positive
  BY <1>4, <1>5 DEF Durations, Positive
<1>7. /\ n * f \in Positive /\ m * f + e * n \in Nat
      /\ plus(x, t) = Duration(m * f + e * n, n * f)
  BY <1>4, PlusIs DEF e, f
<1>8. /\ b * q \in Positive /\ a * q + p * b \in Nat
      /\ plus(r, y) = Duration(a * q + p * b, b * q)
  BY <1>5, PlusIs DEF a, b
<1> HIDE DEF m, n, p, q
<1>9. (m * f + e * n) * (b * q) = (a * q + p * b) * (n * f)
  <2> DEFINE u == (a * d + c * b) * f + e * (b * d)
  <2>1. (m * f + e * n) * (b * d) = u * n
    <3>1. (m * f + e * n) * (b * d) = (m * (b * d)) * f + (e * (b * d)) * n
      BY <1>1, <1>6 DEF Positive
    <3>2. ((a * d + c * b) * n) * f + (e * (b * d)) * n = u * n
      BY <1>1, <1>6 DEF Positive
    <3> QED
      BY <1>4, <3>1, <3>2
  <2>2. (a * q + p * b) * (d * f) = u * q
    <3>1. (a * q + p * b) * (d * f) = (a * (d * f)) * q + b * (p * (d * f))
      BY <1>1, <1>6 DEF Positive
    <3>2. (a * (d * f)) * q + b * ((c * f + e * d) * q) = u * q
      BY <1>1, <1>6 DEF Positive
    <3> QED
      BY <1>5, <3>1, <3>2
  <2>3. u \in Nat
    BY <1>1 DEF Positive
  <2> DEFINE v == m * f + e * n
             w == a * q + p * b
  <2>4. v \in Nat /\ w \in Nat
    BY <1>7, <1>8
  <2> HIDE DEF u, v, w
  <2>5. v * (b * d) = u * n /\ w * (d * f) = u * q
    BY <2>1, <2>2 DEF v, w
  <2>6. (v * (b * q)) * d = (w * (n * f)) * d
    <3>1. (v * (b * q)) * d = (v * (b * d)) * q
      BY <1>1, <1>6, <2>4 DEF Positive
    <3>2. (w * (n * f)) * d = (w * (d * f)) * n
      BY <1>1, <1>6, <2>4 DEF Positive
    <3>3. (u * n) * q = (u * q) * n
      BY <1>6, <2>3 DEF Positive
    <3> QED
      BY <2>5, <3>1, <3>2, <3>3
  <2>7. v * (b * q) \in Nat /\ w * (n * f) \in Nat
    BY <1>7, <1>8, <2>4 DEF Positive
  <2>8. v * (b * q) = w * (n * f)
    BY <1>1, <2>6, <2>7, CancelEqual
  <2> QED
    BY <2>8 DEF v, w
<1>10. Duration(m * f + e * n, n * f) = Duration(a * q + p * b, b * q)
  BY <1>7, <1>8, <1>9, DurationIsCanonical
<1> QED
  BY <1>7, <1>8, <1>10 DEF x, y

(* A multiple is the sum of as many.                                          *)
LEMMA TimesNext ==
  ASSUME NEW t \in Durations, NEW k \in Nat
  PROVE  /\ times(t, 0) = NoTime
         /\ times(t, k) \in Reduced
         /\ times(t, k + 1) = plus(times(t, k), t)
<1> DEFINE a == t.numerator
           b == t.denominator
           s == times(t, k)
           c == s.numerator
           d == s.denominator
<1>1. a \in Nat /\ b \in Positive
  BY DEF Durations, Positive
<1>2. a * k \in Nat /\ s = Duration(a * k, b)
  BY TimesIs
<1>3. k + 1 \in Nat /\ a * (k + 1) \in Nat /\ times(t, k + 1) = Duration(a * (k + 1), b)
  BY TimesIs
<1> HIDE DEF a, b, s
<1>4. s \in Durations /\ c * b = (a * k) * d
  BY <1>1, <1>2, DurationIs DEF equals
<1>5. c \in Nat /\ d \in Positive
  BY <1>4 DEF Durations, Positive
<1>6. /\ d * b \in Positive /\ c * b + a * d \in Nat
      /\ plus(s, t) = Duration(c * b + a * d, d * b)
  BY <1>4, PlusIs DEF a, b
<1> HIDE DEF c, d
<1>7. (c * b + a * d) * b = (a * (k + 1)) * (d * b)
  <2>1. c * b + a * d = (a * (k + 1)) * d
    <3>1. a * (k + 1) = a * k + a
      BY <1>1
    <3>2. (a * k + a) * d = (a * k) * d + a * d
      BY <1>1, <1>2, <1>5 DEF Positive
    <3> QED
      BY <1>4, <3>1, <3>2
  <2> QED
    BY <1>1, <1>3, <1>5, <2>1 DEF Positive
<1>8. Duration(c * b + a * d, d * b) = Duration(a * (k + 1), b)
  BY <1>1, <1>3, <1>6, <1>7, DurationIsCanonical
<1>9. times(t, 0) = NoTime
  BY DEF times
<1> QED
  BY <1>1, <1>2, <1>3, <1>6, <1>8, <1>9 DEF s, Reduced

(* A scan is shared out among its values without a remainder.                   *)
LEMMA SharedOut ==
  ASSUME NEW time \in Reduced, NEW count \in Positive
  PROVE  times(dividedBy(time, count), count) = time
<1> DEFINE a == time.numerator
           b == time.denominator
           t == dividedBy(time, count)
           c == t.numerator
           d == t.denominator
<1>1. time \in Durations /\ a \in Nat /\ b \in Positive /\ time = Duration(a, b)
  BY ReducedIs
<1>2. b * count \in Positive /\ t = Duration(a, b * count)
  BY <1>1, DividedIs
<1> HIDE DEF a, b
<1>3. t \in Durations /\ c * (b * count) = a * d
  BY <1>1, <1>2, DurationIs DEF equals
<1>4. c \in Nat /\ d \in Positive
  BY <1>3 DEF Durations, Positive
<1>5. count \in Nat /\ c * count \in Nat /\ times(t, count) = Duration(c * count, d)
  BY <1>3, TimesIs DEF Positive
<1> HIDE DEF t, c, d
<1>6. (c * count) * b = a * d
  BY <1>1, <1>3, <1>4, <1>5 DEF Positive
<1>7. Duration(c * count, d) = Duration(a, b)
  BY <1>1, <1>4, <1>5, <1>6, DurationIsCanonical
<1> QED
  BY <1>1, <1>5, <1>7 DEF t

(* The sum of durations, which is defined along the sequence.                   *)
isSumOf(sum, events, last) ==
  sum = [n \in 0 .. last |-> IF n = 0 THEN NoTime ELSE plus(sum[n - 1], events[n].duration)]

(* The recursion of durationUpTo has a solution for every sequence.           *)
LEMMA SumExists ==
  ASSUME NEW events PROVE \A last \in Nat : \E sum : isSumOf(sum, events, last)
<1> DEFINE S == {last \in Nat : \E sum : isSumOf(sum, events, last)}
<1>1. ASSUME NEW n \in Nat, \A m \in 0 .. n - 1 : m \in S
      PROVE  n \in S
  <2>1. CASE n = 0
    <3> DEFINE sum == [k \in 0 .. 0 |-> NoTime]
    <3>1. isSumOf(sum, events, 0)
      BY DEF isSumOf
    <3> QED
      BY <2>1, <3>1
  <2>2. CASE n # 0
    <3>1. n - 1 \in 0 .. n - 1 /\ n - 1 \in Nat
      BY <2>2
    <3>2. PICK shorter : isSumOf(shorter, events, n - 1)
      BY <1>1, <3>1
    <3> DEFINE sum == [k \in 0 .. n |-> IF k = n THEN plus(shorter[n - 1], events[n].duration)
                                        ELSE shorter[k]]
    <3>3. ASSUME NEW k \in 0 .. n
          PROVE  sum[k] = IF k = 0 THEN NoTime ELSE plus(sum[k - 1], events[k].duration)
      <4>1. CASE k = n
        BY <2>2, <3>1, <4>1
      <4>2. CASE k # n
        <5>1. k \in 0 .. n - 1 /\ sum[k] = shorter[k]
          BY <4>2
        <5>2. shorter[k] = IF k = 0 THEN NoTime ELSE plus(shorter[k - 1], events[k].duration)
          BY <3>2, <5>1, Zenon DEF isSumOf
        <5>3. k # 0 => sum[k - 1] = shorter[k - 1]
          BY <5>1
        <5> QED
          BY <5>1, <5>2, <5>3
      <4> QED
        BY <4>1, <4>2
    <3>4. DOMAIN sum = 0 .. n /\ sum = [k \in 0 .. n |-> sum[k]]
      OBVIOUS
    <3> HIDE DEF sum
    <3>5. sum = [k \in 0 .. n |-> IF k = 0 THEN NoTime ELSE plus(sum[k - 1], events[k].duration)]
      BY <3>3, <3>4, Zenon
    <3> QED
      BY <3>5, Zenon DEF isSumOf
  <2> QED
    BY <2>1, <2>2
<1> HIDE DEF S
<1>2. \A n \in Nat : n \in S
  BY <1>1, InductiveSet
<1> QED
  BY <1>2 DEF S

(* durationUpTo adds one event after the other.                               *)
LEMMA SumUnfolds ==
  ASSUME NEW events, Len(events) \in Nat
  PROVE  /\ durationUpTo(events, 0) = NoTime
         /\ \A n \in 1 .. Len(events) :
              durationUpTo(events, n) = plus(durationUpTo(events, n - 1), events[n].duration)
<1> DEFINE total == CHOOSE sum : isSumOf(sum, events, Len(events))
<1>1. isSumOf(total, events, Len(events))
  BY SumExists, Zenon
<1>2. \A n : durationUpTo(events, n) = total[n]
  BY DEF durationUpTo, isSumOf
<1> HIDE DEF total
<1>3. \A n \in 0 .. Len(events) :
        total[n] = IF n = 0 THEN NoTime ELSE plus(total[n - 1], events[n].duration)
  BY <1>1, Zenon DEF isSumOf
<1> QED
  BY <1>2, <1>3, SMTT(30)

-----------------------------------------------------------------------------
(* The renderer and the source of a live transmission.                         *)

Renderers ==
  [events : Seq(ToneEvents) \ {<<>>}, rate : Positive, index : Nat, frame : Nat, ends : Seq(Nat)]

(* The renderer is at the first event that is not over.                        *)
isRenderer(renderer) ==
  /\ renderer \in Renderers
  /\ renderer.ends = [i \in DOMAIN renderer.events |->
                        endFrame(renderer.events, renderer.rate, i)]
  /\ renderer.frame <= frameCount(renderer)
  /\ renderer.frame < frameCount(renderer) =>
       /\ renderer.index \in 1 .. Len(renderer.ends)
       /\ \A j \in 1 .. renderer.index - 1 : renderer.ends[j] <= renderer.frame

(* The events of a melody add up to durations.                                *)
LEMMA SumsAreDurations ==
  ASSUME NEW events \in Seq(ToneEvents)
  PROVE  \A n \in 0 .. Len(events) : durationUpTo(events, n) \in Durations
<1> DEFINE S == {n \in Nat : n <= Len(events) => durationUpTo(events, n) \in Durations}
<1>1. ASSUME NEW n \in Nat, \A m \in 0 .. n - 1 : m \in S
      PROVE  n \in S
  <2> SUFFICES ASSUME n <= Len(events) PROVE durationUpTo(events, n) \in Durations
    OBVIOUS
  <2>1. Len(events) \in Nat
    OBVIOUS
  <2>2. CASE n = 0
    BY <2>1, <2>2, SumUnfolds, NoTimeIs, ReducedIs
  <2>3. CASE n # 0
    <3>1. n \in 1 .. Len(events) /\ n - 1 \in 0 .. n - 1
      BY <2>1, <2>3
    <3>2. durationUpTo(events, n - 1) \in Durations
      BY <1>1, <2>1, <3>1
    <3>3. events[n].duration \in Durations
      BY <3>1 DEF ToneEvents
    <3>4. durationUpTo(events, n) = plus(durationUpTo(events, n - 1), events[n].duration)
      BY <2>1, <3>1, SumUnfolds
    <3> QED
      BY <3>2, <3>3, <3>4, PlusReduces, ReducedIs
  <2> QED
    BY <2>2, <2>3
<1> HIDE DEF S
<1>2. \A n \in Nat : n \in S
  BY <1>1, InductiveSet
<1> QED
  BY <1>2 DEF S

(* An event ends at the frame its exact end is rounded down to.               *)
LEMMA EndFrames ==
  ASSUME NEW events \in Seq(ToneEvents), NEW rate \in Positive, NEW i \in 1 .. Len(events)
  PROVE  LET time == durationUpTo(events, i)
             frame == endFrame(events, rate, i)
         IN /\ frame \in Nat
            /\ frame * time.denominator <= time.numerator * rate
            /\ time.numerator * rate < frame * time.denominator + time.denominator
<1>1. durationUpTo(events, i) \in Durations
  BY SumsAreDurations
<1> QED
  BY <1>1, SampleCountIs DEF endFrame

(* A frame is heard within the event that it is taken from.                    *)
LEMMA FrameIsInTime ==
  ASSUME NEW events \in Seq(ToneEvents), NEW rate \in Positive, NEW i \in 1 .. Len(events),
         NEW frame \in Nat, frame < endFrame(events, rate, i),
         i > 1 => endFrame(events, rate, i - 1) <= frame
  PROVE  LET begin == durationUpTo(events, i - 1)
             end == durationUpTo(events, i)
         IN /\ (frame + 1) * begin.denominator > begin.numerator * rate
            /\ (frame + 1) * end.denominator <= end.numerator * rate
<1> DEFINE begin == durationUpTo(events, i - 1)
           end == durationUpTo(events, i)
           a == begin.numerator
           b == begin.denominator
           c == end.numerator
           d == end.denominator
           first == endFrame(events, rate, i - 1)
           last == endFrame(events, rate, i)
<1>1. begin \in Durations /\ end \in Durations
  BY SumsAreDurations
<1>2. a \in Nat /\ b \in Positive /\ c \in Nat /\ d \in Positive
  BY <1>1 DEF Durations, Positive
<1>3. last \in Nat /\ last * d <= c * rate
  BY EndFrames
<1>4. ASSUME i > 1 PROVE first \in Nat /\ a * rate < first * b + b
  BY <1>4, EndFrames
<1>5. i = 1 => a = 0
  BY SumUnfolds, NoTimeIs
<1> HIDE DEF begin, end, a, b, c, d, first, last
<1>6. (frame + 1) * d <= c * rate
  <2>1. frame + 1 <= last
    BY <1>3 DEF last
  <2>2. (frame + 1) * d <= last * d
    BY <1>2, <1>3, <2>1, Grow DEF Positive
  <2>3. (frame + 1) * d \in Nat /\ last * d \in Nat /\ c * rate \in Nat
    BY <1>2, <1>3 DEF Positive
  <2> QED
    BY <1>3, <2>2, <2>3
<1>7. (frame + 1) * b > a * rate
  <2>1. CASE i = 1
    <3>1. a * rate = 0 /\ (frame + 1) * b > 0
      BY <1>2, <1>5, <2>1 DEF Positive
    <3> QED
      BY <3>1
  <2>2. CASE i > 1
    <3>1. first * b <= frame * b
      BY <1>2, <1>4, <2>2, Grow DEF first, Positive
    <3>2. (frame + 1) * b = frame * b + b
      BY <1>2 DEF Positive
    <3>3. first * b \in Nat /\ frame * b \in Nat /\ a * rate \in Nat
      BY <1>2, <1>4, <2>2 DEF Positive
    <3> QED
      BY <1>2, <1>4, <2>2, <3>1, <3>2, <3>3 DEF Positive
  <2> QED
    BY <2>1, <2>2
<1> QED
  BY <1>6, <1>7 DEF begin, end, a, b, c, d

(* What the table of ends holds, and that its last entry is the number of     *)
(* frames.                                                                    *)
LEMMA RendererEnds ==
  ASSUME NEW r, isRenderer(r)
  PROVE  /\ r.events \in Seq(ToneEvents) /\ r.rate \in Positive /\ r.frame \in Nat
         /\ r.index \in Nat
         /\ Len(r.ends) = Len(r.events) /\ Len(r.ends) \in Nat \ {0}
         /\ DOMAIN r.ends = 1 .. Len(r.ends)
         /\ \A i \in 1 .. Len(r.ends) : r.ends[i] = endFrame(r.events, r.rate, i) /\ r.ends[i] \in Nat
         /\ frameCount(r) = r.ends[Len(r.ends)] /\ frameCount(r) \in Nat
<1>1. r \in Renderers
  BY DEF isRenderer
<1>2. r.events \in Seq(ToneEvents) /\ r.events # <<>> /\ r.rate \in Positive /\ r.frame \in Nat
      /\ r.index \in Nat /\ r.ends \in Seq(Nat)
  BY <1>1 DEF Renderers
<1>3. DOMAIN r.events = 1 .. Len(r.events) /\ Len(r.events) \in Nat /\ Len(r.events) # 0
  BY <1>2, EmptySeq
<1>4. r.ends = [i \in 1 .. Len(r.events) |-> endFrame(r.events, r.rate, i)]
  BY <1>3 DEF isRenderer
<1>5. DOMAIN r.ends = 1 .. Len(r.events) /\ Len(r.ends) = Len(r.events)
  BY <1>2, <1>3, <1>4
<1>6. \A i \in 1 .. Len(r.ends) : r.ends[i] = endFrame(r.events, r.rate, i) /\ r.ends[i] \in Nat
  BY <1>2, <1>4, <1>5
<1> QED
  BY <1>2, <1>3, <1>5, <1>6 DEF frameCount

(* The event of a frame is the first that ends after it.                      *)
LEMMA EventIs ==
  ASSUME NEW r, isRenderer(r), NEW frame \in Nat, r.frame <= frame, frame < frameCount(r)
  PROVE  /\ eventAt(r, frame) \in 1 .. Len(r.ends)
         /\ frame < r.ends[eventAt(r, frame)]
         /\ \A j \in 1 .. eventAt(r, frame) - 1 : r.ends[j] <= frame
<1> DEFINE n == Len(r.ends)
           later == {i \in r.index .. n : frame < r.ends[i]}
           isEvent(i) == /\ frame < r.ends[i]
                         /\ \A j \in r.index .. i - 1 : frame >= r.ends[j]
<1>1. /\ n \in Nat \ {0} /\ r.frame \in Nat /\ frameCount(r) = r.ends[n]
      /\ \A i \in 1 .. n : r.ends[i] \in Nat
  BY RendererEnds
<1>2. r.index \in 1 .. n /\ \A j \in 1 .. r.index - 1 : r.ends[j] <= r.frame
  <2>1. frameCount(r) \in Nat /\ r.frame \in Nat
    BY RendererEnds
  <2>2. r.frame < frameCount(r)
    BY <2>1
  <2> QED
    BY <2>2 DEF isRenderer
<1> HIDE DEF n
<1>3. n \in later /\ later \subseteq Nat
  BY <1>1, <1>2
<1>4. PICK i \in later : \A j \in later : ~(<<j, i>> \in OpToRel(<, Nat))
  BY <1>3, NatLessThanWellFounded, WFMin, Zenon
<1>5. \A j \in later : ~(j < i)
  BY <1>3, <1>4 DEF OpToRel
<1>6. i \in r.index .. n /\ frame < r.ends[i]
  BY <1>4
<1>7. \A j \in r.index .. i - 1 : frame >= r.ends[j]
  <2> SUFFICES ASSUME NEW j \in r.index .. i - 1 PROVE frame >= r.ends[j]
    OBVIOUS
  <2>1. j \in r.index .. n /\ j < i /\ j \in 1 .. n
    BY <1>1, <1>2, <1>6
  <2>2. j \notin later
    BY <1>5, <2>1
  <2> QED
    BY <1>1, <2>1, <2>2
<1>8. \E k \in r.index .. n : isEvent(k)
  BY <1>6, <1>7
<1>9. eventAt(r, frame) = CHOOSE k \in r.index .. n : isEvent(k)
  BY DEF eventAt, n
<1>10. eventAt(r, frame) \in r.index .. n /\ isEvent(eventAt(r, frame))
  BY <1>8, <1>9, Zenon
<1> DEFINE e == eventAt(r, frame)
<1> HIDE DEF e, later
<1>11. e \in r.index .. n /\ frame < r.ends[e] /\ \A j \in r.index .. e - 1 : frame >= r.ends[j]
  BY <1>10 DEF e
<1>12. \A j \in 1 .. e - 1 : r.ends[j] <= frame
  <2> SUFFICES ASSUME NEW j \in 1 .. e - 1 PROVE r.ends[j] <= frame
    OBVIOUS
  <2>1. j \in 1 .. n
    BY <1>1, <1>2, <1>11
  <2>2. CASE j < r.index
    BY <1>1, <1>2, <2>1, <2>2
  <2>3. CASE j >= r.index
    BY <1>1, <1>2, <1>11, <2>1, <2>3
  <2> QED
    BY <1>2, <2>2, <2>3
<1> QED
  BY <1>1, <1>2, <1>11, <1>12 DEF e, n

(* What one call of render() writes and leaves.                                *)
LEMMA Renders ==
  ASSUME NEW r, isRenderer(r), NEW size \in Positive
  PROVE  LET samples == rendered(r, size)
             after == afterRender(r, size)
         IN /\ samples \in Seq(1 .. Len(r.events))
            /\ \A k \in DOMAIN samples :
                 LET frame == r.frame + k - 1
                     i == samples[k]
                 IN /\ frame < endFrame(r.events, r.rate, i)
                    /\ i > 1 => endFrame(r.events, r.rate, i - 1) <= frame
            /\ isRenderer(after)
            /\ after.frame = r.frame + Len(samples)
            /\ after.events = r.events /\ after.rate = r.rate /\ after.ends = r.ends
            /\ Len(samples) < size => after.frame = frameCount(after)
<1> DEFINE total == frameCount(r)
           left == total - r.frame
           count == IF size < left THEN size ELSE left
           samples == rendered(r, size)
           after == afterRender(r, size)
<1>1. /\ r.events \in Seq(ToneEvents) /\ r.rate \in Positive /\ r.frame \in Nat /\ total \in Nat
      /\ Len(r.ends) = Len(r.events) /\ Len(r.ends) \in Nat \ {0} /\ total = r.ends[Len(r.ends)]
      /\ \A i \in 1 .. Len(r.ends) : r.ends[i] = endFrame(r.events, r.rate, i) /\ r.ends[i] \in Nat
  BY RendererEnds
<1>2. r.frame <= total
  BY DEF isRenderer
<1>3. count \in Nat /\ count <= size /\ r.frame + count <= total /\ (count < size => r.frame + count = total)
  BY <1>1, <1>2 DEF Positive
<1>4. samples = [k \in 1 .. count |-> eventAt(r, r.frame + k - 1)]
  BY DEF rendered
<1> HIDE DEF total, left, count, samples
<1>5. ASSUME NEW k \in 1 .. count
      PROVE  /\ samples[k] \in 1 .. Len(r.ends)
             /\ r.frame + k - 1 < r.ends[samples[k]]
             /\ \A j \in 1 .. samples[k] - 1 : r.ends[j] <= r.frame + k - 1
  <2>1. r.frame + k - 1 \in Nat /\ r.frame <= r.frame + k - 1 /\ r.frame + k - 1 < total
    BY <1>1, <1>3
  <2>2. samples[k] = eventAt(r, r.frame + k - 1)
    BY <1>4
  <2> QED
    BY <2>1, <2>2, EventIs DEF total
<1>6. samples \in Seq(1 .. Len(r.events)) /\ Len(samples) = count /\ DOMAIN samples = 1 .. count
  <2>1. \A k \in 1 .. count : samples[k] \in 1 .. Len(r.events)
    BY <1>1, <1>5
  <2>2. samples \in [1 .. count -> 1 .. Len(r.events)]
    BY <1>4, <2>1
  <2> QED
    BY <1>3, <2>2
<1>7. \A k \in DOMAIN samples :
        /\ r.frame + k - 1 < endFrame(r.events, r.rate, samples[k])
        /\ samples[k] > 1 => endFrame(r.events, r.rate, samples[k] - 1) <= r.frame + k - 1
  <2> SUFFICES ASSUME NEW k \in 1 .. count
               PROVE  /\ r.frame + k - 1 < endFrame(r.events, r.rate, samples[k])
                      /\ samples[k] > 1 => endFrame(r.events, r.rate, samples[k] - 1) <= r.frame + k - 1
    BY <1>6
  <2>1. samples[k] \in 1 .. Len(r.ends) /\ r.frame + k - 1 < r.ends[samples[k]]
        /\ \A j \in 1 .. samples[k] - 1 : r.ends[j] <= r.frame + k - 1
    BY <1>5
  <2>2. samples[k] > 1 => samples[k] - 1 \in 1 .. samples[k] - 1 /\ samples[k] - 1 \in 1 .. Len(r.ends)
    BY <1>1, <2>1
  <2> QED
    BY <1>1, <2>1, <2>2
<1>8. after = [r EXCEPT !.frame = @ + count,
                        !.index = IF count = size THEN samples[size] ELSE Len(r.ends) + 1]
  BY <1>6 DEF afterRender, samples
<1> HIDE DEF after
<1>9. r \in Renderers /\ r.ends = [i \in DOMAIN r.events |-> endFrame(r.events, r.rate, i)]
  BY DEF isRenderer
<1>10. /\ after.frame = r.frame + count /\ after.events = r.events /\ after.rate = r.rate
       /\ after.ends = r.ends
       /\ after.index = IF count = size THEN samples[size] ELSE Len(r.ends) + 1
  BY <1>8, <1>9 DEF Renderers
<1>11. after.index \in Nat
  <2>1. CASE count = size
    <3>1. size \in 1 .. count
      BY <2>1 DEF Positive
    <3> QED
      BY <1>5, <1>10, <2>1, <3>1
  <2> QED
    BY <1>1, <1>10, <2>1
<1>12. after \in Renderers
  <2>1. r.frame + count \in Nat
    BY <1>1, <1>3
  <2> QED
    BY <1>8, <1>9, <1>10, <1>11, <2>1 DEF Renderers
<1>13. frameCount(after) = total
  BY <1>10 DEF frameCount, total
<1>14. ASSUME after.frame < total
       PROVE  /\ after.index \in 1 .. Len(after.ends)
              /\ \A j \in 1 .. after.index - 1 : after.ends[j] <= after.frame
  <2>1. count = size /\ size \in 1 .. count
    <3>1. size \in Nat /\ size # 0 /\ ~(count < size)
      BY <1>1, <1>3, <1>10, <1>14 DEF Positive
    <3> QED
      BY <1>3, <3>1
  <2>2. /\ after.index = samples[size] /\ samples[size] \in 1 .. Len(r.ends)
        /\ \A j \in 1 .. samples[size] - 1 : r.ends[j] <= r.frame + size - 1
    BY <1>5, <1>10, <2>1
  <2>3. ASSUME NEW j \in 1 .. samples[size] - 1 PROVE r.ends[j] <= r.frame + count
    <3>1. j \in 1 .. Len(r.ends)
      BY <1>1, <2>2
    <3>2. r.ends[j] \in Nat /\ r.ends[j] <= r.frame + size - 1
      BY <1>1, <2>2, <3>1
    <3> QED
      BY <1>1, <1>3, <2>1, <3>2
  <2> QED
    BY <1>10, <2>2, <2>3
<1>15. isRenderer(after)
  BY <1>3, <1>9, <1>10, <1>12, <1>13, <1>14 DEF isRenderer
<1> QED
  BY <1>3, <1>6, <1>7, <1>10, <1>13, <1>15 DEF samples, after

Sources ==
  [place : {"playing"}, renderer : Renderers,
   facts : [sampleRate : Positive, hasSignal : BOOLEAN, frameCount : Nat],
   isCancelled : BOOLEAN, asked : Nat, samples : Seq(Nat), read : Seq(Nat)]

(* What was read are the frames up to where the renderer is.                     *)
PlayingOK ==
  /\ play \in Sources /\ isRenderer(play.renderer)
  /\ Len(play.samples) = play.renderer.frame
  /\ isInTime(play.renderer.events, play.renderer.rate, play.samples)
  /\ play.facts.frameCount = frameCount(play.renderer)
  /\ Len(play.read) < play.asked => isExhausted

PlayInv ==
  \/ play = NoSource \/ play = [place |-> "refused"]
  \/ play.place = "prepared" /\ play.events \in Melodies
  \/ PlayingOK

(* Supported rates are positive.                                              *)
LEMMA SupportedRates == \A rate \in supportedRates : rate \in Positive
BY DEF supportedRates, Positive

(* Melodies are of tones, by RenderingAssumption.                             *)
LEMMA MelodiesAre == \A events \in Melodies : events \in Seq(ToneEvents) /\ events # <<>>
BY RenderingAssumption

(* The constructor starts at the first event, with nothing written.             *)
LEMMA RendererStarts ==
  ASSUME NEW events \in Seq(ToneEvents), events # <<>>, NEW rate \in Positive
  PROVE  isRenderer(ToneRenderer(events, rate)) /\ ToneRenderer(events, rate).frame = 0
<1> DEFINE r == ToneRenderer(events, rate)
           ends == [i \in DOMAIN events |-> endFrame(events, rate, i)]
<1>1. DOMAIN events = 1 .. Len(events) /\ Len(events) \in Nat /\ Len(events) # 0
  BY EmptySeq
<1>2. \A i \in 1 .. Len(events) : endFrame(events, rate, i) \in Nat
  BY EndFrames
<1>3. ends \in [1 .. Len(events) -> Nat]
  BY <1>1, <1>2
<1>4. ends \in Seq(Nat) /\ Len(ends) = Len(events)
  BY <1>1, <1>3
<1>5. r = [events |-> events, rate |-> rate, index |-> 1, frame |-> 0, ends |-> ends]
  BY DEF ToneRenderer
<1> HIDE DEF r
<1>6. r \in Renderers
  BY <1>4, <1>5 DEF Renderers
<1>7. frameCount(r) \in Nat
  <2>1. frameCount(r) = ends[Len(ends)]
    BY <1>5 DEF frameCount
  <2>2. Len(ends) \in 1 .. Len(events)
    BY <1>1, <1>4
  <2> QED
    BY <1>3, <2>1, <2>2
<1>8. \A j \in 1 .. r.index - 1 : r.ends[j] <= r.frame
  BY <1>5
<1>9. r.index \in 1 .. Len(r.ends)
  BY <1>1, <1>4, <1>5
<1>10. r.ends = [i \in DOMAIN r.events |-> endFrame(r.events, r.rate, i)] /\ r.frame = 0
  BY <1>5
<1>11. isRenderer(r)
  BY <1>6, <1>7, <1>8, <1>9, <1>10 DEF isRenderer
<1> QED
  BY <1>10, <1>11 DEF r

(* The samples of one read carry on where the earlier ones stopped.              *)
LEMMA ReadsAreInTime ==
  ASSUME NEW r, isRenderer(r), NEW size \in Positive, NEW before \in Seq(Nat),
         Len(before) = r.frame, isInTime(r.events, r.rate, before)
  PROVE  isInTime(r.events, r.rate, before \o rendered(r, size))
<1> DEFINE samples == rendered(r, size)
           all == before \o samples
           n == r.frame
           events == r.events
           rate == r.rate
<1>1. events \in Seq(ToneEvents) /\ rate \in Positive /\ n \in Nat
  BY RendererEnds
<1>2. /\ samples \in Seq(1 .. Len(events))
      /\ \A k \in DOMAIN samples :
           LET frame == n + k - 1
               i == samples[k]
           IN /\ frame < endFrame(events, rate, i)
              /\ i > 1 => endFrame(events, rate, i - 1) <= frame
  BY Renders
<1> HIDE DEF samples, n, events, rate
<1>3. \A k \in DOMAIN all :
        \/ k \in DOMAIN before /\ all[k] = before[k]
        \/ k - n \in DOMAIN samples /\ all[k] = samples[k - n]
  BY <1>1, <1>2, SMTT(30) DEF n
<1> SUFFICES ASSUME NEW k \in DOMAIN all
             PROVE  LET begin == durationUpTo(events, all[k] - 1)
                        end == durationUpTo(events, all[k])
                    IN /\ k * begin.denominator > begin.numerator * rate
                       /\ k * end.denominator <= end.numerator * rate
  BY DEF isInTime, samples, events, rate
<1>4. k \in Nat
  BY <1>2
<1> HIDE DEF all
<1>5. CASE k \in DOMAIN before /\ all[k] = before[k]
  BY <1>5 DEF isInTime, events, rate
<1>6. CASE k - n \in DOMAIN samples /\ all[k] = samples[k - n]
  <2> DEFINE j == k - n
             frame == n + j - 1
             i == samples[j]
  <2>1. j \in 1 .. Len(samples) /\ i \in 1 .. Len(events) /\ all[k] = i
    BY <1>2, <1>6
  <2>2. frame < endFrame(events, rate, i) /\ (i > 1 => endFrame(events, rate, i - 1) <= frame)
    BY <1>2, <1>6
  <2>3. frame \in Nat /\ frame + 1 = k
    <3>1. j >= 1 /\ j \in Int
      BY <1>1, <1>2, <1>4, <2>1
    <3>2. frame = n + j - 1 /\ j = k - n
      OBVIOUS
    <3> HIDE DEF frame, j
    <3> QED
      BY <1>1, <1>4, <3>1, <3>2, SMTT(30)
  <2> HIDE DEF j, frame, i
  <2>4. LET begin == durationUpTo(events, i - 1)
            end == durationUpTo(events, i)
        IN /\ (frame + 1) * begin.denominator > begin.numerator * rate
           /\ (frame + 1) * end.denominator <= end.numerator * rate
    BY <1>1, <2>1, <2>2, <2>3, FrameIsInTime
  <2> QED
    BY <2>1, <2>3, <2>4
<1> QED
  BY <1>3, <1>5, <1>6

(* A read goes on where the one before it stopped.                            *)
LEMMA ReadKeeps ==
  ASSUME PlayingOK, NEW size \in Positive, ReadSource(size)
  PROVE  PlayingOK'
<1> DEFINE r == play.renderer
<1>1. play \in Sources /\ isRenderer(r) /\ Len(play.samples) = r.frame /\ size \in Nat
  BY DEF PlayingOK, Positive
<1>2. CASE play.isCancelled
  <2>1. play' = [play EXCEPT !.asked = size, !.read = <<>>]
    BY <1>2 DEF ReadSource
  <2>2. /\ play' \in Sources /\ play'.renderer = r /\ play'.samples = play.samples
        /\ play'.facts = play.facts /\ play'.isCancelled
    <3>1. <<>> \in Seq(Nat)
      OBVIOUS
    <3> QED
      BY <1>1, <1>2, <2>1, <3>1 DEF Sources
  <2> QED
    BY <2>2 DEF PlayingOK, isExhausted
<1>3. CASE ~play.isCancelled
  <2> DEFINE samples == rendered(r, size)
             after == afterRender(r, size)
  <2>1. play' = [play EXCEPT !.asked = size, !.read = samples, !.samples = @ \o samples,
                             !.renderer = after]
    BY <1>3 DEF ReadSource
  <2>2. /\ samples \in Seq(1 .. Len(r.events))
        /\ isRenderer(after)
        /\ after.frame = r.frame + Len(samples)
        /\ after.events = r.events /\ after.rate = r.rate /\ after.ends = r.ends
        /\ Len(samples) < size => after.frame = frameCount(after)
    BY <1>1, Renders
  <2>3. isInTime(r.events, r.rate, play.samples \o samples)
    BY <1>1, ReadsAreInTime DEF PlayingOK, Sources
  <2> HIDE DEF samples, after
  <2>4. samples \in Seq(Nat) /\ after \in Renderers
    BY <2>2 DEF isRenderer
  <2>5. play.samples \o samples \in Seq(Nat)
        /\ Len(play.samples \o samples) = Len(play.samples) + Len(samples)
    <3>1. play.samples \in Seq(Nat)
      BY <1>1 DEF Sources
    <3> QED
      BY <2>4, <3>1
  <2>6. /\ play' \in Sources /\ play'.renderer = after /\ play'.samples = play.samples \o samples
        /\ play'.facts = play.facts /\ play'.asked = size /\ play'.read = samples
    BY <1>1, <2>1, <2>4, <2>5 DEF Sources
  <2>7. frameCount(after) = frameCount(r) /\ frameCount(r) \in Nat
    BY <1>1, <2>2, RendererEnds DEF frameCount
  <2>8. Len(play'.read) < play'.asked => isExhausted'
    BY <2>2, <2>6, <2>7 DEF isExhausted, finished
  <2>9. Len(play'.samples) = play'.renderer.frame
    BY <1>1, <2>2, <2>5, <2>6
  <2>10. isInTime(play'.renderer.events, play'.renderer.rate, play'.samples)
    BY <2>2, <2>3, <2>6
  <2>11. play'.facts.frameCount = frameCount(play'.renderer)
    BY <2>6, <2>7 DEF PlayingOK
  <2> QED
    BY <2>2, <2>6, <2>8, <2>9, <2>10, <2>11 DEF PlayingOK
<1> QED
  BY <1>2, <1>3

(* A source begins at the first frame.                                        *)
LEMMA CreateKeeps ==
  ASSUME play.place = "prepared", play.events \in Melodies, CreateSource
  PROVE  PlayInv'
<1>1. CASE play' = [place |-> "refused"]
  BY <1>1 DEF PlayInv
<1>2. CASE play' # [place |-> "refused"]
  <2> DEFINE r == ToneRenderer(play.events, play.sampleRate)
             facts == [sampleRate |-> play.sampleRate, hasSignal |-> hasSignal(play.events),
                       frameCount |-> frameCount(r)]
  <2>1. /\ play.sampleRate \in supportedRates
        /\ play' = [place |-> "playing", renderer |-> r, facts |-> facts,
                    isCancelled |-> FALSE, asked |-> 0, samples |-> <<>>, read |-> <<>>]
    BY <1>2 DEF CreateSource, isSupportedSampleRate
  <2>2. play.sampleRate \in Positive /\ play.events \in Seq(ToneEvents) /\ play.events # <<>>
    BY <2>1, SupportedRates, MelodiesAre
  <2>3. isRenderer(r) /\ r.frame = 0
    BY <2>2, RendererStarts
  <2>4. frameCount(r) \in Nat /\ r \in Renderers
    BY <2>3, RendererEnds DEF isRenderer
  <2>5. facts \in [sampleRate : Positive, hasSignal : BOOLEAN, frameCount : Nat]
        /\ facts.frameCount = frameCount(r)
    BY <2>2, <2>4 DEF hasSignal
  <2> HIDE DEF r, facts
  <2>6. play' \in Sources
    BY <2>1, <2>4, <2>5 DEF Sources
  <2>7. isInTime(r.events, r.rate, <<>>)
    BY DEF isInTime
  <2>8. Len(<<>>) = 0 /\ ~(0 < 0)
    OBVIOUS
  <2>9. PlayingOK'
    BY <2>1, <2>3, <2>5, <2>6, <2>7, <2>8 DEF PlayingOK
  <2> QED
    BY <2>9 DEF PlayInv
<1> QED
  BY <1>1, <1>2

(* Cancelling changes nothing that was read.                                  *)
LEMMA CancelKeeps == ASSUME PlayingOK, CancelSource PROVE PlayingOK'
<1>1. /\ play' \in Sources /\ play'.renderer = play.renderer /\ play'.samples = play.samples
      /\ play'.facts = play.facts /\ play'.isCancelled
  BY DEF PlayingOK, CancelSource, Sources
<1> QED
  BY <1>1 DEF PlayingOK, isExhausted

(* Each step of the source keeps the invariant.                               *)
LEMMA SourceKeeps == ASSUME PlayInv, OfSource PROVE PlayInv'
<1>1. \/ \E events \in Melodies, sampleRate \in SampleRates, decibels \in DOMAIN Scalars :
           PrepareLive(events, sampleRate, decibels)
      \/ CreateSource
      \/ \E size \in ReadSizes : ReadSource(size)
      \/ CancelSource
  BY DEF OfSource
<1>2. ASSUME NEW events \in Melodies, NEW sampleRate \in SampleRates, NEW decibels \in DOMAIN Scalars,
             PrepareLive(events, sampleRate, decibels)
      PROVE  PlayInv'
  BY <1>2 DEF PrepareLive, PlayInv
<1>3. CASE CreateSource
  <2>1. play.place = "prepared" /\ play.events \in Melodies
    BY <1>3 DEF CreateSource, PlayInv, NoSource, PlayingOK, Sources
  <2> QED
    BY <1>3, <2>1, CreateKeeps
<1>4. ASSUME NEW size \in ReadSizes, ReadSource(size) PROVE PlayInv'
  <2>1. PlayingOK
    BY <1>4 DEF ReadSource, PlayInv, NoSource
  <2>2. size \in Positive
    BY RenderingAssumption DEF Positive
  <2> QED
    BY <1>4, <2>1, <2>2, ReadKeeps DEF PlayInv
<1>5. CASE CancelSource
  <2>1. PlayingOK
    BY <1>5 DEF CancelSource, PlayInv, NoSource
  <2> QED
    BY <1>5, <2>1, CancelKeeps DEF PlayInv
<1> QED
  BY <1>1, <1>2, <1>3, <1>4, <1>5

(* The invariant says what RendersInTime does.                                *)
LEMMA PlaysInTime == PlayInv => RendersInTime
<1> SUFFICES ASSUME PlayInv, play.place = "playing" PROVE RendersInTime
  BY DEF RendersInTime
<1>1. PlayingOK
  BY DEF PlayInv, NoSource
<1>2. isRenderer(play.renderer) /\ play.renderer.frame <= frameCount(play.renderer)
  BY <1>1 DEF PlayingOK, isRenderer
<1>3. play.renderer.frame \in Nat /\ frameCount(play.renderer) \in Nat
  BY <1>2, RendererEnds
<1>4. finished(play.renderer) => play.renderer.frame = frameCount(play.renderer)
  BY <1>2, <1>3 DEF finished
<1> QED
  BY <1>1, <1>4 DEF RendersInTime, PlayingOK, isExhausted

-----------------------------------------------------------------------------
(* Counting the events of a schedule.                                          *)

isCountOf(sum, id, segments, last) ==
  sum = [n \in 0 .. last |-> IF n = 0 THEN 0 ELSE sum[n - 1] + eventsOf(id, segments[n])]

(* The recursion of eventsUpTo has a solution for every schedule.             *)
LEMMA CountExists ==
  ASSUME NEW id, NEW segments PROVE \A last \in Nat : \E sum : isCountOf(sum, id, segments, last)
<1> DEFINE S == {last \in Nat : \E sum : isCountOf(sum, id, segments, last)}
<1>1. ASSUME NEW n \in Nat, \A m \in 0 .. n - 1 : m \in S
      PROVE  n \in S
  <2>1. CASE n = 0
    <3> DEFINE sum == [k \in 0 .. 0 |-> 0]
    <3>1. isCountOf(sum, id, segments, 0)
      BY DEF isCountOf
    <3> QED
      BY <2>1, <3>1
  <2>2. CASE n # 0
    <3>1. n - 1 \in 0 .. n - 1 /\ n - 1 \in Nat
      BY <2>2
    <3>2. PICK shorter : isCountOf(shorter, id, segments, n - 1)
      BY <1>1, <3>1
    <3> DEFINE sum == [k \in 0 .. n |-> IF k = n THEN shorter[n - 1] + eventsOf(id, segments[n])
                                        ELSE shorter[k]]
    <3>3. ASSUME NEW k \in 0 .. n
          PROVE  sum[k] = IF k = 0 THEN 0 ELSE sum[k - 1] + eventsOf(id, segments[k])
      <4>1. CASE k = n
        BY <2>2, <3>1, <4>1
      <4>2. CASE k # n
        <5>1. k \in 0 .. n - 1 /\ sum[k] = shorter[k]
          BY <4>2
        <5>2. shorter[k] = IF k = 0 THEN 0 ELSE shorter[k - 1] + eventsOf(id, segments[k])
          BY <3>2, <5>1, Zenon DEF isCountOf
        <5>3. k # 0 => sum[k - 1] = shorter[k - 1]
          BY <5>1
        <5> QED
          BY <5>1, <5>2, <5>3
      <4> QED
        BY <4>1, <4>2
    <3>4. DOMAIN sum = 0 .. n /\ sum = [k \in 0 .. n |-> sum[k]]
      OBVIOUS
    <3> HIDE DEF sum
    <3>5. sum = [k \in 0 .. n |-> IF k = 0 THEN 0 ELSE sum[k - 1] + eventsOf(id, segments[k])]
      BY <3>3, <3>4, Zenon
    <3> QED
      BY <3>5, Zenon DEF isCountOf
  <2> QED
    BY <2>1, <2>2
<1> HIDE DEF S
<1>2. \A n \in Nat : n \in S
  BY <1>1, InductiveSet
<1> QED
  BY <1>2 DEF S

(* eventsUpTo adds one segment after the other.                               *)
LEMMA CountUnfolds ==
  ASSUME NEW id, NEW segments, Len(segments) \in Nat
  PROVE  /\ eventsUpTo(id, segments, 0) = 0
         /\ \A n \in 1 .. Len(segments) :
              eventsUpTo(id, segments, n) = eventsUpTo(id, segments, n - 1) + eventsOf(id, segments[n])
<1> DEFINE total == CHOOSE sum : isCountOf(sum, id, segments, Len(segments))
<1>1. isCountOf(total, id, segments, Len(segments))
  BY CountExists, Zenon
<1>2. \A n : eventsUpTo(id, segments, n) = total[n]
  BY DEF eventsUpTo, isCountOf
<1> HIDE DEF total
<1>3. \A n \in 0 .. Len(segments) :
        total[n] = IF n = 0 THEN 0 ELSE total[n - 1] + eventsOf(id, segments[n])
  BY <1>1, Zenon DEF isCountOf
<1> QED
  BY <1>2, <1>3

-----------------------------------------------------------------------------
(* The schedules.                                                            *)

ModeIds == {"martin-m1", "scottie-s1", "robot-36", "pd-120"}

(* The frames of the registered modes and how they are laid out.              *)
LEMMA ModesAre ==
  /\ DOMAIN modes = ModeIds
  /\ modes["martin-m1"].width = 320 /\ modes["martin-m1"].height = 256
  /\ modes["scottie-s1"].width = 320 /\ modes["scottie-s1"].height = 256
  /\ modes["robot-36"].width = 320 /\ modes["robot-36"].height = 240
  /\ modes["pd-120"].width = 640 /\ modes["pd-120"].height = 496
  /\ modes["martin-m1"].layout = "rgb" /\ modes["scottie-s1"].layout = "rgb"
  /\ modes["robot-36"].layout = "4:2:0" /\ modes["pd-120"].layout = "4:4:0"
BY DEF modes, Mode, ModeIds

(* How many passes a picture takes.                                           *)
LEMMA PassesAre ==
  /\ passes("martin-m1") = 256 /\ passes("scottie-s1") = 256
  /\ passes("robot-36") = 240 /\ passes("pd-120") = 248
BY ModesAre DEF passes

Components == {"red", "green", "blue", "luma", "firstLuma", "secondLuma", "redDifference", "blueDifference"}

(* No component is empty.                                                     *)
LEMMA WidthsArePositive ==
  \A id \in ModeIds : \A component : sampleWidth(id, component) \in Positive
BY ModesAre DEF ModeIds, sampleWidth, Positive

(* Published times are durations.                                             *)
LEMMA MicrosecondsAre == \A m \in Nat : fromMicroseconds(m) \in Reduced
<1>1. 1000000 \in Positive
  BY DEF Positive
<1> QED
  BY <1>1 DEF fromMicroseconds, Reduced

(* Every segment of a schedule takes some time and makes some tones.          *)
LEMMA SchedulesAre ==
  ASSUME NEW id \in ModeIds, NEW pass \in Nat
  PROVE  /\ Len(schedule(id, pass)) \in Nat /\ Len(schedule(id, pass)) > 1
         /\ \A i \in 1 .. Len(schedule(id, pass)) :
              /\ schedule(id, pass)[i].duration \in Reduced
              /\ eventsOf(id, schedule(id, pass)[i]) \in Positive
<1>1. \A m \in Nat : \A component :
        /\ Fixed(m).duration \in Reduced /\ Scan(component, m).duration \in Reduced
        /\ eventsOf(id, Fixed(m)) \in Positive
        /\ component # "none" => eventsOf(id, Scan(component, m)) \in Positive
  <2> SUFFICES ASSUME NEW m \in Nat, NEW component
               PROVE  /\ Fixed(m).duration \in Reduced /\ Scan(component, m).duration \in Reduced
                      /\ eventsOf(id, Fixed(m)) \in Positive
                      /\ component # "none" => eventsOf(id, Scan(component, m)) \in Positive
    OBVIOUS
  <2>1. Fixed(m).duration \in Reduced /\ Scan(component, m).duration \in Reduced
    BY MicrosecondsAre DEF Fixed, Scan
  <2>2. Fixed(m).scan = "none" /\ Scan(component, m).scan = component
    BY DEF Fixed, Scan
  <2>3. 1 \in Positive /\ sampleWidth(id, component) \in Positive
    BY WidthsArePositive DEF Positive
  <2> QED
    BY <2>1, <2>2, <2>3 DEF eventsOf, isFixed
<1>2. CASE id = "martin-m1"
  <2>1. schedule(id, pass) = martinLine
    BY <1>2 DEF schedule
  <2> QED
    BY <1>1, <2>1 DEF martinLine
<1>3. CASE id = "scottie-s1"
  <2>1. schedule(id, pass) = scottieLine
    BY <1>3 DEF schedule
  <2> QED
    BY <1>1, <2>1 DEF scottieLine
<1>4. CASE id = "robot-36"
  <2>1. PICK difference \in {"redDifference", "blueDifference"} :
          schedule(id, pass) = robotLine(difference)
    BY <1>4 DEF schedule
  <2> QED
    BY <1>1, <2>1 DEF robotLine
<1>5. CASE id = "pd-120"
  <2>1. schedule(id, pass) = pdPair
    BY <1>5 DEF schedule
  <2> QED
    BY <1>1, <2>1 DEF pdPair
<1> QED
  BY <1>2, <1>3, <1>4, <1>5 DEF ModeIds

(* Events and time up to a segment of a schedule.                              *)
LEMMA UpToSegment ==
  ASSUME NEW id \in ModeIds, NEW pass \in Nat
  PROVE  LET segments == schedule(id, pass) IN
           /\ \A n \in 0 .. Len(segments) :
                /\ durationUpTo(segments, n) \in Reduced
                /\ eventsUpTo(id, segments, n) \in Nat
           /\ durationUpTo(segments, 0) = NoTime /\ eventsUpTo(id, segments, 0) = 0
           /\ \A n \in 1 .. Len(segments) :
                /\ durationUpTo(segments, n)
                     = plus(durationUpTo(segments, n - 1), segments[n].duration)
                /\ eventsUpTo(id, segments, n)
                     = eventsUpTo(id, segments, n - 1) + eventsOf(id, segments[n])
<1> DEFINE segments == schedule(id, pass)
           S == {n \in Nat : n <= Len(segments) =>
                   durationUpTo(segments, n) \in Reduced /\ eventsUpTo(id, segments, n) \in Nat}
<1>1. /\ Len(segments) \in Nat
      /\ \A i \in 1 .. Len(segments) :
           segments[i].duration \in Reduced /\ eventsOf(id, segments[i]) \in Positive
  BY SchedulesAre
<1> HIDE DEF segments
<1>2. /\ durationUpTo(segments, 0) = NoTime
      /\ \A n \in 1 .. Len(segments) :
           durationUpTo(segments, n) = plus(durationUpTo(segments, n - 1), segments[n].duration)
  BY <1>1, SumUnfolds
<1>3. /\ eventsUpTo(id, segments, 0) = 0
      /\ \A n \in 1 .. Len(segments) :
           eventsUpTo(id, segments, n)
             = eventsUpTo(id, segments, n - 1) + eventsOf(id, segments[n])
  BY <1>1, CountUnfolds
<1>4. ASSUME NEW n \in Nat, \A m \in 0 .. n - 1 : m \in S
      PROVE  n \in S
  <2> SUFFICES ASSUME n <= Len(segments)
               PROVE  durationUpTo(segments, n) \in Reduced /\ eventsUpTo(id, segments, n) \in Nat
    OBVIOUS
  <2>1. CASE n = 0
    BY <1>2, <1>3, <2>1, NoTimeIs
  <2>2. CASE n # 0
    <3>1. n \in 1 .. Len(segments) /\ n - 1 \in 0 .. n - 1
      BY <1>1, <2>2
    <3>2. durationUpTo(segments, n - 1) \in Reduced /\ eventsUpTo(id, segments, n - 1) \in Nat
      BY <1>1, <1>4, <3>1
    <3>3. plus(durationUpTo(segments, n - 1), segments[n].duration) \in Reduced
      BY <1>1, <3>1, <3>2, ReducedIs, PlusReduces
    <3> QED
      BY <1>1, <1>2, <1>3, <3>1, <3>2, <3>3 DEF Positive
  <2> QED
    BY <2>1, <2>2
<1> HIDE DEF S
<1>5. \A n \in Nat : n \in S
  BY <1>4, InductiveSet
<1>6. \A n \in 0 .. Len(segments) :
        durationUpTo(segments, n) \in Reduced /\ eventsUpTo(id, segments, n) \in Nat
  BY <1>5 DEF S
<1> QED
  BY <1>2, <1>3, <1>6 DEF segments

(* Every pass makes as many events, whichever difference it sends.               *)
LEMMA PassesAreAlike ==
  ASSUME NEW id \in ModeIds, NEW pass \in Nat
  PROVE  eventsUpTo(id, schedule(id, pass), Len(schedule(id, pass))) = lineEventCount(id)
<1>1. CASE id # "robot-36" \/ pass % 2 = 0
  <2>1. schedule(id, pass) = schedule(id, 0)
    BY <1>1 DEF schedule, ModeIds
  <2> QED
    BY <2>1, Zenon DEF lineEventCount
<1>2. CASE id = "robot-36" /\ pass % 2 # 0
  <2> DEFINE a == schedule(id, 0)
             b == schedule(id, pass)
             S == {n \in Nat : n <= 6 => eventsUpTo(id, a, n) = eventsUpTo(id, b, n)}
  <2>1. a = robotLine("redDifference") /\ b = robotLine("blueDifference")
    BY <1>2 DEF schedule
  <2>2. Len(a) = 6 /\ Len(b) = 6
    BY <2>1 DEF robotLine
  <2>3. \A i \in 1 .. 6 : eventsOf(id, a[i]) = eventsOf(id, b[i])
    <3>1. \A i \in 1 .. 5 : a[i] = b[i]
      BY <2>1 DEF robotLine
    <3>2. a[6] = Scan("redDifference", 44000) /\ b[6] = Scan("blueDifference", 44000)
      BY <2>1 DEF robotLine
    <3>3. eventsOf(id, a[6]) = 160 /\ eventsOf(id, b[6]) = 160
      BY <1>2, <3>2, ModesAre DEF eventsOf, isFixed, Scan, sampleWidth, isDifference
    <3>4. \A i \in 1 .. 6 : i \in 1 .. 5 \/ i = 6
      OBVIOUS
    <3> QED
      BY <3>1, <3>3, <3>4
  <2> HIDE DEF a, b
  <2>4. /\ eventsUpTo(id, a, 0) = 0 /\ eventsUpTo(id, b, 0) = 0
        /\ \A n \in 1 .. 6 : /\ eventsUpTo(id, a, n) = eventsUpTo(id, a, n - 1) + eventsOf(id, a[n])
                             /\ eventsUpTo(id, b, n) = eventsUpTo(id, b, n - 1) + eventsOf(id, b[n])
    <3>1. Len(a) \in Nat /\ Len(b) \in Nat
      BY <2>2
    <3>2. /\ eventsUpTo(id, a, 0) = 0
          /\ \A n \in 1 .. Len(a) : eventsUpTo(id, a, n) = eventsUpTo(id, a, n - 1) + eventsOf(id, a[n])
      BY <3>1, CountUnfolds, Zenon
    <3>3. /\ eventsUpTo(id, b, 0) = 0
          /\ \A n \in 1 .. Len(b) : eventsUpTo(id, b, n) = eventsUpTo(id, b, n - 1) + eventsOf(id, b[n])
      BY <3>1, CountUnfolds, Zenon
    <3> QED
      BY <2>2, <3>2, <3>3
  <2>5. ASSUME NEW n \in Nat, \A m \in 0 .. n - 1 : m \in S
        PROVE  n \in S
    <3> SUFFICES ASSUME n <= 6 PROVE eventsUpTo(id, a, n) = eventsUpTo(id, b, n)
      OBVIOUS
    <3>1. CASE n = 0
      BY <2>4, <3>1
    <3>2. CASE n # 0
      <4>1. n \in 1 .. 6 /\ n - 1 \in 0 .. n - 1 /\ n - 1 \in S
        BY <2>5, <3>2
      <4>2. eventsUpTo(id, a, n - 1) = eventsUpTo(id, b, n - 1)
        BY <4>1
      <4> QED
        BY <2>3, <2>4, <4>1, <4>2
    <3> QED
      BY <3>1, <3>2
  <2> HIDE DEF S
  <2>6. \A n \in Nat : n \in S
    BY <2>5, InductiveSet
  <2>7. eventsUpTo(id, a, 6) = eventsUpTo(id, b, 6)
    BY <2>6 DEF S
  <2> QED
    BY <2>2, <2>7 DEF lineEventCount, a, b
<1> QED
  BY <1>1, <1>2

(* How long the passes before this one are: with PD120 all alike, with Robot 36    *)
(* every other one.                                                           *)
passesDuration(id, pass) ==
  plus(times(durationOf(schedule(id, 0)), (pass + 1) \div 2),
       times(durationOf(schedule(id, 1)), pass \div 2))

(* The duration of a line is in lowest terms.                                 *)
LEMMA LineIsReduced ==
  \A id \in ModeIds, pass \in Nat : durationOf(schedule(id, pass)) \in Reduced
<1> SUFFICES ASSUME NEW id \in ModeIds, NEW pass \in Nat
             PROVE  durationOf(schedule(id, pass)) \in Reduced
  OBVIOUS
<1>1. Len(schedule(id, pass)) \in Nat
  BY SchedulesAre
<1>2. Len(schedule(id, pass)) \in 0 .. Len(schedule(id, pass))
  BY <1>1
<1> QED
  BY <1>2, UpToSegment DEF durationOf

(* The next pass adds the duration of its line.                               *)
LEMMA PassesAddUp ==
  ASSUME NEW id \in ModeIds, NEW pass \in Nat
  PROVE  /\ passesDuration(id, pass) \in Reduced
         /\ passesDuration(id, 0) = NoTime
         /\ passesDuration(id, pass + 1) = plus(passesDuration(id, pass), durationOf(schedule(id, pass)))
<1> DEFINE even == durationOf(schedule(id, 0))
           odd == durationOf(schedule(id, 1))
           k == (pass + 1) \div 2
           m == pass \div 2
           a == times(even, k)
           b == times(odd, m)
<1>1. even \in Durations /\ odd \in Durations
  BY LineIsReduced, ReducedIs
<1>2. k \in Nat /\ m \in Nat
  OBVIOUS
<1>3. passesDuration(id, pass) = plus(a, b)
  BY DEF passesDuration
<1>4. passesDuration(id, 0) = NoTime
  <2>1. (0 + 1) \div 2 = 0 /\ 0 \div 2 = 0
    OBVIOUS
  <2>2. times(even, 0) = NoTime /\ times(odd, 0) = NoTime
    BY <1>1, TimesNext
  <2> QED
    BY <2>1, <2>2, NoTimeIs, PlusNothing DEF passesDuration
<1>5. a \in Durations /\ b \in Durations
  BY <1>1, <1>2, TimesNext, ReducedIs
<1>6. plus(a, b) \in Reduced
  BY <1>5, PlusReduces
<1>7. CASE pass % 2 = 0
  <2>1. (pass + 1 + 1) \div 2 = k + 1 /\ (pass + 1) \div 2 = m
    BY <1>7
  <2>2. schedule(id, pass) = schedule(id, 0)
    BY <1>7 DEF schedule, ModeIds
  <2>3. times(even, k + 1) = plus(a, even)
    BY <1>1, <1>2, TimesNext
  <2>4. passesDuration(id, pass + 1) = plus(plus(a, even), b)
    BY <2>1, <2>3 DEF passesDuration
  <2> HIDE DEF a, b, even
  <2>5. plus(plus(a, even), b) = plus(a, plus(even, b)) /\ plus(even, b) = plus(b, even)
        /\ plus(a, plus(b, even)) = plus(plus(a, b), even)
    BY <1>1, <1>5, PlusAssociates, PlusReduces
  <2> QED
    BY <1>3, <1>4, <1>6, <2>2, <2>4, <2>5 DEF even
<1>8. CASE pass % 2 # 0
  <2>1. (pass + 1 + 1) \div 2 = k /\ (pass + 1) \div 2 = m + 1
    BY <1>8
  <2>2. schedule(id, pass) = schedule(id, 1)
    BY <1>8 DEF schedule, ModeIds
  <2>3. times(odd, m + 1) = plus(b, odd)
    BY <1>1, <1>2, TimesNext
  <2>4. passesDuration(id, pass + 1) = plus(a, plus(b, odd))
    BY <2>1, <2>3 DEF passesDuration
  <2> HIDE DEF a, b, odd
  <2>5. plus(a, plus(b, odd)) = plus(plus(a, b), odd)
    BY <1>1, <1>5, PlusAssociates
  <2> QED
    BY <1>3, <1>4, <1>6, <2>2, <2>4, <2>5 DEF odd
<1> QED
  BY <1>7, <1>8

(* How many scans of a plane there were before a segment of a pass, and how much   *)
(* of it was sent by them.                                                    *)
scansBefore(id, plane, pass, segment) ==
  LET after(n) == IF segment > n THEN 1 ELSE 0 IN
    CASE id = "martin-m1" ->
           pass + after(IF plane = "green" THEN 3 ELSE IF plane = "blue" THEN 5 ELSE 7)
      [] id = "scottie-s1" ->
           pass + after(IF plane = "green" THEN 2 ELSE IF plane = "blue" THEN 4 ELSE 7)
      [] id = "robot-36" ->
           IF plane = "luma" THEN pass + after(3)
           ELSE IF plane = "redDifference" THEN (pass + 1) \div 2 ELSE pass \div 2
      [] id = "pd-120" ->
           IF plane = "luma" THEN 2 * pass + after(3)
           ELSE pass + after(IF plane = "redDifference" THEN 4 ELSE 5)
sentBefore(id, pass, segment) ==
  [plane \in planesOf(id) |-> scansBefore(id, plane, pass, segment) * sampleWidth(id, plane)]

(* Before the first pass nothing was sent, after the last one every plane as  *)
(* a whole.                                                                   *)
LEMMA SentAtEnds ==
  ASSUME NEW id \in ModeIds
  PROVE  /\ sentBefore(id, 0, 1) = [plane \in planesOf(id) |-> 0]
         /\ \A plane \in planesOf(id) : sentBefore(id, passes(id), 1)[plane] = planeSize(id, plane)
<1>1. CASE id = "martin-m1" \/ id = "scottie-s1"
  BY <1>1, ModesAre, PassesAre
     DEF sentBefore, scansBefore, planesOf, sampleWidth, planeSize, isDifference
<1>2. CASE id = "robot-36"
  BY <1>2, ModesAre, PassesAre
     DEF sentBefore, scansBefore, planesOf, sampleWidth, planeSize, isDifference, columnsPerSample
<1>3. CASE id = "pd-120"
  BY <1>3, ModesAre, PassesAre
     DEF sentBefore, scansBefore, planesOf, sampleWidth, planeSize, isDifference, columnsPerSample
<1> QED
  BY <1>1, <1>2, <1>3 DEF ModeIds

(* A scan sends the next row of its plane; no segment sends anything else.         *)
isNextScan(id, segment, pass, before, after) ==
  \/ isFixed(segment) /\ \A plane \in planesOf(id) : after[plane] = before[plane]
  \/ /\ ~isFixed(segment)
     /\ planeOf(segment.scan) \in planesOf(id)
     /\ sampleWidth(id, segment.scan) = sampleWidth(id, planeOf(segment.scan))
     /\ rowOf(id, segment.scan, pass) = before[planeOf(segment.scan)]
     /\ \A plane \in planesOf(id) :
          after[plane] = IF plane = planeOf(segment.scan) THEN before[plane] + 1 ELSE before[plane]

scansOf(id, pass, segment) ==
  [plane \in planesOf(id) |-> scansBefore(id, plane, pass, segment)]

(* From one segment to the next the scans of one plane go up by one, if any   *)
(* do.                                                                        *)
LEMMA ScansAreNext ==
  ASSUME NEW id \in ModeIds, NEW pass \in Nat, NEW i \in 1 .. Len(schedule(id, pass))
  PROVE  isNextScan(id, schedule(id, pass)[i], pass, scansOf(id, pass, i),
                    IF i = Len(schedule(id, pass)) THEN scansOf(id, pass + 1, 1)
                    ELSE scansOf(id, pass, i + 1))
<1>1. CASE id = "martin-m1"
  <2> DEFINE before == scansOf(id, pass, i)
             after == IF i = 8 THEN scansOf(id, pass + 1, 1) ELSE scansOf(id, pass, i + 1)
  <2>1. schedule(id, pass) = martinLine /\ planesOf(id) = {"red", "green", "blue"}
    BY <1>1, ModesAre DEF schedule, planesOf
  <2>2. Len(martinLine) = 8 /\ i \in 1 .. 8
    BY <2>1 DEF martinLine
  <2>3. /\ \A k \in {1, 2, 4, 6, 8} : martinLine[k].scan = "none"
        /\ martinLine[3].scan = "green"
        /\ martinLine[5].scan = "blue"
        /\ martinLine[7].scan = "red"
    BY DEF martinLine, Fixed, Scan
  <2>6. /\ before["green"] = pass + (IF i > 3 THEN 1 ELSE 0)
        /\ before["blue"] = pass + (IF i > 5 THEN 1 ELSE 0)
        /\ before["red"] = pass + (IF i > 7 THEN 1 ELSE 0)
    BY <1>1, <2>1, <2>2 DEF scansOf, scansBefore
  <2>7. /\ after["green"] = pass + (IF i >= 3 THEN 1 ELSE 0)
        /\ after["blue"] = pass + (IF i >= 5 THEN 1 ELSE 0)
        /\ after["red"] = pass + (IF i >= 7 THEN 1 ELSE 0)
    BY <1>1, <2>1, <2>2 DEF scansOf, scansBefore
  <2> HIDE DEF before, after
  <2>8. isNextScan(id, martinLine[i], pass, before, after)
    <3>1. CASE i \in {1, 2, 4, 6, 8}
      BY <2>1, <2>3, <2>6, <2>7, <3>1 DEF isNextScan, isFixed
    <3>2. CASE i = 3
      <4>1. martinLine[i].scan = "green" /\ "green" # "none" /\ planeOf("green") = "green"
        BY <2>3, <3>2 DEF planeOf
      <4>2. /\ rowOf(id, "green", pass) = pass
            /\ sampleWidth(id, "green") = sampleWidth(id, "green")
        BY <1>1 DEF rowOf, sampleWidth, isDifference
      <4>3. /\ before["green"] = pass /\ after["green"] = before["green"] + 1
            /\ \A plane \in planesOf(id) \ {"green"} : after[plane] = before[plane]
        BY <2>1, <2>6, <2>7, <3>2
      <4> QED
        BY <2>1, <4>1, <4>2, <4>3 DEF isNextScan, isFixed
    <3>3. CASE i = 5
      <4>1. martinLine[i].scan = "blue" /\ "blue" # "none" /\ planeOf("blue") = "blue"
        BY <2>3, <3>3 DEF planeOf
      <4>2. /\ rowOf(id, "blue", pass) = pass
            /\ sampleWidth(id, "blue") = sampleWidth(id, "blue")
        BY <1>1 DEF rowOf, sampleWidth, isDifference
      <4>3. /\ before["blue"] = pass /\ after["blue"] = before["blue"] + 1
            /\ \A plane \in planesOf(id) \ {"blue"} : after[plane] = before[plane]
        BY <2>1, <2>6, <2>7, <3>3
      <4> QED
        BY <2>1, <4>1, <4>2, <4>3 DEF isNextScan, isFixed
    <3>4. CASE i = 7
      <4>1. martinLine[i].scan = "red" /\ "red" # "none" /\ planeOf("red") = "red"
        BY <2>3, <3>4 DEF planeOf
      <4>2. /\ rowOf(id, "red", pass) = pass
            /\ sampleWidth(id, "red") = sampleWidth(id, "red")
        BY <1>1 DEF rowOf, sampleWidth, isDifference
      <4>3. /\ before["red"] = pass /\ after["red"] = before["red"] + 1
            /\ \A plane \in planesOf(id) \ {"red"} : after[plane] = before[plane]
        BY <2>1, <2>6, <2>7, <3>4
      <4> QED
        BY <2>1, <4>1, <4>2, <4>3 DEF isNextScan, isFixed
    <3> QED
      BY <2>2, <3>1, <3>2, <3>3, <3>4
  <2> QED
    BY <2>1, <2>2, <2>8 DEF before, after
<1>2. CASE id = "scottie-s1"
  <2> DEFINE before == scansOf(id, pass, i)
             after == IF i = 7 THEN scansOf(id, pass + 1, 1) ELSE scansOf(id, pass, i + 1)
  <2>1. schedule(id, pass) = scottieLine /\ planesOf(id) = {"red", "green", "blue"}
    BY <1>2, ModesAre DEF schedule, planesOf
  <2>2. Len(scottieLine) = 7 /\ i \in 1 .. 7
    BY <2>1 DEF scottieLine
  <2>3. /\ \A k \in {1, 3, 5, 6} : scottieLine[k].scan = "none"
        /\ scottieLine[2].scan = "green"
        /\ scottieLine[4].scan = "blue"
        /\ scottieLine[7].scan = "red"
    BY DEF scottieLine, Fixed, Scan
  <2>6. /\ before["green"] = pass + (IF i > 2 THEN 1 ELSE 0)
        /\ before["blue"] = pass + (IF i > 4 THEN 1 ELSE 0)
        /\ before["red"] = pass + (IF i > 7 THEN 1 ELSE 0)
    BY <1>2, <2>1, <2>2 DEF scansOf, scansBefore
  <2>7. /\ after["green"] = pass + (IF i >= 2 THEN 1 ELSE 0)
        /\ after["blue"] = pass + (IF i >= 4 THEN 1 ELSE 0)
        /\ after["red"] = pass + (IF i >= 7 THEN 1 ELSE 0)
    BY <1>2, <2>1, <2>2 DEF scansOf, scansBefore
  <2> HIDE DEF before, after
  <2>8. isNextScan(id, scottieLine[i], pass, before, after)
    <3>1. CASE i \in {1, 3, 5, 6}
      BY <2>1, <2>3, <2>6, <2>7, <3>1 DEF isNextScan, isFixed
    <3>2. CASE i = 2
      <4>1. scottieLine[i].scan = "green" /\ "green" # "none" /\ planeOf("green") = "green"
        BY <2>3, <3>2 DEF planeOf
      <4>2. /\ rowOf(id, "green", pass) = pass
            /\ sampleWidth(id, "green") = sampleWidth(id, "green")
        BY <1>2 DEF rowOf, sampleWidth, isDifference
      <4>3. /\ before["green"] = pass /\ after["green"] = before["green"] + 1
            /\ \A plane \in planesOf(id) \ {"green"} : after[plane] = before[plane]
        BY <2>1, <2>6, <2>7, <3>2
      <4> QED
        BY <2>1, <4>1, <4>2, <4>3 DEF isNextScan, isFixed
    <3>3. CASE i = 4
      <4>1. scottieLine[i].scan = "blue" /\ "blue" # "none" /\ planeOf("blue") = "blue"
        BY <2>3, <3>3 DEF planeOf
      <4>2. /\ rowOf(id, "blue", pass) = pass
            /\ sampleWidth(id, "blue") = sampleWidth(id, "blue")
        BY <1>2 DEF rowOf, sampleWidth, isDifference
      <4>3. /\ before["blue"] = pass /\ after["blue"] = before["blue"] + 1
            /\ \A plane \in planesOf(id) \ {"blue"} : after[plane] = before[plane]
        BY <2>1, <2>6, <2>7, <3>3
      <4> QED
        BY <2>1, <4>1, <4>2, <4>3 DEF isNextScan, isFixed
    <3>4. CASE i = 7
      <4>1. scottieLine[i].scan = "red" /\ "red" # "none" /\ planeOf("red") = "red"
        BY <2>3, <3>4 DEF planeOf
      <4>2. /\ rowOf(id, "red", pass) = pass
            /\ sampleWidth(id, "red") = sampleWidth(id, "red")
        BY <1>2 DEF rowOf, sampleWidth, isDifference
      <4>3. /\ before["red"] = pass /\ after["red"] = before["red"] + 1
            /\ \A plane \in planesOf(id) \ {"red"} : after[plane] = before[plane]
        BY <2>1, <2>6, <2>7, <3>4
      <4> QED
        BY <2>1, <4>1, <4>2, <4>3 DEF isNextScan, isFixed
    <3> QED
      BY <2>2, <3>1, <3>2, <3>3, <3>4
  <2> QED
    BY <2>1, <2>2, <2>8 DEF before, after
<1>3. CASE id = "robot-36"
  <2> DEFINE before == scansOf(id, pass, i)
             after == IF i = 6 THEN scansOf(id, pass + 1, 1) ELSE scansOf(id, pass, i + 1)
             difference == IF pass % 2 = 0 THEN "redDifference" ELSE "blueDifference"
             line == robotLine(difference)
  <2>1. schedule(id, pass) = line /\ planesOf(id) = {"luma", "redDifference", "blueDifference"}
    BY <1>3, ModesAre DEF schedule, planesOf
  <2>2. Len(line) = 6 /\ i \in 1 .. 6
    BY <2>1 DEF robotLine
  <2>3. /\ \A k \in {1, 2, 4, 5} : line[k].scan = "none"
        /\ line[3].scan = "luma"
        /\ line[6].scan = difference
    BY DEF robotLine, Fixed, Scan
  <2>4. pass % 2 = 0 => /\ (pass + 1) \div 2 = pass \div 2
                        /\ (pass + 1 + 1) \div 2 = pass \div 2 + 1
    OBVIOUS
  <2>5. pass % 2 # 0 => /\ (pass + 1) \div 2 = pass \div 2 + 1
                        /\ (pass + 1 + 1) \div 2 = (pass + 1) \div 2
    OBVIOUS
  <2>6. /\ before["luma"] = pass + (IF i > 3 THEN 1 ELSE 0)
        /\ before["redDifference"] = (pass + 1) \div 2
        /\ before["blueDifference"] = pass \div 2
    BY <1>3, <2>1, <2>2 DEF scansOf, scansBefore
  <2>7. /\ after["luma"] = pass + (IF i >= 3 THEN 1 ELSE 0)
        /\ after["redDifference"] = IF i = 6 THEN (pass + 1 + 1) \div 2 ELSE (pass + 1) \div 2
        /\ after["blueDifference"] = IF i = 6 THEN (pass + 1) \div 2 ELSE pass \div 2
    BY <1>3, <2>1, <2>2, <2>4, <2>5, SMTT(30) DEF scansOf, scansBefore
  <2> HIDE DEF before, after, line
  <2>8. isNextScan(id, line[i], pass, before, after)
    <3>1. CASE i \in {1, 2, 4, 5}
      BY <2>1, <2>3, <2>4, <2>5, <2>6, <2>7, <3>1 DEF isNextScan, isFixed
    <3>2. CASE i = 3
      <4>1. line[i].scan = "luma" /\ "luma" # "none" /\ planeOf("luma") = "luma"
        BY <2>3, <3>2 DEF planeOf
      <4>2. /\ rowOf(id, "luma", pass) = pass
            /\ sampleWidth(id, "luma") = sampleWidth(id, "luma")
        BY <1>3 DEF rowOf, sampleWidth, isDifference
      <4>3. /\ before["luma"] = pass /\ after["luma"] = before["luma"] + 1
            /\ \A plane \in planesOf(id) \ {"luma"} : after[plane] = before[plane]
        BY <2>1, <2>4, <2>5, <2>6, <2>7, <3>2
      <4> QED
        BY <2>1, <4>1, <4>2, <4>3 DEF isNextScan, isFixed
    <3>3. CASE i = 6
      <4>1. line[i].scan = difference /\ difference # "none" /\ planeOf(difference) = difference
        BY <2>3, <3>3 DEF planeOf
      <4>2. /\ rowOf(id, difference, pass) = pass \div 2
            /\ sampleWidth(id, difference) = sampleWidth(id, difference)
        BY <1>3 DEF rowOf, sampleWidth, isDifference
      <4>3. /\ before[difference] = pass \div 2 /\ after[difference] = before[difference] + 1
            /\ \A plane \in planesOf(id) \ {difference} : after[plane] = before[plane]
        BY <2>1, <2>4, <2>5, <2>6, <2>7, <3>3
      <4> QED
        BY <2>1, <4>1, <4>2, <4>3 DEF isNextScan, isFixed
    <3> QED
      BY <2>2, <3>1, <3>2, <3>3
  <2> QED
    BY <2>1, <2>2, <2>8 DEF before, after
<1>4. CASE id = "pd-120"
  <2> DEFINE before == scansOf(id, pass, i)
             after == IF i = 6 THEN scansOf(id, pass + 1, 1) ELSE scansOf(id, pass, i + 1)
  <2>1. schedule(id, pass) = pdPair /\ planesOf(id) = {"luma", "redDifference", "blueDifference"}
    BY <1>4, ModesAre DEF schedule, planesOf
  <2>2. Len(pdPair) = 6 /\ i \in 1 .. 6
    BY <2>1 DEF pdPair
  <2>3. /\ \A k \in {1, 2} : pdPair[k].scan = "none"
        /\ pdPair[3].scan = "firstLuma"
        /\ pdPair[4].scan = "redDifference"
        /\ pdPair[5].scan = "blueDifference"
        /\ pdPair[6].scan = "secondLuma"
    BY DEF pdPair, Fixed, Scan
  <2>6. /\ before["luma"] = 2 * pass + (IF i > 3 THEN 1 ELSE 0)
        /\ before["redDifference"] = pass + (IF i > 4 THEN 1 ELSE 0)
        /\ before["blueDifference"] = pass + (IF i > 5 THEN 1 ELSE 0)
    BY <1>4, <2>1, <2>2 DEF scansOf, scansBefore
  <2>7. /\ after["luma"] = 2 * pass + (IF i < 3 THEN 0 ELSE IF i < 6 THEN 1 ELSE 2)
        /\ after["redDifference"] = pass + (IF i >= 4 THEN 1 ELSE 0)
        /\ after["blueDifference"] = pass + (IF i >= 5 THEN 1 ELSE 0)
    BY <1>4, <2>1, <2>2, SMTT(30) DEF scansOf, scansBefore
  <2> HIDE DEF before, after
  <2>8. isNextScan(id, pdPair[i], pass, before, after)
    <3>1. CASE i \in {1, 2}
      BY <2>1, <2>3, <2>6, <2>7, <3>1 DEF isNextScan, isFixed
    <3>2. CASE i = 3
      <4>1. pdPair[i].scan = "firstLuma" /\ "firstLuma" # "none" /\ planeOf("firstLuma") = "luma"
        BY <2>3, <3>2 DEF planeOf
      <4>2. /\ rowOf(id, "firstLuma", pass) = 2 * pass
            /\ sampleWidth(id, "firstLuma") = sampleWidth(id, "luma")
        BY <1>4 DEF rowOf, sampleWidth, isDifference
      <4>3. /\ before["luma"] = 2 * pass /\ after["luma"] = before["luma"] + 1
            /\ \A plane \in planesOf(id) \ {"luma"} : after[plane] = before[plane]
        BY <2>1, <2>6, <2>7, <3>2
      <4> QED
        BY <2>1, <4>1, <4>2, <4>3 DEF isNextScan, isFixed
    <3>3. CASE i = 4
      <4>1. pdPair[i].scan = "redDifference" /\ "redDifference" # "none" /\ planeOf("redDifference") = "redDifference"
        BY <2>3, <3>3 DEF planeOf
      <4>2. /\ rowOf(id, "redDifference", pass) = pass
            /\ sampleWidth(id, "redDifference") = sampleWidth(id, "redDifference")
        BY <1>4 DEF rowOf, sampleWidth, isDifference
      <4>3. /\ before["redDifference"] = pass /\ after["redDifference"] = before["redDifference"] + 1
            /\ \A plane \in planesOf(id) \ {"redDifference"} : after[plane] = before[plane]
        BY <2>1, <2>6, <2>7, <3>3
      <4> QED
        BY <2>1, <4>1, <4>2, <4>3 DEF isNextScan, isFixed
    <3>4. CASE i = 5
      <4>1. pdPair[i].scan = "blueDifference" /\ "blueDifference" # "none" /\ planeOf("blueDifference") = "blueDifference"
        BY <2>3, <3>4 DEF planeOf
      <4>2. /\ rowOf(id, "blueDifference", pass) = pass
            /\ sampleWidth(id, "blueDifference") = sampleWidth(id, "blueDifference")
        BY <1>4 DEF rowOf, sampleWidth, isDifference
      <4>3. /\ before["blueDifference"] = pass /\ after["blueDifference"] = before["blueDifference"] + 1
            /\ \A plane \in planesOf(id) \ {"blueDifference"} : after[plane] = before[plane]
        BY <2>1, <2>6, <2>7, <3>4
      <4> QED
        BY <2>1, <4>1, <4>2, <4>3 DEF isNextScan, isFixed
    <3>5. CASE i = 6
      <4>1. pdPair[i].scan = "secondLuma" /\ "secondLuma" # "none" /\ planeOf("secondLuma") = "luma"
        BY <2>3, <3>5 DEF planeOf
      <4>2. /\ rowOf(id, "secondLuma", pass) = 2 * pass + 1
            /\ sampleWidth(id, "secondLuma") = sampleWidth(id, "luma")
        BY <1>4 DEF rowOf, sampleWidth, isDifference
      <4>3. /\ before["luma"] = 2 * pass + 1 /\ after["luma"] = before["luma"] + 1
            /\ \A plane \in planesOf(id) \ {"luma"} : after[plane] = before[plane]
        BY <2>1, <2>6, <2>7, <3>5
      <4> QED
        BY <2>1, <4>1, <4>2, <4>3 DEF isNextScan, isFixed
    <3> QED
      BY <2>2, <3>1, <3>2, <3>3, <3>4, <3>5
  <2> QED
    BY <2>1, <2>2, <2>8 DEF before, after
<1> QED
  BY <1>1, <1>2, <1>3, <1>4 DEF ModeIds

-----------------------------------------------------------------------------
(* What a segment sends.                                                       *)

(* What one segment adds to the planes, as EncodeSegment says it.               *)
withSegment(id, segment, pass, sent) ==
  IF isFixed(segment) THEN sent
  ELSE [sent EXCEPT ![planeOf(segment.scan)] = afterScan(id, segment.scan, pass, @)]
sentAfter(id, pass, i) ==
  IF i = Len(schedule(id, pass)) THEN sentBefore(id, pass + 1, 1) ELSE sentBefore(id, pass, i + 1)

(* What EncodeSegment adds to the planes is what is sent before the next      *)
(* segment.                                                                   *)
LEMMA SentIsNext ==
  ASSUME NEW id \in ModeIds, NEW pass \in Nat, NEW i \in 1 .. Len(schedule(id, pass))
  PROVE  sentAfter(id, pass, i)
           = withSegment(id, schedule(id, pass)[i], pass, sentBefore(id, pass, i))
<1> DEFINE segment == schedule(id, pass)[i]
           before == scansOf(id, pass, i)
           after == IF i = Len(schedule(id, pass)) THEN scansOf(id, pass + 1, 1)
                    ELSE scansOf(id, pass, i + 1)
           width(plane) == sampleWidth(id, plane)
           sent == [plane \in planesOf(id) |-> before[plane] * width(plane)]
           next == [plane \in planesOf(id) |-> after[plane] * width(plane)]
<1>1. isNextScan(id, segment, pass, before, after)
  BY ScansAreNext
<1>2. sent = sentBefore(id, pass, i)
  BY DEF sentBefore, scansOf
<1>3. next = sentAfter(id, pass, i)
  BY DEF sentBefore, scansOf, sentAfter
<1> HIDE DEF before, after, segment
<1>4. CASE isFixed(segment)
  <2>1. next = sent
    BY <1>1, <1>4, Zenon DEF isNextScan
  <2> QED
    BY <1>2, <1>3, <1>4, <2>1 DEF segment, withSegment
<1>5. CASE ~isFixed(segment)
  <2> DEFINE p == planeOf(segment.scan)
             row == rowOf(id, segment.scan, pass)
  <2>1. /\ p \in planesOf(id) /\ sampleWidth(id, segment.scan) = width(p) /\ row = before[p]
        /\ \A plane \in planesOf(id) :
             after[plane] = IF plane = p THEN before[plane] + 1 ELSE before[plane]
    BY <1>1, <1>5, Zenon DEF isNextScan
  <2>2. width(p) \in Nat /\ row \in Nat
    BY WidthsArePositive DEF rowOf, Positive
  <2>3. afterScan(id, segment.scan, pass, sent[p]) = (before[p] + 1) * width(p)
    <3>1. sent[p] = row * sampleWidth(id, segment.scan)
      BY <2>1
    <3>2. afterScan(id, segment.scan, pass, sent[p]) = sent[p] + width(p)
      BY <2>1, <3>1, Zenon DEF afterScan
    <3>3. \A x, y \in Nat : x * y + y = (x + 1) * y
      OBVIOUS
    <3> QED
      BY <2>1, <2>2, <3>1, <3>2, <3>3
  <2> DEFINE other == [sent EXCEPT ![p] = afterScan(id, segment.scan, pass, @)]
  <2>4. other = [plane \in planesOf(id) |->
                   IF plane = p THEN afterScan(id, segment.scan, pass, sent[p]) ELSE sent[plane]]
    OBVIOUS
  <2>5. \A plane \in planesOf(id) : next[plane] = other[plane]
    BY <2>1, <2>3, <2>4
  <2>6. next = other
    BY <2>4, <2>5, Zenon
  <2> QED
    BY <1>2, <1>3, <1>5, <2>6 DEF segment, withSegment
<1> QED
  BY <1>4, <1>5

-----------------------------------------------------------------------------
(* The inductive invariant: where the encoder is, so many tones, so much time and   *)
(* so much of each plane have been sent.                                         *)

isTransmission(t) ==
  DOMAIN t = {"place", "mode", "identifier", "pass", "segment", "events", "elapsed", "sent",
              "vis", "fsk"}

isBegun(t) == t.pass = 0 /\ t.segment = 1 /\ t.sent = sentBefore(t.mode, 0, 1)
hasHeader(t) == t.events = visEvents /\ t.elapsed = visDuration
eventsBefore(id, pass, segment) ==
  visEvents + pass * lineEventCount(id) + eventsUpTo(id, schedule(id, pass), segment - 1)
elapsedBefore(id, pass, segment) ==
  plus(visDuration, plus(passesDuration(id, pass), durationUpTo(schedule(id, pass), segment - 1)))
isAtSegment(t) ==
  /\ t.pass \in 0 .. passes(t.mode) - 1
  /\ t.segment \in 1 .. Len(schedule(t.mode, t.pass))
  /\ t.events = eventsBefore(t.mode, t.pass, t.segment)
  /\ t.elapsed = elapsedBefore(t.mode, t.pass, t.segment)
  /\ t.sent = sentBefore(t.mode, t.pass, t.segment)
hasPicture(t) ==
  /\ t.events = reservedEvents(t.mode)
  /\ t.elapsed = transmissionDuration(t.mode)
  /\ t.sent = sentBefore(t.mode, passes(t.mode), 1)
hasSuffix(t) ==
  /\ t.events = reservedEvents(t.mode)
                  + (IF t.identifier = NoIdentifier THEN 0 ELSE fskEvents(t.identifier))
  /\ t.elapsed = publishedDuration(t)
  /\ t.sent = sentBefore(t.mode, passes(t.mode), 1)

isUnderway(t) ==
  /\ isTransmission(t) /\ t.mode \in ModeIds
  /\ \/ t.place = "header" /\ isBegun(t)
     \/ t.place = "convert" /\ modes[t.mode].layout # "rgb" /\ isBegun(t) /\ hasHeader(t)
     \/ t.place = "lines" /\ isAtSegment(t)
     \/ t.place = "suffix" /\ hasPicture(t)
     \/ t.place = "complete" /\ hasSuffix(t)
EncInv == tx = NoTransmission \/ tx.place = "refused" \/ isUnderway(tx)

(* After the header the encoder is at the first segment of the first pass.    *)
LEMMA FirstSegment ==
  ASSUME NEW t, t.mode \in ModeIds, isBegun(t), hasHeader(t)
  PROVE  isAtSegment(t)
<1> DEFINE id == t.mode
           segments == schedule(id, 0)
<1>1. /\ durationUpTo(segments, 0) = NoTime /\ eventsUpTo(id, segments, 0) = 0
      /\ Len(segments) \in Nat /\ Len(segments) > 1
  BY UpToSegment, SchedulesAre
<1>2. passesDuration(id, 0) = NoTime
  BY PassesAddUp
<1>3. visDuration \in Reduced /\ NoTime \in Reduced
  BY MicrosecondsAre, NoTimeIs DEF visDuration
<1>4. plus(visDuration, plus(NoTime, NoTime)) = visDuration
  BY <1>3, PlusNothing
<1>5. passes(id) \in Nat /\ passes(id) > 0
  BY PassesAre DEF ModeIds
<1>6. lineEventCount(id) \in Nat
  BY <1>1, UpToSegment DEF lineEventCount
<1>7. visEvents + 0 * lineEventCount(id) + 0 = visEvents
  BY <1>6 DEF visEvents
<1> HIDE DEF segments
<1> QED
  BY <1>1, <1>2, <1>4, <1>5, <1>7
     DEF isAtSegment, isBegun, hasHeader, segments, eventsBefore, elapsedBefore

(* The header keeps the invariant.                                            *)
LEMMA HeaderKeeps ==
  ASSUME EncInv, EncodeHeader PROVE EncInv'
<1>1. isUnderway(tx) /\ isBegun(tx) /\ tx.mode \in ModeIds
  BY DEF EncInv, EncodeHeader, NoTransmission, isUnderway
<1>2. \/ tx'.place = "lines"
      \/ tx'.place = "convert" /\ modes[tx'.mode].layout # "rgb"
  <2>1. tx'.mode = tx.mode
    BY <1>1 DEF EncodeHeader, isUnderway, isTransmission
  <2>2. tx'.place = IF modes[tx.mode].layout = "rgb" THEN "lines" ELSE "convert"
    BY <1>1 DEF EncodeHeader, isUnderway, isTransmission
  <2> QED
    BY <2>1, <2>2
<1>3. /\ isTransmission(tx') /\ isBegun(tx') /\ hasHeader(tx')
      /\ tx'.mode \in ModeIds
  BY <1>1 DEF EncodeHeader, isUnderway, isTransmission, isBegun, hasHeader
<1>4. isAtSegment(tx')
  BY <1>3, FirstSegment
<1> QED
  BY <1>2, <1>3, <1>4 DEF EncInv, isUnderway

(* Converting the picture sends nothing.                                      *)
LEMMA ConvertKeeps ==
  ASSUME EncInv, ConvertFrame PROVE EncInv'
<1>1. isUnderway(tx) /\ isBegun(tx) /\ hasHeader(tx) /\ tx.mode \in ModeIds
  BY DEF EncInv, ConvertFrame, NoTransmission, isUnderway
<1>2. tx' = [tx EXCEPT !.place = "lines"]
  BY DEF ConvertFrame
<1>3. /\ isTransmission(tx') /\ isBegun(tx') /\ hasHeader(tx')
      /\ tx'.mode \in ModeIds /\ tx'.place = "lines"
  BY <1>1, <1>2 DEF isUnderway, isTransmission, isBegun, hasHeader
<1>4. isAtSegment(tx')
  BY <1>3, FirstSegment
<1> QED
  BY <1>3, <1>4 DEF EncInv, isUnderway

(* Tones, time and picture at the end of one segment are those at the beginning of   *)
(* the next, of this pass or of the next pass.                                    *)
LEMMA SegmentEnds ==
  ASSUME NEW id \in ModeIds, NEW pass \in Nat, NEW i \in 1 .. Len(schedule(id, pass))
  PROVE  LET segments == schedule(id, pass)
             count == eventsOf(id, segments[i])
             time == times(dividedBy(segments[i].duration, count), count)
         IN /\ i = Len(segments) =>
                 /\ eventsBefore(id, pass, i) + count = eventsBefore(id, pass + 1, 1)
                 /\ plus(elapsedBefore(id, pass, i), time) = elapsedBefore(id, pass + 1, 1)
            /\ i # Len(segments) =>
                 /\ eventsBefore(id, pass, i) + count = eventsBefore(id, pass, i + 1)
                 /\ plus(elapsedBefore(id, pass, i), time) = elapsedBefore(id, pass, i + 1)
            /\ eventsBefore(id, pass + 1, 1) = visEvents + (pass + 1) * lineEventCount(id)
            /\ elapsedBefore(id, pass + 1, 1) = plus(visDuration, passesDuration(id, pass + 1))
<1> DEFINE segments == schedule(id, pass)
           time == segments[i].duration
           count == eventsOf(id, segments[i])
           D(n) == durationUpTo(segments, n)
           E(n) == eventsUpTo(id, segments, n)
           line == lineEventCount(id)
           P == passesDuration(id, pass)
<1>1. /\ Len(segments) \in Nat /\ Len(segments) > 1
      /\ time \in Reduced /\ count \in Positive
  BY SchedulesAre
<1>2. /\ D(i - 1) \in Reduced /\ E(i - 1) \in Nat
      /\ D(i) = plus(D(i - 1), time) /\ E(i) = E(i - 1) + count
  BY UpToSegment
<1>3. line = eventsUpTo(id, segments, Len(segments)) /\ line \in Nat
  BY <1>1, PassesAreAlike, UpToSegment
<1>4. P \in Reduced /\ passesDuration(id, pass + 1) = plus(P, durationOf(segments))
      /\ passesDuration(id, pass + 1) \in Reduced
  BY PassesAddUp
<1>5. D(Len(segments)) = durationOf(segments)
  BY DEF durationOf
<1>6. \A p \in Nat : durationUpTo(schedule(id, p), 0) = NoTime
                     /\ eventsUpTo(id, schedule(id, p), 0) = 0
  BY UpToSegment
<1>7. times(dividedBy(time, count), count) = time
  BY <1>1, SharedOut
<1>8. visDuration \in Reduced
  BY MicrosecondsAre DEF visDuration
<1>9. /\ P \in Durations /\ D(i - 1) \in Durations /\ time \in Durations
      /\ visDuration \in Durations /\ plus(P, D(i - 1)) \in Durations
  <2>1. P \in Durations /\ D(i - 1) \in Durations /\ time \in Durations /\ visDuration \in Durations
    BY <1>1, <1>2, <1>4, <1>8, ReducedIs
  <2>2. plus(P, D(i - 1)) \in Reduced
    BY <2>1, PlusReduces
  <2> QED
    BY <2>1, <2>2, ReducedIs
<1> HIDE DEF segments, time, count, D, E, line, P
<1>10. plus(plus(visDuration, plus(P, D(i - 1))), time) = plus(visDuration, plus(P, D(i)))
  <2>1. plus(plus(visDuration, plus(P, D(i - 1))), time)
          = plus(visDuration, plus(plus(P, D(i - 1)), time))
    BY <1>9, PlusAssociates
  <2>2. plus(plus(P, D(i - 1)), time) = plus(P, plus(D(i - 1), time))
    BY <1>9, PlusAssociates
  <2> QED
    BY <1>2, <2>1, <2>2
<1>11. plus(P, NoTime) = P /\ plus(passesDuration(id, pass + 1), NoTime) = passesDuration(id, pass + 1)
  BY <1>4, PlusNothing
<1>12. visEvents \in Nat
  BY DEF visEvents
<1>13. pass * line + E(i - 1) + count = pass * line + E(i) /\ pass * line \in Nat
       /\ (pass + 1) * line = pass * line + line
  BY <1>1, <1>2, <1>3 DEF Positive
<1> DEFINE sum == pass * line
           more == (pass + 1) * line
<1>14. /\ sum \in Nat /\ more = sum + line /\ line \in Nat
       /\ sum + E(i - 1) + count = sum + E(i)
       /\ count \in Nat /\ E(i - 1) \in Nat /\ E(i) \in Nat
  <2>1. count \in Nat
    BY <1>1 DEF Positive
  <2>2. E(i - 1) \in Nat /\ E(i) \in Nat
    BY <1>2, <2>1
  <2>3. /\ sum \in Nat /\ more = sum + line /\ line \in Nat
        /\ sum + E(i - 1) + count = sum + E(i)
    BY <1>3, <1>13, Zenon
  <2> QED
    BY <2>1, <2>2, <2>3, Zenon
<1>15. /\ eventsBefore(id, pass, i) = visEvents + sum + E(i - 1)
       /\ elapsedBefore(id, pass, i) = plus(visDuration, plus(P, D(i - 1)))
  BY DEF eventsBefore, elapsedBefore, E, D, P, line, segments
<1>16. /\ eventsBefore(id, pass + 1, 1) = visEvents + more
       /\ elapsedBefore(id, pass + 1, 1) = plus(visDuration, passesDuration(id, pass + 1))
  <2>1. 1 - 1 = 0 /\ pass + 1 \in Nat
    OBVIOUS
  <2>2. durationUpTo(schedule(id, pass + 1), 0) = NoTime /\ eventsUpTo(id, schedule(id, pass + 1), 0) = 0
    BY <1>6, <2>1
  <2>3. /\ eventsBefore(id, pass + 1, 1) = visEvents + more + 0
        /\ elapsedBefore(id, pass + 1, 1) = plus(visDuration, plus(passesDuration(id, pass + 1), NoTime))
    BY <2>1, <2>2 DEF eventsBefore, elapsedBefore, line
  <2> HIDE DEF more, sum
  <2>4. visEvents + more + 0 = visEvents + more
    BY <1>12, <1>14
  <2> QED
    BY <1>11, <2>3, <2>4
<1>17. ASSUME i = Len(segments)
       PROVE  /\ eventsBefore(id, pass, i) + count = eventsBefore(id, pass + 1, 1)
              /\ plus(elapsedBefore(id, pass, i), time) = elapsedBefore(id, pass + 1, 1)
  <2>1. E(i) = line
    BY <1>3, <1>17 DEF E
  <2>2. plus(P, D(i)) = passesDuration(id, pass + 1)
    BY <1>4, <1>5, <1>17
  <2> HIDE DEF more, sum
  <2>3. visEvents + sum + E(i - 1) + count = visEvents + more
    BY <1>12, <1>14, <2>1, SMTT(30)
  <2> QED
    BY <1>10, <1>15, <1>16, <2>2, <2>3
<1>18. ASSUME i # Len(segments)
       PROVE  /\ eventsBefore(id, pass, i) + count = eventsBefore(id, pass, i + 1)
              /\ plus(elapsedBefore(id, pass, i), time) = elapsedBefore(id, pass, i + 1)
  <2>1. i + 1 - 1 = i
    OBVIOUS
  <2>2. /\ eventsBefore(id, pass, i + 1) = visEvents + sum + E(i)
        /\ elapsedBefore(id, pass, i + 1) = plus(visDuration, plus(P, D(i)))
    BY <2>1 DEF eventsBefore, elapsedBefore, E, D, P, line, segments
  <2> HIDE DEF more, sum
  <2>3. visEvents + sum + E(i - 1) + count = visEvents + sum + E(i)
    BY <1>12, <1>14, SMTT(30)
  <2> QED
    BY <1>10, <1>15, <2>2, <2>3
<1> QED
  BY <1>7, <1>16, <1>17, <1>18, Zenon DEF segments, time, count, line

(* A segment keeps the invariant, be it the last of a pass, of the picture,   *)
(* or neither.                                                                *)
LEMMA SegmentKeeps ==
  ASSUME EncInv, EncodeSegment PROVE EncInv'
<1> DEFINE id == tx.mode
           pass == tx.pass
           i == tx.segment
           segments == schedule(id, pass)
           segment == segments[i]
           count == eventsOf(id, segment)
           isLast == i = Len(segments)
           isOver == isLast /\ pass + 1 = passes(id)
           place == IF isOver THEN "suffix" ELSE "lines"
           time == times(dividedBy(segment.duration, count), count)
           sent == IF isFixed(segment) THEN tx.sent
                   ELSE [tx.sent EXCEPT ![planeOf(segment.scan)] =
                           afterScan(id, segment.scan, pass, @)]
           nextPass == IF isLast THEN pass + 1 ELSE pass
           nextSegment == IF isLast THEN 1 ELSE i + 1
<1>1. tx.place = "lines" /\ isTransmission(tx) /\ id \in ModeIds /\ isAtSegment(tx)
  BY DEF EncInv, EncodeSegment, NoTransmission, isUnderway
<1>2. /\ pass \in Nat /\ pass \in 0 .. passes(id) - 1 /\ i \in 1 .. Len(segments)
      /\ Len(segments) \in Nat /\ Len(segments) > 1 /\ passes(id) \in Nat
  <2>1. pass \in 0 .. passes(id) - 1 /\ i \in 1 .. Len(segments)
    BY <1>1 DEF isAtSegment
  <2>2. passes(id) \in Nat
    BY <1>1, PassesAre DEF ModeIds
  <2>3. pass \in Nat
    BY <2>1, <2>2
  <2> QED
    BY <1>1, <2>1, <2>2, <2>3, SchedulesAre
<1> DEFINE t == tx'
<1>3. tx' = IF isFixed(segment)
            THEN [tx EXCEPT !.events = tx.events + count, !.elapsed = plus(tx.elapsed, time),
                            !.segment = nextSegment, !.pass = nextPass, !.place = place]
            ELSE [tx EXCEPT !.events = tx.events + count, !.elapsed = plus(tx.elapsed, time),
                            !.segment = nextSegment, !.pass = nextPass, !.place = place,
                            !.sent = sent]
  <2> DEFINE next == [tx EXCEPT !.events = tx.events + count, !.elapsed = plus(tx.elapsed, time),
                                !.segment = nextSegment, !.pass = nextPass, !.place = place]
             plane == planeOf(segment.scan)
             scan(before) == afterScan(id, segment.scan, pass, before)
  <2>1. tx' = IF isFixed(segment) THEN next ELSE [next EXCEPT !.sent[plane] = scan(@)]
    <3>1. place = IF isOver THEN "suffix" ELSE tx.place
      BY <1>1
    <3> QED
      BY <3>1, ZenonT(30) DEF EncodeSegment
  <2>2. ~isFixed(segment) => sent = [tx.sent EXCEPT ![plane] = scan(@)]
    OBVIOUS
  <2> HIDE DEF count, time, segment, isLast, isOver, nextPass, nextSegment, place, sent, plane, scan
  <2>3. [next EXCEPT !.sent[plane] = scan(@)]
          = [next EXCEPT !.sent = [tx.sent EXCEPT ![plane] = scan(@)]]
    BY <1>1 DEF isTransmission
  <2> QED
    BY <1>1, <2>1, <2>2, <2>3 DEF isTransmission
<1>4. /\ t.place = place /\ t.mode = id /\ t.pass = nextPass /\ t.segment = nextSegment
      /\ t.events = tx.events + count /\ t.elapsed = plus(tx.elapsed, time) /\ t.sent = sent
      /\ t.identifier = tx.identifier
      /\ isTransmission(t)
  <2>1. isFixed(segment) => sent = tx.sent
    OBVIOUS
  <2> HIDE DEF count, time, segment, isLast, isOver, nextPass, nextSegment, place, sent
  <2> QED
    BY <1>1, <1>3, <2>1 DEF isTransmission
<1>5. sent = IF isLast THEN sentBefore(id, pass + 1, 1) ELSE sentBefore(id, pass, i + 1)
  <2>1. tx.sent = sentBefore(id, pass, i)
    BY <1>1 DEF isAtSegment
  <2>2. sentAfter(id, pass, i) = withSegment(id, segment, pass, sentBefore(id, pass, i))
    BY <1>1, <1>2, SentIsNext
  <2>3. sent = withSegment(id, segment, pass, tx.sent)
    BY DEF withSegment
  <2> QED
    BY <2>1, <2>2, <2>3 DEF sentAfter
<1>6. tx.events = eventsBefore(id, pass, i) /\ tx.elapsed = elapsedBefore(id, pass, i)
  BY <1>1 DEF isAtSegment
<1>7. /\ isLast =>
           /\ eventsBefore(id, pass, i) + count = eventsBefore(id, pass + 1, 1)
           /\ plus(elapsedBefore(id, pass, i), time) = elapsedBefore(id, pass + 1, 1)
      /\ ~isLast =>
           /\ eventsBefore(id, pass, i) + count = eventsBefore(id, pass, i + 1)
           /\ plus(elapsedBefore(id, pass, i), time) = elapsedBefore(id, pass, i + 1)
      /\ eventsBefore(id, pass + 1, 1) = visEvents + (pass + 1) * lineEventCount(id)
      /\ elapsedBefore(id, pass + 1, 1) = plus(visDuration, passesDuration(id, pass + 1))
  BY <1>1, <1>2, SegmentEnds
<1>8. /\ t.events = eventsBefore(id, nextPass, nextSegment)
      /\ t.elapsed = elapsedBefore(id, nextPass, nextSegment)
      /\ t.sent = sentBefore(id, nextPass, nextSegment)
  <2> HIDE DEF count, time, sent, t, id, pass, i, segments
  <2> QED
    BY <1>4, <1>5, <1>6, <1>7
<1>9. CASE isOver
  <2>1. nextPass = passes(id) /\ nextSegment = 1 /\ pass + 1 = passes(id)
    BY <1>9
  <2>2. t.events = reservedEvents(id)
    BY <1>7, <1>8, <2>1 DEF reservedEvents
  <2>3. passesDuration(id, passes(id))
          = plus(times(durationOf(schedule(id, 0)), passes(id) - passes(id) \div 2),
                 times(durationOf(schedule(id, 1)), passes(id) \div 2))
    <3>1. (passes(id) + 1) \div 2 = passes(id) - passes(id) \div 2
      BY <1>1, PassesAre DEF ModeIds
    <3> QED
      BY <3>1 DEF passesDuration
  <2>4. t.elapsed = transmissionDuration(id)
    BY <1>7, <1>8, <2>1, <2>3, Zenon DEF transmissionDuration
  <2>5. hasPicture(t) /\ t.place = "suffix"
    BY <1>4, <1>8, <1>9, <2>1, <2>2, <2>4 DEF hasPicture
  <2> QED
    BY <1>1, <1>4, <2>5 DEF EncInv, isUnderway
<1>10. CASE ~isOver
  <2>1. nextPass \in 0 .. passes(id) - 1
    BY <1>2, <1>10
  <2>2. nextSegment \in 1 .. Len(schedule(id, nextPass))
    <3>1. CASE isLast
      <4>1. pass + 1 \in Nat
        BY <1>2
      <4>2. Len(schedule(id, pass + 1)) \in Nat /\ Len(schedule(id, pass + 1)) > 1
        BY <1>1, <4>1, SchedulesAre
      <4> QED
        BY <3>1, <4>2
    <3>2. CASE ~isLast
      BY <1>2, <3>2
    <3> QED
      BY <3>1, <3>2
  <2>3. isAtSegment(t) /\ t.place = "lines"
    BY <1>4, <1>8, <1>10, <2>1, <2>2 DEF isAtSegment
  <2> QED
    BY <1>1, <1>4, <2>3 DEF EncInv, isUnderway
<1> QED
  BY <1>9, <1>10

(* What is reserved for the events is a number.                               *)
LEMMA ReservedIsNatural ==
  \A id \in ModeIds : reservedEvents(id) \in Nat
<1> SUFFICES ASSUME NEW id \in ModeIds PROVE reservedEvents(id) \in Nat
  OBVIOUS
<1>1. passes(id) \in Nat /\ visEvents \in Nat
  BY PassesAre DEF ModeIds, visEvents
<1>2. lineEventCount(id) \in Nat
  BY SchedulesAre, UpToSegment DEF lineEventCount
<1>3. \A x, y \in Nat : x * y \in Nat
  OBVIOUS
<1>4. passes(id) * lineEventCount(id) \in Nat
  BY <1>1, <1>2, <1>3
<1> HIDE DEF visEvents
<1> QED
  BY <1>1, <1>4 DEF reservedEvents

(* The suffix adds what was counted for it.                                   *)
LEMMA SuffixKeeps ==
  ASSUME EncInv, AppendFskSuffix PROVE EncInv'
<1>1. tx.place = "suffix" /\ isTransmission(tx) /\ tx.mode \in ModeIds /\ hasPicture(tx)
  BY DEF EncInv, AppendFskSuffix, NoTransmission, isUnderway
<1> DEFINE t == tx'
<1>2. /\ t.place = "complete" /\ t.mode = tx.mode /\ t.identifier = tx.identifier
      /\ t.sent = tx.sent /\ isTransmission(t)
  BY <1>1 DEF AppendFskSuffix, isTransmission
<1>3. CASE tx.identifier = NoIdentifier
  <2>1. t.events = tx.events /\ t.elapsed = tx.elapsed
    BY <1>1, <1>3 DEF AppendFskSuffix, isTransmission
  <2>2. tx.events + 0 = tx.events
    <3>1. reservedEvents(tx.mode) \in Nat
      BY <1>1, ReservedIsNatural
    <3> QED
      BY <1>1, <3>1 DEF hasPicture
  <2>3. hasSuffix(t)
    BY <1>1, <1>2, <1>3, <2>1, <2>2 DEF hasSuffix, hasPicture, publishedDuration
  <2> QED
    BY <1>1, <1>2, <2>3 DEF EncInv, isUnderway
<1>4. CASE tx.identifier # NoIdentifier
  <2>1. /\ t.events = tx.events + fskEvents(tx.identifier)
        /\ t.elapsed = plus(tx.elapsed, fskDuration(tx.identifier))
    BY <1>1, <1>4 DEF AppendFskSuffix, isTransmission
  <2>2. hasSuffix(t)
    BY <1>1, <1>2, <1>4, <2>1 DEF hasSuffix, hasPicture, publishedDuration
  <2> QED
    BY <1>1, <1>2, <2>2 DEF EncInv, isUnderway
<1> QED
  BY <1>3, <1>4

(* An encoding begins with nothing sent.                                      *)
LEMMA BeginKeeps ==
  ASSUME EncInv,
         NEW id, NEW capability, NEW width, NEW height, NEW identifier,
         BeginEncoding(id, capability, width, height, identifier)
  PROVE  EncInv'
<1>1. tx = NoTransmission
  BY DEF EncInv, BeginEncoding, isUnderway
<1>2. CASE tx' = [tx EXCEPT !.place = "refused"]
  BY <1>1, <1>2 DEF EncInv, NoTransmission
<1>3. CASE /\ id \in DOMAIN modes
           /\ tx' = [tx EXCEPT !.place = "header", !.mode = id, !.identifier = identifier,
                               !.sent = [plane \in planesOf(id) |-> 0]]
  <2>1. id \in ModeIds /\ sentBefore(id, 0, 1) = [plane \in planesOf(id) |-> 0]
    BY <1>3, ModesAre, SentAtEnds
  <2>2. /\ tx'.place = "header" /\ tx'.mode = id /\ isTransmission(tx')
        /\ tx'.pass = 0 /\ tx'.segment = 1 /\ tx'.sent = [plane \in planesOf(id) |-> 0]
    BY <1>1, <1>3 DEF NoTransmission, isTransmission
  <2> QED
    BY <2>1, <2>2 DEF EncInv, isUnderway, isBegun
<1> QED
  BY <1>2, <1>3 DEF BeginEncoding

(* Each step of the encoder keeps the invariant.                              *)
LEMMA EncoderKeeps ==
  ASSUME EncInv, OfEncoder PROVE EncInv'
<1>1. CASE Encode
  BY <1>1, HeaderKeeps, ConvertKeeps, SegmentKeeps, SuffixKeeps DEF Encode
<1>2. CASE \E capability \in {"offlineTestPatternTx", "offlineImageTx"},
              text \in {t \in Identifiers : isSendable(t)} \cup {NoIdentifier} :
             BeginEncoding(mode, capability, modes[mode].width, modes[mode].height,
                           normalised(text))
  BY <1>2, BeginKeeps
<1> QED
  BY <1>1, <1>2 DEF OfEncoder

(* The invariant says what EncodingIsComplete does.                           *)
LEMMA WholeIsComplete == ASSUME EncInv PROVE EncodingIsComplete
<1> SUFFICES ASSUME tx.place = "complete"
             PROVE  /\ tx.events = reservedEvents(tx.mode)
                          + (IF tx.identifier = NoIdentifier THEN 0 ELSE fskEvents(tx.identifier))
                    /\ tx.elapsed = publishedDuration(tx)
                    /\ \A plane \in planesOf(tx.mode) : tx.sent[plane] = planeSize(tx.mode, plane)
  BY DEF EncodingIsComplete
<1>1. tx.mode \in ModeIds /\ hasSuffix(tx)
  BY DEF EncInv, NoTransmission, isUnderway
<1> QED
  BY <1>1, SentAtEnds DEF hasSuffix

-----------------------------------------------------------------------------
(* Bits and codes of the headers.                                              *)

(* A number unfolds into the weights of its bits.                               *)
weightOf(bits, n) == IF bits[n] THEN 2 ^ (n - 1) ELSE 0
isNumberUpTo(sum, bits, last) ==
  sum = [n \in 0 .. last |-> IF n = 0 THEN 0 ELSE sum[n - 1] + weightOf(bits, n)]

(* The recursion of numberOf has a solution for every sequence of bits.       *)
LEMMA NumberExists ==
  ASSUME NEW bits PROVE \A last \in Nat : \E sum : isNumberUpTo(sum, bits, last)
<1> DEFINE S == {last \in Nat : \E sum : isNumberUpTo(sum, bits, last)}
<1>1. ASSUME NEW n \in Nat, \A m \in 0 .. n - 1 : m \in S
      PROVE  n \in S
  <2>1. CASE n = 0
    <3> DEFINE sum == [k \in 0 .. 0 |-> 0]
    <3>1. isNumberUpTo(sum, bits, 0)
      BY DEF isNumberUpTo
    <3> QED
      BY <2>1, <3>1
  <2>2. CASE n # 0
    <3>1. n - 1 \in 0 .. n - 1 /\ n - 1 \in Nat
      BY <2>2
    <3>2. PICK shorter : isNumberUpTo(shorter, bits, n - 1)
      BY <1>1, <3>1
    <3> DEFINE sum == [k \in 0 .. n |-> IF k = n THEN shorter[n - 1] + weightOf(bits, n) ELSE shorter[k]]
    <3>3. ASSUME NEW k \in 0 .. n
          PROVE  sum[k] = IF k = 0 THEN 0 ELSE sum[k - 1] + weightOf(bits, k)
      <4>1. CASE k = n
        BY <2>2, <3>1, <4>1
      <4>2. CASE k # n
        <5>1. k \in 0 .. n - 1 /\ sum[k] = shorter[k]
          BY <4>2
        <5>2. shorter[k] = IF k = 0 THEN 0 ELSE shorter[k - 1] + weightOf(bits, k)
          BY <3>2, <5>1, Zenon DEF isNumberUpTo
        <5>3. k # 0 => sum[k - 1] = shorter[k - 1]
          BY <5>1
        <5> QED
          BY <5>1, <5>2, <5>3
      <4> QED
        BY <4>1, <4>2
    <3>4. DOMAIN sum = 0 .. n /\ sum = [k \in 0 .. n |-> sum[k]]
      OBVIOUS
    <3> HIDE DEF sum
    <3>5. sum = [k \in 0 .. n |-> IF k = 0 THEN 0 ELSE sum[k - 1] + weightOf(bits, k)]
      BY <3>3, <3>4, Zenon
    <3> QED
      BY <3>5, Zenon DEF isNumberUpTo
  <2> QED
    BY <2>1, <2>2
<1> HIDE DEF S
<1>2. \A n \in Nat : n \in S
  BY <1>1, InductiveSet
<1> QED
  BY <1>2 DEF S

(* numberOf adds one weight after the other.                                  *)
LEMMA NumberUnfolds ==
  ASSUME NEW bits, Len(bits) \in Nat
  PROVE  \E sum : /\ sum[0] = 0 /\ numberOf(bits) = sum[Len(bits)]
                  /\ \A n \in 1 .. Len(bits) : sum[n] = sum[n - 1] + weightOf(bits, n)
<1> DEFINE total == CHOOSE sum : isNumberUpTo(sum, bits, Len(bits))
<1>1. isNumberUpTo(total, bits, Len(bits))
  BY NumberExists, Zenon
<1>2. numberOf(bits) = total[Len(bits)]
  BY DEF numberOf, isNumberUpTo, weightOf
<1> HIDE DEF total
<1>3. \A n \in 0 .. Len(bits) :
        total[n] = IF n = 0 THEN 0 ELSE total[n - 1] + weightOf(bits, n)
  BY <1>1, Zenon DEF isNumberUpTo
<1>4. 0 \in 0 .. Len(bits) /\ \A n \in 1 .. Len(bits) : n \in 0 .. Len(bits) /\ n # 0
  OBVIOUS
<1>5. /\ total[0] = 0
      /\ \A n \in 1 .. Len(bits) : total[n] = total[n - 1] + weightOf(bits, n)
  BY <1>3, <1>4, Zenon
<1> QED
  BY <1>2, <1>5

(* The weights of seven bits.                                                 *)
LEMMA Powers ==
  /\ 2 ^ (1 - 1) = 1 /\ 2 ^ (2 - 1) = 2 /\ 2 ^ (3 - 1) = 4 /\ 2 ^ (4 - 1) = 8
  /\ 2 ^ (5 - 1) = 16 /\ 2 ^ (6 - 1) = 32 /\ 2 ^ (7 - 1) = 64
<1>1. /\ 2 ^ 0 = 1 /\ 2 ^ 1 = 2 /\ 2 ^ 2 = 4 /\ 2 ^ 3 = 8 /\ 2 ^ 4 = 16 /\ 2 ^ 5 = 32 /\ 2 ^ 6 = 64
  OBVIOUS
<1> QED
  BY <1>1

(* The bits of a code give the code back.                                      *)
LEMMA SixBits ==
  ASSUME NEW code \in Nat, code < 64
  PROVE  numberOf(bitsOf(code, 6)) = code
<1> DEFINE bits == bitsOf(code, 6)
<1>1. Len(bits) = 6 /\ Len(bits) \in Nat
  BY DEF bitsOf
<1>2. PICK sum : /\ sum[0] = 0 /\ numberOf(bits) = sum[6]
                 /\ \A n \in 1 .. 6 : sum[n] = sum[n - 1] + weightOf(bits, n)
  <2> HIDE DEF bits
  <2> QED
    BY <1>1, NumberUnfolds, ZenonT(30)
<1>3. /\ weightOf(bits, 1) = IF (code \div 1) % 2 = 1 THEN 1 ELSE 0
      /\ weightOf(bits, 2) = IF (code \div 2) % 2 = 1 THEN 2 ELSE 0
      /\ weightOf(bits, 3) = IF (code \div 4) % 2 = 1 THEN 4 ELSE 0
      /\ weightOf(bits, 4) = IF (code \div 8) % 2 = 1 THEN 8 ELSE 0
      /\ weightOf(bits, 5) = IF (code \div 16) % 2 = 1 THEN 16 ELSE 0
      /\ weightOf(bits, 6) = IF (code \div 32) % 2 = 1 THEN 32 ELSE 0
  <2>1. /\ bits[1] = ((code \div 1) % 2 = 1)
        /\ bits[2] = ((code \div 2) % 2 = 1)
        /\ bits[3] = ((code \div 4) % 2 = 1)
        /\ bits[4] = ((code \div 8) % 2 = 1)
        /\ bits[5] = ((code \div 16) % 2 = 1)
        /\ bits[6] = ((code \div 32) % 2 = 1)
    BY Powers DEF bitsOf
  <2> HIDE DEF bits
  <2> QED
    BY <2>1, Powers DEF weightOf
<1>4. /\ sum[1] = sum[0] + weightOf(bits, 1) /\ sum[2] = sum[1] + weightOf(bits, 2)
      /\ sum[3] = sum[2] + weightOf(bits, 3) /\ sum[4] = sum[3] + weightOf(bits, 4)
      /\ sum[5] = sum[4] + weightOf(bits, 5) /\ sum[6] = sum[5] + weightOf(bits, 6)
  <2> HIDE DEF bits
  <2> QED
    BY <1>2
<1> HIDE DEF bits
<1>5. sum[6] = code
  BY <1>2, <1>3, <1>4
<1> QED
  BY <1>2, <1>5 DEF bits

(* The seven bits of a VIS code give it back.                                 *)
LEMMA SevenBits ==
  ASSUME NEW code \in Nat, code < 128
  PROVE  numberOf(bitsOf(code, 7)) = code
<1> DEFINE bits == bitsOf(code, 7)
<1>1. Len(bits) = 7 /\ Len(bits) \in Nat
  BY DEF bitsOf
<1>2. PICK sum : /\ sum[0] = 0 /\ numberOf(bits) = sum[7]
                 /\ \A n \in 1 .. 7 : sum[n] = sum[n - 1] + weightOf(bits, n)
  <2> HIDE DEF bits
  <2> QED
    BY <1>1, NumberUnfolds, ZenonT(30)
<1>3. /\ weightOf(bits, 1) = IF (code \div 1) % 2 = 1 THEN 1 ELSE 0
      /\ weightOf(bits, 2) = IF (code \div 2) % 2 = 1 THEN 2 ELSE 0
      /\ weightOf(bits, 3) = IF (code \div 4) % 2 = 1 THEN 4 ELSE 0
      /\ weightOf(bits, 4) = IF (code \div 8) % 2 = 1 THEN 8 ELSE 0
      /\ weightOf(bits, 5) = IF (code \div 16) % 2 = 1 THEN 16 ELSE 0
      /\ weightOf(bits, 6) = IF (code \div 32) % 2 = 1 THEN 32 ELSE 0
      /\ weightOf(bits, 7) = IF (code \div 64) % 2 = 1 THEN 64 ELSE 0
  <2>1. /\ bits[1] = ((code \div 1) % 2 = 1)
        /\ bits[2] = ((code \div 2) % 2 = 1)
        /\ bits[3] = ((code \div 4) % 2 = 1)
        /\ bits[4] = ((code \div 8) % 2 = 1)
        /\ bits[5] = ((code \div 16) % 2 = 1)
        /\ bits[6] = ((code \div 32) % 2 = 1)
        /\ bits[7] = ((code \div 64) % 2 = 1)
    BY Powers DEF bitsOf
  <2> HIDE DEF bits
  <2> QED
    BY <2>1, Powers DEF weightOf
<1>4. /\ sum[1] = sum[0] + weightOf(bits, 1) /\ sum[2] = sum[1] + weightOf(bits, 2)
      /\ sum[3] = sum[2] + weightOf(bits, 3) /\ sum[4] = sum[3] + weightOf(bits, 4)
      /\ sum[5] = sum[4] + weightOf(bits, 5) /\ sum[6] = sum[5] + weightOf(bits, 6)
      /\ sum[7] = sum[6] + weightOf(bits, 7)
  <2> HIDE DEF bits
  <2> QED
    BY <1>2
<1> HIDE DEF bits
<1>5. sum[7] = code
  BY <1>2, <1>3, <1>4
<1> QED
  BY <1>2, <1>5 DEF bits

Six == [1 .. 6 -> BOOLEAN]

(* A parity bit makes the number of ones even.                                 *)
LEMMA ParityIsEven ==
  ASSUME NEW bits \in Seq(BOOLEAN)
  PROVE  LET all == Append(bits, isOdd(bits)) IN
         /\ Len(all) = Len(bits) + 1 /\ SubSeq(all, 1, Len(bits)) = bits
         /\ Cardinality(ones(all)) % 2 = 0
<1> DEFINE n == Len(bits)
           all == Append(bits, isOdd(bits))
           set == {i \in DOMAIN bits : bits[i]}
<1>1. isOdd(bits) \in BOOLEAN
  BY DEF isOdd
<1>2. n \in Nat /\ DOMAIN bits = 1 .. n /\ \A i \in 1 .. n : bits[i] \in BOOLEAN
  OBVIOUS
<1>3. /\ all \in Seq(BOOLEAN) /\ Len(all) = n + 1 /\ DOMAIN all = 1 .. n + 1
      /\ all[n + 1] = isOdd(bits) /\ \A i \in 1 .. n : all[i] = bits[i]
  BY <1>1
<1>4. SubSeq(all, 1, n) = bits
  <2>1. PICK seq \in Seq(BOOLEAN) : seq = all
    BY <1>3
  <2> HIDE DEF all, n
  <2>2. SubSeq(seq, 1, n) = [i \in 1 .. n |-> seq[i]]
    BY <1>2, <1>3, <2>1
  <2>3. bits = [i \in 1 .. n |-> bits[i]]
    BY <1>2
  <2> QED
    BY <1>3, <2>1, <2>2, <2>3
<1>5. ones(all) = IF isOdd(bits) THEN set \cup {n + 1} ELSE set
  <2> HIDE DEF all, n
  <2>1. \A i : i \in 1 .. n + 1 <=> i \in 1 .. n \/ i = n + 1
    BY <1>2
  <2> QED
    BY <1>1, <1>2, <1>3, <2>1 DEF ones
<1>6. IsFiniteSet(set) /\ n + 1 \notin set
  <2>1. IsFiniteSet(1 .. n)
    BY <1>2, FS_Interval
  <2>2. set \in SUBSET (1 .. n) /\ n + 1 \notin 1 .. n
    BY <1>2
  <2> HIDE DEF set, n
  <2> QED
    BY <2>1, <2>2, FS_Subset
<1>7. isOdd(bits) <=> Cardinality(set) % 2 = 1
  BY DEF isOdd
<1> HIDE DEF set, all, n
<1>8. Cardinality(set) \in Nat /\ Cardinality(set \cup {n + 1}) = Cardinality(set) + 1
  BY <1>6, FS_CardinalityType, FS_AddElement
<1>9. Cardinality(ones(all)) % 2 = 0
  BY <1>5, <1>7, <1>8
<1> QED
  BY <1>3, <1>4, <1>9 DEF all, n
(* Codes of six bits one after another can be told apart again.                  *)
isFlat(flat, seqs, last) ==
  flat = [i \in 1 .. last |-> IF i = 1 THEN seqs[i] ELSE flat[i - 1] \o seqs[i]]

(* The recursion of FlattenSeq has a solution for every sequence of codes.    *)
LEMMA FlatExists ==
  ASSUME NEW seqs PROVE \A last \in Nat : \E flat : isFlat(flat, seqs, last)
<1> DEFINE S == {last \in Nat : \E flat : isFlat(flat, seqs, last)}
<1>1. ASSUME NEW n \in Nat, \A m \in 0 .. n - 1 : m \in S
      PROVE  n \in S
  <2>1. CASE n = 0
    <3> DEFINE flat == [k \in 1 .. 0 |-> 0]
    <3>1. isFlat(flat, seqs, 0)
      BY DEF isFlat
    <3> QED
      BY <2>1, <3>1
  <2>2. CASE n # 0
    <3>1. n - 1 \in 0 .. n - 1 /\ n - 1 \in Nat
      BY <2>2
    <3>2. PICK shorter : isFlat(shorter, seqs, n - 1)
      BY <1>1, <3>1
    <3> DEFINE flat == [k \in 1 .. n |->
                          IF k = n THEN IF n = 1 THEN seqs[n] ELSE shorter[n - 1] \o seqs[n]
                          ELSE shorter[k]]
    <3>3. ASSUME NEW k \in 1 .. n
          PROVE  flat[k] = IF k = 1 THEN seqs[k] ELSE flat[k - 1] \o seqs[k]
      <4>1. CASE k = n
        <5>1. n # 1 => flat[n - 1] = shorter[n - 1]
          BY <2>2
        <5>2. flat[n] = IF n = 1 THEN seqs[n] ELSE shorter[n - 1] \o seqs[n]
          BY <2>2
        <5> HIDE DEF flat
        <5> QED
          BY <4>1, <5>1, <5>2
      <4>2. CASE k # n
        <5>1. k \in 1 .. n - 1 /\ flat[k] = shorter[k]
          BY <4>2
        <5>2. shorter[k] = IF k = 1 THEN seqs[k] ELSE shorter[k - 1] \o seqs[k]
          BY <3>2, <5>1, Zenon DEF isFlat
        <5>3. k # 1 => flat[k - 1] = shorter[k - 1]
          BY <5>1
        <5> HIDE DEF flat
        <5> QED
          BY <5>1, <5>2, <5>3
      <4> QED
        BY <4>1, <4>2
    <3>4. DOMAIN flat = 1 .. n /\ flat = [k \in 1 .. n |-> flat[k]]
      OBVIOUS
    <3> HIDE DEF flat
    <3>5. flat = [k \in 1 .. n |-> IF k = 1 THEN seqs[k] ELSE flat[k - 1] \o seqs[k]]
      BY <3>3, <3>4, Zenon
    <3> QED
      BY <3>5, Zenon DEF isFlat
  <2> QED
    BY <2>1, <2>2
<1> HIDE DEF S
<1>2. \A n \in Nat : n \in S
  BY <1>1, InductiveSet
<1> QED
  BY <1>2 DEF S

(* A code is a sequence of six bits.                                          *)
LEMMA SixIs ==
  ASSUME NEW code \in Six
  PROVE  code \in Seq(BOOLEAN) /\ Len(code) = 6 /\ DOMAIN code = 1 .. 6
<1>1. PICK n \in Nat : n = 6
  OBVIOUS
<1>2. code \in [1 .. n -> BOOLEAN]
  BY <1>1 DEF Six
<1>3. code \in Seq(BOOLEAN) /\ Len(code) = n /\ DOMAIN code = 1 .. n
  <2> HIDE <1>1
  <2> QED
    BY <1>2
<1> QED
  BY <1>1, <1>3

(* The first n codes of flat are those of seqs.                                 *)
holdsCodes(flat, seqs, n) ==
  /\ flat \in Seq(BOOLEAN) /\ Len(flat) = 6 * n
  /\ \A k \in 1 .. n, i \in 1 .. 6 : flat[6 * (k - 1) + i] = seqs[k][i]

(* A code put after n codes leaves them where they are, and is found where it *)
(* was put.                                                                   *)
LEMMA OneMoreCode ==
  ASSUME NEW n \in Nat, NEW seqs, NEW flat, holdsCodes(flat, seqs, n), seqs[n + 1] \in Six
  PROVE  holdsCodes(flat \o seqs[n + 1], seqs, n + 1)
<1> DEFINE more == seqs[n + 1]
           both == flat \o more
<1>1. more \in Seq(BOOLEAN) /\ Len(more) = 6
  BY SixIs
<1>2. /\ flat \in Seq(BOOLEAN) /\ Len(flat) = 6 * n
      /\ \A k \in 1 .. n, i \in 1 .. 6 : flat[6 * (k - 1) + i] = seqs[k][i]
  BY DEF holdsCodes
<1> HIDE DEF more
<1>3. /\ both \in Seq(BOOLEAN) /\ Len(both) = 6 * (n + 1)
      /\ \A j \in 1 .. 6 * n + 6 : both[j] = IF j <= 6 * n THEN flat[j] ELSE more[j - 6 * n]
  <2>1. /\ both \in Seq(BOOLEAN) /\ Len(both) = Len(flat) + Len(more)
        /\ \A j \in 1 .. Len(flat) + Len(more) :
             both[j] = IF j <= Len(flat) THEN flat[j] ELSE more[j - Len(flat)]
    BY <1>1, <1>2, ConcatProperties
  <2> QED
    BY <1>1, <1>2, <2>1, SMTT(30)
<1> HIDE DEF both
<1>4. ASSUME NEW k \in 1 .. n + 1, NEW i \in 1 .. 6
      PROVE  both[6 * (k - 1) + i] = seqs[k][i]
  <2>1. CASE k = n + 1
    <3>1. /\ 6 * (k - 1) + i \in 1 .. 6 * n + 6 /\ ~(6 * (k - 1) + i <= 6 * n)
          /\ 6 * (k - 1) + i - 6 * n = i
      BY <2>1
    <3> QED
      BY <1>3, <2>1, <3>1 DEF more
  <2>2. CASE k # n + 1
    <3>1. k \in 1 .. n /\ 6 * (k - 1) + i \in 1 .. 6 * n + 6 /\ 6 * (k - 1) + i <= 6 * n
      BY <2>2
    <3> QED
      BY <1>2, <1>3, <3>1
  <2> QED
    BY <2>1, <2>2
<1> QED
  BY <1>3, <1>4 DEF holdsCodes, both, more

(* Codes that were put together are found again in what they made.            *)
LEMMA CodesAreRead ==
  ASSUME NEW seqs \in Seq(Six), seqs # <<>>
  PROVE  Len(FlattenSeq(seqs)) = 6 * Len(seqs) /\ codesOf(FlattenSeq(seqs)) = seqs
<1> DEFINE last == Len(seqs)
           flat == CHOOSE flat : isFlat(flat, seqs, last)
<1>1. last \in Nat /\ last # 0 /\ DOMAIN seqs = 1 .. last /\ \A k \in 1 .. last : seqs[k] \in Six
  OBVIOUS
<1>2. FlattenSeq(seqs) = flat[last]
  BY <1>1 DEF FlattenSeq, isFlat
<1>3. isFlat(flat, seqs, last)
  BY <1>1, FlatExists, Zenon
<1> HIDE DEF flat, last
<1>4. \A n \in 1 .. last : flat[n] = IF n = 1 THEN seqs[n] ELSE flat[n - 1] \o seqs[n]
  BY <1>3, Zenon DEF isFlat
<1> DEFINE S == {n \in Nat : n \in 1 .. last => holdsCodes(flat[n], seqs, n)}
<1>5. ASSUME NEW n \in Nat, \A m \in 0 .. n - 1 : m \in S
      PROVE  n \in S
  <2> SUFFICES ASSUME n \in 1 .. last PROVE holdsCodes(flat[n], seqs, n)
    OBVIOUS
  <2>1. CASE n = 1
    <3>1. flat[1] = seqs[1] /\ seqs[1] \in Six
      BY <1>1, <1>4, <2>1
    <3>2. seqs[1] \in Seq(BOOLEAN) /\ Len(seqs[1]) = 6
      BY <3>1, SixIs
    <3>3. \A k \in 1 .. 1, i \in 1 .. 6 : k = 1 /\ 6 * (k - 1) + i = i
      OBVIOUS
    <3> QED
      BY <2>1, <3>1, <3>2, <3>3 DEF holdsCodes
  <2>2. CASE n # 1
    <3>1. n - 1 \in 0 .. n - 1 /\ n - 1 \in Nat /\ n - 1 \in 1 .. last /\ (n - 1) + 1 = n
      BY <1>1, <2>2
    <3>2. holdsCodes(flat[n - 1], seqs, n - 1)
      BY <1>5, <3>1
    <3>3. flat[n] = flat[n - 1] \o seqs[n] /\ seqs[n] \in Six
      BY <1>1, <1>4, <2>2
    <3> HIDE DEF S
    <3>4. holdsCodes(flat[n - 1] \o seqs[(n - 1) + 1], seqs, (n - 1) + 1)
      BY <3>1, <3>2, <3>3, OneMoreCode
    <3> QED
      BY <3>1, <3>3, <3>4
  <2> QED
    BY <2>1, <2>2
<1>6. last \in S
  <2> HIDE DEF S
  <2>1. \A n \in Nat : n \in S
    BY <1>5, InductiveSet
  <2> QED
    BY <1>1, <2>1
<1>7. PICK bits : bits = flat[last]
  OBVIOUS
<1>8. holdsCodes(bits, seqs, last)
  BY <1>1, <1>6, <1>7
<1> HIDE DEF S
<1>9. /\ bits \in Seq(BOOLEAN) /\ Len(bits) = 6 * last
      /\ \A k \in 1 .. last, i \in 1 .. 6 : bits[6 * (k - 1) + i] = seqs[k][i]
  BY <1>8 DEF holdsCodes
<1>10. (6 * last) \div 6 = last
  BY <1>1
<1>11. ASSUME NEW k \in 1 .. last PROVE SubSeq(bits, 6 * k - 5, 6 * k) = seqs[k]
  <2>1. /\ 6 * k - 5 \in 1 .. Len(bits) + 1 /\ 6 * k \in 6 * k - 5 - 1 .. Len(bits)
        /\ 6 * k - (6 * k - 5) + 1 = 6
    BY <1>1, <1>9
  <2>2. SubSeq(bits, 6 * k - 5, 6 * k) = [i \in 1 .. 6 |-> bits[6 * k - 5 + i - 1]]
    BY <2>1
  <2>3. \A i \in 1 .. 6 : bits[6 * k - 5 + i - 1] = seqs[k][i]
    <3>1. \A i \in 1 .. 6 : 6 * k - 5 + i - 1 = 6 * (k - 1) + i
      BY <1>1
    <3> QED
      BY <1>9, <3>1
  <2>4. seqs[k] = [i \in 1 .. 6 |-> seqs[k][i]]
    BY <1>1 DEF Six
  <2> QED
    BY <2>2, <2>3, <2>4
<1>12. codesOf(bits) = [k \in 1 .. last |-> SubSeq(bits, 6 * k - 5, 6 * k)]
  BY <1>9, <1>10 DEF codesOf
<1>13. seqs = [k \in 1 .. last |-> seqs[k]]
  BY <1>1
<1>14. codesOf(bits) = seqs
  BY <1>11, <1>12, <1>13
<1> QED
  BY <1>2, <1>7, <1>9, <1>14 DEF last

(* The codes of an identifier between its marks.                                *)
Letters == {character \in Nat : 32 <= character /\ character <= 95}

(* What the suffix puts together are codes.                                   *)
LEMMA BitsAreSix ==
  /\ \A code \in Nat : bitsOf(code, 6) \in Six
  /\ \A codes : checksum(codes) \in Six
BY DEF bitsOf, Six, checksum, isOdd

codesBefore(identifier) ==
  <<bitsOf(headerCode, 6)>> \o codeBits(identifier)
    \o <<bitsOf(endCode, 6), checksum(codeBits(identifier))>>

(* What the suffix of an identifier is made of.                               *)
LEMMA CodesAre ==
  ASSUME NEW identifier \in Seq(Letters)
  PROVE  LET codes == codesBefore(identifier)
             n == Len(identifier)
         IN /\ codes \in Seq(Six) /\ Len(codes) = n + 3
            /\ codes[1] = bitsOf(headerCode, 6)
            /\ \A k \in 1 .. n : codes[k + 1] = bitsOf(identifier[k] - 32, 6)
            /\ codes[n + 2] = bitsOf(endCode, 6)
            /\ codes[n + 3] = checksum(codeBits(identifier))
<1> DEFINE n == Len(identifier)
           a == bitsOf(headerCode, 6)
           text == codeBits(identifier)
           e == bitsOf(endCode, 6)
           c == checksum(text)
           head == <<a>>
           tail == <<e, c>>
           front == head \o text
           codes == front \o tail
<1>1. /\ n \in Nat /\ DOMAIN identifier = 1 .. n
      /\ \A k \in 1 .. n : identifier[k] \in Nat /\ 32 <= identifier[k] /\ identifier[k] <= 95
  BY DEF Letters
<1>2. /\ text \in Seq(Six) /\ Len(text) = n
      /\ \A k \in 1 .. n : text[k] = bitsOf(identifier[k] - 32, 6)
  <2> HIDE DEF n
  <2>1. \A k \in 1 .. n : identifier[k] - 32 \in Nat
    BY <1>1
  <2>2. text \in [1 .. n -> Six]
    BY <1>1, <2>1, BitsAreSix DEF codeBits, encodedCharacter
  <2>3. \A k \in 1 .. n : text[k] = bitsOf(identifier[k] - 32, 6)
    BY <1>1 DEF codeBits, encodedCharacter
  <2> HIDE DEF text
  <2> QED
    BY <1>1, <2>2, <2>3
<1>3. a \in Six /\ e \in Six /\ c \in Six
  BY BitsAreSix DEF headerCode, endCode
<1> HIDE DEF n, a, text, e, c
<1>4. /\ head \in Seq(Six) /\ Len(head) = 1 /\ head[1] = a
      /\ tail \in Seq(Six) /\ Len(tail) = 2 /\ tail[1] = e /\ tail[2] = c
  BY <1>3
<1> HIDE DEF head, tail
<1>5. /\ front \in Seq(Six) /\ Len(front) = n + 1
      /\ \A k \in 1 .. n + 1 : front[k] = IF k <= 1 THEN head[k] ELSE text[k - 1]
  <2>1. /\ front \in Seq(Six) /\ Len(front) = Len(head) + Len(text)
        /\ \A k \in 1 .. Len(head) + Len(text) :
             front[k] = IF k <= Len(head) THEN head[k] ELSE text[k - Len(head)]
    BY <1>2, <1>4, ConcatProperties
  <2> QED
    BY <1>1, <1>2, <1>4, <2>1
<1> HIDE DEF front
<1>6. /\ codes \in Seq(Six) /\ Len(codes) = n + 3
      /\ \A k \in 1 .. n + 3 : codes[k] = IF k <= n + 1 THEN front[k] ELSE tail[k - (n + 1)]
  <2>1. /\ codes \in Seq(Six) /\ Len(codes) = Len(front) + Len(tail)
        /\ \A k \in 1 .. Len(front) + Len(tail) :
             codes[k] = IF k <= Len(front) THEN front[k] ELSE tail[k - Len(front)]
    BY <1>4, <1>5, ConcatProperties
  <2> QED
    BY <1>1, <1>4, <1>5, <2>1, SMTT(30)
<1>7. codes = codesBefore(identifier)
  BY DEF codes, front, head, tail, a, text, e, c, codesBefore
<1> HIDE DEF codes
<1>8. codes[1] = a
  BY <1>1, <1>4, <1>5, <1>6
<1>9. \A k \in 1 .. n : codes[k + 1] = bitsOf(identifier[k] - 32, 6)
  BY <1>1, <1>2, <1>5, <1>6
<1>10. codes[n + 2] = e /\ codes[n + 3] = c
  <2>1. /\ n + 2 \in 1 .. n + 3 /\ ~(n + 2 <= n + 1) /\ (n + 2) - (n + 1) = 1
        /\ n + 3 \in 1 .. n + 3 /\ ~(n + 3 <= n + 1) /\ (n + 3) - (n + 1) = 2
    BY <1>1
  <2>2. codes[n + 2] = tail[1]
    BY <1>6, <2>1, Zenon
  <2>3. codes[n + 3] = tail[2]
    BY <1>6, <2>1, Zenon
  <2> QED
    BY <1>4, <2>2, <2>3
<1> QED
  BY <1>6, <1>7, <1>8, <1>9, <1>10, Zenon DEF n, a, e, c, text

(* The checksum makes the ones of a column an even number.                       *)
LEMMA ColumnIsEven ==
  ASSUME NEW identifier \in Seq(Letters), NEW i \in 1 .. 6
  PROVE  LET codes == codesBefore(identifier)
             n == Len(identifier)
         IN Cardinality({k \in 2 .. n + 3 : k # n + 2 /\ codes[k][i]}) % 2 = 0
<1> DEFINE n == Len(identifier)
           codes == codesBefore(identifier)
           text == codeBits(identifier)
           A == {j \in DOMAIN text : text[j][i]}
           B == {k \in 2 .. n + 1 : codes[k][i]}
           all == {k \in 2 .. n + 3 : k # n + 2 /\ codes[k][i]}
           shift == [j \in A |-> j + 1]
<1>1. /\ n \in Nat /\ codes[n + 3] = checksum(text)
      /\ \A k \in 1 .. n : codes[k + 1] = bitsOf(identifier[k] - 32, 6)
  BY CodesAre
<1>2. DOMAIN text = 1 .. n /\ \A k \in 1 .. n : text[k] = codes[k + 1]
  <2>1. DOMAIN identifier = 1 .. n
    OBVIOUS
  <2>2. DOMAIN text = 1 .. n /\ \A k \in 1 .. n : text[k] = bitsOf(identifier[k] - 32, 6)
    BY <2>1 DEF codeBits, encodedCharacter
  <2> HIDE DEF codes, text, n
  <2> QED
    BY <1>1, <2>2
<1>3. codes[n + 3][i] = (Cardinality(A) % 2 = 1)
  <2>1. checksum(text)[i] = isOdd([j \in DOMAIN text |-> text[j][i]])
    BY DEF checksum
  <2>2. {j \in DOMAIN [k \in DOMAIN text |-> text[k][i]] : [k \in DOMAIN text |-> text[k][i]][j]} = A
    OBVIOUS
  <2>3. isOdd([j \in DOMAIN text |-> text[j][i]]) = (Cardinality(A) % 2 = 1)
    BY <2>2, Zenon DEF isOdd
  <2> HIDE DEF A, text, codes, n
  <2> QED
    BY <1>1, <2>1, <2>3
<1> HIDE DEF n, codes, text
<1>4. IsFiniteSet(A)
  <2>1. IsFiniteSet(1 .. n)
    BY <1>1, FS_Interval
  <2>2. A \in SUBSET (1 .. n)
    BY <1>2
  <2> HIDE DEF A
  <2> QED
    BY <2>1, <2>2, FS_Subset
<1>5. \A j : j \in A <=> j \in 1 .. n /\ codes[j + 1][i]
  BY <1>2
<1>6. \A j : j \in A <=> j \in Int /\ j + 1 \in B
  <2>1. \A j \in Int : j \in 1 .. n <=> j + 1 \in 2 .. n + 1
    BY <1>1
  <2>2. \A j \in 1 .. n : j \in Int
    OBVIOUS
  <2> HIDE DEF A
  <2> QED
    BY <1>5, <2>1, <2>2
<1>7. \A k \in B : k \in Int /\ k - 1 \in A /\ (k - 1) + 1 = k
  <2>1. \A k \in B : k \in Int /\ (k - 1) + 1 = k
    OBVIOUS
  <2> HIDE DEF A, B
  <2> QED
    BY <1>6, <2>1
<1>8. IsFiniteSet(B) /\ Cardinality(B) = Cardinality(A)
  <2>1. \A j \in A : j \in Int /\ j + 1 \in B
    BY <1>6
  <2> HIDE DEF A, B
  <2>2. shift \in [A -> B]
    BY <2>1
  <2>3. \A j, k \in A : shift[j] = shift[k] => j = k
    BY <2>1
  <2>4. \A k \in B : \E j \in A : shift[j] = k
    BY <1>7
  <2>5. shift \in Bijection(A, B)
    BY <2>2, <2>3, <2>4, Fun_IsBij
  <2> HIDE DEF shift
  <2> QED
    BY <1>4, <2>5, FS_Bijection, Fun_ExistsBij
<1>9. all = IF codes[n + 3][i] THEN B \cup {n + 3} ELSE B
  <2>1. \A k : k \in 2 .. n + 3 /\ k # n + 2 <=> k \in 2 .. n + 1 \/ k = n + 3
    BY <1>1
  <2> QED
    BY <2>1
<1>10. n + 3 \notin B
  BY <1>1
<1> HIDE DEF A, B, all
<1>11. Cardinality(A) \in Nat /\ Cardinality(B \cup {n + 3}) = Cardinality(B) + 1
  BY <1>4, <1>8, <1>10, FS_CardinalityType, FS_AddElement
<1>12. Cardinality(all) % 2 = 0
  <2>1. CASE Cardinality(A) % 2 = 1
    <3>1. codes[n + 3][i]
      BY <1>3, <2>1
    <3>2. Cardinality(all) = Cardinality(A) + 1
      BY <1>8, <1>9, <1>11, <3>1
    <3> QED
      BY <1>11, <2>1, <3>2
  <2>2. CASE Cardinality(A) % 2 # 1
    <3>1. ~codes[n + 3][i]
      BY <1>3, <2>2
    <3>2. Cardinality(all) = Cardinality(A)
      BY <1>8, <1>9, <1>11, <3>1
    <3> QED
      BY <1>11, <2>2, <3>2
  <2> QED
    BY <2>1, <2>2
<1> QED
  BY <1>12 DEF all, n, codes

(* The first end code is where the identifier ends.                              *)
LEMMA IdentifierIsRead ==
  ASSUME NEW identifier \in Seq(Letters), \A k \in DOMAIN identifier : identifier[k] # 33
  PROVE  LET codes == codesBefore(identifier)
             n == Len(identifier)
             values == [k \in DOMAIN codes |-> numberOf(codes[k])]
             end == CHOOSE k \in DOMAIN values :
                      values[k] = endCode /\ \A j \in 1 .. k - 1 : values[j] # endCode
         IN /\ end = n + 2 /\ values[1] = headerCode
            /\ [k \in 1 .. end - 2 |-> values[k + 1] + 32] = identifier
<1> DEFINE n == Len(identifier)
           codes == codesBefore(identifier)
           values == [k \in DOMAIN codes |-> numberOf(codes[k])]
           isEnd(k) == values[k] = endCode /\ \A j \in 1 .. k - 1 : values[j] # endCode
           end == CHOOSE k \in DOMAIN values : isEnd(k)
<1>1. /\ n \in Nat /\ DOMAIN identifier = 1 .. n
      /\ \A k \in 1 .. n : /\ identifier[k] \in Nat /\ 32 <= identifier[k]
                           /\ identifier[k] <= 95 /\ identifier[k] # 33
  BY DEF Letters
<1>2. /\ codes \in Seq(Six) /\ Len(codes) = n + 3 /\ codes[1] = bitsOf(headerCode, 6)
      /\ \A k \in 1 .. n : codes[k + 1] = bitsOf(identifier[k] - 32, 6)
      /\ codes[n + 2] = bitsOf(endCode, 6)
  BY CodesAre
<1> HIDE DEF n, codes
<1>3. DOMAIN codes = 1 .. n + 3 /\ DOMAIN values = 1 .. n + 3
  BY <1>2
<1>4. \A k \in 1 .. n + 3 : values[k] = numberOf(codes[k])
  BY <1>3
<1> HIDE DEF values
<1>5. values[1] = headerCode /\ values[n + 2] = endCode
  <2>1. numberOf(bitsOf(headerCode, 6)) = headerCode /\ numberOf(bitsOf(endCode, 6)) = endCode
    BY SixBits DEF headerCode, endCode
  <2>2. 1 \in 1 .. n + 3 /\ n + 2 \in 1 .. n + 3
    BY <1>1
  <2> QED
    BY <1>2, <1>4, <2>1, <2>2
<1>6. \A k \in 1 .. n : values[k + 1] = identifier[k] - 32
  <2> SUFFICES ASSUME NEW k \in 1 .. n PROVE values[k + 1] = identifier[k] - 32
    OBVIOUS
  <2>1. identifier[k] - 32 \in Nat /\ identifier[k] - 32 < 64 /\ k + 1 \in 1 .. n + 3
    BY <1>1
  <2>2. numberOf(bitsOf(identifier[k] - 32, 6)) = identifier[k] - 32
    BY <2>1, SixBits
  <2> QED
    BY <1>2, <1>4, <2>1, <2>2
<1>7. \A j \in 1 .. n + 1 : values[j] # endCode
  <2> SUFFICES ASSUME NEW j \in 1 .. n + 1 PROVE values[j] # endCode
    OBVIOUS
  <2>1. CASE j = 1
    BY <1>5, <2>1 DEF headerCode, endCode
  <2>2. CASE j # 1
    <3>1. j - 1 \in 1 .. n /\ (j - 1) + 1 = j
      BY <1>1, <2>2
    <3>2. values[j] = identifier[j - 1] - 32
      BY <1>6, <3>1
    <3> QED
      BY <1>1, <3>1, <3>2 DEF endCode
  <2> QED
    BY <2>1, <2>2
<1>8. n + 2 \in DOMAIN values /\ isEnd(n + 2)
  <2>1. n + 2 \in DOMAIN values /\ (n + 2) - 1 = n + 1
    BY <1>1, <1>3
  <2> QED
    BY <1>5, <1>7, <2>1
<1>9. \A k \in DOMAIN values : isEnd(k) => k = n + 2
  <2> SUFFICES ASSUME NEW k \in DOMAIN values, isEnd(k) PROVE k = n + 2
    OBVIOUS
  <2>1. k \in 1 .. n + 3 /\ ~(k \in 1 .. n + 1)
    BY <1>3, <1>7
  <2>2. n + 2 \notin 1 .. k - 1
    BY <1>5
  <2> QED
    BY <1>1, <2>1, <2>2
<1> HIDE DEF isEnd
<1>10. end = n + 2
  BY <1>8, <1>9, Zenon
<1> HIDE DEF end
<1>11. [k \in 1 .. end - 2 |-> values[k + 1] + 32] = identifier
  <2>1. end - 2 = n
    BY <1>1, <1>10
  <2>2. \A k \in 1 .. n : values[k + 1] + 32 = identifier[k]
    BY <1>1, <1>6
  <2>3. identifier = [k \in 1 .. n |-> identifier[k]]
    BY <1>1
  <2> QED
    BY <2>1, <2>2, <2>3
<1> QED
  BY <1>5, <1>10, <1>11, Zenon DEF n, codes, values, isEnd, end

isReadAs(codes, identifier) ==
  LET values == [n \in DOMAIN codes |-> numberOf(codes[n])]
      end == CHOOSE n \in DOMAIN values :
               values[n] = endCode /\ \A k \in 1 .. n - 1 : values[k] # endCode
  IN /\ end = Len(codes) - 1 /\ values[1] = headerCode
     /\ [k \in 1 .. end - 2 |-> values[k + 1] + 32] = identifier
     /\ \A i \in 1 .. 6 :
          Cardinality({n \in 2 .. Len(codes) : n # end /\ codes[n][i]}) % 2 = 0

-----------------------------------------------------------------------------
(* The invariant of the headers.                                             *)

isIdentifier(identifier) == identifier = NoIdentifier \/ identifier \in Seq(Letters) \ {<<>>}
HeaderInv ==
  /\ tx.place \notin {"none", "refused"} => isIdentifier(tx.identifier)
  /\ tx.place \in {"convert", "lines", "suffix", "complete"} =>
       tx.vis = makeVisBits(modes[tx.mode].visCode)
  /\ tx.place = "complete" /\ tx.identifier # NoIdentifier => tx.fsk = fskBits(tx.identifier)

(* An identifier that was accepted and normalised is of the characters that   *)
(* have a code.                                                               *)
LEMMA IdentifiersAre ==
  /\ \A text \in {t \in Identifiers : isSendable(t)} : isIdentifier(normalised(text))
  /\ isIdentifier(normalised(NoIdentifier))
<1>1. ASSUME NEW text \in Identifiers, isSendable(text) PROVE isIdentifier(normalised(text))
  <2>1. /\ Len(text) \in Nat /\ Len(text) > 0 /\ DOMAIN text = 1 .. Len(text)
        /\ \A i \in 1 .. Len(text) : text[i] \in Nat
    BY EncodingAssumption, <1>1 DEF isSendable
  <2>2. \A i \in 1 .. Len(text) : upperCase(text[i]) \in Letters
    <3>1. \A c \in Nat : upperCase(c) \in 32 .. 95 => upperCase(c) \in Letters
      BY DEF upperCase, Letters
    <3>2. \A i \in DOMAIN text : upperCase(text[i]) \in 32 .. 95
      BY <1>1, Zenon DEF isSendable
    <3> QED
      BY <2>1, <3>1, <3>2
  <2>3. normalised(text) = [i \in 1 .. Len(text) |-> upperCase(text[i])]
    BY <2>1, Zenon DEF normalised
  <2>4. normalised(text) \in Seq(Letters) /\ Len(normalised(text)) = Len(text)
    BY <2>1, <2>2, <2>3
  <2> QED
    BY <2>1, <2>4 DEF isIdentifier
<1>2. normalised(NoIdentifier) = NoIdentifier
  BY DEF normalised, NoIdentifier
<1> QED
  BY <1>1, <1>2 DEF isIdentifier

(* Each step of the encoder keeps the invariant of the headers.               *)
LEMMA HeadersKept == ASSUME EncInv, HeaderInv, OfEncoder PROVE HeaderInv'
<1>1. CASE EncodeHeader
  <2>1. tx.place = "header" /\ isTransmission(tx)
    BY <1>1 DEF EncInv, EncodeHeader, NoTransmission, isUnderway
  <2>2. /\ tx'.place \in {"lines", "convert"} /\ tx'.mode = tx.mode
        /\ tx'.vis = makeVisBits(modes[tx.mode].visCode) /\ tx'.identifier = tx.identifier
    BY <1>1, <2>1 DEF EncodeHeader, isTransmission
  <2> QED
    BY <2>1, <2>2 DEF HeaderInv
<1>2. CASE ConvertFrame
  <2>1. tx.place = "convert" /\ isTransmission(tx)
    BY <1>2 DEF EncInv, ConvertFrame, NoTransmission, isUnderway
  <2>2. /\ tx'.place = "lines" /\ tx'.mode = tx.mode /\ tx'.vis = tx.vis
        /\ tx'.identifier = tx.identifier
    BY <1>2, <2>1 DEF ConvertFrame, isTransmission
  <2> QED
    BY <2>1, <2>2 DEF HeaderInv
<1>3. CASE EncodeSegment
  <2>1. tx.place = "lines" /\ isTransmission(tx)
    BY <1>3 DEF EncInv, EncodeSegment, NoTransmission, isUnderway
  <2>2. /\ tx'.place \in {"lines", "suffix"} /\ tx'.mode = tx.mode /\ tx'.vis = tx.vis
        /\ tx'.identifier = tx.identifier
    BY <1>3, <2>1 DEF EncodeSegment, isTransmission
  <2> QED
    BY <2>1, <2>2 DEF HeaderInv
<1>4. CASE AppendFskSuffix
  <2>1. tx.place = "suffix" /\ isTransmission(tx)
    BY <1>4 DEF EncInv, AppendFskSuffix, NoTransmission, isUnderway
  <2>2. /\ tx'.place = "complete" /\ tx'.mode = tx.mode /\ tx'.vis = tx.vis
        /\ tx'.identifier = tx.identifier
        /\ tx.identifier # NoIdentifier => tx'.fsk = fskBits(tx.identifier)
    BY <1>4, <2>1 DEF AppendFskSuffix, isTransmission
  <2> QED
    BY <2>1, <2>2 DEF HeaderInv
<1>5. ASSUME NEW capability, NEW text \in {t \in Identifiers : isSendable(t)} \cup {NoIdentifier},
             BeginEncoding(mode, capability, modes[mode].width, modes[mode].height, normalised(text))
      PROVE  HeaderInv'
  <2>1. tx = NoTransmission
    BY <1>5 DEF EncInv, BeginEncoding, isUnderway
  <2>2. CASE tx' = [tx EXCEPT !.place = "refused"]
    BY <2>1, <2>2 DEF HeaderInv, NoTransmission
  <2>3. CASE tx' = [tx EXCEPT !.place = "header", !.mode = mode, !.identifier = normalised(text),
                              !.sent = [plane \in planesOf(mode) |-> 0]]
    <3>1. tx'.place = "header" /\ tx'.identifier = normalised(text)
      BY <2>1, <2>3 DEF NoTransmission
    <3>2. isIdentifier(normalised(text))
      BY IdentifiersAre
    <3> QED
      BY <3>1, <3>2 DEF HeaderInv
  <2> QED
    BY <1>5, <2>2, <2>3 DEF BeginEncoding
<1> QED
  BY <1>1, <1>2, <1>3, <1>4, <1>5 DEF OfEncoder, Encode

(* What has the headers that it should have can be read back.                    *)
LEMMA HeadersAreRead == ASSUME EncInv, HeaderInv PROVE HeadersReadBack
<1> SUFFICES ASSUME tx.place = "complete"
             PROVE  /\ Len(tx.vis) = 8 /\ numberOf(SubSeq(tx.vis, 1, 7)) = modes[tx.mode].visCode
                    /\ Cardinality(ones(tx.vis)) % 2 = 0
                    /\ tx.identifier # NoIdentifier
                         /\ (\A k \in DOMAIN tx.identifier : tx.identifier[k] # 33) =>
                       LET codes == codesOf(tx.fsk)
                           values == [n \in DOMAIN codes |-> numberOf(codes[n])]
                           end == CHOOSE n \in DOMAIN values :
                                    values[n] = endCode /\ \A k \in 1 .. n - 1 : values[k] # endCode
                       IN /\ Len(tx.fsk) = 6 * Len(codes) /\ end = Len(codes) - 1
                          /\ values[1] = headerCode
                          /\ [k \in 1 .. end - 2 |-> values[k + 1] + 32] = tx.identifier
                          /\ \A i \in 1 .. 6 :
                               Cardinality({n \in 2 .. Len(codes) : n # end /\ codes[n][i]}) % 2 = 0
  BY Zenon DEF HeadersReadBack
<1>1. tx.mode \in ModeIds /\ tx.vis = makeVisBits(modes[tx.mode].visCode)
  BY DEF EncInv, HeaderInv, NoTransmission, isUnderway
<1>2. modes[tx.mode].visCode \in Nat /\ modes[tx.mode].visCode < 128
  BY <1>1 DEF modes, Mode, ModeIds
<1>3. /\ Len(tx.vis) = 8 /\ numberOf(SubSeq(tx.vis, 1, 7)) = modes[tx.mode].visCode
      /\ Cardinality(ones(tx.vis)) % 2 = 0
  <2> DEFINE bits == bitsOf(modes[tx.mode].visCode, 7)
  <2>1. bits \in Seq(BOOLEAN) /\ Len(bits) = 7
    BY DEF bitsOf
  <2>2. numberOf(bits) = modes[tx.mode].visCode
    BY <1>2, SevenBits
  <2>3. tx.vis = Append(bits, isOdd(bits))
    BY <1>1, Zenon DEF makeVisBits
  <2> HIDE DEF bits
  <2>4. /\ Len(tx.vis) = Len(bits) + 1 /\ SubSeq(tx.vis, 1, Len(bits)) = bits
        /\ Cardinality(ones(tx.vis)) % 2 = 0
    BY <2>1, <2>3, ParityIsEven, Zenon
  <2>5. SubSeq(tx.vis, 1, 7) = bits /\ Len(tx.vis) = 8
    BY <2>1, <2>4
  <2> QED
    BY <2>2, <2>4, <2>5
<1>4. ASSUME tx.identifier # NoIdentifier, \A k \in DOMAIN tx.identifier : tx.identifier[k] # 33
      PROVE  LET codes == codesOf(tx.fsk)
                 values == [n \in DOMAIN codes |-> numberOf(codes[n])]
                 end == CHOOSE n \in DOMAIN values :
                          values[n] = endCode /\ \A k \in 1 .. n - 1 : values[k] # endCode
             IN /\ Len(tx.fsk) = 6 * Len(codes) /\ end = Len(codes) - 1
                /\ values[1] = headerCode
                /\ [k \in 1 .. end - 2 |-> values[k + 1] + 32] = tx.identifier
                /\ \A i \in 1 .. 6 :
                     Cardinality({n \in 2 .. Len(codes) : n # end /\ codes[n][i]}) % 2 = 0
  <2> DEFINE identifier == tx.identifier
             codes == codesBefore(identifier)
             n == Len(identifier)
             values == [k \in DOMAIN codes |-> numberOf(codes[k])]
             isEnd(k) == values[k] = endCode /\ \A j \in 1 .. k - 1 : values[j] # endCode
             end == CHOOSE k \in DOMAIN values : isEnd(k)
  <2>1. identifier \in Seq(Letters) /\ n \in Nat
    BY <1>4 DEF HeaderInv, isIdentifier
  <2>2. tx.fsk = FlattenSeq(codes)
    BY <1>4, Zenon DEF HeaderInv, fskBits, codesBefore
  <2>3. codes \in Seq(Six) /\ Len(codes) = n + 3
    BY <2>1, CodesAre
  <2>4. Len(tx.fsk) = 6 * Len(codes) /\ codesOf(tx.fsk) = codes
    <3> HIDE DEF codes, n
    <3>1. codes # <<>>
      BY <2>1, <2>3
    <3> QED
      BY <2>2, <2>3, <3>1, CodesAreRead
  <2>5. /\ end = n + 2 /\ values[1] = headerCode
        /\ [k \in 1 .. end - 2 |-> values[k + 1] + 32] = identifier
    BY <1>4, <2>1, IdentifierIsRead, Zenon
  <2>6. \A i \in 1 .. 6 : Cardinality({k \in 2 .. n + 3 : k # n + 2 /\ codes[k][i]}) % 2 = 0
    BY <2>1, ColumnIsEven, Zenon
  <2> HIDE DEF isEnd, end, values, codes, n
  <2>7. \A i \in 1 .. 6 : Cardinality({k \in 2 .. Len(codes) : k # end /\ codes[k][i]}) % 2 = 0
    BY <2>3, <2>5, <2>6, Zenon
  <2>8. end = Len(codes) - 1
    BY <2>1, <2>3, <2>5
  <2>9. isReadAs(codes, identifier)
    BY <2>5, <2>7, <2>8, Zenon DEF isReadAs, isEnd, end, values
  <2>10. isReadAs(codesOf(tx.fsk), identifier) /\ Len(tx.fsk) = 6 * Len(codesOf(tx.fsk))
    BY <2>4, <2>9, Zenon
  <2> QED
    BY <2>10, Zenon DEF isReadAs
<1> QED
  BY <1>3, <1>4, Zenon

-----------------------------------------------------------------------------
(* The job: a step of one part leaves the others alone, or begins them anew.       *)

(* Each step is of one part.                                                  *)
LEMMA StepsOfParts ==
  ASSUME [OfflineJobNext]_jobVars
  PROVE  /\ OfSource \/ UNCHANGED play \/ play' = NoSource
         /\ OfEncoder \/ UNCHANGED <<tx, picture>> \/ (tx' = NoTransmission /\ picture' = NoPicture)
         /\ OfWav \/ UNCHANGED wav \/ wav' = NoWav
BY DEF OfflineJobNext, jobVars, data, ChooseMode, ChooseFile, GoOn, Enter, OfImage, OfEncoder,
       OfSource, OfWav

(* Each step of a job keeps the invariant of the source.                      *)
LEMMA SourceNext == ASSUME PlayInv, [OfflineJobNext]_jobVars PROVE PlayInv'
<1>1. CASE OfSource
  BY <1>1, SourceKeeps
<1>2. CASE UNCHANGED play
  BY <1>2 DEF PlayInv, PlayingOK, isExhausted
<1>3. CASE play' = NoSource
  BY <1>3 DEF PlayInv
<1> QED
  BY <1>1, <1>2, <1>3, StepsOfParts

(* However reads and rounding fall: no frame is a whole frame early or late,      *)
(* errors do not add up over the tones, a read is short only at the end, and as     *)
(* many frames come as were announced.  ToneRenderer and the live transmit source   *)
(* agree, for every melody and every supported rate.                            *)
THEOREM RendersInTimeHolds == OfflineJobSpec => []RendersInTime
<1>1. OfflineJobInit => PlayInv
  BY DEF OfflineJobInit, PlayInit, PlayInv
<1>2. PlayInv /\ [OfflineJobNext]_jobVars => PlayInv'
  BY SourceNext
<1>3. PlayInv => RendersInTime
  BY PlaysInTime
<1> QED
  BY <1>1, <1>2, <1>3, PTL DEF OfflineJobSpec

(* The invariant of the encoder: where it is, and what the headers are.            *)
TransmissionInv == EncInv /\ HeaderInv

(* It holds as long as there is no transmission.                              *)
LEMMA NothingIsSent == tx = NoTransmission => TransmissionInv
BY DEF TransmissionInv, EncInv, HeaderInv, NoTransmission

(* Each step of a job keeps it.                                               *)
LEMMA TransmissionNext ==
  ASSUME TransmissionInv, [OfflineJobNext]_jobVars PROVE TransmissionInv'
<1>1. CASE OfEncoder
  BY <1>1, EncoderKeeps, HeadersKept DEF TransmissionInv
<1>2. CASE UNCHANGED tx
  BY <1>2 DEF TransmissionInv, EncInv, HeaderInv
<1>3. CASE tx' = NoTransmission
  BY <1>3 DEF TransmissionInv, EncInv, HeaderInv, NoTransmission
<1> QED
  BY <1>1, <1>2, <1>3, StepsOfParts

(* It is an invariant.                                                        *)
LEMMA TransmissionCorrect == OfflineJobSpec => []TransmissionInv
<1>1. OfflineJobInit => TransmissionInv
  BY NothingIsSent DEF OfflineJobInit, EncoderInit
<1>2. TransmissionInv /\ [OfflineJobNext]_jobVars => TransmissionInv'
  BY TransmissionNext
<1> QED
  BY <1>1, <1>2, PTL DEF OfflineJobSpec

(* Whatever the mode, the picture and the identifier: the encoder makes as many    *)
(* events as it counted, takes exactly the published time, and sends every row of   *)
(* every plane once and in order.                                              *)
THEOREM EncodingIsCompleteHolds == OfflineJobSpec => []EncodingIsComplete
<1>1. TransmissionInv => EncodingIsComplete
  BY WholeIsComplete DEF TransmissionInv
<1> QED
  BY <1>1, TransmissionCorrect, PTL

(* The code of the mode and the identifier of any transmission can be read back from *)
(* the bits of makeVisBits() and the FSK suffix: parity and checksum come out, and   *)
(* the first end code is where the identifier ends.                             *)
THEOREM HeadersReadBackHolds == OfflineJobSpec => []HeadersReadBack
<1>1. TransmissionInv => HeadersReadBack
  BY HeadersAreRead DEF TransmissionInv
<1> QED
  BY <1>1, TransmissionCorrect, PTL
=============================================================================
