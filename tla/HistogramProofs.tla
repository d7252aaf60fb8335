---------------------------- MODULE HistogramProofs ----------------------------
(***************************************************************************)
(* The latency histogram for every range, number of significant figures    *)
(* and width of the integers that hdr_init can be given, and every         *)
(* sequence of recordings, additions, resets and rebuilt counters: what    *)
(* hdr_min, hdr_max, hdr_mean and hdr_value_at_percentile return is true   *)
(* of the values accepted, to within the resolution.                       *)
(*                                                                         *)
(* First come powers of two and logarithms, then where a value is found    *)
(* (Located), sums and folds over finite sets, what each function of       *)
(* hdr_histogram.c does to the counts, then the state machine of           *)
(* HistogramUse with its inductive invariant HistInv, and last the five    *)
(* iterators of HistogramIterators with IterInv.                           *)
(*                                                                         *)
(* Induction, over numbers and over the subsets of a finite set, is that   *)
(* of the least counterexample: the library's theorems on induction take   *)
(* an operator, which the provers do not instantiate.                      *)
(***************************************************************************)
EXTENDS HistogramUse, HistogramIterators, FiniteSetTheorems, WellFoundedInduction, TLAPS

-------------------------------------------------------------------------------
(* Induction                                                                 *)

\* A set of natural numbers that is not empty has a least element.
LEMMA LeastNat ==
  ASSUME NEW S, S \subseteq Nat, S # {}
  PROVE  \E m \in S : \A k \in S : m <= k
<1>1. PICK m \in S : \A k \in S : <<k, m>> \notin OpToRel(<, Nat)
  BY NatLessThanWellFounded, WFMin
<1>2. \A k \in S : ~ (k < m) BY <1>1 DEF OpToRel
<1>3. QED BY <1>2

\* Induction over the natural numbers, for a set instead of an operator.
LEMMA SetInduction ==
  ASSUME NEW S, 0 \in S, \A k \in Nat : k \in S => k + 1 \in S
  PROVE  \A k \in Nat : k \in S
<1> SUFFICES ASSUME \E k \in Nat : k \notin S PROVE FALSE OBVIOUS
<1>1. Nat \ S \subseteq Nat /\ Nat \ S # {} OBVIOUS
<1>2. PICK m \in Nat \ S : \A k \in Nat \ S : m <= k BY <1>1, LeastNat
<1>3. m # 0 /\ m - 1 \in Nat /\ m - 1 < m /\ (m - 1) + 1 = m BY <1>2
<1>4. m - 1 \in S BY <1>2, <1>3
<1>5. QED BY <1>2, <1>3, <1>4

\* A function on 0 .. n that doubles from 1 on
Doubles(g, n) == g = [k \in 0 .. n |-> IF k = 0 THEN 1 ELSE 2 * g[k - 1]]

\* The values of such a function, its uniqueness, and that there is one.
LEMMA DoublesApply ==
  ASSUME NEW n \in Nat, NEW g, Doubles(g, n), NEW k \in 0 .. n
  PROVE  g[k] = IF k = 0 THEN 1 ELSE 2 * g[k - 1]
  BY DEF Doubles

LEMMA DoublesExists == \A n \in Nat : \E g : Doubles(g, n)
<1> DEFINE S == {n \in Nat : \E g : Doubles(g, n)}
<1>1. 0 \in S
  <2>1. Doubles([k \in 0 .. 0 |-> 1], 0) BY DEF Doubles
  <2> QED BY <2>1
<1>2. ASSUME NEW n \in Nat, n \in S PROVE n + 1 \in S
  <2>1. PICK g : Doubles(g, n) BY <1>2
  <2> DEFINE e == [k \in 0 .. n + 1 |-> IF k <= n THEN g[k] ELSE 2 * g[n]]
  <2>2. \A k \in 0 .. n : e[k] = g[k] OBVIOUS
  <2>3. e[n + 1] = 2 * g[n] /\ e = [k \in 0 .. n + 1 |-> e[k]] OBVIOUS
  <2> HIDE DEF e
  <2>4. ASSUME NEW k \in 0 .. n + 1 PROVE e[k] = IF k = 0 THEN 1 ELSE 2 * e[k - 1]
    <3>1. CASE k = n + 1 BY <2>2, <2>3, <3>1
    <3>2. CASE k # n + 1
      <4>1. k \in 0 .. n /\ (k # 0 => k - 1 \in 0 .. n) BY <3>2
      <4> QED BY <4>1, <2>1, <2>2, DoublesApply
    <3> QED BY <3>1, <3>2
  <2>5. Doubles(e, n + 1) BY <2>3, <2>4 DEF Doubles
  <2> QED BY <2>5
<1>3. \A n \in Nat : n \in S
  <2> HIDE DEF S
  <2> QED BY <1>1, <1>2, SetInduction
<1> QED BY <1>3

LEMMA DoublesAgree ==
  ASSUME NEW m \in Nat, NEW n \in Nat, NEW f, NEW g, Doubles(f, m), Doubles(g, n)
  PROVE  \A k \in Nat : k <= m /\ k <= n => f[k] = g[k]
<1> DEFINE S == {k \in Nat : k <= m /\ k <= n => f[k] = g[k]}
<1>1. 0 \in S
  <2>1. 0 \in 0 .. m /\ 0 \in 0 .. n OBVIOUS
  <2> QED BY <2>1, DoublesApply
<1>2. ASSUME NEW k \in Nat, k \in S PROVE k + 1 \in S
  <2> SUFFICES ASSUME k + 1 <= m, k + 1 <= n PROVE f[k + 1] = g[k + 1] OBVIOUS
  <2>1. k + 1 \in 0 .. m /\ k + 1 \in 0 .. n /\ k + 1 # 0 /\ (k + 1) - 1 = k OBVIOUS
  <2>2. f[k + 1] = 2 * f[k] /\ g[k + 1] = 2 * g[k] BY <2>1, DoublesApply
  <2> QED BY <1>2, <2>2
<1>3. \A k \in Nat : k \in S
  <2> HIDE DEF S
  <2> QED BY <1>1, <1>2, SetInduction
<1> QED BY <1>3

\* The recursive function Pow2 is what its definition says.
LEMMA Pow2Values == Pow2[0] = 1 /\ \A n \in Nat : Pow2[n + 1] = 2 * Pow2[n]
<1> DEFINE G(n) == CHOOSE g : Doubles(g, n)
           p == [n \in Nat |-> G(n)[n]]
           D(f) == [n \in Nat |-> IF n = 0 THEN 1 ELSE 2 * f[n - 1]]
<1>1. \A n \in Nat : Doubles(G(n), n) BY DoublesExists
<1> HIDE DEF G
<1>2. ASSUME NEW n \in Nat PROVE p[n] = IF n = 0 THEN 1 ELSE 2 * p[n - 1]
  <2>1. Doubles(G(n), n) /\ n \in 0 .. n BY <1>1
  <2>2. G(n)[n] = IF n = 0 THEN 1 ELSE 2 * G(n)[n - 1] BY <2>1, DoublesApply
  <2>3. CASE n = 0 BY <2>2, <2>3
  <2>4. CASE n # 0
    <3>1. n - 1 \in Nat /\ n - 1 <= n BY <2>4
    <3>2. Doubles(G(n - 1), n - 1) BY <1>1, <3>1
    <3>3. G(n)[n - 1] = G(n - 1)[n - 1] BY <2>1, <3>1, <3>2, DoublesAgree
    <3> QED BY <2>2, <2>4, <3>1, <3>3
  <2> QED BY <2>3, <2>4
<1>3. p = D(p) BY <1>2
<1>4. Pow2 = CHOOSE f : f = D(f) BY DEF Pow2
<1> HIDE DEF D, p
<1>5. Pow2 = D(Pow2) BY <1>3, <1>4
<1>6. \A n \in Nat : Pow2[n] = IF n = 0 THEN 1 ELSE 2 * Pow2[n - 1] BY <1>5 DEF D
<1> QED BY <1>6
\* Powers of two: their type, sums of exponents, and their order.
LEMMA Pow2Type == \A n \in Nat : Pow2[n] \in Nat \ {0} /\ Pow2[n] > n
<1> DEFINE S == {n \in Nat : Pow2[n] \in Nat \ {0} /\ Pow2[n] > n}
<1>1. 0 \in S BY Pow2Values
<1>2. ASSUME NEW n \in Nat, n \in S PROVE n + 1 \in S
  <2>1. Pow2[n + 1] = 2 * Pow2[n] BY Pow2Values
  <2>2. Pow2[n] \in Nat /\ Pow2[n] > n BY <1>2
  <2> QED BY <2>1, <2>2
<1>3. \A n \in Nat : n \in S
  <2> HIDE DEF S
  <2> QED BY <1>1, <1>2, SetInduction
<1> QED BY <1>3

LEMMA Pow2Sum ==
  ASSUME NEW a \in Nat
  PROVE  \A n \in Nat : Pow2[a + n] = Pow2[a] * Pow2[n]
<1> DEFINE S == {n \in Nat : Pow2[a + n] = Pow2[a] * Pow2[n]}
<1>1. 0 \in S
  <2>1. Pow2[0] = 1 /\ Pow2[a] \in Nat /\ a + 0 = a BY Pow2Values, Pow2Type
  <2> QED BY <2>1
<1>2. ASSUME NEW n \in Nat, n \in S PROVE n + 1 \in S
  <2>1. Pow2[n + 1] = 2 * Pow2[n] /\ Pow2[a + n + 1] = 2 * Pow2[a + n] BY Pow2Values
  <2>2. Pow2[n] \in Nat /\ Pow2[a] \in Nat BY Pow2Type
  <2>3. Pow2[a + n] = Pow2[a] * Pow2[n] BY <1>2
  <2>4. 2 * (Pow2[a] * Pow2[n]) = Pow2[a] * (2 * Pow2[n]) BY <2>2
  <2>5. a + (n + 1) = a + n + 1 OBVIOUS
  <2>6. Pow2[a + (n + 1)] = Pow2[a] * Pow2[n + 1] BY <2>1, <2>3, <2>4, <2>5
  <2> QED BY <2>6
<1>3. \A n \in Nat : n \in S
  <2> HIDE DEF S
  <2> QED BY <1>1, <1>2, SetInduction
<1> QED BY <1>3

LEMMA Pow2Monotone ==
  ASSUME NEW a \in Nat, NEW b \in Nat
  PROVE  /\ a <= b <=> Pow2[a] <= Pow2[b]
         /\ a < b <=> Pow2[a] < Pow2[b]
         /\ a < b => 2 * Pow2[a] <= Pow2[b]
<1>1. ASSUME NEW i \in Nat, NEW j \in Nat, i <= j PROVE Pow2[i] <= Pow2[j]
  <2>1. PICK d \in Nat : j = i + d BY <1>1
  <2>2. Pow2[j] = Pow2[i] * Pow2[d] BY <2>1, Pow2Sum
  <2>3. PICK x \in Nat : x = Pow2[i] BY Pow2Type
  <2>4. PICK y \in Nat : y = Pow2[d] - 1 /\ Pow2[d] = y + 1
    <3>1. Pow2[d] \in Nat \ {0} BY Pow2Type
    <3> QED BY <3>1
  <2>5. x * (y + 1) = x + x * y /\ x * y \in Nat OBVIOUS
  <2> QED BY <2>2, <2>3, <2>4, <2>5
<1>2. ASSUME NEW i \in Nat, NEW j \in Nat, i < j PROVE Pow2[i] < Pow2[j] /\ 2 * Pow2[i] <= Pow2[j]
  <2>1. i + 1 \in Nat /\ i + 1 <= j BY <1>2
  <2>2. Pow2[i + 1] <= Pow2[j] BY <1>1, <2>1
  <2>3. Pow2[i + 1] = 2 * Pow2[i] /\ Pow2[i] \in Nat \ {0} /\ Pow2[j] \in Nat BY Pow2Values, Pow2Type
  <2> QED BY <2>2, <2>3
<1>3. Pow2[a] \in Nat /\ Pow2[b] \in Nat BY Pow2Type
<1>4. CASE a < b BY <1>2, <1>3, <1>4
<1>5. CASE a = b BY <1>3, <1>5
<1>6. CASE b < a BY <1>2, <1>3, <1>6
<1> QED BY <1>4, <1>5, <1>6

\* Every positive int64_t has a length of at most 63 bits.
LEMMA LogFloorIs ==
  ASSUME NEW n \in Nat, n > 0, n < Pow2[63]
  PROVE  /\ LogFloor(n) \in 0 .. 62
         /\ Pow2[LogFloor(n)] <= n /\ n < Pow2[LogFloor(n) + 1]
<1> DEFINE S == {k \in Nat : n < Pow2[k]}
<1>1. 63 \in S /\ S \subseteq Nat OBVIOUS
<1>2. PICK m \in S : \A k \in S : m <= k
  <2> HIDE DEF S
  <2> QED BY <1>1, LeastNat
<1>3. m \in Nat /\ m <= 63 /\ n < Pow2[m] BY <1>1, <1>2
<1>4. m # 0 BY <1>3, Pow2Values
<1>5. m - 1 \in 0 .. 62 /\ m - 1 \notin S /\ (m - 1) + 1 = m BY <1>2, <1>3, <1>4
<1>6. ~ (n < Pow2[m - 1]) BY <1>5
<1>7. Pow2[m - 1] <= n BY <1>5, <1>6, Pow2Type
<1>8. \E k \in 0 .. 62 : Pow2[k] <= n /\ n < Pow2[k + 1] BY <1>3, <1>5, <1>7
<1> QED BY <1>8 DEF LogFloor

\* There is only one such length.
LEMMA LogFloorOf ==
  ASSUME NEW n \in Nat, NEW k \in 0 .. 62, Pow2[k] <= n, n < Pow2[k + 1]
  PROVE  n > 0 /\ n < Pow2[63] /\ LogFloor(n) = k
<1>1. k \in Nat /\ k + 1 <= 63 /\ k + 1 \in Nat /\ 63 \in Nat OBVIOUS
<1>2. Pow2[k] \in Nat \ {0} /\ Pow2[k + 1] \in Nat /\ Pow2[63] \in Nat BY <1>1, Pow2Type
<1>3. n > 0 /\ n < Pow2[63] BY <1>1, <1>2, Pow2Monotone
<1>4. PICK f : f = LogFloor(n) OBVIOUS
<1>5. f \in 0 .. 62 /\ Pow2[f] <= n /\ n < Pow2[f + 1] BY <1>3, <1>4, LogFloorIs
<1>6. f \in Nat /\ f + 1 \in Nat /\ Pow2[f] \in Nat /\ Pow2[f + 1] \in Nat BY <1>5, Pow2Type
<1>7. Pow2[f] < Pow2[k + 1] /\ Pow2[k] < Pow2[f + 1] BY <1>2, <1>5, <1>6
<1>8. f < k + 1 /\ k < f + 1 BY <1>1, <1>6, <1>7, Pow2Monotone
<1> QED BY <1>3, <1>4, <1>6, <1>8

\* LogCeil rounds up.
LEMMA LogCeilIs ==
  ASSUME NEW n \in Nat, n < Pow2[62]
  PROVE  /\ LogCeil(n) \in 0 .. 62
         /\ n <= Pow2[LogCeil(n)]
<1> DEFINE S == {k \in Nat : n <= Pow2[k]}
<1>1. 62 \in S /\ S \subseteq Nat BY Pow2Type
<1>2. PICK m \in S : \A k \in S : m <= k
  <2> HIDE DEF S
  <2> QED BY <1>1, LeastNat
<1>3. m \in Nat /\ m <= 62 /\ n <= Pow2[m] BY <1>1, <1>2
<1>4. m = 0 \/ Pow2[m - 1] < n
  <2> SUFFICES ASSUME m # 0 PROVE Pow2[m - 1] < n OBVIOUS
  <2>1. m - 1 \in Nat /\ m - 1 \notin S BY <1>2, <1>3
  <2>2. ~ (n <= Pow2[m - 1]) BY <2>1
  <2> QED BY <2>1, <2>2, Pow2Type
<1>5. \E k \in 0 .. 62 : n <= Pow2[k] /\ (k = 0 \/ Pow2[k - 1] < n) BY <1>3, <1>4
<1> QED BY <1>5 DEF LogCeil
\* What a configuration of hdr_calculate_bucket_config is like.  Top(c) is the first
\* value beyond its last bucket.
Top(c) == Pow2[c.unit_magnitude + c.sub_bucket_half_count_magnitude + c.bucket_count]

\* The fields fit together, and all values they cover fit 63 bits.
ConfigOK(c) ==
  /\ c.unit_magnitude \in Nat /\ c.sub_bucket_half_count_magnitude \in Nat
  /\ c.bucket_count \in Nat \ {0}
  /\ c.unit_magnitude + c.sub_bucket_half_count_magnitude + c.bucket_count <= 63
  /\ c.sub_bucket_half_count = Pow2[c.sub_bucket_half_count_magnitude]
  /\ c.sub_bucket_count = 2 * Pow2[c.sub_bucket_half_count_magnitude]
  /\ c.sub_bucket_mask = (2 * Pow2[c.sub_bucket_half_count_magnitude] - 1) * Pow2[c.unit_magnitude]
  /\ c.counts_len = (c.bucket_count + 1) * Pow2[c.sub_bucket_half_count_magnitude]

\* Where a value is: bucket b, sub bucket s
Located(c, value, b, s) ==
  /\ b \in Nat /\ s \in Nat /\ s < 2 * Pow2[c.sub_bucket_half_count_magnitude]
  /\ b > 0 => s >= Pow2[c.sub_bucket_half_count_magnitude]
  /\ s * Pow2[b + c.unit_magnitude] <= value
  /\ value < (s + 1) * Pow2[b + c.unit_magnitude]

\* The mask is as long as a value whose sub bucket index is full.
LEMMA MaskLength ==
  ASSUME NEW c, ConfigOK(c)
  PROVE  BitLength(c.sub_bucket_mask) = c.unit_magnitude + c.sub_bucket_half_count_magnitude + 1
<1> DEFINE u == c.unit_magnitude
           m == c.sub_bucket_half_count_magnitude
           mask == c.sub_bucket_mask
<1>1. u \in Nat /\ m \in Nat /\ u + m <= 62 /\ u + m \in Nat BY DEF ConfigOK
<1>2. mask = (2 * Pow2[m] - 1) * Pow2[u] BY DEF ConfigOK
<1> HIDE DEF u, m, mask
<1>3. Pow2[u] \in Nat \ {0} /\ Pow2[m] \in Nat \ {0} BY <1>1, Pow2Type
<1>4. PICK x \in Nat, y \in Nat : x = Pow2[u] /\ x > 0 /\ Pow2[m] = y + 1
  <2>1. Pow2[m] - 1 \in Nat /\ Pow2[m] = (Pow2[m] - 1) + 1 BY <1>3
  <2> QED BY <1>3, <2>1
<1>5. Pow2[u + m] = x * (y + 1) /\ Pow2[u + m + 1] = 2 * Pow2[u + m]
  <2>1. Pow2[u + m] = Pow2[u] * Pow2[m] BY <1>1, Pow2Sum
  <2>2. Pow2[u + m + 1] = 2 * Pow2[u + m] BY <1>1, Pow2Values
  <2> QED BY <1>4, <2>1, <2>2
<1>6. x * (y + 1) = x * y + x /\ x * y \in Nat /\ (2 * (y + 1) - 1) * x = 2 * (x * y) + x
  OBVIOUS
<1>7. mask \in Nat /\ Pow2[u + m] <= mask /\ mask < Pow2[u + m + 1]
  BY <1>2, <1>4, <1>5, <1>6
<1>8. u + m \in 0 .. 62 BY <1>1
<1>9. mask > 0 /\ LogFloor(mask) = u + m BY <1>7, <1>8, LogFloorOf
<1> QED BY <1>9 DEF BitLength, u, m, mask

\* A value has a bucket and a sub bucket, and the code finds them.
LEMMA Locate ==
  ASSUME NEW c, ConfigOK(c), NEW value \in Nat, value < Pow2[63]
  PROVE  /\ get_bucket_index(c, value) \in Nat
         /\ Located(c, value, get_bucket_index(c, value),
                    get_sub_bucket_index(value, get_bucket_index(c, value), c.unit_magnitude))
<1> DEFINE u == c.unit_magnitude
           m == c.sub_bucket_half_count_magnitude
           L == BitLength(value)
           M == u + m + 1
           b == get_bucket_index(c, value)
           s == get_sub_bucket_index(value, b, u)
<1>1. u \in Nat /\ m \in Nat /\ u + m <= 62 BY DEF ConfigOK
<1>2. b = Larger(L, M) - u - (m + 1) BY MaskLength DEF get_bucket_index
<1>3. s = value \div Pow2[b + u] BY DEF get_sub_bucket_index
<1>4. L \in Nat /\ value < Pow2[L] /\ (L > M => Pow2[L - 1] <= value)
  <2>1. CASE value = 0
    <3>1. L = 0 BY <2>1 DEF BitLength
    <3> QED BY <1>1, <2>1, <3>1, Pow2Values
  <2>2. CASE value # 0
    <3>1. PICK f : f = LogFloor(value) OBVIOUS
    <3>2. f \in 0 .. 62 /\ Pow2[f] <= value /\ value < Pow2[f + 1] BY <2>2, <3>1, LogFloorIs
    <3>3. L = f + 1 /\ L - 1 = f BY <2>2, <3>1, <3>2 DEF BitLength
    <3> QED BY <3>2, <3>3
  <2> QED BY <2>1, <2>2
<1> HIDE DEF u, m, L, b, s
<1>5. /\ b \in Nat /\ value < Pow2[b + u + m + 1]
      /\ b > 0 => Pow2[b + u + m] <= value
  <2>1. CASE L > M
    <3>1. b = L - M /\ b + u + m + 1 = L /\ b + u + m = L - 1
      BY <1>1, <1>2, <1>4, <2>1 DEF Larger
    <3> QED BY <1>1, <1>4, <2>1, <3>1
  <2>2. CASE ~ (L > M)
    <3>1. b = 0 /\ b + u + m + 1 = M /\ M \in Nat BY <1>1, <1>2, <1>4, <2>2 DEF Larger
    <3>2. Pow2[L] <= Pow2[M] /\ Pow2[L] \in Nat /\ Pow2[M] \in Nat
      BY <1>4, <2>2, <3>1, Pow2Monotone, Pow2Type
    <3> QED BY <1>4, <3>1, <3>2
  <2> QED BY <2>1, <2>2
<1>6. PICK w \in Nat, h \in Nat : w = Pow2[b + u] /\ h = Pow2[m] /\ w > 0 /\ h > 0
  <2>1. b + u \in Nat BY <1>1, <1>5
  <2> QED BY <1>1, <2>1, Pow2Type
<1>7. Pow2[b + u + m] = w * h /\ Pow2[b + u + m + 1] = 2 * (w * h)
  <2>1. b + u \in Nat /\ b + u + m \in Nat BY <1>1, <1>5
  <2>2. Pow2[(b + u) + m] = Pow2[b + u] * Pow2[m] BY <1>1, <2>1, Pow2Sum
  <2>3. Pow2[(b + u + m) + 1] = 2 * Pow2[b + u + m] BY <2>1, Pow2Values
  <2> QED BY <1>6, <2>2, <2>3
<1>8. s = value \div w BY <1>3, <1>6
<1>9. s \in Nat /\ s * w <= value /\ value < (s + 1) * w
  <2>1. w \in Nat /\ w > 0 BY <1>6
  <2>2. PICK r \in 0 .. w - 1 : value = w * (value \div w) + r BY <2>1
  <2>3. value \div w \in Nat BY <2>1
  <2>4. s * w = w * s /\ (s + 1) * w = w * s + w BY <1>8, <2>1, <2>3
  <2> QED BY <1>8, <2>1, <2>2, <2>3, <2>4
<1>10. s < 2 * h
  <2> SUFFICES ASSUME s >= 2 * h PROVE FALSE BY <1>6, <1>9
  <2>1. PICK d \in Nat : s = 2 * h + d
    <3>1. s - 2 * h \in Nat /\ s = 2 * h + (s - 2 * h) BY <1>9
    <3> QED BY <3>1
  <2>2. s * w = 2 * (w * h) + d * w /\ d * w \in Nat BY <2>1
  <2>3. w * h \in Nat BY <1>6
  <2> QED BY <1>5, <1>7, <1>9, <2>2, <2>3
<1>11. b > 0 => s >= h
  <2> SUFFICES ASSUME b > 0, s < h PROVE FALSE BY <1>6, <1>9
  <2>0. PICK t \in Nat : t = s BY <1>9
  <2>1. PICK d \in Nat : h = t + 1 + d
    <3>1. h - (t + 1) \in Nat /\ h = t + 1 + (h - (t + 1)) BY <2>0
    <3> QED BY <3>1
  <2>2. w * h = (t + 1) * w + d * w /\ d * w \in Nat /\ (t + 1) * w \in Nat
    <3>1. w * (t + 1 + d) = (t + 1) * w + d * w OBVIOUS
    <3> QED BY <2>1, <3>1
  <2> QED BY <1>5, <1>7, <1>9, <2>0, <2>2
<1>12. Located(c, value, b, s) BY <1>5, <1>6, <1>9, <1>10, <1>11 DEF Located, u, m
<1> QED BY <1>5, <1>12 DEF u, b, s
\* Quotient and remainder are those of the only such decomposition.
LEMMA QuotientOf ==
  ASSUME NEW h \in Nat \ {0}, NEW q \in Nat, NEW r \in 0 .. h - 1, NEW n, n = q * h + r
  PROVE  n \in Nat /\ n \div h = q /\ n % h = r
<1>1. q * h \in Nat /\ n \in Nat OBVIOUS
<1>2. n = h * (n \div h) + (n % h) /\ n \div h \in Nat /\ n % h \in 0 .. h - 1 BY <1>1
<1>3. PICK d \in Nat, e \in 0 .. h - 1 : d = n \div h /\ e = n % h BY <1>2
<1>4. h * d + e = h * q + r BY <1>2, <1>3
<1>5. d = q
  <2>1. CASE d < q
    <3>1. PICK x \in Nat : q = d + 1 + x
      <4>1. q - d - 1 \in Nat /\ q = d + 1 + (q - d - 1) BY <2>1
      <4> QED BY <4>1
    <3>2. h * (d + 1 + x) = h * d + h + h * x /\ h * x \in Nat /\ h * d \in Nat OBVIOUS
    <3> QED BY <1>4, <3>1, <3>2
  <2>2. CASE q < d
    <3>1. PICK x \in Nat : d = q + 1 + x
      <4>1. d - q - 1 \in Nat /\ d = q + 1 + (d - q - 1) BY <2>2
      <4> QED BY <4>1
    <3>2. h * (q + 1 + x) = h * q + h + h * x /\ h * x \in Nat /\ h * q \in Nat OBVIOUS
    <3> QED BY <1>4, <3>1, <3>2
  <2> QED BY <2>1, <2>2
<1> QED BY <1>1, <1>3, <1>4, <1>5

\* Products with a positive factor keep the order.
LEMMA ProductMonotone ==
  ASSUME NEW a \in Nat, NEW b \in Nat, NEW w \in Nat, a <= b
  PROVE  a * w \in Nat /\ b * w \in Nat /\ a * w <= b * w /\ (a < b /\ w > 0 => a * w < b * w)
<1>1. PICK d \in Nat : b = a + d
  <2>1. b - a \in Nat /\ b = a + (b - a) OBVIOUS
  <2> QED BY <2>1
<1>2. (a + d) * w = a * w + d * w /\ a * w \in Nat /\ d * w \in Nat OBVIOUS
<1>3. d > 0 /\ w > 0 => d * w > 0 OBVIOUS
<1> QED BY <1>1, <1>2, <1>3

\* The values of a bucket lie between two powers of two.
LEMMA BucketBounds ==
  ASSUME NEW c, ConfigOK(c), NEW value \in Nat, NEW b, NEW s, Located(c, value, b, s)
  PROVE  LET E == b + c.unit_magnitude + c.sub_bucket_half_count_magnitude
         IN  E \in Nat /\ value < Pow2[E + 1] /\ (b > 0 => Pow2[E] <= value)
<1> DEFINE u == c.unit_magnitude
           m == c.sub_bucket_half_count_magnitude
<1>1. u \in Nat /\ m \in Nat BY DEF ConfigOK
<1>2. b \in Nat /\ s \in Nat /\ s < 2 * Pow2[m] /\ (b > 0 => s >= Pow2[m])
      /\ s * Pow2[b + u] <= value /\ value < (s + 1) * Pow2[b + u]
  BY DEF Located
<1> HIDE DEF u, m
<1>3. b + u \in Nat /\ b + u + m \in Nat BY <1>1, <1>2
<1>4. PICK w \in Nat, h \in Nat : w = Pow2[b + u] /\ h = Pow2[m] BY <1>1, <1>3, Pow2Type
<1>5. Pow2[b + u + m] = w * h
  <2>1. Pow2[(b + u) + m] = Pow2[b + u] * Pow2[m] BY <1>1, <1>3, Pow2Sum
  <2> QED BY <1>4, <2>1
<1>6. Pow2[b + u + m + 1] = 2 * (w * h) BY <1>3, <1>5, Pow2Values
<1>7. (s + 1) * w <= (2 * h) * w
  <2>1. s + 1 \in Nat /\ 2 * h \in Nat /\ s + 1 <= 2 * h BY <1>2, <1>4
  <2> QED BY <2>1, ProductMonotone
<1>8. (2 * h) * w = 2 * (w * h) /\ w * h \in Nat /\ h * w = w * h OBVIOUS
<1>9. value < Pow2[b + u + m + 1]
  <2>1. (s + 1) * w \in Nat BY <1>2
  <2> QED BY <1>2, <1>4, <1>6, <1>7, <1>8, <2>1
<1>10. ASSUME b > 0 PROVE Pow2[b + u + m] <= value
  <2>1. h <= s /\ h \in Nat /\ s \in Nat BY <1>2, <1>4, <1>10
  <2>2. h * w <= s * w /\ s * w \in Nat BY <2>1, ProductMonotone
  <2> QED BY <1>2, <1>4, <1>5, <1>8, <2>2
<1> QED BY <1>3, <1>9, <1>10 DEF u, m

\* Larger values are in later buckets, or in later sub buckets of theirs.
LEMMA LocatedInOrder ==
  ASSUME NEW c, ConfigOK(c), NEW v \in Nat, NEW w \in Nat, v <= w,
         NEW b, NEW s, Located(c, v, b, s), NEW d, NEW t, Located(c, w, d, t)
  PROVE  b < d \/ (b = d /\ s <= t)
<1> DEFINE u == c.unit_magnitude
           m == c.sub_bucket_half_count_magnitude
<1>1. u \in Nat /\ m \in Nat BY DEF ConfigOK
<1>2. b \in Nat /\ d \in Nat /\ s \in Nat /\ t \in Nat BY DEF Located
<1>3. ~ (b > d)
  <2> SUFFICES ASSUME b > d PROVE FALSE OBVIOUS
  <2>1. Pow2[b + u + m] <= v /\ w < Pow2[d + u + m + 1] BY <1>2, BucketBounds
  <2>2. d + u + m + 1 <= b + u + m /\ d + u + m + 1 \in Nat /\ b + u + m \in Nat BY <1>1, <1>2
  <2> HIDE DEF u, m
  <2>3. Pow2[d + u + m + 1] <= Pow2[b + u + m]
    <3> DEFINE x == d + u + m + 1
               y == b + u + m
    <3>1. x \in Nat /\ y \in Nat /\ x <= y BY <2>2
    <3> HIDE DEF x, y
    <3>2. Pow2[x] <= Pow2[y] BY <3>1, Pow2Monotone
    <3> QED BY <3>2 DEF x, y
  <2>4. Pow2[d + u + m + 1] \in Nat /\ Pow2[b + u + m] \in Nat BY <2>2, Pow2Type
  <2> QED BY <2>1, <2>3, <2>4
<1>4. ASSUME b = d, s > t PROVE FALSE
  <2>1. PICK x \in Nat : x = Pow2[b + u]
    <3>1. b + u \in Nat BY <1>1, <1>2
    <3> QED BY <3>1, Pow2Type
  <2>2. s * x <= v /\ w < (t + 1) * x BY <1>4, <2>1 DEF Located
  <2>3. t + 1 \in Nat /\ t + 1 <= s BY <1>2, <1>4
  <2>4. (t + 1) * x <= s * x /\ (t + 1) * x \in Nat /\ s * x \in Nat BY <1>2, <2>3, ProductMonotone
  <2> QED BY <2>2, <2>4
<1> QED BY <1>2, <1>3, <1>4

\* A value is in one place only.
LEMMA LocatedOnce ==
  ASSUME NEW c, ConfigOK(c), NEW v \in Nat,
         NEW b, NEW s, Located(c, v, b, s), NEW d, NEW t, Located(c, v, d, t)
  PROVE  b = d /\ s = t
<1>1. b \in Nat /\ d \in Nat /\ s \in Nat /\ t \in Nat BY DEF Located
<1>2. b < d \/ (b = d /\ s <= t) BY LocatedInOrder
<1>3. d < b \/ (d = b /\ t <= s) BY LocatedInOrder
<1> QED BY <1>1, <1>2, <1>3

\* The index of sub bucket s of bucket b
PlaceOf(c, b, s) == b * Pow2[c.sub_bucket_half_count_magnitude] + s

\* An index stands for one sub bucket, whose first value hdr_value_at_index returns.
LEMMA PlaceDecoded ==
  ASSUME NEW c, ConfigOK(c), NEW value, NEW b, NEW s, Located(c, value, b, s)
  PROVE  LET i == PlaceOf(c, b, s)
             q == i \div Pow2[c.sub_bucket_half_count_magnitude]
         IN  /\ i \in Nat
             /\ b = (IF q = 0 THEN 0 ELSE q - 1)
             /\ hdr_value_at_index(c, i) = s * Pow2[b + c.unit_magnitude]
             /\ i \in Indices(c) <=> b < c.bucket_count
<1> DEFINE i == PlaceOf(c, b, s)
           m == c.sub_bucket_half_count_magnitude
           u == c.unit_magnitude
           B == c.bucket_count
<1>1. /\ m \in Nat /\ u \in Nat /\ B \in Nat /\ B # 0
      /\ c.sub_bucket_half_count = Pow2[m] /\ c.counts_len = (B + 1) * Pow2[m]
  BY DEF ConfigOK
<1>2. PICK h \in Nat \ {0} : h = Pow2[m] BY <1>1, Pow2Type
<1>3. b \in Nat /\ s \in Nat /\ s < 2 * h /\ (b > 0 => s >= h) BY <1>2 DEF Located
<1>4. i = b * h + s BY <1>2 DEF PlaceOf
<1>5. hdr_value_at_index(c, i) =
        IF i \div h - 1 < 0 THEN (i % h) * Pow2[0 + u]
        ELSE ((i % h) + h) * Pow2[i \div h - 1 + u]
  BY <1>1, <1>2 DEF hdr_value_at_index, value_from_index
<1>6. i \in Indices(c) <=> i \in 0 .. (B + 1) * h - 1 BY <1>1, <1>2 DEF Indices
<1> HIDE DEF i, m, u, B
<1>7. CASE s < h
  <2>1. b = 0 /\ i = 0 * h + s /\ s \in 0 .. h - 1 BY <1>2, <1>3, <1>4, <1>7
  <2>2. i \in Nat /\ i \div h = 0 /\ i % h = s
    <3>1. 0 \in Nat OBVIOUS
    <3> QED BY <2>1, <3>1, QuotientOf
  <2>3. (B + 1) * h >= h /\ (B + 1) * h \in Nat
    <3>1. (B + 1) * h = h + B * h /\ B * h \in Nat BY <1>1
    <3> QED BY <3>1
  <2>4. i \in Indices(c) /\ b < B BY <1>1, <1>6, <1>7, <2>1, <2>2, <2>3
  <2>5. hdr_value_at_index(c, i) = s * Pow2[b + u] BY <1>1, <1>5, <2>1, <2>2
  <2>6. b = (IF i \div h = 0 THEN 0 ELSE i \div h - 1) BY <2>1, <2>2
  <2> QED BY <1>2, <2>2, <2>4, <2>5, <2>6 DEF i, m, u, B
<1>8. CASE s >= h
  <2>1. s - h \in 0 .. h - 1 /\ b + 1 \in Nat BY <1>3, <1>8
  <2>2. i = (b + 1) * h + (s - h)
    <3>1. (b + 1) * h = b * h + h /\ b * h \in Nat BY <1>3
    <3> QED BY <1>3, <1>4, <3>1
  <2>3. i \in Nat /\ i \div h = b + 1 /\ i % h = s - h BY <2>1, <2>2, QuotientOf
  <2>4. i \in Indices(c) <=> b < B
    <3>1. CASE b < B
      <4>1. b + 2 \in Nat /\ B + 1 \in Nat /\ b + 2 <= B + 1 BY <1>1, <1>3, <3>1
      <4>2. (b + 2) * h <= (B + 1) * h /\ (B + 1) * h \in Nat /\ (b + 2) * h \in Nat
        BY <4>1, ProductMonotone
      <4>3. (b + 2) * h = (b + 1) * h + h /\ (b + 1) * h \in Nat BY <1>3
      <4> QED BY <1>3, <1>6, <2>1, <2>2, <2>3, <3>1, <4>2, <4>3
    <3>2. CASE ~ (b < B)
      <4>1. b + 1 \in Nat /\ B + 1 \in Nat /\ B + 1 <= b + 1 BY <1>1, <1>3, <3>2
      <4>2. (B + 1) * h <= (b + 1) * h /\ (B + 1) * h \in Nat /\ (b + 1) * h \in Nat
        BY <4>1, ProductMonotone
      <4> QED BY <1>6, <2>1, <2>2, <3>2, <4>2
    <3> QED BY <3>1, <3>2
  <2>5. hdr_value_at_index(c, i) = s * Pow2[b + u]
    <3>1. ~ (i \div h - 1 < 0) /\ (i % h) + h = s /\ i \div h - 1 + u = b + u BY <1>1, <1>3, <2>3
    <3> QED BY <1>5, <3>1
  <2>6. b = (IF i \div h = 0 THEN 0 ELSE i \div h - 1) BY <1>3, <2>3
  <2> QED BY <1>2, <2>3, <2>4, <2>5, <2>6 DEF i, m, u, B
<1>9. s < h \/ s >= h BY <1>2, <1>3
<1> QED BY <1>7, <1>8, <1>9
\* The values covered fit 63 bits.
LEMMA TopBounds ==
  ASSUME NEW c, ConfigOK(c)
  PROVE  Top(c) \in Nat /\ Top(c) <= Pow2[63] /\ Pow2[63] \in Nat
<1> DEFINE E == c.unit_magnitude + c.sub_bucket_half_count_magnitude + c.bucket_count
<1>1. E \in Nat /\ E <= 63 /\ 63 \in Nat BY DEF ConfigOK
<1> HIDE DEF E
<1>2. Pow2[E] <= Pow2[63] /\ Pow2[E] \in Nat /\ Pow2[63] \in Nat BY <1>1, Pow2Monotone, Pow2Type
<1> QED BY <1>2 DEF Top, E

\* The values below Top are those of the buckets there are.
LEMMA LocatedBelowTop ==
  ASSUME NEW c, ConfigOK(c), NEW value \in Nat, NEW b, NEW s, Located(c, value, b, s)
  PROVE  value < Top(c) <=> b < c.bucket_count
<1> DEFINE k == c.unit_magnitude + c.sub_bucket_half_count_magnitude
           B == c.bucket_count
           E == b + c.unit_magnitude + c.sub_bucket_half_count_magnitude
<1>1. k \in Nat /\ B \in Nat /\ B # 0 /\ b \in Nat /\ E \in Nat /\ E = b + k BY DEF ConfigOK, Located
<1>2. value < Pow2[E + 1] /\ (b > 0 => Pow2[E] <= value) BY BucketBounds
<1>3. Top(c) = Pow2[k + B] BY DEF Top
<1> HIDE DEF k, B, E
<1>4. k + B \in Nat /\ E + 1 \in Nat BY <1>1
<1>5. Pow2[k + B] \in Nat /\ Pow2[E] \in Nat /\ Pow2[E + 1] \in Nat BY <1>1, <1>4, Pow2Type
<1>6. CASE b < B
  <2>1. E + 1 <= k + B BY <1>1, <1>6
  <2>2. Pow2[E + 1] <= Pow2[k + B] BY <1>4, <2>1, Pow2Monotone
  <2>3. value < Pow2[k + B] BY <1>2, <1>5, <2>2
  <2> QED BY <1>3, <1>6, <2>3 DEF B
<1>7. CASE ~ (b < B)
  <2>1. k + B <= E /\ b > 0 BY <1>1, <1>7
  <2>2. Pow2[k + B] <= Pow2[E] BY <1>1, <1>4, <2>1, Pow2Monotone
  <2>3. ~ (value < Pow2[k + B]) BY <1>2, <1>5, <2>1, <2>2
  <2> QED BY <1>3, <1>7, <2>3 DEF B
<1> QED BY <1>6, <1>7

\* What the functions of the code return for a value, from its bucket and sub bucket.
LEMMA LocatedResults ==
  ASSUME NEW c, ConfigOK(c), NEW value \in Nat, value < Pow2[63],
         NEW b, NEW s, Located(c, value, b, s)
  PROVE  /\ b \in Nat /\ s \in Nat /\ b + c.unit_magnitude \in Nat
         /\ counts_index_for(c, value) = PlaceOf(c, b, s)
         /\ lowest_equivalent_value(c, value) = s * Pow2[b + c.unit_magnitude]
         /\ hdr_size_of_equivalent_value_range(c, value) = Pow2[b + c.unit_magnitude]
<1> DEFINE m == c.sub_bucket_half_count_magnitude
           u == c.unit_magnitude
<1>1. /\ m \in Nat /\ u \in Nat /\ c.sub_bucket_half_count = Pow2[m]
      /\ c.sub_bucket_count = 2 * Pow2[m]
  BY DEF ConfigOK
<1>2. b = get_bucket_index(c, value) /\ s = get_sub_bucket_index(value, b, u)
  <2>1. PICK d, t : d = get_bucket_index(c, value) /\ t = get_sub_bucket_index(value, d, u)
    OBVIOUS
  <2>2. Located(c, value, d, t) BY <2>1, Locate
  <2>3. b = d /\ s = t BY <2>2, LocatedOnce
  <2> QED BY <2>1, <2>3
<1>3. PICK h \in Nat \ {0} : h = Pow2[m] BY <1>1, Pow2Type
<1>4. b \in Nat /\ s \in Nat /\ s < 2 * h BY <1>3 DEF Located
<1>5. counts_index_for(c, value) = (b + 1) * h + (s - h)
  BY <1>1, <1>2, <1>3 DEF counts_index_for, counts_index
<1>6. (b + 1) * h + (s - h) = b * h + s
  <2>1. (b + 1) * h = b * h + h /\ b * h \in Nat BY <1>4
  <2> QED BY <1>4, <2>1
<1>7. lowest_equivalent_value(c, value) = s * Pow2[b + u]
  BY <1>2 DEF lowest_equivalent_value, value_from_index
<1>8. hdr_size_of_equivalent_value_range(c, value) = Pow2[u + b]
  BY <1>1, <1>2, <1>3, <1>4 DEF hdr_size_of_equivalent_value_range
<1>9. u + b = b + u BY <1>1, <1>4
<1> HIDE DEF u, m
<1>10. counts_index_for(c, value) = PlaceOf(c, b, s)
  BY <1>3, <1>5, <1>6 DEF PlaceOf, m
<1>11. b + u \in Nat BY <1>1, <1>4
<1> QED BY <1>4, <1>7, <1>8, <1>9, <1>10, <1>11 DEF u

\* A value and its index.
LEMMA IndexOfValue ==
  ASSUME NEW c, ConfigOK(c), NEW value \in Nat, value < Pow2[63]
  PROVE  LET i   == counts_index_for(c, value)
             low == lowest_equivalent_value(c, value)
         IN  /\ i \in Nat
             /\ i \in Indices(c) <=> value < Top(c)
             /\ hdr_value_at_index(c, i) = low
             /\ low \in Nat /\ low <= value
             /\ hdr_size_of_equivalent_value_range(c, value) \in Nat \ {0}
             /\ value < low + hdr_size_of_equivalent_value_range(c, value)
             /\ highest_equivalent_value(c, value)
                  = low + hdr_size_of_equivalent_value_range(c, value) - 1
             /\ highest_equivalent_value(c, value) \in Nat
<1>1. PICK b, s : Located(c, value, b, s) BY Locate
<1>2. /\ b \in Nat /\ s \in Nat /\ b + c.unit_magnitude \in Nat
      /\ counts_index_for(c, value) = PlaceOf(c, b, s)
      /\ lowest_equivalent_value(c, value) = s * Pow2[b + c.unit_magnitude]
      /\ hdr_size_of_equivalent_value_range(c, value) = Pow2[b + c.unit_magnitude]
  BY <1>1, LocatedResults
<1>3. PICK w \in Nat \ {0} : w = Pow2[b + c.unit_magnitude] BY <1>2, Pow2Type
<1>4. s * w \in Nat /\ s * w <= value /\ value < s * w + w
  <2>1. s * w <= value /\ value < (s + 1) * w BY <1>1, <1>3 DEF Located
  <2>2. (s + 1) * w = s * w + w /\ s * w \in Nat BY <1>2
  <2> QED BY <2>1, <2>2
<1>5. /\ PlaceOf(c, b, s) \in Nat
      /\ hdr_value_at_index(c, PlaceOf(c, b, s)) = s * Pow2[b + c.unit_magnitude]
      /\ PlaceOf(c, b, s) \in Indices(c) <=> b < c.bucket_count
  BY <1>1, PlaceDecoded
<1>6. value < Top(c) <=> b < c.bucket_count BY <1>1, LocatedBelowTop
<1>7. highest_equivalent_value(c, value) = s * w + w - 1 /\ s * w + w - 1 \in Nat
  BY <1>2, <1>3, <1>4 DEF highest_equivalent_value, hdr_next_non_equivalent_value
<1> QED BY <1>2, <1>3, <1>4, <1>5, <1>6, <1>7

\* Values of the same index are equivalent.
LEMMA SameIndex ==
  ASSUME NEW c, ConfigOK(c), NEW v \in Nat, v < Pow2[63], NEW w \in Nat, w < Pow2[63],
         counts_index_for(c, v) = counts_index_for(c, w)
  PROVE  /\ lowest_equivalent_value(c, v) = lowest_equivalent_value(c, w)
         /\ hdr_size_of_equivalent_value_range(c, v) = hdr_size_of_equivalent_value_range(c, w)
         /\ highest_equivalent_value(c, v) = highest_equivalent_value(c, w)
<1>1. PICK b, s : Located(c, v, b, s) BY Locate
<1>2. PICK d, t : Located(c, w, d, t) BY Locate
<1>3. /\ counts_index_for(c, v) = PlaceOf(c, b, s)
      /\ hdr_size_of_equivalent_value_range(c, v) = Pow2[b + c.unit_magnitude]
  BY <1>1, LocatedResults
<1>4. /\ counts_index_for(c, w) = PlaceOf(c, d, t)
      /\ hdr_size_of_equivalent_value_range(c, w) = Pow2[d + c.unit_magnitude]
  BY <1>2, LocatedResults
<1>5. PICK q : q = PlaceOf(c, b, s) \div Pow2[c.sub_bucket_half_count_magnitude] OBVIOUS
<1>6. b = (IF q = 0 THEN 0 ELSE q - 1) BY <1>1, <1>5, PlaceDecoded
<1>7. d = (IF q = 0 THEN 0 ELSE q - 1)
  <2>1. PlaceOf(c, b, s) = PlaceOf(c, d, t) BY <1>3, <1>4
  <2>2. q = PlaceOf(c, d, t) \div Pow2[c.sub_bucket_half_count_magnitude] BY <1>5, <2>1
  <2> QED BY <1>2, <2>2, PlaceDecoded
<1>8. hdr_size_of_equivalent_value_range(c, v) = hdr_size_of_equivalent_value_range(c, w)
  BY <1>3, <1>4, <1>6, <1>7
<1>9. lowest_equivalent_value(c, v) = lowest_equivalent_value(c, w)
  BY IndexOfValue
<1> QED BY <1>8, <1>9 DEF highest_equivalent_value, hdr_next_non_equivalent_value

\* Larger values have larger indices, or the same.
LEMMA IndexMonotone ==
  ASSUME NEW c, ConfigOK(c), NEW v \in Nat, NEW w \in Nat, v <= w, w < Pow2[63]
  PROVE  counts_index_for(c, v) <= counts_index_for(c, w)
<1>0. v < Pow2[63]
  <2>1. Pow2[63] \in Nat BY Pow2Type
  <2> QED BY <2>1
<1>1. PICK b, s : Located(c, v, b, s) BY <1>0, Locate
<1>2. PICK d, t : Located(c, w, d, t) BY Locate
<1>3. counts_index_for(c, v) = PlaceOf(c, b, s) BY <1>0, <1>1, LocatedResults
<1>4. counts_index_for(c, w) = PlaceOf(c, d, t) BY <1>2, LocatedResults
<1>5. b < d \/ (b = d /\ s <= t) BY <1>1, <1>2, LocatedInOrder
<1>6. PICK h \in Nat \ {0} : h = Pow2[c.sub_bucket_half_count_magnitude]
  BY Pow2Type DEF ConfigOK
<1>7. b \in Nat /\ s \in Nat /\ s < 2 * h /\ d \in Nat /\ t \in Nat /\ (d > 0 => t >= h)
  BY <1>1, <1>2, <1>6 DEF Located
<1>8. b * h \in Nat /\ d * h \in Nat BY <1>7
<1>9. b * h + s <= d * h + t
  <2>1. CASE b < d
    <3>1. b + 1 \in Nat /\ b + 1 <= d BY <1>7, <2>1
    <3>2. (b + 1) * h <= d * h BY <1>7, <3>1, ProductMonotone
    <3>3. (b + 1) * h = b * h + h BY <1>7
    <3> QED BY <1>7, <1>8, <2>1, <3>2, <3>3
  <2>2. CASE b = d /\ s <= t BY <1>7, <1>8, <2>2
  <2> QED BY <1>5, <2>1, <2>2
<1> QED BY <1>3, <1>4, <1>6, <1>9 DEF PlaceOf

\* The first value of an index has that index.
LEMMA ValueOfIndex ==
  ASSUME NEW c, ConfigOK(c), NEW i \in Indices(c)
  PROVE  /\ hdr_value_at_index(c, i) \in Nat /\ hdr_value_at_index(c, i) < Top(c)
         /\ counts_index_for(c, hdr_value_at_index(c, i)) = i
<1> DEFINE m == c.sub_bucket_half_count_magnitude
           u == c.unit_magnitude
           B == c.bucket_count
<1>1. m \in Nat /\ u \in Nat /\ B \in Nat /\ B # 0 /\ c.counts_len = (B + 1) * Pow2[m]
  BY DEF ConfigOK
<1>2. PICK h \in Nat \ {0} : h = Pow2[m] BY <1>1, Pow2Type
<1>3. i \in 0 .. (B + 1) * h - 1 BY <1>1, <1>2 DEF Indices
<1>3a. (B + 1) * h \in Nat BY <1>1
<1>4. i \in Nat /\ i < (B + 1) * h BY <1>3, <1>3a
<1>5. i = h * (i \div h) + (i % h) /\ i \div h \in Nat /\ i % h \in 0 .. h - 1 BY <1>4
<1>6. PICK q \in Nat, r \in 0 .. h - 1 : q = i \div h /\ r = i % h BY <1>5
<1>7. i = q * h + r
  <2>1. h * q = q * h BY <1>6
  <2> QED BY <1>5, <1>6, <2>1
<1> HIDE DEF m, u, B
<1>8. PICK b \in Nat, s \in Nat :
        /\ s < 2 * h /\ (b > 0 => s >= h) /\ i = b * h + s
  <2>1. CASE q = 0
    <3>1. r \in Nat /\ r < 2 * h /\ i = 0 * h + r BY <1>7, <2>1
    <3> QED BY <3>1
  <2>2. CASE q # 0
    <3>1. q - 1 \in Nat /\ r + h \in Nat /\ r + h < 2 * h /\ r + h >= h BY <2>2
    <3>2. i = (q - 1) * h + (r + h)
      <4>1. PICK p \in Nat : p = q - 1 /\ q = p + 1 BY <2>2
      <4>2. (p + 1) * h = p * h + h /\ p * h \in Nat OBVIOUS
      <4> QED BY <1>7, <4>1, <4>2
    <3> QED BY <3>1, <3>2
  <2> QED BY <2>1, <2>2
<1>9. PICK w \in Nat \ {0} : w = Pow2[b + u]
  <2>1. b + u \in Nat BY <1>1
  <2> QED BY <2>1, Pow2Type
<1>10. PICK v \in Nat : v = s * w
  <2>1. s * w \in Nat OBVIOUS
  <2> QED BY <2>1
<1>11. v < (s + 1) * w
  <2>1. (s + 1) * w = s * w + w /\ s * w \in Nat OBVIOUS
  <2> QED BY <1>10, <2>1
<1>12. s * w <= v BY <1>10
<1>13. Located(c, v, b, s) BY <1>2, <1>8, <1>9, <1>11, <1>12 DEF Located, m, u
<1>14. i = PlaceOf(c, b, s) BY <1>2, <1>8 DEF PlaceOf, m
<1>15. b < B /\ hdr_value_at_index(c, i) = v
  BY <1>9, <1>10, <1>13, <1>14, PlaceDecoded DEF u, B
<1>16. v < Top(c) BY <1>13, <1>15, LocatedBelowTop DEF B
<1>17. v < Pow2[63] BY <1>16, TopBounds
<1>18. counts_index_for(c, v) = i BY <1>13, <1>14, <1>17, LocatedResults
<1> QED BY <1>15, <1>16, <1>18
\* The mask of the sub buckets fits in an int64_t.
MaskFits(lowest, figures) == LogFloor(lowest) + SubBucketHalfCountMagnitude(figures) <= 61

\* The integers have 63 bits for the value at most.
LEMMA WidthBound == INT64_MAX \in Nat \ {0} /\ INT64_MAX < Pow2[63]
<1>1. PICK w \in 1 .. 63 : INT64_MAX < Pow2[w] BY WidthAssumption
<1>2. w \in Nat /\ w <= 63 /\ 63 \in Nat BY <1>1
<1>3. Pow2[w] <= Pow2[63] /\ Pow2[w] \in Nat /\ Pow2[63] \in Nat BY <1>2, Pow2Monotone, Pow2Type
<1> QED BY <1>1, <1>3, WidthAssumption

\* The figures give the size of a half bucket.
LEMMA HalfCount ==
  ASSUME NEW figures \in 1 .. 5
  PROVE  /\ SubBucketHalfCountMagnitude(figures) \in Nat
         /\ 10^figures \in Nat
         /\ 10^figures <= Pow2[SubBucketHalfCountMagnitude(figures)]
<1> DEFINE n == 2 * 10^figures
           m == SubBucketHalfCountMagnitude(figures)
<1>1. 10^figures \in Nat /\ 10^figures <= 100000
  <2>1. 10^1 = 10 /\ 10^2 = 100 /\ 10^3 = 1000 /\ 10^4 = 10000 /\ 10^5 = 100000 OBVIOUS
  <2>2. figures = 1 \/ figures = 2 \/ figures = 3 \/ figures = 4 \/ figures = 5 OBVIOUS
  <2>3. figures = 1 => 10^figures = 10^1 OBVIOUS
  <2>4. figures = 2 => 10^figures = 10^2 OBVIOUS
  <2>5. figures = 3 => 10^figures = 10^3 OBVIOUS
  <2>6. figures = 4 => 10^figures = 10^4 OBVIOUS
  <2>7. figures = 5 => 10^figures = 10^5 OBVIOUS
  <2>8. 10^figures \in {10, 100, 1000, 10000, 100000}
    BY <2>1, <2>2, <2>3, <2>4, <2>5, <2>6, <2>7
  <2> QED BY <2>8
<1>2. n \in Nat /\ n <= 200000 BY <1>1
<1>3. Pow2[18] = 262144
  <2>1. \A k \in Nat : Pow2[k + 1] = 2 * Pow2[k] BY Pow2Values
  <2>2. /\ Pow2[0 + 1] = 2 * Pow2[0] /\ Pow2[1 + 1] = 2 * Pow2[1] /\ Pow2[2 + 1] = 2 * Pow2[2]
        /\ Pow2[3 + 1] = 2 * Pow2[3] /\ Pow2[4 + 1] = 2 * Pow2[4] /\ Pow2[5 + 1] = 2 * Pow2[5]
    BY <2>1
  <2>3. Pow2[6] = 64 BY <2>2, Pow2Values
  <2>4. Pow2[6 + 6] = 64 * 64
    <3>1. Pow2[6 + 6] = Pow2[6] * Pow2[6] BY Pow2Sum
    <3> QED BY <2>3, <3>1
  <2>5. Pow2[12 + 6] = Pow2[12] * Pow2[6] BY Pow2Sum
  <2> QED BY <2>3, <2>4, <2>5
<1>4. Pow2[18] <= Pow2[62] /\ Pow2[62] \in Nat BY Pow2Monotone, Pow2Type
<1> HIDE DEF n
<1>5. n < Pow2[62] BY <1>2, <1>3, <1>4
<1>6. PICK l \in 0 .. 62 : l = LogCeil(n) /\ n <= Pow2[l] BY <1>2, <1>5, LogCeilIs
<1>7. m = Larger(l, 1) - 1 BY <1>6 DEF SubBucketHalfCountMagnitude, n
<1>8. m \in Nat /\ l <= m + 1 /\ m + 1 \in Nat BY <1>7 DEF Larger
<1>9. Pow2[l] <= Pow2[m + 1] /\ Pow2[l] \in Nat BY <1>8, Pow2Monotone, Pow2Type
<1>10. Pow2[m + 1] = 2 * Pow2[m] /\ Pow2[m] \in Nat BY <1>8, Pow2Values, Pow2Type
<1>11. n <= 2 * Pow2[m] BY <1>2, <1>6, <1>9, <1>10
<1>12. 2 * 10^figures <= 2 * Pow2[m] BY <1>11 DEF n
<1> HIDE DEF m
<1>13. 10^figures <= Pow2[m]
  <2>1. PICK t \in Nat : t = 10^figures BY <1>1
  <2> QED BY <1>10, <1>12, <2>1
<1> QED BY <1>1, <1>8, <1>13 DEF m

\* The loop that counts the buckets ends, with enough of them for value, and no more
\* than an int64_t has room for.
LEMMA BucketsNeeded ==
  ASSUME NEW value \in Nat, value <= INT64_MAX, NEW u \in Nat, NEW m \in Nat, u + m <= 61
  PROVE  LET B == buckets_needed_to_cover_value(value, 2 * Pow2[m], u)
         IN  B \in Nat \ {0} /\ u + m + B <= 63 /\ value < Pow2[u + m + B]
<1> DEFINE U(n) == (2 * Pow2[m]) * Pow2[u + n]
           Stops(n) == U(n) > value \/ U(n) > INT64_MAX \div 2
           Is(n) == Stops(n) /\ \A k \in 0 .. n - 1 : ~ Stops(k)
           last == CHOOSE n \in 0 .. 62 : Is(n)
           B == buckets_needed_to_cover_value(value, 2 * Pow2[m], u)
<1>1. B = IF U(last) > value THEN last + 1 ELSE last + 2 BY DEF buckets_needed_to_cover_value
<1>2. ASSUME NEW n \in Nat PROVE U(n) = Pow2[u + m + n + 1] /\ U(n) \in Nat
  <2>1. u + n \in Nat /\ m + 1 \in Nat BY <1>2
  <2>2. Pow2[(m + 1) + (u + n)] = Pow2[m + 1] * Pow2[u + n] BY <2>1, Pow2Sum
  <2>3. Pow2[m + 1] = 2 * Pow2[m] BY Pow2Values
  <2>4. (m + 1) + (u + n) = u + m + n + 1 BY <1>2
  <2>5. U(n) = Pow2[u + m + n + 1] BY <2>2, <2>3, <2>4
  <2>6. u + m + n + 1 \in Nat BY <1>2
  <2> HIDE DEF U
  <2> QED BY <2>5, <2>6, Pow2Type
<1>3. PICK M \in Nat : M = INT64_MAX /\ M < Pow2[63] /\ M > 0 BY WidthBound
<1>4. Pow2[62 + 1] = 2 * Pow2[62] /\ Pow2[62] \in Nat BY Pow2Values, Pow2Type
<1>5. M \div 2 \in Nat /\ M \div 2 < Pow2[62] /\ M < 2 * (M \div 2) + 2 BY <1>3, <1>4
<1>6. Stops(62)
  <2>1. U(62) = Pow2[u + m + 62 + 1] /\ U(62) \in Nat BY <1>2
  <2>2. u + m + 62 + 1 \in Nat /\ 62 <= u + m + 62 + 1 OBVIOUS
  <2>3. Pow2[62] <= Pow2[u + m + 62 + 1] BY <2>2, Pow2Monotone
  <2> HIDE DEF U
  <2> QED BY <1>3, <1>4, <1>5, <2>1, <2>3
<1> HIDE DEF U
<1>7. PICK n \in 0 .. 62 : Is(n)
  <2> DEFINE S == {n \in Nat : Stops(n)}
  <2>1. 62 \in S /\ S \subseteq Nat BY <1>6
  <2>2. PICK n \in S : \A k \in S : n <= k
    <3> HIDE DEF S
    <3> QED BY <2>1, LeastNat
  <2>3. n \in 0 .. 62 BY <2>1, <2>2
  <2>4. \A k \in 0 .. n - 1 : k \notin S BY <2>1, <2>2
  <2>5. Is(n) BY <2>2, <2>4
  <2> QED BY <2>3, <2>5
<1>8. last \in 0 .. 62 /\ Is(last) BY <1>7
<1> HIDE DEF last
<1>9. PICK l \in Nat : l = last /\ l <= 62 /\ Stops(l) /\ (l > 0 => ~ Stops(l - 1))
  <2>1. last > 0 => last - 1 \in 0 .. last - 1 BY <1>8
  <2> QED BY <1>8, <2>1
<1>10. u + m + l <= 61
  <2>1. CASE l = 0 BY <2>1
  <2>2. CASE l > 0
    <3>1. l - 1 \in Nat /\ ~ Stops(l - 1) BY <1>9, <2>2
    <3>2. U(l - 1) = Pow2[u + m + (l - 1) + 1] /\ U(l - 1) \in Nat BY <1>2, <3>1
    <3>3. u + m + (l - 1) + 1 = u + m + l BY <3>1
    <3>4. Pow2[u + m + l] <= M \div 2 BY <1>3, <1>5, <3>1, <3>2, <3>3
    <3>5. u + m + l \in Nat /\ 62 \in Nat OBVIOUS
    <3>6. Pow2[u + m + l] \in Nat BY <3>5, Pow2Type
    <3>7. Pow2[u + m + l] < Pow2[62] BY <1>4, <1>5, <3>4, <3>6
    <3>8. u + m + l < 62 BY <3>5, <3>7, Pow2Monotone
    <3> QED BY <3>5, <3>8
  <2> QED BY <2>1, <2>2
<1>11. U(l) = Pow2[u + m + l + 1] /\ U(l) \in Nat BY <1>2
<1>12. CASE U(l) > value
  <2>1. B = l + 1 BY <1>1, <1>9, <1>12
  <2>2. u + m + B = u + m + l + 1 BY <2>1
  <2> HIDE DEF B
  <2>3. value < Pow2[u + m + B] BY <1>11, <1>12, <2>2
  <2> QED BY <1>10, <2>1, <2>3 DEF B
<1>13. CASE ~ (U(l) > value)
  <2>1. B = l + 2 BY <1>1, <1>9, <1>13
  <2>2. U(l) > M \div 2 BY <1>3, <1>9, <1>13
  <2>3. Pow2[(u + m + l + 1) + 1] = 2 * Pow2[u + m + l + 1]
    <3>1. u + m + l + 1 \in Nat OBVIOUS
    <3> QED BY <3>1, Pow2Values
  <2>4. u + m + B = (u + m + l + 1) + 1 BY <2>1
  <2> HIDE DEF B
  <2>5. M < 2 * U(l) BY <1>5, <1>11, <2>2
  <2>6. value < Pow2[u + m + B] BY <1>3, <1>11, <2>3, <2>4, <2>5
  <2> QED BY <1>10, <2>1, <2>6 DEF B
<1> QED BY <1>12, <1>13

\* A configuration that hdr_init accepts has buckets for all values it is asked for.
LEMMA ConfigIs ==
  ASSUME NEW lowest \in Nat, NEW highest \in Nat, NEW figures,
         ValidParameters(lowest, highest, figures), highest <= INT64_MAX,
         MaskFits(lowest, figures)
  PROVE  LET c == hdr_calculate_bucket_config(lowest, highest, figures)
         IN  /\ ConfigOK(c) /\ highest < Top(c)
             /\ c.highest_trackable_value = highest /\ c.lowest_trackable_value = lowest
             /\ c.significant_figures = figures
             /\ Pow2[c.unit_magnitude] <= lowest
             /\ 10^figures \in Nat
             /\ 10^figures <= Pow2[c.sub_bucket_half_count_magnitude]
<1> DEFINE u == LogFloor(lowest)
           m == SubBucketHalfCountMagnitude(figures)
           B == buckets_needed_to_cover_value(highest, 2 * Pow2[m], u)
           c == hdr_calculate_bucket_config(lowest, highest, figures)
<1>1. lowest >= 1 /\ figures \in 1 .. 5 /\ lowest * 2 <= highest BY DEF ValidParameters
<1>2. lowest <= INT64_MAX /\ INT64_MAX \in Nat /\ INT64_MAX < Pow2[63] BY <1>1, WidthBound
<1>3. lowest > 0 /\ lowest < Pow2[63]
  <2>1. Pow2[63] \in Nat BY Pow2Type
  <2> QED BY <1>1, <1>2, <2>1
<1>4. u \in Nat /\ Pow2[u] <= lowest BY <1>3, LogFloorIs
<1>5. m \in Nat /\ 10^figures \in Nat /\ 10^figures <= Pow2[m] BY <1>1, HalfCount
<1>6. u + m <= 61 BY DEF MaskFits
<1> HIDE DEF u, m
<1>7. B \in Nat \ {0} /\ u + m + B <= 63 /\ highest < Pow2[u + m + B]
  BY <1>4, <1>5, <1>6, BucketsNeeded
<1>8. Pow2[m + 1] = 2 * Pow2[m] /\ (2 * Pow2[m]) \div 2 = Pow2[m]
  <2>1. Pow2[m] \in Nat BY <1>5, Pow2Type
  <2> QED BY <1>5, <2>1, Pow2Values
<1> HIDE DEF B
<1>9. c = [lowest_trackable_value          |-> lowest,
           highest_trackable_value         |-> highest,
           unit_magnitude                  |-> u,
           significant_figures             |-> figures,
           sub_bucket_half_count_magnitude |-> m,
           sub_bucket_half_count           |-> Pow2[m],
           sub_bucket_mask                 |-> (2 * Pow2[m] - 1) * Pow2[u],
           sub_bucket_count                |-> 2 * Pow2[m],
           bucket_count                    |-> B,
           counts_len                      |-> (B + 1) * Pow2[m]]
  BY <1>8 DEF hdr_calculate_bucket_config, u, m, B
<1> HIDE DEF c
<1>10. /\ c.unit_magnitude = u /\ c.sub_bucket_half_count_magnitude = m /\ c.bucket_count = B
       /\ c.sub_bucket_half_count = Pow2[m] /\ c.sub_bucket_count = 2 * Pow2[m]
       /\ c.sub_bucket_mask = (2 * Pow2[m] - 1) * Pow2[u] /\ c.counts_len = (B + 1) * Pow2[m]
       /\ c.highest_trackable_value = highest /\ c.lowest_trackable_value = lowest
       /\ c.significant_figures = figures
  BY <1>9
<1>11. ConfigOK(c) BY <1>4, <1>5, <1>7, <1>10 DEF ConfigOK
<1>12. highest < Top(c) BY <1>7, <1>10 DEF Top
<1> QED BY <1>4, <1>5, <1>10, <1>11, <1>12 DEF c

\* The significant figures of a value.
LEMMA FiguresKept ==
  ASSUME NEW c, ConfigOK(c), NEW power \in Nat, power <= Pow2[c.sub_bucket_half_count_magnitude],
         NEW value \in Nat, value < Pow2[63]
  PROVE  LET size == hdr_size_of_equivalent_value_range(c, value)
         IN  size = Pow2[c.unit_magnitude] \/ size * power <= value
<1>1. PICK b, s : Located(c, value, b, s) BY Locate
<1>2. b \in Nat /\ hdr_size_of_equivalent_value_range(c, value) = Pow2[b + c.unit_magnitude]
  BY <1>1, LocatedResults
<1>3. c.unit_magnitude \in Nat /\ c.sub_bucket_half_count_magnitude \in Nat BY DEF ConfigOK
<1>4. CASE b = 0
  <2>1. b + c.unit_magnitude = c.unit_magnitude BY <1>3, <1>4
  <2> QED BY <1>2, <2>1
<1>5. CASE b > 0
  <2>1. PICK w \in Nat, h \in Nat :
           w = Pow2[b + c.unit_magnitude] /\ h = Pow2[c.sub_bucket_half_count_magnitude]
    <3>1. b + c.unit_magnitude \in Nat BY <1>2, <1>3
    <3> QED BY <1>3, <3>1, Pow2Type
  <2>2. s \in Nat /\ h <= s /\ s * w <= value BY <1>1, <1>5, <2>1 DEF Located
  <2>3. power <= s BY <2>1, <2>2
  <2>4. power * w <= s * w /\ power * w \in Nat /\ s * w \in Nat BY <2>2, <2>3, ProductMonotone
  <2>5. w * power = power * w OBVIOUS
  <2>6. w * power <= value BY <2>2, <2>4, <2>5
  <2> QED BY <1>2, <2>1, <2>6
<1> QED BY <1>2, <1>4, <1>5
-------------------------------------------------------------------------------
(* Folds and sums over finite sets                                           *)

\* The element MapThenFoldSet of Folds takes next.
Pick(s) == CHOOSE x \in s : TRUE

LEMMA PickIn == ASSUME NEW s, s # {} PROVE Pick(s) \in s
  BY DEF Pick

\* What holds of the empty set, and of a set when it holds of it without any of its
\* elements, holds of all subsets of a finite set.
LEMMA SubsetInduction ==
  ASSUME NEW S, IsFiniteSet(S), NEW C, {} \in C,
         \A s \in SUBSET S : s # {} /\ (\A x \in s : s \ {x} \in C) => s \in C
  PROVE  \A s \in SUBSET S : s \in C
<1> DEFINE Bad == {s \in SUBSET S : s \notin C}
           Sizes == {Cardinality(s) : s \in Bad}
<1> SUFFICES ASSUME Bad # {} PROVE FALSE OBVIOUS
<1>1. \A s \in SUBSET S : IsFiniteSet(s) /\ Cardinality(s) \in Nat
  BY FS_Subset, FS_CardinalityType
<1>2. Sizes \subseteq Nat /\ Sizes # {} BY <1>1
<1>3. PICK n \in Sizes : \A k \in Sizes : n <= k
  <2> HIDE DEF Sizes
  <2> QED BY <1>2, LeastNat
<1>4. PICK s \in Bad : n = Cardinality(s) OBVIOUS
<1>5. s \in SUBSET S /\ s \notin C /\ s # {} OBVIOUS
<1>6. ASSUME NEW x \in s PROVE s \ {x} \in C
  <2>1. s \ {x} \in SUBSET S BY <1>5
  <2>2. Cardinality(s \ {x}) = Cardinality(s) - 1 BY <1>1, <1>5, FS_RemoveElement
  <2>3. Cardinality(s) \in Nat BY <1>1, <1>5
  <2> SUFFICES ASSUME s \ {x} \notin C PROVE FALSE OBVIOUS
  <2>4. Cardinality(s \ {x}) \in Sizes BY <2>1
  <2>5. n <= Cardinality(s \ {x}) BY <1>3, <2>4
  <2> QED BY <1>4, <2>2, <2>3, <2>5
<1> QED BY <1>5, <1>6

\* it folds F over the subsets of S.
FoldsOver(it, F, base, S) ==
  \A s \in SUBSET S : it[s] = IF s = {} THEN base ELSE F[<<Pick(s), it[s \ {Pick(s)}]>>]

\* A recursive function that folds F exists.
LEMMA FoldExists ==
  ASSUME NEW S, IsFiniteSet(S), NEW G, NEW base \in G, NEW F \in [S \X G -> G]
  PROVE  \E it \in [SUBSET S -> G] : FoldsOver(it, F, base, S)
<1> DEFINE Eq(g, s) == g[s] = IF s = {} THEN base ELSE F[<<Pick(s), g[s \ {Pick(s)}]>>]
           N == {n \in Nat : \E g \in [SUBSET S -> G] :
                   \A s \in SUBSET S : Cardinality(s) <= n => Eq(g, s)}
<1>1. \A s \in SUBSET S : IsFiniteSet(s) /\ Cardinality(s) \in Nat
  BY FS_Subset, FS_CardinalityType
<1>2. 0 \in N
  <2> DEFINE g == [s \in SUBSET S |-> base]
  <2>1. g \in [SUBSET S -> G] OBVIOUS
  <2>2. ASSUME NEW s \in SUBSET S, Cardinality(s) <= 0 PROVE Eq(g, s)
    <3>1. Cardinality(s) = 0 BY <1>1, <2>2
    <3>2. s = {} BY <1>1, <3>1, FS_EmptySet
    <3> QED BY <3>2
  <2> HIDE DEF g, Eq
  <2> QED BY <2>1, <2>2
<1>3. ASSUME NEW n \in Nat, n \in N PROVE n + 1 \in N
  <2>1. PICK g \in [SUBSET S -> G] : \A s \in SUBSET S : Cardinality(s) <= n => Eq(g, s)
    BY <1>3
  <2> DEFINE e == [s \in SUBSET S |-> IF s = {} THEN base
                                      ELSE F[<<Pick(s), g[s \ {Pick(s)}]>>]]
  <2>2. e \in [SUBSET S -> G]
    <3>1. ASSUME NEW s \in SUBSET S PROVE e[s] \in G
      <4>1. CASE s = {} BY <4>1
      <4>2. CASE s # {}
        <5>1. Pick(s) \in S /\ s \ {Pick(s)} \in SUBSET S BY <4>2, PickIn
        <5>2. g[s \ {Pick(s)}] \in G BY <5>1
        <5>3. <<Pick(s), g[s \ {Pick(s)}]>> \in S \X G BY <5>1, <5>2
        <5> QED BY <4>2, <5>3
      <4> QED BY <4>1, <4>2
    <3> QED BY <3>1
  <2>3. ASSUME NEW t \in SUBSET S, Cardinality(t) <= n PROVE e[t] = g[t]
    BY <2>1, <2>3
  <2>4. ASSUME NEW s \in SUBSET S, Cardinality(s) <= n + 1 PROVE Eq(e, s)
    <3>1. CASE s = {} BY <3>1
    <3>2. CASE s # {}
      <4>1. Pick(s) \in s /\ s \ {Pick(s)} \in SUBSET S BY <3>2, PickIn
      <4>2. Cardinality(s \ {Pick(s)}) = Cardinality(s) - 1 BY <1>1, <4>1, FS_RemoveElement
      <4>3. Cardinality(s \ {Pick(s)}) <= n BY <1>1, <2>4, <4>2
      <4>4. e[s \ {Pick(s)}] = g[s \ {Pick(s)}] BY <2>3, <4>1, <4>3
      <4>5. e[s] = F[<<Pick(s), g[s \ {Pick(s)}]>>] BY <3>2
      <4> HIDE DEF e
      <4> QED BY <3>2, <4>4, <4>5
    <3> QED BY <3>1, <3>2
  <2> HIDE DEF e, Eq
  <2>5. \E g1 \in [SUBSET S -> G] : \A s \in SUBSET S : Cardinality(s) <= n + 1 => Eq(g1, s)
    BY <2>2, <2>4
  <2> QED BY <2>5
<1>4. \A n \in Nat : n \in N
  <2> HIDE DEF N
  <2> QED BY <1>2, <1>3, SetInduction
<1>5. Cardinality(S) \in N BY <1>1, <1>4
<1>6. PICK g \in [SUBSET S -> G] : \A s \in SUBSET S : Cardinality(s) <= Cardinality(S) => Eq(g, s)
  BY <1>5
<1>7. \A s \in SUBSET S : Cardinality(s) <= Cardinality(S) BY FS_Subset
<1>8. FoldsOver(g, F, base, S) BY <1>6, <1>7 DEF FoldsOver
<1> QED BY <1>8

\* The sum of the values of f on S
SumOver(f, S) == MapThenSumSet(LAMBDA x : f[x], S)

\* it adds up f over the subsets of S.
Adds(it, f, S) ==
  it = [s \in SUBSET S |-> IF s = {} THEN 0 ELSE f[Pick(s)] + it[s \ {Pick(s)}]]

\* The folds that MapThenSumSet computes exist, and SumOver is one of them.
LEMMA AddsExists ==
  ASSUME NEW S, IsFiniteSet(S), NEW f, \A x \in S : f[x] \in Int
  PROVE  \E it : Adds(it, f, S)
<1> DEFINE F == [p \in S \X Int |-> f[p[1]] + p[2]]
<1>1. F \in [S \X Int -> Int] OBVIOUS
<1>2. \A x \in S, n \in Int : F[<<x, n>>] = f[x] + n OBVIOUS
<1> HIDE DEF F
<1>3. 0 \in Int OBVIOUS
<1>4. PICK it \in [SUBSET S -> Int] : FoldsOver(it, F, 0, S)
  BY <1>1, <1>3, FoldExists
<1>5. ASSUME NEW s \in SUBSET S
      PROVE  it[s] = IF s = {} THEN 0 ELSE f[Pick(s)] + it[s \ {Pick(s)}]
  <2>1. CASE s = {} BY <1>4, <2>1 DEF FoldsOver
  <2>2. CASE s # {}
    <3>1. Pick(s) \in S /\ s \ {Pick(s)} \in SUBSET S BY <2>2, PickIn
    <3>2. it[s \ {Pick(s)}] \in Int BY <3>1
    <3>3. it[s] = F[<<Pick(s), it[s \ {Pick(s)}]>>] BY <1>4, <2>2 DEF FoldsOver
    <3> QED BY <1>2, <2>2, <3>1, <3>2, <3>3
  <2> QED BY <2>1, <2>2
<1>6. it = [s \in SUBSET S |-> it[s]] OBVIOUS
<1>7. Adds(it, f, S) BY <1>5, <1>6 DEF Adds
<1> QED BY <1>7

LEMMA SumAdds ==
  ASSUME NEW S, IsFiniteSet(S), NEW f, \A x \in S : f[x] \in Int
  PROVE  \E it : Adds(it, f, S) /\ SumOver(f, S) = it[S]
<1> DEFINE it == CHOOSE g : Adds(g, f, S)
<1>1. Adds(it, f, S) BY AddsExists
<1>2. SumOver(f, S) = it[S] BY DEF SumOver, MapThenSumSet, MapThenFoldSet, Adds, Pick
<1> QED BY <1>1, <1>2

\* Its values, step by step; they are numbers; and any element may be taken first.
LEMMA AddsRules ==
  ASSUME NEW S, NEW f, NEW it, Adds(it, f, S)
  PROVE  /\ it[{}] = 0
         /\ \A s \in SUBSET S : s # {} => it[s] = f[Pick(s)] + it[s \ {Pick(s)}]
<1>1. \A s \in SUBSET S : it[s] = IF s = {} THEN 0 ELSE f[Pick(s)] + it[s \ {Pick(s)}]
  BY DEF Adds
<1> QED BY <1>1

LEMMA AddsType ==
  ASSUME NEW S, IsFiniteSet(S), NEW f, \A x \in S : f[x] \in Int, NEW it, Adds(it, f, S)
  PROVE  \A s \in SUBSET S : it[s] \in Int
<1> DEFINE C == {s \in SUBSET S : it[s] \in Int}
<1>1. {} \in C BY AddsRules
<1>2. ASSUME NEW s \in SUBSET S, s # {}, \A x \in s : s \ {x} \in C PROVE s \in C
  <2>1. it[s] = f[Pick(s)] + it[s \ {Pick(s)}] BY <1>2, AddsRules
  <2>2. Pick(s) \in s BY <1>2, PickIn
  <2>3. it[s \ {Pick(s)}] \in Int BY <1>2, <2>2
  <2> QED BY <2>1, <2>2, <2>3
<1>3. \A s \in SUBSET S : s \in C
  <2> HIDE DEF C
  <2> QED BY <1>1, <1>2, SubsetInduction
<1> QED BY <1>3

LEMMA AddsRemove ==
  ASSUME NEW S, IsFiniteSet(S), NEW f, \A x \in S : f[x] \in Int, NEW it, Adds(it, f, S),
         NEW r \in SUBSET S, NEW z \in r
  PROVE  it[r] = f[z] + it[r \ {z}]
<1> DEFINE C == {s \in SUBSET S : \A x \in s : it[s] = f[x] + it[s \ {x}]}
<1>1. {} \in C OBVIOUS
<1>2. ASSUME NEW s \in SUBSET S, s # {}, \A x \in s : s \ {x} \in C PROVE s \in C
  <2>1. PICK y : y = Pick(s) OBVIOUS
  <2>2. y \in s /\ it[s] = f[y] + it[s \ {y}] BY <1>2, <2>1, AddsRules, PickIn
  <2>3. ASSUME NEW x \in s PROVE it[s] = f[x] + it[s \ {x}]
    <3>1. CASE x = y BY <2>2, <3>1
    <3>2. CASE x # y
      <4>1. x \in s \ {y} /\ y \in s \ {x} BY <2>2, <3>2
      <4>2. it[s \ {y}] = f[x] + it[(s \ {y}) \ {x}] BY <1>2, <2>2, <4>1
      <4>3. it[s \ {x}] = f[y] + it[(s \ {x}) \ {y}] BY <1>2, <2>2, <4>1
      <4>4. (s \ {y}) \ {x} = (s \ {x}) \ {y} OBVIOUS
      <4>5. PICK t \in SUBSET S : t = (s \ {y}) \ {x} OBVIOUS
      <4>6. it[t] \in Int /\ f[x] \in Int /\ f[y] \in Int BY <2>2, AddsType
      <4>7. it[s \ {y}] = f[x] + it[t] BY <4>2, <4>5
      <4>8. it[s \ {x}] = f[y] + it[t] BY <4>3, <4>4, <4>5
      <4>9. f[y] + (f[x] + it[t]) = f[x] + (f[y] + it[t]) BY <4>6
      <4> QED BY <2>2, <4>7, <4>8, <4>9
    <3> QED BY <3>1, <3>2
  <2> QED BY <2>3
<1>3. \A s \in SUBSET S : s \in C
  <2> HIDE DEF C
  <2> QED BY <1>1, <1>2, SubsetInduction
<1> QED BY <1>3
\* Sums: of nothing, their types, their order, and that equal terms give equal sums.
LEMMA SumEmpty == ASSUME NEW f PROVE SumOver(f, {}) = 0
<1>1. IsFiniteSet({}) BY FS_EmptySet
<1>2. PICK it : Adds(it, f, {}) /\ SumOver(f, {}) = it[{}] BY <1>1, SumAdds
<1> QED BY <1>2, AddsRules

\* The sum on a part of S is the one that was formed on the way to the sum on S.
LEMMA AddsPart ==
  ASSUME NEW S, IsFiniteSet(S), NEW f, \A x \in S : f[x] \in Int, NEW it, Adds(it, f, S),
         NEW T \in SUBSET S
  PROVE  SumOver(f, T) = it[T]
<1>1. IsFiniteSet(T) BY FS_Subset
<1>2. PICK g : Adds(g, f, T) /\ SumOver(f, T) = g[T] BY <1>1, SumAdds
<1> DEFINE C == {s \in SUBSET T : g[s] = it[s]}
<1>3. {} \in C BY <1>2, AddsRules
<1>4. ASSUME NEW s \in SUBSET T, s # {}, \A x \in s : s \ {x} \in C PROVE s \in C
  <2>1. s \in SUBSET S /\ Pick(s) \in s BY <1>4, PickIn
  <2>0. \A q \in SUBSET T : q # {} => g[q] = f[Pick(q)] + g[q \ {Pick(q)}]
    <3>1. Adds(g, f, T) BY <1>2
    <3> QED BY <3>1, AddsRules
  <2>2. g[s] = f[Pick(s)] + g[s \ {Pick(s)}] BY <1>4, <2>0
  <2>3. it[s] = f[Pick(s)] + it[s \ {Pick(s)}] BY <1>4, <2>1, AddsRules
  <2>4. g[s \ {Pick(s)}] = it[s \ {Pick(s)}] BY <1>4, <2>1
  <2> QED BY <2>2, <2>3, <2>4
<1>5. \A s \in SUBSET T : s \in C
  <2> HIDE DEF C
  <2> QED BY <1>1, <1>3, <1>4, SubsetInduction
<1> QED BY <1>2, <1>5

\* An element adds its value.
LEMMA SumRemove ==
  ASSUME NEW S, IsFiniteSet(S), NEW f, \A x \in S : f[x] \in Int, NEW x \in S
  PROVE  /\ SumOver(f, S) = f[x] + SumOver(f, S \ {x})
         /\ SumOver(f, S) \in Int /\ SumOver(f, S \ {x}) \in Int
<1>1. PICK it : Adds(it, f, S) /\ SumOver(f, S) = it[S] BY SumAdds
<1>2. S \in SUBSET S /\ S \ {x} \in SUBSET S OBVIOUS
<1>3. SumOver(f, S \ {x}) = it[S \ {x}] BY <1>1, <1>2, AddsPart
<1>4. it[S] \in Int /\ it[S \ {x}] \in Int BY <1>1, <1>2, AddsType
<1>5. it[S] = f[x] + it[S \ {x}]
  <2>1. Adds(it, f, S) BY <1>1
  <2> QED BY <1>2, <2>1, AddsRemove
<1> QED BY <1>1, <1>3, <1>4, <1>5

LEMMA SumType ==
  ASSUME NEW S, IsFiniteSet(S), NEW f, \A x \in S : f[x] \in Int
  PROVE  SumOver(f, S) \in Int
<1>1. PICK it : Adds(it, f, S) /\ SumOver(f, S) = it[S] BY SumAdds
<1>2. S \in SUBSET S OBVIOUS
<1> QED BY <1>1, <1>2, AddsType

LEMMA SumNat ==
  ASSUME NEW S, IsFiniteSet(S), NEW f, \A x \in S : f[x] \in Nat
  PROVE  SumOver(f, S) \in Nat
<1> DEFINE C == {s \in SUBSET S : SumOver(f, s) \in Nat}
<1>1. {} \in C BY SumEmpty
<1>2. ASSUME NEW s \in SUBSET S, s # {}, \A x \in s : s \ {x} \in C PROVE s \in C
  <2>1. PICK x \in s : TRUE BY <1>2
  <2>2. IsFiniteSet(s) /\ \A y \in s : f[y] \in Int BY FS_Subset
  <2>3. SumOver(f, s) = f[x] + SumOver(f, s \ {x}) BY <2>2, SumRemove
  <2>4. SumOver(f, s \ {x}) \in Nat /\ f[x] \in Nat BY <1>2
  <2> QED BY <2>3, <2>4
<1>3. \A s \in SUBSET S : s \in C
  <2> HIDE DEF C
  <2> QED BY <1>1, <1>2, SubsetInduction
<1> QED BY <1>3

\* The sum of a sum of two functions
LEMMA SumPlus ==
  ASSUME NEW S, IsFiniteSet(S), NEW f, NEW g, NEW h,
         \A x \in S : f[x] \in Int /\ g[x] \in Int /\ h[x] = f[x] + g[x]
  PROVE  SumOver(h, S) = SumOver(f, S) + SumOver(g, S)
<1> DEFINE C == {s \in SUBSET S : SumOver(h, s) = SumOver(f, s) + SumOver(g, s)}
<1>1. {} \in C BY SumEmpty
<1>2. ASSUME NEW s \in SUBSET S, s # {}, \A x \in s : s \ {x} \in C PROVE s \in C
  <2>1. PICK x \in s : TRUE BY <1>2
  <2>2. IsFiniteSet(s) /\ \A y \in s : f[y] \in Int /\ g[y] \in Int /\ h[y] \in Int BY FS_Subset
  <2>3. SumOver(f, s) = f[x] + SumOver(f, s \ {x}) /\ SumOver(f, s \ {x}) \in Int BY <2>2, SumRemove
  <2>4. SumOver(g, s) = g[x] + SumOver(g, s \ {x}) /\ SumOver(g, s \ {x}) \in Int BY <2>2, SumRemove
  <2>5. SumOver(h, s) = h[x] + SumOver(h, s \ {x}) BY <2>2, SumRemove
  <2>6. SumOver(h, s \ {x}) = SumOver(f, s \ {x}) + SumOver(g, s \ {x}) BY <1>2
  <2>7. h[x] = f[x] + g[x] /\ f[x] \in Int /\ g[x] \in Int OBVIOUS
  <2> QED BY <2>3, <2>4, <2>5, <2>6, <2>7
<1>3. \A s \in SUBSET S : s \in C
  <2> HIDE DEF C
  <2> QED BY <1>1, <1>2, SubsetInduction
<1> QED BY <1>3

LEMMA SumMonotone ==
  ASSUME NEW S, IsFiniteSet(S), NEW f, NEW g,
         \A x \in S : f[x] \in Int /\ g[x] \in Int /\ f[x] <= g[x]
  PROVE  SumOver(f, S) <= SumOver(g, S)
<1> DEFINE C == {s \in SUBSET S : SumOver(f, s) <= SumOver(g, s)}
<1>1. {} \in C BY SumEmpty
<1>2. ASSUME NEW s \in SUBSET S, s # {}, \A x \in s : s \ {x} \in C PROVE s \in C
  <2>1. PICK x \in s : TRUE BY <1>2
  <2>2. IsFiniteSet(s) /\ \A y \in s : f[y] \in Int /\ g[y] \in Int BY FS_Subset
  <2>3. SumOver(f, s) = f[x] + SumOver(f, s \ {x}) /\ SumOver(f, s \ {x}) \in Int BY <2>2, SumRemove
  <2>4. SumOver(g, s) = g[x] + SumOver(g, s \ {x}) /\ SumOver(g, s \ {x}) \in Int BY <2>2, SumRemove
  <2>5. SumOver(f, s \ {x}) <= SumOver(g, s \ {x}) BY <1>2
  <2>6. f[x] <= g[x] /\ f[x] \in Int /\ g[x] \in Int OBVIOUS
  <2> QED BY <2>3, <2>4, <2>5, <2>6
<1>3. \A s \in SUBSET S : s \in C
  <2> HIDE DEF C
  <2> QED BY <1>1, <1>2, SubsetInduction
<1> QED BY <1>3

LEMMA SumSame ==
  ASSUME NEW S, IsFiniteSet(S), NEW f, NEW g, \A x \in S : f[x] \in Int /\ f[x] = g[x]
  PROVE  SumOver(f, S) = SumOver(g, S)
<1>1. SumOver(f, S) <= SumOver(g, S) /\ SumOver(g, S) <= SumOver(f, S) BY SumMonotone
<1>2. SumOver(f, S) \in Int /\ SumOver(g, S) \in Int BY SumType
<1> QED BY <1>1, <1>2

\* Only the elements with a value count.
LEMMA SumSupport ==
  ASSUME NEW S, IsFiniteSet(S), NEW f, \A x \in S : f[x] \in Int,
         NEW T \in SUBSET S, \A x \in S \ T : f[x] = 0
  PROVE  SumOver(f, T) = SumOver(f, S)
<1> DEFINE C == {s \in SUBSET S : SumOver(f, s \cap T) = SumOver(f, s)}
<1>1. {} \in C
  <2>1. {} \cap T = {} OBVIOUS
  <2> QED BY <2>1
<1>2. ASSUME NEW s \in SUBSET S, s # {}, \A x \in s : s \ {x} \in C PROVE s \in C
  <2>1. PICK x \in s : TRUE BY <1>2
  <2>2. IsFiniteSet(s) /\ \A y \in s : f[y] \in Int BY FS_Subset
  <2>3. SumOver(f, s) = f[x] + SumOver(f, s \ {x}) /\ SumOver(f, s \ {x}) \in Int BY <2>2, SumRemove
  <2>4. SumOver(f, (s \ {x}) \cap T) = SumOver(f, s \ {x}) BY <1>2
  <2>5. CASE x \in T
    <3>1. IsFiniteSet(s \cap T) /\ x \in s \cap T /\ \A y \in s \cap T : f[y] \in Int
      BY <2>2, <2>5, FS_Subset
    <3>2. SumOver(f, s \cap T) = f[x] + SumOver(f, (s \cap T) \ {x}) BY <3>1, SumRemove
    <3>3. (s \cap T) \ {x} = (s \ {x}) \cap T OBVIOUS
    <3>4. SumOver(f, (s \cap T) \ {x}) = SumOver(f, s \ {x}) BY <2>4, <3>3
    <3>5. SumOver(f, s \cap T) = f[x] + SumOver(f, s \ {x}) BY <3>2, <3>4
    <3>6. SumOver(f, s \cap T) = SumOver(f, s) BY <2>3, <3>5
    <3> QED BY <3>6
  <2>6. CASE x \notin T
    <3>1. f[x] = 0 /\ (s \ {x}) \cap T = s \cap T BY <2>6
    <3>2. SumOver(f, s \cap T) = SumOver(f, s \ {x}) BY <2>4, <3>1
    <3>3. SumOver(f, s \cap T) = SumOver(f, s) BY <2>3, <3>1, <3>2
    <3> QED BY <3>3
  <2> QED BY <2>5, <2>6
<1>3. \A s \in SUBSET S : s \in C
  <2> HIDE DEF C
  <2> QED BY <1>1, <1>2, SubsetInduction
<1>4. S \cap T = T /\ S \in C BY <1>3
<1> QED BY <1>4

\* A sum of zeros, and the sum over two disjoint sets.
LEMMA SumZero ==
  ASSUME NEW S, IsFiniteSet(S), NEW f, \A x \in S : f[x] = 0
  PROVE  SumOver(f, S) = 0
<1>1. {} \in SUBSET S /\ \A x \in S \ {} : f[x] = 0 OBVIOUS
<1>2. \A x \in S : f[x] \in Int OBVIOUS
<1>3. SumOver(f, {}) = SumOver(f, S) BY <1>1, <1>2, SumSupport
<1> QED BY <1>3, SumEmpty

\* Changing one value changes the sum by as much.
LEMMA SumChange ==
  ASSUME NEW S, IsFiniteSet(S), NEW f, NEW g, NEW x \in S, NEW d \in Int,
         \A y \in S : f[y] \in Int /\ (y # x => g[y] = f[y]), g[x] = f[x] + d
  PROVE  SumOver(g, S) = SumOver(f, S) + d
<1>1. \A y \in S : g[y] \in Int OBVIOUS
<1>2. SumOver(f, S) = f[x] + SumOver(f, S \ {x}) /\ SumOver(f, S \ {x}) \in Int BY SumRemove
<1>3. SumOver(g, S) = g[x] + SumOver(g, S \ {x}) BY <1>1, SumRemove
<1>4. SumOver(f, S \ {x}) = SumOver(g, S \ {x})
  <2>1. IsFiniteSet(S \ {x}) /\ \A y \in S \ {x} : f[y] \in Int /\ f[y] = g[y] BY FS_Subset
  <2> QED BY <2>1, SumSame
<1>5. f[x] \in Int OBVIOUS
<1> QED BY <1>2, <1>3, <1>4, <1>5

\* A part adds up to less.
LEMMA SumPart ==
  ASSUME NEW S, IsFiniteSet(S), NEW f, \A x \in S : f[x] \in Nat, NEW T \in SUBSET S
  PROVE  /\ SumOver(f, T) \in Nat /\ SumOver(f, S) \in Nat /\ SumOver(f, T) <= SumOver(f, S)
         /\ \A x \in S : x \notin T => SumOver(f, T) + f[x] <= SumOver(f, S)
<1> DEFINE g == [x \in S |-> IF x \in T THEN f[x] ELSE 0]
           r == [x \in S |-> IF x \in T THEN 0 ELSE f[x]]
<1>1. \A x \in S : g[x] \in Nat /\ r[x] \in Nat /\ f[x] = g[x] + r[x] OBVIOUS
<1>2. \A x \in S \ T : g[x] = 0 OBVIOUS
<1>3. \A x \in T : g[x] = f[x] OBVIOUS
<1>4. \A x \in S : x \notin T => r[x] = f[x] OBVIOUS
<1> HIDE DEF g, r
<1>5. SumOver(g, T) = SumOver(g, S) BY <1>1, <1>2, SumSupport
<1>6. SumOver(g, T) = SumOver(f, T)
  <2>1. IsFiniteSet(T) /\ \A x \in T : g[x] \in Int /\ g[x] = f[x] BY <1>1, <1>3, FS_Subset
  <2> QED BY <2>1, SumSame
<1>7. SumOver(f, S) = SumOver(g, S) + SumOver(r, S)
  <2>1. \A x \in S : g[x] \in Int /\ r[x] \in Int /\ f[x] = g[x] + r[x] BY <1>1
  <2> QED BY <2>1, SumPlus
<1>8. SumOver(g, S) \in Nat /\ SumOver(r, S) \in Nat BY <1>1, SumNat
<1>9. ASSUME NEW x \in S, x \notin T PROVE f[x] <= SumOver(r, S)
  <2>1. SumOver(r, S) = r[x] + SumOver(r, S \ {x}) BY <1>1, SumRemove
  <2>2. SumOver(r, S \ {x}) \in Nat
    <3>1. IsFiniteSet(S \ {x}) /\ \A y \in S \ {x} : r[y] \in Nat BY <1>1, FS_Subset
    <3> QED BY <3>1, SumNat
  <2>3. r[x] = f[x] /\ r[x] \in Nat BY <1>1, <1>4, <1>9
  <2> QED BY <2>1, <2>2, <2>3
<1>11. SumOver(f, T) = SumOver(g, S) /\ SumOver(f, S) = SumOver(g, S) + SumOver(r, S) BY <1>5, <1>6, <1>7
<1>10. ASSUME NEW x \in S, x \notin T PROVE SumOver(f, T) + f[x] <= SumOver(f, S)
  <2>1. f[x] \in Nat OBVIOUS
  <2>2. f[x] <= SumOver(r, S) BY <1>10, <1>9
  <2> QED BY <1>8, <1>11, <2>1, <2>2
<1>12. SumOver(f, T) \in Nat /\ SumOver(f, S) \in Nat /\ SumOver(f, T) <= SumOver(f, S) BY <1>8, <1>11
<1> QED BY <1>10, <1>12
LEMMA SumDisjoint ==
  ASSUME NEW A, NEW B, IsFiniteSet(A), IsFiniteSet(B), A \cap B = {},
         NEW f, \A x \in A \union B : f[x] \in Int
  PROVE  SumOver(f, A \union B) = SumOver(f, A) + SumOver(f, B)
<1> DEFINE S == A \union B
           g == [x \in S |-> IF x \in A THEN f[x] ELSE 0]
           h == [x \in S |-> IF x \in B THEN f[x] ELSE 0]
<1>1. IsFiniteSet(S) BY FS_Union
<1>2. \A x \in S : g[x] \in Int /\ h[x] \in Int /\ f[x] = g[x] + h[x] OBVIOUS
<1>3. A \in SUBSET S /\ B \in SUBSET S /\ (\A x \in S \ A : g[x] = 0) /\ (\A x \in S \ B : h[x] = 0)
  OBVIOUS
<1>4. (\A x \in A : g[x] = f[x] /\ g[x] \in Int) /\ (\A x \in B : h[x] = f[x] /\ h[x] \in Int)
  OBVIOUS
<1> HIDE DEF S, g, h
<1>5. SumOver(f, S) = SumOver(g, S) + SumOver(h, S) BY <1>1, <1>2, SumPlus
<1>6. SumOver(g, A) = SumOver(g, S) BY <1>1, <1>2, <1>3, SumSupport
<1>7. SumOver(h, B) = SumOver(h, S) BY <1>1, <1>2, <1>3, SumSupport
<1>8. SumOver(g, A) = SumOver(f, A) BY <1>4, SumSame
<1>9. SumOver(h, B) = SumOver(f, B) BY <1>4, SumSame
<1> QED BY <1>5, <1>6, <1>7, <1>8, <1>9 DEF S

\* The elements of D that k maps to i
Fiber(D, k, i) == {x \in D : k[x] = i}

\* A sum over values with weights that depend on the index only is a sum over indices.
LEMMA SumFibers ==
  ASSUME NEW D, IsFiniteSet(D), NEW I, IsFiniteSet(I), NEW f, NEW k, NEW w,
         \A x \in D : f[x] \in Int /\ k[x] \in I, \A i \in I : w[i] \in Int,
         NEW a, \A i \in I : a[i] = w[i] * SumOver(f, Fiber(D, k, i)),
         NEW b, \A x \in D : b[x] = w[k[x]] * f[x]
  PROVE  SumOver(a, I) = SumOver(b, D)
<1> DEFINE Part(s, i) == {x \in s : k[x] = i}
           A(s) == [i \in I |-> w[i] * SumOver(f, Part(s, i))]
           C == {s \in SUBSET D : SumOver(A(s), I) = SumOver(b, s)}
<1>1. {} \in C
  <2>1. \A i \in I : A({})[i] = 0
    <3>1. ASSUME NEW i \in I PROVE w[i] * SumOver(f, Part({}, i)) = 0
      <4>1. Part({}, i) = {} OBVIOUS
      <4>2. SumOver(f, Part({}, i)) = 0 BY <4>1, SumEmpty
      <4> QED BY <4>2
    <3> QED BY <3>1
  <2> HIDE DEF A
  <2>2. SumOver(A({}), I) = 0 BY <2>1, SumZero
  <2> QED BY <2>2, SumEmpty
<1>2. ASSUME NEW s \in SUBSET D, s # {}, \A x \in s : s \ {x} \in C PROVE s \in C
  <2>1. PICK x \in s : TRUE BY <1>2
  <2>2. x \in D /\ k[x] \in I /\ f[x] \in Int /\ w[k[x]] \in Int OBVIOUS
  <2>3. IsFiniteSet(s) /\ \A y \in s : f[y] \in Int BY FS_Subset
  <2>4. \A i \in I : SumOver(f, Part(s, i)) \in Int /\ SumOver(f, Part(s \ {x}, i)) \in Int
    <3>1. ASSUME NEW i \in I PROVE SumOver(f, Part(s, i)) \in Int
      <4>1. IsFiniteSet(Part(s, i)) /\ \A y \in Part(s, i) : f[y] \in Int BY <2>3, FS_Subset
      <4> HIDE DEF Part
      <4> QED BY <4>1, SumType
    <3>2. ASSUME NEW i \in I PROVE SumOver(f, Part(s \ {x}, i)) \in Int
      <4>1. Part(s \ {x}, i) \subseteq s OBVIOUS
      <4>2. IsFiniteSet(Part(s \ {x}, i)) /\ \A y \in Part(s \ {x}, i) : f[y] \in Int
        BY <2>3, <4>1, FS_Subset
      <4> HIDE DEF Part
      <4> QED BY <4>2, SumType
    <3> QED BY <3>1, <3>2
  <2>5. \A i \in I : i # k[x] => Part(s, i) = Part(s \ {x}, i) OBVIOUS
  <2>6. SumOver(f, Part(s, k[x])) = f[x] + SumOver(f, Part(s \ {x}, k[x]))
    <3> DEFINE P == Part(s, k[x])
    <3>1. IsFiniteSet(P) /\ x \in P /\ \A y \in P : f[y] \in Int BY <2>3, FS_Subset
    <3>2. P \ {x} = Part(s \ {x}, k[x]) OBVIOUS
    <3> HIDE DEF P, Part
    <3>3. SumOver(f, P) = f[x] + SumOver(f, P \ {x}) BY <3>1, SumRemove
    <3> QED BY <3>2, <3>3 DEF P
  <2> HIDE DEF Part
  <2>7. \A i \in I : A(s \ {x})[i] \in Int /\ (i # k[x] => A(s)[i] = A(s \ {x})[i])
    <3>1. ASSUME NEW i \in I PROVE A(s \ {x})[i] \in Int
      <4>1. PICK p \in Int, q \in Int : p = w[i] /\ q = SumOver(f, Part(s \ {x}, i)) BY <2>4
      <4>2. A(s \ {x})[i] = p * q BY <4>1
      <4> QED BY <4>2
    <3>2. ASSUME NEW i \in I, i # k[x] PROVE A(s)[i] = A(s \ {x})[i] BY <2>5, <3>2
    <3> QED BY <3>1, <3>2
  <2>8. A(s)[k[x]] = A(s \ {x})[k[x]] + b[x]
    <3>1. PICK p \in Int, q \in Int, r \in Int :
            p = w[k[x]] /\ q = f[x] /\ r = SumOver(f, Part(s \ {x}, k[x])) BY <2>2, <2>4
    <3>2. A(s)[k[x]] = p * (q + r) BY <2>2, <2>6, <3>1
    <3>3. A(s \ {x})[k[x]] = p * r BY <2>2, <3>1
    <3>4. b[x] = p * q BY <2>2, <3>1
    <3>5. p * (q + r) = p * r + p * q OBVIOUS
    <3> QED BY <3>2, <3>3, <3>4, <3>5
  <2>9. \A y \in s : b[y] \in Int
    <3>1. ASSUME NEW y \in s PROVE w[k[y]] * f[y] \in Int
      <4>1. w[k[y]] \in Int /\ f[y] \in Int OBVIOUS
      <4> QED BY <4>1
    <3> QED BY <3>1
  <2> DEFINE As == A(s)
             At == A(s \ {x})
  <2>10. (\A i \in I : At[i] \in Int /\ (i # k[x] => As[i] = At[i])) /\ As[k[x]] = At[k[x]] + b[x]
    BY <2>7, <2>8
  <2>11. SumOver(At, I) = SumOver(b, s \ {x}) BY <1>2
  <2> HIDE DEF As, At, A
  <2>12. SumOver(As, I) = SumOver(At, I) + b[x]
    <3>1. PICK j \in I, d \in Int : j = k[x] /\ d = b[x] BY <2>2, <2>9
    <3>2. \A i \in I : At[i] \in Int /\ (i # j => As[i] = At[i]) BY <2>10, <3>1
    <3>3. As[j] = At[j] + d BY <2>10, <3>1
    <3>4. IsFiniteSet(I) OBVIOUS
    <3>5. SumOver(As, I) = SumOver(At, I) + d BY ONLY <3>2, <3>3, <3>4, SumChange
    <3> QED BY <3>1, <3>5
  <2>13. SumOver(b, s) = b[x] + SumOver(b, s \ {x}) /\ SumOver(b, s \ {x}) \in Int
        BY <2>3, <2>9, SumRemove
  <2>14. SumOver(As, I) = SumOver(b, s) BY <2>9, <2>11, <2>12, <2>13
  <2> QED BY <2>14 DEF As
<1>3. \A s \in SUBSET D : s \in C
  <2> HIDE DEF C
  <2> QED BY <1>1, <1>2, SubsetInduction
<1>4. SumOver(A(D), I) = SumOver(b, D)
  <2>1. D \in C BY <1>3
  <2> QED BY <2>1
<1>5. \A i \in I : a[i] = A(D)[i] /\ a[i] \in Int
  <2>1. ASSUME NEW i \in I PROVE SumOver(f, Part(D, i)) \in Int
    <3>1. IsFiniteSet(Part(D, i)) /\ \A y \in Part(D, i) : f[y] \in Int BY FS_Subset
    <3> HIDE DEF Part
    <3> QED BY <3>1, SumType
  <2>2. \A i \in I : a[i] = w[i] * SumOver(f, Part(D, i)) BY DEF Fiber
  <2> HIDE DEF Part
  <2> QED BY <2>1, <2>2
<1> DEFINE AD == A(D)
<1>6. \A i \in I : a[i] = AD[i] /\ a[i] \in Int BY <1>5
<1>7. SumOver(AD, I) = SumOver(b, D) BY <1>4
<1> HIDE DEF AD
<1>8. SumOver(a, I) = SumOver(AD, I) BY <1>6, SumSame
<1> QED BY <1>7, <1>8
-------------------------------------------------------------------------------
(* The invariant of a histogram                                              *)

\* What the code does with a histogram h, whatever was recorded in it
Consistent(h) ==
  LET c == h.cfg IN
  /\ ConfigOK(c)
  /\ h \in [cfg : {c}, min_value : Nat, max_value : Nat, total_count : Nat,
            counts : [Indices(c) -> Nat]]
  /\ h.total_count = SumOver(h.counts, Indices(c))
  /\ \A i \in Indices(c) : h.counts[i] # 0 => hdr_value_at_index(c, i) < INT64_MAX

\* max_value is equivalent to the largest value counted, or 0.
MaxFits(h) ==
  LET top == counts_index_for(h.cfg, h.max_value) IN
  /\ h.max_value < Top(h.cfg)
  /\ h.max_value # 0 => h.counts[top] # 0
  /\ \A i \in Indices(h.cfg) : h.counts[i] # 0 => i <= top

\* min_value is equivalent to the smallest value counted that is not 0.
MinFits(h) ==
  LET low == counts_index_for(h.cfg, h.min_value) IN
  /\ h.min_value <= INT64_MAX
  /\ h.min_value < INT64_MAX => low \in Indices(h.cfg) /\ h.counts[low] # 0
  /\ \A i \in Indices(h.cfg) \ {0} : h.counts[i] # 0 => h.min_value < INT64_MAX /\ low <= i

\* A histogram whose total and extremes agree with its counts
Good(h) == Consistent(h) /\ MaxFits(h) /\ MinFits(h)

\* The values of bag that have index i
Part(c, bag, i) == {v \in DOMAIN bag : counts_index_for(c, v) = i}

\* h counts the values of bag, all of which are in its range.
Counts(h, bag) ==
  /\ IsFiniteSet(DOMAIN bag) /\ bag \in [DOMAIN bag -> Nat \ {0}]
  /\ \A v \in DOMAIN bag : v \in Nat /\ v < Top(h.cfg) /\ v < INT64_MAX
  /\ \A i \in Indices(h.cfg) : h.counts[i] = SumOver(bag, Part(h.cfg, bag, i))

\* Two configurations that differ in their range only
SameLayout(c, d) ==
  /\ c.unit_magnitude = d.unit_magnitude
  /\ c.sub_bucket_half_count_magnitude = d.sub_bucket_half_count_magnitude
  /\ ConfigOK(c) /\ ConfigOK(d)
-------------------------------------------------------------------------------
(* Ranges of values                                                          *)

\* Such configurations place every value at the same index.
LEMMA LayoutShared ==
  ASSUME NEW c, NEW d, SameLayout(c, d)
  PROVE  /\ \A v : counts_index_for(c, v) = counts_index_for(d, v)
         /\ \A i : hdr_value_at_index(c, i) = hdr_value_at_index(d, i)
<1>1. /\ c.unit_magnitude = d.unit_magnitude
      /\ c.sub_bucket_half_count_magnitude = d.sub_bucket_half_count_magnitude
      /\ c.sub_bucket_half_count = d.sub_bucket_half_count
      /\ c.sub_bucket_mask = d.sub_bucket_mask
  BY DEF SameLayout, ConfigOK
<1>2. \A v : get_bucket_index(c, v) = get_bucket_index(d, v) BY <1>1 DEF get_bucket_index
<1>3. \A v : counts_index_for(c, v) = counts_index_for(d, v)
  BY <1>1, <1>2 DEF counts_index_for, counts_index
<1>4. \A i : hdr_value_at_index(c, i) = hdr_value_at_index(d, i) BY <1>1 DEF hdr_value_at_index
<1> QED BY <1>3, <1>4

\* The end of a range belongs to it.
LEMMA HighestInRange ==
  ASSUME NEW c, ConfigOK(c), NEW value \in Nat, value < Top(c)
  PROVE  LET high == highest_equivalent_value(c, value)
         IN  /\ high \in Nat /\ high < Top(c)
             /\ counts_index_for(c, high) = counts_index_for(c, value)
<1> DEFINE high == highest_equivalent_value(c, value)
           b == get_bucket_index(c, value)
           s == get_sub_bucket_index(value, b, c.unit_magnitude)
<1>1. value < Pow2[63] BY TopBounds
<1>2. Located(c, value, b, s) BY <1>1, Locate
<1> HIDE DEF b, s
<1>3. b \in Nat /\ s \in Nat /\ b + c.unit_magnitude \in Nat
      /\ counts_index_for(c, value) = PlaceOf(c, b, s)
      /\ lowest_equivalent_value(c, value) = s * Pow2[b + c.unit_magnitude]
      /\ hdr_size_of_equivalent_value_range(c, value) = Pow2[b + c.unit_magnitude]
  BY <1>1, <1>2, LocatedResults
<1>4. PICK p \in Nat \ {0} : p = Pow2[b + c.unit_magnitude] BY <1>3, Pow2Type
<1>5. high = s * p + p - 1
  BY <1>3, <1>4 DEF highest_equivalent_value, hdr_next_non_equivalent_value
<1>6. (s + 1) * p = s * p + p /\ s * p \in Nat BY <1>3
<1>7. high \in Nat /\ s * p <= high /\ high < (s + 1) * p BY <1>5, <1>6
<1> HIDE DEF high
<1>8. Located(c, high, b, s) BY <1>2, <1>4, <1>7 DEF Located
<1>9. high < Top(c) BY <1>2, <1>7, <1>8, LocatedBelowTop
<1>10. high < Pow2[63] BY <1>7, <1>9, TopBounds
<1>11. counts_index_for(c, high) = PlaceOf(c, b, s) BY <1>7, <1>8, <1>10, LocatedResults
<1> QED BY <1>3, <1>7, <1>9, <1>11 DEF high

\* What the other proofs need to know of a value in the range.
LEMMA ValueInRange ==
  ASSUME NEW c, ConfigOK(c), NEW value \in Nat, value < Top(c)
  PROVE  /\ value < Pow2[63]
         /\ counts_index_for(c, value) \in Indices(c) /\ counts_index_for(c, value) \in Nat
         /\ hdr_value_at_index(c, counts_index_for(c, value)) = lowest_equivalent_value(c, value)
         /\ lowest_equivalent_value(c, value) \in Nat
         /\ lowest_equivalent_value(c, value) <= value
<1>1. value < Pow2[63] BY TopBounds
<1> QED BY <1>1, IndexOfValue

\* The indices; 0 is that of the value 0.
LEMMA IndicesAre ==
  ASSUME NEW c, ConfigOK(c)
  PROVE  /\ c.counts_len \in Nat \ {0} /\ Indices(c) \subseteq Nat /\ 0 \in Indices(c)
         /\ IsFiniteSet(Indices(c))
         /\ counts_index_for(c, 0) = 0
<1>1. PICK n \in Nat \ {0}, p \in Nat \ {0} :
        n = c.bucket_count + 1 /\ p = Pow2[c.sub_bucket_half_count_magnitude]
  BY Pow2Type DEF ConfigOK
<1>2. n * p \in Nat \ {0} OBVIOUS
<1>3. c.counts_len \in Nat \ {0} BY <1>1, <1>2 DEF ConfigOK
<1>4. Indices(c) \subseteq Nat /\ 0 \in Indices(c) /\ IsFiniteSet(Indices(c))
  BY <1>3, FS_Interval DEF Indices
<1>5. counts_index_for(c, 0) = 0
  <2>1. hdr_value_at_index(c, 0) \in Nat /\ hdr_value_at_index(c, 0) < Top(c)
        /\ counts_index_for(c, hdr_value_at_index(c, 0)) = 0
    BY <1>4, ValueOfIndex
  <2>2. hdr_value_at_index(c, 0) < Pow2[63] BY <2>1, TopBounds
  <2>3. 0 \in Nat /\ 0 <= hdr_value_at_index(c, 0) /\ 0 < Pow2[63] BY <2>1, <2>2, Pow2Type
  <2>4. counts_index_for(c, 0) <= 0 BY <2>1, <2>2, <2>3, IndexMonotone
  <2>5. counts_index_for(c, 0) \in Nat BY <2>3, IndexOfValue
  <2> QED BY <2>4, <2>5
<1> QED BY <1>3, <1>4, <1>5

-------------------------------------------------------------------------------
(* Updates                                                                   *)

\* What hdr_record_values makes of the fields
LEMMA RecordFields ==
  ASSUME NEW h, Consistent(h), NEW v \in Nat, v < INT64_MAX, v < Top(h.cfg), NEW n \in Nat \ {0}
  PROVE  LET g == hdr_record_values(h, v, n)
             j == counts_index_for(h.cfg, v)
         IN  /\ j \in Indices(h.cfg)
             /\ g \in [cfg : {h.cfg}, min_value : Nat, max_value : Nat, total_count : Nat,
                       counts : [Indices(h.cfg) -> Nat]]
             /\ g.cfg = h.cfg
             /\ g.total_count = h.total_count + n
             /\ g.min_value = (IF v < h.min_value /\ v # 0 THEN v ELSE h.min_value)
             /\ g.max_value = (IF v > h.max_value THEN v ELSE h.max_value)
             /\ g.counts[j] = h.counts[j] + n
             /\ \A i \in Indices(h.cfg) : i # j => g.counts[i] = h.counts[i]
<1> DEFINE c == h.cfg
           j == counts_index_for(c, v)
           k == [h EXCEPT !.counts[j] = @ + n, !.total_count = @ + n]
           g == hdr_record_values(h, v, n)
<1>1. ConfigOK(c) BY DEF Consistent
<1>2. j \in Indices(c) BY <1>1, ValueInRange
<1>3. h \in [cfg : {c}, min_value : Nat, max_value : Nat, total_count : Nat,
             counts : [Indices(c) -> Nat]]
  BY DEF Consistent
<1>4. Accepts(h, v) BY <1>2 DEF Accepts
<1>5. g = update_min_max(k, v) BY <1>4 DEF hdr_record_values
<1> HIDE DEF j
<1>6. k \in [cfg : {c}, min_value : Nat, max_value : Nat, total_count : Nat,
             counts : [Indices(c) -> Nat]]
      /\ k.min_value = h.min_value /\ k.max_value = h.max_value
      /\ k.total_count = h.total_count + n
      /\ k.counts = [h.counts EXCEPT ![j] = @ + n]
  <2> DEFINE R == [cfg : {c}, min_value : Nat, max_value : Nat, total_count : Nat,
                   counts : [Indices(c) -> Nat]]
             k1 == [h EXCEPT !.counts[j] = @ + n]
  <2>1. [h.counts EXCEPT ![j] = @ + n] \in [Indices(c) -> Nat] BY <1>2, <1>3
  <2>2. k1 \in R BY <1>2, <1>3, <2>1
  <2>3. k = [k1 EXCEPT !.total_count = @ + n] BY <1>3
  <2>4. k.min_value = h.min_value /\ k.max_value = h.max_value
        /\ k.total_count = h.total_count + n
        /\ k.counts = [h.counts EXCEPT ![j] = @ + n]
    BY <1>2, <1>3
  <2> HIDE DEF k1, k
  <2>5. k1.total_count + n \in Nat BY <2>2
  <2>6. k \in R BY <2>2, <2>3, <2>5
  <2> QED BY <2>4, <2>6
<1> HIDE DEF k, g
<1>7. g = [k EXCEPT !.min_value = IF v < k.min_value /\ v # 0 THEN v ELSE @,
                    !.max_value = IF v > @ THEN v ELSE @]
  BY <1>5 DEF update_min_max, Larger
<1>8. g \in [cfg : {c}, min_value : Nat, max_value : Nat, total_count : Nat,
             counts : [Indices(c) -> Nat]]
      /\ g.cfg = c /\ g.total_count = k.total_count /\ g.counts = k.counts
      /\ g.min_value = (IF v < h.min_value /\ v # 0 THEN v ELSE h.min_value)
      /\ g.max_value = (IF v > h.max_value THEN v ELSE h.max_value)
  BY <1>6, <1>7
<1>9. h.counts \in [Indices(c) -> Nat] BY <1>3
<1>10. /\ g.counts[j] = h.counts[j] + n
       /\ \A i \in Indices(c) : i # j => g.counts[i] = h.counts[i]
  BY <1>2, <1>6, <1>8, <1>9
<1> QED BY <1>2, <1>6, <1>8, <1>10 DEF g, j

\* Recording a value keeps a histogram good, and counts it.
LEMMA RecordIsGood ==
  ASSUME NEW h, Good(h), NEW v \in Nat, v < INT64_MAX, v < Top(h.cfg), NEW n \in Nat \ {0}
  PROVE  Good(hdr_record_values(h, v, n))
<1> DEFINE c == h.cfg
           j == counts_index_for(c, v)
           g == hdr_record_values(h, v, n)
<1>1. Consistent(h) /\ ConfigOK(c) BY DEF Good, Consistent
<1>2. /\ j \in Indices(c)
      /\ g \in [cfg : {c}, min_value : Nat, max_value : Nat, total_count : Nat,
                counts : [Indices(c) -> Nat]]
      /\ g.cfg = c
      /\ g.total_count = h.total_count + n
      /\ g.min_value = (IF v < h.min_value /\ v # 0 THEN v ELSE h.min_value)
      /\ g.max_value = (IF v > h.max_value THEN v ELSE h.max_value)
      /\ g.counts[j] = h.counts[j] + n
      /\ \A i \in Indices(c) : i # j => g.counts[i] = h.counts[i]
  BY <1>1, RecordFields
<1>3. h.min_value \in Nat /\ h.max_value \in Nat /\ h.counts \in [Indices(c) -> Nat]
      /\ h.total_count = SumOver(h.counts, Indices(c))
      /\ \A i \in Indices(c) : h.counts[i] # 0 => hdr_value_at_index(c, i) < INT64_MAX
  BY <1>1 DEF Consistent
<1>4. /\ Indices(c) \subseteq Nat /\ 0 \in Indices(c) /\ IsFiniteSet(Indices(c))
      /\ counts_index_for(c, 0) = 0
  BY <1>1, IndicesAre
<1>5. v < Pow2[63] /\ hdr_value_at_index(c, j) <= v /\ hdr_value_at_index(c, j) \in Nat
  BY <1>1, ValueInRange
<1>6. g.counts[j] # 0 /\ g.counts \in [Indices(c) -> Nat] /\ j \in Nat BY <1>2, <1>3, <1>4
<1>7. INT64_MAX \in Nat /\ INT64_MAX < Pow2[63] /\ Pow2[63] \in Nat /\ Top(c) <= Pow2[63]
      /\ Top(c) \in Nat
  BY <1>1, WidthBound, TopBounds
<1>8. \A i \in Indices(c) : h.counts[i] # 0 => g.counts[i] # 0 BY <1>2, <1>3
<1> HIDE DEF g
<1>9. Consistent(g)
  <2>1. g.total_count = SumOver(g.counts, Indices(c))
    <3> DEFINE f == h.counts
               e == g.counts
               I == Indices(c)
    <3>1. (\A i \in I : f[i] \in Int /\ (i # j => e[i] = f[i])) /\ e[j] = f[j] + n
          /\ IsFiniteSet(I) /\ j \in I /\ n \in Int
      BY <1>2, <1>3, <1>4
    <3> HIDE DEF f, e, I, j
    <3>2. SumOver(e, I) = SumOver(f, I) + n BY <3>1, SumChange
    <3> QED BY <1>2, <1>3, <3>2 DEF f, e, I
  <2>2. ASSUME NEW i \in Indices(c), g.counts[i] # 0 PROVE hdr_value_at_index(c, i) < INT64_MAX
    <3>1. CASE i = j BY <1>5, <1>7, <3>1
    <3>2. CASE i # j BY <1>2, <1>3, <2>2, <3>2
    <3> QED BY <3>1, <3>2
  <2> QED BY <1>1, <1>2, <2>1, <2>2 DEF Consistent
<1>10. MaxFits(g)
  <2>1. /\ h.max_value < Top(c)
        /\ h.max_value # 0 => h.counts[counts_index_for(c, h.max_value)] # 0
        /\ \A i \in Indices(c) : h.counts[i] # 0 => i <= counts_index_for(c, h.max_value)
    BY DEF Good, MaxFits
  <2>2. counts_index_for(c, h.max_value) \in Indices(c)
        /\ counts_index_for(c, h.max_value) \in Nat /\ h.max_value < Pow2[63]
    BY <1>1, <1>3, <2>1, ValueInRange
  <2>3. CASE v > h.max_value
    <3>1. g.max_value = v BY <1>2, <2>3
    <3>2. counts_index_for(c, h.max_value) <= j BY <1>1, <1>3, <1>5, <2>3, IndexMonotone
    <3>3. \A i \in Indices(c) : g.counts[i] # 0 => i <= j
      BY <1>2, <1>4, <1>6, <2>1, <2>2, <3>2
    <3> QED BY <1>2, <1>6, <3>1, <3>3 DEF MaxFits
  <2>4. CASE ~(v > h.max_value)
    <3>1. g.max_value = h.max_value BY <1>2, <2>4
    <3>2. j <= counts_index_for(c, h.max_value)
      <4>1. v <= h.max_value BY <1>3, <2>4
      <4> QED BY <1>1, <1>3, <2>2, <4>1, IndexMonotone
    <3>3. \A i \in Indices(c) : g.counts[i] # 0 => i <= counts_index_for(c, h.max_value)
      BY <1>2, <1>4, <1>6, <2>1, <2>2, <3>2
    <3>4. h.max_value # 0 => g.counts[counts_index_for(c, h.max_value)] # 0
      BY <1>8, <2>1, <2>2
    <3> QED BY <1>2, <2>1, <3>1, <3>3, <3>4 DEF MaxFits
  <2> QED BY <2>3, <2>4
<1>11. MinFits(g)
  <2>1. /\ h.min_value <= INT64_MAX
        /\ h.min_value < INT64_MAX => /\ counts_index_for(c, h.min_value) \in Indices(c)
                                      /\ h.counts[counts_index_for(c, h.min_value)] # 0
        /\ \A i \in Indices(c) \ {0} : h.counts[i] # 0 =>
             h.min_value < INT64_MAX /\ counts_index_for(c, h.min_value) <= i
    BY DEF Good, MinFits
  <2>2. CASE v < h.min_value /\ v # 0
    <3>1. g.min_value = v BY <1>2, <2>2
    <3>2. h.min_value < Pow2[63] BY <1>3, <1>7, <2>1
    <3>3. j <= counts_index_for(c, h.min_value) BY <1>1, <1>3, <2>2, <3>2, IndexMonotone
    <3>4. counts_index_for(c, h.min_value) \in Nat BY <1>1, <1>3, <3>2, IndexOfValue
    <3>5. \A i \in Indices(c) \ {0} : g.counts[i] # 0 => j <= i
      BY <1>2, <1>4, <1>6, <2>1, <3>3, <3>4
    <3> QED BY <1>2, <1>6, <1>7, <3>1, <3>5 DEF MinFits
  <2>3. CASE ~(v < h.min_value /\ v # 0)
    <3>1. g.min_value = h.min_value BY <1>2, <2>3
    <3>2. v # 0 => h.min_value < INT64_MAX /\ counts_index_for(c, h.min_value) <= j
      <4>1. SUFFICES ASSUME v # 0 PROVE h.min_value < INT64_MAX /\ counts_index_for(c, h.min_value) <= j
        OBVIOUS
      <4>2. h.min_value <= v BY <1>3, <2>3, <4>1
      <4>3. counts_index_for(c, h.min_value) <= j BY <1>1, <1>3, <1>5, <4>2, IndexMonotone
      <4>4. h.min_value < INT64_MAX BY <1>3, <1>7, <4>2
      <4> QED BY <4>3, <4>4
    <3>3. v = 0 => j = 0 BY <1>4
    <3>4. \A i \in Indices(c) \ {0} : g.counts[i] # 0 =>
            h.min_value < INT64_MAX /\ counts_index_for(c, h.min_value) <= i
      BY <1>2, <2>1, <3>2, <3>3
    <3>5. h.min_value < INT64_MAX => /\ counts_index_for(c, h.min_value) \in Indices(c)
                                     /\ g.counts[counts_index_for(c, h.min_value)] # 0
      BY <1>8, <2>1
    <3> QED BY <1>2, <2>1, <3>1, <3>4, <3>5 DEF MinFits
  <2> QED BY <2>2, <2>3
<1> QED BY <1>9, <1>10, <1>11 DEF Good, g

\* The same for a value that need not be in the range
LEMMA RecordCounts ==
  ASSUME NEW h, Good(h), NEW v \in Nat, v < INT64_MAX, NEW n \in Nat \ {0}
  PROVE  LET g == hdr_record_values(h, v, n)
         IN  /\ Good(g) /\ g.cfg = h.cfg
             /\ \A i \in Indices(h.cfg) :
                  /\ g.counts[i] \in Nat /\ h.counts[i] \in Nat
                  /\ g.counts[i] = h.counts[i] + (IF counts_index_for(h.cfg, v) = i THEN n ELSE 0)
<1> DEFINE c == h.cfg
           j == counts_index_for(c, v)
           g == hdr_record_values(h, v, n)
<1>1. Consistent(h) /\ ConfigOK(c) /\ h.counts \in [Indices(c) -> Nat] BY DEF Good, Consistent
<1>2. v < Pow2[63] BY WidthBound, Pow2Type
<1>3. CASE v < Top(c)
  <2>1. Good(g) BY <1>3, RecordIsGood
  <2>2. g.cfg = c /\ g.counts[j] = h.counts[j] + n
        /\ \A i \in Indices(c) : i # j => g.counts[i] = h.counts[i]
    BY <1>1, <1>3, RecordFields
  <2> HIDE DEF g, j
  <2>3. \A i \in Indices(c) : h.counts[i] \in Nat /\ h.counts[i] + n \in Nat BY <1>1
  <2>4. \A i \in Indices(c) : g.counts[i] = h.counts[i] + (IF j = i THEN n ELSE 0)
    BY <2>2, <2>3
  <2>5. \A i \in Indices(c) : g.counts[i] \in Nat BY <2>3, <2>4
  <2> QED BY <2>1, <2>2, <2>3, <2>4, <2>5 DEF g, j
<1>4. CASE ~(v < Top(c))
  <2>1. j \notin Indices(c) BY <1>1, <1>2, <1>4, IndexOfValue
  <2>2. g = h BY <2>1 DEF hdr_record_values, Accepts
  <2> HIDE DEF g, j
  <2>3. \A i \in Indices(c) : h.counts[i] \in Nat /\ j # i BY <1>1, <2>1
  <2> QED BY <2>2, <2>3 DEF g, j
<1> QED BY <1>3, <1>4

\* it records the values val[x] into h, num[x] times each, for x in the subsets of S.
Recording(it, val, num, h, S) ==
  it = [s \in SUBSET S |->
          IF s = {} THEN h
          ELSE hdr_record_values(it[s \ {Pick(s)}], val[Pick(s)], num[Pick(s)])]

\* The elements of S can be recorded: value val[x], num[x] times.
Recordable(val, num, S) ==
  /\ IsFiniteSet(S)
  /\ \A x \in S : val[x] \in Nat /\ val[x] < INT64_MAX /\ num[x] \in Nat \ {0}

\* The values of S recorded one after the other, in the order FoldSet takes.
LEMMA RecordingExists ==
  ASSUME NEW h, Good(h), NEW S, NEW val, NEW num, Recordable(val, num, S)
  PROVE  \E it : Recording(it, val, num, h, S)
<1> DEFINE G == {g \in [cfg : {h.cfg}, min_value : Nat, max_value : Nat, total_count : Nat,
                        counts : [Indices(h.cfg) -> Nat]] : Good(g)}
           F == [p \in S \X G |-> hdr_record_values(p[2], val[p[1]], num[p[1]])]
<1>1. ASSUME NEW x \in S, NEW g \in G PROVE hdr_record_values(g, val[x], num[x]) \in G
  <2>1. val[x] \in Nat /\ val[x] < INT64_MAX /\ num[x] \in Nat \ {0} BY DEF Recordable
  <2>2. Good(g) /\ g.cfg = h.cfg OBVIOUS
  <2> DEFINE r == hdr_record_values(g, val[x], num[x])
  <2>3. Good(r) /\ r.cfg = h.cfg BY <2>1, <2>2, RecordCounts
  <2> HIDE DEF r
  <2> QED BY <2>3 DEF Good, Consistent, r
<1>2. h \in G BY DEF Good, Consistent
<1>3. F \in [S \X G -> G] /\ \A x \in S, g \in G : F[<<x, g>>] = hdr_record_values(g, val[x], num[x])
  <2> HIDE DEF G
  <2> QED BY <1>1
<1>4. IsFiniteSet(S) BY DEF Recordable
<1> HIDE DEF F, G
<1>5. PICK it \in [SUBSET S -> G] : FoldsOver(it, F, h, S) BY <1>2, <1>3, <1>4, FoldExists
<1>6. ASSUME NEW s \in SUBSET S
      PROVE  it[s] = IF s = {} THEN h
                     ELSE hdr_record_values(it[s \ {Pick(s)}], val[Pick(s)], num[Pick(s)])
  <2>1. CASE s = {} BY <1>5, <2>1 DEF FoldsOver
  <2>2. CASE s # {}
    <3>1. Pick(s) \in S /\ s \ {Pick(s)} \in SUBSET S BY <2>2, PickIn
    <3>2. it[s \ {Pick(s)}] \in G BY <3>1
    <3>3. it[s] = F[<<Pick(s), it[s \ {Pick(s)}]>>] BY <1>5, <2>2 DEF FoldsOver
    <3> QED BY <1>3, <2>2, <3>1, <3>2, <3>3
  <2> QED BY <2>1, <2>2
<1>7. it = [s \in SUBSET S |-> it[s]] OBVIOUS
<1>8. Recording(it, val, num, h, S) BY <1>6, <1>7 DEF Recording
<1> QED BY <1>8

\* Those of S that have index i
Having(c, val, S, i) == {x \in S : counts_index_for(c, val[x]) = i}

\* Recording the values of S keeps the histogram good, and adds to each count the values
\* that have its index.
LEMMA RecordingCounts ==
  ASSUME NEW h, Good(h), NEW S, NEW val, NEW num, Recordable(val, num, S),
         NEW it, Recording(it, val, num, h, S)
  PROVE  /\ Good(it[S]) /\ it[S].cfg = h.cfg
         /\ \A i \in Indices(h.cfg) :
              it[S].counts[i] = h.counts[i] + SumOver(num, Having(h.cfg, val, S, i))
<1> DEFINE c == h.cfg
           Right(s) == /\ Good(it[s]) /\ it[s].cfg = c
                       /\ \A i \in Indices(c) :
                            it[s].counts[i] = h.counts[i] + SumOver(num, Having(c, val, s, i))
           C == {s \in SUBSET S : Right(s)}
<1>1. \A s \in SUBSET S :
        it[s] = IF s = {} THEN h
                ELSE hdr_record_values(it[s \ {Pick(s)}], val[Pick(s)], num[Pick(s)])
  BY DEF Recording
<1>2. IsFiniteSet(S) /\ \A x \in S : val[x] \in Nat /\ val[x] < INT64_MAX /\ num[x] \in Nat \ {0}
  BY DEF Recordable
<1>3. h.counts \in [Indices(c) -> Nat] BY DEF Good, Consistent
<1>4. {} \in C
  <2>1. it[{}] = h BY <1>1
  <2>2. \A i : Having(c, val, {}, i) = {} BY DEF Having
  <2>3. \A i : SumOver(num, Having(c, val, {}, i)) = 0 BY <2>2, SumEmpty
  <2> QED BY <1>3, <2>1, <2>3
<1>5. ASSUME NEW s \in SUBSET S, s # {}, \A x \in s : s \ {x} \in C PROVE s \in C
  <2> DEFINE x == Pick(s)
             r == s \ {x}
             g == it[r]
  <2>1. x \in s /\ x \in S BY <1>5, PickIn
  <2>2. Right(r) BY <1>5, <2>1
  <2>3. val[x] \in Nat /\ val[x] < INT64_MAX /\ num[x] \in Nat \ {0} BY <1>2, <2>1
  <2>4. it[s] = hdr_record_values(g, val[x], num[x]) BY <1>1, <1>5
  <2> HIDE DEF x, r
  <2>5. Good(it[s]) /\ it[s].cfg = c
        /\ \A i \in Indices(c) :
             it[s].counts[i] = g.counts[i] + (IF counts_index_for(c, val[x]) = i THEN num[x] ELSE 0)
    BY <2>2, <2>3, <2>4, RecordCounts
  <2>6. ASSUME NEW i \in Indices(c)
        PROVE  it[s].counts[i] = h.counts[i] + SumOver(num, Having(c, val, s, i))
    <3> DEFINE H == Having(c, val, s, i)
    <3>1. IsFiniteSet(H) /\ \A y \in H : num[y] \in Int
      <4>1. H \subseteq S BY DEF Having
      <4> HIDE DEF H
      <4> QED BY <1>2, <4>1, FS_Subset
    <3>2. h.counts[i] \in Nat BY <1>3
    <3>3. g.counts[i] = h.counts[i] + SumOver(num, Having(c, val, r, i)) BY <2>2
    <3>4. CASE counts_index_for(c, val[x]) = i
      <4>1. x \in H /\ H \ {x} = Having(c, val, r, i) BY <2>1, <3>4 DEF Having, r
      <4> HIDE DEF H
      <4>2. SumOver(num, H) = num[x] + SumOver(num, H \ {x}) /\ SumOver(num, H \ {x}) \in Int
        BY <3>1, <4>1, SumRemove
      <4>3. it[s].counts[i] = h.counts[i] + SumOver(num, H \ {x}) + num[x]
        BY <2>5, <3>3, <3>4, <4>1
      <4> QED BY <2>3, <3>2, <4>2, <4>3 DEF H
    <3>5. CASE counts_index_for(c, val[x]) # i
      <4>1. H = Having(c, val, r, i) BY <3>5 DEF Having, r
      <4> HIDE DEF H
      <4>2. SumOver(num, H) \in Int BY <3>1, SumType
      <4>3. it[s].counts[i] = h.counts[i] + SumOver(num, H) + 0 BY <2>5, <3>3, <3>5, <4>1
      <4> QED BY <3>2, <4>2, <4>3 DEF H
    <3> QED BY <3>4, <3>5
  <2> QED BY <2>5, <2>6
<1>6. \A s \in SUBSET S : s \in C
  <2> HIDE DEF C
  <2> QED BY <1>2, <1>4, <1>5, SubsetInduction
<1>7. S \in C BY <1>6
<1> QED BY <1>7

\* The values recorded for a blocked caller are smaller than the one measured.
LEMMA MissingAre ==
  ASSUME NEW v \in Nat, NEW e \in Int
  PROVE  MissingValues(v, e) \subseteq 0 .. v - 1 /\ IsFiniteSet(MissingValues(v, e))
<1> DEFINE M == MissingValues(v, e)
<1>1. M \subseteq 0 .. v - 1
  <2>1. CASE e <= 0 BY <2>1 DEF MissingValues
  <2>2. CASE ~(e <= 0)
    <3>1. M = {v - k * e : k \in 1 .. v \div e - 1} BY <2>2 DEF MissingValues
    <3>2. ASSUME NEW k \in 1 .. v \div e - 1 PROVE v - k * e \in 0 .. v - 1
      <4>1. PICK q \in Nat, r \in Nat : q = v \div e /\ v = q * e + r BY <2>2
      <4>2. PICK d \in Nat : q = k + d BY <4>1
      <4>3. (k + d) * e = k * e + d * e BY <4>2
      <4>4. k * e \in Nat /\ d * e \in Nat /\ k * e >= 1
        <5>1. PICK m \in Nat, p \in Nat : e = m + 1 /\ k = p + 1 BY <2>2, <4>1
        <5>2. (p + 1) * (m + 1) = p * m + p + m + 1 /\ p * m \in Nat BY <5>1
        <5>3. d * (m + 1) \in Nat BY <4>2, <5>1
        <5> QED BY <5>1, <5>2, <5>3
      <4>5. v = k * e + d * e + r BY <4>1, <4>2, <4>3
      <4> QED BY <4>1, <4>4, <4>5
    <3> QED BY <3>1, <3>2
  <2> QED BY <2>1, <2>2
<1>2. IsFiniteSet(0 .. v - 1) BY FS_Interval
<1> QED BY <1>1, <1>2, FS_Subset

\* A fold of hdr_record_values is a recording.
LEMMA CorrectedRecording ==
  ASSUME NEW h, NEW v, NEW n, NEW e, Accepts(h, v),
         NEW val, NEW num, \A x \in MissingValues(v, e) : val[x] = x /\ num[x] = n,
         \E it : Recording(it, val, num, hdr_record_values(h, v, n), MissingValues(v, e))
  PROVE  \E it : /\ Recording(it, val, num, hdr_record_values(h, v, n), MissingValues(v, e))
                 /\ hdr_record_corrected_values(h, v, n, e) = it[MissingValues(v, e)]
<1> DEFINE S == MissingValues(v, e)
           b == hdr_record_values(h, v, n)
           Folds(it) == it = [s \in SUBSET S |->
                               IF s = {} THEN b
                               ELSE hdr_record_values(it[s \ {Pick(s)}], Pick(s), n)]
           fold == CHOOSE it : Folds(it)
<1>1. hdr_record_corrected_values(h, v, n, e) = fold[S]
  BY DEF hdr_record_corrected_values, FoldSet, MapThenFoldSet, Pick
<1>2. ASSUME NEW it PROVE Folds(it) <=> Recording(it, val, num, b, S)
  <2> HIDE DEF S, b
  <2>1. \A s \in SUBSET S : s # {} => val[Pick(s)] = Pick(s) /\ num[Pick(s)] = n
    <3>1. \A s \in SUBSET S : s # {} => Pick(s) \in S BY PickIn
    <3> QED BY <3>1 DEF S
  <2>2. [s \in SUBSET S |->
          IF s = {} THEN b ELSE hdr_record_values(it[s \ {Pick(s)}], Pick(s), n)]
        = [s \in SUBSET S |->
            IF s = {} THEN b ELSE hdr_record_values(it[s \ {Pick(s)}], val[Pick(s)], num[Pick(s)])]
    BY <2>1
  <2> QED BY <2>2 DEF Recording
<1>3. \E it : Folds(it) BY <1>2
<1>4. Folds(fold)
  <2> HIDE DEF Folds
  <2> QED BY <1>3
<1>5. Recording(fold, val, num, b, S) BY <1>2, <1>4
<1> HIDE DEF fold
<1> QED BY <1>1, <1>5

\* hdr_record_corrected_values counts the value and the missing ones.
LEMMA CorrectedCounts ==
  ASSUME NEW h, Good(h), NEW v \in Nat, v < INT64_MAX, NEW n \in Nat \ {0}, NEW e \in Int,
         Accepts(h, v)
  PROVE  LET values == {v} \union MissingValues(v, e)
             g == hdr_record_corrected_values(h, v, n, e)
             extra == Bag(values, n)
         IN  /\ Good(g) /\ g.cfg = h.cfg
             /\ IsFiniteSet(values)
             /\ \A w \in values : w \in Nat /\ w < INT64_MAX /\ w < Top(h.cfg)
             /\ \A i \in Indices(h.cfg) :
                  g.counts[i] = h.counts[i] + SumOver(extra, Part(h.cfg, extra, i))
<1> DEFINE M == MissingValues(v, e)
           values == {v} \union M
           c == h.cfg
           b == hdr_record_values(h, v, n)
           g == hdr_record_corrected_values(h, v, n, e)
           val == [x \in M |-> x]
           num == [x \in M |-> n]
<1>1. M \subseteq 0 .. v - 1 /\ IsFiniteSet(M) BY MissingAre
<1>2. ConfigOK(c) /\ h.counts \in [Indices(c) -> Nat] BY DEF Good, Consistent
<1>3. v < Top(c)
  <2>1. v < Pow2[63] BY WidthBound, Pow2Type
  <2>2. counts_index_for(c, v) \in Indices(c) BY DEF Accepts
  <2> QED BY <1>2, <2>1, <2>2, IndexOfValue
<1>4. IsFiniteSet(values) /\ v \notin M
  <2>1. v \notin M BY <1>1
  <2> HIDE DEF M
  <2> QED BY <1>1, <2>1, FS_AddElement
<1>5. \A w \in values : w \in Nat /\ w < INT64_MAX /\ w < Top(c)
  <2>1. INT64_MAX \in Nat /\ Top(c) \in Nat BY <1>2, WidthBound, TopBounds
  <2> QED BY <1>1, <1>3, <2>1
<1>6. Good(b) /\ b.cfg = c
      /\ \A i \in Indices(c) :
           /\ b.counts[i] \in Nat
           /\ b.counts[i] = h.counts[i] + (IF counts_index_for(c, v) = i THEN n ELSE 0)
  BY RecordCounts
<1> HIDE DEF M
<1>7. Recordable(val, num, M) BY <1>1, <1>5 DEF Recordable
<1>8. \A x \in M : val[x] = x /\ num[x] = n OBVIOUS
<1> HIDE DEF val, num, b
<1>9. \E it : Recording(it, val, num, b, M) BY <1>6, <1>7, RecordingExists
<1>10. PICK it : Recording(it, val, num, b, M) /\ g = it[M]
  BY <1>8, <1>9, CorrectedRecording DEF b, M
<1>11. Good(g) /\ g.cfg = c
       /\ \A i \in Indices(c) : g.counts[i] = b.counts[i] + SumOver(num, Having(c, val, M, i))
  BY <1>6, <1>7, <1>10, RecordingCounts
<1>12. ASSUME NEW i \in Indices(c)
       PROVE  g.counts[i] = h.counts[i]
                + SumOver(Bag(values, n), Part(c, Bag(values, n), i))
  <2> DEFINE bag == Bag(values, n)
             P == {w \in values : counts_index_for(c, w) = i}
             Q == Having(c, val, M, i)
  <2>1. \A w \in values : bag[w] = n /\ bag[w] \in Int BY DEF Bag
  <2>2. Q = {w \in M : counts_index_for(c, w) = i} BY <1>8 DEF Having
  <2>3. Q = P \ {v} /\ Q \subseteq values /\ Q \subseteq M BY <1>4, <2>2
  <2>4. IsFiniteSet(P) /\ IsFiniteSet(Q) /\ P \subseteq values BY <1>4, <2>3, FS_Subset
  <2>10. P = Part(c, bag, i) BY DEF Part, Bag
  <2>5. v \in P <=> counts_index_for(c, v) = i OBVIOUS
  <2> HIDE DEF bag, P, Q, values
  <2>6. SumOver(num, Q) = SumOver(bag, Q) /\ SumOver(bag, Q) \in Int
    <3>1. \A x \in Q : num[x] \in Int /\ num[x] = bag[x] BY <1>8, <2>1, <2>3
    <3>2. \A x \in Q : bag[x] \in Int BY <3>1
    <3> QED BY <2>4, <3>1, <3>2, SumSame, SumType
  <2>7. SumOver(bag, P) = (IF counts_index_for(c, v) = i THEN n ELSE 0) + SumOver(bag, Q)
    <3>1. CASE v \in P
      <4>1. \A x \in P : bag[x] \in Int BY <2>1, <2>4
      <4>2. SumOver(bag, P) = bag[v] + SumOver(bag, Q) BY <2>3, <2>4, <3>1, <4>1, SumRemove
      <4> QED BY <2>1, <2>4, <2>5, <3>1, <4>2
    <3>2. CASE v \notin P
      <4>1. P = Q BY <2>3, <3>2
      <4> QED BY <2>5, <2>6, <3>2, <4>1
    <3> QED BY <3>1, <3>2
  <2>8. g.counts[i] = b.counts[i] + SumOver(bag, Q) BY <1>11, <2>6 DEF Q
  <2>9. b.counts[i] = h.counts[i] + (IF counts_index_for(c, v) = i THEN n ELSE 0)
        /\ h.counts[i] \in Nat
    BY <1>2, <1>6
  <2> HIDE DEF g
  <2> QED BY <2>6, <2>7, <2>8, <2>9, <2>10 DEF bag
<1> QED BY <1>4, <1>5, <1>11, <1>12 DEF M

\* A total that fits the iterator's integer is not changed by the conversion.
LEMMA TotalFits ==
  ASSUME NEW n \in Nat, n <= INT32_MAX
  PROVE  ToInt32(n) = n
<1>1. PICK k \in Nat \ {0} : k = INT32_MAX + 1
  <2>1. INT32_MAX + 1 \in Nat \ {0} BY WidthAssumption
  <2> QED BY <2>1
<1>2. INT32_MAX \in Nat BY WidthAssumption
<1>3. PICK h \in Nat \ {0} : h = 2 * k OBVIOUS
<1>4. PICK r \in 0 .. h - 1 : r = n + k BY <1>1, <1>2, <1>3
<1>5. r % h = r
  <2>1. r = 0 * h + r /\ 0 \in Nat BY <1>4
  <2> QED BY <2>1, QuotientOf
<1>6. n + INT32_MAX + 1 = r /\ 2 * (INT32_MAX + 1) = h /\ INT32_MAX + 1 = k
  BY <1>1, <1>2, <1>3, <1>4
<1>7. ToInt32(n) = (r % h) - k BY <1>6 DEF ToInt32
<1> QED BY <1>4, <1>5, <1>7

\* The counts up to an index, zeros included
LEMMA CumulativeSum ==
  ASSUME NEW h, Consistent(h), NEW i \in -1 .. h.cfg.counts_len - 1
  PROVE  /\ CumulativeCount(h, i) = SumOver(h.counts, 0 .. i)
         /\ 0 .. i \in SUBSET Indices(h.cfg)
<1> DEFINE I == Indices(h.cfg)
           R == {j \in RecordedIndices(h) : j <= i}
<1>1. h.counts \in [I -> Nat] /\ IsFiniteSet(I) /\ I = 0 .. h.cfg.counts_len - 1
      /\ h.cfg.counts_len \in Nat
  BY IndicesAre DEF Consistent, Indices
<1>2. 0 .. i \in SUBSET I /\ IsFiniteSet(0 .. i)
  <2>1. 0 .. i \in SUBSET I BY <1>1
  <2> QED BY <1>1, <2>1, FS_Subset
<1>3. R \in SUBSET (0 .. i) /\ \A j \in (0 .. i) \ R : h.counts[j] = 0
  BY <1>1, <1>2 DEF RecordedIndices
<1>4. \A j \in 0 .. i : h.counts[j] \in Int BY <1>1, <1>2
<1>5. CumulativeCount(h, i) = SumOver(h.counts, R) BY DEF CumulativeCount, SumOver
<1> HIDE DEF R
<1>6. SumOver(h.counts, R) = SumOver(h.counts, 0 .. i) BY <1>2, <1>3, <1>4, SumSupport
<1> QED BY <1>2, <1>5, <1>6

\* The iterator of hdr_add comes to all indices when the total fits (hdr_histogram.c:434).
LEMMA AllAdded ==
  ASSUME NEW from, Good(from), from.total_count <= INT32_MAX
  PROVE  AddedIndices(from) = RecordedIndices(from)
<1> DEFINE I == Indices(from.cfg)
<1>1. /\ from.counts \in [I -> Nat] /\ IsFiniteSet(I) /\ I = 0 .. from.cfg.counts_len - 1
      /\ from.cfg.counts_len \in Nat /\ from.total_count = SumOver(from.counts, I)
      /\ from.total_count \in Nat /\ Consistent(from)
  BY IndicesAre DEF Good, Consistent, Indices
<1>2. ToInt32(from.total_count) = from.total_count BY <1>1, TotalFits
<1>3. ASSUME NEW i \in RecordedIndices(from)
      PROVE  CumulativeCount(from, i - 1) < from.total_count
  <2>1. i \in I /\ from.counts[i] \in Nat \ {0} /\ i \in Nat
        /\ i - 1 \in -1 .. from.cfg.counts_len - 1
    BY <1>1 DEF RecordedIndices
  <2> DEFINE J == 0 .. i - 1
  <2>2. CumulativeCount(from, i - 1) = SumOver(from.counts, J) /\ J \in SUBSET I
    BY <1>1, <2>1, CumulativeSum
  <2>3. i \notin J BY <2>1
  <2>4. \A x \in I : from.counts[x] \in Nat BY <1>1
  <2> HIDE DEF I, J
  <2>5. SumOver(from.counts, J) \in Nat
        /\ SumOver(from.counts, J) + from.counts[i] <= SumOver(from.counts, I)
    BY <1>1, <2>1, <2>2, <2>3, <2>4, SumPart
  <2> QED BY <1>1, <2>1, <2>2, <2>5
<1> QED BY <1>2, <1>3 DEF AddedIndices, RecordedIndices

\* hdr_add records the values at the indices of from (hdr_histogram.c:431-449).
LEMMA AddRecording ==
  ASSUME NEW h, NEW from, NEW val, NEW num,
         \A i \in AddedIndices(from) :
           val[i] = hdr_value_at_index(from.cfg, i) /\ num[i] = from.counts[i],
         \E it : Recording(it, val, num, h, AddedIndices(from))
  PROVE  \E it : /\ Recording(it, val, num, h, AddedIndices(from))
                 /\ hdr_add(h, from) = it[AddedIndices(from)]
<1> DEFINE S == AddedIndices(from)
           Folds(it) ==
             it = [s \in SUBSET S |->
                    IF s = {} THEN h
                    ELSE hdr_record_values(it[s \ {Pick(s)}],
                                           hdr_value_at_index(from.cfg, Pick(s)),
                                           from.counts[Pick(s)])]
           fold == CHOOSE it : Folds(it)
<1>1. hdr_add(h, from) = fold[S] BY DEF hdr_add, FoldSet, MapThenFoldSet, Pick
<1>2. ASSUME NEW it PROVE Folds(it) <=> Recording(it, val, num, h, S)
  <2> HIDE DEF S
  <2>1. \A s \in SUBSET S : s # {} => /\ val[Pick(s)] = hdr_value_at_index(from.cfg, Pick(s))
                                      /\ num[Pick(s)] = from.counts[Pick(s)]
    <3>1. \A s \in SUBSET S : s # {} => Pick(s) \in S BY PickIn
    <3> QED BY <3>1 DEF S
  <2>2. [s \in SUBSET S |->
          IF s = {} THEN h
          ELSE hdr_record_values(it[s \ {Pick(s)}], hdr_value_at_index(from.cfg, Pick(s)),
                                 from.counts[Pick(s)])]
        = [s \in SUBSET S |->
            IF s = {} THEN h ELSE hdr_record_values(it[s \ {Pick(s)}], val[Pick(s)], num[Pick(s)])]
    BY <2>1
  <2> QED BY <2>2 DEF Recording
<1>3. \E it : Folds(it) BY <1>2
<1>4. Folds(fold)
  <2> HIDE DEF Folds
  <2> QED BY <1>3
<1>5. Recording(fold, val, num, h, S) BY <1>2, <1>4
<1> HIDE DEF fold
<1> QED BY <1>1, <1>5

\* hdr_add adds the counts of the indices it has.
LEMMA AddCounts ==
  ASSUME NEW h, Good(h), NEW from, Good(from), SameLayout(h.cfg, from.cfg)
  PROVE  LET g == hdr_add(h, from)
         IN  /\ Good(g) /\ g.cfg = h.cfg
             /\ \A i \in Indices(h.cfg) :
                  g.counts[i] = h.counts[i]
                                  + (IF i \in AddedIndices(from) THEN from.counts[i] ELSE 0)
<1> DEFINE S == AddedIndices(from)
           c == h.cfg
           d == from.cfg
           g == hdr_add(h, from)
           val == [i \in S |-> hdr_value_at_index(d, i)]
           num == [i \in S |-> from.counts[i]]
<1>1. ConfigOK(c) /\ ConfigOK(d) /\ h.counts \in [Indices(c) -> Nat]
      /\ from.counts \in [Indices(d) -> Nat]
      /\ \A i \in Indices(d) : from.counts[i] # 0 => hdr_value_at_index(d, i) < INT64_MAX
  BY DEF Good, Consistent
<1>2. S \subseteq Indices(d) /\ IsFiniteSet(S)
      /\ \A i \in S : from.counts[i] \in Nat \ {0} /\ hdr_value_at_index(d, i) < INT64_MAX
  <2>1. S \subseteq Indices(d)
        /\ \A i \in S : from.counts[i] \in Nat \ {0} /\ hdr_value_at_index(d, i) < INT64_MAX
    BY <1>1 DEF AddedIndices, RecordedIndices
  <2>2. IsFiniteSet(Indices(d)) BY <1>1, IndicesAre
  <2> QED BY <2>1, <2>2, FS_Subset
<1>3. \A i \in S : hdr_value_at_index(d, i) \in Nat
        /\ counts_index_for(c, hdr_value_at_index(d, i)) = i
  <2>1. \A i \in S : hdr_value_at_index(d, i) \in Nat
          /\ counts_index_for(d, hdr_value_at_index(d, i)) = i
    BY <1>1, <1>2, ValueOfIndex
  <2> QED BY <2>1, LayoutShared
<1>4. \A i \in S : val[i] = hdr_value_at_index(d, i) /\ num[i] = from.counts[i] OBVIOUS
<1> HIDE DEF val, num, S
<1>5. Recordable(val, num, S) BY <1>2, <1>3, <1>4 DEF Recordable
<1>6. \E it : Recording(it, val, num, h, S) BY <1>5, RecordingExists
<1>7. PICK it : Recording(it, val, num, h, S) /\ g = it[S] BY <1>4, <1>6, AddRecording DEF S
<1>8. Good(g) /\ g.cfg = c
      /\ \A i \in Indices(c) : g.counts[i] = h.counts[i] + SumOver(num, Having(c, val, S, i))
  BY <1>5, <1>7, RecordingCounts
<1>9. ASSUME NEW i PROVE SumOver(num, Having(c, val, S, i)) = IF i \in S THEN from.counts[i] ELSE 0
  <2>1. CASE i \in S
    <3>1. Having(c, val, S, i) = {i} BY <1>3, <1>4, <2>1 DEF Having
    <3>2. IsFiniteSet({i}) /\ {i} \ {i} = {} BY FS_Singleton
    <3>3. \A x \in {i} : num[x] \in Int BY <1>2, <1>4, <2>1
    <3>4. SumOver(num, {i}) = num[i] + SumOver(num, {}) BY <3>2, <3>3, SumRemove
    <3> QED BY <1>2, <1>4, <2>1, <3>1, <3>4, SumEmpty
  <2>2. CASE i \notin S
    <3>1. Having(c, val, S, i) = {} BY <1>3, <1>4, <2>2 DEF Having
    <3> QED BY <2>2, <3>1, SumEmpty
  <2> QED BY <2>1, <2>2
<1> QED BY <1>8, <1>9 DEF S

\* A histogram without values
LEMMA EmptyIsGood ==
  ASSUME NEW h, ConfigOK(h.cfg),
         h \in [cfg : {h.cfg}, min_value : {INT64_MAX}, max_value : {0}, total_count : {0},
                counts : {[i \in Indices(h.cfg) |-> 0]}]
  PROVE  Good(h)
<1> DEFINE c == h.cfg
<1>1. h.min_value = INT64_MAX /\ h.max_value = 0 /\ h.total_count = 0
      /\ h.counts = [i \in Indices(c) |-> 0]
  OBVIOUS
<1>2. \A i \in Indices(c) : h.counts[i] = 0 BY <1>1
<1>3. IsFiniteSet(Indices(c)) /\ INT64_MAX \in Nat /\ Top(c) \in Nat /\ 0 < Top(c)
  <2>1. Top(c) \in Nat \ {0} BY Pow2Type DEF Top, ConfigOK
  <2> QED BY <2>1, IndicesAre, WidthBound
<1>4. SumOver(h.counts, Indices(c)) = 0 BY <1>2, <1>3, SumZero
<1>5. h \in [cfg : {c}, min_value : Nat, max_value : Nat, total_count : Nat,
             counts : [Indices(c) -> Nat]]
  BY <1>3
<1>6. Consistent(h) BY <1>1, <1>2, <1>4, <1>5 DEF Consistent
<1>7. MaxFits(h) BY <1>1, <1>2, <1>3 DEF MaxFits
<1>8. MinFits(h) BY <1>1, <1>2, <1>3 DEF MinFits
<1> QED BY <1>6, <1>7, <1>8 DEF Good

\* What EXCEPT does to the fields of a histogram.
LEMMA FieldsReplaced ==
  ASSUME NEW h, NEW c, NEW a, NEW b, NEW t, NEW f, NEW min, NEW max, NEW total, NEW counts,
         h = [cfg |-> c, min_value |-> a, max_value |-> b, total_count |-> t, counts |-> f]
  PROVE  /\ [h EXCEPT !.max_value = max, !.min_value = min, !.total_count = total]
              = [cfg |-> c, min_value |-> min, max_value |-> max, total_count |-> total,
                 counts |-> f]
         /\ [h EXCEPT !.total_count = total, !.min_value = min, !.max_value = max,
                      !.counts = counts]
              = [cfg |-> c, min_value |-> min, max_value |-> max, total_count |-> total,
                 counts |-> counts]
<1> DEFINE h1 == [h EXCEPT !.max_value = max]
           h2 == [h1 EXCEPT !.min_value = min]
           h3 == [h2 EXCEPT !.total_count = total]
           k1 == [h EXCEPT !.total_count = total]
           k2 == [k1 EXCEPT !.min_value = min]
           k3 == [k2 EXCEPT !.max_value = max]
           k4 == [k3 EXCEPT !.counts = counts]
<1>1. h3 = [h EXCEPT !.max_value = max, !.min_value = min, !.total_count = total] OBVIOUS
<1>2. k4 = [h EXCEPT !.total_count = total, !.min_value = min, !.max_value = max,
                     !.counts = counts]
  OBVIOUS
<1>3. h1 = [cfg |-> c, min_value |-> a, max_value |-> max, total_count |-> t, counts |-> f]
  OBVIOUS
<1>4. k1 = [cfg |-> c, min_value |-> a, max_value |-> b, total_count |-> total, counts |-> f]
  OBVIOUS
<1> HIDE DEF h1, k1
<1>5. h2 = [cfg |-> c, min_value |-> min, max_value |-> max, total_count |-> t, counts |-> f]
  BY <1>3
<1>6. k2 = [cfg |-> c, min_value |-> min, max_value |-> b, total_count |-> total, counts |-> f]
  BY <1>4
<1> HIDE DEF h2, k2
<1>7. h3 = [cfg |-> c, min_value |-> min, max_value |-> max, total_count |-> total, counts |-> f]
  BY <1>5
<1>8. k3 = [cfg |-> c, min_value |-> min, max_value |-> max, total_count |-> total, counts |-> f]
  BY <1>6
<1> HIDE DEF h3, k3
<1>9. k4 = [cfg |-> c, min_value |-> min, max_value |-> max, total_count |-> total,
            counts |-> counts]
  BY <1>8
<1> QED BY <1>1, <1>2, <1>7, <1>9

\* A histogram starts well (hdr_histogram.c:362-409), and a reset starts it again (411-417).
LEMMA InitIsGood ==
  ASSUME NEW lowest, NEW highest, NEW figures,
         ConfigOK(hdr_calculate_bucket_config(lowest, highest, figures))
  PROVE  LET h == hdr_init(lowest, highest, figures)
         IN  /\ Good(h) /\ h.cfg = hdr_calculate_bucket_config(lowest, highest, figures)
             /\ \A i \in Indices(h.cfg) : h.counts[i] = 0
<1> DEFINE h == hdr_init(lowest, highest, figures)
           c == hdr_calculate_bucket_config(lowest, highest, figures)
<1> HIDE DEF c
<1>1. h = [cfg |-> c, min_value |-> INT64_MAX, max_value |-> 0, total_count |-> 0,
           counts |-> [i \in Indices(c) |-> 0]]
  BY DEF hdr_init, c
<1>2. h.cfg = c /\ h.counts = [i \in Indices(c) |-> 0] BY <1>1
<1>3. h \in [cfg : {h.cfg}, min_value : {INT64_MAX}, max_value : {0}, total_count : {0},
             counts : {[i \in Indices(h.cfg) |-> 0]}]
  BY <1>1, <1>2
<1>4. ConfigOK(h.cfg) BY <1>2 DEF c
<1> HIDE DEF h
<1>5. Good(h) BY <1>3, <1>4, EmptyIsGood
<1> QED BY <1>2, <1>5 DEF h, c

LEMMA ResetIsGood ==
  ASSUME NEW h, Good(h)
  PROVE  LET g == hdr_reset(h)
         IN  Good(g) /\ g.cfg = h.cfg /\ \A i \in Indices(h.cfg) : g.counts[i] = 0
<1> DEFINE c == h.cfg
           g == hdr_reset(h)
<1>1. PICK a, b, t, f :
        h = [cfg |-> c, min_value |-> a, max_value |-> b, total_count |-> t, counts |-> f]
  BY DEF Good, Consistent
<1> HIDE DEF c
<1>2. g = [cfg |-> c, min_value |-> INT64_MAX, max_value |-> 0, total_count |-> 0,
           counts |-> [i \in Indices(c) |-> 0]]
  <2> DEFINE e == [i \in Indices(c) |-> 0]
  <2>1. g = [h EXCEPT !.total_count = 0, !.min_value = INT64_MAX, !.max_value = 0, !.counts = e]
    BY DEF hdr_reset, c
  <2> HIDE DEF e, g
  <2>2. g = [cfg |-> c, min_value |-> INT64_MAX, max_value |-> 0, total_count |-> 0, counts |-> e]
    BY <1>1, <2>1, FieldsReplaced
  <2> QED BY <2>2 DEF e
<1>3. g.cfg = c /\ g.counts = [i \in Indices(c) |-> 0] BY <1>2
<1>4. g \in [cfg : {g.cfg}, min_value : {INT64_MAX}, max_value : {0}, total_count : {0},
             counts : {[i \in Indices(g.cfg) |-> 0]}]
  BY <1>2, <1>3
<1>5. ConfigOK(g.cfg) BY <1>3 DEF Good, Consistent, c
<1> HIDE DEF g
<1>6. Good(g) BY <1>4, <1>5, EmptyIsGood
<1> QED BY <1>3, <1>6 DEF g, c

\* A nonempty set of indices has a smallest and a greatest one.
LEMMA Extremes ==
  ASSUME NEW c, ConfigOK(c), NEW S \in SUBSET Indices(c), S # {}
  PROVE  /\ Min(S) \in S /\ \A i \in S : Min(S) <= i
         /\ Max(S) \in S /\ \A i \in S : i <= Max(S)
<1>1. S \subseteq Nat /\ c.counts_len \in Nat BY IndicesAre
<1>2. \E m \in S : \A i \in S : m <= i BY <1>1, LeastNat
<1>3. \E m \in S : \A i \in S : m >= i
  <2> DEFINE n == c.counts_len
             T == {n - i : i \in S}
  <2>1. T \subseteq Nat /\ T # {}
    <3>1. \A i \in S : n - i \in Nat BY <1>1 DEF Indices
    <3> QED BY <3>1
  <2> HIDE DEF T
  <2>2. PICK m \in T : \A k \in T : m <= k BY <2>1, LeastNat
  <2>3. PICK x \in S : m = n - x BY DEF T
  <2>4. \A i \in S : n - x <= n - i BY <2>2, <2>3 DEF T
  <2> QED BY <1>1, <2>4
<1>4. Min(S) \in S /\ \A i \in S : Min(S) <= i BY <1>2 DEF Min
<1>5. Max(S) \in S /\ \A i \in S : Max(S) >= i BY <1>3 DEF Max
<1> QED BY <1>1, <1>4, <1>5

\* hdr_reset_internal_counters finds the counters that recording keeps.
LEMMA InternalCountersAreGood ==
  ASSUME NEW h, Good(h)
  PROVE  LET g == hdr_reset_internal_counters(h)
         IN  Good(g) /\ g.cfg = h.cfg /\ g.counts = h.counts
<1> DEFINE c == h.cfg
           f == h.counts
           used == {i \in Indices(c) : f[i] > 0}
           low == used \ {0}
           max == IF used = {} THEN 0
                  ELSE highest_equivalent_value(c, hdr_value_at_index(c, Max(used)))
           min == IF low = {} THEN INT64_MAX ELSE hdr_value_at_index(c, Min(low))
           total == SumOver(f, used)
           g == hdr_reset_internal_counters(h)
<1>1. ConfigOK(c) /\ f \in [Indices(c) -> Nat]
      /\ \A i \in Indices(c) : f[i] # 0 => hdr_value_at_index(c, i) < INT64_MAX
  BY DEF Good, Consistent
<1>2. g = [h EXCEPT !.max_value = max, !.min_value = min, !.total_count = total]
  BY DEF hdr_reset_internal_counters, SumOver
<1>3. used \in SUBSET Indices(c) /\ low \in SUBSET Indices(c)
      /\ \A i \in Indices(c) : f[i] # 0 <=> i \in used
  BY <1>1
<1>4. IsFiniteSet(Indices(c)) /\ Indices(c) \subseteq Nat /\ counts_index_for(c, 0) = 0
  BY <1>1, IndicesAre
<1>5. INT64_MAX \in Nat /\ INT64_MAX < Pow2[63] /\ Top(c) \in Nat /\ Top(c) <= Pow2[63]
      /\ Pow2[63] \in Nat /\ 0 < Top(c)
  <2>1. Top(c) \in Nat \ {0} BY <1>1, Pow2Type DEF Top, ConfigOK
  <2> QED BY <1>1, <2>1, WidthBound, TopBounds
<1>6. /\ max \in Nat /\ max < Top(c)
      /\ used # {} => counts_index_for(c, max) = Max(used)
  <2>1. CASE used = {} BY <1>5, <2>1
  <2>2. CASE used # {}
    <3> DEFINE i == Max(used)
               v == hdr_value_at_index(c, i)
    <3>1. i \in Indices(c) BY <1>1, <1>3, <2>2, Extremes
    <3> HIDE DEF i
    <3>2. v \in Nat /\ v < Top(c) /\ counts_index_for(c, v) = i BY <1>1, <3>1, ValueOfIndex
    <3> HIDE DEF v
    <3>3. LET high == highest_equivalent_value(c, v)
          IN  high \in Nat /\ high < Top(c) /\ counts_index_for(c, high) = i
      BY <1>1, <3>2, HighestInRange
    <3> QED BY <2>2, <3>3 DEF i, v
  <2> QED BY <2>1, <2>2
<1>7. /\ min \in Nat /\ min <= INT64_MAX
      /\ low # {} => min < INT64_MAX /\ counts_index_for(c, min) = Min(low)
      /\ low = {} => min = INT64_MAX
  <2>1. CASE low = {} BY <1>5, <2>1
  <2>2. CASE low # {}
    <3> DEFINE i == Min(low)
    <3>1. i \in low BY <1>1, <1>3, <2>2, Extremes
    <3>2. i \in Indices(c) /\ f[i] # 0 BY <1>1, <3>1
    <3> HIDE DEF i
    <3>3. hdr_value_at_index(c, i) \in Nat /\ hdr_value_at_index(c, i) < INT64_MAX
          /\ counts_index_for(c, hdr_value_at_index(c, i)) = i
      BY <1>1, <3>2, ValueOfIndex
    <3> QED BY <1>5, <2>2, <3>3 DEF i
  <2> QED BY <2>1, <2>2
<1>8. total = SumOver(f, Indices(c)) /\ total \in Nat
  <2>1. \A i \in Indices(c) : f[i] \in Int BY <1>1
  <2>2. \A i \in Indices(c) \ used : f[i] = 0 BY <1>3
  <2> HIDE DEF used, f
  <2>3. SumOver(f, used) = SumOver(f, Indices(c)) BY <1>3, <1>4, <2>1, <2>2, SumSupport
  <2>4. \A i \in Indices(c) : f[i] \in Nat BY <1>1
  <2>5. SumOver(f, Indices(c)) \in Nat BY <1>4, <2>4, SumNat
  <2> QED BY <2>3, <2>5
<1>9. PICK a, b, t : h = [cfg |-> c, min_value |-> a, max_value |-> b, total_count |-> t, counts |-> f]
  BY DEF Good, Consistent
<1> HIDE DEF max, min, total, c, f
<1>10. g = [cfg |-> c, min_value |-> min, max_value |-> max, total_count |-> total, counts |-> f]
  BY <1>2, <1>9, FieldsReplaced
<1>11. g.cfg = c /\ g.min_value = min /\ g.max_value = max /\ g.total_count = total /\ g.counts = f
       /\ g \in [cfg : {c}, min_value : Nat, max_value : Nat, total_count : Nat,
                 counts : [Indices(c) -> Nat]]
  <2>1. g.cfg = c /\ g.min_value = min /\ g.max_value = max /\ g.total_count = total
        /\ g.counts = f
    BY <1>10
  <2>2. min \in Nat /\ max \in Nat /\ total \in Nat /\ f \in [Indices(c) -> Nat]
    BY <1>1, <1>6, <1>7, <1>8
  <2>3. g \in [cfg : {c}, min_value : Nat, max_value : Nat, total_count : Nat,
               counts : [Indices(c) -> Nat]]
    BY <1>10, <2>2
  <2> QED BY <2>1, <2>3
<1> HIDE DEF g
<1>12. Consistent(g) BY <1>1, <1>8, <1>11 DEF Consistent
<1>13. MaxFits(g)
  <2>1. CASE used = {}
    <3>1. max = 0 BY <2>1 DEF max
    <3>2. \A i \in Indices(c) : f[i] = 0 BY <1>3, <2>1
    <3> QED BY <1>5, <1>11, <3>1, <3>2 DEF MaxFits
  <2>2. CASE used # {}
    <3>1. Max(used) \in used /\ \A i \in used : i <= Max(used) BY <1>1, <1>3, <2>2, Extremes
    <3>2. counts_index_for(c, max) \in used /\ \A i \in used : i <= counts_index_for(c, max)
      BY <1>6, <2>2, <3>1
    <3>3. f[counts_index_for(c, max)] # 0 BY <1>3, <3>2
    <3>4. \A i \in Indices(c) : f[i] # 0 => i <= counts_index_for(c, max) BY <1>3, <3>2
    <3> QED BY <1>6, <1>11, <3>3, <3>4 DEF MaxFits
  <2> QED BY <2>1, <2>2
<1>14. MinFits(g)
  <2>1. CASE low = {}
    <3>1. \A i \in Indices(c) \ {0} : f[i] = 0 BY <1>3, <2>1
    <3> QED BY <1>5, <1>7, <1>11, <2>1, <3>1 DEF MinFits
  <2>2. CASE low # {}
    <3>1. Min(low) \in low /\ \A i \in low : Min(low) <= i BY <1>1, <1>3, <2>2, Extremes
    <3>2. min < INT64_MAX /\ counts_index_for(c, min) \in low
          /\ \A i \in low : counts_index_for(c, min) <= i
      BY <1>7, <2>2, <3>1
    <3>3. counts_index_for(c, min) \in Indices(c) /\ f[counts_index_for(c, min)] # 0
      BY <1>3, <3>2
    <3>4. \A i \in Indices(c) \ {0} : f[i] # 0 =>
            min < INT64_MAX /\ counts_index_for(c, min) <= i
      BY <1>3, <3>2
    <3> QED BY <1>7, <1>11, <3>3, <3>4 DEF MinFits
  <2> QED BY <2>1, <2>2
<1> QED BY <1>11, <1>12, <1>13, <1>14 DEF Good, g, c, f

-------------------------------------------------------------------------------
(* Bags of values                                                            *)

\* A bag of finitely many values
FiniteBag(bag) == IsFiniteSet(DOMAIN bag) /\ bag \in [DOMAIN bag -> Nat \ {0}]

\* The union of two bags adds up their copies, over any set of values.
LEMMA BagUnionSum ==
  ASSUME NEW a, FiniteBag(a), NEW b, FiniteBag(b), NEW K
  PROVE  /\ FiniteBag(a (+) b) /\ DOMAIN (a (+) b) = DOMAIN a \union DOMAIN b
         /\ SumOver(a (+) b, K \cap DOMAIN (a (+) b))
              = SumOver(a, K \cap DOMAIN a) + SumOver(b, K \cap DOMAIN b)
<1> DEFINE u == a (+) b
           A == DOMAIN a
           B == DOMAIN b
           U == A \union B
           f == [v \in U |-> IF v \in A THEN a[v] ELSE 0]
           g == [v \in U |-> IF v \in B THEN b[v] ELSE 0]
<1>1. u = [v \in U |-> (IF v \in A THEN a[v] ELSE 0) + (IF v \in B THEN b[v] ELSE 0)]
  BY DEF (+)
<1>2. IsFiniteSet(A) /\ IsFiniteSet(B) /\ IsFiniteSet(U) BY FS_Union DEF FiniteBag
<1>3. (\A v \in A : a[v] \in Nat \ {0}) /\ (\A v \in B : b[v] \in Nat \ {0}) BY DEF FiniteBag
<1> HIDE DEF u
<1>4. DOMAIN u = U BY <1>1
<1>5. \A v \in U : /\ f[v] \in Nat /\ g[v] \in Nat /\ u[v] = f[v] + g[v]
                   /\ u[v] \in Nat \ {0}
  <2>1. ASSUME NEW v \in U
        PROVE  f[v] \in Nat /\ g[v] \in Nat /\ u[v] = f[v] + g[v] /\ u[v] \in Nat \ {0}
    <3>1. f[v] \in Nat /\ g[v] \in Nat /\ (f[v] # 0 \/ g[v] # 0) BY <1>3
    <3>2. u[v] = f[v] + g[v] BY <1>1
    <3> HIDE DEF f, g
    <3> QED BY <3>1, <3>2
  <2> QED BY <2>1
<1>6. (\A v \in A : f[v] = a[v]) /\ (\A v \in B : g[v] = b[v])
      /\ (\A v \in U \ A : f[v] = 0) /\ (\A v \in U \ B : g[v] = 0)
  OBVIOUS
<1>7. FiniteBag(u)
  <2>1. u = [v \in U |-> u[v]] BY <1>1
  <2>2. u \in [U -> Nat \ {0}] BY <1>5, <2>1
  <2> QED BY <1>2, <1>4, <2>2 DEF FiniteBag
<1> DEFINE KU == K \cap U
           KA == K \cap A
           KB == K \cap B
<1>8. IsFiniteSet(KU) /\ IsFiniteSet(KA) /\ IsFiniteSet(KB) BY <1>2, FS_Subset
<1>9. KU \subseteq U /\ KA \subseteq A /\ KB \subseteq B /\ KA \in SUBSET KU /\ KB \in SUBSET KU
      /\ (\A v \in KU \ KA : v \in U \ A) /\ (\A v \in KU \ KB : v \in U \ B)
  OBVIOUS
<1> HIDE DEF f, g, KU, KA, KB, A, B, U
<1>10. SumOver(u, KU) = SumOver(f, KU) + SumOver(g, KU)
  <2>1. \A v \in KU : f[v] \in Int /\ g[v] \in Int /\ u[v] = f[v] + g[v] BY <1>5, <1>9
  <2> QED BY <1>8, <2>1, SumPlus
<1>11. SumOver(f, KU) = SumOver(a, KA)
  <2>1. (\A v \in KU : f[v] \in Int) /\ (\A v \in KU \ KA : f[v] = 0) BY <1>5, <1>6, <1>9
  <2>2. SumOver(f, KA) = SumOver(f, KU) BY <1>8, <1>9, <2>1, SumSupport
  <2>3. \A v \in KA : f[v] \in Int /\ f[v] = a[v] BY <1>6, <1>9, <2>1
  <2>4. SumOver(f, KA) = SumOver(a, KA) BY <1>8, <2>3, SumSame
  <2> QED BY <2>2, <2>4
<1>12. SumOver(g, KU) = SumOver(b, KB)
  <2>1. (\A v \in KU : g[v] \in Int) /\ (\A v \in KU \ KB : g[v] = 0) BY <1>5, <1>6, <1>9
  <2>2. SumOver(g, KB) = SumOver(g, KU) BY <1>8, <1>9, <2>1, SumSupport
  <2>3. \A v \in KB : g[v] \in Int /\ g[v] = b[v] BY <1>6, <1>9, <2>1
  <2>4. SumOver(g, KB) = SumOver(b, KB) BY <1>8, <2>3, SumSame
  <2> QED BY <2>2, <2>4
<1> QED BY <1>4, <1>7, <1>10, <1>11, <1>12 DEF u, KU, KA, KB, A, B, U

\* A histogram that counts the values of extra in addition
LEMMA CountsMore ==
  ASSUME NEW h, NEW bag, Counts(h, bag), NEW g, g.cfg = h.cfg,
         NEW extra, FiniteBag(extra),
         \A v \in DOMAIN extra : v \in Nat /\ v < Top(h.cfg) /\ v < INT64_MAX,
         \A i \in Indices(h.cfg) :
           g.counts[i] = h.counts[i] + SumOver(extra, Part(h.cfg, extra, i))
  PROVE  Counts(g, bag (+) extra)
<1> DEFINE c == h.cfg
           u == bag (+) extra
<1>1. FiniteBag(bag) BY DEF Counts, FiniteBag
<1>2. FiniteBag(u) /\ DOMAIN u = DOMAIN bag \union DOMAIN extra
  BY <1>1, BagUnionSum
<1>3. \A v \in DOMAIN u : v \in Nat /\ v < Top(c) /\ v < INT64_MAX BY <1>2 DEF Counts
<1>4. ASSUME NEW i \in Indices(c) PROVE g.counts[i] = SumOver(u, Part(c, u, i))
  <2> DEFINE K == Part(c, u, i)
  <2>1. K = K \cap DOMAIN u BY DEF Part
  <2>2. Part(c, bag, i) = K \cap DOMAIN bag BY <1>2 DEF Part
  <2>3. Part(c, extra, i) = K \cap DOMAIN extra BY <1>2 DEF Part
  <2> HIDE DEF K
  <2>4. SumOver(u, K \cap DOMAIN u)
          = SumOver(bag, K \cap DOMAIN bag) + SumOver(extra, K \cap DOMAIN extra)
    BY <1>1, BagUnionSum
  <2>5. h.counts[i] = SumOver(bag, Part(c, bag, i)) BY DEF Counts
  <2>6. g.counts[i] = h.counts[i] + SumOver(extra, Part(c, extra, i)) OBVIOUS
  <2>7. SumOver(u, K) = g.counts[i] BY <2>1, <2>2, <2>3, <2>4, <2>5, <2>6
  <2> QED BY <2>7 DEF K
<1> HIDE DEF u
<1>5. g.cfg = c OBVIOUS
<1> QED BY <1>2, <1>3, <1>4, <1>5 DEF Counts, FiniteBag, u

\* The same number of each value
LEMMA UniformBag ==
  ASSUME NEW S, IsFiniteSet(S), NEW n \in Nat \ {0}
  PROVE  FiniteBag(Bag(S, n)) /\ DOMAIN Bag(S, n) = S
  BY DEF FiniteBag, Bag

\* Zero counts are those of no values.
LEMMA CountsNone ==
  ASSUME NEW h, \A i \in Indices(h.cfg) : h.counts[i] = 0
  PROVE  Counts(h, EmptyBag)
<1>1. DOMAIN EmptyBag = {} /\ EmptyBag \in [{} -> Nat \ {0}] BY DEF EmptyBag, SetToBag
<1>2. IsFiniteSet({}) BY FS_EmptySet
<1>3. \A i : Part(h.cfg, EmptyBag, i) = {} BY <1>1 DEF Part
<1>4. \A i : SumOver(EmptyBag, Part(h.cfg, EmptyBag, i)) = 0 BY <1>3, SumEmpty
<1> QED BY <1>1, <1>2, <1>4 DEF Counts

\* A histogram accepts the values below the end of its last bucket.
LEMMA AcceptedInRange ==
  ASSUME NEW h, Good(h), NEW v \in Int, v < INT64_MAX
  PROVE  Accepts(h, v) <=> v \in Nat /\ v < Top(h.cfg)
<1>1. ConfigOK(h.cfg) BY DEF Good, Consistent
<1>2. v \in Nat => v < Pow2[63] BY WidthBound, Pow2Type
<1>3. v \in Nat => (counts_index_for(h.cfg, v) \in Indices(h.cfg) <=> v < Top(h.cfg))
  BY <1>1, <1>2, IndexOfValue
<1> QED BY <1>3 DEF Accepts

\* The operations keep the histogram good, and it counts what its owner thinks.
Keeps(h, g, bag) == Good(g) /\ g.cfg = h.cfg /\ Counts(g, bag)

\* Each operation changes the counts as the values recorded say.
LEMMA RecordKeeps ==
  ASSUME NEW h, Good(h), NEW bag, Counts(h, bag),
         NEW v \in Int, v < INT64_MAX, NEW n \in Nat \ {0}
  PROVE  Keeps(h, hdr_record_values(h, v, n),
               IF Accepts(h, v) THEN bag (+) Bag({v}, n) ELSE bag)
<1> DEFINE c == h.cfg
           g == hdr_record_values(h, v, n)
           extra == Bag({v}, n)
<1>1. CASE Accepts(h, v)
  <2>1. v \in Nat /\ v < Top(c) BY <1>1, AcceptedInRange
  <2>2. Good(g) /\ g.cfg = c
        /\ \A i \in Indices(c) :
             g.counts[i] = h.counts[i] + (IF counts_index_for(c, v) = i THEN n ELSE 0)
    BY <2>1, RecordCounts
  <2>3. FiniteBag(extra) /\ DOMAIN extra = {v} /\ extra[v] = n
    BY FS_Singleton, UniformBag DEF Bag
  <2> HIDE DEF g, extra
  <2>4. ASSUME NEW i
        PROVE  SumOver(extra, Part(c, extra, i)) = IF counts_index_for(c, v) = i THEN n ELSE 0
    <3>1. CASE counts_index_for(c, v) = i
      <4>1. Part(c, extra, i) = {v} BY <2>3, <3>1 DEF Part
      <4>2. IsFiniteSet({v}) /\ {v} \ {v} = {} /\ (\A x \in {v} : extra[x] \in Int)
        <5>1. n \in Int OBVIOUS
        <5> QED BY <2>3, <5>1, FS_Singleton
      <4>3. SumOver(extra, {v}) = extra[v] + SumOver(extra, {}) BY <4>2, SumRemove
      <4> QED BY <2>3, <3>1, <4>1, <4>3, SumEmpty
    <3>2. CASE counts_index_for(c, v) # i
      <4>1. Part(c, extra, i) = {} BY <2>3, <3>2 DEF Part
      <4> QED BY <3>2, <4>1, SumEmpty
    <3> QED BY <3>1, <3>2
  <2>5. \A x \in DOMAIN extra : x \in Nat /\ x < Top(c) /\ x < INT64_MAX BY <2>1, <2>3
  <2>6. \A i \in Indices(c) : g.counts[i] = h.counts[i] + SumOver(extra, Part(c, extra, i))
    BY <2>2, <2>4
  <2>7. Counts(g, bag (+) extra) BY <2>2, <2>3, <2>5, <2>6, CountsMore
  <2> QED BY <1>1, <2>2, <2>7 DEF Keeps, g, extra
<1>2. CASE ~Accepts(h, v)
  <2>1. g = h BY <1>2 DEF hdr_record_values
  <2> QED BY <1>2, <2>1 DEF Keeps
<1> QED BY <1>1, <1>2

LEMMA CorrectedKeeps ==
  ASSUME NEW h, Good(h), NEW bag, Counts(h, bag),
         NEW v \in Int, v < INT64_MAX, NEW n \in Nat \ {0}, NEW e \in Int
  PROVE  Keeps(h, hdr_record_corrected_values(h, v, n, e),
               IF Accepts(h, v) THEN bag (+) Bag({v} \union MissingValues(v, e), n) ELSE bag)
<1> DEFINE c == h.cfg
           g == hdr_record_corrected_values(h, v, n, e)
           values == {v} \union MissingValues(v, e)
           extra == Bag(values, n)
<1>1. CASE Accepts(h, v)
  <2>1. v \in Nat /\ v < Top(c) BY <1>1, AcceptedInRange
  <2>2. /\ Good(g) /\ g.cfg = c
        /\ IsFiniteSet(values)
        /\ \A w \in values : w \in Nat /\ w < INT64_MAX /\ w < Top(c)
        /\ \A i \in Indices(c) : g.counts[i] = h.counts[i] + SumOver(extra, Part(c, extra, i))
    BY <1>1, <2>1, CorrectedCounts
  <2> HIDE DEF values, g
  <2>3. FiniteBag(extra) /\ DOMAIN extra = values BY <2>2, UniformBag
  <2> HIDE DEF extra
  <2>5. \A x \in DOMAIN extra : x \in Nat /\ x < Top(c) /\ x < INT64_MAX BY <2>2, <2>3
  <2>7. Counts(g, bag (+) extra) BY <2>2, <2>3, <2>5, CountsMore
  <2> QED BY <1>1, <2>2, <2>7 DEF Keeps, g, extra, values
<1>2. CASE ~Accepts(h, v)
  <2>1. g = h BY <1>2 DEF hdr_record_corrected_values
  <2> QED BY <1>2, <2>1 DEF Keeps
<1> QED BY <1>1, <1>2

LEMMA AddKeeps ==
  ASSUME NEW h, Good(h), NEW bag, Counts(h, bag),
         NEW from, Good(from), NEW frombag, Counts(from, frombag), SameLayout(h.cfg, from.cfg)
  PROVE  Keeps(h, hdr_add(h, from),
               bag (+) [v \in {v \in DOMAIN frombag :
                         /\ counts_index_for(from.cfg, v) \in AddedIndices(from)
                         /\ Accepts(h, v)} |-> frombag[v]])
<1> DEFINE c == h.cfg
           d == from.cfg
           g == hdr_add(h, from)
           fits == {v \in DOMAIN frombag :
                     /\ counts_index_for(d, v) \in AddedIndices(from)
                     /\ Accepts(h, v)}
           extra == [v \in fits |-> frombag[v]]
<1>1. ConfigOK(c) /\ ConfigOK(d) BY DEF Good, Consistent
<1>2. Good(g) /\ g.cfg = c
      /\ \A i \in Indices(c) :
           g.counts[i] = h.counts[i]
                           + (IF i \in AddedIndices(from) THEN from.counts[i] ELSE 0)
  BY AddCounts
<1>3. IsFiniteSet(DOMAIN frombag) /\ frombag \in [DOMAIN frombag -> Nat \ {0}]
      /\ (\A v \in DOMAIN frombag : v \in Nat /\ v < Top(d) /\ v < INT64_MAX)
      /\ (\A i \in Indices(d) : from.counts[i] = SumOver(frombag, Part(d, frombag, i)))
  BY DEF Counts
<1>4. IsFiniteSet(fits) BY <1>3, FS_Subset
<1>5. FiniteBag(extra) /\ DOMAIN extra = fits BY <1>3, <1>4 DEF FiniteBag
<1>6. \A v \in DOMAIN frombag : Accepts(h, v) <=> v < Top(c) BY <1>3, AcceptedInRange
<1>7. \A v \in DOMAIN extra : v \in Nat /\ v < Top(c) /\ v < INT64_MAX BY <1>3, <1>5, <1>6
<1>8. \A v \in DOMAIN frombag :
        /\ counts_index_for(c, v) = counts_index_for(d, v)
        /\ v \in fits <=> /\ counts_index_for(c, v) \in AddedIndices(from)
                         /\ counts_index_for(c, v) \in Indices(c)
  <2>1. \A v : counts_index_for(c, v) = counts_index_for(d, v) BY LayoutShared
  <2>2. \A v \in DOMAIN frombag : Accepts(h, v) <=> counts_index_for(c, v) \in Indices(c)
    BY <1>3 DEF Accepts
  <2> QED BY <2>1, <2>2
<1>9. ASSUME NEW i \in Indices(c)
      PROVE  SumOver(extra, Part(c, extra, i))
               = IF i \in AddedIndices(from) THEN from.counts[i] ELSE 0
  <2>1. CASE i \in AddedIndices(from)
    <3> DEFINE P == Part(d, frombag, i)
    <3>1. Part(c, extra, i) = P BY <1>5, <1>8, <2>1 DEF Part
    <3>2. \A v \in P : extra[v] \in Int /\ extra[v] = frombag[v]
      <4>1. P \subseteq DOMAIN frombag /\ P \subseteq fits BY <1>5, <3>1 DEF Part
      <4> QED BY <1>3, <4>1
    <3>3. IsFiniteSet(P)
      <4>1. P \subseteq DOMAIN frombag BY DEF Part
      <4> HIDE DEF P
      <4> QED BY <1>3, <4>1, FS_Subset
    <3>4. i \in Indices(d) BY <2>1 DEF AddedIndices, RecordedIndices
    <3>5. from.counts[i] = SumOver(frombag, P) BY <1>3, <3>4
    <3> HIDE DEF P, extra
    <3>6. SumOver(extra, P) = SumOver(frombag, P) BY <3>2, <3>3, SumSame
    <3> QED BY <2>1, <3>1, <3>5, <3>6
  <2>2. CASE i \notin AddedIndices(from)
    <3>1. Part(c, extra, i) = {} BY <1>5, <1>8, <2>2 DEF Part
    <3> QED BY <2>2, <3>1, SumEmpty
  <2> QED BY <2>1, <2>2
<1>10. \A i \in Indices(c) : g.counts[i] = h.counts[i] + SumOver(extra, Part(c, extra, i))
  BY <1>2, <1>9
<1> HIDE DEF extra, g
<1>11. Counts(g, bag (+) extra) BY <1>2, <1>5, <1>7, <1>10, CountsMore
<1> QED BY <1>2, <1>11 DEF Keeps, g, extra

LEMMA ResetKeeps ==
  ASSUME NEW h, Good(h)
  PROVE  Keeps(h, hdr_reset(h), EmptyBag)
<1> DEFINE g == hdr_reset(h)
<1>1. Good(g) /\ g.cfg = h.cfg /\ \A i \in Indices(h.cfg) : g.counts[i] = 0 BY ResetIsGood
<1> HIDE DEF g
<1>2. Counts(g, EmptyBag) BY <1>1, CountsNone
<1> QED BY <1>1, <1>2 DEF Keeps, g

LEMMA InternalCountersKeep ==
  ASSUME NEW h, Good(h), NEW bag, Counts(h, bag)
  PROVE  Keeps(h, hdr_reset_internal_counters(h), bag)
<1> DEFINE g == hdr_reset_internal_counters(h)
<1>1. Good(g) /\ g.cfg = h.cfg /\ g.counts = h.counts BY InternalCountersAreGood
<1> HIDE DEF g
<1>2. Counts(g, bag) BY <1>1 DEF Counts
<1> QED BY <1>1, <1>2 DEF Keeps, g

-------------------------------------------------------------------------------
(* The invariant                                                             *)

\* The configurations are those hdr_init made, and they never change.
Configured ==
  \E lowest \in Lowest, figures \in Figures, highest \in [Names -> Highest \union UsedHighest] :
    \A n \in Names :
      /\ ValidParameters(lowest, highest[n], figures)
      /\ hist[n].cfg = hdr_calculate_bucket_config(lowest, highest[n], figures)

\* The inductive invariant: each histogram is good and counts its samples.
HistInv ==
  /\ hist = [n \in Names |-> hist[n]] /\ samples = [n \in Names |-> samples[n]]
  /\ Configured
  /\ \A n \in Names : Good(hist[n]) /\ Counts(hist[n], samples[n])

\* The configuration of parameters hdr_init takes
LEMMA ConfiguredIs ==
  ASSUME NEW lowest \in Lowest, NEW figures \in Figures, NEW highest \in Highest \union UsedHighest,
         ValidParameters(lowest, highest, figures)
  PROVE  LET c == hdr_calculate_bucket_config(lowest, highest, figures)
         IN  /\ ConfigOK(c) /\ highest < Top(c)
             /\ c.highest_trackable_value = highest /\ c.lowest_trackable_value = lowest
             /\ c.significant_figures = figures
             /\ Pow2[c.unit_magnitude] <= lowest
             /\ 10^figures \in Nat
             /\ 10^figures <= Pow2[c.sub_bucket_half_count_magnitude]
             /\ lowest \in Nat /\ highest \in Nat /\ highest <= INT64_MAX
<1>1. lowest >= 1 /\ figures \in 1 .. 5 BY DEF ValidParameters
<1>2. lowest \in Int /\ highest \in 0 .. INT64_MAX BY UseAssumption
<1>3. MaskFits(lowest, figures) BY <1>1, UseAssumption DEF MaskFits
<1>4. lowest \in Nat /\ highest \in Nat /\ highest <= INT64_MAX BY <1>1, <1>2, WidthBound
<1> QED BY <1>3, <1>4, ConfigIs

\* The histograms differ in their range only.
LEMMA LayoutOf ==
  ASSUME HistInv, NEW n \in Names, NEW m \in Names
  PROVE  SameLayout(hist[n].cfg, hist[m].cfg)
<1>1. PICK lowest \in Lowest, figures \in Figures,
           highest \in [Names -> Highest \union UsedHighest] :
        \A k \in Names : hist[k].cfg = hdr_calculate_bucket_config(lowest, highest[k], figures)
  BY DEF HistInv, Configured
<1>2. \A k \in Names : ConfigOK(hist[k].cfg) BY DEF HistInv, Good, Consistent
<1>3. hist[n].cfg.unit_magnitude = hist[m].cfg.unit_magnitude
      /\ hist[n].cfg.sub_bucket_half_count_magnitude = hist[m].cfg.sub_bucket_half_count_magnitude
  <2>1. \A k \in Names : /\ hist[k].cfg.unit_magnitude = LogFloor(lowest)
                          /\ hist[k].cfg.sub_bucket_half_count_magnitude
                               = SubBucketHalfCountMagnitude(figures)
    <3>1. ASSUME NEW k \in Names
          PROVE  /\ hist[k].cfg.unit_magnitude = LogFloor(lowest)
                 /\ hist[k].cfg.sub_bucket_half_count_magnitude
                      = SubBucketHalfCountMagnitude(figures)
      <4> DEFINE c == hdr_calculate_bucket_config(lowest, highest[k], figures)
      <4>1. c.unit_magnitude = LogFloor(lowest) BY DEF hdr_calculate_bucket_config
      <4>2. c.sub_bucket_half_count_magnitude = SubBucketHalfCountMagnitude(figures)
        BY DEF hdr_calculate_bucket_config
      <4> QED BY <1>1, <4>1, <4>2
    <3> QED BY <3>1
  <2> QED BY <2>1
<1> QED BY <1>2, <1>3 DEF SameLayout

\* It holds at the beginning.
LEMMA HistInvInit == Init => HistInv
<1> SUFFICES ASSUME Init PROVE HistInv OBVIOUS
<1>1. PICK lowest \in Lowest, figures \in Figures,
           highest \in [Names -> UsedHighest] \union {[n \in Names |-> max] : max \in Highest} :
        /\ \A n \in Names : ValidParameters(lowest, highest[n], figures)
        /\ hist = [n \in Names |-> hdr_init(lowest, highest[n], figures)]
  BY DEF Init
<1>2. highest \in [Names -> Highest \union UsedHighest] OBVIOUS
<1>3. samples = [n \in Names |-> EmptyBag] BY DEF Init
<1>4. ASSUME NEW n \in Names
      PROVE  /\ Good(hist[n]) /\ Counts(hist[n], samples[n])
             /\ hist[n].cfg = hdr_calculate_bucket_config(lowest, highest[n], figures)
  <2> DEFINE h == hdr_init(lowest, highest[n], figures)
  <2>1. ConfigOK(hdr_calculate_bucket_config(lowest, highest[n], figures))
    BY <1>1, <1>2, ConfiguredIs
  <2>2. Good(h) /\ h.cfg = hdr_calculate_bucket_config(lowest, highest[n], figures)
        /\ \A i \in Indices(h.cfg) : h.counts[i] = 0
    BY <2>1, InitIsGood
  <2>3. hist[n] = h /\ samples[n] = EmptyBag BY <1>1, <1>3
  <2> HIDE DEF h
  <2>4. Counts(h, EmptyBag) BY <2>2, CountsNone
  <2> QED BY <2>2, <2>3, <2>4
<1>5. Configured BY <1>1, <1>2, <1>4 DEF Configured
<1>6. hist = [n \in Names |-> hist[n]] /\ samples = [n \in Names |-> samples[n]] BY <1>1, <1>3
<1> QED BY <1>4, <1>5, <1>6 DEF HistInv

\* One histogram changes, as its owner thinks.
LEMMA HistInvKept ==
  ASSUME HistInv, NEW n \in Names, NEW g, NEW bag, Keeps(hist[n], g, bag),
         hist' = [hist EXCEPT ![n] = g], samples' = [samples EXCEPT ![n] = bag]
  PROVE  HistInv'
<1>1. hist = [m \in Names |-> hist[m]] /\ samples = [m \in Names |-> samples[m]] BY DEF HistInv
<1>2. hist' = [m \in Names |-> hist'[m]] /\ samples' = [m \in Names |-> samples'[m]] BY <1>1
<1>3. \A m \in Names : /\ hist'[m] = (IF m = n THEN g ELSE hist[m])
                       /\ samples'[m] = (IF m = n THEN bag ELSE samples[m])
  BY <1>1
<1>4. \A m \in Names : Good(hist'[m]) /\ Counts(hist'[m], samples'[m])
  BY <1>3 DEF HistInv, Keeps
<1>5. \A m \in Names : hist'[m].cfg = hist[m].cfg BY <1>3 DEF Keeps
<1>6. Configured'
  <2>1. Configured BY DEF HistInv
  <2> QED BY <1>5, <2>1 DEF Configured
<1> QED BY <1>2, <1>4, <1>6 DEF HistInv

\* Every step keeps it.
LEMMA HistInvStep == HistInv /\ [Next]_vars => HistInv'
<1> SUFFICES ASSUME HistInv, [Next]_vars PROVE HistInv' OBVIOUS
<1>1. \A n \in Names : Good(hist[n]) /\ Counts(hist[n], samples[n]) BY DEF HistInv
<1>2. samples = [n \in Names |-> samples[n]] BY DEF HistInv
<1>3. \A v \in Values : v \in Int /\ v < INT64_MAX BY UseAssumption
<1>4. ASSUME NEW n \in Names, NEW v \in Values, NEW count \in Repeats, Record(n, v, count)
      PROVE  HistInv'
  <2> DEFINE h == hist[n]
             bag == IF Accepts(h, v) THEN samples[n] (+) Bag({v}, count) ELSE samples[n]
  <2>1. count \in Nat \ {0} BY UseAssumption
  <2>2. Keeps(h, hdr_record_values(h, v, count), bag) BY <1>1, <1>3, <2>1, RecordKeeps
  <2>3. hist' = [hist EXCEPT ![n] = hdr_record_values(h, v, count)] BY <1>4 DEF Record
  <2>4. samples' = [samples EXCEPT ![n] = bag] BY <1>2, <1>4 DEF Record
  <2> HIDE DEF bag
  <2> QED BY <2>2, <2>3, <2>4, HistInvKept
<1>5. ASSUME NEW n \in Names, NEW v \in Values, NEW count \in Repeats, NEW e \in Intervals,
             RecordCorrected(n, v, count, e)
      PROVE  HistInv'
  <2> DEFINE h == hist[n]
             values == {v} \union MissingValues(v, e)
             bag == IF Accepts(h, v) THEN samples[n] (+) Bag(values, count) ELSE samples[n]
             g == hdr_record_corrected_values(h, v, count, e)
  <2>1. count \in Nat \ {0} /\ e \in Int BY UseAssumption
  <2>2. Keeps(h, g, bag) BY <1>1, <1>3, <2>1, CorrectedKeeps
  <2>3. hist' = [hist EXCEPT ![n] = g] BY <1>5 DEF RecordCorrected
  <2>4. samples' = [samples EXCEPT ![n] = bag] BY <1>2, <1>5 DEF RecordCorrected
  <2> HIDE DEF bag, g
  <2> QED BY <2>2, <2>3, <2>4, HistInvKept
<1>6. ASSUME NEW n \in Names, NEW from \in Names \ {n}, Add(n, from)
      PROVE  HistInv'
  <2> DEFINE h == hist[n]
             bag == samples[n] (+) Fitting(n, from)
             g == hdr_add(h, hist[from])
  <2>1. SameLayout(h.cfg, hist[from].cfg) BY LayoutOf
  <2>2. Fitting(n, from)
          = [v \in {v \in DOMAIN samples[from] :
                     /\ counts_index_for(hist[from].cfg, v) \in AddedIndices(hist[from])
                     /\ Accepts(h, v)} |-> samples[from][v]]
    BY DEF Fitting
  <2>3. Keeps(h, g, bag) BY <1>1, <2>1, <2>2, AddKeeps
  <2>4. hist' = [hist EXCEPT ![n] = g] /\ samples' = [samples EXCEPT ![n] = bag]
    BY <1>6 DEF Add
  <2> HIDE DEF bag, g
  <2> QED BY <2>3, <2>4, HistInvKept
<1>7. ASSUME NEW n \in Names, Reset(n) PROVE HistInv'
  <2>1. Keeps(hist[n], hdr_reset(hist[n]), EmptyBag) BY <1>1, ResetKeeps
  <2>2. hist' = [hist EXCEPT ![n] = hdr_reset(hist[n])]
        /\ samples' = [samples EXCEPT ![n] = EmptyBag]
    BY <1>7 DEF Reset
  <2> QED BY <2>1, <2>2, HistInvKept
<1>8. ASSUME NEW n \in Names, ResetInternalCounters(n) PROVE HistInv'
  <2>1. Keeps(hist[n], hdr_reset_internal_counters(hist[n]), samples[n])
    BY <1>1, InternalCountersKeep
  <2>2. hist' = [hist EXCEPT ![n] = hdr_reset_internal_counters(hist[n])]
        /\ samples' = [samples EXCEPT ![n] = samples[n]]
    BY <1>2, <1>8 DEF ResetInternalCounters
  <2> QED BY <2>1, <2>2, HistInvKept
<1>9. ASSUME UNCHANGED vars PROVE HistInv' BY <1>9 DEF HistInv, Configured, vars
<1> QED BY <1>4, <1>5, <1>6, <1>7, <1>8, <1>9 DEF Next

\* Whatever is recorded, added, reset and rebuilt (hdr_histogram.c:362-449, 180-232), a
\* histogram counts the values it accepted and no others, each at the index of its range,
\* its total is their number, and its extremes belong to the outermost counts.
THEOREM HistogramCounts == Spec => []HistInv
<1> QED BY HistInvInit, HistInvStep, PTL DEF Spec

-------------------------------------------------------------------------------
(* The answers                                                               *)

\* Every trackable value of every histogram, used or not, has an index of its own range
\* (hdr_histogram.c:95-148, 234-294).
THEOREM TrackableValuesHaveIndices == Spec => []EveryTrackableValueHasIndex
<1>1. HistInv => EveryTrackableValueHasIndex
  <2> SUFFICES ASSUME HistInv, NEW n \in Names,
                      NEW value \in 0 .. hist[n].cfg.highest_trackable_value
               PROVE  LET c == hist[n].cfg
                      IN  /\ counts_index_for(c, value) \in Indices(c)
                          /\ hdr_value_at_index(c, counts_index_for(c, value))
                               = lowest_equivalent_value(c, value)
                          /\ value \in lowest_equivalent_value(c, value)
                                         .. highest_equivalent_value(c, value)
    BY DEF EveryTrackableValueHasIndex
  <2> DEFINE c == hist[n].cfg
  <2>1. PICK lowest \in Lowest, figures \in Figures,
             highest \in [Names -> Highest \union UsedHighest] :
          /\ ValidParameters(lowest, highest[n], figures)
          /\ c = hdr_calculate_bucket_config(lowest, highest[n], figures)
    BY DEF HistInv, Configured
  <2>2. highest[n] \in Highest \union UsedHighest OBVIOUS
  <2> HIDE DEF c
  <2>3. ConfigOK(c) /\ highest[n] < Top(c) /\ c.highest_trackable_value = highest[n]
        /\ highest[n] \in Nat
    BY <2>1, <2>2, ConfiguredIs
  <2>4. value \in Nat /\ value < Top(c) /\ value < Pow2[63]
    <3>1. value \in Nat /\ value <= highest[n] BY <2>3 DEF c
    <3>2. Top(c) \in Nat /\ Top(c) <= Pow2[63] /\ Pow2[63] \in Nat BY <2>3, TopBounds
    <3> QED BY <2>3, <3>1, <3>2
  <2> DEFINE low == lowest_equivalent_value(c, value)
             size == hdr_size_of_equivalent_value_range(c, value)
  <2>5. /\ counts_index_for(c, value) \in Indices(c)
        /\ hdr_value_at_index(c, counts_index_for(c, value)) = low
        /\ low \in Nat /\ low <= value /\ size \in Nat \ {0} /\ value < low + size
        /\ highest_equivalent_value(c, value) = low + size - 1
    BY <2>3, <2>4, IndexOfValue
  <2> HIDE DEF low, size
  <2>6. value \in low .. highest_equivalent_value(c, value) BY <2>4, <2>5
  <2> QED BY <2>5, <2>6 DEF c, low
<1> QED BY <1>1, HistogramCounts, PTL

\* The ranges are as narrow as the significant figures ask (hdr_histogram.c:259-294).
THEOREM SignificantFiguresKept == Spec => []KeepsSignificantFigures
<1>1. HistInv => KeepsSignificantFigures
  <2> SUFFICES ASSUME HistInv, NEW n \in Names,
                      NEW value \in 0 .. hist[n].cfg.highest_trackable_value
               PROVE  LET c == hist[n].cfg
                          size == hdr_size_of_equivalent_value_range(c, value)
                      IN  \/ size <= c.lowest_trackable_value
                          \/ size * 10^c.significant_figures <= value
    BY DEF KeepsSignificantFigures
  <2> DEFINE c == hist[n].cfg
             size == hdr_size_of_equivalent_value_range(c, value)
  <2>1. PICK lowest \in Lowest, figures \in Figures,
             highest \in [Names -> Highest \union UsedHighest] :
          /\ ValidParameters(lowest, highest[n], figures)
          /\ c = hdr_calculate_bucket_config(lowest, highest[n], figures)
    BY DEF HistInv, Configured
  <2>2. highest[n] \in Highest \union UsedHighest OBVIOUS
  <2> HIDE DEF c
  <2>3. ConfigOK(c) /\ highest[n] < Top(c) /\ c.highest_trackable_value = highest[n]
        /\ highest[n] \in Nat /\ c.lowest_trackable_value = lowest
        /\ c.significant_figures = figures
        /\ Pow2[c.unit_magnitude] <= lowest
        /\ 10^figures \in Nat /\ 10^figures <= Pow2[c.sub_bucket_half_count_magnitude]
    BY <2>1, <2>2, ConfiguredIs
  <2>4. value \in Nat /\ value < Pow2[63]
    <3>1. value \in Nat /\ value <= highest[n] BY <2>3 DEF c
    <3>2. Top(c) \in Nat /\ Top(c) <= Pow2[63] /\ Pow2[63] \in Nat BY <2>3, TopBounds
    <3> QED BY <2>3, <3>1, <3>2
  <2>5. size = Pow2[c.unit_magnitude] \/ size * 10^figures <= value
    BY <2>3, <2>4, FiguresKept
  <2> QED BY <2>3, <2>5 DEF c
<1> QED BY <1>1, HistogramCounts, PTL

\* A count is positive where a value was recorded, and only there.
LEMMA CountsPositive ==
  ASSUME NEW h, Good(h), NEW bag, Counts(h, bag)
  PROVE  /\ \A v \in DOMAIN bag : /\ counts_index_for(h.cfg, v) \in Indices(h.cfg)
                                  /\ h.counts[counts_index_for(h.cfg, v)] > 0
         /\ \A i \in Indices(h.cfg) : h.counts[i] # 0 =>
              \E v \in DOMAIN bag : counts_index_for(h.cfg, v) = i
<1> DEFINE c == h.cfg
<1>1. ConfigOK(c) BY DEF Good, Consistent
<1>2. IsFiniteSet(DOMAIN bag) /\ (\A v \in DOMAIN bag : bag[v] \in Nat \ {0})
      /\ (\A v \in DOMAIN bag : v \in Nat /\ v < Top(c))
      /\ (\A i \in Indices(c) : h.counts[i] = SumOver(bag, Part(c, bag, i)))
  BY DEF Counts
<1>3. ASSUME NEW v \in DOMAIN bag
      PROVE  counts_index_for(c, v) \in Indices(c) /\ h.counts[counts_index_for(c, v)] > 0
  <2> DEFINE i == counts_index_for(c, v)
             P == Part(c, bag, i)
  <2>1. i \in Indices(c) BY <1>1, <1>2, ValueInRange
  <2>2. v \in P /\ P \subseteq DOMAIN bag BY DEF Part
  <2> HIDE DEF P, i
  <2>3. IsFiniteSet(P) /\ \A x \in P : bag[x] \in Nat BY <1>2, <2>2, FS_Subset
  <2>4. {} \in SUBSET P /\ SumOver(bag, {}) = 0 BY SumEmpty
  <2>5. SumOver(bag, P) \in Nat /\ SumOver(bag, {}) + bag[v] <= SumOver(bag, P)
    BY <2>2, <2>3, <2>4, SumPart
  <2>6. bag[v] \in Nat \ {0} BY <1>2
  <2>7. SumOver(bag, P) > 0 BY <2>4, <2>5, <2>6
  <2> QED BY <1>2, <2>1, <2>7 DEF P, i
<1>4. ASSUME NEW i \in Indices(c), h.counts[i] # 0
      PROVE  \E v \in DOMAIN bag : counts_index_for(c, v) = i
  <2> SUFFICES ASSUME \A v \in DOMAIN bag : counts_index_for(c, v) # i PROVE FALSE OBVIOUS
  <2>1. Part(c, bag, i) = {} BY DEF Part
  <2>2. h.counts[i] = 0 BY <1>2, <2>1, SumEmpty
  <2> QED BY <1>4, <2>2
<1> QED BY <1>3, <1>4

\* The sums over the counts are sums over the values.
LEMMA WeightedSum ==
  ASSUME NEW h, Good(h), NEW bag, Counts(h, bag), NEW w, \A i \in Indices(h.cfg) : w[i] \in Int,
         NEW a, \A i \in Indices(h.cfg) : a[i] = w[i] * h.counts[i],
         NEW b, \A v \in DOMAIN bag : b[v] = w[counts_index_for(h.cfg, v)] * bag[v]
  PROVE  SumOver(a, Indices(h.cfg)) = SumOver(b, DOMAIN bag)
<1> DEFINE c == h.cfg
           I == Indices(c)
           D == DOMAIN bag
           k == [v \in D |-> counts_index_for(c, v)]
<1>1. IsFiniteSet(I) /\ IsFiniteSet(D) BY IndicesAre DEF Good, Consistent, Counts
<1>2. \A v \in D : bag[v] \in Int /\ k[v] \in I /\ b[v] = w[k[v]] * bag[v]
  BY CountsPositive DEF Counts
<1>3. \A i \in I : a[i] = w[i] * SumOver(bag, Fiber(D, k, i))
  <2>1. ASSUME NEW i \in I PROVE a[i] = w[i] * SumOver(bag, Fiber(D, k, i))
    <3>1. Fiber(D, k, i) = Part(c, bag, i) BY DEF Part, Fiber
    <3>2. h.counts[i] = SumOver(bag, Part(c, bag, i)) BY DEF Counts
    <3> QED BY <3>1, <3>2
  <2> QED BY <2>1
<1>4. \A i \in I : w[i] \in Int OBVIOUS
<1> HIDE DEF k, I, D
<1>5. SumOver(a, I) = SumOver(b, D) BY ONLY <1>1, <1>2, <1>3, <1>4, SumFibers
<1> QED BY <1>5 DEF I, D

\* total_count is the number of values.
LEMMA TotalIsSize ==
  ASSUME NEW h, Good(h), NEW bag, Counts(h, bag)
  PROVE  /\ h.total_count = SumOver(bag, DOMAIN bag) /\ h.total_count \in Nat
         /\ h.total_count = 0 <=> DOMAIN bag = {}
<1> DEFINE I == Indices(h.cfg)
           w == [i \in I |-> 1]
<1>1. h.total_count = SumOver(h.counts, I) /\ h.counts \in [I -> Nat] /\ ConfigOK(h.cfg)
      /\ h.total_count \in Nat
  BY DEF Good, Consistent
<1>2. \A i \in I : w[i] \in Int /\ h.counts[i] = w[i] * h.counts[i] BY <1>1
<1>3. \A v \in DOMAIN bag : bag[v] = w[counts_index_for(h.cfg, v)] * bag[v]
  <2>1. ASSUME NEW v \in DOMAIN bag PROVE bag[v] = w[counts_index_for(h.cfg, v)] * bag[v]
    <3>1. counts_index_for(h.cfg, v) \in I BY CountsPositive
    <3>2. bag[v] \in Nat BY DEF Counts
    <3>3. w[counts_index_for(h.cfg, v)] = 1 BY <3>1
    <3> HIDE DEF w
    <3> QED BY <3>2, <3>3
  <2> QED BY <2>1
<1> HIDE DEF w
<1>4. SumOver(h.counts, I) = SumOver(bag, DOMAIN bag) BY <1>2, <1>3, WeightedSum
<1>5. ASSUME NEW v \in DOMAIN bag PROVE h.total_count > 0
  <2> DEFINE i == counts_index_for(h.cfg, v)
  <2>1. i \in I /\ h.counts[i] > 0 BY CountsPositive
  <2>2. IsFiniteSet(I) /\ (\A j \in I : h.counts[j] \in Nat) /\ {} \in SUBSET I
    BY <1>1, IndicesAre
  <2> HIDE DEF I, i
  <2>3. SumOver(h.counts, {}) + h.counts[i] <= SumOver(h.counts, I) BY <2>1, <2>2, SumPart
  <2> QED BY <1>1, <2>1, <2>2, <2>3, SumEmpty
<1>6. DOMAIN bag = {} => h.total_count = 0 BY <1>1, <1>4, SumEmpty
<1>7. h.total_count = SumOver(bag, DOMAIN bag) /\ h.total_count \in Nat BY <1>1, <1>4
<1>8. DOMAIN bag # {} => h.total_count # 0
  <2> SUFFICES ASSUME NEW v \in DOMAIN bag PROVE h.total_count # 0 OBVIOUS
  <2>1. h.total_count > 0 BY <1>5
  <2> QED BY <1>7, <2>1
<1> HIDE DEF I
<1> QED BY <1>6, <1>7, <1>8

\* The smallest and the greatest value of a bag
LEMMA BagExtremes ==
  ASSUME NEW bag, NEW h, Counts(h, bag), DOMAIN bag # {}
  PROVE  /\ Min(DOMAIN bag) \in DOMAIN bag /\ \A v \in DOMAIN bag : Min(DOMAIN bag) <= v
         /\ Max(DOMAIN bag) \in DOMAIN bag /\ \A v \in DOMAIN bag : v <= Max(DOMAIN bag)
<1> DEFINE S == DOMAIN bag
<1>1. S \subseteq Nat /\ S # {} /\ \A v \in S : v < INT64_MAX BY DEF Counts
<1> HIDE DEF S
<1>2. \E m \in S : \A v \in S : m <= v BY <1>1, LeastNat
<1>3. \E m \in S : \A v \in S : m >= v
  <2> DEFINE T == {INT64_MAX - v : v \in S}
  <2>1. T \subseteq Nat /\ T # {}
    <3>1. \A v \in S : INT64_MAX - v \in Nat BY <1>1, WidthBound
    <3> QED BY <1>1, <3>1
  <2> HIDE DEF T
  <2>2. PICK m \in T : \A k \in T : m <= k BY <2>1, LeastNat
  <2>3. PICK x \in S : m = INT64_MAX - x BY DEF T
  <2>4. \A v \in S : INT64_MAX - x <= INT64_MAX - v BY <2>2, <2>3 DEF T
  <2>5. \A v \in S : x >= v BY <1>1, <2>4, WidthBound
  <2> QED BY <2>5
<1>4. Min(S) \in S /\ \A v \in S : Min(S) <= v BY <1>2 DEF Min
<1>5. Max(S) \in S /\ \A v \in S : Max(S) >= v BY <1>3 DEF Max
<1>6. \A v \in S : v <= Max(S) BY <1>1, <1>5
<1> QED BY <1>4, <1>5, <1>6 DEF S

\* hdr_min and hdr_max are true to within the resolution (hdr_histogram.c:67-71, 180-232,
\* 483-507).
THEOREM ExtremesTrue == Spec => []ExtremesAreTrue
<1>1. ASSUME NEW h, Good(h), NEW bag, Counts(h, bag)
      PROVE  IF DOMAIN bag = {} THEN hdr_min(h) = 0 /\ hdr_max(h) = 0
             ELSE /\ hdr_min(h) = lowest_equivalent_value(h.cfg, Min(DOMAIN bag))
                  /\ \/ hdr_max(h) = highest_equivalent_value(h.cfg, Max(DOMAIN bag))
                     \/ /\ hdr_max(h) = 0
                        /\ lowest_equivalent_value(h.cfg, Max(DOMAIN bag)) = 0
  <2> DEFINE c == h.cfg
             S == DOMAIN bag
             idx(v) == counts_index_for(c, v)
  <2>1. h.total_count = 0 <=> S = {} BY <1>1, TotalIsSize
  <2>2. CASE S = {} BY <2>1, <2>2 DEF hdr_min, hdr_max
  <2>3. CASE S # {}
    <3> DEFINE low == Min(S)
               high == Max(S)
    <3>1. /\ ConfigOK(c) /\ h.min_value \in Nat /\ h.max_value \in Nat
          /\ h.counts \in [Indices(c) -> Nat]
      BY <1>1 DEF Good, Consistent
    <3>2. low \in S /\ high \in S /\ \A v \in S : low <= v /\ v <= high
      BY <1>1, <2>3, BagExtremes
    <3>3. \A v \in S : v \in Nat /\ v < Top(c) /\ v < Pow2[63] /\ idx(v) \in Indices(c)
                       /\ h.counts[idx(v)] > 0
      <4>1. \A v \in S : v \in Nat /\ v < Top(c) BY <1>1 DEF Counts
      <4>2. \A v \in S : v < Pow2[63] BY <3>1, <4>1, ValueInRange
      <4> QED BY <1>1, <4>1, <4>2, CountsPositive
    <3>4. \A i \in Indices(c) : h.counts[i] # 0 => \E v \in S : idx(v) = i
      BY <1>1, CountsPositive
    <3>5. /\ Indices(c) \subseteq Nat /\ 0 \in Indices(c) /\ idx(0) = 0
          /\ 0 < Pow2[63] /\ 0 < Top(c)
      <4>1. 0 < Top(c) BY <3>1, Pow2Type DEF Top, ConfigOK
      <4>2. 0 < Pow2[63] BY Pow2Type
      <4> QED BY <3>1, <4>1, <4>2, IndicesAre
    <3> HIDE DEF S, low, high, c
    <3>6. hdr_min(h) = lowest_equivalent_value(c, low)
      <4>1. CASE h.counts[0] > 0
        <5>1. PICK v \in S : idx(v) = 0 BY <3>4, <3>5, <4>1
        <5>2. idx(low) <= 0 BY <3>1, <3>2, <3>3, <5>1, IndexMonotone
        <5>3. idx(low) = 0 BY <3>2, <3>3, <3>5, <5>2
        <5>4. lowest_equivalent_value(c, low) = lowest_equivalent_value(c, 0)
          BY <3>1, <3>2, <3>3, <3>5, <5>3, SameIndex
        <5>5. lowest_equivalent_value(c, 0) \in Nat /\ lowest_equivalent_value(c, 0) <= 0
          BY <3>1, <3>5, ValueInRange
        <5>6. hdr_min(h) = 0 BY <4>1 DEF hdr_min
        <5> QED BY <5>4, <5>5, <5>6
      <4>2. CASE ~(h.counts[0] > 0)
        <5>1. idx(low) \in Indices(c) \ {0} /\ h.counts[idx(low)] # 0
          BY <3>1, <3>2, <3>3, <3>5, <4>2
        <5>2. h.min_value < INT64_MAX /\ idx(h.min_value) <= idx(low)
              /\ idx(h.min_value) \in Indices(c) /\ h.counts[idx(h.min_value)] # 0
          BY <1>1, <5>1 DEF Good, MinFits, c
        <5>3. h.min_value < Pow2[63] /\ h.min_value # INT64_MAX BY <3>1, <5>2, WidthBound, Pow2Type
        <5>4. PICK v \in S : idx(v) = idx(h.min_value) BY <3>4, <5>2
        <5>5. idx(low) <= idx(h.min_value) BY <3>1, <3>2, <3>3, <5>4, IndexMonotone
        <5>6. idx(low) = idx(h.min_value) BY <3>5, <5>1, <5>2, <5>5
        <5>7. lowest_equivalent_value(c, low) = lowest_equivalent_value(c, h.min_value)
          BY <3>1, <3>2, <3>3, <5>3, <5>6, SameIndex
        <5>8. hdr_min(h) = lowest_equivalent_value(c, h.min_value)
          BY <2>1, <2>3, <4>2, <5>3 DEF hdr_min, non_zero_min, c, S
        <5> QED BY <5>7, <5>8
      <4> QED BY <4>1, <4>2
    <3>7. idx(high) = idx(h.max_value) /\ h.max_value < Pow2[63]
      <4>1. /\ h.max_value < Top(c)
            /\ h.max_value # 0 => h.counts[idx(h.max_value)] # 0
            /\ \A i \in Indices(c) : h.counts[i] # 0 => i <= idx(h.max_value)
        BY <1>1 DEF Good, MaxFits, c
      <4>2. idx(h.max_value) \in Indices(c) /\ h.max_value < Pow2[63]
        BY <3>1, <4>1, ValueInRange
      <4>3. idx(high) <= idx(h.max_value) BY <3>2, <3>3, <4>1
      <4>4. idx(h.max_value) <= idx(high)
        <5>1. CASE h.max_value = 0 BY <3>2, <3>3, <3>5, <5>1
        <5>2. CASE h.max_value # 0
          <6>1. PICK v \in S : idx(v) = idx(h.max_value) BY <3>4, <4>1, <4>2, <5>2
          <6> QED BY <3>1, <3>2, <3>3, <6>1, IndexMonotone
        <5> QED BY <5>1, <5>2
      <4> QED BY <3>2, <3>3, <3>5, <4>2, <4>3, <4>4
    <3>8. \/ hdr_max(h) = highest_equivalent_value(c, high)
          \/ hdr_max(h) = 0 /\ lowest_equivalent_value(c, high) = 0
      <4>1. /\ lowest_equivalent_value(c, high) = lowest_equivalent_value(c, h.max_value)
            /\ highest_equivalent_value(c, high) = highest_equivalent_value(c, h.max_value)
        BY <3>1, <3>2, <3>3, <3>7, SameIndex
      <4>2. CASE h.max_value = 0
        <5>1. lowest_equivalent_value(c, 0) \in Nat /\ lowest_equivalent_value(c, 0) <= 0
          BY <3>1, <3>5, ValueInRange
        <5>2. hdr_max(h) = 0 BY <4>2 DEF hdr_max
        <5> QED BY <4>1, <4>2, <5>1, <5>2
      <4>3. CASE h.max_value # 0
        <5>1. hdr_max(h) = highest_equivalent_value(c, h.max_value)
          BY <2>1, <2>3, <4>3 DEF hdr_max, c, S
        <5> QED BY <4>1, <5>1
      <4> QED BY <4>2, <4>3
    <3> QED BY <2>3, <3>6, <3>8 DEF low, high, S, c
  <2> QED BY <2>2, <2>3
<1>2. HistInv => ExtremesAreTrue
  <2> SUFFICES ASSUME HistInv PROVE ExtremesAreTrue OBVIOUS
  <2>1. \A n \in Names : Good(hist[n]) /\ Counts(hist[n], samples[n]) BY DEF HistInv
  <2> QED BY <1>1, <2>1 DEF ExtremesAreTrue, BagToSet
<1> QED BY <1>2, HistogramCounts, PTL

\* Each value of from is added or dropped.
LEMMA AddTotal ==
  ASSUME NEW h, Good(h), NEW from, Good(from), SameLayout(h.cfg, from.cfg),
         from.total_count <= INT32_MAX
  PROVE  Accounted(h, from)
<1> DEFINE c == h.cfg
           d == from.cfg
           g == hdr_add(h, from)
           I == Indices(c)
           J == Indices(d)
           R == RecordedIndices(from)
           f == from.counts
           e == [i \in I |-> IF i \in R THEN f[i] ELSE 0]
<1>1. Good(g) /\ g.cfg = c
      /\ \A i \in I : g.counts[i] = h.counts[i] + (IF i \in R THEN f[i] ELSE 0)
  BY AddCounts, AllAdded
<1>2. /\ ConfigOK(c) /\ ConfigOK(d) /\ h.counts \in [I -> Nat] /\ f \in [J -> Nat]
      /\ h.total_count = SumOver(h.counts, I) /\ from.total_count = SumOver(f, J)
      /\ \A i \in J : f[i] # 0 => hdr_value_at_index(d, i) < INT64_MAX
  BY DEF Good, Consistent
<1>3. g.total_count = SumOver(g.counts, I) BY <1>1 DEF Good, Consistent
<1>4. IsFiniteSet(I) /\ IsFiniteSet(J) BY <1>2, IndicesAre
<1>5. R \in SUBSET J /\ IsFiniteSet(R) /\ (\A i \in J \ R : f[i] = 0)
      /\ (\A i \in R : f[i] \in Nat /\ hdr_value_at_index(d, i) < INT64_MAX)
  <2>1. R \in SUBSET J /\ (\A i \in J \ R : f[i] = 0)
        /\ (\A i \in R : f[i] \in Nat /\ hdr_value_at_index(d, i) < INT64_MAX)
    BY <1>2 DEF RecordedIndices
  <2> HIDE DEF R, J
  <2> QED BY <1>4, <2>1, FS_Subset
<1>6. \A i \in R : Accepts(h, hdr_value_at_index(d, i)) <=> i \in I
  <2>1. \A i \in R : hdr_value_at_index(d, i) \in Nat
                     /\ counts_index_for(d, hdr_value_at_index(d, i)) = i
    BY <1>2, <1>5, ValueOfIndex
  <2>2. \A v : counts_index_for(c, v) = counts_index_for(d, v) BY LayoutShared
  <2> QED BY <2>1, <2>2 DEF Accepts
<1>7. Dropped(h, from) = R \ I BY <1>6, AllAdded DEF Dropped
<1>8. DroppedCount(h, from) = SumOver(f, R \ I) BY <1>7 DEF DroppedCount, SumOver
<1>9. \A i \in I : h.counts[i] \in Int /\ e[i] \in Int /\ g.counts[i] = h.counts[i] + e[i]
  BY <1>1, <1>2, <1>5
<1>10. (\A i \in I \ (I \cap R) : e[i] = 0) /\ (\A i \in I \cap R : e[i] = f[i]) OBVIOUS
<1> HIDE DEF g, I, J, R, f, e
<1>11. SumOver(g.counts, I) = SumOver(h.counts, I) + SumOver(e, I) BY <1>4, <1>9, SumPlus
<1>12. SumOver(e, I) = SumOver(f, I \cap R)
  <2>1. I \cap R \in SUBSET I /\ IsFiniteSet(I \cap R) BY <1>4, FS_Subset
  <2>2. \A i \in I : e[i] \in Int BY <1>9
  <2>3. SumOver(e, I \cap R) = SumOver(e, I) BY <1>4, <1>10, <2>1, <2>2, SumSupport
  <2>4. \A i \in I \cap R : e[i] \in Int /\ e[i] = f[i] BY <1>10, <2>2
  <2>5. SumOver(e, I \cap R) = SumOver(f, I \cap R) BY <2>1, <2>4, SumSame
  <2> QED BY <2>3, <2>5
<1>13. SumOver(f, I \cap R) + SumOver(f, R \ I) = SumOver(f, R)
  <2> DEFINE A == I \cap R
             B == R \ I
  <2>1. IsFiniteSet(A) /\ IsFiniteSet(B) BY <1>5, FS_Subset
  <2>2. A \cap B = {} /\ A \union B = R OBVIOUS
  <2>3. \A i \in A \union B : f[i] \in Int BY <1>5
  <2> HIDE DEF A, B
  <2>4. SumOver(f, A \union B) = SumOver(f, A) + SumOver(f, B) BY <2>1, <2>2, <2>3, SumDisjoint
  <2> QED BY <2>2, <2>4 DEF A, B
<1>14. SumOver(f, R) = SumOver(f, J)
  <2>1. \A i \in J : f[i] \in Int BY <1>2 DEF f, J
  <2> QED BY <1>4, <1>5, <2>1, SumSupport
<1>15. SumOver(h.counts, I) \in Int /\ SumOver(f, I \cap R) \in Int /\ SumOver(f, R \ I) \in Int
  <2>1. IsFiniteSet(I \cap R) /\ IsFiniteSet(R \ I) BY <1>5, FS_Subset
  <2>2. (\A i \in I \cap R : f[i] \in Int) /\ (\A i \in R \ I : f[i] \in Int) BY <1>5
  <2>3. \A i \in I : h.counts[i] \in Int BY <1>9
  <2> QED BY <1>4, <2>1, <2>2, <2>3, SumType
<1>16. g.total_count = h.total_count + SumOver(f, I \cap R)
  BY <1>2, <1>3, <1>11, <1>12 DEF I
<1>17. from.total_count = SumOver(f, I \cap R) + SumOver(f, R \ I)
  BY <1>2, <1>13, <1>14 DEF f, J
<1>18. h.total_count \in Int BY <1>2, <1>15 DEF I
<1> QED BY <1>8, <1>15, <1>16, <1>17, <1>18 DEF g, Accounted

\* hdr_add reports as dropped exactly what it does not add, for every histogram whose
\* total fits the int32_t of its iterator (hdr_histogram.c:431-449, 692).
THEOREM AddAccountsForAll == Spec => []AddAccounts
<1>1. HistInv => AddAccounts
  <2> SUFFICES ASSUME HistInv, NEW n \in Names, NEW from \in Names \ {n},
                      hist[from].total_count <= INT32_MAX
               PROVE  Accounted(hist[n], hist[from])
    BY DEF AddAccounts
  <2>1. Good(hist[n]) /\ Good(hist[from]) BY DEF HistInv
  <2>2. SameLayout(hist[n].cfg, hist[from].cfg) BY LayoutOf
  <2> QED BY <2>1, <2>2, AddTotal
<1> QED BY <1>1, HistogramCounts, PTL

\* Each of the sums of the mean, written with a function instead of an expression
LEMMA MeanTotalIs ==
  ASSUME NEW h, IsFiniteSet(RecordedIndices(h)),
         NEW a, \A i \in RecordedIndices(h) :
                  /\ a[i] \in Int
                  /\ a[i] = h.counts[i]
                              * hdr_median_equivalent_value(h.cfg, hdr_value_at_index(h.cfg, i))
  PROVE  MeanTotal(h) = SumOver(a, RecordedIndices(h))
<1> DEFINE S == RecordedIndices(h)
           term(i) == h.counts[i]
                        * hdr_median_equivalent_value(h.cfg, hdr_value_at_index(h.cfg, i))
           Folds(it) == it = [s \in SUBSET S |->
                               IF s = {} THEN 0 ELSE term(Pick(s)) + it[s \ {Pick(s)}]]
           fold == CHOOSE it : Folds(it)
<1>1. MeanTotal(h) = fold[S] BY DEF MeanTotal, MapThenSumSet, MapThenFoldSet, Pick
<1>2. ASSUME NEW it PROVE Folds(it) <=> Adds(it, a, S)
  <2>1. \A s \in SUBSET S : s # {} => Pick(s) \in S BY PickIn
  <2>2. \A s \in SUBSET S : s # {} => term(Pick(s)) = a[Pick(s)] BY <2>1
  <2> HIDE DEF term, S
  <2>3. [s \in SUBSET S |-> IF s = {} THEN 0 ELSE term(Pick(s)) + it[s \ {Pick(s)}]]
        = [s \in SUBSET S |-> IF s = {} THEN 0 ELSE a[Pick(s)] + it[s \ {Pick(s)}]]
    BY <2>2
  <2> QED BY <2>3 DEF Adds
<1>3. \A i \in S : a[i] \in Int OBVIOUS
<1> HIDE DEF Folds, S
<1>4. \E it : Adds(it, a, S) BY <1>3, AddsExists DEF S
<1>5. Folds(fold) BY <1>2, <1>4
<1>6. Adds(fold, a, S) BY <1>2, <1>5
<1> HIDE DEF fold
<1>7. IsFiniteSet(S) /\ S \in SUBSET S BY DEF S
<1>8. SumOver(a, S) = fold[S] BY <1>3, <1>6, <1>7, AddsPart
<1> QED BY <1>1, <1>8 DEF S

\* The sums of MeanIsClose, over functions whose values are known to be numbers.
LEMMA ValueSumIs ==
  ASSUME NEW bag, IsFiniteSet(DOMAIN bag),
         NEW a, \A v \in DOMAIN bag : a[v] \in Int /\ a[v] = v * bag[v]
  PROVE  ValueSum(bag) = SumOver(a, DOMAIN bag)
<1> DEFINE S == DOMAIN bag
           Folds(it) == it = [s \in SUBSET S |->
                               IF s = {} THEN 0
                               ELSE Pick(s) * bag[Pick(s)] + it[s \ {Pick(s)}]]
           fold == CHOOSE it : Folds(it)
<1>1. ValueSum(bag) = fold[S] BY DEF ValueSum, BagToSet, MapThenSumSet, MapThenFoldSet, Pick
<1>2. ASSUME NEW it PROVE Folds(it) <=> Adds(it, a, S)
  <2>1. \A s \in SUBSET S : s # {} => Pick(s) * bag[Pick(s)] = a[Pick(s)] BY PickIn
  <2>2. [s \in SUBSET S |->
          IF s = {} THEN 0 ELSE Pick(s) * bag[Pick(s)] + it[s \ {Pick(s)}]]
        = [s \in SUBSET S |-> IF s = {} THEN 0 ELSE a[Pick(s)] + it[s \ {Pick(s)}]]
    BY <2>1
  <2> QED BY <2>2 DEF Adds
<1> HIDE DEF Folds
<1>3. \E it : Adds(it, a, S) BY AddsExists
<1>4. Folds(fold) BY <1>2, <1>3
<1>5. Adds(fold, a, S) BY <1>2, <1>4
<1> HIDE DEF fold
<1>6. S \in SUBSET S OBVIOUS
<1>7. SumOver(a, S) = fold[S] BY <1>5, <1>6, AddsPart
<1> QED BY <1>1, <1>7

LEMMA WidthSumIs ==
  ASSUME NEW c, NEW bag, IsFiniteSet(DOMAIN bag),
         NEW a, \A v \in DOMAIN bag :
                  a[v] \in Int /\ a[v] = hdr_size_of_equivalent_value_range(c, v) * bag[v]
  PROVE  WidthSum(c, bag) = SumOver(a, DOMAIN bag)
<1> DEFINE S == DOMAIN bag
           size(v) == hdr_size_of_equivalent_value_range(c, v)
           Folds(it) == it = [s \in SUBSET S |->
                               IF s = {} THEN 0
                               ELSE size(Pick(s)) * bag[Pick(s)] + it[s \ {Pick(s)}]]
           fold == CHOOSE it : Folds(it)
<1>1. WidthSum(c, bag) = fold[S] BY DEF WidthSum, BagToSet, MapThenSumSet, MapThenFoldSet, Pick
<1>2. ASSUME NEW it PROVE Folds(it) <=> Adds(it, a, S)
  <2>1. \A s \in SUBSET S : s # {} => size(Pick(s)) * bag[Pick(s)] = a[Pick(s)] BY PickIn
  <2> HIDE DEF size
  <2>2. [s \in SUBSET S |->
          IF s = {} THEN 0 ELSE size(Pick(s)) * bag[Pick(s)] + it[s \ {Pick(s)}]]
        = [s \in SUBSET S |-> IF s = {} THEN 0 ELSE a[Pick(s)] + it[s \ {Pick(s)}]]
    BY <2>1
  <2> QED BY <2>2 DEF Adds
<1> HIDE DEF Folds
<1>3. \A v \in S : a[v] \in Int OBVIOUS
<1>4. \E it : Adds(it, a, S) BY <1>3, AddsExists
<1>5. Folds(fold) BY <1>2, <1>4
<1>6. Adds(fold, a, S) BY <1>2, <1>5
<1> HIDE DEF fold
<1>7. S \in SUBSET S OBVIOUS
<1>8. SumOver(a, S) = fold[S] BY <1>3, <1>6, <1>7, AddsPart
<1> QED BY <1>1, <1>8

\* The median of a range is as far from its values as half of it at most.
LEMMA MedianClose ==
  ASSUME NEW c, ConfigOK(c), NEW v \in Nat, v < Top(c), NEW n \in Nat
  PROVE  LET m == hdr_median_equivalent_value(c, hdr_value_at_index(c, counts_index_for(c, v)))
             size == hdr_size_of_equivalent_value_range(c, v)
         IN  /\ m \in Int /\ size \in Nat
             /\ m * n \in Int /\ v * n \in Int /\ size * n \in Nat
             /\ 2 * (m * n - v * n) <= size * n
             /\ 2 * (m * n - v * n) + size * n >= 0
<1> DEFINE low == lowest_equivalent_value(c, v)
           size == hdr_size_of_equivalent_value_range(c, v)
           i == counts_index_for(c, v)
           x == hdr_value_at_index(c, i)
           m == hdr_median_equivalent_value(c, x)
<1>1. v < Pow2[63] /\ i \in Indices(c) /\ x = low BY ValueInRange
<1>2. low \in Nat /\ low <= v /\ size \in Nat \ {0} /\ v < low + size BY <1>1, IndexOfValue
<1>3. x \in Nat /\ x < Top(c) /\ counts_index_for(c, x) = i BY <1>1, ValueOfIndex
<1>4. x < Pow2[63] BY <1>3, ValueInRange
<1> HIDE DEF x
<1>5. lowest_equivalent_value(c, x) = low /\ hdr_size_of_equivalent_value_range(c, x) = size
  BY <1>1, <1>3, <1>4, SameIndex
<1>6. m = low + size \div 2 BY <1>5 DEF hdr_median_equivalent_value
<1> HIDE DEF low, size, m
<1>7. m \in Int /\ size - 2 * (m - v) \in Nat /\ size + 2 * (m - v) \in Nat BY <1>2, <1>6
<1>8. PICK p \in Nat, q \in Nat : p = size - 2 * (m - v) /\ q = size + 2 * (m - v) BY <1>7
<1>9. p * n \in Nat /\ q * n \in Nat OBVIOUS
<1>10. p * n = size * n - 2 * (m * n - v * n)
  <2>1. (size - 2 * (m - v)) * n = size * n - 2 * (m * n - v * n) BY <1>2, <1>7
  <2> QED BY <1>8, <2>1
<1>11. q * n = size * n + 2 * (m * n - v * n)
  <2>1. (size + 2 * (m - v)) * n = size * n + 2 * (m * n - v * n) BY <1>2, <1>7
  <2> QED BY <1>8, <2>1
<1>12. m * n \in Int /\ v * n \in Int /\ size * n \in Nat BY <1>2, <1>7
<1>13. 2 * (m * n - v * n) <= size * n /\ 2 * (m * n - v * n) + size * n >= 0
  BY <1>9, <1>10, <1>11, <1>12
<1> QED BY <1>2, <1>7, <1>12, <1>13 DEF m, size, x

\* The error of each median is half a width at most, and so is that of their sum.
LEMMA MeanClose ==
  ASSUME NEW h, Good(h), NEW bag, Counts(h, bag)
  PROVE  LET size == WidthSum(h.cfg, bag)
         IN  2 * (MeanTotal(h) - ValueSum(bag)) \in (-size) .. size
<1> DEFINE c == h.cfg
           I == Indices(c)
           D == DOMAIN bag
           R == RecordedIndices(h)
           med(i) == hdr_median_equivalent_value(c, hdr_value_at_index(c, i))
           width(v) == hdr_size_of_equivalent_value_range(c, v)
           w == [i \in I |-> med(i)]
           a == [i \in I |-> med(i) * h.counts[i]]
           b == [v \in D |-> med(counts_index_for(c, v)) * bag[v]]
           s == [v \in D |-> v * bag[v]]
           z == [v \in D |-> width(v) * bag[v]]
           e == [v \in D |-> b[v] - s[v]]
           t == [v \in D |-> e[v] + e[v]]
           u == [v \in D |-> t[v] + z[v]]
<1>1. ConfigOK(c) /\ h.counts \in [I -> Nat] BY DEF Good, Consistent
<1>2. IsFiniteSet(I) /\ IsFiniteSet(D)
      /\ \A v \in D : v \in Nat /\ v < Top(c) /\ bag[v] \in Nat
  BY <1>1, IndicesAre DEF Counts
<1>3. R \in SUBSET I /\ IsFiniteSet(R) /\ \A i \in I \ R : h.counts[i] = 0
  <2>1. R \in SUBSET I /\ \A i \in I \ R : h.counts[i] = 0 BY DEF RecordedIndices
  <2> HIDE DEF R, I
  <2> QED BY <1>2, <2>1, FS_Subset
<1>4. \A v \in D : counts_index_for(c, v) \in I BY CountsPositive
<1>5. \A i \in I : med(i) \in Int
  <2>1. ASSUME NEW i \in I PROVE med(i) \in Int
    <3>1. hdr_value_at_index(c, i) \in Nat /\ hdr_value_at_index(c, i) < Top(c)
          /\ counts_index_for(c, hdr_value_at_index(c, i)) = i
      BY <1>1, ValueOfIndex
    <3> HIDE DEF med
    <3>2. med(counts_index_for(c, hdr_value_at_index(c, i))) \in Int
      BY <1>1, <3>1, MedianClose, 0 \in Nat DEF med
    <3> QED BY <3>1, <3>2
  <2> QED BY <2>1
<1>6. \A v \in D : /\ b[v] \in Int /\ s[v] \in Int /\ z[v] \in Nat
                   /\ 2 * (b[v] - s[v]) <= z[v] /\ 2 * (b[v] - s[v]) + z[v] >= 0
  <2>1. ASSUME NEW v \in D
        PROVE  /\ b[v] \in Int /\ s[v] \in Int /\ z[v] \in Nat
               /\ 2 * (b[v] - s[v]) <= z[v] /\ 2 * (b[v] - s[v]) + z[v] >= 0
    <3>1. v \in Nat /\ v < Top(c) /\ bag[v] \in Nat BY <1>2
    <3>2. LET m == med(counts_index_for(c, v))
              size == width(v)
              n == bag[v]
          IN  /\ m * n \in Int /\ v * n \in Int /\ size * n \in Nat
              /\ 2 * (m * n - v * n) <= size * n
              /\ 2 * (m * n - v * n) + size * n >= 0
      BY <1>1, <3>1, MedianClose
    <3> HIDE DEF med, width
    <3> QED BY <3>2
  <2> QED BY <2>1
<1>7. \A i \in I : a[i] \in Int /\ a[i] = w[i] * h.counts[i] /\ w[i] \in Int /\ w[i] = med(i)
  <2> HIDE DEF med
  <2>1. ASSUME NEW i \in I PROVE med(i) * h.counts[i] \in Int
    <3>1. med(i) \in Int /\ h.counts[i] \in Int BY <1>1, <1>5
    <3> QED BY <3>1
  <2> QED BY <1>5, <2>1
<1>8. \A i \in R : a[i] \in Int /\ a[i] = h.counts[i] * med(i)
  <2>1. ASSUME NEW i \in R PROVE a[i] \in Int /\ a[i] = h.counts[i] * med(i)
    <3>1. i \in I BY <1>3
    <3>2. PICK p \in Int, q \in Int : p = med(i) /\ q = h.counts[i] BY <1>1, <1>5, <3>1
    <3>3. p * q = q * p OBVIOUS
    <3> HIDE DEF med, a
    <3> QED BY <1>7, <3>1, <3>2, <3>3
  <2> QED BY <2>1
<1>9. \A v \in D : b[v] = w[counts_index_for(c, v)] * bag[v]
  <2> HIDE DEF med
  <2> QED BY <1>4
<1>10. \A i \in I \ R : a[i] = 0
  <2>1. ASSUME NEW i \in I \ R PROVE a[i] = 0
    <3>1. h.counts[i] = 0 /\ a[i] = w[i] * h.counts[i] /\ w[i] \in Int
      <4> HIDE DEF a, w, R, I
      <4> QED BY <1>3, <1>7, <2>1
    <3> HIDE DEF a, w
    <3> QED BY <3>1
  <2> QED BY <2>1
<1>11. MeanTotal(h) = SumOver(a, R)
  <2> HIDE DEF a
  <2> QED BY <1>3, <1>8, MeanTotalIs
<1>12. ValueSum(bag) = SumOver(s, D)
  <2>1. \A v \in D : s[v] \in Int /\ s[v] = v * bag[v] BY <1>6
  <2> HIDE DEF s
  <2> QED BY <1>2, <2>1, ValueSumIs
<1>13. WidthSum(c, bag) = SumOver(z, D)
  <2>1. \A v \in D : z[v] \in Int /\ z[v] = width(v) * bag[v] BY <1>6
  <2> HIDE DEF z
  <2> QED BY <1>2, <2>1, WidthSumIs
<1>14. \A v \in D : e[v] \in Int /\ t[v] \in Int /\ u[v] \in Nat /\ b[v] = s[v] + e[v]
                    /\ t[v] = e[v] + e[v] /\ u[v] = t[v] + z[v] /\ t[v] <= z[v]
  <2>1. \A v \in D : e[v] = b[v] - s[v] /\ t[v] = e[v] + e[v] /\ u[v] = t[v] + z[v] OBVIOUS
  <2> HIDE DEF b, s, z, e, t, u
  <2> QED BY <1>6, <2>1
<1> HIDE DEF a, w, b, s, z, e, t, u, I, D, R
<1>15. SumOver(a, R) = SumOver(a, I)
  <2>1. \A i \in I : a[i] \in Int BY <1>7
  <2> QED BY <1>2, <1>3, <1>10, <2>1, SumSupport
<1>16. SumOver(a, I) = SumOver(b, D)
  <2>1. (\A i \in I : w[i] \in Int) /\ (\A i \in I : a[i] = w[i] * h.counts[i]) BY <1>7
  <2> QED BY <1>9, <2>1, WeightedSum DEF I, D
<1>17. SumOver(b, D) = SumOver(s, D) + SumOver(e, D)
  <2>1. \A v \in D : s[v] \in Int /\ e[v] \in Int /\ b[v] = s[v] + e[v] BY <1>6, <1>14
  <2> QED BY <1>2, <2>1, SumPlus
<1>18. SumOver(t, D) = SumOver(e, D) + SumOver(e, D)
  <2>1. \A v \in D : e[v] \in Int /\ t[v] = e[v] + e[v] BY <1>14
  <2> QED BY <1>2, <2>1, SumPlus
<1>19. SumOver(u, D) = SumOver(t, D) + SumOver(z, D) /\ SumOver(u, D) \in Nat
  <2>1. \A v \in D : t[v] \in Int /\ z[v] \in Int /\ u[v] = t[v] + z[v] /\ u[v] \in Nat
    BY <1>6, <1>14
  <2> QED BY <1>2, <2>1, SumPlus, SumNat
<1>20. SumOver(t, D) <= SumOver(z, D)
  <2>1. \A v \in D : t[v] \in Int /\ z[v] \in Int /\ t[v] <= z[v] BY <1>6, <1>14
  <2> QED BY <1>2, <2>1, SumMonotone
<1>21. SumOver(s, D) \in Int /\ SumOver(e, D) \in Int /\ SumOver(z, D) \in Int
  <2>1. \A v \in D : s[v] \in Int /\ e[v] \in Int /\ z[v] \in Int BY <1>6, <1>14
  <2> QED BY <1>2, <2>1, SumType
<1>22. 2 * (MeanTotal(h) - SumOver(s, D)) \in (-SumOver(z, D)) .. SumOver(z, D)
  BY <1>11, <1>15, <1>16, <1>17, <1>18, <1>19, <1>20, <1>21
<1> QED BY <1>12, <1>13, <1>22 DEF D

\* The mean is close to the true one (hdr_histogram.c:537-556).
THEOREM MeanTrue == Spec => []MeanIsClose
<1>1. HistInv => MeanIsClose
  <2> SUFFICES ASSUME HistInv PROVE MeanIsClose OBVIOUS
  <2>1. \A n \in Names : Good(hist[n]) /\ Counts(hist[n], samples[n]) BY DEF HistInv
  <2> QED BY <2>1, MeanClose DEF MeanIsClose
<1> QED BY <1>1, HistogramCounts, PTL

\* A set of values of a bag has a greatest one.
LEMMA GreatestValue ==
  ASSUME NEW bag, NEW h, Counts(h, bag), NEW S \in SUBSET DOMAIN bag, S # {}
  PROVE  \E m \in S : \A v \in S : v <= m
<1> DEFINE T == {INT64_MAX - v : v \in S}
<1>1. \A v \in S : v \in Nat /\ v < INT64_MAX BY DEF Counts
<1>2. T \subseteq Nat /\ T # {}
  <2>1. \A v \in S : INT64_MAX - v \in Nat BY <1>1, WidthBound
  <2> QED BY <2>1
<1> HIDE DEF T
<1>3. PICK m \in T : \A k \in T : m <= k BY <1>2, LeastNat
<1>4. PICK x \in S : m = INT64_MAX - x BY DEF T
<1>5. \A v \in S : INT64_MAX - x <= INT64_MAX - v BY <1>3, <1>4 DEF T
<1>6. \A v \in S : v <= x BY <1>1, <1>5, WidthBound
<1> QED BY <1>6

\* The values with an index up to i, and their number
Below(h, bag, i) == {v \in DOMAIN bag : counts_index_for(h.cfg, v) <= i}

\* The counts up to an index are those of the values whose indices come first.
LEMMA CumulativeCountIs ==
  ASSUME NEW h, Good(h), NEW bag, Counts(h, bag), NEW i \in Indices(h.cfg)
  PROVE  CumulativeCount(h, i) = SumOver(bag, Below(h, bag, i))
<1> DEFINE c == h.cfg
           I == Indices(c)
           D == DOMAIN bag
           J == 0 .. i
           B == Below(h, bag, i)
           w == [j \in I |-> IF j <= i THEN 1 ELSE 0]
           a == [j \in I |-> IF j <= i THEN h.counts[j] ELSE 0]
           b == [v \in D |-> IF v \in B THEN bag[v] ELSE 0]
<1>1. ConfigOK(c) /\ h.counts \in [I -> Nat] BY DEF Good, Consistent
<1>2. IsFiniteSet(I) /\ IsFiniteSet(D) /\ \A v \in D : bag[v] \in Nat
  BY <1>1, IndicesAre DEF Counts
<1>3. J \in SUBSET I /\ IsFiniteSet(J) /\ (\A j \in I : j \in J <=> j <= i)
  <2>1. I \subseteq Nat /\ c.counts_len \in Nat BY <1>1, IndicesAre
  <2>2. J \in SUBSET I BY <2>1 DEF Indices
  <2>3. IsFiniteSet(J) BY <2>1, FS_Interval
  <2> QED BY <2>1, <2>2, <2>3
<1>4. B \in SUBSET D /\ IsFiniteSet(B)
      /\ \A v \in D : v \in B <=> counts_index_for(c, v) <= i
  <2>1. B \in SUBSET D /\ \A v \in D : v \in B <=> counts_index_for(c, v) <= i BY DEF Below
  <2> HIDE DEF B, D
  <2> QED BY <1>2, <2>1, FS_Subset
<1>5. \A v \in D : counts_index_for(c, v) \in I BY CountsPositive
<1>6. \A j \in I : w[j] \in Int /\ a[j] = w[j] * h.counts[j] /\ a[j] \in Int
  <2>1. ASSUME NEW j \in I PROVE w[j] \in Int /\ a[j] = w[j] * h.counts[j] /\ a[j] \in Int
    <3>1. PICK n \in Nat : n = h.counts[j] BY <1>1
    <3>2. 1 * n = n /\ 0 * n = 0 OBVIOUS
    <3> QED BY <3>1, <3>2
  <2> QED BY <2>1
<1>7. \A v \in D : b[v] = w[counts_index_for(c, v)] * bag[v] /\ b[v] \in Int
  <2>1. ASSUME NEW v \in D PROVE b[v] = w[counts_index_for(c, v)] * bag[v] /\ b[v] \in Int
    <3> HIDE DEF B
    <3>1. PICK n \in Nat : n = bag[v] BY <1>2
    <3>2. 1 * n = n /\ 0 * n = 0 OBVIOUS
    <3>3. w[counts_index_for(c, v)] = IF v \in B THEN 1 ELSE 0 BY <1>4, <1>5
    <3> HIDE DEF w
    <3> QED BY <3>1, <3>2, <3>3
  <2> QED BY <2>1
<1>8. /\ \A j \in I \ J : a[j] = 0
      /\ \A j \in J : a[j] = h.counts[j]
      /\ \A v \in D \ B : b[v] = 0
      /\ \A v \in B : b[v] = bag[v]
  <2> HIDE DEF I, J, B
  <2> QED BY <1>3, <1>4
<1> HIDE DEF I, J, D, B, w, a, b
<1>9. SumOver(a, I) = SumOver(b, D)
  <2>1. (\A j \in I : w[j] \in Int) /\ (\A j \in I : a[j] = w[j] * h.counts[j])
        /\ (\A v \in D : b[v] = w[counts_index_for(c, v)] * bag[v])
    BY <1>6, <1>7
  <2> QED BY <2>1, WeightedSum DEF I, D
<1>10. SumOver(a, J) = SumOver(a, I)
  <2>1. \A j \in I : a[j] \in Int BY <1>6
  <2> QED BY <1>2, <1>3, <1>8, <2>1, SumSupport
<1>11. SumOver(a, J) = SumOver(h.counts, J)
  <2>1. \A j \in J : a[j] \in Int /\ a[j] = h.counts[j] BY <1>3, <1>6, <1>8
  <2> QED BY <1>3, <2>1, SumSame
<1>12. SumOver(b, B) = SumOver(b, D)
  <2>1. \A v \in D : b[v] \in Int BY <1>7
  <2> QED BY <1>2, <1>4, <1>8, <2>1, SumSupport
<1>13. SumOver(b, B) = SumOver(bag, B)
  <2>1. \A v \in B : b[v] \in Int /\ b[v] = bag[v] BY <1>4, <1>7, <1>8
  <2> QED BY <1>4, <2>1, SumSame
<1>14. CumulativeCount(h, i) = SumOver(h.counts, J)
  <2>1. Consistent(h) /\ i \in -1 .. h.cfg.counts_len - 1 BY IndicesAre DEF Good, Consistent, Indices
  <2> QED BY <2>1, CumulativeSum DEF J
<1> QED BY <1>9, <1>10, <1>11, <1>12, <1>13, <1>14 DEF B

\* What the program counts to is a rank the percentile stands for, one of 1 .. total.
LEMMA CountIsRank ==
  ASSUME NEW h, h.total_count \in Nat, NEW percentile \in Int,
         NEW count \in CountsAtPercentile(h, percentile)
  PROVE  /\ count \in Nat /\ count >= 1
         /\ h.total_count >= 1 => count <= h.total_count
         /\ count \in Ranks(h.total_count, percentile)
<1> DEFINE total == h.total_count
           q == IF percentile < 100 THEN percentile ELSE 100
           p == IF percentile < 0 THEN 0 ELSE Min({percentile, 100})
<1>1. Min({percentile, 100}) = q
  <2>1. q \in {percentile, 100} /\ \A y \in {percentile, 100} : q <= y OBVIOUS
  <2>2. \A x \in {percentile, 100} : (\A y \in {percentile, 100} : x <= y) => x = q OBVIOUS
  <2> HIDE DEF q
  <2> QED BY <2>1, <2>2 DEF Min
<1>2. q \in Int /\ q <= 100 /\ (percentile < 0 <=> q < 0)
      /\ p = IF q < 0 THEN 0 ELSE q
  BY <1>1
<1>3. Hundredths(h, percentile) = q * total BY DEF Hundredths
<1> HIDE DEF q, p
<1>4. PICK m \in Int : m = q * total BY <1>2
<1>5. m <= 100 * total /\ (q < 0 => m <= 0) /\ (q >= 0 => m >= 0)
  <2>1. PICK d \in Nat : 100 = q + d BY <1>2, 100 - q \in Nat
  <2>2. (q + d) * total = q * total + d * total /\ d * total \in Nat BY <1>2
  <2>3. q >= 0 => q * total \in Nat BY <1>2
  <2>4. q < 0 => q * total <= 0
    <3> SUFFICES ASSUME q < 0 PROVE q * total <= 0 OBVIOUS
    <3>1. PICK e \in Nat : q = -e BY <1>2, -q \in Nat
    <3>2. e * total \in Nat /\ (-e) * total = -(e * total) OBVIOUS
    <3> QED BY <3>1, <3>2
  <2> QED BY <1>4, <2>1, <2>2, <2>3, <2>4
<1>6. PICK n \in Nat : n = p * total /\ n = IF q < 0 THEN 0 ELSE m
  <2>1. CASE q < 0 BY <1>2, <2>1, 0 * total = 0
  <2>2. CASE q >= 0 BY <1>2, <1>4, <1>5, <2>2
  <2> QED BY <1>2, <2>1, <2>2
<1>7. PICK r \in Int : /\ count = Larger(r, 1)
                       /\ \/ r = (2 * m + 100) \div 200
                          \/ r = (2 * m + 100) \div 200 - 1 /\ (2 * m + 100) % 200 = 0
  BY <1>3, <1>4 DEF CountsAtPercentile
<1>8. r <= total /\ 2 * (100 * r - m) <= 100 /\ 2 * (100 * r - m) >= -100
  BY <1>5, <1>7
<1>9. Ranks(total, percentile)
        = {Larger(s, 1) : s \in {s \in 0 .. total : 2 * (100 * s - n) \in -100 .. 100}}
  BY <1>6 DEF Ranks, p
<1>10. count \in Nat /\ count >= 1 /\ (total >= 1 => count <= total)
  BY <1>7, <1>8 DEF Larger
<1>11. CASE r >= 0 /\ q >= 0
  <2>1. r \in 0 .. total /\ 2 * (100 * r - n) \in -100 .. 100
    <3>1. n = m BY <1>2, <1>6, <1>11
    <3>2. 2 * (100 * r - n) \in Int BY <1>7
    <3> QED BY <1>7, <1>8, <1>11, <3>1, <3>2
  <2>2. count \in Ranks(total, percentile)
    <3> HIDE DEF total
    <3> QED BY <1>7, <1>9, <2>1
  <2> QED BY <1>10, <2>2
<1>12. CASE r < 0 \/ q < 0
  <2>1. n <= 50 /\ count = Larger(0, 1) BY <1>5, <1>6, <1>7, <1>8, <1>12 DEF Larger
  <2>2. 0 \in 0 .. total /\ 2 * (100 * 0 - n) \in -100 .. 100 BY <1>6, <2>1
  <2> QED BY <1>9, <1>10, <2>1, <2>2
<1> QED BY <1>2, <1>7, <1>10, <1>11, <1>12

\* The value of a rank is unambiguous enough: one is chosen, at which the rank is reached.
LEMMA RankedValue ==
  ASSUME NEW h, NEW bag, Counts(h, bag), NEW rank \in Nat, rank >= 1,
         rank <= SumOver(bag, DOMAIN bag)
  PROVE  LET v == ValueAtRank(bag, rank)
         IN  v \in DOMAIN bag /\ UpTo(bag, v) >= rank /\ UpTo(bag, v - 1) < rank
<1> DEFINE D == DOMAIN bag
           To(v) == {x \in D : x <= v}
           S == {v \in D : UpTo(bag, v) >= rank}
<1>1. IsFiniteSet(D) /\ (\A v \in D : bag[v] \in Nat /\ v \in Nat) BY DEF Counts
<1>2. \A v : UpTo(bag, v) = SumOver(bag, To(v)) BY DEF UpTo, SumOver, BagToSet
<1>3. D # {}
  <2> SUFFICES ASSUME D = {} PROVE FALSE OBVIOUS
  <2>1. SumOver(bag, D) = 0 BY SumEmpty
  <2> QED BY <2>1
<1>4. S # {}
  <2>1. PICK m \in D : \A v \in D : v <= m BY <1>3, GreatestValue
  <2>2. To(m) = D BY <2>1
  <2>3. UpTo(bag, m) >= rank
    <3>1. SumOver(bag, D) \in Int BY <1>1, SumType
    <3> QED BY <1>2, <2>2, <3>1
  <2> QED BY <2>1, <2>3
<1>5. S \subseteq Nat /\ S \subseteq D BY <1>1
<1>6. PICK v \in S : \A x \in S : v <= x
  <2> HIDE DEF S
  <2> QED BY <1>4, <1>5, LeastNat
<1>7. v \in D /\ v \in Nat /\ UpTo(bag, v) >= rank BY <1>1
<1>8. \A x : UpTo(bag, x) \in Int
  <2>1. ASSUME NEW x PROVE SumOver(bag, To(x)) \in Int
    <3>1. IsFiniteSet(To(x)) /\ \A y \in To(x) : bag[y] \in Int BY <1>1, FS_Subset
    <3> HIDE DEF To
    <3> QED BY <3>1, SumType
  <2> QED BY <1>2, <2>1
<1>9. UpTo(bag, v - 1) < rank
  <2> SUFFICES ASSUME ~(UpTo(bag, v - 1) < rank) PROVE FALSE OBVIOUS
  <2>1. UpTo(bag, v - 1) >= rank BY <1>8
  <2>2. To(v - 1) # {}
    <3> SUFFICES ASSUME To(v - 1) = {} PROVE FALSE OBVIOUS
    <3>1. UpTo(bag, v - 1) = 0 BY <1>2, SumEmpty
    <3> QED BY <2>1, <3>1
  <2>3. To(v - 1) \in SUBSET D OBVIOUS
  <2> HIDE DEF To
  <2>4. PICK m \in To(v - 1) : \A x \in To(v - 1) : x <= m BY <2>2, <2>3, GreatestValue
  <2>5. m \in D /\ m <= v - 1 /\ m \in Nat BY <1>1, <2>3 DEF To
  <2>6. To(m) = To(v - 1)
    <3>1. \A x \in D : x <= m <=> x <= v - 1
      <4>1. ASSUME NEW x \in D, x <= v - 1 PROVE x <= m BY <2>4, <4>1 DEF To
      <4>2. ASSUME NEW x \in D, x <= m PROVE x <= v - 1
        <5>1. x \in Nat BY <1>1
        <5> QED BY <1>7, <2>5, <4>2, <5>1
      <4> QED BY <4>1, <4>2
    <3> QED BY <3>1 DEF To
  <2>7. UpTo(bag, m) >= rank BY <1>2, <2>1, <2>6
  <2>8. v <= m BY <1>6, <2>5, <2>7
  <2> QED BY <1>7, <2>5, <2>8
<1>10. \E x \in D : UpTo(bag, x) >= rank /\ UpTo(bag, x - 1) < rank BY <1>7, <1>9
<1> QED BY <1>10 DEF ValueAtRank, BagToSet

\* The index of that value is the first at which the count is reached.
LEMMA ValueAtCount ==
  ASSUME NEW h, Good(h), NEW bag, Counts(h, bag), NEW rank \in Nat, rank >= 1,
         h.total_count >= 1 => rank <= h.total_count
  PROVE  ValueOfCount(h, rank)
           = IF bag = EmptyBag THEN 0
             ELSE highest_equivalent_value(h.cfg, ValueAtRank(bag, rank))
<1> DEFINE c == h.cfg
           D == DOMAIN bag
           I == Indices(c)
           total == h.total_count
           value == ValueAtRank(bag, rank)
           i == counts_index_for(c, value)
           reached == {j \in RecordedIndices(h) : CumulativeCount(h, j) >= rank}
<1>1. total = SumOver(bag, D) /\ total \in Nat /\ (total = 0 <=> D = {}) BY TotalIsSize
<1>3. D = {} <=> bag = EmptyBag
  <2>1. bag \in [D -> Nat \ {0}] BY DEF Counts
  <2>2. bag = [v \in D |-> bag[v]] BY <2>1
  <2>3. EmptyBag = [v \in {} |-> 1] BY DEF EmptyBag, SetToBag
  <2>4. D = {} => bag = EmptyBag
    <3> SUFFICES ASSUME D = {} PROVE bag = EmptyBag OBVIOUS
    <3>1. bag \in [{} -> Nat] BY <2>1
    <3>2. EmptyBag \in [{} -> Nat] BY <2>3
    <3>3. \A v \in {} : bag[v] = EmptyBag[v] OBVIOUS
    <3> HIDE DEF D
    <3> QED BY <3>1, <3>2, <3>3
  <2>5. bag = EmptyBag => D = {} BY <2>3
  <2> QED BY <2>4, <2>5
<1>4. CASE bag = EmptyBag
  <2>1. total = 0 BY <1>1, <1>3, <1>4
  <2> QED BY <1>4, <2>1 DEF ValueOfCount
<1>5. CASE bag # EmptyBag
  <2>1. total # 0 /\ total >= 1 BY <1>1, <1>3, <1>5
  <2>2. rank <= total BY <2>1
  <2>3. value \in D /\ UpTo(bag, value) >= rank /\ UpTo(bag, value - 1) < rank
    BY <1>1, <2>2, RankedValue
  <2> HIDE DEF value, total
  <2>4. ConfigOK(c) BY DEF Good, Consistent
  <2>5. IsFiniteSet(D) /\ \A v \in D : /\ v \in Nat /\ v < Top(c) /\ bag[v] \in Nat
                                       /\ v < Pow2[63]
    <3>1. IsFiniteSet(D) /\ \A v \in D : v \in Nat /\ v < Top(c) /\ bag[v] \in Nat
      BY DEF Counts
    <3> QED BY <2>4, <3>1, ValueInRange
  <2>6. i \in I /\ h.counts[i] > 0 BY <2>3, CountsPositive
  <2>7. I \subseteq Nat BY <2>4, IndicesAre
  <2> HIDE DEF i
  <2>8. i \in RecordedIndices(h)
    <3>1. h.counts[i] \in Nat BY <2>6 DEF Good, Consistent
    <3> QED BY <2>6, <3>1 DEF RecordedIndices
  <2>9. \A v : UpTo(bag, v) = SumOver(bag, {x \in D : x <= v}) BY DEF UpTo, SumOver, BagToSet
  <2>10. CumulativeCount(h, i) >= rank
    <3> DEFINE A == {x \in D : x <= value}
               B == Below(h, bag, i)
    <3>1. A \subseteq B
      <4>1. ASSUME NEW x \in D, x <= value PROVE counts_index_for(c, x) <= i
        BY <2>3, <2>4, <2>5, <4>1, IndexMonotone DEF i
      <4> QED BY <4>1 DEF Below
    <3>2. IsFiniteSet(B) /\ \A x \in B : bag[x] \in Nat
      <4>1. B \subseteq D BY DEF Below
      <4> HIDE DEF B
      <4> QED BY <2>5, <4>1, FS_Subset
    <3>3. UpTo(bag, value) = SumOver(bag, A) BY <2>9
    <3> HIDE DEF A, B
    <3>4. A \in SUBSET B BY <3>1
    <3>5. SumOver(bag, A) \in Nat /\ SumOver(bag, B) \in Nat /\ SumOver(bag, A) <= SumOver(bag, B)
      BY <3>2, <3>4, SumPart
    <3>6. CumulativeCount(h, i) = SumOver(bag, B) BY <2>6, CumulativeCountIs DEF B
    <3> QED BY <2>2, <2>3, <3>3, <3>5, <3>6
  <2>11. ASSUME NEW j \in RecordedIndices(h), CumulativeCount(h, j) >= rank PROVE i <= j
    <3> SUFFICES ASSUME ~(i <= j) PROVE FALSE OBVIOUS
    <3>1. j \in I BY DEF RecordedIndices
    <3>2. j < i BY <2>6, <2>7, <3>1
    <3> DEFINE A == {x \in D : x <= value - 1}
               B == Below(h, bag, j)
    <3>3. B \subseteq A
      <4>1. ASSUME NEW x \in D, counts_index_for(c, x) <= j PROVE x <= value - 1
        <5> SUFFICES ASSUME ~(x <= value - 1) PROVE FALSE OBVIOUS
        <5>1. value <= x /\ value \in Nat /\ x \in Nat BY <2>3, <2>5
        <5>2. i <= counts_index_for(c, x) BY <2>4, <2>5, <5>1, IndexMonotone DEF i
        <5>3. counts_index_for(c, x) \in Nat BY <2>4, <2>5, ValueInRange
        <5> QED BY <2>6, <2>7, <3>1, <3>2, <4>1, <5>2, <5>3
      <4> QED BY <4>1 DEF Below
    <3>4. IsFiniteSet(A) /\ \A x \in A : bag[x] \in Nat BY <2>5, FS_Subset
    <3>5. UpTo(bag, value - 1) = SumOver(bag, A) BY <2>9
    <3> HIDE DEF A, B
    <3>6. B \in SUBSET A BY <3>3
    <3>7. SumOver(bag, B) \in Nat /\ SumOver(bag, A) \in Nat /\ SumOver(bag, B) <= SumOver(bag, A)
      BY <3>4, <3>6, SumPart
    <3>8. CumulativeCount(h, j) = SumOver(bag, B) BY <3>1, CumulativeCountIs DEF B
    <3> QED BY <2>2, <2>3, <2>11, <3>5, <3>7, <3>8
  <2>12. i \in reached /\ reached \subseteq Nat /\ \A j \in reached : i <= j
    <3>1. RecordedIndices(h) \subseteq I BY DEF RecordedIndices
    <3> QED BY <2>7, <2>8, <2>10, <2>11, <3>1
  <2> HIDE DEF reached
  <2>13. Min(reached) = i
    <3>1. \A x \in reached : (\A y \in reached : x <= y) => x = i BY <2>12
    <3> QED BY <2>12, <3>1 DEF Min
  <2>14. ValueOfCount(h, rank) = highest_equivalent_value(c, hdr_value_at_index(c, i))
    <3>1. reached = {j \in RecordedIndices(h) : CumulativeCount(h, j) >= rank}
      BY DEF reached
    <3>2. reached # {} BY <2>12
    <3> QED BY <2>1, <2>13, <3>1, <3>2 DEF ValueOfCount, total
  <2>15. highest_equivalent_value(c, hdr_value_at_index(c, i)) = highest_equivalent_value(c, value)
    <3> DEFINE x == hdr_value_at_index(c, i)
    <3>1. x \in Nat /\ x < Top(c) /\ counts_index_for(c, x) = i BY <2>4, <2>6, ValueOfIndex
    <3> HIDE DEF x
    <3>2. x < Pow2[63] BY <2>4, <3>1, ValueInRange
    <3>3. highest_equivalent_value(c, x) = highest_equivalent_value(c, value)
      BY <2>3, <2>4, <2>5, <3>1, <3>2, SameIndex DEF i
    <3> QED BY <3>3 DEF x
  <2> QED BY <1>5, <2>14, <2>15 DEF value
<1> QED BY <1>4, <1>5

\* hdr_value_at_percentile is true to within the resolution (hdr_histogram.c:509-535).
THEOREM PercentilesTrue == Spec => []PercentileIsTrue
<1>1. HistInv => PercentileIsTrue
  <2> SUFFICES ASSUME HistInv, NEW n \in Names, NEW percentile \in Percentiles,
                      NEW count \in CountsAtPercentile(hist[n], percentile)
               PROVE  ValueOfCount(hist[n], count)
                        \in IF samples[n] = EmptyBag THEN {0}
                            ELSE {highest_equivalent_value(hist[n].cfg,
                                                           ValueAtRank(samples[n], rank)) :
                                    rank \in Ranks(Size(samples[n]), percentile)}
    BY DEF PercentileIsTrue, hdr_value_at_percentile
  <2>1. Good(hist[n]) /\ Counts(hist[n], samples[n]) BY DEF HistInv
  <2>2. percentile \in Int BY UseAssumption
  <2>3. Size(samples[n]) = hist[n].total_count /\ hist[n].total_count \in Nat
    BY <2>1, TotalIsSize DEF Size, BagToSet, SumOver
  <2>4. /\ count \in Nat /\ count >= 1
        /\ hist[n].total_count >= 1 => count <= hist[n].total_count
        /\ count \in Ranks(Size(samples[n]), percentile)
    BY <2>2, <2>3, CountIsRank
  <2>5. ValueOfCount(hist[n], count)
          = IF samples[n] = EmptyBag THEN 0
            ELSE highest_equivalent_value(hist[n].cfg, ValueAtRank(samples[n], count))
    BY <2>1, <2>4, ValueAtCount
  <2> QED BY <2>4, <2>5
<1> QED BY <1>1, HistogramCounts, PTL

-------------------------------------------------------------------------------
(* Iterators: what they know                                                 *)

\* Percentiles, as fractions of the whole
Fractions == Nat \X (Nat \ {0})

IterRecord ==
  [counts_index : Int, total_count : Int, count : Int, cumulative_count : Int, value : Int,
   highest_equivalent_value : Int, value_iterated_from : Int, value_iterated_to : Int,
   count_added_in_this_iteration_step : Int, next_value_reporting_level : Int,
   seen_last_value : BOOLEAN, percentile_to_iterate_to : Fractions, percentile : Fractions]

\* An iterator knows the counts up to its index; one that has run past the last index knows
\* all of them.
At(it) ==
  LET i == it.counts_index
      c == histogram.cfg
  IN  /\ it \in IterRecord
      /\ it.total_count = histogram.total_count
      /\ i \in -1 .. c.counts_len
      /\ i < c.counts_len => it.cumulative_count = CumulativeCount(histogram, i)
      /\ i = c.counts_len => it.cumulative_count = histogram.total_count
      /\ i = -1 => it.count = 0 /\ it.value = 0 /\ it.highest_equivalent_value = 0
      /\ i \in Indices(c) => /\ it.count = histogram.counts[i]
                             /\ it.value = hdr_value_at_index(c, i)
                             /\ it.highest_equivalent_value = highest_equivalent_value(c, it.value)

\* a is a smaller fraction than b
Less(a, b) == a[1] * b[2] < b[1] * a[2]

\* What the percentile to iterate to is like: less than the whole, and as fine as the ticks
\* of its half distance.
IsTick(p) ==
  /\ p[1] < p[2]
  /\ \/ p = <<0, 1>>
     \/ \E t \in 1 .. p[2] : p[2] = arg * Pow2[t] /\ (p[2] - p[1]) * Pow2[t - 1] <= p[2]

\* The values before the current ones are fewer than the percentile asks for.
NotBefore(it, p) ==
  IF p[1] = 0 THEN it.cumulative_count = it.count
  ELSE p[1] * histogram.total_count > (it.cumulative_count - it.count) * p[2]

\* A printed line
Line(it) ==
  /\ it.count # 0
  /\ it.percentile[1] * histogram.total_count <= it.cumulative_count * it.percentile[2]
  /\ it.percentile[1] # 0 => NotBefore(it, it.percentile)

\* The percentile iterator it, s as it was when it last returned true, and where it is in
\* a call.
PercentileInv(it, s, at) ==
  LET to == it.percentile_to_iterate_to IN
  /\ IsTick(to) /\ NotBefore(it, to)
  /\ it.counts_index < histogram.cfg.counts_len
  /\ at = "loop" => it.counts_index # -1 /\ (has_next(it) \/ it.count # 0) /\ ~it.seen_last_value
  /\ at # "loop" => s = it
  /\ s.counts_index # -1 => Line(s)
  /\ s.counts_index # -1 /\ ~s.seen_last_value => Less(s.percentile, to)
  /\ s.seen_last_value => s = it /\ ~has_next(it)
  /\ it.seen_last_value => s.seen_last_value /\ it.percentile = <<1, 1>>
  /\ s.counts_index <= it.counts_index
  /\ at = "done" => it.seen_last_value

\* A linear or logarithmic iterator has not passed its level.
LevelInv(it, s, at) ==
  LET c == histogram.cfg
      level == it.next_value_reporting_level
  IN  /\ level \in 0 .. INT64_MAX
      /\ it.counts_index \in Indices(c) => it.value <= lowest_equivalent_value(c, level)
      /\ at = "loop" => it.counts_index < c.counts_len
      /\ at = "idle" => s = it
      /\ at = "done" => ~has_next(it) /\ s.cumulative_count = it.cumulative_count
      /\ s.counts_index \in Indices(c) => lowest_equivalent_value(c, s.value_iterated_to) = s.value

\* The others return true for every value they move to, or for those that are counted.
ValuesInv(it, s, at) ==
  /\ at # "loop" /\ (at = "idle" => it.counts_index < histogram.cfg.counts_len)
  /\ s.cumulative_count = it.cumulative_count
  /\ at = "done" => it.cumulative_count = histogram.total_count

\* The histogram is one of the program, whose values fit the iterator's total.
HistogramOK ==
  /\ Good(histogram) /\ histogram.cfg = Empty.cfg
  /\ histogram.total_count <= INT32_MAX

\* The arguments of the iterators
ArgumentOK ==
  /\ kind \in {"all", "recorded", "percentile", "linear", "log"}
  /\ kind = "percentile" => arg \in Ticks
  /\ kind = "linear" => arg \in Units
  /\ kind = "log" => arg \in Bases

StateOK(it, s, at) ==
  /\ At(it) /\ At(s) /\ at \in {"idle", "loop", "done"}
  /\ kind = "percentile" => PercentileInv(it, s, at)
  /\ HasLevels => LevelInv(it, s, at)
  /\ kind \in {"all", "recorded"} => ValuesInv(it, s, at)

IterInv == HistogramOK /\ ArgumentOK /\ StateOK(iter, shown, pc)


\* What is known of the histogram an iterator runs over.
LEMMA HistogramFacts ==
  ASSUME HistogramOK
  PROVE  LET c == histogram.cfg IN
         /\ Good(histogram) /\ ConfigOK(c)
         /\ histogram.counts \in [Indices(c) -> Nat]
         /\ histogram.total_count \in Nat
         /\ histogram.total_count = SumOver(histogram.counts, Indices(c))
         /\ c.counts_len \in Nat \ {0}
         /\ Indices(c) = 0 .. c.counts_len - 1
         /\ IsFiniteSet(Indices(c))
<1>1. Good(histogram) /\ ConfigOK(histogram.cfg) BY DEF HistogramOK, Good, Consistent
<1>2. histogram.counts \in [Indices(histogram.cfg) -> Nat] /\ histogram.total_count \in Nat
      /\ histogram.total_count = SumOver(histogram.counts, Indices(histogram.cfg))
  BY <1>1 DEF Good, Consistent
<1> QED BY <1>1, <1>2, IndicesAre DEF Indices

\* The counts added up, index by index.
LEMMA Cumulates ==
  ASSUME HistogramOK, NEW i \in -1 .. histogram.cfg.counts_len - 1
  PROVE  LET h == histogram
             len == h.cfg.counts_len
         IN  /\ CumulativeCount(h, -1) = 0
             /\ CumulativeCount(h, i) \in Nat
             /\ i # -1 => CumulativeCount(h, i) = CumulativeCount(h, i - 1) + h.counts[i]
             /\ \A j \in -1 .. len - 1 : i <= j => CumulativeCount(h, i) <= CumulativeCount(h, j)
             /\ \A j \in 0 .. len - 1 :
                  i < j => CumulativeCount(h, i) + h.counts[j] <= CumulativeCount(h, j)
             /\ CumulativeCount(h, len - 1) = h.total_count
<1> DEFINE h == histogram
           len == h.cfg.counts_len
           I == Indices(h.cfg)
<1>1. h.counts \in [I -> Nat] /\ h.total_count = SumOver(h.counts, I) /\ len \in Nat \ {0}
      /\ I = 0 .. len - 1 /\ IsFiniteSet(I)
  BY HistogramFacts
<1>2. \A j \in -1 .. len - 1 : CumulativeCount(h, j) = SumOver(h.counts, 0 .. j)
  <2>1. Consistent(h) BY HistogramFacts DEF Good
  <2> QED BY <2>1, CumulativeSum
<1> HIDE DEF h, len, I
<1>3. ASSUME NEW j \in -1 .. len - 1
      PROVE  /\ 0 .. j \in SUBSET I /\ IsFiniteSet(0 .. j) /\ \A x \in 0 .. j : h.counts[x] \in Nat
  <2>1. 0 .. j \subseteq I BY <1>1
  <2> QED BY <1>1, <2>1, FS_Subset
<1>4. i \in -1 .. len - 1 BY DEF len, h
<1>5. CumulativeCount(h, -1) = 0
  <2>1. 0 .. -1 = {} /\ -1 \in -1 .. len - 1 BY <1>1
  <2> QED BY <1>2, <2>1, SumEmpty
<1>6. CumulativeCount(h, i) \in Nat BY <1>2, <1>3, <1>4, SumNat
<1>7. ASSUME i # -1 PROVE CumulativeCount(h, i) = CumulativeCount(h, i - 1) + h.counts[i]
  <2>1. i \in 0 .. i /\ (0 .. i) \ {i} = 0 .. i - 1 /\ i - 1 \in -1 .. len - 1
    BY <1>1, <1>4, <1>7
  <2>2. \A x \in 0 .. i : h.counts[x] \in Int BY <1>3, <1>4
  <2> DEFINE S == 0 .. i
  <2>3. SumOver(h.counts, 0 .. i) = h.counts[i] + SumOver(h.counts, 0 .. i - 1)
        /\ SumOver(h.counts, 0 .. i - 1) \in Int
    <3>1. IsFiniteSet(S) BY <1>3, <1>4
    <3>2. i \in S /\ S \ {i} = 0 .. i - 1 BY <2>1
    <3>3. \A x \in S : h.counts[x] \in Int BY <2>2
    <3> HIDE DEF S
    <3>4. SumOver(h.counts, S) = h.counts[i] + SumOver(h.counts, S \ {i})
          /\ SumOver(h.counts, S \ {i}) \in Int
      BY <3>1, <3>2, <3>3, SumRemove
    <3> QED BY <3>2, <3>4 DEF S
  <2>4. CumulativeCount(h, i) = SumOver(h.counts, 0 .. i)
        /\ CumulativeCount(h, i - 1) = SumOver(h.counts, 0 .. i - 1)
    BY <1>2, <1>4, <2>1
  <2>5. h.counts[i] \in Int BY <2>1, <2>2
  <2> QED BY <2>3, <2>4, <2>5
<1>8. ASSUME NEW j \in -1 .. len - 1, i <= j
      PROVE  /\ CumulativeCount(h, i) <= CumulativeCount(h, j)
             /\ j # -1 /\ i < j => CumulativeCount(h, i) + h.counts[j] <= CumulativeCount(h, j)
  <2>1. 0 .. i \in SUBSET (0 .. j) BY <1>4, <1>8
  <2>2. IsFiniteSet(0 .. j) /\ \A x \in 0 .. j : h.counts[x] \in Nat BY <1>3
  <2>3. /\ SumOver(h.counts, 0 .. i) <= SumOver(h.counts, 0 .. j)
        /\ \A x \in 0 .. j : x \notin 0 .. i =>
             SumOver(h.counts, 0 .. i) + h.counts[x] <= SumOver(h.counts, 0 .. j)
    BY <2>1, <2>2, SumPart
  <2>4. j # -1 /\ i < j => j \in 0 .. j /\ j \notin 0 .. i BY <1>4
  <2>5. CumulativeCount(h, i) = SumOver(h.counts, 0 .. i)
        /\ CumulativeCount(h, j) = SumOver(h.counts, 0 .. j)
    BY <1>2, <1>4
  <2> QED BY <2>3, <2>4, <2>5
<1>9. CumulativeCount(h, len - 1) = h.total_count
  <2>1. len - 1 \in -1 .. len - 1 BY <1>1
  <2> QED BY <1>1, <1>2, <2>1
<1>10. \A j \in 0 .. len - 1 : j \in -1 .. len - 1 /\ j # -1 BY <1>1
<1>11. \A j \in 0 .. len - 1 :
         i < j => CumulativeCount(h, i) + h.counts[j] <= CumulativeCount(h, j)
  <2>1. ASSUME NEW j \in 0 .. len - 1, i < j
        PROVE  CumulativeCount(h, i) + h.counts[j] <= CumulativeCount(h, j)
    <3>1. i <= j BY <1>4, <2>1
    <3> QED BY <1>8, <1>10, <2>1, <3>1
  <2> QED BY <2>1
<1> QED BY <1>5, <1>6, <1>7, <1>8, <1>9, <1>11 DEF h, len

\* What an iterator says where it is.
LEMMA AtFacts ==
  ASSUME HistogramOK, NEW it, At(it)
  PROVE  LET i == it.counts_index
             len == histogram.cfg.counts_len
         IN  /\ it.cumulative_count \in Nat /\ it.cumulative_count <= histogram.total_count
             /\ i \in Int /\ i >= -1 /\ i <= len /\ len \in Nat \ {0}
             /\ i # -1 /\ i # len => i \in Indices(histogram.cfg)
             /\ i = len - 1 => it.cumulative_count = histogram.total_count
             /\ has_next(it) <=> it.cumulative_count < histogram.total_count
             /\ has_next(it) => i + 1 \in Indices(histogram.cfg)
             /\ ~has_next(it) => it.cumulative_count = histogram.total_count
<1> DEFINE h == histogram
           len == h.cfg.counts_len
           i == it.counts_index
           total == h.total_count
<1>1. len \in Nat \ {0} /\ total \in Nat /\ Indices(h.cfg) = 0 .. len - 1 BY HistogramFacts
<1>2. i \in -1 .. len /\ it.total_count = total
      /\ (i < len => it.cumulative_count = CumulativeCount(h, i))
      /\ (i = len => it.cumulative_count = total)
  BY DEF At
<1>3. i < len => i \in -1 .. len - 1 BY <1>1, <1>2
<1>4. i < len => CumulativeCount(h, i) \in Nat /\ CumulativeCount(h, i) <= total
  <2> SUFFICES ASSUME i < len PROVE CumulativeCount(h, i) \in Nat /\ CumulativeCount(h, i) <= total
    OBVIOUS
  <2>1. i \in -1 .. len - 1 /\ len - 1 \in -1 .. len - 1 /\ i <= len - 1 BY <1>1, <1>3
  <2> QED BY <2>1, Cumulates
<1>5. i = len - 1 => it.cumulative_count = total
  <2> SUFFICES ASSUME i = len - 1 PROVE it.cumulative_count = total OBVIOUS
  <2>1. i < len /\ i \in -1 .. len - 1 BY <1>1
  <2>2. CumulativeCount(h, len - 1) = total BY <2>1, Cumulates
  <2> QED BY <1>2, <2>1, <2>2
<1> HIDE DEF h, len, i, total
<1>6. i = len \/ i < len BY <1>1, <1>2
<1>7. it.cumulative_count \in Nat /\ it.cumulative_count <= total BY <1>1, <1>2, <1>4, <1>6
<1>8. has_next(it) <=> it.cumulative_count < total BY <1>2 DEF has_next
<1>9. has_next(it) => i + 1 \in 0 .. len - 1
  <2> SUFFICES ASSUME has_next(it) PROVE i + 1 \in 0 .. len - 1 OBVIOUS
  <2>1. i # len /\ i # len - 1 BY <1>1, <1>2, <1>5, <1>7, <1>8
  <2> QED BY <1>1, <1>2, <2>1
<1>10. i # -1 /\ i # len => i \in 0 .. len - 1 BY <1>1, <1>2
<1> QED BY <1>1, <1>2, <1>5, <1>7, <1>8, <1>9, <1>10 DEF h, len, i, total

\* An iterator that has moved to an index
Moved(it, i, n, total, value, high) ==
  [it EXCEPT !.counts_index = i, !.count = n, !.cumulative_count = total, !.value = value,
             !.highest_equivalent_value = high]

\* The fields of an iterator that has moved.
LEMMA MovedFields ==
  ASSUME NEW it \in IterRecord, NEW i \in Int, NEW n \in Int, NEW value \in Int, NEW high \in Int,
         NEW total \in Int
  PROVE  LET m == Moved(it, i, n, total, value, high) IN
         /\ m \in IterRecord
         /\ m.counts_index = i /\ m.count = n /\ m.value = value
         /\ m.highest_equivalent_value = high
         /\ m.cumulative_count = total
         /\ m.total_count = it.total_count
         /\ m.value_iterated_from = it.value_iterated_from
         /\ m.value_iterated_to = it.value_iterated_to
         /\ m.count_added_in_this_iteration_step = it.count_added_in_this_iteration_step
         /\ m.next_value_reporting_level = it.next_value_reporting_level
         /\ m.seen_last_value = it.seen_last_value
         /\ m.percentile_to_iterate_to = it.percentile_to_iterate_to
         /\ m.percentile = it.percentile
BY DEF IterRecord, Moved

\* What move_next changes.
LEMMA MoveNextAt ==
  ASSUME HistogramOK, NEW it, At(it), it.counts_index + 1 \in Indices(histogram.cfg)
  PROVE  LET i == it.counts_index + 1
             m == move_next(it)
         IN  /\ At(m)
             /\ m.counts_index = i /\ m.count = histogram.counts[i] /\ m.count \in Nat
             /\ m.value = hdr_value_at_index(histogram.cfg, i)
             /\ m.cumulative_count = it.cumulative_count + m.count
             /\ m.total_count = it.total_count
             /\ m.value_iterated_from = it.value_iterated_from
             /\ m.value_iterated_to = it.value_iterated_to
             /\ m.count_added_in_this_iteration_step = it.count_added_in_this_iteration_step
             /\ m.next_value_reporting_level = it.next_value_reporting_level
             /\ m.seen_last_value = it.seen_last_value
             /\ m.percentile_to_iterate_to = it.percentile_to_iterate_to
             /\ m.percentile = it.percentile
<1> DEFINE h == histogram
           c == h.cfg
           i == it.counts_index + 1
           n == h.counts[i]
           value == hdr_value_at_index(c, i)
           high == highest_equivalent_value(c, value)
           m == move_next(it)
<1>1. ConfigOK(c) /\ h.counts \in [Indices(c) -> Nat] /\ c.counts_len \in Nat \ {0}
      /\ Indices(c) = 0 .. c.counts_len - 1
  BY HistogramFacts
<1>2. it \in IterRecord /\ it.counts_index \in Int /\ it.cumulative_count \in Nat
      /\ it.total_count = h.total_count
  BY AtFacts DEF At
<1>3. n \in Nat BY <1>1
<1>4. value \in Nat /\ value < Top(c) BY <1>1, ValueOfIndex
<1>5. high \in Nat BY <1>1, <1>4, HighestInRange
<1>6. m = [it EXCEPT !.counts_index = i, !.count = n, !.cumulative_count = @ + n, !.value = value,
                     !.highest_equivalent_value = high]
  BY DEF move_next
<1>7. it.counts_index < c.counts_len /\ i < c.counts_len /\ i # -1 /\ i # c.counts_len
      /\ i \in -1 .. c.counts_len /\ i \in -1 .. c.counts_len - 1 /\ i - 1 = it.counts_index
  BY <1>1, <1>2
<1>8. it.cumulative_count + n = CumulativeCount(h, i)
  <2>1. CumulativeCount(h, i) = CumulativeCount(h, i - 1) + n BY <1>7, Cumulates
  <2> QED BY <1>7, <2>1 DEF At
<1> HIDE DEF i, n, value, high, m, c, h
<1>9. /\ m \in IterRecord
      /\ m.counts_index = i /\ m.count = n /\ m.value = value /\ m.highest_equivalent_value = high
      /\ m.cumulative_count = it.cumulative_count + n
      /\ m.total_count = it.total_count
      /\ m.value_iterated_from = it.value_iterated_from
      /\ m.value_iterated_to = it.value_iterated_to
      /\ m.count_added_in_this_iteration_step = it.count_added_in_this_iteration_step
      /\ m.next_value_reporting_level = it.next_value_reporting_level
      /\ m.seen_last_value = it.seen_last_value
      /\ m.percentile_to_iterate_to = it.percentile_to_iterate_to
      /\ m.percentile = it.percentile
  <2>1. i \in Int BY <1>2 DEF i
  <2>2. n \in Int /\ value \in Int /\ high \in Int /\ it.cumulative_count + n \in Int
    BY <1>2, <1>3, <1>4, <1>5
  <2>3. m = Moved(it, i, n, it.cumulative_count + n, value, high) BY <1>6 DEF Moved
  <2> QED BY <1>2, <2>1, <2>2, <2>3, MovedFields
<1>10. At(m)
  <2>1. m.highest_equivalent_value = highest_equivalent_value(c, m.value) BY <1>9 DEF high
  <2> QED BY <1>2, <1>7, <1>8, <1>9, <2>1 DEF At, h, c, n, value
<1> QED BY <1>3, <1>9, <1>10 DEF h, c, i, n, value, m
-------------------------------------------------------------------------------
(* The initial states                                                        *)

\* The histogram without values, and the first value beyond its buckets.
LEMMA EmptyIs ==
  /\ Good(Empty) /\ ConfigOK(Empty.cfg)
  /\ Beyond = Top(Empty.cfg) /\ Beyond \in Nat
<1>1. /\ lowest_trackable_value \in Nat /\ highest_trackable_value \in Nat
      /\ highest_trackable_value <= INT64_MAX
      /\ ValidParameters(lowest_trackable_value, highest_trackable_value, significant_figures)
      /\ MaskFits(lowest_trackable_value, significant_figures)
  <2>1. lowest_trackable_value >= 1 BY IteratorAssumption DEF ValidParameters
  <2> QED BY <2>1, IteratorAssumption, WidthBound DEF MaskFits
<1>2. ConfigOK(hdr_calculate_bucket_config(lowest_trackable_value, highest_trackable_value,
                                           significant_figures))
  BY <1>1, ConfigIs
<1>3. Good(Empty) BY <1>2, InitIsGood DEF Empty
<1>4. ConfigOK(Empty.cfg) BY <1>3 DEF Good, Consistent
<1> DEFINE c == Empty.cfg
<1> HIDE DEF c
<1>5. PICK m \in Nat, u \in Nat, B \in Nat \ {0}, p \in Nat \ {0} :
        /\ m = c.sub_bucket_half_count_magnitude /\ u = c.unit_magnitude
        /\ B = c.bucket_count /\ p = Pow2[m]
  BY <1>4, Pow2Type DEF ConfigOK, c
<1>6. /\ c.sub_bucket_half_count = p /\ c.counts_len = (B + 1) * p
  BY <1>4, <1>5, Pow2Type DEF ConfigOK, c
<1>7. ((B + 1) * p) \div p = B + 1 /\ ((B + 1) * p) % p = 0
  <2>1. PICK q \in Nat, n \in Nat : q = B + 1 /\ n = (B + 1) * p
    <3>1. B + 1 \in Nat /\ (B + 1) * p \in Nat BY <1>6
    <3> QED BY <3>1
  <2>2. PICK r \in 0 .. p - 1 : r = 0 OBVIOUS
  <2>3. n = q * p + r BY <2>1, <2>2
  <2>4. n \div p = q /\ n % p = 0 BY <2>2, <2>3, QuotientOf
  <2> QED BY <2>1, <2>4
<1>8. hdr_value_at_index(c, c.counts_len) = p * Pow2[B + u]
  <2>1. ~(B + 1 - 1 < 0) /\ B + 1 - 1 = B /\ 0 + p = p BY <1>6
  <2> QED BY <1>5, <1>6, <1>7, <2>1 DEF hdr_value_at_index, value_from_index
<1>9. p * Pow2[B + u] = Top(c)
  <2>1. PICK k \in Nat : k = B + u
    <3>1. B + u \in Nat BY <1>6
    <3> QED BY <3>1
  <2>2. m + k = u + m + B BY <1>6, <2>1
  <2>3. Pow2[m + k] = Pow2[m] * Pow2[k] BY <1>6, Pow2Sum
  <2> QED BY <1>5, <2>1, <2>2, <2>3 DEF Top
<1> QED BY <1>3, <1>4, <1>8, <1>9, TopBounds DEF Beyond, c

\* The indices that get counts
Given(counts) == {i \in UsedIndices : counts[i] # 0}

\* Filled is a recording.
LEMMA FilledRecording ==
  ASSUME NEW counts, NEW S, S = Given(counts), NEW val, NEW num,
         \A i \in S : val[i] = hdr_value_at_index(Empty.cfg, i) /\ num[i] = counts[i],
         \E it : Recording(it, val, num, Empty, S)
  PROVE  \E it : Recording(it, val, num, Empty, S) /\ Filled(counts) = it[S]
<1> DEFINE Folds(it) ==
             it = [s \in SUBSET S |->
                    IF s = {} THEN Empty
                    ELSE hdr_record_values(it[s \ {Pick(s)}],
                                           hdr_value_at_index(Empty.cfg, Pick(s)), counts[Pick(s)])]
           fold == CHOOSE it : Folds(it)
<1>1. Filled(counts) = fold[S] BY DEF Filled, Given, FoldSet, MapThenFoldSet, Pick
<1>2. ASSUME NEW it PROVE Folds(it) <=> Recording(it, val, num, Empty, S)
  <2>1. \A s \in SUBSET S : s # {} => /\ val[Pick(s)] = hdr_value_at_index(Empty.cfg, Pick(s))
                                      /\ num[Pick(s)] = counts[Pick(s)]
    <3>1. \A s \in SUBSET S : s # {} => Pick(s) \in S BY PickIn
    <3> QED BY <3>1
  <2>2. [s \in SUBSET S |->
          IF s = {} THEN Empty
          ELSE hdr_record_values(it[s \ {Pick(s)}], hdr_value_at_index(Empty.cfg, Pick(s)),
                                 counts[Pick(s)])]
        = [s \in SUBSET S |->
            IF s = {} THEN Empty
            ELSE hdr_record_values(it[s \ {Pick(s)}], val[Pick(s)], num[Pick(s)])]
    BY <2>1
  <2> QED BY <2>2 DEF Recording
<1>3. \E it : Folds(it) BY <1>2
<1>4. Folds(fold)
  <2> HIDE DEF Folds
  <2> QED BY <1>3
<1>5. Recording(fold, val, num, Empty, S) BY <1>2, <1>4
<1> HIDE DEF fold, Folds
<1>6. Recording(fold, val, num, Empty, S) /\ Filled(counts) = fold[S] BY <1>1, <1>5
<1> WITNESS fold
<1> QED BY <1>6

\* The histograms the iterators start with.
LEMMA FilledIs ==
  ASSUME NEW counts \in [UsedIndices -> 0 .. MaxCount]
  PROVE  LET h == Filled(counts)
         IN  Good(h) /\ h.cfg = Empty.cfg /\ h.total_count <= INT32_MAX
<1> DEFINE c == Empty.cfg
           S == Given(counts)
           val == [i \in S |-> hdr_value_at_index(c, i)]
           num == [i \in S |-> counts[i]]
<1>1. ConfigOK(c) /\ Good(Empty) BY EmptyIs
<1>2. \A i \in UsedIndices : i \in Indices(c) /\ hdr_value_at_index(c, i) < INT64_MAX
      /\ counts[i] \in Nat
  BY IteratorAssumption
<1>3. S \subseteq Indices(c) /\ IsFiniteSet(S)
      /\ \A i \in S : counts[i] \in Nat \ {0} /\ hdr_value_at_index(c, i) < INT64_MAX
  <2>1. S \subseteq Indices(c)
        /\ \A i \in S : counts[i] \in Nat \ {0} /\ hdr_value_at_index(c, i) < INT64_MAX
    BY <1>2 DEF Given
  <2>2. IsFiniteSet(Indices(c)) BY <1>1, IndicesAre
  <2> HIDE DEF S
  <2> QED BY <2>1, <2>2, FS_Subset
<1>4. \A i \in S : hdr_value_at_index(c, i) \in Nat BY <1>1, <1>3, ValueOfIndex
<1>5. \A i \in S : val[i] = hdr_value_at_index(c, i) /\ num[i] = counts[i] OBVIOUS
<1>6. S = Given(counts) OBVIOUS
<1> HIDE DEF S, val, num
<1>7. Recordable(val, num, S) BY <1>3, <1>4, <1>5 DEF Recordable
<1>8. \E it : Recording(it, val, num, Empty, S) BY <1>1, <1>7, RecordingExists
<1>9. PICK it : Recording(it, val, num, Empty, S) /\ Filled(counts) = it[S]
  <2>1. \E it : Recording(it, val, num, Empty, S) /\ Filled(counts) = it[S]
    BY <1>5, <1>6, <1>8, FilledRecording DEF c
  <2> QED BY <2>1
<1>10. Good(it[S]) /\ it[S].cfg = c BY <1>1, <1>7, <1>9, RecordingCounts
<1> QED BY <1>9, <1>10, IteratorAssumption

-------------------------------------------------------------------------------
(* Ticks                                                                     *)

\* There is a number of half distances, and HalfDistances is one.
LEMMA HalfDistancesAre ==
  ASSUME NEW n \in Nat, NEW d \in Nat, n < d
  PROVE  LET t == HalfDistances(n, d)
         IN  t \in 1 .. d /\ (d - n) * Pow2[t] > d /\ (d - n) * Pow2[t - 1] <= d
<1> DEFINE r == d - n
           S == {t \in Nat : r * Pow2[t] > d}
<1>1. r \in Nat /\ r >= 1 OBVIOUS
<1> HIDE DEF r
<1>2. d \in S
  <2>1. PICK x \in Nat, y \in Nat : r = y + 1 /\ x = Pow2[d] /\ x > d
    <3>1. r - 1 \in Nat /\ r = (r - 1) + 1 BY <1>1
    <3> QED BY <3>1, Pow2Type
  <2>2. (y + 1) * x = y * x + x /\ y * x \in Nat OBVIOUS
  <2> QED BY <2>1, <2>2
<1>3. PICK t \in S : \A k \in S : t <= k
  <2>1. S \subseteq Nat /\ S # {} BY <1>2
  <2> HIDE DEF S
  <2> QED BY <2>1, LeastNat
<1>4. t \in Nat /\ t <= d /\ r * Pow2[t] > d BY <1>2, <1>3
<1>5. t # 0
  <2> SUFFICES ASSUME t = 0 PROVE FALSE OBVIOUS
  <2>1. r * 1 > d BY <1>4, Pow2Values
  <2> QED BY <2>1 DEF r
<1>6. t - 1 \in Nat /\ t - 1 \notin S BY <1>3, <1>4, <1>5
<1>7. r * Pow2[t - 1] <= d
  <2>1. PICK x \in Nat : x = Pow2[t - 1] BY <1>6, Pow2Type
  <2>2. r * x \in Nat /\ ~(r * x > d) BY <1>1, <1>6, <2>1
  <2> QED BY <2>1, <2>2
<1>8. t \in 1 .. d BY <1>4, <1>5
<1>9. \E k \in 1 .. d : (d - n) * Pow2[k] > d /\ (d - n) * Pow2[k - 1] <= d
  BY <1>4, <1>7, <1>8 DEF r
<1> QED BY <1>9 DEF HalfDistances

\* The fractions of the ticks: the next one is larger, and still less than the whole.
LEMMA NextTickIs ==
  ASSUME arg \in Nat \ {0}, NEW p \in Fractions, IsTick(p)
  PROVE  LET q == NextTick(p)
         IN  q \in Fractions /\ IsTick(q) /\ Less(p, q) /\ q[1] >= 1
<1>1. PICK n \in Nat, d \in Nat \ {0} : p = <<n, d>> BY DEF Fractions
<1>2. /\ n < d
      /\ \/ n = 0 /\ d = 1
         \/ \E s \in 1 .. d : d = arg * Pow2[s] /\ (d - n) * Pow2[s - 1] <= d
  BY <1>1 DEF IsTick
<1>3. PICK t \in 1 .. d :
        t = HalfDistances(n, d) /\ (d - n) * Pow2[t] > d /\ (d - n) * Pow2[t - 1] <= d
  BY <1>2, HalfDistancesAre
<1>4. PICK a \in Nat \ {0}, x \in Nat \ {0}, y \in Nat \ {0}, r \in Nat \ {0} :
        a = arg /\ x = Pow2[t] /\ y = Pow2[t - 1] /\ r = d - n
  <2>1. t \in Nat /\ t - 1 \in Nat /\ d - n \in Nat \ {0} BY <1>2
  <2> QED BY <2>1, Pow2Type
<1>5. r * x > d /\ r * y <= d BY <1>3, <1>4
<1>6. PICK ticks \in Nat \ {0} : ticks = a * x
  <2>1. a * x \in Nat \ {0} OBVIOUS
  <2> QED BY <2>1
<1>7. \E k \in Nat \ {0} : ticks = d * k
  <2>1. CASE n = 0 /\ d = 1 BY <2>1
  <2>2. CASE ~(n = 0 /\ d = 1)
    <3>1. PICK s \in 1 .. d : d = a * Pow2[s] /\ (d - n) * Pow2[s - 1] <= d BY <1>2, <1>4, <2>2
    <3>2. s \in Nat /\ s - 1 \in Nat /\ t \in Nat OBVIOUS
    <3>3. PICK z \in Nat \ {0} : z = Pow2[s - 1] /\ r * z <= d BY <1>4, <3>1, <3>2, Pow2Type
    <3>4. z < x
      <4>1. ~(x <= z)
        <5> SUFFICES ASSUME x <= z PROVE FALSE OBVIOUS
        <5>1. x * r <= z * r BY ProductMonotone
        <5>2. x * r = r * x /\ z * r = r * z OBVIOUS
        <5> QED BY <1>5, <3>3, <5>1, <5>2
      <4> QED BY <4>1
    <3>5. s - 1 < t BY <1>4, <3>2, <3>3, <3>4, Pow2Monotone
    <3>6. PICK e \in Nat : t = s + e
      <4>1. t - s \in Nat /\ t = s + (t - s) BY <3>2, <3>5
      <4> QED BY <4>1
    <3>7. PICK k \in Nat \ {0}, v \in Nat : k = Pow2[e] /\ v = Pow2[s] BY <3>2, Pow2Type
    <3>8. x = v * k
      <4>1. Pow2[s + e] = Pow2[s] * Pow2[e] BY <3>2, Pow2Sum
      <4> QED BY <1>4, <3>6, <3>7, <4>1
    <3>9. a * (v * k) = (a * v) * k OBVIOUS
    <3> QED BY <1>6, <3>1, <3>7, <3>8, <3>9
  <2> QED BY <2>1, <2>2
<1>8. PICK k \in Nat \ {0} : ticks = d * k BY <1>7
<1>9. ticks \div d = k
  <2>1. PICK o \in 0 .. d - 1 : o = 0 OBVIOUS
  <2>2. ticks = k * d + o BY <1>8, <2>1
  <2> QED BY <2>1, <2>2, QuotientOf
<1>10. NextTick(p) = <<n * k + 1, ticks>>
  BY <1>1, <1>3, <1>4, <1>6, <1>9 DEF NextTick
<1>11. n * k \in Nat /\ r * k \in Nat /\ d * k = n * k + r * k
  <2>1. d = n + r BY <1>4
  <2>2. (n + r) * k = n * k + r * k /\ n * k \in Nat /\ r * k \in Nat OBVIOUS
  <2> QED BY <2>1, <2>2
<1>12. r * k > a
  \* (r * x) * a > d * a, and (r * x) * a = r * ticks = (r * k) * d.
  <2>1. d * a < (r * x) * a
    <3>1. r * x \in Nat /\ d <= r * x /\ d < r * x /\ a > 0 BY <1>5
    <3> QED BY <3>1, ProductMonotone
  <2>2. (r * x) * a = r * (a * x) OBVIOUS
  <2>3. r * (d * k) = (r * k) * d OBVIOUS
  <2>4. a * d < (r * k) * d BY <1>6, <1>8, <2>1, <2>2, <2>3
  <2>5. ~(r * k <= a)
    <3> SUFFICES ASSUME r * k <= a PROVE FALSE OBVIOUS
    <3>1. (r * k) * d <= a * d BY <1>11, ProductMonotone
    <3>2. (r * k) * d \in Nat /\ a * d \in Nat BY <1>11
    <3> QED BY <2>4, <3>1, <3>2
  <2> QED BY <1>11, <2>5
<1>13. n * k + 1 < ticks BY <1>8, <1>11, <1>12
<1>14. n * ticks < (n * k + 1) * d
  <2>1. n * (d * k) = (n * k) * d /\ (n * k) * d \in Nat OBVIOUS
  <2>2. (n * k + 1) * d = (n * k) * d + d BY <1>11
  <2> QED BY <1>8, <2>1, <2>2
<1>15. (ticks - (n * k + 1)) * y <= ticks
  <2>1. PICK b \in Nat : b = r * k - 1 /\ r * k = b + 1 /\ ticks - (n * k + 1) = b
    <3>1. r * k - 1 \in Nat /\ ticks - (n * k + 1) = r * k - 1 BY <1>8, <1>11, <1>12
    <3> QED BY <1>11, <3>1
  <2>2. b * y <= (b + 1) * y BY ProductMonotone
  <2>3. (r * k) * y = (r * y) * k OBVIOUS
  <2>4. (r * y) * k <= d * k
    <3>1. r * y \in Nat /\ r * y <= d BY <1>5
    <3> QED BY <3>1, ProductMonotone
  <2>5. b * y \in Nat /\ (b + 1) * y \in Nat /\ d * k \in Nat OBVIOUS
  <2> QED BY <1>8, <2>1, <2>2, <2>3, <2>4, <2>5
<1>16. t \in 1 .. ticks
  <2>1. t < x /\ t \in Nat BY <1>4, Pow2Type
  <2>2. x <= a * x
    <3>1. 1 * x <= a * x BY ProductMonotone
    <3> QED BY <3>1
  <2> QED BY <1>6, <2>1, <2>2
<1> DEFINE q == NextTick(p)
<1>17. q \in Fractions /\ q[1] = n * k + 1 /\ q[2] = ticks BY <1>10, <1>11 DEF Fractions
<1> HIDE DEF q
<1>18. IsTick(q)
  <2>1. ticks = arg * Pow2[t] /\ (ticks - (n * k + 1)) * Pow2[t - 1] <= ticks BY <1>4, <1>6, <1>15
  <2> QED BY <1>13, <1>16, <1>17, <2>1 DEF IsTick
<1>19. Less(p, q) BY <1>1, <1>14, <1>17 DEF Less
<1> QED BY <1>11, <1>17, <1>18, <1>19 DEF q

-------------------------------------------------------------------------------
(* Values and indices in order                                               *)

\* The first value of a range belongs to it.
LEMMA LowestIndex ==
  ASSUME NEW c, ConfigOK(c), NEW value \in Nat, value < Pow2[63]
  PROVE  LET low == lowest_equivalent_value(c, value)
         IN  /\ low \in Nat /\ low < Pow2[63] /\ low <= value
             /\ counts_index_for(c, low) = counts_index_for(c, value)
<1>1. PICK b, s : Located(c, value, b, s) BY Locate
<1>2. PICK low \in Nat : low = lowest_equivalent_value(c, value) /\ low <= value BY IndexOfValue
<1>3. low < Pow2[63]
  <2>1. Pow2[63] \in Nat BY Pow2Type
  <2> QED BY <1>2, <2>1
<1>4. /\ b \in Nat /\ s \in Nat /\ b + c.unit_magnitude \in Nat
      /\ counts_index_for(c, value) = PlaceOf(c, b, s)
      /\ low = s * Pow2[b + c.unit_magnitude]
  BY <1>1, <1>2, LocatedResults
<1>5. PICK p \in Nat \ {0} : p = Pow2[b + c.unit_magnitude] BY <1>4, Pow2Type
<1>6. (s + 1) * p = s * p + p /\ s * p \in Nat BY <1>4
<1>7. s * p <= low /\ low < (s + 1) * p BY <1>4, <1>5, <1>6
<1>8. Located(c, low, b, s) BY <1>1, <1>5, <1>7 DEF Located
<1>9. counts_index_for(c, low) = PlaceOf(c, b, s) BY <1>3, <1>8, LocatedResults
<1> QED BY <1>2, <1>3, <1>4, <1>9

\* The ranges are in the order of their values.
LEMMA LowestMonotone ==
  ASSUME NEW c, ConfigOK(c), NEW v \in Nat, NEW w \in Nat, v <= w, w < Pow2[63]
  PROVE  lowest_equivalent_value(c, v) <= lowest_equivalent_value(c, w)
<1> DEFINE a == lowest_equivalent_value(c, v)
           b == lowest_equivalent_value(c, w)
<1>0. v < Pow2[63]
  <2>1. Pow2[63] \in Nat BY Pow2Type
  <2> QED BY <2>1
<1>1. a \in Nat /\ a < Pow2[63] /\ a <= v /\ counts_index_for(c, a) = counts_index_for(c, v)
  BY <1>0, LowestIndex
<1>2. b \in Nat /\ b < Pow2[63] /\ counts_index_for(c, b) = counts_index_for(c, w) BY LowestIndex
<1>3. counts_index_for(c, v) \in Nat /\ counts_index_for(c, w) \in Nat BY <1>0, IndexOfValue
<1>4. ASSUME b < a PROVE FALSE
  <2>1. b <= v BY <1>1, <1>2, <1>4
  <2>2. counts_index_for(c, b) <= counts_index_for(c, v) BY <1>0, <1>2, <2>1, IndexMonotone
  <2>3. counts_index_for(c, v) <= counts_index_for(c, w) BY IndexMonotone
  <2>4. counts_index_for(c, v) = counts_index_for(c, w) BY <1>2, <1>3, <2>2, <2>3
  <2>5. a = b BY <1>0, <2>4, SameIndex
  <2> QED BY <1>1, <1>4, <2>5
<1> HIDE DEF a, b
<1>5. a <= b BY <1>1, <1>2, <1>4
<1> QED BY <1>5 DEF a, b

\* The first value of an index, and the last one.
LEMMA RangeOfIndex ==
  ASSUME NEW c, ConfigOK(c), NEW i \in Indices(c)
  PROVE  LET v == hdr_value_at_index(c, i)
             high == highest_equivalent_value(c, v)
         IN  /\ v \in Nat /\ v < Top(c) /\ v < Pow2[63] /\ counts_index_for(c, v) = i
             /\ lowest_equivalent_value(c, v) = v
             /\ high \in Nat /\ v <= high /\ counts_index_for(c, high) = i
             /\ high < Pow2[63]
<1> DEFINE v == hdr_value_at_index(c, i)
           high == highest_equivalent_value(c, v)
<1>1. v \in Nat /\ v < Top(c) /\ counts_index_for(c, v) = i BY ValueOfIndex
<1> HIDE DEF v
<1>2. v < Pow2[63] /\ hdr_value_at_index(c, i) = lowest_equivalent_value(c, v) BY <1>1, ValueInRange
<1>3. high \in Nat /\ high < Top(c) /\ counts_index_for(c, high) = i BY <1>1, HighestInRange
<1>4. high < Pow2[63] BY <1>3, TopBounds
<1>5. v <= high
  <2>1. hdr_size_of_equivalent_value_range(c, v) \in Nat \ {0}
        /\ v < lowest_equivalent_value(c, v) + hdr_size_of_equivalent_value_range(c, v)
        /\ high = lowest_equivalent_value(c, v) + hdr_size_of_equivalent_value_range(c, v) - 1
        /\ lowest_equivalent_value(c, v) \in Nat
    BY <1>1, <1>2, IndexOfValue
  <2> QED BY <1>1, <1>3, <2>1
<1> QED BY <1>1, <1>2, <1>3, <1>4, <1>5 DEF v

\* Indices are in the order of their values.
LEMMA IndicesInOrder ==
  ASSUME NEW c, ConfigOK(c), NEW i \in Indices(c), NEW j \in Indices(c)
  PROVE  LET v == hdr_value_at_index(c, i)
             w == hdr_value_at_index(c, j)
         IN  /\ i < j <=> v < w
             /\ i <= j <=> v <= w
             /\ i < j => highest_equivalent_value(c, v) < w
             /\ i <= j => highest_equivalent_value(c, v) <= highest_equivalent_value(c, w)
<1> DEFINE v == hdr_value_at_index(c, i)
           w == hdr_value_at_index(c, j)
           p == highest_equivalent_value(c, v)
           q == highest_equivalent_value(c, w)
<1>1. v \in Nat /\ v < Pow2[63] /\ counts_index_for(c, v) = i /\ p \in Nat /\ p < Pow2[63]
      /\ v <= p /\ counts_index_for(c, p) = i
  BY RangeOfIndex
<1>2. w \in Nat /\ w < Pow2[63] /\ counts_index_for(c, w) = j /\ q \in Nat /\ q < Pow2[63]
      /\ w <= q /\ counts_index_for(c, q) = j
  BY RangeOfIndex
<1>3. i \in Nat /\ j \in Nat BY IndicesAre
<1>4. i = j => v = w /\ p = q OBVIOUS
<1> HIDE DEF v, w, p, q
<1>5. v <= w => i <= j BY <1>1, <1>2, IndexMonotone
<1>6. w <= v => j <= i BY <1>1, <1>2, IndexMonotone
<1>7. w <= p => j <= i BY <1>1, <1>2, IndexMonotone
<1> QED BY <1>1, <1>2, <1>3, <1>4, <1>5, <1>6, <1>7 DEF v, w, p, q

-------------------------------------------------------------------------------
(* The invariant holds at the start                                          *)

\* An iterator before its first step
Unused(it) ==
  /\ it.counts_index = -1 /\ it.count = 0 /\ it.cumulative_count = 0 /\ it.value = 0
  /\ it.highest_equivalent_value = 0 /\ ~it.seen_last_value
  /\ it.percentile_to_iterate_to = <<0, 1>>

LEMMA UnusedIs ==
  ASSUME HistogramOK, NEW level \in Nat, NEW it,
         it = hdr_iter_init(histogram)
         \/ it = [hdr_iter_init(histogram) EXCEPT !.next_value_reporting_level = level]
  PROVE  /\ At(it) /\ Unused(it)
         /\ it.next_value_reporting_level \in {0, level}
<1>1. PICK total \in Nat : total = histogram.total_count /\ total <= INT32_MAX
  BY HistogramFacts DEF HistogramOK
<1>2. ToInt32(histogram.total_count) = total BY <1>1, TotalFits
<1>3. PICK l \in {0, level} :
        it = [counts_index |-> -1, total_count |-> total, count |-> 0,
              cumulative_count |-> 0, value |-> 0, highest_equivalent_value |-> 0,
              value_iterated_from |-> 0, value_iterated_to |-> 0,
              count_added_in_this_iteration_step |-> 0, next_value_reporting_level |-> l,
              seen_last_value |-> FALSE, percentile_to_iterate_to |-> <<0, 1>>,
              percentile |-> <<0, 1>>]
  BY <1>2 DEF hdr_iter_init
<1>4. it \in IterRecord BY <1>3 DEF IterRecord, Fractions
<1>5. Unused(it) /\ it.next_value_reporting_level = l /\ it.total_count = total BY <1>3 DEF Unused
<1>6. At(it)
  <2>1. histogram.cfg.counts_len \in Nat \ {0}
        /\ Indices(histogram.cfg) = 0 .. histogram.cfg.counts_len - 1
    BY HistogramFacts
  <2>2. CumulativeCount(histogram, -1) = 0
    <3>1. -1 \in -1 .. histogram.cfg.counts_len - 1 BY <2>1
    <3> QED BY <3>1, Cumulates
  <2>3. -1 \in -1 .. histogram.cfg.counts_len /\ -1 # histogram.cfg.counts_len
        /\ -1 \notin Indices(histogram.cfg)
    BY <2>1
  <2> QED BY <1>1, <1>4, <1>5, <2>2, <2>3 DEF At, Unused
<1> QED BY <1>5, <1>6

LEMMA IterStarts == IterInit => IterInv
<1> SUFFICES ASSUME IterInit PROVE IterInv OBVIOUS
<1>1. HistogramOK
  <2>1. PICK counts \in [UsedIndices -> 0 .. MaxCount] : histogram = Filled(counts) BY DEF IterInit
  <2> QED BY <2>1, FilledIs DEF HistogramOK
<1>2. shown = iter /\ pc = "idle" BY DEF IterInit
<1>3. ArgumentOK
  BY DEF ArgumentOK, IterInit, hdr_iter_all_init, hdr_iter_recorded_init, hdr_iter_percentile_init,
         hdr_iter_linear_init, hdr_iter_log_init
<1>4. PICK level \in 0 .. INT64_MAX :
        iter = hdr_iter_init(histogram)
        \/ iter = [hdr_iter_init(histogram) EXCEPT !.next_value_reporting_level = level]
  <2>1. ASSUME NEW unit \in Units PROVE unit \in 0 .. INT64_MAX
    <3>1. unit \in Nat /\ Beyond + unit <= INT64_MAX BY IteratorAssumption
    <3> QED BY <3>1, EmptyIs, WidthBound
  <2>2. 0 \in 0 .. INT64_MAX BY WidthBound
  <2>3. CASE iter = hdr_iter_init(histogram) BY <2>2, <2>3
  <2>4. CASE hdr_iter_linear_init BY <2>1, <2>4 DEF hdr_iter_linear_init
  <2>5. CASE hdr_iter_log_init BY <2>1, <2>5 DEF hdr_iter_log_init
  <2> QED BY <2>3, <2>4, <2>5
       DEF IterInit, hdr_iter_all_init, hdr_iter_recorded_init, hdr_iter_percentile_init
<1>5. level \in Nat /\ 0 \in 0 .. INT64_MAX BY WidthBound
<1>6. At(iter) /\ Unused(iter) /\ iter.next_value_reporting_level \in 0 .. INT64_MAX
  BY <1>1, <1>4, <1>5, UnusedIs
<1>7. histogram.cfg.counts_len \in Nat \ {0} /\ -1 \notin Indices(histogram.cfg)
  <2>1. histogram.cfg.counts_len \in Nat \ {0}
        /\ Indices(histogram.cfg) = 0 .. histogram.cfg.counts_len - 1
    BY <1>1, HistogramFacts
  <2> QED BY <2>1
<1>8. PercentileInv(iter, shown, pc)
  <2> DEFINE to == iter.percentile_to_iterate_to
  <2>1. to = <<0, 1>> /\ to[1] = 0 /\ to[2] = 1 BY <1>6 DEF Unused
  <2>2. IsTick(to) BY <2>1 DEF IsTick
  <2>3. NotBefore(iter, to) BY <1>6, <2>1 DEF NotBefore, Unused
  <2>4. -1 < histogram.cfg.counts_len /\ -1 <= -1 BY <1>7
  <2> QED BY <1>2, <1>6, <2>2, <2>3, <2>4 DEF PercentileInv, Unused
<1>9. LevelInv(iter, shown, pc) BY <1>2, <1>6, <1>7 DEF LevelInv, Unused
<1>10. ValuesInv(iter, shown, pc)
  <2>1. -1 < histogram.cfg.counts_len BY <1>7
  <2> QED BY <1>2, <1>6, <2>1 DEF ValuesInv, Unused
<1>11. StateOK(iter, shown, pc) BY <1>2, <1>6, <1>8, <1>9, <1>10 DEF StateOK
<1> QED BY <1>1, <1>3, <1>11 DEF IterInv

-------------------------------------------------------------------------------
(* What the steps change                                                     *)

\* The iterators are at the same place.
SamePlace(m, it) ==
  /\ m.counts_index = it.counts_index /\ m.total_count = it.total_count /\ m.count = it.count
  /\ m.cumulative_count = it.cumulative_count /\ m.value = it.value
  /\ m.highest_equivalent_value = it.highest_equivalent_value

\* What the percentile iterator keeps for itself is the same.
SamePercentile(m, it) ==
  /\ m.seen_last_value = it.seen_last_value /\ m.percentile = it.percentile
  /\ m.percentile_to_iterate_to = it.percentile_to_iterate_to

\* Whether the last value was seen is the same.
SameSeen(m, it) == m.seen_last_value = it.seen_last_value

\* What the linear and logarithmic ones do
SameLevel(m, it) ==
  /\ m.next_value_reporting_level = it.next_value_reporting_level
  /\ m.value_iterated_to = it.value_iterated_to

\* The updates of the steps
ShowLevel(it, to, level) ==
  [update_iterated_values(it, to) EXCEPT !.next_value_reporting_level = level]
ShowTick(it, to, percentile, next) ==
  [update_iterated_values(it, to) EXCEPT !.percentile = percentile,
                                         !.percentile_to_iterate_to = next]
ShowAdded(it, to, n) ==
  [update_iterated_values(it, to) EXCEPT !.count_added_in_this_iteration_step = n]
ShowLast(it) == [it EXCEPT !.seen_last_value = TRUE, !.percentile = <<1, 1>>]
WithAdded(it, n) == [it EXCEPT !.count_added_in_this_iteration_step = n]
WithIndex(it, i) == [it EXCEPT !.counts_index = i]

LEMMA ShowLevelFields ==
  ASSUME NEW it \in IterRecord, NEW to \in Int, NEW level \in Int
  PROVE  LET m == ShowLevel(it, to, level)
         IN  /\ m \in IterRecord /\ SamePlace(m, it) /\ SamePercentile(m, it)
             /\ m.next_value_reporting_level = level /\ m.value_iterated_to = to
BY DEF IterRecord, ShowLevel, update_iterated_values, SamePlace, SamePercentile

LEMMA ShowTickFields ==
  ASSUME NEW it \in IterRecord, NEW to \in Int,
         NEW percentile \in Fractions, NEW next \in Fractions
  PROVE  LET m == ShowTick(it, to, percentile, next)
         IN  /\ m \in IterRecord /\ SamePlace(m, it)
             /\ SameSeen(m, it)
             /\ m.percentile = percentile /\ m.percentile_to_iterate_to = next
BY DEF IterRecord, ShowTick, update_iterated_values, SamePlace, SameSeen

LEMMA ShowAddedFields ==
  ASSUME NEW it \in IterRecord, NEW to \in Int, NEW n \in Int
  PROVE  LET m == ShowAdded(it, to, n) IN m \in IterRecord /\ SamePlace(m, it)
BY DEF IterRecord, ShowAdded, update_iterated_values, SamePlace

LEMMA IteratedFields ==
  ASSUME NEW it \in IterRecord, NEW to \in Int
  PROVE  LET m == update_iterated_values(it, to) IN m \in IterRecord /\ SamePlace(m, it)
BY DEF IterRecord, update_iterated_values, SamePlace

LEMMA ShowLastFields ==
  ASSUME NEW it \in IterRecord
  PROVE  LET m == ShowLast(it)
         IN  /\ m \in IterRecord /\ SamePlace(m, it)
             /\ m.seen_last_value /\ m.percentile = <<1, 1>>
             /\ m.percentile_to_iterate_to = it.percentile_to_iterate_to
<1> DEFINE m == ShowLast(it)
<1>1. PICK all \in Fractions : all = <<1, 1>>
  <2>1. 1 \in Nat /\ 1 \in Nat \ {0} OBVIOUS
  <2>2. <<1, 1>> \in Fractions BY <2>1 DEF Fractions
  <2> QED BY <2>2
<1>2. m = [it EXCEPT !.seen_last_value = TRUE, !.percentile = all] BY <1>1 DEF ShowLast
<1> HIDE DEF m
<1>3. m \in IterRecord /\ m.seen_last_value BY <1>2 DEF IterRecord
<1>4. SamePlace(m, it) /\ m.percentile = all
      /\ m.percentile_to_iterate_to = it.percentile_to_iterate_to
  BY <1>2 DEF IterRecord, SamePlace
<1> QED BY <1>1, <1>3, <1>4 DEF m

LEMMA WithAddedFields ==
  ASSUME NEW it \in IterRecord, NEW n \in Int
  PROVE  LET m == WithAdded(it, n)
         IN  m \in IterRecord /\ SamePlace(m, it) /\ SamePercentile(m, it) /\ SameLevel(m, it)
BY DEF IterRecord, WithAdded, SamePlace, SamePercentile, SameLevel

LEMMA WithIndexFields ==
  ASSUME NEW it \in IterRecord, NEW i \in Int
  PROVE  LET m == WithIndex(it, i)
         IN  /\ m \in IterRecord /\ SameLevel(m, it)
             /\ m.counts_index = i /\ m.total_count = it.total_count
             /\ m.cumulative_count = it.cumulative_count
BY DEF IterRecord, WithIndex, SameLevel

\* An iterator at the same place knows the same.
LEMMA AtSamePlace ==
  ASSUME NEW it, At(it), NEW m \in IterRecord, SamePlace(m, it)
  PROVE  At(m)
BY DEF At, SamePlace

-------------------------------------------------------------------------------
(* Levels                                                                    *)

\* The next level is not lower, and fits its integer.
LEMMA NextLevelIs ==
  ASSUME HistogramOK, kind = "linear" => arg \in Units, kind = "log" => arg \in Bases, HasLevels,
         NEW level \in 0 .. INT64_MAX,
         counts_index_for(histogram.cfg, level) \in Indices(histogram.cfg)
  PROVE  /\ NextLevel(level) \in 0 .. INT64_MAX
         /\ lowest_equivalent_value(histogram.cfg, level)
              <= lowest_equivalent_value(histogram.cfg, NextLevel(level))
<1> DEFINE c == histogram.cfg
           next == NextLevel(level)
<1>1. ConfigOK(c) /\ c = Empty.cfg /\ INT64_MAX \in Nat /\ INT64_MAX < Pow2[63] /\ Pow2[63] \in Nat
  BY HistogramFacts, WidthBound, Pow2Type DEF HistogramOK
<1>2. level \in Nat /\ level < Pow2[63] BY <1>1
<1>3. level < Beyond /\ Beyond \in Nat
  <2>1. level < Top(c) BY <1>1, <1>2, IndexOfValue
  <2> QED BY <1>1, <2>1, EmptyIs
<1>4. next \in 0 .. INT64_MAX /\ level <= next
  <2>1. CASE kind = "linear"
    <3>1. arg \in Nat \ {0} /\ Beyond + arg <= INT64_MAX BY <2>1, IteratorAssumption
    <3>2. next = level + arg BY <2>1 DEF NextLevel
    <3> QED BY <1>1, <1>2, <1>3, <3>1, <3>2
  <2>2. CASE kind = "log"
    <3>1. arg \in Nat /\ arg >= 10 /\ Beyond * (arg \div 10) <= INT64_MAX
      BY <2>2, IteratorAssumption
    <3>2. PICK f \in Nat : f = arg \div 10 /\ f >= 1 BY <3>1
    <3>3. next = level * f
      <4>1. kind # "linear" BY <2>2
      <4> QED BY <3>2, <4>1 DEF NextLevel
    <3>4. level * f <= Beyond * f /\ level * f \in Nat /\ Beyond * f \in Nat
      BY <1>2, <1>3, ProductMonotone
    <3>5. level * 1 <= level * f
      <4>1. 1 * level <= f * level BY <1>2, <3>2, ProductMonotone
      <4>2. f * level = level * f BY <1>2
      <4> QED BY <1>2, <4>1, <4>2
    <3> QED BY <1>1, <1>2, <3>1, <3>2, <3>3, <3>4, <3>5
  <2> QED BY <2>1, <2>2 DEF HasLevels
<1> HIDE DEF next, c
<1>5. next \in Nat /\ next < Pow2[63] BY <1>1, <1>4
<1>6. lowest_equivalent_value(c, level) <= lowest_equivalent_value(c, next)
  BY <1>1, <1>2, <1>4, <1>5, LowestMonotone
<1> QED BY <1>4, <1>6 DEF next, c

\* The next index does not pass a level that has not been reached.
LEMMA LevelNotPassed ==
  ASSUME HistogramOK, NEW level \in 0 .. INT64_MAX, NEW i \in Int, i + 1 \in Indices(histogram.cfg),
         i \in Indices(histogram.cfg) => hdr_value_at_index(histogram.cfg, i)
                                           < lowest_equivalent_value(histogram.cfg, level),
         i \in Indices(histogram.cfg) \/ i = -1
  PROVE  hdr_value_at_index(histogram.cfg, i + 1) <= lowest_equivalent_value(histogram.cfg, level)
<1> DEFINE c == histogram.cfg
           low == lowest_equivalent_value(c, level)
           w == hdr_value_at_index(c, i + 1)
           l == counts_index_for(c, level)
<1>1. ConfigOK(c) /\ INT64_MAX \in Nat /\ INT64_MAX < Pow2[63] /\ Pow2[63] \in Nat
  BY HistogramFacts, WidthBound, Pow2Type
<1>2. level \in Nat /\ level < Pow2[63] BY <1>1
<1>3. low \in Nat /\ low < Pow2[63] /\ counts_index_for(c, low) = l BY <1>1, <1>2, LowestIndex
<1>4. w \in Nat /\ w < Pow2[63] /\ counts_index_for(c, w) = i + 1
      /\ lowest_equivalent_value(c, w) = w
  BY <1>1, RangeOfIndex
<1>5. l \in Nat BY <1>1, <1>2, IndexOfValue
<1>6. i + 1 <= l
  <2>1. CASE i = -1 BY <1>5, <2>1
  <2>2. CASE i \in Indices(c)
    <3> DEFINE v == hdr_value_at_index(c, i)
    <3>1. v \in Nat /\ v < Pow2[63] /\ counts_index_for(c, v) = i
          /\ lowest_equivalent_value(c, v) = v
      BY <1>1, <2>2, RangeOfIndex
    <3>2. v < low BY <2>2
    <3> HIDE DEF v, low, l, w
    <3>3. i <= l
      <4>1. v <= low BY <1>3, <3>1, <3>2
      <4> QED BY <1>1, <1>3, <3>1, <4>1, IndexMonotone
    <3>4. i # l
      <4> SUFFICES ASSUME i = l PROVE FALSE OBVIOUS
      <4>1. lowest_equivalent_value(c, v) = lowest_equivalent_value(c, level)
        BY <1>1, <1>2, <3>1, SameIndex DEF l
      <4> QED BY <1>3, <3>1, <3>2, <4>1 DEF low
    <3> QED BY <1>5, <3>3, <3>4
  <2> QED BY <2>1, <2>2
<1> HIDE DEF low, l, w
<1>7. ASSUME low < w PROVE FALSE
  <2>1. low <= w BY <1>3, <1>4, <1>7
  <2>2. l <= i + 1 BY <1>1, <1>3, <1>4, <2>1, IndexMonotone
  <2>3. l = i + 1 BY <1>5, <1>6, <2>2
  <2>4. lowest_equivalent_value(c, level) = lowest_equivalent_value(c, w)
    BY <1>1, <1>2, <1>4, <2>3, SameIndex DEF l
  <2> QED BY <1>3, <1>4, <1>7, <2>4 DEF low
<1>8. w <= low BY <1>3, <1>4, <1>7
<1> QED BY <1>8 DEF w, low

-------------------------------------------------------------------------------
(* The invariant is kept                                                     *)

\* What holds of the next iterators holds after the step.
LEMMA Kept ==
  ASSUME HistogramOK, ArgumentOK, UNCHANGED <<histogram, kind, arg>>,
         NEW m, NEW s, NEW at, iter' = m, shown' = s, pc' = at, StateOK(m, s, at)
  PROVE  IterInv'
<1>1. HistogramOK' BY DEF HistogramOK
<1>2. ArgumentOK' BY DEF ArgumentOK
<1>3. At(iter)' /\ At(shown)' BY DEF StateOK, At
<1>4. (kind = "percentile" => PercentileInv(iter, shown, pc))'
  BY DEF StateOK, PercentileInv, IsTick, NotBefore, Line
<1>5. (HasLevels => LevelInv(iter, shown, pc))' BY DEF StateOK, HasLevels, LevelInv
<1>6. (kind \in {"all", "recorded"} => ValuesInv(iter, shown, pc))' BY DEF StateOK, ValuesInv
<1>7. StateOK(iter, shown, pc)' BY <1>3, <1>4, <1>5, <1>6 DEF StateOK
<1> QED BY <1>1, <1>2, <1>7 DEF IterInv

\* The iterators of values move to the next index, or end.
LEMMA ValuesKept ==
  ASSUME IterInv, UNCHANGED <<histogram, kind, arg>>, AllValuesNext \/ RecordedNext
  PROVE  IterInv'
<1> DEFINE c == histogram.cfg
<1>1. HistogramOK /\ ArgumentOK /\ At(iter) /\ At(shown) /\ ValuesInv(iter, shown, pc)
      /\ ~HasLevels /\ kind # "percentile" /\ pc = "idle" /\ pc \in {"idle", "loop", "done"}
  BY DEF IterInv, StateOK, AllValuesNext, RecordedNext, HasLevels
<1>2. /\ iter.cumulative_count \in Nat /\ iter.cumulative_count <= histogram.total_count
      /\ iter.counts_index \in Int /\ iter.counts_index >= -1 /\ c.counts_len \in Nat \ {0}
      /\ iter.counts_index = c.counts_len - 1 => iter.cumulative_count = histogram.total_count
      /\ has_next(iter) => iter.counts_index + 1 \in Indices(c)
      /\ ~has_next(iter) => iter.cumulative_count = histogram.total_count
      /\ Indices(c) = 0 .. c.counts_len - 1
  BY <1>1, AtFacts, HistogramFacts
<1>3. /\ iter.counts_index < c.counts_len /\ shown.cumulative_count = iter.cumulative_count
      /\ iter \in IterRecord
  BY <1>1 DEF ValuesInv, At
<1> DEFINE m == move_next(iter)
<1>4. ASSUME iter.counts_index + 1 \in Indices(c)
      PROVE  /\ At(m) /\ m \in IterRecord /\ m.counts_index < c.counts_len /\ m.value \in Int
             /\ m.count \in Nat /\ m.cumulative_count = iter.cumulative_count + m.count
  <2>1. At(m) /\ m.counts_index = iter.counts_index + 1 /\ m.count \in Nat
        /\ m.cumulative_count = iter.cumulative_count + m.count
    BY <1>1, <1>4, MoveNextAt
  <2>2. m.counts_index < c.counts_len BY <1>2, <1>4, <2>1
  <2>3. m \in IterRecord BY <2>1 DEF At
  <2>4. m.value \in Int BY <2>3 DEF IterRecord
  <2> QED BY <2>1, <2>2, <2>3, <2>4
<1> HIDE DEF m
<1>5. ASSUME iter.counts_index + 1 \in Indices(c),
             NEW it, it \in IterRecord, SamePlace(it, m), Show(it)
      PROVE  IterInv'
  <2>1. At(it) BY <1>4, <1>5, AtSamePlace
  <2>2. iter' = it /\ shown' = it /\ pc' = "idle" BY <1>5 DEF Show
  <2>3. it.counts_index < c.counts_len BY <1>4, <1>5 DEF SamePlace
  <2>4. ValuesInv(it, it, "idle") BY <2>3 DEF ValuesInv
  <2>5. StateOK(it, it, "idle") BY <1>1, <2>1, <2>4 DEF StateOK
  <2> QED BY <1>1, <2>2, <2>5, Kept
<1>6. ASSUME NEW it, End(it), At(it), it.cumulative_count = iter.cumulative_count,
             iter.cumulative_count = histogram.total_count
      PROVE  IterInv'
  <2>1. iter' = it /\ shown' = shown /\ pc' = "done" BY <1>6 DEF End
  <2>2. ValuesInv(it, shown, "done") BY <1>3, <1>6 DEF ValuesInv
  <2>3. StateOK(it, shown, "done") BY <1>1, <1>6, <2>2 DEF StateOK
  <2> QED BY <1>1, <2>1, <2>3, Kept
<1>7. CASE AllValuesNext
  <2>1. CASE has_buckets(iter.counts_index + 1)
    <3>1. iter.counts_index + 1 \in Indices(c) BY <1>2, <2>1 DEF has_buckets
    <3> DEFINE it == update_iterated_values(m, m.value)
    <3>2. Show(it) BY <1>7, <2>1 DEF AllValuesNext, m
    <3>3. it \in IterRecord /\ SamePlace(it, m)
      BY <1>4, <3>1, IteratedFields
    <3> HIDE DEF it
    <3> QED BY <1>5, <3>1, <3>2, <3>3
  <2>2. CASE ~has_buckets(iter.counts_index + 1)
    <3>1. iter.counts_index = c.counts_len - 1 BY <1>2, <1>3, <2>2 DEF has_buckets
    <3> DEFINE it == WithIndex(iter, iter.counts_index + 1)
    <3>2. End(it) BY <1>7, <2>2 DEF AllValuesNext, WithIndex
    <3>3. /\ it \in IterRecord /\ it.counts_index = iter.counts_index + 1
          /\ it.total_count = iter.total_count /\ it.cumulative_count = iter.cumulative_count
      <4>1. iter.counts_index + 1 \in Int BY <1>2
      <4> QED BY <1>3, <4>1, WithIndexFields
    <3> HIDE DEF it
    <3>4. /\ it.counts_index = c.counts_len /\ it.counts_index \notin Indices(c)
          /\ ~(it.counts_index < c.counts_len) /\ it.counts_index # -1
          /\ it.counts_index \in -1 .. c.counts_len
          /\ it.cumulative_count = histogram.total_count
      BY <1>2, <3>1, <3>3
    <3>5. At(it) BY <1>1, <3>3, <3>4 DEF At
    <3> QED BY <1>2, <1>6, <3>1, <3>2, <3>3, <3>5
  <2> QED BY <2>1, <2>2
<1>8. CASE RecordedNext
  <2>1. CASE has_next(iter) /\ m.count # 0
    <3> DEFINE it == ShowAdded(m, m.value, m.count)
    <3>1. iter.counts_index + 1 \in Indices(c) BY <1>2, <2>1
    <3>2. Show(it) BY <1>8, <2>1 DEF RecordedNext, m, ShowAdded
    <3>3. it \in IterRecord /\ SamePlace(it, m) BY <1>4, <3>1, ShowAddedFields
    <3> HIDE DEF it
    <3> QED BY <1>5, <3>1, <3>2, <3>3
  <2>2. CASE has_next(iter) /\ ~(m.count # 0)
    <3>1. iter' = m /\ shown' = shown /\ pc' = "idle"
      BY <1>1, <1>8, <2>2 DEF RecordedNext, m
    <3>2. At(m) /\ m.counts_index < c.counts_len /\ m.cumulative_count = shown.cumulative_count
      BY <1>2, <1>3, <1>4, <2>2
    <3>3. ValuesInv(m, shown, "idle") BY <3>2 DEF ValuesInv
    <3>4. StateOK(m, shown, "idle") BY <1>1, <3>2, <3>3 DEF StateOK
    <3> QED BY <1>1, <3>1, <3>4, Kept
  <2>3. CASE ~has_next(iter)
    <3>1. End(iter) BY <1>8, <2>3 DEF RecordedNext
    <3> QED BY <1>1, <1>2, <1>6, <2>3, <3>1
  <2> QED BY <2>1, <2>2, <2>3
<1> QED BY <1>7, <1>8

\* The linear and logarithmic iterators
LEMMA LevelKept ==
  ASSUME IterInv, UNCHANGED <<histogram, kind, arg>>, HasLevels, LevelCall \/ LevelTurn
  PROVE  IterInv'
<1> DEFINE c == histogram.cfg
           i == iter.counts_index
           level == iter.next_value_reporting_level
           low == lowest_equivalent_value(c, level)
<1>1. HistogramOK /\ ArgumentOK /\ At(iter) /\ At(shown) /\ LevelInv(iter, shown, pc)
      /\ kind # "percentile" /\ kind \notin {"all", "recorded"}
  BY DEF IterInv, StateOK, HasLevels
<1>2. /\ iter.cumulative_count \in Nat /\ iter.cumulative_count <= histogram.total_count
      /\ i \in Int /\ i >= -1 /\ i <= c.counts_len /\ c.counts_len \in Nat \ {0}
      /\ i = c.counts_len - 1 => iter.cumulative_count = histogram.total_count
      /\ has_next(iter) => i + 1 \in Indices(c)
      /\ ~has_next(iter) => iter.cumulative_count = histogram.total_count
      /\ Indices(c) = 0 .. c.counts_len - 1
      /\ iter \in IterRecord
  BY <1>1, AtFacts, HistogramFacts DEF At
<1>3. /\ level \in 0 .. INT64_MAX
      /\ i \in Indices(c) => iter.value <= low
      /\ pc = "loop" => i < c.counts_len
      /\ pc = "idle" => shown = iter
      /\ shown.counts_index \in Indices(c) =>
           lowest_equivalent_value(c, shown.value_iterated_to) = shown.value
      /\ LevelLowest(iter) = low
  BY <1>1 DEF LevelInv, LevelLowest
<1>4. ConfigOK(c) /\ level \in Nat /\ level < Pow2[63] /\ level \in Int
  <2>1. ConfigOK(c) /\ INT64_MAX < Pow2[63] /\ INT64_MAX \in Nat /\ Pow2[63] \in Nat
    BY <1>1, HistogramFacts, WidthBound, Pow2Type
  <2> QED BY <1>3, <2>1
<1>5. /\ low \in Nat /\ low < Pow2[63]
      /\ counts_index_for(c, low) = counts_index_for(c, level)
  BY <1>4, LowestIndex
<1>6. \/ /\ iter.value \in Nat /\ iter.value < Pow2[63]
         /\ i \in Indices(c) => /\ iter.value = hdr_value_at_index(c, i)
                                /\ counts_index_for(c, iter.value) = i
         /\ i = -1 => iter.value = 0
      \/ i = c.counts_len
  <2>1. CASE i = -1
    <3>1. iter.value = 0 /\ i \notin Indices(c) BY <1>1, <1>2, <2>1 DEF At
    <3> QED BY <2>1, <3>1, Pow2Type
  <2>2. CASE i \in Indices(c)
    <3>1. iter.value = hdr_value_at_index(c, i) BY <1>1, <2>2 DEF At
    <3>2. i # -1 BY <1>2, <2>2
    <3> QED BY <1>4, <2>2, <3>1, <3>2, RangeOfIndex
  <2>3. i = -1 \/ i \in Indices(c) \/ i = c.counts_len BY <1>2
  <2> QED BY <2>1, <2>2, <2>3
<1> HIDE DEF low, i, c, level
<1>7. CASE LevelCall
  <2> DEFINE m == WithAdded(iter, 0)
  <2>1. m \in IterRecord /\ SamePlace(m, iter) /\ SameLevel(m, iter) BY <1>2, WithAddedFields
  <2>2. CASE pc' = "done"
    <3>1. /\ iter' = m /\ shown' = shown /\ pc = "idle" /\ ~has_next(iter)
      BY <1>7, <2>2 DEF LevelCall, End, WithAdded
    <3> HIDE DEF m
    <3>2. At(m) BY <1>1, <2>1, AtSamePlace
    <3>3. m.counts_index = i /\ m.value = iter.value /\ m.next_value_reporting_level = level
          /\ m.cumulative_count = iter.cumulative_count /\ ~has_next(m)
      BY <2>1, <3>1 DEF SamePlace, SameLevel, has_next, i, level
    <3>4. LevelInv(m, shown, "done") BY <1>3, <3>1, <3>3 DEF LevelInv, c, low
    <3>5. StateOK(m, shown, "done") BY <1>1, <3>2, <3>4 DEF StateOK
    <3> QED BY <1>1, <2>2, <3>1, <3>5, Kept
  <2>3. CASE pc' # "done"
    <3>1. /\ iter' = m /\ shown' = shown /\ pc' = "loop"
          /\ has_next(iter) \/ has_buckets(i)
      BY <1>7, <2>3 DEF LevelCall, WithAdded, End, i
    <3> HIDE DEF m
    <3>2. At(m) BY <1>1, <2>1, AtSamePlace
    <3>3. i < c.counts_len BY <1>2, <3>1 DEF has_buckets, c, i
    <3>4. m.counts_index = i /\ m.value = iter.value /\ m.next_value_reporting_level = level
      BY <2>1 DEF SamePlace, SameLevel, i, level
    <3>5. LevelInv(m, shown, "loop") BY <1>3, <3>3, <3>4 DEF LevelInv, c, low
    <3>6. StateOK(m, shown, "loop") BY <1>1, <3>2, <3>5 DEF StateOK
    <3> QED BY <1>1, <3>1, <3>6, Kept
  <2> QED BY <2>2, <2>3
<1>8. CASE LevelTurn
  <2>1. pc = "loop" /\ i < c.counts_len /\ i # c.counts_len /\ (i = -1 \/ i \in Indices(c))
    BY <1>2, <1>3, <1>8 DEF LevelTurn
  <2>2. CASE iter.value >= low
    <3> DEFINE next == NextLevel(level)
               m == ShowLevel(iter, level, next)
    <3>1. iter' = m /\ shown' = m /\ pc' = "idle"
      <4>1. Show(m)
        <5>1. ~(iter.value < low) BY <1>5, <1>6, <2>1, <2>2
        <5> DEFINE u == update_iterated_values(iter, level)
        <5>2. u.next_value_reporting_level = level
          BY <1>2 DEF update_iterated_values, IterRecord, level
        <5>3. Show(ShowLevel(iter, level, NextLevel(u.next_value_reporting_level)))
          BY <1>3, <1>8, <5>1 DEF LevelTurn, ShowLevel, level
        <5> QED BY <5>2, <5>3
      <4> QED BY <4>1 DEF Show
    <3>2. iter.value = low
      <4>1. CASE i = -1 BY <1>5, <1>6, <2>1, <2>2, <4>1
      <4>2. CASE i \in Indices(c) BY <1>3, <1>5, <1>6, <2>1, <2>2, <4>2
      <4> QED BY <2>1, <4>1, <4>2
    <3>3. counts_index_for(c, level) \in Indices(c)
      <4>1. CASE i = -1
        <5>1. counts_index_for(c, low) = 0 BY <1>4, <1>6, <2>1, <3>2, <4>1, IndicesAre
        <5> QED BY <1>4, <1>5, <5>1, IndicesAre
      <4>2. CASE i \in Indices(c) BY <1>5, <1>6, <2>1, <3>2, <4>2
      <4> QED BY <2>1, <4>1, <4>2
    <3>4. next \in 0 .. INT64_MAX /\ low <= lowest_equivalent_value(c, next)
      BY <1>1, <1>3, <3>3, NextLevelIs DEF ArgumentOK, c, low
    <3> HIDE DEF next
    <3>5. /\ m \in IterRecord /\ SamePlace(m, iter)
          /\ m.next_value_reporting_level = next /\ m.value_iterated_to = level
      <4>1. next \in Int BY <3>4
      <4> QED BY <1>2, <1>4, <4>1, ShowLevelFields
    <3> HIDE DEF m
    <3>6. At(m) BY <1>1, <3>5, AtSamePlace
    <3>7. m.counts_index = i /\ m.value = low BY <3>2, <3>5 DEF SamePlace, i
    <3>8. LevelInv(m, m, "idle") BY <3>4, <3>5, <3>7 DEF LevelInv, c, low
    <3>9. StateOK(m, m, "idle") BY <1>1, <3>6, <3>8 DEF StateOK
    <3> QED BY <1>1, <3>1, <3>9, Kept
  <2>3. CASE iter.value < low /\ has_buckets(i + 1)
    <3> DEFINE moved == move_next(iter)
               m == WithAdded(moved, moved.count_added_in_this_iteration_step + moved.count)
    <3>1. iter' = m /\ shown' = shown /\ pc' = "loop"
      <4>1. ~(iter.value >= low) BY <1>5, <1>6, <2>1, <2>3
      <4> QED BY <1>3, <1>8, <2>1, <2>3, <4>1 DEF LevelTurn, WithAdded, i
    <3>2. i + 1 \in Indices(c) BY <1>2, <2>1, <2>3 DEF has_buckets, c
    <3>3. /\ At(moved) /\ moved.counts_index = i + 1
          /\ moved.value = hdr_value_at_index(c, i + 1)
          /\ SameLevel(moved, iter)
      BY <1>1, <3>2, MoveNextAt DEF SameLevel, c, i
    <3> HIDE DEF moved
    <3>4. m \in IterRecord /\ SamePlace(m, moved) /\ SameLevel(m, moved)
      <4>1. moved \in IterRecord BY <3>3 DEF At
      <4>2. moved.count_added_in_this_iteration_step + moved.count \in Int BY <4>1 DEF IterRecord
      <4> QED BY <4>1, <4>2, WithAddedFields
    <3> HIDE DEF m
    <3>5. At(m) BY <3>3, <3>4, AtSamePlace
    <3>6. m.counts_index = i + 1 /\ m.next_value_reporting_level = level
          /\ m.value = hdr_value_at_index(c, i + 1)
      BY <3>3, <3>4 DEF SamePlace, SameLevel, level
    <3>7. hdr_value_at_index(c, i + 1) <= low
      <4>1. i \in Indices(c) => hdr_value_at_index(c, i) < low BY <1>6, <2>1, <2>3
      <4> QED BY <1>1, <1>2, <1>3, <2>1, <3>2, <4>1, LevelNotPassed DEF c, low
    <3>8. i + 1 < c.counts_len BY <2>3 DEF has_buckets, c
    <3>9. LevelInv(m, shown, "loop") BY <1>3, <3>6, <3>7, <3>8 DEF LevelInv, c, low
    <3>10. StateOK(m, shown, "loop") BY <1>1, <3>5, <3>9 DEF StateOK
    <3> QED BY <1>1, <3>1, <3>10, Kept
  <2>4. CASE iter.value < low /\ ~has_buckets(i + 1)
    <3> DEFINE m == WithIndex(iter, i + 1)
    <3>1. iter' = m /\ shown' = m /\ pc' = "idle"
      <4>1. Show(m)
        <5>1. ~(iter.value >= low) BY <1>5, <1>6, <2>1, <2>4
        <5> QED BY <1>3, <1>8, <2>4, <5>1 DEF LevelTurn, WithIndex, i
      <4> QED BY <4>1 DEF Show
    <3>2. i + 1 = c.counts_len /\ i = c.counts_len - 1 BY <1>2, <2>1, <2>4 DEF has_buckets, c
    <3>3. /\ m \in IterRecord /\ SameLevel(m, iter)
          /\ m.counts_index = i + 1 /\ m.total_count = iter.total_count
          /\ m.cumulative_count = iter.cumulative_count
      <4>1. i + 1 \in Int BY <1>2
      <4> QED BY <1>2, <4>1, WithIndexFields
    <3> HIDE DEF m
    <3>4. m.counts_index = c.counts_len /\ m.counts_index \notin Indices(c)
          /\ ~(m.counts_index < c.counts_len) /\ m.counts_index # -1
          /\ m.counts_index \in -1 .. c.counts_len
          /\ m.cumulative_count = histogram.total_count
          /\ m.next_value_reporting_level = level
      BY <1>2, <3>2, <3>3 DEF SameLevel, level
    <3>5. At(m) BY <1>1, <3>3, <3>4 DEF At, c
    <3>6. LevelInv(m, m, "idle") BY <1>3, <3>4 DEF LevelInv, c
    <3>7. StateOK(m, m, "idle") BY <1>1, <3>5, <3>6 DEF StateOK
    <3> QED BY <1>1, <3>1, <3>7, Kept
  <2> QED BY <1>5, <1>6, <2>1, <2>2, <2>3, <2>4
<1> QED BY <1>7, <1>8

\* Of two fractions of the whole, the larger is as far from the percentile.
LEMMA LargerFraction ==
  ASSUME NEW p \in Fractions, NEW q \in Fractions, Less(p, q),
         NEW total \in Nat, NEW below \in Nat, total > 0, p[1] * total > below * p[2]
  PROVE  q[1] * total > below * q[2]
<1>1. PICK n \in Nat, d \in Nat \ {0}, m \in Nat, e \in Nat \ {0} :
        n = p[1] /\ d = p[2] /\ m = q[1] /\ e = q[2]
  BY DEF Fractions
<1>2. n * e < m * d /\ below * d < n * total BY <1>1 DEF Less
<1>3. (below * d) * e < (n * total) * e
  <2>1. below * d \in Nat /\ n * total \in Nat /\ below * d <= n * total /\ e > 0 BY <1>2
  <2> QED BY <1>2, <2>1, ProductMonotone
<1>4. (n * e) * total <= (m * d) * total
  <2>1. n * e \in Nat /\ m * d \in Nat /\ n * e <= m * d BY <1>2
  <2> QED BY <2>1, ProductMonotone
<1>5. (below * d) * e = (below * e) * d /\ (n * total) * e = (n * e) * total
      /\ (m * d) * total = (m * total) * d
  OBVIOUS
<1>6. PICK a \in Nat, b \in Nat : a = m * total /\ b = below * e
  <2>1. m * total \in Nat /\ below * e \in Nat OBVIOUS
  <2> QED BY <2>1
<1>7. b * d < a * d
  <2>1. (n * e) * total \in Int /\ (below * d) * e \in Int /\ (m * d) * total \in Int OBVIOUS
  <2> QED BY <1>3, <1>4, <1>5, <1>6, <2>1
<1>8. ~(a <= b)
  <2> SUFFICES ASSUME a <= b PROVE FALSE OBVIOUS
  <2>1. a * d <= b * d /\ a * d \in Nat /\ b * d \in Nat BY ProductMonotone
  <2> QED BY <1>7, <2>1
<1> QED BY <1>1, <1>6, <1>8

\* An iterator at the same place is where the percentile has not been reached.
LEMMA NotBeforeSamePlace ==
  ASSUME NEW it, NEW m, SamePlace(m, it), NEW p, NotBefore(it, p)
  PROVE  NotBefore(m, p)
BY DEF SamePlace, NotBefore

\* The percentile iterator at the start of a call
LEMMA PercentileCallKept ==
  ASSUME IterInv, UNCHANGED <<histogram, kind, arg>>, PercentileCall
  PROVE  IterInv'
<1> DEFINE c == histogram.cfg
           total == histogram.total_count
           to == iter.percentile_to_iterate_to
<1>1. HistogramOK /\ ArgumentOK /\ At(iter) /\ At(shown) /\ PercentileInv(iter, shown, pc)
      /\ ~HasLevels /\ kind \notin {"all", "recorded"} /\ pc = "idle" /\ kind = "percentile"
  BY DEF IterInv, StateOK, PercentileCall, HasLevels
<1>2. /\ iter.cumulative_count \in Nat /\ iter.cumulative_count <= total
      /\ iter.counts_index \in Int /\ iter.counts_index >= -1 /\ c.counts_len \in Nat \ {0}
      /\ has_next(iter) <=> iter.cumulative_count < total
      /\ has_next(iter) => iter.counts_index + 1 \in Indices(c)
      /\ ~has_next(iter) => iter.cumulative_count = total
      /\ Indices(c) = 0 .. c.counts_len - 1 /\ iter \in IterRecord /\ total \in Nat
  BY <1>1, AtFacts, HistogramFacts DEF At
<1>3. /\ IsTick(to) /\ NotBefore(iter, to) /\ iter.counts_index < c.counts_len /\ shown = iter
      /\ iter.counts_index # -1 => Line(iter)
      /\ iter.counts_index # -1 /\ ~iter.seen_last_value => Less(iter.percentile, to)
      /\ iter.seen_last_value => ~has_next(iter)
  BY <1>1 DEF PercentileInv
<1>4. to \in Fractions /\ iter.count \in Int BY <1>2 DEF IterRecord
<1>5. CASE ~has_next(iter) /\ iter.seen_last_value
  <2>1. iter' = iter /\ shown' = shown /\ pc' = "done" BY <1>5, <1>1 DEF PercentileCall, Show, End
  <2>2. PercentileInv(iter, shown, "done") BY <1>1, <1>3, <1>5 DEF PercentileInv
  <2>3. StateOK(iter, shown, "done") BY <1>1, <2>2 DEF StateOK
  <2> QED BY <1>1, <2>1, <2>3, Kept
<1>6. CASE ~has_next(iter) /\ ~iter.seen_last_value
  <2> DEFINE m == ShowLast(iter)
  <2>1. iter' = m /\ shown' = m /\ pc' = "idle"
    BY <1>6 DEF PercentileCall, Show, ShowLast
  <2>2. /\ m \in IterRecord /\ SamePlace(m, iter) /\ m.seen_last_value /\ m.percentile = <<1, 1>>
        /\ m.percentile_to_iterate_to = to
    BY <1>2, ShowLastFields
  <2> HIDE DEF m
  <2>3. At(m) BY <1>1, <2>2, AtSamePlace
  <2>4. m.counts_index = iter.counts_index /\ m.cumulative_count = iter.cumulative_count
        /\ m.count = iter.count /\ m.total_count = iter.total_count
    BY <2>2 DEF SamePlace
  <2>5. NotBefore(m, to) BY <1>3, <2>2, NotBeforeSamePlace
  <2>6. m.counts_index # -1 => Line(m)
    <3> SUFFICES ASSUME m.counts_index # -1 PROVE Line(m) OBVIOUS
    <3>1. m.count \in Nat /\ m.count # 0
      <4>1. m.count # 0 BY <1>3, <2>4 DEF Line
      <4>2. iter.counts_index \in Indices(c) BY <1>2, <1>3, <2>4
      <4>3. iter.count = histogram.counts[iter.counts_index] BY <1>1, <4>2 DEF At
      <4>4. histogram.counts \in [Indices(c) -> Nat] BY <1>1, HistogramFacts
      <4> QED BY <2>4, <4>1, <4>2, <4>3, <4>4
    <3>2. m.percentile[1] = 1 /\ m.percentile[2] = 1 BY <2>2
    <3>3. m.cumulative_count = total BY <1>2, <1>6, <2>4
    <3>4. 1 * total <= total * 1 /\ 1 * total > (total - m.count) * 1 BY <1>2, <3>1
    <3>5. NotBefore(m, m.percentile) BY <3>2, <3>3, <3>4 DEF NotBefore
    <3> QED BY <3>1, <3>2, <3>3, <3>4, <3>5 DEF Line
  <2>7. ~has_next(m) BY <1>6, <2>4 DEF has_next
  <2>8. m.counts_index <= m.counts_index /\ m.counts_index < c.counts_len BY <1>2, <1>3, <2>4
  <2>9. PercentileInv(m, m, "idle") BY <1>3, <2>2, <2>5, <2>6, <2>7, <2>8 DEF PercentileInv
  <2>10. StateOK(m, m, "idle") BY <1>1, <2>3, <2>9 DEF StateOK
  <2> QED BY <1>1, <2>1, <2>10, Kept
<1>7. CASE has_next(iter)
  <2>1. ~iter.seen_last_value /\ shown' = iter /\ pc' = "loop"
        /\ iter' = (IF iter.counts_index = -1 THEN move_next(iter) ELSE iter)
    BY <1>3, <1>7 DEF PercentileCall
  <2>2. CASE iter.counts_index # -1
    <3>1. iter' = iter BY <2>1, <2>2
    <3>2. PercentileInv(iter, iter, "loop") BY <1>1, <1>3, <1>7, <2>1, <2>2 DEF PercentileInv
    <3>3. StateOK(iter, iter, "loop") BY <1>1, <3>2 DEF StateOK
    <3> QED BY <1>1, <2>1, <3>1, <3>3, Kept
  <2>3. CASE iter.counts_index = -1
    <3> DEFINE m == move_next(iter)
    <3>1. iter' = m BY <2>1, <2>3
    <3>2. iter.counts_index + 1 \in Indices(c) BY <1>2, <1>7
    <3>3. /\ At(m) /\ m.counts_index = 0 /\ m.count \in Nat
          /\ m.cumulative_count = iter.cumulative_count + m.count
          /\ m.seen_last_value = iter.seen_last_value
          /\ m.percentile_to_iterate_to = to
      <4>1. 0 = iter.counts_index + 1 BY <2>3
      <4> QED BY <1>1, <3>2, <4>1, MoveNextAt
    <3> HIDE DEF m
    <3>4. iter.cumulative_count = 0
      <4>1. iter.cumulative_count = CumulativeCount(histogram, -1) BY <1>1, <1>2, <2>3 DEF At
      <4>2. -1 \in -1 .. c.counts_len - 1 BY <1>2
      <4> QED BY <1>1, <4>1, <4>2, Cumulates
    <3>5. m.cumulative_count = m.count /\ total > 0 BY <1>2, <1>7, <3>3, <3>4
    <3>6. NotBefore(m, to)
      <4>1. PICK n \in Nat, d \in Nat \ {0} : n = to[1] /\ d = to[2] BY <1>4 DEF Fractions
      <4>2. CASE n = 0 BY <3>5, <4>1, <4>2 DEF NotBefore
      <4>3. CASE n # 0
        <5>1. n * total > 0 BY <1>2, <3>5, <4>3
        <5>2. (m.cumulative_count - m.count) * d = 0
          <6>1. m.cumulative_count - m.count = 0 BY <3>3, <3>5
          <6> QED BY <6>1
        <5> QED BY <4>1, <4>3, <5>1, <5>2 DEF NotBefore
      <4> QED BY <4>2, <4>3
    <3>7. has_next(m) \/ m.count # 0
      <4>1. m.total_count = total BY <3>3 DEF At
      <4> QED BY <1>2, <3>5, <4>1 DEF has_next
    <3>8. m.counts_index # -1 /\ m.counts_index < c.counts_len
          /\ iter.counts_index <= m.counts_index
      BY <1>2, <2>3, <3>3
    <3>9. PercentileInv(m, iter, "loop")
      BY <1>3, <2>1, <2>3, <3>3, <3>6, <3>7, <3>8 DEF PercentileInv
    <3>10. StateOK(m, iter, "loop") BY <1>1, <3>3, <3>9 DEF StateOK
    <3> QED BY <1>1, <2>1, <3>1, <3>10, Kept
  <2> QED BY <2>2, <2>3
<1> QED BY <1>5, <1>6, <1>7

\* The loop does not run out of values before it has reached the percentile.
LEMMA LastTurnReaches ==
  ASSUME HistogramOK, At(iter), PercentileInv(iter, shown, pc), pc = "loop", ~has_next(iter)
  PROVE  iter.count # 0 /\ ReachesPercentile(iter)
<1> DEFINE total == histogram.total_count
           to == iter.percentile_to_iterate_to
<1>1. iter.cumulative_count = total /\ total \in Nat BY AtFacts, HistogramFacts
<1>2. PICK n \in Nat, d \in Nat \ {0} : n = to[1] /\ d = to[2]
  <2>1. to \in Fractions BY DEF At, IterRecord
  <2> QED BY <2>1 DEF Fractions
<1>3. iter.count # 0 /\ n < d BY <1>2 DEF PercentileInv, IsTick
<1>4. n * total <= d * total BY <1>1, <1>3, ProductMonotone
<1>5. d * total = total * d BY <1>1
<1> QED BY <1>1, <1>2, <1>3, <1>4, <1>5 DEF ReachesPercentile

\* A turn of its loop
LEMMA PercentileTurnKept ==
  ASSUME IterInv, UNCHANGED <<histogram, kind, arg>>, PercentileTurn
  PROVE  IterInv'
<1> DEFINE c == histogram.cfg
           total == histogram.total_count
           to == iter.percentile_to_iterate_to
<1>1. HistogramOK /\ ArgumentOK /\ At(iter) /\ At(shown) /\ PercentileInv(iter, shown, pc)
      /\ ~HasLevels /\ kind \notin {"all", "recorded"} /\ pc = "loop" /\ kind = "percentile"
  BY DEF IterInv, StateOK, PercentileTurn, HasLevels
<1>2. /\ iter.cumulative_count \in Nat /\ iter.cumulative_count <= total
      /\ iter.counts_index \in Int /\ iter.counts_index >= -1 /\ c.counts_len \in Nat \ {0}
      /\ has_next(iter) <=> iter.cumulative_count < total
      /\ has_next(iter) => iter.counts_index + 1 \in Indices(c)
      /\ ~has_next(iter) => iter.cumulative_count = total
      /\ Indices(c) = 0 .. c.counts_len - 1 /\ iter \in IterRecord /\ total \in Nat
      /\ shown.counts_index \in Int
  BY <1>1, AtFacts, HistogramFacts DEF At
<1>3. /\ IsTick(to) /\ NotBefore(iter, to) /\ iter.counts_index < c.counts_len
      /\ iter.counts_index # -1 /\ (has_next(iter) \/ iter.count # 0) /\ ~iter.seen_last_value
      /\ shown.counts_index # -1 => Line(shown)
      /\ shown.counts_index # -1 /\ ~shown.seen_last_value => Less(shown.percentile, to)
      /\ ~shown.seen_last_value
      /\ shown.counts_index <= iter.counts_index
  BY <1>1 DEF PercentileInv
<1>4. to \in Fractions /\ arg \in Nat \ {0} /\ iter.highest_equivalent_value \in Int
  <2>1. arg \in Ticks BY <1>1 DEF ArgumentOK
  <2> QED BY <1>2, <2>1, IteratorAssumption DEF IterRecord
<1>5. iter.count \in Nat /\ iter.count <= iter.cumulative_count
  <2> DEFINE i == iter.counts_index
  <2>1. i \in Indices(c) /\ i \in -1 .. c.counts_len - 1 /\ i - 1 \in -1 .. c.counts_len - 1
    BY <1>2, <1>3
  <2>2. iter.count = histogram.counts[i] /\ iter.cumulative_count = CumulativeCount(histogram, i)
    BY <1>1, <1>3, <2>1 DEF At
  <2>3. histogram.counts \in [Indices(c) -> Nat] BY <1>1, HistogramFacts
  <2>4. CumulativeCount(histogram, i) = CumulativeCount(histogram, i - 1) + histogram.counts[i]
    BY <1>1, <1>3, <2>1, Cumulates
  <2>5. CumulativeCount(histogram, i - 1) \in Nat BY <1>1, <2>1, Cumulates
  <2> QED BY <2>1, <2>2, <2>3, <2>4, <2>5
<1>6. PICK n \in Nat, d \in Nat \ {0} : n = to[1] /\ d = to[2] BY <1>4 DEF Fractions
<1>7. ReachesPercentile(iter) <=> n * total <= iter.cumulative_count * d
  BY <1>6 DEF ReachesPercentile
<1> HIDE DEF c
<1>8. CASE iter.count # 0 /\ ReachesPercentile(iter)
  <2> DEFINE next == NextTick(to)
             m == ShowTick(iter, iter.highest_equivalent_value, to, next)
  <2>1. iter' = m /\ shown' = m /\ pc' = "idle"
    <3> DEFINE u == update_iterated_values(iter, iter.highest_equivalent_value)
    <3>1. u.percentile_to_iterate_to = to
      BY <1>2 DEF update_iterated_values, IterRecord
    <3>2. Show([u EXCEPT !.percentile = to,
                         !.percentile_to_iterate_to = NextTick(u.percentile_to_iterate_to)])
      <4>1. Show([u EXCEPT !.percentile = to, !.percentile_to_iterate_to = NextTick(@)])
        BY <1>8 DEF PercentileTurn
      <4>2. u \in IterRecord BY <1>2, <1>4, IteratedFields
      <4> HIDE DEF u
      <4>3. [u EXCEPT !.percentile = to, !.percentile_to_iterate_to = NextTick(@)]
            = [u EXCEPT !.percentile = to,
                        !.percentile_to_iterate_to = NextTick(u.percentile_to_iterate_to)]
        BY <4>2 DEF IterRecord
      <4> QED BY <4>1, <4>3
    <3>3. Show(m) BY <3>1, <3>2 DEF ShowTick
    <3> QED BY <3>3 DEF Show
  <2>2. next \in Fractions /\ IsTick(next) /\ Less(to, next) /\ next[1] >= 1
    BY <1>3, <1>4, NextTickIs
  <2> HIDE DEF next
  <2>3. /\ m \in IterRecord /\ SamePlace(m, iter) /\ m.seen_last_value = iter.seen_last_value
        /\ m.percentile = to /\ m.percentile_to_iterate_to = next
    <3>1. PICK p \in Fractions, q \in Fractions, high \in Int :
            p = to /\ q = next /\ high = iter.highest_equivalent_value
      BY <1>4, <2>2
    <3>0. iter \in IterRecord BY <1>2
    <3> DEFINE w == ShowTick(iter, high, p, q)
    <3>2. /\ w \in IterRecord /\ SamePlace(w, iter) /\ SameSeen(w, iter)
          /\ w.percentile = p /\ w.percentile_to_iterate_to = q
      BY <3>0, ShowTickFields
    <3>3. m = w BY <3>1
    <3> HIDE DEF w, m
    <3> QED BY <3>1, <3>2, <3>3 DEF SameSeen
  <2> HIDE DEF m
  <2>4. At(m) BY <1>1, <2>3, AtSamePlace
  <2>5. m.counts_index = iter.counts_index /\ m.count = iter.count
        /\ m.cumulative_count = iter.cumulative_count
    BY <2>3 DEF SamePlace
  <2>6. total > 0 /\ iter.cumulative_count > 0 BY <1>2, <1>5, <1>8
  <2>7. NotBefore(m, next)
    <3>1. PICK below \in Nat : below = m.cumulative_count - m.count BY <1>2, <1>5, <2>5
    <3>2. PICK k \in Nat, e \in Nat \ {0} : k = next[1] /\ e = next[2] /\ k >= 1
      BY <2>2 DEF Fractions
    <3>3. next[1] * total > below * next[2]
      <4>1. CASE n = 0
        <5>1. below = 0 BY <1>3, <1>5, <1>6, <2>5, <3>1, <4>1 DEF NotBefore
        <5>2. below * e = 0 BY <5>1
        <5>3. k * total > 0 BY <1>2, <2>6, <3>2
        <5> QED BY <3>2, <5>2, <5>3
      <4>2. CASE n # 0
        <5>1. to[1] * total > below * to[2] BY <1>3, <1>6, <2>5, <3>1, <4>2 DEF NotBefore
        <5> QED BY <1>2, <1>4, <2>2, <2>6, <5>1, LargerFraction
      <4> QED BY <4>1, <4>2
    <3> QED BY <3>1, <3>2, <3>3 DEF NotBefore
  <2>8. Line(m)
    <3>1. m.count # 0 /\ m.percentile[1] * total <= m.cumulative_count * m.percentile[2]
      BY <1>6, <1>7, <1>8, <2>3, <2>5
    <3>2. NotBefore(m, m.percentile) BY <1>3, <2>3, NotBeforeSamePlace
    <3> QED BY <3>1, <3>2 DEF Line
  <2>9. m.counts_index <= m.counts_index BY <1>2, <2>5
  <2>10. PercentileInv(m, m, "idle")
    BY <1>3, <2>2, <2>3, <2>5, <2>7, <2>8, <2>9 DEF PercentileInv, c
  <2>11. StateOK(m, m, "idle") BY <1>1, <2>4, <2>10 DEF StateOK
  <2> QED BY <1>1, <2>1, <2>11, Kept
<1>9. CASE ~(iter.count # 0 /\ ReachesPercentile(iter)) /\ has_next(iter)
  <2> DEFINE m == move_next(iter)
  <2>1. iter' = m /\ shown' = shown /\ pc' = "loop" BY <1>1, <1>9 DEF PercentileTurn
  <2>2. iter.counts_index + 1 \in Indices(c) BY <1>2, <1>9
  <2>3. /\ At(m) /\ m.counts_index = iter.counts_index + 1 /\ m.count \in Nat
        /\ m.cumulative_count = iter.cumulative_count + m.count
        /\ m.seen_last_value = iter.seen_last_value
        /\ m.percentile_to_iterate_to = to
    BY <1>1, <2>2, MoveNextAt DEF c
  <2> HIDE DEF m
  <2>4. m.cumulative_count - m.count = iter.cumulative_count BY <1>2, <2>3
  <2>5. NotBefore(m, to)
    <3>1. CASE n = 0
      <4>1. iter.cumulative_count = iter.count BY <1>3, <1>6, <3>1 DEF NotBefore
      <4>2. n * total <= iter.cumulative_count * d
        <5>1. n * total = 0 /\ iter.cumulative_count * d \in Nat BY <1>2, <3>1
        <5> QED BY <5>1
      <4>3. iter.count = 0 BY <1>7, <1>9, <4>2
      <4>4. m.cumulative_count = m.count BY <2>3, <4>1, <4>3
      <4> QED BY <1>6, <3>1, <4>4 DEF NotBefore
    <3>2. CASE n # 0
      <4>1. n * total > iter.cumulative_count * d
        <5>1. n * total \in Nat /\ iter.cumulative_count * d \in Nat BY <1>2
        <5>2. CASE iter.count # 0 BY <1>7, <1>9, <5>1, <5>2
        <5>3. CASE iter.count = 0
          <6>1. iter.cumulative_count - iter.count = iter.cumulative_count BY <1>2, <5>3
          <6> QED BY <1>3, <1>6, <3>2, <6>1 DEF NotBefore
        <5> QED BY <5>2, <5>3
      <4> QED BY <1>6, <2>4, <3>2, <4>1 DEF NotBefore
    <3> QED BY <3>1, <3>2
  <2>6. has_next(m) \/ m.count # 0
    <3>1. m.total_count = total BY <2>3 DEF At
    <3> QED BY <1>2, <1>9, <2>3, <3>1 DEF has_next
  <2>7. m.counts_index # -1 /\ m.counts_index < c.counts_len
        /\ shown.counts_index <= m.counts_index
    BY <1>2, <1>3, <2>2, <2>3
  <2>8. PercentileInv(m, shown, "loop") BY <1>3, <2>3, <2>5, <2>6, <2>7 DEF PercentileInv, c
  <2>9. StateOK(m, shown, "loop") BY <1>1, <2>3, <2>8 DEF StateOK
  <2> QED BY <1>1, <2>1, <2>9, Kept
<1>10. ~has_next(iter) => iter.count # 0 /\ ReachesPercentile(iter) BY <1>1, LastTurnReaches
<1> QED BY <1>8, <1>9, <1>10

\* Every step keeps it.
LEMMA IterKept == IterInv /\ [IterNext]_iter_vars => IterInv'
<1> SUFFICES ASSUME IterInv, [IterNext]_iter_vars PROVE IterInv' OBVIOUS
<1>1. HistogramOK /\ ArgumentOK /\ StateOK(iter, shown, pc) BY DEF IterInv
<1>2. CASE UNCHANGED iter_vars
  <2>1. UNCHANGED <<histogram, kind, arg>> /\ iter' = iter /\ shown' = shown /\ pc' = pc
    BY <1>2 DEF iter_vars
  <2> QED BY <1>1, <2>1, Kept
<1>3. CASE IterNext
  <2>1. UNCHANGED <<histogram, kind, arg>> BY <1>3 DEF IterNext
  <2>2. CASE AllValuesNext \/ RecordedNext BY <2>1, <2>2, ValuesKept
  <2>3. CASE PercentileCall BY <2>1, <2>3, PercentileCallKept
  <2>4. CASE PercentileTurn BY <2>1, <2>4, PercentileTurnKept
  <2>5. CASE LinearNext \/ LogNext
    <3>1. HasLevels /\ (LevelCall \/ LevelTurn) BY <2>5 DEF LinearNext, LogNext, HasLevels
    <3> QED BY <2>1, <3>1, LevelKept
  <2>6. CASE Done BY <1>2, <2>6 DEF Done
  <2> QED BY <1>3, <2>2, <2>3, <2>4, <2>5, <2>6 DEF IterNext
<1> QED BY <1>2, <1>3

\* In every state of every iterator (hdr_histogram.c:652-953): it knows the counts up to its
\* index, has not passed what it iterates to, and has not missed it either.
THEOREM IteratorsKnowTheirPlace == IterSpec => []IterInv
BY IterStarts, IterKept, PTL DEF IterSpec

-------------------------------------------------------------------------------
(* What is shown                                                             *)

\* The place of an iterator that has moved
LEMMA ShownPlace ==
  ASSUME HistogramOK, NEW it, At(it), it.counts_index \in Indices(histogram.cfg)
  PROVE  LET c == histogram.cfg
             i == it.counts_index
         IN  /\ it.value = hdr_value_at_index(c, i)
             /\ it.highest_equivalent_value = highest_equivalent_value(c, hdr_value_at_index(c, i))
             /\ it.count = histogram.counts[i] /\ it.count \in Nat
             /\ i \in -1 .. c.counts_len - 1 /\ i # -1 /\ i \in Nat
             /\ it.cumulative_count = CumulativeCount(histogram, i)
             /\ it.cumulative_count \in Nat
<1> DEFINE c == histogram.cfg
           i == it.counts_index
<1>1. c.counts_len \in Nat \ {0} /\ Indices(c) = 0 .. c.counts_len - 1
      /\ histogram.counts \in [Indices(c) -> Nat]
  BY HistogramFacts
<1>2. i \in -1 .. c.counts_len - 1 /\ i # -1 /\ i < c.counts_len /\ i \in Nat BY <1>1
<1>3. it.cumulative_count = CumulativeCount(histogram, i) BY <1>2 DEF At
<1>4. it.value = hdr_value_at_index(c, i) /\ it.count = histogram.counts[i]
      /\ it.highest_equivalent_value = highest_equivalent_value(c, it.value)
  BY DEF At
<1>5. CumulativeCount(histogram, i) \in Nat BY <1>2, Cumulates
<1>6. histogram.counts[i] \in Nat BY <1>1
<1> QED BY <1>2, <1>3, <1>4, <1>5, <1>6

\* Each printed line is true of the values (hdr_histogram.c:716-758).
THEOREM LinesTrue == IterSpec => []LinesAreTrue
<1>1. IterInv => LinesAreTrue
  <2> SUFFICES ASSUME IterInv, kind = "percentile", shown.counts_index >= 0
      PROVE  LET n == shown.percentile[1]
                 d == shown.percentile[2]
                 last == counts_index_for(histogram.cfg, shown.highest_equivalent_value)
             IN /\ shown.cumulative_count = CumulativeCount(histogram, last)
                /\ n * histogram.total_count <= shown.cumulative_count * d
                /\ n # 0 => n * histogram.total_count > (shown.cumulative_count - shown.count) * d
    BY DEF LinesAreTrue
  <2> DEFINE c == histogram.cfg
             i == shown.counts_index
  <2>1. HistogramOK /\ At(iter) /\ At(shown) /\ PercentileInv(iter, shown, pc)
    BY DEF IterInv, StateOK
  <2>2. ConfigOK(c) /\ c.counts_len \in Nat \ {0} /\ Indices(c) = 0 .. c.counts_len - 1
    BY <2>1, HistogramFacts
  <2>3. i \in Indices(c) /\ i # -1
    <3>1. i \in Int /\ iter.counts_index \in Int /\ i <= iter.counts_index
          /\ iter.counts_index < c.counts_len
      BY <2>1, AtFacts DEF PercentileInv
    <3> QED BY <2>2, <3>1
  <2>4. shown.highest_equivalent_value = highest_equivalent_value(c, hdr_value_at_index(c, i))
        /\ shown.cumulative_count = CumulativeCount(histogram, i)
    BY <2>1, <2>3, ShownPlace
  <2>5. counts_index_for(c, shown.highest_equivalent_value) = i BY <2>2, <2>3, <2>4, RangeOfIndex
  <2>6. Line(shown) BY <2>1, <2>3 DEF PercentileInv
  <2>7. shown.percentile[1] # 0 =>
          shown.percentile[1] * histogram.total_count
            > (shown.cumulative_count - shown.count) * shown.percentile[2]
    BY <2>6 DEF Line, NotBefore
  <2> QED BY <2>4, <2>5, <2>6, <2>7 DEF Line
<1> QED BY <1>1, IteratorsKnowTheirPlace, PTL

\* A level is reached by the values up to it, and by no others (hdr_histogram.c:857-930).
THEOREM StepsReachTheirLevel == IterSpec => []StepsReachLevel
<1>1. IterInv => StepsReachLevel
  <2> DEFINE c == histogram.cfg
             low == lowest_equivalent_value(c, shown.value_iterated_to)
             reached == {j \in Indices(c) : hdr_value_at_index(c, j) <= low}
  <2> SUFFICES ASSUME IterInv, HasLevels, shown.counts_index \in Indices(c)
      PROVE  shown.cumulative_count = CumulativeCount(histogram, Max(reached))
    BY DEF StepsReachLevel
  <2>1. HistogramOK /\ At(iter) /\ At(shown) /\ LevelInv(iter, shown, pc) BY DEF IterInv, StateOK
  <2>2. ConfigOK(c) BY <2>1, HistogramFacts
  <2> DEFINE i == shown.counts_index
  <2>3. i \in Nat /\ shown.value = hdr_value_at_index(c, i)
        /\ shown.cumulative_count = CumulativeCount(histogram, i)
    BY <2>1, ShownPlace
  <2>4. low = hdr_value_at_index(c, i) BY <2>1, <2>3 DEF LevelInv
  <2>5. \A j \in Indices(c) : hdr_value_at_index(c, j) <= low <=> j <= i
    BY <2>2, <2>4, IndicesInOrder
  <2>6. Indices(c) \subseteq Nat BY <2>2, IndicesAre
  <2> HIDE DEF low, i
  <2>7. reached \in SUBSET Indices(c) /\ i \in reached /\ \A j \in reached : j <= i
    BY <2>3, <2>5 DEF i
  <2> HIDE DEF reached
  <2>8. Max(reached) \in reached /\ i <= Max(reached)
    <3>1. reached # {} BY <2>7
    <3> QED BY <2>2, <2>7, <3>1, Extremes
  <2>9. Max(reached) \in Nat /\ Max(reached) <= i BY <2>6, <2>7, <2>8
  <2>10. Max(reached) = i BY <2>3, <2>8, <2>9 DEF i
  <2> QED BY <2>3, <2>10 DEF i
<1> QED BY <1>1, IteratorsKnowTheirPlace, PTL

\* With all values counted up to index i, and some at it, it is the index of hdr_max.
LEMMA LastIsMax ==
  ASSUME HistogramOK, NEW i \in Indices(histogram.cfg), histogram.counts[i] # 0,
         CumulativeCount(histogram, i) = histogram.total_count
  PROVE  \/ hdr_max(histogram) = highest_equivalent_value(histogram.cfg,
                                                           hdr_value_at_index(histogram.cfg, i))
         \/ hdr_max(histogram) = 0 /\ hdr_value_at_index(histogram.cfg, i) = 0
<1> DEFINE h == histogram
           c == h.cfg
           top == counts_index_for(c, h.max_value)
<1>1. ConfigOK(c) /\ h.counts \in [Indices(c) -> Nat] /\ h.total_count \in Nat
      /\ Indices(c) = 0 .. c.counts_len - 1 /\ c.counts_len \in Nat \ {0}
  BY HistogramFacts
<1>2. h.max_value \in Nat /\ h.max_value < Top(c)
      /\ (h.max_value # 0 => h.counts[top] # 0)
      /\ \A j \in Indices(c) : h.counts[j] # 0 => j <= top
  BY HistogramFacts DEF Good, Consistent, MaxFits
<1>3. top \in Indices(c) /\ h.max_value < Pow2[63] BY <1>1, <1>2, ValueInRange
<1>4. i \in -1 .. c.counts_len - 1 /\ i \in Nat BY <1>1
<1>5. ASSUME NEW j \in Indices(c), i < j PROVE h.counts[j] = 0
  <2>1. j \in 0 .. c.counts_len - 1 /\ c.counts_len - 1 \in -1 .. c.counts_len - 1
        /\ j \in -1 .. c.counts_len - 1 /\ j <= c.counts_len - 1
    BY <1>1
  <2>2. CumulativeCount(h, i) + h.counts[j] <= CumulativeCount(h, j)
    BY <1>4, <1>5, <2>1, Cumulates
  <2>3. CumulativeCount(h, j) <= h.total_count /\ CumulativeCount(h, j) \in Nat
    BY <2>1, Cumulates
  <2>4. h.counts[j] \in Nat BY <1>1
  <2> QED BY <1>1, <2>2, <2>3, <2>4
<1>6. h.total_count # 0
  <2>1. CumulativeCount(h, i) = CumulativeCount(h, i - 1) + h.counts[i]
    BY <1>4, Cumulates
  <2>2. i - 1 \in -1 .. c.counts_len - 1 BY <1>1
  <2>3. CumulativeCount(h, i - 1) \in Nat BY <2>2, Cumulates
  <2>4. h.counts[i] \in Nat \ {0} BY <1>1
  <2> QED BY <2>1, <2>3, <2>4
<1>7. i <= top BY <1>2
<1>8. CASE h.max_value = 0
  <2>1. top = 0 BY <1>1, <1>8, IndicesAre
  <2>2. i = 0 BY <1>4, <1>7, <2>1
  <2>3. hdr_value_at_index(c, 0) = 0
    <3>1. hdr_value_at_index(c, 0) = lowest_equivalent_value(c, 0)
          /\ lowest_equivalent_value(c, 0) \in Nat /\ lowest_equivalent_value(c, 0) <= 0
      BY <1>1, <1>2, <1>8, <2>1, ValueInRange
    <3> QED BY <3>1
  <2> QED BY <1>8, <2>2, <2>3 DEF hdr_max
<1>9. CASE h.max_value # 0
  <2>1. ~(i < top) BY <1>2, <1>3, <1>5, <1>9
  <2>2. top = i BY <1>1, <1>3, <1>4, <1>7, <2>1
  <2>3. hdr_max(h) = highest_equivalent_value(c, h.max_value) BY <1>6, <1>9 DEF hdr_max
  <2> DEFINE v == hdr_value_at_index(c, i)
  <2>4. v \in Nat /\ v < Pow2[63] /\ counts_index_for(c, v) = i BY <1>1, RangeOfIndex
  <2> HIDE DEF v
  <2>5. highest_equivalent_value(c, h.max_value) = highest_equivalent_value(c, v)
    BY <1>1, <1>2, <1>3, <2>2, <2>4, SameIndex
  <2> QED BY <2>3, <2>5 DEF v
<1> QED BY <1>8, <1>9

\* Nothing is left out when an iteration ends (hdr_histogram.c:652-953).
THEOREM EndIsComplete == IterSpec => []EndsComplete
<1>1. IterInv => EndsComplete
  <2> SUFFICES ASSUME IterInv, pc = "done"
      PROVE  /\ shown.cumulative_count = histogram.total_count
             /\ kind = "percentile" =>
                  /\ shown.percentile = <<1, 1>>
                  /\ \/ shown.highest_equivalent_value = hdr_max(histogram)
                     \/ hdr_max(histogram) = 0 /\ shown.value = 0
    BY DEF EndsComplete
  <2> DEFINE c == histogram.cfg
  <2>1. HistogramOK /\ At(iter) /\ At(shown) /\ ArgumentOK BY DEF IterInv, StateOK
  <2>2. ~has_next(iter) => iter.cumulative_count = histogram.total_count BY <2>1, AtFacts
  <2>3. CASE kind \in {"all", "recorded"}
    <3>1. ValuesInv(iter, shown, pc) /\ kind # "percentile" BY <2>3 DEF IterInv, StateOK
    <3> QED BY <3>1 DEF ValuesInv
  <2>4. CASE HasLevels
    <3>1. LevelInv(iter, shown, pc) /\ kind # "percentile" BY <2>4 DEF IterInv, StateOK, HasLevels
    <3>2. shown.cumulative_count = iter.cumulative_count /\ ~has_next(iter)
      BY <3>1 DEF LevelInv
    <3> QED BY <2>2, <3>1, <3>2
  <2>5. CASE kind = "percentile"
    <3>1. PercentileInv(iter, shown, pc) BY <2>5 DEF IterInv, StateOK
    <3>2. shown = iter /\ ~has_next(iter) /\ shown.percentile = <<1, 1>>
          /\ (shown.counts_index # -1 => Line(shown))
          /\ shown.counts_index < c.counts_len
      BY <3>1 DEF PercentileInv
    <3>3. shown.cumulative_count = histogram.total_count BY <2>2, <3>2
    <3>4. CASE shown.counts_index = -1
      <4>1. shown.cumulative_count = CumulativeCount(histogram, -1)
            /\ shown.value = 0
        BY <2>1, <3>2, <3>4 DEF At
      <4>2. CumulativeCount(histogram, -1) = 0
        <5>1. c.counts_len \in Nat \ {0} BY <2>1, HistogramFacts
        <5>2. -1 \in -1 .. c.counts_len - 1 BY <5>1
        <5> QED BY <2>1, <5>2, Cumulates
      <4>3. hdr_max(histogram) = 0 BY <3>3, <4>1, <4>2 DEF hdr_max
      <4> QED BY <3>2, <3>3, <4>1, <4>3
    <3>5. CASE shown.counts_index # -1
      <4>1. shown.counts_index \in Indices(c)
        <5>1. shown.counts_index \in -1 .. c.counts_len /\ c.counts_len \in Nat \ {0}
              /\ Indices(c) = 0 .. c.counts_len - 1
          BY <2>1, HistogramFacts DEF At
        <5> QED BY <3>2, <3>5, <5>1
      <4>2. /\ shown.value = hdr_value_at_index(c, shown.counts_index)
            /\ shown.highest_equivalent_value
                 = highest_equivalent_value(c, hdr_value_at_index(c, shown.counts_index))
            /\ shown.count = histogram.counts[shown.counts_index]
            /\ shown.cumulative_count = CumulativeCount(histogram, shown.counts_index)
        BY <2>1, <4>1, ShownPlace
      <4>3. shown.count # 0 BY <3>2, <3>5 DEF Line
      <4>4. \/ hdr_max(histogram)
                 = highest_equivalent_value(c, hdr_value_at_index(c, shown.counts_index))
            \/ hdr_max(histogram) = 0 /\ hdr_value_at_index(c, shown.counts_index) = 0
        BY <2>1, <3>3, <4>1, <4>2, <4>3, LastIsMax
      <4> QED BY <3>2, <3>3, <4>2, <4>4
    <3> QED BY <3>4, <3>5
  <2> QED BY <2>1, <2>3, <2>4, <2>5 DEF ArgumentOK, HasLevels
<1> QED BY <1>1, IteratorsKnowTheirPlace, PTL

\* No line is printed twice, and the next one is further on (hdr_histogram.c:985-1005).
THEOREM LinesAscending == IterSpec => LinesAscend
<1> DEFINE Ascends ==
      kind = "percentile" /\ shown' # shown /\ shown.counts_index >= 0 =>
        /\ shown.percentile[1] * shown'.percentile[2] < shown'.percentile[1] * shown.percentile[2]
        /\ shown.highest_equivalent_value <= shown'.highest_equivalent_value
        /\ shown.cumulative_count <= shown'.cumulative_count
<1>1. IterInv /\ IterInv' /\ [IterNext]_iter_vars => [Ascends]_iter_vars
  <2> SUFFICES ASSUME IterInv, IterInv', IterNext, kind = "percentile", shown' # shown,
                      shown.counts_index >= 0
      PROVE  /\ shown.percentile[1] * shown'.percentile[2]
                  < shown'.percentile[1] * shown.percentile[2]
             /\ shown.highest_equivalent_value <= shown'.highest_equivalent_value
             /\ shown.cumulative_count <= shown'.cumulative_count
    OBVIOUS
  <2> DEFINE c == histogram.cfg
             to == iter.percentile_to_iterate_to
  <2>1. HistogramOK /\ ArgumentOK /\ At(iter) /\ At(shown) /\ PercentileInv(iter, shown, pc)
    BY DEF IterInv, StateOK
  <2>2. ConfigOK(c) /\ c.counts_len \in Nat \ {0} /\ Indices(c) = 0 .. c.counts_len - 1
    BY <2>1, HistogramFacts
  <2>3. shown.counts_index \in Int /\ iter.counts_index \in Int
        /\ shown.counts_index <= iter.counts_index /\ iter.counts_index < c.counts_len
        /\ IsTick(to) /\ iter \in IterRecord /\ shown \in IterRecord
    BY <2>1, AtFacts DEF PercentileInv, At
  <2>4. shown.counts_index \in Indices(c) /\ iter.counts_index \in Indices(c)
        /\ shown.counts_index # -1
    BY <2>2, <2>3
  <2>5. shown.highest_equivalent_value <= iter.highest_equivalent_value
        /\ shown.cumulative_count <= iter.cumulative_count
    <3>1. /\ shown.highest_equivalent_value
               = highest_equivalent_value(c, hdr_value_at_index(c, shown.counts_index))
          /\ shown.cumulative_count = CumulativeCount(histogram, shown.counts_index)
          /\ shown.counts_index \in -1 .. c.counts_len - 1
      BY <2>1, <2>4, ShownPlace
    <3>2. /\ iter.highest_equivalent_value
               = highest_equivalent_value(c, hdr_value_at_index(c, iter.counts_index))
          /\ iter.cumulative_count = CumulativeCount(histogram, iter.counts_index)
          /\ iter.counts_index \in -1 .. c.counts_len - 1
      BY <2>1, <2>4, ShownPlace
    <3>3. highest_equivalent_value(c, hdr_value_at_index(c, shown.counts_index))
            <= highest_equivalent_value(c, hdr_value_at_index(c, iter.counts_index))
      BY <2>2, <2>3, <2>4, IndicesInOrder
    <3>4. CumulativeCount(histogram, shown.counts_index)
            <= CumulativeCount(histogram, iter.counts_index)
      BY <2>1, <2>3, <3>1, <3>2, Cumulates
    <3> QED BY <3>1, <3>2, <3>3, <3>4
  <2>6. ASSUME ~shown.seen_last_value, SamePlace(shown', iter),
               Less(shown.percentile, shown'.percentile)
        PROVE  /\ shown.percentile[1] * shown'.percentile[2]
                    < shown'.percentile[1] * shown.percentile[2]
               /\ shown.highest_equivalent_value <= shown'.highest_equivalent_value
               /\ shown.cumulative_count <= shown'.cumulative_count
    BY <2>5, <2>6 DEF SamePlace, Less
  <2>7. ~shown.seen_last_value => Less(shown.percentile, to) BY <2>1, <2>4 DEF PercentileInv
  <2>8. CASE PercentileCall
    <3> DEFINE m == ShowLast(iter)
    <3>1. shown' = m /\ pc = "idle" /\ ~iter.seen_last_value
      BY <2>8 DEF PercentileCall, Show, End, ShowLast
    <3>2. shown = iter BY <2>1, <3>1 DEF PercentileInv
    <3>3. SamePlace(m, iter) /\ m.percentile = <<1, 1>> BY <2>3, ShowLastFields
    <3> HIDE DEF m
    <3>4. PICK n \in Nat, d \in Nat \ {0}, a \in Nat, b \in Nat \ {0} :
            n = shown.percentile[1] /\ d = shown.percentile[2] /\ a = to[1] /\ b = to[2]
      <4>1. shown.percentile \in Fractions /\ to \in Fractions BY <2>3 DEF IterRecord
      <4> QED BY <4>1 DEF Fractions
    <3>5. a < b /\ n * b < a * d BY <2>3, <2>7, <3>1, <3>2, <3>4 DEF IsTick, Less
    <3>6. n < d
      <4> SUFFICES ASSUME d <= n PROVE FALSE OBVIOUS
      <4>1. d * b <= n * b BY <3>4, ProductMonotone
      <4>2. a * d <= b * d BY <3>4, <3>5, ProductMonotone
      <4>3. b * d = d * b /\ b * d \in Nat /\ a * d \in Nat /\ n * b \in Nat OBVIOUS
      <4> QED BY <3>5, <4>1, <4>2, <4>3
    <3>7. Less(shown.percentile, m.percentile) BY <3>3, <3>4, <3>6 DEF Less
    <3> QED BY <2>6, <3>1, <3>2, <3>3, <3>7
  <2>9. CASE PercentileTurn
    <3>1. pc = "loop" /\ ~iter.seen_last_value /\ ~shown.seen_last_value
      BY <2>1, <2>9 DEF PercentileInv, PercentileTurn
    <3>2. CASE iter.count # 0 /\ ReachesPercentile(iter)
      <4> DEFINE u == update_iterated_values(iter, iter.highest_equivalent_value)
                 next == NextTick(u.percentile_to_iterate_to)
                 m == ShowTick(iter, iter.highest_equivalent_value, to, next)
      <4>1. arg \in Nat \ {0} /\ to \in Fractions /\ iter.highest_equivalent_value \in Int
        <5>1. arg \in Ticks BY <2>1 DEF ArgumentOK
        <5> QED BY <2>3, <5>1, IteratorAssumption DEF IterRecord
      <4>2. u \in IterRecord /\ u.percentile_to_iterate_to = to
        BY <2>3, <4>1 DEF update_iterated_values, IterRecord
      <4>3. shown' = m
        <5>1. shown' = [u EXCEPT !.percentile = to, !.percentile_to_iterate_to = NextTick(@)]
          BY <2>9, <3>2 DEF PercentileTurn, Show
        <5> HIDE DEF u
        <5>2. shown' = [u EXCEPT !.percentile = to, !.percentile_to_iterate_to = next]
          BY <4>2, <5>1 DEF IterRecord
        <5> QED BY <5>2 DEF ShowTick, u
      <4>4. next \in Fractions BY <2>3, <4>1, <4>2, NextTickIs
      <4>5. SamePlace(m, iter) /\ m.percentile = to
        <5>1. PICK p \in Fractions, q \in Fractions, high \in Int :
                p = to /\ q = next /\ high = iter.highest_equivalent_value
          BY <4>1, <4>4
        <5>0. iter \in IterRecord BY <2>3
        <5> DEFINE w == ShowTick(iter, high, p, q)
        <5>2. SamePlace(w, iter) /\ w.percentile = p BY <5>0, ShowTickFields
        <5>3. m = w BY <5>1
        <5> HIDE DEF w, m
        <5> QED BY <5>1, <5>2, <5>3
      <4> HIDE DEF m
      <4> QED BY <2>6, <2>7, <3>1, <4>3, <4>5
    <3>3. CASE ~(iter.count # 0 /\ ReachesPercentile(iter)) /\ has_next(iter)
      BY <2>9, <3>3 DEF PercentileTurn
    <3>4. CASE ~(iter.count # 0 /\ ReachesPercentile(iter)) /\ ~has_next(iter)
      BY <2>1, <3>1, <3>4, LastTurnReaches
    <3> QED BY <3>2, <3>3, <3>4
  <2>10. ~AllValuesNext /\ ~RecordedNext /\ ~LinearNext /\ ~LogNext /\ ~Done
    BY DEF AllValuesNext, RecordedNext, LinearNext, LogNext, Done, iter_vars
  <2> QED BY <2>8, <2>9, <2>10 DEF IterNext
<1> QED BY <1>1, IteratorsKnowTheirPlace, PTL DEF IterSpec, LinesAscend
==============================================================================
