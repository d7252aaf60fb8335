---------------------------- MODULE BitVectorProofs ----------------------------
(***************************************************************************)
(* getFirstOne for every word size and every length of the vector.         *)
(***************************************************************************)
EXTENDS BitVector, FiniteSetTheorems, WellFoundedInduction, TLAPS

\* The padding bits of the last word are 1 for ever
Padded(vec) == vec \subseteq Positions /\ Positions \ Slots \subseteq vec

\* The first i words
Below(k) == 0 .. k * IntSizeBits - 1

(***************************************************************************)
(* Arithmetic                                                              *)
(***************************************************************************)

LEMMA DivBounds ==
  ASSUME NEW a \in Nat, NEW w \in Nat \ {0}
  PROVE  /\ a \div w \in Nat
         /\ w * (a \div w) <= a
         /\ a < w * (a \div w) + w
OBVIOUS

LEMMA DivUnique ==
  ASSUME NEW k \in Nat, NEW w \in Nat \ {0}, NEW n \in 0 .. w - 1
  PROVE  (k * w + n) \div w = k
<1> DEFINE q == (k * w + n) \div w
<1>1. q \in Nat /\ w * q <= k * w + n /\ k * w + n < w * q + w
  BY DivBounds
<1>2. ~(q < k)
  <2> SUFFICES ASSUME q < k PROVE FALSE
    OBVIOUS
  <2>1. PICK d \in Nat : k = q + 1 + d
    BY <1>1
  <2>2. k * w = q * w + w + d * w
    BY <1>1, <2>1
  <2>3. d * w \in Nat /\ w * q \in Nat /\ q * w = w * q
    BY <1>1
  <2> QED BY <1>1, <2>2, <2>3
<1>3. ~(k < q)
  <2> SUFFICES ASSUME k < q PROVE FALSE
    OBVIOUS
  <2>1. PICK d \in Nat : q = k + 1 + d
    BY <1>1
  <2>2. q * w = k * w + w + d * w
    BY <1>1, <2>1
  <2>3. d * w \in Nat /\ w * q \in Nat /\ q * w = w * q
    BY <1>1
  <2> QED BY <1>1, <2>2, <2>3
<1> QED BY <1>1, <1>2, <1>3

\* The positions of word k are those between its first and its last
LEMMA WordOfPosition ==
  ASSUME NEW k \in Nat, NEW b \in Nat
  PROVE  b \div IntSizeBits = k <=> k * IntSizeBits <= b /\ b < (k + 1) * IntSizeBits
<1> DEFINE W == IntSizeBits
<1>0. W \in Nat \ {0}
  BY BitVectorAssumption
<1>1. (k + 1) * W = k * W + W /\ k * W \in Nat /\ W * k = k * W
  BY <1>0
<1>2. ASSUME b \div W = k PROVE k * W <= b /\ b < (k + 1) * W
  BY <1>0, <1>1, <1>2, DivBounds
<1>3. ASSUME k * W <= b, b < (k + 1) * W PROVE b \div W = k
  <2>1. b - k * W \in 0 .. W - 1 /\ k * W + (b - k * W) = b
    BY <1>0, <1>1, <1>3
  <2> HIDE DEF W
  <2> QED BY <1>0, <2>1, DivUnique
<1> QED BY <1>2, <1>3

\* The vector has room for its length
LEMMA VectorCoversSlots ==
  /\ NumInts \in Nat
  /\ NumBits <= NumInts * IntSizeBits
  /\ Slots \subseteq Positions
  /\ Positions = Below(NumInts)
<1> DEFINE W == IntSizeBits
<1>0. W \in Nat \ {0} /\ NumBits \in Nat \ {0}
  BY BitVectorAssumption
<1>1. NumBits + W - 1 \in Nat
  BY <1>0
<1>2. NumInts \in Nat /\ NumBits + W - 1 < W * NumInts + W
  BY <1>0, <1>1, DivBounds DEF NumInts
<1>3. W * NumInts = NumInts * W /\ NumInts * W \in Nat
  BY <1>0, <1>2
<1>4. NumBits <= NumInts * W
  BY <1>0, <1>2, <1>3
<1> QED BY <1>0, <1>2, <1>3, <1>4 DEF Slots, Positions, Below

LEMMA FiniteVector ==
  /\ IsFiniteSet(Positions)
  /\ IsFiniteSet(Slots) /\ Cardinality(Slots) = NumBits
  /\ \A vec : IsFiniteSet(TrailingZeros(vec)) /\ Cardinality(TrailingZeros(vec)) \in Nat
<1>0. NumInts * IntSizeBits \in Nat /\ NumBits \in Nat \ {0}
  BY VectorCoversSlots, BitVectorAssumption
<1>1. IsFiniteSet(Positions)
  BY <1>0, FS_Interval DEF Positions
<1>2. IsFiniteSet(Slots) /\ Cardinality(Slots) = NumBits
  BY <1>0, FS_Interval DEF Slots
<1>3. ASSUME NEW vec
      PROVE  IsFiniteSet(TrailingZeros(vec)) /\ Cardinality(TrailingZeros(vec)) \in Nat
  <2>1. TrailingZeros(vec) \subseteq Positions
    BY DEF TrailingZeros
  <2> QED BY <1>1, <2>1, FS_Subset, FS_CardinalityType
<1> QED BY <1>1, <1>2, <1>3

LEMMA LeastNatural ==
  ASSUME NEW S, S \subseteq Nat, S # {}
  PROVE  \E m \in S : \A n \in S : m <= n
<1>1. PICK m \in S : \A n \in S : ~(<<n, m>> \in OpToRel(<, Nat))
  BY NatLessThanWellFounded, WFMin
<1>2. \A n \in S : ~(n < m)
  BY <1>1 DEF OpToRel
<1> QED BY <1>2

(***************************************************************************)
(* getFirstOne                                                             *)
(***************************************************************************)

LEMMA TrailingZerosAreSlots ==
  ASSUME NEW vec, Padded(vec)
  PROVE  TrailingZeros(vec) \subseteq Slots \ vec
BY DEF TrailingZeros, testBit, Padded, Positions

\* getFirstOne says INVALID_INDEX exactly when no slot is free, whatever the word
\* size, the length and the padding (src/common.c:69 and 71-82).
THEOREM GetFirstOneInvalidIffFull ==
  ASSUME NEW vec, Padded(vec)
  PROVE  getFirstOne(vec) = INVALID_INDEX <=> vec \intersect Slots = {}
<1> DEFINE Z == TrailingZeros(vec)
<1>1. Z \subseteq Slots /\ IsFiniteSet(Slots) /\ Cardinality(Slots) = NumBits
  BY TrailingZerosAreSlots, FiniteVector
<1>2. Cardinality(Z) \in Nat /\ Cardinality(Z) <= NumBits
  BY <1>1, FS_Subset, FiniteVector
<1>3. Cardinality(Z) = NumBits <=> Z = Slots
  BY <1>1, FS_Subset
<1>4. Z = Slots <=> vec \intersect Slots = {}
  <2>1. ASSUME vec \intersect Slots = {} PROVE Slots \subseteq Z
    BY <2>1, VectorCoversSlots, BitVectorAssumption
       DEF TrailingZeros, testBit, Slots, Positions
  <2>2. Z \subseteq Slots \ vec
    BY TrailingZerosAreSlots
  <2> QED BY <2>1, <2>2, <1>1
<1>5. NumBits \in Nat
  BY BitVectorAssumption
<1>6. getFirstOne(vec) = INVALID_INDEX <=> Cardinality(Z) = NumBits
  BY <1>2, <1>5 DEF getFirstOne, INVALID_INDEX
<1> QED BY <1>3, <1>4, <1>6

\* As long as the free slots that are missing all lie in the first word,
\* getFirstOne keeps the promise of its comment (src/common.c:67-70): beyond it the
\* loop without a break adds the trailing zeros of later words.
THEOREM GetFirstOneIsLeast ==
  ASSUME NEW vec, Padded(vec), Slots \ vec \subseteq 0 .. IntSizeBits - 1
  PROVE  getFirstOne(vec) = LeastOne(vec)
<1> DEFINE Z == TrailingZeros(vec)
           W == IntSizeBits
<1>0. W \in Nat \ {0} /\ NumBits \in Nat \ {0}
  BY BitVectorAssumption
<1>1. CASE vec \intersect Slots = {}
  BY <1>1, GetFirstOneInvalidIffFull DEF LeastOne
<1>2. CASE vec \intersect Slots # {}
  <2>1. vec \intersect Slots \subseteq Nat
    BY <1>0 DEF Slots
  <2>2. PICK m \in vec \intersect Slots : \A q \in vec \intersect Slots : m <= q
    BY <1>2, <2>1, LeastNatural
  <2>3. LeastOne(vec) = m
    BY <1>2, <2>1, <2>2 DEF LeastOne
  <2>4. m \in Nat /\ m < NumBits
    BY <1>0 DEF Slots
  <2>5. m <= W
    <3> SUFFICES ASSUME W < m PROVE FALSE
      BY <1>0, <2>4
    <3>1. W \in Slots
      BY <1>0, <2>4 DEF Slots
    <3>2. W \in Slots \ vec
      BY <1>0, <2>2, <2>4, <3>1
    <3> QED BY <1>0, <3>2
  <2>6. ASSUME NEW b \in 0 .. m - 1 PROVE b \in Z
    <3>1. b \in Slots /\ b \in Positions
      <4>1. b \in Slots
        BY <1>0, <2>4 DEF Slots
      <4> QED BY <4>1, VectorCoversSlots
    <3>2. ASSUME NEW a \in Positions, a <= b PROVE a \notin vec
      <4>1. a \in 0 .. m - 1
        BY <2>4, <3>2 DEF Positions
      <4>2. a \in Slots
        BY <1>0, <2>4, <4>1 DEF Slots
      <4> QED BY <2>2, <2>4, <4>1, <4>2
    <3> QED BY <3>1, <3>2 DEF TrailingZeros, testBit
  <2>7. ASSUME NEW b \in Z PROVE b \in 0 .. m - 1
    <3>1. b \in Slots \ vec /\ b \in 0 .. W - 1
      BY TrailingZerosAreSlots
    <3> SUFFICES ASSUME m <= b PROVE FALSE
      BY <1>0, <2>4, <3>1
    <3>2. m \div W = 0 /\ b \div W = 0
      BY <1>0, <2>4, <3>1, WordOfPosition
    <3>3. m \in Positions /\ m \in vec
      BY VectorCoversSlots
    <3> QED BY <3>2, <3>3 DEF TrailingZeros, testBit
  <2>8. Z = 0 .. m - 1
    BY <2>6, <2>7
  <2>9. Cardinality(Z) = m
    BY <2>4, <2>8, FS_Interval
  <2> HIDE DEF Z
  <2> QED BY <2>3, <2>4, <2>9 DEF getFirstOne, Z
<1> QED BY <1>1, <1>2

LEMMA GetFirstOneRange ==
  ASSUME NEW vec
  PROVE  getFirstOne(vec) \in Slots \union {INVALID_INDEX}
BY FiniteVector, BitVectorAssumption DEF getFirstOne, Slots
==============================================================================
